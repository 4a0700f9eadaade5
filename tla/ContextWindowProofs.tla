------------------------- MODULE ContextWindowProofs -------------------------
(***************************************************************************)
(* What holds of every instance of ContextWindow: any number of lines and  *)
(* resets, any sizes of the history and of the evidence kept.              *)
(***************************************************************************)
EXTENDS ContextWindow, SequenceTheorems, TLAPS

-----------------------------------------------------------------------------
(* The invariant                                                           *)

Context == [history : Nat, memory : BOOLEAN, crowded : BOOLEAN, observed : BOOLEAN]
Worker == [at : {"free", "spawned", "asking"}, line : 0 .. MaxLines, prompt : BOOLEAN,
           memory : BOOLEAN, scene : 0 .. MaxResets, tier : 0 .. 2, attempt : 0 .. MaxAttempts]
Summary == [at : {"none", "waiting", "asking"}, texts : Nat, lines : Nat, attempt : 0 .. MaxAttempts]

Counted ==
  /\ scene \in 0 .. MaxResets /\ lines \in 0 .. MaxLines /\ tier \in 0 .. 2 /\ ended \in BOOLEAN
  /\ texts \in Nat /\ texts <= lines + scene
ContextTyped == context \in Context
RecentTyped == recent \in Seq(1 .. MaxLines) /\ Len(recent) <= MaxRecent
WorkerInv ==
  /\ worker \in Worker
  /\ worker.at # "free" => worker.line >= 1
  /\ worker.at = "asking" => worker.tier <= tier
SummaryInv ==
  /\ summary \in Summary /\ summary.texts <= texts
  /\ summary.at = "waiting" => lines >= 1
  /\ summary.at # "asking" => summary.lines = 0

\* A history beyond its limit is what summaries have drained and given back: at
\* most the limit for every line claimed, and for the present one.
HistoryInv ==
  /\ summary.at = "none" => context.history <= lines * MaxHistory + MaxHistory
  /\ summary.at = "waiting" => context.history <= lines * MaxHistory
  /\ summary.at = "asking" =>
       /\ summary.lines <= lines * MaxHistory
       /\ context.history + summary.lines <= lines * MaxHistory + MaxHistory

ContextInv == Counted /\ ContextTyped /\ RecentTyped /\ WorkerInv /\ SummaryInv /\ HistoryInv
-----------------------------------------------------------------------------
(* Lemmas                                                                  *)

LEMMA ContextSizes ==
  /\ MaxLines \in Nat /\ MaxResets \in Nat
  /\ MaxHistory \in Nat \ {0} /\ KeptLines \in Nat \ {0}
  /\ MaxAttempts \in Nat \ {0} /\ MaxRecent \in Nat \ {0}
BY ContextAssumption

LEMMA Times ==
  ASSUME NEW n \in Nat
  PROVE  /\ n * MaxHistory \in Nat
         /\ (n + 1) * MaxHistory = n * MaxHistory + MaxHistory
         /\ n >= 1 => MaxHistory <= n * MaxHistory
<1>1. MaxHistory \in Nat
  BY ContextSizes
<1>2. n * MaxHistory \in Nat /\ (n + 1) * MaxHistory = n * MaxHistory + MaxHistory
  BY <1>1
<1>3. ASSUME n >= 1 PROVE MaxHistory <= n * MaxHistory
  <2>1. PICK k \in Nat : n = k + 1
    <3>1. n - 1 \in Nat /\ n = (n - 1) + 1
      BY <1>3
    <3> QED
      BY <3>1
  <2>2. (k + 1) * MaxHistory = k * MaxHistory + MaxHistory /\ k * MaxHistory \in Nat
    BY <1>1
  <2> QED
    BY <1>1, <2>1, <2>2
<1> QED
  BY <1>2, <1>3

LEMMA TimesGrows ==
  ASSUME NEW m \in Nat, NEW n \in Nat, m <= n
  PROVE  m * MaxHistory <= n * MaxHistory
<1>1. MaxHistory \in Nat
  BY ContextSizes
<1>2. PICK k \in Nat : n = m + k
  <2>1. n - m \in Nat /\ n = m + (n - m)
    OBVIOUS
  <2> QED
    BY <2>1
<1>3. (m + k) * MaxHistory = m * MaxHistory + k * MaxHistory
  BY <1>1
<1>4. m * MaxHistory \in Nat /\ k * MaxHistory \in Nat
  BY <1>1
<1> QED
  BY <1>2, <1>3, <1>4

\* The newest n of a sequence: no more than n of it, in their order.
LEMMA LastOfKeeps ==
  ASSUME NEW S, NEW s \in Seq(S), NEW n \in Nat \ {0}
  PROVE  /\ LastOf(s, n) \in Seq(S)
         /\ Len(LastOf(s, n)) <= n
<1> DEFINE m == IF Len(s) > n THEN Len(s) - n + 1 ELSE 1
<1>1. m \in Nat /\ m >= 1 /\ Len(s) \in Nat /\ Len(s) - m + 1 <= n
  OBVIOUS
<1>2. LastOf(s, n) = SubSeq(s, m, Len(s))
  BY DEF LastOf
<1> HIDE DEF m
<1>3. \A i \in m .. Len(s) : s[i] \in S
  BY <1>1
<1>4. /\ SubSeq(s, m, Len(s)) \in Seq(S)
      /\ Len(SubSeq(s, m, Len(s))) = IF m <= Len(s) THEN Len(s) - m + 1 ELSE 0
      /\ \A i \in 1 .. Len(s) - m + 1 : SubSeq(s, m, Len(s))[i] = s[m + i - 1]
  BY <1>1, <1>3, SubSeqProperties
<1> QED
  BY <1>1, <1>2, <1>4

\* What the worker remembers is a line that was claimed, and no more lines
\* than are kept.
LEMMA RememberKeeps ==
  ASSUME RecentTyped, NEW n \in 1 .. MaxLines, NEW s, Remember(n, s)
  PROVE  RecentTyped'
<1>1. recent \in Seq(1 .. MaxLines) /\ MaxRecent \in Nat \ {0}
  BY ContextSizes DEF RecentTyped
<1>2. CASE recent' = recent
  BY <1>2 DEF RecentTyped
<1>3. CASE recent' = LastOf(Append(recent, n), MaxRecent)
  <2>1. Append(recent, n) \in Seq(1 .. MaxLines)
    BY <1>1
  <2>2. recent' \in Seq(1 .. MaxLines) /\ Len(recent') <= MaxRecent
    BY <1>1, <1>3, <2>1, LastOfKeeps
  <2> QED
    BY <2>2 DEF RecentTyped
<1> QED
  BY <1>2, <1>3 DEF Remember

LEMMA NoContextTyped == NoContext \in Context /\ NoContext.history = 0
BY DEF NoContext, Context

\* A line of the scene leaves the history within its limit, or as it was.
LEMMA AddLineTyped ==
  ASSUME NEW c \in Context, NEW d \in AddLine(c)
  PROVE  d \in Context /\ (d.history <= c.history \/ d.history <= MaxHistory)
<1>1. CASE d = c
  BY <1>1 DEF Context
<1>2. CASE d # c
  <2>1. PICK over \in {c.crowded, TRUE} :
          d \in {[c EXCEPT !.history = h, !.crowded = over, !.observed = TRUE] :
                   h \in HistoryAfter(c)}
    BY <1>2 DEF AddLine
  <2>2. PICK h \in HistoryAfter(c) :
          d = [c EXCEPT !.history = h, !.crowded = over, !.observed = TRUE]
    BY <2>1
  <2>3. h \in Nat /\ (h <= c.history \/ h <= MaxHistory)
    BY <2>2, ContextSizes DEF HistoryAfter, UpTo, Context
  <2>4. over \in BOOLEAN
    BY <2>1 DEF Context
  <2>5. d \in Context /\ d.history = h
    BY <2>2, <2>3, <2>4 DEF Context
  <2> QED
    BY <2>3, <2>5
<1> QED
  BY <1>1, <1>2

LEMMA FreeTyped == Free \in Worker /\ Free.at = "free"
BY ContextSizes DEF Free, Worker

LEMMA NoSummaryTyped == NoSummary \in Summary /\ NoSummary.at = "none" /\ NoSummary.texts = 0 /\ NoSummary.lines = 0
BY ContextSizes DEF NoSummary, Summary
LEMMA AsksTyped ==
  ASSUME Counted, worker \in Worker, NEW t \in 0 .. 2
  PROVE  [worker EXCEPT !.tier = t, !.attempt = 1] \in Worker
<1>1. 1 \in 0 .. MaxAttempts
  BY ContextSizes
<1> QED
  BY <1>1 DEF Worker

\* Nothing of the worker and the summary depends on the context.
LEMMA WorkerKept ==
  ASSUME WorkerInv, worker' = worker, tier' = tier
  PROVE  WorkerInv'
BY DEF WorkerInv

LEMMA FreeWorks ==
  ASSUME worker' = Free
  PROVE  WorkerInv'
BY FreeTyped DEF WorkerInv

LEMMA SummaryKept ==
  ASSUME Counted, SummaryInv, summary' = summary, texts' \in Nat, texts' >= texts, lines' \in Nat, lines' >= lines
  PROVE  SummaryInv'
<1>1. summary.texts \in Nat
  BY DEF SummaryInv, Summary
<1> QED
  BY <1>1 DEF SummaryInv, Counted

LEMMA HistoryKept ==
  ASSUME HistoryInv, lines' = lines, context' = context, summary' = summary
  PROVE  HistoryInv'
BY DEF HistoryInv

LEMMA EvidenceKept ==
  ASSUME RecentTyped, recent' = recent
  PROVE  RecentTyped'
BY DEF RecentTyped

LEMMA EvidenceDropped ==
  ASSUME recent' = <<>>
  PROVE  RecentTyped'
BY ContextSizes DEF RecentTyped

\* A history that a line leaves within its limit, or no longer than it was, is
\* within what summaries may give back.
LEMMA HistoryAdds ==
  ASSUME Counted, ContextTyped, SummaryInv, HistoryInv,
         context' \in Context, context'.history <= context.history \/ context'.history <= MaxHistory,
         lines' = lines, summary' = summary
  PROVE  HistoryInv'
<1> DEFINE M == lines * MaxHistory
<1>1. /\ lines \in Nat /\ MaxHistory \in Nat
      /\ context.history \in Nat /\ context'.history \in Nat /\ summary.lines \in Nat
  BY ContextSizes DEF Counted, ContextTyped, Context, SummaryInv, Summary
<1>2. M \in Nat /\ (lines >= 1 => MaxHistory <= M)
  BY <1>1, Times
<1> HIDE DEF M
<1>3. /\ summary.at = "none" => context.history <= M + MaxHistory
      /\ summary.at = "waiting" => context.history <= M /\ lines >= 1
      /\ summary.at = "asking" => summary.lines <= M /\ context.history + summary.lines <= M + MaxHistory
  BY DEF HistoryInv, SummaryInv, M
<1>4. /\ summary.at = "none" => context'.history <= M + MaxHistory
      /\ summary.at = "waiting" => context'.history <= M
      /\ summary.at = "asking" => summary.lines <= M /\ context'.history + summary.lines <= M + MaxHistory
  BY <1>1, <1>2, <1>3
<1> QED
  BY <1>4 DEF HistoryInv, M
-----------------------------------------------------------------------------
(* The steps                                                               *)

LEMMA ContextInitInv == ContextInit => ContextInv
<1> SUFFICES ASSUME ContextInit PROVE ContextInv
  OBVIOUS
<1> USE DEF ContextInit
<1>1. Counted
  <2>1. scene \in 0 .. MaxResets /\ lines \in 0 .. MaxLines /\ texts \in Nat /\ texts <= lines + scene
    BY ContextSizes
  <2>2. tier \in 0 .. 2
    OBVIOUS
  <2>4. ended = FALSE
    OBVIOUS
  <2> QED
    BY <2>1, <2>2, <2>4 DEF Counted
<1>2. ContextTyped
  BY NoContextTyped DEF ContextTyped
<1>3. RecentTyped
  BY ContextSizes DEF RecentTyped
<1>4. WorkerInv
  BY FreeTyped DEF WorkerInv
<1>5. SummaryInv
  BY NoSummaryTyped DEF SummaryInv
<1>6. HistoryInv
  BY NoContextTyped, NoSummaryTyped, ContextSizes, Times DEF HistoryInv
<1> QED
  BY <1>1, <1>2, <1>3, <1>4, <1>5, <1>6 DEF ContextInv

LEMMA RegionChangesInv == ContextInv /\ RegionChanges => ContextInv'
<1> SUFFICES ASSUME ContextInv, RegionChanges PROVE ContextInv'
  OBVIOUS
<1> USE DEF RegionChanges, EndScene
<1>1. Counted'
  BY ContextSizes DEF ContextInv, Counted
<1>2. context' \in Context /\ context'.history <= MaxHistory
  BY NoContextTyped, ContextSizes
<1>3. ContextTyped' /\ HistoryInv'
  BY <1>2, HistoryAdds DEF ContextInv, ContextTyped
<1>4. RecentTyped'
  BY EvidenceDropped
<1>5. WorkerInv'
  BY WorkerKept DEF ContextInv
<1>6. SummaryInv'
  BY SummaryKept DEF ContextInv, Counted
<1> QED
  BY <1>1, <1>3, <1>4, <1>5, <1>6 DEF ContextInv

LEMMA GapExpiresInv == ContextInv /\ GapExpires => ContextInv'
<1> SUFFICES ASSUME ContextInv, GapExpires PROVE ContextInv'
  OBVIOUS
<1>1. PICK base \in AddLine(NoContext) : EndScene(base)
  BY DEF GapExpires
<1>2. UNCHANGED <<texts, lines, tier, worker, summary, ended>>
  BY DEF GapExpires
<1>3. Counted'
  BY <1>1, <1>2, ContextSizes DEF ContextInv, Counted, EndScene
<1>4. context' \in Context /\ context'.history <= MaxHistory
  BY <1>1, AddLineTyped, NoContextTyped, ContextSizes DEF EndScene, Context
<1>5. ContextTyped' /\ HistoryInv'
  BY <1>2, <1>4, HistoryAdds DEF ContextInv, ContextTyped
<1>6. RecentTyped'
  BY <1>1, EvidenceDropped DEF EndScene
<1>7. WorkerInv'
  BY <1>2, WorkerKept DEF ContextInv
<1>8. SummaryInv'
  BY <1>2, SummaryKept DEF ContextInv, Counted
<1> QED
  BY <1>3, <1>5, <1>6, <1>7, <1>8 DEF ContextInv

LEMMA RepeatsLineInv == ContextInv /\ RepeatsLine => ContextInv'
<1> SUFFICES ASSUME ContextInv, RepeatsLine PROVE ContextInv'
  OBVIOUS
<1> USE DEF RepeatsLine
<1>1. Counted'
  BY DEF ContextInv, Counted
<1>2. context' \in Context /\ (context'.history <= context.history \/ context'.history <= MaxHistory)
  BY AddLineTyped DEF ContextInv, ContextTyped
<1>3. ContextTyped' /\ HistoryInv'
  BY <1>2, HistoryAdds DEF ContextInv, ContextTyped
<1>4. RecentTyped'
  BY EvidenceKept DEF ContextInv
<1>5. WorkerInv'
  BY WorkerKept DEF ContextInv
<1>6. SummaryInv'
  BY SummaryKept DEF ContextInv, Counted
<1> QED
  BY <1>1, <1>3, <1>4, <1>5, <1>6 DEF ContextInv
\* A claim adds a line, and with it room for one more history.
LEMMA ClaimLineInv == ContextInv /\ ClaimLine => ContextInv'
<1> SUFFICES ASSUME ContextInv, ClaimLine PROVE ContextInv'
  OBVIOUS
<1>0. /\ lines < MaxLines /\ lines' = lines + 1 /\ texts' = texts + 1
      /\ UNCHANGED <<scene, recent, tier, ended>>
      /\ context' \in AddLine(context)
  BY DEF ClaimLine
<1>1. Counted'
  BY <1>0, ContextSizes DEF ContextInv, Counted
<1>2. context' \in Context /\ (context'.history <= context.history \/ context'.history <= MaxHistory)
  BY <1>0, AddLineTyped DEF ContextInv, ContextTyped
<1>3. RecentTyped'
  BY <1>0, EvidenceKept DEF ContextInv
<1>4. WorkerInv'
  <2>1. worker' = [Free EXCEPT !.at = "spawned", !.line = lines + 1, !.prompt = Prompt(context, tier)]
    BY DEF ClaimLine
  <2>2. Prompt(context, tier) \in BOOLEAN
    BY DEF Prompt
  <2>3. lines + 1 \in 0 .. MaxLines /\ lines + 1 >= 1
    BY <1>0, ContextSizes DEF ContextInv, Counted
  <2>4. worker' \in Worker /\ worker'.at = "spawned" /\ worker'.line = lines + 1
    BY <2>1, <2>2, <2>3, FreeTyped DEF Worker
  <2> QED
    BY <2>3, <2>4 DEF WorkerInv
<1>5. \/ summary' = summary
      \/ summary.at = "none" /\ summary' = [NoSummary EXCEPT !.at = "waiting", !.texts = texts + 1]
  BY DEF ClaimLine
<1>6. texts \in Nat /\ lines \in Nat /\ texts' \in Nat /\ lines' \in Nat /\ lines' >= 1
  BY <1>0 DEF ContextInv, Counted
<1>7. CASE summary' = summary
  <2>1. SummaryInv'
    BY <1>0, <1>6, <1>7, SummaryKept DEF ContextInv
  <2>2. HistoryInv'
    <3> DEFINE M == lines * MaxHistory
    <3>1. /\ MaxHistory \in Nat
          /\ context.history \in Nat /\ context'.history \in Nat /\ summary.lines \in Nat
      BY <1>2, ContextSizes DEF ContextInv, ContextTyped, Context, SummaryInv, Summary
    <3>2. M \in Nat /\ lines' * MaxHistory = M + MaxHistory
      BY <1>0, <1>6, Times
    <3> HIDE DEF M
    <3>3. /\ summary.at = "none" => context.history <= M + MaxHistory
          /\ summary.at = "waiting" => context.history <= M
          /\ summary.at = "asking" => summary.lines <= M /\ context.history + summary.lines <= M + MaxHistory
      BY DEF ContextInv, HistoryInv, M
    <3>4. /\ summary.at = "none" => context'.history <= (M + MaxHistory) + MaxHistory
          /\ summary.at = "waiting" => context'.history <= M + MaxHistory
          /\ summary.at = "asking" => /\ summary.lines <= M + MaxHistory
                                      /\ context'.history + summary.lines <= (M + MaxHistory) + MaxHistory
      BY <1>2, <3>1, <3>2, <3>3
    <3> QED
      BY <1>7, <3>2, <3>4 DEF HistoryInv
  <2> QED
    BY <1>1, <1>2, <1>3, <1>4, <2>1, <2>2 DEF ContextInv, ContextTyped
<1>8. CASE summary.at = "none" /\ summary' = [NoSummary EXCEPT !.at = "waiting", !.texts = texts + 1]
  <2>1. summary' \in Summary /\ summary'.at = "waiting" /\ summary'.texts = texts' /\ summary'.lines = 0
    BY <1>0, <1>6, <1>8, NoSummaryTyped DEF Summary
  <2>2. SummaryInv'
    BY <1>6, <2>1 DEF SummaryInv
  <2>3. HistoryInv'
    <3> DEFINE M == lines * MaxHistory
    <3>1. /\ MaxHistory \in Nat /\ context.history \in Nat /\ context'.history \in Nat
      BY <1>2, ContextSizes DEF ContextInv, ContextTyped, Context
    <3>2. M \in Nat /\ lines' * MaxHistory = M + MaxHistory
      BY <1>0, <1>6, Times
    <3> HIDE DEF M
    <3>3. context.history <= M + MaxHistory
      BY <1>8 DEF ContextInv, HistoryInv, M
    <3>4. context'.history <= M + MaxHistory
      BY <1>2, <3>1, <3>2, <3>3
    <3> QED
      BY <2>1, <3>2, <3>4 DEF HistoryInv
  <2> QED
    BY <1>1, <1>2, <1>3, <1>4, <2>2, <2>3 DEF ContextInv, ContextTyped
<1> QED
  BY <1>5, <1>7, <1>8

LEMMA SessionStopsInv == ContextInv /\ SessionStops => ContextInv'
<1> SUFFICES ASSUME ContextInv, SessionStops PROVE ContextInv'
  OBVIOUS
<1>0. /\ ended' = TRUE /\ worker' = Free
      /\ UNCHANGED <<scene, texts, lines, context, recent, tier, summary>>
  BY DEF SessionStops
<1>1. Counted'
  BY <1>0 DEF ContextInv, Counted
<1>2. ContextTyped' /\ HistoryInv'
  BY <1>0, HistoryKept DEF ContextInv, ContextTyped
<1>3. RecentTyped'
  BY <1>0, EvidenceKept DEF ContextInv
<1>4. WorkerInv'
  BY <1>0, FreeWorks
<1>5. SummaryInv'
  BY <1>0, SummaryKept DEF ContextInv, Counted
<1> QED
  BY <1>1, <1>2, <1>3, <1>4, <1>5 DEF ContextInv

\* What a step of the worker leaves alone, whatever becomes of the worker, the
\* tier and the evidence.
LEMMA WorkerLeaves ==
  ASSUME ContextInv, UNCHANGED <<scene, texts, lines, context, summary, ended>>, tier' \in 0 .. 2
  PROVE  Counted' /\ ContextTyped' /\ HistoryInv' /\ SummaryInv'
<1>1. Counted'
  BY DEF ContextInv, Counted
<1>2. ContextTyped' /\ HistoryInv'
  BY HistoryKept DEF ContextInv, ContextTyped
<1>3. SummaryInv'
  BY SummaryKept DEF ContextInv, Counted
<1> QED
  BY <1>1, <1>2, <1>3

LEMMA BeginsInv == ContextInv /\ Begins => ContextInv'
<1> SUFFICES ASSUME ContextInv, Begins PROVE ContextInv'
  OBVIOUS
<1> DEFINE asked == Prompt(context, IF tier > 0 THEN 1 ELSE 0)
<1>0. /\ worker.at = "spawned"
      /\ worker' = [worker EXCEPT !.at = "asking", !.attempt = 1, !.scene = scene, !.tier = tier, !.memory = asked]
      /\ UNCHANGED <<scene, texts, lines, context, recent, tier, summary, ended>>
  BY DEF Begins
<1>1. asked \in BOOLEAN
  BY DEF Prompt
<1> HIDE DEF asked
<1>2. /\ worker \in Worker /\ worker.line >= 1 /\ tier \in 0 .. 2 /\ scene \in 0 .. MaxResets
      /\ 1 \in 0 .. MaxAttempts
  BY <1>0, ContextSizes DEF ContextInv, WorkerInv, Counted
<1>3. worker' \in Worker /\ worker'.line = worker.line /\ worker'.tier = tier'
  BY <1>0, <1>1, <1>2 DEF Worker
<1>4. WorkerInv'
  <2>1. tier' = tier
    BY <1>0
  <2>2. worker'.tier <= tier'
    BY <1>2, <1>3, <2>1
  <2>3. worker'.line >= 1
    BY <1>2, <1>3
  <2> QED
    BY <1>3, <2>2, <2>3 DEF WorkerInv
<1>5. Counted' /\ ContextTyped' /\ HistoryInv' /\ SummaryInv'
  BY <1>0, <1>2, WorkerLeaves
<1>6. RecentTyped'
  BY <1>0, EvidenceKept DEF ContextInv
<1> QED
  BY <1>4, <1>5, <1>6 DEF ContextInv

LEMMA PassthroughInv == ContextInv /\ Passthrough => ContextInv'
<1> SUFFICES ASSUME ContextInv, Passthrough PROVE ContextInv'
  OBVIOUS
<1>0. /\ worker' = Free
      /\ UNCHANGED <<scene, texts, lines, context, recent, tier, summary, ended>>
  BY DEF Passthrough, Done
<1>1. Counted' /\ ContextTyped' /\ HistoryInv' /\ SummaryInv'
  BY <1>0, WorkerLeaves DEF ContextInv, Counted
<1>2. RecentTyped'
  BY <1>0, EvidenceKept DEF ContextInv
<1>3. WorkerInv'
  BY <1>0, FreeWorks
<1> QED
  BY <1>1, <1>2, <1>3 DEF ContextInv

LEMMA LeakRetriesInv == ContextInv /\ LeakRetries => ContextInv' /\ tier' <= tier
<1> SUFFICES ASSUME ContextInv, LeakRetries PROVE ContextInv' /\ tier' <= tier
  OBVIOUS
<1>0. /\ worker.at = "asking" /\ tier' = 0
      /\ worker' = [worker EXCEPT !.tier = 0, !.attempt = 1]
      /\ UNCHANGED <<scene, texts, lines, context, recent, summary, ended>>
  BY DEF LeakRetries, At
<1>1. worker \in Worker /\ worker.line >= 1 /\ tier \in 0 .. 2
  BY <1>0 DEF ContextInv, WorkerInv, Counted
<1>2. worker' \in Worker
  BY <1>0, <1>1, AsksTyped DEF ContextInv
<1>3. worker'.line = worker.line /\ worker'.tier = tier'
  BY <1>0, <1>1 DEF Worker
<1>4. WorkerInv'
  BY <1>0, <1>1, <1>2, <1>3 DEF WorkerInv
<1>5. Counted' /\ ContextTyped' /\ HistoryInv' /\ SummaryInv'
  BY <1>0, WorkerLeaves
<1>6. RecentTyped'
  BY <1>0, EvidenceKept DEF ContextInv
<1> QED
  BY <1>0, <1>1, <1>4, <1>5, <1>6 DEF ContextInv

\* An answer asked for with context was asked for at a tier above zero.
LEMMA ContextHasTier ==
  ASSUME ContextUsed
  PROVE  worker.tier \in 1 .. 2
BY DEF ContextUsed

LEMMA SucceedsInv == ContextInv /\ Succeeds => ContextInv' /\ tier' <= tier
<1> SUFFICES ASSUME ContextInv, Succeeds PROVE ContextInv' /\ tier' <= tier
  OBVIOUS
<1>0. /\ worker.at = "asking" /\ Remember(worker.line, worker.scene) /\ worker' = Free
      /\ tier' \in IF ContextUsed THEN {worker.tier - 1, worker.tier} ELSE {tier}
      /\ UNCHANGED <<scene, texts, lines, context, summary, ended>>
  BY DEF Succeeds, Done
<1>1. /\ worker.line \in 1 .. MaxLines
      /\ worker.tier \in 0 .. 2 /\ worker.tier <= tier /\ tier \in 0 .. 2
  BY <1>0, ContextSizes DEF ContextInv, WorkerInv, Worker, Counted
<1>2. tier' \in 0 .. 2 /\ tier' <= tier
  BY <1>0, <1>1, ContextHasTier
<1>3. Counted' /\ ContextTyped' /\ HistoryInv' /\ SummaryInv'
  BY <1>0, <1>2, WorkerLeaves
<1>4. RecentTyped'
  BY <1>0, <1>1, RememberKeeps DEF ContextInv
<1>5. WorkerInv'
  BY <1>0, FreeWorks
<1> QED
  BY <1>2, <1>3, <1>4, <1>5 DEF ContextInv

LEMMA FailsInv == ContextInv /\ Fails => ContextInv'
<1> SUFFICES ASSUME ContextInv, Fails PROVE ContextInv'
  OBVIOUS
<1>0. /\ worker.at = "asking"
      /\ UNCHANGED <<scene, texts, lines, context, recent, tier, summary, ended>>
      /\ (worker.attempt < MaxAttempts /\ worker' = [worker EXCEPT !.attempt = worker.attempt + 1]) \/ worker' = Free
  BY DEF Fails, Done
<1>1. WorkerInv'
  <2>1. CASE worker.attempt < MaxAttempts /\ worker' = [worker EXCEPT !.attempt = worker.attempt + 1]
    <3>1. worker \in Worker /\ worker.line >= 1 /\ worker.tier <= tier
      BY <1>0 DEF ContextInv, WorkerInv
    <3>2. worker.attempt + 1 \in 0 .. MaxAttempts
      BY <2>1, <3>1, ContextSizes DEF Worker
    <3>3. worker' \in Worker /\ worker'.line = worker.line /\ worker'.tier = worker.tier
      BY <2>1, <3>1, <3>2 DEF Worker
    <3> QED
      BY <1>0, <3>1, <3>3 DEF WorkerInv
  <2> QED
    BY <1>0, <2>1, FreeWorks
<1>2. Counted' /\ ContextTyped' /\ HistoryInv' /\ SummaryInv'
  BY <1>0, WorkerLeaves DEF ContextInv, Counted
<1>3. RecentTyped'
  BY <1>0, EvidenceKept DEF ContextInv
<1> QED
  BY <1>1, <1>2, <1>3 DEF ContextInv

LEMMA TimesOutInv == ContextInv /\ TimesOut => ContextInv' /\ tier' <= tier
<1> SUFFICES ASSUME ContextInv, TimesOut PROVE ContextInv' /\ tier' <= tier
  OBVIOUS
<1>0. /\ worker.at = "asking" /\ ContextUsed /\ tier' = worker.tier - 1
      /\ worker' = [worker EXCEPT !.tier = worker.tier - 1, !.attempt = 1]
      /\ UNCHANGED <<scene, texts, lines, context, recent, summary, ended>>
  BY DEF TimesOut, At
<1>1. worker \in Worker /\ worker.line >= 1 /\ worker.tier <= tier /\ tier \in 0 .. 2
  BY <1>0 DEF ContextInv, WorkerInv, Counted
<1>2. worker.tier - 1 \in 0 .. 2 /\ tier' \in 0 .. 2 /\ tier' <= tier
  BY <1>0, <1>1, ContextHasTier
<1>3. worker' \in Worker
  BY <1>0, <1>1, <1>2, AsksTyped DEF ContextInv
<1>4. worker'.line = worker.line /\ worker'.tier = tier'
  BY <1>0, <1>1 DEF Worker
<1>5. WorkerInv'
  BY <1>1, <1>2, <1>3, <1>4 DEF WorkerInv
<1>6. Counted' /\ ContextTyped' /\ HistoryInv' /\ SummaryInv'
  BY <1>0, <1>2, WorkerLeaves
<1>7. RecentTyped'
  BY <1>0, EvidenceKept DEF ContextInv
<1> QED
  BY <1>2, <1>5, <1>6, <1>7 DEF ContextInv
\* What a step of the summary leaves alone.
LEMMA SummaryLeaves ==
  ASSUME ContextInv, UNCHANGED <<scene, texts, lines, recent, tier, worker, ended>>
  PROVE  Counted' /\ RecentTyped' /\ WorkerInv'
<1>1. Counted'
  BY DEF ContextInv, Counted
<1>2. RecentTyped'
  BY EvidenceKept DEF ContextInv
<1>3. WorkerInv'
  BY WorkerKept DEF ContextInv
<1> QED
  BY <1>1, <1>2, <1>3

LEMMA NoneWaits ==
  ASSUME ContextInv, summary' = NoSummary, texts' = texts, lines' = lines,
         context' \in Context, context'.history <= lines * MaxHistory + MaxHistory
  PROVE  SummaryInv' /\ HistoryInv'
<1>1. SummaryInv'
  BY NoSummaryTyped DEF ContextInv, SummaryInv, Counted
<1>2. HistoryInv'
  BY NoSummaryTyped DEF HistoryInv
<1> QED
  BY <1>1, <1>2

\* The summary takes all but the last lines of the history.
LEMMA SummaryWakesInv == ContextInv /\ SummaryWakes => ContextInv'
<1> SUFFICES ASSUME ContextInv, SummaryWakes PROVE ContextInv'
  OBVIOUS
<1> DEFINE old == context.history - KeptLines
           M == lines * MaxHistory
<1>0. summary.at = "waiting" /\ UNCHANGED <<scene, texts, lines, recent, tier, worker, ended>>
  BY DEF SummaryWakes
<1>1. Counted' /\ RecentTyped' /\ WorkerInv'
  BY <1>0, SummaryLeaves
<1>2. /\ context \in Context /\ context.history \in Nat /\ MaxHistory \in Nat /\ KeptLines \in Nat
      /\ lines \in Nat /\ 1 \in 0 .. MaxAttempts
  BY ContextSizes DEF ContextInv, ContextTyped, Context, Counted
<1>3. M \in Nat /\ context.history <= M
  BY <1>0, <1>2, Times DEF ContextInv, HistoryInv
<1>4. CASE summary' = NoSummary /\ context' = context
  <2>1. context'.history <= lines * MaxHistory + MaxHistory
    BY <1>2, <1>3, <1>4
  <2>2. SummaryInv' /\ HistoryInv'
    BY <1>0, <1>2, <1>4, <2>1, NoneWaits
  <2> QED
    BY <1>1, <1>2, <1>4, <2>2 DEF ContextInv, ContextTyped
<1>5. CASE /\ old > 0
           /\ summary' = [NoSummary EXCEPT !.at = "asking", !.attempt = 1, !.lines = old]
           /\ context' = [context EXCEPT !.history = KeptLines, !.crowded = FALSE]
  <2> HIDE DEF M
  <2>1. old \in Nat /\ old + KeptLines = context.history
    BY <1>2, <1>5
  <2>2. context' \in Context /\ context'.history = KeptLines
    BY <1>2, <1>5 DEF Context
  <2>3. old \in Nat /\ NoSummary \in Summary /\ NoSummary.texts = 0 /\ 1 \in 0 .. MaxAttempts
    BY <1>2, <2>1, NoSummaryTyped
  <2>4. summary' = [NoSummary EXCEPT !.at = "asking", !.attempt = 1, !.lines = old]
    BY <1>5
  <2> HIDE DEF old
  <2>5. summary' \in Summary /\ summary'.at = "asking" /\ summary'.lines = old /\ summary'.texts = 0
    BY <2>3, <2>4 DEF Summary
  <2>6. SummaryInv'
    BY <1>0, <2>5 DEF ContextInv, SummaryInv, Counted
  <2>7. summary'.lines <= M /\ context'.history + summary'.lines <= M + MaxHistory
    BY <1>2, <1>3, <2>1, <2>2, <2>5
  <2>8. HistoryInv'
    BY <1>0, <2>5, <2>7 DEF HistoryInv, M
  <2> QED
    BY <1>1, <2>2, <2>6, <2>8 DEF ContextInv, ContextTyped
<1> QED
  BY <1>2, <1>4, <1>5 DEF SummaryWakes

LEMMA CappedTyped ==
  ASSUME NEW c \in Context, NEW d \in Capped(c)
  PROVE  d \in Context /\ d.history <= c.history
<1>1. PICK n \in 0 .. c.history : d = [c EXCEPT !.history = n, !.crowded = FALSE]
  BY DEF Capped
<1>2. n \in Nat /\ n <= c.history
  BY DEF Context
<1>3. d \in Context /\ d.history = n
  BY <1>1, <1>2 DEF Context
<1> QED
  BY <1>2, <1>3

\* The lines given back are those that were taken.
LEMMA SummaryAnswersInv == ContextInv /\ SummaryAnswers => ContextInv'
<1> SUFFICES ASSUME ContextInv, SummaryAnswers PROVE ContextInv'
  OBVIOUS
<1> DEFINE M == lines * MaxHistory
           told == [context EXCEPT !.memory = TRUE]
           given == [context EXCEPT !.history = context.history + summary.lines, !.observed = TRUE]
<1>0. summary.at = "asking" /\ UNCHANGED <<scene, texts, lines, recent, tier, worker, ended>>
  BY DEF SummaryAnswers
<1>1. Counted' /\ RecentTyped' /\ WorkerInv'
  BY <1>0, SummaryLeaves
<1>2. /\ context \in Context /\ context.history \in Nat /\ MaxHistory \in Nat
      /\ summary \in Summary /\ summary.lines \in Nat
  BY ContextSizes DEF ContextInv, ContextTyped, Context, SummaryInv, Summary
<1>3. lines \in Nat /\ M \in Nat /\ context.history + summary.lines <= M + MaxHistory
  BY <1>0, Times DEF ContextInv, HistoryInv, Counted
<1>4. told \in Context /\ told.history = context.history
  BY <1>2 DEF Context
<1>5. given \in Context /\ given.history = context.history + summary.lines
  <2> DEFINE n == context.history + summary.lines
  <2>1. n \in Nat
    BY <1>2
  <2>2. given = [context EXCEPT !.history = n, !.observed = TRUE]
    OBVIOUS
  <2> HIDE DEF n, given
  <2>3. given \in Context /\ given.history = n
    BY <1>2, <2>1, <2>2 DEF Context
  <2> QED
    BY <2>3 DEF n
<1>6. \/ summary' = NoSummary /\ context' \in Capped(told) \cup Capped(given)
      \/ summary.attempt < MaxAttempts /\ summary' = [summary EXCEPT !.attempt = summary.attempt + 1] /\ context' = context
      \/ summary' = NoSummary /\ context' = context
  BY DEF SummaryAnswers
<1> HIDE DEF told, given, M
<1>7. CASE summary' = NoSummary /\ (context' \in Capped(told) \cup Capped(given) \/ context' = context)
  <2>1. context' \in Context /\ context'.history <= context.history + summary.lines
    <3>1. CASE context' \in Capped(told)
      <4>1. context' \in Context /\ context'.history <= told.history
        BY <1>4, <3>1, CappedTyped
      <4>2. context'.history \in Nat
        BY <4>1 DEF Context
      <4> QED
        BY <1>2, <1>4, <4>1, <4>2
    <3>2. CASE context' \in Capped(given)
      BY <1>5, <3>2, CappedTyped
    <3>3. CASE context' = context
      BY <1>2, <3>3
    <3> QED
      BY <1>7, <3>1, <3>2, <3>3
  <2>2. context'.history <= M + MaxHistory
    <3>1. context'.history \in Nat
      BY <2>1 DEF Context
    <3> QED
      BY <1>2, <1>3, <2>1, <3>1
  <2>3. SummaryInv' /\ HistoryInv'
    BY <1>0, <1>7, <2>1, <2>2, NoneWaits DEF M
  <2> QED
    BY <1>1, <2>1, <2>3 DEF ContextInv, ContextTyped
<1>8. CASE /\ summary.attempt < MaxAttempts /\ context' = context
           /\ summary' = [summary EXCEPT !.attempt = summary.attempt + 1]
  <2>1. summary.attempt + 1 \in 0 .. MaxAttempts
    BY <1>2, <1>8, ContextSizes DEF Summary
  <2>2. summary' \in Summary /\ summary'.at = summary.at /\ summary'.lines = summary.lines /\ summary'.texts = summary.texts
    BY <1>2, <1>8, <2>1 DEF Summary
  <2>3. SummaryInv'
    BY <1>0, <2>2 DEF ContextInv, SummaryInv
  <2>4. HistoryInv'
    BY <1>0, <1>8, <2>2 DEF ContextInv, HistoryInv
  <2> QED
    BY <1>1, <1>2, <1>8, <2>3, <2>4 DEF ContextInv, ContextTyped
<1> QED
  BY <1>6, <1>7, <1>8

LEMMA ContextStutterInv == ContextInv /\ UNCHANGED contextVars => ContextInv'
<1> SUFFICES ASSUME ContextInv, UNCHANGED contextVars PROVE ContextInv'
  OBVIOUS
<1> USE DEF contextVars
<1>1. Counted'
  BY DEF ContextInv, Counted
<1>2. ContextTyped' /\ HistoryInv'
  BY HistoryKept DEF ContextInv, ContextTyped
<1>3. RecentTyped'
  BY EvidenceKept DEF ContextInv
<1>4. WorkerInv'
  BY WorkerKept DEF ContextInv
<1>5. SummaryInv'
  BY SummaryKept DEF ContextInv, Counted
<1> QED
  BY <1>1, <1>2, <1>3, <1>4, <1>5 DEF ContextInv

\* Every step keeps the invariant and lets the tier only fall.
LEMMA ContextStepInv == ContextInv /\ [ContextNext]_contextVars => ContextInv' /\ tier' <= tier
<1> SUFFICES ASSUME ContextInv, [ContextNext]_contextVars PROVE ContextInv' /\ tier' <= tier
  OBVIOUS
<1>0. tier \in 0 .. 2
  BY DEF ContextInv, Counted
<1>1. CASE RegionChanges
  BY <1>0, <1>1, RegionChangesInv DEF RegionChanges
<1>2. CASE GapExpires
  BY <1>0, <1>2, GapExpiresInv DEF GapExpires
<1>3. CASE RepeatsLine
  BY <1>0, <1>3, RepeatsLineInv DEF RepeatsLine
<1>4. CASE ClaimLine
  BY <1>0, <1>4, ClaimLineInv DEF ClaimLine
<1>5. CASE SessionStops
  BY <1>0, <1>5, SessionStopsInv DEF SessionStops
<1>6. CASE Begins
  BY <1>0, <1>6, BeginsInv DEF Begins
<1>7. CASE Passthrough
  BY <1>0, <1>7, PassthroughInv DEF Passthrough
<1>8. CASE LeakRetries
  BY <1>8, LeakRetriesInv
<1>9. CASE Succeeds
  BY <1>9, SucceedsInv
<1>10. CASE Fails
  BY <1>0, <1>10, FailsInv DEF Fails
<1>11. CASE TimesOut
  BY <1>11, TimesOutInv
<1>12. CASE SummaryWakes
  BY <1>0, <1>12, SummaryWakesInv DEF SummaryWakes
<1>13. CASE SummaryAnswers
  BY <1>0, <1>13, SummaryAnswersInv DEF SummaryAnswers
<1>14. CASE UNCHANGED contextVars
  BY <1>0, <1>14, ContextStutterInv DEF contextVars
<1> QED
  BY <1>1, <1>2, <1>3, <1>4, <1>5, <1>6, <1>7, <1>8, <1>9, <1>10, <1>11, <1>12, <1>13, <1>14
  DEF ContextNext, WorkerStep, SummaryStep

\* The bounds of the type invariant: the history never holds more than one
\* history per line claimed, and one more.
LEMMA IInvTyped == ContextInv => ContextTypeOK
<1> SUFFICES ASSUME ContextInv PROVE ContextTypeOK
  OBVIOUS
<1> DEFINE B == (MaxLines + 1) * MaxHistory
           M == lines * MaxHistory
<1>1. lines \in Nat /\ MaxLines \in Nat /\ lines <= MaxLines /\ MaxHistory \in Nat /\ MaxResets \in Nat
  BY ContextSizes DEF ContextInv, Counted
<1>2. /\ M \in Nat /\ MaxLines * MaxHistory \in Nat /\ M <= MaxLines * MaxHistory
      /\ B = MaxLines * MaxHistory + MaxHistory
  BY <1>1, Times, TimesGrows
<1>3. B \in Nat /\ M + MaxHistory <= B
  BY <1>1, <1>2
<1>4. /\ summary.at = "none" => context.history <= M + MaxHistory
      /\ summary.at = "waiting" => context.history <= M
      /\ summary.at = "asking" => summary.lines <= M /\ context.history + summary.lines <= M + MaxHistory
  BY DEF ContextInv, HistoryInv
<1> HIDE DEF B, M
<1>5. /\ context \in Context /\ context.history \in Nat
      /\ summary \in Summary /\ summary.lines \in Nat /\ summary.at \in {"none", "waiting", "asking"}
  BY DEF ContextInv, ContextTyped, Context, SummaryInv, Summary
<1>6. context.history <= B
  BY <1>1, <1>2, <1>3, <1>4, <1>5
<1>8. scene \in 0 .. MaxResets /\ lines \in 0 .. MaxLines /\ texts \in 0 .. MaxLines + MaxResets
  BY <1>1 DEF ContextInv, Counted
<1>9. context \in [history : 0 .. B, memory : BOOLEAN, crowded : BOOLEAN, observed : BOOLEAN]
  BY <1>3, <1>5, <1>6 DEF Context
<1>10. recent \in Seq(1 .. MaxLines) /\ Len(recent) <= MaxRecent
  BY DEF ContextInv, RecentTyped
<1>11. worker \in [at : {"free", "spawned", "asking"}, line : 0 .. MaxLines, prompt : BOOLEAN,
                   memory : BOOLEAN, scene : 0 .. MaxResets, tier : 0 .. 2, attempt : 0 .. MaxAttempts]
  BY DEF ContextInv, WorkerInv, Worker
<1>12. summary \in [at : {"none", "waiting", "asking"}, texts : 0 .. MaxLines + MaxResets,
                    lines : 0 .. B, attempt : 0 .. MaxAttempts]
  <2>1. summary.texts \in 0 .. MaxLines + MaxResets
    BY <1>1, <1>5, <1>8 DEF ContextInv, SummaryInv, Summary
  <2>2. summary.lines \in 0 .. B
    <3>1. summary.at # "asking" => summary.lines = 0
      BY DEF ContextInv, SummaryInv
    <3>2. summary.lines <= B
      BY <1>1, <1>2, <1>3, <1>4, <1>5, <3>1
    <3> QED
      BY <1>3, <1>5, <3>2
  <2> QED
    BY <1>5, <2>1, <2>2 DEF Summary
<1>13. tier \in 0 .. 2 /\ ended \in BOOLEAN
  BY DEF ContextInv, Counted
<1> QED
  BY <1>8, <1>9, <1>10, <1>11, <1>12, <1>13 DEF ContextTypeOK, B

-----------------------------------------------------------------------------
(* The theorems                                                            *)

\* Whatever the frames, the answers and the summaries do, and in whatever order:
\* the invariant.
THEOREM ContextInvariant == ContextSpec => []ContextInv
<1>1. ContextInv /\ [ContextNext]_contextVars => ContextInv'
  BY ContextStepInv
<1> QED
  BY ContextInitInv, <1>1, PTL DEF ContextSpec

\* The state of the manager has its type, and the history its bound.
THEOREM ContextTypeCorrect == ContextSpec => []ContextTypeOK
BY ContextInvariant, IInvTyped, PTL

\* A tier that a line lowered is not put back by one that began above it
\* (translation_planner.rs): the worker asks at the session's tier or below, so
\* what it writes back is below it too.
THEOREM TierFalls == ContextSpec => TierOnlyFalls
<1>1. ContextInv /\ [ContextNext]_contextVars => [tier' <= tier]_contextVars
  BY ContextStepInv
<1> QED
  BY ContextInvariant, <1>1, PTL DEF ContextSpec, TierOnlyFalls
=============================================================================
