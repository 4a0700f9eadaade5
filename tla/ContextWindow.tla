---------------------------- MODULE ContextWindow ----------------------------
(***************************************************************************)
(* The translation manager of one session: the source context of the scene *)
(* being watched (history of lines, memory), the translations recently     *)
(* shown, the context tier, and the three tasks that use them: the capture *)
(* loop, the worker that translates one line, the summary of old history.  *)
(* Context is on; with it off only the worker's retries are left.          *)
(*                                                                         *)
(* A line is a number, its text abstracted, and the history is the number  *)
(* of its lines. scene counts the resets of the context, which is the      *)
(* generation of the recent translations.                                  *)
(***************************************************************************)
EXTENDS Naturals, Sequences

CONSTANTS
  MaxLines,     \* bound on the lines the loop claims the worker for
  MaxResets,    \* bound on region changes and scene gaps
  MaxHistory,   \* context_buffer_size
  KeptLines,    \* lines a summary leaves in the history (3)
  MaxAttempts,  \* attempts at one tier and at one summary (3)
  MaxRecent     \* RECENT_TRANSLATIONS (12)

ASSUME ContextAssumption ==
  /\ {MaxLines, MaxResets} \subseteq Nat
  /\ {MaxHistory, KeptLines, MaxAttempts, MaxRecent} \subseteq Nat \ {0}

VARIABLES
  scene,    \* RecentTranslations::generation
  texts,    \* context_generation: claims and region changes of the loop
  lines,    \* lines the loop has read so far
  context,  \* TranslationContext: history, memory and needs_compression
  recent,   \* RecentTranslations::entries: the lines answered, oldest first
  tier,     \* context_tier: 0 none, 1 memory only, 2 full
  worker,   \* the translation in flight
  summary,  \* the summarization in flight
  ended     \* the session's stop signal

contextVars == <<scene, texts, lines, context, recent, tier, worker, summary, ended>>

NoContext == [history |-> 0, memory |-> FALSE, crowded |-> FALSE, observed |-> FALSE]
Free == [at |-> "free", line |-> 0, prompt |-> FALSE, memory |-> FALSE,
         scene |-> 0, tier |-> 0, attempt |-> 0]
NoSummary == [at |-> "none", texts |-> 0, lines |-> 0, attempt |-> 0]

UpTo(n, limit) == IF n > limit THEN limit ELSE n
LastOf(s, n) == SubSeq(s, IF Len(s) > n THEN Len(s) - n + 1 ELSE 1, Len(s))

ContextInit ==
  /\ scene = 0 /\ texts = 0 /\ lines = 0 /\ ended = FALSE
  /\ context = NoContext /\ recent = <<>>
  /\ tier \in 1 .. 2
  /\ worker = Free /\ summary = NoSummary
-----------------------------------------------------------------------------
(* The context and the recent translations.                                *)

\* A line is appended, the oldest dropped at the limit; the same line, a part of
\* it, one that extends it or noise leave the number of lines: the comparison of
\* the texts decides.
HistoryAfter(c) == {c.history, UpTo(c.history + 1, MaxHistory)}

\* The context after a line of the scene. Whether it is then over the
\* compression threshold depends on lengths not kept here.
AddLine(c) ==
  {c} \cup UNION
    {{[c EXCEPT !.history = h, !.crowded = over, !.observed = TRUE] :
        h \in HistoryAfter(c)} : over \in {c.crowded, TRUE}}

\* The prompt of a tier: memory, and with the full tier the last lines too.
Prompt(c, t) == t > 0 /\ (c.memory \/ (t = 2 /\ c.history > 0))

\* A region change or a gap ends the scene: context and evidence are dropped.
\* base is the context the scene starts with.
EndScene(base) ==
  /\ scene < MaxResets /\ scene' = scene + 1
  /\ context' = base /\ recent' = <<>>

\* mutant: the oldest evidence is not dropped
RememberUncapped(n, s) ==
  recent' \in {recent} \cup (IF s = scene THEN {Append(recent, n)} ELSE {})

\* Evidence of a scene that ended since the line began (Begins) is not taken,
\* nor is a text too long to compare or empty.
Remember(n, s) ==
  recent' \in {recent} \cup
    (IF s = scene THEN {LastOf(Append(recent, n), MaxRecent)} ELSE {})
-----------------------------------------------------------------------------
(* The capture loop.                                                       *)

\* The region changed: the next frame resets the context and outdates the
\* summary that was waiting.
RegionChanges ==
  /\ ~ended /\ EndScene(NoContext) /\ texts' = texts + 1
  /\ UNCHANGED <<lines, tier, worker, summary, ended>>

\* A line is read after a gap that ends the scene: it expires whether or not
\* the line is a repeat (then it opens the new history) or the slot is taken.
GapExpires ==
  /\ ~ended /\ context.observed
  /\ \E base \in AddLine(NoContext) : EndScene(base)
  /\ UNCHANGED <<texts, lines, tier, worker, summary, ended>>

\* A line that is a repeat, or is in the context already, is recorded too: one
\* with a misread glyph is a further line of the history.
RepeatsLine ==
  /\ ~ended /\ lines > 0 /\ context' \in AddLine(context)
  /\ UNCHANGED <<scene, texts, lines, recent, tier, worker, summary, ended>>

\* A new line claims the slot: its prompt is what the context held before it,
\* then it is recorded, and a summary is scheduled if the context needs one,
\* none is in flight and the cooldown is over.
ClaimLine ==
  /\ ~ended /\ worker.at = "free" /\ lines < MaxLines
  /\ lines' = lines + 1 /\ texts' = texts + 1
  /\ worker' = [Free EXCEPT !.at = "spawned", !.line = lines + 1,
                            !.prompt = Prompt(context, tier)]
  /\ context' \in AddLine(context)
  /\ summary' \in {summary} \cup
       (IF context'.crowded /\ summary.at = "none"
        THEN {[NoSummary EXCEPT !.at = "waiting", !.texts = texts + 1]} ELSE {})
  /\ UNCHANGED <<scene, recent, tier, ended>>

\* Stop ends the loop and drops the translation in flight.
SessionStops ==
  /\ ~ended /\ ended' = TRUE /\ worker' = Free
  /\ UNCHANGED <<scene, texts, lines, context, recent, tier, summary>>
-----------------------------------------------------------------------------
(* The worker.                                                             *)

\* The tier to ask with: its prompt is used when there is one. The one built
\* when the line was claimed serves the full tier.
ContextUsed ==
  (worker.tier = 2 /\ worker.prompt) \/ (worker.tier = 1 /\ worker.memory)

At(t) == worker' = [worker EXCEPT !.tier = t, !.attempt = 1]
Done == worker' = Free

\* The manager takes the local engine: planner, tier, generation, budget.
Begins ==
  /\ worker.at = "spawned"
  /\ worker' = [worker EXCEPT !.at = "asking", !.attempt = 1, !.scene = scene,
                  !.tier = tier, !.memory = Prompt(context, IF tier > 0 THEN 1 ELSE 0)]
  /\ UNCHANGED <<scene, texts, lines, context, recent, tier, summary, ended>>

\* No engine is enabled, available or ready, the line is too long, or every
\* engine failed: the mock or the plain source answers.
Passthrough ==
  /\ worker.at = "spawned" /\ Done
  /\ UNCHANGED <<scene, texts, lines, context, recent, tier, summary, ended>>

\* An answer, valid or rejected, repeats what was said for another source of
\* the same scene.
Leaks ==
  /\ ContextUsed /\ worker.scene = scene
  /\ \E i \in DOMAIN recent : recent[i] # worker.line

\* Such an answer is asked for again without context, and the session stays
\* without context from then on.
LeakRetries ==
  /\ worker.at = "asking" /\ Leaks
  /\ tier' = 0 /\ At(0)
  /\ UNCHANGED <<scene, texts, lines, context, recent, summary, ended>>

\* mutant: a quick answer earns the next tier back
SucceedsAndEarns ==
  /\ worker.at = "asking" /\ Remember(worker.line, worker.scene)
  /\ tier' \in IF ContextUsed THEN {worker.tier - 1, UpTo(worker.tier + 1, 2)} ELSE {tier}
  /\ Done
  /\ UNCHANGED <<scene, texts, lines, context, summary, ended>>

\* A usable answer is remembered as evidence. With context its tier is kept,
\* or lowered when it was slow.
Succeeds ==
  /\ worker.at = "asking" /\ Remember(worker.line, worker.scene)
  /\ tier' \in IF ContextUsed THEN {worker.tier - 1, worker.tier} ELSE {tier}
  /\ Done
  /\ UNCHANGED <<scene, texts, lines, context, summary, ended>>

\* A transient failure is asked again while attempts and budget last. A
\* rejected answer, another failure or the end of them ends the line (the next
\* backend is the mock or the plain source), and so does the deadline.
Fails ==
  /\ worker.at = "asking"
  /\ \/ worker.attempt < MaxAttempts /\ worker' = [worker EXCEPT !.attempt = @ + 1]
     \/ Done
  /\ UNCHANGED <<scene, texts, lines, context, recent, tier, summary, ended>>

\* A timed out attempt goes down a tier if it used context. Without context it
\* is a failure like any other (Fails).
TimesOut ==
  /\ worker.at = "asking" /\ ContextUsed
  /\ tier' = worker.tier - 1 /\ At(worker.tier - 1)
  /\ UNCHANGED <<scene, texts, lines, context, recent, summary, ended>>
-----------------------------------------------------------------------------
(* The summary.                                                            *)

\* After the stability delay: given up when the session has stopped, other
\* text was claimed or the region changed. A scene gap changes neither, but
\* leaves no history to drain.
SummaryWakes ==
  LET old == context.history - KeptLines IN
  /\ summary.at = "waiting"
  /\ IF ended \/ texts # summary.texts \/ old <= 0
     THEN summary' = NoSummary /\ UNCHANGED context
     ELSE /\ summary' = [NoSummary EXCEPT !.at = "asking", !.attempt = 1,
                           !.lines = old]
          /\ context' = [context EXCEPT !.history = KeptLines, !.crowded = FALSE]
  /\ UNCHANGED <<scene, texts, lines, recent, tier, worker, ended>>

\* The history cut to the budget from its oldest end: how far depends on
\* lengths not kept here.
Capped(c) == {[c EXCEPT !.history = n, !.crowded = FALSE] : n \in 0 .. c.history}

\* A summary becomes the memory. Out of attempts, or with no backend, the
\* drained lines go back in front of the history, which is then cut to the
\* budget. An attempt not begun when the session stops drops them.
SummaryAnswers ==
  /\ summary.at = "asking"
  /\ \/ /\ summary' = NoSummary
        /\ context' \in Capped([context EXCEPT !.memory = TRUE])
             \cup Capped([context EXCEPT !.history = @ + summary.lines, !.observed = TRUE])
     \/ /\ summary.attempt < MaxAttempts
        /\ summary' = [summary EXCEPT !.attempt = @ + 1] /\ UNCHANGED context
     \/ ended /\ summary' = NoSummary /\ UNCHANGED context
  /\ UNCHANGED <<scene, texts, lines, recent, tier, worker, ended>>
-----------------------------------------------------------------------------
WorkerStep == Begins \/ Passthrough \/ LeakRetries \/ Succeeds \/ Fails \/ TimesOut
SummaryStep == SummaryWakes \/ SummaryAnswers

ContextNext ==
  \/ RegionChanges \/ GapExpires \/ RepeatsLine \/ ClaimLine \/ SessionStops
  \/ WorkerStep \/ SummaryStep

\* Without fairness, which the runs add: see MCShell.
ContextSpec == ContextInit /\ [][ContextNext]_contextVars
-----------------------------------------------------------------------------
(* Properties.                                                             *)

ContextTypeOK ==
  /\ scene \in 0 .. MaxResets /\ texts \in 0 .. MaxLines + MaxResets
  /\ lines \in 0 .. MaxLines /\ tier \in 0 .. 2 /\ ended \in BOOLEAN
  /\ context \in [history : 0 .. (MaxLines + 1) * MaxHistory, memory : BOOLEAN, crowded : BOOLEAN,
                  observed : BOOLEAN]
  /\ recent \in Seq(1 .. MaxLines)
  /\ Len(recent) <= MaxRecent
  /\ worker \in [at : {"free", "spawned", "asking"}, line : 0 .. MaxLines,
                 prompt : BOOLEAN, memory : BOOLEAN, scene : 0 .. MaxResets,
                 tier : 0 .. 2, attempt : 0 .. MaxAttempts]
  /\ summary \in [at : {"none", "waiting", "asking"}, texts : 0 .. MaxLines + MaxResets,
                  lines : 0 .. (MaxLines + 1) * MaxHistory, attempt : 0 .. MaxAttempts]

\* The context tier of a session only goes down, whatever answers late, slowly
\* or with a leak: a lowered tier is never put back by the line that began
\* above it (translation_planner.rs, run_tiered_sequence).
TierOnlyFalls == [][tier' <= tier]_contextVars

\* What is never so for good: a line that claimed the slot gets its outcome, and
\* a summary in flight lets the next one begin (context_summarization.rs,
\* CompressionFlagGuard).
LineUnderWay == worker.at # "free"
SummaryUnderWay == summary.at # "none"
=============================================================================
