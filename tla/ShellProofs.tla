------------------------------ MODULE ShellProofs ------------------------------
(***************************************************************************)
(* What holds of every instance of the shell's parts that are gathered in  *)
(* MCShell: the engine's status in the main window, the pipe's slot, the   *)
(* overlay page's frame, the setup and the bands of readings.  Each has an *)
(* invariant of its own first, for the properties; then one for the types. *)
(* The context window and the settings bring theirs from their own modules. *)
(* The shell's theorems, at the end, take them together.                   *)
(***************************************************************************)
EXTENDS MCShell, ContextWindowProofs, SettingsStoreProofs, SequenceTheorems, FiniteSetTheorems, TLAPS

-----------------------------------------------------------------------------
(* The engine's status                                                     *)

StatusInv ==
  /\ phase \in Phases /\ asked \in Nat \ {0} /\ recheck \in Nat
  /\ timer \in BOOLEAN /\ attempts \in Nat /\ making \in BOOLEAN /\ start \in StartStages
  /\ waits \in [of : Nat, shows : BOOLEAN] /\ startAsked \in Nat
  /\ BusyIsAsked

LEMMA StatusSizes == MaxRechecks \in Nat /\ MaxAsked \in Nat \ {0}
BY StatusAssumption

LEMMA StatusBegins == StatusInit => StatusInv
<1> SUFFICES ASSUME StatusInit PROVE StatusInv
  OBVIOUS
<1>1. /\ phase = "notRunning" /\ start = "idle" /\ asked = 1 /\ recheck = 0 /\ attempts = 0 /\ startAsked = 0
      /\ waits \in [of : Nat, shows : BOOLEAN]
  BY DEF StatusInit
<1>2. timer \in BOOLEAN /\ making \in BOOLEAN
  BY DEF StatusInit
<1> QED BY <1>1, <1>2 DEF StatusInv, BusyIsAsked, Phases, StartStages

\* Whatever the answer, a busy engine is asked again afterwards.
LEMMA AnswerKeepsAsking ==
  ASSUME StatusInv, NEW p \in Phases, Accepted(p) \/ Ignored, UNCHANGED recheck
  PROVE  /\ phase' \in Phases /\ timer' \in BOOLEAN /\ attempts' \in Nat
         /\ phase' = "busy" => timer' \/ recheck' # 0 \/ attempts' >= MaxRechecks
<1> USE StatusSizes
<1>1. CASE Ignored
  BY <1>1 DEF Ignored, StatusInv, BusyIsAsked
<1>2. CASE Accepted(p)
  <2>1. phase' = p /\ attempts' \in Nat
    BY <1>2 DEF Accepted, StatusInv
  <2>2. timer' \in BOOLEAN
    BY <1>2, Zenon DEF Accepted
  <2>3. ASSUME p = "busy", recheck = 0, ~(attempts' >= MaxRechecks) PROVE timer'
    <3>1. attempts' < MaxRechecks
      BY <2>1, <2>3
    <3> QED BY <1>2, <2>3, <3>1, Zenon DEF Accepted
  <2> QED BY <2>1, <2>2, <2>3
<1> QED BY <1>1, <1>2

LEMMA StatusStep == StatusInv /\ [StatusNext]_statusPart => StatusInv'
<1> SUFFICES ASSUME StatusInv, [StatusNext]_statusPart PROVE StatusInv'
  OBVIOUS
<1> USE StatusSizes
<1>1. CASE ReadAsks
  BY <1>1 DEF ReadAsks, StatusInv, BusyIsAsked
<1>2. CASE Prewarm
  BY <1>2 DEF Prewarm, StatusInv, BusyIsAsked
<1>3. CASE RecheckAsks
  <2>1. recheck' # 0 /\ recheck' \in Nat /\ attempts' \in Nat /\ timer' = FALSE
    BY <1>3 DEF RecheckAsks, StatusInv
  <2> QED BY <1>3, <2>1 DEF RecheckAsks, StatusInv, BusyIsAsked
<1>4. CASE StartBegins
  BY <1>4 DEF StartBegins, StatusInv, BusyIsAsked, StartStages
<1>5. CASE StartCalled
  BY <1>5 DEF StartCalled, StatusInv, BusyIsAsked, StartStages
<1>6. ASSUME NEW ok \in BOOLEAN, StartSaved(ok) PROVE StatusInv'
  BY <1>6 DEF StartSaved, StatusInv, BusyIsAsked, StartStages
<1>7. ASSUME NEW p \in Phases, NEW ok \in BOOLEAN, StartAnswered(p, ok) PROVE StatusInv'
  <2>1. (Accepted(p) \/ Ignored) /\ UNCHANGED recheck
    BY <1>7 DEF StartAnswered, Ignored
  <2>2. /\ phase' \in Phases /\ timer' \in BOOLEAN /\ attempts' \in Nat
        /\ phase' = "busy" => timer' \/ recheck' # 0 \/ attempts' >= MaxRechecks
    BY <2>1, AnswerKeepsAsking
  <2>3. /\ start' \in StartStages /\ making' \in BOOLEAN
        /\ start' \in {"joining", "making"} => making'
    BY <1>7 DEF StartAnswered, StatusInv, BusyIsAsked, StartStages
  <2>4. UNCHANGED <<asked, reads, recheck, waits, startAsked>>
    BY <1>7 DEF StartAnswered
  <2> QED BY <2>2, <2>3, <2>4 DEF StatusInv, BusyIsAsked
<1>8. ASSUME NEW p \in Phases, NEW ok \in BOOLEAN, MakeEnds(p, ok) PROVE StatusInv'
  <2>0. "error" \in Phases
    BY DEF Phases
  <2>1. (Accepted(p) \/ Accepted("error") \/ Ignored) /\ UNCHANGED recheck
    BY <1>8 DEF MakeEnds, Ignored
  <2>2. /\ phase' \in Phases /\ timer' \in BOOLEAN /\ attempts' \in Nat
        /\ phase' = "busy" => timer' \/ recheck' # 0 \/ attempts' >= MaxRechecks
    BY <2>0, <2>1, AnswerKeepsAsking
  <2>3. start' \in StartStages \ {"joining", "making"} /\ making' \in BOOLEAN
    BY <1>8 DEF MakeEnds, StatusInv, StartStages
  <2>4. waits' \in [of : Nat, shows : BOOLEAN] /\ UNCHANGED <<asked, reads, recheck, startAsked>>
    BY <1>8 DEF MakeEnds, StatusInv
  <2> QED BY <2>2, <2>3, <2>4 DEF StatusInv, BusyIsAsked
<1>9. ASSUME NEW p \in Phases, RecheckEnds(p) PROVE StatusInv'
  <2> DEFINE now == IF recheck = asked THEN p ELSE phase
             tried == IF recheck = asked /\ phase # "busy" THEN 0 ELSE attempts
  <2>1. now \in Phases /\ tried \in Nat
    BY DEF StatusInv
  <2>2. /\ phase' = now /\ attempts' = tried /\ recheck' = 0
        /\ timer' = (now = "busy" /\ (timer \/ tried < MaxRechecks))
        /\ UNCHANGED <<asked, reads, making, waits, start, startAsked>>
    BY <1>9 DEF RecheckEnds
  <2> HIDE DEF now, tried
  <2>3. timer' \in BOOLEAN
    BY <2>2, Zenon
  <2>4. ASSUME now = "busy", ~(tried >= MaxRechecks) PROVE timer'
    <3>1. tried < MaxRechecks
      BY <2>1, <2>4
    <3> QED BY <2>2, <2>4, <3>1, Zenon
  <2> QED BY <2>1, <2>2, <2>3, <2>4 DEF StatusInv, BusyIsAsked
<1>10. ASSUME NEW p \in Phases, NEW r \in reads, ReadingEnds(r, p) PROVE StatusInv'
  <2>1. (Accepted(p) \/ Ignored) /\ UNCHANGED recheck
    BY <1>10 DEF ReadingEnds, Ignored
  <2>2. /\ phase' \in Phases /\ timer' \in BOOLEAN /\ attempts' \in Nat
        /\ phase' = "busy" => timer' \/ recheck' # 0 \/ attempts' >= MaxRechecks
    BY <2>1, AnswerKeepsAsking
  <2>0. waits' = [of |-> asked, shows |-> TRUE] \/ waits' = waits
    BY <1>10 DEF ReadingEnds
  <2>9. UNCHANGED <<asked, recheck, start, startAsked>>
    BY <1>10 DEF ReadingEnds
  <2>3. waits' \in [of : Nat, shows : BOOLEAN]
    <3>1. CASE waits' = waits
      BY <3>1 DEF StatusInv
    <3>2. CASE waits' = [of |-> asked, shows |-> TRUE]
      BY <3>2 DEF StatusInv
    <3> QED BY <2>0, <3>1, <3>2
  <2>4. making' = TRUE \/ making' = making
    BY <1>10 DEF ReadingEnds
  <2>5. making' \in BOOLEAN /\ (start' \in {"joining", "making"} => making')
    BY <2>4, <2>9 DEF StatusInv, BusyIsAsked
  <2> QED BY <2>2, <2>3, <2>5, <2>9 DEF StatusInv, BusyIsAsked
<1>11. CASE UNCHANGED statusPart
  BY <1>11 DEF statusPart, StatusInv, BusyIsAsked
<1> QED
  BY <1>1, <1>2, <1>3, <1>4, <1>5, <1>6, <1>7, <1>8, <1>9, <1>10, <1>11
  DEF StatusNext, Answers, MakeAnswers, StartGoesOn

\* A busy engine is asked again, and a start that waits has a preparation to
\* wait for, whatever answers in whatever order (engine-status-controller.ts:80).
THEOREM BusyEngineIsAsked == StatusInit /\ [][StatusNext]_statusPart => []BusyIsAsked
<1>1. StatusInv => BusyIsAsked
  BY DEF StatusInv
<1> QED BY <1>1, StatusBegins, StatusStep, PTL

-----------------------------------------------------------------------------
(* The types of the engine's status                                        *)

\* How often a busy engine has been asked again, and of which questions the
\* answers are still to come.
StatusBounds ==
  /\ asked \in 1 .. MaxAsked /\ reads \subseteq 1 .. asked /\ recheck \in 0 .. asked
  /\ attempts \in 0 .. MaxRechecks
  /\ timer => phase = "busy" /\ attempts < MaxRechecks

LEMMA StatusBoundsBegin == StatusInit => StatusBounds
<1> SUFFICES ASSUME StatusInit PROVE StatusBounds
  OBVIOUS
<1>1. asked = 1 /\ reads = {} /\ recheck = 0 /\ attempts = 0 /\ timer = FALSE
  BY DEF StatusInit
<1> QED BY <1>1, StatusSizes DEF StatusBounds

\* Whatever the answer, a busy engine is asked again only so often.
LEMMA AnswerBounds ==
  ASSUME StatusInv, StatusBounds, NEW p \in Phases, Accepted(p) \/ Ignored
  PROVE  attempts' \in 0 .. MaxRechecks /\ (timer' => phase' = "busy" /\ attempts' < MaxRechecks)
<1>1. CASE Ignored
  BY <1>1 DEF Ignored, StatusBounds
<1>2. CASE Accepted(p)
  <2>1. phase' = p /\ (attempts' = attempts \/ attempts' = 0) /\ (phase = "busy" => attempts' = attempts)
    BY <1>2 DEF Accepted
  <2>2. timer' => p = "busy" /\ (timer \/ attempts' < MaxRechecks)
    BY <1>2, Zenon DEF Accepted
  <2> QED BY <2>1, <2>2, StatusSizes DEF StatusBounds
<1> QED BY <1>1, <1>2

LEMMA StatusBounded == StatusInv /\ StatusBounds /\ [StatusNext]_statusPart => StatusBounds'
<1> SUFFICES ASSUME StatusInv, StatusBounds, [StatusNext]_statusPart PROVE StatusBounds'
  OBVIOUS
<1> USE StatusSizes
<1>1. CASE ReadAsks
  BY <1>1 DEF ReadAsks, StatusInv, StatusBounds
<1>2. CASE Prewarm
  BY <1>2 DEF Prewarm, StatusBounds
<1>3. CASE RecheckAsks
  BY <1>3 DEF RecheckAsks, StatusInv, StatusBounds
<1>4. CASE StartBegins
  BY <1>4 DEF StartBegins, StatusBounds
<1>5. CASE StartCalled
  BY <1>5 DEF StartCalled, StatusBounds
<1>6. ASSUME NEW ok \in BOOLEAN, StartSaved(ok) PROVE StatusBounds'
  <2>1. asked' \in asked .. MaxAsked /\ UNCHANGED <<phase, reads, recheck, timer, attempts>>
    BY <1>6 DEF StartSaved, StatusBounds
  <2> QED BY <2>1 DEF StatusBounds
<1>7. ASSUME NEW p \in Phases, NEW ok \in BOOLEAN, StartAnswered(p, ok) PROVE StatusBounds'
  <2>1. (Accepted(p) \/ Ignored) /\ UNCHANGED <<asked, reads, recheck>>
    BY <1>7 DEF StartAnswered, Ignored
  <2> QED BY <2>1, AnswerBounds DEF StatusBounds
<1>8. ASSUME NEW p \in Phases, NEW ok \in BOOLEAN, MakeEnds(p, ok) PROVE StatusBounds'
  <2>1. "error" \in Phases
    BY DEF Phases
  <2>2. (Accepted(p) \/ Accepted("error") \/ Ignored) /\ UNCHANGED <<asked, reads, recheck>>
    BY <1>8 DEF MakeEnds, Ignored
  <2> QED BY <2>1, <2>2, AnswerBounds DEF StatusBounds
<1>9. ASSUME NEW p \in Phases, RecheckEnds(p) PROVE StatusBounds'
  <2> DEFINE now == IF recheck = asked THEN p ELSE phase
             tried == IF recheck = asked /\ phase # "busy" THEN 0 ELSE attempts
  <2>1. tried = attempts \/ (tried = 0 /\ phase # "busy")
    BY Zenon
  <2>2. /\ phase' = now /\ attempts' = tried /\ recheck' = 0
        /\ timer' = (now = "busy" /\ (timer \/ tried < MaxRechecks))
        /\ UNCHANGED <<asked, reads>>
    BY <1>9 DEF RecheckEnds
  <2> HIDE DEF now, tried
  <2>3. timer' => now = "busy" /\ (timer \/ tried < MaxRechecks)
    BY <2>2, Zenon
  <2> QED BY <2>1, <2>2, <2>3 DEF StatusBounds
<1>10. ASSUME NEW p \in Phases, NEW r \in reads, ReadingEnds(r, p) PROVE StatusBounds'
  <2>1. (Accepted(p) \/ Ignored) /\ UNCHANGED <<asked, recheck>> /\ reads' \subseteq reads
    BY <1>10 DEF ReadingEnds, Ignored
  <2> QED BY <2>1, AnswerBounds DEF StatusBounds
<1>11. CASE UNCHANGED statusPart
  BY <1>11 DEF statusPart, StatusBounds
<1> QED
  BY <1>1, <1>2, <1>3, <1>4, <1>5, <1>6, <1>7, <1>8, <1>9, <1>10, <1>11
  DEF StatusNext, Answers, MakeAnswers, StartGoesOn

LEMMA StatusValues == StatusInv /\ StatusBounds => StatusTypeOK
BY DEF StatusInv, StatusBounds, StatusTypeOK

-----------------------------------------------------------------------------
(* The pipe's slot                                                         *)

ConnStages == {"none", "serving", "writing", "ending", "gone"}

PipeInv ==
  /\ accepted \in 0 .. MaxConns /\ slot \in 0 .. accepted /\ clone \in 0 .. accepted
  /\ task \in [Conn -> ConnStages] /\ queue \in [Conn -> Nat]
  /\ NewestClientKeepsSlot

LEMMA PipeBegins == HostInit => PipeInv
BY HostAssumption DEF HostInit, PipeInv, ConnStages, NewestClientKeepsSlot, Conn

LEMMA PipeStep == PipeInv /\ [PipeNext]_pipeVars => PipeInv'
<1> SUFFICES ASSUME PipeInv, [PipeNext]_pipeVars PROVE PipeInv'
  OBVIOUS
<1> USE HostAssumption DEF PipeInv, ConnStages, NewestClientKeepsSlot, Conn, Becomes, Serving
<1>1. CASE Accept
  BY <1>1 DEF Accept
<1>2. CASE SendBegins
  BY <1>2 DEF SendBegins
<1>3. CASE SendQueues
  BY <1>3 DEF SendQueues
<1>4. ASSUME NEW c \in Conn, ReadEnds(c) PROVE PipeInv'
  BY <1>4 DEF ReadEnds
<1>5. ASSUME NEW c \in Conn, TakeMessage(c) PROVE PipeInv'
  BY <1>5 DEF TakeMessage
<1>6. ASSUME NEW c \in Conn, WriteEnds(c) PROVE PipeInv'
  BY <1>6 DEF WriteEnds
<1>7. ASSUME NEW c \in Conn, LosesSender(c) PROVE PipeInv'
  BY <1>7 DEF LosesSender
<1>8. ASSUME NEW c \in Conn, Leaves(c) PROVE PipeInv'
  BY <1>8 DEF Leaves
<1>9. CASE UNCHANGED pipeVars
  BY <1>9 DEF pipeVars
<1> QED
  BY <1>1, <1>2, <1>3, <1>4, <1>5, <1>6, <1>7, <1>8, <1>9 DEF PipeNext, TaskStep

\* A connection that was replaced never takes the slot from the one that
\* replaced it, however late its task notices (ipc/server.rs:211).
THEOREM SlotIsKept == HostInit /\ [][PipeNext]_pipeVars => []NewestClientKeepsSlot
<1>1. PipeInv => NewestClientKeepsSlot
  BY DEF PipeInv
<1> QED BY <1>1, PipeBegins, PipeStep, PTL

-----------------------------------------------------------------------------
(* The types of the page and the pipe                                      *)

\* The overlay page's beats and its shows stay within their bounds.
PageSound ==
  /\ page \in [load : 1 .. MaxPages, does : {"loads", "beats", "wedged"}] /\ mail \subseteq Event
  /\ heard \in [ready : BOOLEAN, beat : {"none", "fresh", "old"}, since : BOOLEAN]
  /\ show \in {"idle", "waiting"} /\ shows \in 0 .. MaxShows
QueuesFit == queue \in [Conn -> 0 .. MaxQueue]

LEMMA HostSizes == MaxPages \in Nat \ {0} /\ MaxConns \in Nat \ {0} /\ MaxQueue \in Nat \ {0} /\ MaxShows \in Nat
BY HostAssumption

LEMMA HostBoundsBegin == HostInit => PageSound /\ QueuesFit
BY HostSizes DEF HostInit, PageSound, QueuesFit

LEMMA PageBounded == PageSound /\ [PageNext]_pageVars => PageSound'
<1> SUFFICES ASSUME PageSound, [PageNext]_pageVars PROVE PageSound'
  OBVIOUS
<1> USE HostSizes
<1>1. CASE PageSignals
  BY <1>1 DEF PageSignals, PageSound, Event
<1>2. CASE RustHears
  BY <1>2 DEF RustHears, PageSound
<1>3. CASE ShowBegins
  <2>1. shows' \in 0 .. MaxShows /\ UNCHANGED mail
    BY <1>3 DEF ShowBegins, PageSound
  <2>2. /\ show' \in {"idle", "waiting"}
        /\ heard' \in [ready : BOOLEAN, beat : {"none", "fresh", "old"}, since : BOOLEAN]
    BY <1>3 DEF ShowBegins, PageSound
  <2>3. page' = page \/ (page.load < MaxPages /\ page' = [load |-> page.load + 1, does |-> "loads"])
    BY <1>3, Zenon DEF ShowBegins
  <2>4. page.load < MaxPages => page.load + 1 \in 1 .. MaxPages
    BY DEF PageSound
  <2> QED BY <2>1, <2>2, <2>3, <2>4 DEF PageSound
<1>4. CASE ShowGoesOn
  BY <1>4 DEF ShowGoesOn, PageSound
<1>5. CASE UNCHANGED pageVars
  BY <1>5 DEF pageVars, PageSound
<1> QED BY <1>1, <1>2, <1>3, <1>4, <1>5 DEF PageNext

LEMMA QueuesBounded == PipeInv /\ QueuesFit /\ [PipeNext]_pipeVars => QueuesFit'
<1> SUFFICES ASSUME PipeInv, QueuesFit, [PipeNext]_pipeVars PROVE QueuesFit'
  OBVIOUS
<1> USE HostSizes
<1>1. CASE UNCHANGED queue
  BY <1>1 DEF QueuesFit
<1>2. CASE SendQueues
  BY <1>2 DEF SendQueues, QueuesFit, PipeInv, Conn
<1>3. ASSUME NEW c \in Conn, TakeMessage(c) PROVE QueuesFit'
  BY <1>3 DEF TakeMessage, QueuesFit
<1> QED
  BY <1>1, <1>2, <1>3
  DEF PipeNext, TaskStep, Accept, SendBegins, ReadEnds, WriteEnds, LosesSender, Leaves, pipeVars

LEMMA HostValues == PageSound /\ PipeInv /\ QueuesFit => HostTypeOK
BY DEF PageSound, PipeInv, QueuesFit, HostTypeOK, ConnStages

-----------------------------------------------------------------------------
(* The bands of readings                                                   *)

Reading == Text \cup {Nothing}
Ages == 0 .. MaxAge
MaybeAges == -1 .. MaxAge
Cues ==
  [anchor : Reading, pending : Reading, last : Reading, age : Ages, pendingAge : Ages, since : MaybeAges,
   absent : BOOLEAN, static : BOOLEAN, fast : BOOLEAN, numeric : {0, 1, 2}, named : BOOLEAN,
   confirmed : BOOLEAN]

\* A static cue is a text that has stood for long.  A candidate is something
\* else than the anchor, unless the anchor itself was read after it was gone.
CueSound(c) ==
  /\ c \in Cues
  /\ c.named <=> c.anchor # Nothing
  /\ c.static => c.named /\ c.age >= Persistent
  /\ c.named /\ (~c.absent \/ c.static) => c.pending # c.anchor
  /\ c.last # Nothing => c.since # None

Verdicts == {"none", "Glimpsed", "Static", "Churning", "Subtitle", "Scattered"}
Counts == 0 .. MinObs
Idles == 0 .. Retire + 1
Bands == [cue : Cues, settled : Verdicts, scattered : MaybeAges, established : BOOLEAN,
          seen : Counts, idle : Idles]

BandSound(b) == b \in Bands /\ CueSound(b.cue) /\ (b.cue.static => b.settled # "Subtitle")

\* Since its last reading a band has been out of sight no longer than its cue
\* has been without a reading.
LastIsNear(b) ==
  b.cue.last # Nothing => b.seen > 0 /\ (b.idle <= b.cue.since \/ b.cue.since = MaxAge)

BandInv == BandSound(band) /\ LastIsNear(band)

LEMMA BandSizes ==
  /\ MinCue \in Nat \ {0} /\ Static \in Int /\ Persistent \in Int /\ Static > 2 * MinCue
  /\ Persistent = 2 * Static /\ Persistent < MaxAge
  /\ MaxAge \in Nat /\ MaxGap \in Nat /\ Hold \in Nat /\ MinObs \in Nat \ {0} /\ Retire \in Nat
  /\ MaxGap < MaxAge
  /\ \A gap \in Intervals : gap \in Nat \ {0}
  /\ \A p \in Similar : p[1] \in Text /\ p[2] \in Text
  /\ Nothing \notin Text
BY BandAssumption DEF Persistent

LEMMA NewCueSound == CueSound(NewCue)
<1>1. Nothing \in Reading /\ 0 \in Ages /\ None \in MaybeAges
  BY BandSizes DEF Reading, Ages, MaybeAges, None
<1>2. NewCue \in Cues
  BY <1>1 DEF NewCue, Cues
<1>3. NewCue.named = FALSE /\ NewCue.anchor = Nothing /\ NewCue.static = FALSE /\ NewCue.last = Nothing
  BY DEF NewCue
<1> QED BY <1>2, <1>3 DEF CueSound

\* Time passes: what is static stays so, and nothing is admitted by it.
LEMMA AgedSound ==
  ASSUME NEW c, CueSound(c), NEW gap \in Nat
  PROVE  /\ CueSound(Aged(c, gap))
         /\ Aged(c, gap).anchor = c.anchor /\ Aged(c, gap).static = c.static
         /\ Aged(c, gap).absent = c.absent /\ Aged(c, gap).named = c.named
         /\ Aged(c, gap).since = c.since
<1> DEFINE age == AtMost(c.age + c.since + gap, MaxAge)
           pendingAge == IF c.pending = Nothing THEN 0 ELSE AtMost(c.pendingAge + c.since + gap, MaxAge)
           older == [c EXCEPT !.age = age, !.pendingAge = pendingAge]
           parted == [c EXCEPT !.pending = Nothing, !.last = Nothing, !.pendingAge = 0]
<1>1. c \in Cues /\ c.age \in Ages /\ c.pendingAge \in Ages /\ c.since \in MaybeAges
  BY DEF CueSound, Cues
<1>2. Nothing \in Reading /\ 0 \in Ages
  BY BandSizes DEF Reading, Ages
<1>3. CASE c.since = None
  BY <1>3 DEF Aged
<1>4. CASE c.since # None /\ c.since + gap <= MaxGap
  <2>1. Aged(c, gap) = older
    BY <1>4 DEF Aged, AtMost
  <2>2. c.since \in Nat /\ c.age \in Nat /\ c.pendingAge \in Nat /\ c.age <= MaxAge
    BY <1>1, <1>4, BandSizes DEF Ages, MaybeAges, None
  <2>3. age \in Ages /\ pendingAge \in Ages /\ age >= c.age
    BY <1>2, <2>2, BandSizes DEF AtMost, Ages
  <2> HIDE DEF age, pendingAge
  <2>4. older \in Cues
    BY <1>1, <2>3 DEF Cues
  <2>5. /\ older.anchor = c.anchor /\ older.static = c.static /\ older.absent = c.absent /\ older.named = c.named
        /\ older.since = c.since /\ older.age = age /\ older.pending = c.pending /\ older.last = c.last
    BY <1>1 DEF Cues
  <2> SUFFICES CueSound(older)
    BY <2>1, <2>5
  <2>6. c.age >= Persistent => age >= Persistent
    BY <2>2, <2>3, BandSizes DEF Ages
  <2> HIDE DEF older
  <2> QED BY <2>4, <2>5, <2>6 DEF CueSound
<1>5. CASE c.since # None /\ ~(c.since + gap <= MaxGap)
  <2>1. Aged(c, gap) = parted
    BY <1>5 DEF Aged
  <2>2. parted \in Cues
    BY <1>1, <1>2 DEF Cues
  <2>3. /\ parted.anchor = c.anchor /\ parted.static = c.static /\ parted.absent = c.absent /\ parted.named = c.named
        /\ parted.since = c.since /\ parted.age = c.age /\ parted.pending = Nothing /\ parted.last = Nothing
    BY <1>1 DEF Cues
  <2> SUFFICES CueSound(parted)
    BY <2>1, <2>3
  <2> HIDE DEF parted
  <2> QED BY <2>2, <2>3 DEF CueSound
<1> QED BY <1>3, <1>4, <1>5

LEMMA MissingSound ==
  ASSUME NEW c, CueSound(c)
  PROVE  /\ CueSound(CueMissing(c)) /\ CueMissing(c).last = Nothing
         /\ CueMissing(c).static = c.static /\ CueMissing(c).anchor = c.anchor
<1>1. Nothing \in Reading /\ 0 \in Ages /\ None \in MaybeAges
  BY BandSizes DEF Reading, Ages, MaybeAges, None
<1> DEFINE d == CueMissing(c)
<1>2. c \in Cues
  BY DEF CueSound
<1>3. d \in Cues
  BY <1>1, <1>2 DEF Cues, CueMissing
<1>4. /\ d.anchor = c.anchor /\ d.static = c.static /\ d.named = c.named /\ d.age = c.age /\ d.absent
      /\ d.pending = Nothing /\ d.last = Nothing
  BY <1>2 DEF Cues, CueMissing
<1> SUFFICES CueSound(d) /\ d.last = Nothing /\ d.static = c.static /\ d.anchor = c.anchor
  OBVIOUS
<1> HIDE DEF d
<1> QED
  BY <1>3, <1>4 DEF CueSound

Repeated(c) ==
  [c EXCEPT !.pending = Nothing, !.pendingAge = 0, !.absent = FALSE, !.confirmed = TRUE,
            !.numeric = IF c.age >= 2 * MinCue THEN 0 ELSE @]
Judged(c, t) ==
  [c EXCEPT !.static = @ \/ (c.confirmed /\ c.age >= Persistent), !.last = t, !.since = 0]

\* A reading that is admitted as the anchor's keeps what is static.
LEMMA RepeatSound ==
  ASSUME NEW c, CueSound(c), NEW t \in Text, Repeats(c, t)
  PROVE  /\ Repeated(c) \in Cues /\ Repeated(c).anchor = c.anchor /\ Repeated(c).static = c.static
         /\ Repeated(c).age = c.age /\ Repeated(c).confirmed /\ Repeated(c).named = c.named
         /\ c.named /\ Repeated(c).pending = Nothing /\ c.anchor # Nothing
<1> DEFINE d == Repeated(c)
<1>1. c.anchor # Nothing /\ c.named /\ c \in Cues
  BY BandSizes DEF Repeats, CueSound
<1> DEFINE numeric == IF c.age >= 2 * MinCue THEN 0 ELSE c.numeric
<1>2. numeric \in {0, 1, 2} /\ Nothing \in Reading /\ 0 \in Ages
  BY <1>1, BandSizes DEF Cues, Reading, Ages
<1>3. d = [c EXCEPT !.pending = Nothing, !.pendingAge = 0, !.absent = FALSE, !.confirmed = TRUE,
                    !.numeric = numeric]
  BY DEF Repeated
<1> HIDE DEF numeric
<1> DEFINE quiet == [c EXCEPT !.pending = Nothing, !.pendingAge = 0]
           here == [quiet EXCEPT !.absent = FALSE, !.confirmed = TRUE]
<1>4. /\ quiet \in Cues /\ quiet.anchor = c.anchor /\ quiet.static = c.static /\ quiet.age = c.age
      /\ quiet.named = c.named /\ quiet.pending = Nothing
  BY <1>1, <1>2 DEF Cues
<1>5. d = [[quiet EXCEPT !.absent = FALSE, !.confirmed = TRUE] EXCEPT !.numeric = numeric]
  BY <1>1, <1>3 DEF Cues
<1> HIDE DEF quiet
<1>6. /\ here \in Cues /\ here.anchor = c.anchor /\ here.static = c.static /\ here.age = c.age
      /\ here.named = c.named /\ here.pending = Nothing /\ here.confirmed
  BY <1>4 DEF Cues
<1>7. d = [here EXCEPT !.numeric = numeric]
  BY <1>5
<1> HIDE DEF here
<1>8. /\ d \in Cues /\ d.anchor = c.anchor /\ d.static = c.static /\ d.age = c.age
      /\ d.named = c.named /\ d.pending = Nothing /\ d.confirmed
  BY <1>2, <1>6, <1>7 DEF Cues
<1> SUFFICES /\ d \in Cues /\ d.anchor = c.anchor /\ d.static = c.static /\ d.age = c.age /\ d.confirmed
             /\ d.named = c.named /\ c.named /\ d.pending = Nothing /\ c.anchor # Nothing
  OBVIOUS
<1> HIDE DEF d
<1> QED
  BY <1>1, <1>8

\* A candidate that is agreed with is another anchor than the one before, if
\* that one was static.
LEMMA CommitSound ==
  ASSUME NEW c, CueSound(c), NEW t \in Text, NEW elapsed \in Ages, ~Repeats(c, t),
         Agrees(c, t), t = c.last \/ t = c.pending \/ <<c.pending, t>> \in Similar
  PROVE  /\ Committed(c, t, elapsed) \in Cues /\ Committed(c, t, elapsed).confirmed
         /\ Committed(c, t, elapsed).pending = Nothing /\ Committed(c, t, elapsed).anchor \in Text
         /\ c.static => Committed(c, t, elapsed).anchor # c.anchor
         /\ Committed(c, t, elapsed).static = FALSE /\ Committed(c, t, elapsed).named
<1> DEFINE d == Committed(c, t, elapsed)
           exact == t = c.last /\ t # c.pending
           anchor == IF exact THEN t ELSE c.pending
           age == IF exact THEN elapsed ELSE c.pendingAge
           lived == IF c.age > age THEN c.age - age ELSE 0
           counts == /\ c.anchor # Nothing /\ Template[c.anchor] = Template[anchor]
                     /\ c.numeric >= 2 \/ (~c.absent /\ lived <= 2 * MinCue)
           fast == c.named /\ ~c.absent /\ lived < MinCue
           numeric == IF counts THEN AtMost(c.numeric + 1, 2) ELSE 0
<1>1. d = [c EXCEPT !.anchor = anchor, !.age = age, !.pending = Nothing, !.pendingAge = 0, !.fast = fast,
             !.numeric = numeric, !.named = TRUE, !.absent = FALSE, !.static = FALSE, !.confirmed = TRUE]
  BY DEF Committed
<1>2. c.pending = t \/ <<c.pending, t>> \in Similar => c.pending \in Text
  BY BandAssumption
<1>3. anchor \in Text
  BY <1>2
<1>4. age \in Ages /\ fast \in BOOLEAN
  BY DEF CueSound, Cues
<1>5. numeric \in {0, 1, 2}
  <2> HIDE DEF counts
  <2> QED BY DEF CueSound, Cues, AtMost
<1>6. c.static => anchor # c.anchor
  BY DEF CueSound, Repeats
<1>7. c \in Cues /\ anchor \in Reading /\ Nothing \in Reading /\ 0 \in Ages
  BY <1>3, BandSizes DEF CueSound, Reading, Ages
<1> HIDE DEF anchor, age, fast, numeric
<1> DEFINE counted == [c EXCEPT !.anchor = anchor, !.age = age, !.pending = Nothing, !.pendingAge = 0]
           judged == [counted EXCEPT !.fast = fast, !.numeric = numeric, !.named = TRUE]
<1>10. d = [judged EXCEPT !.absent = FALSE, !.static = FALSE, !.confirmed = TRUE]
  BY <1>1, <1>7 DEF Cues
<1>11. counted \in Cues /\ counted.anchor = anchor /\ counted.pending = Nothing
  BY <1>4, <1>7 DEF Cues
<1> HIDE DEF counted
<1>12. judged \in Cues /\ judged.anchor = anchor /\ judged.pending = Nothing /\ judged.named
  BY <1>4, <1>5, <1>11 DEF Cues
<1> HIDE DEF judged
<1>8. d \in Cues
  BY <1>10, <1>12 DEF Cues
<1>9. d.confirmed /\ d.pending = Nothing /\ d.anchor = anchor /\ d.static = FALSE /\ d.named
  BY <1>10, <1>12 DEF Cues
<1> SUFFICES /\ d \in Cues /\ d.confirmed /\ d.pending = Nothing /\ d.anchor \in Text
             /\ c.static => d.anchor # c.anchor
             /\ d.static = FALSE /\ d.named
  OBVIOUS
<1> HIDE DEF d
<1> QED
  BY <1>3, <1>6, <1>8, <1>9

\* The first reading of something else leaves the cue as it is, and is never
\* the anchor of a cue on the screen.
LEMMA ConsiderSound ==
  ASSUME NEW c, CueSound(c), NEW t \in Text, ~Repeats(c, t)
  PROVE  /\ Considered(c, t) \in Cues
         /\ Considered(c, t).anchor = c.anchor /\ Considered(c, t).static = c.static
         /\ Considered(c, t).age = c.age /\ Considered(c, t).named = c.named
         /\ Considered(c, t).absent = c.absent
         /\ Considered(c, t).confirmed => ~c.absent /\ c.named
         /\ c.named /\ (~c.absent \/ c.static) => Considered(c, t).pending # c.anchor
<1> DEFINE same == <<c.pending, t>> \in Similar
           confirmed == ~c.absent /\ <<c.anchor, t>> \in Similar
           pending == IF same THEN c.pending ELSE t
           pendingAge == IF same THEN c.pendingAge ELSE 0
           d == Considered(c, t)
<1>1. c \in Cues /\ t \in Reading /\ 0 \in Ages
  BY BandSizes DEF CueSound, Reading, Ages
<1>2. d = [c EXCEPT !.confirmed = confirmed, !.pending = pending, !.pendingAge = pendingAge]
  BY DEF Considered
<1>3. confirmed \in BOOLEAN /\ pending \in Reading /\ pendingAge \in Ages
  BY <1>1 DEF Cues
<1>4. confirmed => ~c.absent /\ c.named
  BY BandAssumption DEF CueSound
<1>5. c.named /\ (~c.absent \/ c.static) => pending # c.anchor
  BY DEF CueSound, Repeats
<1> HIDE DEF confirmed, pending, pendingAge
<1>6. /\ d \in Cues /\ d.anchor = c.anchor /\ d.static = c.static /\ d.age = c.age /\ d.named = c.named
      /\ d.absent = c.absent /\ d.confirmed = confirmed /\ d.pending = pending
  BY <1>1, <1>2, <1>3 DEF Cues
<1> SUFFICES /\ d \in Cues /\ d.anchor = c.anchor /\ d.static = c.static /\ d.age = c.age /\ d.named = c.named
             /\ d.absent = c.absent
             /\ d.confirmed => ~c.absent /\ c.named
             /\ c.named /\ (~c.absent \/ c.static) => d.pending # c.anchor
  OBVIOUS
<1> HIDE DEF d
<1> QED BY <1>4, <1>5, <1>6

LEMMA JudgedSound ==
  ASSUME NEW c \in Cues, NEW t \in Text
  PROVE  /\ Judged(c, t) \in Cues /\ Judged(c, t).last = t /\ Judged(c, t).since = 0
         /\ Judged(c, t).anchor = c.anchor /\ Judged(c, t).named = c.named /\ Judged(c, t).pending = c.pending
         /\ Judged(c, t).age = c.age /\ Judged(c, t).absent = c.absent /\ Judged(c, t).confirmed = c.confirmed
         /\ Judged(c, t).static = (c.static \/ (c.confirmed /\ c.age >= Persistent))
<1> DEFINE static == c.static \/ (c.confirmed /\ c.age >= Persistent)
<1>1. static \in BOOLEAN
  BY DEF Cues
<1>2. t \in Reading /\ 0 \in MaybeAges
  BY BandSizes DEF Reading, MaybeAges
<1>3. Judged(c, t) = [c EXCEPT !.static = static, !.last = t, !.since = 0]
  BY DEF Judged
<1> SUFFICES /\ Judged(c, t) \in Cues /\ Judged(c, t).last = t /\ Judged(c, t).since = 0
             /\ Judged(c, t).anchor = c.anchor /\ Judged(c, t).named = c.named
             /\ Judged(c, t).pending = c.pending
             /\ Judged(c, t).age = c.age /\ Judged(c, t).absent = c.absent
             /\ Judged(c, t).confirmed = c.confirmed
             /\ Judged(c, t).static = static
  OBVIOUS
<1> HIDE DEF static
<1> QED BY <1>1, <1>2, <1>3 DEF Cues

\* What Observe makes of a cue is sound, keeps what is static unless another
\* text is its anchor, names nothing at a first reading, and confirms a text
\* that it reads again.
ObservedWell(cue, t, gap, d) ==
  /\ CueSound(d) /\ d.last = t /\ d.since = 0
  /\ cue.static => d.static \/ d.anchor # cue.anchor
  /\ cue.since = None => d.anchor = cue.anchor
  /\ cue.last = t /\ cue.since + gap <= MaxGap => d.confirmed

LEMMA ObserveSound ==
  ASSUME NEW cue, CueSound(cue), NEW t \in Text, NEW gap \in Nat
  PROVE  ObservedWell(cue, t, gap, Observe(cue, t, gap))
<1> DEFINE c == Aged(cue, gap)
           elapsed == cue.since + gap
<1>1. Observe(cue, t, gap) = Judged(IF Repeats(c, t) THEN Repeated(c)
                                    ELSE IF Agrees(c, t) THEN Committed(c, t, elapsed) ELSE Considered(c, t), t)
  BY DEF Observe, Judged, Repeated
<1>2. /\ CueSound(c) /\ c.anchor = cue.anchor /\ c.static = cue.static /\ c.since = cue.since
  BY AgedSound
<1>3. cue.last = t /\ cue.since + gap <= MaxGap => c.last = t /\ c.since # None
  BY BandSizes DEF Aged, CueSound
<1>4. Agrees(c, t) => /\ t = c.last \/ t = c.pending \/ <<c.pending, t>> \in Similar
                      /\ elapsed \in Ages
  <2>1. SUFFICES ASSUME Agrees(c, t)
                 PROVE  elapsed \in Ages
    BY DEF Agrees
  <2>2. cue.since # None /\ cue.since \in -1 .. MaxAge
    BY <1>2, <2>1 DEF Agrees, CueSound, Cues, MaybeAges
  <2>3. CASE cue.since + gap <= MaxGap
    BY <2>2, <2>3, BandSizes DEF None, Ages
  <2>4. CASE ~(cue.since + gap <= MaxGap)
    <3>1. c.pending = Nothing /\ c.last = Nothing
      BY <2>2, <2>4 DEF Aged, CueSound, Cues
    <3> QED BY <2>1, <3>1, BandSizes DEF Agrees
  <2> QED BY <2>3, <2>4
<1> HIDE DEF c, elapsed
<1>0. 0 # None
  BY DEF None
<1>5. CASE Repeats(c, t)
  <2> DEFINE next == Repeated(c)
  <2>1. /\ next \in Cues /\ next.anchor = c.anchor /\ next.static = c.static /\ next.age = c.age
        /\ next.confirmed /\ c.named /\ next.pending = Nothing /\ c.anchor # Nothing
        /\ next.named = c.named
    BY <1>2, <1>5, RepeatSound
  <2>2. Observe(cue, t, gap) = Judged(next, t)
    BY <1>1, <1>5
  <2> HIDE DEF next
  <2> DEFINE d == Judged(next, t)
  <2>3. /\ d \in Cues /\ d.last = t /\ d.since = 0 /\ d.confirmed = next.confirmed
        /\ d.anchor = next.anchor /\ d.named = next.named /\ d.pending = next.pending
        /\ d.age = next.age /\ d.static = (next.static \/ (next.confirmed /\ next.age >= Persistent))
    <3>1. next \in Cues
      BY <2>1
    <3> QED BY ONLY <3>1, t \in Text, JudgedSound
  <2> SUFFICES ObservedWell(cue, t, gap, d)
    BY <2>2
  <2> HIDE DEF d
  <2>4. d.static => d.age >= Persistent
    BY <1>2, <2>1, <2>3 DEF CueSound
  <2> QED BY <1>0, <1>2, <2>1, <2>3, <2>4 DEF CueSound, ObservedWell
<1>6. CASE ~Repeats(c, t) /\ Agrees(c, t)
  <2> DEFINE next == Committed(c, t, elapsed)
  <2>1. /\ next \in Cues /\ next.confirmed /\ next.pending = Nothing /\ next.anchor \in Text
        /\ c.static => next.anchor # c.anchor
        /\ next.static = FALSE /\ next.named
    BY <1>2, <1>4, <1>6, CommitSound
  <2>2. Observe(cue, t, gap) = Judged(next, t)
    BY <1>1, <1>6
  <2> HIDE DEF next
  <2> DEFINE d == Judged(next, t)
  <2>3. /\ d \in Cues /\ d.last = t /\ d.since = 0 /\ d.confirmed = next.confirmed
        /\ d.anchor = next.anchor /\ d.named = next.named /\ d.pending = next.pending
        /\ d.age = next.age /\ d.static = (next.static \/ (next.confirmed /\ next.age >= Persistent))
    BY <2>1, JudgedSound
  <2> SUFFICES ObservedWell(cue, t, gap, d)
    BY <2>2
  <2> HIDE DEF d
  <2>4. d.static => d.age >= Persistent
    BY <2>1, <2>3
  <2>5. next.anchor # Nothing /\ cue.since # None
    BY <1>2, <1>6, <2>1, BandSizes DEF Agrees
  <2> QED BY <1>0, <1>2, <2>1, <2>3, <2>4, <2>5 DEF CueSound, ObservedWell
<1>7. CASE ~Repeats(c, t) /\ ~Agrees(c, t)
  <2> DEFINE next == Considered(c, t)
  <2>1. /\ next \in Cues /\ next.anchor = c.anchor /\ next.static = c.static
        /\ next.age = c.age /\ next.named = c.named /\ next.absent = c.absent
        /\ next.confirmed => ~c.absent /\ c.named
        /\ c.named /\ (~c.absent \/ c.static) => next.pending # c.anchor
    BY <1>2, <1>7, ConsiderSound
  <2>2. Observe(cue, t, gap) = Judged(next, t)
    BY <1>1, <1>7
  <2> HIDE DEF next
  <2> DEFINE d == Judged(next, t)
  <2>3. /\ d \in Cues /\ d.last = t /\ d.since = 0 /\ d.absent = next.absent
        /\ d.anchor = next.anchor /\ d.named = next.named /\ d.pending = next.pending
        /\ d.age = next.age /\ d.static = (next.static \/ (next.confirmed /\ next.age >= Persistent))
    BY <2>1, JudgedSound
  <2>9. ~(c.last = t /\ c.since # None)
    BY <1>7 DEF Agrees
  <2> SUFFICES ObservedWell(cue, t, gap, d)
    BY <2>2
  <2> HIDE DEF d
  <2>4. d.static => d.age >= Persistent /\ d.named
    BY <1>2, <2>1, <2>3 DEF CueSound
  <2>5. d.named /\ (~d.absent \/ d.static) => d.pending # d.anchor
    BY <1>2, <2>1, <2>3 DEF CueSound
  <2> QED BY <1>0, <1>2, <1>3, <2>1, <2>3, <2>4, <2>5, <2>9 DEF CueSound, ObservedWell
<1> QED BY <1>5, <1>6, <1>7

LEMMA VerdictOfStatic ==
  ASSUME NEW c, CueSound(c)
  PROVE  /\ CueVerdict(c) \in {"Glimpsed", "Static", "Churning", "Subtitle"}
         /\ c.static => CueVerdict(c) # "Subtitle"
<1>1. c.static => c.age >= Static
  <2> SUFFICES ASSUME c.static PROVE c.age >= Static
    OBVIOUS
  <2>1. c.age \in Ages /\ c.age >= Persistent
    BY DEF CueSound, Cues
  <2> QED BY <2>1, BandSizes DEF Ages
<1> QED BY <1>1 DEF CueVerdict

\* A verdict is about the band's text or its place, never about its cue.
LEMMA SettledSound ==
  ASSUME NEW b \in Bands, CueSound(b.cue), NEW scattered \in BOOLEAN
  PROVE  /\ BandSound(Settled(b, scattered))
         /\ Settled(b, scattered).cue = b.cue /\ Settled(b, scattered).seen = b.seen
         /\ Settled(b, scattered).idle = b.idle
<1> DEFINE since == IF ~scattered THEN None ELSE IF b.scattered = None THEN 0 ELSE b.scattered
           content == CueVerdict(b.cue)
           verdict == IF ~scattered \/ (b.established /\ since < Hold) THEN content ELSE "Scattered"
           established == IF verdict = "Glimpsed" THEN b.established ELSE verdict = "Subtitle"
           d == Settled(b, scattered)
<1>1. d = [b EXCEPT !.scattered = since, !.settled = verdict, !.established = established]
  BY DEF Settled
<1>2. since \in MaybeAges
  BY BandSizes DEF Bands, MaybeAges, None
<1>3. content \in {"Glimpsed", "Static", "Churning", "Subtitle"} /\ (b.cue.static => content # "Subtitle")
  BY VerdictOfStatic
<1> HIDE DEF content
<1>4. verdict \in {content, "Scattered"}
  OBVIOUS
<1> HIDE DEF verdict, since
<1>5. verdict \in Verdicts /\ (b.cue.static => verdict # "Subtitle")
  BY <1>3, <1>4 DEF Verdicts
<1>6. established \in BOOLEAN
  BY DEF Bands
<1> HIDE DEF established
<1>7. d \in Bands /\ d.cue = b.cue /\ d.seen = b.seen /\ d.idle = b.idle /\ d.settled = verdict
  BY <1>1, <1>2, <1>5, <1>6 DEF Bands
<1> SUFFICES BandSound(d) /\ d.cue = b.cue /\ d.seen = b.seen /\ d.idle = b.idle
  OBVIOUS
<1> HIDE DEF d
<1> QED BY <1>5, <1>7 DEF BandSound

LEMMA NewBandSound ==
  /\ BandSound(NewBand) /\ LastIsNear(NewBand)
  /\ NewBand.cue = NewCue /\ NewBand.seen = 0 /\ NewBand.idle = 0
  /\ NewCue.static = FALSE /\ NewCue.anchor = Nothing /\ NewCue.last = Nothing /\ NewCue.since = None
<1>1. None \in MaybeAges /\ 0 \in Counts /\ 0 \in Idles /\ "none" \in Verdicts
  BY BandSizes DEF MaybeAges, Counts, Idles, None, Verdicts
<1>2. CueSound(NewCue) /\ NewCue \in Cues
  BY NewCueSound DEF CueSound
<1>3. NewCue.static = FALSE /\ NewCue.anchor = Nothing /\ NewCue.last = Nothing /\ NewCue.since = None
  BY DEF NewCue
<1> HIDE DEF NewCue
<1>4. NewBand \in Bands /\ NewBand.cue = NewCue /\ NewBand.seen = 0 /\ NewBand.idle = 0
  BY <1>1, <1>2 DEF NewBand, Bands
<1> QED BY <1>2, <1>3, <1>4 DEF BandSound, LastIsNear

\* A band is forgotten or kept with its cue.
LEMMA PassedSound ==
  ASSUME BandInv, NEW gap \in Nat
  PROVE  /\ BandSound(Passed(gap))
         /\ \/ Passed(gap) = NewBand
            \/ Passed(gap).cue = band.cue /\ Passed(gap).seen = band.seen
         /\ band.seen > 0 /\ band.idle + gap <= Retire => Passed(gap).cue = band.cue
<1> DEFINE b == [band EXCEPT !.idle = band.idle + gap, !.scattered = Later(band.scattered, gap)]
<1>1. band \in Bands /\ BandSound(band) /\ band.seen \in Nat /\ band.idle \in Nat
  BY BandSizes DEF BandInv, BandSound, Bands, Counts, Idles
<1>2. CASE band.seen = 0 \/ band.idle + gap > Retire
  <2>1. Passed(gap) = NewBand
    BY <1>2 DEF Passed
  <2>2. ~(band.seen > 0 /\ band.idle + gap <= Retire)
    BY <1>1, <1>2, BandSizes
  <2> QED BY <2>1, <2>2, NewBandSound
<1>3. CASE ~(band.seen = 0 \/ band.idle + gap > Retire)
  <2>1. Passed(gap) = b
    BY <1>3 DEF Passed
  <2>2. band.idle + gap \in Idles
    BY <1>1, <1>3, BandSizes DEF Idles
  <2>3. Later(band.scattered, gap) \in MaybeAges
    BY <1>1, BandSizes DEF Bands, Later, AtMost, MaybeAges, None
  <2>4. b \in Bands /\ b.cue = band.cue /\ b.seen = band.seen /\ b.settled = band.settled
    BY <1>1, <2>2, <2>3 DEF Bands
  <2> HIDE DEF b
  <2> QED BY <1>1, <2>1, <2>4 DEF BandSound
<1> QED BY <1>2, <1>3

\* A reading is taken in, whatever band it is read in.
LEMMA ReadsSound ==
  ASSUME NEW b, BandSound(b), NEW gap \in Nat, NEW t \in Reading, ReadsIn(b, gap, t)
  PROVE  /\ BandInv'
         /\ b.cue.static => band'.cue.static \/ band'.cue.anchor # b.cue.anchor
         /\ b.cue.since = None => band'.cue.anchor = b.cue.anchor
         /\ b.cue.last = t /\ b.cue.since + gap <= MaxGap /\ t # Nothing => band'.cue.confirmed
<1> DEFINE seen == AtMost(b.seen + 1, MinObs)
           cue == IF t = Nothing THEN CueMissing(Aged(b.cue, gap)) ELSE Observe(b.cue, t, gap)
           since == IF b.idle > MaxGap THEN None ELSE b.scattered
           read == [b EXCEPT !.seen = seen, !.idle = 0, !.scattered = since, !.cue = cue]
<1>1. PICK scattered \in BOOLEAN : band' = Settled(read, scattered)
  BY DEF ReadsIn
<1>2. b \in Bands /\ CueSound(b.cue)
  BY DEF BandSound
<1>3. seen \in Counts /\ seen > 0 /\ 0 \in Idles
  BY <1>2, BandSizes DEF Bands, Counts, Idles, AtMost
<1>4. since \in MaybeAges
  BY <1>2, BandSizes DEF Bands, MaybeAges, None
<1>5. /\ CueSound(cue)
      /\ cue.last # Nothing => cue.since = 0
      /\ b.cue.static => cue.static \/ cue.anchor # b.cue.anchor
      /\ b.cue.since = None => cue.anchor = b.cue.anchor
      /\ b.cue.last = t /\ b.cue.since + gap <= MaxGap /\ t # Nothing => cue.confirmed
  <2>1. CASE t = Nothing
    <3> DEFINE aged == Aged(b.cue, gap)
    <3>1. CueSound(aged) /\ aged.anchor = b.cue.anchor /\ aged.static = b.cue.static
      BY <1>2, AgedSound
    <3>2. cue = CueMissing(aged)
      BY <2>1
    <3> HIDE DEF aged, cue
    <3>3. CueSound(cue) /\ cue.last = Nothing /\ cue.static = aged.static /\ cue.anchor = aged.anchor
      BY <3>1, <3>2, MissingSound
    <3> QED BY <2>1, <3>1, <3>3
  <2>2. CASE t # Nothing
    <3>1. t \in Text /\ cue = Observe(b.cue, t, gap)
      BY <2>2 DEF Reading
    <3>2. ObservedWell(b.cue, t, gap, cue)
      BY <1>2, <3>1, ObserveSound
    <3> HIDE DEF cue
    <3> QED BY <3>2 DEF ObservedWell
  <2> QED BY <2>1, <2>2
<1> HIDE DEF seen, cue, since
<1>6. read \in Bands /\ read.cue = cue /\ read.seen = seen /\ read.idle = 0
  BY <1>2, <1>3, <1>4, <1>5 DEF Bands, CueSound
<1> HIDE DEF read
<1>7. /\ BandSound(band') /\ band'.cue = cue /\ band'.seen = seen /\ band'.idle = 0
  BY <1>1, <1>5, <1>6, SettledSound
<1>8. LastIsNear(band')
  BY <1>3, <1>5, <1>7 DEF LastIsNear
<1>9. BandInv'
  BY <1>7, <1>8 DEF BandInv
<1> QED BY <1>5, <1>7, <1>9

\* A frame without the band takes nothing from its cue but the readings.
LEMMA MissedSound ==
  ASSUME BandInv, NEW gap \in Nat, Missed(gap)
  PROVE  /\ BandInv'
         /\ \/ band' = NewBand
            \/ band'.cue.static = band.cue.static /\ band'.cue.anchor = band.cue.anchor
<1> DEFINE b == Passed(gap)
           cue == CueMissing(b.cue)
           gone == [b EXCEPT !.scattered = None, !.cue = cue]
<1>1. BandSound(b) /\ (b = NewBand \/ b.cue = band.cue)
  BY PassedSound
<1>2. CASE b = NewBand
  <2>1. band' = NewBand
    BY <1>2 DEF Missed
  <2> QED BY <2>1, NewBandSound DEF BandInv
<1>3. CASE b # NewBand
  <2>1. band' = gone
    BY <1>3 DEF Missed
  <2> HIDE DEF b
  <2>2. b \in Bands /\ CueSound(b.cue)
    BY <1>1 DEF BandSound
  <2>3. CueSound(cue) /\ cue.last = Nothing /\ cue.static = b.cue.static /\ cue.anchor = b.cue.anchor
    BY <2>2, MissingSound
  <2> HIDE DEF cue
  <2>4. None \in MaybeAges /\ cue \in Cues
    BY <2>3, BandSizes DEF MaybeAges, None, CueSound
  <2>5. gone \in Bands /\ gone.cue = cue /\ gone.settled = b.settled
    BY <2>2, <2>4 DEF Bands
  <2> HIDE DEF gone
  <2>6. BandSound(gone) /\ LastIsNear(gone)
    BY <1>1, <2>3, <2>5 DEF BandSound, LastIsNear
  <2> QED BY <1>1, <1>3, <2>1, <2>3, <2>5, <2>6 DEF BandInv
<1> QED BY <1>2, <1>3

\* Lines without geometry let the time pass for the band and for its cue alike.
LEMMA UnfilteredSound ==
  ASSUME BandInv, NEW gap \in Nat, Unfiltered(gap)
  PROVE  /\ BandInv'
         /\ band'.cue.static = band.cue.static /\ band'.cue.anchor = band.cue.anchor
         /\ band'.settled = band.settled
<1> DEFINE idle == AtMost(band.idle + gap, Retire + 1)
           scattered == Later(band.scattered, gap)
           since == Later(band.cue.since, gap)
           cue == [band.cue EXCEPT !.since = since]
           b == [band EXCEPT !.idle = idle, !.scattered = scattered, !.cue = cue]
<1>1. band \in Bands /\ band.cue \in Cues /\ CueSound(band.cue) /\ BandSound(band) /\ LastIsNear(band)
  BY DEF BandInv, BandSound, CueSound
<1>2. band.cue.since \in MaybeAges /\ band.idle \in Idles /\ band.scattered \in MaybeAges
  BY <1>1 DEF Bands, Cues
<1>3. band' = b
  BY <1>1 DEF Unfiltered, Bands
<1>4. idle \in Idles
  BY <1>2, BandSizes DEF Idles, AtMost
<1>5. scattered \in MaybeAges /\ since \in MaybeAges
  BY <1>2, BandSizes DEF MaybeAges, Later, AtMost, None
<1>6. band.cue.since # None => since # None
  BY <1>2, BandSizes DEF MaybeAges, Later, AtMost, None
<1>7. ASSUME band.cue.since # None, band.idle <= band.cue.since \/ band.cue.since = MaxAge
      PROVE  idle <= since \/ since = MaxAge
  BY <1>2, <1>7, BandSizes DEF MaybeAges, Idles, Later, AtMost, None
<1> HIDE DEF idle, scattered, since
<1>8. /\ cue \in Cues /\ cue.anchor = band.cue.anchor /\ cue.static = band.cue.static
      /\ cue.last = band.cue.last /\ cue.since = since /\ cue.pending = band.cue.pending
      /\ cue.age = band.cue.age /\ cue.named = band.cue.named /\ cue.absent = band.cue.absent
  BY <1>1, <1>5 DEF Cues
<1> HIDE DEF cue
<1>9. CueSound(cue)
  BY <1>1, <1>6, <1>8 DEF CueSound
<1>10. /\ b \in Bands /\ b.cue = cue /\ b.settled = band.settled /\ b.seen = band.seen
       /\ b.idle = idle
  BY <1>1, <1>4, <1>5, <1>8 DEF Bands
<1> HIDE DEF b
<1>11. BandSound(b)
  BY <1>1, <1>8, <1>9, <1>10 DEF BandSound
<1>12. LastIsNear(b)
  <2> SUFFICES ASSUME cue.last # Nothing
               PROVE  b.seen > 0 /\ (b.idle <= cue.since \/ cue.since = MaxAge)
    BY <1>10 DEF LastIsNear
  <2>1. band.cue.last # Nothing
    BY <1>8
  <2>2. band.seen > 0 /\ (band.idle <= band.cue.since \/ band.cue.since = MaxAge) /\ band.cue.since # None
    BY <1>1, <2>1 DEF LastIsNear, CueSound
  <2> QED BY <1>7, <1>8, <1>10, <2>2
<1> QED BY <1>3, <1>8, <1>10, <1>11, <1>12 DEF BandInv

LEMMA BandBegins == BandInit => BandInv
BY NewBandSound DEF BandInit, BandInv

\* What a step does to a cue that is static.
KeepsOut == band.cue.static /\ band'.seen >= band.seen
            => \/ band'.cue.static /\ band'.settled # "Subtitle"
               \/ band'.cue.anchor # band.cue.anchor

\* A frame in which a cue's last reading is read again.
Confirms == \A gap \in Intervals, t \in Text :
              /\ band.cue.last = t /\ band.cue.since + gap <= MaxGap
              /\ ReadsIn(Passed(gap), gap, t)
              => band'.cue.confirmed

LEMMA BandStep ==
  ASSUME BandInv, [BandNext]_band
  PROVE  BandInv' /\ KeepsOut
<1>1. CueSound(band.cue) /\ BandSound(band) /\ (band.cue.static => band.cue.anchor # Nothing)
  BY DEF BandInv, BandSound, CueSound
<1>2. ASSUME band' = NewBand PROVE BandInv' /\ KeepsOut
  BY <1>1, <1>2, NewBandSound DEF BandInv, KeepsOut
<1>3. CASE BandNext
  <2>1. ASSUME NEW gap \in Intervals, Missed(gap) PROVE BandInv' /\ KeepsOut
    <3>1. gap \in Nat
      BY BandSizes
    <3>2. /\ BandInv'
          /\ \/ band' = NewBand
             \/ band'.cue.static = band.cue.static /\ band'.cue.anchor = band.cue.anchor
      BY <2>1, <3>1, MissedSound
    <3> QED BY <1>2, <3>2 DEF BandInv, BandSound, KeepsOut
  <2>2. ASSUME NEW gap \in Intervals, Unfiltered(gap) PROVE BandInv' /\ KeepsOut
    <3>1. gap \in Nat
      BY BandSizes
    <3> QED BY <1>1, <2>2, <3>1, UnfilteredSound DEF BandSound, KeepsOut
  <2>3. ASSUME NEW gap \in Intervals, NEW t \in Reading, Reads(gap, t) PROVE BandInv' /\ KeepsOut
    <3>1. gap \in Nat
      BY BandSizes
    <3>2. PICK b \in {Passed(gap), NewBand} : ReadsIn(b, gap, t)
      BY <2>3 DEF Reads
    <3>3. BandSound(b)
      BY <3>1, <3>2, PassedSound, NewBandSound
    <3>4. BandInv' /\ (b.cue.static => band'.cue.static \/ band'.cue.anchor # b.cue.anchor)
      BY <3>1, <3>2, <3>3, ReadsSound
    <3>5. band'.cue.static => band'.settled # "Subtitle"
      BY <3>4 DEF BandInv, BandSound
    <3>6. CASE b.cue = band.cue
      BY <3>4, <3>5, <3>6 DEF KeepsOut
    <3>7. CASE b = NewBand
      <4>1. band'.cue.anchor = Nothing
        BY <3>1, <3>2, <3>3, <3>7, ReadsSound, NewBandSound
      <4> QED BY <1>1, <3>4, <4>1 DEF KeepsOut
    <3> QED BY <3>1, <3>2, <3>6, <3>7, PassedSound
  <2>4. CASE Dropped
    BY <1>2, <2>4 DEF Dropped
  <2> QED BY <1>3, <2>1, <2>2, <2>3, <2>4 DEF BandNext, Reading
<1>4. CASE UNCHANGED band
  BY <1>1, <1>4 DEF BandInv, BandSound, LastIsNear, KeepsOut
<1> QED BY <1>3, <1>4

\* Two readings that agree are never further apart than a band is remembered.
LEMMA ConfirmsStep ==
  ASSUME BandInv, MaxGap <= Retire
  PROVE  Confirms
<1> SUFFICES ASSUME NEW gap \in Intervals, NEW t \in Text,
                    band.cue.last = t, band.cue.since + gap <= MaxGap, ReadsIn(Passed(gap), gap, t)
             PROVE  band'.cue.confirmed
  BY DEF Confirms
<1>1. gap \in Nat \ {0} /\ t \in Reading /\ t # Nothing
  BY BandSizes DEF Reading
<1>2. band.cue.since \in MaybeAges /\ band.idle \in Idles
  BY DEF BandInv, BandSound, Bands, CueSound, Cues
<1>3. band.cue.since # MaxAge
  BY <1>1, BandSizes
<1>4. band.seen > 0 /\ band.idle <= band.cue.since
  BY <1>1, <1>3 DEF BandInv, LastIsNear
<1>5. band.idle + gap <= Retire
  BY <1>1, <1>2, <1>4, BandSizes DEF MaybeAges, Idles
<1>6. Passed(gap).cue = band.cue /\ BandSound(Passed(gap))
  BY <1>1, <1>4, <1>5, PassedSound
<1> QED BY <1>1, <1>6, ReadsSound

\* A watermark stays out: for bands of any readings, times and lengths
\* (band_cue.rs, observe and missing).
THEOREM WatermarksStayOut == BandInit /\ [][BandNext]_band => WatermarkStaysOut
<1>1. BandInv /\ [BandNext]_band => BandInv' /\ KeepsOut
  BY BandStep
<1>2. BandInv /\ [BandNext]_band => [KeepsOut]_band
  BY <1>1
<1>3. BandInit /\ [][BandNext]_band => [][KeepsOut]_band
  BY <1>1, <1>2, BandBegins, PTL
<1> QED BY <1>3 DEF WatermarkStaysOut, KeepsOut

-----------------------------------------------------------------------------
(* The types of the bands                                                  *)

LEMMA BandValues == BandInv => BandTypeOK
<1>1. {0, 1, 2} = 0 .. 2
  OBVIOUS
<1> QED
  BY <1>1 DEF BandInv, BandSound, CueSound, Bands, Cues, BandTypeOK, Reading, Ages, MaybeAges, Verdicts, Counts, Idles

-----------------------------------------------------------------------------
(* The setup                                                               *)

Steps == 1 .. 4
Wizards ==
  [step : Steps, settings : BOOLEAN, loading : BOOLEAN, ocr : BOOLEAN, installingOcr : BOOLEAN,
   working : BOOLEAN, error : BOOLEAN, sample : BOOLEAN, terms : BOOLEAN]
SetupEvents == [is : {"reset", "failed", "complete"}, run : Nat]

\* Something is under way that the page will hear of.
RunUnderWay == \E r \in Run : runs[r] # "none"
NewsComing == \E i \in 1 .. Len(toSetup) : toSetup[i].is # "complete"

\* The parts of WizardGoesOn that are about the page alone.  The settings are
\* loaded once, before the first step is left.
PageStands(w) ==
  /\ w.step = 3 => w.terms /\ (w.working \/ w.error)
  /\ w.step = 4 => w.sample
  /\ w.step # 1 => w.settings
  /\ w.settings => ~w.loading

\* A preparation began with the settings.
BeganLoaded ==
  /\ \A r \in Run : runs[r] # "none" => wizard.settings
  /\ \A i \in 1 .. Len(toSetup) : toSetup[i].is = "complete" => wizard.settings

WizardInv ==
  /\ wizard \in Wizards /\ runs \in [Run -> RunStages] /\ toSetup \in Seq(SetupEvents)
  /\ prepares \in 0 .. MaxPrepares
  /\ PageStands(wizard) /\ BeganLoaded
  /\ wizard.working => RunUnderWay \/ NewsComing

LEMMA WizardSizes == MaxOpenings \in Nat /\ MaxPrepares \in Nat
BY WizardAssumption

LEMMA WizardBegins == SetupInit => WizardInv
<1> SUFFICES ASSUME SetupInit PROVE WizardInv
  OBVIOUS
<1> USE WizardSizes
<1>1. wizard \in Wizards /\ wizard.step = 1 /\ ~wizard.working
  BY DEF SetupInit, Wizards, Steps
<1>2. runs \in [Run -> RunStages] /\ toSetup = <<>> /\ prepares = 0
  BY DEF SetupInit, RunStages
<1>3. wizard.settings = FALSE
  BY DEF SetupInit
<1>4. BeganLoaded
  BY <1>2 DEF SetupInit, BeganLoaded
<1> QED BY <1>1, <1>2, <1>3, <1>4 DEF WizardInv, PageStands

\* With the settings loaded nothing is asked of what began.
LEMMA LoadedBegan == wizard.settings = TRUE => BeganLoaded
BY DEF BeganLoaded

\* An event is behind those that were coming.
LEMMA NewsStaysComing ==
  ASSUME toSetup \in Seq(SetupEvents), NEW e \in SetupEvents, toSetup' = Append(toSetup, e)
  PROVE  /\ toSetup' \in Seq(SetupEvents)
         /\ NewsComing \/ e.is # "complete" => NewsComing'
         /\ BeganLoaded /\ e.is # "complete" /\ UNCHANGED <<wizard, runs>> => BeganLoaded'
<1>1. Len(toSetup) \in Nat /\ Len(toSetup') = Len(toSetup) + 1 /\ toSetup'[Len(toSetup) + 1] = e
      /\ toSetup' \in Seq(SetupEvents)
  OBVIOUS
<1>2. \A i \in 1 .. Len(toSetup) : toSetup'[i] = toSetup[i]
  OBVIOUS
<1>3. ASSUME NewsComing PROVE NewsComing'
  <2>1. PICK i \in 1 .. Len(toSetup) : toSetup[i].is # "complete"
    BY <1>3 DEF NewsComing
  <2>2. i \in 1 .. Len(toSetup') /\ toSetup'[i].is # "complete"
    BY <1>1, <1>2, <2>1
  <2> QED BY <2>2 DEF NewsComing
<1>4. ASSUME e.is # "complete" PROVE NewsComing'
  <2>1. Len(toSetup) + 1 \in 1 .. Len(toSetup')
    BY <1>1
  <2> QED BY <1>1, <1>4, <2>1 DEF NewsComing
<1>5. ASSUME BeganLoaded, e.is # "complete", UNCHANGED <<wizard, runs>> PROVE BeganLoaded'
  <2>1. ASSUME NEW i \in 1 .. Len(toSetup'), toSetup'[i].is = "complete" PROVE wizard.settings
    <3>1. i # Len(toSetup) + 1
      BY <1>1, <1>5, <2>1
    <3>2. i \in 1 .. Len(toSetup)
      BY <1>1, <3>1
    <3> QED BY <1>2, <1>5, <2>1, <3>2 DEF BeganLoaded
  <2> QED BY <1>5, <2>1 DEF BeganLoaded, Run
<1> QED BY <1>1, <1>3, <1>4, <1>5

\* A click on the page, or an answer to it, that makes no preparation.
LEMMA PageActs ==
  ASSUME WizardInv, NEW w \in Wizards, WizardBecomes(w), PageStands(w), w.working => wizard.working,
         wizard.settings => w.settings
  PROVE  WizardInv'
<1>1. wizard' = w /\ UNCHANGED <<toSetup, runs, prepares>>
  BY DEF WizardBecomes
<1>2. BeganLoaded'
  BY <1>1 DEF WizardInv, BeganLoaded, Run
<1> QED BY <1>1, <1>2 DEF WizardInv, RunUnderWay, NewsComing, PageStands

\* A step of a preparation, after which it goes on, has failed, or has told so.
LEMMA RunActs ==
  ASSUME WizardInv, NEW r \in Run, runs[r] # "none", NEW next \in RunStages, NEW w \in Wizards,
         StepEnds(r, next, w), PageStands(w),
         w.working => wizard.working /\ (next # "none" \/ NewsComing'),
         toSetup' \in Seq(SetupEvents), w.settings = wizard.settings
  PROVE  WizardInv'
<1>1. /\ wizard' = w /\ runs' = [runs EXCEPT ![r] = next] /\ UNCHANGED prepares
      /\ runs' \in [Run -> RunStages]
  BY DEF StepEnds, WizardInv
<1>2. w.working => RunUnderWay' \/ NewsComing'
  <2> SUFFICES ASSUME next # "none" PROVE RunUnderWay'
    OBVIOUS
  <2>1. runs'[r] = next
    BY <1>1 DEF WizardInv
  <2> QED BY <2>1 DEF RunUnderWay, Run
<1>3. BeganLoaded'
  BY <1>1 DEF WizardInv, BeganLoaded
<1> QED BY <1>1, <1>2, <1>3 DEF WizardInv, PageStands

LEMMA FailStands ==
  ASSUME WizardInv
  PROVE  /\ Fail(wizard) \in Wizards /\ PageStands(Fail(wizard)) /\ ~Fail(wizard).working
         /\ Fail(wizard).settings = wizard.settings
<1> DEFINE w == Fail(wizard)
<1>1. /\ w \in Wizards /\ ~w.working /\ w.error /\ w.step = wizard.step /\ w.terms = wizard.terms
      /\ w.sample = wizard.sample /\ w.loading = wizard.loading /\ w.settings = wizard.settings
  BY DEF WizardInv, Wizards, Fail
<1> SUFFICES w \in Wizards /\ PageStands(w) /\ ~w.working /\ w.settings = wizard.settings
  OBVIOUS
<1> HIDE DEF w
<1> QED BY <1>1 DEF WizardInv, PageStands

LEMMA ResetStands ==
  ASSUME WizardInv
  PROVE  /\ Reset(wizard) \in Wizards /\ PageStands(Reset(wizard)) /\ ~Reset(wizard).working
         /\ Reset(wizard).settings = wizard.settings
<1> DEFINE w == Reset(wizard)
           first == [wizard EXCEPT !.terms = FALSE, !.step = 1]
<1>2. 1 \in Steps /\ wizard \in Wizards
  BY DEF WizardInv, Steps
<1>3. w = [first EXCEPT !.working = FALSE, !.error = FALSE, !.sample = FALSE]
  BY <1>2 DEF Wizards, Reset
<1>4. /\ first \in Wizards /\ first.step = 1 /\ first.settings = wizard.settings
      /\ first.loading = wizard.loading
  BY <1>2 DEF Wizards
<1> HIDE DEF first
<1>1. /\ w \in Wizards /\ ~w.working /\ w.step = 1 /\ w.settings = wizard.settings
      /\ w.loading = wizard.loading
  BY <1>3, <1>4 DEF Wizards
<1> SUFFICES w \in Wizards /\ PageStands(w) /\ ~w.working /\ w.settings = wizard.settings
  OBVIOUS
<1> HIDE DEF w
<1> QED BY <1>1 DEF WizardInv, PageStands

LEMMA WindowsStep == WizardInv /\ Windows => WizardInv'
<1>1. ASSUME WizardInv, OpenSetup PROVE WizardInv'
  <2>1. UNCHANGED <<wizard, runs, prepares>>
    BY <1>1 DEF OpenSetup
  <2>2. CASE listening
    <3> DEFINE e == [is |-> "reset", run |-> 0]
    <3>1. e \in SetupEvents /\ e.is # "complete" /\ toSetup' = Append(toSetup, e)
      BY <1>1, <2>2 DEF OpenSetup, SetupEvents
    <3> HIDE DEF e
    <3>2. toSetup' \in Seq(SetupEvents) /\ NewsComing' /\ BeganLoaded'
      BY <1>1, <2>1, <3>1, NewsStaysComing DEF WizardInv
    <3> QED BY <1>1, <2>1, <3>2 DEF WizardInv, PageStands
  <2>3. CASE ~listening
    BY <1>1, <2>1, <2>3 DEF OpenSetup, WizardInv, PageStands, BeganLoaded, RunUnderWay, NewsComing, Run
  <2> QED BY <2>2, <2>3
<1>2. ASSUME WizardInv, CloseSetup PROVE WizardInv'
  BY <1>2 DEF CloseSetup, WizardInv, PageStands, BeganLoaded, RunUnderWay, NewsComing, Run
<1>3. ASSUME WizardInv, CloseFails PROVE WizardInv'
  <2> DEFINE w == [wizard EXCEPT !.error = TRUE]
  <2>1. /\ w \in Wizards /\ w.working = wizard.working /\ w.error /\ w.step = wizard.step
        /\ w.terms = wizard.terms /\ w.sample = wizard.sample /\ w.loading = wizard.loading
        /\ w.settings = wizard.settings
    BY <1>3 DEF WizardInv, Wizards
  <2>2. WizardBecomes(w)
    BY <1>3 DEF CloseFails, WizardBecomes
  <2> HIDE DEF w
  <2>3. PageStands(w)
    BY <1>3, <2>1 DEF WizardInv, PageStands
  <2> QED BY <1>3, <2>1, <2>2, <2>3, PageActs
<1> QED BY <1>1, <1>2, <1>3 DEF Windows

LEMMA ButtonsStep == WizardInv /\ (LoadSettings \/ StepButtons \/ InstallSourceOcr) => WizardInv'
<1> SUFFICES ASSUME WizardInv, LoadSettings \/ StepButtons \/ InstallSourceOcr PROVE WizardInv'
  OBVIOUS
<1>1. /\ wizard \in Wizards /\ PageStands(wizard) /\ 1 \in Steps /\ 2 \in Steps
  BY DEF WizardInv, Steps
<1>2. ASSUME NEW ok \in BOOLEAN, LoadEnds(ok) PROVE WizardInv'
  <2>1. PICK ready \in BOOLEAN :
          WizardBecomes([wizard EXCEPT !.loading = FALSE, !.settings = ok, !.ocr = ok /\ ready, !.error = ~ok])
    BY <1>2 DEF LoadEnds
  <2> DEFINE ocr == ok /\ ready
             w == [wizard EXCEPT !.loading = FALSE, !.settings = ok, !.ocr = ocr, !.error = ~ok]
  <2>2. ocr \in BOOLEAN
    OBVIOUS
  <2>3. WizardBecomes(w)
    BY <2>1
  <2> HIDE DEF ocr
  <2>4. w \in Wizards /\ w.step = wizard.step /\ ~w.loading /\ w.working = wizard.working /\ w.settings = ok
    BY <1>1, <2>2 DEF Wizards
  <2> HIDE DEF w
  <2>5. wizard.step = 1 /\ ~wizard.settings
    BY <1>1, <1>2 DEF LoadEnds, PageStands
  <2> QED BY <2>3, <2>4, <2>5, PageActs DEF PageStands
<1>3. CASE RetryLoad
  <2> DEFINE w == [wizard EXCEPT !.loading = TRUE, !.error = FALSE]
  <2>1. WizardBecomes(w) /\ wizard.step = 1 /\ ~wizard.settings
    BY <1>3 DEF RetryLoad, Clicks
  <2>2. w \in Wizards /\ w.step = wizard.step /\ w.working = wizard.working /\ w.settings = wizard.settings
    BY <1>1 DEF Wizards
  <2> HIDE DEF w
  <2> QED BY <2>1, <2>2, PageActs DEF PageStands
<1>4. CASE GoOn
  <2> DEFINE w == [wizard EXCEPT !.step = 2]
  <2>1. WizardBecomes(w) /\ ~wizard.loading /\ wizard.settings
    BY <1>4 DEF GoOn, Clicks
  <2>2. /\ w \in Wizards /\ w.step = 2 /\ w.loading = wizard.loading /\ w.working = wizard.working
        /\ w.settings = wizard.settings
    BY <1>1 DEF Wizards
  <2> HIDE DEF w
  <2>3. PageStands(w)
    BY <2>1, <2>2 DEF PageStands
  <2>4. WizardBecomes(w) /\ (w.working => wizard.working) /\ (wizard.settings => w.settings) /\ w \in Wizards
    BY <2>1, <2>2
  <2> QED BY <2>3, <2>4, PageActs
<1>5. CASE GoBack
  <2> DEFINE w == [wizard EXCEPT !.step = 1]
  <2>1. WizardBecomes(w)
    BY <1>5 DEF GoBack, Clicks
  <2>2. /\ w \in Wizards /\ w.step = 1 /\ w.working = wizard.working
        /\ w.settings = wizard.settings /\ w.loading = wizard.loading
    BY <1>1 DEF Wizards
  <2> HIDE DEF w
  <2> QED BY <1>1, <2>1, <2>2, PageActs DEF PageStands
<1>6. ASSUME NEW w \in Wizards, WizardBecomes(w), wizard.step = 2, w.step = 2,
             w.loading = wizard.loading, w.working = wizard.working, w.settings = wizard.settings
      PROVE  WizardInv'
  BY <1>1, <1>6, PageActs DEF PageStands
<1>7. CASE SetLanguage
  <2>1. PICK ready \in BOOLEAN : WizardBecomes([wizard EXCEPT !.ocr = ready])
    BY <1>7 DEF SetLanguage, Clicks
  <2>2. wizard.step = 2
    BY <1>7 DEF SetLanguage
  <2> DEFINE w == [wizard EXCEPT !.ocr = ready]
  <2>3. /\ w \in Wizards /\ w.step = 2 /\ w.loading = wizard.loading /\ w.working = wizard.working
        /\ w.settings = wizard.settings
    BY <1>1, <2>2 DEF Wizards
  <2> QED BY <1>6, <2>1, <2>2, <2>3
<1>8. CASE AcceptTerms
  <2>1. PICK agreed \in BOOLEAN : WizardBecomes([wizard EXCEPT !.terms = agreed])
    BY <1>8 DEF AcceptTerms, Clicks
  <2>2. wizard.step = 2
    BY <1>8 DEF AcceptTerms
  <2> DEFINE w == [wizard EXCEPT !.terms = agreed]
  <2>3. /\ w \in Wizards /\ w.step = 2 /\ w.loading = wizard.loading /\ w.working = wizard.working
        /\ w.settings = wizard.settings
    BY <1>1, <2>2 DEF Wizards
  <2> QED BY <1>6, <2>1, <2>2, <2>3
<1>9. CASE InstallOcr
  <2> DEFINE w == [wizard EXCEPT !.installingOcr = TRUE, !.error = FALSE]
  <2>1. WizardBecomes(w) /\ wizard.step = 2
    BY <1>9 DEF InstallOcr, Clicks
  <2>2. /\ w \in Wizards /\ w.step = 2 /\ w.loading = wizard.loading /\ w.working = wizard.working
        /\ w.settings = wizard.settings
    BY <1>1, <2>1 DEF Wizards
  <2> QED BY <1>6, <2>1, <2>2
<1>10. CASE OcrEnds
  <2>1. PICK ready \in BOOLEAN :
          \/ WizardBecomes([wizard EXCEPT !.installingOcr = FALSE, !.ocr = ready, !.error = @ \/ ~ready])
          \/ WizardBecomes([wizard EXCEPT !.installingOcr = FALSE, !.error = TRUE])
    BY <1>10 DEF OcrEnds
  <2> DEFINE error == wizard.error \/ ~ready
             done == [wizard EXCEPT !.installingOcr = FALSE, !.ocr = ready, !.error = error]
             failed == [wizard EXCEPT !.installingOcr = FALSE, !.error = TRUE]
  <2>2. error \in BOOLEAN /\ (wizard.error => error)
    BY <1>1 DEF Wizards
  <2>3. PICK w \in {done, failed} : WizardBecomes(w)
    BY <2>1
  <2> HIDE DEF error
  <2>4. /\ w \in Wizards /\ w.step = wizard.step /\ w.loading = wizard.loading
        /\ w.working = wizard.working /\ w.terms = wizard.terms /\ w.sample = wizard.sample
        /\ wizard.error => w.error
        /\ w.settings = wizard.settings
    <3>1. CASE w = done
      BY <1>1, <2>2, <3>1 DEF Wizards
    <3>2. CASE w = failed
      BY <1>1, <3>2 DEF Wizards
    <3> QED BY <2>3, <3>1, <3>2
  <2>5. PageStands(w)
    BY <1>1, <2>4 DEF PageStands
  <2> QED BY <2>3, <2>4, <2>5, PageActs
<1> QED
  BY <1>2, <1>3, <1>4, <1>5, <1>7, <1>8, <1>9, <1>10 DEF LoadSettings, StepButtons, InstallSourceOcr

LEMMA BeginStep == WizardInv /\ BeginEngineSetup => WizardInv'
<1> SUFFICES ASSUME WizardInv, BeginEngineSetup PROVE WizardInv'
  OBVIOUS
<1> DEFINE w == [wizard EXCEPT !.step = 3, !.working = TRUE, !.error = FALSE]
<1>1. prepares + 1 \in Run /\ prepares' = prepares + 1 /\ prepares' \in 0 .. MaxPrepares
  BY WizardSizes DEF BeginEngineSetup, WizardInv, Run
<1>2. wizard' = w /\ runs' = [runs EXCEPT ![prepares + 1] = "saving"] /\ UNCHANGED toSetup
  BY DEF BeginEngineSetup
<1>3. wizard \in Wizards /\ wizard.terms /\ wizard.step \in {2, 3} /\ wizard.settings /\ ~wizard.loading
  BY DEF BeginEngineSetup, Offered, WizardInv, PageStands, Wizards
<1>9. 3 \in Steps
  BY DEF Steps
<1>4. /\ w \in Wizards /\ w.step = 3 /\ w.working /\ w.terms = wizard.terms /\ w.loading = wizard.loading
      /\ w.settings = wizard.settings
  BY <1>3, <1>9 DEF Wizards
<1> HIDE DEF w
<1>5. runs' \in [Run -> RunStages] /\ runs'[prepares + 1] = "saving"
  BY <1>1, <1>2 DEF WizardInv, RunStages
<1>6. RunUnderWay'
  BY <1>1, <1>5 DEF RunUnderWay, Run
<1>7. BeganLoaded'
  BY <1>2, <1>3, <1>4 DEF BeganLoaded
<1> QED BY <1>1, <1>2, <1>3, <1>4, <1>5, <1>6, <1>7 DEF WizardInv, PageStands

LEMMA RunStep == WizardInv /\ RunGoesOn => WizardInv'
<1> SUFFICES ASSUME WizardInv, NEW r \in Run, SettingsSaved(r) \/ InstallEnds(r) \/ VerifyReady(r)
             PROVE  WizardInv'
  BY DEF RunGoesOn
<1>1. /\ wizard \in Wizards /\ PageStands(wizard) /\ toSetup \in Seq(SetupEvents)
      /\ {"none", "installing", "told", "refreshing", "testing"} \subseteq RunStages
      /\ runs[r] # "none" /\ r \in Nat /\ wizard.settings /\ ~wizard.loading
  BY DEF WizardInv, PageStands, BeganLoaded, SettingsSaved, InstallEnds, VerifyReady, RunStages, Run
<1>2. ASSUME NEW next \in {"installing", "refreshing", "testing"}, StepEnds(r, next, wizard), UNCHANGED toSetup
      PROVE  WizardInv'
  BY <1>1, <1>2, RunActs
<1>3. ASSUME StepEnds(r, "none", Fail(wizard)), UNCHANGED toSetup
      PROVE  WizardInv'
  <2> DEFINE w == Fail(wizard)
  <2>1. /\ w \in Wizards /\ PageStands(w) /\ ~w.working /\ StepEnds(r, "none", w)
        /\ w.settings = wizard.settings
    BY <1>3, FailStands
  <2> HIDE DEF w
  <2> QED BY <1>1, <1>3, <2>1, RunActs
<1>4. ASSUME NEW e \in SetupEvents, NEW next \in {"none", "told"}, StepEnds(r, next, wizard),
             toSetup' = Append(toSetup, e), next = "none" => e.is # "complete"
      PROVE  WizardInv'
  <2>1. toSetup' \in Seq(SetupEvents) /\ (next = "none" => NewsComing')
    BY <1>1, <1>4, NewsStaysComing
  <2> QED BY <1>1, <1>4, <2>1, RunActs
<1>5. CASE SettingsSaved(r)
  BY <1>2, <1>3, <1>5 DEF SettingsSaved, Throws
<1>6. CASE InstallEnds(r)
  <2> DEFINE bad == [is |-> "failed", run |-> r]
             good == [is |-> "complete", run |-> r]
  <2>1. bad \in SetupEvents /\ bad.is # "complete" /\ good \in SetupEvents
    BY <1>1 DEF SetupEvents
  <2>2. \/ Throws(r)
        \/ StepEnds(r, "none", wizard) /\ toSetup' = Append(toSetup, bad)
        \/ StepEnds(r, "told", wizard) /\ toSetup' = Append(toSetup, good)
    BY <1>6 DEF InstallEnds
  <2> HIDE DEF bad, good
  <2> QED BY <1>3, <1>4, <2>1, <2>2 DEF Throws
<1>8. ASSUME StepEnds(r, "none", [wizard EXCEPT !.sample = TRUE, !.working = FALSE, !.step = 4]),
             UNCHANGED toSetup
      PROVE  WizardInv'
  <2> DEFINE w == [wizard EXCEPT !.sample = TRUE, !.working = FALSE, !.step = 4]
  <2>1. 4 \in Steps
    BY DEF Steps
  <2>2. /\ w \in Wizards /\ w.step = 4 /\ w.sample /\ ~w.working /\ w.loading = wizard.loading
        /\ w.settings = wizard.settings
    BY <1>1, <2>1 DEF Wizards
  <2>3. StepEnds(r, "none", w)
    BY <1>8
  <2> HIDE DEF w
  <2>4. PageStands(w)
    BY <1>1, <2>2 DEF PageStands
  <2>5. toSetup' \in Seq(SetupEvents) /\ "none" \in RunStages
    BY <1>1, <1>8
  <2> QED BY <1>1, <2>2, <2>3, <2>4, <2>5, RunActs
<1>7. CASE VerifyReady(r)
  <2>1. UNCHANGED toSetup
    BY <1>7 DEF VerifyReady
  <2>2. \/ StepEnds(r, "none", Fail(wizard))
        \/ StepEnds(r, "refreshing", wizard)
        \/ StepEnds(r, "testing", wizard)
        \/ StepEnds(r, "none", [wizard EXCEPT !.sample = TRUE, !.working = FALSE, !.step = 4])
    BY <1>7 DEF VerifyReady
  <2> QED BY <1>2, <1>3, <1>8, <2>1, <2>2
<1> QED BY <1>5, <1>6, <1>7

LEMMA HearsStep == WizardInv /\ HearsEvent => WizardInv'
<1> SUFFICES ASSUME WizardInv, HearsEvent PROVE WizardInv'
  OBVIOUS
<1> DEFINE e == Head(toSetup)
<1>1. toSetup \in Seq(SetupEvents) /\ toSetup # <<>> /\ toSetup' = Tail(toSetup)
  BY DEF WizardInv, HearsEvent
<1>2. /\ e \in SetupEvents /\ toSetup' \in Seq(SetupEvents) /\ e = toSetup[1]
      /\ Len(toSetup) \in Nat /\ Len(toSetup') = Len(toSetup) - 1
      /\ \A i \in 1 .. Len(toSetup') : toSetup'[i] = toSetup[i + 1]
  BY <1>1
<1>3. UNCHANGED prepares /\ runs' = IF e.is = "complete" THEN [runs EXCEPT ![e.run] = "starting"] ELSE runs
  BY DEF HearsEvent
<1>4. runs' \in [Run -> RunStages]
  BY <1>3 DEF WizardInv, RunStages
<1>5. wizard' = CASE e.is = "reset" -> Reset(wizard) [] e.is = "failed" -> Fail(wizard) [] OTHER -> wizard
  BY DEF HearsEvent
<1>6. e.is \in {"reset", "failed", "complete"}
  BY <1>2 DEF SetupEvents
<1> HIDE DEF e
<1>9. ASSUME wizard'.settings = wizard.settings PROVE BeganLoaded'
  <2>1. CASE wizard.settings
    BY <1>9, <2>1 DEF BeganLoaded
  <2>2. CASE ~wizard.settings
    <3>1. /\ \A r \in Run : ~(runs[r] # "none")
          /\ \A i \in 1 .. Len(toSetup) : toSetup[i].is # "complete"
      BY <2>2 DEF WizardInv, BeganLoaded
    <3>2. e.is # "complete" /\ runs' = runs
      BY <1>1, <1>2, <1>3, <3>1
    <3>3. \A i \in 1 .. Len(toSetup') : toSetup'[i].is # "complete"
      BY <1>2, <3>1
    <3> QED BY <3>1, <3>2, <3>3 DEF BeganLoaded, Run
  <2> QED BY <2>1, <2>2
<1>7. CASE e.is # "complete"
  <2>1. wizard' \in {Reset(wizard), Fail(wizard)}
    BY <1>5, <1>6, <1>7
  <2>2. /\ wizard' \in Wizards /\ PageStands(wizard') /\ ~wizard'.working
        /\ wizard'.settings = wizard.settings
    BY <2>1, ResetStands, FailStands
  <2> QED BY <1>2, <1>3, <1>4, <1>9, <2>2 DEF WizardInv, PageStands
<1>8. CASE e.is = "complete"
  <2>1. UNCHANGED wizard
    BY <1>5, <1>8
  <2>2. ASSUME RunUnderWay PROVE RunUnderWay'
    <3>1. PICK r \in Run : runs[r] # "none"
      BY <2>2 DEF RunUnderWay
    <3>2. runs'[r] # "none"
      BY <1>3, <3>1 DEF WizardInv
    <3> QED BY <3>1, <3>2 DEF RunUnderWay, Run
  <2>3. ASSUME NewsComing PROVE NewsComing'
    <3>1. PICK i \in 1 .. Len(toSetup) : toSetup[i].is # "complete"
      BY <2>3 DEF NewsComing
    <3>2. i # 1
      BY <1>2, <1>8, <3>1
    <3>3. i - 1 \in 1 .. Len(toSetup') /\ toSetup'[i - 1] = toSetup[i]
      BY <1>2, <3>1, <3>2
    <3> QED BY <3>1, <3>3 DEF NewsComing
  <2> QED BY <1>2, <1>3, <1>4, <1>9, <2>1, <2>2, <2>3 DEF WizardInv, PageStands
<1> QED BY <1>7, <1>8

LEMMA WizardStep == WizardInv /\ [SetupNext]_wizardPart => WizardInv'
<1>1. WizardInv /\ UNCHANGED wizardPart => WizardInv'
  BY DEF wizardPart, WizardInv, PageStands, BeganLoaded, RunUnderWay, NewsComing, Run
<1> QED
  BY <1>1, WindowsStep, ButtonsStep, BeginStep, RunStep, HearsStep DEF SetupNext

\* The setup works, with a preparation under way, or offers a retry, however
\* often it was closed and opened (meowcal-setup.ts:221).
THEOREM SetupGoesOn == SetupInit /\ [][SetupNext]_wizardPart => []WizardGoesOn
<1>1. WizardInv => WizardGoesOn
  BY DEF WizardInv, WizardGoesOn, PageStands, RunUnderWay, NewsComing
<1> QED BY <1>1, WizardBegins, WizardStep, PTL

-----------------------------------------------------------------------------
(* The types of the setup                                                  *)

\* The preparations that may still tell of their end.  Each tells once, and
\* each opening of the window sends one reset: nothing else is on its way.
Untold == {r \in Run : runs[r] \in {"saving", "installing"}}
WizardBounds ==
  /\ setupWindow \in {"none", "hidden", "shown"} /\ openings \in 0 .. MaxOpenings
  /\ Len(toSetup) + Cardinality(Untold) <= openings + prepares

LEMMA UntoldCounted == IsFiniteSet(Untold) /\ Cardinality(Untold) \in Nat
<1>1. IsFiniteSet(Run)
  BY WizardSizes, FS_Interval DEF Run
<1>2. Untold \in SUBSET Run
  BY DEF Untold
<1> QED BY <1>1, <1>2, FS_Subset, FS_CardinalityType

LEMMA UntoldCountedAfter == IsFiniteSet(Untold') /\ Cardinality(Untold') \in Nat
<1>1. IsFiniteSet(Run)
  BY WizardSizes, FS_Interval DEF Run
<1>2. Untold' \in SUBSET Run
  BY DEF Untold, Run
<1> QED BY <1>1, <1>2, FS_Subset, FS_CardinalityType

\* A preparation that goes on is not one more that has something to tell,
\* unless it begins, and is one less when it has told.
LEMMA UntoldChanges ==
  ASSUME runs \in [Run -> RunStages], NEW r, NEW next, runs' = [runs EXCEPT ![r] = next]
  PROVE  /\ Cardinality(Untold') <= Cardinality(Untold) + 1
         /\ r \in Untold \/ next \notin {"saving", "installing"} => Cardinality(Untold') <= Cardinality(Untold)
         /\ r \in Untold /\ next \notin {"saving", "installing"} => Cardinality(Untold') <= Cardinality(Untold) - 1
<1>0. Run' = Run
  BY DEF Run
<1>1. \A q \in Run : q # r => runs'[q] = runs[q]
  OBVIOUS
<1>2. r \in Run => runs'[r] = next
  OBVIOUS
<1>3. Untold' \subseteq Untold \cup {r}
  BY <1>0, <1>1 DEF Untold
<1>4. ASSUME next \notin {"saving", "installing"} PROVE Untold' \subseteq Untold \ {r}
  BY <1>0, <1>1, <1>2, <1>4 DEF Untold
<1>5. /\ IsFiniteSet(Untold \cup {r})
      /\ Cardinality(Untold \cup {r}) = IF r \in Untold THEN Cardinality(Untold) ELSE Cardinality(Untold) + 1
  BY UntoldCounted, FS_AddElement
<1>6. /\ IsFiniteSet(Untold \ {r})
      /\ Cardinality(Untold \ {r}) = IF r \in Untold THEN Cardinality(Untold) - 1 ELSE Cardinality(Untold)
  BY UntoldCounted, FS_RemoveElement
<1>7. Cardinality(Untold') <= Cardinality(Untold \cup {r})
  BY <1>3, <1>5, FS_Subset
<1>8. next \notin {"saving", "installing"} => Cardinality(Untold') <= Cardinality(Untold \ {r})
  BY <1>4, <1>6, FS_Subset
<1> QED BY <1>5, <1>6, <1>7, <1>8, UntoldCounted, UntoldCountedAfter

LEMMA WizardBoundsBegin == SetupInit => WizardBounds
<1> SUFFICES ASSUME SetupInit PROVE WizardBounds
  OBVIOUS
<1>1. Untold = {} /\ toSetup = <<>> /\ openings = 0 /\ prepares = 0 /\ setupWindow = "none"
  BY DEF SetupInit, Untold
<1>2. Cardinality(Untold) = 0 /\ Len(toSetup) = 0
  BY <1>1, FS_EmptySet
<1> QED BY <1>1, <1>2, WizardSizes DEF WizardBounds

\* A step of the page begins no preparation and tells nothing.
LEMMA QuietBounded ==
  ASSUME WizardBounds, UNCHANGED <<toSetup, runs, prepares, openings>>, setupWindow' \in {"none", "hidden", "shown"}
  PROVE  WizardBounds'
<1>1. Untold' = Untold
  BY DEF Untold, Run
<1> QED BY <1>1 DEF WizardBounds

LEMMA OpenBounded == WizardInv /\ WizardBounds /\ OpenSetup => WizardBounds'
<1> SUFFICES ASSUME WizardInv, WizardBounds, OpenSetup PROVE WizardBounds'
  OBVIOUS
<1>1. /\ toSetup \in Seq(SetupEvents) /\ [is |-> "reset", run |-> 0] \in SetupEvents
      /\ prepares \in Nat /\ openings \in Nat
  BY WizardSizes DEF WizardInv, WizardBounds, SetupEvents
<1>2. toSetup' = toSetup \/ toSetup' = Append(toSetup, [is |-> "reset", run |-> 0])
  BY DEF OpenSetup
<1>3. Len(toSetup') <= Len(toSetup) + 1 /\ Len(toSetup) \in Nat /\ Len(toSetup') \in Nat
  BY <1>1, <1>2
<1>4. Untold' = Untold
  BY DEF OpenSetup, Untold, Run
<1>5. openings' = openings + 1 /\ openings' \in 0 .. MaxOpenings /\ prepares' = prepares /\ setupWindow' = "shown"
  BY WizardSizes DEF OpenSetup, WizardBounds
<1> QED BY <1>1, <1>3, <1>4, <1>5, UntoldCounted DEF WizardBounds

LEMMA BeginBounded == WizardInv /\ WizardBounds /\ BeginEngineSetup => WizardBounds'
<1> SUFFICES ASSUME WizardInv, WizardBounds, BeginEngineSetup PROVE WizardBounds'
  OBVIOUS
<1>1. /\ prepares' = prepares + 1 /\ runs' = [runs EXCEPT ![prepares + 1] = "saving"]
      /\ UNCHANGED <<setupWindow, toSetup, openings>>
  BY DEF BeginEngineSetup
<1>2. Cardinality(Untold') <= Cardinality(Untold) + 1
  BY <1>1, UntoldChanges DEF WizardInv
<1>3. Len(toSetup) \in Nat /\ prepares \in Nat /\ openings \in Nat
  BY WizardSizes DEF WizardInv, WizardBounds
<1> QED BY <1>1, <1>2, <1>3, UntoldCounted, UntoldCountedAfter DEF WizardBounds

LEMMA RunBounded == WizardInv /\ WizardBounds /\ RunGoesOn => WizardBounds'
<1> SUFFICES ASSUME WizardInv, WizardBounds, NEW r \in Run, SettingsSaved(r) \/ InstallEnds(r) \/ VerifyReady(r)
             PROVE  WizardBounds'
  BY DEF RunGoesOn
<1>1. Len(toSetup) \in Nat /\ prepares \in Nat /\ openings \in Nat /\ r \in Nat
  BY WizardSizes DEF WizardInv, WizardBounds, Run
<1>2. UNCHANGED <<setupWindow, openings, prepares>>
  BY DEF SettingsSaved, InstallEnds, VerifyReady, StepEnds, Throws
<1>3. ASSUME NEW next, runs' = [runs EXCEPT ![r] = next], UNCHANGED toSetup,
             r \in Untold \/ next \notin {"saving", "installing"}
      PROVE  WizardBounds'
  <2>1. Cardinality(Untold') <= Cardinality(Untold)
    BY <1>3, UntoldChanges DEF WizardInv
  <2> QED BY <1>1, <1>2, <1>3, <2>1, UntoldCounted, UntoldCountedAfter DEF WizardBounds
<1>4. CASE SettingsSaved(r)
  <2>1. r \in Untold
    BY <1>4 DEF SettingsSaved, Untold
  <2>2. UNCHANGED toSetup /\ (runs' = [runs EXCEPT ![r] = "none"] \/ runs' = [runs EXCEPT ![r] = "installing"])
    BY <1>4 DEF SettingsSaved, Throws, StepEnds
  <2> QED BY <1>3, <2>1, <2>2
<1>5. CASE InstallEnds(r)
  <2>1. r \in Untold
    BY <1>5 DEF InstallEnds, Untold
  <2> DEFINE bad == [is |-> "failed", run |-> r]
             good == [is |-> "complete", run |-> r]
  <2>2. bad \in SetupEvents /\ good \in SetupEvents
    BY <1>1 DEF SetupEvents
  <2>3. /\ runs' = [runs EXCEPT ![r] = "none"] \/ runs' = [runs EXCEPT ![r] = "told"]
        /\ toSetup' = toSetup \/ toSetup' = Append(toSetup, bad) \/ toSetup' = Append(toSetup, good)
    BY <1>5 DEF InstallEnds, Throws, StepEnds
  <2> HIDE DEF bad, good
  <2>4. Cardinality(Untold') <= Cardinality(Untold) - 1
    BY <2>1, <2>3, UntoldChanges DEF WizardInv
  <2>5. Len(toSetup') <= Len(toSetup) + 1 /\ Len(toSetup') \in Nat
    BY <2>2, <2>3 DEF WizardInv
  <2>6. Len(toSetup') + Cardinality(Untold') <= Len(toSetup) + Cardinality(Untold)
    BY <1>1, <2>4, <2>5, UntoldCounted, UntoldCountedAfter
  <2>7. Len(toSetup') + Cardinality(Untold') <= openings + prepares
    BY <1>1, <2>5, <2>6, UntoldCounted, UntoldCountedAfter DEF WizardBounds
  <2> QED BY <1>2, <2>7 DEF WizardBounds
<1>6. CASE VerifyReady(r)
  <2>1. UNCHANGED toSetup
    BY <1>6 DEF VerifyReady
  <2>2. \E next \in {"none", "refreshing", "testing"} : runs' = [runs EXCEPT ![r] = next]
    BY <1>6 DEF VerifyReady, StepEnds
  <2> QED BY <1>3, <2>1, <2>2
<1> QED BY <1>4, <1>5, <1>6

LEMMA HearsBounded == WizardInv /\ WizardBounds /\ HearsEvent => WizardBounds'
<1> SUFFICES ASSUME WizardInv, WizardBounds, HearsEvent PROVE WizardBounds'
  OBVIOUS
<1>1. /\ toSetup \in Seq(SetupEvents) /\ toSetup # <<>> /\ toSetup' = Tail(toSetup)
      /\ UNCHANGED <<setupWindow, openings, prepares>> /\ runs \in [Run -> RunStages]
      /\ prepares \in Nat /\ openings \in Nat
  BY WizardSizes DEF WizardInv, WizardBounds, HearsEvent
<1>2. Len(toSetup) \in Nat /\ Len(toSetup') = Len(toSetup) - 1
  BY <1>1
<1>3. runs' = runs \/ \E r : runs' = [runs EXCEPT ![r] = "starting"]
  BY DEF HearsEvent
<1>4. Cardinality(Untold') <= Cardinality(Untold)
  <2>1. CASE runs' = runs
    <3>1. Untold' = Untold
      BY <2>1 DEF Untold, Run
    <3> QED BY <3>1, UntoldCounted
  <2>2. ASSUME NEW r, runs' = [runs EXCEPT ![r] = "starting"] PROVE Cardinality(Untold') <= Cardinality(Untold)
    <3>1. "starting" \notin {"saving", "installing"}
      OBVIOUS
    <3> QED BY <1>1, <2>2, <3>1, UntoldChanges, Zenon
  <2> QED BY <1>3, <2>1, <2>2
<1> QED BY <1>1, <1>2, <1>4, UntoldCounted, UntoldCountedAfter DEF WizardBounds

LEMMA WizardBounded == WizardInv /\ WizardBounds /\ [SetupNext]_wizardPart => WizardBounds'
<1> SUFFICES ASSUME WizardInv, WizardBounds, [SetupNext]_wizardPart PROVE WizardBounds'
  OBVIOUS
<1>1. CASE CloseSetup \/ CloseFails
  BY <1>1, QuietBounded DEF CloseSetup, CloseFails, WizardBounds
<1>2. CASE LoadSettings \/ StepButtons \/ InstallSourceOcr
  <2>1. \E w : WizardBecomes(w)
    <3>1. CASE LoadSettings
      BY <3>1, Zenon DEF LoadSettings, RetryLoad, LoadEnds, Clicks
    <3>2. CASE StepButtons
      BY <3>2, Zenon DEF StepButtons, GoOn, GoBack, SetLanguage, AcceptTerms, Clicks
    <3>3. CASE InstallSourceOcr
      BY <3>3, Zenon DEF InstallSourceOcr, InstallOcr, OcrEnds, Clicks
    <3> QED BY <1>2, <3>1, <3>2, <3>3
  <2>2. UNCHANGED <<setupWindow, toSetup, runs, openings, prepares>>
    BY <2>1 DEF WizardBecomes
  <2> QED BY <2>2, QuietBounded DEF WizardBounds
<1>3. CASE UNCHANGED wizardPart
  BY <1>3, QuietBounded DEF wizardPart, WizardBounds
<1> QED
  BY <1>1, <1>2, <1>3, OpenBounded, BeginBounded, RunBounded, HearsBounded DEF SetupNext, Windows

LEMMA WizardValues == WizardInv /\ WizardBounds => WizardTypeOK
<1> SUFFICES ASSUME WizardInv, WizardBounds PROVE WizardTypeOK
  OBVIOUS
<1>1. wizard.step \in 1 .. 4 /\ runs \in [Run -> RunStages] /\ prepares \in 0 .. MaxPrepares
  BY DEF WizardInv, Wizards, Steps
<1>2. Len(toSetup) \in Nat
  BY DEF WizardInv
<1> QED BY <1>1, <1>2, WizardSizes, UntoldCounted DEF WizardBounds, WizardTypeOK

-----------------------------------------------------------------------------
(* The frame                                                               *)

Frames == {"hidden", "visible", "exiting"}
Beliefs == {"unknown", "yes", "no"}
TickStages == {"idle", "asking", "asked", "clicking"}
Pointers == {"away", "frame"}
Mails == [kind : {"on", "region", "off"}, area : Areas]
PageCalls == [ignore : BOOLEAN, from : {"tick", "on", "cancel", "off"}]
CallLists == Seq(PageCalls)
Views ==
  [visible : BOOLEAN, area : Areas, frame : Frames, dragging : BOOLEAN, force : BOOLEAN, through : Beliefs,
   enabled : BOOLEAN, clicks : CallLists, scaling : Nat, fetching : Nat, tick : TickStages, over : Pointers,
   cleanup : BOOLEAN, monitor : BOOLEAN]

\* No call of a stop is under way: its answer would have the frame hidden.
NoStopCall(p) == \A i \in DOMAIN p.clicks : p.clicks[i].from # "off"

\* A start the page has not heard of, and a stop overtaken by one.
OnComing == \E i \in DOMAIN toPage : toPage[i].kind = "on"
OffsFollowed ==
  \A i \in DOMAIN toPage : toPage[i].kind = "off" => \E j \in DOMAIN toPage : i < j /\ toPage[j].kind = "on"

Believes(p, w) == p.through # "unknown" => w.ignoring = (p.through = "yes")

\* A page that has heard of its session, and its answers still to come.
NothingAsked(p) == p.scaling = 0 /\ p.fetching = 0
Stands(p, l) ==
  /\ p.visible
  /\ p.frame = "exiting" => p.scaling > 0
  /\ NothingAsked(p) => p.monitor /\ (l \/ p.frame = "visible")
  /\ l \/ (NoStopCall(p) /\ ~p.cleanup)

\* The area on the page is the last one on its way to the shell, or the
\* shell's own.
Drawn(p) ==
  /\ saves = <<>> => p.area = area
  /\ saves # <<>> => saves[Len(saves)] = p.area

FrameInv ==
  /\ view \in Views /\ window \in [shown : BOOLEAN, ignoring : BOOLEAN]
  /\ saves \in Seq(Areas) /\ toPage \in Seq(Mails) /\ area \in Areas /\ pointer \in Pointers
  /\ late \in BOOLEAN /\ crossed \in BOOLEAN
  /\ session \in {"off", "on", "fading"} /\ starts \in 0 .. MaxStarts /\ moves \in 0 .. MaxMoves
  /\ session = "on" => OffsFollowed
  /\ ~OnComing => Believes(view, window)
  /\ session = "on" /\ ~OnComing => Stands(view, late)
  /\ session = "on" /\ ~OnComing /\ NothingAsked(view) /\ ~view.dragging => crossed \/ Drawn(view)

LEMMA FrameSizes == MaxStarts \in Nat /\ MaxMoves \in Nat
BY PageAssumption

LEMMA FrameBegins == FrameInit => FrameInv
<1> SUFFICES ASSUME FrameInit PROVE FrameInv
  OBVIOUS
<1>1. /\ area \in Areas /\ session = "off" /\ toPage = <<>> /\ saves = <<>> /\ pointer = "away"
      /\ window = [shown |-> FALSE, ignoring |-> FALSE] /\ starts = 0 /\ moves = 0
      /\ late = FALSE /\ crossed = FALSE
  BY DEF FrameInit
<1>2. /\ "hidden" \in Frames /\ "unknown" \in Beliefs /\ "idle" \in TickStages
      /\ "away" \in Pointers /\ <<>> \in CallLists
  BY DEF Frames, Beliefs, TickStages, Pointers, CallLists
<1>3. view \in Views /\ view.through = "unknown"
  BY <1>1, <1>2 DEF FrameInit, Views
<1>4. toPage \in Seq(Mails) /\ saves \in Seq(Areas)
  BY <1>1
<1>5. window \in [shown : BOOLEAN, ignoring : BOOLEAN] /\ pointer \in Pointers
  BY <1>1, <1>2
<1>6. starts \in 0 .. MaxStarts /\ moves \in 0 .. MaxMoves
  BY <1>1, FrameSizes
<1> QED BY <1>1, <1>3, <1>4, <1>5, <1>6 DEF FrameInv, Believes

\* What a page may become without a word of its session.
Same(p, q) ==
  /\ q \in Views /\ q.visible = p.visible /\ q.area = p.area /\ q.frame = p.frame
  /\ p.dragging => q.dragging
  /\ q.through = p.through /\ q.scaling = p.scaling /\ q.fetching = p.fetching
  /\ q.cleanup = p.cleanup /\ q.monitor = p.monitor
  /\ NoStopCall(p) => NoStopCall(q)

LEMMA SameAgain ==
  ASSUME NEW p, NEW q, NEW r, Same(p, q), Same(q, r)
  PROVE  Same(p, r)
BY DEF Same

LEMMA AfterSame ==
  ASSUME NEW p \in Views, NEW from \in {"tick", "on", "cancel"}
  PROVE  Same(p, AfterClick(p, from))
<1>1. "idle" \in TickStages
  BY DEF TickStages
<1>2. AfterClick(p, from) \in {p, [p EXCEPT !.tick = "idle"]}
  BY DEF AfterClick
<1>3. Same(p, p) /\ Same(p, [p EXCEPT !.tick = "idle"])
  BY <1>1 DEF Same, Views, NoStopCall
<1> QED BY <1>2, <1>3

\* One call more, at the end of those under way.
LEMMA OneMoreCall ==
  ASSUME NEW calls \in CallLists, NEW ignore \in BOOLEAN, NEW from \in {"tick", "on", "cancel", "off"}
  PROVE  /\ Append(calls, [ignore |-> ignore, from |-> from]) \in CallLists
         /\ from # "off" /\ (\A i \in DOMAIN calls : calls[i].from # "off")
            => LET more == Append(calls, [ignore |-> ignore, from |-> from])
               IN  \A i \in DOMAIN more : more[i].from # "off"
<1> DEFINE c == [ignore |-> ignore, from |-> from]
           more == Append(calls, c)
<1>1. c \in PageCalls /\ c.from = from
  BY DEF PageCalls
<1> HIDE DEF c
<1>2. /\ more \in CallLists /\ Len(more) = Len(calls) + 1 /\ Len(calls) \in Nat
      /\ \A i \in 1 .. Len(calls) : more[i] = calls[i]
      /\ more[Len(calls) + 1] = c
  BY <1>1 DEF CallLists
<1>3. DOMAIN more = 1 .. Len(more) /\ DOMAIN calls = 1 .. Len(calls)
  BY <1>2 DEF CallLists
<1> HIDE DEF more
<1>4. ASSUME from # "off", \A i \in DOMAIN calls : calls[i].from # "off", NEW i \in DOMAIN more
      PROVE  more[i].from # "off"
  BY <1>1, <1>2, <1>3, <1>4
<1> QED BY <1>2, <1>4 DEF more, c

LEMMA ClickSame ==
  ASSUME NEW p \in Views, NEW ignore \in BOOLEAN, NEW from \in {"tick", "on", "cancel"}
  PROVE  Same(p, SetClickThrough(p, ignore, from))
<1> DEFINE clicks == Append(p.clicks, [ignore |-> ignore, from |-> from])
           q == [p EXCEPT !.clicks = clicks]
<1>1. p.clicks \in CallLists
  BY DEF Views
<1>2. /\ clicks \in CallLists
      /\ NoStopCall(p) => \A i \in DOMAIN clicks : clicks[i].from # "off"
  BY <1>1, OneMoreCall DEF NoStopCall
<1>3. SetClickThrough(p, ignore, from) \in {AfterClick(p, from), q}
  BY DEF SetClickThrough
<1> HIDE DEF clicks
<1>4. Same(p, q)
  BY <1>2 DEF Same, Views, NoStopCall
<1> QED BY <1>3, <1>4, AfterSame

\* A step of the page alone.
LEMMA PageSteady ==
  ASSUME FrameInv, Same(view, view'),
         UNCHANGED <<window, session, starts, area, toPage, saves, late, crossed, pointer>>, moves' \in 0 .. MaxMoves
  PROVE  FrameInv'
<1>1. /\ view' \in Views /\ view'.area = view.area /\ view'.frame = view.frame /\ view'.through = view.through
      /\ view'.scaling = view.scaling /\ view'.fetching = view.fetching
      /\ view'.cleanup = view.cleanup /\ view'.monitor = view.monitor
      /\ view'.visible = view.visible
      /\ view.dragging => view'.dragging
      /\ NoStopCall(view) => NoStopCall(view')
  BY DEF Same
<1>2. (OnComing' <=> OnComing) /\ (OffsFollowed' <=> OffsFollowed)
  BY DEF OnComing, OffsFollowed
<1>3. NothingAsked(view') <=> NothingAsked(view)
  BY <1>1 DEF NothingAsked
<1>4. Stands(view, late) => Stands(view', late')
  BY <1>1, <1>3 DEF Stands
<1>5. Believes(view, window) => Believes(view', window')
  BY <1>1 DEF Believes
<1>6. Drawn(view) => Drawn(view)'
  BY <1>1 DEF Drawn
<1> QED BY <1>1, <1>2, <1>3, <1>4, <1>5, <1>6 DEF FrameInv

\* The events of a session follow those on their way.
LEMMA MailsOf ==
  ASSUME FrameInv, NEW m \in Mails, NEW mails, mails = Append(toPage, m)
  PROVE  /\ mails \in Seq(Mails) /\ Len(mails) = Len(toPage) + 1 /\ Len(toPage) \in Nat
         /\ DOMAIN mails = 1 .. (Len(toPage) + 1) /\ DOMAIN toPage = 1 .. Len(toPage)
         /\ \A i \in 1 .. Len(toPage) : mails[i] = toPage[i]
         /\ mails[Len(toPage) + 1] = m
BY DEF FrameInv

LEMMA ShowStep == FrameInv /\ ShowOverlay => FrameInv'
<1> SUFFICES ASSUME FrameInv, ShowOverlay PROVE FrameInv'
  OBVIOUS
<1> DEFINE on == AreaEvent("on")
           region == AreaEvent("region")
<1>1. on \in Mails /\ region \in Mails /\ on.kind = "on" /\ region.kind = "region"
  BY DEF AreaEvent, Mails, FrameInv
<1>2. /\ toPage' = toPage \o <<on, region>> /\ session' = "on" /\ starts' = starts + 1 /\ starts < MaxStarts
      /\ UNCHANGED <<area, saves, view, late, crossed, pointer, moves>>
      /\ \E ignoring \in BOOLEAN : window' = [shown |-> TRUE, ignoring |-> ignoring]
  BY DEF ShowOverlay
<1> HIDE DEF on, region
<1>3. toPage \in Seq(Mails) /\ Len(toPage) \in Nat /\ DOMAIN toPage = 1 .. Len(toPage)
  BY DEF FrameInv
<1>4. /\ toPage' \in Seq(Mails) /\ Len(toPage') = Len(toPage) + 2 /\ DOMAIN toPage' = 1 .. (Len(toPage) + 2)
      /\ \A i \in 1 .. Len(toPage) : toPage'[i] = toPage[i]
      /\ toPage'[Len(toPage) + 1] = on /\ toPage'[Len(toPage) + 2] = region
  BY <1>1, <1>2, <1>3
<1>5. OnComing'
  <2>1. Len(toPage) + 1 \in DOMAIN toPage' /\ toPage'[Len(toPage) + 1].kind = "on"
    BY <1>1, <1>3, <1>4
  <2> QED BY <2>1 DEF OnComing
<1>6. OffsFollowed'
  <2> SUFFICES ASSUME NEW i \in DOMAIN toPage', toPage'[i].kind = "off"
               PROVE  \E j \in DOMAIN toPage' : i < j /\ toPage'[j].kind = "on"
    BY DEF OffsFollowed
  <2>1. i < Len(toPage) + 1
    BY <1>1, <1>3, <1>4
  <2> QED BY <1>1, <1>3, <1>4, <2>1
<1>7. window' \in [shown : BOOLEAN, ignoring : BOOLEAN]
  BY <1>2
<1>8. starts' \in 0 .. MaxStarts
  BY <1>2, FrameSizes DEF FrameInv
<1> QED BY <1>2, <1>4, <1>5, <1>6, <1>7, <1>8 DEF FrameInv

LEMMA FadeStep == FrameInv /\ FadeOverlay => FrameInv'
<1> SUFFICES ASSUME FrameInv, FadeOverlay PROVE FrameInv'
  OBVIOUS
<1>1. /\ session' = "fading" /\ toPage' = Append(toPage, AreaEvent("off")) /\ AreaEvent("off") \in Mails
      /\ UNCHANGED <<window, starts, area, saves, view, late, crossed, pointer, moves>>
  BY DEF FadeOverlay, AreaEvent, Mails, FrameInv
<1>2. /\ toPage' \in Seq(Mails) /\ Len(toPage) \in Nat
      /\ DOMAIN toPage' = 1 .. (Len(toPage) + 1) /\ DOMAIN toPage = 1 .. Len(toPage)
      /\ \A i \in 1 .. Len(toPage) : toPage'[i] = toPage[i]
  BY <1>1, MailsOf
<1>3. ASSUME NEW i \in DOMAIN toPage PROVE i \in DOMAIN toPage' /\ toPage'[i] = toPage[i]
  BY <1>2, <1>3
<1>4. OnComing => OnComing'
  BY <1>3 DEF OnComing
<1>5. Believes(view, window) => Believes(view', window')
  BY <1>1 DEF Believes
<1> QED BY <1>1, <1>2, <1>4, <1>5 DEF FrameInv

LEMMA HideStep == FrameInv /\ HideOverlay => FrameInv'
<1> SUFFICES ASSUME FrameInv, HideOverlay PROVE FrameInv'
  OBVIOUS
<1>1. /\ session' = "off" /\ window' = [window EXCEPT !.shown = FALSE]
      /\ UNCHANGED <<starts, area, toPage, saves, view, late, crossed, pointer, moves>>
      /\ window \in [shown : BOOLEAN, ignoring : BOOLEAN]
  BY DEF HideOverlay, FrameInv
<1>2. window' \in [shown : BOOLEAN, ignoring : BOOLEAN] /\ window'.ignoring = window.ignoring
  BY <1>1
<1>3. OnComing' <=> OnComing
  BY <1>1 DEF OnComing
<1>4. Believes(view, window) => Believes(view', window')
  BY <1>1, <1>2 DEF Believes
<1> QED BY <1>1, <1>2, <1>3, <1>4 DEF FrameInv

LEMMA SelectStep == FrameInv /\ AreaSelected => FrameInv'
<1> SUFFICES ASSUME FrameInv, AreaSelected PROVE FrameInv'
  OBVIOUS
<1>1. /\ session = "off" /\ moves < MaxMoves /\ moves' = moves + 1 /\ area' \in Areas
      /\ UNCHANGED <<window, session, starts, toPage, saves, view, late, crossed, pointer>>
  BY DEF AreaSelected
<1>2. (OnComing' <=> OnComing) /\ moves' \in 0 .. MaxMoves
  BY <1>1, FrameSizes DEF OnComing, FrameInv
<1> QED BY <1>1, <1>2 DEF FrameInv

\* A save arrives: what is drawn is still the last of those on their way.
LEMMA SaveStep == FrameInv /\ SaveArrives => FrameInv'
<1> SUFFICES ASSUME FrameInv, SaveArrives PROVE FrameInv'
  OBVIOUS
<1>1. /\ saves # <<>> /\ area' = Head(saves) /\ saves' = Tail(saves) /\ saves \in Seq(Areas)
      /\ UNCHANGED <<window, session, starts, toPage, view, late, crossed, pointer, moves>>
  BY DEF SaveArrives, FrameInv
<1>2. /\ Head(saves) \in Areas /\ Tail(saves) \in Seq(Areas) /\ Len(Tail(saves)) = Len(saves) - 1
      /\ \A i \in 1 .. Len(Tail(saves)) : Tail(saves)[i] = saves[i + 1]
  BY <1>1, HeadTailProperties
<1>3. Len(saves) \in Nat \ {0} /\ Head(saves) = saves[1]
  BY <1>1
<1>4. Drawn(view) => Drawn(view)'
  <2> SUFFICES ASSUME Drawn(view) PROVE Drawn(view)'
    OBVIOUS
  <2>1. saves[Len(saves)] = view.area
    BY <1>1 DEF Drawn
  <2>2. CASE Tail(saves) = <<>>
    <3>1. Len(saves) = 1
      <4>1. Len(Tail(saves)) = 0
        BY <1>2, <2>2, EmptySeq
      <4>2. 0 = Len(saves) - 1 /\ Len(saves) \in Nat
        BY <1>2, <1>3, <4>1
      <4>3. \A n \in Nat : 0 = n - 1 => n = 1
        OBVIOUS
      <4> QED BY <4>2, <4>3, Zenon
    <3> QED BY <1>1, <1>3, <2>1, <2>2, <3>1 DEF Drawn
  <2>3. CASE Tail(saves) # <<>>
    <3>1. Len(Tail(saves)) > 0
      BY <1>2, <2>3
    <3>2. Tail(saves)[Len(Tail(saves))] = saves[Len(saves)]
      BY <1>2, <1>3, <3>1
    <3> QED BY <1>1, <2>1, <2>3, <3>2 DEF Drawn
  <2> QED BY <2>2, <2>3
<1>5. (OnComing' <=> OnComing) /\ (OffsFollowed' <=> OffsFollowed)
  BY <1>1 DEF OnComing, OffsFollowed
<1> QED BY <1>1, <1>2, <1>4, <1>5 DEF FrameInv

\* The events still to come, when the first has been heard.
LEMMA MailTail ==
  ASSUME FrameInv, toPage # <<>>, toPage' = Tail(toPage)
  PROVE  /\ toPage' \in Seq(Mails) /\ Head(toPage) \in Mails
         /\ OnComing' => OnComing
         /\ OnComing => OnComing' \/ Head(toPage).kind = "on"
         /\ OffsFollowed => OffsFollowed' /\ (Head(toPage).kind = "off" => OnComing')
<1>1. toPage \in Seq(Mails)
  BY DEF FrameInv
<1>2. /\ Head(toPage) \in Mails /\ toPage' \in Seq(Mails) /\ Len(toPage') = Len(toPage) - 1
      /\ \A i \in 1 .. Len(toPage') : toPage'[i] = toPage[i + 1]
  BY <1>1, HeadTailProperties
<1>3. /\ Len(toPage) \in Nat \ {0} /\ Head(toPage) = toPage[1]
      /\ DOMAIN toPage = 1 .. Len(toPage) /\ DOMAIN toPage' = 1 .. (Len(toPage) - 1)
  BY <1>1, <1>2
<1>4. \A i \in DOMAIN toPage : i = 1 \/ (i - 1 \in DOMAIN toPage' /\ toPage'[i - 1] = toPage[i])
  BY <1>2, <1>3
<1>5. \A i \in DOMAIN toPage' : i \in Nat /\ i + 1 \in DOMAIN toPage /\ toPage[i + 1] = toPage'[i]
  BY <1>2, <1>3
<1>6. OnComing' => OnComing
  BY <1>5 DEF OnComing
<1>7. OnComing => OnComing' \/ Head(toPage).kind = "on"
  BY <1>3, <1>4 DEF OnComing
<1>8. ASSUME OffsFollowed PROVE OffsFollowed'
  <2> SUFFICES ASSUME NEW i \in DOMAIN toPage', toPage'[i].kind = "off"
               PROVE  \E j \in DOMAIN toPage' : i < j /\ toPage'[j].kind = "on"
    BY DEF OffsFollowed
  <2>1. i \in Nat /\ i + 1 \in DOMAIN toPage /\ toPage[i + 1].kind = "off"
    BY <1>5
  <2>2. PICK j \in DOMAIN toPage : i + 1 < j /\ toPage[j].kind = "on"
    BY <1>8, <2>1 DEF OffsFollowed
  <2>3. j \in Nat /\ j - 1 \in DOMAIN toPage' /\ toPage'[j - 1].kind = "on" /\ i < j - 1
    BY <1>3, <1>4, <2>1, <2>2
  <2> QED BY <2>3
<1>9. ASSUME OffsFollowed, Head(toPage).kind = "off" PROVE OnComing'
  <2>1. 1 \in DOMAIN toPage /\ toPage[1].kind = "off"
    BY <1>3, <1>9
  <2>2. PICK j \in DOMAIN toPage : 1 < j /\ toPage[j].kind = "on"
    BY <1>9, <2>1 DEF OffsFollowed
  <2> QED BY <1>3, <1>4, <2>2 DEF OnComing
<1> QED BY <1>2, <1>6, <1>7, <1>8, <1>9

\* The page hears of a start, of a stop or of an area.
LEMMA HandleStep == FrameInv /\ HandleEvent => FrameInv'
<1> SUFFICES ASSUME FrameInv, HandleEvent PROVE FrameInv'
  OBVIOUS
<1> DEFINE event == Head(toPage)
<1>1. /\ toPage # <<>> /\ toPage' = Tail(toPage) /\ view \in Views
      /\ UNCHANGED <<window, session, starts, area, saves, pointer, moves>>
  BY DEF HandleEvent, FrameInv
<1>2. /\ toPage' \in Seq(Mails) /\ event \in Mails
      /\ OnComing' => OnComing
      /\ OnComing => OnComing' \/ event.kind = "on"
      /\ OffsFollowed => OffsFollowed' /\ (event.kind = "off" => OnComing')
  BY <1>1, MailTail
<1>3. event.kind \in {"on", "region", "off"} /\ event.area \in Areas
  BY <1>2 DEF Mails
<1>4. CASE event.kind = "on"
  <2> DEFINE q == [view EXCEPT !.visible = TRUE, !.cleanup = FALSE, !.through = "unknown",
                               !.scaling = view.scaling + 1]
  <2>1. /\ view' = q /\ crossed' = crossed
        /\ late' = (\E i \in DOMAIN view.clicks : view.clicks[i].from = "off")
    BY <1>1, <1>4 DEF HandleEvent, OnEvent, Views
  <2>2. "unknown" \in Beliefs /\ view.scaling + 1 \in Nat /\ view.scaling + 1 > 0
    BY <1>1 DEF Beliefs, Views
  <2>3. /\ q \in Views /\ q.visible /\ ~q.cleanup /\ q.through = "unknown" /\ q.scaling = view.scaling + 1
        /\ q.clicks = view.clicks
    BY <1>1, <2>2 DEF Views
  <2> HIDE DEF q
  <2>4. late' \in BOOLEAN /\ (late' \/ NoStopCall(q))
    BY <2>1, <2>3 DEF NoStopCall
  <2>5. Stands(q, late') /\ ~NothingAsked(q) /\ Believes(q, window')
    BY <1>1, <2>2, <2>3, <2>4 DEF Stands, NothingAsked, Believes
  <2> QED BY <1>1, <1>2, <2>1, <2>3, <2>4, <2>5 DEF FrameInv
<1>5. CASE event.kind = "off"
  <2> DEFINE p == [view EXCEPT !.visible = FALSE, !.frame = "exiting", !.monitor = FALSE]
             clicks == Append(p.clicks, [ignore |-> TRUE, from |-> "off"])
  <2>1. /\ view' = SetClickThrough(p, TRUE, "off") /\ late' = late /\ crossed' = crossed
    BY <1>1, <1>5 DEF HandleEvent, OffEvent
  <2>2. "exiting" \in Frames
    BY DEF Frames
  <2>3. p \in Views /\ p.through = view.through /\ p.clicks \in CallLists
    BY <1>1, <2>2 DEF Views
  <2>4. clicks \in CallLists
    BY <2>3, OneMoreCall
  <2>5. view' \in {[p EXCEPT !.clicks = clicks], [p EXCEPT !.cleanup = TRUE]}
    BY <2>1 DEF SetClickThrough, AfterClick
  <2> HIDE DEF p, clicks
  <2>6. view' \in Views /\ view'.through = view.through
    BY <2>3, <2>4, <2>5 DEF Views
  <2>7. Believes(view, window) => Believes(view', window')
    BY <1>1, <2>6 DEF Believes
  <2>8. ~(session = "on" /\ ~OnComing')
    BY <1>2, <1>5 DEF FrameInv
  <2> QED BY <1>1, <1>2, <1>5, <2>1, <2>6, <2>7, <2>8 DEF FrameInv
<1>6. CASE event.kind = "region" /\ view.dragging
  <2>1. UNCHANGED <<view, late, crossed>>
    BY <1>6 DEF HandleEvent
  <2>2. Drawn(view) => Drawn(view)'
    BY <1>1, <2>1 DEF Drawn
  <2> QED BY <1>1, <1>2, <1>6, <2>1, <2>2 DEF FrameInv
<1>7. CASE event.kind = "region" /\ ~view.dragging
  <2> DEFINE q == [view EXCEPT !.area = event.area]
  <2>1. /\ view' = q /\ late' = late /\ crossed' = (saves # <<>> \/ event.area # area)
    BY <1>7 DEF HandleEvent
  <2>2. /\ q \in Views /\ q.area = event.area /\ q.visible = view.visible /\ q.frame = view.frame
        /\ q.through = view.through /\ q.scaling = view.scaling /\ q.fetching = view.fetching
        /\ q.cleanup = view.cleanup /\ q.monitor = view.monitor /\ q.clicks = view.clicks
    BY <1>1, <1>3 DEF Views
  <2> HIDE DEF q
  <2>3. Stands(view, late) => Stands(q, late')
    BY <2>1, <2>2 DEF Stands, NothingAsked, NoStopCall
  <2>4. Believes(view, window) => Believes(q, window')
    BY <1>1, <2>2 DEF Believes
  <2>5. crossed' \/ Drawn(view)'
    BY <1>1, <2>1, <2>2 DEF Drawn
  <2> QED BY <1>1, <1>2, <1>7, <2>1, <2>2, <2>3, <2>4, <2>5 DEF FrameInv
<1> QED BY <1>3, <1>4, <1>5, <1>6, <1>7

LEMMA ScaledStep == FrameInv /\ OnScaled => FrameInv'
<1> SUFFICES ASSUME FrameInv, OnScaled PROVE FrameInv'
  OBVIOUS
<1> DEFINE frame == IF view.frame = "exiting" THEN "visible" ELSE view.frame
           q == [view EXCEPT !.scaling = view.scaling - 1, !.fetching = view.fetching + 1, !.frame = frame]
<1>1. /\ view.scaling > 0 /\ view \in Views
      /\ UNCHANGED <<window, session, starts, area, toPage, saves, late, crossed, pointer, moves>>
  BY DEF OnScaled, ViewBecomes, FrameInv
<1>2. view' = q
  BY <1>1 DEF OnScaled, ViewBecomes, Views
<1>3. frame \in Frames /\ frame # "exiting"
  BY <1>1 DEF Frames, Views
<1> HIDE DEF frame
<1>4. view.scaling - 1 \in Nat /\ view.fetching + 1 \in Nat /\ view.fetching + 1 # 0
  BY <1>1 DEF Views
<1>5. /\ q \in Views /\ q.visible = view.visible /\ q.frame = frame /\ q.through = view.through
      /\ q.fetching = view.fetching + 1 /\ q.cleanup = view.cleanup /\ q.clicks = view.clicks
  BY <1>1, <1>3, <1>4 DEF Views
<1> HIDE DEF q
<1>6. ~NothingAsked(q)
  BY <1>4, <1>5 DEF NothingAsked
<1>7. Stands(view, late) => Stands(q, late')
  BY <1>1, <1>3, <1>5, <1>6 DEF Stands, NoStopCall
<1>8. Believes(view, window) => Believes(q, window')
  BY <1>1, <1>5 DEF Believes
<1>9. (OnComing' <=> OnComing) /\ (OffsFollowed' <=> OffsFollowed)
  BY <1>1 DEF OnComing, OffsFollowed
<1> QED BY <1>1, <1>2, <1>5, <1>6, <1>7, <1>8, <1>9 DEF FrameInv

\* The page draws the shell's area: the newest when none is on its way.
LEMMA RegionStep == FrameInv /\ OnRegionKnown => FrameInv'
<1> SUFFICES ASSUME FrameInv, OnRegionKnown PROVE FrameInv'
  OBVIOUS
<1> DEFINE frame == IF view.frame = "exiting" THEN view.frame ELSE "visible"
           q == [view EXCEPT !.area = area, !.frame = frame, !.monitor = TRUE, !.fetching = view.fetching - 1]
<1>1. /\ view.fetching > 0 /\ view \in Views /\ area \in Areas /\ crossed' = (saves # <<>>)
      /\ UNCHANGED <<window, session, starts, area, toPage, saves, late, pointer, moves>>
  BY DEF OnRegionKnown, FrameInv
<1>2. view' = SetClickThrough(q, TRUE, "on")
  BY <1>1 DEF OnRegionKnown, Views
<1>3. frame \in Frames /\ (view.frame # "exiting" => frame = "visible") /\ (frame = "exiting" => view.frame = "exiting")
  BY DEF Frames
<1> HIDE DEF frame
<1>4. view.fetching - 1 \in Nat
  BY <1>1 DEF Views
<1>5. /\ q \in Views /\ q.area = area /\ q.visible = view.visible /\ q.frame = frame /\ q.monitor
      /\ q.through = view.through /\ q.scaling = view.scaling /\ q.cleanup = view.cleanup
      /\ q.clicks = view.clicks /\ q.dragging = view.dragging
  BY <1>1, <1>3, <1>4 DEF Views
<1> HIDE DEF q
<1>6. Same(q, view')
  BY <1>2, <1>5, ClickSame
<1>7. /\ view' \in Views /\ view'.area = area /\ view'.visible = view.visible /\ view'.frame = frame /\ view'.monitor
      /\ view'.through = view.through /\ view'.scaling = view.scaling /\ view'.cleanup = view.cleanup
      /\ NoStopCall(view) => NoStopCall(view')
  BY <1>5, <1>6 DEF Same, NoStopCall
<1>8. Stands(view, late) => Stands(view', late')
  <2> SUFFICES ASSUME Stands(view, late) PROVE Stands(view', late')
    OBVIOUS
  <2>1. view.scaling \in Nat
    BY <1>1 DEF Views
  <2>2. view'.frame = "exiting" => view'.scaling > 0
    BY <1>3, <1>7 DEF Stands
  <2>3. NothingAsked(view') => view'.frame = "visible"
    BY <1>3, <1>7, <2>1 DEF Stands, NothingAsked
  <2> QED BY <1>1, <1>7, <2>2, <2>3 DEF Stands
<1>9. Believes(view, window) => Believes(view', window')
  BY <1>1, <1>7 DEF Believes
<1>10. crossed' \/ Drawn(view)'
  BY <1>1, <1>7 DEF Drawn
<1>11. (OnComing' <=> OnComing) /\ (OffsFollowed' <=> OffsFollowed)
  BY <1>1 DEF OnComing, OffsFollowed
<1> QED BY <1>1, <1>7, <1>8, <1>9, <1>10, <1>11 DEF FrameInv

\* The clean-up of a stop fires after its session, or late in the next.
LEMMA CleanupStep == FrameInv /\ CleanupFires => FrameInv'
<1> SUFFICES ASSUME FrameInv, CleanupFires PROVE FrameInv'
  OBVIOUS
<1>1. /\ view.cleanup /\ view' = [view EXCEPT !.cleanup = FALSE, !.frame = "hidden"] /\ view \in Views
      /\ UNCHANGED <<window, session, starts, area, toPage, saves, late, crossed, pointer, moves>>
  BY DEF CleanupFires, ViewBecomes, FrameInv
<1>2. "hidden" \in Frames
  BY DEF Frames
<1>3. /\ view' \in Views /\ view'.through = view.through /\ view'.clicks = view.clicks /\ view'.frame = "hidden"
      /\ view'.area = view.area /\ view'.dragging = view.dragging /\ view'.visible = view.visible
      /\ view'.scaling = view.scaling /\ view'.fetching = view.fetching /\ view'.monitor = view.monitor
  BY <1>1, <1>2 DEF Views
<1>4. Stands(view, late) => Stands(view', late')
  BY <1>1, <1>3 DEF Stands, NothingAsked
<1>5. Believes(view, window) => Believes(view', window')
  BY <1>1, <1>3 DEF Believes
<1>6. (Drawn(view) => Drawn(view)') /\ (NothingAsked(view') <=> NothingAsked(view))
  BY <1>1, <1>3 DEF Drawn, NothingAsked
<1>7. (OnComing' <=> OnComing) /\ (OffsFollowed' <=> OffsFollowed)
  BY <1>1 DEF OnComing, OffsFollowed
<1> QED BY <1>1, <1>3, <1>4, <1>5, <1>6, <1>7 DEF FrameInv

LEMMA ForceStep == FrameInv /\ ForceEnds => FrameInv'
<1> SUFFICES ASSUME FrameInv, ForceEnds PROVE FrameInv'
  OBVIOUS
<1>1. /\ view' = [view EXCEPT !.force = FALSE] /\ view \in Views /\ moves \in 0 .. MaxMoves
      /\ UNCHANGED <<window, session, starts, area, toPage, saves, late, crossed, pointer, moves>>
  BY DEF ForceEnds, ViewBecomes, FrameInv
<1>2. Same(view, view')
  BY <1>1 DEF Same, Views, NoStopCall
<1> QED BY <1>1, <1>2, PageSteady

\* A call is answered: what the page believes of the window is what it was
\* told, and only the answer to a stop's call has the frame hidden.
LEMMA AnswerStep == FrameInv /\ ClickCallEnds => FrameInv'
<1> SUFFICES ASSUME FrameInv, NEW ok \in BOOLEAN, ClickAnswered(ok) PROVE FrameInv'
  BY DEF ClickCallEnds
<1> DEFINE c == Head(view.clicks)
           rest == Tail(view.clicks)
           p == [view EXCEPT !.clicks = rest]
           told == [p EXCEPT !.through = Told(c.ignore)]
           failed == [p EXCEPT !.enabled = FALSE]
<1>1. /\ view.clicks # <<>> /\ view.clicks \in CallLists /\ view \in Views
      /\ UNCHANGED <<session, starts, area, toPage, saves, late, crossed, pointer, moves>>
  BY DEF ClickAnswered, FrameInv, Views
<1>2. /\ c \in PageCalls /\ rest \in CallLists
      /\ NoStopCall(view) => c.from # "off" /\ \A i \in DOMAIN rest : rest[i].from # "off"
  <2>1. /\ c \in PageCalls /\ rest \in CallLists /\ Len(rest) = Len(view.clicks) - 1
        /\ \A i \in 1 .. Len(rest) : rest[i] = view.clicks[i + 1]
    BY <1>1, HeadTailProperties DEF CallLists
  <2>2. /\ Len(view.clicks) \in Nat \ {0} /\ DOMAIN view.clicks = 1 .. Len(view.clicks)
        /\ DOMAIN rest = 1 .. (Len(view.clicks) - 1) /\ c = view.clicks[1]
    BY <1>1, <2>1 DEF CallLists
  <2>3. 1 \in DOMAIN view.clicks /\ \A i \in DOMAIN rest : i + 1 \in DOMAIN view.clicks /\ rest[i] = view.clicks[i + 1]
    BY <2>1, <2>2
  <2> HIDE DEF c, rest
  <2> QED BY <2>1, <2>2, <2>3 DEF NoStopCall
<1>3. /\ ok => window' = [window EXCEPT !.ignoring = c.ignore] /\ view' = AfterClick(told, c.from)
      /\ ~ok => window' = window /\ view' = AfterClick(failed, c.from)
  BY DEF ClickAnswered
<1> HIDE DEF c, rest
<1>4. /\ p \in Views /\ p.visible = view.visible /\ p.area = view.area /\ p.frame = view.frame
      /\ p.dragging = view.dragging /\ p.through = view.through /\ p.scaling = view.scaling
      /\ p.fetching = view.fetching /\ p.cleanup = view.cleanup /\ p.monitor = view.monitor /\ p.clicks = rest
  BY <1>1, <1>2 DEF Views
<1> HIDE DEF p
<1>5. c.ignore \in BOOLEAN /\ Told(c.ignore) \in Beliefs /\ (c.ignore = (Told(c.ignore) = "yes"))
  BY <1>2 DEF PageCalls, Told, Beliefs
<1>6. PICK q \in {told, failed} :
        (/\ view' = AfterClick(q, c.from)
         /\ Believes(p, window) => Believes(q, window')
         /\ window' \in [shown : BOOLEAN, ignoring : BOOLEAN])
  <2>1. CASE ok
    <3>1. window'.ignoring = c.ignore /\ window' \in [shown : BOOLEAN, ignoring : BOOLEAN]
      BY <1>3, <1>5, <2>1 DEF FrameInv
    <3>2. told.through = Told(c.ignore)
      BY <1>4 DEF Views
    <3> HIDE DEF told
    <3>3. Believes(told, window')
      BY <1>5, <3>1, <3>2 DEF Believes
    <3> QED BY <1>3, <2>1, <3>1, <3>3
  <2>2. CASE ~ok
    <3>1. failed.through = p.through
      BY <1>4 DEF Views
    <3>2. window' = window
      BY <1>3, <2>2
    <3> HIDE DEF failed
    <3>3. Believes(p, window) => Believes(failed, window')
      BY <3>1, <3>2 DEF Believes
    <3> QED BY <1>3, <2>2, <3>2, <3>3 DEF FrameInv
  <2> QED BY <2>1, <2>2
<1>7. /\ q \in Views /\ q.visible = view.visible /\ q.area = view.area /\ q.frame = view.frame
      /\ q.dragging = view.dragging /\ q.scaling = view.scaling /\ q.fetching = view.fetching
      /\ q.cleanup = view.cleanup /\ q.monitor = view.monitor /\ q.clicks = rest
  <2>1. CASE q = told
    BY <1>4, <1>5, <2>1 DEF Views
  <2>2. CASE q = failed
    BY <1>4, <2>2 DEF Views
  <2> QED BY <1>6, <2>1, <2>2
<1>8. Believes(view, window) => Believes(q, window')
  <2>1. Believes(view, window) => Believes(p, window)
    BY <1>4 DEF Believes
  <2> QED BY <1>6, <2>1
<1> HIDE DEF told, failed
<1>9. /\ view' \in Views /\ view'.visible = q.visible /\ view'.area = q.area /\ view'.frame = q.frame
      /\ view'.dragging = q.dragging /\ view'.scaling = q.scaling /\ view'.fetching = q.fetching
      /\ view'.monitor = q.monitor /\ view'.through = q.through /\ view'.clicks = q.clicks
      /\ c.from # "off" => view'.cleanup = q.cleanup
  <2>1. "idle" \in TickStages
    BY DEF TickStages
  <2>2. \/ view' = q
        \/ view' = [q EXCEPT !.tick = "idle"]
        \/ c.from = "off" /\ view' = [q EXCEPT !.cleanup = TRUE]
    <3>1. view' = AfterClick(q, c.from)
      BY <1>6
    <3> QED BY ONLY <3>1 DEF AfterClick
  <2> QED BY <1>7, <2>1, <2>2 DEF Views
<1>10. (OnComing' <=> OnComing) /\ (OffsFollowed' <=> OffsFollowed)
  BY <1>1 DEF OnComing, OffsFollowed
<1>11. NoStopCall(view) => NoStopCall(view') /\ c.from # "off"
  BY <1>2, <1>7, <1>9 DEF NoStopCall
<1>12. Stands(view, late) => Stands(view', late')
  BY <1>1, <1>7, <1>9, <1>11 DEF Stands, NothingAsked
<1>13. Believes(view, window) => Believes(view', window')
  BY <1>8, <1>9 DEF Believes
<1>14. (Drawn(view) => Drawn(view)') /\ (NothingAsked(view') <=> NothingAsked(view))
  BY <1>1, <1>7, <1>9 DEF Drawn, NothingAsked
<1> QED BY <1>1, <1>6, <1>7, <1>9, <1>10, <1>11, <1>12, <1>13, <1>14 DEF FrameInv

LEMMA TicksStep == FrameInv /\ Ticks => FrameInv'
<1> SUFFICES ASSUME FrameInv, Ticks PROVE FrameInv'
  OBVIOUS
<1>1. /\ UNCHANGED <<window, session, starts, area, toPage, saves, late, crossed, pointer, moves>>
      /\ view \in Views /\ pointer \in Pointers /\ moves \in 0 .. MaxMoves
      /\ {"clicking", "asking", "asked"} \subseteq TickStages /\ "away" \in Pointers
  BY DEF Ticks, TickBegins, TickAsked, TickGoesOn, ViewBecomes, FrameInv, TickStages, Pointers
<1>2. ASSUME NEW p \in Views, Same(view, p), NEW ignore \in BOOLEAN, view' = SetClickThrough(p, ignore, "tick")
      PROVE  Same(view, view')
  BY <1>2, ClickSame, SameAgain
<1>3. ASSUME TickBegins PROVE Same(view, view')
  <2> DEFINE p == [view EXCEPT !.tick = "clicking"]
             q == [view EXCEPT !.tick = "asking"]
  <2>1. p \in Views /\ Same(view, p) /\ Same(view, q)
    BY <1>1 DEF Same, Views, NoStopCall
  <2>2. view' \in {SetClickThrough(p, FALSE, "tick"), q}
    BY <1>3 DEF TickBegins, ViewBecomes
  <2> HIDE DEF p, q
  <2> QED BY <1>2, <2>1, <2>2
<1>4. ASSUME TickAsked PROVE Same(view, view')
  <2>1. view' = [view EXCEPT !.tick = "asked", !.over = pointer]
    BY <1>4 DEF TickAsked, ViewBecomes
  <2> QED BY <1>1, <2>1 DEF Same, Views, NoStopCall
<1>5. ASSUME TickGoesOn PROVE Same(view, view')
  <2> DEFINE hovers == view.force \/ view.over = "frame"
             p == [view EXCEPT !.tick = "clicking", !.over = "away"]
  <2>1. p \in Views /\ Same(view, p)
    BY <1>1 DEF Same, Views, NoStopCall
  <2>2. view' = SetClickThrough(p, ~hovers, "tick")
    BY <1>5 DEF TickGoesOn, ViewBecomes
  <2> HIDE DEF p, hovers
  <2>3. PICK ignore \in BOOLEAN : view' = SetClickThrough(p, ignore, "tick")
    <3>1. CASE hovers
      <4>1. (~hovers) = FALSE
        BY <3>1
      <4> QED BY <2>2, <4>1
    <3>2. CASE ~hovers
      <4>1. (~hovers) = TRUE
        BY <3>2
      <4> QED BY <2>2, <4>1
    <3> QED BY <3>1, <3>2
  <2> QED BY <1>2, <2>1, <2>3
<1> QED BY <1>1, <1>3, <1>4, <1>5, PageSteady DEF Ticks

LEMMA UserStep == FrameInv /\ User => FrameInv'
<1> SUFFICES ASSUME FrameInv, User PROVE FrameInv'
  OBVIOUS
<1>0. view \in Views
  BY DEF FrameInv
<1>1. CASE MouseGoes
  <2>1. /\ pointer' \in Pointers
        /\ UNCHANGED <<window, session, starts, area, toPage, saves, view, late, crossed, moves>>
    BY <1>1 DEF MouseGoes, Pointers
  <2>2. /\ (OnComing' <=> OnComing) /\ (OffsFollowed' <=> OffsFollowed)
        /\ (Drawn(view) => Drawn(view)')
        /\ (Believes(view, window) => Believes(view', window'))
    BY <2>1 DEF OnComing, OffsFollowed, Drawn, Believes
  <2> QED BY <2>1, <2>2 DEF FrameInv
<1>2. CASE DragBegins
  <2> DEFINE p == [view EXCEPT !.dragging = TRUE]
             q == [p EXCEPT !.force = TRUE]
  <2>1. /\ view' = SetClickThrough(q, FALSE, "cancel") /\ moves < MaxMoves /\ moves' = moves + 1
        /\ UNCHANGED <<window, session, starts, area, toPage, saves, late, crossed, pointer>>
    BY <1>2 DEF DragBegins, CancelClickThrough
  <2>2. q \in Views /\ Same(view, q)
    BY <1>0 DEF Same, Views, NoStopCall
  <2> HIDE DEF p, q
  <2>3. Same(view, view')
    BY <2>1, <2>2, ClickSame, SameAgain
  <2>4. moves' \in 0 .. MaxMoves
    BY <2>1, FrameSizes DEF FrameInv
  <2> QED BY <2>1, <2>3, <2>4, PageSteady
<1>3. CASE DragEnds
  <2>1. PICK a \in Areas : view' = [view EXCEPT !.dragging = FALSE, !.area = a] /\ saves' = Append(saves, a)
    BY <1>3 DEF DragEnds
  <2>2. UNCHANGED <<window, session, starts, area, toPage, late, pointer, moves>> /\ crossed' = FALSE
    BY <1>3 DEF DragEnds
  <2>3. /\ view' \in Views /\ view'.visible = view.visible /\ view'.frame = view.frame /\ view'.area = a
        /\ view'.scaling = view.scaling /\ view'.fetching = view.fetching /\ view'.cleanup = view.cleanup
        /\ view'.monitor = view.monitor /\ view'.clicks = view.clicks /\ view'.through = view.through
    BY <1>0, <2>1 DEF Views
  <2>4. saves \in Seq(Areas)
    BY DEF FrameInv
  <2>5. saves' \in Seq(Areas) /\ saves' # <<>> /\ saves'[Len(saves')] = a
    BY <2>1, <2>4
  <2>6. (Stands(view, late) => Stands(view', late')) /\ (Believes(view, window) => Believes(view', window'))
    BY <2>2, <2>3 DEF Stands, NothingAsked, NoStopCall, Believes
  <2>7. (OnComing' <=> OnComing) /\ (OffsFollowed' <=> OffsFollowed)
    BY <2>2 DEF OnComing, OffsFollowed
  <2>8. Drawn(view)'
    BY <2>3, <2>5 DEF Drawn
  <2> QED BY <2>2, <2>3, <2>5, <2>6, <2>7, <2>8 DEF FrameInv
<1> QED BY <1>1, <1>2, <1>3 DEF User

LEMMA FrameStep == FrameInv /\ [FrameNext]_framePart => FrameInv'
<1>1. ASSUME FrameInv, UNCHANGED framePart PROVE FrameInv'
  <2>1. UNCHANGED <<window, session, starts, area, toPage, saves, view, late, crossed, pointer, moves>>
    BY <1>1 DEF framePart
  <2>2. Same(view, view') /\ moves' \in 0 .. MaxMoves
    BY <1>1, <2>1 DEF Same, FrameInv
  <2> QED BY <1>1, <2>1, <2>2, PageSteady
<1> QED
  BY <1>1, ShowStep, FadeStep, HideStep, SelectStep, SaveStep, HandleStep, ScaledStep, RegionStep, CleanupStep,
     ForceStep, AnswerStep, TicksStep, UserStep
  DEF FrameNext, Sessions, Timers, Handlers

LEMMA FrameHolds == FrameInv => FrameComesBack /\ DrawsWhatIsCaptured
<1> SUFFICES ASSUME FrameInv PROVE FrameComesBack /\ DrawsWhatIsCaptured
  OBVIOUS
<1>1. ASSUME Calm
      PROVE  session = "on" /\ ~OnComing /\ NothingAsked(view) /\ view.clicks = <<>>
  <2>1. view.scaling \in Nat /\ view.fetching \in Nat
    BY DEF FrameInv, Views
  <2>2. ~OnComing
    BY <1>1 DEF Calm, OnComing
  <2> QED BY <1>1, <2>1, <2>2 DEF Calm, NothingAsked
<1>2. FrameComesBack
  BY <1>1 DEF FrameInv, FrameComesBack, Stands, Believes
<1>3. DrawsWhatIsCaptured
  BY <1>1 DEF FrameInv, DrawsWhatIsCaptured, Drawn
<1> QED BY <1>2, <1>3

\* However the answers, the timers and the saves of sessions and drags fall, a
\* running session's mouse is watched and its click-through known; its frame
\* is on the page unless the handler of the stop before awaited its call when
\* the page heard of the start, and is drawn where the shell captures unless
\* the area it took last was overtaken (overlay.js:639, :652, :699).
THEOREM FrameAgrees ==
  FrameInit /\ [][FrameNext]_framePart => []FrameComesBack /\ []DrawsWhatIsCaptured
BY FrameHolds, FrameBegins, FrameStep, PTL

LEMMA PageValues == FrameInv => PageTypeOK
<1> SUFFICES ASSUME FrameInv PROVE PageTypeOK
  OBVIOUS
<1>1. /\ {area, view.area} \subseteq Areas /\ view.frame \in {"hidden", "visible", "exiting"}
      /\ view.tick \in {"idle", "asking", "asked", "clicking"} /\ {view.scaling, view.fetching} \subseteq Nat
  BY DEF FrameInv, Views, Frames, TickStages
<1>2. toPage \in Seq([kind : {"on", "region", "off"}, area : Areas])
  BY DEF FrameInv, Mails
<1> QED BY <1>1, <1>2 DEF FrameInv, PageTypeOK

-----------------------------------------------------------------------------
(* The shell                                                               *)

ShellInv == StatusInv /\ PipeInv /\ BandInv /\ FrameInv /\ WizardInv

\* What the types need besides: of each part what its counters are bounded by.
ShellBounds ==
  /\ ContextInv /\ SettingsInv
  /\ PageSound /\ QueuesFit /\ StatusBounds /\ WizardBounds

\* A step of the shell is a step of one part, and none of the others.
LEMMA PartsMove ==
  ASSUME [ShellNext]_shellVars
  PROVE  /\ [StatusNext]_statusPart /\ [PipeNext]_pipeVars /\ [BandNext]_band
         /\ [FrameNext]_framePart /\ [SetupNext]_wizardPart
        /\ [ContextNext]_contextVars /\ [SettingsNext]_settingsVars /\ [PageNext]_pageVars
<1>1. CASE ContextMoves
  BY <1>1 DEF ContextMoves, OfContext
<1>2. CASE SettingsMove
  BY <1>2 DEF SettingsMove, OfSettings
<1>3. CASE PageMoves
  BY <1>3 DEF PageMoves, OfPage
<1>4. CASE PipeMoves
  BY <1>4 DEF PipeMoves, OfPipe
<1>5. CASE BandMoves
  BY <1>5 DEF BandMoves, OfBand
<1>6. CASE StatusMoves
  BY <1>6 DEF StatusMoves, OfStatus
<1>7. CASE FrameMoves
  BY <1>7 DEF FrameMoves, OfFrame
<1>8. CASE WizardMoves
  BY <1>8 DEF WizardMoves, OfWizard
<1>9. CASE UNCHANGED shellVars
  BY <1>9 DEF shellVars
<1> QED BY <1>1, <1>2, <1>3, <1>4, <1>5, <1>6, <1>7, <1>8, <1>9 DEF ShellNext

LEMMA ShellBegins == ShellInit => ShellInv
BY StatusBegins, PipeBegins, BandBegins, FrameBegins, WizardBegins DEF ShellInit, ShellInv

LEMMA ShellStep ==
  ASSUME ShellInv, [ShellNext]_shellVars
  PROVE  ShellInv' /\ (band' # band => KeepsOut)
<1>1. /\ [StatusNext]_statusPart /\ [PipeNext]_pipeVars /\ [BandNext]_band
      /\ [FrameNext]_framePart /\ [SetupNext]_wizardPart
  BY PartsMove
<1> QED BY <1>1, StatusStep, PipeStep, BandStep, FrameStep, WizardStep DEF ShellInv

LEMMA ShellBoundsBegin == ShellInit => ShellBounds
BY ContextInitInv, SettingsInitInv, HostBoundsBegin, StatusBoundsBegin, WizardBoundsBegin
DEF ShellInit, ShellBounds

LEMMA ShellBounded ==
  ASSUME ShellInv, ShellInv', ShellBounds, [ShellNext]_shellVars
  PROVE  ShellBounds'
<1>1. /\ [StatusNext]_statusPart /\ [PipeNext]_pipeVars /\ [SetupNext]_wizardPart
      /\ [ContextNext]_contextVars /\ [SettingsNext]_settingsVars /\ [PageNext]_pageVars
  BY PartsMove
<1>2. ContextInv' /\ SettingsInv'
  BY <1>1, ContextStepInv, SettingsStepInv DEF ShellBounds
<1>3. PageSound' /\ QueuesFit' /\ StatusBounds'
  BY <1>1, PageBounded, QueuesBounded, StatusBounded DEF ShellBounds, ShellInv
<1>4. WizardBounds'
  BY <1>1, WizardBounded DEF ShellBounds, ShellInv
<1> QED BY <1>2, <1>3, <1>4 DEF ShellBounds

\* What two sides of the shell hold of the same thing agrees, in every order
\* of their calls, answers and timers (engine-status-controller.ts:67,
\* server.rs:211, meowcal-setup.ts:221). Of the frame it says what FrameAgrees
\* does, with its two exceptions: a start heard of while the stop before it
\* awaits its call (overlay.js:699), and an overtaken area (:652).
THEOREM ShellAgrees == ShellSpec => []PagesAgree
<1>1. ShellInv => PagesAgree
  BY FrameHolds
  DEF ShellInv, StatusInv, PipeInv, WizardInv, PagesAgree, WizardGoesOn, PageStands, RunUnderWay, NewsComing
<1>2. ShellInv /\ [ShellNext]_shellVars => ShellInv'
  BY ShellStep
<1> QED BY <1>1, <1>2, ShellBegins, PTL DEF ShellSpec

\* Watermarks stay out and agreeing readings confirm, where a band is
\* remembered for longer than readings are connected over (band_cue.rs, observe).
THEOREM ShellAdmits ==
  ASSUME MaxGap <= Retire
  PROVE  ShellSpec => BandsAdmit
<1>1. ShellInv /\ [ShellNext]_shellVars => ShellInv' /\ [KeepsOut]_band /\ [Confirms]_band
  BY ShellStep, ConfirmsStep DEF ShellInv
<1>2. ShellInit /\ [][ShellNext]_shellVars => [][KeepsOut]_band /\ [][Confirms]_band
  BY <1>1, ShellBegins, PTL
<1> QED BY <1>2 DEF ShellSpec, BandsAdmit, WatermarkStaysOut, TwoReadingsConfirm, KeepsOut, Confirms

\* Every variable of the shell's parts keeps its type, and every counter that a
\* part limits its bound: the rechecks of a busy engine, the queue of each
\* connection, the lines of a context and the events on their way to the setup.
THEOREM ShellTyped == ShellSpec => []ShellTypeOK
<1>1. ShellInv /\ ShellBounds => ShellTypeOK
  <2> SUFFICES ASSUME ShellInv, ShellBounds PROVE ShellTypeOK
    OBVIOUS
  <2>1. ContextTypeOK /\ SettingsTypeOK
    BY IInvTyped DEF ShellBounds, SettingsInv
  <2>2. HostTypeOK /\ BandTypeOK /\ StatusTypeOK
    BY HostValues, BandValues, StatusValues DEF ShellInv, ShellBounds
  <2>3. PageTypeOK /\ WizardTypeOK
    BY PageValues, WizardValues DEF ShellInv, ShellBounds
  <2> QED BY <2>1, <2>2, <2>3 DEF ShellTypeOK
<1>2. ShellInv /\ ShellBounds /\ [ShellNext]_shellVars => ShellInv' /\ ShellBounds'
  BY ShellStep, ShellBounded
<1> QED BY <1>1, <1>2, ShellBegins, ShellBoundsBegin, PTL DEF ShellSpec

=============================================================================
