---------------------------- MODULE EngineStatus -----------------------------
(***************************************************************************)
(* The engine's status as the main window shows it: readings, rechecks of  *)
(* a busy engine, preparations, and the start that saves the settings,     *)
(* joins a preparation and asks for the status before it begins.  An       *)
(* answer counts only for the newest question.                             *)
(* Source: src/ui/engine-status-controller.ts, app-controller.ts.          *)
(***************************************************************************)
EXTENDS Naturals

CONSTANTS
  MaxRechecks, \* a busy engine is asked again so often (MAX_RECHECKS)
  MaxAsked     \* bound: questions for the engine's status

\* The first question is asked when the window opens.
ASSUME StatusAssumption == MaxRechecks \in Nat /\ MaxAsked \in Nat \ {0}

VARIABLES
  phase,     \* the current status' phase
  asked,     \* EngineStatusController.revision
  reads,     \* the readings under way: their revisions
  recheck,   \* a recheck under way: its revision, or 0 (checking)
  timer,     \* a recheck is due
  attempts,
  making,    \* make_engine_ready is under way (preparation)
  waits,     \* completePreparation waits for it: [revision, and whether it shows a failure]
  start,     \* start(): "idle", "saving", "joining", "asking", "making" or "calling"
  startAsked \* the revision start() took

statusPart == <<phase, asked, reads, recheck, timer, attempts, making, waits, start, startAsked>>
Phases == {"busy", "ready", "preparing", "notRunning", "error"}
StartStages == {"idle", "saving", "joining", "asking", "making", "calling"}

StatusInit ==
  /\ phase = "notRunning" /\ asked = 1 /\ reads = {} /\ recheck = 0 /\ timer = FALSE /\ attempts = 0
  /\ making = FALSE /\ waits = [of |-> 0, shows |-> FALSE] /\ start = "idle" /\ startAsked = 0

\* A plausible bug: a busy engine is asked again only when it was not busy before.
AcceptedOnce(p) ==
  /\ phase' = p /\ attempts' = IF phase = "busy" THEN attempts ELSE 0
  /\ timer' = (p = "busy" /\ phase # "busy" /\ recheck = 0 /\ attempts' < MaxRechecks)

\* accept: the attempts begin anew unless the engine was busy already, and a
\* busy engine is asked again, a bounded number of times.
Accepted(p) ==
  /\ phase' = p
  /\ attempts' = IF phase = "busy" THEN attempts ELSE 0
  /\ timer' = (p = "busy" /\ (timer \/ (recheck = 0 /\ attempts' < MaxRechecks)))
Ignored == UNCHANGED <<phase, attempts, timer>>

\* Focus returns: the status is read, unless our own preparation runs.
ReadAsks ==
  /\ ~(making /\ phase = "notRunning") /\ asked < MaxAsked
  /\ asked' = asked + 1 /\ reads' = reads \union {asked + 1}
  /\ UNCHANGED <<phase, recheck, timer, attempts, making, waits, start, startAsked>>

\* A reading that finds the engine preparing waits for it (finishPreparation).
ReadingEnds(r, p) ==
  /\ r \in reads /\ reads' = reads \ {r}
  /\ IF r = asked THEN Accepted(p) ELSE Ignored
  /\ IF r = asked /\ p = "preparing" THEN waits' = [of |-> asked, shows |-> TRUE] /\ making' = TRUE
     ELSE UNCHANGED <<waits, making>>
  /\ UNCHANGED <<asked, recheck, start, startAsked>>

\* A region was chosen while nothing runs: the engine is warmed up.
Prewarm ==
  /\ phase = "notRunning" /\ start = "idle"
  /\ waits' = [of |-> asked, shows |-> FALSE] /\ making' = TRUE
  /\ UNCHANGED <<phase, asked, reads, recheck, timer, attempts, start, startAsked>>

RecheckAsks ==
  /\ timer /\ timer' = FALSE /\ recheck' = asked /\ attempts' = attempts + 1
  /\ UNCHANGED <<phase, asked, reads, making, waits, start, startAsked>>

\* When a recheck ends, whatever it brought, a busy engine is asked again.
RecheckEnds(p) ==
  LET now == IF recheck = asked THEN p ELSE phase
      tried == IF recheck = asked /\ phase # "busy" THEN 0 ELSE attempts
  IN  /\ recheck # 0 /\ recheck' = 0 /\ phase' = now /\ attempts' = tried
      /\ timer' = (now = "busy" /\ (timer \/ tried < MaxRechecks))
      /\ UNCHANGED <<asked, reads, making, waits, start, startAsked>>

\* make_engine_ready answers, or fails, whoever waits: the preparation, a
\* start that asked for it, a start that joined it.
MakeEnds(p, ok) ==
  /\ making /\ making' = FALSE /\ waits' = [waits EXCEPT !.of = 0]
  /\ IF start = "making" /\ startAsked = asked /\ ok THEN Accepted(p)
     ELSE IF waits.of # asked THEN Ignored
     ELSE IF ok THEN Accepted(p)
     ELSE IF waits.shows THEN Accepted("error") ELSE Ignored
  /\ start' = CASE start = "joining" /\ ok -> "asking"
                [] start = "making" /\ startAsked = asked /\ ok /\ p = "ready" -> "calling"
                [] start \in {"joining", "making"} -> "idle"
                [] OTHER -> start
  /\ UNCHANGED <<asked, reads, recheck, startAsked>>

\* start(): the settings are saved, a preparation is joined, the status asked.
StartBegins ==
  /\ start = "idle" /\ start' = "saving"
  /\ UNCHANGED <<phase, asked, reads, recheck, timer, attempts, making, waits, startAsked>>
StartSaved(ok) ==
  /\ start = "saving" /\ (ok => asked < MaxAsked)
  /\ IF ok THEN asked' = asked + 1 /\ startAsked' = asked + 1 /\ start' = IF making THEN "joining" ELSE "asking"
     ELSE start' = "idle" /\ UNCHANGED <<asked, startAsked>>
  /\ UNCHANGED <<phase, reads, recheck, timer, attempts, making, waits>>
StartAnswered(p, ok) ==
  /\ start = "asking"
  /\ IF ~ok THEN start' = "idle" /\ Ignored /\ UNCHANGED making
     ELSE IF p \in {"notRunning", "preparing"} THEN making' = TRUE /\ start' = "making" /\ Ignored
     ELSE IF startAsked # asked THEN start' = "idle" /\ Ignored /\ UNCHANGED making
     ELSE Accepted(p) /\ start' = (IF p = "ready" THEN "calling" ELSE "idle") /\ UNCHANGED making
  /\ UNCHANGED <<asked, reads, recheck, waits, startAsked>>
StartCalled ==
  /\ start = "calling" /\ start' = "idle"
  /\ UNCHANGED <<phase, asked, reads, recheck, timer, attempts, making, waits, startAsked>>

MakeAnswers == \E p \in Phases, ok \in BOOLEAN : MakeEnds(p, ok)
Answers == MakeAnswers \/ \E p \in Phases : RecheckEnds(p) \/ \E r \in reads : ReadingEnds(r, p)
StartGoesOn == StartCalled \/ \E ok \in BOOLEAN : StartSaved(ok) \/ \E p \in Phases : StartAnswered(p, ok)

StatusNext == ReadAsks \/ Prewarm \/ RecheckAsks \/ Answers \/ StartBegins \/ StartGoesOn

\* The backend answers every call.
StatusFairness == WF_statusPart(StartGoesOn) /\ WF_statusPart(MakeAnswers)
StatusSpec == StatusInit /\ [][StatusNext]_statusPart /\ StatusFairness

-----------------------------------------------------------------------------
\* The values the variables take.
StatusTypeOK ==
  /\ phase \in Phases /\ asked \in 1 .. MaxAsked /\ reads \subseteq 1 .. asked /\ recheck \in 0 .. asked
  /\ timer \in BOOLEAN /\ attempts \in 0 .. MaxRechecks /\ making \in BOOLEAN /\ start \in StartStages

\* A busy engine is asked again or has been asked often enough, and a waiting
\* start is one whose preparation is still under way (engine-status-controller.ts:80).
BusyIsAsked ==
  /\ phase = "busy" => timer \/ recheck # 0 \/ attempts >= MaxRechecks
  /\ start \in {"joining", "making"} => making

\* What is never so for good: a start is under way.  It ends, started or
\* refused, whatever else asks for the status.
StartUnderWay == start # "idle"
=============================================================================
