-------------------------- MODULE SessionLifecycle --------------------------
(***************************************************************************)
(* Start, Stop, Exit and the update handoff of a translation session       *)
(* (commands.rs, session_lifecycle.rs, overlay/commands.rs,                *)
(* update_handoff.rs): the commands run concurrently, each one at a pc of  *)
(* its own, and share the control mutex, is_running, the stop signal, the  *)
(* task slot and the pipeline clock with the capture loop they spawn.      *)
(*                                                                         *)
(* A capture task is a tokio task.  It is numbered by the Start that       *)
(* spawned it.  An abort takes effect only where the task awaits; a        *)
(* capture is synchronous and cannot be aborted.                           *)
(***************************************************************************)
EXTENDS Naturals

CONSTANTS Commands,        \* concurrent invocations of the commands
          NoCommand,       \* the control mutex is free
          MaxStarts,       \* bound on the sessions that are started
          SpawnMayStarve   \* may a spawned task stay unpolled for a second?

ASSUME CommandsAssumption == NoCommand \notin Commands
ASSUME StartsAssumption == MaxStarts \in Nat
ASSUME StarveAssumption == SpawnMayStarve \in BOOLEAN

NoTask == 0
Tasks == 1..MaxStarts

VARIABLES
  control,         \* SessionLifecycle::control: the command that holds it
  isRunning,       \* AppState::is_running
  current,         \* PipelineClock: the task whose session id is current, or
                   \* NoTask after invalidate_session (ids are never reused)
  stopSignal,      \* AppState::stop_signal: the task the sender leads to
  slot,            \* SessionLifecycle::task
  captureSession,  \* graphics_capture::CAPTURE_SESSION: the task that opened it
  overlay,         \* what the overlay was last told: "shown" or "hidden"
  starts,          \* number of sessions begun
  loop,            \* loop[t]: where the capture task t is
  told,            \* told[t]: the watch channel of t carries TRUE
  aborted,         \* aborted[t]: abort() was called on t
  monitored,       \* tasks whose JoinHandle was given to monitor()
  done,            \* done[t]: the done channel of t carries TRUE
  pc,              \* pc[c]: where the command c is
  kind,            \* kind[c]: which command c is
  mine             \* mine[c]: the task a Start spawns, or a Stop waits for

loopVars == <<loop, told, aborted, monitored, done>>
cmdVars == <<pc, kind, mine>>
vars == <<control, isRunning, current, stopSignal, slot, captureSession,
          overlay, starts, loop, told, aborted, monitored, done, pc, kind, mine>>

Phases == {"none", "spawned", "opening", "top", "capturing", "waiting",
           "leaving", "closing", "clearing", "ended"}

\* The task exists and its cleanup has not finished.
Live(t) == loop[t] \notin {"none", "ended"}

\* The task takes frames.
Capturing == {"top", "capturing", "waiting"}

Kinds == {"none", "start", "stop", "exit", "update"}

\* The control mutex is held at these points.
StartHeld == {"start_check", "start_signal", "start_show", "start_spawn",
              "start_monitor"}
StopHeld == {"stop_signal", "stop_clear", "stop_take", "stop_await",
             "stop_await_abort", "stop_release", "stop_hide", "stop_fade"}
Held == StartHeld \cup StopHeld
Pcs == Held \cup {"idle", "start_queue", "stop_queue", "home", "update_check",
                  "update_kill"}

\* The Stop has succeeded and is hiding the overlay.
Succeeded == {"stop_hide", "stop_fade"}

TypeOK ==
  /\ control \in Commands \cup {NoCommand}
  /\ isRunning \in BOOLEAN
  /\ current \in Tasks \cup {NoTask}
  /\ stopSignal \in Tasks \cup {NoTask}
  /\ slot \in Tasks \cup {NoTask}
  /\ captureSession \in Tasks \cup {NoTask}
  /\ overlay \in {"shown", "hidden"}
  /\ starts \in Tasks \cup {NoTask}
  /\ loop \in [Tasks -> Phases]
  /\ told \in [Tasks -> BOOLEAN]
  /\ aborted \in [Tasks -> BOOLEAN]
  /\ monitored \in SUBSET Tasks
  /\ done \in [Tasks -> BOOLEAN]
  /\ pc \in [Commands -> Pcs]
  /\ kind \in [Commands -> Kinds]
  /\ mine \in [Commands -> Tasks \cup {NoTask}]

Init ==
  /\ control = NoCommand
  /\ isRunning = FALSE
  /\ current = NoTask
  /\ stopSignal = NoTask
  /\ slot = NoTask
  /\ captureSession = NoTask
  /\ overlay = "hidden"
  /\ starts = 0
  /\ loop = [t \in Tasks |-> "none"]
  /\ told = [t \in Tasks |-> FALSE]
  /\ aborted = [t \in Tasks |-> FALSE]
  /\ monitored = {}
  /\ done = [t \in Tasks |-> FALSE]
  /\ pc = [c \in Commands |-> "idle"]
  /\ kind = [c \in Commands |-> "none"]
  /\ mine = [c \in Commands |-> NoTask]

Goto(c, from, to) ==
  /\ pc[c] = from
  /\ pc' = [pc EXCEPT ![c] = to]

Acquire(c) == control = NoCommand /\ control' = c

-----------------------------------------------------------------------------
(* Start                                                                   *)

InvokeStart(c) ==
  /\ Goto(c, "idle", "start_queue")
  /\ kind' = [kind EXCEPT ![c] = "start"]
  /\ UNCHANGED <<control, isRunning, current, stopSignal, slot, captureSession,
                 overlay, starts, mine>> /\ UNCHANGED loopVars

StartAcquire(c) ==
  /\ Goto(c, "start_queue", "start_check")
  /\ Acquire(c)
  /\ UNCHANGED <<isRunning, current, stopSignal, slot, captureSession,
                 overlay, starts, kind, mine>> /\ UNCHANGED loopVars

\* No region was chosen, or a session is running: Start returns an error.
StartRefuse(c) ==
  /\ Goto(c, "start_check", "idle")
  /\ control' = NoCommand
  /\ kind' = [kind EXCEPT ![c] = "none"]
  /\ UNCHANGED <<isRunning, current, stopSignal, slot, captureSession,
                 overlay, starts, mine>> /\ UNCHANGED loopVars

\* is_running is claimed and the clock begins a session.
StartClaim(c) ==
  /\ Goto(c, "start_check", "start_signal")
  /\ ~isRunning
  /\ starts < MaxStarts
  /\ isRunning' = TRUE
  /\ starts' = starts + 1
  /\ mine' = [mine EXCEPT ![c] = starts + 1]
  /\ current' = starts + 1
  /\ UNCHANGED <<control, stopSignal, slot, captureSession, overlay, kind>>
  /\ UNCHANGED loopVars


\* Mutant: a stop signal left by a session that ended on its own is kept.
StartSignalKeeps(c) ==
  /\ Goto(c, "start_signal", "start_show")
  /\ stopSignal' = IF stopSignal = NoTask THEN mine[c] ELSE stopSignal
  /\ UNCHANGED <<control, isRunning, current, slot, captureSession, overlay,
                 starts, kind, mine>> /\ UNCHANGED loopVars

\* A fresh watch channel replaces whatever stop signal was left.
StartSignal(c) ==
  /\ Goto(c, "start_signal", "start_show")
  /\ stopSignal' = mine[c]
  /\ UNCHANGED <<control, isRunning, current, slot, captureSession, overlay,
                 starts, kind, mine>> /\ UNCHANGED loopVars

StartShowOverlay(c) ==
  /\ Goto(c, "start_show", "start_spawn")
  /\ overlay' = "shown"
  /\ UNCHANGED <<control, isRunning, current, stopSignal, slot,
                 captureSession, starts, kind, mine>> /\ UNCHANGED loopVars

StartSpawn(c) ==
  /\ Goto(c, "start_spawn", "start_monitor")
  /\ loop' = [loop EXCEPT ![mine[c]] = "spawned"]
  /\ UNCHANGED <<control, isRunning, current, stopSignal, slot,
                 captureSession, overlay, starts, told, aborted, monitored,
                 done, kind, mine>>

\* monitor() stores the task and spawns the awaiter; Start returns Ok.
StartMonitor(c) ==
  /\ Goto(c, "start_monitor", "idle")
  /\ slot' = mine[c]
  /\ monitored' = monitored \cup {mine[c]}
  /\ control' = NoCommand
  /\ kind' = [kind EXCEPT ![c] = "none"]
  /\ UNCHANGED <<isRunning, current, stopSignal, captureSession, overlay,
                 starts, loop, told, aborted, done, mine>>

Start(c) == \/ StartAcquire(c) \/ StartRefuse(c) \/ StartClaim(c)
            \/ StartSignal(c) \/ StartShowOverlay(c) \/ StartSpawn(c)
            \/ StartMonitor(c)

-----------------------------------------------------------------------------
(* Stop, exit_translation and prepare_for_update                           *)

\* exit_translation calls stop_translation first, so both queue at once.
InvokeStop(c) ==
  /\ Goto(c, "idle", "stop_queue")
  /\ \E k \in {"stop", "exit"} : kind' = [kind EXCEPT ![c] = k]
  /\ UNCHANGED <<control, isRunning, current, stopSignal, slot, captureSession,
                 overlay, starts, mine>> /\ UNCHANGED loopVars

InvokeUpdate(c) ==
  /\ Goto(c, "idle", "update_check")
  /\ kind' = [kind EXCEPT ![c] = "update"]
  /\ UNCHANGED <<control, isRunning, current, stopSignal, slot, captureSession,
                 overlay, starts, mine>> /\ UNCHANGED loopVars

\* is_running is read without the control mutex.
UpdateCheck(c) ==
  /\ Goto(c, "update_check", IF isRunning THEN "stop_queue" ELSE "update_kill")
  /\ UNCHANGED <<control, isRunning, current, stopSignal, slot, captureSession,
                 overlay, starts, kind, mine>> /\ UNCHANGED loopVars

StopAcquire(c) ==
  /\ Goto(c, "stop_queue", "stop_signal")
  /\ Acquire(c)
  /\ UNCHANGED <<isRunning, current, stopSignal, slot, captureSession,
                 overlay, starts, kind, mine>> /\ UNCHANGED loopVars


\* Mutant: the session number is invalidated to the one Start hands out next.
StopSignalReuses(c) ==
  /\ Goto(c, "stop_signal", "stop_clear")
  /\ current' = current + 1
  /\ told' = [t \in Tasks |-> told[t] \/ t = stopSignal]
  /\ UNCHANGED <<control, isRunning, stopSignal, slot, captureSession, overlay,
                 starts, loop, aborted, monitored, done, kind, mine>>

\* invalidate_session, then TRUE is sent to the receiver, if there is one.
StopSignal(c) ==
  /\ Goto(c, "stop_signal", "stop_clear")
  /\ current' = NoTask
  /\ told' = [t \in Tasks |-> told[t] \/ t = stopSignal]
  /\ UNCHANGED <<control, isRunning, stopSignal, slot, captureSession, overlay,
                 starts, loop, aborted, monitored, done, kind, mine>>

StopClear(c) ==
  /\ Goto(c, "stop_clear", "stop_take")
  /\ stopSignal' = NoTask
  /\ UNCHANGED <<control, isRunning, current, slot, captureSession, overlay,
                 starts, kind, mine>> /\ UNCHANGED loopVars


\* Mutant: the slot is emptied before the wait instead of after it.
StopTakeEmpties(c) ==
  /\ Goto(c, "stop_take", IF slot = NoTask THEN "stop_hide" ELSE "stop_await")
  /\ mine' = [mine EXCEPT ![c] = slot]
  /\ slot' = NoTask
  /\ UNCHANGED <<control, isRunning, current, stopSignal, captureSession,
                 overlay, starts, kind>> /\ UNCHANGED loopVars

\* wait_stopped clones the slot; an empty one has nothing to wait for.
StopTake(c) ==
  /\ Goto(c, "stop_take", IF slot = NoTask THEN "stop_hide" ELSE "stop_await")
  /\ mine' = [mine EXCEPT ![c] = slot]
  /\ UNCHANGED <<control, isRunning, current, stopSignal, slot, captureSession,
                 overlay, starts, kind>> /\ UNCHANGED loopVars


\* Mutant: asking for the abort is taken for the end of the task.
StopObserveAbort(c) ==
  /\ pc[c] \in {"stop_await", "stop_await_abort"}
  /\ done[mine[c]] \/ aborted[mine[c]]
  /\ pc' = [pc EXCEPT ![c] = "stop_release"]
  /\ UNCHANGED <<control, isRunning, current, stopSignal, slot, captureSession,
                 overlay, starts, kind, mine>> /\ UNCHANGED loopVars

\* The task reported done within the second.
StopObserveDone(c) ==
  /\ pc[c] \in {"stop_await", "stop_await_abort"}
  /\ done[mine[c]]
  /\ pc' = [pc EXCEPT ![c] = "stop_release"]
  /\ UNCHANGED <<control, isRunning, current, stopSignal, slot, captureSession,
                 overlay, starts, kind, mine>> /\ UNCHANGED loopVars

\* The first second passed.
StopAbort(c) ==
  /\ Goto(c, "stop_await", "stop_await_abort")
  /\ ~done[mine[c]]
  /\ SpawnMayStarve \/ loop[mine[c]] # "spawned"
  /\ aborted' = [aborted EXCEPT ![mine[c]] = TRUE]
  /\ UNCHANGED <<control, isRunning, current, stopSignal, slot, captureSession,
                 overlay, starts, loop, told, monitored, done, kind, mine>>


\* Mutant: giving up also forgets that the old task still runs.
StopFailForgets(c) ==
  /\ Goto(c, "stop_await_abort", "idle")
  /\ ~done[mine[c]]
  /\ control' = NoCommand /\ isRunning' = FALSE
  /\ kind' = [kind EXCEPT ![c] = "none"]
  /\ UNCHANGED <<current, stopSignal, slot, captureSession, overlay, starts,
                 mine>> /\ UNCHANGED loopVars

\* Mutant: the wait after the abort has no bound.
StopFailNever(c) == pc[c] = "stop_await_abort" /\ FALSE /\ UNCHANGED vars

\* The second second passed: the slot is kept, and Stop (and with it Exit and
\* the update handoff) returns an error.
StopFail(c) ==
  /\ Goto(c, "stop_await_abort", "idle")
  /\ ~done[mine[c]]
  /\ control' = NoCommand
  /\ kind' = [kind EXCEPT ![c] = "none"]
  /\ UNCHANGED <<isRunning, current, stopSignal, slot, captureSession,
                 overlay, starts, mine>> /\ UNCHANGED loopVars

StopRelease(c) ==
  /\ Goto(c, "stop_release", "stop_hide")
  /\ slot' = NoTask
  /\ UNCHANGED <<control, isRunning, current, stopSignal, captureSession,
                 overlay, starts, kind, mine>> /\ UNCHANGED loopVars


\* Mutant: the control is given back before the fade.
StopHideReleases(c) ==
  /\ Goto(c, "stop_hide", "stop_fade")
  /\ control' = NoCommand
  /\ UNCHANGED <<isRunning, current, stopSignal, slot, captureSession,
                 overlay, starts, kind, mine>> /\ UNCHANGED loopVars

\* Overlay.Hide is sent, then the fade is waited out with the control held.
StopHide(c) ==
  /\ Goto(c, "stop_hide", "stop_fade")
  /\ UNCHANGED <<control, isRunning, current, stopSignal, slot, captureSession,
                 overlay, starts, kind, mine>> /\ UNCHANGED loopVars

\* The window is hidden; the caller of stop_translation goes on without the
\* control.
StopReturn(c) ==
  /\ Goto(c, "stop_fade", CASE kind[c] = "exit" -> "home"
                            [] kind[c] = "update" -> "update_kill"
                            [] OTHER -> "idle")
  /\ overlay' = "hidden"
  /\ control' = NoCommand
  /\ kind' = [kind EXCEPT ![c] = IF @ = "stop" THEN "none" ELSE @]
  /\ UNCHANGED <<isRunning, current, stopSignal, slot, captureSession, starts,
                 mine>> /\ UNCHANGED loopVars

\* return_to_home, or the end of the child processes.
Finish(c) ==
  /\ pc[c] \in {"home", "update_kill"}
  /\ pc' = [pc EXCEPT ![c] = "idle"]
  /\ kind' = [kind EXCEPT ![c] = "none"]
  /\ UNCHANGED <<control, isRunning, current, stopSignal, slot, captureSession,
                 overlay, starts, mine>> /\ UNCHANGED loopVars

Stop(c) == \/ StopAcquire(c) \/ StopSignal(c) \/ StopClear(c) \/ StopTake(c)
           \/ StopObserveDone(c) \/ StopAbort(c) \/ StopFail(c)
           \/ StopRelease(c) \/ StopHide(c) \/ StopReturn(c)

-----------------------------------------------------------------------------
(* The capture task and its monitor                                        *)

LoopGoto(t, from, to) ==
  /\ loop[t] = from
  /\ loop' = [loop EXCEPT ![t] = to]

\* What a step of the task leaves alone whatever it does.
TaskFrame == UNCHANGED <<control, stopSignal, slot, overlay, starts, current,
                         told, aborted, monitored, done>> /\ UNCHANGED cmdVars

\* The cleanup guard exists from the first poll on.
LoopFirstPoll(t) ==
  /\ LoopGoto(t, "spawned", "opening")
  /\ UNCHANGED <<isRunning, captureSession>> /\ TaskFrame

\* init_capture_session may fail; frames are then captured one by one.
LoopOpen(t) ==
  /\ LoopGoto(t, "opening", "top")
  /\ \/ captureSession = NoTask /\ captureSession' = t
     \/ UNCHANGED captureSession
  /\ UNCHANGED isRunning /\ TaskFrame

\* No recognizer could start, or the work of a frame panics: only the guard
\* still runs.
LoopGiveUp(t) ==
  /\ loop[t] \in {"opening", "capturing"}
  /\ loop' = [loop EXCEPT ![t] = "closing"]
  /\ UNCHANGED <<isRunning, captureSession>> /\ TaskFrame


\* Mutant: the stop check at the top of the loop is missing.
LoopTopDeaf(t) ==
  /\ loop[t] = "top"
  /\ \E next \in {"capturing", "waiting"} : loop' = [loop EXCEPT ![t] = next]
  /\ UNCHANGED <<isRunning, captureSession>> /\ TaskFrame

\* Top of the loop; with no region the task sleeps an interval instead.
LoopTop(t) ==
  /\ loop[t] = "top"
  /\ \E next \in IF told[t] THEN {"leaving"} ELSE {"capturing", "waiting"} :
       loop' = [loop EXCEPT ![t] = next]
  /\ UNCHANGED <<isRunning, captureSession>> /\ TaskFrame

\* try_capture: a failing session is closed and reopened, or given up.
LoopCapture(t) ==
  /\ loop[t] = "capturing"
  /\ \/ UNCHANGED captureSession
     \/ captureSession = t /\ captureSession' = NoTask
  /\ \E next \in IF told[t] THEN {"leaving", "waiting"} ELSE {"waiting", "top"} :
       loop' = [loop EXCEPT ![t] = next]
  /\ UNCHANGED isRunning /\ TaskFrame

\* OCR or the pacing sleep is over, by its own or because Stop was observed.
LoopResume(t) ==
  /\ loop[t] = "waiting"
  /\ \E next \in IF told[t] THEN {"leaving", "top"} ELSE {"top"} :
       loop' = [loop EXCEPT ![t] = next]
  /\ UNCHANGED <<isRunning, captureSession>> /\ TaskFrame

\* Past the loop: "stopped" is emitted if the session is still current.
LoopLeave(t) ==
  /\ LoopGoto(t, "leaving", "closing")
  /\ UNCHANGED <<isRunning, captureSession>> /\ TaskFrame

\* An aborted task is dropped where it awaits, and its guard runs.
LoopDropped(t) ==
  /\ LoopGoto(t, "waiting", "closing")
  /\ aborted[t]
  /\ UNCHANGED <<isRunning, captureSession>> /\ TaskFrame

\* Aborted before its first poll, the task has no guard to run.
LoopDroppedUnpolled(t) ==
  /\ LoopGoto(t, "spawned", "ended")
  /\ aborted[t]
  /\ UNCHANGED <<isRunning, captureSession>> /\ TaskFrame

CleanupClose(t) ==
  /\ LoopGoto(t, "closing", "clearing")
  /\ captureSession' = NoTask
  /\ UNCHANGED isRunning /\ TaskFrame

CleanupClear(t) ==
  /\ LoopGoto(t, "clearing", "ended")
  /\ isRunning' = FALSE
  /\ UNCHANGED captureSession /\ TaskFrame

\* Mutant: is_running is cleared first and the capture closed after it.
CleanupSwapped(t) ==
  \/ /\ LoopGoto(t, "closing", "clearing")
     /\ isRunning' = FALSE
     /\ UNCHANGED captureSession /\ TaskFrame
  \/ /\ LoopGoto(t, "clearing", "ended")
     /\ captureSession' = NoTask
     /\ UNCHANGED isRunning /\ TaskFrame

\* Mutant: the capture is closed, and is_running left as it was.
CleanupHalf(t) ==
  \/ CleanupClose(t)
  \/ /\ LoopGoto(t, "clearing", "ended")
     /\ UNCHANGED <<isRunning, captureSession>> /\ TaskFrame

\* Mutant: is_running is cleared, and the capture left open.
CleanupLeaks(t) ==
  \/ /\ LoopGoto(t, "closing", "clearing")
     /\ UNCHANGED <<isRunning, captureSession>> /\ TaskFrame
  \/ CleanupClear(t)

\* The guard that defer! set up, whatever ended the task.
Cleanup(t) == CleanupClose(t) \/ CleanupClear(t)

\* The awaiter that monitor() spawned publishes the end of the task.
MonitorDone(t) ==
  /\ t \in monitored /\ loop[t] = "ended" /\ ~done[t]
  /\ done' = [done EXCEPT ![t] = TRUE]
  /\ UNCHANGED <<control, isRunning, current, stopSignal, slot, captureSession,
                 overlay, starts, loop, told, aborted, monitored>>
  /\ UNCHANGED cmdVars

Task(t) == \/ LoopFirstPoll(t) \/ LoopOpen(t) \/ LoopGiveUp(t) \/ LoopTop(t)
           \/ LoopCapture(t) \/ LoopResume(t) \/ LoopLeave(t)
           \/ LoopDropped(t) \/ LoopDroppedUnpolled(t)
           \/ Cleanup(t)

-----------------------------------------------------------------------------
Invoke(c) == InvokeStart(c) \/ InvokeStop(c) \/ InvokeUpdate(c)
Command(c) == Start(c) \/ Stop(c) \/ UpdateCheck(c) \/ Finish(c)

Next == \/ \E c \in Commands : Invoke(c) \/ Command(c)
        \/ \E t \in Tasks : Task(t) \/ MonitorDone(t)

Spec == Init /\ [][Next]_vars

\* Handlers run to their end once polled; the mutex queue is fair (tokio).
CommandFairness ==
  /\ \A c \in Commands : WF_vars(Command(c))
  /\ \A c \in Commands : SF_vars(StartAcquire(c) \/ StopAcquire(c))

\* Captures return, awaits are polled again, the awaiter is scheduled.
TaskFairness ==
  /\ \A t \in Tasks : WF_vars(Task(t)) /\ WF_vars(MonitorDone(t))

\* A spawned task is polled, but a capture may hang for ever in the operating
\* system.
HungSpec ==
  Spec /\ CommandFairness /\ \A t \in Tasks : WF_vars(LoopFirstPoll(t))

-----------------------------------------------------------------------------
(* Safety                                                                  *)

\* At most one capture task is live: a Stop that failed leaves is_running to
\* the old task, and cannot authorize a second session.
SingleCapture == \A t, u \in Tasks : Live(t) /\ Live(u) => t = u

\* A Stop that succeeded waited for the old capture task to exit: none is left
\* from there until it gives the control back.
StopMeansExited ==
  \A c \in Commands : pc[c] \in Succeeded => \A t \in Tasks : ~Live(t)

\* Sessions never overlap: the capture of one has exited before Stop says so,
\* and before another one captures.
SessionsApart == SingleCapture /\ StopMeansExited

\* The capture session of the operating system belongs to a live task; it is
\* never left open by one that ended.
CaptureHasOwner == captureSession # NoTask => Live(captureSession)

\* A capture task that was not told to stop is the one the stop signal leads
\* to, and its session is current: the next Stop reaches it.
EveryLoopStoppable ==
  \A t \in Tasks : Live(t) /\ ~told[t] => stopSignal = t /\ current = t

\* The overlay of a running session is not hidden by the end of an earlier
\* Stop.
OverlayStaysShown ==
  \A t \in Tasks : loop[t] \in Capturing /\ ~told[t] => overlay = "shown"

\* Only the task that opened the capture session closes it: the cleanup of an
\* old task never closes the capture of a new one.
CaptureClosedByOwner ==
  [][\A t \in Tasks :
       captureSession = t /\ captureSession' # t =>
         \A u \in Tasks \ {t} : loop'[u] = loop[u]]_vars

\* A successful Stop leaves the session stopped: is_running is down, so that
\* Start is accepted again.  Needs ~SpawnMayStarve.
StopLeavesStopped == \A c \in Commands : pc[c] \in Succeeded => ~isRunning

-----------------------------------------------------------------------------
(* Liveness                                                                *)

\* Every Stop answers, even while a capture hangs: both waits are bounded.
StopAnswers ==
  \A c \in Commands : pc[c] = "stop_queue" ~> pc[c] \in {"idle", "home", "update_kill"}

\* A task that is told to stop ends and frees is_running for the next Start,
\* though the Stop that told it may have given up waiting - provided that its
\* captures return.
ToldTasksEnd ==
  TaskFairness => \A t \in Tasks : told[t] /\ Live(t) ~> ~Live(t) /\ ~isRunning

\* Stopping ends: for the user, who gets an answer whatever the capture does,
\* and for the session, once its captures return.
StoppingEnds == StopAnswers /\ ToldTasksEnd

-----------------------------------------------------------------------------
(* Refinement of TranslationSession                                        *)

TS == INSTANCE TranslationSession
        WITH Sessions <- Tasks,
             open <- {t \in Tasks : Live(t)},
             used <- {t \in Tasks : loop[t] # "none"},
             acked <- {c \in Commands : pc[c] \in Succeeded}

\* Every step is a step of the abstract session or leaves it alone.
ImplementsSession == TS!Spec
=============================================================================
