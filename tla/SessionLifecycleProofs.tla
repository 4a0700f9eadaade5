----------------------- MODULE SessionLifecycleProofs -----------------------
(***************************************************************************)
(* What holds of every instance of SessionLifecycle: any set of concurrent *)
(* commands, any number of sessions, starved spawns or not.                *)
(***************************************************************************)
EXTENDS SessionLifecycle, TLAPS

\* The control mutex excludes: whoever is inside a transition holds it.
LockInv == \A c \in Commands : pc[c] \in Held <=> control = c

\* Only the latest session can be live, and it has is_running up; a later
\* number was never used.
RunInv == /\ \A t \in Tasks : Live(t) => isRunning /\ t = starts
          /\ \A t \in Tasks : t > starts => loop[t] = "none"
          /\ \A t \in Tasks : done[t] => loop[t] = "ended"

\* A Start that claimed the session has set up what its task will rely on.
StartInv ==
  \A c \in Commands :
    /\ pc[c] \in {"start_signal", "start_show", "start_spawn"} =>
         /\ mine[c] = starts /\ starts \in Tasks /\ isRunning
         /\ loop[starts] = "none" /\ current = starts
    /\ pc[c] \in {"start_show", "start_spawn"} => stopSignal = starts
    /\ pc[c] = "start_spawn" => overlay = "shown"
    /\ pc[c] = "start_monitor" => mine[c] = starts /\ starts \in Tasks

\* A live task is the one in the slot, but for the moment before monitor().
SlotInv ==
  \A t \in Tasks :
    Live(t) => slot = t \/ \E c \in Commands : pc[c] = "start_monitor"

\* A Stop waits for the task in the slot, and past the wait nothing is live.
StopInv ==
  \A c \in Commands :
    /\ pc[c] = "stop_clear" => \A t \in Tasks : Live(t) => told[t]
    /\ pc[c] \in {"stop_await", "stop_await_abort"} =>
         mine[c] = slot /\ slot \in Tasks
    /\ pc[c] \in Succeeded \cup {"stop_release"} => \A t \in Tasks : ~Live(t)

\* The capture session is held between its opening and the cleanup.
CaptureInv ==
  captureSession # NoTask =>
    loop[captureSession] \in {"top", "capturing", "waiting", "leaving", "closing"}

\* A live task that was not told to stop is current, reachable and shown.
LoopInv ==
  \A t \in Tasks :
    Live(t) /\ ~told[t] => stopSignal = t /\ current = t /\ overlay = "shown"

IInv == /\ TypeOK /\ LockInv /\ RunInv /\ StartInv /\ SlotInv /\ StopInv
        /\ CaptureInv /\ LoopInv

-----------------------------------------------------------------------------
(* Type correctness                                                        *)

LEMMA TypeInit == Init => TypeOK
BY ZenonT(40) DEF Init, TypeOK, Tasks, NoTask, Phases, Pcs, Held, StartHeld, StopHeld, Kinds

LEMMA TypeStep == TypeOK /\ StartInv /\ [Next]_vars => TypeOK'
<1> SUFFICES ASSUME TypeOK, StartInv, [Next]_vars PROVE TypeOK'
  OBVIOUS
<1> USE StartsAssumption
        DEF TypeOK, Tasks, NoTask, Phases, Pcs, Held, StartHeld, StopHeld, Kinds,
            Goto, LoopGoto, Acquire, loopVars, cmdVars, TaskFrame
<1>1. ASSUME NEW c \in Commands, InvokeStart(c) PROVE TypeOK'
  BY <1>1 DEF InvokeStart
<1>2. ASSUME NEW c \in Commands, InvokeStop(c) PROVE TypeOK'
  BY <1>2 DEF InvokeStop
<1>3. ASSUME NEW c \in Commands, InvokeUpdate(c) PROVE TypeOK'
  BY <1>3 DEF InvokeUpdate
<1>4. ASSUME NEW c \in Commands, StartAcquire(c) PROVE TypeOK'
  BY <1>4 DEF StartAcquire
<1>5. ASSUME NEW c \in Commands, StartRefuse(c) PROVE TypeOK'
  BY <1>5 DEF StartRefuse
<1>6. ASSUME NEW c \in Commands, StartClaim(c) PROVE TypeOK'
  BY <1>6 DEF StartClaim
<1>7. ASSUME NEW c \in Commands, StartSignal(c) PROVE TypeOK'
  BY <1>7 DEF StartSignal
<1>8. ASSUME NEW c \in Commands, StartShowOverlay(c) PROVE TypeOK'
  BY <1>8 DEF StartShowOverlay
<1>9. ASSUME NEW c \in Commands, StartSpawn(c) PROVE TypeOK'
  BY <1>9 DEF StartSpawn
<1>10. ASSUME NEW c \in Commands, StartMonitor(c) PROVE TypeOK'
  BY <1>10 DEF StartMonitor, StartInv
<1>11. ASSUME NEW c \in Commands, UpdateCheck(c) PROVE TypeOK'
  BY <1>11 DEF UpdateCheck
<1>12. ASSUME NEW c \in Commands, StopAcquire(c) PROVE TypeOK'
  BY <1>12 DEF StopAcquire
<1>13. ASSUME NEW c \in Commands, StopSignal(c) PROVE TypeOK'
  BY <1>13 DEF StopSignal
<1>14. ASSUME NEW c \in Commands, StopClear(c) PROVE TypeOK'
  BY <1>14 DEF StopClear
<1>15. ASSUME NEW c \in Commands, StopTake(c) PROVE TypeOK'
  BY <1>15 DEF StopTake
<1>16. ASSUME NEW c \in Commands, StopObserveDone(c) PROVE TypeOK'
  BY <1>16 DEF StopObserveDone
<1>17. ASSUME NEW c \in Commands, StopAbort(c) PROVE TypeOK'
  BY <1>17 DEF StopAbort
<1>18. ASSUME NEW c \in Commands, StopFail(c) PROVE TypeOK'
  BY <1>18 DEF StopFail
<1>19. ASSUME NEW c \in Commands, StopRelease(c) PROVE TypeOK'
  BY <1>19 DEF StopRelease
<1>20. ASSUME NEW c \in Commands, StopHide(c) PROVE TypeOK'
  BY <1>20 DEF StopHide
<1>21. ASSUME NEW c \in Commands, StopReturn(c) PROVE TypeOK'
  BY <1>21 DEF StopReturn
<1>22. ASSUME NEW c \in Commands, Finish(c) PROVE TypeOK'
  BY <1>22 DEF Finish
<1>23. ASSUME NEW t \in Tasks, LoopFirstPoll(t) PROVE TypeOK'
  BY <1>23 DEF LoopFirstPoll
<1>24. ASSUME NEW t \in Tasks, LoopOpen(t) PROVE TypeOK'
  BY <1>24 DEF LoopOpen
<1>25. ASSUME NEW t \in Tasks, LoopGiveUp(t) PROVE TypeOK'
  BY <1>25 DEF LoopGiveUp
<1>26. ASSUME NEW t \in Tasks, LoopTop(t) PROVE TypeOK'
  BY <1>26 DEF LoopTop
<1>27. ASSUME NEW t \in Tasks, LoopCapture(t) PROVE TypeOK'
  BY <1>27 DEF LoopCapture
<1>28. ASSUME NEW t \in Tasks, LoopResume(t) PROVE TypeOK'
  BY <1>28 DEF LoopResume
<1>29. ASSUME NEW t \in Tasks, LoopLeave(t) PROVE TypeOK'
  BY <1>29 DEF LoopLeave
<1>30. ASSUME NEW t \in Tasks, LoopDropped(t) PROVE TypeOK'
  BY <1>30 DEF LoopDropped
<1>31. ASSUME NEW t \in Tasks, LoopDroppedUnpolled(t) PROVE TypeOK'
  BY <1>31 DEF LoopDroppedUnpolled
<1>32. ASSUME NEW t \in Tasks, CleanupClose(t) PROVE TypeOK'
  BY <1>32 DEF CleanupClose
<1>33. ASSUME NEW t \in Tasks, CleanupClear(t) PROVE TypeOK'
  BY <1>33 DEF CleanupClear
<1>34. ASSUME NEW t \in Tasks, MonitorDone(t) PROVE TypeOK'
  BY <1>34 DEF MonitorDone
<1>35. CASE UNCHANGED vars
  BY <1>35 DEF vars
<1> QED
  BY <1>1, <1>2, <1>3, <1>4, <1>5, <1>6, <1>7, <1>8, <1>9, <1>10, <1>11,
     <1>12, <1>13, <1>14, <1>15, <1>16, <1>17, <1>18, <1>19, <1>20, <1>21, <1>22,
     <1>23, <1>24, <1>25, <1>26, <1>27, <1>28, <1>29, <1>30, <1>31, <1>32, <1>33,
     <1>34, <1>35 DEF Next, Invoke, Command, Start, Stop, Task, Cleanup

-----------------------------------------------------------------------------
(* The inductive invariant                                                 *)

LEMMA InvInit == Init => IInv
<1> SUFFICES ASSUME Init PROVE IInv
  OBVIOUS
<1>1. TypeOK
  BY TypeInit
<1>2. LockInv /\ StartInv /\ StopInv
  BY CommandsAssumption
  DEF Init, LockInv, StartInv, StopInv, Held, StartHeld, StopHeld, Succeeded
<1>3. RunInv /\ SlotInv /\ CaptureInv /\ LoopInv
  BY DEF Init, RunInv, SlotInv, CaptureInv, LoopInv, Live
<1> QED
  BY <1>1, <1>2, <1>3 DEF IInv

\* Only one command is inside a transition.
LEMMA OneHolder ==
  ASSUME LockInv, CommandsAssumption, NEW c \in Commands, NEW d \in Commands,
         pc[c] \in Held, pc[d] \in Held
  PROVE  c = d
BY DEF LockInv

\* Where a Stop stops waiting, nothing is live: the live task would be the one
\* in the slot, which is empty or done.
LEMMA NothingLeft ==
  ASSUME IInv, NEW c \in Commands,
         \/ pc[c] = "stop_take" /\ slot = NoTask
         \/ pc[c] \in {"stop_await", "stop_await_abort"} /\ done[mine[c]]
  PROVE  \A t \in Tasks : ~Live(t)
<1> SUFFICES ASSUME NEW t \in Tasks, Live(t) PROVE FALSE
  OBVIOUS
<1>1. pc[c] \in Held
  BY DEF Held, StopHeld
<1>2. \A d \in Commands : pc[d] # "start_monitor"
  BY <1>1, OneHolder, CommandsAssumption DEF IInv, Held, StartHeld
<1>3. slot = t
  BY <1>2 DEF IInv, SlotInv
<1>4. CASE slot = NoTask
  BY <1>3, <1>4, StartsAssumption DEF Tasks, NoTask
<1>5. CASE pc[c] \in {"stop_await", "stop_await_abort"} /\ done[mine[c]]
  BY <1>3, <1>5 DEF IInv, StopInv, RunInv, Live
<1> QED
  BY <1>4, <1>5

\* Start claims, prepares and spawns its session behind the control.
LEMMA StartKeepsInv ==
  ASSUME IInv, TypeOK', NEW c \in Commands, InvokeStart(c) \/ Start(c)
  PROVE  IInv'
<1> USE CommandsAssumption, StartsAssumption
        DEF IInv, TypeOK, Tasks, NoTask, Held, StartHeld, StopHeld, Live,
            Succeeded, Goto, Acquire, loopVars, LockInv, RunInv, StartInv,
            SlotInv, StopInv, CaptureInv, LoopInv
<1>1. CASE InvokeStart(c)
  BY <1>1 DEF InvokeStart
<1>2. CASE StartAcquire(c)
  BY <1>2 DEF StartAcquire
<1>3. CASE StartRefuse(c)
  BY <1>3 DEF StartRefuse
<1>4. CASE StartClaim(c)
  BY <1>4 DEF StartClaim
<1>5. CASE StartSignal(c)
  BY <1>5 DEF StartSignal
<1>6. CASE StartShowOverlay(c)
  BY <1>6 DEF StartShowOverlay
<1>7. CASE StartSpawn(c)
  BY <1>7 DEF StartSpawn
<1>8. CASE StartMonitor(c)
  BY <1>8 DEF StartMonitor
<1> QED
  BY <1>1, <1>2, <1>3, <1>4, <1>5, <1>6, <1>7, <1>8 DEF Start

\* Stop signals, waits and hides behind the control; Exit and the handoff
\* add steps without it.
LEMMA StopKeepsInv ==
  ASSUME IInv, TypeOK', NEW c \in Commands,
         InvokeStop(c) \/ InvokeUpdate(c) \/ UpdateCheck(c) \/ Stop(c) \/ Finish(c)
  PROVE  IInv'
<1> USE CommandsAssumption, StartsAssumption
        DEF IInv, TypeOK, Tasks, NoTask, Held, StartHeld, StopHeld, Live,
            Succeeded, Goto, Acquire, loopVars, LockInv, RunInv, StartInv,
            SlotInv, StopInv, CaptureInv, LoopInv
<1>1. CASE InvokeStop(c)
  BY <1>1 DEF InvokeStop
<1>2. CASE InvokeUpdate(c)
  BY SMTT(40), <1>2 DEF InvokeUpdate
<1>3. CASE UpdateCheck(c)
  BY <1>3 DEF UpdateCheck
<1>4. CASE StopAcquire(c)
  BY <1>4 DEF StopAcquire
<1>5. CASE StopSignal(c)
  BY <1>5 DEF StopSignal
<1>6. CASE StopClear(c)
  BY <1>6 DEF StopClear
<1>7. CASE StopTake(c)
  <2>1. slot = NoTask => \A t \in Tasks : ~Live(t)
    BY ONLY <1>7, IInv, NothingLeft DEF StopTake, Goto
  <2> QED
    BY <1>7, <2>1 DEF StopTake
<1>8. CASE StopObserveDone(c)
  <2>1. \A t \in Tasks : ~Live(t)
    BY ONLY <1>8, IInv, NothingLeft DEF StopObserveDone
  <2> QED
    BY <1>8, <2>1 DEF StopObserveDone
<1>9. CASE StopAbort(c)
  BY <1>9 DEF StopAbort
<1>10. CASE StopFail(c)
  BY <1>10 DEF StopFail
<1>11. CASE StopRelease(c)
  BY <1>11 DEF StopRelease
<1>12. CASE StopHide(c)
  BY <1>12 DEF StopHide
<1>13. CASE StopReturn(c)
  BY <1>13 DEF StopReturn
<1>14. CASE Finish(c)
  BY <1>14 DEF Finish
<1> QED
  BY <1>1, <1>2, <1>3, <1>4, <1>5, <1>6, <1>7, <1>8, <1>9, <1>10, <1>11,
     <1>12, <1>13, <1>14 DEF Stop

\* The capture task moves on, is dropped, or cleans up.
LEMMA TaskKeepsInv ==
  ASSUME IInv, TypeOK', NEW t \in Tasks, Task(t) \/ MonitorDone(t)
  PROVE  IInv'
<1> USE CommandsAssumption, StartsAssumption
        DEF IInv, TypeOK, Tasks, NoTask, Held, StartHeld, StopHeld, Live,
            Succeeded, LoopGoto, TaskFrame, cmdVars, LockInv, RunInv, StartInv,
            SlotInv, StopInv, CaptureInv, LoopInv
<1>1. CASE LoopFirstPoll(t)
  BY <1>1 DEF LoopFirstPoll
<1>2. CASE LoopOpen(t)
  BY <1>2 DEF LoopOpen
<1>3. CASE LoopGiveUp(t)
  BY <1>3 DEF LoopGiveUp
<1>4. CASE LoopTop(t)
  BY <1>4 DEF LoopTop
<1>5. CASE LoopCapture(t)
  BY <1>5 DEF LoopCapture
<1>6. CASE LoopResume(t)
  BY <1>6 DEF LoopResume
<1>7. CASE LoopLeave(t)
  BY <1>7 DEF LoopLeave
<1>8. CASE LoopDropped(t)
  BY <1>8 DEF LoopDropped
<1>9. CASE LoopDroppedUnpolled(t)
  BY <1>9 DEF LoopDroppedUnpolled
<1>10. CASE CleanupClose(t)
  BY <1>10 DEF CleanupClose
<1>11. CASE CleanupClear(t)
  BY <1>11 DEF CleanupClear
<1>12. CASE MonitorDone(t)
  BY <1>12 DEF MonitorDone
<1> QED
  BY <1>1, <1>2, <1>3, <1>4, <1>5, <1>6, <1>7, <1>8, <1>9, <1>10, <1>11, <1>12
     DEF Task, Cleanup

LEMMA InvStep == IInv /\ [Next]_vars => IInv'
<1> SUFFICES ASSUME IInv, [Next]_vars PROVE IInv'
  OBVIOUS
<1>1. TypeOK'
  BY TypeStep DEF IInv
<1>2. ASSUME NEW c \in Commands, Invoke(c) \/ Command(c) PROVE IInv'
  BY <1>1, <1>2, StartKeepsInv, StopKeepsInv DEF Invoke, Command
<1>3. ASSUME NEW t \in Tasks, Task(t) \/ MonitorDone(t) PROVE IInv'
  BY <1>1, <1>3, TaskKeepsInv
<1>4. CASE UNCHANGED vars
  BY <1>4
  DEF vars, IInv, TypeOK, LockInv, RunInv, StartInv, SlotInv, StopInv,
      CaptureInv, LoopInv, Live
<1> QED
  BY <1>2, <1>3, <1>4 DEF Next

THEOREM Invariance == Spec => []IInv
BY InvInit, InvStep, PTL DEF Spec

-----------------------------------------------------------------------------
(* What follows from it                                                    *)

\* Every variable keeps its type, in every instance.
THEOREM TypeCorrect == Spec => []TypeOK
<1>1. IInv => TypeOK
  BY DEF IInv
<1> QED
  BY <1>1, Invariance, PTL

\* There is never a second live capture task, whatever timeouts, aborts and
\* retries happen (commands.rs is_running, session_lifecycle.rs).
THEOREM AtMostOneCapture == Spec => []SingleCapture
<1>1. IInv => SingleCapture
  BY DEF IInv, RunInv, SingleCapture
<1> QED
  BY <1>1, Invariance, PTL

\* A Stop succeeds only after the capture task has exited, and none begins
\* before the Stop gives the control back.
THEOREM StopIsTeardown == Spec => []StopMeansExited
<1>1. IInv => StopMeansExited
  BY DEF IInv, StopInv, StopMeansExited
<1> QED
  BY <1>1, Invariance, PTL

\* A session has exited before its Stop succeeds and before the next captures.
THEOREM SessionsStayApart == Spec => []SessionsApart
BY AtMostOneCapture, StopIsTeardown, PTL DEF SessionsApart

\* No capture session outlives its task.
THEOREM CaptureIsOwned == Spec => []CaptureHasOwner
<1>1. IInv => CaptureHasOwner
  BY DEF IInv, CaptureInv, CaptureHasOwner, Live
<1> QED
  BY <1>1, Invariance, PTL

\* The next Stop reaches every running session.
THEOREM RunningIsStoppable == Spec => []EveryLoopStoppable
<1>1. IInv => EveryLoopStoppable
  BY DEF IInv, LoopInv, EveryLoopStoppable, Live
<1> QED
  BY <1>1, Invariance, PTL

\* The overlay of a session that captures stays shown until the session is told
\* to stop, whatever an earlier Stop still has to hide.
THEOREM OverlayIsKept == Spec => []OverlayStaysShown
<1>1. IInv => OverlayStaysShown
  BY DEF IInv, LoopInv, OverlayStaysShown, Live, Capturing
<1> QED
  BY <1>1, Invariance, PTL

\* The cleanup of one task never closes the capture session of another.
THEOREM CaptureIsPrivate == Spec => CaptureClosedByOwner
<1> DEFINE OwnerOnly ==
      \A t \in Tasks :
        captureSession = t /\ captureSession' # t =>
          \A u \in Tasks \ {t} : loop'[u] = loop[u]
<1>1. IInv /\ [Next]_vars => [OwnerOnly]_vars
  <2> SUFFICES ASSUME IInv, Next,
                      NEW t \in Tasks, captureSession = t, captureSession' # t,
                      NEW u \in Tasks \ {t}
               PROVE  loop'[u] = loop[u]
    BY DEF OwnerOnly
  <2> USE StartsAssumption DEF Tasks, NoTask
  <2>1. ASSUME NEW c \in Commands, Invoke(c) \/ Command(c) PROVE FALSE
    BY <2>1
    DEF Invoke, Command, InvokeStart, InvokeStop, InvokeUpdate, UpdateCheck,
        Finish, Start, StartAcquire, StartRefuse, StartClaim, StartSignal,
        StartShowOverlay, StartSpawn, StartMonitor, Stop, StopAcquire,
        StopSignal, StopClear, StopTake, StopObserveDone, StopAbort, StopFail,
        StopRelease, StopHide, StopReturn
  <2>2. ASSUME NEW w \in Tasks, Task(w) \/ MonitorDone(w)
        PROVE  loop'[u] = loop[u]
    <3>1. LoopCapture(w) \/ CleanupClose(w)
      BY <2>2
      DEF Task, Cleanup, LoopFirstPoll, LoopOpen, LoopGiveUp, LoopTop,
          LoopResume, LoopLeave, LoopDropped, LoopDroppedUnpolled,
          CleanupClear, MonitorDone
    <3>2. w = t
      BY <3>1
      DEF IInv, RunInv, CaptureInv, Live, LoopCapture, CleanupClose, LoopGoto
    <3> QED
      BY <3>1, <3>2 DEF IInv, TypeOK, LoopCapture, CleanupClose, LoopGoto
  <2> QED
    BY <2>1, <2>2 DEF Next
<1> QED
  BY <1>1, Invariance, PTL DEF Spec, CaptureClosedByOwner, OwnerOnly

-----------------------------------------------------------------------------
(* The handlers implement the abstract session                             *)

LEMMA SessionInit == Init => TS!Init
BY DEF Init, TS!Init, Live, Succeeded

\* A step that moves no task in or out of life and no Stop in or out of its
\* success is no step of the abstract session.
LEMMA SessionStutter ==
  ASSUME \A t \in Tasks : Live(t)' = Live(t),
         \A t \in Tasks : (loop[t] # "none")' = (loop[t] # "none"),
         \A c \in Commands : (pc[c] \in Succeeded)' = (pc[c] \in Succeeded)
  PROVE  UNCHANGED TS!vars
BY DEF TS!vars

LEMMA SessionStep == IInv /\ IInv' /\ [Next]_vars => [TS!Next]_(TS!vars)
<1> SUFFICES ASSUME IInv, IInv', [Next]_vars PROVE [TS!Next]_(TS!vars)
  OBVIOUS
<1> DEFINE open == {t \in Tasks : Live(t)}
           used == {t \in Tasks : loop[t] # "none"}
           acked == {c \in Commands : pc[c] \in Succeeded}
<1>1. ASSUME NEW c \in Commands, StartSpawn(c)
      PROVE  \E s \in Tasks : TS!Open(s)
  <2>1. PICK s \in Tasks : s = mine[c] /\ loop[s] = "none" /\ s = starts
    BY <1>1 DEF IInv, StartInv, StartSpawn, Goto
  <2>2. open = {}
    BY <2>1 DEF IInv, RunInv, Live
  <2>3. acked = {} /\ acked' = {}
    BY <1>1, OneHolder, CommandsAssumption
    DEF IInv, TypeOK, StartSpawn, Goto, Held, StartHeld, StopHeld, Succeeded
  <2>4. open' = {s} /\ used' = used \cup {s}
    BY <1>1, <2>1, <2>2 DEF IInv, TypeOK, StartSpawn, Live
  <2>5. TS!Open(s)
    BY <2>1, <2>2, <2>3, <2>4 DEF TS!Open
  <2> QED
    BY <2>5
<1>2. ASSUME NEW t \in Tasks, CleanupClear(t) \/ LoopDroppedUnpolled(t)
      PROVE  TS!Close(t)
  <2>1. t \in open /\ open' = open \ {t} /\ used' = used
    BY <1>2 DEF IInv, TypeOK, CleanupClear, LoopDroppedUnpolled, LoopGoto, Live
  <2>2. acked' = acked
    BY <1>2 DEF CleanupClear, LoopDroppedUnpolled, TaskFrame, cmdVars
  <2> QED
    BY <2>1, <2>2 DEF TS!Close
<1>3. ASSUME NEW c \in Commands,
             StopRelease(c) \/ (StopTake(c) /\ slot = NoTask)
      PROVE  TS!Acknowledge(c)
  <2>1. open = {} /\ UNCHANGED <<open, used>>
    BY <1>3, NothingLeft
    DEF IInv, StopInv, StopRelease, StopTake, Goto, loopVars, Live
  <2>2. acked = {}
    BY <1>3, OneHolder, CommandsAssumption
    DEF IInv, StopRelease, StopTake, Goto, Held, StartHeld, StopHeld, Succeeded
  <2>3. acked' = {c}
    BY <1>3, <2>2 DEF IInv, TypeOK, StopRelease, StopTake, Goto, Succeeded
  <2> QED
    BY <2>1, <2>2, <2>3 DEF TS!Acknowledge
<1>4. ASSUME NEW c \in Commands, StopReturn(c) PROVE TS!Return(c)
  <2>1. c \in acked /\ acked' = acked \ {c}
    BY <1>4 DEF IInv, TypeOK, StopReturn, Goto, Succeeded
  <2>2. UNCHANGED <<open, used>>
    BY <1>4 DEF StopReturn, loopVars, Live
  <2> QED
    BY <2>1, <2>2 DEF TS!Return
<1>5. ASSUME NEW c \in Commands, Invoke(c) \/ Command(c), ~StartSpawn(c),
             ~StopRelease(c), ~(StopTake(c) /\ slot = NoTask), ~StopReturn(c)
      PROVE  UNCHANGED TS!vars
  <2>1. UNCHANGED loop
    BY <1>5
    DEF Invoke, Command, InvokeStart, InvokeStop, InvokeUpdate, UpdateCheck,
        Finish, Start, StartAcquire, StartRefuse, StartClaim, StartSignal,
        StartShowOverlay, StartMonitor, Stop, StopAcquire, StopSignal,
        StopClear, StopTake, StopObserveDone, StopAbort, StopFail, StopHide,
        loopVars
  <2>2. \A d \in Commands : (pc[d] \in Succeeded)' = (pc[d] \in Succeeded)
    BY <1>5
    DEF IInv, TypeOK, Goto, Succeeded, Invoke, Command, InvokeStart, InvokeStop,
        InvokeUpdate, UpdateCheck, Finish, Start, StartAcquire, StartRefuse,
        StartClaim, StartSignal, StartShowOverlay, StartMonitor, Stop,
        StopAcquire, StopSignal, StopClear, StopTake, StopObserveDone,
        StopAbort, StopFail, StopHide
  <2> QED
    BY <2>1, <2>2, SessionStutter DEF Live
<1>6. ASSUME NEW t \in Tasks, Task(t) \/ MonitorDone(t), ~CleanupClear(t),
             ~LoopDroppedUnpolled(t)
      PROVE  UNCHANGED TS!vars
  <2>1. \A u \in Tasks : /\ (loop[u] # "none")' = (loop[u] # "none")
                         /\ Live(u)' = Live(u)
    BY <1>6
    DEF IInv, TypeOK, Live, LoopGoto, Task, Cleanup, LoopFirstPoll, LoopOpen,
        LoopGiveUp, LoopTop, LoopCapture, LoopResume, LoopLeave, LoopDropped,
        CleanupClose, MonitorDone
  <2>2. UNCHANGED pc
    BY <1>6
    DEF TaskFrame, cmdVars, Task, Cleanup, LoopFirstPoll, LoopOpen, LoopGiveUp,
        LoopTop, LoopCapture, LoopResume, LoopLeave, LoopDropped, CleanupClose,
        MonitorDone
  <2> QED
    BY <2>1, <2>2, SessionStutter
<1>7. CASE UNCHANGED vars
  BY <1>7, SessionStutter DEF vars, Live
<1>8. CASE \E c \in Commands : Invoke(c) \/ Command(c)
  <2> PICK c \in Commands : Invoke(c) \/ Command(c)
    BY <1>8
  <2>1. CASE StartSpawn(c)
    BY <1>1, <2>1 DEF TS!Next
  <2>2. CASE StopRelease(c) \/ (StopTake(c) /\ slot = NoTask) \/ StopReturn(c)
    BY <1>3, <1>4, <2>2 DEF TS!Next
  <2> QED
    BY <1>5, <2>1, <2>2
<1>9. CASE \E t \in Tasks : Task(t) \/ MonitorDone(t)
  BY <1>2, <1>6, <1>9 DEF TS!Next
<1> QED
  BY <1>7, <1>8, <1>9 DEF Next

\* Start, Stop and the capture task together implement the abstract session.
THEOREM Implementation == Spec => ImplementsSession
BY SessionInit, SessionStep, Invariance, PTL DEF Spec, TS!Spec, ImplementsSession

-----------------------------------------------------------------------------
(* A runtime that polls what it spawns                                     *)

\* Somebody who will clear is_running is always there: a Start on its way to
\* the spawn, or the live task.  An aborted task was polled before.
ClearInv ==
  /\ isRunning => \/ /\ control \in Commands
                     /\ pc[control] \in {"start_signal", "start_show", "start_spawn"}
                  \/ starts \in Tasks /\ Live(starts)
  /\ \A t \in Tasks : aborted[t] => loop[t] \notin {"none", "spawned"}
  /\ slot # NoTask => loop[slot] # "none"
  /\ \A c \in Commands : pc[c] = "start_monitor" => loop[mine[c]] # "none"

LEMMA ClearInit == Init => ClearInv
BY StartsAssumption DEF Init, ClearInv, Tasks, NoTask

LEMMA ClearStep ==
  ASSUME ~SpawnMayStarve, IInv, ClearInv, [Next]_vars
  PROVE  ClearInv'
<1> USE StartsAssumption
        DEF ClearInv, IInv, TypeOK, Tasks, NoTask, Live, Goto, LoopGoto,
            LockInv, Held, StartHeld, StopHeld
<1>1. ASSUME NEW c \in Commands, InvokeStart(c) PROVE ClearInv'
  BY <1>1 DEF InvokeStart, loopVars
<1>2. ASSUME NEW c \in Commands, StartAcquire(c) PROVE ClearInv'
  BY <1>2, CommandsAssumption DEF StartAcquire, Acquire, loopVars
<1>3. ASSUME NEW c \in Commands, StartRefuse(c) PROVE ClearInv'
  BY <1>3 DEF StartRefuse, loopVars
<1>4. ASSUME NEW c \in Commands, StartClaim(c) PROVE ClearInv'
  BY <1>4 DEF StartClaim, loopVars
<1>5. ASSUME NEW c \in Commands, StartSignal(c) PROVE ClearInv'
  BY <1>5 DEF StartSignal, loopVars
<1>6. ASSUME NEW c \in Commands, StartShowOverlay(c) PROVE ClearInv'
  BY <1>6 DEF StartShowOverlay, loopVars
<1>7. ASSUME NEW c \in Commands, StartSpawn(c) PROVE ClearInv'
  BY <1>7 DEF StartSpawn, StartInv
<1>8. ASSUME NEW c \in Commands, StartMonitor(c) PROVE ClearInv'
  BY <1>8 DEF StartMonitor
<1>9. ASSUME NEW c \in Commands, InvokeStop(c) PROVE ClearInv'
  BY <1>9 DEF InvokeStop, loopVars
<1>10. ASSUME NEW c \in Commands, InvokeUpdate(c) PROVE ClearInv'
  BY <1>10 DEF InvokeUpdate, loopVars
<1>11. ASSUME NEW c \in Commands, UpdateCheck(c) PROVE ClearInv'
  BY <1>11 DEF UpdateCheck, loopVars
<1>12. ASSUME NEW c \in Commands, StopAcquire(c) PROVE ClearInv'
  BY <1>12, CommandsAssumption DEF StopAcquire, Acquire, loopVars
<1>13. ASSUME NEW c \in Commands, StopSignal(c) PROVE ClearInv'
  BY <1>13 DEF StopSignal
<1>14. ASSUME NEW c \in Commands, StopClear(c) PROVE ClearInv'
  BY <1>14 DEF StopClear, loopVars
<1>15. ASSUME NEW c \in Commands, StopTake(c) PROVE ClearInv'
  BY <1>15 DEF StopTake, loopVars
<1>16. ASSUME NEW c \in Commands, StopObserveDone(c) PROVE ClearInv'
  BY <1>16 DEF StopObserveDone, loopVars
<1>17. ASSUME NEW c \in Commands, StopAbort(c) PROVE ClearInv'
  BY <1>17 DEF StopAbort, StopInv
<1>18. ASSUME NEW c \in Commands, StopFail(c) PROVE ClearInv'
  BY <1>18 DEF StopFail, loopVars
<1>19. ASSUME NEW c \in Commands, StopRelease(c) PROVE ClearInv'
  BY <1>19 DEF StopRelease, loopVars
<1>20. ASSUME NEW c \in Commands, StopHide(c) PROVE ClearInv'
  BY <1>20 DEF StopHide, loopVars
<1>21. ASSUME NEW c \in Commands, StopReturn(c) PROVE ClearInv'
  BY <1>21 DEF StopReturn, loopVars
<1>22. ASSUME NEW c \in Commands, Finish(c) PROVE ClearInv'
  BY <1>22 DEF Finish, loopVars
<1>23. ASSUME NEW t \in Tasks, LoopFirstPoll(t) PROVE ClearInv'
  BY <1>23 DEF LoopFirstPoll, TaskFrame, cmdVars
<1>24. ASSUME NEW t \in Tasks, LoopOpen(t) PROVE ClearInv'
  BY <1>24 DEF LoopOpen, TaskFrame, cmdVars
<1>25. ASSUME NEW t \in Tasks, LoopGiveUp(t) PROVE ClearInv'
  BY <1>25 DEF LoopGiveUp, TaskFrame, cmdVars
<1>26. ASSUME NEW t \in Tasks, LoopTop(t) PROVE ClearInv'
  BY <1>26 DEF LoopTop, TaskFrame, cmdVars
<1>27. ASSUME NEW t \in Tasks, LoopCapture(t) PROVE ClearInv'
  BY <1>27 DEF LoopCapture, TaskFrame, cmdVars
<1>28. ASSUME NEW t \in Tasks, LoopResume(t) PROVE ClearInv'
  BY <1>28 DEF LoopResume, TaskFrame, cmdVars
<1>29. ASSUME NEW t \in Tasks, LoopLeave(t) PROVE ClearInv'
  BY <1>29 DEF LoopLeave, TaskFrame, cmdVars
<1>30. ASSUME NEW t \in Tasks, LoopDropped(t) PROVE ClearInv'
  BY <1>30 DEF LoopDropped, TaskFrame, cmdVars
<1>31. ASSUME NEW t \in Tasks, LoopDroppedUnpolled(t) PROVE ClearInv'
  BY <1>31 DEF LoopDroppedUnpolled
<1>32. ASSUME NEW t \in Tasks, CleanupClose(t) PROVE ClearInv'
  BY <1>32 DEF CleanupClose, TaskFrame, cmdVars
<1>33. ASSUME NEW t \in Tasks, CleanupClear(t) PROVE ClearInv'
  BY <1>33 DEF CleanupClear, TaskFrame, cmdVars
<1>34. ASSUME NEW t \in Tasks, MonitorDone(t) PROVE ClearInv'
  BY <1>34 DEF MonitorDone, TaskFrame, cmdVars
<1>35. CASE UNCHANGED vars
  BY <1>35 DEF vars
<1> QED
  BY <1>1, <1>2, <1>3, <1>4, <1>5, <1>6, <1>7, <1>8, <1>9, <1>10, <1>11,
     <1>12, <1>13, <1>14, <1>15, <1>16, <1>17, <1>18, <1>19, <1>20, <1>21, <1>22,
     <1>23, <1>24, <1>25, <1>26, <1>27, <1>28, <1>29, <1>30, <1>31, <1>32, <1>33,
     <1>34, <1>35
  DEF Next, Invoke, Command, Start, Stop, Task, Cleanup

\* If every spawned task is polled within the second that Stop waits, a Stop
\* that succeeds leaves is_running down: the next Start is accepted.
THEOREM StopFreesStart ==
  ASSUME ~SpawnMayStarve
  PROVE  Spec => []StopLeavesStopped
<1>1. IInv /\ ClearInv => StopLeavesStopped
  <2> SUFFICES ASSUME IInv, ClearInv, NEW c \in Commands, pc[c] \in Succeeded
               PROVE  ~isRunning
    BY DEF StopLeavesStopped
  <2>1. \A t \in Tasks : ~Live(t)
    BY DEF IInv, StopInv
  <2>2. \A d \in Commands : pc[d] \notin {"start_signal", "start_show", "start_spawn"}
    BY OneHolder, CommandsAssumption
    DEF IInv, Held, StartHeld, StopHeld, Succeeded
  <2> QED
    BY <2>1, <2>2 DEF ClearInv
<1>2. IInv /\ ClearInv /\ [Next]_vars => ClearInv'
  BY ClearStep
<1> QED
  BY <1>1, <1>2, ClearInit, Invariance, PTL DEF Spec
=============================================================================
