--------------------- MODULE TranslationPipelineProofs ----------------------
(***************************************************************************)
(* What holds of every instance of TranslationPipeline: any lines, any     *)
(* number of sessions, captures and moves, and any faults.                 *)
(***************************************************************************)
EXTENDS TranslationPipeline, TLAPS

Starting == {"begin_translation", "begin_session"}
Stopping == {"inv_capture", "inv_translation", "tell", "wait"}
Framed == {"capture", "ocr", "decide", "spawn"}  \* the loop holds a token

\* A Start has room for its session and its Stop, and runs when no loop does;
\* a Stop holds an id newer than the session it ends.
ControlInv ==
  /\ ls <= session
  /\ ctl \in Starting => session + 1 < MaxSessionId /\ lpc = "off"
  /\ ctl \in Stopping => stopId = session /\ ls < stopId
  /\ setter # "idle" => moves < MaxMoves

\* Who was told to stop is no longer current; only a told loop leaves.
ToldInv ==
  /\ \A s \in told : s < session
  /\ lpc = "leave" => ls \in told

\* Only sessions that began have tasks.
TaskInv == \A s \in SessionIds : task[s].pc # "none" => 1 <= s /\ s <= ls

\* The overlay never saw a session beyond the current one, nor the id that a
\* Stop in progress drew; after a Stop it is blank and past the old session.
OverlayInv ==
  /\ last[1] <= session
  /\ ctl \in Stopping => last[1] < stopId
  /\ ctl \notin Stopping /\ session > ls =>
       lpc = "off" /\ (ls # 0 => last[1] > ls /\ shown = Blank)

\* In the current session, positions grow: those emitted and those in flight
\* are behind the counter, and behind the token once the loop has drawn it.
OrderInv ==
  (lpc # "off" /\ session = ls) =>
    /\ last[1] = ls => last[2] <= capture
    /\ task[ls].pc # "none" => task[ls].capture <= capture
    /\ lpc \in Framed =>
         /\ token <= capture
         /\ ShouldAccept(ls, token)
         /\ task[ls].pc # "none" => task[ls].capture < token

\* A loop that ended by itself never spawned a task; only lines are spawned.
FreshInv ==
  /\ lpc = "spawn" => read \in Lines
  /\ lpc # "off" => ls >= 1
  /\ lpc \in Framed => seen # NoRect
  /\ (lpc # "off" /\ seen = NoRect) => task[ls].pc = "none"
  /\ (lpc = "off" /\ session = ls) => task[ls].pc = "none"

\* The current session's claim is outdated by every move completed since.
ClaimInv ==
  \A s \in SessionIds :
    (task[s].pc \in {"running", "answered"} /\ session = s) =>
      /\ task[s].id <= translation
      /\ task[s].id = translation => task[s].moves = moves

IInv == /\ TypeOK /\ ControlInv /\ ToldInv /\ TaskInv /\ OverlayInv /\ OrderInv
        /\ FreshInv /\ ClaimInv /\ NoTranslationOutrun

-----------------------------------------------------------------------------
(* Type correctness                                                        *)

LEMMA TypeInit == Init => TypeOK
BY PipelineAssumption
   DEF Init, TypeOK, SessionIds, Places, NoRect, Reads, Tasks, NoTask, Blank

LEMMA Bounds ==
  /\ EmptyClearFrames \in Nat /\ MaxSessionId \in Nat
  /\ MaxCaptures \in Nat /\ MaxMoves \in Nat
BY PipelineAssumption

\* An event leaves the overlay with a position and a text.
LEMMA EmitTyped ==
  ASSUME TypeOK, NEW s \in SessionIds, NEW c \in Nat, NEW state,
         NEW line \in Lines \cup {Blank}, Emit(s, c, state, line)
  PROVE  last' \in SessionIds \X Nat /\ shown' \in Lines \cup {Blank}
<1>1. last \in SessionIds \X Nat /\ shown \in Lines \cup {Blank}
  BY DEF TypeOK
<1>2. Text(state, line) \in Lines \cup {Blank}
  BY <1>1 DEF Text
<1> QED
  BY <1>1, <1>2 DEF Emit

\* A task that is there has a record, and keeps it through a change of stage.
LEMMA RecordOf ==
  ASSUME NEW t \in Tasks, t.pc # "none"
  PROVE  t \in TaskRecords
BY DEF Tasks, NoTask

LEMMA ClaimTyped ==
  ASSUME NEW t \in TaskRecords, NEW n \in Nat, NEW m \in Places
  PROVE  [t EXCEPT !.pc = "running", !.id = n, !.moves = m] \in TaskRecords
BY DEF TaskRecords, Stages

LEMMA AnswerTyped ==
  ASSUME NEW t \in TaskRecords, NEW b \in {"engine", "mock"}
  PROVE  [t EXCEPT !.pc = "answered", !.backend = b] \in TaskRecords
BY DEF TaskRecords, Stages

LEMMA GotoTyped ==
  ASSUME task \in [SessionIds -> Tasks], NEW s \in SessionIds, NEW from, NEW to,
         from # "none", to \in Stages, TaskGoto(s, from, to)
  PROVE  task' \in [SessionIds -> Tasks]
<1>1. task[s] \in TaskRecords
  BY RecordOf DEF TaskGoto
<1>2. [task[s] EXCEPT !.pc = to] \in TaskRecords
  BY <1>1 DEF TaskRecords
<1> QED
  BY <1>2 DEF TaskGoto, Tasks

LEMMA TypeStep == TypeOK /\ ControlInv /\ FreshInv /\ [Next]_vars => TypeOK'
<1> SUFFICES ASSUME TypeOK, ControlInv, FreshInv, [Next]_vars PROVE TypeOK'
  OBVIOUS
<1> USE Bounds
        DEF TypeOK, ControlInv, Starting, SessionIds, Places,
            ControlGoto, SetterGoto, LoopGoto, LoopFrame, TaskFrame, TaskGoto,
            Emit, Text, clockVars, ctlVars, regionVars, loopVars, displayVars
<1>1. CASE StartCapture
  BY <1>1 DEF StartCapture
<1>2. CASE StartTranslation
  BY <1>2 DEF StartTranslation
<1>3. CASE StartSession
  BY <1>3 DEF StartSession
<1>4. CASE StopSession
  BY <1>4 DEF StopSession
<1>5. CASE StopCapture
  BY <1>5 DEF StopCapture
<1>6. CASE StopTranslation
  BY <1>6 DEF StopTranslation
<1>7. CASE StopTell
  BY <1>7 DEF StopTell
<1>8. CASE StopReturn
  <2>1. last' \in SessionIds \X Nat /\ shown' \in Lines \cup {Blank}
    BY <1>8, EmitTyped DEF StopReturn
  <2> QED
    BY <1>8, <2>1 DEF StopReturn
<1>9. CASE SetRegion
  BY <1>9 DEF SetRegion
<1>10. CASE SetScale
  BY <1>10 DEF SetScale
<1>11. CASE InvalidateCapture
  BY <1>11 DEF InvalidateCapture
<1>12. CASE InvalidateTranslation
  BY <1>12 DEF InvalidateTranslation
<1>13. CASE LoopRegion
  BY <1>13 DEF LoopRegion
<1>14. CASE LoopScale
  BY <1>14 DEF LoopScale
<1>15. CASE LoopToken
  <2>1. mock' \in [SessionIds -> BOOLEAN]
    BY <1>15 DEF LoopToken
  <2> QED
    BY <1>15, <2>1 DEF LoopToken
<1>16. CASE LoopCapture
  BY <1>16 DEF LoopCapture
<1>17. CASE LoopOcr
  BY <1>17 DEF LoopOcr
<1>18. CASE LoopQuiet
  <2>1. last' \in SessionIds \X Nat /\ shown' \in Lines \cup {Blank}
    BY <1>18, EmitTyped DEF LoopQuiet
  <2>2. showing' \in {"none", "empty", "held", "junk"}
    BY <1>18 DEF LoopQuiet
  <2>3. recent' \subseteq Lines /\ said' \subseteq Lines
    BY <1>18 DEF LoopQuiet
  <2>4. empties' \in 0..EmptyClearFrames
    <3>1. empties \in 0..EmptyClearFrames
      BY DEF TypeOK
    <3>2. empties' = IF empties < EmptyClearFrames THEN empties + 1 ELSE empties
      BY <1>18 DEF LoopQuiet
    <3> QED
      BY ONLY <3>1, <3>2, Bounds
  <2> HIDE DEF Emit
  <2> QED
    BY <1>18, <2>1, <2>2, <2>3, <2>4 DEF LoopQuiet
<1>19. CASE LoopUnreadable
  <2>1. last' \in SessionIds \X Nat /\ shown' \in Lines \cup {Blank}
    BY <1>19, EmitTyped DEF LoopUnreadable
  <2> HIDE DEF Emit
  <2> QED
    BY <1>19, <2>1 DEF LoopUnreadable
<1>20. CASE LoopLine
  BY <1>20 DEF LoopLine, Kept
<1>21. CASE LoopSpawn
  <2>1. read \in Lines
    BY <1>21 DEF LoopSpawn, FreshInv
  <2>2. task' \in [SessionIds -> Tasks]
    BY SMTT(40), <1>21, <2>1 DEF LoopSpawn, Tasks, TaskRecords, Stages
  <2> QED
    BY <1>21, <2>1, <2>2 DEF LoopSpawn
<1>22. CASE LoopLeave
  <2>1. last' \in SessionIds \X Nat /\ shown' \in Lines \cup {Blank}
    <3>1. capture + 1 \in Nat
      BY DEF TypeOK
    <3> QED
      BY <1>22, <3>1, EmitTyped DEF LoopLeave
  <2> HIDE DEF Emit
  <2> QED
    BY <1>22, <2>1 DEF LoopLeave
<1>23. CASE LoopGiveUp
  BY <1>23 DEF LoopGiveUp
<1>24. ASSUME NEW s \in SessionIds, Claim(s) PROVE TypeOK'
  <2>1. task[s] \in TaskRecords
    BY <1>24, RecordOf DEF Claim
  <2>2. translation + 1 \in Nat /\ moves \in Places
    BY DEF TypeOK
  <2>3. [task[s] EXCEPT !.pc = "running", !.id = translation + 1, !.moves = moves] \in TaskRecords
    BY <2>1, <2>2, ClaimTyped
  <2>4. task' \in [SessionIds -> Tasks]
    BY <1>24, <2>3 DEF Claim, Tasks
  <2>5. UNCHANGED <<session, capture, ctl, stopId, told, region, scale, moves, setter,
                    lpc, ls, rect, seen, token, read, recent, showing, empties,
                    mock, last, shown, said>> /\ translation' \in Nat
    BY <1>24, <2>2 DEF Claim
  <2> QED
    BY <2>4, <2>5
<1>25. ASSUME NEW s \in SessionIds, Cancel(s) PROVE TypeOK'
  <2>1. task' \in [SessionIds -> Tasks]
    BY <1>25, GotoTyped DEF Cancel, Stages
  <2> HIDE DEF TaskGoto
  <2> QED
    BY <1>25, <2>1 DEF Cancel
<1>26. ASSUME NEW s \in SessionIds, Answer(s) PROVE TypeOK'
  <2>1. task[s] \in TaskRecords
    BY <1>26, RecordOf DEF Answer
  <2>2. PICK b \in {"engine", "mock"} :
          task' = [task EXCEPT ![s].pc = "answered", ![s].backend = b]
    BY <1>26 DEF Answer
  <2>3. [task[s] EXCEPT !.pc = "answered", !.backend = b] \in TaskRecords
    BY <2>1, AnswerTyped
  <2>4. task' \in [SessionIds -> Tasks]
    BY <2>2, <2>3 DEF Tasks
  <2>5. UNCHANGED <<session, capture, ctl, stopId, told, region, scale, moves, setter,
                    lpc, ls, rect, seen, token, read, recent, showing, empties,
                    mock, last, shown, said>> /\ translation' \in Nat
    BY <1>26 DEF Answer
  <2> QED
    BY <2>4, <2>5
<1>27. ASSUME NEW s \in SessionIds, Miss(s) PROVE TypeOK'
  <2>1. task' \in [SessionIds -> Tasks]
    BY <1>27, GotoTyped DEF Miss, Stages
  <2> HIDE DEF TaskGoto
  <2> QED
    BY <1>27, <2>1 DEF Miss
<1>28. ASSUME NEW s \in SessionIds, Abandon(s) PROVE TypeOK'
  <2>1. task' \in [SessionIds -> Tasks]
    BY <1>28, GotoTyped DEF Abandon, Stages
  <2>2. task[s] \in TaskRecords
    BY <1>28, RecordOf DEF Abandon
  <2>4. task[s].capture \in Nat /\ task[s].line \in Lines
    BY <2>2 DEF TaskRecords
  <2>3. last' \in SessionIds \X Nat /\ shown' \in Lines \cup {Blank}
    BY <1>28, <2>4, EmitTyped DEF Abandon
  <2> HIDE DEF TaskGoto, Emit
  <2> QED
    BY <1>28, <2>1, <2>4, <2>3 DEF Abandon
<1>29. ASSUME NEW s \in SessionIds, Check(s) PROVE TypeOK'
  <2>1. task' \in [SessionIds -> Tasks]
    BY <1>29, GotoTyped DEF Check, Stages
  <2> HIDE DEF TaskGoto
  <2> QED
    BY <1>29, <2>1 DEF Check
<1>30. ASSUME NEW s \in SessionIds, Remember(s) PROVE TypeOK'
  <2>1. task' \in [SessionIds -> Tasks]
    BY <1>30, GotoTyped DEF Remember, Stages
  <2> HIDE DEF TaskGoto
  <2> QED
    BY <1>30, <2>1 DEF Remember
<1>31. ASSUME NEW s \in SessionIds, Publish(s) PROVE TypeOK'
  <2>1. task' \in [SessionIds -> Tasks]
    BY <1>31, GotoTyped DEF Publish, Stages
  <2>2. task[s] \in TaskRecords
    BY <1>31, RecordOf DEF Publish
  <2>4. task[s].capture \in Nat /\ task[s].line \in Lines
    BY <2>2 DEF TaskRecords
  <2>3. last' \in SessionIds \X Nat /\ shown' \in Lines \cup {Blank}
    BY <1>31, <2>4, EmitTyped DEF Publish
  <2> HIDE DEF TaskGoto, Emit
  <2> QED
    BY <1>31, <2>1, <2>4, <2>3 DEF Publish
<1>32. ASSUME NEW s \in SessionIds, TaskPanic(s) PROVE TypeOK'
  <2>1. task' \in [SessionIds -> Tasks]
    BY <1>32, GotoTyped DEF TaskPanic, Stages
  <2> HIDE DEF TaskGoto
  <2> QED
    BY <1>32, <2>1 DEF TaskPanic
<1>33. ASSUME NEW s \in SessionIds, Release(s) PROVE TypeOK'
  <2>1. task' \in [SessionIds -> Tasks]
    BY <1>33 DEF Release, Tasks
  <2> QED
    BY <1>33, <2>1 DEF Release
<1>34. CASE UNCHANGED vars
  BY <1>34 DEF vars
<1> QED
  BY <1>1, <1>2, <1>3, <1>4, <1>5, <1>6, <1>7, <1>8, <1>9, <1>10, <1>11,
     <1>12, <1>13, <1>14, <1>15, <1>16, <1>17, <1>18, <1>19, <1>20, <1>21, <1>22,
     <1>23, <1>24, <1>25, <1>26, <1>27, <1>28, <1>29, <1>30, <1>31, <1>32, <1>33,
     <1>34
     DEF Next, Control, MoveRegion, Loop, TaskStep, Exhausted

-----------------------------------------------------------------------------
(* The inductive invariant                                                 *)

\* Which part of the state a step of each kind leaves alone.
LEMMA LoopKeeps ==
  Loop => UNCHANGED <<session, translation, ctl, stopId, told, region, scale,
                      moves, setter, ls>>
BY DEF Loop, LoopRegion, LoopScale, LoopToken, LoopCapture, LoopOcr, LoopQuiet,
       LoopUnreadable, LoopLine, LoopSpawn, LoopLeave, LoopGiveUp, LoopFrame

LEMMA MoveKeeps ==
  MoveRegion => UNCHANGED <<session, ctl, stopId, told, lpc, ls, rect, seen, token,
                            read, recent, showing, empties, mock, task, last, shown,
                            said>>
BY DEF MoveRegion, SetRegion, SetScale, InvalidateCapture, InvalidateTranslation,
       clockVars, ctlVars, loopVars, displayVars

TaskMoves(s) == TaskStep(s) \/ Answer(s) \/ TaskPanic(s)

LEMMA TaskKeeps ==
  ASSUME NEW s \in SessionIds, TaskMoves(s)
  PROVE  UNCHANGED <<session, capture, ctl, stopId, told, region, scale, moves,
                     setter, lpc, ls, rect, seen, token, read, recent, showing,
                     empties>>
BY DEF TaskMoves, TaskStep, Claim, Cancel, Answer, Miss, Abandon, Check, Remember,
       Publish, TaskPanic, Release, TaskFrame, ctlVars, regionVars, loopVars

\* A task is born of the loop alone, and keeps its frame.
LEMMA TaskStays ==
  ASSUME TypeOK, NEW s \in SessionIds, TaskMoves(s)
  PROVE  /\ task[s].pc # "none"
         /\ \A r \in SessionIds \ {s} : task'[r] = task[r]
         /\ task'[s].pc # "none" => task'[s].capture = task[s].capture
<1>1. task \in [SessionIds -> Tasks]
  BY DEF TypeOK
<1>2. task[s].pc # "none"
  BY DEF TaskMoves, TaskStep, Claim, Cancel, Answer, Miss, Abandon, Check, Remember,
         Publish, TaskPanic, Release, TaskGoto
<1>3. task[s] \in TaskRecords
  BY <1>1, <1>2, RecordOf
<1> USE <1>1, <1>2, <1>3 DEF NoTask, TaskRecords, TaskGoto
<1>4. CASE Claim(s)
  BY <1>4 DEF Claim
<1>5. CASE Answer(s)
  BY <1>5 DEF Answer
<1>6. CASE Release(s)
  BY <1>6 DEF Release
<1>7. ASSUME NEW from, NEW to, TaskGoto(s, from, to)
      PROVE  /\ \A r \in SessionIds \ {s} : task'[r] = task[r]
             /\ task'[s].pc # "none" => task'[s].capture = task[s].capture
  BY <1>7
<1> QED
  BY <1>4, <1>5, <1>6, <1>7
     DEF TaskMoves, TaskStep, Cancel, Miss, Abandon, Check, Remember, Publish, TaskPanic

LEMMA ControlStep ==
  TypeOK /\ ControlInv /\ [Next]_vars => ControlInv'
<1> SUFFICES ASSUME TypeOK, ControlInv, [Next]_vars PROVE ControlInv'
  OBVIOUS
<1> USE Bounds DEF ControlInv, Starting, Stopping, TypeOK, SessionIds, Places
<1>1. CASE Control
  <2> USE DEF ControlGoto, clockVars, regionVars, loopVars
  <2>1. CASE StartCapture
    BY <2>1 DEF StartCapture
  <2>2. CASE StartTranslation
    BY <2>2 DEF StartTranslation
  <2>3. CASE StartSession
    BY <2>3 DEF StartSession
  <2>4. CASE StopSession
    BY <2>4 DEF StopSession
  <2>5. CASE StopCapture
    BY <2>5 DEF StopCapture
  <2>6. CASE StopTranslation
    BY <2>6 DEF StopTranslation
  <2>7. CASE StopTell
    BY <2>7 DEF StopTell
  <2>8. CASE StopReturn
    BY <2>8 DEF StopReturn
  <2> QED
    BY <1>1, <2>1, <2>2, <2>3, <2>4, <2>5, <2>6, <2>7, <2>8 DEF Control
<1>2. CASE MoveRegion
  BY <1>2, MoveKeeps DEF MoveRegion, SetRegion, SetScale, InvalidateCapture,
              InvalidateTranslation, SetterGoto
<1>3. CASE Loop
  <2>1. lpc # "off"
    BY <1>3 DEF Loop, LoopRegion, LoopScale, LoopToken, LoopCapture, LoopOcr,
              LoopQuiet, LoopUnreadable, LoopLine, LoopSpawn, LoopLeave, LoopGiveUp,
              LoopGoto
  <2> QED
    BY <1>3, <2>1, LoopKeeps
<1>4. ASSUME NEW s \in SessionIds, TaskMoves(s) PROVE ControlInv'
  BY <1>4, TaskKeeps
<1>5. CASE UNCHANGED vars
  BY <1>5 DEF vars
<1> QED
  BY <1>1, <1>2, <1>3, <1>4, <1>5 DEF Next, TaskMoves, Exhausted

LEMMA ToldStep ==
  TypeOK /\ ControlInv /\ ToldInv /\ [Next]_vars => ToldInv'
<1> SUFFICES ASSUME TypeOK, ControlInv, ToldInv, [Next]_vars PROVE ToldInv'
  OBVIOUS
<1> USE Bounds DEF ControlInv, Stopping, ToldInv, TypeOK, SessionIds
<1>1. CASE Control
  <2> USE DEF ControlGoto, clockVars, regionVars, loopVars
  <2>1. CASE StartCapture
    BY <2>1 DEF StartCapture
  <2>2. CASE StartTranslation
    BY <2>2 DEF StartTranslation
  <2>3. CASE StartSession
    BY <2>3 DEF StartSession
  <2>4. CASE StopSession
    BY <2>4 DEF StopSession
  <2>5. CASE StopCapture
    BY <2>5 DEF StopCapture
  <2>6. CASE StopTranslation
    BY <2>6 DEF StopTranslation
  <2>7. CASE StopTell
    BY <2>7 DEF StopTell
  <2>8. CASE StopReturn
    BY <2>8 DEF StopReturn
  <2> QED
    BY <1>1, <2>1, <2>2, <2>3, <2>4, <2>5, <2>6, <2>7, <2>8 DEF Control
<1>2. CASE MoveRegion
  BY <1>2, MoveKeeps
<1>3. CASE Loop
  <2>1. lpc' = "leave" => ls \in told
    BY <1>3 DEF Loop, LoopRegion, LoopScale, LoopToken, LoopCapture, LoopOcr,
              LoopQuiet, LoopUnreadable, LoopLine, LoopSpawn, LoopLeave, LoopGiveUp,
              LoopGoto, Told
  <2> QED
    BY <1>3, <2>1, LoopKeeps
<1>4. ASSUME NEW s \in SessionIds, TaskMoves(s) PROVE ToldInv'
  <2>1. UNCHANGED <<session, told, lpc, ls>>
    BY <1>4, TaskKeeps
  <2> QED
    BY <2>1
<1>5. CASE UNCHANGED vars
  BY <1>5 DEF vars
<1> QED
  BY <1>1, <1>2, <1>3, <1>4, <1>5 DEF Next, TaskMoves, Exhausted

LEMMA TaskInvStep ==
  TypeOK /\ ControlInv /\ FreshInv /\ TaskInv /\ [Next]_vars => TaskInv'
<1> SUFFICES ASSUME TypeOK, ControlInv, FreshInv, TaskInv, [Next]_vars PROVE TaskInv'
  OBVIOUS
<1> USE Bounds DEF ControlInv, TaskInv, SessionIds
<1>1. CASE Control
  BY SMTT(40), <1>1 DEF TypeOK, Control, StartCapture, StartTranslation, StartSession,
              StopSession, StopCapture, StopTranslation, StopTell, StopReturn,
              ControlGoto, clockVars, loopVars
<1>2. CASE MoveRegion
  BY <1>2, MoveKeeps
<1>3. CASE Loop
  <2>1. CASE LoopSpawn
    <3>1. \A s \in SessionIds \ {ls} : task'[s] = task[s]
      BY <2>1 DEF LoopSpawn, TypeOK
    <3> QED
      BY <2>1, <3>1, LoopKeeps, <1>3 DEF LoopSpawn, LoopGoto, FreshInv, TypeOK
  <2>2. CASE ~LoopSpawn
    <3>1. UNCHANGED task
      BY <1>3, <2>2 DEF Loop, LoopRegion, LoopScale, LoopToken, LoopCapture, LoopOcr,
              LoopQuiet, LoopUnreadable, LoopLine, LoopLeave, LoopGiveUp
    <3> QED
      BY <1>3, <3>1, LoopKeeps
  <2> QED
    BY <2>1, <2>2
<1>4. ASSUME NEW s \in SessionIds, TaskMoves(s) PROVE TaskInv'
  BY <1>4, TaskKeeps, TaskStays
<1>5. CASE UNCHANGED vars
  BY <1>5 DEF vars
<1> QED
  BY <1>1, <1>2, <1>3, <1>4, <1>5 DEF Next, TaskMoves, Exhausted

\* What the loop may emit is for its own session, at most as new as the counter.
LEMMA LoopEmits ==
  ASSUME TypeOK, Loop
  PROVE  \/ last' = last /\ shown' = shown
         \/ \E c \in {token, capture + 1} :
              ShouldAccept(ls, c) /\ last' = <<ls, c>>
BY DEF Loop, LoopRegion, LoopScale, LoopToken, LoopCapture, LoopOcr, LoopQuiet,
       LoopUnreadable, LoopLine, LoopSpawn, LoopLeave, LoopGiveUp, Emit, displayVars

\* A task emits under its own position, and is then on its way out.
LEMMA TaskEmits ==
  ASSUME TypeOK, NEW s \in SessionIds, TaskMoves(s)
  PROVE  \/ last' = last /\ shown' = shown
         \/ /\ ShouldAccept(s, task[s].capture)
            /\ last' = <<s, task[s].capture>>
            /\ task'[s].pc = "leaving"
<1>1. task \in [SessionIds -> Tasks]
  BY DEF TypeOK
<1>2. CASE Abandon(s) \/ Publish(s)
  <2>1. task'[s].pc = "leaving"
    <3>1. task[s] \in TaskRecords
      BY <1>1, <1>2, RecordOf DEF Abandon, Publish, TaskGoto
    <3> QED
      BY <1>1, <1>2, <3>1 DEF Abandon, Publish, TaskGoto, TaskRecords
  <2> QED
    BY <1>2, <2>1 DEF Abandon, Publish, Emit
<1>3. CASE ~(Abandon(s) \/ Publish(s))
  BY <1>3 DEF TaskMoves, TaskStep, Claim, Cancel, Answer, Miss, Check, Remember,
              TaskPanic, Release, displayVars
<1> QED
  BY <1>2, <1>3

LEMMA FreshStep ==
  TypeOK /\ ControlInv /\ ToldInv /\ TaskInv /\ FreshInv /\ [Next]_vars => FreshInv'
<1> SUFFICES ASSUME TypeOK, ControlInv, ToldInv, TaskInv, FreshInv, [Next]_vars
             PROVE FreshInv'
  OBVIOUS
<1> USE Bounds DEF FreshInv, Framed
<1>1. CASE Control
  <2> USE DEF ControlGoto, clockVars, loopVars, ControlInv, TaskInv, TypeOK, SessionIds
  <2>1. CASE StartCapture
    BY <2>1 DEF StartCapture
  <2>2. CASE StartTranslation
    BY <2>2 DEF StartTranslation
  <2>3. CASE StartSession
    <3>1. session + 1 \in SessionIds /\ ls < session + 1
      BY <2>3 DEF StartSession, Starting
    <3>2. task[session + 1].pc = "none"
      BY <3>1
    <3> QED
      BY <2>3, <3>1, <3>2 DEF StartSession
  <2>4. CASE StopSession
    BY <2>4 DEF StopSession
  <2>5. CASE StopCapture
    BY <2>5 DEF StopCapture
  <2>6. CASE StopTranslation
    BY <2>6 DEF StopTranslation
  <2>7. CASE StopTell
    BY <2>7 DEF StopTell
  <2>8. CASE StopReturn
    BY <2>8 DEF StopReturn
  <2> QED
    BY <1>1, <2>1, <2>2, <2>3, <2>4, <2>5, <2>6, <2>7, <2>8 DEF Control
<1>2. CASE MoveRegion
  BY <1>2, MoveKeeps
<1>3. CASE Loop
  <2> USE LoopKeeps, <1>3 DEF LoopGoto
  <2>1. CASE LoopRegion
    BY <2>1 DEF LoopRegion
  <2>2. CASE LoopScale
    BY <2>2 DEF LoopScale
  <2>3. CASE LoopToken
    BY <2>3 DEF LoopToken, TypeOK, NoRect, Places
  <2>4. CASE LoopCapture
    BY <2>4 DEF LoopCapture
  <2>5. CASE LoopOcr
    BY <2>5 DEF LoopOcr
  <2>6. CASE LoopQuiet
    BY <2>6 DEF LoopQuiet
  <2>7. CASE LoopUnreadable
    BY <2>7 DEF LoopUnreadable
  <2>8. CASE LoopLine
    BY <2>8 DEF LoopLine
  <2>9. CASE LoopSpawn
    BY <2>9 DEF LoopSpawn, TypeOK
  <2>10. CASE LoopLeave
    BY <2>10 DEF LoopLeave, ToldInv, ControlInv, TypeOK, SessionIds
  <2>11. CASE LoopGiveUp
    BY <2>11 DEF LoopGiveUp, TypeOK
  <2> QED
    BY <1>3, <2>1, <2>2, <2>3, <2>4, <2>5, <2>6, <2>7, <2>8, <2>9, <2>10, <2>11 DEF Loop
<1>4. ASSUME NEW s \in SessionIds, TaskMoves(s) PROVE FreshInv'
  <2>1. UNCHANGED <<session, lpc, ls, seen, read>>
    BY <1>4, TaskKeeps
  <2>2. ls \in SessionIds
    BY DEF TypeOK
  <2>3. task[ls].pc = "none" => task'[ls].pc = "none"
    BY <1>4, <2>2, TaskStays
  <2> QED
    BY <2>1, <2>3
<1>5. CASE UNCHANGED vars
  BY <1>5 DEF vars
<1> QED
  BY <1>1, <1>2, <1>3, <1>4, <1>5 DEF Next, TaskMoves, Exhausted

LEMMA OverlayStep ==
  TypeOK /\ ControlInv /\ TaskInv /\ OverlayInv /\ [Next]_vars => OverlayInv'
<1> SUFFICES ASSUME TypeOK, ControlInv, TaskInv, OverlayInv, [Next]_vars
             PROVE OverlayInv'
  OBVIOUS
<1> USE Bounds DEF OverlayInv, Stopping
<1>0. last \in SessionIds \X Nat
  BY DEF TypeOK
<1>1. CASE Control
  <2> USE <1>0 DEF ControlGoto, clockVars, loopVars, displayVars, ControlInv, Starting,
          TypeOK, SessionIds, Emit, ShouldAccept, Text
  <2>1. CASE StartCapture
    BY <2>1 DEF StartCapture
  <2>2. CASE StartTranslation
    BY <2>2 DEF StartTranslation
  <2>3. CASE StartSession
    BY <2>3 DEF StartSession
  <2>4. CASE StopSession
    BY <2>4 DEF StopSession
  <2>5. CASE StopCapture
    BY <2>5 DEF StopCapture
  <2>6. CASE StopTranslation
    BY <2>6 DEF StopTranslation
  <2>7. CASE StopTell
    BY <2>7 DEF StopTell
  <2>8. CASE StopReturn
    BY <2>8 DEF StopReturn
  <2> QED
    BY <1>1, <2>1, <2>2, <2>3, <2>4, <2>5, <2>6, <2>7, <2>8 DEF Control
<1>2. CASE MoveRegion
  BY <1>2, MoveKeeps
<1>3. CASE Loop
  <2>1. lpc # "off"
    BY <1>3 DEF Loop, LoopRegion, LoopScale, LoopToken, LoopCapture, LoopOcr,
              LoopQuiet, LoopUnreadable, LoopLine, LoopSpawn, LoopLeave, LoopGiveUp,
              LoopGoto
  <2>2. \/ last' = last /\ shown' = shown
        \/ last'[1] = ls
    BY <1>3, LoopEmits
  <2> QED
    BY <1>3, <2>1, <2>2, LoopKeeps DEF ControlInv
<1>4. ASSUME NEW s \in SessionIds, TaskMoves(s) PROVE OverlayInv'
  <2>1. UNCHANGED <<session, ctl, stopId, lpc, ls>>
    BY <1>4, TaskKeeps
  <2>2. s <= ls /\ ls <= session /\ (ctl \in Stopping => ls < stopId)
    BY <1>4, TaskStays DEF TaskInv, ControlInv
  <2>3. \/ last' = last /\ shown' = shown
        \/ last[1] <= s /\ last'[1] = s
    BY <1>0, <1>4, TaskEmits DEF ShouldAccept, SessionIds
  <2>4. s # 0 /\ ls # 0
    BY <1>4, <2>2, TaskStays DEF TaskInv, SessionIds, TypeOK
  <2> QED
    BY <1>0, <2>1, <2>2, <2>3, <2>4 DEF TypeOK, SessionIds
<1>5. CASE UNCHANGED vars
  BY <1>5 DEF vars
<1> QED
  BY <1>1, <1>2, <1>3, <1>4, <1>5 DEF Next, TaskMoves, Exhausted

\* What a task does to its claim: only its first poll takes one.
LEMMA TaskClaims ==
  ASSUME TypeOK, NEW s \in SessionIds, TaskMoves(s), ~Claim(s)
  PROVE  /\ translation' = translation
         /\ task'[s].pc \in {"running", "answered"} =>
              /\ task[s].pc = "running"
              /\ task'[s].id = task[s].id
              /\ task'[s].moves = task[s].moves
<1>1. task \in [SessionIds -> Tasks]
  BY DEF TypeOK
<1>2. task[s] \in TaskRecords
  BY <1>1, TaskStays, RecordOf
<1>3. translation' = translation
  BY DEF TaskMoves, TaskStep, Cancel, Answer, Miss, Abandon, Check, Remember, Publish,
         TaskPanic, Release
<1> USE <1>1, <1>2, <1>3 DEF NoTask, TaskRecords
<1>4. CASE Answer(s)
  BY <1>4 DEF Answer
<1>5. CASE Release(s)
  BY <1>5 DEF Release
<1>6. ASSUME NEW from, NEW to, to \notin {"running", "answered"}, TaskGoto(s, from, to)
      PROVE  task'[s].pc \notin {"running", "answered"}
  BY <1>6 DEF TaskGoto
<1> QED
  BY <1>4, <1>5, <1>6
     DEF TaskMoves, TaskStep, Cancel, Miss, Abandon, Check, Remember, Publish, TaskPanic

\* A task on its way out only releases the slot.
LEMMA TaskLeaves ==
  ASSUME TypeOK, NEW s \in SessionIds, TaskMoves(s), task[s].pc = "leaving"
  PROVE  task'[s].pc = "none"
BY DEF TypeOK, NoTask, TaskMoves, TaskStep, Claim, Cancel, Answer, Miss, Abandon, Check,
       Remember, Publish, TaskPanic, Release, TaskGoto

\* The session that the loop runs, or none, is the only one with a task that is
\* current.
LEMMA CurrentTask ==
  ASSUME TypeOK, ControlInv, TaskInv, NEW s \in SessionIds,
         s >= session, task[s].pc # "none"
  PROVE  s = ls /\ s = session
BY DEF TypeOK, ControlInv, TaskInv, SessionIds

LEMMA OrderStep ==
  /\ TypeOK /\ ControlInv /\ ToldInv /\ TaskInv /\ OverlayInv /\ OrderInv /\ FreshInv
  /\ [Next]_vars
  => OrderInv'
<1> SUFFICES ASSUME TypeOK, ControlInv, ToldInv, TaskInv, OverlayInv, OrderInv, FreshInv,
                    [Next]_vars
             PROVE  OrderInv'
  OBVIOUS
<1> USE DEF OrderInv, Framed, ShouldAccept
<1>0. /\ last \in SessionIds \X Nat /\ ls \in SessionIds /\ session \in SessionIds
      /\ capture \in Nat /\ token \in Nat /\ task \in [SessionIds -> Tasks]
      /\ SessionIds \subseteq Nat
  BY DEF TypeOK, SessionIds
<1>t. task[ls].pc # "none" => task[ls].capture \in Nat
  BY <1>0, RecordOf DEF TaskRecords
<1>1. CASE Control
  <2> USE <1>0 DEF ControlGoto, clockVars, loopVars, displayVars, ControlInv, Starting,
          Stopping
  <2>1. CASE StartCapture
    BY <2>1 DEF StartCapture
  <2>2. CASE StartTranslation
    BY <2>2 DEF StartTranslation
  <2>3. CASE StartSession
    <3>1. session + 1 \in SessionIds /\ ls < session + 1
      BY <2>3, Bounds DEF StartSession, SessionIds
    <3>2. task[session + 1].pc = "none"
      BY <3>1 DEF TaskInv
    <3>3. last[1] # session + 1
      BY DEF OverlayInv
    <3> QED
      BY <2>3, <3>1, <3>2, <3>3 DEF StartSession
  <2>4. CASE StopSession
    BY <2>4 DEF StopSession
  <2>5. CASE StopCapture
    BY <2>5 DEF StopCapture
  <2>6. CASE StopTranslation
    BY <2>6 DEF StopTranslation
  <2>7. CASE StopTell
    BY <2>7 DEF StopTell
  <2>8. CASE StopReturn
    BY <2>8 DEF StopReturn, ControlInv
  <2> QED
    BY <1>1, <2>1, <2>2, <2>3, <2>4, <2>5, <2>6, <2>7, <2>8 DEF Control
<1>2. CASE MoveRegion
  <2>1. UNCHANGED <<session, lpc, ls, token, task, last>>
    BY <1>2, MoveKeeps
  <2>2. capture' \in Nat /\ capture <= capture'
    BY <1>0, <1>2 DEF MoveRegion, SetRegion, SetScale, InvalidateCapture,
                      InvalidateTranslation, clockVars
  <2> QED
    BY <1>0, <1>t, <2>1, <2>2
<1>3. CASE Loop
  <2> USE <1>0, <1>t, LoopKeeps, <1>3 DEF LoopGoto, displayVars
  <2>1. CASE LoopRegion
    BY <2>1 DEF LoopRegion
  <2>2. CASE LoopScale
    BY <2>2 DEF LoopScale
  <2>3. CASE LoopToken
    <3>1. UNCHANGED <<last, task>> /\ capture' = capture + 1 /\ token' = capture + 1
      BY <2>3 DEF LoopToken
    <3>2. last[1] <= session
      BY DEF OverlayInv
    <3>3. lpc # "off"
      BY <2>3 DEF LoopToken
    <3>4. session' = session /\ ls' = ls
      BY LoopKeeps
    <3>5. CASE session = ls
      <4>1. /\ last[1] \in Nat /\ last[2] \in Nat /\ session \in Nat
        BY <1>0
      <4>2. last[1] = ls => last[2] <= capture
        BY <3>3, <3>5
      <4>3. task[ls].pc # "none" => task[ls].capture <= capture
        BY <3>3, <3>5
      <4>4. ShouldAccept(ls, capture + 1)
        BY <1>0, <3>2, <3>5, <4>1, <4>2
      <4>5. ShouldAccept(ls, token)'
        BY <3>1, <3>4, <4>4
      <4> QED
        BY <1>0, <1>t, <3>1, <3>4, <4>1, <4>2, <4>3, <4>5
    <3> QED
      BY <3>4, <3>5
  <2>4. CASE LoopCapture
    BY <2>4 DEF LoopCapture
  <2>5. CASE LoopOcr
    BY <2>5 DEF LoopOcr
  <2>6. CASE LoopQuiet
    <3>1. lpc = "decide" /\ lpc' = "top" /\ UNCHANGED <<task, capture>>
      BY <2>6 DEF LoopQuiet
    <3>2. last' = last \/ last' = <<ls, token>>
      BY <2>6 DEF LoopQuiet, Emit
    <3> QED
      BY <3>1, <3>2
  <2>7. CASE LoopUnreadable
    <3>1. lpc = "decide" /\ lpc' = "top" /\ UNCHANGED <<task, capture>>
      BY <2>7 DEF LoopUnreadable
    <3>2. last' = last \/ last' = <<ls, token>>
      BY <2>7 DEF LoopUnreadable, Emit
    <3> QED
      BY <3>1, <3>2
  <2>8. CASE LoopLine
    BY <2>8 DEF LoopLine
  <2>9. CASE LoopSpawn
    <3>1. lpc' = "top" /\ lpc = "spawn" /\ UNCHANGED <<last, capture>>
      BY <2>9 DEF LoopSpawn
    <3>2. task'[ls] = task[ls] \/ task'[ls].capture = token
      BY <2>9 DEF LoopSpawn
    <3> QED
      BY <3>1, <3>2
  <2>10. CASE LoopLeave
    BY <2>10 DEF LoopLeave
  <2>11. CASE LoopGiveUp
    BY <2>11 DEF LoopGiveUp
  <2> QED
    BY <1>3, <2>1, <2>2, <2>3, <2>4, <2>5, <2>6, <2>7, <2>8, <2>9, <2>10, <2>11 DEF Loop
<1>4. ASSUME NEW s \in SessionIds, TaskMoves(s) PROVE OrderInv'
  <2>1. UNCHANGED <<session, capture, lpc, ls, token>>
    BY <1>4, TaskKeeps
  <2>2. s <= ls /\ task[s].capture \in Nat
    BY <1>0, <1>4, TaskStays, RecordOf DEF TaskInv, TaskRecords
  <2>3. task'[ls].pc # "none" =>
          task[ls].pc # "none" /\ task'[ls].capture = task[ls].capture
    BY <1>0, <1>4, TaskStays
  <2>4. CASE last' = last
    BY <1>0, <1>t, <2>1, <2>3, <2>4
  <2>5. CASE last' = <<s, task[s].capture>>
    <3>1. s = ls => task[ls].pc # "none"
      BY <1>4, TaskStays
    <3> QED
      BY <1>0, <1>t, <2>1, <2>2, <2>3, <2>5, <3>1
  <2> QED
    BY <1>4, <2>4, <2>5, TaskEmits
<1>5. CASE UNCHANGED vars
  BY <1>5 DEF vars
<1> QED
  BY <1>1, <1>2, <1>3, <1>4, <1>5 DEF Next, TaskMoves, Exhausted

LEMMA OutrunStep ==
  /\ TypeOK /\ ControlInv /\ ToldInv /\ TaskInv /\ OrderInv /\ NoTranslationOutrun
  /\ [Next]_vars
  => NoTranslationOutrun'
<1> SUFFICES ASSUME TypeOK, ControlInv, ToldInv, TaskInv, OrderInv, NoTranslationOutrun,
                    [Next]_vars,
                    NEW s \in SessionIds, task'[s].pc \notin {"none", "leaving"},
                    session' = s
             PROVE  ShouldAccept(s, task[s].capture)'
  BY DEF NoTranslationOutrun
<1>0. /\ last \in SessionIds \X Nat /\ ls \in SessionIds /\ session \in SessionIds
      /\ task \in [SessionIds -> Tasks] /\ SessionIds \subseteq Nat
  BY DEF TypeOK, SessionIds
<1>h. task[s].pc \notin {"none", "leaving"} /\ session = s
        => ShouldAccept(s, task[s].capture)
  BY DEF NoTranslationOutrun
<1>1. CASE Control
  <2>1. UNCHANGED task
    BY <1>1 DEF Control, StartCapture, StartTranslation, StartSession, StopSession,
                StopCapture, StopTranslation, StopTell, StopReturn
  <2>2. session <= s
    BY <1>0, <1>1 DEF Control, StartCapture, StartTranslation, StartSession, StopSession,
                StopCapture, StopTranslation, StopTell, StopReturn, clockVars
  <2>3. s = ls /\ s = session
    BY <1>0, <2>1, <2>2, CurrentTask
  <2>4. ~StartSession /\ ~StopSession /\ ~StopReturn
    BY <1>0, <2>3 DEF StartSession, StopSession, StopReturn, ControlGoto, ControlInv,
                      Stopping
  <2>5. UNCHANGED last
    BY <1>1, <2>4 DEF Control, StartCapture, StartTranslation, StopCapture,
                      StopTranslation, StopTell, displayVars
  <2> QED
    BY <1>h, <2>1, <2>3, <2>5 DEF ShouldAccept
<1>2. CASE MoveRegion
  BY <1>2, <1>h, MoveKeeps DEF ShouldAccept
<1>3. CASE Loop
  <2>1. UNCHANGED <<session, ls>>
    BY <1>3, LoopKeeps
  <2>2. CASE LoopSpawn
    <3>1. UNCHANGED last
      BY <2>2 DEF LoopSpawn, displayVars
    <3>2. CASE UNCHANGED task
      BY <1>h, <2>1, <3>1, <3>2 DEF ShouldAccept
    <3>3. CASE s = ls /\ task'[s].capture = token
      BY <2>1, <2>2, <3>1, <3>3 DEF LoopSpawn, LoopGoto, OrderInv, Framed, ShouldAccept
    <3>4. CASE s # ls
      BY <1>0, <1>h, <2>1, <2>2, <3>1, <3>4 DEF LoopSpawn, ShouldAccept
    <3> QED
      BY <1>0, <2>2, <3>2, <3>3, <3>4 DEF LoopSpawn
  <2>3. CASE ~LoopSpawn
    <3>1. UNCHANGED task
      BY <1>3, <2>3 DEF Loop, LoopRegion, LoopScale, LoopToken, LoopCapture, LoopOcr,
              LoopQuiet, LoopUnreadable, LoopLine, LoopLeave, LoopGiveUp
    <3>2. s = ls /\ s = session
      BY <1>0, <2>1, <3>1, CurrentTask
    <3>3. Busy
      BY <3>1, <3>2 DEF Busy
    <3>4. ~LoopLeave \/ session # ls
      BY <1>0 DEF LoopLeave, LoopGoto, ToldInv
    <3>5. UNCHANGED last
      BY <1>3, <2>3, <3>2, <3>3, <3>4
         DEF Loop, LoopRegion, LoopScale, LoopToken, LoopCapture, LoopOcr, LoopQuiet,
             QuietNotice, LoopUnreadable, LoopLine, LoopGiveUp, displayVars
    <3> QED
      BY <1>h, <2>1, <3>1, <3>2, <3>5 DEF ShouldAccept
  <2> QED
    BY <2>2, <2>3
<1>4. ASSUME NEW r \in SessionIds, TaskMoves(r)
      PROVE  ShouldAccept(s, task[s].capture)'
  <2>1. session = s
    BY <1>4, TaskKeeps
  <2>2. CASE r = s
    <3>1. last' = last
      BY <1>4, <2>2, TaskEmits
    <3>2. task'[s].capture = task[s].capture /\ task[s].pc # "none"
      BY <1>4, <2>2, TaskStays
    <3>3. task[s].pc # "leaving"
      BY <1>4, <2>2, TaskLeaves
    <3> QED
      BY <1>h, <2>1, <3>1, <3>2, <3>3 DEF ShouldAccept
  <2>3. CASE r # s
    <3>1. task'[s] = task[s]
      BY <1>4, <2>3, TaskStays
    <3>2. r < s
      <4>1. r <= ls
        BY <1>4, TaskStays DEF TaskInv
      <4>2. ls <= s
        BY <2>1 DEF ControlInv
      <4> QED
        BY <1>0, <2>3, <4>1, <4>2
    <3>3. last' = last \/ last'[1] = r
      BY <1>4, TaskEmits
    <3> QED
      BY <1>0, <1>h, <2>1, <3>1, <3>2, <3>3 DEF ShouldAccept
  <2> QED
    BY <2>2, <2>3
<1>5. CASE UNCHANGED vars
  BY <1>5, <1>h DEF vars, ShouldAccept
<1> QED
  BY <1>1, <1>2, <1>3, <1>4, <1>5 DEF Next, TaskMoves, Exhausted

LEMMA ClaimStep ==
  /\ TypeOK /\ ControlInv /\ TaskInv /\ FreshInv /\ ClaimInv /\ [Next]_vars
  => ClaimInv'
<1> SUFFICES ASSUME TypeOK, ControlInv, TaskInv, FreshInv, ClaimInv, [Next]_vars,
                    NEW s \in SessionIds, task'[s].pc \in {"running", "answered"},
                    session' = s
             PROVE  /\ task'[s].id <= translation'
                    /\ task'[s].id = translation' => task'[s].moves = moves'
  BY DEF ClaimInv
<1>0. /\ ls \in SessionIds /\ session \in SessionIds /\ translation \in Nat
      /\ task \in [SessionIds -> Tasks] /\ SessionIds \subseteq Nat
  BY DEF TypeOK, SessionIds
<1>h. task[s].pc \in {"running", "answered"} /\ session = s =>
        /\ task[s].id <= translation
        /\ task[s].id = translation => task[s].moves = moves
  BY DEF ClaimInv
<1>1. CASE Control
  <2>1. UNCHANGED <<task, moves>>
    BY <1>1 DEF Control, StartCapture, StartTranslation, StartSession, StopSession,
                StopCapture, StopTranslation, StopTell, StopReturn, regionVars
  <2>2. session <= s
    BY <1>0, <1>1 DEF Control, StartCapture, StartTranslation, StartSession, StopSession,
                StopCapture, StopTranslation, StopTell, StopReturn, clockVars
  <2>3. s = ls /\ s = session
    BY <1>0, <2>1, <2>2, CurrentTask
  <2>4. lpc # "off"
    BY <2>1, <2>3 DEF FreshInv
  <2>5. ~StartTranslation /\ ~StopTranslation
    BY <1>0, <2>3, <2>4 DEF StartTranslation, StopTranslation, ControlGoto, ControlInv,
                            Starting, Stopping
  <2>6. UNCHANGED translation
    BY <1>1, <2>5 DEF Control, StartCapture, StartSession, StopSession,
                      StopCapture, StopTell, StopReturn, clockVars
  <2> QED
    BY <1>h, <2>1, <2>3, <2>6
<1>2. CASE MoveRegion
  <2>1. UNCHANGED <<session, task>>
    BY <1>2, MoveKeeps
  <2>2. CASE InvalidateTranslation
    <3>1. translation' = translation + 1
      BY <2>2 DEF InvalidateTranslation
    <3>2. task[s].id \in Nat
      BY <1>0, <2>1, RecordOf DEF TaskRecords
    <3> QED
      BY <1>0, <1>h, <2>1, <3>1, <3>2
  <2>3. CASE ~InvalidateTranslation
    BY <1>2, <1>h, <2>1, <2>3 DEF MoveRegion, SetRegion, SetScale, InvalidateCapture,
                                  clockVars
  <2> QED
    BY <2>2, <2>3
<1>3. CASE Loop
  <2>1. UNCHANGED <<session, translation, moves>>
    BY <1>3, LoopKeeps
  <2>2. task'[s] = task[s]
    BY <1>0, <1>3 DEF Loop, LoopRegion, LoopScale, LoopToken, LoopCapture, LoopOcr,
              LoopQuiet, LoopUnreadable, LoopLine, LoopSpawn, LoopLeave, LoopGiveUp
  <2> QED
    BY <1>h, <2>1, <2>2
<1>4. ASSUME NEW r \in SessionIds, TaskMoves(r)
      PROVE  /\ task'[s].id <= translation'
             /\ task'[s].id = translation' => task'[s].moves = moves'
  <2>1. session = s /\ moves' = moves
    BY <1>4, TaskKeeps
  <2>2. CASE Claim(r)
    <3>1. translation' = translation + 1
      BY <2>2 DEF Claim
    <3>2. CASE r = s
      <4>1. task[s] \in TaskRecords
        BY <1>0, <2>2, <3>2, RecordOf DEF Claim
      <4>2. task'[s].id = translation + 1 /\ task'[s].moves = moves
        BY <1>0, <2>2, <3>2, <4>1 DEF Claim, TaskRecords
      <4> QED
        BY <1>0, <2>1, <3>1, <4>2
    <3>3. CASE r # s
      <4>1. task'[s] = task[s]
        BY <1>4, <3>3, TaskStays
      <4>2. task[s].id \in Nat
        BY <1>0, <4>1, RecordOf DEF TaskRecords
      <4> QED
        BY <1>0, <1>h, <2>1, <3>1, <4>1, <4>2
    <3> QED
      BY <3>2, <3>3
  <2>3. CASE ~Claim(r)
    <3>1. translation' = translation
      BY <1>4, <2>3, TaskClaims
    <3>2. CASE r = s
      BY <1>4, <1>h, <2>1, <2>3, <3>1, <3>2, TaskClaims
    <3>3. CASE r # s
      BY <1>4, <1>h, <2>1, <3>1, <3>3, TaskStays
    <3> QED
      BY <3>2, <3>3
  <2> QED
    BY <2>2, <2>3
<1>5. CASE UNCHANGED vars
  BY <1>5, <1>h DEF vars
<1> QED
  BY <1>1, <1>2, <1>3, <1>4, <1>5 DEF Next, TaskMoves, Exhausted

-----------------------------------------------------------------------------
(* Theorems                                                                *)

LEMMA InvInit == Init => IInv
<1> SUFFICES ASSUME Init PROVE IInv
  OBVIOUS
<1>1. TypeOK
  BY TypeInit
<1>2. \A s \in SessionIds : task[s].pc = "none"
  BY DEF Init, NoTask
<1>3. ControlInv /\ ToldInv /\ OverlayInv
  BY DEF Init, ControlInv, ToldInv, OverlayInv, Starting, Stopping
<1>4. TaskInv /\ ClaimInv /\ NoTranslationOutrun
  BY <1>2 DEF TaskInv, ClaimInv, NoTranslationOutrun
<1>5. 0 \in SessionIds
  BY Bounds DEF SessionIds
<1>6. OrderInv /\ FreshInv
  BY <1>2, <1>5 DEF Init, OrderInv, FreshInv, Framed
<1> QED
  BY <1>1, <1>3, <1>4, <1>6 DEF IInv

\* The invariant of every run of the pipeline.
THEOREM Invariance == Spec => []IInv
<1>1. IInv /\ [Next]_vars => IInv'
  BY TypeStep, ControlStep, ToldStep, TaskInvStep, OverlayStep, OrderStep, FreshStep,
     ClaimStep, OutrunStep DEF IInv
<1> QED
  BY InvInit, <1>1, PTL DEF Spec

\* Every variable keeps its type: in particular the counters and the positions
\* are numbers, so that the overlay's comparison is always between numbers.
THEOREM TypeCorrect == Spec => []TypeOK
<1>1. IInv => TypeOK
  BY DEF IInv
<1> QED
  BY Invariance, <1>1, PTL

\* After Stop has returned nothing that an older session still emits gets on
\* the overlay, however late (pipeline-update.js:24-31).
THEOREM StaysBlank == Spec => []StoppedStaysBlank
<1>1. IInv => StoppedStaysBlank
  BY DEF IInv, OverlayInv, Stopping, StoppedStaysBlank
<1> QED
  BY Invariance, <1>1, PTL

\* No notice takes the place of a translation in flight, so the overlay accepts
\* it (pipeline_notices.rs:58,79).
THEOREM NeverOutrun == Spec => []NoTranslationOutrun
<1>1. IInv => NoTranslationOutrun
  BY DEF IInv
<1> QED
  BY Invariance, <1>1, PTL

\* An answer whose line was claimed before a completed move of the region is
\* dropped (pipeline_translation.rs:258-269).
THEOREM MovedIsDropped == Spec => ClaimedThenMovedIsDropped
<1> DEFINE Dropped == \A s \in SessionIds :
                        (task[s].pc = "answered" /\ task'[s].pc = "fresh")
                          => task[s].moves = moves
<1>1. IInv /\ [Next]_vars => [Dropped]_vars
  <2> SUFFICES ASSUME IInv, Next, NEW s \in SessionIds,
                      task[s].pc = "answered", task'[s].pc = "fresh"
               PROVE  task[s].moves = moves
    OBVIOUS
  <2>1. task \in [SessionIds -> Tasks] /\ TypeOK
    BY DEF IInv, TypeOK
  <2>2. task[s] \in TaskRecords
    BY <2>1, RecordOf
  <2>3. ~Control /\ ~MoveRegion /\ ~Exhausted
    BY MoveKeeps DEF Control, StartCapture, StartTranslation, StartSession, StopSession,
         StopCapture, StopTranslation, StopTell, StopReturn, Exhausted, vars
  <2>4. ~Loop
    BY <2>1 DEF Loop, LoopRegion, LoopScale, LoopToken, LoopCapture, LoopOcr,
              LoopQuiet, LoopUnreadable, LoopLine, LoopSpawn, LoopLeave, LoopGiveUp
  <2>5. PICK r \in SessionIds : TaskMoves(r)
    BY <2>3, <2>4 DEF Next, TaskMoves
  <2>6. r = s
    BY <2>1, <2>5, TaskStays
  <2>7. Wanted(s)
    BY <2>1, <2>2, <2>5, <2>6
       DEF TaskMoves, TaskStep, Claim, Cancel, Answer, Miss, Abandon, Check, Remember,
           Publish, TaskPanic, Release, TaskGoto, TaskRecords, NoTask
  <2> QED
    BY <2>7 DEF Wanted, IInv, ClaimInv
<1> QED
  BY Invariance, <1>1, PTL DEF Spec, ClaimedThenMovedIsDropped
-----------------------------------------------------------------------------
(* Without faults: lines are answered for as long as they are wanted       *)

\* Every task of an older session has been polled.
PolledInv ==
  /\ \A s \in SessionIds : s < ls => task[s].pc # "spawned"
  /\ ctl \notin Stopping /\ session > ls => \A s \in SessionIds : task[s].pc # "spawned"

\* Nothing but a move outdates the claim of the current session.
KeptInv ==
  \A s \in SessionIds :
    (task[s].pc \in {"running", "answered"} /\ session = s) =>
      /\ task[s].moves <= moves
      /\ task[s].moves = moves => task[s].id = translation

\* Every call sets another region; the frame's is not newer than the last move.
RegionInv ==
  /\ setter = "idle" => region = moves /\ scale = moves
  /\ setter # "idle" => region = moves + 1
  /\ setter \in {"scale", "capture"} => scale = moves + 1
  /\ rect[1] <= moves
  /\ seen # NoRect => seen[1] <= moves
  /\ lpc \in Framed => seen = rect

\* The engine answers what is answered, and what it said stays on show.
SaidInv ==
  /\ \A s \in SessionIds :
       task[s].pc \in {"answered", "fresh", "noted"} => task[s].backend = "engine"
  /\ lpc # "off" /\ session = ls /\ said # {} => shown # Blank

\* While the region rests, a line handled was said or is being translated.
Flying(l) ==
  /\ task[ls].pc \in {"spawned", "running", "answered", "fresh", "noted"}
  /\ task[ls].line = l
  /\ task[ls].pc \in {"running", "answered"} => task[ls].moves = moves
RecentInv ==
  /\ lpc # "off" /\ seen = NoRect => recent = {}
  /\ lpc # "off" /\ session = ls /\ ls \notin told /\ setter = "idle" /\ seen = <<moves, moves>> =>
       \A l \in recent : l \in said \/ Flying(l)

SkipInv == RegionInv /\ SaidInv /\ RecentInv

LEMMA TaskPolls ==
  ASSUME TypeOK, NEW s \in SessionIds, TaskMoves(s)
  PROVE  task'[s].pc # "spawned"
<1>1. task \in [SessionIds -> Tasks]
  BY DEF TypeOK
<1>2. task[s] \in TaskRecords
  BY <1>1, TaskStays, RecordOf
<1> QED
  BY <1>1, <1>2
     DEF TaskMoves, TaskStep, Claim, Cancel, Answer, Miss, Abandon, Check, Remember,
         Publish, TaskPanic, Release, TaskGoto, TaskRecords, NoTask

LEMMA PolledStep ==
  ASSUME "starve" \notin Faults, IInv, PolledInv, [Next]_vars
  PROVE  PolledInv'
<1>0. /\ ls \in SessionIds /\ session \in SessionIds /\ SessionIds \subseteq Nat
      /\ task \in [SessionIds -> Tasks] /\ ls <= session
  BY DEF IInv, TypeOK, SessionIds, ControlInv
<1>1. CASE Control
  <2>1. UNCHANGED task
    BY <1>1 DEF Control, StartCapture, StartTranslation, StartSession, StopSession,
                StopCapture, StopTranslation, StopTell, StopReturn
  <2>2. CASE StartSession
    <3>1. lpc = "off" /\ ctl = "begin_session" /\ ls' = session + 1 /\ session' = session + 1
      BY <2>2 DEF IInv, ControlInv, Starting, StartSession, ControlGoto
    <3>2. \A s \in SessionIds : task[s].pc # "none" => s <= ls
      BY DEF IInv, TaskInv
    <3>3. session = ls => task[ls].pc = "none"
      BY <3>1 DEF IInv, FreshInv
    <3>4. \A s \in SessionIds : s < ls => task[s].pc # "spawned"
      BY DEF PolledInv
    <3>5. session > ls => \A s \in SessionIds : task[s].pc # "spawned"
      BY <3>1 DEF PolledInv, Stopping
    <3>6. \A s \in SessionIds : task[s].pc # "spawned"
      BY <1>0, <3>2, <3>3, <3>4, <3>5
    <3> QED
      BY <2>1, <3>6 DEF PolledInv
  <2>3. CASE StopReturn
    <3>1. \A s \in SessionIds : task[s].pc # "spawned"
      BY <2>3 DEF StopReturn
    <3> QED
      BY <2>1, <3>1 DEF PolledInv
  <2>4. CASE ~StartSession /\ ~StopReturn
    <3>1. UNCHANGED ls /\ (ctl' \notin Stopping => ctl \notin Stopping /\ session' = session)
      BY <1>1, <2>4 DEF Control, StartCapture, StartTranslation, StopSession, StopCapture,
                        StopTranslation, StopTell, ControlGoto, Stopping, loopVars, clockVars
    <3> QED
      BY <2>1, <3>1 DEF PolledInv
  <2> QED
    BY <2>2, <2>3, <2>4
<1>2. CASE MoveRegion
  BY <1>2, MoveKeeps DEF PolledInv
<1>3. CASE Loop
  <2>1. UNCHANGED <<session, ctl, ls>>
    BY <1>3, LoopKeeps
  <2>2. CASE LoopSpawn
    <3>1. lpc = "spawn" /\ \A s \in SessionIds \ {ls} : task'[s] = task[s]
      BY <1>0, <2>2 DEF LoopSpawn, LoopGoto
    <3>2. ctl \in Stopping \/ session <= ls
      BY <1>0, <3>1 DEF IInv, OverlayInv
    <3> QED
      BY <1>0, <2>1, <3>1, <3>2 DEF PolledInv
  <2>3. CASE ~LoopSpawn
    <3>1. UNCHANGED task
      BY <1>3, <2>3 DEF Loop, LoopRegion, LoopScale, LoopToken, LoopCapture, LoopOcr,
              LoopQuiet, LoopUnreadable, LoopLine, LoopLeave, LoopGiveUp
    <3> QED
      BY <2>1, <3>1 DEF PolledInv
  <2> QED
    BY <2>2, <2>3
<1>4. ASSUME NEW r \in SessionIds, TaskMoves(r) PROVE PolledInv'
  <2>1. UNCHANGED <<session, ctl, ls>>
    BY <1>4, TaskKeeps
  <2>2. \A s \in SessionIds : task'[s].pc = "spawned" => task[s].pc = "spawned"
    BY <1>4, TaskStays, TaskPolls DEF IInv
  <2> QED
    BY <2>1, <2>2 DEF PolledInv
<1>5. CASE UNCHANGED vars
  BY <1>5 DEF vars, PolledInv
<1> QED
  BY <1>1, <1>2, <1>3, <1>4, <1>5 DEF Next, TaskMoves, Exhausted

LEMMA KeptStep ==
  ASSUME IInv, PolledInv, KeptInv, [Next]_vars
  PROVE  KeptInv'
<1> SUFFICES ASSUME NEW s \in SessionIds, task'[s].pc \in {"running", "answered"}, session' = s
             PROVE  /\ task'[s].moves <= moves'
                    /\ task'[s].moves = moves' => task'[s].id = translation'
  BY DEF KeptInv
<1>0. /\ ls \in SessionIds /\ session \in SessionIds /\ translation \in Nat /\ moves \in Nat
      /\ task \in [SessionIds -> Tasks] /\ SessionIds \subseteq Nat /\ TypeOK /\ ls <= session
  BY SMTT(40), Bounds DEF IInv, TypeOK, SessionIds, Places, ControlInv
<1>h. task[s].pc \in {"running", "answered"} /\ session = s =>
        /\ task[s].moves <= moves
        /\ task[s].moves = moves => task[s].id = translation
  BY DEF KeptInv
<1>1. CASE Control
  <2>1. UNCHANGED <<task, moves>>
    BY <1>1 DEF Control, StartCapture, StartTranslation, StartSession, StopSession,
                StopCapture, StopTranslation, StopTell, StopReturn, regionVars
  <2>2. session <= s
    BY <1>0, <1>1 DEF Control, StartCapture, StartTranslation, StartSession, StopSession,
                StopCapture, StopTranslation, StopTell, StopReturn, clockVars
  <2>3. s = ls /\ s = session
    BY <1>0, <2>1, <2>2, CurrentTask DEF IInv
  <2>4. lpc # "off"
    BY <2>1, <2>3 DEF IInv, FreshInv
  <2>5. ~StartTranslation /\ ~StopTranslation
    BY <1>0, <2>3, <2>4 DEF StartTranslation, StopTranslation, ControlGoto, IInv, ControlInv,
                            Starting, Stopping
  <2>6. UNCHANGED translation
    BY <1>1, <2>5 DEF Control, StartCapture, StartSession, StopSession,
                      StopCapture, StopTell, StopReturn, clockVars
  <2> QED
    BY <1>h, <2>1, <2>3, <2>6
<1>2. CASE MoveRegion
  <2>1. UNCHANGED <<session, task>>
    BY <1>2, MoveKeeps
  <2>2. CASE InvalidateTranslation
    <3>1. moves' = moves + 1
      BY <2>2 DEF InvalidateTranslation
    <3>2. task[s].moves \in Nat
      BY <1>0, <2>1, RecordOf, Bounds DEF TaskRecords, Places
    <3> QED
      BY <1>0, <1>h, <2>1, <3>1, <3>2
  <2>3. CASE ~InvalidateTranslation
    BY <1>2, <1>h, <2>1, <2>3 DEF MoveRegion, SetRegion, SetScale, InvalidateCapture,
                                  clockVars
  <2> QED
    BY <2>2, <2>3
<1>3. CASE Loop
  <2>1. UNCHANGED <<session, translation, moves>>
    BY <1>3, LoopKeeps
  <2>2. task'[s] = task[s]
    BY <1>0, <1>3 DEF Loop, LoopRegion, LoopScale, LoopToken, LoopCapture, LoopOcr,
              LoopQuiet, LoopUnreadable, LoopLine, LoopSpawn, LoopLeave, LoopGiveUp
  <2> QED
    BY <1>h, <2>1, <2>2
<1>4. ASSUME NEW r \in SessionIds, TaskMoves(r)
      PROVE  /\ task'[s].moves <= moves'
             /\ task'[s].moves = moves' => task'[s].id = translation'
  <2>1. session = s /\ moves' = moves
    BY <1>4, TaskKeeps
  <2>2. CASE Claim(r)
    <3>1. translation' = translation + 1 /\ task[r].pc = "spawned"
      BY <2>2 DEF Claim
    <3>2. CASE r = s
      <4>1. task[s] \in TaskRecords
        BY <1>0, <2>2, <3>2, RecordOf DEF Claim
      <4>2. task'[s].id = translation + 1 /\ task'[s].moves = moves
        BY <1>0, <2>2, <3>2, <4>1 DEF Claim, TaskRecords
      <4> QED
        BY <1>0, <2>1, <3>1, <4>2
    <3>3. CASE r # s
      <4>1. task'[s] = task[s] /\ task[s].pc # "none"
        BY <1>4, <1>0, <3>3, TaskStays
      <4>2. s <= ls /\ r <= ls
        BY <3>1, <4>1 DEF IInv, TaskInv
      <4>3. r < ls
        BY <1>0, <2>1, <3>3, <4>2
      <4> QED
        BY <3>1, <4>3 DEF PolledInv
    <3> QED
      BY <3>2, <3>3
  <2>3. CASE ~Claim(r)
    <3>1. translation' = translation
      BY <1>0, <1>4, <2>3, TaskClaims
    <3>2. CASE r = s
      BY <1>0, <1>4, <1>h, <2>1, <2>3, <3>1, <3>2, TaskClaims
    <3>3. CASE r # s
      BY <1>0, <1>4, <1>h, <2>1, <3>1, <3>3, TaskStays
    <3> QED
      BY <3>2, <3>3
  <2> QED
    BY <2>2, <2>3
<1>5. CASE UNCHANGED vars
  BY <1>5, <1>h DEF vars
<1> QED
  BY <1>1, <1>2, <1>3, <1>4, <1>5 DEF Next, TaskMoves, Exhausted

LEMMA KeptAlways ==
  ASSUME "starve" \notin Faults
  PROVE  Spec => [](IInv /\ PolledInv /\ KeptInv)
<1>1. Init => PolledInv /\ KeptInv
  BY DEF Init, NoTask, PolledInv, KeptInv
<1>2. IInv /\ PolledInv /\ KeptInv /\ [Next]_vars => IInv' /\ PolledInv' /\ KeptInv'
  BY PolledStep, KeptStep, TypeStep, ControlStep, ToldStep, TaskInvStep, OverlayStep,
     OrderStep, FreshStep, ClaimStep, OutrunStep DEF IInv
<1> QED
  BY InvInit, <1>1, <1>2, PTL DEF Spec

\* As long as the runtime polls a task before the Stop after it ends, an answer
\* is thrown away only when its session was stopped or its region moved, and
\* never because of a newer capture (pipeline_translation.rs:19).
THEOREM AnswersAreKept ==
  ASSUME "starve" \notin Faults
  PROVE  Spec => DiscardOnlyWhenUnwanted
<1> DEFINE Unwanted == \A s \in SessionIds :
                         (task[s].pc = "answered" /\ task'[s].pc = "leaving")
                           => Told(s) \/ session # s \/ moves # task[s].moves
<1>1. IInv /\ KeptInv /\ [Next]_vars => [Unwanted]_vars
  <2> SUFFICES ASSUME IInv, KeptInv, Next, NEW s \in SessionIds, task[s].pc = "answered",
                      task'[s].pc = "leaving", ~Told(s), session = s, moves = task[s].moves
               PROVE  FALSE
    OBVIOUS
  <2>1. task \in [SessionIds -> Tasks] /\ TypeOK
    BY DEF IInv, TypeOK
  <2>2. task[s] \in TaskRecords
    BY <2>1, RecordOf
  <2>3. ~Control /\ ~MoveRegion /\ ~Exhausted
    BY MoveKeeps DEF Control, StartCapture, StartTranslation, StartSession, StopSession,
         StopCapture, StopTranslation, StopTell, StopReturn, Exhausted, vars
  <2>4. ~Loop
    BY <2>1 DEF Loop, LoopRegion, LoopScale, LoopToken, LoopCapture, LoopOcr,
              LoopQuiet, LoopUnreadable, LoopLine, LoopSpawn, LoopLeave, LoopGiveUp
  <2>5. PICK r \in SessionIds : TaskMoves(r)
    BY <2>3, <2>4 DEF Next, TaskMoves
  <2>6. r = s
    BY <2>1, <2>5, TaskStays
  <2>7. ~Wanted(s)
    BY <2>1, <2>2, <2>5, <2>6
       DEF TaskMoves, TaskStep, Claim, Cancel, Answer, Miss, Abandon, Check, Remember,
           Publish, TaskPanic, Release, TaskGoto, TaskRecords, NoTask
  <2>8. task[s].id = translation
    BY <2>1 DEF KeptInv
  <2> QED
    BY <2>7, <2>8 DEF Wanted
<1> QED
  BY KeptAlways, <1>1, PTL DEF Spec, DiscardOnlyWhenUnwanted
\* What a poll of the task does to its record.
LEMMA TaskGoesOn ==
  ASSUME TypeOK, NEW s \in SessionIds, TaskMoves(s), Faults = {}, SaidInv
  PROVE  /\ task[s] \in TaskRecords
         /\ \/ /\ task[s].pc = "spawned" /\ task'[s].pc = "running"
               /\ task'[s].moves = moves /\ task'[s].line = task[s].line
            \/ Told(s) /\ task'[s].pc = "leaving"
            \/ /\ task[s].pc = "running" /\ task'[s].pc = "answered" /\ task'[s].backend = "engine"
               /\ task'[s].moves = task[s].moves /\ task'[s].line = task[s].line
            \/ task[s].pc = "late" /\ task'[s].pc = "leaving"
            \/ task[s].pc = "answered" /\ ~Wanted(s) /\ task'[s].pc = "leaving"
            \/ /\ task[s].pc = "answered" /\ task'[s].pc = "fresh" /\ task'[s].backend = task[s].backend
               /\ task'[s].line = task[s].line
            \/ /\ task[s].pc = "fresh" /\ task'[s].pc = "noted" /\ task'[s].backend = task[s].backend
               /\ task'[s].line = task[s].line
            \/ Publish(s) /\ task[s].pc = "noted" /\ task'[s].pc = "leaving"
            \/ task[s].pc = "leaving" /\ task'[s].pc = "none"
<1>1. task \in [SessionIds -> Tasks]
  BY DEF TypeOK
<1>2. task[s] \in TaskRecords
  BY <1>1, TaskStays, RecordOf
<1>3. CASE Claim(s)
  BY <1>1, <1>2, <1>3 DEF Claim, TaskRecords
<1>4. CASE Cancel(s)
  BY <1>1, <1>2, <1>4 DEF Cancel, TaskGoto, TaskRecords
<1>5. CASE Answer(s)
  <2>1. task[s].pc = "running" /\ task' = [task EXCEPT ![s].pc = "answered", ![s].backend = "engine"]
    BY <1>5 DEF Answer
  <2> QED
    BY <1>1, <1>2, <2>1 DEF TaskRecords
<1>6. CASE Abandon(s)
  BY <1>1, <1>2, <1>6 DEF Abandon, TaskGoto, TaskRecords
<1>7. CASE Check(s)
  BY <1>1, <1>2, <1>7 DEF Check, TaskGoto, TaskRecords
<1>8. CASE Remember(s)
  BY <1>1, <1>2, <1>8 DEF Remember, TaskGoto, TaskRecords
<1>9. CASE Publish(s)
  BY <1>1, <1>2, <1>9 DEF Publish, TaskGoto, TaskRecords
<1>10. CASE Release(s)
  BY <1>1, <1>2, <1>10 DEF Release, NoTask
<1>11. ~Miss(s) /\ ~TaskPanic(s)
  BY DEF Miss, TaskPanic
<1> QED
  BY <1>2, <1>3, <1>4, <1>5, <1>6, <1>7, <1>8, <1>9, <1>10, <1>11 DEF TaskMoves, TaskStep

LEMMA RegionStep ==
  ASSUME Faults = {}, IInv, RegionInv, [Next]_vars
  PROVE  RegionInv'
<1>0. /\ moves \in Nat /\ region \in Nat /\ scale \in Nat /\ rect \in Nat \X Nat
      /\ setter \in {"idle", "region", "scale", "capture"}
  BY Bounds DEF IInv, TypeOK, Places
<1>1. CASE Control
  <2>1. UNCHANGED <<region, scale, moves, setter, rect>>
    BY <1>1 DEF Control, StartCapture, StartTranslation, StartSession, StopSession,
                StopCapture, StopTranslation, StopTell, StopReturn, regionVars, loopVars
  <2>2. \/ UNCHANGED <<lpc, seen>>
        \/ lpc' = "top" /\ seen' = NoRect
    BY <1>1 DEF Control, StartCapture, StartTranslation, StartSession, StopSession,
                StopCapture, StopTranslation, StopTell, StopReturn, loopVars
  <2> QED
    BY <2>1, <2>2 DEF RegionInv, Framed
<1>2. CASE MoveRegion
  <2>1. UNCHANGED <<rect, seen, lpc>>
    BY <1>2, MoveKeeps
  <2>2. CASE SetRegion
    BY <1>0, <2>1, <2>2 DEF RegionInv, SetRegion, SetterGoto
  <2>3. CASE SetScale
    BY <1>0, <2>1, <2>3 DEF RegionInv, SetScale, SetterGoto
  <2>4. CASE InvalidateCapture
    BY <1>0, <2>1, <2>4 DEF RegionInv, InvalidateCapture, SetterGoto
  <2>5. CASE InvalidateTranslation
    <3>1. moves' = moves + 1 /\ region' = moves' /\ scale' = moves' /\ setter' = "idle"
      BY <2>5 DEF RegionInv, InvalidateTranslation, SetterGoto
    <3>2. rect'[1] <= moves'
      BY <1>0, <2>1, <3>1 DEF RegionInv
    <3>3. seen' # NoRect => seen'[1] <= moves'
      <4>1. seen # NoRect => seen[1] \in Nat
        BY Bounds DEF IInv, TypeOK, Places
      <4> QED
        BY <1>0, <2>1, <3>1, <4>1 DEF RegionInv
    <3> QED
      BY <2>1, <3>1, <3>2, <3>3 DEF RegionInv
  <2> QED
    BY <1>2, <2>2, <2>3, <2>4, <2>5 DEF MoveRegion
<1>3. CASE Loop
  <2>1. UNCHANGED <<region, scale, moves, setter>>
    BY <1>3, LoopKeeps
  <2>2. CASE LoopRegion
    <3>1. rect'[1] \in {rect[1], moves} /\ lpc' \notin Framed /\ seen' = seen
      BY <1>0, <2>2 DEF LoopRegion, RegionInv, Framed
    <3> QED
      BY <1>0, <2>1, <3>1 DEF RegionInv
  <2>3. CASE LoopScale
    <3>1. rect'[1] = rect[1] /\ lpc' \notin Framed /\ seen' = seen
      BY <2>3 DEF LoopScale, LoopGoto, Framed
    <3> QED
      BY <2>1, <3>1 DEF RegionInv
  <2>4. CASE LoopToken
    BY <2>1, <2>4 DEF LoopToken, RegionInv
  <2>5. CASE ~LoopRegion /\ ~LoopScale /\ ~LoopToken
    <3>1. UNCHANGED <<rect, seen>>
      BY <1>3, <2>5 DEF Loop, LoopCapture, LoopOcr, LoopQuiet, LoopUnreadable, LoopLine,
                        LoopSpawn, LoopLeave, LoopGiveUp
    <3>2. lpc' \in Framed => lpc \in Framed
      BY <1>3, <2>5 DEF Loop, LoopCapture, LoopOcr, LoopQuiet, LoopUnreadable, LoopLine,
                        LoopSpawn, LoopLeave, LoopGiveUp, LoopGoto, Framed
    <3> QED
      BY <2>1, <3>1, <3>2 DEF RegionInv
  <2> QED
    BY <2>2, <2>3, <2>4, <2>5
<1>4. ASSUME NEW s \in SessionIds, TaskMoves(s) PROVE RegionInv'
  BY <1>4, TaskKeeps DEF RegionInv
<1>5. CASE UNCHANGED vars
  BY <1>5 DEF vars, RegionInv
<1> QED
  BY <1>1, <1>2, <1>3, <1>4, <1>5 DEF Next, TaskMoves, Exhausted

LEMMA LineIsNotBlank == Blank \notin Lines
BY PipelineAssumption DEF Blank

LEMMA SaidStep ==
  ASSUME Faults = {}, IInv, SaidInv, [Next]_vars
  PROVE  SaidInv'
<1> DEFINE Backends == \A s \in SessionIds :
             task[s].pc \in {"answered", "fresh", "noted"} => task[s].backend = "engine"
<1>0. task \in [SessionIds -> Tasks] /\ ls \in SessionIds /\ Backends /\ TypeOK
  BY DEF IInv, TypeOK, SaidInv
<1>1. CASE Control
  <2>1. UNCHANGED task
    BY <1>1 DEF Control, StartCapture, StartTranslation, StartSession, StopSession,
                StopCapture, StopTranslation, StopTell, StopReturn
  <2>2. CASE StopReturn
    <3>1. lpc' = "off"
      BY <2>2 DEF StopReturn, loopVars
    <3> QED
      BY <1>0, <2>1, <3>1 DEF SaidInv
  <2>3. CASE StartSession
    <3>1. said' = {}
      BY <2>3 DEF StartSession
    <3> QED
      BY <1>0, <2>1, <3>1 DEF SaidInv
  <2>4. CASE ~StopReturn /\ ~StartSession
    <3>1. UNCHANGED <<lpc, ls, said, shown>>
      BY <1>1, <2>4 DEF Control, StartCapture, StartTranslation, StopSession,
                StopCapture, StopTranslation, StopTell, loopVars, displayVars
    <3>2. session' = session \/ ls < session'
      BY <1>1, <2>4 DEF IInv, ControlInv, TypeOK, SessionIds, Control, StartCapture, StartTranslation,
                StopSession, StopCapture, StopTranslation, StopTell, clockVars
    <3>3. ls \in Nat
      BY DEF IInv, TypeOK, SessionIds
    <3> QED
      BY <1>0, <2>1, <3>1, <3>2, <3>3 DEF SaidInv
  <2> QED
    BY <2>2, <2>3, <2>4
<1>2. CASE MoveRegion
  BY <1>2, MoveKeeps DEF SaidInv
<1>3. CASE Loop
  <2>1. UNCHANGED <<session, ls>>
    BY <1>3, LoopKeeps
  <2>2. Backends'
    <3>1. CASE LoopSpawn
      <4>1. \A s \in SessionIds : task'[s].pc = "spawned" \/ task'[s] = task[s]
        BY <1>0, <3>1 DEF LoopSpawn
      <4> QED
        BY <1>0, <4>1
    <3>2. CASE ~LoopSpawn
      <4>1. UNCHANGED task
        BY <1>3, <3>2 DEF Loop, LoopRegion, LoopScale, LoopToken, LoopCapture, LoopOcr,
              LoopQuiet, LoopUnreadable, LoopLine, LoopLeave, LoopGiveUp
      <4> QED
        BY <1>0, <4>1
    <3> QED
      BY <3>1, <3>2
  <2>3. session = ls /\ lpc' # "off" => said' = {} \/ (said' = said /\ shown' = shown)
    <3>1. lpc # "leave" \/ session # ls
      BY <1>0 DEF IInv, ToldInv, TypeOK, SessionIds
    <3> QED
      BY <1>3, <3>1 DEF Loop, LoopRegion, LoopScale, LoopToken, LoopCapture, LoopOcr, LoopQuiet,
           LoopUnreadable, LoopLine, LoopSpawn, LoopLeave, LoopGiveUp, LoopGoto, Emit, Text,
           displayVars
  <2>4. lpc' # "off" => lpc # "off"
    BY <1>3 DEF Loop, LoopRegion, LoopScale, LoopToken, LoopCapture, LoopOcr, LoopQuiet,
           LoopUnreadable, LoopLine, LoopSpawn, LoopLeave, LoopGiveUp, LoopGoto
  <2> QED
    BY <2>1, <2>2, <2>3, <2>4 DEF SaidInv
<1>4. ASSUME NEW s \in SessionIds, TaskMoves(s) PROVE SaidInv'
  <2>1. UNCHANGED <<session, lpc, ls>>
    BY <1>4, TaskKeeps
  <2>2. \A r \in SessionIds \ {s} : task'[r] = task[r]
    BY <1>0, <1>4, TaskStays
  <2>3. task'[s].pc \in {"answered", "fresh", "noted"} => task'[s].backend = "engine"
    BY <1>0, <1>4, TaskGoesOn
  <2>4. Backends'
    BY <1>0, <2>2, <2>3
  <2>5. CASE Publish(s)
    <3>1. task[s].pc = "noted" /\ task[s].backend = "engine" /\ task[s] \in TaskRecords
      BY <1>0, <2>5, RecordOf DEF Publish, TaskGoto
    <3>2. \/ ShouldAccept(s, task[s].capture) /\ shown' = task[s].line
          \/ ~ShouldAccept(s, task[s].capture) /\ shown' = shown
      BY <2>5, <3>1 DEF Publish, Emit, Text
    <3>3. session = s => ShouldAccept(s, task[s].capture)
      BY <3>1 DEF IInv, NoTranslationOutrun
    <3>4. s = ls \/ said' = said
      BY <2>5 DEF Publish
    <3>5. task[s].line # Blank
      BY <3>1, LineIsNotBlank DEF TaskRecords
    <3> QED
      BY <2>1, <2>4, <3>2, <3>3, <3>4, <3>5 DEF SaidInv
  <2>6. CASE ~Publish(s)
    <3>1. UNCHANGED <<said, shown>>
      BY <1>4, <2>6 DEF TaskMoves, TaskStep, Claim, Cancel, Answer, Miss, Abandon, Check, Remember,
           TaskPanic, Release, Emit, Text, displayVars
    <3> QED
      BY <2>1, <2>4, <3>1 DEF SaidInv
  <2> QED
    BY <2>5, <2>6
<1>5. CASE UNCHANGED vars
  BY <1>5 DEF vars, SaidInv
<1> QED
  BY <1>1, <1>2, <1>3, <1>4, <1>5 DEF Next, TaskMoves, Exhausted

LEMMA RecentStep ==
  ASSUME Faults = {}, IInv, KeptInv, RegionInv, SaidInv, RecentInv, [Next]_vars
  PROVE  RecentInv'
<1> DEFINE Rests == lpc # "off" /\ session = ls /\ ls \notin told /\ setter = "idle"
                    /\ seen = <<moves, moves>>
           Handled == \A l \in recent : l \in said \/ Flying(l)
<1>0. /\ task \in [SessionIds -> Tasks] /\ ls \in SessionIds /\ session \in SessionIds
      /\ SessionIds \subseteq Nat /\ ls <= session /\ moves \in Nat /\ TypeOK /\ moves <= MaxMoves
      /\ MaxMoves \in Nat
  BY Bounds DEF IInv, TypeOK, SessionIds, Places, ControlInv
<1>h. (lpc # "off" /\ seen = NoRect => recent = {}) /\ (Rests => Handled)
  BY DEF RecentInv
<1>g. ASSUME lpc' # "off" /\ seen' = NoRect => recent' = {}, Rests' => Handled'
      PROVE  RecentInv'
  BY <1>g DEF RecentInv
<1>1. CASE Control
  <2>1. CASE StartSession
    <3>1. seen' = NoRect /\ recent' = {}
      BY <2>1 DEF StartSession
    <3> QED
      BY <3>1, <1>g
  <2>2. CASE ~StartSession
    <3>1. UNCHANGED <<lpc, seen, recent>>
      BY <1>1, <2>2 DEF Control, StartCapture, StartTranslation, StopSession,
                StopCapture, StopTranslation, StopTell, StopReturn, loopVars
    <3>2. ~Rests' \/ (Rests /\ UNCHANGED <<task, moves, said>>)
      <4>1. UNCHANGED <<ls, lpc, seen, task, moves, setter>> /\ (ls \notin told' => ls \notin told)
        BY <1>1, <2>2 DEF Control, StartCapture, StartTranslation, StopSession, StopCapture,
             StopTranslation, StopTell, StopReturn, loopVars, regionVars, ctlVars
      <4>2. session' = session \/ ls < session'
        BY <1>0, <1>1, <2>2 DEF Control, StartCapture, StartTranslation,
                StopSession, StopCapture, StopTranslation, StopTell, StopReturn, clockVars
      <4>3. said' = said
        BY <1>1, <2>2 DEF Control, StartCapture, StartTranslation,
                StopSession, StopCapture, StopTranslation, StopTell, StopReturn, displayVars
      <4>4. ls < session' => ls' # session'
        BY <1>0, <4>1
      <4> QED
        BY <4>1, <4>2, <4>3, <4>4
    <3>3. ls' = ls
      BY <1>1, <2>2 DEF Control, StartCapture, StartTranslation, StopSession, StopCapture,
             StopTranslation, StopTell, StopReturn, loopVars
    <3>4. Rests' => Handled'
      BY <1>h, <3>1, <3>2, <3>3 DEF Flying
    <3> QED
      BY <1>h, <3>1, <3>4, <1>g
  <2> QED
    BY <2>1, <2>2
<1>2. CASE MoveRegion
  <2>1. UNCHANGED <<lpc, seen, recent>>
    BY <1>2, MoveKeeps
  <2>2. ~Rests'
    <3>1. CASE setter' # "idle"
      BY <3>1
    <3>2. CASE setter' = "idle"
      <4>1. moves' = moves + 1
        BY <1>2, <3>2 DEF MoveRegion, SetRegion, SetScale, InvalidateCapture, InvalidateTranslation,
                          SetterGoto
      <4>2. moves' \in Places
        BY <1>2, <4>1, TypeStep DEF IInv, TypeOK, Next
      <4>3. seen # NoRect => seen[1] <= moves /\ seen[1] \in Nat
        BY Bounds DEF RegionInv, IInv, TypeOK, Places
      <4>4. seen = <<moves', moves'>> => seen # NoRect
        BY <1>0, <4>2 DEF NoRect, Places
      <4> QED
        BY <1>0, <2>1, <4>1, <4>3, <4>4
    <3> QED
      BY <3>1, <3>2
  <2> QED
    BY <1>h, <1>g, <2>1, <2>2
<1>3. CASE Loop
  <2>1. UNCHANGED <<session, told, moves, setter, ls>>
    BY <1>3, LoopKeeps
  <2>2. lpc' # "off" => lpc # "off"
    BY <1>3 DEF Loop, LoopRegion, LoopScale, LoopToken, LoopCapture, LoopOcr, LoopQuiet,
           LoopUnreadable, LoopLine, LoopSpawn, LoopLeave, LoopGiveUp, LoopGoto
  <2>3. CASE LoopToken
    <3>1. seen' = rect /\ UNCHANGED task
      BY <2>3 DEF LoopToken
    <3>2. CASE RegionChanged
      BY <2>3, <3>2, <1>g DEF LoopToken
    <3>3. CASE ~RegionChanged
      <4>1. recent' = recent /\ said' = said /\ (seen = NoRect \/ seen' = seen)
        BY <2>3, <3>1, <3>3 DEF LoopToken, RegionChanged
      <4>2. CASE seen = NoRect
        BY <1>h, <2>2, <4>1, <4>2, <1>g
      <4>3. CASE seen' = seen
        <5>1. Rests' => Handled'
          BY <1>h, <2>1, <2>2, <3>1, <4>1, <4>3 DEF Flying
        <5> QED
          BY <1>h, <2>2, <4>1, <4>3, <5>1, <1>g
      <4> QED
        BY <4>1, <4>2, <4>3
    <3> QED
      BY <3>2, <3>3
  <2>4. CASE LoopSpawn
    <3>1. lpc = "spawn" /\ UNCHANGED <<seen, said, read>>
      BY <2>4 DEF LoopSpawn, LoopGoto, displayVars
    <3>2. seen # NoRect
      BY <3>1 DEF IInv, FreshInv, Framed
    <3>3. CASE Busy
      <4>1. UNCHANGED <<recent, task>>
        BY <2>4, <3>3 DEF LoopSpawn
      <4>2. Rests' => Handled'
        BY <1>h, <2>1, <2>2, <3>1, <4>1 DEF Flying
      <4> QED
        BY <3>1, <3>2, <4>2, <1>g
    <3>4. CASE ~Busy
      <4>1. recent' = recent \cup {read} /\ task'[ls].pc = "spawned" /\ task'[ls].line = read
        BY <1>0, <2>4, <3>4 DEF LoopSpawn
      <4>2. task[ls].pc = "none"
        BY <3>4 DEF Busy
      <4>3. Flying(read)'
        BY <2>1, <3>1, <4>1 DEF Flying
      <4>4. Rests' => \A l \in recent : l \in said
        BY <1>h, <2>1, <2>2, <3>1, <4>2 DEF Flying
      <4>5. Rests' => Handled'
        BY <3>1, <4>1, <4>3, <4>4
      <4> QED
        BY <3>1, <3>2, <4>5, <1>g
    <3> QED
      BY <3>3, <3>4
  <2>5. CASE ~LoopToken /\ ~LoopSpawn
    <3>1. UNCHANGED <<seen, task>>
      BY <1>3, <2>5 DEF Loop, LoopRegion, LoopScale, LoopCapture, LoopOcr, LoopQuiet,
           LoopUnreadable, LoopLine, LoopLeave, LoopGiveUp
    <3>2. recent' = {} \/ (recent' \subseteq recent /\ said' = said)
      BY <1>3, <2>5 DEF Loop, LoopRegion, LoopScale, LoopCapture, LoopOcr, LoopQuiet,
           LoopUnreadable, LoopLine, Kept, LoopLeave, LoopGiveUp, displayVars
    <3>3. Rests' => Handled'
      BY <1>h, <2>1, <2>2, <3>1, <3>2 DEF Flying
    <3>4. lpc' # "off" /\ seen' = NoRect => recent' = {}
      BY <1>h, <2>2, <3>1, <3>2
    <3> QED
      BY <3>3, <3>4, <1>g
  <2> QED
    BY <2>3, <2>4, <2>5
<1>4. ASSUME NEW s \in SessionIds, TaskMoves(s) PROVE RecentInv'
  <2>1. UNCHANGED <<session, told, moves, setter, lpc, ls, seen, recent>>
    BY <1>4, TaskKeeps
  <2>2. lpc' # "off" /\ seen' = NoRect => recent' = {}
    BY <1>h, <2>1
  <2>3. CASE s # ls
    <3>1. task'[ls] = task[ls]
      BY <1>0, <1>4, <2>3, TaskStays
    <3>2. said' = said
      BY <1>4, <2>3 DEF TaskMoves, TaskStep, Claim, Cancel, Answer, Miss, Abandon, Check, Remember,
           Publish, TaskPanic, Release, displayVars
    <3>3. Rests' => Handled'
      BY <1>h, <2>1, <3>1, <3>2 DEF Flying
    <3> QED
      BY <2>2, <3>3, <1>g
  <2>4. CASE s = ls
    <3> SUFFICES ASSUME Rests', NEW l \in recent PROVE l \in said' \/ Flying(l)'
      BY <2>1, <2>2, <1>g
    <3>1. l \in said \/ Flying(l)
      BY <1>h, <2>1
    <3>2. said \subseteq said'
      BY <1>4 DEF TaskMoves, TaskStep, Claim, Cancel, Answer, Miss, Abandon, Check, Remember,
           Publish, TaskPanic, Release, displayVars
    <3> SUFFICES ASSUME Flying(l) PROVE l \in said' \/ Flying(l)'
      BY <3>1, <3>2
    <3>3. ~Told(s)
      BY <2>1, <2>4 DEF Told
    <3>4. task[s].pc = "answered" => Wanted(s)
      BY <2>1, <2>4, <3>3 DEF Flying, KeptInv, Wanted
    <3>5. Publish(s) => task[s].line \in said'
      <4>1. Publish(s) => task[s].backend = "engine"
        BY DEF Publish, TaskGoto, SaidInv
      <4> QED
        BY <2>4, <4>1 DEF Publish
    <3> QED
      BY <1>0, <1>4, <2>1, <2>4, <3>3, <3>4, <3>5, TaskGoesOn DEF Flying
  <2> QED
    BY <2>3, <2>4
<1>5. CASE UNCHANGED vars
  <2>1. RecentInv' <=> RecentInv
    BY <1>5 DEF vars, RecentInv, Flying
  <2> QED
    BY <2>1
<1> QED
  BY <1>1, <1>2, <1>3, <1>4, <1>5 DEF Next, TaskMoves, Exhausted

LEMMA SkipInit == Init => SkipInv
<1> SUFFICES ASSUME Init PROVE SkipInv
  OBVIOUS
<1>1. \A s \in SessionIds : task[s].pc = "none"
  BY DEF Init, NoTask
<1>2. RegionInv
  BY DEF Init, RegionInv, Framed
<1> QED
  BY <1>1, <1>2 DEF Init, SkipInv, SaidInv, RecentInv

\* Where nothing goes wrong with the engine or the runtime, a line that the
\* loop skips as a repeat has been on screen since the lines were last
\* forgotten and the screen is not blank, or its translation is on the way,
\* however the region moves and sessions follow each other. That the line is
\* the one on screen, as pipeline_repeat_policy.rs:24 says, does not follow:
\* another line may have replaced it.
THEOREM SkippedWasSaid ==
  ASSUME Faults = {}
  PROVE  Spec => []SkipMeansSaid
<1>1. IInv /\ PolledInv /\ KeptInv /\ SkipInv /\ [Next]_vars => SkipInv'
  BY RegionStep, SaidStep, RecentStep DEF SkipInv
<1>2. IInv /\ SkipInv => SkipMeansSaid
  <2> SUFFICES ASSUME IInv, SkipInv, SkipsRepeat
               PROVE  Underway \/ (read \in said /\ shown # Blank)
    BY DEF SkipMeansSaid
  <2>1. seen = <<moves, moves>> /\ session = ls /\ ls \notin told
    BY DEF SkipsRepeat, SkipInv, RegionInv, Framed, Told, TokenCurrent
  <2>2. read \in said \/ Flying(read)
    BY <2>1 DEF SkipsRepeat, SkipInv, RecentInv
  <2>3. said # {} => shown # Blank
    BY <2>1 DEF SkipsRepeat, SkipInv, SaidInv
  <2>4. Flying(read) => Underway
    BY DEF Flying, Underway, Busy
  <2> QED
    BY <2>2, <2>3, <2>4
<1>3. Spec => [](IInv /\ PolledInv /\ KeptInv)
  BY KeptAlways
<1> QED
  BY SkipInit, <1>1, <1>2, <1>3, PTL DEF Spec
=============================================================================
