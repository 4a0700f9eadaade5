------------------------ MODULE TranslationPipeline -------------------------
(***************************************************************************)
(* The live pipeline: the capture loop (commands.rs:540-842), the single   *)
(* translation slot (pipeline_translation.rs), the pipeline clock          *)
(* (pipeline_session.rs), the region and its scale (app_state.rs), the     *)
(* notices, and the overlay that accepts or drops what is emitted          *)
(* (pipeline-update.js, overlay.js).                                       *)
(*                                                                         *)
(* Every step is one atomic access to what another task may see.  Start    *)
(* and Stop are serialized here; SessionLifecycle shows that they are.     *)
(* Recent-line context is off, as it is by default.                        *)
(***************************************************************************)
EXTENDS Naturals, FiniteSets

CONSTANTS
  Lines,               \* subtitle lines that pass the gate
  EmptyClearFrames,    \* EMPTY_OCR_CLEAR_FRAMES
  MaxSessionId,        \* bound on session ids
  MaxCaptures,         \* bound on the captures of a session
  MaxMoves,            \* bound on the calls of set_capture_region
  Faults               \* what may go wrong, of AllFaults

\* "deadline": the engine misses the five seconds of a line.  "mock": the
\* mock backend answers in its place.  "panic": a translation task panics and
\* the build unwinds (a release build aborts).  "repeat": the user confirms the
\* region already set.  "starve": a spawned translation task is not polled
\* until after a Stop.
AllFaults == {"deadline", "mock", "panic", "repeat", "starve"}

ASSUME PipelineAssumption ==
  /\ {EmptyClearFrames, MaxSessionId, MaxCaptures, MaxMoves} \subseteq Nat
  /\ Faults \subseteq AllFaults
  /\ Lines \cap {"empty", "held", "junk", "blank"} = {}

Blank == "blank"
SessionIds == 0..MaxSessionId
Places == 0..MaxMoves            \* a region, or the scale it was measured at
NoRect == <<MaxMoves + 1, MaxMoves + 1>>

\* What OCR and the band filter make of a frame.
Reads == Lines \cup {"empty", "held", "junk"}

VARIABLES
  session, capture, translation,  \* PipelineClock
  ctl, stopId,                    \* where Start or Stop is; id that Stop drew
  told,                           \* sessions whose watch channel carries TRUE
  region, scale, moves, setter,   \* the region, and where a call that sets it is
  lpc, ls,                        \* where the capture loop is; its session id
  rect, seen, token, read,        \* the frame it works on; the last region seen
  recent,                         \* RecentLines
  showing, empties,               \* Notices
  mock,                           \* last_backend_was_mock of each translator
  task,                           \* the translation task of each session
  last, shown, said               \* the overlay: last position accepted, text on
                                  \* show, lines shown since recent was cleared

clockVars == <<session, capture, translation>>
ctlVars == <<ctl, stopId, told>>
regionVars == <<region, scale, moves, setter>>
loopVars == <<lpc, ls, rect, seen, token, read, recent, showing, empties>>
displayVars == <<last, shown, said>>
vars == <<session, capture, translation, ctl, stopId, told, region, scale,
          moves, setter, lpc, ls, rect, seen, token, read, recent, showing,
          empties, mock, task, last, shown, said>>

NoTask == [pc |-> "none"]

Stages == {"spawned", "running", "late", "answered", "fresh", "noted", "leaving"}

\* A translation task: its frame, the id it claimed, the moves completed when
\* it did, and the backend that answered.
TaskRecords ==
  [pc : Stages, line : Lines, capture : Nat, rect : Places \X Places, id : Nat,
   moves : Places, backend : {"none", "engine", "mock"}]
Tasks == {NoTask} \cup TaskRecords

TypeOK ==
  /\ session \in SessionIds /\ capture \in Nat /\ translation \in Nat
  /\ ctl \in {"idle", "begin_translation", "begin_session",
              "inv_session", "inv_capture", "inv_translation", "tell", "wait"}
  /\ stopId \in SessionIds /\ told \subseteq SessionIds
  /\ region \in Places /\ scale \in Places /\ moves \in Places
  /\ setter \in {"idle", "region", "scale", "capture"}
  /\ lpc \in {"off", "top", "scale", "token", "capture", "ocr", "decide", "spawn", "leave"}
  /\ ls \in SessionIds
  /\ rect \in Places \X Places
  /\ seen \in (Places \X Places) \cup {NoRect}
  /\ token \in Nat /\ read \in Reads
  /\ recent \subseteq Lines
  /\ showing \in {"none", "empty", "held", "junk"}
  /\ empties \in 0..EmptyClearFrames
  /\ mock \in [SessionIds -> BOOLEAN]
  /\ task \in [SessionIds -> Tasks]
  /\ last \in SessionIds \X Nat
  /\ shown \in Lines \cup {Blank} /\ said \subseteq Lines

Init ==
  /\ session = 0 /\ capture = 0 /\ translation = 0
  /\ ctl = "idle" /\ stopId = 0 /\ told = {}
  /\ region = 0 /\ scale = 0 /\ moves = 0 /\ setter = "idle"
  /\ lpc = "off" /\ ls = 0 /\ rect = <<0, 0>> /\ seen = NoRect /\ token = 0
  /\ read = "empty" /\ recent = {} /\ showing = "none" /\ empties = 0
  /\ mock = [s \in SessionIds |-> TRUE]
  /\ task = [s \in SessionIds |-> NoTask]
  /\ last = <<0, 0>> /\ shown = Blank /\ said = {}

-----------------------------------------------------------------------------
(* The overlay                                                             *)

\* (mutant) the session is not compared.
AcceptAnySession(s, c) == c > last[2] \/ s > last[1]

\* Strictly newer than the last accepted update.
ShouldAccept(s, c) == s > last[1] \/ (s = last[1] /\ c > last[2])

\* Text that a display state leaves on show.
Text(state, line) == CASE state = "translated" -> line
                       [] state \in {"engineSlow", "sourceUnreadable"} -> shown
                       [] OTHER -> Blank

\* A translation-update event; the events arrive in the order of emission.
Emit(s, c, state, line) ==
  IF ShouldAccept(s, c) THEN last' = <<s, c>> /\ shown' = Text(state, line)
                        ELSE UNCHANGED <<last, shown>>

-----------------------------------------------------------------------------
(* Start and Stop                                                          *)

ControlGoto(from, to) == ctl = from /\ ctl' = to

\* begin_session: three stores, each seen on its own.
StartCapture ==
  /\ lpc = "off" /\ session + 1 < MaxSessionId
  /\ ControlGoto("idle", "begin_translation")
  /\ capture' = 0
  /\ UNCHANGED <<session, translation, stopId, told, mock, task>>
  /\ UNCHANGED regionVars /\ UNCHANGED loopVars /\ UNCHANGED displayVars

StartTranslation ==
  /\ ControlGoto("begin_translation", "begin_session")
  /\ translation' = 0
  /\ UNCHANGED <<session, capture, stopId, told, mock, task>>
  /\ UNCHANGED regionVars /\ UNCHANGED loopVars /\ UNCHANGED displayVars

\* The session id is drawn, and a capture loop with fresh state is spawned.
StartSession ==
  /\ ControlGoto("begin_session", "idle")
  /\ session' = session + 1 /\ ls' = session + 1
  /\ lpc' = "top" /\ seen' = NoRect /\ recent' = {} /\ showing' = "none"
  /\ empties' = 0 /\ said' = {}
  /\ UNCHANGED <<capture, translation, stopId, told, rect, token, read, mock,
                 task, last, shown>>
  /\ UNCHANGED regionVars

\* invalidate_session: three increments.
StopSession ==
  /\ session < MaxSessionId
  /\ ControlGoto("idle", "inv_capture")
  /\ session' = session + 1 /\ stopId' = session + 1
  /\ UNCHANGED <<capture, translation, told, mock, task>>
  /\ UNCHANGED regionVars /\ UNCHANGED loopVars /\ UNCHANGED displayVars

StopCapture ==
  /\ ControlGoto("inv_capture", "inv_translation")
  /\ capture' = capture + 1
  /\ UNCHANGED <<session, translation, stopId, told, mock, task>>
  /\ UNCHANGED regionVars /\ UNCHANGED loopVars /\ UNCHANGED displayVars

StopTranslation ==
  /\ ControlGoto("inv_translation", "tell")
  /\ translation' = translation + 1
  /\ UNCHANGED <<session, capture, stopId, told, mock, task>>
  /\ UNCHANGED regionVars /\ UNCHANGED loopVars /\ UNCHANGED displayVars

StopTell ==
  /\ ControlGoto("tell", "wait")
  /\ told' = told \cup ({ls} \ {0})
  /\ UNCHANGED <<stopId, mock, task>> /\ UNCHANGED clockVars
  /\ UNCHANGED regionVars /\ UNCHANGED loopVars /\ UNCHANGED displayVars

\* The capture loop has exited and the overlay is hidden; "stopped" goes out
\* under the id that Stop drew.  The translation task is not waited for.
StopReturn ==
  /\ ControlGoto("wait", "idle")
  /\ lpc = "off"
  /\ "starve" \in Faults \/ \A s \in SessionIds : task[s].pc # "spawned"
  /\ Emit(stopId, 0, "stopped", Blank)
  /\ UNCHANGED <<said, stopId, told, mock, task>> /\ UNCHANGED clockVars
  /\ UNCHANGED regionVars /\ UNCHANGED loopVars

Control == \/ StartCapture \/ StartTranslation \/ StartSession
           \/ StopSession \/ StopCapture \/ StopTranslation \/ StopTell
           \/ StopReturn

-----------------------------------------------------------------------------
(* set_capture_region                                                      *)

SetterGoto(from, to) == setter = from /\ setter' = to

\* The region lock is held from here to the end of the call.
SetRegion ==
  /\ SetterGoto("idle", "region")
  /\ moves < MaxMoves
  /\ \/ region' = moves + 1
     \/ "repeat" \in Faults /\ region' = region
  /\ UNCHANGED <<scale, moves, mock, task>> /\ UNCHANGED clockVars
  /\ UNCHANGED ctlVars /\ UNCHANGED loopVars /\ UNCHANGED displayVars

\* The scale lock is taken; the scale is the one of the region.
SetScale ==
  /\ SetterGoto("region", "scale")
  /\ scale' = region
  /\ UNCHANGED <<region, moves, mock, task>> /\ UNCHANGED clockVars
  /\ UNCHANGED ctlVars /\ UNCHANGED loopVars /\ UNCHANGED displayVars

\* invalidate_capture: two increments, under both locks.
InvalidateCapture ==
  /\ SetterGoto("scale", "capture")
  /\ capture' = capture + 1
  /\ UNCHANGED <<region, scale, moves, session, translation, mock, task>>
  /\ UNCHANGED ctlVars /\ UNCHANGED loopVars /\ UNCHANGED displayVars

InvalidateTranslation ==
  /\ SetterGoto("capture", "idle")
  /\ translation' = translation + 1
  /\ moves' = moves + 1
  /\ UNCHANGED <<region, scale, session, capture, mock, task>>
  /\ UNCHANGED ctlVars /\ UNCHANGED loopVars /\ UNCHANGED displayVars

MoveRegion == SetRegion \/ SetScale \/ InvalidateCapture \/ InvalidateTranslation

-----------------------------------------------------------------------------
(* The capture loop                                                        *)

Told(s) == s \in told
Busy == task[ls].pc # "none"
TokenCurrent == session = ls /\ capture = token
LoopGoto(from, to) == lpc = from /\ lpc' = to

\* What the steps of the loop never touch.
LoopFrame == UNCHANGED <<session, translation, ctl, stopId, told, region, scale,
                         moves, setter, ls>>

\* The region is read under its lock.
LoopRegion ==
  /\ lpc = "top"
  /\ IF Told(ls) THEN lpc' = "leave" /\ UNCHANGED rect
     ELSE /\ setter = "idle"
          /\ lpc' = "scale" /\ rect' = <<region, rect[2]>>
  /\ UNCHANGED <<capture, seen, token, read, recent, showing, empties, mock, task>>
  /\ LoopFrame /\ UNCHANGED displayVars

\* Its lock is released before the one of the scale is taken.
LoopScale ==
  /\ LoopGoto("scale", "token")
  /\ setter \in {"idle", "region"}
  /\ rect' = <<rect[1], scale>>
  /\ UNCHANGED <<capture, seen, token, read, recent, showing, empties, mock, task>>
  /\ LoopFrame /\ UNCHANGED displayVars

RegionChanged == seen # NoRect /\ seen # rect

LoopToken ==
  /\ LoopGoto("token", "capture")
  /\ capture < MaxCaptures \/ Told(ls)
  /\ IF RegionChanged
     THEN recent' = {} /\ said' = {} /\ mock' = [mock EXCEPT ![ls] = TRUE]
     ELSE UNCHANGED <<recent, said, mock>>
  /\ seen' = rect
  /\ capture' = capture + 1 /\ token' = capture + 1
  /\ UNCHANGED <<rect, read, showing, empties, task, last, shown>>
  /\ LoopFrame

\* The frame is taken, or the capture failed; then stop and staleness.
LoopCapture ==
  /\ lpc = "capture"
  /\ \/ lpc' = "top"
     \/ lpc' = IF Told(ls) THEN "leave" ELSE IF TokenCurrent THEN "ocr" ELSE "top"
  /\ UNCHANGED <<capture, rect, seen, token, read, recent, showing, empties,
                 mock, task>>
  /\ LoopFrame /\ UNCHANGED displayVars

\* Recognition was awaited: stop and staleness again, and OCR may have failed.
LoopOcr ==
  /\ lpc = "ocr"
  /\ \/ /\ Told(ls) /\ lpc' = "leave" /\ UNCHANGED read
     \/ lpc' = "top" /\ UNCHANGED read
     \/ /\ ~Told(ls) /\ TokenCurrent
        /\ lpc' = "decide" /\ read' \in Reads
  /\ UNCHANGED <<capture, rect, seen, token, recent, showing, empties, mock, task>>
  /\ LoopFrame /\ UNCHANGED displayVars

\* (mutant) busy is not consulted.
QuietNoticeLoud ==
  /\ empties + 1 >= EmptyClearFrames
  /\ showing # read

\* A frame without usable text.
\* Notices::quiet_region: settled, nothing in flight, and a change of notice.
QuietNotice ==
  /\ empties + 1 >= EmptyClearFrames
  /\ ~Busy
  /\ showing # read

\* The payload of a quiet region says which kind of nothing was read.
RegionQuiet(quiet) == IF quiet = "held" THEN "sourceUnreadable" ELSE "noSubtitleText"

\* (mutant) the count of empty frames does not saturate.
LoopQuietCounts ==
  /\ LoopGoto("decide", "top")
  /\ read \in {"empty", "held"}
  /\ empties' = empties + 1
  /\ UNCHANGED <<capture, rect, seen, token, read, showing, recent, mock, task>>
  /\ LoopFrame /\ UNCHANGED displayVars

LoopQuiet ==
  /\ LoopGoto("decide", "top")
  /\ read \in {"empty", "held"}
  /\ empties' = IF empties < EmptyClearFrames THEN empties + 1 ELSE empties
  /\ IF QuietNotice
     THEN /\ showing' = read /\ recent' = {} /\ said' = {}
          /\ Emit(ls, token, RegionQuiet(read), Blank)
     ELSE UNCHANGED <<showing, recent>> /\ UNCHANGED displayVars
  /\ UNCHANGED <<capture, rect, seen, token, read, mock, task>>
  /\ LoopFrame

\* The gate refuses the line: Notices::saw_text, then unreadable_source.
LoopUnreadable ==
  /\ LoopGoto("decide", "top")
  /\ read = "junk"
  /\ empties' = 0
  /\ IF ~Busy /\ showing # "junk"
     THEN showing' = "junk" /\ Emit(ls, token, "sourceUnreadable", Blank)
     ELSE UNCHANGED <<showing, last, shown>>
  /\ UNCHANGED <<capture, rect, seen, token, read, recent, said, mock, task>>
  /\ LoopFrame

\* RecentLines: lines go that are older than its window or pushed out by others.
Kept == SUBSET recent

\* RecentLines and ocr_stability, classify: the read is one of these lines, read
\* again; what counts as the same line is one line here.
Repeats(line, remembered) == line \in remembered

\* The repeat policy: a passthrough is tried again, once its cooldown is over.
RetriesPassthrough == mock[ls]

\* A new line goes on to the slot, a repeat is skipped or retried.
LoopLine ==
  /\ lpc = "decide" /\ read \in Lines
  /\ empties' = 0
  /\ recent' \in Kept
  /\ \/ ~Repeats(read, recent') /\ lpc' = "spawn"
     \/ Repeats(read, recent') /\ lpc' = "top"
     \/ Repeats(read, recent') /\ RetriesPassthrough /\ lpc' = "spawn"
  /\ UNCHANGED <<capture, rect, seen, token, read, showing, mock, task>>
  /\ LoopFrame /\ UNCHANGED displayVars

\* try_spawn; what records the line as handled follows only if it took it.
LoopSpawn ==
  /\ LoopGoto("spawn", "top")
  /\ IF Busy THEN UNCHANGED <<recent, showing, empties, task>>
     ELSE /\ task' = [task EXCEPT ![ls] =
                 [pc |-> "spawned", line |-> read, capture |-> token, rect |-> rect,
                  id |-> 0, moves |-> 0, backend |-> "none"]]
          /\ recent' = recent \cup {read}
          /\ showing' = "none" /\ empties' = 0
  /\ UNCHANGED <<capture, rect, seen, token, read, mock>>
  /\ LoopFrame /\ UNCHANGED displayVars

LoopLeave ==
  /\ LoopGoto("leave", "off")
  /\ IF session = ls THEN capture' = capture + 1 /\ Emit(ls, capture + 1, "stopped", Blank)
     ELSE UNCHANGED <<capture, last, shown>>
  /\ UNCHANGED <<rect, seen, token, read, recent, showing, empties, said, mock, task>>
  /\ LoopFrame

\* OCR could not be opened: the loop's guard runs and nothing is emitted.
LoopGiveUp ==
  /\ LoopGoto("top", "off")
  /\ seen = NoRect
  /\ UNCHANGED <<capture, rect, seen, token, read, recent, showing, empties,
                 mock, task>>
  /\ LoopFrame /\ UNCHANGED displayVars

Loop == \/ LoopRegion \/ LoopScale \/ LoopToken \/ LoopCapture \/ LoopOcr
        \/ LoopQuiet \/ LoopUnreadable \/ LoopLine \/ LoopSpawn
        \/ LoopLeave \/ LoopGiveUp

-----------------------------------------------------------------------------
(* The translation task of session s                                       *)

TaskFrame == /\ UNCHANGED <<session, capture>>
             /\ UNCHANGED ctlVars /\ UNCHANGED regionVars /\ UNCHANGED loopVars

TaskGoto(s, from, to) ==
  task[s].pc = from /\ task' = [task EXCEPT ![s].pc = to]

\* The first poll: begin_translation.
Claim(s) ==
  /\ task[s].pc = "spawned"
  /\ translation' = translation + 1
  /\ task' = [task EXCEPT ![s].pc = "running", ![s].id = translation + 1,
                          ![s].moves = moves]
  /\ UNCHANGED mock /\ TaskFrame /\ UNCHANGED displayVars

\* The select is biased to the stop signal.
Cancel(s) ==
  /\ Told(s)
  /\ TaskGoto(s, "running", "leaving")
  /\ UNCHANGED <<translation, mock>> /\ TaskFrame /\ UNCHANGED displayVars

Answer(s) ==
  /\ ~Told(s)
  /\ task[s].pc = "running"
  /\ \E b \in {"engine"} \cup ({"mock"} \cap Faults) :
       task' = [task EXCEPT ![s].pc = "answered", ![s].backend = b]
  /\ UNCHANGED <<translation, mock>> /\ TaskFrame /\ UNCHANGED displayVars

Miss(s) ==
  /\ "deadline" \in Faults /\ ~Told(s)
  /\ TaskGoto(s, "running", "late")
  /\ UNCHANGED <<translation, mock>> /\ TaskFrame /\ UNCHANGED displayVars

Abandon(s) ==
  /\ TaskGoto(s, "late", "leaving")
  /\ Emit(s, task[s].capture, "engineSlow", Blank)
  /\ UNCHANGED <<translation, mock, said>> /\ TaskFrame

\* (mutant) a newer capture makes the answer stale.
WantedNewest(s) ==
  ~Told(s) /\ session = s /\ translation = task[s].id /\ capture = task[s].capture

\* (mutant) a newer translation or a moved region is not looked for.
WantedAnyway(s) == ~Told(s) /\ session = s

\* Is the answer still wanted?
Wanted(s) == ~Told(s) /\ session = s /\ translation = task[s].id

Check(s) ==
  /\ TaskGoto(s, "answered", IF Wanted(s) THEN "fresh" ELSE "leaving")
  /\ UNCHANGED <<translation, mock>> /\ TaskFrame /\ UNCHANGED displayVars

Remember(s) ==
  /\ TaskGoto(s, "fresh", "noted")
  /\ mock' = [mock EXCEPT ![s] = task[s].backend = "mock"]
  /\ UNCHANGED translation /\ TaskFrame /\ UNCHANGED displayVars

\* after_fallback: the plain source, or an engine that timed out; other failures
\* leave the overlay as the plain source does.
AfterFallback == {"sourceOnly", "engineSlow"}

Publish(s) ==
  /\ TaskGoto(s, "noted", "leaving")
  /\ \E state \in IF task[s].backend = "mock" THEN AfterFallback ELSE {"translated"} :
       Emit(s, task[s].capture, state, task[s].line)
  /\ said' = IF task[s].backend = "engine" /\ s = ls THEN said \cup {task[s].line} ELSE said
  /\ UNCHANGED <<translation, mock>> /\ TaskFrame

TaskPanic(s) ==
  /\ "panic" \in Faults
  /\ TaskGoto(s, "running", "leaving")
  /\ UNCHANGED <<translation, mock>> /\ TaskFrame /\ UNCHANGED displayVars

\* (mutant) the flag is not cleared by a drop guard but at the end of run.
ReleaseEnd(s) ==
  /\ task[s].pc = "leaving" /\ task[s].backend # "none"
  /\ task' = [task EXCEPT ![s] = NoTask]
  /\ UNCHANGED <<translation, mock>> /\ TaskFrame /\ UNCHANGED displayVars

\* However the task ends, its guard clears in_flight.
Release(s) ==
  /\ task[s].pc = "leaving"
  /\ task' = [task EXCEPT ![s] = NoTask]
  /\ UNCHANGED <<translation, mock>> /\ TaskFrame /\ UNCHANGED displayVars

\* The steps of a task that do not wait for the engine.
TaskStep(s) == \/ Claim(s) \/ Cancel(s) \/ Miss(s) \/ Abandon(s) \/ Check(s)
               \/ Remember(s) \/ Publish(s) \/ Release(s)

\* Both sessions allowed have ended: the bound is reached.
Exhausted ==
  /\ session = MaxSessionId /\ ctl = "idle" /\ lpc = "off"
  /\ UNCHANGED vars

Next == \/ Control \/ MoveRegion \/ Loop
        \/ \E s \in SessionIds : TaskStep(s) \/ Answer(s) \/ TaskPanic(s)
        \/ Exhausted

\* The runtime polls a task that can run; an engine owes no answer.
Spec == Init /\ [][Next]_vars /\ \A s \in SessionIds : WF_vars(TaskStep(s))

-----------------------------------------------------------------------------
(* Properties                                                              *)

\* After Stop has returned and until the next Start, the overlay stays blank:
\* what an older session still emits is refused (pipeline-update.js:24-31).
StoppedStaysBlank == (ctl = "idle" /\ ls # 0 /\ session > ls) => shown = Blank

\* While a line is being translated no notice takes its place in the order, so
\* the overlay accepts its translation (pipeline_notices.rs:58,79).
NoTranslationOutrun ==
  \A s \in SessionIds :
    (task[s].pc \notin {"none", "leaving"} /\ session = s)
      => ShouldAccept(s, task[s].capture)

\* A line claimed before a move of the region that has completed is dropped
\* (pipeline_translation.rs:258-269).
ClaimedThenMovedIsDropped ==
  [][\A s \in SessionIds :
       (task[s].pc = "answered" /\ task'[s].pc = "fresh")
         => task[s].moves = moves]_vars

\* An answer is thrown away only when its session was stopped or its region
\* moved: newer captures do not make it stale (pipeline_translation.rs:19).
DiscardOnlyWhenUnwanted ==
  [][\A s \in SessionIds :
       (task[s].pc = "answered" /\ task'[s].pc = "leaving")
         => Told(s) \/ session # s \/ moves # task[s].moves]_vars

\* A read that the loop skips as a repeat, of a frame of the present region and
\* in a session not told to stop.
SkipsRepeat ==
  /\ lpc = "decide" /\ read \in recent /\ ~mock[ls]
  /\ ~Told(ls) /\ TokenCurrent /\ setter = "idle" /\ rect = <<region, scale>>
Underway == Busy /\ task[ls].line = read /\ task[ls].pc # "leaving"

\* A repeat is skipped only when the line on screen says it or its translation
\* is on the way (pipeline_repeat_policy.rs:24).  The code does not keep this: a
\* line that missed its deadline is remembered, and so is one that another line
\* has replaced on the screen.
SkipMeansShown == SkipsRepeat => Underway \/ shown = read

\* What holds of a skipped repeat when nothing fails: it has been on screen
\* since the lines were last forgotten, and the screen is not blank.  Another
\* line may have replaced it: the loop compares a read with the last four lines
\* it handed over (ocr_recent_lines.rs:58-81).
SkipMeansSaid == SkipsRepeat => Underway \/ (read \in said /\ shown # Blank)

\* An answer accepted while the region is at rest was framed against it
\* (pipeline_translation.rs:19-21).
ShownIsOfThisRegion ==
  [][\A s \in SessionIds :
       (task[s].pc = "answered" /\ task'[s].pc = "fresh" /\ setter = "idle")
         => task[s].rect = <<region, scale>>]_vars

\* The slot is given back whatever the engine does (pipeline_translation.rs:49).
SlotReleased ==
  \A s \in SessionIds : (task[s].pc # "none") ~> (task[s].pc = "none")
=============================================================================
