---------------------------- MODULE ScreenCapture ----------------------------
(***************************************************************************)
(* How the capture loop gets its images: a session of the operating system *)
(* that delivers a frame when the screen changes, its restart, and what    *)
(* is used instead.  A screenshot for the selector shares the session.     *)
(* Source: capture/graphics_capture.rs, capture/mod.rs, commands.rs.       *)
(***************************************************************************)
EXTENDS Naturals, Sequences

CONSTANTS
  PoolSize,   \* frames the session may have on their way: 2 in the code
  MaxChanges, \* bound: changes of the screen
  MaxErrors,  \* bound: calls of the operating system that fail
  MaxLoops    \* bound: capture loops

ASSUME CaptureAssumption == PoolSize \in Nat \ {0} /\ {MaxChanges, MaxErrors, MaxLoops} \subseteq Nat

NoImage == 0  \* the images of the screen are numbered from 1

VARIABLES
  screen,   \* the image on the screen
  session,  \* CAPTURE_SESSION: "none", "open", or "dead" when its monitor has gone
  channel,  \* frames delivered and not yet taken
  owing,    \* the screen changed and no frame was free
  buffer,   \* last_full_buffer
  grab,     \* "off", "ready" or "falling back", and CaptureSessionState
  image,    \* the image the loop got last
  skipped,  \* a frame was taken and could not be read
  errors, loops

capturePart == <<screen, session, channel, owing, buffer, grab, image, skipped, errors, loops>>

CaptureInit ==
  /\ screen = 1 /\ session = "none" /\ channel = <<>> /\ owing = FALSE /\ buffer = NoImage
  /\ grab = [at |-> "off", persistent |-> FALSE, failures |-> 0, told |-> FALSE]
  /\ image = NoImage /\ skipped = FALSE /\ errors = 0 /\ loops = 0

-----------------------------------------------------------------------------
(* The operating system.                                                   *)

ScreenChanges ==
  /\ screen <= MaxChanges /\ screen' = screen + 1
  /\ owing' = (owing \/ session = "open")
  /\ UNCHANGED <<session, channel, buffer, grab, image, skipped, errors, loops>>

\* A frame holds a buffer of the pool until the loop takes it.
FrameArrives ==
  /\ owing /\ session = "open" /\ Len(channel) < PoolSize
  /\ channel' = Append(channel, screen) /\ owing' = FALSE
  /\ UNCHANGED <<screen, session, buffer, grab, image, skipped, errors, loops>>

MonitorGone ==
  /\ session = "open" /\ errors < MaxErrors /\ session' = "dead" /\ errors' = errors + 1
  /\ UNCHANGED <<screen, channel, owing, buffer, grab, image, skipped, loops>>

-----------------------------------------------------------------------------
(* The session.                                                            *)

\* close_capture_session, and a session that replaces it: its first frame is
\* the screen as it is.
Closes == session' = "none" /\ channel' = <<>> /\ owing' = FALSE /\ buffer' = NoImage /\ skipped' = FALSE
Opens == session' = "open" /\ channel' = <<>> /\ owing' = TRUE /\ buffer' = NoImage /\ skipped' = FALSE

Fails == errors < MaxErrors /\ errors' = errors + 1

\* A plausible bug: a buffer that was read is not read again.
TakesFrameOnce(read) ==
  /\ UNCHANGED <<screen, session, owing>>
  /\ IF buffer # NoImage THEN read /\ UNCHANGED <<channel, buffer, skipped, errors>>
     ELSE IF channel # <<>>
     THEN /\ channel' = <<>>
          /\ IF read THEN buffer' = channel[Len(channel)] /\ skipped' = FALSE /\ UNCHANGED errors
             ELSE Fails /\ skipped' = TRUE /\ UNCHANGED buffer
     ELSE ~read /\ Fails /\ UNCHANGED <<channel, buffer, skipped>>

\* ensure_full_frame: the newest frame is read, all are taken from the channel;
\* without one the last image stands.  Before the first frame it waits, and a
\* session that never had one ends in a time-out.
TakesFrame(read) ==
  /\ UNCHANGED <<screen, session, owing>>
  /\ IF channel # <<>>
     THEN /\ channel' = <<>>
          /\ IF read THEN buffer' = channel[Len(channel)] /\ skipped' = FALSE /\ UNCHANGED errors
             ELSE Fails /\ skipped' = TRUE /\ UNCHANGED buffer
     ELSE IF buffer # NoImage THEN read /\ UNCHANGED <<channel, buffer, skipped, errors>>
     ELSE ~read /\ (session = "dead" \/ ~owing) /\ UNCHANGED <<channel, buffer, skipped, errors>>

-----------------------------------------------------------------------------
(* The capture loop: try_capture.                                          *)

LoopBegins ==
  /\ grab.at = "off" /\ loops < MaxLoops /\ loops' = loops + 1 /\ image' = NoImage
  /\ \/ Opens /\ grab' = [at |-> "ready", persistent |-> TRUE, failures |-> 0, told |-> FALSE] /\ UNCHANGED errors
     \/ Fails /\ grab' = [at |-> "ready", persistent |-> FALSE, failures |-> 0, told |-> FALSE]
        /\ UNCHANGED <<session, channel, owing, buffer, skipped>>
  /\ UNCHANGED screen

LoopEnds ==
  /\ grab.at # "off" /\ grab' = [grab EXCEPT !.at = "off"] /\ Closes
  /\ UNCHANGED <<screen, image, errors, loops>>

PersistentReads ==
  /\ grab.at = "ready" /\ grab.persistent /\ TakesFrame(TRUE)
  /\ grab' = [grab EXCEPT !.failures = 0] /\ image' = buffer' /\ UNCHANGED loops

\* A read image is of no use either when the area lies outside the screen.
NoImageOfArea == TakesFrame(FALSE) \/ TakesFrame(TRUE)

\* The first failure, and the third in a row, are more than a warning.
PersistentFails ==
  /\ grab.at = "ready" /\ grab.persistent /\ NoImageOfArea
  /\ grab' = [grab EXCEPT !.at = IF grab.failures \in {0, 2} THEN "recovering" ELSE "falling back", !.failures = @ + 1]
  /\ UNCHANGED <<image, loops>>

\* A plausible bug: the session that failed three times is kept.
RecoversKeeping ==
  /\ grab.at = "recovering"
  /\ \/ grab.failures = 1 /\ Opens /\ grab' = [grab EXCEPT !.at = "falling back"] /\ UNCHANGED errors
     \/ /\ IF grab.failures = 1 THEN Fails ELSE UNCHANGED errors
        /\ UNCHANGED <<session, channel, owing, buffer, skipped>>
        /\ grab' = [grab EXCEPT !.at = "falling back", !.persistent = FALSE]
  /\ UNCHANGED <<screen, image, loops>>

Recovers ==
  /\ grab.at = "recovering"
  /\ \/ grab.failures = 1 /\ Opens /\ grab' = [grab EXCEPT !.at = "falling back"] /\ UNCHANGED errors
     \/ /\ IF grab.failures = 1 THEN Fails ELSE UNCHANGED errors
        /\ Closes /\ grab' = [grab EXCEPT !.at = "falling back", !.persistent = FALSE]
  /\ UNCHANGED <<screen, image, loops>>

\* smart_capture uses the session if there is one, else one of its own, and
\* else GDI, which the user is told of once; without any the frame is skipped.
SmartSession ==
  /\ grab.at = "falling back" \/ (grab.at = "ready" /\ ~grab.persistent)
  /\ session # "none" /\ TakesFrame(TRUE)
  /\ grab' = [grab EXCEPT !.at = "ready"] /\ image' = buffer' /\ UNCHANGED loops

SmartOther ==
  /\ grab.at = "falling back" \/ (grab.at = "ready" /\ ~grab.persistent)
  /\ IF session = "none" THEN UNCHANGED <<screen, session, channel, owing, buffer, skipped, errors>> ELSE NoImageOfArea
  /\ \/ image' = screen /\ UNCHANGED loops /\ \E gdi \in BOOLEAN :
          /\ gdi \/ session = "none"
          /\ grab' = [grab EXCEPT !.at = "ready", !.told = @ \/ gdi]
     \/ errors < MaxErrors /\ grab' = [grab EXCEPT !.at = "ready"] /\ UNCHANGED <<image, loops>>

\* The selector's screenshot, taken while the loop is between two images.
Screenshot ==
  /\ grab.at \in {"off", "ready"} /\ session # "none" /\ \E read \in BOOLEAN : TakesFrame(read)
  /\ UNCHANGED <<grab, image, loops>>

-----------------------------------------------------------------------------
\* The loop's next image; that reading one fails is never owed.
CaptureTurns == PersistentReads \/ Recovers \/ SmartSession \/ SmartOther
CaptureStep == CaptureTurns \/ PersistentFails
System == ScreenChanges \/ FrameArrives \/ MonitorGone

CaptureNext == System \/ LoopBegins \/ LoopEnds \/ CaptureStep \/ Screenshot

\* The loop goes on, and a frame is delivered once one is free.
CaptureFairness == WF_capturePart(CaptureTurns) /\ WF_capturePart(FrameArrives)

CaptureSpec == CaptureInit /\ [][CaptureNext]_capturePart /\ CaptureFairness

-----------------------------------------------------------------------------
\* The values the variables take.
CaptureTypeOK ==
  /\ screen \in 1 .. MaxChanges + 1 /\ session \in {"none", "open", "dead"} /\ Len(channel) <= PoolSize
  /\ buffer \in 0 .. screen /\ image \in 0 .. screen /\ errors \in 0 .. MaxErrors /\ loops \in 0 .. MaxLoops
  /\ grab.at \in {"off", "ready", "recovering", "falling back"} /\ grab.failures \in 0 .. 3

\* A loop that has given the session up has closed it: what it uses instead
\* does not go back to the session that failed (commands.rs:316).
GivenUpIsClosed == grab.at \notin {"off", "recovering"} /\ ~grab.persistent => session = "none"

\* What is never so for good: the loop works with an image that is not on the
\* screen any more, although the session would deliver another.
ImageIsOld == grab.at # "off" /\ session = "open" /\ ~skipped /\ image # screen
=============================================================================
