----------------------------- MODULE NativeHost -----------------------------
(***************************************************************************)
(* The native overlay host, a process of its own behind a named pipe: the  *)
(* loop that keeps the pipe open, the overlay window with the timers that  *)
(* make it click through and fade, and the window that selects a region.   *)
(* Everything runs on the host's one UI thread; a message is queued for it *)
(* when it is read, so it is handled after the pipe may be gone.           *)
(* Source: src-winui3/OverlayHost.                                         *)
(***************************************************************************)
EXTENDS Naturals, Sequences

CONSTANTS
  Regions,      \* capture regions the shell announces
  MaxMessages,  \* bound: messages of the shell
  MaxLosses,    \* bound: times the shell's end of the pipe goes away
  MaxBackoff    \* doublings until MaxReconnectDelayMs

ASSUME NativeAssumption == MaxMessages \in Nat /\ MaxLosses \in Nat /\ MaxBackoff \in Nat

VARIABLES
  server,   \* the shell listens on the pipe
  losses,   \* times it stopped
  loop,     \* the connection loop: "connecting", "open", "backoff", "ended"
  backoff,  \* doublings of the reconnect delay
  inbox,    \* messages read and queued for the UI thread
  told,     \* messages the shell sent
  cursor,   \* the mouse: "away", "region" (over the border) or "panel"
  frame,    \* the overlay window
  pick,     \* the selector window
  owed      \* the selector was opened and has answered neither way

nativeVars == <<server, losses, loop, backoff, inbox, told, cursor, frame, pick, owed>>
pipeState == <<server, losses, loop, backoff>>
NoRegion == "none"
Texts == {"Overlay.Show", "Overlay.Hide", "Settings.Sync", "Subtitle.Update", "Region.RequestOpenSelector", "junk"}

NativeInit ==
  /\ server \in BOOLEAN /\ losses = 0 /\ loop = "connecting" /\ backoff = 0
  /\ inbox = <<>> /\ told = 0 /\ cursor = "away" /\ owed = FALSE
  /\ frame = [shown |-> FALSE, through |-> FALSE, interactive |-> FALSE, region |-> NoRegion, style |-> 0,
              ring |-> <<NoRegion, 0>>, panel |-> FALSE, faded |-> FALSE, recent |-> TRUE]
  /\ pick = [open |-> FALSE, selecting |-> FALSE, complete |-> FALSE, large |-> FALSE]

-----------------------------------------------------------------------------
(* The pipe.                                                               *)

ServerComes == ~server /\ server' = TRUE /\ UNCHANGED losses
ServerGoes == server /\ losses < MaxLosses /\ server' = FALSE /\ losses' = losses + 1

ServerMoves == (ServerComes \/ ServerGoes) /\ UNCHANGED <<loop, backoff, inbox, told, cursor, frame, pick, owed>>

\* An attempt connects, runs out of ConnectionTimeoutMs, or fails otherwise.
\* The time out is a cancelled operation, as the end of the service is.
Connects ==
  /\ loop = "connecting" /\ server
  /\ loop' = "open" /\ backoff' = 0
ConnectTimesOut == loop = "connecting" /\ ~server /\ loop' = "ended" /\ UNCHANGED backoff
ConnectFails == loop = "connecting" /\ server /\ loop' = "backoff" /\ UNCHANGED backoff
RetryDelayEnds ==
  /\ loop = "backoff" /\ loop' = "connecting"
  /\ backoff' = IF backoff < MaxBackoff THEN backoff + 1 ELSE backoff
\* A closed pipe ends the receiving, and the loop connects again at once.
ReceivingEnds == loop = "open" /\ ~server /\ loop' = "connecting" /\ UNCHANGED backoff

LoopMoves ==
  /\ Connects \/ ConnectTimesOut \/ ConnectFails \/ RetryDelayEnds \/ ReceivingEnds
  /\ UNCHANGED <<server, losses, inbox, told, cursor, frame, pick, owed>>

\* A line is read and queued; one that does not parse is skipped.
Receives(m) ==
  /\ loop = "open" /\ server /\ told < MaxMessages
  /\ told' = told + 1
  /\ inbox' = IF m.type = "junk" THEN inbox ELSE Append(inbox, m)
  /\ UNCHANGED <<pipeState, cursor, frame, pick, owed>>

Message == [type : Texts, region : {NoRegion}] \union [type : {"Overlay.SetRegion"}, region : Regions]

-----------------------------------------------------------------------------
(* The handlers of a message.                                              *)

\* A plausible bug: the window is shown as it was left.
ShowAsLeft(f) == [f EXCEPT !.shown = TRUE]

Show(f) == [f EXCEPT !.shown = TRUE, !.through = TRUE]
Hide(f) == [f EXCEPT !.shown = FALSE]
\* DrawBorderRing: what was drawn is thrown away and drawn anew.
DrawBorderRing(f) == [f EXCEPT !.ring = <<f.region, f.style>>]
SetRegion(f, r) == DrawBorderRing([f EXCEPT !.region = r])
\* A plausible bug: the ring is drawn again only when the region moves.
UpdateSettingsOnly(f) == [f EXCEPT !.style = 1 - f.style]

\* Every Sync is taken for a change of style: of two values, 0 and 1.
UpdateSettings(f) ==
  LET g == [f EXCEPT !.style = 1 - f.style]
  IN  IF g.region = NoRegion THEN g ELSE DrawBorderRing(g)
UpdateSubtitle(f) == [f EXCEPT !.panel = TRUE, !.recent = TRUE]

HandleMessage ==
  LET m == Head(inbox)
  IN  /\ inbox # <<>> /\ inbox' = Tail(inbox)
      /\ frame' = CASE m.type = "Overlay.Show" -> Show(frame)
                    [] m.type = "Overlay.Hide" -> Hide(frame)
                    [] m.type = "Overlay.SetRegion" -> SetRegion(frame, m.region)
                    [] m.type = "Settings.Sync" -> UpdateSettings(frame)
                    [] m.type = "Subtitle.Update" -> UpdateSubtitle(frame)
                    [] OTHER -> frame
      /\ IF m.type = "Region.RequestOpenSelector"
         THEN pick' = [open |-> TRUE, selecting |-> FALSE, complete |-> FALSE, large |-> FALSE] /\ owed' = TRUE
         ELSE UNCHANGED <<pick, owed>>
      /\ UNCHANGED <<pipeState, told, cursor>>

-----------------------------------------------------------------------------
(* The timers of the overlay window, which run while it is hidden too.     *)

Over == /\ frame.region # NoRegion
        /\ cursor = "region" \/ (cursor = "panel" /\ frame.panel)

\* A plausible bug: the style is changed when the mouse comes, not when it goes.
CheckMouseEnters ==
  /\ frame' = [frame EXCEPT !.recent = @ \/ Over, !.interactive = Over, !.through = IF Over THEN FALSE ELSE @]
  /\ UNCHANGED <<pipeState, inbox, told, cursor, pick, owed>>

\* The window's style is changed only when what the mouse is over changed.
CheckMouseHover ==
  /\ frame' = [frame EXCEPT !.recent = @ \/ Over, !.interactive = Over,
                 !.through = IF Over # frame.interactive THEN ~Over ELSE @]
  /\ UNCHANGED <<pipeState, inbox, told, cursor, pick, owed>>

CheckAutoFade ==
  /\ frame' = [frame EXCEPT !.faded = ~frame.recent]
  /\ UNCHANGED <<pipeState, inbox, told, cursor, pick, owed>>

IdleTimePasses ==
  /\ frame.recent /\ frame' = [frame EXCEPT !.recent = FALSE]
  /\ UNCHANGED <<pipeState, inbox, told, cursor, pick, owed>>

MouseMoves ==
  /\ \E c \in {"away", "region", "panel"} : c # cursor /\ cursor' = c
  /\ UNCHANGED <<pipeState, inbox, told, frame, pick, owed>>

-----------------------------------------------------------------------------
(* The selector.  An answer is sent if the pipe is open, else dropped.     *)

\* A new selection starts with no size.
OnPointerPressed ==
  /\ ~pick.selecting /\ UNCHANGED owed
  /\ pick' = [pick EXCEPT !.selecting = TRUE, !.complete = FALSE, !.large = FALSE]
OnPointerReleased ==
  /\ pick.selecting /\ UNCHANGED owed
  /\ \E large \in BOOLEAN : pick' = [pick EXCEPT !.selecting = FALSE, !.complete = TRUE, !.large = large]
ResetSelection(open) == [open |-> open, selecting |-> FALSE, complete |-> FALSE, large |-> FALSE]
Redraw == pick' = ResetSelection(TRUE) /\ UNCHANGED owed
\* A plausible bug: the selector is hidden and nobody is told.
CancelSilently == pick' = ResetSelection(FALSE) /\ UNCHANGED owed

CancelSelection == pick' = ResetSelection(FALSE) /\ owed' = FALSE
\* A selection below MIN_SELECTION_SIZE, or none, is not confirmed.
ConfirmButton == pick.complete /\ pick.large /\ pick' = [pick EXCEPT !.open = FALSE] /\ owed' = FALSE

Selects ==
  /\ pick.open
  /\ OnPointerPressed \/ OnPointerReleased \/ Redraw \/ CancelSelection \/ ConfirmButton
  /\ UNCHANGED <<pipeState, inbox, told, cursor, frame>>

-----------------------------------------------------------------------------
NativeNext ==
  \/ ServerMoves \/ LoopMoves \/ (\E m \in Message : Receives(m)) \/ HandleMessage
  \/ CheckMouseHover \/ CheckAutoFade \/ IdleTimePasses \/ MouseMoves \/ Selects

\* The UI thread takes what is queued and its timers fire.
NativeFairness ==
  WF_nativeVars(HandleMessage) /\ WF_nativeVars(CheckMouseHover) /\ WF_nativeVars(CheckAutoFade)

NativeSpec == NativeInit /\ [][NativeNext]_nativeVars /\ NativeFairness

\* The values the variables take.
NativeTypeOK ==
  /\ server \in BOOLEAN /\ losses \in 0 .. MaxLosses /\ backoff \in 0 .. MaxBackoff
  /\ loop \in {"connecting", "open", "backoff", "ended"} /\ cursor \in {"away", "region", "panel"}
  /\ inbox \in Seq(Message) /\ Len(inbox) <= told /\ told \in 0 .. MaxMessages
  /\ frame.region \in Regions \union {NoRegion} /\ frame.style \in 0 .. 1
  /\ \A k \in {"shown", "through", "interactive", "panel", "faded", "recent"} : frame[k] \in BOOLEAN
  /\ pick \in [open : BOOLEAN, selecting : BOOLEAN, complete : BOOLEAN, large : BOOLEAN] /\ owed \in BOOLEAN

\* A shown overlay never swallows the clicks of the screen it covers while it
\* does not know the mouse to be on its parts (FrameOverlayWindow.xaml.cs:506),
\* whatever order shows, hides and hovers come in, and its ring is drawn for
\* the region and the style it has, whichever of the two messages came last.
OverlayLetsThrough ==
  /\ frame.shown /\ ~frame.interactive => frame.through
  /\ frame.region # NoRegion => frame.ring = <<frame.region, frame.style>>

\* A selector on screen is one the shell waits for, and none is hidden
\* without an answer (SelectorWindow.xaml.cs:173, 231).
SelectorAnswers == pick.open <=> owed

\* What is never so for good: the mouse is away from a shown overlay and
\* clicks do not pass through it.
ClickSwallowed == cursor = "away" /\ frame.shown /\ ~frame.through

\* IpcService.cs:14: "Handles auto-reconnect with exponential backoff."  The
\* loop goes on for as long as nothing disposes of the service.
KeepsReconnecting == loop # "ended"
=============================================================================
