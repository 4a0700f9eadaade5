----------------------------- MODULE OverlayPage -----------------------------
(***************************************************************************)
(* The page in the overlay window: the frame around the captured area,     *)
(* which it makes clickable while the mouse is over it.  Every call of the *)
(* window is awaited: the page's state may have changed when the answer    *)
(* comes.  Calls of one kind are answered in order, and as they are        *)
(* carried out.  That the frame fades while nobody is near it is left out: *)
(* it is drawn again before the mouse is let in.                           *)
(* Source: src/scripts/overlay.js, overlay-timers.js, overlay/mod.rs.      *)
(***************************************************************************)
EXTENDS Naturals, Sequences

CONSTANTS
  Areas,      \* areas of the screen that may be captured
  MaxStarts,  \* bound: sessions, of which the last is not stopped
  MaxMoves    \* bound: times the user drags or resizes the frame, or selects an area

ASSUME PageAssumption == {MaxStarts, MaxMoves} \subseteq Nat

VARIABLES
  window,   \* the native window: whether it is shown and ignores the mouse
  session,  \* "off", "on", or "fading" on the way off
  starts,
  area,     \* AppState.capture_region
  toPage,   \* events on their way to the page, each with the area it was sent at
  saves,    \* areas on their way back
  view,     \* overlayState, the elements' classes, the timers and the calls under way
  late,     \* history: the handler of a stop still awaited its call when the page heard of the start
  crossed,  \* history: the area the page took last was not the newest the user had chosen
  pointer,  \* the mouse is "away", or over the "frame" and its padding
  moves

framePart == <<window, session, starts, area, toPage, saves, view, late, crossed, pointer, moves>>

FrameInit ==
  /\ window = [shown |-> FALSE, ignoring |-> FALSE] /\ session = "off" /\ starts = 0
  /\ area \in Areas /\ toPage = <<>> /\ saves = <<>> /\ pointer = "away" /\ moves = 0
  /\ view = [visible |-> FALSE, area |-> area, frame |-> "hidden",
             dragging |-> FALSE, force |-> FALSE,
             through |-> "unknown", enabled |-> TRUE, clicks |-> <<>>,
             scaling |-> 0, fetching |-> 0, tick |-> "idle", over |-> "away",
             cleanup |-> FALSE, monitor |-> FALSE]
  /\ late = FALSE /\ crossed = FALSE

-----------------------------------------------------------------------------
(* What the page does to itself, as operators on the page.                 *)

\* What follows the answer to a click-through call.
AfterClick(p, from) ==
  CASE from = "tick" -> [p EXCEPT !.tick = "idle"]
    [] from = "off" -> [p EXCEPT !.cleanup = TRUE]
    [] OTHER -> p

\* The call is made only when it would change what the page believes.
Told(ignore) == IF ignore THEN "yes" ELSE "no"
SetClickThrough(p, ignore, from) ==
  IF ~p.enabled \/ p.through = Told(ignore) THEN AfterClick(p, from)
  ELSE [p EXCEPT !.clicks = Append(@, [ignore |-> ignore, from |-> from])]
CancelClickThrough(p) == SetClickThrough([p EXCEPT !.force = TRUE], FALSE, "cancel")

-----------------------------------------------------------------------------
(* The shell.                                                              *)

AreaEvent(kind) == [kind |-> kind, area |-> area]

\* Whether the window, shown again, ignores the mouse is the platform's
\* choice.  Handlers, calls and saves of the session before may be under way.
ShowOverlay ==
  /\ session = "off" /\ starts < MaxStarts
  /\ session' = "on" /\ starts' = starts + 1 /\ toPage' = toPage \o <<AreaEvent("on"), AreaEvent("region")>>
  /\ \E ignoring \in BOOLEAN : window' = [shown |-> TRUE, ignoring |-> ignoring]
  /\ UNCHANGED <<area, saves, view, late, crossed, pointer, moves>>

\* A stop lets the page fade out before it hides the window.
FadeOverlay ==
  /\ session = "on" /\ starts < MaxStarts /\ session' = "fading" /\ toPage' = Append(toPage, AreaEvent("off"))
  /\ UNCHANGED <<window, starts, area, saves, view, late, crossed, pointer, moves>>
HideOverlay ==
  /\ session = "fading" /\ session' = "off" /\ window' = [window EXCEPT !.shown = FALSE]
  /\ UNCHANGED <<starts, area, toPage, saves, view, late, crossed, pointer, moves>>

\* An area is selected while nothing runs.
AreaSelected ==
  /\ session = "off" /\ moves < MaxMoves /\ moves' = moves + 1
  /\ area' \in Areas \ {area}
  /\ UNCHANGED <<window, session, starts, toPage, saves, view, late, crossed, pointer>>

SaveArrives ==
  /\ saves # <<>> /\ area' = Head(saves) /\ saves' = Tail(saves)
  /\ UNCHANGED <<window, session, starts, toPage, view, late, crossed, pointer, moves>>

-----------------------------------------------------------------------------
(* The handlers of the page.                                               *)

ViewBecomes(p) == view' = p /\ UNCHANGED <<window, session, starts, area, toPage, saves, late, crossed, pointer, moves>>

\* Plausible bugs: the clean-up of a stop is left to fire, and what is
\* believed of click-through is kept over a show.
OnEventKeepsCleanup(p) == [p EXCEPT !.visible = TRUE, !.through = "unknown", !.scaling = @ + 1]
OnEventKeepsThrough(p) == [p EXCEPT !.visible = TRUE, !.cleanup = FALSE, !.scaling = @ + 1]

OnEvent(p) == [p EXCEPT !.visible = TRUE, !.cleanup = FALSE, !.through = "unknown", !.scaling = @ + 1]

OffEvent(p) ==
  SetClickThrough([p EXCEPT !.visible = FALSE, !.frame = "exiting", !.monitor = FALSE],
                  TRUE, "off")

\* A region is not heeded while the frame is dragged.
HandleEvent ==
  LET event == Head(toPage)
      told == event.kind = "region" /\ ~view.dragging
  IN  /\ toPage # <<>> /\ toPage' = Tail(toPage)
      /\ view' = CASE event.kind = "on" -> OnEvent(view)
                   [] event.kind = "off" -> OffEvent(view)
                   [] OTHER -> IF told THEN [view EXCEPT !.area = event.area] ELSE view
      /\ late' = IF event.kind = "on" THEN \E i \in DOMAIN view.clicks : view.clicks[i].from = "off" ELSE late
      /\ crossed' = IF told THEN saves # <<>> \/ event.area # area ELSE crossed
      /\ UNCHANGED <<window, session, starts, area, saves, pointer, moves>>

OnScaled ==
  /\ view.scaling > 0
  /\ ViewBecomes([view EXCEPT !.scaling = @ - 1, !.fetching = @ + 1,
                              !.frame = IF @ = "exiting" THEN "visible" ELSE @])

OnRegionKnown ==
  LET shown == [view EXCEPT !.area = area, !.frame = IF @ = "exiting" THEN @ ELSE "visible",
                  !.monitor = TRUE, !.fetching = @ - 1]
  IN  /\ view.fetching > 0 /\ view' = SetClickThrough(shown, TRUE, "on") /\ crossed' = (saves # <<>>)
      /\ UNCHANGED <<window, session, starts, area, toPage, saves, late, pointer, moves>>

CleanupFires == view.cleanup /\ ViewBecomes([view EXCEPT !.cleanup = FALSE, !.frame = "hidden"])

ForceEnds == view.force /\ ViewBecomes([view EXCEPT !.force = FALSE])

\* A call that fails ends the view's control of click-through.
ClickAnswered(ok) ==
  LET c == Head(view.clicks)
      p == [view EXCEPT !.clicks = Tail(@)]
  IN  /\ view.clicks # <<>>
      /\ IF ok THEN /\ window' = [window EXCEPT !.ignoring = c.ignore]
                    /\ view' = AfterClick([p EXCEPT !.through = Told(c.ignore)], c.from)
         ELSE UNCHANGED window /\ view' = AfterClick([p EXCEPT !.enabled = FALSE], c.from)
      /\ UNCHANGED <<session, starts, area, toPage, saves, late, crossed, pointer, moves>>

\* updateClickThroughState, every CLICK_THROUGH_POLL_MS and one at a time:
\* the mouse is asked for, and judged when the answer comes.
TickBegins ==
  /\ view.monitor /\ view.tick = "idle" /\ view.visible
  /\ ViewBecomes(IF view.dragging
          THEN SetClickThrough([view EXCEPT !.tick = "clicking"], FALSE, "tick")
          ELSE [view EXCEPT !.tick = "asking"])
TickAsked == view.tick = "asking" /\ ViewBecomes([view EXCEPT !.tick = "asked", !.over = pointer])

\* A plausible bug: a forced hover is felt and not told to the window.
TickIgnoresFrame ==
  /\ view.tick = "asked"
  /\ ViewBecomes(SetClickThrough([view EXCEPT !.tick = "clicking", !.over = "away"], ~view.force, "tick"))

TickGoesOn ==
  LET hovers == view.force \/ view.over = "frame"
      p == [view EXCEPT !.tick = "clicking", !.over = "away"]
  IN  view.tick = "asked" /\ ViewBecomes(SetClickThrough(p, ~hovers, "tick"))

-----------------------------------------------------------------------------
(* The user: a window that ignores the mouse feels nothing.                *)

Feels == window.shown /\ ~window.ignoring /\ pointer = "frame" /\ view.frame = "visible"

MouseGoes ==
  /\ pointer' = IF pointer = "away" THEN "frame" ELSE "away"
  /\ UNCHANGED <<window, session, starts, area, toPage, saves, view, late, crossed, moves>>

DragBegins ==
  /\ Feels /\ ~view.dragging /\ moves < MaxMoves /\ moves' = moves + 1
  /\ view' = CancelClickThrough([view EXCEPT !.dragging = TRUE])
  /\ UNCHANGED <<window, session, starts, area, toPage, saves, late, crossed, pointer>>
\* A plausible bug: the frame stays where it was dropped, and nobody is told.
DragEndsUnsaved ==
  /\ view.dragging /\ \E a \in Areas : view' = [view EXCEPT !.dragging = FALSE, !.area = a] /\ saves' = saves
  /\ crossed' = FALSE /\ UNCHANGED <<window, session, starts, area, toPage, late, pointer, moves>>

\* The frame is left where the mouse has brought it, and the area saved.
DragEnds ==
  /\ view.dragging
  /\ \E a \in Areas : view' = [view EXCEPT !.dragging = FALSE, !.area = a] /\ saves' = Append(saves, a)
  /\ crossed' = FALSE /\ UNCHANGED <<window, session, starts, area, toPage, late, pointer, moves>>

-----------------------------------------------------------------------------
Sessions == ShowOverlay \/ FadeOverlay \/ HideOverlay \/ AreaSelected \/ SaveArrives
Timers == CleanupFires \/ ForceEnds
User == MouseGoes \/ DragBegins \/ DragEnds
Ticks == TickBegins \/ TickAsked \/ TickGoesOn
Handlers == HandleEvent \/ OnScaled \/ OnRegionKnown

ClickCallEnds == \E ok \in BOOLEAN : ClickAnswered(ok)

FrameNext == Sessions \/ Timers \/ User \/ Ticks \/ Handlers \/ ClickCallEnds

\* The view's event loop runs and the shell answers its calls.
FrameFairness == WF_framePart(Handlers) /\ WF_framePart(Ticks) /\ WF_framePart(ClickCallEnds)

FrameSpec == FrameInit /\ [][FrameNext]_framePart /\ FrameFairness

-----------------------------------------------------------------------------
\* The values the variables take.
PageTypeOK ==
  /\ window \in [shown : BOOLEAN, ignoring : BOOLEAN] /\ session \in {"off", "on", "fading"}
  /\ starts \in 0 .. MaxStarts /\ moves \in 0 .. MaxMoves /\ {area, view.area} \subseteq Areas
  /\ saves \in Seq(Areas) /\ toPage \in Seq([kind : {"on", "region", "off"}, area : Areas])
  /\ view.frame \in {"hidden", "visible", "exiting"} /\ view.tick \in {"idle", "asking", "asked", "clicking"}
  /\ {view.scaling, view.fetching} \subseteq Nat /\ {late, crossed} \subseteq BOOLEAN

Calm == session = "on" /\ toPage = <<>> /\ view.scaling + view.fetching = 0 /\ view.clicks = <<>>

\* A running session's frame is on the page and no clean-up of the session
\* before waits to hide it (overlay.js:639), unless the handler of that
\* session's stop still awaited its click-through call when the page heard of
\* the start: it sets the clean-up's timer when the answer comes, after the
\* start has cleared it (overlay.js:699-702).  In any case the mouse is
\* watched, and what the page believes of click-through is what the window does.
FrameComesBack ==
  Calm => /\ view.visible /\ view.monitor /\ (late \/ (view.frame = "visible" /\ ~view.cleanup))
          /\ view.through # "unknown" => window.ignoring = (view.through = "yes")

\* With everything answered and saved, the page draws where the shell
\* captures, unless the area it took last was overtaken by one on its way to
\* the shell (overlay.js:533 and :652 are not ordered).
DrawsWhatIsCaptured == Calm /\ saves = <<>> /\ ~view.dragging /\ ~crossed => view.area = area

\* What is never so for good, while the page controls it: a mouse rests on the
\* frame and the window lets it through, or beside it and is not let through.
MouseUnfelt == Calm /\ view.enabled /\ pointer = "frame" /\ window.ignoring
MouseCaught ==
  session = "on" /\ view.enabled /\ pointer = "away" /\ ~window.ignoring /\ ~view.force /\ ~view.dragging
=============================================================================
