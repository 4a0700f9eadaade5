----------------------------- MODULE OverlayClip -----------------------------
(***************************************************************************)
(* The loop by which the overlay page tells its window what to be clipped  *)
(* to.  What is drawn is a number: which surfaces, and where; 0 stands for *)
(* nothing drawn, and for a window clipped to nothing.                     *)
(* Source: src/scripts/overlay.js, overlay/window_clip.rs.                 *)
(***************************************************************************)
EXTENDS Integers

CONSTANT MaxDrawn \* bound: drawings told apart

ASSUME ClipAssumption == MaxDrawn \in Nat

VARIABLES
  drawn,    \* what the page draws
  clip,     \* what the window is clipped to
  clipping, \* clipUpdateLoopRunning: "off", "frame" (the next one) or "sending"
  settle,   \* until clipUpdateLoopUntilMs: "no", "new", or "seen" by a turn of the loop
  payload,  \* the payload of the call under way
  last,     \* lastClipPayload; -1 for null
  unheard   \* the page has yet to hear of a show

clipPart == <<drawn, clip, clipping, settle, payload, last, unheard>>

ClipInit == drawn = 0 /\ clip = 0 /\ clipping = "off" /\ settle = "no" /\ payload = 0 /\ last = 0 - 1 /\ unheard = 0

\* Any change of a surface starts the loop, or keeps it going.
ScheduleClip == settle' = "new" /\ clipping' = IF clipping = "off" THEN "frame" ELSE clipping
Draws == drawn' \in (0 .. MaxDrawn) \ {drawn} /\ ScheduleClip /\ UNCHANGED <<clip, payload, last, unheard>>

\* The shell empties the clip and shows the window.  No call is under way.
ClipReset == unheard = 0 /\ clipping # "sending" /\ unheard' = 1 /\ clip' = 0 /\ UNCHANGED <<drawn, clipping, settle, payload, last>>
\* A plausible bug: the page hears of a show and trusts what it sent.
ClipTrusted == unheard = 1 /\ unheard' = 0 /\ ScheduleClip /\ UNCHANGED <<drawn, clip, payload, last>>

\* The page hears of it, and forgets what it sent.
ClipForgotten == unheard = 1 /\ unheard' = 0 /\ last' = 0 - 1 /\ ScheduleClip /\ UNCHANGED <<drawn, clip, payload>>

\* One turn of the loop: what is drawn is sent unless it was sent last.
ClipTurn ==
  /\ clipping = "frame"
  /\ clipping' = IF drawn # last THEN "sending" ELSE IF settle = "no" THEN "off" ELSE "frame"
  /\ payload' = IF drawn # last THEN drawn ELSE payload
  /\ settle' = IF settle = "new" THEN "seen" ELSE settle
  /\ UNCHANGED <<drawn, clip, last, unheard>>
ClipAnswered ==
  /\ clipping = "sending" /\ clip' = payload /\ last' = payload
  /\ clipping' = IF settle = "no" THEN "off" ELSE "frame"
  /\ UNCHANGED <<drawn, settle, payload, unheard>>
\* A call is answered before the settling time is over.
SettleEnds == settle = "seen" /\ clipping = "frame" /\ settle' = "no" /\ UNCHANGED <<drawn, clip, clipping, payload, last, unheard>>

ClipNext == Draws \/ ClipReset \/ ClipForgotten \/ ClipTurn \/ ClipAnswered \/ SettleEnds
ClipSpec == ClipInit /\ [][ClipNext]_clipPart

-----------------------------------------------------------------------------
\* The values the variables take.
ClipTypeOK ==
  /\ {drawn, clip, payload} \subseteq 0 .. MaxDrawn /\ last \in -1 .. MaxDrawn /\ unheard \in 0 .. 1
  /\ settle \in {"no", "new", "seen"} /\ clipping \in {"off", "frame", "sending"}

\* When the loop that clips has stopped, a shown window is clipped to what the
\* page draws, neither to an older drawing nor to nothing (overlay.js:651).
ClipFollows == clipping = "off" /\ unheard = 0 => clip = drawn
=============================================================================
