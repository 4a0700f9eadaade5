---------------------------- MODULE RegionSelector ----------------------------
(***************************************************************************)
(* The page of the selector window, on which the user draws the area to    *)
(* capture.  The window is hidden and reused: the snapshot pushed at an    *)
(* opening is also what tells the page that it is being reopened, so that  *)
(* it forgets the last box and asks for the stored area.                   *)
(* Source: src/scripts/selector.js, selector_window.rs.                    *)
(***************************************************************************)
EXTENDS Naturals, Sequences

CONSTANTS
  Boxes,     \* areas large enough to be captured
  MaxOpens,  \* bound: openings of the window
  MaxDraws   \* bound: boxes the user draws or places

ASSUME SelectorAssumption == {MaxOpens, MaxDraws} \subseteq Nat

NoBox == "none"
ASSUME BoxAssumption == NoBox \notin Boxes

VARIABLES
  panel,     \* "hidden", "opening" (the screenshot is taken) or "shown"
  pageStage, \* "none", "loading", "listening" or "ready"
  stored,    \* AppState.capture_region
  reopened,  \* a snapshot is on its way to the page
  restores,  \* answers of get_capture_region the page waits for, in order
  closes,    \* close_area_selector calls under way, and who waits for each
  confirm,   \* confirmSelection: "idle", "scaling", "storing" or "closing"
  draft,     \* the page's state, isDragging or isResizing, and the phase
  chosen,    \* the area confirmSelection sends
  informed,  \* the page was told of this opening, or loaded in it
  touched,   \* the user has acted on the page since it opened
  opens, draws

selectorPart == <<panel, pageStage, stored, reopened, restores, closes, confirm, draft, chosen, informed, touched, opens, draws>>

Cleared(d) == [d EXCEPT !.selecting = FALSE, !.has = FALSE, !.region = NoBox, !.phase = "draw"]
ShowSelection(d, box) == [d EXCEPT !.selecting = FALSE, !.has = TRUE, !.region = box, !.phase = "adjust"]

SelectorInit ==
  /\ panel = "hidden" /\ pageStage = "none" /\ stored \in Boxes \cup {NoBox}
  /\ reopened = FALSE /\ restores = <<>> /\ closes = <<>> /\ confirm = "idle" /\ chosen = NoBox
  /\ draft = [selecting |-> FALSE, has |-> FALSE, region |-> NoBox, saving |-> FALSE,
              moving |-> FALSE, phase |-> "draw"]
  /\ informed = FALSE /\ touched = FALSE /\ opens = 0 /\ draws = 0

InFlight == reopened \/ restores # <<>> \/ closes # <<>> \/ confirm # "idle" \/ pageStage \in {"loading", "listening"}

-----------------------------------------------------------------------------
(* The shell.                                                              *)

\* The first opening creates the window, whose page loads meanwhile.  An
\* opening takes longer than the answers the closed page still waits for.
OpenBegins ==
  /\ panel = "hidden" /\ ~InFlight /\ opens < MaxOpens
  /\ panel' = "opening" /\ opens' = opens + 1 /\ pageStage' = IF pageStage = "none" THEN "loading" ELSE pageStage
  /\ informed' = FALSE /\ touched' = FALSE
  /\ UNCHANGED <<stored, reopened, restores, closes, confirm, draft, chosen, draws>>

\* Without a screenshot the window is shown as it was left; an event that
\* nobody listens for yet is lost.
OpenEnds(taken) ==
  /\ panel = "opening" /\ panel' = "shown"
  /\ reopened' = (taken /\ pageStage \in {"listening", "ready"})
  /\ informed' = (informed \/ reopened')
  /\ UNCHANGED <<pageStage, stored, restores, closes, confirm, draft, chosen, touched, opens, draws>>

\* The overlay's frame is moved while the selector is away.
StoredElsewhere ==
  /\ panel = "hidden" /\ ~InFlight /\ draws < MaxDraws /\ draws' = draws + 1
  /\ stored' \in Boxes \ {stored}
  /\ UNCHANGED <<panel, pageStage, reopened, restores, closes, confirm, draft, chosen, informed, touched, opens>>

-----------------------------------------------------------------------------
(* The page loads, and is informed that it is reopened.                        *)

Listens ==
  /\ pageStage = "loading" /\ pageStage' = "listening"
  /\ UNCHANGED <<panel, stored, reopened, restores, closes, confirm, draft, chosen, informed, touched, opens, draws>>

\* A plausible bug: the page relies on the event alone.
LoadsWithoutRestore ==
  /\ pageStage = "listening" /\ pageStage' = "ready" /\ informed' = TRUE
  /\ UNCHANGED <<panel, stored, reopened, restores, closes, confirm, draft, chosen, touched, opens, draws>>

Loads ==
  /\ pageStage = "listening" /\ pageStage' = "ready" /\ informed' = TRUE /\ restores' = Append(restores, "asked")
  /\ UNCHANGED <<panel, stored, reopened, closes, confirm, draft, chosen, touched, opens, draws>>

\* A plausible bug: the reopened page only forgets its box.
ReopenedOnlyClears ==
  /\ reopened /\ reopened' = FALSE /\ draft' = Cleared(draft)
  /\ UNCHANGED <<panel, pageStage, stored, restores, closes, confirm, chosen, informed, touched, opens, draws>>

Reopened ==
  /\ reopened /\ reopened' = FALSE /\ restores' = Append(restores, "asked") /\ draft' = Cleared(draft)
  /\ UNCHANGED <<panel, pageStage, stored, closes, confirm, chosen, informed, touched, opens, draws>>

\* The area is read, and drawn when the answer comes, whatever the user does.
RestoreReads ==
  /\ restores # <<>> /\ Head(restores) = "asked" /\ restores' = <<stored>> \o Tail(restores)
  /\ UNCHANGED <<panel, pageStage, stored, reopened, closes, confirm, draft, chosen, informed, touched, opens, draws>>

RestoreAnswered ==
  /\ restores # <<>> /\ Head(restores) # "asked" /\ restores' = Tail(restores)
  /\ draft' = IF Head(restores) = NoBox THEN draft ELSE ShowSelection(draft, Head(restores))
  /\ UNCHANGED <<panel, pageStage, stored, reopened, closes, confirm, chosen, informed, touched, opens, draws>>

-----------------------------------------------------------------------------
(* The user.                                                               *)

Touches(d) ==
  /\ panel = "shown" /\ pageStage = "ready" /\ touched' = TRUE /\ draft' = d
  /\ UNCHANGED <<panel, pageStage, stored, reopened, restores, chosen, informed, opens>>
OnBox(d) == Touches(d) /\ UNCHANGED <<closes, confirm, draws>>
DrawsOnce == draws < MaxDraws /\ draws' = draws + 1 /\ UNCHANGED <<closes, confirm>>

MouseDown ==
  OnBox(IF draft.has THEN [draft EXCEPT !.moving = TRUE, !.phase = "adjust"]
        ELSE [draft EXCEPT !.selecting = TRUE, !.phase = "draw"])

\* A drag left unfinished by a close still moves the box after the reopening.
DragOrResize == draft.moving /\ DrawsOnce /\ \E box \in Boxes : Touches([draft EXCEPT !.region = box])

MouseUp ==
  \/ draft.moving /\ OnBox([draft EXCEPT !.moving = FALSE])
  \/ /\ ~draft.moving /\ draft.selecting
     /\ \/ OnBox([draft EXCEPT !.selecting = FALSE, !.phase = "error"])
        \/ DrawsOnce /\ \E box \in Boxes : Touches(ShowSelection(draft, box))

ArrowKey == draft.has /\ DrawsOnce /\ \E box \in Boxes : Touches([draft EXCEPT !.region = box, !.phase = "adjust"])

PlaceBox == ~draft.has /\ ~draft.selecting /\ DrawsOnce /\ \E box \in Boxes : Touches(ShowSelection(draft, box))

RedrawArea == draft.has /\ OnBox(Cleared(draft))

\* Escape, the right button, or Cancel; once at a time is a bound.
CancelSelector ==
  /\ ~ \E i \in 1 .. Len(closes) : closes[i] = "cancel"
  /\ Touches(draft) /\ closes' = Append(closes, "cancel") /\ UNCHANGED <<confirm, draws>>

ConfirmSelection ==
  /\ draft.has /\ ~draft.saving
  /\ Touches([draft EXCEPT !.saving = TRUE]) /\ confirm' = "scaling" /\ UNCHANGED <<closes, draws>>

-----------------------------------------------------------------------------
(* The calls of a save and of a close.                                     *)

\* The area is taken after the wait: without one the save ends in an
\* exception outside its try, and saving stays set.
Scaled ==
  /\ confirm = "scaling"
  /\ IF draft.region = NoBox THEN confirm' = "idle" /\ UNCHANGED chosen ELSE confirm' = "storing" /\ chosen' = draft.region
  /\ UNCHANGED <<panel, pageStage, stored, reopened, restores, closes, draft, informed, touched, opens, draws>>

Stored(ok) ==
  /\ confirm = "storing"
  /\ IF ok THEN /\ stored' = chosen /\ confirm' = "closing" /\ closes' = Append(closes, "confirm") /\ UNCHANGED draft
     ELSE /\ confirm' = "idle" /\ draft' = [draft EXCEPT !.phase = "error", !.saving = FALSE]
          /\ UNCHANGED <<stored, closes>>
  /\ UNCHANGED <<panel, pageStage, reopened, restores, chosen, informed, touched, opens, draws>>

\* The window is hidden by the command or else by the page: both may fail.
CloseAnswered(hides) ==
  /\ closes # <<>> /\ closes' = Tail(closes)
  /\ panel' = IF hides THEN "hidden" ELSE panel
  /\ IF Head(closes) = "confirm" THEN draft' = [Cleared(draft) EXCEPT !.saving = FALSE] /\ confirm' = "idle"
     ELSE draft' = Cleared(draft) /\ UNCHANGED confirm
  /\ UNCHANGED <<pageStage, stored, reopened, restores, chosen, informed, touched, opens, draws>>

-----------------------------------------------------------------------------
Opening == OpenBegins \/ (\E taken \in BOOLEAN : OpenEnds(taken)) \/ StoredElsewhere
Preload == Listens \/ Loads \/ Reopened
RestoreSelection == RestoreReads \/ RestoreAnswered
Drawing == MouseDown \/ DragOrResize \/ MouseUp
Keyboard == ArrowKey \/ PlaceBox
Buttons == RedrawArea \/ CancelSelector \/ ConfirmSelection
ConfirmGoesOn == Scaled \/ (\E ok \in BOOLEAN : Stored(ok))
CloseEnds == \E hides \in BOOLEAN : CloseAnswered(hides)

SelectorNext ==
  \/ Opening \/ Preload \/ RestoreSelection \/ Drawing \/ Keyboard \/ Buttons \/ ConfirmGoesOn \/ CloseEnds

SelectorSpec == SelectorInit /\ [][SelectorNext]_selectorPart

-----------------------------------------------------------------------------
\* The values the variables take; a box that can be confirmed has an area.
SelectorTypeOK ==
  /\ panel \in {"hidden", "opening", "shown"} /\ pageStage \in {"none", "loading", "listening", "ready"}
  /\ {stored, chosen, draft.region} \subseteq Boxes \cup {NoBox} /\ Len(restores) <= 2 /\ Len(closes) <= 2
  /\ draft.has => draft.region # NoBox
  /\ opens \in 0 .. MaxOpens /\ draws \in 0 .. MaxDraws

\* A selector that was opened and not yet touched shows the stored area, or no
\* box when there is none: never the box of an opening before (selector.js:139).
BoxIsStored ==
  panel = "shown" /\ informed /\ ~touched /\ ~InFlight =>
    draft.has = (stored # NoBox) /\ (draft.has => draft.region = stored)
=============================================================================
