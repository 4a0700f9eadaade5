------------------------------ MODULE DeskProofs ------------------------------
(***************************************************************************)
(* What MCDesk checks of the parts of the desk, proved for every value of  *)
(* the constants.  Each part has an invariant of its own; the desk's is    *)
(* their conjunction.                                                      *)
(***************************************************************************)
EXTENDS MCDesk, TLAPS, SequenceTheorems, FiniteSetTheorems, WellFoundedInduction

-----------------------------------------------------------------------------
(* The clip of the overlay                                                 *)

\* What was sent last is what the window has, unless a show emptied the clip
\* and the page has yet to hear; and once the settling time is over, the call
\* under way carries what is drawn.
ClipInv ==
  /\ drawn \in Nat /\ clip \in Nat /\ payload \in Nat /\ last \in Int /\ unheard \in {0, 1}
  /\ settle \in {"no", "new", "seen"} /\ clipping \in {"off", "frame", "sending"}
  /\ unheard = 0 /\ last # 0 - 1 => clip = last
  /\ clipping = "sending" /\ settle = "no" => payload = drawn
  /\ ClipFollows

LEMMA ClipBegins == ClipInit => ClipInv
BY DEF ClipInit, ClipInv, ClipFollows

LEMMA ClipStep == ClipInv /\ [ClipNext]_clipPart => ClipInv'
<1> SUFFICES ASSUME ClipInv, [ClipNext]_clipPart PROVE ClipInv'
  OBVIOUS
<1> USE ClipAssumption DEF ClipInv, ClipFollows
<1>1. CASE Draws
  BY <1>1 DEF Draws, ScheduleClip
<1>2. CASE ClipReset
  BY <1>2 DEF ClipReset
<1>3. CASE ClipForgotten
  BY <1>3 DEF ClipForgotten, ScheduleClip
<1>4. CASE ClipTurn
  BY <1>4 DEF ClipTurn
<1>5. CASE ClipAnswered
  BY <1>5 DEF ClipAnswered
<1>6. CASE SettleEnds
  BY <1>6 DEF SettleEnds
<1>7. CASE UNCHANGED clipPart
  BY <1>7 DEF clipPart
<1> QED BY <1>1, <1>2, <1>3, <1>4, <1>5, <1>6, <1>7 DEF ClipNext

\* When the loop has stopped, a shown window is clipped to what the page draws
\* (overlay.js:651).
THEOREM ClipIsDrawn == ClipSpec => []ClipFollows
<1>1. ClipInv => ClipFollows
  BY DEF ClipInv
<1> QED BY <1>1, ClipBegins, ClipStep, PTL DEF ClipSpec

-----------------------------------------------------------------------------
(* The types of the clip                                                   *)

LEMMA ClipValues == ClipInv /\ ClipTypeOK /\ [ClipNext]_clipPart => ClipTypeOK'
<1> SUFFICES ASSUME ClipTypeOK, [ClipNext]_clipPart PROVE ClipTypeOK'
  OBVIOUS
<1> USE ClipAssumption DEF ClipTypeOK
<1>1. CASE Draws
  BY <1>1 DEF Draws, ScheduleClip
<1>2. CASE ClipReset
  BY <1>2 DEF ClipReset
<1>3. CASE ClipForgotten
  BY <1>3 DEF ClipForgotten, ScheduleClip
<1>4. CASE ClipTurn
  BY <1>4 DEF ClipTurn
<1>5. CASE ClipAnswered
  BY <1>5 DEF ClipAnswered
<1>6. CASE SettleEnds
  BY <1>6 DEF SettleEnds
<1>7. CASE UNCHANGED clipPart
  BY <1>7 DEF clipPart
<1> QED BY <1>1, <1>2, <1>3, <1>4, <1>5, <1>6, <1>7 DEF ClipNext

-----------------------------------------------------------------------------
(* The settings of the main window                                         *)

Settings == [overlay : Nat, other : Nat]
Write == [revision : Nat, value : Settings]

\* Only the last write can have the newest revision, and it carries what the
\* window has; nothing is said to be saved before it has ended.
WritesLead ==
  /\ \A i \in 1 .. Len(writes) :
       writes[i].revision <= revision /\ (writes[i].revision = revision => i = Len(writes))
  /\ writes # <<>> => writes[Len(writes)].value.other = snap.other

EditsInv ==
  /\ snap \in Settings /\ disk \in Settings /\ edits \in Nat /\ writes \in Seq(Write) /\ revision \in Nat
  /\ save \in {"idle", "saving", "error"} /\ menu.read \in Settings /\ reload.stored \in Settings
  /\ DOMAIN menu = {"at", "read"} /\ DOMAIN reload = {"at", "stored", "known"}
  /\ WritesLead /\ SavedMeansWritten

LEMMA EditsBegins == EditsInit => EditsInv
BY DEF EditsInit, EditsInv, WritesLead, SavedMeansWritten, Settings, NoWrite

LEMMA WritesTyped ==
  ASSUME NEW s \in Seq(Write), NEW i \in 1 .. Len(s)
  PROVE  s[i].revision \in Nat /\ s[i].value \in Settings
<1>1. s[i] \in Write
  OBVIOUS
<1> QED BY <1>1 DEF Write

\* A write that joins the tail is the newest.
LEMMA SavedLeads ==
  ASSUME EditsInv, NEW value \in Settings, Saved(value), snap' \in Settings, snap'.other = value.other
  PROVE  writes' \in Seq(Write) /\ revision' \in Nat /\ WritesLead' /\ save' = "saving"
<1> DEFINE w == [revision |-> revision + 1, value |-> value]
<1>1. w \in Write /\ writes' = Append(writes, w) /\ revision' = revision + 1 /\ revision \in Nat /\ save' = "saving"
  BY DEF Saved, Write, EditsInv
<1>2. writes \in Seq(Write) /\ WritesLead
  BY DEF EditsInv
<1>3. w.revision = revision + 1 /\ w.value = value
  OBVIOUS
<1> HIDE DEF w
<1>4. writes' \in Seq(Write) /\ Len(writes') = Len(writes) + 1 /\ Len(writes) \in Nat /\ writes' # <<>>
  BY <1>1, <1>2
<1>5. /\ \A i \in 1 .. Len(writes) : writes'[i] = writes[i]
      /\ writes'[Len(writes) + 1] = w
  BY <1>1, <1>2
<1>6. \A i \in 1 .. Len(writes) : writes[i].revision \in Nat
  BY <1>2, WritesTyped
<1>7. WritesLead'
  BY <1>1, <1>2, <1>3, <1>4, <1>5, <1>6 DEF WritesLead
<1> QED BY <1>1, <1>4, <1>7

LEMMA EditsStep == EditsInv /\ [EditsNext]_editsPart => EditsInv'
<1> SUFFICES ASSUME EditsInv, [EditsNext]_editsPart PROVE EditsInv'
  OBVIOUS
<1>0. /\ snap \in Settings /\ disk \in Settings /\ edits \in Nat /\ writes \in Seq(Write) /\ revision \in Nat
      /\ save \in {"idle", "saving", "error"} /\ menu.read \in Settings /\ reload.stored \in Settings
      /\ DOMAIN menu = {"at", "read"} /\ DOMAIN reload = {"at", "stored", "known"}
      /\ WritesLead /\ SavedMeansWritten
  BY DEF EditsInv
<1>1. CASE EditSettings
  <2>1. snap' \in Settings /\ edits' \in Nat /\ Saved(snap') /\ UNCHANGED <<disk, menu, reload>>
    BY <1>0, <1>1 DEF EditSettings, Settings
  <2> QED BY <1>0, <2>1, SavedLeads DEF EditsInv, SavedMeansWritten
<1>2. CASE UpdateOverlay
  <2>1. /\ snap' \in Settings /\ snap'.other = snap.other /\ edits' \in Nat /\ revision' = revision + 1
        /\ save' = "saving" /\ UNCHANGED <<disk, writes, menu, reload>>
    <3>1. /\ edits' = edits + 1 /\ snap' = [snap EXCEPT !.overlay = edits + 1]
          /\ revision' = revision + 1 /\ save' = "saving" /\ UNCHANGED <<disk, writes, menu, reload>>
      BY <1>2 DEF UpdateOverlay
    <3>2. edits + 1 \in Nat
      BY <1>0
    <3>3. ASSUME NEW n \in Nat
          PROVE  [snap EXCEPT !.overlay = n] \in Settings /\ [snap EXCEPT !.overlay = n].other = snap.other
      BY <1>0 DEF Settings
    <3> QED BY <3>1, <3>2, <3>3
  <2>2. \A i \in 1 .. Len(writes) : writes[i].revision \in Nat
    BY <1>0, WritesTyped
  <2>3. WritesLead'
    BY <1>0, <2>1, <2>2 DEF WritesLead
  <2> QED BY <1>0, <2>1, <2>3 DEF EditsInv, SavedMeansWritten
<1>3. CASE SaveTimer
  <2>1. Saved(snap) /\ UNCHANGED <<snap, disk, edits, menu, reload>>
    BY <1>3 DEF SaveTimer
  <2> QED BY <1>0, <2>1, SavedLeads DEF EditsInv, SavedMeansWritten
<1>4. ASSUME NEW ok \in BOOLEAN, WriteEnds(ok) PROVE EditsInv'
  <2> DEFINE w == Head(writes)
  <2>1. /\ writes # <<>> /\ writes' = Tail(writes) /\ UNCHANGED <<snap, edits, revision, menu, reload>>
        /\ save' = IF w.revision = revision THEN (IF ok THEN "idle" ELSE "error") ELSE save
        /\ ok => disk' = w.value /\ sent' = w.value.other
        /\ ~ok => UNCHANGED <<disk, sent>>
    BY <1>4 DEF WriteEnds
  <2>2. /\ w = writes[1] /\ w \in Write /\ Len(writes) \in Nat \ {0} /\ 1 \in 1 .. Len(writes)
        /\ writes' \in Seq(Write) /\ Len(writes') = Len(writes) - 1
        /\ \A i \in 1 .. Len(writes') : writes'[i] = writes[i + 1] /\ i + 1 \in 1 .. Len(writes)
    BY <1>0, <2>1
  <2> HIDE DEF w
  <2>3. disk' \in Settings
    BY <1>0, <2>1, <2>2 DEF Write
  <2>4. WritesLead'
    <3>1. \A i \in 1 .. Len(writes') :
            writes'[i].revision <= revision' /\ (writes'[i].revision = revision' => i = Len(writes'))
      <4> SUFFICES ASSUME NEW i \in 1 .. Len(writes')
                   PROVE  writes'[i].revision <= revision /\ (writes'[i].revision = revision => i = Len(writes'))
        BY <2>1
      <4>1. writes'[i] = writes[i + 1] /\ i + 1 \in 1 .. Len(writes) /\ Len(writes') = Len(writes) - 1
        BY <2>2
      <4>2. writes[i + 1].revision <= revision /\ (writes[i + 1].revision = revision => i + 1 = Len(writes))
        BY <1>0, <4>1 DEF WritesLead
      <4> QED BY <2>2, <4>1, <4>2
    <3>2. ASSUME writes' # <<>> PROVE writes'[Len(writes')].value.other = snap'.other
      <4>1. Len(writes') \in 1 .. Len(writes') /\ Len(writes') + 1 = Len(writes)
        BY <2>2, <3>2
      <4> QED BY <1>0, <2>1, <2>2, <4>1 DEF WritesLead
    <3> QED BY <3>1, <3>2 DEF WritesLead
  <2>5. SavedMeansWritten'
    <3>1. CASE w.revision = revision
      <4>1. Len(writes) = 1 /\ w.value.other = snap.other
        BY <1>0, <2>1, <2>2, <3>1 DEF WritesLead
      <4>2. writes' = <<>>
        BY <2>2, <4>1
      <4> QED BY <2>1, <3>1, <4>1, <4>2 DEF SavedMeansWritten
    <3>2. CASE w.revision # revision
      <4>1. save # "idle" /\ save' = save
        BY <1>0, <2>1, <3>2 DEF SavedMeansWritten
      <4> QED BY <4>1 DEF SavedMeansWritten
    <3> QED BY <3>1, <3>2
  <2> QED BY <1>0, <2>1, <2>2, <2>3, <2>4, <2>5 DEF EditsInv
<1>5. CASE MenuReads
  BY <1>0, <1>5 DEF MenuReads, EditsInv, WritesLead, SavedMeansWritten
<1>6. CASE MenuWrites
  BY <1>0, <1>6 DEF MenuWrites, EditsInv, WritesLead, SavedMeansWritten, Settings
<1>7. CASE RefreshAsks
  BY <1>0, <1>7 DEF RefreshAsks, EditsInv, WritesLead, SavedMeansWritten, Settings, NoWrite
<1>8. CASE RefreshIsGiven
  BY <1>0, <1>8 DEF RefreshIsGiven, EditsInv, WritesLead, SavedMeansWritten
<1>9. CASE RefreshImports
  <2>1. /\ snap' \in Settings /\ snap'.other = snap.other /\ reload'.stored \in Settings
        /\ DOMAIN reload' = {"at", "stored", "known"}
        /\ UNCHANGED <<disk, edits, sent, writes, revision, save, menu>>
    BY <1>0, <1>9 DEF RefreshImports, Settings
  <2> QED BY <1>0, <2>1 DEF EditsInv, WritesLead, SavedMeansWritten
<1>10. CASE UNCHANGED editsPart
  BY <1>0, <1>10 DEF editsPart, EditsInv, WritesLead, SavedMeansWritten
<1> QED BY <1>1, <1>2, <1>3, <1>4, <1>5, <1>6, <1>7, <1>8, <1>9, <1>10 DEF EditsNext

\* When the window says its settings are saved, nothing is left to write and
\* the last of them reached the backend last (settings-writer.ts:24).
THEOREM SavedIsWritten == EditsSpec => []SavedMeansWritten
<1>1. EditsInv => SavedMeansWritten
  BY DEF EditsInv
<1> QED BY <1>1, EditsBegins, EditsStep, PTL DEF EditsSpec

-----------------------------------------------------------------------------
(* The types of the main window's settings                                 *)

\* Every copy of the settings is of an edit that was made.
Bounded == [overlay : 0 .. MaxEdits, other : 0 .. MaxEdits]

EditsBounds ==
  /\ {snap, disk, menu.read, reload.stored} \subseteq Bounded
  /\ edits \in 0 .. MaxEdits /\ sent \in 0 .. MaxEdits /\ failures \in 0 .. MaxFailures /\ saveTimer \in BOOLEAN
  /\ \A i \in 1 .. Len(writes) : writes[i].revision \in 1 .. revision /\ writes[i].value \in Bounded

LEMMA EditsBoundsBegin == EditsInit => EditsBounds
<1> SUFFICES ASSUME EditsInit PROVE EditsBounds
  OBVIOUS
<1>1. MaxEdits \in Nat /\ MaxFailures \in Nat
  BY EditsAssumption
<1>2. NoWrite \in Bounded
  BY <1>1 DEF NoWrite, Bounded
<1>3. {snap, disk, menu.read, reload.stored} = {NoWrite}
  BY DEF EditsInit
<1>4. Len(writes) = 0 /\ edits = 0 /\ sent = 0 /\ failures = 0 /\ saveTimer = FALSE
  BY DEF EditsInit
<1>5. \A i \in 1 .. Len(writes) : writes[i].revision \in 1 .. revision /\ writes[i].value \in Bounded
  BY <1>4
<1>6. {snap, disk, menu.read, reload.stored} \subseteq Bounded
  BY <1>2, <1>3
<1>7. edits \in 0 .. MaxEdits /\ sent \in 0 .. MaxEdits /\ failures \in 0 .. MaxFailures
  BY <1>1, <1>4
<1>8. saveTimer \in BOOLEAN
  BY <1>4, Zenon
<1> QED BY <1>5, <1>6, <1>7, <1>8 DEF EditsBounds

LEMMA BoundedEdited ==
  ASSUME NEW s \in Bounded, NEW n \in 0 .. MaxEdits
  PROVE  [s EXCEPT !.overlay = n] \in Bounded /\ [s EXCEPT !.other = n] \in Bounded
         /\ s.overlay \in 0 .. MaxEdits /\ s.other \in 0 .. MaxEdits
BY DEF Bounded

LEMMA SavedBounded ==
  ASSUME EditsInv, EditsBounds, NEW value \in Bounded, Saved(value)
  PROVE  \A i \in 1 .. Len(writes') : writes'[i].revision \in 1 .. revision' /\ writes'[i].value \in Bounded
<1> DEFINE w == [revision |-> revision + 1, value |-> value]
<1>1. writes' = Append(writes, w) /\ revision' = revision + 1 /\ revision \in Nat /\ writes \in Seq(Write)
  BY DEF Saved, EditsInv
<1>2. w.revision = revision + 1 /\ w.value = value
  OBVIOUS
<1> HIDE DEF w
<1>3. /\ Len(writes) \in Nat /\ Len(writes') = Len(writes) + 1 /\ writes'[Len(writes) + 1] = w
      /\ \A i \in 1 .. Len(writes) : writes'[i] = writes[i]
  BY <1>1
<1>4. ASSUME NEW i \in 1 .. Len(writes)
      PROVE  writes'[i].revision \in 1 .. revision' /\ writes'[i].value \in Bounded
  BY <1>1, <1>3 DEF EditsBounds
<1>5. writes'[Len(writes) + 1].revision \in 1 .. revision' /\ writes'[Len(writes) + 1].value \in Bounded
  BY <1>1, <1>2, <1>3
<1>6. ASSUME NEW i \in 1 .. Len(writes') PROVE i \in 1 .. Len(writes) \/ i = Len(writes) + 1
  BY <1>3
<1> QED BY <1>4, <1>5, <1>6

LEMMA EditsBounded == EditsInv /\ EditsBounds /\ [EditsNext]_editsPart => EditsBounds'
<1> SUFFICES ASSUME EditsInv, EditsBounds, [EditsNext]_editsPart PROVE EditsBounds'
  OBVIOUS
<1>0. /\ snap \in Bounded /\ disk \in Bounded /\ menu.read \in Bounded /\ reload.stored \in Bounded
      /\ edits \in 0 .. MaxEdits /\ sent \in 0 .. MaxEdits /\ failures \in 0 .. MaxFailures /\ saveTimer \in BOOLEAN
      /\ \A i \in 1 .. Len(writes) : writes[i].revision \in 1 .. revision /\ writes[i].value \in Bounded
      /\ revision \in Nat /\ writes \in Seq(Write)
  BY DEF EditsBounds, EditsInv
<1>a. edits < MaxEdits => edits + 1 \in 0 .. MaxEdits
  BY <1>0, EditsAssumption
<1>b. DOMAIN menu = {"at", "read"} /\ DOMAIN reload = {"at", "stored", "known"}
  BY DEF EditsInv
<1>1. CASE EditSettings
  <2>1. /\ edits < MaxEdits /\ edits' = edits + 1 /\ snap' = [snap EXCEPT !.other = edits + 1] /\ Saved(snap')
        /\ UNCHANGED <<disk, sent, saveTimer, menu, reload, failures>>
    BY <1>1 DEF EditSettings
  <2>2. snap' \in Bounded
    BY <1>0, <1>a, <2>1, BoundedEdited
  <2>3. \A i \in 1 .. Len(writes') : writes'[i].revision \in 1 .. revision' /\ writes'[i].value \in Bounded
    BY <2>1, <2>2, SavedBounded
  <2> QED BY <1>0, <1>a, <2>1, <2>2, <2>3 DEF EditsBounds
<1>2. CASE UpdateOverlay
  <2>1. /\ edits < MaxEdits /\ edits' = edits + 1 /\ snap' = [snap EXCEPT !.overlay = edits + 1]
        /\ revision' = revision + 1 /\ saveTimer' = TRUE /\ UNCHANGED <<disk, sent, writes, menu, reload, failures>>
    BY <1>2 DEF UpdateOverlay
  <2>2. snap' \in Bounded
    BY <1>0, <1>a, <2>1, BoundedEdited
  <2>3. \A i \in 1 .. Len(writes') : writes'[i].revision \in 1 .. revision' /\ writes'[i].value \in Bounded
    BY <1>0, <2>1
  <2> QED BY <1>0, <1>a, <2>1, <2>2, <2>3 DEF EditsBounds
<1>3. CASE SaveTimer
  <2>1. Saved(snap) /\ saveTimer' = FALSE /\ UNCHANGED <<snap, disk, edits, sent, menu, reload, failures>>
    BY <1>3 DEF SaveTimer
  <2>2. \A i \in 1 .. Len(writes') : writes'[i].revision \in 1 .. revision' /\ writes'[i].value \in Bounded
    BY <1>0, <2>1, SavedBounded
  <2> QED BY <1>0, <2>1, <2>2 DEF EditsBounds
<1>4. ASSUME NEW ok \in BOOLEAN, WriteEnds(ok) PROVE EditsBounds'
  <2> DEFINE w == Head(writes)
  <2>1. /\ writes # <<>> /\ (ok \/ failures < MaxFailures) /\ writes' = Tail(writes)
        /\ UNCHANGED <<snap, edits, revision, saveTimer, menu, reload>>
        /\ ok => disk' = w.value /\ sent' = w.value.other /\ failures' = failures
        /\ ~ok => failures' = failures + 1 /\ UNCHANGED <<disk, sent>>
    BY <1>4 DEF WriteEnds
  <2>2. /\ w = writes[1] /\ Len(writes) \in Nat \ {0} /\ 1 \in 1 .. Len(writes) /\ Len(writes') = Len(writes) - 1
        /\ \A i \in 1 .. Len(writes') : writes'[i] = writes[i + 1] /\ i + 1 \in 1 .. Len(writes)
    BY <1>0, <2>1
  <2> HIDE DEF w
  <2>3. w.value \in Bounded /\ w.value.other \in 0 .. MaxEdits
    BY <1>0, <2>2, BoundedEdited, EditsAssumption
  <2>4. \A i \in 1 .. Len(writes') : writes'[i].revision \in 1 .. revision' /\ writes'[i].value \in Bounded
    BY <1>0, <2>1, <2>2
  <2>5. failures' \in 0 .. MaxFailures
    BY <1>0, <1>4, <2>1, EditsAssumption
  <2>6. disk' \in Bounded /\ sent' \in 0 .. MaxEdits
    BY <1>0, <1>4, <2>1, <2>3
  <2> QED BY <1>0, <2>1, <2>4, <2>5, <2>6 DEF EditsBounds
<1>5. CASE MenuReads
  <2>1. menu'.read = disk /\ UNCHANGED <<snap, disk, edits, sent, writes, revision, save, saveTimer, reload, failures>>
    BY <1>5 DEF MenuReads
  <2> QED BY <1>0, <2>1 DEF EditsBounds
<1>6. CASE MenuWrites
  <2>1. /\ edits < MaxEdits /\ edits' = edits + 1 /\ disk' = [menu.read EXCEPT !.overlay = edits + 1]
        /\ menu' = [menu EXCEPT !.at = "idle"] /\ UNCHANGED <<snap, sent, writes, revision, saveTimer, reload, failures>>
    BY <1>6 DEF MenuWrites
  <2>2. menu'.read = menu.read
    BY <1>b, <2>1
  <2>3. disk' \in Bounded
    BY <1>0, <1>a, <2>1, BoundedEdited
  <2> QED BY <1>0, <1>a, <2>1, <2>2, <2>3 DEF EditsBounds
<1>7. CASE RefreshAsks
  <2>1. reload'.stored = NoWrite /\ UNCHANGED <<snap, disk, edits, sent, writes, revision, saveTimer, menu, failures>>
    BY <1>7 DEF RefreshAsks
  <2>2. NoWrite \in Bounded
    BY EditsAssumption DEF NoWrite, Bounded
  <2> QED BY <1>0, <2>1, <2>2 DEF EditsBounds
<1>8. CASE RefreshIsGiven
  <2>1. reload'.stored = disk /\ UNCHANGED <<snap, disk, edits, sent, writes, revision, saveTimer, menu, failures>>
    BY <1>b, <1>8 DEF RefreshIsGiven
  <2> QED BY <1>0, <2>1 DEF EditsBounds
<1>9. CASE RefreshImports
  <2>1. reload' = [reload EXCEPT !.at = "idle", !.known = FALSE]
        /\ snap' = (IF ~saveTimer /\ save = "idle" THEN [snap EXCEPT !.overlay = reload.stored.overlay] ELSE snap)
        /\ UNCHANGED <<disk, edits, sent, writes, revision, saveTimer, menu, failures>>
    BY <1>9 DEF RefreshImports
  <2>2. reload'.stored = reload.stored
    BY <1>b, <2>1
  <2>3. reload.stored.overlay \in 0 .. MaxEdits
    BY <1>0, BoundedEdited, EditsAssumption
  <2>4. snap' \in Bounded
    BY <1>0, <2>1, <2>3, BoundedEdited
  <2> QED BY <1>0, <2>1, <2>2, <2>4 DEF EditsBounds
<1>10. CASE UNCHANGED editsPart
  BY <1>0, <1>10 DEF editsPart, EditsBounds
<1> QED BY <1>1, <1>2, <1>3, <1>4, <1>5, <1>6, <1>7, <1>8, <1>9, <1>10 DEF EditsNext

LEMMA EditsValues == EditsInv /\ EditsBounds => EditsTypeOK
BY DEF EditsInv, EditsBounds, EditsTypeOK, Bounded

-----------------------------------------------------------------------------
(* The screen's capture                                                    *)

GrabStages == {"off", "ready", "recovering", "falling back"}
Grabs == [at : GrabStages, persistent : BOOLEAN, failures : Nat, told : BOOLEAN]

\* Between two loops there is no session, nor is there one after it was given up.
CaptureInv ==
  /\ grab \in Grabs /\ (grab.at = "off" => session = "none") /\ (grab.at = "recovering" => grab.persistent)
  /\ GivenUpIsClosed

LEMMA GrabMade ==
  ASSUME NEW p \in BOOLEAN
  PROVE  LET g == [at |-> "ready", persistent |-> p, failures |-> 0, told |-> FALSE]
         IN  g \in Grabs /\ g.at = "ready" /\ g.persistent = p
BY DEF Grabs, GrabStages

\* A grab that goes on to another stage, with its session or without one.
LEMMA GrabGoes ==
  ASSUME NEW g \in Grabs, NEW a \in GrabStages
  PROVE  LET h == [g EXCEPT !.at = a] IN h \in Grabs /\ h.at = a /\ h.persistent = g.persistent
BY DEF Grabs

LEMMA GrabGivesUp ==
  ASSUME NEW g \in Grabs, NEW a \in GrabStages
  PROVE  LET h == [g EXCEPT !.at = a, !.persistent = FALSE] IN h \in Grabs /\ h.at = a /\ ~h.persistent
BY DEF Grabs

Failed(g, a, n) == [g EXCEPT !.at = a, !.failures = n]

LEMMA GrabFails ==
  ASSUME NEW g \in Grabs, NEW a \in GrabStages, NEW n \in Nat
  PROVE  Failed(g, a, n) \in Grabs /\ Failed(g, a, n).at = a /\ Failed(g, a, n).persistent = g.persistent
BY DEF Grabs, Failed

Told(g, gdi) == [g EXCEPT !.at = "ready", !.told = g.told \/ gdi]

LEMMA GrabTells ==
  ASSUME NEW g \in Grabs, NEW gdi \in BOOLEAN
  PROVE  Told(g, gdi) \in Grabs /\ Told(g, gdi).at = "ready" /\ Told(g, gdi).persistent = g.persistent
BY DEF Grabs, GrabStages, Told

LEMMA GrabReads ==
  ASSUME NEW g \in Grabs
  PROVE  LET h == [g EXCEPT !.failures = 0] IN h \in Grabs /\ h.at = g.at /\ h.persistent = g.persistent
BY DEF Grabs

LEMMA GrabTyped == ASSUME NEW g \in Grabs PROVE g.at \in GrabStages /\ g.persistent \in BOOLEAN /\ g.failures \in Nat /\ g.told \in BOOLEAN
BY DEF Grabs

LEMMA CaptureBegins == CaptureInit => CaptureInv
BY DEF CaptureInit, CaptureInv, Grabs, GrabStages, GivenUpIsClosed

LEMMA FrameTaken == ASSUME NEW read \in BOOLEAN, TakesFrame(read) PROVE session' = session
BY DEF TakesFrame

LEMMA CaptureSteps == CaptureInv /\ [CaptureNext]_capturePart => CaptureInv'
<1> SUFFICES ASSUME CaptureInv, [CaptureNext]_capturePart PROVE CaptureInv'
  OBVIOUS
<1>0. /\ grab \in Grabs /\ (grab.at = "off" => session = "none") /\ (grab.at = "recovering" => grab.persistent)
      /\ GivenUpIsClosed
  BY DEF CaptureInv
<1>a. "off" \in GrabStages /\ "ready" \in GrabStages /\ "recovering" \in GrabStages /\ "falling back" \in GrabStages
  BY DEF GrabStages
<1>b. grab.at \in GrabStages /\ grab.persistent \in BOOLEAN /\ grab.failures \in Nat /\ grab.told \in BOOLEAN
  BY <1>0, GrabTyped
<1>1. CASE ScreenChanges \/ FrameArrives
  <2>1. UNCHANGED <<grab, session>>
    BY <1>1 DEF ScreenChanges, FrameArrives
  <2> QED BY <1>0, <2>1 DEF CaptureInv, GivenUpIsClosed
<1>2. CASE MonitorGone
  <2>1. session = "open" /\ grab' = grab
    BY <1>2 DEF MonitorGone
  <2>2. grab.at # "off" /\ ~(grab.at \notin {"off", "recovering"} /\ ~grab.persistent)
    BY <1>0, <2>1 DEF GivenUpIsClosed
  <2> QED BY <1>0, <2>1, <2>2 DEF CaptureInv, GivenUpIsClosed
<1>3. CASE LoopBegins
  <2>1. grab.at = "off" /\ \E p \in BOOLEAN :
          /\ grab' = [at |-> "ready", persistent |-> p, failures |-> 0, told |-> FALSE]
          /\ p \/ session' = session
    BY <1>3 DEF LoopBegins
  <2>2. PICK p \in BOOLEAN :
          /\ grab' = [at |-> "ready", persistent |-> p, failures |-> 0, told |-> FALSE]
          /\ p \/ session' = session
    BY <2>1
  <2>3. grab' \in Grabs /\ grab'.at = "ready" /\ grab'.persistent = p
    BY <2>2, GrabMade
  <2> QED BY <1>0, <2>1, <2>2, <2>3 DEF CaptureInv, GivenUpIsClosed
<1>4. CASE LoopEnds
  <2>1. grab' = [grab EXCEPT !.at = "off"] /\ session' = "none"
    BY <1>4 DEF LoopEnds, Closes
  <2>2. grab' \in Grabs
    BY <1>0, <1>a, <2>1, GrabGoes
  <2>3. grab'.at = "off"
    BY <1>0, <1>a, <2>1, GrabGoes
  <2> QED BY <2>1, <2>2, <2>3 DEF CaptureInv, GivenUpIsClosed
<1>5. CASE PersistentReads
  <2>1. grab' = [grab EXCEPT !.failures = 0] /\ session' = session
    BY <1>5, FrameTaken DEF PersistentReads
  <2>2. grab' \in Grabs /\ grab'.at = grab.at /\ grab'.persistent = grab.persistent
    BY <1>0, <2>1, GrabReads
  <2> QED BY <1>0, <2>1, <2>2 DEF CaptureInv, GivenUpIsClosed
<1>6. CASE PersistentFails
  <2>1. grab.persistent /\ session' = session
    BY <1>6, FrameTaken DEF PersistentFails, NoImageOfArea
  <2>2. grab' = [grab EXCEPT !.at = IF grab.failures \in {0, 2} THEN "recovering" ELSE "falling back",
                             !.failures = grab.failures + 1]
    BY <1>6 DEF PersistentFails
  <2>3. \E a \in GrabStages, n \in Nat : a # "off" /\ grab' = [grab EXCEPT !.at = a, !.failures = n]
    <3>1. grab.failures + 1 \in Nat
      BY <1>b
    <3>2. CASE grab.failures \in {0, 2}
      BY <1>a, <2>2, <3>1, <3>2
    <3>3. CASE grab.failures \notin {0, 2}
      BY <1>a, <2>2, <3>1, <3>3
    <3> QED BY <3>2, <3>3
  <2>4. PICK a \in GrabStages, n \in Nat : a # "off" /\ grab' = [grab EXCEPT !.at = a, !.failures = n]
    BY <2>3
  <2>5. grab' \in Grabs /\ grab'.at = a /\ grab'.persistent = grab.persistent
    <3>1. grab' = Failed(grab, a, n)
      BY <2>4 DEF Failed
    <3>2. Failed(grab, a, n) \in Grabs /\ Failed(grab, a, n).at = a
          /\ Failed(grab, a, n).persistent = grab.persistent
      BY <1>0, GrabFails
    <3> QED BY <3>1, <3>2
  <2> QED BY <2>1, <2>4, <2>5 DEF CaptureInv, GivenUpIsClosed
<1>7. CASE Recovers
  <2>0. grab.at = "recovering" /\ grab.persistent
    BY <1>0, <1>7 DEF Recovers
  <2>1. CASE grab' = [grab EXCEPT !.at = "falling back"]
    <3>1. grab' \in Grabs /\ grab'.at = "falling back" /\ grab'.persistent = grab.persistent
      BY <1>0, <1>a, <2>1, GrabGoes
    <3> QED BY <2>0, <3>1 DEF CaptureInv, GivenUpIsClosed
  <2>2. CASE grab' = [grab EXCEPT !.at = "falling back", !.persistent = FALSE] /\ session' = "none"
    <3>1. grab' \in Grabs /\ grab'.at = "falling back"
      BY <1>0, <1>a, <2>2, GrabGivesUp
    <3> QED BY <2>2, <3>1 DEF CaptureInv, GivenUpIsClosed
  <2> QED BY <1>7, <2>1, <2>2 DEF Recovers, Closes
<1>8. CASE SmartSession \/ SmartOther
  <2>1. grab.at = "falling back" \/ (grab.at = "ready" /\ ~grab.persistent)
    BY <1>8 DEF SmartSession, SmartOther
  <2>2. session' = session
    BY <1>8, FrameTaken DEF SmartSession, SmartOther, NoImageOfArea
  <2>3. \/ grab' = [grab EXCEPT !.at = "ready"]
        \/ \E gdi \in BOOLEAN : grab' = [grab EXCEPT !.at = "ready", !.told = grab.told \/ gdi]
    BY <1>8 DEF SmartSession, SmartOther
  <2>5. grab' \in Grabs /\ grab'.at = "ready" /\ grab'.persistent = grab.persistent
    <3>1. CASE grab' = [grab EXCEPT !.at = "ready"]
      BY <1>0, <1>a, <3>1, GrabGoes
    <3>2. ASSUME NEW gdi \in BOOLEAN, grab' = [grab EXCEPT !.at = "ready", !.told = grab.told \/ gdi]
          PROVE  grab' \in Grabs /\ grab'.at = "ready" /\ grab'.persistent = grab.persistent
      <4>1. grab' = Told(grab, gdi)
        BY ONLY <3>2 DEF Told
      <4> QED BY <1>0, <4>1, GrabTells
    <3> QED BY <2>3, <3>1, <3>2
  <2> QED BY <1>0, <2>1, <2>2, <2>5 DEF CaptureInv, GivenUpIsClosed
<1>9. CASE Screenshot
  <2>1. grab' = grab /\ session' = session
    BY <1>9, FrameTaken DEF Screenshot
  <2> QED BY <1>0, <2>1 DEF CaptureInv, GivenUpIsClosed
<1>10. CASE UNCHANGED capturePart
  BY <1>0, <1>10 DEF capturePart, CaptureInv, GivenUpIsClosed
<1> QED
  BY <1>1, <1>2, <1>3, <1>4, <1>5, <1>6, <1>7, <1>8, <1>9, <1>10 DEF CaptureNext, CaptureStep, CaptureTurns, System

\* A capture session that the loop has given up is closed (commands.rs:316).
THEOREM SessionGivenUp == CaptureSpec => []GivenUpIsClosed
<1>1. CaptureInv => GivenUpIsClosed
  BY DEF CaptureInv
<1> QED BY <1>1, CaptureBegins, CaptureSteps, PTL DEF CaptureSpec

-----------------------------------------------------------------------------
(* The types of the screen's capture                                       *)

\* No frame is newer than the screen, and the third failure in a row is the
\* last of a session.
Enough(at, persistent, n) == n <= 3 /\ (at \in {"ready", "falling back"} /\ persistent => n <= 2)
Patient(g) == Enough(g.at, g.persistent, g.failures)
CaptureBounds ==
  /\ screen \in 1 .. MaxChanges + 1 /\ session \in {"none", "open", "dead"}
  /\ channel \in Seq(Nat) /\ Len(channel) <= PoolSize /\ \A i \in 1 .. Len(channel) : channel[i] <= screen
  /\ buffer \in 0 .. screen /\ image \in 0 .. screen /\ errors \in 0 .. MaxErrors /\ loops \in 0 .. MaxLoops
  /\ Patient(grab)

LEMMA CaptureSizes == PoolSize \in Nat /\ MaxChanges \in Nat /\ MaxErrors \in Nat /\ MaxLoops \in Nat
BY CaptureAssumption

LEMMA CaptureBoundsBegin == CaptureInit => CaptureBounds
BY CaptureSizes DEF CaptureInit, CaptureBounds, NoImage, Patient, Enough

\* What each step makes of the count of failures.
LEMMA PatienceKept ==
  ASSUME NEW g \in Grabs, Patient(g)
  PROVE  /\ Patient([g EXCEPT !.at = "off"]) /\ Patient([g EXCEPT !.failures = 0])
         /\ Patient([g EXCEPT !.at = "falling back", !.persistent = FALSE])
         /\ g.failures = 1 => Patient([g EXCEPT !.at = "falling back"])
<1>1. ASSUME NEW a, NEW p, NEW n, Enough(a, p, n)
      PROVE  Enough("off", p, n) /\ Enough("falling back", FALSE, n)
  BY <1>1 DEF Enough
<1>2. ASSUME NEW a, NEW p PROVE Enough(a, p, 0) /\ Enough(a, p, 1)
  BY DEF Enough
<1>3. Enough(g.at, g.persistent, g.failures)
  BY DEF Patient
<1>4. Patient([g EXCEPT !.at = "off"])
  <2> DEFINE h == [g EXCEPT !.at = "off"]
  <2>1. h.at = "off" /\ h.persistent = g.persistent /\ h.failures = g.failures
    BY DEF Grabs
  <2> HIDE DEF h
  <2>2. Patient(h)
    BY <1>1, <1>3, <2>1 DEF Patient
  <2> QED BY <2>2 DEF h
<1>5. Patient([g EXCEPT !.failures = 0])
  <2> DEFINE h == [g EXCEPT !.failures = 0]
  <2>1. h.failures = 0
    BY DEF Grabs
  <2> HIDE DEF h
  <2>2. Patient(h)
    BY <1>2, <2>1 DEF Patient
  <2> QED BY <2>2 DEF h
<1>6. Patient([g EXCEPT !.at = "falling back", !.persistent = FALSE])
  <2> DEFINE h == [g EXCEPT !.at = "falling back", !.persistent = FALSE]
  <2>1. h.at = "falling back" /\ h.persistent = FALSE /\ h.failures = g.failures
    BY DEF Grabs
  <2> HIDE DEF h
  <2>2. Patient(h)
    BY <1>1, <1>3, <2>1 DEF Patient
  <2> QED BY <2>2 DEF h
<1>7. ASSUME g.failures = 1 PROVE Patient([g EXCEPT !.at = "falling back"])
  <2> DEFINE h == [g EXCEPT !.at = "falling back"]
  <2>1. h.failures = 1
    BY <1>7 DEF Grabs
  <2> HIDE DEF h
  <2>2. Patient(h)
    BY <1>2, <2>1 DEF Patient
  <2> QED BY <2>2 DEF h
<1> QED BY <1>4, <1>5, <1>6, <1>7

LEMMA PatienceTold ==
  ASSUME NEW g \in Grabs, Patient(g), g.at = "falling back" \/ (g.at = "ready" /\ ~g.persistent), NEW gdi \in BOOLEAN
  PROVE  Patient(Told(g, gdi)) /\ Told(g, FALSE) = [g EXCEPT !.at = "ready"]
<1>1. /\ Told(g, gdi).at = "ready" /\ Told(g, gdi).failures = g.failures
      /\ Told(g, gdi).persistent = g.persistent
  BY DEF Grabs, Told
<1>2. Told(g, FALSE) = [g EXCEPT !.at = "ready"]
  BY DEF Grabs, Told
<1>3. ASSUME NEW a, NEW p \in BOOLEAN, NEW n, Enough(a, p, n), a = "falling back" \/ ~p PROVE Enough("ready", p, n)
  BY <1>3 DEF Enough
<1>4. Enough("ready", g.persistent, g.failures)
  BY <1>3, GrabTyped DEF Patient
<1> QED BY <1>1, <1>2, <1>4 DEF Patient

LEMMA PatienceTried ==
  ASSUME NEW g \in Grabs, Patient(g), g.at = "ready", g.persistent
  PROVE  Patient(Failed(g, IF g.failures \in {0, 2} THEN "recovering" ELSE "falling back", g.failures + 1))
<1>1. ASSUME NEW n \in Nat, Enough("ready", TRUE, n)
      PROVE  Enough(IF n \in {0, 2} THEN "recovering" ELSE "falling back", TRUE, n + 1)
  BY <1>1 DEF Enough
<1> DEFINE a == IF g.failures \in {0, 2} THEN "recovering" ELSE "falling back"
           n == g.failures + 1
<1>2. g.failures \in Nat /\ g.persistent = TRUE
  BY GrabTyped
<1>3. Enough(a, TRUE, n)
  BY <1>1, <1>2 DEF Patient
<1>4. a \in GrabStages /\ n \in Nat
  BY <1>2 DEF GrabStages
<1> HIDE DEF a, n
<1>5. Failed(g, a, n).at = a /\ Failed(g, a, n).failures = n /\ Failed(g, a, n).persistent = g.persistent
  BY <1>4 DEF Grabs, Failed
<1>6. Patient(Failed(g, a, n))
  BY <1>2, <1>3, <1>5 DEF Patient
<1> QED BY <1>6 DEF a, n

LEMMA EmptyChannel == <<>> \in Seq(Nat) /\ Len(<<>>) = 0
OBVIOUS

\* Taking a frame adds nothing to what is on its way.
LEMMA TakenBounded ==
  ASSUME CaptureBounds, NEW read \in BOOLEAN, TakesFrame(read)
  PROVE  /\ UNCHANGED <<screen, session>>
         /\ channel' \in Seq(Nat) /\ Len(channel') <= PoolSize /\ \A i \in 1 .. Len(channel') : channel'[i] <= screen
         /\ buffer' \in 0 .. screen /\ errors' \in 0 .. MaxErrors
<1>0. /\ screen \in 1 .. MaxChanges + 1 /\ channel \in Seq(Nat) /\ \A i \in 1 .. Len(channel) : channel[i] <= screen
      /\ buffer \in 0 .. screen /\ errors \in 0 .. MaxErrors
  BY DEF CaptureBounds
<1>1. UNCHANGED <<screen, session>>
  BY DEF TakesFrame
<1>2. channel' = channel \/ channel' = <<>>
  BY DEF TakesFrame
<1>3. channel' \in Seq(Nat) /\ Len(channel') <= PoolSize /\ \A i \in 1 .. Len(channel') : channel'[i] <= screen
  <2>1. CASE channel' = channel
    BY <2>1 DEF CaptureBounds
  <2>2. CASE channel' = <<>>
    BY <2>2, EmptyChannel, CaptureSizes
  <2> QED BY <1>2, <2>1, <2>2
<1>4. buffer' = buffer \/ (channel # <<>> /\ buffer' = channel[Len(channel)])
  BY DEF TakesFrame
<1>5. ASSUME channel # <<>> PROVE channel[Len(channel)] \in 0 .. screen
  <2>1. Len(channel) \in 1 .. Len(channel) /\ channel[Len(channel)] \in Nat
    BY <1>0, <1>5
  <2>2. channel[Len(channel)] <= screen /\ screen \in Nat
    BY <1>0, <2>1, CaptureSizes
  <2> QED BY <2>1, <2>2
<1>6. buffer' \in 0 .. screen
  BY <1>0, <1>4, <1>5
<1>7. errors' = errors \/ (errors < MaxErrors /\ errors' = errors + 1)
  BY DEF TakesFrame, Fails
<1>8. errors' \in 0 .. MaxErrors
  BY <1>0, <1>7, CaptureSizes
<1> QED BY <1>1, <1>3, <1>6, <1>8

LEMMA CaptureBounded == CaptureInv /\ CaptureBounds /\ [CaptureNext]_capturePart => CaptureBounds'
<1> SUFFICES ASSUME CaptureInv, CaptureBounds, [CaptureNext]_capturePart PROVE CaptureBounds'
  OBVIOUS
<1>0. /\ screen \in 1 .. MaxChanges + 1 /\ session \in {"none", "open", "dead"}
      /\ channel \in Seq(Nat) /\ Len(channel) <= PoolSize /\ \A i \in 1 .. Len(channel) : channel[i] <= screen
      /\ buffer \in 0 .. screen /\ image \in 0 .. screen /\ errors \in 0 .. MaxErrors /\ loops \in 0 .. MaxLoops
  BY DEF CaptureBounds
<1>g. grab \in Grabs /\ Patient(grab)
  BY DEF CaptureBounds, CaptureInv
<1>a. screen \in Nat /\ PoolSize \in Nat /\ MaxChanges \in Nat /\ MaxErrors \in Nat /\ MaxLoops \in Nat
  BY <1>0, CaptureSizes
<1>b. ASSUME Fails PROVE errors' \in 0 .. MaxErrors
  BY <1>0, <1>a, <1>b DEF Fails
<1>1. CASE ScreenChanges
  <2>1. screen <= MaxChanges /\ screen' = screen + 1 /\ UNCHANGED <<session, channel, buffer, grab, image, errors, loops>>
    BY <1>1 DEF ScreenChanges
  <2>2. \A i \in 1 .. Len(channel') : channel'[i] <= screen'
    <3> SUFFICES ASSUME NEW i \in 1 .. Len(channel) PROVE channel[i] <= screen + 1
      BY <2>1
    <3>1. channel[i] \in Nat /\ channel[i] <= screen
      BY <1>0
    <3> QED BY <1>a, <3>1
  <2>3. screen' \in 1 .. MaxChanges + 1 /\ buffer' \in 0 .. screen' /\ image' \in 0 .. screen'
    BY <1>0, <1>a, <2>1
  <2> QED BY <1>0, <1>g, <2>1, <2>2, <2>3 DEF CaptureBounds
<1>2. CASE FrameArrives
  <2>1. Len(channel) < PoolSize /\ channel' = Append(channel, screen)
        /\ UNCHANGED <<screen, session, buffer, grab, image, errors, loops>>
    BY <1>2 DEF FrameArrives
  <2>2. /\ channel' \in Seq(Nat) /\ Len(channel) \in Nat /\ Len(channel') = Len(channel) + 1
        /\ channel'[Len(channel) + 1] = screen
        /\ \A i \in 1 .. Len(channel) : channel'[i] = channel[i]
    BY <1>0, <1>a, <2>1
  <2>3. ASSUME NEW i \in 1 .. Len(channel') PROVE channel'[i] <= screen'
    <3>1. CASE i \in 1 .. Len(channel)
      BY <1>0, <2>1, <2>2, <3>1
    <3>2. CASE i = Len(channel) + 1
      BY <1>a, <2>1, <2>2, <3>2
    <3> QED BY <2>2, <3>1, <3>2
  <2>4. Len(channel') <= PoolSize
    BY <1>a, <2>1, <2>2
  <2> QED BY <1>0, <1>g, <2>1, <2>2, <2>3, <2>4 DEF CaptureBounds
<1>3. CASE MonitorGone
  <2>1. Fails /\ session' = "dead" /\ UNCHANGED <<screen, channel, buffer, grab, image, loops>>
    BY <1>3 DEF MonitorGone, Fails
  <2> QED BY <1>0, <1>b, <1>g, <2>1 DEF CaptureBounds
<1>c. ASSUME Opens \/ Closes
      PROVE  /\ session' \in {"none", "open", "dead"} /\ channel' \in Seq(Nat) /\ Len(channel') <= PoolSize
             /\ \A i \in 1 .. Len(channel') : channel'[i] <= screen
             /\ buffer' \in 0 .. screen
  <2>1. session' \in {"none", "open"} /\ channel' = <<>> /\ buffer' = 0
    BY <1>c DEF Opens, Closes, NoImage
  <2> QED BY <1>a, <2>1, EmptyChannel
<1>4. CASE LoopBegins
  <2>1. /\ loops < MaxLoops /\ loops' = loops + 1 /\ image' = 0 /\ screen' = screen
        /\ \/ Opens /\ UNCHANGED errors
           \/ Fails /\ UNCHANGED <<session, channel, buffer>>
    BY <1>4 DEF LoopBegins, NoImage
  <2>2. loops' \in 0 .. MaxLoops /\ image' \in 0 .. screen
    BY <1>0, <1>a, <2>1
  <2>3. \E p \in BOOLEAN : grab' = [at |-> "ready", persistent |-> p, failures |-> 0, told |-> FALSE]
    BY <1>4 DEF LoopBegins
  <2>4. Patient(grab')
    BY <2>3 DEF Patient, Enough
  <2>5. CASE Opens /\ UNCHANGED errors
    BY <1>0, <1>c, <2>1, <2>2, <2>4, <2>5 DEF CaptureBounds
  <2>6. CASE Fails /\ UNCHANGED <<session, channel, buffer>>
    BY <1>0, <1>b, <2>1, <2>2, <2>4, <2>6 DEF CaptureBounds
  <2> QED BY <2>1, <2>5, <2>6
<1>5. CASE LoopEnds
  <2>1. Closes /\ UNCHANGED <<screen, image, errors, loops>>
    BY <1>5 DEF LoopEnds
  <2>2. Patient(grab')
    BY <1>5, <1>g, PatienceKept DEF LoopEnds
  <2> QED BY <1>0, <1>c, <2>1, <2>2 DEF CaptureBounds
<1>t. ASSUME NEW read \in BOOLEAN, TakesFrame(read), image' \in {image, screen, buffer'}, UNCHANGED loops, Patient(grab')
      PROVE  CaptureBounds'
  <2>1. /\ UNCHANGED <<screen, session>>
        /\ channel' \in Seq(Nat) /\ Len(channel') <= PoolSize /\ \A i \in 1 .. Len(channel') : channel'[i] <= screen
        /\ buffer' \in 0 .. screen /\ errors' \in 0 .. MaxErrors
    BY <1>t, TakenBounded
  <2>2. image' \in 0 .. screen
    BY <1>0, <1>a, <1>t, <2>1
  <2> QED BY <1>0, <1>t, <2>1, <2>2 DEF CaptureBounds
<1>6. CASE PersistentReads
  <2>1. Patient(grab')
    BY <1>6, <1>g, PatienceKept DEF PersistentReads
  <2> QED BY <1>6, <1>t, <2>1 DEF PersistentReads
<1>7. CASE PersistentFails
  <2>1. /\ grab.at = "ready" /\ grab.persistent
        /\ grab' = Failed(grab, IF grab.failures \in {0, 2} THEN "recovering" ELSE "falling back", grab.failures + 1)
    BY <1>7 DEF PersistentFails, Failed
  <2>2. NoImageOfArea /\ UNCHANGED <<image, loops>>
    BY <1>7 DEF PersistentFails
  <2>3. Patient(grab')
    BY <1>g, <2>1, PatienceTried
  <2> QED BY <1>t, <2>2, <2>3 DEF NoImageOfArea
<1>8. CASE Recovers
  <2>1. UNCHANGED <<screen, image, loops>> /\ (Opens \/ Closes) /\ (Fails \/ UNCHANGED errors)
    BY <1>8 DEF Recovers
  <2>2. \/ grab.failures = 1 /\ grab' = [grab EXCEPT !.at = "falling back"]
        \/ grab' = [grab EXCEPT !.at = "falling back", !.persistent = FALSE]
    BY <1>8 DEF Recovers
  <2>3. Patient(grab')
    BY <1>g, <2>2, PatienceKept
  <2>4. errors' \in 0 .. MaxErrors
    BY <1>0, <1>b, <2>1
  <2> QED BY <1>0, <1>c, <2>1, <2>3, <2>4 DEF CaptureBounds
<1>9. CASE SmartSession
  <2>1. grab.at = "falling back" \/ (grab.at = "ready" /\ ~grab.persistent)
    BY <1>9 DEF SmartSession
  <2>2. grab' = [grab EXCEPT !.at = "ready"]
    BY <1>9 DEF SmartSession
  <2>3. Patient(grab')
    BY <1>g, <2>1, <2>2, PatienceTold
  <2> QED BY <1>9, <1>t, <2>3 DEF SmartSession
<1>10. CASE SmartOther
  <2>1. grab.at = "falling back" \/ (grab.at = "ready" /\ ~grab.persistent)
    BY <1>10 DEF SmartOther
  <2>2. \E gdi \in BOOLEAN : grab' = Told(grab, gdi) \/ grab' = [grab EXCEPT !.at = "ready"]
    BY <1>10 DEF SmartOther, Told
  <2>3. Patient(grab')
    BY <1>g, <2>1, <2>2, PatienceTold
  <2>4. image' \in {image, screen} /\ UNCHANGED loops
    BY <1>10 DEF SmartOther
  <2>5. UNCHANGED <<screen, session, channel, buffer, errors>> \/ NoImageOfArea
    BY <1>10 DEF SmartOther
  <2>6. CASE UNCHANGED <<screen, session, channel, buffer, errors>>
    <3>1. image' \in 0 .. screen
      BY <1>0, <1>a, <2>4
    <3> QED BY <1>0, <2>3, <2>4, <2>6, <3>1 DEF CaptureBounds
  <2>7. CASE NoImageOfArea
    BY <1>t, <2>3, <2>4, <2>7 DEF NoImageOfArea
  <2> QED BY <2>5, <2>6, <2>7
<1>11. CASE Screenshot
  <2>1. UNCHANGED <<grab, image, loops>> /\ \E read \in BOOLEAN : TakesFrame(read)
    BY <1>11 DEF Screenshot
  <2> QED BY <1>g, <1>t, <2>1
<1>12. CASE UNCHANGED capturePart
  BY <1>0, <1>g, <1>12 DEF capturePart, CaptureBounds
<1> QED BY <1>1, <1>2, <1>3, <1>4, <1>5, <1>6, <1>7, <1>8, <1>9, <1>10, <1>11, <1>12
        DEF CaptureNext, System, CaptureStep, CaptureTurns

LEMMA CaptureValues == CaptureInv /\ CaptureBounds => CaptureTypeOK
<1> SUFFICES ASSUME CaptureInv, CaptureBounds PROVE CaptureTypeOK
  OBVIOUS
<1>1. grab.at \in GrabStages /\ grab.failures \in Nat
  BY GrabTyped DEF CaptureInv
<1>2. grab.failures \in 0 .. 3
  <2>1. grab.failures <= 3
    BY ZenonT(30) DEF CaptureBounds, Patient, Enough
  <2> QED BY <1>1, <2>1
<1> QED BY <1>1, <1>2 DEF CaptureBounds, CaptureTypeOK, GrabStages

-----------------------------------------------------------------------------
(* The native host                                                         *)

Announced == Regions \cup {NoRegion}
HostFrames ==
  [shown : BOOLEAN, through : BOOLEAN, interactive : BOOLEAN, region : Announced, style : {0, 1},
   ring : Announced \X {0, 1}, panel : BOOLEAN, faded : BOOLEAN, recent : BOOLEAN]
Picks == [open : BOOLEAN, selecting : BOOLEAN, complete : BOOLEAN, large : BOOLEAN]
Passes(f) == f.shown /\ ~f.interactive => f.through
RingDrawn(f) == f.region # NoRegion => f.ring = <<f.region, f.style>>

NativeInv ==
  /\ frame \in HostFrames /\ Passes(frame) /\ RingDrawn(frame)
  /\ pick \in Picks /\ owed \in BOOLEAN /\ SelectorAnswers
  /\ inbox \in Seq(Message)

LEMMA NativeBegins == NativeInit => NativeInv
<1> SUFFICES ASSUME NativeInit PROVE NativeInv
  OBVIOUS
<1>1. frame \in HostFrames /\ Passes(frame) /\ RingDrawn(frame)
  BY DEF NativeInit, HostFrames, Passes, RingDrawn, Announced
<1>2. pick \in Picks /\ owed = FALSE /\ ~pick.open /\ inbox = <<>>
  BY DEF NativeInit, Picks
<1>3. inbox \in Seq(Message) /\ SelectorAnswers
  BY <1>2 DEF SelectorAnswers
<1> QED BY <1>1, <1>2, <1>3 DEF NativeInv

\* What a handler of the overlay's messages leaves of a frame.
LEMMA HandlersKeep ==
  ASSUME NEW f \in HostFrames, Passes(f), RingDrawn(f), NEW r \in Announced
  PROVE  /\ Show(f) \in HostFrames /\ Passes(Show(f)) /\ RingDrawn(Show(f))
         /\ Hide(f) \in HostFrames /\ Passes(Hide(f)) /\ RingDrawn(Hide(f))
         /\ SetRegion(f, r) \in HostFrames /\ Passes(SetRegion(f, r)) /\ RingDrawn(SetRegion(f, r))
         /\ UpdateSettings(f) \in HostFrames /\ Passes(UpdateSettings(f)) /\ RingDrawn(UpdateSettings(f))
         /\ UpdateSubtitle(f) \in HostFrames /\ Passes(UpdateSubtitle(f)) /\ RingDrawn(UpdateSubtitle(f))
<1> USE DEF HostFrames, Passes, RingDrawn
<1>1. Show(f) \in HostFrames /\ Passes(Show(f)) /\ RingDrawn(Show(f))
  BY DEF Show
<1>2. Hide(f) \in HostFrames /\ Passes(Hide(f)) /\ RingDrawn(Hide(f))
  BY DEF Hide
<1>3. SetRegion(f, r) \in HostFrames /\ Passes(SetRegion(f, r)) /\ RingDrawn(SetRegion(f, r))
  BY DEF SetRegion, DrawBorderRing
<1>4. UpdateSettings(f) \in HostFrames /\ Passes(UpdateSettings(f)) /\ RingDrawn(UpdateSettings(f))
  <2> DEFINE g == [f EXCEPT !.style = 1 - f.style]
  <2>1. g \in HostFrames /\ Passes(g) /\ g.region = f.region
    OBVIOUS
  <2> HIDE DEF g
  <2>2. DrawBorderRing(g) \in HostFrames /\ Passes(DrawBorderRing(g)) /\ RingDrawn(DrawBorderRing(g))
    BY <2>1 DEF DrawBorderRing
  <2>3. UpdateSettings(f) = IF g.region = NoRegion THEN g ELSE DrawBorderRing(g)
    BY DEF UpdateSettings, g
  <2> QED BY <2>1, <2>2, <2>3
<1>5. UpdateSubtitle(f) \in HostFrames /\ Passes(UpdateSubtitle(f)) /\ RingDrawn(UpdateSubtitle(f))
  BY DEF UpdateSubtitle
<1> QED BY <1>1, <1>2, <1>3, <1>4, <1>5

Hovered(f, over) == [f EXCEPT !.recent = @ \/ over, !.interactive = over,
                              !.through = IF over # f.interactive THEN ~over ELSE @]

LEMMA HoverKeeps ==
  ASSUME NEW f \in HostFrames, Passes(f), RingDrawn(f), NEW over \in BOOLEAN
  PROVE  Hovered(f, over) \in HostFrames /\ Passes(Hovered(f, over)) /\ RingDrawn(Hovered(f, over))
<1>1. Hovered(f, over) \in HostFrames
  BY DEF Hovered, HostFrames
<1>2. CASE over
  BY <1>1, <1>2 DEF Hovered, HostFrames, Passes, RingDrawn
<1>3. CASE ~over
  BY <1>1, <1>3 DEF Hovered, HostFrames, Passes, RingDrawn
<1> QED BY <1>1, <1>2, <1>3

LEMMA NativeStep == NativeInv /\ [NativeNext]_nativeVars => NativeInv'
<1> SUFFICES ASSUME NativeInv, [NativeNext]_nativeVars PROVE NativeInv'
  OBVIOUS
<1>0. /\ frame \in HostFrames /\ Passes(frame) /\ RingDrawn(frame) /\ pick \in Picks /\ owed \in BOOLEAN
      /\ SelectorAnswers /\ inbox \in Seq(Message)
  BY DEF NativeInv
<1>1. CASE ServerMoves \/ LoopMoves \/ MouseMoves \/ UNCHANGED nativeVars
  <2>1. UNCHANGED <<inbox, frame, pick, owed>>
    BY <1>1 DEF ServerMoves, LoopMoves, MouseMoves, nativeVars
  <2> QED BY <1>0, <2>1 DEF NativeInv, SelectorAnswers
<1>2. ASSUME NEW m \in Message, Receives(m) PROVE NativeInv'
  <2>1. inbox' \in Seq(Message) /\ UNCHANGED <<frame, pick, owed>>
    BY <1>0, <1>2 DEF Receives
  <2> QED BY <1>0, <2>1 DEF NativeInv, SelectorAnswers
<1>3. CASE HandleMessage
  <2> DEFINE m == Head(inbox)
  <2>1. m \in Message /\ inbox' \in Seq(Message)
    BY <1>0, <1>3 DEF HandleMessage
  <2>2. m.region \in Announced
    BY <2>1 DEF Message, Announced
  <2>3. frame' \in {Show(frame), Hide(frame), SetRegion(frame, m.region), UpdateSettings(frame), UpdateSubtitle(frame), frame}
    BY <1>3 DEF HandleMessage
  <2>4. frame' \in HostFrames /\ Passes(frame') /\ RingDrawn(frame')
    BY <1>0, <2>2, <2>3, HandlersKeep
  <2>5. pick' \in Picks /\ owed' \in BOOLEAN /\ SelectorAnswers'
    <3>1. CASE m.type = "Region.RequestOpenSelector"
      <4>1. pick' = [open |-> TRUE, selecting |-> FALSE, complete |-> FALSE, large |-> FALSE] /\ owed' = TRUE
        BY <1>3, <3>1 DEF HandleMessage
      <4> QED BY <4>1 DEF Picks, SelectorAnswers
    <3>2. CASE m.type # "Region.RequestOpenSelector"
      BY <1>0, <1>3, <3>2 DEF HandleMessage, SelectorAnswers
    <3> QED BY <3>1, <3>2
  <2> QED BY <2>1, <2>4, <2>5 DEF NativeInv
<1>4. CASE CheckMouseHover
  <2>1. Over \in BOOLEAN
    BY DEF Over
  <2>2. frame' \in HostFrames /\ Passes(frame') /\ RingDrawn(frame')
    <3>1. frame' = Hovered(frame, Over)
      BY <1>4 DEF CheckMouseHover, Hovered
    <3> QED BY <1>0, <2>1, <3>1, HoverKeeps
  <2> QED BY <1>0, <1>4, <2>2 DEF CheckMouseHover, NativeInv, SelectorAnswers
<1>5. CASE CheckAutoFade
  <2>1. frame' \in HostFrames /\ Passes(frame') /\ RingDrawn(frame')
    BY <1>0, <1>5 DEF CheckAutoFade, HostFrames, Passes, RingDrawn
  <2> QED BY <1>0, <1>5, <2>1 DEF CheckAutoFade, NativeInv, SelectorAnswers
<1>6. CASE IdleTimePasses
  <2>1. frame' \in HostFrames /\ Passes(frame') /\ RingDrawn(frame')
    BY <1>0, <1>6 DEF IdleTimePasses, HostFrames, Passes, RingDrawn
  <2> QED BY <1>0, <1>6, <2>1 DEF IdleTimePasses, NativeInv, SelectorAnswers
<1>7. CASE Selects
  <2>1. pick' \in Picks /\ owed' \in BOOLEAN /\ SelectorAnswers'
    <3>1. pick.open /\ owed
      BY <1>0, <1>7 DEF Selects, SelectorAnswers
    <3>2. CASE OnPointerPressed \/ OnPointerReleased
      <4>1. pick' \in Picks /\ pick'.open = pick.open /\ owed' = owed
        BY <1>0, <3>2 DEF OnPointerPressed, OnPointerReleased, Picks
      <4> QED BY <1>0, <3>1, <4>1 DEF SelectorAnswers
    <3>3. CASE Redraw
      <4>1. pick' \in Picks /\ pick'.open = TRUE /\ owed' = owed
        BY <3>3 DEF Redraw, ResetSelection, Picks
      <4> QED BY <1>0, <3>1, <4>1 DEF SelectorAnswers
    <3>4. CASE CancelSelection \/ ConfirmButton
      <4>1. pick' \in Picks /\ pick'.open = FALSE /\ owed' = FALSE
        <5>1. CASE CancelSelection
          BY <5>1 DEF CancelSelection, ResetSelection, Picks
        <5>2. CASE ConfirmButton
          BY <1>0, <5>2 DEF ConfirmButton, Picks
        <5> QED BY <3>4, <5>1, <5>2
      <4> QED BY <4>1 DEF SelectorAnswers
    <3> QED BY <1>7, <3>2, <3>3, <3>4 DEF Selects
  <2> QED BY <1>0, <1>7, <2>1 DEF Selects, NativeInv
<1> QED BY <1>1, <1>2, <1>3, <1>4, <1>5, <1>6, <1>7 DEF NativeNext

\* The native overlay lets clicks through and draws its ring where its region
\* is, and its selector answers whoever opened it (FrameOverlayWindow.xaml.cs:489,
\* SelectorWindow.xaml.cs:181).
THEOREM HostLetsThrough == NativeSpec => []OverlayLetsThrough /\ []SelectorAnswers
<1>1. NativeInv => OverlayLetsThrough /\ SelectorAnswers
  BY DEF NativeInv, Passes, RingDrawn, OverlayLetsThrough
<1> QED BY <1>1, NativeBegins, NativeStep, PTL DEF NativeSpec

-----------------------------------------------------------------------------
(* The types of the native overlay host                                    *)

\* The queue holds messages that were sent, and no more of them.
NativeBounds ==
  /\ server \in BOOLEAN /\ losses \in 0 .. MaxLosses /\ backoff \in 0 .. MaxBackoff
  /\ loop \in {"connecting", "open", "backoff", "ended"} /\ cursor \in {"away", "region", "panel"}
  /\ Len(inbox) <= told /\ told \in 0 .. MaxMessages

LEMMA NativeBoundsBegin == NativeInit => NativeBounds
BY NativeAssumption DEF NativeInit, NativeBounds

LEMMA NativeBounded == NativeInv /\ NativeBounds /\ [NativeNext]_nativeVars => NativeBounds'
<1> SUFFICES ASSUME NativeInv, NativeBounds, [NativeNext]_nativeVars PROVE NativeBounds'
  OBVIOUS
<1>0. /\ server \in BOOLEAN /\ losses \in 0 .. MaxLosses /\ backoff \in 0 .. MaxBackoff
      /\ loop \in {"connecting", "open", "backoff", "ended"} /\ cursor \in {"away", "region", "panel"}
      /\ Len(inbox) <= told /\ told \in 0 .. MaxMessages /\ inbox \in Seq(Message) /\ Len(inbox) \in Nat
  BY LenProperties DEF NativeInv, NativeBounds
<1>a. MaxMessages \in Nat /\ MaxLosses \in Nat /\ MaxBackoff \in Nat
  BY NativeAssumption
<1>1. CASE ServerMoves
  <2>1. UNCHANGED <<loop, backoff, inbox, told, cursor>> /\ server' \in BOOLEAN
        /\ (losses' = losses \/ (losses < MaxLosses /\ losses' = losses + 1))
    BY <1>1 DEF ServerMoves, ServerComes, ServerGoes
  <2>2. losses' \in 0 .. MaxLosses
    BY <1>0, <1>a, <2>1
  <2> QED BY <1>0, <2>1, <2>2 DEF NativeBounds
<1>2. CASE LoopMoves
  <2>1. UNCHANGED <<server, losses, inbox, told, cursor>>
    BY <1>2 DEF LoopMoves
  <2>2. backoff' \in {backoff, 0} \/ (backoff < MaxBackoff /\ backoff' = backoff + 1)
    BY <1>2 DEF LoopMoves, Connects, ConnectTimesOut, ConnectFails, RetryDelayEnds, ReceivingEnds
  <2>3. loop' \in {"connecting", "open", "backoff", "ended"}
    BY <1>2 DEF LoopMoves, Connects, ConnectTimesOut, ConnectFails, RetryDelayEnds, ReceivingEnds
  <2>4. backoff' \in 0 .. MaxBackoff
    BY <1>0, <1>a, <2>2
  <2> QED BY <1>0, <2>1, <2>3, <2>4 DEF NativeBounds
<1>3. ASSUME NEW m \in Message, Receives(m) PROVE NativeBounds'
  <2>1. /\ told < MaxMessages /\ told' = told + 1 /\ UNCHANGED <<pipeState, cursor>>
        /\ inbox' = inbox \/ inbox' = Append(inbox, m)
    BY <1>3 DEF Receives
  <2>2. Len(Append(inbox, m)) = Len(inbox) + 1
    BY <1>0, <1>3
  <2>3. Len(inbox') <= Len(inbox) + 1 /\ Len(inbox') \in Nat
    BY <1>0, <2>1, <2>2
  <2> QED BY <1>0, <1>a, <2>1, <2>3 DEF NativeBounds, pipeState
<1>4. CASE HandleMessage
  <2>1. inbox # <<>> /\ inbox' = Tail(inbox) /\ UNCHANGED <<pipeState, told, cursor>>
    BY <1>4 DEF HandleMessage
  <2>2. Len(inbox') = Len(inbox) - 1
    BY <1>0, <2>1
  <2>3. Len(inbox') <= told'
    BY <1>0, <2>1, <2>2
  <2> QED BY <1>0, <2>1, <2>3 DEF NativeBounds, pipeState
<1>5. CASE CheckMouseHover \/ CheckAutoFade \/ IdleTimePasses \/ Selects \/ UNCHANGED nativeVars
  <2>1. UNCHANGED <<pipeState, inbox, told, cursor>>
    BY <1>5 DEF CheckMouseHover, CheckAutoFade, IdleTimePasses, Selects, nativeVars, pipeState
  <2> QED BY <1>0, <2>1 DEF NativeBounds, pipeState
<1>6. CASE MouseMoves
  BY <1>0, <1>6 DEF MouseMoves, NativeBounds, pipeState
<1> QED BY <1>1, <1>2, <1>3, <1>4, <1>5, <1>6 DEF NativeNext

LEMMA NativeValues == NativeInv /\ NativeBounds => NativeTypeOK
<1> SUFFICES ASSUME NativeInv, NativeBounds PROVE NativeTypeOK
  OBVIOUS
<1>1. /\ frame \in HostFrames /\ pick \in Picks /\ owed \in BOOLEAN /\ inbox \in Seq(Message)
  BY DEF NativeInv
<1>2. /\ frame.region \in Regions \union {NoRegion} /\ frame.style \in 0 .. 1
      /\ frame["shown"] \in BOOLEAN /\ frame["through"] \in BOOLEAN /\ frame["interactive"] \in BOOLEAN
      /\ frame["panel"] \in BOOLEAN /\ frame["faded"] \in BOOLEAN /\ frame["recent"] \in BOOLEAN
  BY <1>1 DEF HostFrames, Announced
<1> QED BY <1>1, <1>2 DEF NativeBounds, NativeTypeOK, Picks

-----------------------------------------------------------------------------
(* The recognizers                                                         *)

JobStages == {"waiting", "engine", "native", "ending", "done"}
JobResults == Fatal \cup {"ok", "OCR_ERROR", "OCR_INIT_FAILED", None}
Methods == {"initialize", "recognize", "languages"}
Jobs == [method : Methods, who : Recognizers \cup {None}, at : JobStages, result : JobResults, attended : BOOLEAN]

\* A process in use has one job at most, which is attended; in one of no use,
\* only the job that found that out is.
Alone == IF unusable THEN \A i \in 1 .. Len(jobs) :
                             jobs[i].attended => i = 1 /\ jobs[i].at = "done" /\ jobs[i].result \in Fatal
         ELSE Len(jobs) <= 1 /\ \A i \in 1 .. Len(jobs) : jobs[i].attended

\* Native work without the job that began it is that of a process of no use.
Unstacked ==
  /\ native \in {0, 1}
  /\ Holds("native") => native = 1
  /\ Holds("engine") => native = 0
  /\ native = 1 /\ ~Holds("native") => unusable \/ (Holds("ending") /\ Job.result \in Fatal)

\* A job that is to be answered with a result has the engine of its language,
\* and one that is done with a fatal one has marked its process.
Suits(who) == who \in {None, Pp, cached}
EngineSuits ==
  /\ Holds("native") /\ ~unusable => Suits(Job.who)
  /\ (Holds("ending") \/ Holds("done")) /\ Job.result = "ok" /\ ~unusable => Suits(Job.who)
  /\ Holds("done") /\ Job.result \in Fatal => unusable

QueueTyped ==
  /\ jobs \in Seq(Jobs)
  /\ \A i \in 2 .. Len(jobs) : jobs[i].at = "waiting"
  /\ \A i \in 1 .. Len(jobs) : jobs[i].method = "languages" => jobs[i].who = None

FatalKnown == fatal \in BOOLEAN /\ (fatal => unusable /\ ~Attended)

WorkerInv ==
  /\ unusable \in BOOLEAN /\ lock \in {"sound", "poisoned"} /\ (lock = "poisoned" => unusable)
  /\ QueueTyped /\ FatalKnown /\ Alone /\ Unstacked /\ EngineSuits /\ ResultsAreSound

LEMMA WorkerBegins == WorkerInit => WorkerInv
<1> SUFFICES ASSUME WorkerInit PROVE WorkerInv
  OBVIOUS
<1>1. /\ unusable = FALSE /\ lock = "sound" /\ jobs = <<>> /\ native = 0 /\ fatal = FALSE
      /\ answer = [is |-> None, asked |-> None, from |-> None]
  BY DEF WorkerInit
<1>2. QueueTyped /\ Alone /\ Unstacked /\ EngineSuits
  BY <1>1 DEF QueueTyped, Alone, Unstacked, EngineSuits, Holds
<1>3. FatalKnown /\ ResultsAreSound
  BY <1>1 DEF FatalKnown, ResultsAreSound, None
<1> QED BY <1>1, <1>2, <1>3 DEF WorkerInv

LEMMA JobTyped ==
  ASSUME NEW j \in Jobs
  PROVE  /\ j.method \in Methods /\ j.who \in Recognizers \cup {None} /\ j.at \in JobStages
         /\ j.result \in JobResults /\ j.attended \in BOOLEAN
BY DEF Jobs

\* The same request, further on.
Ahead(k, j) == k.method = j.method /\ k.who = j.who /\ k.attended = j.attended

LEMMA JobGoesOn ==
  ASSUME NEW j \in Jobs, NEW a \in JobStages
  PROVE  LET k == [j EXCEPT !.at = a] IN k \in Jobs /\ k.at = a /\ k.result = j.result /\ Ahead(k, j)
BY DEF Jobs, Ahead

Turned(j, a, r) == [j EXCEPT !.at = a, !.result = r]

LEMMA JobTurns ==
  ASSUME NEW j \in Jobs, NEW a \in JobStages, NEW r \in JobResults
  PROVE  LET k == Turned(j, a, r) IN k \in Jobs /\ k.at = a /\ k.result = r /\ Ahead(k, j)
BY DEF Jobs, Ahead, Turned

LEMMA HeadReplaced ==
  ASSUME NEW s \in Seq(Jobs), s # <<>>, NEW k \in Jobs
  PROVE  LET t == <<k>> \o Tail(s)
         IN  /\ t \in Seq(Jobs) /\ t # <<>> /\ Len(t) = Len(s) /\ Head(t) = k /\ t[1] = k
             /\ \A i \in 2 .. Len(s) : t[i] = s[i]
<1>1. <<k>> \in Seq(Jobs) /\ Len(<<k>>) = 1 /\ <<k>>[1] = k
  OBVIOUS
<1>2. Tail(s) \in Seq(Jobs) /\ Len(Tail(s)) = Len(s) - 1 /\ \A i \in 1 .. Len(s) - 1 : Tail(s)[i] = s[i + 1]
  BY HeadTailProperties
<1>3. Len(s) \in Nat /\ Len(s) >= 1
  OBVIOUS
<1> DEFINE t == <<k>> \o Tail(s)
<1>4. /\ t \in Seq(Jobs) /\ Len(t) = Len(s)
      /\ \A i \in 1 .. Len(s) : t[i] = IF i <= 1 THEN k ELSE Tail(s)[i - 1]
  BY <1>1, <1>2, <1>3, ConcatProperties
<1> HIDE DEF t
<1>5. t[1] = k /\ \A i \in 2 .. Len(s) : t[i] = s[i]
  BY <1>2, <1>3, <1>4
<1>6. t # <<>> /\ Head(t) = t[1]
  BY <1>3, <1>4
<1> QED BY <1>4, <1>5, <1>6 DEF t

LEMMA HeadFirst == ASSUME NEW s \in Seq(Jobs), s # <<>> PROVE Head(s) = s[1] /\ Head(s) \in Jobs /\ 1 \in 1 .. Len(s)
OBVIOUS

\* The first job goes on; whoever is attended in a process of no use is told so.
LEMMA HeadGoesOn ==
  ASSUME WorkerInv, jobs # <<>>, NEW k \in Jobs, JobIs(k), Ahead(k, Job), UNCHANGED <<lock, fatal, answer>>,
         unusable' \in BOOLEAN, unusable => unusable',
         unusable' /\ Job.attended => k.at = "done" /\ k.result \in Fatal
  PROVE  /\ jobs' # <<>> /\ Job' = k
         /\ (Unstacked /\ EngineSuits)' => WorkerInv'
<1>0. /\ unusable \in BOOLEAN /\ lock \in {"sound", "poisoned"} /\ (lock = "poisoned" => unusable)
      /\ QueueTyped /\ FatalKnown /\ Alone /\ ResultsAreSound
  BY DEF WorkerInv
<1>1. jobs \in Seq(Jobs) /\ jobs' = <<k>> \o Tail(jobs) /\ Job = jobs[1] /\ 1 \in 1 .. Len(jobs) /\ Len(jobs) \in Nat
  BY <1>0, HeadFirst DEF QueueTyped, JobIs, Job
<1>2. /\ jobs' \in Seq(Jobs) /\ jobs' # <<>> /\ Len(jobs') = Len(jobs) /\ Head(jobs') = k /\ jobs'[1] = k
      /\ \A i \in 2 .. Len(jobs) : jobs'[i] = jobs[i]
  BY <1>1, HeadReplaced
<1>3. \A i \in 1 .. Len(jobs) : i = 1 \/ i \in 2 .. Len(jobs)
  BY <1>1
<1>4. k.method = jobs[1].method /\ k.who = jobs[1].who /\ k.attended = jobs[1].attended
  BY <1>1 DEF Ahead
<1>5. QueueTyped'
  BY <1>0, <1>1, <1>2, <1>3, <1>4 DEF QueueTyped
<1>6. \A i \in 1 .. Len(jobs) : jobs'[i].attended = jobs[i].attended
  BY <1>2, <1>3, <1>4
<1>7. Attended' => Attended
  BY <1>2, <1>6 DEF Attended
<1>8. FatalKnown'
  BY <1>0, <1>7 DEF FatalKnown
<1>9. Alone'
  <2>1. CASE unusable
    <3>1. \A i \in 1 .. Len(jobs) : jobs[i].attended => i = 1
      BY <1>0, <2>1 DEF Alone
    <3> QED BY <1>1, <1>2, <1>4, <1>6, <2>1, <3>1 DEF Alone
  <2>2. CASE ~unusable
    <3>1. Len(jobs) = 1 /\ \A i \in 1 .. Len(jobs) : jobs[i].attended
      BY <1>0, <1>1, <2>2 DEF Alone
    <3>2. Len(jobs') = 1 /\ jobs'[1] = k /\ k.attended /\ Job.attended
      BY <1>1, <1>2, <1>4, <3>1
    <3>3. \A i \in 1 .. Len(jobs') : i = 1
      BY <3>2
    <3>4. CASE unusable'
      BY <3>2, <3>3, <3>4 DEF Alone
    <3>5. CASE ~unusable'
      BY <3>2, <3>3, <3>5 DEF Alone
    <3> QED BY <3>4, <3>5
  <2> QED BY <1>0, <2>1, <2>2
<1>10. ResultsAreSound' /\ lock' = lock
  BY <1>0 DEF ResultsAreSound
<1>11. Job' = k
  BY <1>2 DEF Job
<1> QED BY <1>0, <1>2, <1>5, <1>8, <1>9, <1>10, <1>11 DEF WorkerInv

\* The first job leaves the queue: nobody is left who is attended.
LEMMA HeadLeaves ==
  ASSUME WorkerInv, jobs # <<>>, jobs' = Tail(jobs), unusable' \in BOOLEAN, unusable => unusable',
         native' \in {0, 1}, native' = 1 => unusable'
  PROVE  QueueTyped' /\ ~Attended' /\ Alone' /\ Unstacked' /\ EngineSuits'
<1>0. QueueTyped /\ Alone /\ unusable \in BOOLEAN
  BY DEF WorkerInv
<1>1. /\ jobs \in Seq(Jobs) /\ Len(jobs) \in Nat \ {0} /\ jobs' \in Seq(Jobs) /\ Len(jobs') = Len(jobs) - 1
      /\ \A i \in 1 .. Len(jobs') : jobs'[i] = jobs[i + 1] /\ i + 1 \in 2 .. Len(jobs)
  BY <1>0, HeadTailProperties DEF QueueTyped
<1>2. /\ \A i \in 1 .. Len(jobs') : jobs'[i].at = "waiting"
      /\ \A i \in 1 .. Len(jobs') : jobs'[i].method = "languages" => jobs'[i].who = None
  BY <1>0, <1>1 DEF QueueTyped
<1>3. QueueTyped'
  BY <1>1, <1>2 DEF QueueTyped
<1>4. \A i \in 1 .. Len(jobs') : ~jobs'[i].attended
  <2>1. CASE unusable
    <3>1. \A i \in 1 .. Len(jobs) : jobs[i].attended => i = 1
      BY <1>0, <2>1 DEF Alone
    <3> QED BY <1>1, <3>1
  <2>2. CASE ~unusable
    BY <1>0, <1>1, <2>2 DEF Alone
  <2> QED BY <1>0, <2>1, <2>2
<1>5. ~Attended'
  BY <1>4 DEF Attended
<1>6. Alone'
  <2>1. CASE unusable'
    BY <1>4, <2>1 DEF Alone
  <2>2. CASE ~unusable'
    <3>1. Len(jobs) <= 1
      BY <1>0, <2>2 DEF Alone
    <3> QED BY <1>1, <1>4, <2>2, <3>1 DEF Alone
  <2> QED BY <2>1, <2>2
<1>7. jobs' # <<>> => Head(jobs').at = "waiting"
  BY <1>1, <1>2, HeadFirst
<1>8. ~Holds("native")' /\ ~Holds("engine")' /\ ~Holds("ending")' /\ ~Holds("done")'
  BY <1>7 DEF Holds, Job
<1> QED BY <1>3, <1>5, <1>6, <1>8 DEF Unstacked, EngineSuits

LEMMA DispatchStep ==
  ASSUME WorkerInv, NEW method \in Methods, NEW who \in Recognizers \cup {None}, method = "languages" => who = None,
         Dispatch(method, who)
  PROVE  WorkerInv'
<1>0. /\ unusable \in BOOLEAN /\ lock \in {"sound", "poisoned"} /\ (lock = "poisoned" => unusable)
      /\ QueueTyped /\ FatalKnown /\ Alone /\ Unstacked /\ EngineSuits /\ ResultsAreSound
  BY DEF WorkerInv
<1>1. ~Attended /\ UNCHANGED <<unusable, lock, cached, native>>
  BY DEF Dispatch
<1>2. CASE unusable
  <2>1. jobs' = jobs /\ answer' = [is |-> "OCR_PROCESS_UNUSABLE", asked |-> who, from |-> None] /\ fatal' = TRUE
    BY <1>0, <1>2 DEF Dispatch, Answers, Fatal, FatalKnown
  <2>2. FatalKnown' /\ ResultsAreSound'
    BY <1>1, <1>2, <2>1 DEF FatalKnown, ResultsAreSound, Attended
  <2> QED BY <1>0, <1>1, <2>1, <2>2
          DEF WorkerInv, QueueTyped, Alone, Unstacked, EngineSuits, Holds, Job, Suits
<1>3. CASE ~unusable
  <2> DEFINE j == [method |-> method, who |-> who, at |-> "waiting", result |-> None, attended |-> TRUE]
  <2>1. jobs' = Append(jobs, j) /\ UNCHANGED <<answer, fatal>>
    BY <1>3 DEF Dispatch, Silent
  <2>2. j \in Jobs /\ j.at = "waiting" /\ j.attended /\ (j.method = "languages" => j.who = None)
    BY DEF Jobs, JobStages, JobResults
  <2> HIDE DEF j
  <2>3. jobs = <<>>
    <3>1. jobs \in Seq(Jobs) /\ \A i \in 1 .. Len(jobs) : jobs[i].attended
      BY <1>0, <1>3 DEF QueueTyped, Alone
    <3> QED BY <1>1, <3>1 DEF Attended
  <2>4. jobs' \in Seq(Jobs) /\ Len(jobs') = 1 /\ jobs'[1] = j /\ jobs' # <<>> /\ Head(jobs') = j
    BY <2>1, <2>2, <2>3
  <2>5. QueueTyped' /\ Alone'
    BY <1>1, <1>3, <2>2, <2>4 DEF QueueTyped, Alone
  <2>6. native = 0
    BY <1>0, <1>3, <2>3 DEF Unstacked, Holds
  <2>7. Unstacked' /\ EngineSuits'
    BY <1>1, <2>2, <2>4, <2>6 DEF Unstacked, EngineSuits, Holds, Job
  <2>8. FatalKnown' /\ ResultsAreSound'
    BY <1>0, <1>1, <1>3, <2>1 DEF FatalKnown, ResultsAreSound
  <2> QED BY <1>0, <1>1, <2>5, <2>7, <2>8 DEF WorkerInv
<1> QED BY <1>0, <1>2, <1>3

LEMMA JobStartsStep == ASSUME WorkerInv, JobStarts PROVE WorkerInv'
<1>0. /\ unusable \in BOOLEAN /\ lock \in {"sound", "poisoned"} /\ (lock = "poisoned" => unusable)
      /\ QueueTyped /\ Alone /\ Unstacked
  BY DEF WorkerInv
<1>1. jobs # <<>> /\ Job.at = "waiting" /\ UNCHANGED <<answer, fatal, unusable, lock, native>>
  BY DEF JobStarts, Holds, Silent
<1>2. jobs \in Seq(Jobs) /\ Job = jobs[1] /\ Job \in Jobs /\ 1 \in 1 .. Len(jobs)
  BY <1>0, <1>1, HeadFirst DEF QueueTyped, Job
<1>3. ~(unusable /\ Job.attended)
  BY <1>0, <1>1, <1>2 DEF Alone
<1>4. native = 1 => unusable
  BY <1>0, <1>1 DEF Unstacked, Holds
<1>5. CASE unusable
  <2> DEFINE k == Turned(Job, "done", "OCR_PROCESS_UNUSABLE")
  <2>1. JobIs(k)
    BY <1>0, <1>5 DEF JobStarts, Turned
  <2>2. k \in Jobs /\ k.at = "done" /\ k.result \in Fatal /\ Ahead(k, Job)
    BY <1>2, JobTurns DEF JobStages, JobResults, Fatal
  <2> HIDE DEF k
  <2>3. jobs' # <<>> /\ Job' = k /\ ((Unstacked /\ EngineSuits)' => WorkerInv')
    BY <1>0, <1>1, <1>3, <2>1, <2>2, HeadGoesOn
  <2>4. Unstacked' /\ EngineSuits'
    BY <1>0, <1>1, <1>5, <2>2, <2>3 DEF Unstacked, EngineSuits, Holds
  <2> QED BY <2>3, <2>4
<1>6. CASE ~unusable
  <2>1. JobIs([Job EXCEPT !.at = IF Job.method = "languages" THEN "ending" ELSE "engine", !.result = "ok"])
    BY <1>0, <1>6 DEF JobStarts
  <2>2. PICK a \in {"ending", "engine"} :
          (a = "ending" => Job.method = "languages") /\ JobIs(Turned(Job, a, "ok"))
    BY <2>1 DEF Turned
  <2> DEFINE k == Turned(Job, a, "ok")
  <2>3. a \in JobStages /\ "ok" \in JobResults
    BY <2>2 DEF JobStages, JobResults
  <2>4. k \in Jobs /\ k.at = a /\ k.result = "ok" /\ Ahead(k, Job) /\ JobIs(k)
    BY <1>2, <2>2, <2>3, JobTurns
  <2> HIDE DEF k
  <2>5. jobs' # <<>> /\ Job' = k /\ ((Unstacked /\ EngineSuits)' => WorkerInv')
    BY <1>0, <1>1, <1>6, <2>4, HeadGoesOn
  <2>6. a = "ending" => k.who = None
    BY <1>0, <1>2, <2>2, <2>4 DEF QueueTyped, Ahead
  <2>7. native = 0
    BY <1>0, <1>4, <1>6 DEF Unstacked
  <2>8. Unstacked'
    BY <1>1, <2>2, <2>4, <2>5, <2>7 DEF Unstacked, Holds
  <2>9. EngineSuits'
    BY <2>2, <2>4, <2>5, <2>6 DEF EngineSuits, Holds, Suits
  <2> QED BY <2>5, <2>8, <2>9
<1> QED BY <1>0, <1>5, <1>6

\* An engine is had, or is not: what follows is native work or the end.
LEMMA EnginesStep == ASSUME WorkerInv, Engines PROVE WorkerInv'
<1>0. unusable \in BOOLEAN /\ QueueTyped /\ Alone /\ Unstacked
  BY DEF WorkerInv
<1>1. jobs # <<>> /\ Job.at = "engine" /\ UNCHANGED <<answer, fatal, unusable, lock>>
  BY DEF Engines, WindowsEngine, PpEngine, Holds, Silent
<1>2. jobs \in Seq(Jobs) /\ Job = jobs[1] /\ Job \in Jobs /\ 1 \in 1 .. Len(jobs)
  BY <1>0, <1>1, HeadFirst DEF QueueTyped, Job
<1>3. ~(unusable /\ Job.attended)
  BY <1>0, <1>1, <1>2 DEF Alone
<1>4. native = 0
  BY <1>0, <1>1 DEF Unstacked, Holds
<1>5. CASE WithEngine /\ Job.who \in {Pp, cached'}
  <2>1. PICK a \in {"native", "ending"} :
          JobIs([Job EXCEPT !.at = a]) /\ native' = IF a = "native" THEN 1 ELSE 0
    BY <1>4, <1>5 DEF WithEngine
  <2> DEFINE k == [Job EXCEPT !.at = a]
  <2>2. a \in JobStages
    BY <2>1 DEF JobStages
  <2>3. k \in Jobs /\ k.at = a /\ Ahead(k, Job) /\ JobIs(k)
    BY <1>2, <2>1, <2>2, JobGoesOn
  <2> HIDE DEF k
  <2>4. jobs' # <<>> /\ Job' = k /\ ((Unstacked /\ EngineSuits)' => WorkerInv')
    BY <1>0, <1>1, <1>3, <2>3, HeadGoesOn
  <2>5. Unstacked'
    BY <2>1, <2>3, <2>4 DEF Unstacked, Holds
  <2>6. EngineSuits'
    BY <1>5, <2>1, <2>3, <2>4 DEF EngineSuits, Holds, Suits, Ahead
  <2> QED BY <2>4, <2>5, <2>6
<1>6. CASE JobIs(Turned(Job, "ending", "OCR_INIT_FAILED")) /\ native' = native
  <2> DEFINE k == Turned(Job, "ending", "OCR_INIT_FAILED")
  <2>1. "ending" \in JobStages /\ "OCR_INIT_FAILED" \in JobResults
    BY DEF JobStages, JobResults
  <2>2. k \in Jobs /\ k.at = "ending" /\ k.result = "OCR_INIT_FAILED" /\ Ahead(k, Job) /\ JobIs(k)
    BY <1>2, <1>6, <2>1, JobTurns
  <2> HIDE DEF k
  <2>3. jobs' # <<>> /\ Job' = k /\ ((Unstacked /\ EngineSuits)' => WorkerInv')
    BY <1>0, <1>1, <1>3, <2>2, HeadGoesOn
  <2>4. Unstacked' /\ EngineSuits'
    BY <1>4, <1>6, <2>2, <2>3 DEF Unstacked, EngineSuits, Holds
  <2> QED BY <2>3, <2>4
<1> QED BY <1>5, <1>6 DEF Engines, WindowsEngine, PpEngine, Turned

LEMMA NativeEndsStep == ASSUME WorkerInv, NativeEnds PROVE WorkerInv'
<1>0. unusable \in BOOLEAN /\ QueueTyped /\ Alone /\ Unstacked /\ EngineSuits
  BY DEF WorkerInv
<1>1. jobs # <<>> /\ Job.at = "native" /\ UNCHANGED <<answer, fatal, unusable, lock>>
  BY DEF NativeEnds, Holds, Silent
<1>2. jobs \in Seq(Jobs) /\ Job = jobs[1] /\ Job \in Jobs /\ 1 \in 1 .. Len(jobs)
  BY <1>0, <1>1, HeadFirst DEF QueueTyped, Job
<1>3. ~(unusable /\ Job.attended)
  BY <1>0, <1>1, <1>2 DEF Alone
<1>4. native = 1 /\ (~unusable => Suits(Job.who))
  BY <1>0, <1>1 DEF Unstacked, EngineSuits, Holds
<1>5. PICK r \in Fatal \cup {"ok", "OCR_ERROR"} :
        (/\ JobIs(Turned(Job, "ending", r))
         /\ \/ native' = 0 /\ cached' = cached /\ r \in {"ok", "OCR_ERROR"}
            \/ native' = 1 /\ r \in Fatal)
  <2>1. \/ native' = native - 1 /\ cached' = cached /\ \E r \in {"ok", "OCR_ERROR"} : JobIs(Turned(Job, "ending", r))
        \/ native' = native /\ \E r \in Fatal : JobIs(Turned(Job, "ending", r))
    BY DEF NativeEnds, Turned
  <2>2. CASE native' = native - 1 /\ cached' = cached /\ \E r \in {"ok", "OCR_ERROR"} : JobIs(Turned(Job, "ending", r))
    <3>1. PICK r \in {"ok", "OCR_ERROR"} : JobIs(Turned(Job, "ending", r))
      BY <2>2
    <3> QED BY <1>4, <2>2, <3>1
  <2>3. CASE native' = native /\ \E r \in Fatal : JobIs(Turned(Job, "ending", r))
    <3>1. PICK r \in Fatal : JobIs(Turned(Job, "ending", r))
      BY <2>3
    <3> QED BY <1>4, <2>3, <3>1
  <2> QED BY <2>1, <2>2, <2>3
<1> DEFINE k == Turned(Job, "ending", r)
<1>6. "ending" \in JobStages /\ r \in JobResults
  BY <1>5 DEF JobStages, JobResults
<1>7. k \in Jobs /\ k.at = "ending" /\ k.result = r /\ Ahead(k, Job) /\ JobIs(k)
  BY <1>2, <1>5, <1>6, JobTurns
<1> HIDE DEF k
<1>8. jobs' # <<>> /\ Job' = k /\ ((Unstacked /\ EngineSuits)' => WorkerInv')
  BY <1>0, <1>1, <1>3, <1>7, HeadGoesOn
<1>9. Unstacked'
  BY <1>5, <1>7, <1>8 DEF Unstacked, Holds
<1>10. "ok" \notin Fatal
  BY DEF Fatal
<1>11. EngineSuits'
  BY <1>1, <1>4, <1>5, <1>7, <1>8, <1>10 DEF EngineSuits, Holds, Suits, Ahead
<1> QED BY <1>8, <1>9, <1>11

LEMMA JobChecksStep == ASSUME WorkerInv, JobChecks PROVE WorkerInv'
<1>0. unusable \in BOOLEAN /\ QueueTyped /\ Alone /\ Unstacked /\ EngineSuits
  BY DEF WorkerInv
<1>1. /\ jobs # <<>> /\ Job.at = "ending" /\ UNCHANGED <<answer, fatal, lock, native>>
      /\ JobIs([Job EXCEPT !.at = "done"])
      /\ unusable' = (unusable \/ Job.result \in Fatal) /\ (~unusable' => cached' = cached)
  BY DEF JobChecks, Holds, Silent
<1>2. jobs \in Seq(Jobs) /\ Job = jobs[1] /\ Job \in Jobs /\ 1 \in 1 .. Len(jobs)
  BY <1>0, <1>1, HeadFirst DEF QueueTyped, Job
<1>3. ~(unusable /\ Job.attended)
  BY <1>0, <1>1, <1>2 DEF Alone
<1>4. unusable' \in BOOLEAN /\ (unusable => unusable') /\ (unusable' /\ ~unusable => Job.result \in Fatal)
      /\ (Job.result \in Fatal => unusable')
  BY <1>0, <1>1
<1> DEFINE k == [Job EXCEPT !.at = "done"]
<1>5. k \in Jobs /\ k.at = "done" /\ k.result = Job.result /\ Ahead(k, Job) /\ JobIs(k)
  <2>1. "done" \in JobStages
    BY DEF JobStages
  <2> QED BY <1>1, <1>2, <2>1, JobGoesOn
<1> HIDE DEF k
<1>6. jobs' # <<>> /\ Job' = k /\ ((Unstacked /\ EngineSuits)' => WorkerInv')
  BY <1>0, <1>1, <1>3, <1>4, <1>5, HeadGoesOn
<1>7. native \in {0, 1} /\ (native = 1 => unusable')
  BY <1>0, <1>1, <1>4 DEF Unstacked, Holds
<1>8. Unstacked'
  BY <1>1, <1>5, <1>6, <1>7 DEF Unstacked, Holds
<1>9. EngineSuits'
  BY <1>0, <1>1, <1>4, <1>5, <1>6 DEF EngineSuits, Holds, Suits, Ahead
<1> QED BY <1>6, <1>8, <1>9

LEMMA JobPanicsStep == ASSUME WorkerInv, JobPanics PROVE WorkerInv'
<1>0. QueueTyped /\ FatalKnown /\ Unstacked /\ ResultsAreSound
  BY DEF WorkerInv
<1>1. jobs # <<>> /\ jobs' = Tail(jobs) /\ unusable' = TRUE /\ lock' = "poisoned"
  BY DEF JobPanics, Holds
<1>2. native' \in {0, 1}
  BY <1>0 DEF JobPanics, Unstacked
<1>3. QueueTyped' /\ ~Attended' /\ Alone' /\ Unstacked' /\ EngineSuits'
  BY <1>1, <1>2, HeadLeaves
<1>4. \/ answer' = [is |-> "OCR_PROCESS_UNUSABLE", asked |-> Job.who, from |-> None] /\ fatal' \in BOOLEAN
      \/ UNCHANGED <<answer, fatal>>
  BY DEF JobPanics, Answers, Silent
<1>5. ResultsAreSound' /\ fatal' \in BOOLEAN
  BY <1>0, <1>4 DEF ResultsAreSound, FatalKnown
<1>6. FatalKnown'
  BY <1>1, <1>3, <1>5 DEF FatalKnown
<1> QED BY <1>1, <1>3, <1>5, <1>6 DEF WorkerInv

LEMMA JobAnswersStep == ASSUME WorkerInv, JobAnswers PROVE WorkerInv'
<1>0. /\ unusable \in BOOLEAN /\ lock \in {"sound", "poisoned"} /\ (lock = "poisoned" => unusable)
      /\ QueueTyped /\ FatalKnown /\ Alone /\ Unstacked /\ EngineSuits /\ ResultsAreSound
  BY DEF WorkerInv
<1>1. jobs # <<>> /\ Job.at = "done" /\ jobs' = Tail(jobs) /\ UNCHANGED <<unusable, lock, cached, native>>
  BY DEF JobAnswers, Holds
<1>2. jobs \in Seq(Jobs) /\ Job = jobs[1] /\ Job \in Jobs /\ 1 \in 1 .. Len(jobs)
  BY <1>0, <1>1, HeadFirst DEF QueueTyped, Job
<1>3. native' \in {0, 1} /\ (native' = 1 => unusable')
  BY <1>0, <1>1 DEF Unstacked, Holds
<1>4. QueueTyped' /\ ~Attended' /\ Alone' /\ Unstacked' /\ EngineSuits'
  BY <1>0, <1>1, <1>3, HeadLeaves
<1>5. CASE ~Job.attended
  <2>1. UNCHANGED <<answer, fatal>>
    BY <1>5 DEF JobAnswers, Silent
  <2>2. ResultsAreSound' /\ FatalKnown'
    BY <1>0, <1>1, <1>4, <2>1 DEF ResultsAreSound, FatalKnown
  <2> QED BY <1>0, <1>1, <1>4, <2>2 DEF WorkerInv
<1>6. CASE Job.attended
  <2>1. ~fatal
    BY <1>0, <1>2, <1>6 DEF FatalKnown, Attended
  <2>2. answer' = [is |-> Job.result, asked |-> Job.who, from |-> Made(Job)] /\ fatal' = (fatal \/ Job.result \in Fatal)
    BY <1>6 DEF JobAnswers, Answers
  <2>3. fatal' \in BOOLEAN /\ (fatal' => Job.result \in Fatal)
    BY <1>0, <2>1, <2>2
  <2>4. FatalKnown'
    BY <1>0, <1>1, <1>4, <2>3 DEF FatalKnown, EngineSuits, Holds
  <2>5. ASSUME Job.result = "ok" PROVE ~fatal' /\ (Job.who # None => Made(Job) = Job.who)
    <3>1. "ok" \notin Fatal
      BY DEF Fatal
    <3>2. ~unusable
      BY <1>0, <1>1, <1>2, <1>6, <2>5, <3>1 DEF Alone
    <3>3. Suits(Job.who)
      BY <1>0, <1>1, <2>5, <3>2 DEF EngineSuits, Holds
    <3> QED BY <2>3, <2>5, <3>1, <3>3 DEF Suits, Made
  <2>6. ResultsAreSound'
    BY <2>2, <2>5 DEF ResultsAreSound
  <2> QED BY <1>0, <1>1, <1>4, <2>4, <2>6 DEF WorkerInv
<1> QED BY <1>5, <1>6

LEMMA WatchdogStep == ASSUME WorkerInv, Watchdog PROVE WorkerInv'
<1>0. lock \in {"sound", "poisoned"} /\ QueueTyped /\ Unstacked /\ EngineSuits
  BY DEF WorkerInv
<1>1. /\ unusable' = TRUE /\ UNCHANGED <<lock, cached, native>> /\ fatal' = TRUE
      /\ answer' = [is |-> "OCR_TIMEOUT", asked |-> None, from |-> None]
      /\ jobs' = [i \in DOMAIN jobs |-> [jobs[i] EXCEPT !.attended = FALSE]]
  BY DEF Watchdog, Answers, Fatal
<1>2. jobs \in Seq(Jobs) /\ Len(jobs) \in Nat /\ DOMAIN jobs = 1 .. Len(jobs)
  BY <1>0 DEF QueueTyped
<1>3. \A i \in 1 .. Len(jobs) :
        LET k == [jobs[i] EXCEPT !.attended = FALSE]
        IN  /\ k \in Jobs /\ ~k.attended /\ k.at = jobs[i].at /\ k.result = jobs[i].result
            /\ k.who = jobs[i].who /\ k.method = jobs[i].method
  <2> SUFFICES ASSUME NEW j \in Jobs
               PROVE  LET k == [j EXCEPT !.attended = FALSE]
                      IN  /\ k \in Jobs /\ ~k.attended /\ k.at = j.at /\ k.result = j.result
                          /\ k.who = j.who /\ k.method = j.method
    BY <1>2
  <2> QED BY DEF Jobs
<1>4. /\ jobs' \in Seq(Jobs) /\ Len(jobs') = Len(jobs)
      /\ \A i \in 1 .. Len(jobs) : jobs'[i] = [jobs[i] EXCEPT !.attended = FALSE]
  <2>1. \A i \in 1 .. Len(jobs) : [jobs[i] EXCEPT !.attended = FALSE] \in Jobs
    BY <1>3
  <2>2. [i \in 1 .. Len(jobs) |-> [jobs[i] EXCEPT !.attended = FALSE]] \in Seq(Jobs)
    BY <1>2, <2>1
  <2> QED BY <1>1, <1>2, <2>2
<1>5. \A i \in 1 .. Len(jobs) :
        /\ ~jobs'[i].attended /\ jobs'[i].at = jobs[i].at /\ jobs'[i].result = jobs[i].result
        /\ jobs'[i].who = jobs[i].who /\ jobs'[i].method = jobs[i].method
  BY <1>3, <1>4
<1>6. QueueTyped'
  BY <1>0, <1>2, <1>4, <1>5 DEF QueueTyped
<1>7. Alone' /\ ~Attended'
  BY <1>1, <1>4, <1>5 DEF Alone, Attended
<1>8. FatalKnown' /\ ResultsAreSound'
  BY <1>1, <1>7 DEF FatalKnown, ResultsAreSound
<1>9. (jobs' # <<>>) = (jobs # <<>>) /\ (jobs # <<>> => Head(jobs').at = Head(jobs).at)
  <2>1. CASE jobs = <<>>
    BY <1>2, <1>4, <2>1
  <2>2. CASE jobs # <<>>
    <3>1. Head(jobs) = jobs[1] /\ 1 \in 1 .. Len(jobs)
      BY <1>2, <2>2, HeadFirst
    <3>2. jobs' # <<>> /\ Head(jobs') = jobs'[1]
      BY <1>4, <3>1, HeadFirst
    <3> QED BY <1>5, <2>2, <3>1, <3>2
  <2> QED BY <2>1, <2>2
<1>10. Unstacked' /\ EngineSuits'
  BY <1>0, <1>1, <1>9 DEF Unstacked, EngineSuits, Holds, Job
<1> QED BY <1>0, <1>1, <1>6, <1>7, <1>8, <1>10 DEF WorkerInv

LEMMA WorkerStep == WorkerInv /\ [WorkerNext]_workerPart => WorkerInv'
<1> SUFFICES ASSUME WorkerInv, [WorkerNext]_workerPart PROVE WorkerInv'
  OBVIOUS
<1>1. CASE Requests
  <2>1. None \in Recognizers \cup {None} /\ \A who \in Recognizers : who \in Recognizers \cup {None}
    OBVIOUS
  <2>2. "initialize" \in Methods /\ "recognize" \in Methods /\ "languages" \in Methods
    BY DEF Methods
  <2> QED BY <1>1, <2>1, <2>2, DispatchStep DEF Requests
<1>2. CASE AbandonedEnds
  <2>1. native > (IF Holds("native") THEN 1 ELSE 0) /\ native' = native - 1
        /\ UNCHANGED <<answer, fatal, unusable, lock, cached, jobs>>
    BY <1>2 DEF AbandonedEnds, Silent
  <2>2. Unstacked'
    BY <2>1 DEF WorkerInv, Unstacked, Holds, Job
  <2> QED BY <2>1, <2>2 DEF WorkerInv, QueueTyped, FatalKnown, Attended, Alone, EngineSuits, Holds, Job, Suits, ResultsAreSound
<1>3. CASE ProcessEnds
  <2>1. /\ unusable' = FALSE /\ lock' = "sound" /\ jobs' = <<>> /\ native' = 0 /\ fatal' = FALSE
        /\ answer' = [is |-> None, asked |-> None, from |-> None]
    BY <1>3 DEF ProcessEnds
  <2>2. QueueTyped' /\ Alone' /\ Unstacked' /\ EngineSuits'
    BY <2>1 DEF QueueTyped, Alone, Unstacked, EngineSuits, Holds
  <2>3. FatalKnown' /\ ResultsAreSound'
    BY <2>1 DEF FatalKnown, ResultsAreSound, None
  <2> QED BY <2>1, <2>2, <2>3 DEF WorkerInv
<1>4. CASE UNCHANGED workerPart
  BY <1>4 DEF workerPart, WorkerInv, QueueTyped, FatalKnown, Attended, Alone, Unstacked, EngineSuits, Holds, Job, Suits,
              ResultsAreSound
<1> QED
  BY <1>1, <1>2, <1>3, <1>4, JobStartsStep, EnginesStep, NativeEndsStep, JobChecksStep, JobPanicsStep,
     JobAnswersStep, WatchdogStep DEF WorkerNext, JobEnds

\* No recognition is begun behind one that did not heed its cancellation
\* (native.rs:121), and what is answered is the result of a sound process by the
\* recognizer that was asked for (ocr_service.rs:271, 29).
THEOREM RecognitionsAreSound == WorkerSpec => []NothingStacked /\ []ResultsAreSound
<1>1. WorkerInv => NothingStacked /\ ResultsAreSound
  BY DEF WorkerInv, Unstacked, NothingStacked
<1> QED BY <1>1, WorkerBegins, WorkerStep, PTL DEF WorkerSpec

-----------------------------------------------------------------------------
(* The types of the recognizers                                            *)

\* A job and a recognition are of a request that was made.
WorkerBounds ==
  /\ cached \in Tags \cup {None} /\ calls \in 0 .. MaxCalls /\ ends \in 0 .. MaxEnds
  /\ jobs # <<>> \/ native > 0 => calls >= 1

LEMMA WorkerSizes == MaxCalls \in Nat /\ MaxEnds \in Nat
BY WorkerAssumption

LEMMA WorkerBoundsBegin == WorkerInit => WorkerBounds
BY WorkerSizes DEF WorkerInit, WorkerBounds

LEMMA CachedIsNamed ==
  ASSUME WorkerInv, jobs # <<>>, Job.who # Pp PROVE Job.who \in Tags \cup {None}
<1>1. jobs \in Seq(Jobs)
  BY DEF WorkerInv, QueueTyped
<1>2. Job \in Jobs
  BY <1>1, HeadFirst DEF Job
<1> QED BY <1>2, JobTyped DEF Recognizers

LEMMA WorkerBounded == WorkerInv /\ WorkerBounds /\ [WorkerNext]_workerPart => WorkerBounds'
<1> SUFFICES ASSUME WorkerInv, WorkerBounds, [WorkerNext]_workerPart PROVE WorkerBounds'
  OBVIOUS
<1>0. /\ cached \in Tags \cup {None} /\ calls \in 0 .. MaxCalls /\ ends \in 0 .. MaxEnds
      /\ jobs # <<>> \/ native > 0 => calls >= 1
      /\ native \in {0, 1} /\ MaxCalls \in Nat /\ MaxEnds \in Nat
  BY WorkerSizes DEF WorkerBounds, WorkerInv, Unstacked
<1>1. ASSUME NEW method, NEW who, Dispatch(method, who) PROVE WorkerBounds'
  <2>1. calls < MaxCalls /\ calls' = calls + 1 /\ UNCHANGED <<cached, native, ends>>
    BY <1>1 DEF Dispatch
  <2>2. calls' \in 0 .. MaxCalls /\ calls' >= 1
    BY <1>0, <2>1
  <2> QED BY <1>0, <2>1, <2>2 DEF WorkerBounds
<1>2. ASSUME jobs # <<>>, UNCHANGED <<calls, ends>>, cached' \in Tags \cup {None} PROVE WorkerBounds'
  BY <1>0, <1>2 DEF WorkerBounds
<1>3. CASE JobStarts
  <2>1. jobs # <<>> /\ UNCHANGED <<calls, ends>> /\ cached' \in {cached, None}
    BY <1>3 DEF JobStarts, Holds
  <2> QED BY <1>0, <1>2, <2>1
<1>4. ASSUME NEW made \in BOOLEAN, WindowsEngine(made) PROVE WorkerBounds'
  <2>1. jobs # <<>> /\ Job.who # Pp /\ UNCHANGED <<calls, ends>> /\ cached' \in {Job.who, None}
    BY <1>4 DEF WindowsEngine, Holds
  <2> QED BY <1>2, <2>1, CachedIsNamed
<1>5. ASSUME NEW made \in BOOLEAN, PpEngine(made) PROVE WorkerBounds'
  <2>1. jobs # <<>> /\ UNCHANGED <<calls, ends, cached>>
    BY <1>5 DEF PpEngine, Holds
  <2> QED BY <1>0, <1>2, <2>1
<1>6. CASE NativeEnds
  <2>1. jobs # <<>>
    BY <1>6, Zenon DEF NativeEnds, Holds
  <2>2. UNCHANGED <<unusable, lock, ppMade, calls, ends>>
    BY <1>6, Zenon DEF NativeEnds
  <2>3. UNCHANGED cached \/ cached' = None
    BY <1>6, Zenon DEF NativeEnds
  <2> QED BY <1>0, <1>2, <2>1, <2>2, <2>3
<1>7. CASE AbandonedEnds
  <2>1. native > 0 /\ native' = native - 1 /\ UNCHANGED <<cached, jobs, calls, ends>>
    BY <1>0, <1>7 DEF AbandonedEnds
  <2> QED BY <1>0, <2>1 DEF WorkerBounds
<1>8. CASE JobEnds
  <2>1. jobs # <<>> /\ UNCHANGED <<calls, ends>> /\ cached' \in {cached, None}
    BY <1>8 DEF JobEnds, JobChecks, JobPanics, JobAnswers, Holds
  <2> QED BY <1>0, <1>2, <2>1
<1>9. CASE Watchdog
  <2>1. Attended /\ UNCHANGED <<calls, ends, cached>>
    BY <1>9 DEF Watchdog
  <2>2. jobs # <<>>
    BY <2>1 DEF Attended
  <2> QED BY <1>0, <1>2, <2>1, <2>2
<1>10. CASE ProcessEnds
  <2>1. ends < MaxEnds /\ ends' = ends + 1 /\ cached' = None /\ jobs' = <<>> /\ native' = 0 /\ UNCHANGED calls
    BY <1>10 DEF ProcessEnds
  <2>2. ends' \in 0 .. MaxEnds
    BY <1>0, <2>1
  <2> QED BY <1>0, <2>1, <2>2 DEF WorkerBounds
<1>11. CASE UNCHANGED workerPart
  BY <1>0, <1>11 DEF workerPart, WorkerBounds
<1> QED BY <1>1, <1>3, <1>4, <1>5, <1>6, <1>7, <1>8, <1>9, <1>10, <1>11 DEF WorkerNext, Requests, Engines

LEMMA WorkerValues == WorkerInv /\ WorkerBounds => WorkerTypeOK
<1> SUFFICES ASSUME WorkerInv, WorkerBounds PROVE WorkerTypeOK
  OBVIOUS
<1>1. native \in 0 .. calls
  <2>1. native \in {0, 1} /\ calls \in Nat /\ (native > 0 => calls >= 1)
    BY WorkerSizes DEF WorkerInv, Unstacked, WorkerBounds
  <2> QED BY <2>1
<1>2. \A i \in 1 .. Len(jobs) : jobs[i].attended \/ unusable
  BY DEF WorkerInv, Alone
<1> QED BY <1>1, <1>2 DEF WorkerTypeOK, WorkerInv, WorkerBounds

-----------------------------------------------------------------------------
(* The legacy engine                                                       *)

Clis == [url : Urls, urlHeld : BOOLEAN, models : SUBSET Models, modelsHeld : BOOLEAN]
Probes == [result : Results \cup {"none"}, ok : BOOLEAN, url : Urls, model : SUBSET Models]
LineStages == {"idle", "asked", "again"}
Lines == [at : LineStages, url : Urls, reached : BOOLEAN, stayed : BOOLEAN]
OpStages == {"idle", "starting", "read", "settling", "probing", "done"}
OpPhases == {"none", "notRunning", "noModels", "ready", "preparing", "error", "unchecked"}
Ops == [at : OpStages, kind : Kinds, phase : OpPhases, late : BOOLEAN]

FoundryTyped ==
  /\ service \in [url : Urls, ns : Namespaces] /\ ports \in Urls /\ installed \in SUBSET Models
  /\ cli \in Clis /\ probe \in Probes /\ own \in Backends /\ fresh \in Backends /\ line \in Lines /\ op \in Ops

\* What the command line is taken to say is where the service is.
Knows(c) == c.urlHeld => c.url = service.url

\* After a line was lost its backend finds the service, or has none and looks
\* for it first; a line that asks again asks where the service is.
Finding ==
  /\ missed \in {0, 1}
  /\ line.at # "idle" => own.url = line.url /\ line.url # 0
  /\ missed = 1 => service.url # 0 /\ (Knows(cli) \/ (own.url = 0 /\ cli.url = 0))
  /\ line.at = "again" /\ line.stayed /\ service.url # 0 => Knows(cli)
  /\ line.at = "again" /\ missed = 1 => line.reached \/ line.url = service.url

\* A good probe that an operation comes upon when it reads was of its backend's
\* time, and answered; what it tells from it is so too.
Probed ==
  /\ op.at = "starting" => fresh.url = 0
  /\ op.at = "read" /\ fresh.url # 0 /\ probe.ok => probe.url \in answered
  /\ ReadyWasAnswered

FoundryInv == FoundryTyped /\ Finding /\ Probed

\* A port more than the last one taken is a port while there is one left.
LEMMA UrlsAre == 0 \in Urls /\ \A n \in Urls : n \in Nat /\ (n < MaxUrl => n + 1 \in Urls)
BY FoundryAssumption DEF Urls

LEMMA NoProbeTyped == NoProbe \in Probes /\ ~NoProbe.ok
BY UrlsAre DEF NoProbe, Probes, Results

LEMMA NewBackendTyped == NewBackend \in Backends /\ NewBackend.url = 0
BY UrlsAre DEF NewBackend, Backends

LEMMA NoLineTyped == NoLine \in Lines /\ NoLine.at = "idle"
BY UrlsAre DEF NoLine, Lines, LineStages

LEMMA NoOpTyped == NoOp \in Ops /\ NoOp.at = "idle"
BY DEF NoOp, Ops, OpStages, Kinds, OpPhases

LEMMA SmallestScore == ASSUME NEW T \in SUBSET Nat, T # {} PROVE \E x \in T : \A y \in T : x <= y
<1> DEFINE Below == OpToRel(<, Nat)
<1>1. IsWellFoundedOn(Below, Nat)
  BY NatLessThanWellFounded, Zenon
<1>2. \A x, y \in Nat : <<y, x>> \in Below <=> y < x
  BY DEF OpToRel
<1> HIDE DEF Below
<1>3. PICK x \in T : \A y \in T : <<y, x>> \notin Below
  BY <1>1, WFMin, Zenon
<1>4. ASSUME NEW y \in T PROVE x <= y
  <2>1. x \in Nat /\ y \in Nat /\ ~(y < x)
    BY <1>2, <1>3
  <2> QED BY <2>1
<1> QED BY <1>4

\* A model is chosen among those there are.
LEMMA AutoModelIs == ASSUME NEW models \in SUBSET Models PROVE AutoModel(models) \in SUBSET Models
<1> DEFINE instruct == models \cap Instruct
           tuned == IF instruct # {} THEN instruct ELSE models
           calm == IF tuned \ Thinking # {} THEN tuned \ Thinking ELSE tuned
           Lightest(m) == m \in calm /\ \A n \in calm : Score[m] <= Score[n]
<1>1. CASE models = {}
  BY <1>1 DEF AutoModel
<1>2. CASE models # {}
  <2>1. calm \in SUBSET models /\ calm # {}
    BY <1>2
  <2>2. AutoModel(models) = {CHOOSE m \in calm : \A n \in calm : Score[m] <= Score[n]}
    BY <1>2 DEF AutoModel
  <2> HIDE DEF calm
  <2> DEFINE T == {Score[m] : m \in calm}
  <2>3. T \in SUBSET Nat /\ T # {}
    BY <2>1, FoundryAssumption
  <2>4. PICK x \in T : \A y \in T : x <= y
    BY <2>3, SmallestScore
  <2>5. \E m \in calm : \A n \in calm : Score[m] <= Score[n]
    BY <2>4
  <2>6. (CHOOSE m \in calm : \A n \in calm : Score[m] <= Score[n]) \in calm
    BY <2>5
  <2> QED BY <2>1, <2>2, <2>6
<1> QED BY <1>1, <1>2

LEMMA FoundryBegins == FoundryInit => FoundryInv
<1> SUFFICES ASSUME FoundryInit PROVE FoundryInv
  OBVIOUS
<1>1. /\ service = [url |-> 0, ns |-> "openai"] /\ ports = 0 /\ installed \in SUBSET Models /\ missed = 0
      /\ cli = [url |-> 0, urlHeld |-> FALSE, models |-> {}, modelsHeld |-> FALSE]
      /\ probe = NoProbe /\ own = NewBackend /\ fresh = NewBackend /\ line = NoLine /\ op = NoOp
  BY DEF FoundryInit
<1>2. service \in [url : Urls, ns : Namespaces] /\ cli \in Clis /\ ports \in Urls
  BY <1>1, UrlsAre DEF Namespaces, Clis
<1>3. FoundryTyped
  BY <1>1, <1>2, NoProbeTyped, NewBackendTyped, NoLineTyped, NoOpTyped DEF FoundryTyped
<1>4. Finding /\ Probed
  BY <1>1, NoLineTyped, NoOpTyped DEF Finding, Probed, ReadyWasAnswered
<1> QED BY <1>3, <1>4 DEF FoundryInv

LEMMA HomeTyped ==
  ASSUME NEW b \in Backends PROVE b.url \in Urls /\ b.models \in SUBSET Models /\ b.ns \in Namespaces \cup {"unknown"}
BY DEF Backends

LEMMA CliTyped ==
  ASSUME NEW c \in Clis
  PROVE  c.url \in Urls /\ c.urlHeld \in BOOLEAN /\ c.models \in SUBSET Models /\ c.modelsHeld \in BOOLEAN
BY DEF Clis

LEMMA LineTyped ==
  ASSUME NEW l \in Lines
  PROVE  l.at \in LineStages /\ l.url \in Urls /\ l.reached \in BOOLEAN /\ l.stayed \in BOOLEAN
BY DEF Lines

LEMMA OpTyped ==
  ASSUME NEW o \in Ops PROVE o.at \in OpStages /\ o.kind \in Kinds /\ o.phase \in OpPhases /\ o.late \in BOOLEAN
BY DEF Ops

\* What is known of the service stays known, and who is known to have none
\* stays without one or learns where it is.
Learned(c, d) == (Knows(c) => Knows(d)) /\ (c.url = 0 => Knows(d) \/ d.url = 0)

LEMMA LearnedTwice == ASSUME NEW c, NEW d, NEW e, Learned(c, d), Learned(d, e) PROVE Learned(c, e)
BY DEF Learned

LEMMA UrlReadGives ==
  ASSUME FoundryTyped, NEW c \in Clis
  PROVE  /\ UrlRead(c) \in Clis /\ UrlRead(c).urlHeld
         /\ UrlRead(c).url = IF c.urlHeld THEN c.url ELSE service.url
         /\ Learned(c, UrlRead(c))
<1>1. service.url \in Urls
  BY DEF FoundryTyped
<1>2. UrlRead(c) \in Clis /\ UrlRead(c).urlHeld /\ UrlRead(c).url = IF c.urlHeld THEN c.url ELSE service.url
  BY <1>1 DEF UrlRead, Clis
<1> QED BY <1>2 DEF Learned, Knows

LEMMA ModelsReadKeeps ==
  ASSUME FoundryTyped, NEW c \in Clis
  PROVE  /\ ModelsRead(c) \in Clis /\ ModelsRead(c).url = c.url /\ ModelsRead(c).urlHeld = c.urlHeld
         /\ Learned(c, ModelsRead(c))
<1>1. installed \in SUBSET Models
  BY DEF FoundryTyped
<1>2. ModelsRead(c) \in Clis /\ ModelsRead(c).url = c.url /\ ModelsRead(c).urlHeld = c.urlHeld
  BY <1>1 DEF ModelsRead, Clis
<1> QED BY <1>2 DEF Learned, Knows

Sought == [cli EXCEPT !.url = service.url, !.urlHeld = TRUE]

LEMMA SoughtKnows ==
  ASSUME FoundryTyped PROVE Sought \in Clis /\ Sought.url = service.url /\ Learned(cli, Sought)
<1>1. cli \in Clis /\ service.url \in Urls
  BY DEF FoundryTyped
<1>2. Sought \in Clis /\ Sought.url = service.url
  BY <1>1 DEF Sought, Clis
<1> QED BY <1>2 DEF Learned, Knows

\* refresh_service_status takes the url that the command line gives, and keeps
\* what is shared only if that is the one it had.
LEMMA RefreshedGives ==
  ASSUME FoundryTyped, NEW b \in Backends, NEW c \in Clis, NEW p \in Probes
  PROVE  LET r == Refreshed(b, c, p)
             u == IF c.urlHeld THEN c.url ELSE service.url
         IN  /\ r.b \in Backends /\ r.b.url = u /\ r.cli \in Clis /\ r.cli.url = u
             /\ u # b.url => ~r.cli.urlHeld /\ r.probe = NoProbe
             /\ u = b.url => r.probe = p
             /\ r.probe \in Probes /\ Learned(c, r.cli)
<1> DEFINE u == IF c.urlHeld THEN c.url ELSE service.url
           read == UrlRead(c)
           kept == IF read.url # b.url THEN Forgotten(read) ELSE read
           asks == read.url # 0 /\ b.models = {}
           listed == IF asks THEN ModelsRead(kept) ELSE kept
           next == [b EXCEPT !.url = read.url, !.models = IF asks THEN listed.models ELSE b.models]
           r == Refreshed(b, c, p)
<1>1. read \in Clis /\ read.urlHeld /\ read.url = u
  BY UrlReadGives
<1>2. r.b = next /\ r.cli = listed /\ r.probe = IF read.url # b.url THEN NoProbe ELSE p
  BY DEF Refreshed
<1> HIDE DEF read, r
<1>3. Forgotten(read) \in Clis /\ Forgotten(read).url = read.url /\ ~Forgotten(read).urlHeld
  BY <1>1 DEF Forgotten, Clis
<1>4. kept \in Clis /\ kept.url = u /\ (u # b.url => ~kept.urlHeld)
  BY <1>1, <1>3
<1> HIDE DEF kept
<1>5. listed \in Clis /\ listed.url = u /\ (u # b.url => ~listed.urlHeld)
  BY <1>4, ModelsReadKeeps
<1> HIDE DEF listed
<1>6. listed.models \in SUBSET Models /\ b.models \in SUBSET Models /\ u \in Urls
  BY <1>1, <1>5, CliTyped, HomeTyped
<1> HIDE DEF asks
<1>7. next \in Backends /\ next.url = u
  <2> DEFINE m == IF asks THEN listed.models ELSE b.models
  <2>1. m \in SUBSET Models
    BY <1>6
  <2> HIDE DEF m
  <2>2. next = [b EXCEPT !.url = read.url, !.models = m]
    BY DEF m
  <2> QED BY <1>1, <1>6, <2>1, <2>2 DEF Backends
<1> HIDE DEF next
<1>8. Knows(c) => u = service.url
  BY DEF Knows
<1>9. c.url = 0 => u = 0 \/ u = service.url
  OBVIOUS
<1>10. Learned(c, listed)
  BY <1>5, <1>8, <1>9 DEF Learned, Knows
<1> HIDE DEF u
<1>11. r.probe \in Probes
  BY <1>2, NoProbeTyped
<1> QED BY <1>1, <1>2, <1>5, <1>7, <1>10, <1>11 DEF r, u

LEMMA LearnsKeeps ==
  ASSUME FoundryTyped, NEW b \in Backends, NEW result
  PROVE  Learns(b, result) \in Backends /\ Learns(b, result).url = b.url
<1>1. service.ns \in Namespaces
  BY DEF FoundryTyped
<1> QED BY <1>1 DEF Learns, Backends

LEMMA RecordedIs ==
  ASSUME NEW b \in Backends, NEW p \in Probes, NEW result \in Results
  PROVE  LET q == Recorded(b, p, result)
         IN  q \in Probes /\ (q.ok => q.url = b.url)
<1>1. CASE b.url = 0 \/ b.models = {}
  BY <1>1, NoProbeTyped DEF Recorded
<1>2. CASE ~(b.url = 0 \/ b.models = {})
  <2>1. AutoModel(b.models) \in SUBSET Models /\ b.url \in Urls /\ p.ok \in BOOLEAN
    BY HomeTyped, AutoModelIs DEF Probes
  <2>2. Recorded(b, p, result) =
          [result |-> result, ok |-> result = "answer" \/ p.ok, url |-> b.url, model |-> AutoModel(b.models)]
    BY <1>2 DEF Recorded
  <2>3. (result = "answer" \/ p.ok) \in BOOLEAN
    BY <2>1
  <2>4. ASSUME NEW k \in BOOLEAN
        PROVE  [result |-> result, ok |-> k, url |-> b.url, model |-> AutoModel(b.models)] \in Probes
    BY <2>1 DEF Probes
  <2>5. Recorded(b, p, result) \in Probes
    BY <2>2, <2>3, <2>4
  <2>6. Recorded(b, p, result).url = b.url
    BY <2>2
  <2> QED BY <2>5, <2>6
<1> QED BY <1>1, <1>2

\* A request reaches the service where it is, whichever namespace is tried first.
LEMMA ReachesIt == ASSUME FoundryTyped, NEW b, NEW url PROVE Reaches(b, url) <=> (url # 0 /\ service.url = url)
<1>1. service.ns \in Namespaces
  BY DEF FoundryTyped
<1> QED BY <1>1 DEF Reaches, Tries, Preferred, Other, Namespaces

\* A step that only learns of the service leaves the lines as they were.
LEMMA FindingKept ==
  ASSUME FoundryInv, Learned(cli, cli'), UNCHANGED <<service, own, line, missed>>
  PROVE  Finding'
<1>1. Finding
  BY DEF FoundryInv
<1> QED BY <1>1 DEF Finding, Learned, Knows

\* A step of a status operation leaves the lines alone.
LEMMA OperationKeeps ==
  ASSUME FoundryInv, Learned(cli, cli'), UNCHANGED <<externalVars, own, line, missed>>,
         cli' \in Clis, probe' \in Probes, fresh' \in Backends, op' \in Ops, Probed'
  PROVE  FoundryInv'
<1>1. Finding'
  BY FindingKept DEF externalVars
<1>2. FoundryTyped'
  BY DEF FoundryInv, FoundryTyped, externalVars
<1> QED BY <1>1, <1>2 DEF FoundryInv

OpOf(at, kind) == [NoOp EXCEPT !.at = at, !.kind = kind]
OpDone(phase) == [NoOp EXCEPT !.at = "done", !.phase = phase]

LEMMA OpsBegin ==
  ASSUME NEW at \in {"starting", "read"}, NEW kind \in Kinds
  PROVE  OpOf(at, kind) \in Ops /\ OpOf(at, kind).at = at
BY NoOpTyped DEF OpOf, Ops, OpStages

LEMMA OpsEnd ==
  ASSUME NEW phase \in OpPhases
  PROVE  OpDone(phase) \in Ops /\ OpDone(phase).at = "done" /\ OpDone(phase).phase = phase
BY NoOpTyped DEF OpDone, Ops, OpStages

LEMMA OpsGoOn ==
  ASSUME NEW o \in Ops, NEW a \in OpStages
  PROVE  /\ [o EXCEPT !.at = a] \in Ops /\ [o EXCEPT !.at = a].at = a
         /\ [o EXCEPT !.late = TRUE] \in Ops /\ [o EXCEPT !.late = TRUE].at = o.at
         /\ [o EXCEPT !.late = TRUE].phase = o.phase
BY DEF Ops

LEMMA MovesStep == ASSUME FoundryInv, Moves PROVE FoundryInv'
<1>1. FoundryTyped /\ Finding /\ Probed
  BY DEF FoundryInv
<1>2. missed' = 0 /\ line' = [line EXCEPT !.stayed = (line.at = "idle")]
      /\ UNCHANGED <<installed, cli, probe, own, fresh, op, cooling, answered>>
  BY DEF Moves
<1>3. service' \in [url : Urls, ns : Namespaces] /\ ports' \in Urls
  <2>1. service \in [url : Urls, ns : Namespaces] /\ ports \in Urls
    BY <1>1 DEF FoundryTyped
  <2>2. CASE ServiceGoes
    BY <2>1, <2>2, UrlsAre DEF ServiceGoes
  <2>3. ASSUME NEW ns \in Namespaces, ServiceComes(ns) PROVE service' \in [url : Urls, ns : Namespaces] /\ ports' \in Urls
    BY <2>1, <2>3, UrlsAre DEF ServiceComes
  <2> QED BY <2>2, <2>3 DEF Moves
<1>4. line' \in Lines /\ line'.at = line.at /\ line'.url = line.url /\ (line.at # "idle" => ~line'.stayed)
  <2>1. line \in Lines /\ (line.at = "idle") \in BOOLEAN
    BY <1>1 DEF FoundryTyped
  <2>2. ASSUME NEW s \in BOOLEAN, NEW l \in Lines
        PROVE  [l EXCEPT !.stayed = s] \in Lines /\ [l EXCEPT !.stayed = s].at = l.at
               /\ [l EXCEPT !.stayed = s].url = l.url /\ [l EXCEPT !.stayed = s].stayed = s
    BY DEF Lines
  <2> QED BY <1>2, <2>1, <2>2
<1>5. FoundryTyped'
  BY <1>1, <1>2, <1>3, <1>4 DEF FoundryTyped
<1>6. Finding'
  BY <1>1, <1>2, <1>4 DEF Finding
<1>7. Probed'
  BY <1>1, <1>2 DEF Probed, ReadyWasAnswered
<1> QED BY <1>5, <1>6, <1>7 DEF FoundryInv

LEMMA AgesStep == ASSUME FoundryInv, Ages PROVE FoundryInv'
<1>1. FoundryTyped /\ Probed
  BY DEF FoundryInv
<1>2. UNCHANGED <<externalVars, own, line, fresh, op, answered, missed>>
  BY DEF Ages
<1>3. cli' \in Clis /\ Learned(cli, cli')
  <2>1. cli \in Clis
    BY <1>1 DEF FoundryTyped
  <2>2. CASE cli' = cli
    BY <2>1, <2>2 DEF Learned, Knows
  <2>3. CASE cli' = [cli EXCEPT !.urlHeld = FALSE]
    <3>1. cli' \in Clis /\ ~cli'.urlHeld
      BY <2>1, <2>3 DEF Clis
    <3> QED BY <3>1 DEF Learned, Knows
  <2>4. CASE cli' = [cli EXCEPT !.modelsHeld = FALSE]
    <3>1. cli' \in Clis /\ cli'.urlHeld = cli.urlHeld /\ cli'.url = cli.url
      BY <2>1, <2>4 DEF Clis
    <3> QED BY <3>1 DEF Learned, Knows
  <2> QED BY <2>2, <2>3, <2>4 DEF Ages
<1>4. probe' \in Probes /\ (probe'.ok => probe.ok /\ probe'.url = probe.url)
  <2>1. probe \in Probes
    BY <1>1 DEF FoundryTyped
  <2>2. CASE probe' = probe
    BY <2>1, <2>2
  <2>3. CASE probe' = [probe EXCEPT !.result = "none"]
    BY <2>1, <2>3 DEF Probes
  <2>4. CASE probe' = NoProbe
    BY <2>4, NoProbeTyped
  <2> QED BY <2>2, <2>3, <2>4 DEF Ages
<1>5. fresh' \in Backends /\ op' \in Ops
  BY <1>1, <1>2 DEF FoundryTyped
<1>6. Probed'
  BY <1>1, <1>2, <1>4 DEF Probed, ReadyWasAnswered
<1> QED BY <1>2, <1>3, <1>4, <1>5, <1>6, OperationKeeps

AskedAt(url) == [NoLine EXCEPT !.at = "asked", !.url = url]
AgainAt(url, reached) == [line EXCEPT !.at = "again", !.url = url, !.reached = reached]

LEMMA LineAsks ==
  ASSUME line \in Lines, NEW url \in Urls, NEW reached \in BOOLEAN
  PROVE  /\ AskedAt(url) \in Lines /\ AskedAt(url).at = "asked" /\ AskedAt(url).url = url
         /\ AgainAt(url, reached) \in Lines /\ AgainAt(url, reached).at = "again"
         /\ AgainAt(url, reached).url = url /\ AgainAt(url, reached).reached = reached
         /\ AgainAt(url, reached).stayed = line.stayed
BY DEF AskedAt, AgainAt, NoLine, Lines, LineStages

LEMMA LineBeginsStep == ASSUME FoundryInv, LineBegins PROVE FoundryInv'
<1> DEFINE r == IF own.url = 0 THEN Refreshed(own, cli, probe) ELSE [b |-> own, cli |-> cli, probe |-> probe]
<1>1. FoundryTyped /\ Finding /\ Probed
  BY DEF FoundryInv
<1>2. /\ line.at = "idle" /\ own' = r.b /\ cli' = r.cli /\ probe' = r.probe
      /\ line' = IF r.b.url # 0 /\ r.b.models # {} THEN [NoLine EXCEPT !.at = "asked", !.url = r.b.url] ELSE NoLine
      /\ UNCHANGED <<externalVars, fresh, op, cooling, answered, missed>>
  BY DEF LineBegins
<1>3. own \in Backends /\ cli \in Clis /\ probe \in Probes
  BY <1>1 DEF FoundryTyped
<1>4. /\ r.b \in Backends /\ r.cli \in Clis /\ r.probe \in Probes /\ Learned(cli, r.cli)
      /\ r.probe \in {NoProbe, probe} /\ (own.url = 0 => r.b.url = r.cli.url) /\ (own.url # 0 => r.b = own)
  <2>1. CASE own.url = 0
    BY <1>1, <1>3, <2>1, RefreshedGives
  <2>2. CASE own.url # 0
    BY <1>3, <2>2 DEF Learned, Knows
  <2> QED BY <2>1, <2>2
<1> HIDE DEF r
<1>5. line' \in Lines /\ (line'.at # "idle" => line'.url = r.b.url /\ r.b.url # 0) /\ line'.at # "again"
  <2>1. r.b.url \in Urls
    BY <1>4, HomeTyped
  <2>2. line \in Lines
    BY <1>1 DEF FoundryTyped
  <2>3. CASE r.b.url # 0 /\ r.b.models # {}
    <3>1. line' = AskedAt(r.b.url)
      BY <1>2, <2>3 DEF AskedAt
    <3>2. AskedAt(r.b.url) \in Lines /\ AskedAt(r.b.url).at = "asked" /\ AskedAt(r.b.url).url = r.b.url
      BY <2>1, <2>2, LineAsks
    <3> QED BY <2>3, <3>1, <3>2
  <2>4. CASE ~(r.b.url # 0 /\ r.b.models # {})
    BY <1>2, <2>4, NoLineTyped
  <2> QED BY <2>3, <2>4
<1>6. Finding'
  BY <1>1, <1>2, <1>4, <1>5 DEF Finding, Learned, Knows, externalVars
<1>7. Probed'
  BY <1>1, <1>2, <1>4, NoProbeTyped DEF Probed, ReadyWasAnswered
<1>8. FoundryTyped'
  BY <1>1, <1>2, <1>4, <1>5 DEF FoundryTyped, externalVars
<1> QED BY <1>6, <1>7, <1>8 DEF FoundryInv

\* A line that is done may have been lost; after it the backend knows better.
LEMMA LineDoneIs ==
  ASSUME FoundryTyped, NEW reached, LineDone(reached), missed \in {0, 1}, reached \/ missed = 0
  PROVE  /\ line' \in Lines /\ line'.at = "idle" /\ missed' \in {0, 1}
         /\ missed' = 1 => ~reached /\ line.stayed /\ service.url # 0
<1>1. line' \in Lines /\ line'.at = "idle"
  BY NoLineTyped DEF LineDone
<1>2. CASE reached
  BY <1>1, <1>2 DEF LineDone
<1>3. CASE ~reached
  BY <1>1, <1>3 DEF LineDone
<1> QED BY <1>2, <1>3

LEMMA LineAnswered ==
  ASSUME FoundryInv, line.at # "idle", own' = Learns(own, "answer"),
         probe' = Recorded(Learns(own, "answer"), probe, "answer"), answered' = answered \cup {line.url}
  PROVE  own' \in Backends /\ own'.url = own.url /\ probe' \in Probes /\ (probe'.ok => probe'.url \in answered')
<1>1. FoundryTyped /\ Finding
  BY DEF FoundryInv
<1>2. own \in Backends /\ probe \in Probes
  BY <1>1 DEF FoundryTyped
<1>3. own' \in Backends /\ own'.url = own.url /\ own.url = line.url
  BY <1>1, <1>2, LearnsKeeps DEF Finding
<1>4. probe' \in Probes /\ (probe'.ok => probe'.url = own'.url)
  BY <1>2, <1>3, RecordedIs DEF Results
<1> QED BY <1>3, <1>4

\* What an answered line leaves of the operations.
LEMMA ProbedGrows ==
  ASSUME Probed, UNCHANGED <<fresh, op>>, answered \subseteq answered',
         probe'.ok => probe'.url \in answered' \/ probe' = probe
  PROVE  Probed'
BY DEF Probed, ReadyWasAnswered

LEMMA LineFails ==
  ASSUME FoundryInv, NEW result \in Results, LineAsked(result), result # "answer"
  PROVE  FoundryInv'
<1> DEFINE r == Refreshed(Gone(own), cli, NoProbe)
           reached == Reaches(own, line.url)
           u == IF cli.urlHeld THEN cli.url ELSE service.url
<1>1. FoundryTyped /\ Finding /\ Probed
  BY DEF FoundryInv
<1>2. line.at = "asked" /\ own' = r.b /\ probe' = r.probe /\ cli' = r.cli /\ answered' = answered
      /\ UNCHANGED <<externalVars, fresh, op, cooling>>
  BY DEF LineAsked
<1>3. IF r.b.url # 0
      THEN line' = [line EXCEPT !.at = "again", !.url = r.b.url, !.reached = reached] /\ missed' = missed
      ELSE LineDone(reached)
  BY DEF LineAsked
<1>4. own \in Backends /\ cli \in Clis /\ line \in Lines
  BY <1>1 DEF FoundryTyped
<1>5. Gone(own) \in Backends /\ Gone(own).url = 0
  BY <1>4, UrlsAre DEF Gone, Backends
<1>6. r.b \in Backends /\ r.b.url = u /\ r.cli \in Clis /\ r.cli.url = u /\ r.probe = NoProbe
      /\ (u # 0 => ~r.cli.urlHeld)
  BY <1>1, <1>4, <1>5, NoProbeTyped, RefreshedGives
<1>7. reached \in BOOLEAN
  BY DEF Reaches
<1>8. missed = 1 => Knows(cli) /\ service.url # 0
  BY <1>1, <1>2 DEF Finding
<1>9. missed = 1 => u = service.url /\ u # 0
  BY <1>8 DEF Knows
<1>10. missed \in {0, 1}
  BY <1>1 DEF Finding
<1> HIDE DEF r, reached
<1>11. Probed'
  BY <1>1, <1>2, <1>6, NoProbeTyped, ProbedGrows
<1>12. own' \in Backends /\ cli' \in Clis /\ probe' \in Probes /\ own'.url = u /\ cli'.url = u
  BY <1>2, <1>6, NoProbeTyped
<1> HIDE DEF u
<1>13. CASE u # 0
  <2>1. line' = AgainAt(u, reached) /\ missed' = missed
    BY <1>3, <1>6, <1>13 DEF AgainAt
  <2>2. u \in Urls
    BY <1>6, HomeTyped
  <2>3. line' \in Lines /\ line'.at = "again" /\ line'.url = u
    BY <1>4, <1>7, <2>1, <2>2, LineAsks
  <2>4. ~cli'.urlHeld
    BY <1>2, <1>6, <1>13
  <2>5. service' = service
    BY <1>2 DEF externalVars
  <2>6. Finding'
    BY <1>8, <1>9, <1>10, <1>12, <1>13, <2>1, <2>3, <2>4, <2>5 DEF Finding, Knows
  <2>7. FoundryTyped'
    BY <1>1, <1>2, <1>12, <2>3 DEF FoundryTyped, externalVars
  <2> QED BY <1>11, <2>6, <2>7 DEF FoundryInv
<1>14. CASE u = 0
  <2>1. LineDone(reached)
    BY <1>3, <1>6, <1>14
  <2>2. missed = 0
    BY <1>9, <1>10, <1>14
  <2>3. line' \in Lines /\ line'.at = "idle" /\ missed' \in {0, 1} /\ (missed' = 1 => service.url # 0)
    BY <1>1, <1>10, <2>1, <2>2, LineDoneIs
  <2>4. Finding'
    BY <1>2, <1>12, <1>14, <2>3 DEF Finding, externalVars
  <2>5. FoundryTyped'
    BY <1>1, <1>2, <1>12, <2>3 DEF FoundryTyped, externalVars
  <2> QED BY <1>11, <2>4, <2>5 DEF FoundryInv
<1> QED BY <1>13, <1>14

LEMMA LineAskedStep == ASSUME FoundryInv, NEW result \in Results, LineAsked(result) PROVE FoundryInv'
<1>1. FoundryTyped /\ Finding /\ Probed
  BY DEF FoundryInv
<1>2. CASE result = "answer"
  <2>1. /\ line.at = "asked" /\ own' = Learns(own, "answer") /\ probe' = Recorded(Learns(own, "answer"), probe, "answer")
        /\ cli' = cli /\ answered' = answered \cup {line.url} /\ LineDone(TRUE)
        /\ UNCHANGED <<externalVars, fresh, op, cooling>>
    BY <1>2 DEF LineAsked
  <2>2. own' \in Backends /\ probe' \in Probes /\ (probe'.ok => probe'.url \in answered')
    BY <2>1, LineAnswered
  <2>3. line' \in Lines /\ line'.at = "idle" /\ missed' = 0
    BY <2>1, NoLineTyped DEF LineDone
  <2>4. Finding'
    BY <2>3 DEF Finding
  <2>5. Probed'
    BY <1>1, <2>1, <2>2, ProbedGrows
  <2>6. FoundryTyped'
    BY <1>1, <2>1, <2>2, <2>3 DEF FoundryTyped, externalVars
  <2> QED BY <2>4, <2>5, <2>6 DEF FoundryInv
<1> QED BY <1>2, LineFails

LEMMA LineAgainStep == ASSUME FoundryInv, NEW result \in Results, LineAgain(result) PROVE FoundryInv'
<1> DEFINE reached == line.reached \/ Reaches(own, line.url)
<1>1. FoundryTyped /\ Finding /\ Probed
  BY DEF FoundryInv
<1>2. /\ line.at = "again" /\ own' = Learns(own, result) /\ LineDone(reached)
      /\ UNCHANGED <<externalVars, cli, fresh, op, cooling>>
  BY DEF LineAgain
<1>3. own \in Backends /\ probe \in Probes
  BY <1>1 DEF FoundryTyped
<1>4. own' \in Backends /\ probe' \in Probes /\ answered \subseteq answered'
      /\ (probe'.ok => probe'.url \in answered' \/ probe' = probe)
  <2>1. CASE result = "answer"
    <3>1. probe' = Recorded(Learns(own, "answer"), probe, "answer") /\ answered' = answered \cup {line.url}
      BY <2>1 DEF LineAgain
    <3>2. own' \in Backends /\ probe' \in Probes /\ (probe'.ok => probe'.url \in answered')
      BY <1>2, <2>1, <3>1, LineAnswered
    <3> QED BY <3>1, <3>2
  <2>2. CASE result # "answer"
    BY <1>1, <1>2, <1>3, <2>2, LearnsKeeps DEF LineAgain
  <2> QED BY <2>1, <2>2
<1>5. missed \in {0, 1} /\ (missed = 1 => reached)
  BY <1>1, <1>2, ReachesIt DEF Finding
<1> HIDE DEF reached
<1>6. reached \/ missed = 0
  BY <1>5
<1>7. /\ line' \in Lines /\ line'.at = "idle" /\ missed' \in {0, 1}
      /\ missed' = 1 => line.stayed /\ service.url # 0
  BY <1>1, <1>2, <1>5, <1>6, LineDoneIs
<1>8. Finding'
  BY <1>1, <1>2, <1>7 DEF Finding, Knows, externalVars
<1>9. Probed'
  BY <1>1, <1>2, <1>4, ProbedGrows
<1>10. FoundryTyped'
  BY <1>1, <1>2, <1>4, <1>7 DEF FoundryTyped, externalVars
<1> QED BY <1>8, <1>9, <1>10 DEF FoundryInv

\* A backend made afresh that finds the service throws the shared probe away.
LEMMA FreshFinds ==
  ASSUME FoundryTyped, NEW b \in Backends, b.url = 0, NEW c \in Clis,
         fresh' = Refreshed(b, c, probe).b, probe' = Refreshed(b, c, probe).probe
  PROVE  fresh' \in Backends /\ probe' \in Probes /\ (fresh'.url # 0 => ~probe'.ok)
<1>1. probe \in Probes
  BY DEF FoundryTyped
<1> DEFINE r == Refreshed(b, c, probe)
           u == IF c.urlHeld THEN c.url ELSE service.url
<1>2. r.b \in Backends /\ r.b.url = u /\ r.probe \in Probes /\ (u # b.url => r.probe = NoProbe)
  BY <1>1, RefreshedGives
<1> HIDE DEF r, u
<1>3. fresh' = r.b /\ probe' = r.probe
  BY DEF r
<1> QED BY <1>2, <1>3, NoProbeTyped

LEMMA OpBeginsStep == ASSUME FoundryInv, NEW kind \in Kinds, OpBegins(kind) PROVE FoundryInv'
<1> DEFINE prepares == kind \in {"prepare", "makeReady"}
           starts == prepares /\ service.url = 0 /\ ~cooling
           c == IF prepares THEN Sought ELSE cli
           r == Refreshed(NewBackend, c, probe)
<1>1. FoundryTyped /\ Finding /\ Probed
  BY DEF FoundryInv
<1>2. /\ op' = [NoOp EXCEPT !.at = IF starts THEN "starting" ELSE "read", !.kind = kind]
      /\ IF starts THEN cli' = Sought /\ fresh' = NewBackend /\ probe' = probe
         ELSE fresh' = r.b /\ cli' = r.cli /\ probe' = r.probe
      /\ UNCHANGED <<externalVars, own, line, answered, missed>>
  BY DEF OpBegins, Sought
<1>3. cli \in Clis /\ probe \in Probes /\ op \in Ops
  BY <1>1 DEF FoundryTyped
<1>4. Sought \in Clis /\ Learned(cli, Sought) /\ c \in Clis /\ Learned(cli, c)
  <2>1. Learned(cli, cli)
    BY DEF Learned, Knows
  <2> QED BY <1>1, <1>3, <2>1, SoughtKnows
<1> HIDE DEF c
<1>5. NewBackend \in Backends /\ NewBackend.url = 0
  BY NewBackendTyped
<1>6. r.cli \in Clis /\ Learned(c, r.cli)
  BY <1>1, <1>3, <1>4, <1>5, RefreshedGives
<1>7. CASE starts
  <2>1. op' = OpOf("starting", kind)
    BY <1>2, <1>7 DEF OpOf
  <2>2. op' \in Ops /\ op'.at = "starting"
    BY <2>1, OpsBegin
  <2>3. cli' \in Clis /\ Learned(cli, cli') /\ fresh' = NewBackend /\ probe' = probe
    BY <1>2, <1>4, <1>7
  <2>4. Probed'
    BY <1>5, <2>2, <2>3 DEF Probed, ReadyWasAnswered
  <2> QED BY <1>2, <1>3, <1>5, <2>2, <2>3, <2>4, OperationKeeps
<1>8. CASE ~starts
  <2>1. op' = OpOf("read", kind)
    BY <1>2, <1>8 DEF OpOf
  <2>2. op' \in Ops /\ op'.at = "read"
    BY <2>1, OpsBegin
  <2>3. fresh' = r.b /\ cli' = r.cli /\ probe' = r.probe
    BY <1>2, <1>8
  <2>4. fresh' \in Backends /\ probe' \in Probes /\ (fresh'.url # 0 => ~probe'.ok)
    BY <1>1, <1>4, <1>5, <2>3, FreshFinds
  <2>5. cli' \in Clis /\ Learned(cli, cli')
    BY <1>4, <1>6, <2>3, LearnedTwice
  <2>6. Probed'
    BY <2>2, <2>4 DEF Probed, ReadyWasAnswered
  <2> QED BY <1>2, <2>2, <2>4, <2>5, <2>6, OperationKeeps
<1> QED BY <1>7, <1>8

LEMMA OpPollsStep == ASSUME FoundryInv, NEW over \in BOOLEAN, OpPolls(over) PROVE FoundryInv'
<1> DEFINE r == Refreshed(fresh, Sought, probe)
<1>1. FoundryTyped /\ Finding /\ Probed
  BY DEF FoundryInv
<1>2. /\ op.at = "starting"
      /\ \/ fresh' = r.b /\ cli' = r.cli /\ probe' = r.probe /\ op' = [op EXCEPT !.at = "read"]
         \/ cli' = Sought /\ UNCHANGED <<fresh, probe, op>>
      /\ UNCHANGED <<externalVars, own, line, cooling, answered, missed>>
  BY DEF OpPolls, Sought
<1>3. probe \in Probes /\ op \in Ops /\ fresh \in Backends /\ fresh.url = 0
  BY <1>1, <1>2 DEF FoundryTyped, Probed
<1>4. Sought \in Clis /\ Learned(cli, Sought)
  BY <1>1, SoughtKnows
<1>5. r.cli \in Clis /\ Learned(Sought, r.cli)
  BY <1>1, <1>3, <1>4, RefreshedGives
<1>6. CASE fresh' = r.b /\ cli' = r.cli /\ probe' = r.probe /\ op' = [op EXCEPT !.at = "read"]
  <2>1. op' \in Ops /\ op'.at = "read"
    BY <1>3, <1>6, OpsGoOn DEF OpStages
  <2>2. fresh' \in Backends /\ probe' \in Probes /\ (fresh'.url # 0 => ~probe'.ok)
    BY <1>1, <1>3, <1>4, <1>6, FreshFinds
  <2>3. cli' \in Clis /\ Learned(cli, cli')
    BY <1>4, <1>5, <1>6, LearnedTwice
  <2>4. Probed'
    BY <2>1, <2>2 DEF Probed, ReadyWasAnswered
  <2> QED BY <1>2, <2>1, <2>2, <2>3, <2>4, OperationKeeps
<1>7. CASE cli' = Sought /\ UNCHANGED <<fresh, probe, op>>
  <2>1. Probed'
    BY <1>1, <1>2, <1>7 DEF Probed, ReadyWasAnswered
  <2> QED BY <1>2, <1>3, <1>4, <1>7, <2>1, OperationKeeps
<1> QED BY <1>2, <1>6, <1>7

\* An operation that ends tells ready of a port that answered.
LEMMA OpEndsKeeps ==
  ASSUME FoundryInv, NEW phase \in OpPhases, OpEnds(phase), phase = "ready" => fresh'.url \in answered'
  PROVE  op' \in Ops /\ Probed'
<1>1. op' = OpDone(phase)
  BY DEF OpEnds, OpDone
<1>2. op' \in Ops /\ op'.at = "done" /\ op'.phase = phase
  BY <1>1, OpsEnd
<1> QED BY <1>2 DEF Probed, ReadyWasAnswered

LEMMA OpReadsStep == ASSUME FoundryInv, OpReads PROVE FoundryInv'
<1> DEFINE url == UrlRead(cli)
           c == IF url.url # 0 THEN ModelsRead(url) ELSE url
<1>1. FoundryTyped /\ Finding /\ Probed
  BY DEF FoundryInv
<1>2. /\ op.at = "read" /\ cli' = c
      /\ op' = [op EXCEPT !.at = "settling"] \/ OpEnds(Phase(fresh, probe))
      /\ UNCHANGED <<externalVars, probe, own, line, fresh, cooling, answered, missed>>
  BY DEF OpReads
<1>3. probe \in Probes /\ op \in Ops /\ fresh \in Backends /\ cli \in Clis
  BY <1>1 DEF FoundryTyped
<1>4. url \in Clis /\ Learned(cli, url)
  BY <1>1, <1>3, UrlReadGives
<1> HIDE DEF url
<1>5. ModelsRead(url) \in Clis /\ Learned(url, ModelsRead(url))
  BY <1>1, <1>4, ModelsReadKeeps
<1>6. cli' \in Clis /\ Learned(cli, cli')
  BY <1>2, <1>4, <1>5, LearnedTwice
<1>7. CASE op' = [op EXCEPT !.at = "settling"]
  <2>1. op' \in Ops /\ op'.at = "settling"
    BY <1>3, <1>7, OpsGoOn DEF OpStages
  <2>2. Probed'
    BY <2>1 DEF Probed, ReadyWasAnswered
  <2> QED BY <1>2, <1>3, <1>6, <2>1, <2>2, OperationKeeps
<1>8. CASE OpEnds(Phase(fresh, probe))
  <2>1. Phase(fresh, probe) \in OpPhases
    BY DEF Phase, OpPhases
  <2>2. Phase(fresh, probe) = "ready" => fresh.url # 0 /\ probe.ok /\ probe.url = fresh.url
    BY DEF Phase, ForTarget
  <2>3. Phase(fresh, probe) = "ready" => fresh'.url \in answered'
    BY <1>1, <1>2, <2>2 DEF Probed
  <2>4. op' \in Ops /\ Probed'
    BY <1>8, <2>1, <2>3, OpEndsKeeps
  <2> QED BY <1>2, <1>3, <1>6, <2>4, OperationKeeps
<1> QED BY <1>2, <1>7, <1>8

\* The probe that a model's service answered, or did not.
LEMMA OpProbedStep == ASSUME FoundryInv, NEW result \in Results, OpProbed(result) PROVE FoundryInv'
<1> DEFINE b == Learns(fresh, result)
           p == IF fresh.url = 0 THEN probe ELSE Recorded(b, probe, result)
           r == Refreshed(b, cli, p)
           url == UrlRead(r.cli)
           c == IF url.url # 0 THEN ModelsRead(url) ELSE url
<1>1. FoundryTyped /\ Finding /\ Probed
  BY DEF FoundryInv
<1>2. UNCHANGED <<externalVars, own, line, cooling, missed>>
  BY DEF OpProbed
<1>3. probe \in Probes /\ op \in Ops /\ fresh \in Backends /\ cli \in Clis
  BY <1>1 DEF FoundryTyped
<1>4. b \in Backends /\ b.url = fresh.url
  BY <1>1, <1>3, LearnsKeeps
<1> HIDE DEF b
<1>5. p \in Probes
  BY <1>3, <1>4, RecordedIs
<1> HIDE DEF p
<1>6. r.b \in Backends /\ r.cli \in Clis /\ r.probe \in Probes /\ Learned(cli, r.cli)
  BY <1>1, <1>3, <1>4, <1>5, RefreshedGives
<1>7. PhaseOf(result) \in OpPhases /\ (PhaseOf(result) = "ready" <=> result = "answer")
  BY DEF PhaseOf, OpPhases, Results
<1>8. result = "answer" => fresh.url \in answered'
  BY DEF OpProbed
<1>9. CASE op.kind # "makeReady" \/ result = "answer"
  <2>1. fresh' = b /\ probe' = p /\ cli' = cli /\ OpEnds(PhaseOf(result))
    BY <1>9 DEF OpProbed, b, p
  <2>2. PhaseOf(result) = "ready" => fresh'.url \in answered'
    BY <1>4, <1>7, <1>8, <2>1
  <2>3. op' \in Ops /\ Probed'
    BY <1>7, <2>1, <2>2, OpEndsKeeps
  <2>4. Learned(cli, cli')
    BY <2>1 DEF Learned, Knows
  <2>5. cli' \in Clis /\ fresh' \in Backends /\ probe' \in Probes
    BY <1>3, <1>4, <1>5, <2>1
  <2> QED BY <1>2, <2>3, <2>4, <2>5, OperationKeeps
<1>10. CASE ~(op.kind # "makeReady" \/ result = "answer")
  <2>1. /\ fresh' = r.b /\ probe' = r.probe /\ cli' = c
        /\ \/ OpEnds("notRunning") \/ OpEnds(PhaseOf(result)) \/ op' = [op EXCEPT !.at = "settling"]
    BY <1>10 DEF OpProbed, b, p
  <2>2. url \in Clis /\ Learned(r.cli, url)
    BY <1>1, <1>6, UrlReadGives
  <2> HIDE DEF r, url
  <2>3. ModelsRead(url) \in Clis /\ Learned(url, ModelsRead(url))
    BY <1>1, <2>2, ModelsReadKeeps
  <2>4. c \in Clis /\ Learned(r.cli, c)
    BY <2>2, <2>3, LearnedTwice
  <2> HIDE DEF c
  <2>5. cli' \in Clis /\ Learned(cli, cli')
    BY <1>6, <2>1, <2>4, LearnedTwice
  <2>6. op' \in Ops /\ Probed'
    <3>1. CASE OpEnds("notRunning")
      BY <3>1, OpEndsKeeps DEF OpPhases
    <3>2. CASE OpEnds(PhaseOf(result))
      BY <1>7, <1>10, <3>2, OpEndsKeeps
    <3>3. CASE op' = [op EXCEPT !.at = "settling"]
      <4>1. op' \in Ops /\ op'.at = "settling"
        BY <1>3, <3>3, OpsGoOn DEF OpStages
      <4> QED BY <4>1 DEF Probed, ReadyWasAnswered
    <3> QED BY <2>1, <3>1, <3>2, <3>3
  <2>7. fresh' \in Backends /\ probe' \in Probes
    BY <1>6, <2>1
  <2> QED BY <1>2, <2>5, <2>6, <2>7, OperationKeeps
<1> QED BY <1>9, <1>10

LEMMA OpListsStep == ASSUME FoundryInv, NEW result \in Results, OpLists(result) PROVE FoundryInv'
<1>1. FoundryTyped
  BY DEF FoundryInv
<1>2. OpEnds("none") /\ UNCHANGED <<externalVars, probe, own, line, cooling, missed>>
  BY DEF OpLists
<1>3. probe \in Probes /\ fresh \in Backends /\ cli \in Clis /\ installed \in SUBSET Models
  BY <1>1 DEF FoundryTyped
<1>4. fresh' \in Backends
  <2>1. Learns(fresh, result) \in Backends
    BY <1>1, <1>3, LearnsKeeps
  <2>2. [Learns(fresh, result) EXCEPT !.models = installed] \in Backends
    BY <1>3, <2>1 DEF Backends
  <2> QED BY <1>3, <2>2 DEF OpLists
<1>5. cli' \in Clis /\ Learned(cli, cli')
  <2>1. cli' \in {cli, ModelsRead(cli)}
    BY DEF OpLists
  <2>2. Learned(cli, cli)
    BY DEF Learned, Knows
  <2> QED BY <1>1, <1>3, <2>1, <2>2, ModelsReadKeeps
<1>6. op' \in Ops /\ Probed'
  BY <1>2, OpEndsKeeps DEF OpPhases
<1> QED BY <1>2, <1>3, <1>4, <1>5, <1>6, OperationKeeps

\* The steps that touch nothing but the operation itself.
LEMMA OpWaitsStep == ASSUME FoundryInv, OpSettles \/ OpLate \/ OpTold PROVE FoundryInv'
<1>1. FoundryTyped /\ Probed
  BY DEF FoundryInv
<1>2. UNCHANGED <<externalVars, cli, probe, own, line, answered, missed>>
  BY DEF OpSettles, OpLate, OpTold
<1>3. probe \in Probes /\ op \in Ops /\ fresh \in Backends /\ cli \in Clis
  BY <1>1 DEF FoundryTyped
<1>4. Learned(cli, cli') /\ cli' \in Clis /\ probe' \in Probes
  BY <1>2, <1>3 DEF Learned, Knows
<1>5. fresh' \in Backends /\ op' \in Ops /\ Probed'
  <2>1. CASE OpSettles
    <3>1. op' = [op EXCEPT !.at = "probing"] /\ fresh' = fresh
      BY <2>1 DEF OpSettles
    <3>2. op' \in Ops /\ op'.at = "probing"
      BY <1>3, <3>1, OpsGoOn DEF OpStages
    <3> QED BY <1>3, <3>1, <3>2 DEF Probed, ReadyWasAnswered
  <2>2. CASE OpLate
    <3>1. op' = [op EXCEPT !.late = TRUE] /\ fresh' = fresh
      BY <2>2 DEF OpLate
    <3>2. op.at \in OpStages
      BY <1>3, OpTyped
    <3>3. op' \in Ops /\ op'.at = op.at /\ op'.phase = op.phase
      BY <1>3, <3>1, <3>2, OpsGoOn
    <3> QED BY <1>1, <1>2, <1>3, <3>1, <3>3 DEF Probed, ReadyWasAnswered
  <2>3. CASE OpTold
    <3>1. op' = NoOp /\ fresh' = NewBackend
      BY <2>3 DEF OpTold
    <3> QED BY <3>1, NoOpTyped, NewBackendTyped DEF Probed, ReadyWasAnswered
  <2> QED BY <2>1, <2>2, <2>3
<1> QED BY <1>2, <1>4, <1>5, OperationKeeps

LEMMA FoundryStep == FoundryInv /\ [FoundryNext]_foundryVars => FoundryInv'
<1> SUFFICES ASSUME FoundryInv, [FoundryNext]_foundryVars PROVE FoundryInv'
  OBVIOUS
<1>1. CASE UNCHANGED foundryVars
  BY <1>1 DEF foundryVars, FoundryInv, FoundryTyped, Finding, Knows, Probed, ReadyWasAnswered
<1>2. CASE LineSteps
  BY <1>2, LineAskedStep, LineAgainStep DEF LineSteps
<1>3. CASE OpSteps
  BY <1>3, OpReadsStep, OpProbedStep, OpListsStep, OpWaitsStep DEF OpSteps
<1> QED BY <1>1, <1>2, <1>3, MovesStep, AgesStep, LineBeginsStep, OpBeginsStep, OpPollsStep, OpWaitsStep
        DEF FoundryNext

\* Wherever the service moves and whatever the caches say, a line in a row more
\* than one is not lost to asking where it was (foundry_local.rs:1503), and
\* ready is told only of a port that answered (foundry_local.rs:1178).
THEOREM ServiceIsFound == FoundrySpec => []FindsMovedService /\ []ReadyWasAnswered
<1>1. FoundryInv => FindsMovedService /\ ReadyWasAnswered
  BY DEF FoundryInv, Finding, Probed, FindsMovedService
<1> QED BY <1>1, FoundryBegins, FoundryStep, PTL DEF FoundrySpec

-----------------------------------------------------------------------------
(* The types of the legacy engine                                          *)

FoundryBounds == cooling \in BOOLEAN /\ answered \in SUBSET Urls

LEMMA FoundryBounded == FoundryInv /\ FoundryBounds /\ [FoundryNext]_foundryVars => FoundryBounds'
<1> SUFFICES ASSUME FoundryInv, FoundryBounds, [FoundryNext]_foundryVars PROVE FoundryBounds'
  OBVIOUS
<1>0. line.url \in Urls /\ fresh.url \in Urls /\ cooling \in BOOLEAN /\ answered \in SUBSET Urls
  BY LineTyped, HomeTyped DEF FoundryInv, FoundryTyped, FoundryBounds
<1>1. ASSUME cooling' = cooling, answered' \in {answered, answered \cup {line.url}, answered \cup {fresh.url}}
      PROVE  FoundryBounds'
  BY <1>0, <1>1 DEF FoundryBounds
<1>2. ASSUME answered' = answered, cooling' \in BOOLEAN PROVE FoundryBounds'
  BY <1>0, <1>2 DEF FoundryBounds
<1>3. CASE Moves
  BY <1>1, <1>3 DEF Moves
<1>4. CASE Ages
  <2>1. answered' = answered /\ (UNCHANGED cooling \/ cooling' = FALSE)
    BY <1>4 DEF Ages
  <2> QED BY <1>0, <1>2, <2>1
<1>5. CASE LineBegins
  BY <1>1, <1>5 DEF LineBegins
<1>6. ASSUME NEW result \in Results, LineAsked(result) PROVE FoundryBounds'
  <2>1. cooling' = cooling
    BY <1>6 DEF LineAsked
  <2>2. answered' \in {answered, answered \cup {line.url}}
    BY <1>6 DEF LineAsked
  <2> QED BY <1>1, <2>1, <2>2
<1>7. ASSUME NEW result \in Results, LineAgain(result) PROVE FoundryBounds'
  <2>1. cooling' = cooling
    BY <1>7 DEF LineAgain
  <2>2. answered' \in {answered, answered \cup {line.url}}
    BY <1>7 DEF LineAgain
  <2> QED BY <1>1, <2>1, <2>2
<1>8. ASSUME NEW kind \in Kinds, OpBegins(kind) PROVE FoundryBounds'
  <2>1. answered' = answered /\ \E starts \in BOOLEAN : cooling' = (cooling \/ starts)
    BY <1>8 DEF OpBegins
  <2> QED BY <1>0, <1>2, <2>1
<1>9. ASSUME NEW over \in BOOLEAN, OpPolls(over) PROVE FoundryBounds'
  BY <1>1, <1>9 DEF OpPolls
<1>10. CASE OpReads
  BY <1>1, <1>10 DEF OpReads
<1>11. CASE OpSettles \/ OpTold \/ OpLate
  BY <1>1, <1>11 DEF OpSettles, OpTold, OpLate
<1>12. ASSUME NEW result \in Results, OpProbed(result) PROVE FoundryBounds'
  <2>1. cooling' = cooling
    BY <1>12 DEF OpProbed
  <2>2. answered' \in {answered, answered \cup {fresh.url}}
    BY <1>12 DEF OpProbed
  <2> QED BY <1>1, <2>1, <2>2
<1>13. ASSUME NEW result \in Results, OpLists(result) PROVE FoundryBounds'
  <2>1. cooling' = cooling
    BY <1>13 DEF OpLists
  <2>2. answered' \in {answered, answered \cup {fresh.url}}
    BY <1>13 DEF OpLists
  <2> QED BY <1>1, <2>1, <2>2
<1>14. CASE UNCHANGED foundryVars
  BY <1>1, <1>14 DEF foundryVars
<1> QED BY <1>3, <1>4, <1>5, <1>6, <1>7, <1>8, <1>9, <1>10, <1>11, <1>12, <1>13, <1>14
        DEF FoundryNext, LineSteps, OpSteps

LEMMA FoundryValues == FoundryInv /\ FoundryBounds => FoundryTypeOK
<1> SUFFICES ASSUME FoundryInv, FoundryBounds PROVE FoundryTypeOK
  OBVIOUS
<1>1. line.at \in LineStages /\ line.url \in Urls /\ op.at \in OpStages /\ op.kind \in Kinds
  BY LineTyped, OpTyped DEF FoundryInv, FoundryTyped
<1>2. missed \in Nat
  BY DEF FoundryInv, Finding
<1> QED BY <1>1, <1>2 DEF FoundryInv, FoundryTyped, FoundryBounds, FoundryTypeOK, Clis, Probes, LineStages, OpStages

-----------------------------------------------------------------------------
(* The area selector                                                       *)

Drafts == [selecting : BOOLEAN, has : BOOLEAN, region : Boxes \cup {NoBox}, saving : BOOLEAN, moving : BOOLEAN,
           phase : {"draw", "adjust", "error"}]

SelectorTyped ==
  /\ stored \in Boxes \cup {NoBox} /\ chosen \in Boxes \cup {NoBox} /\ draft \in Drafts
  /\ pageStage \in {"none", "loading", "listening", "ready"}
  /\ restores \in Seq(Boxes \cup {NoBox, "asked"}) /\ closes \in Seq({"cancel", "confirm"})

\* The user's calls are under way only once the user has acted, and what is
\* asked for before that is what is stored.
Untouched ==
  ~touched => closes = <<>> /\ confirm = "idle" /\ \A i \in 1 .. Len(restores) : restores[i] \in {"asked", stored}

\* The page hears of an opening when it is there to hear, and has nothing
\* before it was told.
Informing ==
  /\ panel = "opening" => ~reopened
  /\ reopened => informed
  /\ informed => pageStage # "none"
  /\ pageStage # "ready" /\ ~informed => ~draft.has /\ restores = <<>>

\* The page has the stored area, or is about to.
Restoring ==
  informed /\ ~touched /\ panel # "hidden" /\ ~reopened =>
    /\ draft.has => stored # NoBox /\ draft.region = stored
    /\ ~draft.has /\ stored # NoBox => restores # <<>>

SelectorInv == SelectorTyped /\ Untouched /\ Informing /\ Restoring

LEMMA DraftsMade ==
  ASSUME NEW d \in Drafts, NEW box \in Boxes \cup {NoBox}
  PROVE  /\ Cleared(d) \in Drafts /\ ~Cleared(d).has
         /\ ShowSelection(d, box) \in Drafts /\ ShowSelection(d, box).has /\ ShowSelection(d, box).region = box
BY DEF Drafts, Cleared, ShowSelection

Lifted(d) == [d EXCEPT !.moving = TRUE, !.phase = "adjust"]
Begun(d) == [d EXCEPT !.selecting = TRUE, !.phase = "draw"]
TooSmall(d) == [d EXCEPT !.selecting = FALSE, !.phase = "error"]
Nudged(d, box) == [d EXCEPT !.region = box, !.phase = "adjust"]

\* What the user does to the box.
LEMMA DraftsTouched == ASSUME NEW d \in Drafts PROVE Lifted(d) \in Drafts /\ Begun(d) \in Drafts /\ TooSmall(d) \in Drafts
BY DEF Drafts, Lifted, Begun, TooSmall

LEMMA BoxTouched ==
  ASSUME NEW d \in Drafts, NEW box \in Boxes PROVE Nudged(d, box) \in Drafts /\ [d EXCEPT !.region = box] \in Drafts
BY DEF Drafts, Nudged

LEMMA SelectorBegins == SelectorInit => SelectorInv
<1> SUFFICES ASSUME SelectorInit PROVE SelectorInv
  OBVIOUS
<1>1. draft \in Drafts
  BY DEF SelectorInit, Drafts
<1> QED BY <1>1 DEF SelectorInit, SelectorInv, SelectorTyped, Untouched, Informing, Restoring

LEMMA OpeningStep == ASSUME SelectorInv, Opening PROVE SelectorInv'
<1>1. CASE OpenBegins
  <2>1. /\ ~reopened /\ restores = <<>> /\ closes = <<>> /\ confirm = "idle" /\ pageStage \notin {"loading", "listening"}
        /\ ~informed' /\ ~touched' /\ panel' = "opening" /\ pageStage' = IF pageStage = "none" THEN "loading" ELSE pageStage
        /\ UNCHANGED <<stored, reopened, restores, closes, confirm, draft, chosen, draws>>
    BY <1>1 DEF OpenBegins, InFlight
  <2>2. Informing'
    BY <2>1 DEF SelectorInv, SelectorTyped, Informing
  <2>3. pageStage' \in {"none", "loading", "listening", "ready"}
    BY <2>1 DEF SelectorInv, SelectorTyped
  <2> QED BY <2>1, <2>2, <2>3 DEF SelectorInv, SelectorTyped, Untouched, Restoring
<1>2. ASSUME NEW taken \in BOOLEAN, OpenEnds(taken) PROVE SelectorInv'
  BY <1>2 DEF OpenEnds, SelectorInv, SelectorTyped, Untouched, Informing, Restoring
<1>3. CASE StoredElsewhere
  <2>1. panel = "hidden" /\ ~reopened /\ restores = <<>> /\ closes = <<>> /\ confirm = "idle"
        /\ stored' \in Boxes
        /\ UNCHANGED <<panel, pageStage, reopened, restores, closes, confirm, draft, chosen, informed, touched, opens>>
    BY <1>3 DEF StoredElsewhere, InFlight
  <2> QED BY <2>1 DEF SelectorInv, SelectorTyped, Untouched, Informing, Restoring
<1> QED BY <1>1, <1>2, <1>3 DEF Opening

LEMMA PreloadStep == ASSUME SelectorInv, Preload PROVE SelectorInv'
<1>1. restores \in Seq(Boxes \cup {NoBox, "asked"}) /\ draft \in Drafts
  BY DEF SelectorInv, SelectorTyped
<1>2. /\ Append(restores, "asked") \in Seq(Boxes \cup {NoBox, "asked"}) /\ Append(restores, "asked") # <<>>
      /\ Untouched => (~touched => \A i \in 1 .. Len(Append(restores, "asked")) : Append(restores, "asked")[i] \in {"asked", stored})
  BY <1>1, AppendProperties DEF Untouched
<1>3. CASE Listens
  BY <1>3 DEF Listens, SelectorInv, SelectorTyped, Untouched, Informing, Restoring
<1>4. CASE Loads
  BY <1>1, <1>2, <1>4 DEF Loads, SelectorInv, SelectorTyped, Untouched, Informing, Restoring
<1>5. CASE Reopened
  <2>1. draft' \in Drafts /\ ~draft'.has
    BY <1>1, <1>5, DraftsMade DEF Reopened
  <2> QED BY <1>1, <1>2, <1>5, <2>1 DEF Reopened, SelectorInv, SelectorTyped, Untouched, Informing, Restoring
<1> QED BY <1>3, <1>4, <1>5 DEF Preload

LEMMA RestoreStep == ASSUME SelectorInv, RestoreSelection PROVE SelectorInv'
<1> DEFINE Asked == Boxes \cup {NoBox, "asked"}
<1>1. restores \in Seq(Asked) /\ draft \in Drafts /\ stored \in Boxes \cup {NoBox} /\ restores # <<>>
  BY DEF SelectorInv, SelectorTyped, RestoreSelection, RestoreReads, RestoreAnswered
<1>2. /\ Head(restores) = restores[1] /\ Head(restores) \in Asked /\ Tail(restores) \in Seq(Asked)
      /\ 1 \in 1 .. Len(restores) /\ Len(Tail(restores)) = Len(restores) - 1 /\ Len(restores) \in Nat
      /\ \A i \in 1 .. Len(Tail(restores)) : Tail(restores)[i] = restores[i + 1]
  BY <1>1, HeadTailProperties, LenProperties
<1>3. ~touched => /\ Head(restores) \in {"asked", stored}
                  /\ \A i \in 1 .. Len(Tail(restores)) : Tail(restores)[i] \in {"asked", stored}
  BY <1>2 DEF SelectorInv, Untouched
<1>4. CASE RestoreReads
  <2>1. restores' = <<stored>> \o Tail(restores)
        /\ UNCHANGED <<panel, pageStage, stored, reopened, closes, confirm, draft, chosen, informed, touched, opens, draws>>
    BY <1>4 DEF RestoreReads
  <2>2. <<stored>> \in Seq(Asked) /\ Len(<<stored>>) = 1 /\ <<stored>>[1] = stored
    BY <1>1
  <2>3. /\ restores' \in Seq(Asked) /\ Len(restores') = 1 + Len(Tail(restores))
        /\ \A i \in 1 .. Len(restores') : restores'[i] = IF i <= 1 THEN <<stored>>[i] ELSE Tail(restores)[i - 1]
    BY <1>2, <2>1, <2>2, ConcatProperties
  <2>4. restores' # <<>>
    BY <1>2, <2>3
  <2>5. Untouched'
    <3>1. ASSUME ~touched, NEW i \in 1 .. Len(restores') PROVE restores'[i] \in {"asked", stored}
      <4>1. CASE i = 1
        BY <2>2, <2>3, <4>1
      <4>2. CASE i # 1
        <5>1. i - 1 \in 1 .. Len(Tail(restores)) /\ restores'[i] = Tail(restores)[i - 1]
          BY <1>2, <2>3, <4>2
        <5> QED BY <1>3, <3>1, <5>1
      <4> QED BY <4>1, <4>2
    <3> QED BY <2>1, <3>1 DEF SelectorInv, Untouched
  <2> QED BY <1>1, <2>1, <2>3, <2>4, <2>5 DEF SelectorInv, SelectorTyped, Informing, Restoring
<1>5. CASE RestoreAnswered
  <2>1. /\ Head(restores) # "asked" /\ restores' = Tail(restores)
        /\ draft' = IF Head(restores) = NoBox THEN draft ELSE ShowSelection(draft, Head(restores))
        /\ UNCHANGED <<panel, pageStage, stored, reopened, closes, confirm, chosen, informed, touched, opens, draws>>
    BY <1>5 DEF RestoreAnswered
  <2>2. draft' \in Drafts /\ (Head(restores) # NoBox => draft'.has /\ draft'.region = Head(restores))
        /\ (Head(restores) = NoBox => draft' = draft)
    BY <1>1, <1>2, <2>1, DraftsMade
  <2>3. SelectorTyped' /\ Untouched'
    BY <1>2, <1>3, <2>1, <2>2 DEF SelectorInv, SelectorTyped, Untouched
  <2>4. Informing'
    BY <1>1, <2>1 DEF SelectorInv, Informing
  <2>5. Restoring'
    BY <1>3, <2>1, <2>2 DEF SelectorInv, Restoring
  <2> QED BY <2>3, <2>4, <2>5 DEF SelectorInv
<1> QED BY <1>4, <1>5 DEF RestoreSelection

\* What the user does to an open page leaves it to the user.
LEMMA TouchesKeeps ==
  ASSUME SelectorInv, NEW d \in Drafts, Touches(d), closes' \in Seq({"cancel", "confirm"})
  PROVE  SelectorInv'
BY DEF SelectorInv, SelectorTyped, Untouched, Informing, Restoring, Touches

LEMMA UserStep == ASSUME SelectorInv, Drawing \/ Keyboard \/ Buttons PROVE SelectorInv'
<1>1. draft \in Drafts /\ closes \in Seq({"cancel", "confirm"}) /\ NoBox \in Boxes \cup {NoBox}
  BY DEF SelectorInv, SelectorTyped
<1>2. ASSUME NEW d \in Drafts, OnBox(d) PROVE SelectorInv'
  BY <1>1, <1>2, TouchesKeeps DEF OnBox
<1>3. ASSUME NEW d \in Drafts, DrawsOnce, Touches(d) PROVE SelectorInv'
  BY <1>1, <1>3, TouchesKeeps DEF DrawsOnce
<1>4. CASE MouseDown
  <2>1. CASE draft.has
    <3>1. OnBox(Lifted(draft))
      BY <1>4, <2>1 DEF MouseDown, Lifted
    <3> QED BY <1>1, <1>2, <3>1, DraftsTouched
  <2>2. CASE ~draft.has
    <3>1. OnBox(Begun(draft))
      BY <1>4, <2>2 DEF MouseDown, Begun
    <3> QED BY <1>1, <1>2, <3>1, DraftsTouched
  <2> QED BY <2>1, <2>2
<1>5. CASE DragOrResize
  <2>1. PICK box \in Boxes : Touches([draft EXCEPT !.region = box])
    BY <1>5 DEF DragOrResize
  <2>2. [draft EXCEPT !.region = box] \in Drafts
    BY <1>1, BoxTouched
  <2> QED BY <1>3, <1>5, <2>1, <2>2 DEF DragOrResize
<1>6. CASE MouseUp
  <2>1. CASE OnBox([draft EXCEPT !.moving = FALSE])
    <3>1. [draft EXCEPT !.moving = FALSE] \in Drafts
      BY <1>1 DEF Drafts
    <3> QED BY <1>2, <2>1, <3>1
  <2>2. CASE OnBox(TooSmall(draft))
    BY <1>1, <1>2, <2>2, DraftsTouched
  <2>3. ASSUME DrawsOnce, NEW box \in Boxes, Touches(ShowSelection(draft, box)) PROVE SelectorInv'
    BY <1>1, <1>3, <2>3, DraftsMade
  <2> QED BY <1>6, <2>1, <2>2, <2>3 DEF MouseUp, TooSmall
<1>7. CASE ArrowKey
  <2>1. PICK box \in Boxes : Touches(Nudged(draft, box))
    BY <1>7, Zenon DEF ArrowKey, Nudged
  <2>2. Nudged(draft, box) \in Drafts
    BY <1>1, BoxTouched
  <2> QED BY <1>3, <1>7, <2>1, <2>2 DEF ArrowKey
<1>8. CASE PlaceBox
  BY <1>1, <1>3, <1>8, DraftsMade DEF PlaceBox
<1>9. CASE RedrawArea
  BY <1>1, <1>2, <1>9, DraftsMade DEF RedrawArea
<1>10. CASE CancelSelector
  <2>1. Touches(draft) /\ closes' \in Seq({"cancel", "confirm"})
    BY <1>1, <1>10, AppendProperties DEF CancelSelector
  <2> QED BY <1>1, <2>1, TouchesKeeps
<1>11. CASE ConfirmSelection
  <2>1. Touches([draft EXCEPT !.saving = TRUE]) /\ closes' = closes
    BY <1>11 DEF ConfirmSelection
  <2>2. [draft EXCEPT !.saving = TRUE] \in Drafts
    BY <1>1 DEF Drafts
  <2> QED BY <1>1, <2>1, <2>2, TouchesKeeps
<1> QED BY <1>4, <1>5, <1>6, <1>7, <1>8, <1>9, <1>10, <1>11 DEF Drawing, Keyboard, Buttons

LEMMA ConfirmStep == ASSUME SelectorInv, ConfirmGoesOn PROVE SelectorInv'
<1>1. draft \in Drafts /\ closes \in Seq({"cancel", "confirm"}) /\ chosen \in Boxes \cup {NoBox}
  BY DEF SelectorInv, SelectorTyped
<1>2. CASE Scaled
  <2>1. touched /\ draft.region \in Boxes \cup {NoBox}
    BY <1>1, <1>2 DEF SelectorInv, Untouched, Scaled, Drafts
  <2>2. chosen' \in Boxes \cup {NoBox}
        /\ UNCHANGED <<panel, pageStage, stored, reopened, restores, closes, draft, informed, touched, opens, draws>>
    BY <1>1, <1>2, <2>1 DEF Scaled
  <2> QED BY <2>1, <2>2 DEF SelectorInv, SelectorTyped, Untouched, Informing, Restoring
<1>3. ASSUME NEW ok \in BOOLEAN, Stored(ok) PROVE SelectorInv'
  <2>1. touched
    BY <1>3 DEF SelectorInv, Untouched, Stored
  <2>2. stored' \in Boxes \cup {NoBox} /\ closes' \in Seq({"cancel", "confirm"})
    BY <1>1, <1>3, AppendProperties DEF SelectorInv, SelectorTyped, Stored
  <2>3. draft' \in Drafts /\ draft'.has = draft.has
    <3>1. CASE draft' = draft
      BY <1>1, <3>1
    <3>2. CASE draft' = [draft EXCEPT !.phase = "error", !.saving = FALSE]
      BY <1>1, <3>2 DEF Drafts
    <3> QED BY <1>3, <3>1, <3>2 DEF Stored
  <2>4. UNCHANGED <<panel, pageStage, reopened, restores, chosen, informed, touched, opens, draws>>
    BY <1>3 DEF Stored
  <2> QED BY <2>1, <2>2, <2>3, <2>4 DEF SelectorInv, SelectorTyped, Untouched, Informing, Restoring
<1> QED BY <1>2, <1>3 DEF ConfirmGoesOn

LEMMA CloseStep == ASSUME SelectorInv, CloseEnds PROVE SelectorInv'
<1>1. PICK hides \in BOOLEAN : CloseAnswered(hides)
  BY DEF CloseEnds
<1>2. closes # <<>> /\ closes' = Tail(closes) /\ (panel' = panel \/ panel' = "hidden")
      /\ (draft' = Cleared(draft) \/ draft' = [Cleared(draft) EXCEPT !.saving = FALSE])
      /\ UNCHANGED <<pageStage, stored, reopened, restores, chosen, informed, touched, opens, draws>>
  BY <1>1 DEF CloseAnswered
<1>3. draft \in Drafts /\ closes \in Seq({"cancel", "confirm"})
  BY DEF SelectorInv, SelectorTyped
<1>4. touched
  BY <1>2 DEF SelectorInv, Untouched
<1>5. Cleared(draft) \in Drafts /\ ~Cleared(draft).has
  BY <1>3, DraftsMade
<1>6. draft' \in Drafts /\ ~draft'.has
  <2>1. ASSUME NEW d \in Drafts PROVE [d EXCEPT !.saving = FALSE] \in Drafts /\ [d EXCEPT !.saving = FALSE].has = d.has
    BY DEF Drafts
  <2> QED BY <1>2, <1>5, <2>1
<1>7. closes' \in Seq({"cancel", "confirm"})
  BY <1>2, <1>3, HeadTailProperties
<1> QED BY <1>2, <1>4, <1>6, <1>7 DEF SelectorInv, SelectorTyped, Untouched, Informing, Restoring

LEMMA SelectorStep == SelectorInv /\ [SelectorNext]_selectorPart => SelectorInv'
<1> SUFFICES ASSUME SelectorInv, [SelectorNext]_selectorPart PROVE SelectorInv'
  OBVIOUS
<1>1. CASE UNCHANGED selectorPart
  BY <1>1 DEF selectorPart, SelectorInv, SelectorTyped, Untouched, Informing, Restoring
<1> QED BY <1>1, OpeningStep, PreloadStep, RestoreStep, UserStep, ConfirmStep, CloseStep DEF SelectorNext

LEMMA StoredIsShown == SelectorInv => BoxIsStored
<1> SUFFICES ASSUME SelectorInv, panel = "shown", informed, ~touched, ~InFlight
             PROVE  draft.has = (stored # NoBox) /\ (draft.has => draft.region = stored)
  BY DEF BoxIsStored
<1>1. ~reopened /\ restores = <<>> /\ draft.has \in BOOLEAN
  BY DEF InFlight, SelectorInv, SelectorTyped, Drafts
<1>2. (draft.has => stored # NoBox /\ draft.region = stored) /\ (~draft.has => stored = NoBox)
  BY <1>1 DEF SelectorInv, Restoring
<1> QED BY <1>1, <1>2

\* Whatever the user did before the window was closed and whenever its page
\* hears of the opening, a selector not yet touched shows what is stored
\* (selector.js:139).
THEOREM SelectorShowsStored == SelectorSpec => []BoxIsStored
BY StoredIsShown, SelectorBegins, SelectorStep, PTL DEF SelectorSpec

-----------------------------------------------------------------------------
(* The types of the area selector                                          *)

SelectorCounts == panel \in {"hidden", "opening", "shown"} /\ opens \in 0 .. MaxOpens /\ draws \in 0 .. MaxDraws

\* A box that can be confirmed has an area.
BoxHasArea == draft.has => draft.region # NoBox

\* A save is under way once at a time, until the close it ends with.
SavedOnce ==
  /\ confirm # "idle" => draft.saving
  /\ \A i \in 1 .. Len(closes) : closes[i] = "confirm" => confirm = "closing"
  /\ \A i, j \in 1 .. Len(closes) : closes[i] = closes[j] => i = j

\* What the page asks for, and what will make it ask: the load of the window
\* and its being reopened ask once each.
One(b) == IF b THEN 1 ELSE 0
Asking == One(reopened) + One(pageStage \in {"loading", "listening"}) + One(panel = "opening")
AskedTwice == Len(restores) + Asking <= 2

SelectorBounds == SelectorCounts /\ BoxHasArea /\ SavedOnce /\ AskedTwice

LEMMA SelectorSizes == MaxOpens \in Nat /\ MaxDraws \in Nat
BY SelectorAssumption

LEMMA SelectorBoundsBegin == SelectorInit => SelectorBounds
<1> SUFFICES ASSUME SelectorInit PROVE SelectorBounds
  OBVIOUS
<1>1. /\ panel = "hidden" /\ pageStage = "none" /\ reopened = FALSE /\ Len(restores) = 0 /\ Len(closes) = 0
      /\ confirm = "idle" /\ opens = 0 /\ draws = 0
  BY DEF SelectorInit
<1>2. ~draft.has
  BY DEF SelectorInit
<1>3. SelectorCounts
  BY <1>1, SelectorSizes DEF SelectorCounts
<1>4. SavedOnce
  BY <1>1 DEF SavedOnce
<1>5. AskedTwice
  BY <1>1 DEF AskedTwice, Asking, One
<1> QED BY <1>2, <1>3, <1>4, <1>5 DEF SelectorBounds, BoxHasArea

\* What becomes of the box in a step, whatever the calls under way.
HasArea(d) == d.has => d.region # NoBox
Dropped(d) == [d EXCEPT !.moving = FALSE]
Dragged(d, box) == [d EXCEPT !.region = box]
Redrawn(d) ==
  \/ d \in {draft, Cleared(draft), Lifted(draft), Begun(draft), TooSmall(draft), Dropped(draft)}
  \/ \E box \in Boxes : d \in {ShowSelection(draft, box), Nudged(draft, box), Dragged(draft, box)}

LEMMA DraftKeeps ==
  ASSUME NEW d \in Drafts, HasArea(d)
  PROVE  \A e \in {d, Cleared(d), Lifted(d), Begun(d), TooSmall(d), Dropped(d)} : e.saving = d.saving /\ HasArea(e)
BY DEF HasArea, Drafts, Cleared, Lifted, Begun, TooSmall, Dropped

LEMMA BoxKeeps ==
  ASSUME NEW d \in Drafts, NEW box \in Boxes
  PROVE  \A e \in {ShowSelection(d, box), Nudged(d, box), Dragged(d, box)} : e.saving = d.saving /\ HasArea(e)
<1>1. box # NoBox
  BY BoxAssumption
<1> QED BY <1>1 DEF HasArea, Drafts, ShowSelection, Nudged, Dragged

LEMMA RedrawnKeeps == ASSUME draft \in Drafts, HasArea(draft), NEW d, Redrawn(d) PROVE d.saving = draft.saving /\ HasArea(d)
BY DraftKeeps, BoxKeeps DEF Redrawn

SaveBegun(d) == [d EXCEPT !.saving = TRUE]
SaveOver(d) == [Cleared(d) EXCEPT !.saving = FALSE]
SaveFailed(d) == [d EXCEPT !.phase = "error", !.saving = FALSE]

LEMMA SaveKeeps ==
  ASSUME NEW d \in Drafts, HasArea(d)
  PROVE  SaveBegun(d).saving = TRUE /\ HasArea(SaveBegun(d)) /\ HasArea(SaveOver(d)) /\ HasArea(SaveFailed(d))
BY DEF HasArea, Drafts, Cleared, SaveBegun, SaveOver, SaveFailed

\* What the user does to the box, and what the loads and answers make of it.
LEMMA UserRedraws ==
  ASSUME SelectorInv, Drawing \/ Keyboard \/ RedrawArea
  PROVE  Redrawn(draft') /\ UNCHANGED <<panel, pageStage, stored, reopened, restores, closes, confirm, chosen, opens>>
<1>1. ASSUME NEW d, Redrawn(d), OnBox(d) \/ (DrawsOnce /\ Touches(d))
      PROVE  Redrawn(draft') /\ UNCHANGED <<panel, pageStage, stored, reopened, restores, closes, confirm, chosen, opens>>
  <2>1. draft' = d
    BY <1>1 DEF OnBox, Touches
  <2>2. UNCHANGED <<panel, pageStage, stored, reopened, restores, closes, confirm, chosen, opens>>
    BY <1>1 DEF OnBox, DrawsOnce, Touches
  <2> QED BY <1>1, <2>1, <2>2
<1>2. CASE MouseDown
  <2>1. OnBox(IF draft.has THEN Lifted(draft) ELSE Begun(draft))
    BY <1>2 DEF MouseDown, Lifted, Begun
  <2>2. Redrawn(IF draft.has THEN Lifted(draft) ELSE Begun(draft))
    BY DEF Redrawn
  <2> QED BY <1>1, <2>1, <2>2
<1>3. CASE DragOrResize
  <2>1. PICK box \in Boxes : DrawsOnce /\ Touches(Dragged(draft, box))
    BY <1>3, Zenon DEF DragOrResize, Dragged
  <2>2. Redrawn(Dragged(draft, box))
    BY DEF Redrawn
  <2> QED BY <1>1, <2>1, <2>2
<1>4. CASE MouseUp
  <2>1. \/ OnBox(Dropped(draft)) \/ OnBox(TooSmall(draft))
        \/ \E box \in Boxes : DrawsOnce /\ Touches(ShowSelection(draft, box))
    BY <1>4, Zenon DEF MouseUp, Dropped, TooSmall
  <2>2. Redrawn(Dropped(draft)) /\ Redrawn(TooSmall(draft)) /\ \A box \in Boxes : Redrawn(ShowSelection(draft, box))
    BY DEF Redrawn
  <2> QED BY <1>1, <2>1, <2>2
<1>5. CASE Keyboard
  <2>1. \E box \in Boxes : DrawsOnce /\ (Touches(Nudged(draft, box)) \/ Touches(ShowSelection(draft, box)))
    BY <1>5, Zenon DEF Keyboard, ArrowKey, PlaceBox, Nudged
  <2>2. \A box \in Boxes : Redrawn(Nudged(draft, box)) /\ Redrawn(ShowSelection(draft, box))
    BY DEF Redrawn
  <2> QED BY <1>1, <2>1, <2>2
<1>6. CASE RedrawArea
  <2>1. Redrawn(Cleared(draft))
    BY DEF Redrawn
  <2> QED BY <1>1, <1>6, <2>1 DEF RedrawArea
<1> QED BY <1>2, <1>3, <1>4, <1>5, <1>6 DEF Drawing

LEMMA BoxHasAreaKept == ASSUME SelectorInv, BoxHasArea, [SelectorNext]_selectorPart PROVE BoxHasArea'
<1>1. draft \in Drafts /\ HasArea(draft)
  BY DEF SelectorInv, SelectorTyped, BoxHasArea, HasArea
<1>2. ASSUME HasArea(draft') PROVE BoxHasArea'
  BY <1>2 DEF BoxHasArea, HasArea
<1>3. ASSUME Redrawn(draft') PROVE BoxHasArea'
  BY <1>1, <1>2, <1>3, RedrawnKeeps
<1>4. ASSUME UNCHANGED draft PROVE BoxHasArea'
  BY <1>1, <1>2, <1>4
<1>5. CASE Drawing \/ Keyboard \/ RedrawArea
  BY <1>3, <1>5, UserRedraws
<1>6. CASE Opening \/ Listens \/ Loads \/ RestoreReads \/ Scaled \/ UNCHANGED selectorPart
  BY <1>4, <1>6 DEF Opening, OpenBegins, OpenEnds, StoredElsewhere, Listens, Loads, RestoreReads, Scaled, selectorPart
<1>7. CASE Reopened
  <2>1. Redrawn(draft')
    BY <1>7 DEF Reopened, Redrawn
  <2> QED BY <1>3, <2>1
<1>8. CASE RestoreAnswered
  <2>1. restores # <<>> /\ Head(restores) # "asked"
        /\ draft' = IF Head(restores) = NoBox THEN draft ELSE ShowSelection(draft, Head(restores))
    BY <1>8 DEF RestoreAnswered
  <2>2. Head(restores) \in Boxes \cup {NoBox, "asked"}
    BY <2>1 DEF SelectorInv, SelectorTyped
  <2>3. Redrawn(draft')
    BY <2>1, <2>2 DEF Redrawn
  <2> QED BY <1>3, <2>3
<1>9. CASE CancelSelector \/ ConfirmSelection
  <2>1. draft' = draft \/ draft' = SaveBegun(draft)
    BY <1>9 DEF SaveBegun, CancelSelector, ConfirmSelection, Touches
  <2> QED BY <1>1, <1>2, <1>4, <2>1, SaveKeeps
<1>10. ASSUME NEW ok \in BOOLEAN, Stored(ok) PROVE BoxHasArea'
  <2>1. draft' = draft \/ draft' = SaveFailed(draft)
    BY <1>10 DEF SaveFailed, Stored
  <2> QED BY <1>1, <1>2, <1>4, <2>1, SaveKeeps
<1>11. CASE CloseEnds
  <2>1. draft' = Cleared(draft) \/ draft' = SaveOver(draft)
    BY <1>11 DEF SaveOver, CloseEnds, CloseAnswered
  <2>2. Redrawn(Cleared(draft))
    BY DEF Redrawn
  <2> QED BY <1>1, <1>2, <1>3, <2>1, <2>2, SaveKeeps
<1> QED BY <1>5, <1>6, <1>7, <1>8, <1>9, <1>10, <1>11
        DEF SelectorNext, Preload, RestoreSelection, Buttons, ConfirmGoesOn

LEMMA SelectorCountsKept == ASSUME SelectorInv, SelectorCounts, [SelectorNext]_selectorPart PROVE SelectorCounts'
<1>0. /\ panel \in {"hidden", "opening", "shown"} /\ opens \in 0 .. MaxOpens /\ draws \in 0 .. MaxDraws
      /\ MaxOpens \in Nat /\ MaxDraws \in Nat
  BY SelectorSizes DEF SelectorCounts
<1> DEFINE Draws1 == draws < MaxDraws /\ draws' = draws + 1
           Opens1 == opens < MaxOpens /\ opens' = opens + 1
<1>1. ASSUME UNCHANGED opens \/ Opens1, UNCHANGED draws \/ Draws1, panel' \in {panel, "hidden", "opening", "shown"}
      PROVE  SelectorCounts'
  <2>1. opens' \in 0 .. MaxOpens
    BY <1>0, <1>1
  <2>2. draws' \in 0 .. MaxDraws
    BY <1>0, <1>1
  <2> QED BY <1>0, <1>1, <2>1, <2>2 DEF SelectorCounts
<1>2. ASSUME DrawsOnce PROVE Draws1
  BY <1>2 DEF DrawsOnce
<1> HIDE DEF Draws1, Opens1
<1>3. CASE Drawing \/ Keyboard \/ RedrawArea
  <2>1. ASSUME NEW d, OnBox(d) PROVE UNCHANGED draws
    BY <2>1 DEF OnBox
  <2>2. UNCHANGED draws \/ Draws1
    BY <1>2, <1>3, <2>1, Zenon DEF Drawing, MouseDown, DragOrResize, MouseUp, Keyboard, ArrowKey, PlaceBox, RedrawArea
  <2>3. UNCHANGED <<panel, opens>>
    BY <1>3, UserRedraws
  <2> QED BY <1>1, <2>2, <2>3
<1>4. CASE OpenBegins
  BY <1>1, <1>4 DEF OpenBegins, Opens1
<1>5. CASE StoredElsewhere
  BY <1>1, <1>5 DEF StoredElsewhere, Draws1
<1>6. ASSUME NEW taken \in BOOLEAN, OpenEnds(taken) PROVE SelectorCounts'
  BY <1>1, <1>6 DEF OpenEnds
<1>7. CASE Preload \/ RestoreSelection \/ UNCHANGED selectorPart
  <2>1. UNCHANGED <<panel, opens, draws>>
    BY <1>7 DEF Preload, Listens, Loads, Reopened, RestoreSelection, RestoreReads, RestoreAnswered, selectorPart
  <2> QED BY <1>1, <2>1
<1>8. CASE CancelSelector \/ ConfirmSelection
  BY <1>1, <1>8 DEF CancelSelector, ConfirmSelection, Touches
<1>9. CASE ConfirmGoesOn
  BY <1>1, <1>9 DEF ConfirmGoesOn, Scaled, Stored
<1>10. CASE CloseEnds
  BY <1>1, <1>10 DEF CloseEnds, CloseAnswered
<1> QED BY <1>3, <1>4, <1>5, <1>6, <1>7, <1>8, <1>9, <1>10 DEF SelectorNext, Opening, Buttons

\* A save is begun when there is none, and its close is asked for once.
LEMMA SavedOnceKept == ASSUME SelectorInv, BoxHasArea, SavedOnce, [SelectorNext]_selectorPart PROVE SavedOnce'
<1>0. /\ draft \in Drafts /\ HasArea(draft) /\ closes \in Seq({"cancel", "confirm"}) /\ Len(closes) \in Nat
      /\ confirm # "idle" => draft.saving
      /\ \A i \in 1 .. Len(closes) : closes[i] = "confirm" => confirm = "closing"
      /\ \A i, j \in 1 .. Len(closes) : closes[i] = closes[j] => i = j
  BY LenProperties DEF SelectorInv, SelectorTyped, BoxHasArea, HasArea, SavedOnce
<1>1. ASSUME UNCHANGED <<confirm, closes>>, draft'.saving = draft.saving PROVE SavedOnce'
  BY <1>0, <1>1 DEF SavedOnce
<1>2. ASSUME Redrawn(draft'), UNCHANGED <<confirm, closes>> PROVE SavedOnce'
  BY <1>0, <1>1, <1>2, RedrawnKeeps
<1>3. CASE Drawing \/ Keyboard \/ RedrawArea
  BY <1>2, <1>3, UserRedraws
<1>4. CASE Opening \/ Listens \/ Loads \/ RestoreReads \/ UNCHANGED selectorPart
  BY <1>1, <1>4 DEF Opening, OpenBegins, OpenEnds, StoredElsewhere, Listens, Loads, RestoreReads, selectorPart
<1>5. CASE Reopened
  BY <1>2, <1>5 DEF Reopened, Redrawn
<1>6. CASE RestoreAnswered
  <2>1. restores # <<>> /\ Head(restores) # "asked" /\ UNCHANGED <<confirm, closes>>
        /\ draft' = IF Head(restores) = NoBox THEN draft ELSE ShowSelection(draft, Head(restores))
    BY <1>6 DEF RestoreAnswered
  <2>2. Head(restores) \in Boxes \cup {NoBox, "asked"}
    BY <2>1 DEF SelectorInv, SelectorTyped
  <2>3. Redrawn(draft')
    BY <2>1, <2>2 DEF Redrawn
  <2> QED BY <1>2, <2>1, <2>3
<1>7. CASE CancelSelector
  <2>1. /\ \A i \in 1 .. Len(closes) : closes[i] # "cancel"
        /\ draft' = draft /\ closes' = Append(closes, "cancel") /\ UNCHANGED confirm
    BY <1>7 DEF CancelSelector, Touches
  <2>2. /\ Len(closes') = Len(closes) + 1 /\ closes'[Len(closes) + 1] = "cancel"
        /\ \A i \in 1 .. Len(closes) : closes'[i] = closes[i]
    BY <1>0, <2>1
  <2>3. \A i \in 1 .. Len(closes') : i \in 1 .. Len(closes) \/ i = Len(closes) + 1
    BY <1>0, <2>2
  <2>4. \A i \in 1 .. Len(closes') : closes'[i] = "confirm" => confirm' = "closing"
    BY <1>0, <2>1, <2>2, <2>3
  <2>5. \A i, j \in 1 .. Len(closes') : closes'[i] = closes'[j] => i = j
    BY <1>0, <2>1, <2>2, <2>3
  <2> QED BY <1>0, <2>1, <2>4, <2>5 DEF SavedOnce
<1>8. CASE ConfirmSelection
  <2>1. ~draft.saving /\ draft' = SaveBegun(draft) /\ UNCHANGED closes
    BY <1>8 DEF ConfirmSelection, Touches, SaveBegun
  <2>2. draft'.saving = TRUE
    BY <1>0, <2>1, SaveKeeps
  <2>3. \A i \in 1 .. Len(closes) : closes[i] # "confirm"
    BY <1>0, <2>1
  <2> QED BY <1>0, <2>1, <2>2, <2>3 DEF SavedOnce
<1>9. CASE Scaled
  <2>1. confirm = "scaling" /\ UNCHANGED <<closes, draft>> /\ confirm' \in {"idle", "storing"}
    BY <1>9 DEF Scaled
  <2> QED BY <1>0, <2>1 DEF SavedOnce
<1>10. ASSUME NEW ok \in BOOLEAN, Stored(ok) PROVE SavedOnce'
  <2>1. confirm = "storing"
    BY <1>10 DEF Stored
  <2>2. \A i \in 1 .. Len(closes) : closes[i] # "confirm"
    BY <1>0, <2>1
  <2>3. CASE ok
    <3>1. confirm' = "closing" /\ closes' = Append(closes, "confirm") /\ UNCHANGED draft
      BY <1>10, <2>3 DEF Stored
    <3>2. /\ Len(closes') = Len(closes) + 1 /\ closes'[Len(closes) + 1] = "confirm"
          /\ \A i \in 1 .. Len(closes) : closes'[i] = closes[i]
      BY <1>0, <3>1
    <3>3. \A i \in 1 .. Len(closes') : i \in 1 .. Len(closes) \/ i = Len(closes) + 1
      BY <1>0, <3>2
    <3>4. \A i, j \in 1 .. Len(closes') : closes'[i] = closes'[j] => i = j
      BY <1>0, <2>2, <3>2, <3>3
    <3> QED BY <1>0, <2>1, <3>1, <3>4 DEF SavedOnce
  <2>4. CASE ~ok
    <3>1. confirm' = "idle" /\ UNCHANGED closes
      BY <1>10, <2>4 DEF Stored
    <3> QED BY <1>0, <2>2, <3>1 DEF SavedOnce
  <2> QED BY <2>3, <2>4
<1>11. CASE CloseEnds
  <2>1. closes # <<>> /\ closes' = Tail(closes)
    BY <1>11 DEF CloseEnds, CloseAnswered
  <2>2. /\ Len(closes') = Len(closes) - 1 /\ Head(closes) = closes[1] /\ 1 \in 1 .. Len(closes)
        /\ \A i \in 1 .. Len(closes') : closes'[i] = closes[i + 1] /\ i + 1 \in 2 .. Len(closes)
    BY <1>0, <2>1
  <2>3. \A i, j \in 1 .. Len(closes') : closes'[i] = closes'[j] => i = j
    <3> SUFFICES ASSUME NEW i \in 1 .. Len(closes'), NEW j \in 1 .. Len(closes'), closes'[i] = closes'[j] PROVE i = j
      OBVIOUS
    <3>1. i + 1 \in 1 .. Len(closes) /\ j + 1 \in 1 .. Len(closes) /\ closes[i + 1] = closes[j + 1]
      BY <1>0, <2>2
    <3>2. i + 1 = j + 1
      BY <1>0, <3>1
    <3> QED BY <3>2
  <2>4. \A i \in 2 .. Len(closes) : closes[i] # closes[1]
    BY <1>0, <2>2
  <2>5. CASE Head(closes) = "confirm"
    <3>1. confirm' = "idle"
      BY <1>11, <2>5 DEF CloseEnds, CloseAnswered
    <3>2. \A i \in 1 .. Len(closes') : closes'[i] # "confirm"
      BY <2>2, <2>4, <2>5
    <3> QED BY <2>3, <3>1, <3>2 DEF SavedOnce
  <2>6. CASE Head(closes) # "confirm"
    <3>1. confirm' = confirm /\ draft' = Cleared(draft)
      BY <1>11, <2>6 DEF CloseEnds, CloseAnswered
    <3>2. draft'.saving = draft.saving
      BY <1>0, <3>1, DraftKeeps
    <3>3. \A i \in 1 .. Len(closes') : closes'[i] = "confirm" => confirm = "closing"
      BY <1>0, <2>2
    <3> QED BY <1>0, <2>3, <3>1, <3>2, <3>3 DEF SavedOnce
  <2> QED BY <2>5, <2>6
<1> QED BY <1>3, <1>4, <1>5, <1>6, <1>7, <1>8, <1>9, <1>10, <1>11
        DEF SelectorNext, Preload, RestoreSelection, Buttons, ConfirmGoesOn

\* What waits to ask, asks once; the window is opened only when nothing waits.
LEMMA AskedTwiceKept == ASSUME SelectorInv, AskedTwice, [SelectorNext]_selectorPart PROVE AskedTwice'
<1> DEFINE Asks(p, s, r) == One(r) + One(s \in {"loading", "listening"}) + One(p = "opening")
<1>0. Len(restores) \in Nat /\ restores \in Seq(Boxes \cup {NoBox, "asked"}) /\ Len(restores) + Asks(panel, pageStage, reopened) <= 2
  BY LenProperties DEF SelectorInv, SelectorTyped, AskedTwice, Asking
<1>1. ASSUME Len(restores') + Asks(panel', pageStage', reopened') <= 2 PROVE AskedTwice'
  BY <1>1 DEF AskedTwice, Asking
<1>2. ASSUME NEW p, NEW s, NEW r PROVE Asks(p, s, r) \in 0 .. 3
  BY DEF One
<1>3. ASSUME UNCHANGED <<pageStage, reopened, restores>>, panel' \in {panel, "hidden", "shown"} PROVE AskedTwice'
  BY <1>0, <1>1, <1>3 DEF One
<1>4. CASE OpenBegins
  <2>1. /\ restores = <<>> /\ ~reopened /\ panel' = "opening" /\ UNCHANGED <<restores, reopened>>
    BY <1>4 DEF OpenBegins, InFlight
  <2>2. Len(restores') = 0
    BY <2>1
  <2> QED BY <1>1, <2>1, <2>2 DEF One
<1>5. ASSUME NEW taken \in BOOLEAN, OpenEnds(taken) PROVE AskedTwice'
  <2>1. panel = "opening" /\ panel' = "shown" /\ UNCHANGED <<pageStage, restores>>
    BY <1>5 DEF OpenEnds
  <2> QED BY <1>0, <1>1, <2>1 DEF One
<1>6. CASE StoredElsewhere \/ RedrawArea \/ Drawing \/ Keyboard \/ ConfirmGoesOn \/ UNCHANGED selectorPart
  <2>1. UNCHANGED <<panel, pageStage, reopened, restores>>
    BY <1>6, UserRedraws DEF StoredElsewhere, ConfirmGoesOn, Scaled, Stored, selectorPart
  <2> QED BY <1>3, <2>1
<1>7. CASE CancelSelector \/ ConfirmSelection
  <2>1. UNCHANGED <<panel, pageStage, reopened, restores>>
    BY <1>7 DEF CancelSelector, ConfirmSelection, Touches
  <2> QED BY <1>3, <2>1
<1>8. CASE CloseEnds
  <2>1. UNCHANGED <<pageStage, reopened, restores>> /\ panel' \in {panel, "hidden"}
    BY <1>8 DEF CloseEnds, CloseAnswered
  <2> QED BY <1>3, <2>1
<1>9. CASE Listens
  <2>1. pageStage = "loading" /\ pageStage' = "listening" /\ UNCHANGED <<panel, reopened, restores>>
    BY <1>9 DEF Listens
  <2> QED BY <1>0, <1>1, <2>1 DEF One
<1>10. CASE Loads
  <2>1. pageStage = "listening" /\ pageStage' = "ready" /\ restores' = Append(restores, "asked") /\ UNCHANGED <<panel, reopened>>
    BY <1>10 DEF Loads
  <2>2. Len(restores') = Len(restores) + 1
    BY <1>0, <2>1
  <2> QED BY <1>0, <1>1, <2>1, <2>2 DEF One
<1>11. CASE Reopened
  <2>1. reopened = TRUE \/ reopened
    BY <1>11 DEF Reopened
  <2>2. reopened' = FALSE /\ restores' = Append(restores, "asked") /\ UNCHANGED <<panel, pageStage>>
    BY <1>11 DEF Reopened
  <2>3. Len(restores') = Len(restores) + 1
    BY <1>0, <2>2
  <2> QED BY <1>0, <1>1, <2>1, <2>2, <2>3 DEF One
<1>12. CASE RestoreSelection
  <2>1. restores # <<>> /\ restores' \in {<<stored>> \o Tail(restores), Tail(restores)}
        /\ UNCHANGED <<panel, pageStage, reopened>>
    BY <1>12 DEF RestoreSelection, RestoreReads, RestoreAnswered
  <2>2. Tail(restores) \in Seq(Boxes \cup {NoBox, "asked"}) /\ Len(Tail(restores)) = Len(restores) - 1
    BY <1>0, <2>1
  <2>3. stored \in Boxes \cup {NoBox, "asked"}
    BY DEF SelectorInv, SelectorTyped
  <2>4. <<stored>> \in Seq(Boxes \cup {NoBox, "asked"}) /\ Len(<<stored>>) = 1
    BY <2>3
  <2>5. Len(<<stored>> \o Tail(restores)) = Len(restores)
    BY <1>0, <2>2, <2>4, ConcatProperties
  <2>6. Len(restores') \in Nat /\ Len(restores') <= Len(restores)
    BY <1>0, <2>1, <2>2, <2>5
  <2>7. Asks(panel', pageStage', reopened') = Asks(panel, pageStage, reopened)
    BY <2>1
  <2> HIDE DEF Asks
  <2> QED BY <1>0, <1>1, <1>2, <2>6, <2>7
<1> QED BY <1>4, <1>5, <1>6, <1>7, <1>8, <1>9, <1>10, <1>11, <1>12 DEF SelectorNext, Opening, Preload, Buttons

LEMMA SelectorBounded == SelectorInv /\ SelectorBounds /\ [SelectorNext]_selectorPart => SelectorBounds'
BY BoxHasAreaKept, SelectorCountsKept, SavedOnceKept, AskedTwiceKept DEF SelectorBounds

LEMMA SelectorValues == SelectorInv /\ SelectorBounds => SelectorTypeOK
<1> SUFFICES ASSUME SelectorInv, SelectorBounds PROVE SelectorTypeOK
  OBVIOUS
<1>1. Len(restores) <= 2
  <2>1. Len(restores) \in Nat /\ Asking \in Nat
    BY LenProperties DEF SelectorInv, SelectorTyped, Asking, One
  <2> QED BY <2>1 DEF SelectorBounds, AskedTwice
<1>2. Len(closes) <= 2
  <2>1. closes \in Seq({"cancel", "confirm"}) /\ Len(closes) \in Nat
    BY LenProperties DEF SelectorInv, SelectorTyped
  <2>2. SUFFICES ASSUME Len(closes) > 2 PROVE FALSE
    BY <2>1
  <2>3. 1 \in 1 .. Len(closes) /\ 2 \in 1 .. Len(closes) /\ 3 \in 1 .. Len(closes)
    BY <2>1, <2>2
  <2>4. closes[1] \in {"cancel", "confirm"} /\ closes[2] \in {"cancel", "confirm"} /\ closes[3] \in {"cancel", "confirm"}
    BY <2>1, <2>3
  <2>5. closes[1] # closes[2] /\ closes[1] # closes[3] /\ closes[2] # closes[3]
    BY <2>3 DEF SelectorBounds, SavedOnce
  <2> QED BY <2>4, <2>5
<1>3. draft.region \in Boxes \cup {NoBox}
  BY DEF SelectorInv, SelectorTyped, Drafts
<1> QED BY <1>1, <1>2, <1>3
        DEF SelectorInv, SelectorTyped, SelectorBounds, SelectorCounts, BoxHasArea, SelectorTypeOK

-----------------------------------------------------------------------------
(* The health of the translations                                          *)

ReceiptSet == [id : Nat, input : Inputs, capped : BOOLEAN]
HeldSet == [id : Nat, input : Inputs, capped : BOOLEAN, of : Nat, reported : BOOLEAN]
StrongSet == [input : Inputs, old : BOOLEAN]

\* What falls out of the receipts lies behind the last Kept answers.
Numbered == Len(receipts) <= Kept /\ \A i \in 1 .. Len(receipts) : receipts[i].id <= answers - (Len(receipts) - i)

\* One rejection at most is on record, of this engine and of this minute unless it is old.
Counting ==
  /\ strong \in Seq(StrongSet) /\ Len(strong) <= 1 /\ rejected \in SUBSET Inputs /\ IsFiniteSet(rejected)
  /\ \A i \in 1 .. Len(strong) : ~strong[i].old => strong[i].input \in rejected

\* A receipt that the shell holds is of one answer that was given.
Holding ==
  /\ held \in SUBSET HeldSet
  /\ \A h \in held : h.id <= answers /\ h.of <= engineNo
  /\ \A g, h \in held : g.id = h.id => g = h

HealthTyped == engineNo \in Nat /\ answers \in Nat /\ receipts \in Seq(ReceiptSet)
HealthInv == HealthTyped /\ Numbered /\ Counting /\ Holding /\ CpuForcedOnEvidence /\ RejectionHeard

LEMMA KeptIs == Kept \in Nat /\ Kept >= 1
BY HealthAssumption

LEMMA HealthBegins == HealthInit => HealthInv
<1> SUFFICES ASSUME HealthInit PROVE HealthInv
  OBVIOUS
<1>1. HealthTyped /\ Numbered /\ Counting
  BY KeptIs, FS_EmptySet DEF HealthInit, HealthTyped, Numbered, Counting
<1>2. Holding /\ CpuForcedOnEvidence /\ RejectionHeard
  BY DEF HealthInit, Holding, CpuForcedOnEvidence, RejectionHeard
<1> QED BY <1>1, <1>2 DEF HealthInv

LEMMA HeldTyped ==
  ASSUME NEW h \in HeldSet PROVE h.id \in Nat /\ h.input \in Inputs /\ h.of \in Nat
BY DEF HeldSet

LEMMA LastIs ==
  ASSUME NEW S, NEW s \in Seq(S), NEW n \in Nat, n >= 1
  PROVE  /\ Last(s, n) \in Seq(S) /\ Len(Last(s, n)) = (IF Len(s) > n THEN n ELSE Len(s))
         /\ \A i \in 1 .. Len(Last(s, n)) : Last(s, n)[i] = s[i + (Len(s) - Len(Last(s, n)))]
<1> DEFINE m == IF Len(s) > n THEN Len(s) - n + 1 ELSE 1
<1>1. Len(s) \in Nat /\ m \in Int /\ m >= 1 /\ \A i \in 1 .. Len(s) : s[i] \in S
  BY LenProperties, ElementOfSeq
<1>2. \A i \in m .. Len(s) : s[i] \in S
  BY <1>1
<1>3. Len(s) - m + 1 = (IF Len(s) > n THEN n ELSE Len(s)) /\ (m > Len(s) => Len(s) - m + 1 = 0)
  BY <1>1
<1>4. Last(s, n) = SubSeq(s, m, Len(s))
  BY DEF Last
<1> HIDE DEF m
<1>5. /\ SubSeq(s, m, Len(s)) \in Seq(S)
      /\ Len(SubSeq(s, m, Len(s))) = (IF m <= Len(s) THEN Len(s) - m + 1 ELSE 0)
      /\ \A i \in 1 .. Len(s) - m + 1 : SubSeq(s, m, Len(s))[i] = s[m + i - 1]
  BY <1>1, <1>2, SubSeqProperties
<1>6. Len(Last(s, n)) = (IF Len(s) > n THEN n ELSE Len(s)) /\ Len(Last(s, n)) = Len(s) - m + 1
  BY <1>1, <1>4, <1>5, <1>3
<1>7. ASSUME NEW i \in 1 .. Len(Last(s, n)) PROVE Last(s, n)[i] = s[i + (Len(s) - Len(Last(s, n)))]
  <2>1. ASSUME NEW a \in Nat, NEW f, f = a - m + 1, i \in 1 .. f PROVE i \in 1 .. a - m + 1 /\ m + i - 1 = i + (a - f)
    BY <1>1, <2>1
  <2>2. i \in 1 .. Len(s) - m + 1 /\ m + i - 1 = i + (Len(s) - Len(Last(s, n)))
    BY <1>1, <1>6, <2>1
  <2> QED BY <1>4, <1>5, <2>2
<1> QED BY <1>4, <1>5, <1>6, <1>7

\* The entry that a retained record has is the one it had, and not old.
LEMMA FreshIs ==
  ASSUME NEW s \in Seq(StrongSet), Len(s) <= 1
  PROVE  /\ Fresh(s) \in Seq(StrongSet) /\ Len(Fresh(s)) <= 1
         /\ \A i \in 1 .. Len(Fresh(s)) : Fresh(s) = s /\ ~s[i].old
<1> DEFINE old == {i \in DOMAIN s : s[i].old}
           n == Cardinality(old)
<1>1. Len(s) \in Nat /\ DOMAIN s = 1 .. Len(s) /\ \A i \in 1 .. Len(s) : s[i] \in StrongSet
  BY LenProperties, ElementOfSeq
<1>2. old \in {{}, {1}} /\ (old = {1} <=> Len(s) = 1 /\ s[1].old)
  BY <1>1
<1>3. Fresh(s) = SubSeq(s, n + 1, Len(s))
  BY DEF Fresh
<1> HIDE DEF old
<1>4. n \in Nat /\ (old = {} => n = 0) /\ (old = {1} => n = 1)
  <2>1. Cardinality({}) = 0 /\ Cardinality({1}) = 1
    BY FS_EmptySet, FS_Singleton
  <2>2. CASE old = {}
    BY <2>1, <2>2
  <2>3. CASE old = {1}
    BY <2>1, <2>3
  <2> QED BY <1>2, <2>2, <2>3
<1> HIDE DEF n
<1>5. \A i \in n + 1 .. Len(s) : s[i] \in StrongSet
  BY <1>1, <1>4
<1>6. /\ Fresh(s) \in Seq(StrongSet) /\ Len(Fresh(s)) = (IF n + 1 <= Len(s) THEN Len(s) - n ELSE 0)
      /\ \A i \in 1 .. Len(s) - n : Fresh(s)[i] = s[n + i]
  <2>1. n + 1 \in Int /\ Len(s) \in Int /\ Len(s) - (n + 1) + 1 = Len(s) - n
    BY <1>1, <1>4
  <2>2. /\ SubSeq(s, n + 1, Len(s)) \in Seq(StrongSet)
        /\ Len(SubSeq(s, n + 1, Len(s))) = (IF n + 1 <= Len(s) THEN Len(s) - (n + 1) + 1 ELSE 0)
        /\ \A i \in 1 .. Len(s) - (n + 1) + 1 : SubSeq(s, n + 1, Len(s))[i] = s[n + 1 + i - 1]
    BY <1>5, <2>1, SubSeqProperties
  <2>3. \A i \in 1 .. Len(s) - n : n + 1 + i - 1 = n + i
    BY <1>1, <1>4
  <2> QED BY <1>3, <2>1, <2>2, <2>3
<1>7. Len(Fresh(s)) <= 1 /\ \A i \in 1 .. Len(Fresh(s)) : n = 0 /\ Len(s) = 1 /\ i = 1
  <2> DEFINE a == Len(s)
             f == Len(Fresh(s))
  <2>1. a \in Nat /\ n \in Nat
    BY ONLY <1>1, <1>4
  <2>2. f = (IF n + 1 <= a THEN a - n ELSE 0)
    BY ONLY <1>6, Zenon
  <2>3. a <= 1
    OBVIOUS
  <2>4. f <= 1 /\ \A i \in 1 .. f : n = 0 /\ a = 1 /\ i = 1
    <3> HIDE DEF a, f, n
    <3> QED BY ONLY <2>1, <2>2, <2>3
  <2> QED BY ONLY <2>4
<1>8. ASSUME NEW i \in 1 .. Len(Fresh(s)) PROVE Fresh(s) = s /\ ~s[i].old
  <2>1. n = 0 /\ Len(s) = 1 /\ i = 1
    BY <1>7
  <2>2. ~s[1].old
    BY <1>2, <1>4, <2>1
  <2>3. Len(Fresh(s)) = Len(s) /\ \A j \in 1 .. Len(s) : Fresh(s)[j] = s[j]
    BY <1>6, <2>1
  <2> QED BY <1>6, <2>1, <2>2, <2>3, SeqEqual
<1> QED BY <1>6, <1>8, <1>7

\* A stopped engine leaves nothing to report, and the next has answered nothing.
LEMMA StopsKeep ==
  ASSUME HealthInv, NEW next, Stop(next), engineNo' \in Nat, UNCHANGED <<cpuLocked, answers, held, evidence>>,
         engineNo' > engineNo \/ (engineNo' = engineNo /\ next = "off")
  PROVE  HealthInv'
<1>1. engine' = next /\ receipts' = <<>> /\ strong' = <<>> /\ rejected' = {}
  BY DEF Stop
<1>2. HealthTyped' /\ Numbered' /\ Counting'
  BY <1>1, KeptIs, FS_EmptySet DEF HealthInv, HealthTyped, Numbered, Counting
<1>3. engineNo \in Nat /\ held \in SUBSET HeldSet
  BY DEF HealthInv, HealthTyped, Holding
<1>4. ASSUME NEW h \in held PROVE h.of <= engineNo' /\ (h.of = engineNo' => next = "off")
  <2>1. h.of \in Nat /\ h.of <= engineNo
    BY <1>3, HeldTyped DEF HealthInv, Holding
  <2> QED BY <1>3, <2>1
<1>5. Holding'
  BY <1>4 DEF HealthInv, Holding
<1>6. CpuForcedOnEvidence' /\ RejectionHeard'
  BY <1>1, <1>4 DEF HealthInv, CpuForcedOnEvidence, RejectionHeard
<1> QED BY <1>2, <1>5, <1>6 DEF HealthInv

LEMMA ReadyStep == ASSUME HealthInv, Ready PROVE HealthInv'
<1>1. PICK next : Starts(next)
  BY DEF Ready
<1>2. engineNo \in Nat
  BY DEF HealthInv, HealthTyped
<1>3. Stop(next) /\ engineNo' \in Nat /\ engineNo' > engineNo
  BY <1>1, <1>2 DEF Starts
<1> QED BY <1>3, StopsKeep DEF Ready

LEMMA UnhealthyStep == ASSUME HealthInv, CompleteUnhealthy PROVE HealthInv'
<1>1. engineNo \in Nat
  BY DEF HealthInv, HealthTyped
<1> QED BY <1>1, StopsKeep DEF CompleteUnhealthy

LEMMA CompleteStep ==
  ASSUME HealthInv, NEW input \in Inputs, NEW capped \in BOOLEAN, Complete(input, capped) PROVE HealthInv'
<1> DEFINE r == [id |-> answers + 1, input |-> input, capped |-> capped]
           given == [id |-> r.id, input |-> input, capped |-> capped, of |-> engineNo, reported |-> FALSE]
           t == Append(receipts, r)
           n == Len(receipts)
           k == Len(receipts')
<1>1. /\ answers' = answers + 1 /\ receipts' = Last(t, Kept) /\ held' = held \cup {given}
      /\ UNCHANGED <<engine, engineNo, cpuLocked, strong, rejected, evidence>>
  BY DEF Complete, Record
<1>2. engineNo \in Nat /\ answers \in Nat /\ receipts \in Seq(ReceiptSet) /\ n \in Nat /\ n <= Kept
  BY LenProperties DEF HealthInv, HealthTyped, Numbered
<1>3. r \in ReceiptSet /\ r.id = answers + 1 /\ given \in HeldSet /\ given.id = answers + 1 /\ given.of = engineNo
  BY <1>2 DEF ReceiptSet, HeldSet
<1> HIDE DEF r, given, n
<1>4. t \in Seq(ReceiptSet) /\ Len(t) = n + 1 /\ (\A i \in 1 .. n : t[i] = receipts[i]) /\ t[n + 1] = r
  BY <1>2, <1>3, AppendProperties DEF n
<1> HIDE DEF t
<1>5. receipts' \in Seq(ReceiptSet) /\ k = (IF n + 1 > Kept THEN Kept ELSE n + 1)
      /\ \A i \in 1 .. k : receipts'[i] = t[i + (n + 1 - k)]
  <2> DEFINE kept == Last(t, Kept)
  <2>1. /\ kept \in Seq(ReceiptSet) /\ Len(kept) = (IF Len(t) > Kept THEN Kept ELSE Len(t))
        /\ \A i \in 1 .. Len(kept) : kept[i] = t[i + (Len(t) - Len(kept))]
    BY <1>4, KeptIs, LastIs
  <2>2. receipts' = kept
    BY <1>1
  <2> HIDE DEF kept
  <2>3. k = Len(kept) /\ Len(t) = n + 1 /\ k \in Nat
    BY <1>4, <2>1, <2>2, LenProperties
  <2> HIDE DEF k
  <2>4. k = (IF n + 1 > Kept THEN Kept ELSE n + 1)
    BY <2>1, <2>3
  <2>5. ASSUME NEW i \in 1 .. k PROVE kept[i] = t[i + (n + 1 - k)]
    <3>1. i \in 1 .. Len(kept) /\ kept[i] = t[i + (Len(t) - Len(kept))]
      BY <2>1, <2>3
    <3>2. i + (Len(t) - Len(kept)) = i + (n + 1 - k)
      BY <1>2, <2>3
    <3> QED BY <3>1, <3>2
  <2> QED BY <2>1, <2>2, <2>4, <2>5
<1>6. k \in Nat /\ k >= 1 /\ k <= Kept /\ k <= n + 1 /\ k >= n
  BY <1>2, <1>5, KeptIs
<1>7. receipts'[k] = r
  <2>1. k \in 1 .. k /\ k + (n + 1 - k) = n + 1
    BY <1>2, <1>6
  <2> QED BY <1>4, <1>5, <2>1
<1>8. ASSUME NEW i \in 1 .. k, i # k PROVE i + (n + 1 - k) \in 1 .. n /\ receipts'[i] = receipts[i + (n + 1 - k)]
  <2>1. i + (n + 1 - k) \in 1 .. n
    BY <1>2, <1>6, <1>8
  <2> QED BY <1>4, <1>5, <2>1
<1>9. ASSUME NEW i \in 1 .. n PROVE receipts[i].id \in Nat /\ receipts[i].id <= answers - (n - i)
  <2>1. receipts[i] \in ReceiptSet
    BY <1>2, ElementOfSeq DEF n
  <2> QED BY <2>1 DEF HealthInv, Numbered, ReceiptSet, n
<1> HIDE DEF k
<1>10. ASSUME NEW i \in 1 .. k PROVE receipts'[i].id <= answers' - (k - i)
  <2>1. CASE i = k
    BY <1>1, <1>2, <1>3, <1>6, <1>7, <2>1
  <2>2. CASE i # k
    <3> DEFINE j == i + (n + 1 - k)
    <3>1. j \in 1 .. n /\ receipts'[i] = receipts[j]
      BY <1>8, <2>2
    <3>2. receipts[j].id \in Nat /\ receipts[j].id <= answers - (n - j)
      BY <1>9, <3>1
    <3>3. answers - (n - j) = answers' - (k - i)
      BY <1>1, <1>2, <1>6
    <3> QED BY <3>1, <3>2, <3>3
  <2> QED BY <2>1, <2>2
<1>11. Numbered' /\ HealthTyped'
  BY <1>1, <1>2, <1>5, <1>6, <1>10 DEF HealthTyped, Numbered, k
<1>12. Counting' /\ CpuForcedOnEvidence'
  BY <1>1 DEF HealthInv, Counting, CpuForcedOnEvidence
<1>13. ASSUME NEW h \in held PROVE h.id \in Nat /\ h.id <= answers /\ h.of \in Nat /\ h.of <= engineNo
  BY HeldTyped DEF HealthInv, Holding
<1>14. Holding'
  <2>1. held' \in SUBSET HeldSet
    BY <1>1, <1>3 DEF HealthInv, Holding
  <2>2. ASSUME NEW h \in held' PROVE h.id <= answers' /\ h.of <= engineNo'
    <3>1. CASE h = given
      BY <1>1, <1>2, <1>3, <3>1
    <3>2. CASE h \in held
      BY <1>1, <1>2, <1>13, <3>2
    <3> QED BY <1>1, <3>1, <3>2
  <2>3. ASSUME NEW g \in held', NEW h \in held', g.id = h.id PROVE g = h
    <3>1. CASE g \in held /\ h \in held
      BY <2>3, <3>1 DEF HealthInv, Holding
    <3>2. CASE g = given /\ h = given
      BY <3>2
    <3>3. CASE g = given /\ h \in held
      BY <1>2, <1>3, <1>13, <2>3, <3>3
    <3>4. CASE g \in held /\ h = given
      BY <1>2, <1>3, <1>13, <2>3, <3>4
    <3> QED BY <1>1, <3>1, <3>2, <3>3, <3>4
  <2> QED BY <2>1, <2>2, <2>3 DEF Holding
<1>15. RejectionHeard'
  <2> SUFFICES ASSUME NEW h \in held', h.of = engineNo', engine' # "off", ~h.reported, h.id > answers' - Kept
               PROVE  \E i \in 1 .. k : receipts'[i].id = h.id
    BY <1>5, LenProperties DEF RejectionHeard, k
  <2>1. CASE h = given
    BY <1>3, <1>6, <1>7, <2>1
  <2>2. CASE h \in held
    <3>1. h.id > answers - Kept
      BY <1>1, <1>2, <1>13, <2>2, KeptIs
    <3>2. PICK j \in DOMAIN receipts : receipts[j].id = h.id
      BY <1>1, <2>2, <3>1 DEF HealthInv, RejectionHeard
    <3>3. j \in 1 .. n /\ h.id <= answers - (n - j)
      BY <1>2, <1>9, <3>2, LenProperties DEF n
    <3>4. j - (n + 1 - k) \in 1 .. k /\ j - (n + 1 - k) # k
      <4>1. CASE n + 1 > Kept
        <5>1. h.id \in Nat /\ h.id > answers + 1 - Kept
          BY <1>1, <1>2, <1>13, <2>2, KeptIs
        <5>2. j # 1
          <6>1. n = Kept
            BY <1>2, <4>1, KeptIs
          <6>2. j = 1 => h.id <= answers + 1 - Kept
            BY <1>2, <3>3, <6>1
          <6> QED BY <1>2, <5>1, <6>2, KeptIs
        <5>3. k = n
          <6>1. k = Kept
            BY <1>5, <4>1
          <6> QED BY <1>2, <4>1, <6>1, KeptIs
        <5>4. j - (n + 1 - k) = j - 1
          BY <1>2, <3>3, <5>3
        <5>5. j - 1 \in 1 .. n /\ j - 1 # n
          BY <1>2, <3>3, <5>2
        <5> QED BY <5>3, <5>4, <5>5
      <4>2. CASE ~(n + 1 > Kept)
        <5>1. k = n + 1
          BY <1>5, <4>2
        <5>2. j - (n + 1 - k) = j
          BY <1>2, <3>3, <5>1
        <5>3. j \in 1 .. k /\ j # k
          BY <1>2, <3>3, <5>1
        <5> QED BY <5>2, <5>3
      <4> QED BY <4>1, <4>2
    <3>5. (j - (n + 1 - k)) + (n + 1 - k) = j
      BY <1>2, <1>6, <3>3
    <3>6. receipts'[j - (n + 1 - k)] = receipts[j]
      BY <1>8, <3>4, <3>5
    <3> QED BY <3>2, <3>4, <3>6
  <2> QED BY <1>1, <2>1, <2>2
<1> QED BY <1>11, <1>12, <1>14, <1>15 DEF HealthInv

LEMMA StrongAgesStep == ASSUME HealthInv, NEW n \in 1 .. Len(strong), StrongAges(n) PROVE HealthInv'
<1>1. /\ strong' = [i \in DOMAIN strong |-> [strong[i] EXCEPT !.old = @ \/ i <= n]]
      /\ rejected' = rejected \ {strong[i].input : i \in 1 .. n}
      /\ UNCHANGED <<engine, engineNo, cpuLocked, receipts, answers, held, evidence>>
  BY DEF StrongAges
<1>2. strong \in Seq(StrongSet) /\ Len(strong) <= 1 /\ rejected \in SUBSET Inputs /\ IsFiniteSet(rejected)
  BY DEF HealthInv, Counting
<1>3. Len(strong) = 1 /\ n = 1 /\ DOMAIN strong = {1} /\ strong[1] \in StrongSet
  <2>1. Len(strong) \in Nat /\ DOMAIN strong = 1 .. Len(strong)
    BY <1>2, LenProperties
  <2>2. Len(strong) = 1 /\ n = 1
    BY <1>2, <2>1
  <2> QED BY <1>2, <2>1, <2>2, ElementOfSeq
<1>4. ASSUME NEW s \in StrongSet PROVE [s EXCEPT !.old = TRUE] \in StrongSet /\ [s EXCEPT !.old = TRUE].old
  BY DEF StrongSet
<1>5. strong' \in Seq(StrongSet) /\ Len(strong') = 1 /\ strong'[1].old
  <2> DEFINE e == [strong[1] EXCEPT !.old = TRUE]
  <2>1. ASSUME NEW i \in {1} PROVE [strong[i] EXCEPT !.old = @ \/ i <= n] = [strong[i] EXCEPT !.old = TRUE]
    <3>1. (strong[i].old \/ i <= n) = TRUE
      BY <1>3
    <3> QED BY <3>1
  <2>2. strong' = [i \in {1} |-> [strong[i] EXCEPT !.old = TRUE]]
    BY <1>1, <1>3, <2>1
  <2>3. strong' = [strong EXCEPT ![1] = e]
    BY <1>3, <2>2
  <2>4. e \in StrongSet /\ e.old
    BY <1>3, <1>4
  <2> HIDE DEF e
  <2>5. 1 \in 1 .. Len(strong)
    BY <1>3
  <2>6. /\ [strong EXCEPT ![1] = e] \in Seq(StrongSet) /\ Len([strong EXCEPT ![1] = e]) = Len(strong)
        /\ \A j \in 1 .. Len(strong) : [strong EXCEPT ![1] = e][j] = IF j = 1 THEN e ELSE strong[j]
    BY <1>2, <2>4, <2>5, ExceptSeq
  <2>7. strong' \in Seq(StrongSet) /\ Len(strong') = 1 /\ strong'[1] = e
    BY <1>3, <2>3, <2>5, <2>6
  <2> QED BY <2>4, <2>7
<1>6. rejected' \in SUBSET Inputs /\ IsFiniteSet(rejected')
  BY <1>1, <1>2, FS_Subset
<1>7. Counting'
  BY <1>5, <1>6 DEF Counting
<1> QED BY <1>1, <1>7 DEF HealthInv, HealthTyped, Numbered, Holding, CpuForcedOnEvidence, RejectionHeard

\* A receipt that is taken out leaves the others where their numbers allow.
LEMMA TakenOut ==
  ASSUME HealthTyped, Numbered, NEW i \in DOMAIN receipts, receipts' = Seqs!RemoveAt(receipts, i), answers' = answers
  PROVE  /\ receipts' \in Seq(ReceiptSet) /\ Numbered'
         /\ \A j \in DOMAIN receipts : j # i => \E l \in DOMAIN receipts' : receipts'[l] = receipts[j]
<1> DEFINE n == Len(receipts)
           before == SubSeq(receipts, 1, i - 1)
           after == SubSeq(receipts, i + 1, n)
<1>1. receipts \in Seq(ReceiptSet) /\ n \in Nat /\ i \in 1 .. n /\ answers \in Nat /\ DOMAIN receipts = 1 .. n
  BY LenProperties DEF HealthTyped
<1>2. \A j \in 1 .. n : receipts[j] \in ReceiptSet
  BY <1>1, ElementOfSeq
<1>3. receipts' = before \o after
  BY DEF Seqs!RemoveAt
<1> HIDE DEF n
<1>4. before \in Seq(ReceiptSet) /\ Len(before) = i - 1 /\ \A j \in 1 .. i - 1 : before[j] = receipts[j]
  <2>1. 1 \in Int /\ i - 1 \in Int /\ (\A j \in 1 .. i - 1 : receipts[j] \in ReceiptSet)
    BY <1>1, <1>2
  <2>2. /\ before \in Seq(ReceiptSet) /\ Len(before) = (IF 1 <= i - 1 THEN i - 1 - 1 + 1 ELSE 0)
        /\ \A j \in 1 .. i - 1 - 1 + 1 : before[j] = receipts[1 + j - 1]
    BY <2>1, SubSeqProperties
  <2>3. i - 1 - 1 + 1 = i - 1 /\ (\A j \in 1 .. i - 1 : 1 + j - 1 = j) /\ (~(1 <= i - 1) => i - 1 = 0)
    BY <1>1
  <2> HIDE DEF before
  <2> QED BY <2>2, <2>3
<1>5. after \in Seq(ReceiptSet) /\ Len(after) = n - i /\ \A j \in 1 .. n - i : after[j] = receipts[i + j]
  <2>1. i + 1 \in Int /\ n \in Int /\ (\A j \in i + 1 .. n : receipts[j] \in ReceiptSet)
    BY <1>1, <1>2
  <2>2. /\ after \in Seq(ReceiptSet) /\ Len(after) = (IF i + 1 <= n THEN n - (i + 1) + 1 ELSE 0)
        /\ \A j \in 1 .. n - (i + 1) + 1 : after[j] = receipts[i + 1 + j - 1]
    BY <2>1, SubSeqProperties
  <2>3. n - (i + 1) + 1 = n - i /\ (\A j \in 1 .. n - i : i + 1 + j - 1 = i + j) /\ (~(i + 1 <= n) => n - i = 0)
    BY <1>1
  <2> HIDE DEF after
  <2> QED BY <2>2, <2>3
<1> HIDE DEF before, after
<1>6. /\ receipts' \in Seq(ReceiptSet) /\ Len(receipts') = i - 1 + (n - i)
      /\ \A j \in 1 .. i - 1 + (n - i) : receipts'[j] = IF j <= i - 1 THEN before[j] ELSE after[j - (i - 1)]
  BY <1>3, <1>4, <1>5, ConcatProperties
<1>7. Len(receipts') = n - 1 /\ i - 1 + (n - i) = n - 1
  BY <1>1, <1>6
<1>8. ASSUME NEW j \in 1 .. n - 1
      PROVE  (j < i => receipts'[j] = receipts[j]) /\ (~(j < i) => receipts'[j] = receipts[j + 1])
  <2>1. j \in 1 .. i - 1 + (n - i)
    BY <1>7
  <2>2. CASE j < i
    BY <1>1, <1>4, <1>6, <2>1, <2>2
  <2>3. CASE ~(j < i)
    <3>1. j - (i - 1) \in 1 .. n - i /\ i + (j - (i - 1)) = j + 1 /\ ~(j <= i - 1)
      BY <1>1, <2>3
    <3>2. receipts'[j] = after[j - (i - 1)] /\ after[j - (i - 1)] = receipts[i + (j - (i - 1))]
      BY <1>5, <1>6, <2>1, <3>1
    <3> QED BY <2>3, <3>1, <3>2
  <2> QED BY <2>2, <2>3
<1>9. ASSUME NEW j \in 1 .. n PROVE receipts[j].id \in Nat /\ receipts[j].id <= answers - (n - j)
  BY <1>2 DEF Numbered, ReceiptSet, n
<1>10. ASSUME NEW j \in 1 .. n - 1 PROVE receipts'[j].id <= answers - (n - 1 - j)
  <2>1. CASE j < i
    <3>1. receipts'[j] = receipts[j] /\ j \in 1 .. n
      BY <1>1, <1>8, <2>1
    <3>2. receipts[j].id \in Nat /\ receipts[j].id <= answers - (n - j)
      BY <1>9, <3>1
    <3> QED BY <1>1, <3>1, <3>2
  <2>2. CASE ~(j < i)
    <3>1. receipts'[j] = receipts[j + 1] /\ j + 1 \in 1 .. n
      BY <1>1, <1>8, <2>2
    <3>2. receipts[j + 1].id \in Nat /\ receipts[j + 1].id <= answers - (n - (j + 1))
      BY <1>9, <3>1
    <3> QED BY <1>1, <3>1, <3>2
  <2> QED BY <2>1, <2>2
<1>11. Numbered'
  <2>1. n <= Kept
    BY DEF Numbered, n
  <2> QED BY <1>1, <1>7, <1>10, <2>1, KeptIs DEF Numbered
<1>12. DOMAIN receipts' = 1 .. n - 1
  BY <1>6, <1>7, LenProperties
<1>13. ASSUME NEW j \in 1 .. n, j # i PROVE \E l \in 1 .. n - 1 : receipts'[l] = receipts[j]
  <2>1. CASE j < i
    <3>1. j \in 1 .. n - 1
      BY <1>1, <2>1
    <3> QED BY <1>8, <2>1, <3>1
  <2>2. CASE ~(j < i)
    <3>1. j - 1 \in 1 .. n - 1 /\ ~(j - 1 < i) /\ (j - 1) + 1 = j
      BY <1>1, <1>13, <2>2
    <3> QED BY <1>8, <3>1
  <2> QED BY <2>1, <2>2
<1> QED BY <1>1, <1>6, <1>11, <1>12, <1>13

\* Two inputs are against the engine when a second strong rejection counts.
LEMMA CountedIs ==
  ASSUME Counting, NEW input \in Inputs, NEW isStrong \in BOOLEAN
  PROVE  LET s == Fresh(strong)
             counted == IF isStrong THEN Counted(s, input) ELSE s
             against == IF isStrong THEN rejected \cup {input} ELSE rejected
         IN  /\ counted \in Seq(StrongSet) /\ against \in SUBSET Inputs /\ IsFiniteSet(against)
             /\ \A i \in 1 .. Len(counted) : ~counted[i].old => counted[i].input \in against
             /\ Len(counted) >= 2 => Cardinality(against) \in Nat /\ Cardinality(against) >= 2
<1> DEFINE s == Fresh(strong)
           counted == IF isStrong THEN Counted(s, input) ELSE s
           against == IF isStrong THEN rejected \cup {input} ELSE rejected
           entry == [input |-> input, old |-> FALSE]
<1>1. strong \in Seq(StrongSet) /\ Len(strong) <= 1 /\ rejected \in SUBSET Inputs /\ IsFiniteSet(rejected)
  BY DEF Counting
<1>2. s \in Seq(StrongSet) /\ Len(s) <= 1 /\ \A i \in 1 .. Len(s) : s = strong /\ ~strong[i].old
  BY <1>1, FreshIs
<1> HIDE DEF s
<1>3. Len(s) \in Nat /\ DOMAIN s = 1 .. Len(s)
  BY <1>2, LenProperties
<1>4. ASSUME NEW i \in 1 .. Len(s) PROVE s[i].input \in rejected
  BY <1>2 DEF Counting
<1>5. entry \in StrongSet /\ entry.input = input
  BY DEF StrongSet
<1>6. against \in SUBSET Inputs /\ IsFiniteSet(against) /\ rejected \subseteq against /\ (isStrong => input \in against)
  BY <1>1, FS_AddElement
<1>7. CASE counted = s
  BY <1>2, <1>3, <1>4, <1>6, <1>7 DEF s
<1>8. CASE counted # s
  <2>1. isStrong /\ counted = Append(s, entry) /\ \A i \in 1 .. Len(s) : s[i].input # input
    <3>1. isStrong /\ counted = Counted(s, input)
      BY <1>8
    <3>2. Counted(s, input) = IF \E i \in DOMAIN s : s[i].input = input THEN s ELSE Append(s, entry)
      BY DEF Counted
    <3>3. ~ \E i \in DOMAIN s : s[i].input = input
      BY <1>8, <3>1, <3>2
    <3> HIDE DEF counted, entry
    <3> QED BY <1>3, <3>1, <3>2, <3>3
  <2>2. counted \in Seq(StrongSet) /\ Len(counted) = Len(s) + 1 /\ counted[Len(s) + 1] = entry
        /\ \A i \in 1 .. Len(s) : counted[i] = s[i]
    BY <1>2, <1>5, <2>1, AppendProperties
  <2>3. ASSUME NEW i \in 1 .. Len(counted) PROVE counted[i].input \in against
    <3>1. CASE i = Len(s) + 1
      BY <1>5, <1>6, <2>1, <2>2, <3>1
    <3>2. CASE i # Len(s) + 1
      <4>1. i \in 1 .. Len(s)
        BY <1>3, <2>2, <3>2
      <4> QED BY <1>4, <1>6, <2>2, <4>1
    <3> QED BY <3>1, <3>2
  <2>4. Len(counted) >= 2 => Cardinality(against) \in Nat /\ Cardinality(against) >= 2
    <3> SUFFICES ASSUME Len(counted) >= 2 PROVE Cardinality(against) \in Nat /\ Cardinality(against) >= 2
      OBVIOUS
    <3>1. 1 \in 1 .. Len(s)
      BY <1>3, <2>2
    <3> DEFINE other == s[1].input
    <3>2. other \in against /\ input \in against /\ other # input
      BY <1>4, <1>6, <2>1, <3>1
    <3> HIDE DEF other
    <3>3. IsFiniteSet({other}) /\ Cardinality({other}) = 1
      BY FS_Singleton
    <3>4. Cardinality({other} \cup {input}) = 2
      <4>1. Cardinality({other} \cup {input}) = IF input \in {other} THEN Cardinality({other}) ELSE Cardinality({other}) + 1
        BY <3>3, FS_AddElement
      <4>2. input \notin {other}
        BY <3>2
      <4>3. Cardinality({other} \cup {input}) = Cardinality({other}) + 1
        BY <4>1, <4>2, Zenon
      <4> QED BY ONLY <3>3, <4>3
    <3>5. {other} \cup {input} \in SUBSET against
      BY <3>2
    <3> HIDE DEF against
    <3>6. Cardinality({other} \cup {input}) <= Cardinality(against) /\ Cardinality(against) \in Nat
      BY <1>6, <3>5, FS_Subset, FS_CardinalityType
    <3> QED BY <3>4, <3>6
  <2> QED BY <1>6, <2>2, <2>3, <2>4 DEF s
<1> QED BY <1>7, <1>8

\* A receipt reported, once: nothing else of what is held changes.
LEMMA ReportedIs ==
  ASSUME HealthInv, NEW h \in held, held' = (held \ {h}) \cup {[h EXCEPT !.reported = TRUE]}, engineNo' >= engineNo,
         engineNo' \in Nat, answers' = answers
  PROVE  /\ Holding'
         /\ \A g \in held' : g.id \in Nat /\ g.of \in Nat /\ g.of <= engineNo
         /\ \A g \in held' : ~g.reported => g \in held /\ g.id # h.id
<1> DEFINE noted == [h EXCEPT !.reported = TRUE]
<1>1. held \in SUBSET HeldSet /\ engineNo \in Nat /\ (\A g, f \in held : g.id = f.id => g = f)
      /\ \A g \in held : g.id <= answers /\ g.of <= engineNo
  BY DEF HealthInv, Holding, HealthTyped
<1>2. noted \in HeldSet /\ noted.id = h.id /\ noted.of = h.of /\ noted.reported
  BY <1>1 DEF HeldSet
<1>3. held' = (held \ {h}) \cup {noted}
  OBVIOUS
<1> HIDE DEF noted
<1>4. ASSUME NEW g \in held'
      PROVE  /\ g \in HeldSet /\ g.id <= answers /\ g.of <= engineNo
             /\ ~g.reported => g \in held /\ g.id # h.id
  <2>1. CASE g = noted
    BY <1>1, <1>2, <2>1
  <2>2. CASE g \in held /\ g # h
    <3>1. g.id # h.id
      BY <1>1, <2>2
    <3> QED BY <1>1, <2>2, <3>1
  <2> QED BY <1>3, <2>1, <2>2
<1>5. ASSUME NEW g \in held', NEW f \in held', g.id = f.id PROVE g = f
  <2>1. CASE g = noted /\ f # noted
    BY <1>1, <1>2, <1>3, <1>5, <2>1
  <2>2. CASE f = noted /\ g # noted
    BY <1>1, <1>2, <1>3, <1>5, <2>2
  <2>3. CASE f # noted /\ g # noted
    BY <1>1, <1>3, <1>5, <2>3
  <2> QED BY <2>1, <2>2, <2>3
<1>6. ASSUME NEW g \in held' PROVE g.id \in Nat /\ g.of \in Nat /\ g.of <= engineNo /\ g.of <= engineNo'
  <2>1. g.id \in Nat /\ g.of \in Nat /\ g.of <= engineNo
    BY <1>4, HeldTyped
  <2> QED BY <1>1, <2>1
<1>7. Holding'
  BY <1>4, <1>5, <1>6 DEF Holding
<1> QED BY <1>4, <1>6, <1>7

LEMMA ReportStep ==
  ASSUME HealthInv, NEW h \in held, NEW reason \in {"strong", "too_long", "weak"}, Report(h, reason)
  PROVE  HealthInv'
<1> DEFINE isStrong == reason = "strong" \/ (reason = "too_long" /\ h.capped)
           counted == IF isStrong THEN Counted(Fresh(strong), h.input) ELSE Fresh(strong)
           against == IF isStrong THEN rejected \cup {h.input} ELSE rejected
<1>1. HealthTyped /\ Numbered /\ Counting /\ Holding /\ CpuForcedOnEvidence /\ RejectionHeard
  BY DEF HealthInv
<1>2. held' = (held \ {h}) \cup {[h EXCEPT !.reported = TRUE]} /\ answers' = answers
  BY DEF Report
<1>3. \/ UNCHANGED <<engine, engineNo, cpuLocked, receipts, strong, rejected, evidence>>
         /\ ~ \E i \in DOMAIN receipts : receipts[i].id = h.id
      \/ /\ Len(counted) < 2 /\ strong' = counted /\ rejected' = against
         /\ \E i \in DOMAIN receipts : receipts[i].id = h.id /\ receipts' = Seqs!RemoveAt(receipts, i)
         /\ UNCHANGED <<engine, engineNo, cpuLocked, evidence>>
      \/ ForceCpu(~(Len(counted) >= 2), against)
  <2>1. CASE \E i \in DOMAIN receipts : receipts[i].id = h.id
    <3>1. Heard(h, reason)
      BY <2>1 DEF Report
    <3>2. isStrong \in BOOLEAN /\ h.input \in Inputs
      BY <1>1, HeldTyped DEF Holding, HeldSet
    <3>3. counted \in Seq(StrongSet)
      BY <1>1, <3>2, CountedIs
    <3>4. Len(counted) \in Nat
      BY <3>3, LenProperties
    <3>5. \/ /\ ~(Len(counted) >= 2) /\ strong' = counted /\ rejected' = against
             /\ \E i \in DOMAIN receipts : receipts[i].id = h.id /\ receipts' = Seqs!RemoveAt(receipts, i)
             /\ UNCHANGED <<engine, engineNo, cpuLocked, evidence>>
          \/ ForceCpu(~(Len(counted) >= 2), against)
      BY <3>1 DEF Heard
    <3> HIDE DEF counted, against
    <3> QED BY <3>4, <3>5
  <2>2. CASE ~ \E i \in DOMAIN receipts : receipts[i].id = h.id
    BY <2>2 DEF Report
  <2> QED BY <2>1, <2>2
<1>4. engineNo \in Nat /\ h.input \in Inputs /\ isStrong \in BOOLEAN
  BY <1>1, HeldTyped DEF HealthTyped, Holding, HeldSet
<1>5. /\ counted \in Seq(StrongSet) /\ against \in SUBSET Inputs /\ IsFiniteSet(against)
      /\ \A i \in 1 .. Len(counted) : ~counted[i].old => counted[i].input \in against
      /\ Len(counted) >= 2 => Cardinality(against) \in Nat /\ Cardinality(against) >= 2
  BY <1>1, <1>4, CountedIs
<1> HIDE DEF isStrong, counted, against
<1>6. CASE UNCHANGED <<engine, engineNo, cpuLocked, receipts, strong, rejected, evidence>>
  <2>1. /\ Holding' /\ \A g \in held' : ~g.reported => g \in held /\ g.id # h.id
    BY <1>2, <1>4, <1>6, ReportedIs
  <2>2. HealthTyped' /\ Numbered' /\ Counting' /\ CpuForcedOnEvidence'
    BY <1>1, <1>2, <1>6 DEF HealthTyped, Numbered, Counting, CpuForcedOnEvidence
  <2>3. RejectionHeard'
    BY <1>1, <1>2, <1>6, <2>1 DEF RejectionHeard
  <2> QED BY <2>1, <2>2, <2>3 DEF HealthInv
<1>7. CASE /\ Len(counted) < 2 /\ strong' = counted /\ rejected' = against
           /\ \E i \in DOMAIN receipts : receipts[i].id = h.id /\ receipts' = Seqs!RemoveAt(receipts, i)
           /\ UNCHANGED <<engine, engineNo, cpuLocked, evidence>>
  <2>1. PICK i \in DOMAIN receipts : receipts[i].id = h.id /\ receipts' = Seqs!RemoveAt(receipts, i)
    BY <1>7
  <2>2. /\ receipts' \in Seq(ReceiptSet) /\ Numbered'
        /\ \A j \in DOMAIN receipts : j # i => \E l \in DOMAIN receipts' : receipts'[l] = receipts[j]
    BY <1>1, <1>2, <2>1, TakenOut
  <2>3. Holding' /\ \A g \in held' : ~g.reported => g \in held /\ g.id # h.id
    BY <1>2, <1>4, <1>7, ReportedIs
  <2>4. Len(counted) <= 1
    BY <1>5, <1>7, LenProperties
  <2>5. Counting' /\ CpuForcedOnEvidence' /\ HealthTyped'
    BY <1>1, <1>2, <1>5, <1>7, <2>2, <2>4 DEF Counting, CpuForcedOnEvidence, HealthTyped
  <2>6. ASSUME NEW g \in held', g.of = engineNo', engine' # "off", ~g.reported, g.id > answers' - Kept
        PROVE  \E l \in DOMAIN receipts' : receipts'[l].id = g.id
    <3>1. g \in held /\ g.id # h.id
      BY <2>3, <2>6
    <3>2. PICK j \in DOMAIN receipts : receipts[j].id = g.id
      BY <1>1, <1>2, <1>7, <2>6, <3>1 DEF RejectionHeard
    <3>3. j # i
      BY <2>1, <3>1, <3>2
    <3> QED BY <2>2, <3>2, <3>3
  <2>7. RejectionHeard'
    BY <2>6 DEF RejectionHeard
  <2> QED BY <2>2, <2>3, <2>5, <2>7 DEF HealthInv
<1>8. CASE ForceCpu(~(Len(counted) >= 2), against)
  <2>1. /\ cpuLocked' = TRUE /\ receipts' = <<>> /\ strong' = <<>> /\ rejected' = {}
        /\ evidence' = IF cpuLocked THEN evidence ELSE [sample |-> ~(Len(counted) >= 2), inputs |-> Cardinality(against)]
        /\ (engineNo' = engineNo + 1 \/ (engineNo' = engineNo /\ engine' = "off"))
    BY <1>8 DEF ForceCpu
  <2>2. engineNo' \in Nat /\ engineNo' >= engineNo /\ (engine' # "off" => engineNo' > engineNo)
    BY <1>4, <2>1
  <2>3. Holding' /\ \A g \in held' : g.of \in Nat /\ g.of <= engineNo
    BY <1>2, <2>2, ReportedIs
  <2>4. HealthTyped' /\ Numbered' /\ Counting'
    BY <1>1, <1>2, <2>1, <2>2, KeptIs, FS_EmptySet DEF HealthTyped, Numbered, Counting
  <2>5. CpuForcedOnEvidence'
    <3>1. CASE cpuLocked
      BY <1>1, <2>1, <3>1 DEF CpuForcedOnEvidence
    <3>2. CASE ~cpuLocked
      <4>1. evidence' = [sample |-> ~(Len(counted) >= 2), inputs |-> Cardinality(against)]
        BY <2>1, <3>2
      <4>2. (Len(counted) >= 2) => evidence'.inputs >= 2
        BY <1>5, <4>1
      <4>3. ~(Len(counted) >= 2) => evidence'.sample
        BY <4>1
      <4> QED BY <4>2, <4>3 DEF CpuForcedOnEvidence
    <3> QED BY <3>1, <3>2
  <2>6. RejectionHeard'
    <3>1. ASSUME NEW g \in held', engine' # "off" PROVE g.of # engineNo'
      BY <1>4, <2>2, <2>3, <3>1
    <3> QED BY <3>1 DEF RejectionHeard
  <2> QED BY <2>3, <2>4, <2>5, <2>6 DEF HealthInv
<1> QED BY <1>3, <1>6, <1>7, <1>8

LEMMA HealthStep == HealthInv /\ [HealthNext]_healthPart => HealthInv'
<1> SUFFICES ASSUME HealthInv, [HealthNext]_healthPart PROVE HealthInv'
  OBVIOUS
<1>1. CASE UNCHANGED healthPart
  BY <1>1 DEF healthPart, HealthInv, HealthTyped, Numbered, Counting, Holding, CpuForcedOnEvidence, RejectionHeard
<1>2. CASE Completes
  BY <1>2, UnhealthyStep, CompleteStep DEF Completes
<1>3. CASE Reports
  BY <1>3, ReportStep DEF Reports
<1> QED BY <1>1, <1>2, <1>3, ReadyStep, StrongAgesStep DEF HealthNext

\* Whatever the engine answers and the shell reports, the GPU is given up on
\* evidence only (inference_health.rs:87, 95), and the rejection of one of the
\* last answers finds its receipt (inference_health.rs:68).
THEOREM RejectionsCount == HealthSpec => []CpuForcedOnEvidence /\ []RejectionHeard
<1>1. HealthInv => CpuForcedOnEvidence /\ RejectionHeard
  BY DEF HealthInv
<1> QED BY <1>1, HealthBegins, HealthStep, PTL DEF HealthSpec

-----------------------------------------------------------------------------
(* The types of the health of the translations                             *)

HealthBounds ==
  /\ engine \in {"off", "gpu", "cpu"} /\ engineNo \in 0 .. MaxEngines /\ answers \in 0 .. MaxAnswers
  /\ cpuLocked \in BOOLEAN /\ (cpuLocked => engine # "gpu")

LEMMA HealthSizes == MaxAnswers \in Nat /\ MaxEngines \in Nat
BY HealthAssumption

LEMMA HealthBoundsBegin == HealthInit => HealthBounds
<1> SUFFICES ASSUME HealthInit PROVE HealthBounds
  OBVIOUS
<1>1. engine = "off" /\ engineNo = 0 /\ answers = 0 /\ cpuLocked = FALSE
  BY DEF HealthInit
<1>2. engineNo \in 0 .. MaxEngines /\ answers \in 0 .. MaxAnswers
  BY <1>1, HealthSizes
<1> QED BY <1>1, <1>2, Zenon DEF HealthBounds

LEMMA HealthBounded == HealthBounds /\ [HealthNext]_healthPart => HealthBounds'
<1> SUFFICES ASSUME HealthBounds, [HealthNext]_healthPart PROVE HealthBounds'
  OBVIOUS
<1>0. /\ engine \in {"off", "gpu", "cpu"} /\ engineNo \in 0 .. MaxEngines /\ answers \in 0 .. MaxAnswers
      /\ cpuLocked \in BOOLEAN /\ (cpuLocked => engine # "gpu") /\ MaxAnswers \in Nat /\ MaxEngines \in Nat
  BY HealthSizes DEF HealthBounds
<1>1. engineNo < MaxEngines => engineNo + 1 \in 0 .. MaxEngines
  BY <1>0
<1>2. CASE Ready
  <2>1. /\ engine' \in (IF cpuLocked THEN {"cpu"} ELSE {"cpu", "gpu"})
        /\ engineNo < MaxEngines /\ engineNo' = engineNo + 1 /\ UNCHANGED <<cpuLocked, answers>>
    BY <1>2 DEF Ready, Starts, Stop
  <2> QED BY <1>0, <1>1, <2>1 DEF HealthBounds
<1>3. CASE CompleteUnhealthy
  BY <1>0, <1>3 DEF CompleteUnhealthy, Stop, HealthBounds
<1>4. ASSUME NEW input, NEW capped, Complete(input, capped) PROVE HealthBounds'
  <2>1. answers < MaxAnswers /\ answers' = answers + 1 /\ UNCHANGED <<engine, engineNo, cpuLocked>>
    BY <1>4 DEF Complete
  <2>2. answers' \in 0 .. MaxAnswers
    BY <1>0, <2>1
  <2> QED BY <1>0, <2>1, <2>2 DEF HealthBounds
<1>5. ASSUME NEW n, StrongAges(n) PROVE HealthBounds'
  BY <1>0, <1>5 DEF StrongAges, HealthBounds
<1>6. ASSUME NEW h, NEW reason, Report(h, reason) PROVE HealthBounds'
  <2>1. UNCHANGED answers
    BY <1>6 DEF Report
  <2>2. ASSUME NEW sample, NEW against, ForceCpu(sample, against) PROVE HealthBounds'
    <3>1. /\ cpuLocked' = TRUE /\ engine' \in {"cpu", "off"}
          /\ engineNo' = engineNo \/ (engineNo < MaxEngines /\ engineNo' = engineNo + 1)
      BY <2>2 DEF ForceCpu
    <3> QED BY <1>0, <1>1, <2>1, <3>1 DEF HealthBounds
  <2>3. CASE UNCHANGED <<engine, engineNo, cpuLocked>>
    BY <1>0, <2>1, <2>3 DEF HealthBounds
  <2>4. ASSUME Heard(h, reason) PROVE UNCHANGED <<engine, engineNo, cpuLocked>> \/ \E s, a : ForceCpu(s, a)
    BY <2>4, Zenon DEF Heard
  <2>5. Heard(h, reason) \/ UNCHANGED <<engine, engineNo, cpuLocked>>
    BY <1>6 DEF Report
  <2> QED BY <2>2, <2>3, <2>4, <2>5
<1>7. CASE UNCHANGED healthPart
  BY <1>0, <1>7 DEF healthPart, HealthBounds
<1> QED BY <1>2, <1>3, <1>4, <1>5, <1>6, <1>7 DEF HealthNext, Completes, Reports

LEMMA HealthValues == HealthInv /\ HealthBounds => HealthTypeOK
<1> SUFFICES ASSUME HealthInv, HealthBounds PROVE HealthTypeOK
  OBVIOUS
<1>1. Len(receipts) <= Kept /\ Len(strong) <= 1 /\ strong \in Seq(StrongSet) /\ rejected \in SUBSET Inputs
  BY DEF HealthInv, Numbered, Counting
<1>2. Len(strong) <= 2
  BY <1>1, LenProperties
<1> QED BY <1>1, <1>2 DEF HealthBounds, HealthTypeOK

-----------------------------------------------------------------------------
(* The desk                                                                *)

DeskInv ==
  /\ ClipInv /\ EditsInv /\ CaptureInv /\ NativeInv /\ WorkerInv
  /\ FoundryInv /\ SelectorInv /\ HealthInv

\* A step of the desk is a step of one part, and none of the others.
LEMMA DeskPartsMove ==
  ASSUME [DeskNext]_deskVars
  PROVE  /\ [ClipNext]_clipPart /\ [EditsNext]_editsPart /\ [CaptureNext]_capturePart /\ [NativeNext]_nativeVars
         /\ [WorkerNext]_workerPart /\ [FoundryNext]_foundryVars /\ [SelectorNext]_selectorPart /\ [HealthNext]_healthPart
<1>1. CASE FoundryMoves
  BY <1>1 DEF FoundryMoves, OfFoundry
<1>2. CASE NativeMoves
  BY <1>2 DEF NativeMoves, OfNative
<1>3. CASE EditsMove
  BY <1>3 DEF EditsMove, OfEdits
<1>4. CASE ClipMoves
  BY <1>4 DEF ClipMoves, OfClip
<1>5. CASE SelectorMoves
  BY <1>5 DEF SelectorMoves, OfSelector
<1>6. CASE OcrMoves
  BY <1>6 DEF OcrMoves, OfOcr
<1>7. CASE HealthMoves
  BY <1>7 DEF HealthMoves, OfHealth
<1>8. CASE CaptureMoves
  BY <1>8 DEF CaptureMoves, OfCapture
<1>9. CASE UNCHANGED deskVars
  BY <1>9 DEF deskVars
<1> QED BY <1>1, <1>2, <1>3, <1>4, <1>5, <1>6, <1>7, <1>8, <1>9 DEF DeskNext

DeskBounds ==
  /\ ClipTypeOK /\ EditsBounds /\ CaptureBounds /\ NativeBounds /\ WorkerBounds
  /\ FoundryBounds /\ SelectorBounds /\ HealthBounds

LEMMA DeskBegins == DeskInit => DeskInv
BY ClipBegins, EditsBegins, CaptureBegins, NativeBegins, WorkerBegins, FoundryBegins, SelectorBegins, HealthBegins
   DEF DeskInit, DeskInv

LEMMA DeskStep == DeskInv /\ [DeskNext]_deskVars => DeskInv'
<1> SUFFICES ASSUME DeskInv, [DeskNext]_deskVars PROVE DeskInv'
  OBVIOUS
<1>1. /\ [ClipNext]_clipPart /\ [EditsNext]_editsPart /\ [CaptureNext]_capturePart /\ [NativeNext]_nativeVars
      /\ [WorkerNext]_workerPart /\ [FoundryNext]_foundryVars /\ [SelectorNext]_selectorPart /\ [HealthNext]_healthPart
  BY DeskPartsMove
<1> QED BY <1>1, ClipStep, EditsStep, CaptureSteps, NativeStep, WorkerStep, FoundryStep, SelectorStep, HealthStep
        DEF DeskInv

\* What a window shows or says is what the other side of it has, in every order
\* of its messages, calls, saves and timers (FrameOverlayWindow.xaml.cs:489,
\* settings-writer.ts:24, overlay.js:643, selector.js:139, commands.rs:316).
THEOREM DeskAgrees == DeskSpec => []WindowsAgree
<1>1. NativeInv => OverlayLetsThrough /\ SelectorAnswers
  BY DEF NativeInv, Passes, RingDrawn, OverlayLetsThrough
<1>2. EditsInv /\ ClipInv /\ CaptureInv => SavedMeansWritten /\ ClipFollows /\ GivenUpIsClosed
  BY DEF EditsInv, ClipInv, CaptureInv
<1>3. DeskInv => WindowsAgree
  BY <1>1, <1>2, StoredIsShown DEF DeskInv, WindowsAgree
<1> QED BY <1>3, DeskBegins, DeskStep, PTL DEF DeskSpec

\* The engines that the shell did not install answer for what they are asked:
\* a moved service is found, ready was answered, no recognition is stacked or
\* told of another, and a bad answer counts (foundry_local.rs:1512, 1178,
\* ocr_service.rs:271, inference_health.rs:68).
THEOREM DeskAnswers == DeskSpec => []EnginesAnswer
<1>1. FoundryInv => FindsMovedService /\ ReadyWasAnswered
  BY DEF FoundryInv, Finding, Probed, FindsMovedService
<1>2. WorkerInv => NothingStacked /\ ResultsAreSound
  BY DEF WorkerInv, Unstacked, NothingStacked
<1>3. DeskInv => EnginesAnswer
  BY <1>1, <1>2 DEF DeskInv, HealthInv, EnginesAnswer
<1> QED BY <1>3, DeskBegins, DeskStep, PTL DEF DeskSpec

LEMMA DeskBoundsBegin == DeskInit => DeskBounds
<1> SUFFICES ASSUME DeskInit PROVE DeskBounds
  OBVIOUS
<1>1. ClipTypeOK
  BY ClipAssumption DEF DeskInit, ClipInit, ClipTypeOK
<1>2. FoundryBounds
  BY Zenon DEF DeskInit, FoundryInit, FoundryBounds
<1> QED BY <1>1, <1>2, EditsBoundsBegin, CaptureBoundsBegin, NativeBoundsBegin, WorkerBoundsBegin,
           SelectorBoundsBegin, HealthBoundsBegin
        DEF DeskInit, DeskBounds

LEMMA DeskBounded == DeskInv /\ DeskBounds /\ [DeskNext]_deskVars => DeskBounds'
<1> SUFFICES ASSUME DeskInv, DeskBounds, [DeskNext]_deskVars PROVE DeskBounds'
  OBVIOUS
<1>1. /\ [ClipNext]_clipPart /\ [EditsNext]_editsPart /\ [CaptureNext]_capturePart /\ [NativeNext]_nativeVars
      /\ [WorkerNext]_workerPart /\ [FoundryNext]_foundryVars /\ [SelectorNext]_selectorPart /\ [HealthNext]_healthPart
  BY DeskPartsMove
<1> QED BY <1>1, ClipValues, EditsBounded, CaptureBounded, NativeBounded, WorkerBounded, FoundryBounded,
           SelectorBounded, HealthBounded
        DEF DeskInv, DeskBounds

\* Every part of the desk keeps to the values its code knows: no frame is newer
\* than the screen and no session survives its third failure in a row
\* (graphics_capture.rs:195), one save and one close of the selector are under
\* way (selector.js:139), the model tried is one that is installed
\* (foundry_local.rs:1178), and what was forced to the CPU stays off the GPU
\* (inference_health.rs:68).
THEOREM DeskTyped == DeskSpec => []DeskTypeOK
<1>1. DeskInv /\ DeskBounds => DeskTypeOK
  BY EditsValues, CaptureValues, NativeValues, WorkerValues, FoundryValues, SelectorValues, HealthValues
     DEF DeskInv, DeskBounds, DeskTypeOK
<1> QED BY <1>1, DeskBegins, DeskStep, DeskBoundsBegin, DeskBounded, PTL DEF DeskSpec

=============================================================================
