---------------------------- MODULE SettingsEdits ----------------------------
(***************************************************************************)
(* The main window's copy of the settings and the ordered writes of it,    *)
(* beside the overlay's own menu that edits the same file.  Settings are   *)
(* two numbers, the version of the overlay's appearance and that of all    *)
(* the rest; every edit takes the next number.                             *)
(* Source: src/ui/app-controller.ts, settings-writer.ts,                   *)
(* src/scripts/overlay.js.                                                 *)
(***************************************************************************)
EXTENDS Naturals, Sequences

CONSTANTS
  MaxEdits,    \* bound: edits of either kind
  MaxFailures  \* bound: writes that fail

ASSUME EditsAssumption == {MaxEdits, MaxFailures} \subseteq Nat

VARIABLES
  snap,      \* the window's settings: [overlay, other]
  disk,      \* the stored ones
  edits,     \* the number of the last edit
  sent,      \* history: the rest of the settings as last written by this window
  writes,    \* SettingsWriter.tail: writes in order, the head at the backend
  revision,  \* SettingsWriter.revision
  save,      \* snapshot.settingsSave
  saveTimer, \* overlaySaveId is set
  menu,      \* the overlay menu's read-then-write: the settings it read
  reload,    \* a refresh in flight and the settings it was given
  failures

editsPart == <<snap, disk, edits, sent, writes, revision, save, saveTimer, menu, reload, failures>>

NoWrite == [overlay |-> 0, other |-> 0]

EditsInit ==
  /\ snap = NoWrite /\ disk = NoWrite /\ edits = 0 /\ sent = 0
  /\ writes = <<>> /\ revision = 0 /\ save = "idle" /\ saveTimer = FALSE
  /\ menu = [at |-> "idle", read |-> NoWrite] /\ reload = [at |-> "idle", stored |-> NoWrite, known |-> FALSE]
  /\ failures = 0

\* A plausible bug: only updateOverlay counts revisions.
SavedUncounted(value) ==
  /\ UNCHANGED revision /\ save' = "saving"
  /\ writes' = Append(writes, [revision |-> revision, value |-> value])

\* SettingsWriter.save: a copy of the settings joins the tail.
Saved(value) ==
  /\ revision' = revision + 1 /\ save' = "saving"
  /\ writes' = Append(writes, [revision |-> revision + 1, value |-> value])

\* editSettings and setLanguage: published and saved in one turn.
EditSettings ==
  /\ edits < MaxEdits /\ edits' = edits + 1
  /\ snap' = [snap EXCEPT !.other = edits + 1]
  /\ Saved(snap')
  /\ UNCHANGED <<disk, sent, saveTimer, menu, reload, failures>>

\* updateOverlay: published at once, saved when no further one comes for a while.
UpdateOverlay ==
  /\ edits < MaxEdits /\ edits' = edits + 1
  /\ snap' = [snap EXCEPT !.overlay = edits + 1]
  /\ revision' = revision + 1 /\ save' = "saving" /\ saveTimer' = TRUE
  /\ UNCHANGED <<disk, sent, writes, menu, reload, failures>>

SaveTimer ==
  /\ saveTimer /\ saveTimer' = FALSE /\ Saved(snap)
  /\ UNCHANGED <<snap, disk, edits, sent, menu, reload, failures>>

\* A plausible bug: the end of any write is told.
WriteEndsTellsAll(ok) ==
  /\ writes # <<>> /\ (ok \/ failures < MaxFailures)
  /\ writes' = Tail(writes)
  /\ IF ok THEN disk' = Head(writes).value /\ sent' = Head(writes).value.other /\ UNCHANGED failures
     ELSE failures' = failures + 1 /\ UNCHANGED <<disk, sent>>
  /\ save' = IF ok THEN "idle" ELSE "error"
  /\ UNCHANGED <<snap, edits, revision, saveTimer, menu, reload>>

\* A write ends; only the newest revision's end is told.
WriteEnds(ok) ==
  /\ writes # <<>> /\ (ok \/ failures < MaxFailures)
  /\ writes' = Tail(writes)
  /\ IF ok THEN disk' = Head(writes).value /\ sent' = Head(writes).value.other /\ UNCHANGED failures
     ELSE failures' = failures + 1 /\ UNCHANGED <<disk, sent>>
  /\ save' = IF Head(writes).revision = revision THEN (IF ok THEN "idle" ELSE "error") ELSE save
  /\ UNCHANGED <<snap, edits, revision, saveTimer, menu, reload>>

\* The overlay's menu reads all the settings and writes them back with its own.
MenuReads ==
  /\ menu.at = "idle" /\ edits < MaxEdits
  /\ menu' = [at |-> "read", read |-> disk]
  /\ UNCHANGED <<snap, disk, edits, sent, writes, revision, save, saveTimer, reload, failures>>
MenuWrites ==
  /\ menu.at = "read" /\ edits < MaxEdits /\ edits' = edits + 1
  /\ disk' = [menu.read EXCEPT !.overlay = edits + 1]
  /\ menu' = [menu EXCEPT !.at = "idle"]
  /\ UNCHANGED <<snap, sent, writes, revision, save, saveTimer, reload, failures>>

\* A refresh asks for the stored settings and, at the same time, for the
\* engine's status, and goes on when it has both.
RefreshAsks ==
  /\ reload.at = "idle" /\ reload' = [at |-> "asked", stored |-> NoWrite, known |-> FALSE]
  /\ UNCHANGED <<snap, disk, edits, sent, writes, revision, save, saveTimer, menu, failures>>
RefreshIsGiven ==
  /\ reload.at = "asked" /\ ~reload.known
  /\ reload' = [reload EXCEPT !.stored = disk, !.known = TRUE]
  /\ UNCHANGED <<snap, disk, edits, sent, writes, revision, save, saveTimer, menu, failures>>
RefreshImports ==
  /\ reload.known /\ reload' = [reload EXCEPT !.at = "idle", !.known = FALSE]
  /\ snap' = IF ~saveTimer /\ save = "idle" THEN [snap EXCEPT !.overlay = reload.stored.overlay] ELSE snap
  /\ UNCHANGED <<disk, edits, sent, writes, revision, save, saveTimer, menu, failures>>

EditsNext ==
  \/ EditSettings \/ UpdateOverlay \/ SaveTimer \/ (\E ok \in BOOLEAN : WriteEnds(ok))
  \/ MenuReads \/ MenuWrites \/ RefreshAsks \/ RefreshIsGiven \/ RefreshImports

EditsSpec == EditsInit /\ [][EditsNext]_editsPart

-----------------------------------------------------------------------------
\* The values the variables take.
EditsTypeOK ==
  /\ {snap, disk, menu.read, reload.stored} \subseteq [overlay : 0 .. MaxEdits, other : 0 .. MaxEdits]
  /\ edits \in 0 .. MaxEdits /\ sent \in 0 .. MaxEdits /\ failures \in 0 .. MaxFailures
  /\ \A i \in 1 .. Len(writes) : writes[i].revision \in 1 .. revision
  /\ save \in {"idle", "saving", "error"} /\ saveTimer \in BOOLEAN

\* When the window says its settings are saved, nothing is left to write and
\* the last of them reached the backend last, whatever failed and whatever was
\* edited while a write was under way (settings-writer.ts:24).
SavedMeansWritten == save = "idle" => sent = snap.other /\ writes = <<>>
=============================================================================
