------------------------- MODULE SettingsStoreProofs -------------------------
(***************************************************************************)
(* What holds of every instance of SettingsStore: any overlapping saves,   *)
(* any number of launches, locks and damaged files.                        *)
(***************************************************************************)
EXTENDS SettingsStore, TLAPS

-----------------------------------------------------------------------------
(* The invariant                                                           *)

\* The user's settings, once in the backup, stay there: it is what a damaged or
\* overwritten config.json is recovered from.
BackupKept == had /\ ~unfound => disk.backup = "users"
BackupKnown == disk.backup = "users" => had

\* A save carries what the session holds, and only a session that read its own
\* config.json touches the backup: with what it has just written there.
SavesCarryLive ==
  \A s \in Saver :
    /\ save[s].at # "idle" => origin \in {"authoritative", "fallback"}
    /\ save[s].at = "write" => save[s].content = live
    /\ save[s].at = "copy" => origin = "authoritative" /\ disk.config = live
    /\ save[s].at = "rename" => origin = "authoritative" /\ save[s].content = live

\* Such a session holds the user's settings.
OwnConfig == origin = "authoritative" => (had /\ ~unfound => live = "users")

SettingsInv == SettingsTypeOK /\ BackupKept /\ BackupKnown /\ SavesCarryLive /\ OwnConfig
-----------------------------------------------------------------------------
(* Lemmas                                                                  *)

LEMMA SettingsSizes ==
  /\ MaxSaves \in Nat /\ MaxLaunches \in Nat /\ MaxLocks \in Nat /\ MaxDamages \in Nat
BY SettingsAssumption

\* What the environment spends it has.
Left == [{"saves", "launches", "locks", "damages"} -> 0 .. MaxSaves + MaxLaunches + MaxLocks + MaxDamages]

LEMMA SpendTyped ==
  ASSUME left \in Left, NEW what \in {"saves", "launches", "locks", "damages"},
         left[what] > 0, Spend(what)
  PROVE  left' \in Left
<1>1. MaxSaves + MaxLaunches + MaxLocks + MaxDamages \in Nat
  BY SettingsSizes
<1> DEFINE n == MaxSaves + MaxLaunches + MaxLocks + MaxDamages
<1> HIDE DEF n
<1>2. left[what] \in 0 .. n
  BY DEF Left, n
<1>3. left[what] - 1 \in 0 .. n
  BY <1>1, <1>2 DEF n
<1>4. left' = [left EXCEPT ![what] = left[what] - 1]
  BY DEF Spend
<1> QED
  BY <1>3, <1>4 DEF Left, n

\* A file written holds what was written, the other what it held.
LEMMA DiskTyped ==
  ASSUME disk \in [File -> Content], NEW c \in Content
  PROVE  /\ [disk EXCEPT !.config = c] \in [File -> Content]
         /\ [disk EXCEPT !.config = c].config = c
         /\ [disk EXCEPT !.config = c].backup = disk.backup
         /\ [disk EXCEPT !.backup = c] \in [File -> Content]
         /\ [disk EXCEPT !.backup = c].backup = c
         /\ [disk EXCEPT !.backup = c].config = disk.config
BY DEF File

LEMMA RefreshedTyped ==
  ASSUME disk \in [File -> Content], NEW c \in Content
  PROVE  /\ Refreshed(c) \in [File -> Content]
         /\ Refreshed(c).config = disk.config
         /\ Refreshed(c).backup = c \/ (Refreshed(c).backup = disk.backup)
<1>1. CASE "backup" \in locked
  <2>1. Refreshed(c) = [disk EXCEPT !.backup = disk.backup]
    BY <1>1 DEF Refreshed
  <2>2. disk.backup \in Content
    BY DEF File
  <2> QED
    BY <2>1, <2>2, DiskTyped
<1>2. CASE "backup" \notin locked
  <2>1. Refreshed(c) = [disk EXCEPT !.backup = c]
    BY <1>2 DEF Refreshed
  <2> QED
    BY <2>1, DiskTyped
<1> QED
  BY <1>1, <1>2

LEMMA ReplacedTyped ==
  ASSUME disk \in [File -> Content], NEW c \in Content, NEW d \in Replaced(c)
  PROVE  d \in [File -> Content] /\ d.backup = disk.backup
<1>1. CASE d = disk
  BY <1>1
<1>2. CASE d = [disk EXCEPT !.config = disk.config]
  <2>1. disk.config \in Content
    BY DEF File
  <2> QED
    BY <1>2, <2>1, DiskTyped
<1>3. CASE d = [disk EXCEPT !.config = c]
  BY <1>3, DiskTyped
<1> QED
  BY <1>1, <1>2, <1>3 DEF Replaced

Save == [at : {"idle", "write", "copy", "rename"}, content : Content]

LEMMA StepTyped ==
  ASSUME save \in [Saver -> Save], NEW s \in Saver, NEW a \in {"idle", "write", "copy", "rename"},
         NEW c \in Content, Step(s, a, c)
  PROVE  /\ save' \in [Saver -> Save]
         /\ save'[s].at = a /\ save'[s].content = c
         /\ \A r \in Saver \ {s} : save'[r] = save[r]
<1>1. [at |-> a, content |-> c] \in Save
  BY DEF Save
<1>2. save' = [save EXCEPT ![s] = [at |-> a, content |-> c]]
  BY DEF Step
<1> QED
  BY <1>1, <1>2

LEMMA TypedSettings ==
  SettingsTypeOK <=>
    /\ disk \in [File -> Content] /\ locked \subseteq File /\ live \in Held
    /\ origin \in {"off", "restoring", "authoritative", "fallback"}
    /\ save \in [Saver -> Save]
    /\ had \in BOOLEAN /\ unfound \in BOOLEAN
    /\ left \in Left
BY DEF SettingsTypeOK, Save, Left

LEMMA TypedAfter ==
  ASSUME disk' \in [File -> Content], locked' \subseteq File, live' \in Held,
         origin' \in {"off", "restoring", "authoritative", "fallback"},
         save' \in [Saver -> Save], had' \in BOOLEAN, unfound' \in BOOLEAN, left' \in Left
  PROVE  SettingsTypeOK'
BY DEF SettingsTypeOK, Save, Left

\* What is read of a file that can be read is what it holds.
LEMMA OutcomeHeld ==
  ASSUME NEW f \in File, Outcome(f) \in Held
  PROVE  disk[f] \in Held /\ Outcome(f) = disk[f]
BY DEF Outcome, Held
-----------------------------------------------------------------------------
(* The steps                                                               *)

LEMMA SettingsInitInv == SettingsInit => SettingsInv
<1> SUFFICES ASSUME SettingsInit PROVE SettingsInv
  OBVIOUS
<1> USE DEF SettingsInit
<1>1. disk \in [File -> Content] /\ had \in BOOLEAN /\ (disk.backup = "users" <=> had)
  BY DEF File, Content, Held
<1>2. NoSave \in Save /\ NoSave.at = "idle"
  BY DEF NoSave, Save, Content
<1>3. save \in [Saver -> Save] /\ \A s \in Saver : save[s].at = "idle"
  BY <1>2
<1>4. left \in Left
  BY SettingsSizes DEF Left
<1>5. SettingsTypeOK
  <2>1. locked \subseteq File /\ live \in Held /\ unfound \in BOOLEAN
    BY DEF Held
  <2>2. origin \in {"off", "restoring", "authoritative", "fallback"}
    OBVIOUS
  <2> QED
    BY <1>1, <1>3, <1>4, <2>1, <2>2, TypedSettings
<1>6. BackupKept /\ BackupKnown
  BY <1>1 DEF BackupKept, BackupKnown
<1>7. SavesCarryLive /\ OwnConfig
  BY <1>3 DEF SavesCarryLive, OwnConfig
<1> QED
  BY <1>5, <1>6, <1>7 DEF SettingsInv

\* A launch begins with no save under way: the last session's have ended with it.
LEMMA LaunchInv == SettingsInv /\ Launch => SettingsInv'
<1> SUFFICES ASSUME SettingsInv, Launch PROVE SettingsInv'
  OBVIOUS
<1>0. /\ disk \in [File -> Content] /\ locked \subseteq File /\ had \in BOOLEAN /\ unfound \in BOOLEAN
      /\ save \in [Saver -> Save] /\ left \in Left
      /\ disk.config \in Content /\ disk.backup \in Content
      /\ "config" \in File /\ "backup" \in File
  BY TypedSettings DEF SettingsInv, File
<1>1. origin = "off" /\ left.launches > 0 /\ Spend("launches") /\ locked' = locked /\ save' = save
  BY DEF Launch
<1>2. left' \in Left
  BY <1>0, <1>1, SpendTyped
<1>3. \A s \in Saver : save[s].at = "idle"
  BY <1>0, <1>1 DEF SettingsInv, SavesCarryLive, Save
<1>4. SavesCarryLive'
  BY <1>1, <1>3 DEF SavesCarryLive
<1>5. BackupKept /\ BackupKnown
  BY DEF SettingsInv
<1>6. SUFFICES ASSUME disk' \in [File -> Content], live' \in Held, had' \in BOOLEAN, unfound' \in BOOLEAN,
                      origin' \in {"off", "restoring", "authoritative", "fallback"}
               PROVE  BackupKept' /\ BackupKnown' /\ OwnConfig'
  <2>1. /\ disk' \in [File -> Content] /\ live' \in Held /\ had' \in BOOLEAN /\ unfound' \in BOOLEAN
        /\ origin' \in {"off", "restoring", "authoritative", "fallback"}
    <3>1. CASE LaunchClean
      <4>1. disk.config \in Held
        BY <1>0, <3>1, OutcomeHeld DEF LaunchClean
      <4>2. disk' \in [File -> Content]
        BY <1>0, <3>1, RefreshedTyped DEF LaunchClean
      <4>3. live' \in Held /\ origin' = "authoritative"
        BY <3>1, <4>1 DEF LaunchClean, Starts
      <4>4. had' \in BOOLEAN
        BY <1>0, <3>1 DEF LaunchClean
      <4>5. unfound' \in BOOLEAN
        BY <1>0, <3>1 DEF LaunchClean
      <4> QED
        BY <4>2, <4>3, <4>4, <4>5
    <3>2. CASE LaunchMissing
      <4>1. CASE Outcome("backup") \in Held
        <5>1. disk.backup \in Held
          BY <1>0, <4>1, OutcomeHeld
        <5>2. disk' \in [File -> Content]
          BY <1>0, <3>2, <4>1, ReplacedTyped DEF LaunchMissing
        <5> QED
          BY <1>0, <3>2, <4>1, <5>1, <5>2 DEF LaunchMissing, Starts
      <4>2. CASE Outcome("backup") \notin Held
        <5>1. live' \in Held /\ origin' = "authoritative" /\ disk' = disk /\ had' = had
          BY <3>2, <4>2 DEF LaunchMissing, Starts, Held
        <5>2. unfound' \in BOOLEAN
          BY <1>0, <3>2, <4>2 DEF LaunchMissing
        <5> QED
          BY <1>0, <5>1, <5>2
      <4> QED
        BY <4>1, <4>2
    <3>3. CASE LaunchUnusable
      <4>1. "none" \in Content
        BY DEF Content
      <4>2. disk' \in {disk, [disk EXCEPT !.config = "none"]}
        BY <3>3 DEF LaunchUnusable
      <4>3. disk' \in [File -> Content]
        BY <1>0, <4>1, <4>2, DiskTyped
      <4>4. live' \in Held
        <5>1. CASE Outcome("backup") \in Held
          BY <1>0, <3>3, <5>1, OutcomeHeld DEF LaunchUnusable, Starts
        <5>2. CASE Outcome("backup") \notin Held
          BY <3>3, <5>2 DEF LaunchUnusable, Starts, Held
        <5> QED
          BY <5>1, <5>2
      <4>5. origin' \in {"restoring", "fallback"}
        BY <3>3 DEF LaunchUnusable, Starts
      <4>6. had' = had /\ unfound' = unfound
        BY <3>3 DEF LaunchUnusable
      <4> QED
        BY <1>0, <4>3, <4>4, <4>5, <4>6
    <3> QED
      BY <3>1, <3>2, <3>3 DEF Launch
  <2>2. SettingsTypeOK'
    BY <1>0, <1>1, <1>2, <2>1, TypedAfter
  <2> QED
    BY <1>4, <2>1, <2>2 DEF SettingsInv
<1>7. CASE LaunchClean
  <2>1. /\ disk' = Refreshed(disk.config) /\ live' = disk.config /\ disk.config \in Held
        /\ had' = (had \/ disk'.backup = "users")
        /\ unfound' = (unfound \/ (had /\ disk.config # "users"))
    BY <1>0, <1>7, OutcomeHeld DEF LaunchClean, Starts
  <2>2. disk'.backup = disk.config \/ disk'.backup = disk.backup
    BY <1>0, <2>1, RefreshedTyped
  <2>3. BackupKnown'
    BY <2>1 DEF BackupKnown
  <2>4. ASSUME had', ~unfound' PROVE disk.config = "users" /\ disk'.backup = "users"
    <3>1. CASE had
      BY <1>5, <2>1, <2>2, <2>4, <3>1 DEF BackupKept
    <3>2. CASE ~had
      <4>1. disk'.backup = "users" /\ disk.backup # "users"
        BY <1>5, <2>1, <2>4, <3>2 DEF BackupKnown
      <4> QED
        BY <2>2, <4>1
    <3> QED
      BY <3>1, <3>2
  <2> QED
    BY <2>1, <2>3, <2>4 DEF BackupKept, OwnConfig
<1>8. CASE LaunchMissing
  <2>1. CASE Outcome("backup") \in Held
    <3>1. had' = had /\ unfound' = unfound /\ origin' = "fallback" /\ disk' \in Replaced(disk.backup)
      BY <1>8, <2>1 DEF LaunchMissing, Starts
    <3>2. disk'.backup = disk.backup
      BY <1>0, <3>1, ReplacedTyped
    <3> QED
      BY <1>5, <3>1, <3>2 DEF BackupKept, BackupKnown, OwnConfig
  <2>2. CASE Outcome("backup") \notin Held
    <3>1. had' = had /\ unfound' = (unfound \/ had) /\ disk' = disk
      BY <1>8, <2>2 DEF LaunchMissing, Starts
    <3>2. ~(had' /\ ~unfound')
      BY <3>1
    <3>3. BackupKept' /\ OwnConfig'
      BY <3>2 DEF BackupKept, OwnConfig
    <3> QED
      BY <1>5, <3>1, <3>3 DEF BackupKnown
  <2> QED
    BY <2>1, <2>2
<1>9. CASE LaunchUnusable
  <2>1. had' = had /\ unfound' = unfound /\ disk' \in {disk, [disk EXCEPT !.config = "none"]}
    BY <1>9 DEF LaunchUnusable
  <2>2. origin' # "authoritative"
    BY <1>9 DEF LaunchUnusable, Starts
  <2>3. disk'.backup = disk.backup
    BY <1>0, <2>1, DiskTyped DEF Content
  <2> QED
    BY <1>5, <2>1, <2>2, <2>3 DEF BackupKept, BackupKnown, OwnConfig
<1> QED
  BY <1>7, <1>8, <1>9 DEF Launch

LEMMA RestoresInv == SettingsInv /\ Restores => SettingsInv'
<1> SUFFICES ASSUME SettingsInv, Restores PROVE SettingsInv'
  OBVIOUS
<1>0. /\ origin = "restoring" /\ origin' = "fallback" /\ disk' \in Replaced(live)
      /\ UNCHANGED <<locked, live, save, had, unfound, left>>
  BY DEF Restores
<1>1. SettingsTypeOK
  BY DEF SettingsInv
<1>2. live \in Content /\ disk \in [File -> Content]
  BY <1>1, TypedSettings DEF Content
<1>3. disk' \in [File -> Content] /\ disk'.backup = disk.backup
  BY <1>0, <1>2, ReplacedTyped
<1>4. SettingsTypeOK'
  BY <1>0, <1>1, <1>3, TypedSettings, TypedAfter
<1>5. BackupKept' /\ BackupKnown' /\ OwnConfig'
  BY <1>0, <1>3 DEF SettingsInv, BackupKept, BackupKnown, OwnConfig
<1>6. \A s \in Saver : save[s].at = "idle"
  BY <1>0, <1>1, TypedSettings DEF SettingsInv, SavesCarryLive, Save
<1>7. SavesCarryLive'
  BY <1>0, <1>6 DEF SavesCarryLive
<1> QED
  BY <1>4, <1>5, <1>7 DEF SettingsInv

LEMMA SaveBeginsInv ==
  ASSUME SettingsInv, NEW s \in Saver, SaveBegins(s)
  PROVE  SettingsInv'
<1>0. /\ origin \in {"authoritative", "fallback"} /\ left.saves > 0 /\ Spend("saves")
      /\ UNCHANGED <<disk, locked, live, origin, had, unfound>>
      /\ save' = save \/ Step(s, "write", live)
  BY DEF SaveBegins
<1>1. SettingsTypeOK
  BY DEF SettingsInv
<1>2. /\ disk \in [File -> Content] /\ live \in Content /\ left \in Left
      /\ save \in [Saver -> Save]
  BY <1>1, TypedSettings DEF Content
<1>3. left' \in Left
  BY <1>0, <1>2, SpendTyped
<1>4. BackupKept' /\ BackupKnown' /\ OwnConfig'
  BY <1>0 DEF SettingsInv, BackupKept, BackupKnown, OwnConfig
<1>5. CASE save' = save
  <2>1. SavesCarryLive'
    BY <1>0, <1>5 DEF SettingsInv, SavesCarryLive
  <2>2. SettingsTypeOK'
    BY <1>0, <1>1, <1>3, <1>5, TypedSettings, TypedAfter
  <2> QED
    BY <1>4, <2>1, <2>2 DEF SettingsInv
<1>6. CASE Step(s, "write", live)
  <2>1. /\ save' \in [Saver -> Save] /\ save'[s].at = "write" /\ save'[s].content = live
        /\ \A r \in Saver \ {s} : save'[r] = save[r]
    BY <1>2, <1>6, StepTyped
  <2>2. SavesCarryLive'
    BY <1>0, <2>1 DEF SettingsInv, SavesCarryLive
  <2>3. SettingsTypeOK'
    BY <1>0, <1>1, <1>3, <2>1, TypedSettings, TypedAfter
  <2> QED
    BY <1>4, <2>2, <2>3 DEF SettingsInv
<1> QED
  BY <1>0, <1>5, <1>6

\* config.json then holds what the session holds.
LEMMA SaveWritesInv ==
  ASSUME SettingsInv, NEW s \in Saver, SaveWrites(s)
  PROVE  SettingsInv'
<1>0. /\ save[s].at = "write"
      /\ UNCHANGED <<locked, live, origin, had, unfound, left>>
      /\ \/ /\ disk' = [disk EXCEPT !.config = save[s].content]
            /\ Step(s, IF origin = "authoritative" THEN "copy" ELSE "idle", "none")
         \/ disk' = disk /\ Step(s, "idle", "none")
  BY DEF SaveWrites
<1>1. SettingsTypeOK
  BY DEF SettingsInv
<1>2. /\ disk \in [File -> Content] /\ live \in Content /\ save \in [Saver -> Save] /\ "none" \in Content
  BY <1>1, TypedSettings DEF Content
<1>3. save[s].content = live
  BY <1>0 DEF SettingsInv, SavesCarryLive
<1>4. CASE /\ disk' = [disk EXCEPT !.config = save[s].content]
           /\ Step(s, IF origin = "authoritative" THEN "copy" ELSE "idle", "none")
  <2>1. disk' \in [File -> Content] /\ disk'.config = live /\ disk'.backup = disk.backup
    BY <1>2, <1>3, <1>4, DiskTyped
  <2>2. /\ save' \in [Saver -> Save]
        /\ save'[s].at = (IF origin = "authoritative" THEN "copy" ELSE "idle")
        /\ \A r \in Saver \ {s} : save'[r] = save[r]
    <3>1. CASE origin = "authoritative"
      BY <1>2, <1>4, <3>1, StepTyped
    <3>2. CASE origin # "authoritative"
      BY <1>2, <1>4, <3>2, StepTyped
    <3> QED
      BY <3>1, <3>2
  <2>3. SavesCarryLive'
    BY <1>0, <2>1, <2>2 DEF SettingsInv, SavesCarryLive
  <2>4. BackupKept' /\ BackupKnown' /\ OwnConfig'
    BY <1>0, <2>1 DEF SettingsInv, BackupKept, BackupKnown, OwnConfig
  <2>5. SettingsTypeOK'
    BY <1>0, <1>1, <2>1, <2>2, TypedSettings, TypedAfter
  <2> QED
    BY <2>3, <2>4, <2>5 DEF SettingsInv
<1>5. CASE disk' = disk /\ Step(s, "idle", "none")
  <2>1. /\ save' \in [Saver -> Save] /\ save'[s].at = "idle"
        /\ \A r \in Saver \ {s} : save'[r] = save[r]
    BY <1>2, <1>5, StepTyped
  <2>2. SavesCarryLive'
    BY <1>0, <1>5, <2>1 DEF SettingsInv, SavesCarryLive
  <2>3. BackupKept' /\ BackupKnown' /\ OwnConfig'
    BY <1>0, <1>5 DEF SettingsInv, BackupKept, BackupKnown, OwnConfig
  <2>4. SettingsTypeOK'
    BY <1>0, <1>1, <1>5, <2>1, TypedSettings, TypedAfter
  <2> QED
    BY <2>2, <2>3, <2>4 DEF SettingsInv
<1> QED
  BY <1>0, <1>4, <1>5

\* What is renamed over the backup is what the session holds.
LEMMA RefreshesBackupInv ==
  ASSUME SettingsInv, NEW s \in Saver, RefreshesBackup(s)
  PROVE  SettingsInv'
<1>0. UNCHANGED <<locked, live, origin, unfound, left>>
  BY DEF RefreshesBackup
<1>1. SettingsTypeOK
  BY DEF SettingsInv
<1>2. /\ disk \in [File -> Content] /\ live \in Content /\ live \in Held /\ save \in [Saver -> Save]
      /\ "none" \in Content /\ disk.config \in Content /\ had \in BOOLEAN
  BY <1>1, TypedSettings DEF Content, File
<1>3. CASE /\ save[s].at = "copy" /\ UNCHANGED <<disk, had>>
           /\ Step(s, IF Outcome("config") \in {"unreadable", "none"} THEN "idle" ELSE "rename",
                   IF Outcome("config") \in {"unreadable", "none"} THEN "none" ELSE disk.config)
  <2>1. origin = "authoritative" /\ disk.config = live
    BY <1>3 DEF SettingsInv, SavesCarryLive
  <2>2. /\ save' \in [Saver -> Save]
        /\ save'[s].at = "idle" \/ (save'[s].at = "rename" /\ save'[s].content = live)
        /\ \A r \in Saver \ {s} : save'[r] = save[r]
    <3>1. CASE Outcome("config") \in {"unreadable", "none"}
      BY <1>2, <1>3, <3>1, StepTyped
    <3>2. CASE Outcome("config") \notin {"unreadable", "none"}
      BY <1>2, <1>3, <2>1, <3>2, StepTyped
    <3> QED
      BY <3>1, <3>2
  <2>3. SavesCarryLive'
    BY <1>0, <1>3, <2>1, <2>2 DEF SettingsInv, SavesCarryLive
  <2>4. BackupKept' /\ BackupKnown' /\ OwnConfig'
    BY <1>0, <1>3 DEF SettingsInv, BackupKept, BackupKnown, OwnConfig
  <2>5. SettingsTypeOK'
    BY <1>0, <1>1, <1>3, <2>2, TypedSettings, TypedAfter
  <2> QED
    BY <2>3, <2>4, <2>5 DEF SettingsInv
<1>4. CASE /\ save[s].at = "rename" /\ disk' = Refreshed(save[s].content)
           /\ had' = (had \/ disk'.backup = "users") /\ Step(s, "idle", "none")
  <2>1. origin = "authoritative" /\ save[s].content = live
    BY <1>4 DEF SettingsInv, SavesCarryLive
  <2>2. /\ disk' \in [File -> Content] /\ disk'.config = disk.config
        /\ disk'.backup = live \/ disk'.backup = disk.backup
    BY <1>2, <1>4, <2>1, RefreshedTyped
  <2>3. /\ save' \in [Saver -> Save] /\ save'[s].at = "idle"
        /\ \A r \in Saver \ {s} : save'[r] = save[r]
    BY <1>2, <1>4, StepTyped
  <2>4. SavesCarryLive'
    BY <1>0, <2>2, <2>3 DEF SettingsInv, SavesCarryLive
  <2>5. ASSUME had', ~unfound' PROVE live = "users" /\ disk'.backup = "users"
    <3>1. CASE had
      BY <1>0, <2>1, <2>2, <2>5, <3>1 DEF SettingsInv, OwnConfig, BackupKept
    <3>2. CASE ~had
      <4>1. disk'.backup = "users" /\ disk.backup # "users"
        BY <1>4, <2>5, <3>2 DEF SettingsInv, BackupKnown
      <4> QED
        BY <2>2, <4>1
    <3> QED
      BY <3>1, <3>2
  <2>6. BackupKept' /\ BackupKnown' /\ OwnConfig'
    BY <1>0, <1>4, <2>5 DEF BackupKept, BackupKnown, OwnConfig
  <2>7. had' \in BOOLEAN
    BY <1>2, <1>4
  <2>8. SettingsTypeOK'
    BY <1>0, <1>1, <2>2, <2>3, <2>7, TypedSettings, TypedAfter
  <2> QED
    BY <2>4, <2>6, <2>8 DEF SettingsInv
<1> QED
  BY <1>3, <1>4 DEF RefreshesBackup

LEMMA QuitsInv == SettingsInv /\ Quits => SettingsInv'
<1> SUFFICES ASSUME SettingsInv, Quits PROVE SettingsInv'
  OBVIOUS
<1>0. /\ origin' = "off" /\ save' = [s \in Saver |-> NoSave]
      /\ UNCHANGED <<disk, locked, live, had, unfound, left>>
  BY DEF Quits
<1>1. NoSave \in Save /\ NoSave.at = "idle"
  BY DEF NoSave, Save, Content
<1>2. save' \in [Saver -> Save] /\ \A s \in Saver : save'[s].at = "idle"
  BY <1>0, <1>1
<1>3. SettingsTypeOK'
  BY <1>0, <1>2, TypedSettings, TypedAfter DEF SettingsInv
<1>4. SavesCarryLive'
  BY <1>2 DEF SavesCarryLive
<1>5. BackupKept' /\ BackupKnown' /\ OwnConfig'
  BY <1>0 DEF SettingsInv, BackupKept, BackupKnown, OwnConfig
<1> QED
  BY <1>3, <1>4, <1>5 DEF SettingsInv

LEMMA LocksInv == SettingsInv /\ Locks => SettingsInv'
<1> SUFFICES ASSUME SettingsInv, Locks PROVE SettingsInv'
  OBVIOUS
<1>0. UNCHANGED <<disk, live, origin, save, had, unfound>>
  BY DEF Locks
<1>1. SettingsTypeOK /\ left \in Left /\ locked \subseteq File
  BY TypedSettings DEF SettingsInv
<1>2. locked' \subseteq File
  BY <1>1 DEF Locks
<1>3. left' \in Left
  <2>1. CASE left.locks > 0 /\ Spend("locks")
    BY <1>1, <2>1, SpendTyped
  <2> QED
    BY <1>1, <2>1 DEF Locks
<1>4. SettingsTypeOK'
  BY <1>0, <1>1, <1>2, <1>3, TypedSettings, TypedAfter
<1>5. BackupKept' /\ BackupKnown' /\ SavesCarryLive' /\ OwnConfig'
  BY <1>0 DEF SettingsInv, BackupKept, BackupKnown, SavesCarryLive, OwnConfig
<1> QED
  BY <1>4, <1>5 DEF SettingsInv

LEMMA DamagesInv == SettingsInv /\ Damages => SettingsInv'
<1> SUFFICES ASSUME SettingsInv, Damages PROVE SettingsInv'
  OBVIOUS
<1>0. /\ left.damages > 0 /\ Spend("damages") /\ \A s \in Saver : save[s] = NoSave
      /\ disk' = [disk EXCEPT !.config = "corrupt"]
      /\ UNCHANGED <<locked, live, origin, save, had, unfound>>
  BY DEF Damages
<1>1. SettingsTypeOK /\ left \in Left /\ disk \in [File -> Content] /\ "corrupt" \in Content
  BY TypedSettings DEF SettingsInv, Content
<1>2. disk' \in [File -> Content] /\ disk'.backup = disk.backup
  BY <1>0, <1>1, DiskTyped
<1>3. left' \in Left
  BY <1>0, <1>1, SpendTyped
<1>4. SettingsTypeOK'
  BY <1>0, <1>1, <1>2, <1>3, TypedSettings, TypedAfter
<1>5. BackupKept' /\ BackupKnown' /\ OwnConfig'
  BY <1>0, <1>2 DEF SettingsInv, BackupKept, BackupKnown, OwnConfig
<1>6. \A s \in Saver : save[s].at = "idle"
  BY <1>0 DEF NoSave
<1>7. SavesCarryLive'
  BY <1>0, <1>6 DEF SavesCarryLive
<1> QED
  BY <1>4, <1>5, <1>7 DEF SettingsInv

LEMMA SettingsStepInv == SettingsInv /\ [SettingsNext]_settingsVars => SettingsInv'
<1> SUFFICES ASSUME SettingsInv, [SettingsNext]_settingsVars PROVE SettingsInv'
  OBVIOUS
<1>1. CASE UNCHANGED settingsVars
  <2>1. UNCHANGED <<disk, locked, live, origin, save, had, unfound, left>>
    BY <1>1 DEF settingsVars
  <2>2. SettingsTypeOK'
    BY <2>1, TypedSettings, TypedAfter DEF SettingsInv
  <2> QED
    BY <2>1, <2>2 DEF SettingsInv, BackupKept, BackupKnown, SavesCarryLive, OwnConfig
<1> QED
  BY <1>1, LaunchInv, RestoresInv, SaveBeginsInv, SaveWritesInv, RefreshesBackupInv, QuitsInv, LocksInv, DamagesInv
  DEF SettingsNext

-----------------------------------------------------------------------------
(* The theorems                                                            *)

\* Whatever saves overlap, whatever is held, damaged or cut off: the invariant.
THEOREM SettingsInvariant == SettingsSpec => []SettingsInv
BY SettingsInitInv, SettingsStepInv, PTL DEF SettingsSpec

\* Once backed up, the user's settings are in one of the files until a launch
\* takes defaults for them (config_save.rs): in the backup, which only sessions
\* that hold them write.
THEOREM SettingsStay == SettingsSpec => []SettingsStayUntilUnfound
<1>1. SettingsInv => SettingsStayUntilUnfound
  BY DEF SettingsInv, BackupKept, SettingsStayUntilUnfound, File
<1> QED
  BY SettingsInvariant, <1>1, PTL
=============================================================================
