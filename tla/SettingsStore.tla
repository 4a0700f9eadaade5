---------------------------- MODULE SettingsStore ----------------------------
(***************************************************************************)
(* config.json and its backup: a launch that reads, restores or sets aside *)
(* what it finds, and saves that overlap (the settings form, the window    *)
(* geometry, the engine registration), with locks other programs take on   *)
(* the files, crashes, and damage found at a launch.                       *)
(*                                                                         *)
(* Of what a file holds the model keeps whether it can be parsed and       *)
(* whether it is a copy of the user's settings, of some date, or was made  *)
(* from the factory defaults. A session is the installed application's.    *)
(***************************************************************************)
EXTENDS Naturals, FiniteSets

CONSTANTS
  Saver,       \* the saves that may overlap
  MaxSaves,    \* bound on saves
  MaxLaunches, \* bound on launches
  MaxLocks,    \* bound on locks taken by another program
  MaxDamages   \* bound on files damaged

ASSUME SettingsAssumption ==
  /\ Saver # {} /\ {MaxSaves, MaxLaunches, MaxLocks, MaxDamages} \subseteq Nat

File == {"config", "backup"}
Held == {"users", "defaults"}            \* what parses as a config
Content == Held \cup {"corrupt", "none"}

VARIABLES
  disk,     \* per file: its content
  locked,   \* the files another program holds
  live,     \* the configuration in memory
  origin,   \* SESSION_PROVENANCE, "off" with no session, "restoring" in load_durable
  save,     \* per saver: its step and the content it carries
  had,      \* the user's settings have once been in the backup
  unfound,  \* a launch has taken defaults for the settings of a user who had some
  left      \* what the environment may still do

settingsVars == <<disk, locked, live, origin, save, had, unfound, left>>

NoSave == [at |-> "idle", content |-> "none"]
Spend(what) == left' = [left EXCEPT ![what] = @ - 1]

SettingsInit ==
  /\ \/ disk = [f \in File |-> "users"] /\ had = TRUE
     \/ disk = [f \in File |-> "none"] /\ had = FALSE
  /\ locked = {} /\ live = "defaults" /\ origin = "off" /\ unfound = FALSE
  /\ save = [s \in Saver |-> NoSave]
  /\ left = [saves |-> MaxSaves, launches |-> MaxLaunches, locks |-> MaxLocks,
             damages |-> MaxDamages]

\* What reading a file says, after its retries: a file that is there and held
\* by another program is unreadable, whatever it holds.
Outcome(f) == IF f \in locked /\ disk[f] # "none" THEN "unreadable" ELSE disk[f]

\* The backup after a copy of c was staged and renamed over it; with the file
\* held the rename fails and is logged.
Refreshed(c) == [disk EXCEPT !.backup = IF "backup" \in locked THEN @ ELSE c]

\* A file replaced by a rename: not at all when another program holds it.
Replaced(c) == {disk, [disk EXCEPT !.config = IF "config" \in locked THEN @ ELSE c]}
-----------------------------------------------------------------------------
(* A launch.                                                               *)

Starts(config, provenance) == live' = config /\ origin' = provenance

\* config.json parses: it is the session's, and the backup is made of it.
LaunchClean ==
  /\ Outcome("config") \in Held
  /\ Starts(disk.config, "authoritative")
  /\ disk' = Refreshed(disk.config)
  /\ had' = (had \/ disk'.backup = "users")
  /\ unfound' = (unfound \/ (had /\ disk.config # "users"))

\* mutant: a missing config.json is a first run, backup or not
LaunchMissingAsFirstRun ==
  /\ disk.config = "none"
  /\ Starts(IF had THEN "defaults" ELSE "users", "authoritative") /\ UNCHANGED <<disk, unfound>>
  /\ UNCHANGED had

\* No config.json: the backup is restored. Without a usable one it is a first
\* run, on defaults the user then makes theirs.
LaunchMissing ==
  /\ disk.config = "none"
  /\ IF Outcome("backup") \in Held
     THEN /\ Starts(disk.backup, "fallback") /\ disk' \in Replaced(disk.backup)
          /\ UNCHANGED unfound
     ELSE /\ Starts(IF had THEN "defaults" ELSE "users", "authoritative")
          /\ UNCHANGED disk /\ unfound' = (unfound \/ had)
  /\ UNCHANGED had

\* config.json is held or corrupt. With a backup, a held one is left alone and
\* a corrupt one is first set aside (SettingsRestored writes the backup in its
\* place). With none the session runs on defaults; a corrupt config.json is
\* set aside unless the backup is only held.
LaunchUnusable ==
  /\ Outcome("config") \in {"unreadable", "corrupt"}
  /\ IF Outcome("backup") \in Held
     THEN IF Outcome("config") = "unreadable"
          THEN Starts(disk.backup, "fallback") /\ UNCHANGED disk
          ELSE /\ Starts(disk.backup, "restoring")
               /\ disk' \in {disk, [disk EXCEPT !.config = "none"]}
     ELSE /\ Starts("defaults", "fallback")
          /\ disk' \in {disk} \cup
               (IF Outcome("config") = "corrupt" /\ Outcome("backup") # "unreadable"
                THEN {[disk EXCEPT !.config = "none"]} ELSE {})
  /\ UNCHANGED <<had, unfound>>

Launch ==
  /\ origin = "off" /\ left.launches > 0 /\ Spend("launches")
  /\ LaunchClean \/ LaunchMissing \/ LaunchUnusable
  /\ UNCHANGED <<locked, save>>

\* The recovered configuration is written back at once, or cannot be.
Restores ==
  /\ origin = "restoring" /\ origin' = "fallback"
  /\ disk' \in Replaced(live)
  /\ UNCHANGED <<locked, live, save, had, unfound, left>>
-----------------------------------------------------------------------------
(* Saves.                                                                  *)

Step(s, at, content) == save' = [save EXCEPT ![s] = [at |-> at, content |-> content]]

\* Whether the session may replace what is on disk: never a file it cannot
\* read, and as a fallback no file that can be read again.
SaveBegins(s) ==
  /\ origin \in {"authoritative", "fallback"} /\ save[s] = NoSave
  /\ left.saves > 0 /\ Spend("saves")
  /\ IF \/ Outcome("config") = "unreadable"
        \/ origin = "fallback" /\ Outcome("config") \in Held
     THEN UNCHANGED save
     ELSE Step(s, "write", live)
  /\ UNCHANGED <<disk, locked, live, origin, had, unfound>>

\* mutant: the backup is refreshed by every session
SaveWritesAndRefreshes(s) ==
  /\ save[s].at = "write"
  /\ \/ /\ "config" \notin locked /\ disk' = [disk EXCEPT !.config = save[s].content]
        /\ Step(s, "copy", "none")
     \/ UNCHANGED disk /\ Step(s, "idle", "none")
  /\ UNCHANGED <<locked, live, origin, had, unfound, left>>

\* The file is replaced in one rename, another save having perhaps come in
\* between, or the save fails. Only a session that read its config goes on to
\* the backup.
SaveWrites(s) ==
  /\ save[s].at = "write"
  /\ \/ /\ "config" \notin locked /\ disk' = [disk EXCEPT !.config = save[s].content]
        /\ Step(s, IF origin = "authoritative" THEN "copy" ELSE "idle", "none")
     \/ UNCHANGED disk /\ Step(s, "idle", "none")
  /\ UNCHANGED <<locked, live, origin, had, unfound, left>>

\* What is in config.json then, which may be another save's, is staged under a
\* name of this save's own and renamed over the backup.
RefreshesBackup(s) ==
  /\ \/ /\ save[s].at = "copy"
        /\ Step(s, IF Outcome("config") \in {"unreadable", "none"} THEN "idle" ELSE "rename",
                IF Outcome("config") \in {"unreadable", "none"} THEN "none" ELSE disk.config)
        /\ UNCHANGED <<disk, had>>
     \/ /\ save[s].at = "rename"
        /\ disk' = Refreshed(save[s].content) /\ had' = (had \/ disk'.backup = "users")
        /\ Step(s, "idle", "none")
  /\ UNCHANGED <<locked, live, origin, unfound, left>>
-----------------------------------------------------------------------------
(* The environment.                                                        *)

\* The application ends, by a crash or without one: staged files are left.
Quits ==
  /\ origin # "off" /\ origin' = "off"
  /\ save' = [s \in Saver |-> NoSave]
  /\ UNCHANGED <<disk, locked, live, had, unfound, left>>

\* A scanner, a sync client or a backup agent holds a file for a while.
Locks ==
  /\ \/ /\ left.locks > 0 /\ Spend("locks")
        /\ \E f \in File \ locked : locked' = locked \cup {f}
     \/ UNCHANGED left /\ \E f \in locked : locked' = locked \ {f}
  /\ UNCHANGED <<disk, live, origin, save, had, unfound>>

\* config.json is damaged while no save of the application is at work on it.
Damages ==
  /\ left.damages > 0 /\ Spend("damages")
  /\ disk.config \in Held /\ "config" \notin locked /\ \A s \in Saver : save[s] = NoSave
  /\ disk' = [disk EXCEPT !.config = "corrupt"]
  /\ UNCHANGED <<locked, live, origin, save, had, unfound>>

SettingsNext ==
  \/ Launch \/ Restores \/ Quits \/ Locks \/ Damages
  \/ \E s \in Saver : SaveBegins(s) \/ SaveWrites(s) \/ RefreshesBackup(s)

\* Nothing is promised to happen: an application may never be launched again.
SettingsSpec == SettingsInit /\ [][SettingsNext]_settingsVars
-----------------------------------------------------------------------------
(* Properties.                                                             *)

SettingsTypeOK ==
  /\ disk \in [File -> Content] /\ locked \subseteq File /\ live \in Held
  /\ origin \in {"off", "restoring", "authoritative", "fallback"}
  /\ save \in [Saver -> [at : {"idle", "write", "copy", "rename"}, content : Content]]
  /\ had \in BOOLEAN /\ unfound \in BOOLEAN
  /\ left \in [{"saves", "launches", "locks", "damages"} ->
                 0 .. MaxSaves + MaxLaunches + MaxLocks + MaxDamages]

\* Once backed up, the user's settings stay in one of the files: a session
\* that fell back does not destroy them, nor does what follows it
\* (config_save.rs:13-24 and :103-106, config_store.rs:348-351; #64, #69).
\* The code does not keep this: a corrupt config.json with its backup held
\* makes a session on defaults, whose save writes them to config.json, and the
\* next launch takes that for the settings and backs it up.
SettingsSurvive == had => "users" \in {disk[f] : f \in File}

\* The same up to the launch that takes defaults for the settings of a user
\* who had some: it finds config.json as a session on defaults saved it, or
\* finds none and no usable backup. Until then no damage, lock, crash, save or
\* overlap of two saves takes the settings out of both files.
SettingsStayUntilUnfound == had /\ ~unfound => "users" \in {disk[f] : f \in File}
=============================================================================
