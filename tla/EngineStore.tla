---------------------------- MODULE EngineStore -----------------------------
(***************************************************************************)
(* One installation root of the translation engine and the Core processes *)
(* that share it: leases on assets.lock, the verified start of an engine,  *)
(* install and repair with their promotion, record and commit, and the     *)
(* reclaim a newer Core runs on an older root.                             *)
(*                                                                         *)
(* A file is absent, matches the manifest, or has the right size and other *)
(* bytes. A crash is possible between any two steps; a step that removes a *)
(* file and then renames another over it may also fail in between.         *)
(***************************************************************************)
EXTENDS Integers

CONSTANTS
  Core,         \* Core processes of this version
  Reclaimer,    \* Core processes of a newer version that reclaim this root
  MaxTroubles,  \* bound on crashes, failed operations and damage together
  MaxReclaims,  \* bound on reclaims
  UnlinkRaces   \* TRUE: assets.lock may lose its name while somebody has it open

ASSUME StoreAssumption ==
  /\ Core \cap Reclaimer = {}
  /\ {MaxTroubles, MaxReclaims} \subseteq Nat
  /\ UnlinkRaces \in BOOLEAN

VARIABLES
  pc, task,          \* per process: the next step, and for whom it is taken
  lease,             \* per process: the lock file it has open and its lock on it
  lockFile, lockGen, \* the file named assets.lock (0: none), files ever made
  archive, asset,    \* the runtime archive; runtime directory and model
  record,            \* install-state.v1.json and its backup
  need, promoted,    \* per Core: assets to promote, and those with their fate
  left               \* what the environment may still do

storeDisk == <<archive, asset, record>>
storeLock == <<lease, lockFile, lockGen>>
storeWork == <<task, need, promoted>>
storeVars == <<pc, storeLock, storeDisk, storeWork, left>>

Proc == Core \cup Reclaimer
Asset == {"runtime", "model"}
Content == {"none", "good", "corrupt"}
AssetFiles == [final : Content, backup : Content, candidate : Content]

NoLease == [file |-> 0, mode |-> "none"]
Empty == [final |-> "none", backup |-> "none", candidate |-> "none"]

\* storage::verify: archive, executable and tree against the archive, model
RuntimeVerified == archive = "good" /\ asset["runtime"].final = "good"
Whole == RuntimeVerified /\ asset["model"].final = "good"
Recorded == record.main \/ record.backup

Holds(p) == lease[p].mode \in {"shared", "exclusive"}

\* mutant: writers exclude only each other
CompatibleWriters(p, mode) ==
  mode = "exclusive" =>
    \A q \in Proc \ {p} :
       ~(lease[q].mode = "exclusive" /\ lease[q].file = lease[p].file)

\* Windows and Unix lock the open file, whatever name it has by now.
Compatible(p, mode) ==
  \A q \in Proc \ {p} :
     (Holds(q) /\ lease[q].file = lease[p].file) =>
        mode = "shared" /\ lease[q].mode = "shared"

StoreInit ==
  /\ pc = [p \in Proc |-> "idle"]
  /\ task = [p \in Core |-> "none"]
  /\ lease = [p \in Proc |-> NoLease]
  /\ lockFile = 0 /\ lockGen = 0
  /\ need = [p \in Core |-> {}]
  /\ promoted = [p \in Core |-> {}]
  /\ left = [trouble |-> MaxTroubles, reclaim |-> MaxReclaims]
  /\ \/ /\ archive = "none"
        /\ asset = [a \in Asset |-> Empty]
        /\ record = [main |-> FALSE, backup |-> FALSE]
     \/ /\ archive = "good"
        /\ asset = [a \in Asset |-> [Empty EXCEPT !.final = "good"]]
        /\ record = [main |-> TRUE, backup |-> FALSE]

-----------------------------------------------------------------------------
(* Steps that several operations share.                                    *)

Goto(p, step) == pc' = [pc EXCEPT ![p] = step]
Release(p) == lease' = [lease EXCEPT ![p] = NoLease]
            /\ UNCHANGED <<lockFile, lockGen>>
Spend(what) == left[what] > 0 /\ left' = [left EXCEPT ![what] = @ - 1]

\* The request ends: its lease, if it had one, and what it knew are dropped.
Finish(p) ==
  /\ Goto(p, "idle") /\ Release(p)
  /\ task' = [task EXCEPT ![p] = "none"]
  /\ need' = [need EXCEPT ![p] = {}]
  /\ promoted' = [promoted EXCEPT ![p] = {}]

\* A file operation or a check of the system fails.
Fail(p) == Spend("trouble") /\ Finish(p) /\ UNCHANGED storeDisk

\* A failure inside installer::install is answered by recover_active.
FailInstall(p) ==
  /\ Spend("trouble") /\ Goto(p, "recover_active")
  /\ UNCHANGED <<storeLock, storeDisk, storeWork>>

\* mutant: a file opened is always taken for a new one
OpenLockAnew(p) ==
  /\ pc[p] = "open_read" /\ Goto(p, "wait_read")
  /\ lockFile' = lockFile + 1
  /\ lease' = [lease EXCEPT ![p] = [file |-> lockFile', mode |-> "wait"]]
  /\ UNCHANGED <<lockGen, storeDisk, storeWork, left>>

\* Lease::acquire, first half: the file is opened, and made when absent.
OpenLock(p) ==
  /\ pc[p] \in {"open_read", "open_repair", "open_again", "open_install", "open_reclaim"}
  /\ lockGen' = IF lockFile = 0 THEN lockGen + 1 ELSE lockGen
  /\ lockFile' = IF lockFile = 0 THEN lockGen + 1 ELSE lockFile
  /\ lease' = [lease EXCEPT ![p] = [file |-> lockFile', mode |-> "wait"]]
  /\ pc' = [pc EXCEPT ![p] =
       CASE pc[p] = "open_read"    -> "wait_read"
         [] pc[p] = "open_repair"  -> "wait_repair"
         [] pc[p] = "open_again"   -> "wait_again"
         [] pc[p] = "open_install" -> "wait_install"
         [] OTHER                  -> "wait_reclaim"]
  /\ UNCHANGED <<storeDisk, storeWork, left>>

Waiting == {"wait_read", "wait_repair", "wait_again", "wait_install", "wait_reclaim"}
ModeOf(step) == IF step \in {"wait_read", "wait_again"} THEN "shared" ELSE "exclusive"
AfterLock == [wait_read |-> "verify", wait_repair |-> "reverify", wait_again |-> "verify_again",
              wait_install |-> "recover_runtime", wait_reclaim |-> "retain_or_remove"]

\* Second half: one successful try_lock in the polling loop.
LockGranted(p) ==
  /\ pc[p] \in Waiting
  /\ Compatible(p, ModeOf(pc[p]))
  /\ lease' = [lease EXCEPT ![p].mode = ModeOf(pc[p])]
  /\ Goto(p, AfterLock[pc[p]])
  /\ UNCHANGED <<lockFile, lockGen, storeDisk, storeWork, left>>

\* mutant: the wait has no budget
LockBusyNever(p) == FALSE

\* CORE_ASSETS_BUSY: the budget (ten seconds, none for reclaim) is over.
LockBusy(p) ==
  /\ pc[p] \in Waiting
  /\ ~Compatible(p, ModeOf(pc[p]))
  /\ IF p \in Core THEN Finish(p)
                   ELSE Goto(p, "idle") /\ Release(p) /\ UNCHANGED storeWork
  /\ UNCHANGED <<storeDisk, left>>

-----------------------------------------------------------------------------
(* ready                                                                   *)

\* An engine already running and healthy answers without a step.
BeginReady(p) ==
  /\ pc[p] \in {"idle", "serving"}
  /\ Goto(p, "open_read") /\ Release(p)
  /\ task' = [task EXCEPT ![p] = "ready"]
  /\ UNCHANGED <<need, promoted, storeDisk, left>>

Verify(p) ==
  /\ pc[p] = "verify"
  /\ IF Whole THEN Goto(p, "start") /\ UNCHANGED storeLock
              ELSE Goto(p, "open_repair") /\ Release(p)
  /\ UNCHANGED <<storeDisk, storeWork, left>>

Reverify(p) ==
  /\ pc[p] = "reverify"
  /\ IF Whole THEN Goto(p, "open_again") /\ Release(p)
              ELSE Goto(p, "recover_runtime") /\ UNCHANGED storeLock
  /\ UNCHANGED <<storeDisk, storeWork, left>>

\* mutant: the files are taken as the repair left them
VerifyAgainTrusts(p) ==
  /\ pc[p] = "verify_again" /\ Goto(p, "start")
  /\ UNCHANGED <<storeLock, storeWork, storeDisk, left>>

VerifyAgain(p) ==
  /\ pc[p] = "verify_again"
  /\ IF Whole THEN Goto(p, "start") /\ UNCHANGED <<storeLock, storeWork>>
              ELSE Finish(p)
  /\ UNCHANGED <<storeDisk, left>>

Start(p) ==
  /\ pc[p] = "start"
  /\ \/ /\ Goto(p, "serving")
        /\ task' = [task EXCEPT ![p] = "none"]
        /\ need' = [need EXCEPT ![p] = {}]
        /\ promoted' = [promoted EXCEPT ![p] = {}]
        /\ UNCHANGED <<storeLock, storeDisk, left>>
     \/ Fail(p)

\* shutdown, or a completion that finds its engine unhealthy
StopServing(p) ==
  /\ pc[p] = "serving"
  /\ Goto(p, "idle") /\ Release(p)
  /\ UNCHANGED <<storeDisk, storeWork, left>>

-----------------------------------------------------------------------------
(* install, and the repair that ready falls back to                        *)

BeginInstall(p) ==
  /\ pc[p] \in {"idle", "serving"}
  /\ Goto(p, "open_install") /\ Release(p)
  /\ task' = [task EXCEPT ![p] = "install"]
  /\ UNCHANGED <<need, promoted, storeDisk, left>>

AfterRecover == [recover_runtime |-> "recover_model", recover_model |-> "cleanup"]
RecoveredAsset == [recover_runtime |-> "runtime", recover_model |-> "model"]

\* mutant: a backup left behind is taken for garbage
RecoverPendingDrops(p) ==
  /\ pc[p] \in DOMAIN AfterRecover
  /\ asset' = [asset EXCEPT ![RecoveredAsset[pc[p]]].backup = "none"]
  /\ Goto(p, AfterRecover[pc[p]])
  /\ UNCHANGED <<storeLock, archive, record, storeWork, left>>

\* recover_interrupted_promotion: a backup that exists wins over the file
\* that has the name; the file is removed first, then the backup renamed.
RecoverPending(p) ==
  /\ pc[p] \in DOMAIN AfterRecover
  /\ LET a == RecoveredAsset[pc[p]] IN
     \/ /\ asset[a].backup = "none"
        /\ Goto(p, AfterRecover[pc[p]])
        /\ UNCHANGED <<storeLock, storeDisk, storeWork, left>>
     \/ /\ asset[a].backup # "none" /\ asset[a].final # "none"
        /\ asset' = [asset EXCEPT ![a].final = "none"]
        /\ UNCHANGED <<pc, storeLock, archive, record, storeWork, left>>
     \/ /\ asset[a].backup # "none" /\ asset[a].final = "none"
        /\ asset' = [asset EXCEPT ![a].final = asset[a].backup, ![a].backup = "none"]
        /\ Goto(p, AfterRecover[pc[p]])
        /\ UNCHANGED <<storeLock, archive, record, storeWork, left>>
     \/ asset[a].backup # "none" /\ Fail(p)

CleanupStaging(p) ==
  /\ pc[p] = "cleanup"
  /\ asset' = [a \in Asset |-> [asset[a] EXCEPT !.candidate = "none"]]
  /\ Goto(p, "import")
  /\ UNCHANGED <<storeLock, archive, record, storeWork, left>>

\* The verified files other roots may offer: own versions, other clients',
\* legacy applications. They change under their own leases: any subset.
ImportSources == SUBSET {"archive", "model"}

\* promote_import gives up between the removal of the target and the rename.
HalfImported(old, new) == IF new = old THEN {} ELSE {"none"}

\* import_legacy: what is verified elsewhere replaces what is not verified
\* here; ready imports only when that makes the installation complete.
Import(p) ==
  /\ pc[p] = "import"
  /\ \E elsewhere \in ImportSources :
       LET hasArchive == archive = "good" \/ "archive" \in elsewhere
           hasModel == asset["model"].final = "good" \/ "model" \in elsewhere
           newArchive == IF hasArchive THEN "good" ELSE archive
           newModel == IF hasModel THEN "good" ELSE asset["model"].final
       IN \/ /\ task[p] = "ready" => hasArchive /\ hasModel
             /\ archive' = newArchive
             /\ asset' = [asset EXCEPT !["model"].final = newModel]
             /\ Goto(p, "inspect")
             /\ UNCHANGED <<storeLock, record, storeWork, left>>
          \/ /\ task[p] = "ready" /\ ~(hasArchive /\ hasModel)
             /\ Finish(p)
             /\ UNCHANGED <<storeDisk, left>>
          \* promote_import fails between the removal and the rename
          \/ /\ Spend("trouble") /\ Finish(p)
             /\ \/ archive' \in HalfImported(archive, newArchive) /\ UNCHANGED asset
                \/ \E gone \in HalfImported(asset["model"].final, newModel) :
                     /\ archive' = newArchive
                     /\ asset' = [asset EXCEPT !["model"].final = gone]
             /\ UNCHANGED record

\* install_candidate up to the preflight; nothing is pending by now.
Inspect(p) ==
  /\ pc[p] = "inspect"
  /\ need' = [need EXCEPT ![p] = (IF RuntimeVerified THEN {} ELSE {"runtime"}) \cup
                                 (IF asset["model"].final = "good" THEN {} ELSE {"model"})]
  /\ promoted' = [promoted EXCEPT ![p] = {}]
  /\ Goto(p, "stage_archive")
  /\ UNCHANGED <<storeLock, storeDisk, task, left>>

\* download_file failed: the part file never has the target's name, but the
\* target may be gone already.
DownloadFailed(old) == {old, "none"}

\* extract_zip of a verified archive gives the runtime tree verify_runtime expects.
Extracted(zip) == zip

\* An archive that does not verify is downloaded, by install only.
StageArchive(p) ==
  /\ pc[p] = "stage_archive"
  /\ \/ /\ "runtime" \notin need[p] \/ archive = "good"
        /\ Goto(p, "stage_runtime")
        /\ UNCHANGED <<storeLock, storeDisk, storeWork, left>>
     \/ /\ "runtime" \in need[p] /\ archive # "good" /\ task[p] = "install"
        /\ archive' = "good" /\ Goto(p, "stage_runtime")
        /\ UNCHANGED <<storeLock, asset, record, storeWork, left>>
     \/ /\ "runtime" \in need[p] /\ archive # "good" /\ task[p] = "ready"
        /\ Goto(p, "recover_active")
        /\ UNCHANGED <<storeLock, storeDisk, storeWork, left>>
     \* the download fails, before or after the old archive is removed
     \/ /\ "runtime" \in need[p] /\ archive # "good" /\ task[p] = "install"
        /\ Spend("trouble") /\ archive' \in DownloadFailed(archive) /\ Goto(p, "recover_active")
        /\ UNCHANGED <<storeLock, asset, record, storeWork>>

\* reset_candidate, extract_zip and the hash of the extracted executable
StageRuntime(p) ==
  /\ pc[p] = "stage_runtime"
  /\ \/ /\ asset' = IF "runtime" \in need[p]
                    THEN [asset EXCEPT !["runtime"].candidate = Extracted(archive)] ELSE asset
        /\ Goto(p, "stage_model")
        /\ UNCHANGED <<storeLock, archive, record, storeWork, left>>
     \/ "runtime" \in need[p] /\ FailInstall(p)

StageModel(p) ==
  /\ pc[p] = "stage_model"
  /\ \/ /\ "model" \notin need[p] /\ Goto(p, "sample")
        /\ UNCHANGED <<storeLock, storeDisk, storeWork, left>>
     \/ /\ "model" \in need[p] /\ task[p] = "install"
        /\ asset' = [asset EXCEPT !["model"].candidate = "good"]
        /\ Goto(p, "sample")
        /\ UNCHANGED <<storeLock, archive, record, storeWork, left>>
     \/ /\ "model" \in need[p] /\ task[p] = "ready"
        /\ Goto(p, "recover_active")
        /\ UNCHANGED <<storeLock, storeDisk, storeWork, left>>
     \/ "model" \in need[p] /\ task[p] = "install" /\ FailInstall(p)

\* An engine is started from the staged files and translates one line.
VerifySample(p) ==
  /\ pc[p] = "sample"
  /\ \/ Goto(p, "promote") /\ UNCHANGED <<storeLock, storeDisk, storeWork, left>>
     \/ FailInstall(p)

\* The runtime is promoted before the model.
ToPromote(p) == need[p] \ promoted[p]
NextAsset(p) == IF "runtime" \in ToPromote(p) THEN "runtime" ELSE "model"

\* final -> .rollback. The early return of a failed rename rolls nothing back.
PromoteAside(p) ==
  /\ pc[p] = "promote"
  /\ IF ToPromote(p) = {}
     THEN Goto(p, "record") /\ UNCHANGED <<storeLock, storeDisk, storeWork, left>>
     ELSE LET a == NextAsset(p) IN
          \/ /\ asset' = [asset EXCEPT ![a].backup = asset[a].final, ![a].final = "none"]
             /\ Goto(p, "promote_candidate")
             /\ UNCHANGED <<storeLock, archive, record, storeWork, left>>
          \/ asset[a].final # "none" /\ FailInstall(p)

\* candidate -> final. On failure this asset's backup goes back, then the others'.
PromoteCandidate(p) ==
  /\ pc[p] = "promote_candidate"
  /\ LET a == NextAsset(p) IN
     \/ /\ asset' = [asset EXCEPT ![a].final = asset[a].candidate, ![a].candidate = "none"]
        /\ promoted' = [promoted EXCEPT ![p] = @ \cup {a}]
        /\ Goto(p, "promote")
        /\ UNCHANGED <<storeLock, archive, record, task, need, left>>
     \/ /\ Spend("trouble")
        /\ asset' = [asset EXCEPT ![a].final = asset[a].backup, ![a].backup = "none"]
        /\ Goto(p, "rollback")
        /\ UNCHANGED <<storeLock, archive, record, storeWork>>

\* write_state: recover the file, set it aside, give its successor the name,
\* drop the old one. An error rolls the promotion back.
RecordAside(p) ==
  /\ pc[p] = "record"
  /\ \/ /\ record' = [main |-> FALSE, backup |-> Recorded]
        /\ Goto(p, "record_write")
        /\ UNCHANGED <<storeLock, archive, asset, storeWork, left>>
     \/ /\ Spend("trouble") /\ Goto(p, "rollback")
        /\ UNCHANGED <<storeLock, storeDisk, storeWork>>

RecordWrite(p) ==
  /\ pc[p] = "record_write"
  /\ \/ /\ record' = [record EXCEPT !.main = TRUE]
        /\ Goto(p, "record_clean")
        /\ UNCHANGED <<storeLock, archive, asset, storeWork, left>>
     \/ /\ Spend("trouble") /\ Goto(p, "rollback")
        /\ record' = [main |-> record.backup, backup |-> FALSE]
        /\ UNCHANGED <<storeLock, archive, asset, storeWork>>

RecordClean(p) ==
  /\ pc[p] = "record_clean"
  /\ \/ /\ record' = [record EXCEPT !.backup = FALSE]
        /\ Goto(p, "commit")
        /\ UNCHANGED <<storeLock, archive, asset, storeWork, left>>
     \/ /\ record.backup /\ Spend("trouble") /\ Goto(p, "rollback")
        /\ UNCHANGED <<storeLock, storeDisk, storeWork>>

\* rollback_assets ignores its own errors: a file may stay under its backup
\* name, or a runtime directory that cannot be removed keep its name.
RolledBack(p, lost, kept) ==
  [a \in Asset |->
     IF a \in lost THEN [asset[a] EXCEPT !.final = "none"]
     ELSE IF a \in promoted[p] \ kept
          THEN [asset[a] EXCEPT !.final = asset[a].backup, !.backup = "none"]
     ELSE asset[a]]

Rollback(p) ==
  /\ pc[p] = "rollback"
  /\ \/ asset' = RolledBack(p, {}, {}) /\ UNCHANGED left
     \/ /\ Spend("trouble")
        /\ \E lost \in SUBSET promoted[p], kept \in SUBSET (promoted[p] \cap {"runtime"}) :
             asset' = RolledBack(p, lost \ kept, kept)
  /\ Goto(p, "recover_active")
  /\ UNCHANGED <<storeLock, archive, record, storeWork>>

\* Promotion::commit removes the backups in order; an error leaves the rest.
Commit(p) ==
  /\ pc[p] = "commit"
  /\ \/ /\ asset' = [a \in Asset |-> IF a \in promoted[p]
                                     THEN [asset[a] EXCEPT !.backup = "none"] ELSE asset[a]]
        /\ Goto(p, "installed")
        /\ UNCHANGED <<storeLock, archive, record, storeWork, left>>
     \/ /\ Spend("trouble") /\ Goto(p, "recover_active")
        /\ \E cleared \in {{}, {"runtime"}} :
             asset' = [a \in Asset |-> IF a \in promoted[p] \cap cleared
                                       THEN [asset[a] EXCEPT !.backup = "none"] ELSE asset[a]]
        /\ UNCHANGED <<storeLock, archive, record, storeWork>>

\* mutant: the record alone is believed
RecoverActiveBelieves(p) ==
  /\ pc[p] = "recover_active"
  /\ IF Recorded THEN Goto(p, "installed") /\ UNCHANGED <<storeLock, storeWork>>
                 ELSE Finish(p)
  /\ UNCHANGED <<storeDisk, left>>

\* The error path of install_with_download_policy.
RecoverActive(p) ==
  /\ pc[p] = "recover_active"
  /\ IF Recorded /\ Whole
     THEN Goto(p, "installed") /\ UNCHANGED <<storeLock, storeWork>>
     ELSE Finish(p)
  /\ UNCHANGED <<storeDisk, left>>

Installed(p) ==
  /\ pc[p] = "installed"
  /\ IF task[p] = "install" THEN Finish(p)
     ELSE Goto(p, "open_again") /\ Release(p) /\ UNCHANGED storeWork
  /\ UNCHANGED <<storeDisk, left>>

-----------------------------------------------------------------------------
(* Reclaim of this root by a newer Core, and the environment.              *)

BeginReclaim(r) ==
  /\ pc[r] = "idle" /\ Spend("reclaim")
  /\ Goto(r, "open_reclaim")
  /\ UNCHANGED <<storeLock, storeDisk, storeWork>>

\* The newest complete root is kept; it and roots of other clients get a
\* model linked to the newer Core's, which changes no content.
RetainOrRemove(r) ==
  /\ pc[r] = "retain_or_remove"
  /\ \/ /\ Goto(r, "idle") /\ Release(r)
        /\ Recorded /\ \A a \in Asset : asset[a].final # "none"
        /\ UNCHANGED <<storeDisk, left>>
     \/ /\ Goto(r, "unlink") /\ Release(r)
        /\ archive' = "none" /\ asset' = [a \in Asset |-> Empty]
        /\ record' = [main |-> FALSE, backup |-> FALSE]
        /\ UNCHANGED left
     \/ /\ Spend("trouble") /\ Goto(r, "idle") /\ Release(r)
        /\ archive' = "none" /\ UNCHANGED <<asset, record>>
  /\ UNCHANGED storeWork

\* The lease is gone by now. Where nobody else has the file open the order
\* of drop and remove makes no difference.
UnlinkLock(r) ==
  /\ pc[r] = "unlink"
  /\ lockFile' = IF UnlinkRaces \/ \A q \in Proc \ {r} : lease[q] = NoLease
                 THEN 0 ELSE lockFile
  /\ Goto(r, "idle")
  /\ UNCHANGED <<lease, lockGen, storeDisk, storeWork, left>>

\* INSTALL_TIMEOUT and READY_TIMEOUT end the process like a kill does; the
\* job object takes the engine with it and the system drops the lock.
Crash(p) ==
  /\ pc[p] # "idle" /\ Spend("trouble")
  /\ Finish(p) /\ UNCHANGED storeDisk

\* A file goes bad while nobody uses the installation.
Damage ==
  /\ \A p \in Proc : ~Holds(p)
  /\ Spend("trouble")
  /\ \E bad \in {"none", "corrupt"} :
       \/ archive' = bad /\ UNCHANGED asset
       \/ \E a \in Asset : asset[a].final # "none"
            /\ asset' = [asset EXCEPT ![a].final = bad] /\ UNCHANGED archive
  /\ UNCHANGED <<pc, storeLock, record, storeWork>>

Locks(p) == OpenLock(p) \/ LockGranted(p) \/ LockBusy(p)
Ready(p) == Verify(p) \/ Reverify(p) \/ VerifyAgain(p) \/ Start(p)
Stage(p) == \/ Inspect(p) \/ StageArchive(p) \/ StageRuntime(p) \/ StageModel(p)
            \/ VerifySample(p)
Promote(p) == PromoteAside(p) \/ PromoteCandidate(p)
Record(p) == RecordAside(p) \/ RecordWrite(p) \/ RecordClean(p)

CoreStep(p) ==
  \/ Locks(p) \/ Ready(p)
  \/ RecoverPending(p) \/ CleanupStaging(p) \/ Import(p) \/ Stage(p)
  \/ Promote(p) \/ Record(p)
  \/ Rollback(p) \/ Commit(p) \/ RecoverActive(p) \/ Installed(p)

Reclaim(r) == BeginReclaim(r) \/ RetainOrRemove(r) \/ UnlinkLock(r)

StoreNext ==
  \/ \E p \in Core : CoreStep(p) \/ BeginReady(p) \/ BeginInstall(p) \/ StopServing(p) \/ Crash(p)
  \/ \E r \in Reclaimer : Locks(r) \/ Reclaim(r)
  \/ Damage

StoreSpec == StoreInit /\ [][StoreNext]_storeVars
StoreFairness == \A p \in Core : WF_storeVars(CoreStep(p))
StoreFairSpec == StoreSpec /\ StoreFairness

-----------------------------------------------------------------------------
(* Properties                                                              *)

Steps == {"idle", "serving", "start", "verify", "reverify", "verify_again",
          "open_read", "open_repair", "open_again", "open_install", "open_reclaim",
          "recover_runtime", "recover_model", "cleanup", "import", "inspect",
          "stage_archive", "stage_runtime", "stage_model", "sample", "promote",
          "promote_candidate", "record", "record_write", "record_clean", "rollback",
          "commit", "recover_active", "installed", "retain_or_remove", "unlink"} \cup Waiting

\* Types of the store's state, the lock files numbered as they are made.
StoreTypeOK ==
  /\ pc \in [Proc -> Steps]
  /\ task \in [Core -> {"none", "ready", "install"}]
  /\ lease \in [Proc -> [file : Nat, mode : {"none", "wait", "shared", "exclusive"}]]
  /\ lockGen \in Nat /\ lockFile \in 0 .. lockGen
  /\ archive \in Content /\ asset \in [Asset -> AssetFiles]
  /\ record \in [main : BOOLEAN, backup : BOOLEAN]
  /\ need \in [Core -> SUBSET Asset] /\ promoted \in [Core -> SUBSET Asset]
  /\ left \in [trouble : Nat, reclaim : Nat]

\* The steps at which a Core holds the exclusive lease.
Repairing == {"reverify", "recover_runtime", "recover_model", "cleanup", "import", "inspect",
              "stage_archive", "stage_runtime", "stage_model", "sample", "promote",
              "promote_candidate", "record", "record_write", "record_clean", "rollback",
              "commit", "recover_active", "installed"}

\* One process cannot repair files that another process is executing.
NoRepairUnderAnEngine ==
  \A p, q \in Core : p # q /\ pc[p] \in Repairing => pc[q] # "serving"

\* The store keeps its contract: an engine starts only from verified files,
\* which then stay as they are until the last engine is gone.
Contract == INSTANCE StoreContract
  WITH whole <- Whole, running <- {p \in Core : pc[p] = "serving"}
ImplementsContract == Contract!ContractSpec

\* Where install is about to answer Ok every file is verified and the state
\* file names them, whatever failed on the way and was rolled back.
InstallOkMeansInstalled ==
  \A p \in Core : pc[p] = "installed" => Whole /\ Recorded

\* No step of an install, not even one that fails, loses the last verified
\* copy of an asset: only a rollback may, of what it had promoted itself, and
\* the recovery of a backup that does not verify.
VerifiedCopyKept ==
  [][\A a \in Asset :
       /\ "good" \in {asset[a].final, asset[a].backup}
       /\ IF \E p \in Core : pc[p] = "rollback" THEN asset[a].backup = "good"
                                              ELSE asset[a].backup # "corrupt"
       /\ \E p \in Core : pc'[p] # pc[p] /\ pc[p] \in Repairing
       => "good" \in {asset'[a].final, asset'[a].backup}]_storeVars

\* A request is answered: waiting for a lease has a budget, and no step of
\* an install waits for another process.
RequestsEnd == \A p \in Core : pc[p] \notin {"idle", "serving"} ~> pc[p] \in {"idle", "serving"}
=============================================================================
