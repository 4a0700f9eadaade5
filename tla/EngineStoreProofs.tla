-------------------------- MODULE EngineStoreProofs --------------------------
(***************************************************************************)
(* What holds of every instance of EngineStore: any set of Core processes  *)
(* and reclaimers, any number of crashes, failures and reclaims.           *)
(***************************************************************************)
EXTENDS EngineStore, TLAPS

\* The steps at which a process has no lease, has a file open, may read.
Free == {"idle", "open_read", "open_repair", "open_again", "open_install", "open_reclaim", "unlink"}
Reading == {"verify", "verify_again", "start", "serving"}
Writing == Repairing \cup {"retain_or_remove"}
ReclaimSteps == {"open_reclaim", "wait_reclaim", "retain_or_remove", "unlink"}

\* A step is taken with the lease it needs, on the file that has the name.
LeaseInv ==
  /\ \A p \in Proc :
       /\ pc[p] \in Free => lease[p] = NoLease
       /\ pc[p] \in Waiting => lease[p].mode = "wait"
       /\ pc[p] \in Reading => lease[p].mode = "shared"
       /\ pc[p] \in Writing => lease[p].mode = "exclusive"
       /\ lease[p].mode # "none" => lockFile # 0 /\ lease[p].file = lockFile
  /\ \A p \in Core : pc[p] \notin ReclaimSteps
  /\ \A p \in Reclaimer : pc[p] \in ReclaimSteps \cup {"idle"}

\* Who holds the lease exclusively is alone.
ExclusionInv ==
  \A p, q \in Proc : p # q /\ lease[p].mode = "exclusive" => ~Holds(q)

\* The steps of an install at which no backup is pending, in their order.
Recovered == {"cleanup", "import", "inspect", "stage_archive", "stage_runtime", "stage_model", "sample"}
Promoting == {"promote", "promote_candidate"}
Recording == {"record", "record_write", "record_clean", "commit"}

\* What was found missing, what is staged by now, what is promoted by now.
Missing(p) ==
  /\ "runtime" \in need[p] \/ RuntimeVerified
  /\ "model" \in need[p] \/ asset["model"].final = "good"
ArchiveStaged == archive = "good"
RuntimeStaged(p) == "runtime" \in need[p] => asset["runtime"].candidate = "good"
ModelStaged(p) == "model" \in need[p] => asset["model"].candidate = "good"
PartlyPromoted(p) ==
  /\ archive = "good" /\ promoted[p] \subseteq need[p]
  /\ \A a \in Asset :
       /\ a \in need[p] \ promoted[p] => asset[a].candidate = "good" /\ asset[a].backup = "none"
       /\ a \notin need[p] => asset[a].final = "good" /\ asset[a].backup = "none"
       /\ a \in promoted[p] => asset[a].final = "good"

\* What a Core knows of the files at the step it is at.
DiskInv(p) ==
  /\ pc[p] \in {"start", "serving"} => Whole
  /\ pc[p] = "recover_model" => asset["runtime"].backup = "none"
  /\ pc[p] \in Recovered => \A a \in Asset : asset[a].backup = "none"
  /\ pc[p] \in {"stage_archive", "stage_runtime", "stage_model", "sample"} =>
       Missing(p) /\ promoted[p] = {}
  /\ pc[p] \in {"stage_runtime", "stage_model", "sample"} => ArchiveStaged
  /\ pc[p] \in {"stage_model", "sample"} => RuntimeStaged(p)
  /\ pc[p] = "sample" => ModelStaged(p)
  /\ pc[p] = "promote" => PartlyPromoted(p)
  /\ pc[p] = "promote_candidate" =>
       /\ archive = "good" /\ promoted[p] \subseteq need[p] /\ ToPromote(p) # {}
       /\ asset[NextAsset(p)].final = "none" /\ asset[NextAsset(p)].candidate = "good"
       /\ \A a \in Asset \ {NextAsset(p)} :
            /\ a \in need[p] \ promoted[p] => asset[a].candidate = "good" /\ asset[a].backup = "none"
            /\ a \notin need[p] => asset[a].final = "good" /\ asset[a].backup = "none"
            /\ a \in promoted[p] => asset[a].final = "good"
  /\ pc[p] \in Recording => Whole
  /\ pc[p] \in {"record_clean", "commit"} => record.main
  /\ pc[p] = "installed" => Whole /\ Recorded

IInv == StoreTypeOK /\ LeaseInv /\ ExclusionInv /\ \A p \in Core : DiskInv(p)

-----------------------------------------------------------------------------
(* Type correctness                                                        *)

\* The four parts of the type invariant.
PcTyped == pc \in [Proc -> Steps]
LockTyped == /\ lease \in [Proc -> [file : Nat, mode : {"none", "wait", "shared", "exclusive"}]]
             /\ lockGen \in Nat /\ lockFile \in 0 .. lockGen
DiskTyped == /\ archive \in Content /\ asset \in [Asset -> AssetFiles]
             /\ record \in [main : BOOLEAN, backup : BOOLEAN]
WorkTyped == /\ task \in [Core -> {"none", "ready", "install"}]
             /\ need \in [Core -> SUBSET Asset] /\ promoted \in [Core -> SUBSET Asset]
LeftTyped == left \in [trouble : Nat, reclaim : Nat]

LEMMA TypeParts ==
  /\ StoreTypeOK <=> PcTyped /\ LockTyped /\ DiskTyped /\ WorkTyped /\ LeftTyped
  /\ StoreTypeOK' <=> PcTyped' /\ LockTyped' /\ DiskTyped' /\ WorkTyped' /\ LeftTyped'
BY DEF StoreTypeOK, PcTyped, LockTyped, DiskTyped, WorkTyped, LeftTyped

LEMMA StoreTypeInit == StoreInit => StoreTypeOK
<1> SUFFICES ASSUME StoreInit PROVE StoreTypeOK
  OBVIOUS
<1>1. PcTyped /\ LockTyped
  BY DEF StoreInit, PcTyped, LockTyped, Steps, NoLease
<1>2. DiskTyped
  <2>1. Empty \in AssetFiles /\ [Empty EXCEPT !.final = "good"] \in AssetFiles
    BY DEF Empty, Content, AssetFiles
  <2>2. "none" \in Content /\ "good" \in Content
    BY DEF Content
  <2>3. CASE /\ archive = "none" /\ asset = [a \in Asset |-> Empty]
             /\ record = [main |-> FALSE, backup |-> FALSE]
    BY <2>1, <2>2, <2>3 DEF DiskTyped
  <2>4. CASE /\ archive = "good" /\ asset = [a \in Asset |-> [Empty EXCEPT !.final = "good"]]
             /\ record = [main |-> TRUE, backup |-> FALSE]
    BY <2>1, <2>2, <2>4 DEF DiskTyped
  <2> QED
    BY <2>3, <2>4 DEF StoreInit
<1>3. WorkTyped /\ LeftTyped
  BY StoreAssumption DEF StoreInit, WorkTyped, LeftTyped
<1> QED
  BY <1>1, <1>2, <1>3, TypeParts

LEMMA GotoTyped ==
  ASSUME PcTyped, NEW p \in Proc, NEW s \in Steps, Goto(p, s)
  PROVE  PcTyped'
BY DEF PcTyped, Goto

LEMMA ReleaseTyped ==
  ASSUME LockTyped, NEW p \in Proc, Release(p)
  PROVE  LockTyped'
BY DEF LockTyped, Release, NoLease

LEMMA SpendTyped ==
  ASSUME LeftTyped, NEW what \in {"trouble", "reclaim"}, Spend(what)
  PROVE  LeftTyped'
BY DEF LeftTyped, Spend

LEMMA FinishTyped ==
  ASSUME PcTyped, LockTyped, WorkTyped, NEW p \in Core, Finish(p)
  PROVE  PcTyped' /\ LockTyped' /\ WorkTyped'
<1>1. PcTyped' /\ LockTyped'
  BY GotoTyped, ReleaseTyped DEF Finish, Steps, Proc
<1>2. WorkTyped'
  BY DEF Finish, WorkTyped
<1> QED
  BY <1>1, <1>2

LEMMA FileTyped ==
  ASSUME NEW A \in [Asset -> AssetFiles], NEW a \in Asset, NEW x \in Content
  PROVE  /\ [A EXCEPT ![a].final = x] \in [Asset -> AssetFiles]
         /\ [A EXCEPT ![a].candidate = x] \in [Asset -> AssetFiles]
BY DEF AssetFiles

LEMMA FilesTyped ==
  ASSUME NEW A \in [Asset -> AssetFiles], NEW a \in Asset, NEW x \in Content, NEW y \in Content
  PROVE  /\ [A EXCEPT ![a].final = x, ![a].backup = y] \in [Asset -> AssetFiles]
         /\ [A EXCEPT ![a].backup = x, ![a].final = y] \in [Asset -> AssetFiles]
         /\ [A EXCEPT ![a].final = x, ![a].candidate = y] \in [Asset -> AssetFiles]
BY DEF AssetFiles

LEMMA OpenLockTyped ==
  ASSUME StoreTypeOK, NEW p \in Proc, OpenLock(p)
  PROVE  StoreTypeOK'
<1>1. PcTyped'
  BY TypeParts DEF OpenLock, PcTyped, Steps, Waiting
<1>2. LockTyped'
  BY TypeParts DEF OpenLock, LockTyped
<1>3. DiskTyped' /\ WorkTyped' /\ LeftTyped'
  BY TypeParts DEF OpenLock, DiskTyped, WorkTyped, LeftTyped, storeDisk, storeWork
<1> QED
  BY <1>1, <1>2, <1>3, TypeParts

LEMMA LocksTyped ==
  ASSUME StoreTypeOK, NEW p \in Proc, Locks(p)
  PROVE  StoreTypeOK'
<1>1. CASE OpenLock(p)
  BY <1>1, OpenLockTyped
<1>2. CASE LockGranted(p)
  <2>1. PcTyped'
    BY <1>2, TypeParts, GotoTyped DEF LockGranted, AfterLock, Waiting, Steps
  <2>2. LockTyped'
    BY <1>2, TypeParts DEF LockGranted, LockTyped, ModeOf
  <2>3. DiskTyped' /\ WorkTyped' /\ LeftTyped'
    BY <1>2, TypeParts DEF LockGranted, DiskTyped, WorkTyped, LeftTyped, storeDisk, storeWork
  <2> QED
    BY <2>1, <2>2, <2>3, TypeParts
<1>3. CASE LockBusy(p)
  <2>1. DiskTyped' /\ LeftTyped'
    BY <1>3, TypeParts DEF LockBusy, DiskTyped, LeftTyped, storeDisk
  <2>2. CASE p \in Core
    BY <1>3, <2>1, <2>2, TypeParts, FinishTyped DEF LockBusy
  <2>3. CASE p \notin Core
    <3>1. PcTyped' /\ LockTyped'
      BY <1>3, <2>3, TypeParts, GotoTyped, ReleaseTyped DEF LockBusy, Steps
    <3>2. WorkTyped'
      BY <1>3, <2>3, TypeParts DEF LockBusy, WorkTyped, storeWork
    <3> QED
      BY <3>1, <3>2, <2>1, TypeParts
  <2> QED
    BY <2>2, <2>3
<1> QED
  BY <1>1, <1>2, <1>3 DEF Locks

LEMMA StillTyped ==
  /\ LockTyped /\ UNCHANGED storeLock => LockTyped'
  /\ DiskTyped /\ UNCHANGED storeDisk => DiskTyped'
  /\ WorkTyped /\ UNCHANGED storeWork => WorkTyped'
  /\ LeftTyped /\ UNCHANGED left => LeftTyped'
BY DEF LockTyped, DiskTyped, WorkTyped, LeftTyped, storeLock, storeDisk, storeWork

LEMMA StepNames ==
  /\ {"idle", "serving", "start", "verify", "reverify", "verify_again"} \subseteq Steps
  /\ {"open_repair", "open_again", "open_install", "open_read", "open_reclaim"} \subseteq Steps
  /\ {"recover_runtime", "recover_model", "cleanup", "import", "inspect"} \subseteq Steps
  /\ {"stage_archive", "stage_runtime", "stage_model", "sample"} \subseteq Steps
  /\ {"promote", "promote_candidate", "record", "record_write", "record_clean"} \subseteq Steps
  /\ {"rollback", "commit", "recover_active", "installed", "unlink"} \subseteq Steps
BY DEF Steps

\* A step of an install that changes only files keeps the types if they do.
LEMMA MovedTyped ==
  ASSUME StoreTypeOK, DiskTyped', NEW p \in Core, NEW s \in Steps, Goto(p, s),
         UNCHANGED storeLock, UNCHANGED storeWork, (UNCHANGED left \/ Spend("trouble"))
  PROVE  StoreTypeOK'
BY TypeParts, GotoTyped, StillTyped, SpendTyped DEF Proc

LEMMA FailTyped ==
  ASSUME StoreTypeOK, NEW p \in Core, Fail(p)
  PROVE  StoreTypeOK'
BY TypeParts, FinishTyped, StillTyped, SpendTyped DEF Fail

LEMMA FailInstallTyped ==
  ASSUME StoreTypeOK, NEW p \in Core, FailInstall(p)
  PROVE  StoreTypeOK'
BY TypeParts, MovedTyped, StillTyped, StepNames DEF FailInstall

\* The steps of ready, and the beginning and the end of a request.
LEMMA RequestTyped ==
  ASSUME StoreTypeOK, NEW p \in Core,
         \/ Ready(p) \/ RecoverActive(p) \/ Installed(p)
         \/ BeginReady(p) \/ BeginInstall(p) \/ StopServing(p) \/ Crash(p)
  PROVE  StoreTypeOK'
<1> USE TypeParts
<1>0. p \in Proc
  BY DEF Proc
<1>1. CASE Verify(p)
  BY <1>0, <1>1, GotoTyped, ReleaseTyped, FinishTyped, StillTyped, SpendTyped, StepNames DEF Verify
<1>2. CASE Reverify(p)
  BY <1>0, <1>2, GotoTyped, ReleaseTyped, FinishTyped, StillTyped, SpendTyped, StepNames DEF Reverify
<1>3. CASE VerifyAgain(p)
  BY <1>0, <1>3, GotoTyped, ReleaseTyped, FinishTyped, StillTyped, SpendTyped, StepNames DEF VerifyAgain
<1>4. CASE RecoverActive(p)
  BY <1>0, <1>4, GotoTyped, ReleaseTyped, FinishTyped, StillTyped, SpendTyped, StepNames DEF RecoverActive
<1>5. CASE Installed(p)
  BY <1>0, <1>5, GotoTyped, ReleaseTyped, FinishTyped, StillTyped, SpendTyped, StepNames DEF Installed
<1>6. CASE StopServing(p)
  BY <1>0, <1>6, GotoTyped, ReleaseTyped, FinishTyped, StillTyped, SpendTyped, StepNames DEF StopServing
<1>7. CASE Crash(p)
  BY <1>0, <1>7, GotoTyped, ReleaseTyped, FinishTyped, StillTyped, SpendTyped, StepNames DEF Crash
<1>8. CASE BeginReady(p)
  <2>1. PcTyped' /\ LockTyped' /\ DiskTyped' /\ LeftTyped'
    BY <1>0, <1>8, GotoTyped, ReleaseTyped, StillTyped, StepNames DEF BeginReady
  <2>2. WorkTyped'
    BY <1>8 DEF BeginReady, WorkTyped
  <2> QED
    BY <2>1, <2>2
<1>9. CASE BeginInstall(p)
  <2>1. PcTyped' /\ LockTyped' /\ DiskTyped' /\ LeftTyped'
    BY <1>0, <1>9, GotoTyped, ReleaseTyped, StillTyped, StepNames DEF BeginInstall
  <2>2. WorkTyped'
    BY <1>9 DEF BeginInstall, WorkTyped
  <2> QED
    BY <2>1, <2>2
<1>10. CASE Start(p)
  <2>1. CASE Fail(p)
    BY <2>1, FailTyped
  <2>2. CASE ~Fail(p)
    <3>1. PcTyped' /\ LockTyped' /\ DiskTyped' /\ LeftTyped'
      BY <1>0, <1>10, <2>2, GotoTyped, StillTyped, StepNames DEF Start
    <3>2. WorkTyped'
      BY <1>10, <2>2 DEF Start, WorkTyped
    <3> QED
      BY <3>1, <3>2
  <2> QED
    BY <2>1, <2>2
<1> QED
  BY <1>1, <1>2, <1>3, <1>4, <1>5, <1>6, <1>7, <1>8, <1>9, <1>10 DEF Ready

\* An asset's files after one of the steps that set two of its names.
LEMMA AssetTyped ==
  ASSUME DiskTyped
  PROVE  /\ \A a \in Asset : {asset[a].final, asset[a].backup, asset[a].candidate} \subseteq Content
         /\ archive \in Content /\ {"none", "good", "corrupt"} \subseteq Content
         /\ {"runtime", "model"} \subseteq Asset
BY DEF DiskTyped, AssetFiles, Asset, Content

LEMMA RecoverPendingTyped ==
  ASSUME StoreTypeOK, NEW p \in Core, RecoverPending(p)
  PROVE  StoreTypeOK'
<1>1. CASE Fail(p)
  BY <1>1, FailTyped
<1>2. CASE ~Fail(p)
  <2> DEFINE a == RecoveredAsset[pc[p]]
  <2>1. a \in Asset /\ pc[p] \in DOMAIN AfterRecover /\ AfterRecover[pc[p]] \in Steps
    BY SMTT(40), StepNames DEF RecoverPending, RecoveredAsset, AfterRecover, Asset
  <2>2. /\ LockTyped' /\ WorkTyped' /\ LeftTyped'
        /\ pc' = pc \/ Goto(p, AfterRecover[pc[p]])
    BY <1>2, TypeParts, StillTyped DEF RecoverPending, storeDisk
  <2>3. PcTyped'
    BY <2>1, <2>2, TypeParts, GotoTyped DEF PcTyped, Proc
  <2>4. DiskTyped'
    <3>1. CASE UNCHANGED storeDisk
      BY <3>1, TypeParts, StillTyped
    <3>2. CASE asset' = [asset EXCEPT ![a].final = "none"] /\ UNCHANGED <<archive, record>>
      BY <2>1, <3>2, TypeParts, AssetTyped, FileTyped DEF DiskTyped
    <3>3. CASE asset' = [asset EXCEPT ![a].final = asset[a].backup, ![a].backup = "none"]
               /\ UNCHANGED <<archive, record>>
      BY <2>1, <3>3, TypeParts, AssetTyped, FilesTyped DEF DiskTyped
    <3> QED
      BY <1>2, <3>1, <3>2, <3>3 DEF RecoverPending
  <2> QED
    BY <2>2, <2>3, <2>4, TypeParts
<1> QED
  BY <1>1, <1>2

LEMMA ImportTyped ==
  ASSUME StoreTypeOK, NEW p \in Core, Import(p)
  PROVE  StoreTypeOK'
<1>1. DiskTyped'
  <2>1. archive' \in Content /\ UNCHANGED record
    BY TypeParts, AssetTyped DEF Import, HalfImported, storeDisk
  <2>2. PICK c \in Content : asset' = asset \/ asset' = [asset EXCEPT !["model"].final = c]
    BY TypeParts, AssetTyped DEF Import, HalfImported, storeDisk
  <2>3. asset' \in [Asset -> AssetFiles]
    <3>1. "model" \in Asset /\ asset \in [Asset -> AssetFiles]
      BY TypeParts DEF DiskTyped, Asset
    <3>2. [asset EXCEPT !["model"].final = c] \in [Asset -> AssetFiles]
      BY <3>1, FileTyped
    <3> QED
      BY <2>2, <3>1, <3>2
  <2> QED
    BY <2>1, <2>3, TypeParts DEF DiskTyped
<1>2. LeftTyped'
  BY TypeParts, StillTyped, SpendTyped DEF Import
<1>3. Finish(p) \/ (Goto(p, "inspect") /\ UNCHANGED storeLock /\ UNCHANGED storeWork)
  BY DEF Import
<1> QED
  BY <1>1, <1>2, <1>3, TypeParts, FinishTyped, GotoTyped, StillTyped, StepNames DEF Proc

LEMMA InspectTyped ==
  ASSUME StoreTypeOK, NEW p \in Core, Inspect(p)
  PROVE  StoreTypeOK'
<1>1. PcTyped' /\ LockTyped' /\ DiskTyped' /\ LeftTyped'
  BY TypeParts, GotoTyped, StillTyped, StepNames DEF Inspect, Proc
<1>2. WorkTyped'
  BY TypeParts DEF Inspect, WorkTyped, Asset
<1> QED
  BY <1>1, <1>2, TypeParts

LEMMA StageTyped ==
  ASSUME StoreTypeOK, NEW p \in Core, Stage(p) \/ CleanupStaging(p)
  PROVE  StoreTypeOK'
<1>1. CASE FailInstall(p)
  BY <1>1, FailInstallTyped
<1>2. CASE Inspect(p)
  BY <1>2, InspectTyped
<1>3. CASE ~FailInstall(p) /\ ~Inspect(p)
  <2>1. /\ UNCHANGED storeLock /\ UNCHANGED storeWork /\ (UNCHANGED left \/ Spend("trouble"))
        /\ \E s \in Steps : Goto(p, s)
    BY <1>3, StepNames
    DEF Stage, CleanupStaging, StageArchive, StageRuntime, StageModel, VerifySample
  <2>2. DiskTyped'
    <3>1. archive' \in Content /\ UNCHANGED record
      BY <1>3, TypeParts, AssetTyped
      DEF Stage, CleanupStaging, StageArchive, StageRuntime, StageModel, VerifySample, DownloadFailed, storeDisk
    <3>2. asset' \in [Asset -> AssetFiles]
      <4>1. CASE CleanupStaging(p)
        BY <4>1, TypeParts DEF CleanupStaging, DiskTyped, AssetFiles, Content
      <4>2. CASE \E a \in Asset : \E c \in Content : asset' = [asset EXCEPT ![a].candidate = c]
        <5>1. PICK a \in Asset : \E c \in Content : asset' = [asset EXCEPT ![a].candidate = c]
          BY <4>2
        <5>2. PICK c \in Content : asset' = [asset EXCEPT ![a].candidate = c]
          BY <5>1
        <5> QED
          BY <5>2, TypeParts, FileTyped DEF DiskTyped
      <4>3. CASE UNCHANGED asset
        BY <4>3, TypeParts DEF DiskTyped
      <4> QED
        BY <1>3, <4>1, <4>2, <4>3, TypeParts, AssetTyped
        DEF Stage, StageArchive, StageRuntime, StageModel, VerifySample, Extracted, storeDisk
    <3> QED
      BY <3>1, <3>2, TypeParts DEF DiskTyped
  <2>3. PICK s \in Steps : Goto(p, s)
    BY <2>1
  <2> QED
    BY <2>1, <2>2, <2>3, MovedTyped
<1> QED
  BY <1>1, <1>2, <1>3

LEMMA PromoteTyped ==
  ASSUME StoreTypeOK, NEW p \in Core, Promote(p)
  PROVE  StoreTypeOK'
<1> DEFINE a == NextAsset(p)
<1>0. a \in Asset
  BY DEF NextAsset, Asset
<1>1. CASE FailInstall(p)
  BY <1>1, FailInstallTyped
<1>2. CASE ~FailInstall(p)
  <2>1. /\ UNCHANGED storeLock /\ UNCHANGED <<archive, record>>
        /\ (UNCHANGED left \/ Spend("trouble"))
        /\ \E s \in Steps : Goto(p, s)
    BY <1>2, StepNames DEF Promote, PromoteAside, PromoteCandidate, storeDisk
  <2>2. asset' \in [Asset -> AssetFiles]
    <3>1. CASE UNCHANGED asset
      BY <3>1, TypeParts DEF DiskTyped
    <3>2. CASE ~UNCHANGED asset
      <4>1. PICK x \in Content, y \in Content :
              \/ asset' = [asset EXCEPT ![a].backup = x, ![a].final = y]
              \/ asset' = [asset EXCEPT ![a].final = x, ![a].candidate = y]
              \/ asset' = [asset EXCEPT ![a].final = x, ![a].backup = y]
        BY <1>0, <1>2, <3>2, TypeParts, AssetTyped DEF Promote, PromoteAside, PromoteCandidate, storeDisk
      <4>2. asset \in [Asset -> AssetFiles]
        BY TypeParts DEF DiskTyped
      <4>3. CASE asset' = [asset EXCEPT ![a].backup = x, ![a].final = y]
        BY <1>0, <4>2, <4>3, FilesTyped
      <4>4. CASE asset' = [asset EXCEPT ![a].final = x, ![a].candidate = y]
        BY <1>0, <4>2, <4>4, FilesTyped
      <4>5. CASE asset' = [asset EXCEPT ![a].final = x, ![a].backup = y]
        BY <1>0, <4>2, <4>5, FilesTyped
      <4> QED
        BY <4>1, <4>3, <4>4, <4>5
    <3> QED
      BY <3>1, <3>2
  <2>3. WorkTyped'
    <3>1. CASE UNCHANGED storeWork
      BY <3>1, TypeParts, StillTyped
    <3>2. CASE promoted' = [promoted EXCEPT ![p] = @ \cup {a}] /\ UNCHANGED <<task, need>>
      BY <1>0, <3>2, TypeParts DEF WorkTyped
    <3> QED
      BY <1>2, <3>1, <3>2 DEF Promote, PromoteAside, PromoteCandidate
  <2> QED
    BY <2>1, <2>2, <2>3, TypeParts, GotoTyped, StillTyped, SpendTyped DEF DiskTyped, Proc
<1> QED
  BY <1>1, <1>2

LEMMA RecordTyped ==
  ASSUME StoreTypeOK, NEW p \in Core, Record(p)
  PROVE  StoreTypeOK'
<1>1. /\ UNCHANGED storeLock /\ UNCHANGED storeWork /\ (UNCHANGED left \/ Spend("trouble"))
      /\ UNCHANGED <<archive, asset>> /\ \E s \in Steps : Goto(p, s)
  BY StepNames DEF Record, RecordAside, RecordWrite, RecordClean, storeDisk
<1>2. record' \in [main : BOOLEAN, backup : BOOLEAN]
  <2>0. record \in [main : BOOLEAN, backup : BOOLEAN] /\ Recorded \in BOOLEAN
    BY TypeParts DEF DiskTyped, Recorded
  <2>1. CASE RecordAside(p)
    <3>1. CASE record' = record
      BY <2>0, <3>1
    <3>2. CASE record' = [main |-> FALSE, backup |-> Recorded]
      BY <2>0, <3>2
    <3> QED
      BY <2>1, <3>1, <3>2 DEF RecordAside, storeDisk
  <2>2. CASE RecordWrite(p)
    <3>1. CASE record' = [record EXCEPT !.main = TRUE]
      BY <2>0, <3>1
    <3>2. CASE record' = [main |-> record.backup, backup |-> FALSE]
      <4>1. record.backup \in BOOLEAN
        BY <2>0
      <4> QED
        BY <3>2, <4>1
    <3> QED
      BY <2>2, <3>1, <3>2 DEF RecordWrite
  <2>3. CASE RecordClean(p)
    BY <2>0, <2>3 DEF RecordClean, storeDisk
  <2> QED
    BY <2>1, <2>2, <2>3 DEF Record
<1>3. PICK s \in Steps : Goto(p, s)
  BY <1>1
<1>4. DiskTyped'
  BY <1>1, <1>2, TypeParts DEF DiskTyped
<1> QED
  BY <1>1, <1>3, <1>4, MovedTyped

LEMMA RollbackTyped ==
  ASSUME StoreTypeOK, NEW p \in Core, Rollback(p) \/ Commit(p)
  PROVE  StoreTypeOK'
<1>1. /\ UNCHANGED storeLock /\ UNCHANGED storeWork /\ (UNCHANGED left \/ Spend("trouble"))
      /\ UNCHANGED <<archive, record>> /\ \E s \in Steps : Goto(p, s)
  BY StepNames DEF Rollback, Commit
<1>2. asset' \in [Asset -> AssetFiles]
  <2>1. CASE Rollback(p)
    <3>1. \A lost, kept : RolledBack(p, lost, kept) \in [Asset -> AssetFiles]
      <4> TAKE lost, kept
      <4>1. \A a \in Asset :
              /\ asset[a] \in AssetFiles
              /\ [asset[a] EXCEPT !.final = "none"] \in AssetFiles
              /\ [asset[a] EXCEPT !.final = asset[a].backup, !.backup = "none"] \in AssetFiles
        BY ZenonT(40), TypeParts DEF DiskTyped, AssetFiles, Content
      <4> QED
        BY <4>1 DEF RolledBack
    <3>2. \E lost, kept : asset' = RolledBack(p, lost, kept)
      BY <2>1 DEF Rollback
    <3> QED
      BY <3>1, <3>2
  <2>2. CASE Commit(p)
    BY <2>2, TypeParts DEF Commit, DiskTyped, AssetFiles, Content
  <2> QED
    BY <2>1, <2>2
<1>3. PICK s \in Steps : Goto(p, s)
  BY <1>1
<1>4. DiskTyped'
  BY <1>1, <1>2, TypeParts DEF DiskTyped
<1> QED
  BY <1>1, <1>3, <1>4, MovedTyped

LEMMA ReclaimTyped ==
  ASSUME StoreTypeOK, NEW r \in Reclaimer, Reclaim(r)
  PROVE  StoreTypeOK'
<1>0. r \in Proc
  BY DEF Proc
<1>1. CASE BeginReclaim(r)
  BY <1>0, <1>1, TypeParts, GotoTyped, StillTyped, SpendTyped, StepNames DEF BeginReclaim
<1>2. CASE UnlinkLock(r)
  <2>1. LockTyped'
    BY <1>2, TypeParts DEF UnlinkLock, LockTyped
  <2> QED
    BY <1>0, <1>2, <2>1, TypeParts, GotoTyped, StillTyped, StepNames DEF UnlinkLock
<1>3. CASE RetainOrRemove(r)
  <2>1. /\ Release(r) /\ UNCHANGED storeWork /\ (UNCHANGED left \/ Spend("trouble"))
        /\ \E s \in Steps : Goto(r, s)
    BY <1>3, StepNames DEF RetainOrRemove
  <2>2. DiskTyped'
    <3>1. Empty \in AssetFiles
      BY DEF Empty, AssetFiles, Content
    <3>2. archive' \in Content /\ record' \in [main : BOOLEAN, backup : BOOLEAN]
      <4>1. record' = record \/ record' = [main |-> FALSE, backup |-> FALSE]
        BY <1>3 DEF RetainOrRemove, storeDisk
      <4>2. archive' = archive \/ archive' = "none"
        BY <1>3 DEF RetainOrRemove, storeDisk
      <4>3. archive' \in Content
        BY <4>2, TypeParts, AssetTyped
      <4>4. record \in [main : BOOLEAN, backup : BOOLEAN]
        BY TypeParts DEF DiskTyped
      <4>5. [main |-> FALSE, backup |-> FALSE] \in [main : BOOLEAN, backup : BOOLEAN]
        OBVIOUS
      <4>6. record' \in [main : BOOLEAN, backup : BOOLEAN]
        BY <4>1, <4>4, <4>5
      <4> QED
        BY <4>3, <4>6
    <3>3. asset' \in [Asset -> AssetFiles]
      BY <1>3, <3>1, TypeParts DEF RetainOrRemove, DiskTyped, storeDisk
    <3> QED
      BY <3>2, <3>3 DEF DiskTyped
  <2>3. PICK s \in Steps : Goto(r, s)
    BY <2>1
  <2> QED
    BY <1>0, <2>1, <2>2, <2>3, TypeParts, GotoTyped, ReleaseTyped, StillTyped, SpendTyped
<1> QED
  BY <1>1, <1>2, <1>3 DEF Reclaim

LEMMA DamageTyped ==
  ASSUME StoreTypeOK, Damage
  PROVE  StoreTypeOK'
<1>1. UNCHANGED pc /\ UNCHANGED storeLock /\ UNCHANGED storeWork /\ UNCHANGED record /\ Spend("trouble")
  BY DEF Damage
<1>2. archive' \in Content /\ asset' \in [Asset -> AssetFiles]
  <2>1. PICK bad \in {"none", "corrupt"} :
          \/ archive' = bad /\ UNCHANGED asset
          \/ \E a \in Asset : asset' = [asset EXCEPT ![a].final = bad] /\ UNCHANGED archive
    BY DEF Damage
  <2>2. bad \in Content
    BY DEF Content
  <2>3. archive \in Content /\ asset \in [Asset -> AssetFiles]
    BY TypeParts DEF DiskTyped
  <2>4. CASE \E a \in Asset : asset' = [asset EXCEPT ![a].final = bad] /\ UNCHANGED archive
    <3>1. PICK a \in Asset : asset' = [asset EXCEPT ![a].final = bad]
      BY <2>4
    <3>2. [asset EXCEPT ![a].final = bad] \in [Asset -> AssetFiles]
      BY <2>2, <2>3, FileTyped
    <3> QED
      BY <2>3, <2>4, <3>1, <3>2
  <2> QED
    BY <2>1, <2>2, <2>3, <2>4
<1> QED
  BY <1>1, <1>2, TypeParts, StillTyped, SpendTyped DEF PcTyped, DiskTyped

LEMMA StoreTypeStep == StoreTypeOK /\ [StoreNext]_storeVars => StoreTypeOK'
<1> SUFFICES ASSUME StoreTypeOK, [StoreNext]_storeVars PROVE StoreTypeOK'
  OBVIOUS
<1>1. ASSUME NEW p \in Core,
             CoreStep(p) \/ BeginReady(p) \/ BeginInstall(p) \/ StopServing(p) \/ Crash(p)
      PROVE  StoreTypeOK'
  <2>0. p \in Proc
    BY DEF Proc
  <2> QED
    BY <1>1, <2>0, LocksTyped, RequestTyped, RecoverPendingTyped, ImportTyped, StageTyped,
       PromoteTyped, RecordTyped, RollbackTyped
    DEF CoreStep
<1>2. ASSUME NEW r \in Reclaimer, Locks(r) \/ Reclaim(r) PROVE StoreTypeOK'
  BY <1>2, LocksTyped, ReclaimTyped DEF Proc
<1>3. CASE UNCHANGED storeVars
  BY <1>3, TypeParts, StillTyped DEF storeVars, PcTyped
<1> QED
  BY <1>1, <1>2, <1>3, DamageTyped DEF StoreNext

\* Types, for any Core processes, reclaimers and number of troubles: no step
\* of the store, however it fails, leaves a value outside of them.
THEOREM StoreTypeCorrect == StoreSpec => []StoreTypeOK
<1>1. StoreInit => StoreTypeOK
  BY StoreTypeInit
<1>2. StoreTypeOK /\ [StoreNext]_storeVars => StoreTypeOK'
  BY StoreTypeStep
<1> QED
  BY <1>1, <1>2, PTL DEF StoreSpec

-----------------------------------------------------------------------------
(* Leases                                                                  *)

\* A process moves itself only, from one step to another that needs the same
\* lease or gives its lease up, and changes files only as a writer.
Moves(p, s) ==
  /\ pc' = [pc EXCEPT ![p] = s]
  /\ \/ UNCHANGED storeLock /\ pc[p] \in Free /\ s \in Free
     \/ UNCHANGED storeLock /\ pc[p] \in Reading /\ s \in Reading
     \/ UNCHANGED storeLock /\ pc[p] \in Writing /\ s \in Writing
     \/ Release(p) /\ s \in Free
  /\ p \in Core => s \notin ReclaimSteps
  /\ p \in Reclaimer => s \in ReclaimSteps \cup {"idle"}

\* What a step of p leaves alone.
Apart(p) ==
  /\ pc[p] \notin Writing => UNCHANGED storeDisk
  /\ \A q \in Core \ {p} : need'[q] = need[q] /\ promoted'[q] = promoted[q]

LEMMA CoreNotReclaimer == ASSUME NEW p \in Core PROVE p \notin Reclaimer
BY StoreAssumption

LEMMA FinishMoves ==
  ASSUME StoreTypeOK, NEW p \in Core, Finish(p)
  PROVE  Moves(p, "idle") /\ \A q \in Core \ {p} : need'[q] = need[q] /\ promoted'[q] = promoted[q]
<1>1. Moves(p, "idle")
  BY CoreNotReclaimer DEF Finish, Goto, Moves, Free, ReclaimSteps
<1>2. need' = [need EXCEPT ![p] = {}] /\ promoted' = [promoted EXCEPT ![p] = {}]
  BY DEF Finish
<1> QED
  BY <1>1, <1>2, TypeParts DEF WorkTyped

LEMMA FailMoves ==
  ASSUME StoreTypeOK, NEW p \in Core, Fail(p)
  PROVE  Moves(p, "idle") /\ Apart(p)
BY FinishMoves DEF Fail, Apart

LEMMA FailInstallMoves ==
  ASSUME NEW p \in Core, FailInstall(p), pc[p] \in Writing
  PROVE  (\E s \in Steps : Moves(p, s)) /\ Apart(p)
<1>1. Moves(p, "recover_active")
  BY CoreNotReclaimer DEF FailInstall, Goto, Moves, Writing, Repairing, ReclaimSteps
<1>2. Apart(p)
  BY DEF FailInstall, Apart, storeWork
<1> QED
  BY <1>1, <1>2, StepNames

LEMMA CoreMoves ==
  ASSUME StoreTypeOK, NEW p \in Core,
         CoreStep(p) \/ BeginReady(p) \/ BeginInstall(p) \/ StopServing(p) \/ Crash(p),
         ~OpenLock(p), ~LockGranted(p)
  PROVE  (\E s \in Steps : Moves(p, s)) /\ Apart(p)
<1>0. CASE Fail(p)
  BY <1>0, FailMoves, StepNames
<1>00. CASE /\ FailInstall(p)
            /\ StageRuntime(p) \/ StageModel(p) \/ VerifySample(p) \/ PromoteAside(p)
  BY <1>00, FailInstallMoves
  DEF StageRuntime, StageModel, VerifySample, PromoteAside, Writing, Repairing
<1> USE CoreNotReclaimer, StepNames, FinishMoves, FailMoves
<1>1. CASE LockBusy(p)
  <2>1. \E s \in Steps : Moves(p, s)
    BY <1>1, TypeParts DEF LockBusy, Moves, Goto, Free, Reading, Writing, Repairing, ReclaimSteps
  <2>2. Apart(p)
    BY <1>1, TypeParts DEF LockBusy, Apart, Writing, Repairing, WorkTyped, storeWork, Waiting
  <2> QED
    BY <2>1, <2>2
<1>2. CASE Verify(p)
  <2>1. \E s \in Steps : Moves(p, s)
    BY <1>2, TypeParts DEF Verify, Moves, Goto, Free, Reading, Writing, Repairing, ReclaimSteps
  <2>2. Apart(p)
    BY <1>2, TypeParts DEF Verify, Apart, Writing, Repairing, WorkTyped, storeWork
  <2> QED
    BY <2>1, <2>2
<1>3. CASE Reverify(p)
  <2>1. \E s \in Steps : Moves(p, s)
    BY <1>3, TypeParts DEF Reverify, Moves, Goto, Free, Reading, Writing, Repairing, ReclaimSteps
  <2>2. Apart(p)
    BY <1>3, TypeParts DEF Reverify, Apart, Writing, Repairing, WorkTyped, storeWork
  <2> QED
    BY <2>1, <2>2
<1>4. CASE VerifyAgain(p)
  <2>1. \E s \in Steps : Moves(p, s)
    BY <1>4, TypeParts DEF VerifyAgain, Moves, Goto, Free, Reading, Writing, Repairing, ReclaimSteps
  <2>2. Apart(p)
    BY <1>4, TypeParts DEF VerifyAgain, Apart, Writing, Repairing, WorkTyped, storeWork
  <2> QED
    BY <2>1, <2>2
<1>5. CASE Start(p) /\ ~Fail(p)
  <2>1. \E s \in Steps : Moves(p, s)
    BY <1>5, TypeParts DEF Start, Moves, Goto, Free, Reading, Writing, Repairing, ReclaimSteps
  <2>2. Apart(p)
    BY <1>5, TypeParts DEF Start, Apart, Writing, Repairing, WorkTyped, storeWork
  <2> QED
    BY <2>1, <2>2
<1>6. CASE RecoverPending(p) /\ ~Fail(p)
  <2>1. \E s \in Steps : Moves(p, s)
    BY <1>6, TypeParts DEF RecoverPending, Moves, Goto, Free, Reading, Writing, Repairing, ReclaimSteps, AfterRecover, PcTyped, Proc
  <2>2. Apart(p)
    BY <1>6, TypeParts DEF RecoverPending, Apart, Writing, Repairing, WorkTyped, storeWork, AfterRecover
  <2> QED
    BY <2>1, <2>2
<1>7. CASE CleanupStaging(p)
  <2>1. \E s \in Steps : Moves(p, s)
    BY <1>7, TypeParts DEF CleanupStaging, Moves, Goto, Free, Reading, Writing, Repairing, ReclaimSteps
  <2>2. Apart(p)
    BY <1>7, TypeParts DEF CleanupStaging, Apart, Writing, Repairing, WorkTyped, storeWork
  <2> QED
    BY <2>1, <2>2
<1>8. CASE Import(p)
  <2>1. \E s \in Steps : Moves(p, s)
    BY <1>8, TypeParts DEF Import, Moves, Goto, Free, Reading, Writing, Repairing, ReclaimSteps
  <2>2. Apart(p)
    BY <1>8, TypeParts DEF Import, Apart, Writing, Repairing, WorkTyped, storeWork
  <2> QED
    BY <2>1, <2>2
<1>9. CASE Inspect(p)
  <2>1. \E s \in Steps : Moves(p, s)
    BY <1>9, TypeParts DEF Inspect, Moves, Goto, Free, Reading, Writing, Repairing, ReclaimSteps
  <2>2. Apart(p)
    BY <1>9, TypeParts DEF Inspect, Apart, Writing, Repairing, WorkTyped, storeWork
  <2> QED
    BY <2>1, <2>2
<1>10. CASE StageArchive(p)
  <2>1. \E s \in Steps : Moves(p, s)
    BY <1>10, TypeParts DEF StageArchive, Moves, Goto, Free, Reading, Writing, Repairing, ReclaimSteps
  <2>2. Apart(p)
    BY <1>10, TypeParts DEF StageArchive, Apart, Writing, Repairing, WorkTyped, storeWork
  <2> QED
    BY <2>1, <2>2
<1>11. CASE StageRuntime(p) /\ ~FailInstall(p)
  <2>1. \E s \in Steps : Moves(p, s)
    BY <1>11, TypeParts DEF StageRuntime, Moves, Goto, Free, Reading, Writing, Repairing, ReclaimSteps
  <2>2. Apart(p)
    BY <1>11, TypeParts DEF StageRuntime, Apart, Writing, Repairing, WorkTyped, storeWork
  <2> QED
    BY <2>1, <2>2
<1>12. CASE StageModel(p) /\ ~FailInstall(p)
  <2>1. \E s \in Steps : Moves(p, s)
    BY <1>12, TypeParts DEF StageModel, Moves, Goto, Free, Reading, Writing, Repairing, ReclaimSteps
  <2>2. Apart(p)
    BY <1>12, TypeParts DEF StageModel, Apart, Writing, Repairing, WorkTyped, storeWork
  <2> QED
    BY <2>1, <2>2
<1>13. CASE VerifySample(p) /\ ~FailInstall(p)
  <2>1. \E s \in Steps : Moves(p, s)
    BY <1>13, TypeParts DEF VerifySample, Moves, Goto, Free, Reading, Writing, Repairing, ReclaimSteps
  <2>2. Apart(p)
    BY <1>13, TypeParts DEF VerifySample, Apart, Writing, Repairing, WorkTyped, storeWork
  <2> QED
    BY <2>1, <2>2
<1>14. CASE PromoteAside(p) /\ ~FailInstall(p)
  <2>1. \E s \in Steps : Moves(p, s)
    BY <1>14, TypeParts DEF PromoteAside, Moves, Goto, Free, Reading, Writing, Repairing, ReclaimSteps
  <2>2. Apart(p)
    BY <1>14, TypeParts DEF PromoteAside, Apart, Writing, Repairing, WorkTyped, storeWork
  <2> QED
    BY <2>1, <2>2
<1>15. CASE PromoteCandidate(p)
  <2>1. \E s \in Steps : Moves(p, s)
    BY <1>15, TypeParts DEF PromoteCandidate, Moves, Goto, Free, Reading, Writing, Repairing, ReclaimSteps
  <2>2. Apart(p)
    BY <1>15, TypeParts DEF PromoteCandidate, Apart, Writing, Repairing, WorkTyped, storeWork
  <2> QED
    BY <2>1, <2>2
<1>16. CASE RecordAside(p)
  <2>1. \E s \in Steps : Moves(p, s)
    BY <1>16, TypeParts DEF RecordAside, Moves, Goto, Free, Reading, Writing, Repairing, ReclaimSteps
  <2>2. Apart(p)
    BY <1>16, TypeParts DEF RecordAside, Apart, Writing, Repairing, WorkTyped, storeWork
  <2> QED
    BY <2>1, <2>2
<1>17. CASE RecordWrite(p)
  <2>1. \E s \in Steps : Moves(p, s)
    BY <1>17, TypeParts DEF RecordWrite, Moves, Goto, Free, Reading, Writing, Repairing, ReclaimSteps
  <2>2. Apart(p)
    BY <1>17, TypeParts DEF RecordWrite, Apart, Writing, Repairing, WorkTyped, storeWork
  <2> QED
    BY <2>1, <2>2
<1>18. CASE RecordClean(p)
  <2>1. \E s \in Steps : Moves(p, s)
    BY <1>18, TypeParts DEF RecordClean, Moves, Goto, Free, Reading, Writing, Repairing, ReclaimSteps
  <2>2. Apart(p)
    BY <1>18, TypeParts DEF RecordClean, Apart, Writing, Repairing, WorkTyped, storeWork
  <2> QED
    BY <2>1, <2>2
<1>19. CASE Rollback(p)
  <2>1. \E s \in Steps : Moves(p, s)
    BY <1>19, TypeParts DEF Rollback, Moves, Goto, Free, Reading, Writing, Repairing, ReclaimSteps
  <2>2. Apart(p)
    BY <1>19, TypeParts DEF Rollback, Apart, Writing, Repairing, WorkTyped, storeWork
  <2> QED
    BY <2>1, <2>2
<1>20. CASE Commit(p)
  <2>1. \E s \in Steps : Moves(p, s)
    BY <1>20, TypeParts DEF Commit, Moves, Goto, Free, Reading, Writing, Repairing, ReclaimSteps
  <2>2. Apart(p)
    BY <1>20, TypeParts DEF Commit, Apart, Writing, Repairing, WorkTyped, storeWork
  <2> QED
    BY <2>1, <2>2
<1>21. CASE RecoverActive(p)
  <2>1. \E s \in Steps : Moves(p, s)
    BY <1>21, TypeParts DEF RecoverActive, Moves, Goto, Free, Reading, Writing, Repairing, ReclaimSteps
  <2>2. Apart(p)
    BY <1>21, TypeParts DEF RecoverActive, Apart, Writing, Repairing, WorkTyped, storeWork
  <2> QED
    BY <2>1, <2>2
<1>22. CASE Installed(p)
  <2>1. \E s \in Steps : Moves(p, s)
    BY <1>22, TypeParts DEF Installed, Moves, Goto, Free, Reading, Writing, Repairing, ReclaimSteps
  <2>2. Apart(p)
    BY <1>22, TypeParts DEF Installed, Apart, Writing, Repairing, WorkTyped, storeWork
  <2> QED
    BY <2>1, <2>2
<1>23. CASE BeginReady(p)
  <2>1. \E s \in Steps : Moves(p, s)
    BY <1>23, TypeParts DEF BeginReady, Moves, Goto, Free, Reading, Writing, Repairing, ReclaimSteps
  <2>2. Apart(p)
    BY <1>23, TypeParts DEF BeginReady, Apart, Writing, Repairing, WorkTyped, storeWork
  <2> QED
    BY <2>1, <2>2
<1>24. CASE BeginInstall(p)
  <2>1. \E s \in Steps : Moves(p, s)
    BY <1>24, TypeParts DEF BeginInstall, Moves, Goto, Free, Reading, Writing, Repairing, ReclaimSteps
  <2>2. Apart(p)
    BY <1>24, TypeParts DEF BeginInstall, Apart, Writing, Repairing, WorkTyped, storeWork
  <2> QED
    BY <2>1, <2>2
<1>25. CASE StopServing(p)
  <2>1. \E s \in Steps : Moves(p, s)
    BY <1>25, TypeParts DEF StopServing, Moves, Goto, Free, Reading, Writing, Repairing, ReclaimSteps
  <2>2. Apart(p)
    BY <1>25, TypeParts DEF StopServing, Apart, Writing, Repairing, WorkTyped, storeWork
  <2> QED
    BY <2>1, <2>2
<1>26. CASE Crash(p)
  <2>1. \E s \in Steps : Moves(p, s)
    BY <1>26, TypeParts DEF Crash, Moves, Goto, Free, Reading, Writing, Repairing, ReclaimSteps
  <2>2. Apart(p)
    BY <1>26, TypeParts DEF Crash, Apart, Writing, Repairing, WorkTyped, storeWork
  <2> QED
    BY <2>1, <2>2
<1> QED
  BY <1>0, <1>00, <1>1, <1>2, <1>3, <1>4, <1>5, <1>6, <1>7, <1>8, <1>9, <1>10, <1>11, <1>12, <1>13, <1>14, <1>15, <1>16, <1>17, <1>18, <1>19, <1>20, <1>21, <1>22, <1>23, <1>24, <1>25, <1>26
  DEF CoreStep, Locks, Ready, Stage, Promote, Record

LEMMA ReclaimMoves ==
  ASSUME StoreTypeOK, NEW r \in Reclaimer,
         BeginReclaim(r) \/ RetainOrRemove(r) \/ LockBusy(r)
  PROVE  (\E s \in Steps : Moves(r, s)) /\ Apart(r)
<1>0. r \notin Core
  BY StoreAssumption
<1>1. CASE BeginReclaim(r)
  BY <1>0, <1>1, StepNames DEF BeginReclaim, Moves, Apart, Goto, Free, ReclaimSteps, storeWork
<1>2. CASE RetainOrRemove(r)
  BY <1>0, <1>2, StepNames DEF RetainOrRemove, Moves, Apart, Goto, Free, ReclaimSteps, Writing, storeWork
<1>3. CASE LockBusy(r)
  BY <1>0, <1>3, StepNames DEF LockBusy, Moves, Apart, Goto, Free, ReclaimSteps, storeWork
<1> QED
  BY <1>1, <1>2, <1>3

\* The five kinds of steps are apart.
LEMMA StepsApart ==
  /\ Free \cap Waiting = {} /\ Free \cap Reading = {} /\ Free \cap Writing = {}
  /\ Waiting \cap Reading = {} /\ Waiting \cap Writing = {} /\ Reading \cap Writing = {}
BY DEF Free, Waiting, Reading, Writing, Repairing

LEMMA MoveKeepsLease ==
  ASSUME StoreTypeOK, LeaseInv, ExclusionInv, NEW p \in Proc, NEW s \in Steps, Moves(p, s)
  PROVE  LeaseInv' /\ ExclusionInv'
<1>1. /\ pc' = [pc EXCEPT ![p] = s] /\ pc \in [Proc -> Steps]
      /\ lease' \in {lease, [lease EXCEPT ![p] = NoLease]} /\ UNCHANGED lockFile
  BY TypeParts DEF Moves, PcTyped, Release, storeLock
<1>2. lease' = [lease EXCEPT ![p] = lease'[p]] /\ lease \in [Proc -> [file : Nat, mode : {"none", "wait", "shared", "exclusive"}]]
  BY <1>1, TypeParts DEF LockTyped
<1>3. lease'[p] = lease[p] \/ (lease'[p] = NoLease /\ s \in Free)
  BY <1>1, <1>2 DEF Moves, Release, storeLock
<1>4. /\ s \in Free => lease'[p] = NoLease
      /\ s \in Waiting => lease'[p].mode = "wait"
      /\ s \in Reading => lease'[p].mode = "shared"
      /\ s \in Writing => lease'[p].mode = "exclusive"
      /\ lease'[p].mode # "none" => lockFile' # 0 /\ lease'[p].file = lockFile'
  BY <1>1, <1>2, <1>3, StepsApart DEF LeaseInv, Moves, NoLease, Release, storeLock
<1>5. LeaseInv'
  <2>1. \A q \in Proc \ {p} : pc'[q] = pc[q] /\ lease'[q] = lease[q]
    BY <1>1, <1>2
  <2>2. pc'[p] = s
    BY <1>1
  <2> QED
    BY <1>1, <1>4, <2>1, <2>2 DEF LeaseInv, Moves
<1>6. ExclusionInv'
  <2> SUFFICES ASSUME NEW q \in Proc, NEW r \in Proc, q # r, lease'[q].mode = "exclusive", Holds(r)'
               PROVE  FALSE
    BY DEF ExclusionInv
  <2>1. \A x \in Proc : lease'[x] = lease[x] \/ lease'[x] = NoLease
    BY <1>1, <1>2
  <2>2. lease[q].mode = "exclusive" /\ Holds(r)
    BY <2>1 DEF Holds, NoLease
  <2> QED
    BY <2>2 DEF ExclusionInv
<1> QED
  BY <1>5, <1>6

LEMMA OpenLockKeepsLease ==
  ASSUME StoreTypeOK, LeaseInv, ExclusionInv, NEW p \in Proc, OpenLock(p)
  PROVE  LeaseInv' /\ ExclusionInv'
<1>1. /\ pc \in [Proc -> Steps] /\ lockGen \in Nat /\ lockFile \in Nat
      /\ lease \in [Proc -> [file : Nat, mode : {"none", "wait", "shared", "exclusive"}]]
  BY TypeParts DEF PcTyped, LockTyped
<1>2. /\ lease' = [lease EXCEPT ![p] = [file |-> lockFile', mode |-> "wait"]]
      /\ lockFile' # 0 /\ (lockFile # 0 => lockFile' = lockFile)
  BY <1>1 DEF OpenLock
<1>3. /\ pc'[p] \in Waiting /\ \A q \in Proc \ {p} : pc'[q] = pc[q]
      /\ p \in Core => pc'[p] \notin ReclaimSteps
      /\ p \in Reclaimer => pc'[p] \in ReclaimSteps
  BY <1>1 DEF OpenLock, Waiting, ReclaimSteps, LeaseInv
<1>4. lease'[p] = [file |-> lockFile', mode |-> "wait"] /\ \A q \in Proc \ {p} : lease'[q] = lease[q]
  BY <1>1, <1>2
<1>5. LeaseInv'
  BY <1>2, <1>3, <1>4, StepsApart DEF LeaseInv, Proc
<1>6. ExclusionInv'
  BY <1>4 DEF ExclusionInv, Holds
<1> QED
  BY <1>5, <1>6

LEMMA LockGrantedKeepsLease ==
  ASSUME StoreTypeOK, LeaseInv, ExclusionInv, NEW p \in Proc, LockGranted(p)
  PROVE  LeaseInv' /\ ExclusionInv'
<1> DEFINE mode == ModeOf(pc[p])
<1>1. /\ pc \in [Proc -> Steps] /\ UNCHANGED lockFile /\ pc[p] \in Waiting
      /\ lease \in [Proc -> [file : Nat, mode : {"none", "wait", "shared", "exclusive"}]]
      /\ lease' = [lease EXCEPT ![p].mode = mode] /\ pc' = [pc EXCEPT ![p] = AfterLock[pc[p]]]
      /\ Compatible(p, mode)
  BY TypeParts DEF PcTyped, LockTyped, LockGranted, Goto
<1>2. /\ mode = "shared" => AfterLock[pc[p]] \in Reading
      /\ mode = "exclusive" => AfterLock[pc[p]] \in Writing
      /\ mode \in {"shared", "exclusive"}
  BY <1>1 DEF ModeOf, AfterLock, Waiting, Reading, Writing, Repairing
<1>3. /\ p \in Core => AfterLock[pc[p]] \notin ReclaimSteps
      /\ p \in Reclaimer => AfterLock[pc[p]] \in ReclaimSteps
  BY <1>1 DEF LeaseInv, AfterLock, Waiting, ReclaimSteps
<1>4. /\ lease'[p].mode = mode /\ lease'[p].file = lease[p].file
      /\ pc'[p] = AfterLock[pc[p]]
      /\ \A q \in Proc \ {p} : lease'[q] = lease[q] /\ pc'[q] = pc[q]
  BY <1>1
<1>5. lockFile # 0 /\ lease[p].file = lockFile
  BY <1>1 DEF LeaseInv
<1>6. LeaseInv'
  BY <1>1, <1>2, <1>3, <1>4, <1>5, StepsApart DEF LeaseInv, Proc
<1>7. \A q \in Proc \ {p} : Holds(q) => mode = "shared" /\ lease[q].mode = "shared"
  BY <1>1, <1>5 DEF Compatible, LeaseInv, Holds
<1>8. ExclusionInv'
  BY <1>2, <1>4, <1>7 DEF ExclusionInv, Holds
<1> QED
  BY <1>6, <1>8

LEMMA UnlinkKeepsLease ==
  ASSUME StoreTypeOK, LeaseInv, ExclusionInv, NEW r \in Reclaimer, UnlinkLock(r), ~UnlinkRaces
  PROVE  LeaseInv' /\ ExclusionInv'
<1>0. r \in Proc /\ r \notin Core
  BY StoreAssumption DEF Proc
<1>1. /\ pc \in [Proc -> Steps] /\ UNCHANGED lease /\ pc' = [pc EXCEPT ![r] = "idle"]
      /\ pc[r] = "unlink"
  BY TypeParts DEF PcTyped, UnlinkLock, Goto
<1>2. lease[r] = NoLease
  BY <1>0, <1>1 DEF LeaseInv, Free
<1>3. lockFile' = lockFile \/ \A q \in Proc : lease[q] = NoLease
  BY <1>2 DEF UnlinkLock
<1>4. pc'[r] = "idle" /\ \A q \in Proc \ {r} : pc'[q] = pc[q]
  BY <1>0, <1>1
<1>5. "idle" \in Free
  BY DEF Free
<1>6. LeaseInv'
  BY <1>0, <1>1, <1>2, <1>3, <1>4, <1>5, StepsApart DEF LeaseInv, NoLease
<1>7. ExclusionInv'
  BY <1>1 DEF ExclusionInv, Holds
<1> QED
  BY <1>6, <1>7

LEMMA LeaseStep ==
  ASSUME StoreTypeOK, LeaseInv, ExclusionInv, [StoreNext]_storeVars, ~UnlinkRaces
  PROVE  LeaseInv' /\ ExclusionInv'
<1>1. ASSUME NEW p \in Core,
             CoreStep(p) \/ BeginReady(p) \/ BeginInstall(p) \/ StopServing(p) \/ Crash(p)
      PROVE  LeaseInv' /\ ExclusionInv'
  <2>0. p \in Proc
    BY DEF Proc
  <2>1. CASE OpenLock(p) \/ LockGranted(p)
    BY <2>0, <2>1, OpenLockKeepsLease, LockGrantedKeepsLease
  <2>2. CASE ~OpenLock(p) /\ ~LockGranted(p)
    <3>1. PICK s \in Steps : Moves(p, s)
      BY <1>1, <2>2, CoreMoves
    <3> QED
      BY <2>0, <3>1, MoveKeepsLease
  <2> QED
    BY <2>1, <2>2
<1>2. ASSUME NEW r \in Reclaimer, Locks(r) \/ Reclaim(r) PROVE LeaseInv' /\ ExclusionInv'
  <2>0. r \in Proc
    BY DEF Proc
  <2>1. CASE OpenLock(r) \/ LockGranted(r) \/ UnlinkLock(r)
    BY <2>0, <2>1, OpenLockKeepsLease, LockGrantedKeepsLease, UnlinkKeepsLease
  <2>2. CASE BeginReclaim(r) \/ RetainOrRemove(r) \/ LockBusy(r)
    <3>1. PICK s \in Steps : Moves(r, s)
      BY <2>2, ReclaimMoves
    <3> QED
      BY <2>0, <3>1, MoveKeepsLease
  <2> QED
    BY <1>2, <2>1, <2>2 DEF Locks, Reclaim
<1>3. CASE UNCHANGED <<pc, storeLock>>
  BY <1>3 DEF storeLock, LeaseInv, ExclusionInv, Holds
<1> QED
  BY <1>1, <1>2, <1>3 DEF StoreNext, Damage, storeVars

-----------------------------------------------------------------------------
(* What a Core knows of the files                                          *)

\* The steps at which it knows nothing.
Unaware == Free \cup Waiting \cup {"verify", "verify_again", "reverify", "recover_runtime", "rollback", "recover_active"}

LEMMA UnawareDisk ==
  ASSUME NEW p \in Core, pc'[p] \in Unaware
  PROVE  DiskInv(p)'
BY DEF DiskInv, Unaware, Free, Waiting, Recovered, Recording

\* Nobody writes under a process that knows something.
LEMMA OthersKeepDisk ==
  ASSUME LeaseInv, ExclusionInv, StoreTypeOK, NEW p \in Proc, NEW q \in Core, p # q, DiskInv(q),
         pc[p] \notin Writing => UNCHANGED storeDisk,
         pc'[q] = pc[q], need'[q] = need[q], promoted'[q] = promoted[q]
  PROVE  DiskInv(q)'
<1>1. CASE pc[p] \in Writing
  <2>1. q \in Proc /\ ~Holds(q)
    BY <1>1 DEF LeaseInv, ExclusionInv, Proc
  <2>2. pc[q] \notin Reading \cup Writing
    BY <2>1 DEF LeaseInv, Holds
  <2>3. pc[q] \in Steps
    BY <2>1, TypeParts DEF PcTyped
  <2>4. pc[q] \in Unaware
    BY <2>2, <2>3 DEF Unaware, Free, Reading, Writing, Repairing, Steps
  <2> QED
    BY <2>4, UnawareDisk
<1>2. CASE UNCHANGED storeDisk
  BY <1>2 DEF DiskInv, storeDisk, Missing, ArchiveStaged, RuntimeStaged, ModelStaged, PartlyPromoted,
     ToPromote, NextAsset, Whole, RuntimeVerified, Recorded
<1> QED
  BY <1>1, <1>2

\* Where an action leads, as a value of pc.
LEMMA Arrives ==
  ASSUME StoreTypeOK, NEW p \in Core, NEW s, Goto(p, s)
  PROVE  pc'[p] = s
BY TypeParts DEF PcTyped, Goto, Proc

LEMMA FinishDisk ==
  ASSUME StoreTypeOK, NEW p \in Core, Finish(p)
  PROVE  DiskInv(p)'
BY Arrives, UnawareDisk DEF Finish, Unaware, Free

LEMMA FailInstallDisk ==
  ASSUME StoreTypeOK, NEW p \in Core, FailInstall(p)
  PROVE  DiskInv(p)'
BY Arrives, UnawareDisk DEF FailInstall, Unaware

\* Locks and the steps of ready: an engine is started from verified files.
LEMMA RequestDisk ==
  ASSUME StoreTypeOK, NEW p \in Core, DiskInv(p),
         \/ Locks(p) \/ Ready(p) \/ RecoverActive(p) \/ Installed(p)
         \/ BeginReady(p) \/ BeginInstall(p) \/ StopServing(p) \/ Crash(p)
  PROVE  DiskInv(p)'
<1> USE Arrives, FinishDisk, UnawareDisk DEF Unaware, Free, Waiting
<1>1. CASE OpenLock(p)
  <2>1. pc'[p] \in Waiting
    BY <1>1, TypeParts DEF OpenLock, PcTyped, Proc
  <2> QED
    BY <2>1
<1>2. CASE LockGranted(p)
  <2>1. AfterLock[pc[p]] \in Unaware \cup {"retain_or_remove"}
    BY <1>2 DEF LockGranted, AfterLock
  <2>2. pc'[p] = AfterLock[pc[p]]
    BY <1>2 DEF LockGranted
  <2> QED
    BY <2>1, <2>2 DEF DiskInv, Recovered, Recording
<1>3. CASE LockBusy(p)
  BY <1>3 DEF LockBusy
<1>4. CASE Verify(p)
  <2>1. CASE Whole
    BY <1>4, <2>1 DEF Verify, DiskInv, Recovered, Recording, storeDisk, Whole, RuntimeVerified
  <2>2. CASE ~Whole
    BY <1>4, <2>2 DEF Verify
  <2> QED
    BY <2>1, <2>2
<1>5. CASE Reverify(p)
  BY <1>5 DEF Reverify
<1>6. CASE VerifyAgain(p)
  <2>1. CASE Whole
    BY <1>6, <2>1 DEF VerifyAgain, DiskInv, Recovered, Recording, storeDisk, Whole, RuntimeVerified
  <2>2. CASE ~Whole
    BY <1>6, <2>2 DEF VerifyAgain
  <2> QED
    BY <2>1, <2>2
<1>7. CASE Start(p)
  <2>1. CASE Fail(p)
    BY <2>1 DEF Fail
  <2>2. CASE ~Fail(p)
    <3>1. Whole /\ UNCHANGED storeDisk /\ pc'[p] = "serving"
      BY <1>7, <2>2 DEF Start, DiskInv
    <3> QED
      BY <3>1 DEF DiskInv, Recovered, Recording, storeDisk, Whole, RuntimeVerified
  <2> QED
    BY <2>1, <2>2
<1>8. CASE RecoverActive(p)
  <2>1. CASE Recorded /\ Whole
    <3>1. UNCHANGED storeDisk /\ pc'[p] = "installed"
      BY <1>8, <2>1 DEF RecoverActive
    <3> QED
      BY <2>1, <3>1 DEF DiskInv, Recovered, Recording, storeDisk, Whole, RuntimeVerified, Recorded
  <2>2. CASE ~(Recorded /\ Whole)
    BY <1>8, <2>2 DEF RecoverActive
  <2> QED
    BY <2>1, <2>2
<1>9. CASE Installed(p)
  BY <1>9 DEF Installed
<1>10. CASE BeginReady(p) \/ BeginInstall(p) \/ StopServing(p) \/ Crash(p)
  BY <1>10 DEF BeginReady, BeginInstall, StopServing, Crash
<1> QED
  BY <1>1, <1>2, <1>3, <1>4, <1>5, <1>6, <1>7, <1>8, <1>9, <1>10 DEF Locks, Ready

\* recover_interrupted_promotion leaves no backup, one asset after the other.
LEMMA RecoverPendingDisk ==
  ASSUME StoreTypeOK, NEW p \in Core, DiskInv(p), RecoverPending(p)
  PROVE  DiskInv(p)'
<1> DEFINE a == RecoveredAsset[pc[p]]
<1>0. /\ asset \in [Asset -> AssetFiles] /\ pc[p] \in {"recover_runtime", "recover_model"}
      /\ pc[p] = "recover_runtime" => a = "runtime" /\ AfterRecover[pc[p]] = "recover_model"
      /\ pc[p] = "recover_model" => a = "model" /\ AfterRecover[pc[p]] = "cleanup"
      /\ Asset = {"runtime", "model"}
  BY SMTT(40), TypeParts DEF DiskTyped, RecoverPending, RecoveredAsset, AfterRecover, Asset
<1>1. CASE Fail(p)
  BY <1>1, FinishDisk DEF Fail
<1>2. CASE ~Fail(p)
  <2>1. /\ pc' = pc \/ pc'[p] = AfterRecover[pc[p]]
        /\ \A b \in Asset \ {a} : asset'[b] = asset[b]
        /\ pc' = pc => asset'["runtime"].backup = asset["runtime"].backup
        /\ pc'[p] = AfterRecover[pc[p]] => pc' = pc \/ asset'[a].backup = "none"
    <3>1. CASE asset[a].backup = "none"
      BY <1>0, <1>2, <3>1, Arrives DEF RecoverPending, storeDisk
    <3>2. CASE asset[a].backup # "none" /\ asset[a].final # "none"
      <4>1. asset' = [asset EXCEPT ![a].final = "none"] /\ pc' = pc
        BY <1>2, <3>2 DEF RecoverPending
      <4> QED
        BY <1>0, <4>1 DEF AssetFiles
    <3>3. CASE asset[a].backup # "none" /\ asset[a].final = "none"
      <4>1. /\ asset' = [asset EXCEPT ![a].final = asset[a].backup, ![a].backup = "none"]
            /\ Goto(p, AfterRecover[pc[p]])
        BY <1>2, <3>3 DEF RecoverPending
      <4>2. pc'[p] = AfterRecover[pc[p]] /\ pc'[p] # pc[p]
        BY <1>0, <4>1, Arrives
      <4> QED
        BY <1>0, <4>1, <4>2 DEF AssetFiles
    <3> QED
      BY <3>1, <3>2, <3>3
  <2> QED
    BY <1>0, <2>1 DEF DiskInv, Recovered, Recording
<1> QED
  BY <1>1, <1>2

\* Up to the staging no backup is pending, and what is missing is known.
LEMMA ImportDisk ==
  ASSUME StoreTypeOK, NEW p \in Core, DiskInv(p), CleanupStaging(p) \/ Import(p) \/ Inspect(p)
  PROVE  DiskInv(p)'
<1>0. asset \in [Asset -> AssetFiles] /\ Asset = {"runtime", "model"} /\ need \in [Core -> SUBSET Asset]
      /\ promoted \in [Core -> SUBSET Asset]
  BY TypeParts DEF DiskTyped, WorkTyped, Asset
<1>1. \A a \in Asset : asset[a].backup = "none"
  BY DEF DiskInv, Recovered, CleanupStaging, Import, Inspect
<1>2. CASE CleanupStaging(p)
  <2>1. \A a \in Asset : asset'[a].backup = "none"
    BY <1>0, <1>1, <1>2 DEF CleanupStaging, AssetFiles
  <2>2. pc'[p] = "import"
    BY <1>2, Arrives DEF CleanupStaging
  <2> QED
    BY <2>1, <2>2 DEF DiskInv, Recovered, Recording
<1>3. CASE Import(p)
  <2>1. CASE Finish(p)
    BY <2>1, FinishDisk
  <2>2. CASE ~Finish(p)
    <3>1. PICK c : asset' = [asset EXCEPT !["model"].final = c] /\ pc'[p] = "inspect"
      BY <1>3, <2>2, Arrives DEF Import
    <3>2. \A a \in Asset : asset'[a].backup = "none"
      BY <1>0, <1>1, <3>1 DEF AssetFiles
    <3> QED
      BY <3>1, <3>2 DEF DiskInv, Recovered, Recording
  <2> QED
    BY <2>1, <2>2
<1>4. CASE Inspect(p)
  <2>1. /\ pc'[p] = "stage_archive" /\ promoted'[p] = {} /\ UNCHANGED storeDisk
        /\ need'[p] = (IF RuntimeVerified THEN {} ELSE {"runtime"}) \cup
                      (IF asset["model"].final = "good" THEN {} ELSE {"model"})
    BY <1>0, <1>4, Arrives DEF Inspect
  <2>2. Missing(p)'
    BY <2>1 DEF Missing, storeDisk, RuntimeVerified
  <2> QED
    BY <1>1, <2>1, <2>2 DEF DiskInv, Recovered, Recording, storeDisk
<1> QED
  BY <1>2, <1>3, <1>4

\* Each staging step leaves its asset staged; a candidate is not yet a file
\* that an engine could be started from.
LEMMA StageDisk ==
  ASSUME StoreTypeOK, NEW p \in Core, DiskInv(p),
         StageArchive(p) \/ StageRuntime(p) \/ StageModel(p) \/ VerifySample(p)
  PROVE  DiskInv(p)'
<1>0. asset \in [Asset -> AssetFiles] /\ Asset = {"runtime", "model"}
  BY TypeParts DEF DiskTyped, Asset
<1>1. /\ \A a \in Asset : asset[a].backup = "none"
      /\ Missing(p) /\ promoted[p] = {}
  BY DEF DiskInv, Recovered, StageArchive, StageRuntime, StageModel, VerifySample
<1>2. CASE pc'[p] = "recover_active"
  BY <1>2, UnawareDisk DEF Unaware
<1>3. CASE StageArchive(p) /\ pc'[p] # "recover_active"
  <2>1. /\ pc'[p] = "stage_runtime" /\ UNCHANGED asset /\ UNCHANGED storeWork
        /\ ("runtime" \notin need[p] /\ archive' = archive) \/ archive' = "good"
    BY <1>3, Arrives DEF StageArchive, storeDisk
  <2>2. archive' = "good" /\ Missing(p)' /\ promoted'[p] = {}
    BY <1>1, <2>1 DEF Missing, RuntimeVerified, storeWork
  <2>3. \A a \in Asset : asset'[a].backup = "none"
    BY <1>1, <2>1
  <2> QED
    BY <2>1, <2>2, <2>3 DEF DiskInv, Recovered, Recording, ArchiveStaged
<1>4. CASE StageRuntime(p) /\ pc'[p] # "recover_active"
  <2>1. /\ pc'[p] = "stage_model" /\ UNCHANGED archive /\ UNCHANGED storeWork
        /\ asset' = IF "runtime" \in need[p]
                    THEN [asset EXCEPT !["runtime"].candidate = archive] ELSE asset
        /\ archive = "good"
    BY <1>4, Arrives DEF StageRuntime, FailInstall, Extracted, DiskInv, ArchiveStaged
  <2>2. /\ "runtime" \in need[p] => asset'["runtime"].candidate = "good"
        /\ \A a \in Asset : asset'[a].backup = "none" /\ asset'[a].final = asset[a].final
    BY <1>0, <1>1, <2>1 DEF AssetFiles
  <2>3. Missing(p)' /\ promoted'[p] = {} /\ need'[p] = need[p]
    BY <1>0, <1>1, <2>1, <2>2 DEF Missing, RuntimeVerified, storeWork
  <2> QED
    BY <2>1, <2>2, <2>3 DEF DiskInv, Recovered, Recording, ArchiveStaged, RuntimeStaged
<1>5. CASE StageModel(p) /\ pc'[p] # "recover_active"
  <2>1. /\ pc'[p] = "sample" /\ UNCHANGED archive /\ UNCHANGED storeWork
        /\ \/ "model" \notin need[p] /\ UNCHANGED asset
           \/ asset' = [asset EXCEPT !["model"].candidate = "good"]
        /\ archive = "good" /\ RuntimeStaged(p)
    BY <1>5, Arrives DEF StageModel, FailInstall, DiskInv, ArchiveStaged, storeDisk
  <2>2. /\ "model" \in need[p] => asset'["model"].candidate = "good"
        /\ asset'["runtime"] = asset["runtime"]
        /\ \A a \in Asset : asset'[a].backup = "none" /\ asset'[a].final = asset[a].final
    BY <1>0, <1>1, <2>1 DEF AssetFiles
  <2>3. Missing(p)' /\ promoted'[p] = {} /\ need'[p] = need[p]
    BY <1>0, <1>1, <2>1, <2>2 DEF Missing, RuntimeVerified, storeWork
  <2> QED
    BY <2>1, <2>2, <2>3 DEF DiskInv, Recovered, Recording, ArchiveStaged, RuntimeStaged, ModelStaged
<1>6. CASE VerifySample(p) /\ pc'[p] # "recover_active"
  <2>1. /\ pc'[p] = "promote" /\ UNCHANGED storeDisk /\ UNCHANGED storeWork
        /\ archive = "good" /\ RuntimeStaged(p) /\ ModelStaged(p)
    BY <1>6, Arrives DEF VerifySample, FailInstall, DiskInv, ArchiveStaged
  <2>2. PartlyPromoted(p)
    BY <1>0, <1>1, <2>1 DEF PartlyPromoted, RuntimeStaged, ModelStaged, Missing, RuntimeVerified
  <2>3. PartlyPromoted(p)'
    BY <2>1, <2>2 DEF PartlyPromoted, storeDisk, storeWork
  <2> QED
    BY <2>1, <2>3 DEF DiskInv, Recovered, Recording
<1> QED
  BY <1>2, <1>3, <1>4, <1>5, <1>6

\* The two renames of a promotion: between them the asset has no name.
LEMMA PromoteDisk ==
  ASSUME StoreTypeOK, NEW p \in Core, DiskInv(p), Promote(p)
  PROVE  DiskInv(p)'
<1> DEFINE a == NextAsset(p)
<1>0. /\ asset \in [Asset -> AssetFiles] /\ Asset = {"runtime", "model"} /\ a \in Asset
      /\ need[p] \subseteq Asset /\ promoted[p] \subseteq Asset
      /\ promoted \in [Core -> SUBSET Asset]
  BY TypeParts DEF DiskTyped, WorkTyped, Asset, NextAsset
<1>1. CASE pc'[p] \in {"recover_active", "rollback"}
  BY <1>1, UnawareDisk DEF Unaware
<1>2. CASE PromoteAside(p) /\ pc'[p] # "recover_active"
  <2>0. PartlyPromoted(p)
    BY <1>2 DEF PromoteAside, DiskInv
  <2>1. CASE ToPromote(p) = {}
    <3>1. pc'[p] = "record" /\ UNCHANGED storeDisk
      BY <1>2, <2>1, Arrives DEF PromoteAside
    <3>2. Whole
      BY <1>0, <2>0, <2>1 DEF ToPromote, PartlyPromoted, Whole, RuntimeVerified
    <3> QED
      BY <3>1, <3>2 DEF DiskInv, Recovered, Recording, Whole, RuntimeVerified, storeDisk
  <2>2. CASE ToPromote(p) # {}
    <3>1. /\ pc'[p] = "promote_candidate" /\ UNCHANGED archive /\ UNCHANGED storeWork
          /\ asset' = [asset EXCEPT ![a].backup = asset[a].final, ![a].final = "none"]
      BY <1>2, <2>2, Arrives DEF PromoteAside, FailInstall
    <3>2. /\ asset'[a].final = "none" /\ asset'[a].candidate = asset[a].candidate
          /\ \A b \in Asset \ {a} : asset'[b] = asset[b]
      BY <1>0, <3>1 DEF AssetFiles
    <3>3. a \in need[p] \ promoted[p]
      BY <1>0, <2>2 DEF NextAsset, ToPromote
    <3>4. NextAsset(p)' = a /\ ToPromote(p)' # {} /\ need'[p] = need[p] /\ promoted'[p] = promoted[p]
      BY <2>2, <3>1 DEF NextAsset, ToPromote, storeWork
    <3>8. archive' = "good" /\ promoted'[p] \subseteq need'[p]
      BY <2>0, <3>1, <3>4 DEF PartlyPromoted
    <3>9. \A b \in need[p] \ promoted[p] : asset[b].candidate = "good"
      BY <1>0, <2>0 DEF PartlyPromoted
    <3>5. asset'[a].candidate = "good"
      BY <3>2, <3>3, <3>9
    <3>6. \A b \in Asset \ {a} :
            /\ b \in need'[p] \ promoted'[p] => asset'[b].candidate = "good" /\ asset'[b].backup = "none"
            /\ b \notin need'[p] => asset'[b].final = "good" /\ asset'[b].backup = "none"
            /\ b \in promoted'[p] => asset'[b].final = "good"
      BY <2>0, <3>2, <3>4 DEF PartlyPromoted
    <3> HIDE DEF a
    <3>7. /\ asset'[NextAsset(p)'].final = "none" /\ asset'[NextAsset(p)'].candidate = "good"
          /\ \A b \in Asset \ {NextAsset(p)'} :
               /\ b \in need'[p] \ promoted'[p] => asset'[b].candidate = "good" /\ asset'[b].backup = "none"
               /\ b \notin need'[p] => asset'[b].final = "good" /\ asset'[b].backup = "none"
               /\ b \in promoted'[p] => asset'[b].final = "good"
      BY <3>2, <3>4, <3>5, <3>6
    <3> QED
      BY <3>1, <3>4, <3>7, <3>8 DEF DiskInv, Recovered, Recording
  <2> QED
    BY <2>1, <2>2
<1>3. CASE PromoteCandidate(p) /\ pc'[p] # "rollback"
  <2>1. /\ pc'[p] = "promote" /\ UNCHANGED archive /\ UNCHANGED need
        /\ asset' = [asset EXCEPT ![a].final = asset[a].candidate, ![a].candidate = "none"]
        /\ promoted'[p] = promoted[p] \cup {a}
    BY <1>0, <1>3, Arrives DEF PromoteCandidate
  <2>2. /\ archive = "good" /\ promoted[p] \subseteq need[p] /\ ToPromote(p) # {}
        /\ asset[a].candidate = "good"
        /\ \A b \in Asset \ {a} :
             /\ b \in need[p] \ promoted[p] => asset[b].candidate = "good" /\ asset[b].backup = "none"
             /\ b \notin need[p] => asset[b].final = "good" /\ asset[b].backup = "none"
             /\ b \in promoted[p] => asset[b].final = "good"
    BY <1>3 DEF PromoteCandidate, DiskInv
  <2>3. asset'[a].final = "good" /\ \A b \in Asset \ {a} : asset'[b] = asset[b]
    BY <1>0, <2>1, <2>2 DEF AssetFiles
  <2>4. a \in need[p]
    BY <1>0, <2>2 DEF NextAsset, ToPromote
  <2>5. PartlyPromoted(p)'
    BY <1>0, <2>1, <2>2, <2>3, <2>4 DEF PartlyPromoted
  <2> QED
    BY <2>1, <2>5 DEF DiskInv, Recovered, Recording
<1> QED
  BY <1>1, <1>2, <1>3 DEF Promote

\* What is promoted is verified, whatever becomes of the record.
LEMMA RecordDisk ==
  ASSUME StoreTypeOK, NEW p \in Core, DiskInv(p), Record(p) \/ Rollback(p) \/ Commit(p)
  PROVE  DiskInv(p)'
<1>0. asset \in [Asset -> AssetFiles] /\ Asset = {"runtime", "model"}
      /\ record \in [main : BOOLEAN, backup : BOOLEAN]
  BY TypeParts DEF DiskTyped, Asset
<1>1. CASE pc'[p] \in {"recover_active", "rollback"}
  BY <1>1, UnawareDisk DEF Unaware
<1>2. CASE Rollback(p)
  BY <1>1, <1>2, Arrives DEF Rollback
<1>3. CASE Record(p) /\ pc'[p] # "rollback"
  <2>1. Whole /\ Whole'
    BY <1>3 DEF Record, RecordAside, RecordWrite, RecordClean, DiskInv, Recording, storeDisk, Whole, RuntimeVerified
  <2>2. /\ pc'[p] \in {"record_write", "record_clean", "commit"}
        /\ pc'[p] \in {"record_clean", "commit"} => record'.main
    <3>1. CASE RecordAside(p)
      BY <1>3, <3>1, Arrives DEF RecordAside
    <3>2. CASE RecordWrite(p)
      BY <1>0, <1>3, <3>2, Arrives DEF RecordWrite
    <3>3. CASE RecordClean(p)
      BY <1>0, <1>3, <3>3, Arrives DEF RecordClean, DiskInv
    <3> QED
      BY <1>3, <3>1, <3>2, <3>3 DEF Record
  <2> QED
    BY <2>1, <2>2 DEF DiskInv, Recovered
<1>4. CASE Commit(p) /\ pc'[p] # "recover_active"
  <2>1. /\ pc'[p] = "installed" /\ UNCHANGED <<archive, record>>
        /\ asset' = [a \in Asset |-> IF a \in promoted[p]
                                      THEN [asset[a] EXCEPT !.backup = "none"] ELSE asset[a]]
    BY <1>4, Arrives DEF Commit
  <2>2. Whole /\ record.main
    BY <1>4 DEF Commit, DiskInv, Recording
  <2>3. \A a \in Asset : asset'[a].final = asset[a].final
    BY <1>0, <2>1 DEF AssetFiles
  <2>4. Whole' /\ Recorded'
    BY <1>0, <2>1, <2>2, <2>3 DEF Whole, RuntimeVerified, Recorded
  <2> QED
    BY <2>1, <2>4 DEF DiskInv, Recovered, Recording
<1> QED
  BY <1>1, <1>2, <1>3, <1>4

LEMMA DiskStep ==
  ASSUME StoreTypeOK, LeaseInv, ExclusionInv, \A q \in Core : DiskInv(q), [StoreNext]_storeVars
  PROVE  \A q \in Core : DiskInv(q)'
<1> SUFFICES ASSUME NEW q \in Core PROVE DiskInv(q)'
  OBVIOUS
<1>1. ASSUME NEW p \in Core,
             CoreStep(p) \/ BeginReady(p) \/ BeginInstall(p) \/ StopServing(p) \/ Crash(p)
      PROVE  DiskInv(q)'
  <2>1. CASE p = q
    BY <1>1, <2>1, RequestDisk, RecoverPendingDisk, ImportDisk, StageDisk, PromoteDisk, RecordDisk
    DEF CoreStep, Stage
  <2>2. CASE p # q
    <3>1. Apart(p) /\ \E s : pc' = [pc EXCEPT ![p] = s]
      <4>1. CASE OpenLock(p) \/ LockGranted(p)
        BY <4>1 DEF OpenLock, LockGranted, Apart, Goto, storeWork
      <4>2. CASE ~OpenLock(p) /\ ~LockGranted(p)
        BY <1>1, <4>2, CoreMoves DEF Moves
      <4> QED
        BY <4>1, <4>2
    <3>2. pc'[q] = pc[q] /\ need'[q] = need[q] /\ promoted'[q] = promoted[q]
      BY <2>2, <3>1, TypeParts DEF Apart, PcTyped, Proc
    <3> QED
      BY <2>2, <3>1, <3>2, OthersKeepDisk DEF Apart, Proc
  <2> QED
    BY <2>1, <2>2
<1>2. ASSUME NEW r \in Reclaimer, Locks(r) \/ Reclaim(r) PROVE DiskInv(q)'
  <2>0. r \in Proc /\ r # q /\ r \notin Core
    BY StoreAssumption DEF Proc
  <2>1. Apart(r) /\ \E s : pc' = [pc EXCEPT ![r] = s]
    <3>1. CASE OpenLock(r) \/ LockGranted(r) \/ UnlinkLock(r)
      BY <3>1 DEF OpenLock, LockGranted, UnlinkLock, Apart, Goto, storeWork
    <3>2. CASE BeginReclaim(r) \/ RetainOrRemove(r) \/ LockBusy(r)
      BY <3>2, ReclaimMoves DEF Moves
    <3> QED
      BY <1>2, <3>1, <3>2 DEF Locks, Reclaim
  <2>2. pc'[q] = pc[q] /\ need'[q] = need[q] /\ promoted'[q] = promoted[q]
    BY <2>0, <2>1, TypeParts DEF Apart, PcTyped, Proc
  <2> QED
    BY <2>0, <2>1, <2>2, OthersKeepDisk DEF Apart
<1>3. CASE Damage
  <2>1. q \in Proc /\ ~Holds(q) /\ pc' = pc /\ pc[q] \in Steps
    BY <1>3, TypeParts DEF Damage, Proc, PcTyped
  <2>2. pc[q] \notin Reading \cup Writing
    BY <2>1 DEF LeaseInv, Holds
  <2>3. pc'[q] \in Unaware
    BY <2>1, <2>2 DEF Unaware, Free, Reading, Writing, Repairing, Steps
  <2> QED
    BY <2>3, UnawareDisk
<1>4. CASE UNCHANGED storeVars
  BY <1>4 DEF storeVars, storeWork, DiskInv, storeDisk, Missing, ArchiveStaged, RuntimeStaged, ModelStaged,
     PartlyPromoted, ToPromote, NextAsset, Whole, RuntimeVerified, Recorded
<1> QED
  BY <1>1, <1>2, <1>3, <1>4 DEF StoreNext
-----------------------------------------------------------------------------
(* The invariant and what follows from it                                  *)

LEMMA StoreInvInit == StoreInit => IInv
<1> SUFFICES ASSUME StoreInit PROVE IInv
  OBVIOUS
<1>1. StoreTypeOK
  BY StoreTypeInit
<1>2. \A p \in Proc : pc[p] = "idle" /\ lease[p] = NoLease
  BY DEF StoreInit
<1>3. LeaseInv /\ ExclusionInv
  BY <1>2 DEF LeaseInv, ExclusionInv, Holds, NoLease, Proc, Free, Waiting, Reading, Writing, Repairing, ReclaimSteps
<1>4. \A p \in Core : DiskInv(p)
  BY <1>2 DEF DiskInv, Proc, Recovered, Recording
<1> QED
  BY <1>1, <1>3, <1>4 DEF IInv

LEMMA StoreInvStep == ASSUME IInv, [StoreNext]_storeVars, ~UnlinkRaces PROVE IInv'
<1>1. StoreTypeOK'
  BY StoreTypeStep DEF IInv
<1>2. LeaseInv' /\ ExclusionInv'
  BY LeaseStep DEF IInv
<1>3. \A p \in Core : DiskInv(p)'
  BY DiskStep DEF IInv
<1> QED
  BY <1>1, <1>2, <1>3 DEF IInv

\* Where assets.lock keeps its name while somebody has it open, a step is
\* only ever taken with the lease it needs and the files it knows of.
THEOREM StoreInvariant == ASSUME ~UnlinkRaces PROVE StoreSpec => []IInv
<1>1. StoreInit => IInv
  BY StoreInvInit
<1>2. IInv /\ [StoreNext]_storeVars => IInv'
  BY StoreInvStep
<1> QED
  BY <1>1, <1>2, PTL DEF StoreSpec

LEMMA WriterAlone ==
  ASSUME IInv, NEW p \in Proc, pc[p] \in Writing
  PROVE  \A q \in Core : q # p => pc[q] \notin Reading \cup Writing
<1> SUFFICES ASSUME NEW q \in Core, q # p PROVE pc[q] \notin Reading \cup Writing
  OBVIOUS
<1>1. q \in Proc /\ lease[p].mode = "exclusive"
  BY DEF IInv, LeaseInv, Proc
<1>2. ~Holds(q)
  BY <1>1 DEF IInv, ExclusionInv
<1> QED
  BY <1>1, <1>2 DEF IInv, LeaseInv, Holds

\* No Core repairs, promotes or rolls back files that an engine of another
\* Core is executing, for any number of Cores, reclaims, crashes and failures.
THEOREM RepairExcludesEngines == ASSUME ~UnlinkRaces PROVE StoreSpec => []NoRepairUnderAnEngine
<1>1. IInv => NoRepairUnderAnEngine
  BY WriterAlone DEF NoRepairUnderAnEngine, Writing, Reading, Proc
<1> QED
  BY <1>1, StoreInvariant, PTL

\* An install that is about to answer Ok has every file verified and named
\* by the state file, whatever failed on the way and was rolled back.
THEOREM InstallAnswersTheTruth == ASSUME ~UnlinkRaces PROVE StoreSpec => []InstallOkMeansInstalled
<1>1. IInv => InstallOkMeansInstalled
  BY DEF IInv, DiskInv, InstallOkMeansInstalled
<1> QED
  BY <1>1, StoreInvariant, PTL
-----------------------------------------------------------------------------
(* The contract                                                            *)

Serving == {p \in Core : pc[p] = "serving"}

\* An engine is started by Start and by nothing else.
LEMMA OnlyStartServes ==
  ASSUME StoreTypeOK, NEW p \in Core,
         CoreStep(p) \/ BeginReady(p) \/ BeginInstall(p) \/ StopServing(p) \/ Crash(p),
         pc'[p] = "serving"
  PROVE  pc[p] = "start" /\ Moves(p, "serving") /\ Apart(p)
<1>1. ~OpenLock(p) /\ ~LockGranted(p)
  <2>1. CASE OpenLock(p)
    BY <2>1, TypeParts DEF OpenLock, PcTyped, Proc
  <2>2. CASE LockGranted(p)
    <3>1. pc'[p] = AfterLock[pc[p]] /\ pc[p] \in Waiting
      BY <2>2, Arrives DEF LockGranted
    <3> QED
      BY <3>1 DEF AfterLock, Waiting
  <2> QED
    BY <2>1, <2>2
<1>2. PICK s \in Steps : Moves(p, s) /\ Apart(p)
  BY <1>1, CoreMoves
<1>3. s = "serving"
  BY <1>2, TypeParts DEF Moves, PcTyped, Proc
<1>4. pc[p] \in Reading
  BY <1>2, <1>3 DEF Moves, Free, Reading, Writing, Repairing
<1>5. CASE pc[p] = "serving"
  <2>1. BeginReady(p) \/ BeginInstall(p) \/ StopServing(p) \/ Crash(p)
    BY <1>5 DEF CoreStep, Locks, OpenLock, LockGranted, LockBusy, Waiting, Ready, Verify, Reverify, VerifyAgain,
       Start, RecoverPending, AfterRecover, CleanupStaging, Import, Stage, Inspect, StageArchive, StageRuntime,
       StageModel, VerifySample, Promote, PromoteAside, PromoteCandidate, Record, RecordAside, RecordWrite,
       RecordClean, Rollback, Commit, RecoverActive, Installed
  <2> QED
    BY <2>1, Arrives DEF BeginReady, BeginInstall, StopServing, Crash, Finish
<1>6. CASE pc[p] \in {"verify", "verify_again"}
  <2>1. Verify(p) \/ VerifyAgain(p) \/ Crash(p)
    BY <1>6 DEF CoreStep, Locks, OpenLock, LockGranted, LockBusy, Waiting, Ready, Verify, Reverify, VerifyAgain,
       Start, RecoverPending, AfterRecover, CleanupStaging, Import, Stage, Inspect, StageArchive, StageRuntime,
       StageModel, VerifySample, Promote, PromoteAside, PromoteCandidate, Record, RecordAside, RecordWrite,
       RecordClean, Rollback, Commit, RecoverActive, Installed, BeginReady, BeginInstall, StopServing
  <2> QED
    BY <2>1, Arrives DEF Verify, VerifyAgain, Crash, Finish
<1> QED
  BY <1>2, <1>3, <1>4, <1>5, <1>6 DEF Reading

\* A process that moves keeps the contract: it changes files only when no
\* engine runs, and runs one only when it has seen them whole.
LEMMA MoveKeepsContract ==
  ASSUME IInv, NEW p \in Proc, NEW s, pc' = [pc EXCEPT ![p] = s],
         pc[p] \notin Writing => UNCHANGED storeDisk,
         s = "serving" => p \in Core /\ pc[p] = "start"
  PROVE  [Contract!ContractNext]_<<Whole, Serving>>
<1>0. pc'[p] = s /\ \A q \in Core : q # p => pc'[q] = pc[q]
  BY TypeParts DEF IInv, PcTyped, Proc
<1>1. CASE pc[p] \in Writing
  <2>1. \A q \in Core : pc[q] # "serving"
    BY <1>1, WriterAlone DEF Writing, Repairing, Reading
  <2>2. \A q \in Core : pc'[q] # "serving"
    BY <1>0, <1>1, <2>1 DEF Writing, Repairing
  <2>3. Serving = {} /\ Serving' = {}
    BY <2>1, <2>2 DEF Serving
  <2>4. Whole' \in BOOLEAN
    BY DEF Whole, RuntimeVerified
  <2> QED
    BY <2>3, <2>4 DEF Contract!ContractNext, Contract!Change, Serving
<1>2. CASE pc[p] \notin Writing /\ s = "serving"
  <2>1. Whole' = Whole
    BY <1>2 DEF storeDisk, Whole, RuntimeVerified
  <2>2. Whole /\ p \in Core
    BY <1>2 DEF IInv, DiskInv
  <2>3. Serving' = Serving \cup {p}
    BY <1>0, <1>2, <2>2 DEF Serving
  <2> QED
    BY <2>1, <2>2, <2>3 DEF Contract!ContractNext, Contract!Run, Serving
<1>3. CASE pc[p] \notin Writing /\ s # "serving"
  <2>1. Whole' = Whole
    BY <1>3 DEF storeDisk, Whole, RuntimeVerified
  <2>2. Serving' = Serving \ {p}
    BY <1>0, <1>3 DEF Serving
  <2>3. CASE p \in Core
    BY <2>1, <2>2, <2>3 DEF Contract!ContractNext, Contract!Leave, Serving
  <2>4. CASE p \notin Core
    BY <2>1, <2>2, <2>4 DEF Serving
  <2> QED
    BY <2>3, <2>4
<1> QED
  BY <1>1, <1>2, <1>3

LEMMA ContractStep ==
  ASSUME IInv, [StoreNext]_storeVars
  PROVE  [Contract!ContractNext]_<<Whole, Serving>>
<1>1. ASSUME NEW p \in Core,
             CoreStep(p) \/ BeginReady(p) \/ BeginInstall(p) \/ StopServing(p) \/ Crash(p)
      PROVE  [Contract!ContractNext]_<<Whole, Serving>>
  <2>0. p \in Proc /\ StoreTypeOK
    BY DEF Proc, IInv
  <2>1. Apart(p) /\ \E s : pc' = [pc EXCEPT ![p] = s]
    <3>1. CASE OpenLock(p) \/ LockGranted(p)
      BY <3>1 DEF OpenLock, LockGranted, Apart, Goto, storeWork
    <3>2. CASE ~OpenLock(p) /\ ~LockGranted(p)
      BY <1>1, <2>0, <3>2, CoreMoves DEF Moves
    <3> QED
      BY <3>1, <3>2
  <2>2. PICK s : pc' = [pc EXCEPT ![p] = s]
    BY <2>1
  <2>3. pc'[p] = s
    BY <2>0, <2>2, TypeParts DEF PcTyped
  <2>4. s = "serving" => pc[p] = "start"
    BY <1>1, <2>0, <2>3, OnlyStartServes
  <2> QED
    BY <2>0, <2>1, <2>2, <2>4, MoveKeepsContract DEF Apart
<1>2. ASSUME NEW r \in Reclaimer, Locks(r) \/ Reclaim(r)
      PROVE  [Contract!ContractNext]_<<Whole, Serving>>
  <2>0. r \in Proc /\ StoreTypeOK
    BY DEF Proc, IInv
  <2>1. Apart(r) /\ pc' = [pc EXCEPT ![r] = pc'[r]] /\ pc'[r] # "serving"
    <3> USE TypeParts DEF PcTyped
    <3>1. CASE OpenLock(r)
      BY <2>0, <3>1 DEF OpenLock, Apart, storeWork
    <3>2. CASE LockGranted(r)
      <4>1. AfterLock[pc[r]] # "serving"
        BY <3>2 DEF LockGranted, AfterLock, Waiting
      <4> QED
        BY <2>0, <3>2, <4>1 DEF LockGranted, Apart, Goto, storeWork
    <3>3. CASE UnlinkLock(r)
      BY <2>0, <3>3 DEF UnlinkLock, Apart, Goto, storeWork
    <3>4. CASE BeginReclaim(r) \/ RetainOrRemove(r) \/ LockBusy(r)
      <4>1. PICK s \in Steps : Moves(r, s) /\ Apart(r)
        BY <2>0, <3>4, ReclaimMoves
      <4>2. s \in ReclaimSteps \cup {"idle"} /\ pc' = [pc EXCEPT ![r] = s]
        BY <4>1 DEF Moves
      <4> QED
        BY <2>0, <4>1, <4>2 DEF ReclaimSteps
    <3> QED
      BY <1>2, <3>1, <3>2, <3>3, <3>4 DEF Locks, Reclaim
  <2> QED
    BY <2>0, <2>1, MoveKeepsContract DEF Apart
<1>3. CASE Damage
  <2>1. \A q \in Core : pc[q] # "serving" /\ pc'[q] = pc[q]
    BY <1>3 DEF Damage, IInv, LeaseInv, Holds, Reading, Proc
  <2>2. Serving = {} /\ Serving' = {} /\ Whole' \in BOOLEAN
    BY <2>1 DEF Serving, Whole, RuntimeVerified
  <2> QED
    BY <2>2 DEF Contract!ContractNext, Contract!Change, Serving
<1>4. CASE UNCHANGED storeVars
  BY <1>4 DEF storeVars, storeDisk, Serving, Whole, RuntimeVerified
<1> QED
  BY <1>1, <1>2, <1>3, <1>4 DEF StoreNext

\* The store implements its contract: an engine starts only from verified
\* files, which then stay as they are until the last engine is gone.
THEOREM StoreImplementsContract == ASSUME ~UnlinkRaces PROVE StoreSpec => ImplementsContract
<1>1. StoreInit => Contract!ContractInit
  <2> SUFFICES ASSUME StoreInit PROVE Contract!ContractInit
    OBVIOUS
  <2>1. {p \in Core : pc[p] = "serving"} = {}
    BY DEF StoreInit, Proc
  <2>2. Whole \in BOOLEAN
    BY DEF Whole, RuntimeVerified
  <2> QED
    BY <2>1, <2>2 DEF Contract!ContractInit
<1>2. IInv /\ [StoreNext]_storeVars => [Contract!ContractNext]_<<Whole, {p \in Core : pc[p] = "serving"}>>
  BY ContractStep DEF Serving
<1> QED
  BY <1>1, <1>2, StoreInvariant, PTL DEF StoreSpec, ImplementsContract, Contract!ContractSpec
-----------------------------------------------------------------------------
(* The last verified copy                                                  *)

Copies(a) == {asset[a].final, asset[a].backup}

\* One step of a Core that repairs, where the copy of asset a is not yet given
\* up to a rollback or to a backup that does not verify.
LEMMA RepairKeepsCopy ==
  ASSUME IInv, NEW p \in Core, CoreStep(p) \/ Crash(p), pc[p] \in Repairing, pc'[p] # pc[p],
         NEW a \in Asset, "good" \in Copies(a), asset[a].backup # "corrupt",
         pc[p] = "rollback" => asset[a].backup = "good"
  PROVE  "good" \in Copies(a)'
<1>0. /\ StoreTypeOK /\ DiskInv(p) /\ Asset = {"runtime", "model"}
      /\ asset \in [Asset -> AssetFiles] /\ promoted[p] \subseteq Asset
  BY TypeParts DEF IInv, DiskTyped, WorkTyped, Asset
<1>00. asset[a].final \in Content /\ asset[a].backup \in {"none", "good"} /\ asset[a].candidate \in Content
  BY <1>0 DEF AssetFiles, Content
<1>1. CASE UNCHANGED asset
  BY <1>1 DEF Copies
<1>2. CASE RecoverPending(p) /\ ~UNCHANGED asset
  <2> DEFINE b == RecoveredAsset[pc[p]]
  <2>1. /\ asset[b].backup # "none" /\ asset[b].final = "none" /\ b \in Asset
        /\ asset' = [asset EXCEPT ![b].final = asset[b].backup, ![b].backup = "none"]
    BY SMTT(40), <1>2 DEF RecoverPending, storeDisk, Fail, AfterRecover, RecoveredAsset, Asset
  <2> HIDE DEF b
  <2>2. CASE a = b
    BY <1>0, <1>00, <2>1, <2>2 DEF Copies, AssetFiles
  <2>3. CASE a # b
    BY <1>0, <2>1, <2>3 DEF Copies
  <2> QED
    BY <2>2, <2>3
<1>3. CASE CleanupStaging(p)
  BY <1>0, <1>3 DEF CleanupStaging, Copies, AssetFiles
<1>4. CASE Import(p) /\ ~UNCHANGED asset
  <2>1. PICK c : /\ asset' = [asset EXCEPT !["model"].final = c]
                 /\ asset["model"].final = "good" => c = "good"
    BY <1>4 DEF Import, storeDisk, HalfImported
  <2> QED
    BY <1>0, <1>00, <2>1 DEF Copies, AssetFiles
<1>5. CASE StageArchive(p) \/ StageRuntime(p) \/ StageModel(p)
  <2>1. PICK b, c : b \in Asset /\ (asset' = asset \/ asset' = [asset EXCEPT ![b].candidate = c])
    BY <1>0, <1>5 DEF StageArchive, StageRuntime, StageModel, FailInstall, storeDisk, Asset
  <2> QED
    BY <1>0, <1>00, <2>1 DEF Copies, AssetFiles
<1>6. CASE PromoteAside(p) /\ ~UNCHANGED asset
  <2> DEFINE b == NextAsset(p)
  <2>1. asset' = [asset EXCEPT ![b].backup = asset[b].final, ![b].final = "none"] /\ ToPromote(p) # {}
    BY <1>6 DEF PromoteAside, FailInstall, storeDisk
  <2>2. b \in need[p] \ promoted[p] /\ b \in Asset
    BY <1>0, <2>1, TypeParts DEF NextAsset, ToPromote, WorkTyped
  <2>3. PartlyPromoted(p)
    BY <1>0, <1>6 DEF PromoteAside, DiskInv
  <2>4. asset[b].backup = "none"
    BY <2>2, <2>3 DEF PartlyPromoted
  <2> HIDE DEF b
  <2>5. CASE a = b
    BY <1>0, <1>00, <2>1, <2>4, <2>5 DEF Copies, AssetFiles
  <2>6. CASE a # b
    BY <1>0, <2>1, <2>6 DEF Copies
  <2> QED
    BY <2>5, <2>6
<1>7. CASE PromoteCandidate(p)
  <2> DEFINE b == NextAsset(p)
  <2>1. b \in Asset /\ asset[b].final = "none" /\ asset[b].candidate = "good"
    BY <1>0, <1>7 DEF PromoteCandidate, DiskInv, NextAsset
  <2>2. \/ asset' = [asset EXCEPT ![b].final = asset[b].candidate, ![b].candidate = "none"]
        \/ asset' = [asset EXCEPT ![b].final = asset[b].backup, ![b].backup = "none"]
    BY <1>7 DEF PromoteCandidate
  <2> HIDE DEF b
  <2>3. CASE a = b
    BY <1>0, <1>00, <2>1, <2>2, <2>3 DEF Copies, AssetFiles
  <2>4. CASE a # b
    BY <1>0, <2>2, <2>4 DEF Copies
  <2> QED
    BY <2>3, <2>4
<1>8. CASE Rollback(p)
  <2>1. PICK lost, kept : asset' = RolledBack(p, lost, kept)
    BY <1>8 DEF Rollback
  <2>2. asset[a].backup = "good"
    BY <1>8 DEF Rollback
  <2>3. \/ asset'[a] = [asset[a] EXCEPT !.final = "none"]
        \/ asset'[a] = asset[a]
        \/ asset'[a] = [asset[a] EXCEPT !.final = asset[a].backup, !.backup = "none"]
    BY <2>1 DEF RolledBack
  <2>4. asset[a] \in [final : Content, backup : Content, candidate : Content]
    BY <1>0 DEF AssetFiles
  <2>5. asset'[a].backup = "good" \/ asset'[a].final = "good"
    BY <2>2, <2>3, <2>4
  <2> QED
    BY <2>5 DEF Copies
<1>9. CASE Commit(p)
  <2>1. asset[a].final = "good"
    BY <1>0, <1>9 DEF Commit, DiskInv, Recording, Whole, RuntimeVerified, Asset
  <2>2. asset'[a] = asset[a] \/ asset'[a] = [asset[a] EXCEPT !.backup = "none"]
    BY <1>9 DEF Commit
  <2> QED
    BY <1>0, <2>1, <2>2 DEF Copies, AssetFiles
<1>10. CASE \/ Locks(p) \/ Ready(p) \/ Inspect(p) \/ VerifySample(p) \/ Record(p)
            \/ RecoverActive(p) \/ Installed(p) \/ Crash(p)
  BY <1>1, <1>10 DEF Locks, OpenLock, LockGranted, LockBusy, Ready, Verify, Reverify, VerifyAgain, Start, Fail,
     Inspect, VerifySample, FailInstall, Record, RecordAside, RecordWrite, RecordClean, RecoverActive, Installed,
     Crash, storeDisk
<1> QED
  BY <1>1, <1>2, <1>3, <1>4, <1>5, <1>6, <1>7, <1>8, <1>9, <1>10 DEF CoreStep, Stage, Promote

\* A Core moves by its own step.
LEMMA MoverIsActor ==
  ASSUME IInv, [StoreNext]_storeVars, NEW p \in Core, pc'[p] # pc[p], pc[p] \in Repairing
  PROVE  CoreStep(p) \/ Crash(p)
<1>0. p \in Proc /\ PcTyped /\ StoreTypeOK
  BY TypeParts DEF IInv, Proc
<1>1. ASSUME NEW q \in Core, q # p,
             CoreStep(q) \/ BeginReady(q) \/ BeginInstall(q) \/ StopServing(q) \/ Crash(q)
      PROVE  FALSE
  <2>1. \E s : pc' = [pc EXCEPT ![q] = s]
    <3>1. CASE OpenLock(q) \/ LockGranted(q)
      BY <3>1 DEF OpenLock, LockGranted, Goto
    <3>2. CASE ~OpenLock(q) /\ ~LockGranted(q)
      BY <1>0, <1>1, <3>2, CoreMoves DEF Moves
    <3> QED
      BY <3>1, <3>2
  <2> QED
    BY <1>0, <1>1, <2>1 DEF PcTyped
<1>2. ASSUME NEW r \in Reclaimer, Locks(r) \/ Reclaim(r) PROVE FALSE
  <2>0. r # p
    BY StoreAssumption
  <2>1. pc' = [pc EXCEPT ![r] = pc'[r]]
    <3>1. CASE OpenLock(r) \/ LockGranted(r) \/ UnlinkLock(r)
      BY <1>0, <3>1 DEF OpenLock, LockGranted, UnlinkLock, Goto, PcTyped
    <3>2. CASE BeginReclaim(r) \/ RetainOrRemove(r) \/ LockBusy(r)
      <4>1. PICK s \in Steps : Moves(r, s)
        BY <1>0, <3>2, ReclaimMoves
      <4> QED
        BY <1>0, <4>1 DEF Moves, PcTyped
    <3> QED
      BY <1>2, <3>1, <3>2 DEF Locks, Reclaim
  <2> QED
    BY <1>0, <2>0, <2>1 DEF PcTyped
<1>3. ~UNCHANGED pc
  OBVIOUS
<1>4. ~BeginReady(p) /\ ~BeginInstall(p) /\ ~StopServing(p)
  BY DEF BeginReady, BeginInstall, StopServing, Repairing
<1> QED
  BY <1>1, <1>2, <1>3, <1>4 DEF StoreNext, Damage, storeVars

\* No step of an install, not even one that fails, loses the last verified
\* copy of an asset: only a rollback may, of what it had promoted itself, and
\* the recovery of a backup that does not verify.
THEOREM InstallKeepsVerifiedCopy == ASSUME ~UnlinkRaces PROVE StoreSpec => VerifiedCopyKept
<1> DEFINE Kept(a) ==
      /\ "good" \in {asset[a].final, asset[a].backup}
      /\ IF \E p \in Core : pc[p] = "rollback" THEN asset[a].backup = "good"
                                             ELSE asset[a].backup # "corrupt"
      /\ \E p \in Core : pc'[p] # pc[p] /\ pc[p] \in Repairing
      => "good" \in {asset'[a].final, asset'[a].backup}
<1>1. IInv /\ [StoreNext]_storeVars => [\A a \in Asset : Kept(a)]_storeVars
  <2> SUFFICES ASSUME IInv, [StoreNext]_storeVars, NEW a \in Asset,
                      "good" \in Copies(a),
                      IF \E q \in Core : pc[q] = "rollback" THEN asset[a].backup = "good"
                                                          ELSE asset[a].backup # "corrupt",
                      NEW p \in Core, pc'[p] # pc[p], pc[p] \in Repairing
               PROVE  "good" \in Copies(a)'
    BY DEF Copies
  <2>1. CoreStep(p) \/ Crash(p)
    BY MoverIsActor
  <2> QED
    BY <2>1, RepairKeepsCopy
<1> HIDE DEF Kept
<1>2. StoreSpec => [][\A a \in Asset : Kept(a)]_storeVars
  BY <1>1, StoreInvariant, PTL DEF StoreSpec
<1> QED
  BY <1>2 DEF VerifiedCopyKept, Kept
=============================================================================
