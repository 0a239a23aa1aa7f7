-------------------------- MODULE UninstallProofs --------------------------
(***************************************************************************)
(* The order of the uninstall, for every deployment type and any number of *)
(* failed calls, restarts and changes by others, provided that users leave *)
(* the deletion of the ManagedOCS and of the StorageCluster to the         *)
(* deployer (UserActions = {}; the runs MCUserDelete and MCStripFinalizer  *)
(* show what happens otherwise).                                           *)
(*                                                                         *)
(* StorageClusterBeforeCSV is not inductive: that the CSV is deleted only  *)
(* without a StorageCluster rests on the cache of StorageClusters, which   *)
(* may trail the server, but never by a cluster that it has not seen once  *)
(* the ManagedOCS is going (CachedStorageCluster); this in turn on how far *)
(* the copies of the ManagedOCS may trail it.  SafetyInv is the            *)
(* conjunction of these facts, and inductive together with TypeOK.         *)
(***************************************************************************)
EXTENDS ReconcilerProofs

USE DEF clusterVars, listSeen, cacheVars, localVars, boundVars

\* What SafetyInv says of the fields of a well-typed state.
LEMMA Fields ==
    ASSUME TypeOK
    PROVE  /\ mo.uid \in Nat /\ mo.deleting \in BOOLEAN /\ mo.finalizer \in BOOLEAN
           /\ moSeen.uid \in Nat /\ moSeen.deleting \in BOOLEAN
           /\ obj.uid \in Nat /\ obj.deleting \in BOOLEAN
           /\ sc.phase \in Phases /\ sc.owner \in Nat
           /\ scSeen.phase \in Phases /\ uids \in Nat
           /\ mo \in ManagedOCS /\ obj \in ManagedOCS /\ sc \in StorageClusters
           /\ moSeenFresh \in BOOLEAN /\ scSeenFresh \in BOOLEAN
           /\ objFresh \in BOOLEAN /\ labelled \in BOOLEAN /\ uninstall \in BOOLEAN
           /\ pc \in PCs
  BY DEF TypeOK, ManagedOCS, StorageClusters, UIDs

\* What a delete request does to a StorageCluster, case by case.
LEMMA DeletedCases ==
    ASSUME NEW c \in StorageClusters
    PROVE  /\ c.phase \in {"pending", "ready"}
                => Deleted(c).phase = "deleting" /\ Deleted(c).owner = c.owner
           /\ c.phase = "new" => Deleted(c) = NoStorageCluster
           /\ c.phase \in {"absent", "deleting"} => Deleted(c) = c
           /\ c.phase \in Phases
  BY DEF Deleted, StorageClusters, Phases

\* Field by field, what an update of the status, a deletion request and a new
\* owner change, and that they change nothing else.
LEMMA ExceptFields ==
    /\ \A m \in ManagedOCS :
          m.finalizer => /\ Terminating(m).uid = m.uid
                         /\ Terminating(m).deleting /\ Terminating(m).finalizer
  BY DEF ManagedOCS, Terminating, StorageClusters

-----------------------------------------------------------------------------
(***************************************************************************)
(* SafetyInv is inductive                                                  *)
(***************************************************************************)
USE DEF SafetyInv, ServerManagedOCS, Trails, CachedManagedOCS, LocalManagedOCS,
        ServerStorageCluster, CachedStorageCluster, NotYetCleaned, StaleCopies,
        CachedCSVs, WorkerKnows, NoOrphanedManagedOCS,
        Running, Busy, DeletingBranch, CheckBranch, InstallBranch,
        NoManagedOCS, NoStorageCluster, Phases

\* Starting and stopping the pod keeps the invariant.
LEMMA PodKeepsSafety ==
    ASSUME TypeOK, SafetyInv, UserActions = {},
           EnsureManagedOCS \/ StartManager \/ Crash \/ OLMStopsDeployer
    PROVE  SafetyInv'
<1>1. CASE EnsureManagedOCS
  BY <1>1, Fields DEF EnsureManagedOCS
<1>2. CASE StartManager
  BY <1>2, Fields DEF StartManager
<1>3. CASE Crash
  BY <1>3, Fields DEF Crash, Stop, ResetLocals
<1>4. CASE OLMStopsDeployer
  BY <1>4, Fields DEF OLMStopsDeployer, Stop, ResetLocals
<1>5. QED
  BY <1>1, <1>2, <1>3, <1>4

\* The steps every reconcile starts with, and a call that fails, keep it.
LEMMA ReconcileKeepsSafety ==
    ASSUME TypeOK, SafetyInv, UserActions = {},
           ReadManagedOCSFails \/ BeginReconcile \/ CheckUninstallCondition
             \/ UpdateComponentStatus \/ CallFails
    PROVE  SafetyInv'
<1>1. CASE ReadManagedOCSFails
  BY <1>1, Fields DEF ReadManagedOCSFails
<1>2. CASE BeginReconcile
  BY <1>2, Fields DEF BeginReconcile
<1>3. CASE CheckUninstallCondition
  BY <1>3, Fields DEF CheckUninstallCondition
<1>4. CASE UpdateComponentStatus
  BY <1>4, Fields DEF UpdateComponentStatus, PhaseAfter, StatesOf
<1>5. CASE CallFails
  BY <1>5, Fields DEF CallFails, Abort, Fallible
<1>6. QED
  BY <1>1, <1>2, <1>3, <1>4, <1>5

\* The branch for a ManagedOCS under deletion keeps it.
LEMMA DeletingBranchKeepsSafety ==
    ASSUME TypeOK, SafetyInv, UserActions = {},
           DeleteOCSCSV \/ RemoveFinalizer \/ DeleteStorageCluster
             \/ DeleteStorageSystems
    PROVE  SafetyInv'
<1>1. CASE DeleteOCSCSV
  BY <1>1, Fields DEF DeleteOCSCSV, DeleteCSV, OCSCSV, DeployerCSV
<1>2. CASE RemoveFinalizer
  BY <1>2, Fields DEF RemoveFinalizer, Abort
<1>3. CASE DeleteStorageCluster
  <2>1. /\ sc.phase \in {"pending", "ready"}
             => sc'.phase = "deleting" /\ sc'.owner = sc.owner
        /\ sc.phase = "new" => sc' = NoStorageCluster
        /\ sc.phase \in {"absent", "deleting"} => sc' = sc
    BY <1>3, Fields, DeletedCases DEF DeleteStorageCluster
  <2>2. ServerStorageCluster' /\ StaleCopies'
    BY <1>3, <2>1, Fields DEF DeleteStorageCluster
  <2>3. ServerManagedOCS' /\ CachedManagedOCS' /\ LocalManagedOCS'
    BY <1>3, Fields DEF DeleteStorageCluster
  <2>4. CachedStorageCluster' /\ CachedCSVs' /\ WorkerKnows' /\ NoOrphanedManagedOCS'
    BY <1>3, <2>1, Fields DEF DeleteStorageCluster
  <2>5. QED
    BY <2>2, <2>3, <2>4
<1>4. CASE DeleteStorageSystems
  BY <1>4, Fields DEF DeleteStorageSystems
<1>5. QED
  BY <1>1, <1>2, <1>3, <1>4

\* The branch for an installed ManagedOCS keeps it.
LEMMA InstallBranchKeepsSafety ==
    ASSUME TypeOK, SafetyInv, UserActions = {},
           AddFinalizer \/ GetStorageCluster \/ CreateStorageCluster
             \/ UpdateStorageCluster \/ ReconcileResources
    PROVE  SafetyInv'
<1>1. CASE AddFinalizer
  BY <1>1, Fields DEF AddFinalizer, Abort
<1>2. CASE GetStorageCluster
  BY <1>2, Fields DEF GetStorageCluster
<1>3. CASE CreateStorageCluster
  BY <1>3, Fields DEF CreateStorageCluster, Abort
<1>4. CASE UpdateStorageCluster
  <2>1. sc.phase # "absent" /\ obj.uid = mo.uid
    BY <1>4, Fields DEF UpdateStorageCluster
  <2>2. sc'.phase = sc.phase /\ sc'.owner = sc.owner
    <3>1. sc' = sc \/ sc' = [sc EXCEPT !.owner = mo.uid]
      BY <1>4, <2>1 DEF UpdateStorageCluster
    <3>2. sc.owner = mo.uid
      BY <2>1
    <3>3. QED
      BY <3>1, <3>2, Fields DEF StorageClusters
  <2>3. scSeenFresh' => scSeenFresh /\ sc' = sc
    BY <1>4 DEF UpdateStorageCluster
  <2>4. QED
    BY <1>4, <2>1, <2>2, <2>3, Fields DEF UpdateStorageCluster, Abort
<1>5. CASE ReconcileResources
  BY <1>5, Fields DEF ReconcileResources, AreComponentsReadyForUninstall
<1>6. QED
  BY <1>1, <1>2, <1>3, <1>4, <1>5

\* The uninstall and the end of a reconcile keep it.
LEMMA UninstallKeepsSafety ==
    ASSUME TypeOK, SafetyInv, UserActions = {},
           ListStorageClasses \/ ListVolumes \/ ListConsumers
             \/ DeleteManagedOCS \/ RefreshManagedOCS \/ DeleteDeployerCSV
             \/ UpdateStatus
    PROVE  SafetyInv'
<1>1. CASE ListStorageClasses
  BY <1>1, Fields DEF ListStorageClasses
<1>2. CASE ListVolumes
  BY <1>2, Fields DEF ListVolumes, Proceed, Abort
<1>3. CASE ListConsumers
  BY <1>3, Fields DEF ListConsumers, Proceed, Abort
<1>4. CASE DeleteManagedOCS
  BY <1>4, Fields, ExceptFields DEF DeleteManagedOCS
<1>5. CASE RefreshManagedOCS
  BY <1>5, Fields DEF RefreshManagedOCS
<1>6. CASE DeleteDeployerCSV
  BY <1>6, Fields DEF DeleteDeployerCSV, DeleteCSV, OCSCSV, DeployerCSV
<1>7. CASE UpdateStatus
  <2>1. \/ mo' = mo
        \/ obj.uid # 0 /\ objFresh /\ mo' = [mo EXCEPT !.status = obj.status]
    BY <1>7 DEF UpdateStatus
  <2>2. /\ mo'.uid = mo.uid /\ mo'.deleting = mo.deleting
        /\ mo'.finalizer = mo.finalizer
    BY <2>1, Fields DEF ManagedOCS
  <2>3. mo.uid = 0 => mo' = mo
    BY <1>7, <2>1 DEF UpdateStatus
  <2>4. moSeenFresh' => moSeenFresh /\ mo' = mo
    BY <1>7 DEF UpdateStatus
  <2>5. /\ pc = "updateStatus" /\ pc' = "idle" /\ ResetLocals
        /\ UNCHANGED <<sc, csvs, systems, class, use, labelled, monReady, moSeen,
                       scSeen, scSeenFresh, csvSeen, listSeen, uids>>
    BY <1>7 DEF UpdateStatus, EndReconcile
  <2>6. QED
    BY <2>2, <2>3, <2>4, <2>5, Fields DEF ResetLocals
<1>8. QED
  BY <1>1, <1>2, <1>3, <1>4, <1>5, <1>6, <1>7

\* A cache that catches up keeps it.
LEMMA InformersKeepSafety ==
    ASSUME TypeOK, SafetyInv, UserActions = {},
           SyncManagedOCS \/ SyncStorageCluster \/ SyncCSVs
             \/ SyncStorageSystems \/ SyncConsumers \/ OtherEvent
    PROVE  SafetyInv'
<1>1. CASE SyncManagedOCS
  BY <1>1, Fields DEF SyncManagedOCS
<1>2. CASE SyncStorageCluster
  BY <1>2, Fields DEF SyncStorageCluster
<1>3. CASE SyncCSVs
  BY <1>3, Fields DEF SyncCSVs
<1>4. CASE SyncStorageSystems
  BY <1>4, Fields DEF SyncStorageSystems
<1>5. CASE OtherEvent
  BY <1>5, Fields DEF OtherEvent
<1>6. CASE SyncConsumers
  BY <1>6, Fields DEF SyncConsumers
<1>7. QED
  BY <1>1, <1>2, <1>3, <1>4, <1>5, <1>6

\* The operators keep it.
LEMMA OperatorsKeepSafety ==
    ASSUME TypeOK, SafetyInv, UserActions = {},
           OperatorAdopts \/ OperatorReady \/ OperatorNotReady
             \/ OperatorDeletes \/ StorageSystemGone \/ GarbageCollect
             \/ RequestUninstall \/ MonitoringReady \/ MonitoringNotReady
    PROVE  SafetyInv'
<1>1. CASE OperatorAdopts
  BY <1>1, Fields DEF OperatorAdopts, ScWritten
<1>2. CASE OperatorReady
  BY <1>2, Fields DEF OperatorReady, ScWritten
<1>3. CASE OperatorNotReady
  BY <1>3, Fields DEF OperatorNotReady, ScWritten
<1>4. CASE OperatorDeletes
  BY <1>4, Fields DEF OperatorDeletes, ScWritten
<1>5. CASE StorageSystemGone
  BY <1>5, Fields DEF StorageSystemGone
<1>6. CASE GarbageCollect
  BY <1>6, Fields DEF GarbageCollect, ScWritten, Deleted
<1>7. CASE RequestUninstall
  BY <1>7, Fields DEF RequestUninstall
<1>8. CASE MonitoringReady
  BY <1>8, Fields DEF MonitoringReady
<1>9. CASE MonitoringNotReady
  BY <1>9, Fields DEF MonitoringNotReady
<1>10. QED
  BY <1>1, <1>2, <1>3, <1>4, <1>5, <1>6, <1>7, <1>8, <1>9

\* Users who delete nothing by hand keep it.
LEMMA UsersKeepSafety ==
    ASSUME TypeOK, SafetyInv, UserActions = {},
           StorageClaimed \/ StorageReleased \/ StorageClassRemoved
             \/ UserDeletesManagedOCS \/ UserDeletesStorageCluster
             \/ UserStripsFinalizer
    PROVE  SafetyInv'
<1>1. CASE StorageClaimed
  BY <1>1, Fields DEF StorageClaimed
<1>2. CASE StorageReleased
  BY <1>2, Fields DEF StorageReleased
<1>3. CASE StorageClassRemoved
  BY <1>3, Fields DEF StorageClassRemoved
<1>4. CASE UserDeletesManagedOCS
  BY <1>4 DEF UserDeletesManagedOCS
<1>5. CASE UserDeletesStorageCluster
  BY <1>5 DEF UserDeletesStorageCluster
<1>6. CASE UserStripsFinalizer
  BY <1>6 DEF UserStripsFinalizer
<1>7. QED
  BY <1>1, <1>2, <1>3, <1>4, <1>5, <1>6

\* No step of the system breaks the invariant.
LEMMA StepKeepsSafety ==
    ASSUME TypeOK, SafetyInv, UserActions = {}, [Next]_vars
    PROVE  SafetyInv'
<1>1. CASE Next
  BY <1>1, PodKeepsSafety, ReconcileKeepsSafety, DeletingBranchKeepsSafety,
     InstallBranchKeepsSafety, UninstallKeepsSafety, InformersKeepSafety,
     OperatorsKeepSafety, UsersKeepSafety
     DEF Next, Deployer, Informers, Operators, Users
<1>2. CASE UNCHANGED vars
  BY <1>2, Fields DEF vars
<1>3. QED
  BY <1>1, <1>2

HIDE DEF SafetyInv, ServerManagedOCS, Trails, CachedManagedOCS, LocalManagedOCS,
         ServerStorageCluster, CachedStorageCluster, NotYetCleaned, StaleCopies,
         CachedCSVs, WorkerKnows, NoOrphanedManagedOCS,
         Running, Busy, DeletingBranch, CheckBranch, InstallBranch,
         NoManagedOCS, NoStorageCluster, Phases

\* The invariant behind the order of the uninstall holds in every reachable state.
THEOREM SafetyCorrect ==
    ASSUME UserActions = {}
    PROVE  Spec => []SafetyInv
<1>1. Init => SafetyInv
  BY DEF Init, SafetyInv, ServerManagedOCS, CachedManagedOCS, LocalManagedOCS,
         ServerStorageCluster, CachedStorageCluster, StaleCopies, CachedCSVs,
         WorkerKnows, NoOrphanedManagedOCS, Running, Busy, DeletingBranch,
         CheckBranch, InstallBranch, NoManagedOCS, NoStorageCluster
<1>2. TypeOK /\ SafetyInv /\ [Next]_vars => SafetyInv'
  BY StepKeepsSafety
<1>3. QED
  BY <1>1, <1>2, TypeCorrect, PTL DEF Spec

-----------------------------------------------------------------------------
(***************************************************************************)
(* What follows from it                                                    *)
(***************************************************************************)
\* Only two actions take a CSV away.
LEMMA CSVChanges ==
    ASSUME [Next]_vars
    PROVE  DeleteOCSCSV \/ DeleteDeployerCSV \/ csvs' = csvs
  BY DEF Next, Deployer, Informers, Operators, Users, vars,
         EnsureManagedOCS, StartManager, Crash, OLMStopsDeployer,
         ReadManagedOCSFails, BeginReconcile, CheckUninstallCondition,
         UpdateComponentStatus, CallFails, RemoveFinalizer, DeleteStorageCluster,
         DeleteStorageSystems, AddFinalizer, GetStorageCluster, CreateStorageCluster,
         UpdateStorageCluster, ReconcileResources, ListStorageClasses, ListVolumes,
         ListConsumers, DeleteManagedOCS, RefreshManagedOCS, UpdateStatus,
         SyncManagedOCS, SyncStorageCluster, SyncCSVs, SyncStorageSystems, SyncConsumers,
         OtherEvent, OperatorAdopts, OperatorReady, OperatorNotReady, OperatorDeletes,
         StorageSystemGone, GarbageCollect, RequestUninstall, MonitoringReady,
         MonitoringNotReady, StorageClaimed, StorageReleased, StorageClassRemoved,
         UserDeletesManagedOCS, UserDeletesStorageCluster, UserStripsFinalizer

\* The CSV of ocs-operator is only ever deleted when its StorageCluster is gone.
THEOREM UninstallOrder ==
    ASSUME UserActions = {}
    PROVE  Spec => StorageClusterBeforeCSV
<1>1. SafetyInv /\ [Next]_vars
        => (OCSCSV \in csvs /\ OCSCSV \notin csvs' => sc.phase = "absent")
  <2> SUFFICES ASSUME SafetyInv, [Next]_vars, OCSCSV \in csvs, OCSCSV \notin csvs'
               PROVE  sc.phase = "absent"
    OBVIOUS
  <2>1. CASE DeleteOCSCSV
    BY <2>1 DEF DeleteOCSCSV, SafetyInv, WorkerKnows
  <2>2. CASE DeleteDeployerCSV
    BY <2>2, StartValues DEF DeleteDeployerCSV, DeleteCSV
  <2>3. QED
    BY <2>1, <2>2, CSVChanges
<1>2. QED
  BY <1>1, SafetyCorrect, PTL DEF Spec, StorageClusterBeforeCSV

-----------------------------------------------------------------------------
(***************************************************************************)
(* Reconciler implements Lifecycle                                         *)
(***************************************************************************)
\* A step that leaves these alone is a stutter of the lifecycle.
LEMMA Stutters ==
    ASSUME mo'.uid = mo.uid, mo'.deleting = mo.deleting,
           (sc'.phase = "absent") = (sc.phase = "absent"),
           UNCHANGED <<csvs, labelled>>
    PROVE  UNCHANGED L!lifecycleVars
  BY DEF L!lifecycleVars

\* The steps of the pod, of the informers, of the operators and of users: they
\* install, deprovision and ask for the uninstall.
LEMMA EnvironmentRefines ==
    ASSUME TypeOK, SafetyInv, UserActions = {},
           EnsureManagedOCS \/ StartManager \/ Crash \/ OLMStopsDeployer
             \/ Informers \/ Operators \/ Users
    PROVE  [L!LifecycleNext]_(L!lifecycleVars)
<1>1. CASE EnsureManagedOCS
  <2>1. CASE mo.uid # 0
    BY <1>1, <2>1, Stutters DEF EnsureManagedOCS
  <2>2. CASE mo.uid = 0
    <3>1. mo'.uid # 0 /\ ~mo'.deleting
      BY <1>1, <2>2, Fields DEF EnsureManagedOCS
    <3>2. L!Install
      BY <1>1, <2>2, <3>1 DEF EnsureManagedOCS, L!Install
    <3>3. QED
      BY <3>2 DEF L!LifecycleNext
  <2>3. QED
    BY <2>1, <2>2
<1>2. CASE StartManager \/ Crash \/ OLMStopsDeployer \/ Informers
  BY <1>2, Stutters
     DEF StartManager, Crash, OLMStopsDeployer, Informers, SyncManagedOCS,
         SyncStorageCluster, SyncCSVs, SyncStorageSystems, SyncConsumers,
         OtherEvent
<1>3. CASE OperatorAdopts \/ OperatorReady \/ OperatorNotReady
  <2>1. sc.phase # "absent" /\ sc'.phase # "absent"
    BY <1>3, Fields DEF OperatorAdopts, OperatorReady, OperatorNotReady, StorageClusters
  <2>2. QED
    BY <1>3, <2>1, Stutters DEF OperatorAdopts, OperatorReady, OperatorNotReady
<1>4. CASE OperatorDeletes
  <2>1. mo.uid # 0 /\ mo.deleting
    BY <1>4 DEF OperatorDeletes, SafetyInv, ServerStorageCluster
  <2>2. L!Deprovision
    BY <1>4, <2>1 DEF OperatorDeletes, NoStorageCluster, L!Deprovision
  <2>3. QED
    BY <2>2 DEF L!LifecycleNext
<1>5. CASE GarbageCollect
  BY <1>5, Fields, DeletedCases
     DEF GarbageCollect, SafetyInv, ServerStorageCluster, NoStorageCluster
<1>6. CASE RequestUninstall
  <2>1. L!Request
    BY <1>6 DEF RequestUninstall, L!Request
  <2>2. QED
    BY <2>1 DEF L!LifecycleNext
<1>7. CASE StorageSystemGone \/ MonitoringReady \/ MonitoringNotReady
  BY <1>7, Stutters DEF StorageSystemGone, MonitoringReady, MonitoringNotReady
<1>8. CASE Users
  BY <1>8, Stutters
     DEF Users, StorageClaimed, StorageReleased, StorageClassRemoved,
         UserDeletesManagedOCS, UserDeletesStorageCluster, UserStripsFinalizer
<1>9. QED
  BY <1>1, <1>2, <1>3, <1>4, <1>5, <1>6, <1>7, <1>8 DEF Operators

\* The steps of the worker: each of its deletes comes when the lifecycle allows it.
LEMMA WorkerRefines ==
    ASSUME TypeOK, SafetyInv, Deployer \/ CallFails
    PROVE  [L!LifecycleNext]_(L!lifecycleVars)
<1>1. CASE DeleteOCSCSV
  <2>1. CASE csvs' = csvs
    BY <1>1, <2>1, Stutters DEF DeleteOCSCSV
  <2>2. CASE csvs' # csvs
    <3>1. OCSCSV \in csvs /\ csvs' = csvs \ {OCSCSV}
      BY <1>1, <2>2 DEF DeleteOCSCSV, DeleteCSV
    <3>2. mo.uid # 0 /\ mo.deleting /\ sc.phase = "absent"
      BY <1>1, <3>1, Fields
         DEF DeleteOCSCSV, SafetyInv, WorkerKnows, LocalManagedOCS, ServerManagedOCS,
             Busy, Running, DeletingBranch
    <3>3. L!RetireOperator
      BY <1>1, <3>1, <3>2, StartValues DEF DeleteOCSCSV, L!RetireOperator
    <3>4. QED
      BY <3>3 DEF L!LifecycleNext
  <2>3. QED
    BY <2>1, <2>2
<1>2. CASE RemoveFinalizer
  <2>1. CASE mo' = mo
    BY <1>2, <2>1, Stutters DEF RemoveFinalizer
  <2>2. CASE mo' # mo
    <3>1. objFresh /\ mo' = NoManagedOCS
      BY <1>2, <2>2 DEF RemoveFinalizer
    <3>2. mo.uid # 0 /\ mo.deleting /\ sc.phase = "absent" /\ OCSCSV \notin csvs
      BY <1>2, <3>1, Fields
         DEF RemoveFinalizer, SafetyInv, WorkerKnows, LocalManagedOCS, Busy, Running,
             DeletingBranch
    <3>3. L!Finalize
      BY <1>2, <3>1, <3>2 DEF RemoveFinalizer, NoManagedOCS, L!Finalize
    <3>4. QED
      BY <3>3 DEF L!LifecycleNext
  <2>3. QED
    BY <2>1, <2>2
<1>3. CASE DeleteStorageCluster
  <2>1. CASE sc.phase = "new"
    <3>1. sc' = NoStorageCluster
      BY <1>3, <2>1, Fields, DeletedCases DEF DeleteStorageCluster
    <3>2. mo.uid # 0 /\ mo.deleting /\ OCSCSV \in csvs
      BY <1>3, <2>1, Fields
         DEF DeleteStorageCluster, SafetyInv, WorkerKnows, LocalManagedOCS, Busy,
             Running, DeletingBranch, ServerStorageCluster
    <3>3. L!Deprovision
      BY <1>3, <3>1, <3>2 DEF DeleteStorageCluster, NoStorageCluster, L!Deprovision
    <3>4. QED
      BY <3>3 DEF L!LifecycleNext
  <2>2. CASE sc.phase # "new"
    <3>1. (sc'.phase = "absent") = (sc.phase = "absent")
      BY <1>3, <2>2, Fields, DeletedCases DEF DeleteStorageCluster, Phases
    <3>2. QED
      BY <1>3, <3>1, Stutters DEF DeleteStorageCluster
  <2>3. QED
    BY <2>1, <2>2
<1>4. CASE CreateStorageCluster
  <2>1. CASE sc' = sc
    BY <1>4, <2>1, Stutters DEF CreateStorageCluster
  <2>2. CASE sc' # sc
    <3>1. sc'.phase = "new"
      BY <1>4, <2>2 DEF CreateStorageCluster
    <3>2. mo.uid # 0 /\ ~mo.deleting
      BY <1>4 DEF CreateStorageCluster, SafetyInv, WorkerKnows, InstallBranch
    <3>3. L!Provision
      BY <1>4, <3>1, <3>2 DEF CreateStorageCluster, L!Provision
    <3>4. QED
      BY <3>3 DEF L!LifecycleNext
  <2>3. QED
    BY <2>1, <2>2
<1>5. CASE UpdateStorageCluster
  <2>1. (sc'.phase = "absent") = (sc.phase = "absent")
    BY <1>5, Fields DEF UpdateStorageCluster, StorageClusters
  <2>2. QED
    BY <1>5, <2>1, Stutters DEF UpdateStorageCluster
<1>6. CASE DeleteManagedOCS
  <2>1. mo.uid # 0 /\ mo.finalizer /\ obj.status.storageCluster = "Ready"
    BY <1>6 DEF DeleteManagedOCS, SafetyInv, WorkerKnows, ServerManagedOCS,
                InstallBranch, CheckBranch
  <2>2. mo'.uid = mo.uid /\ mo'.deleting
    BY <1>6, <2>1, Fields, ExceptFields DEF DeleteManagedOCS
  <2>3. CASE mo.deleting
    <3>1. mo'.deleting = mo.deleting
      BY <1>6, <2>1, <2>3, Fields DEF DeleteManagedOCS, Terminating, ManagedOCS
    <3>2. QED
      BY <1>6, <2>2, <3>1, Stutters DEF DeleteManagedOCS
  <2>4. CASE ~mo.deleting
    <3>1. sc.phase # "absent" /\ labelled
      BY <1>6, <2>1, <2>4
         DEF DeleteManagedOCS, SafetyInv, WorkerKnows, InstallBranch, CheckBranch,
             CachedStorageCluster, Running
    <3>2. L!BeginUninstall
      BY <1>6, <2>1, <2>2, <2>4, <3>1 DEF DeleteManagedOCS, L!BeginUninstall
    <3>3. QED
      BY <3>2 DEF L!LifecycleNext
  <2>5. QED
    BY <2>3, <2>4
<1>7. CASE DeleteDeployerCSV
  <2>1. CASE csvs' = csvs
    BY <1>7, <2>1, Stutters DEF DeleteDeployerCSV
  <2>2. CASE csvs' # csvs
    <3>1. csvs' = csvs \ {DeployerCSV}
      BY <1>7, <2>2 DEF DeleteDeployerCSV, DeleteCSV
    <3>2. mo.uid = 0 /\ sc.phase = "absent" /\ labelled
      BY <1>7
         DEF DeleteDeployerCSV, SafetyInv, WorkerKnows, LocalManagedOCS, Busy, Running,
             ServerStorageCluster
    <3>3. L!RetireDeployer
      BY <1>7, <3>1, <3>2, StartValues DEF DeleteDeployerCSV, L!RetireDeployer
    <3>4. QED
      BY <3>3 DEF L!LifecycleNext
  <2>3. QED
    BY <2>1, <2>2
<1>8. CASE UpdateStatus
  <2>1. mo' = mo \/ mo' = [mo EXCEPT !.status = obj.status]
    BY <1>8 DEF UpdateStatus
  <2>2. mo'.uid = mo.uid /\ mo'.deleting = mo.deleting
    BY <2>1, Fields DEF ManagedOCS
  <2>3. QED
    BY <1>8, <2>2, Stutters DEF UpdateStatus
<1>9. CASE ReadManagedOCSFails \/ BeginReconcile \/ CheckUninstallCondition
             \/ UpdateComponentStatus \/ CallFails \/ DeleteStorageSystems
             \/ GetStorageCluster \/ ReconcileResources \/ ListStorageClasses
             \/ ListVolumes \/ ListConsumers \/ RefreshManagedOCS
  BY <1>9, Stutters
     DEF ReadManagedOCSFails, BeginReconcile, CheckUninstallCondition,
         UpdateComponentStatus, CallFails, DeleteStorageSystems, GetStorageCluster,
         ReconcileResources, ListStorageClasses, ListVolumes, ListConsumers,
         RefreshManagedOCS
<1>10. CASE AddFinalizer
  BY <1>10 DEF AddFinalizer, SafetyInv, WorkerKnows
<1>11. QED
  BY <1>1, <1>2, <1>3, <1>4, <1>5, <1>6, <1>7, <1>8, <1>9, <1>10 DEF Deployer

\* The system goes through its life in the promised order.
THEOREM ImplementsLifecycle ==
    ASSUME UserActions = {}
    PROVE  Spec => RefinesLifecycle
<1>1. Init => L!LifecycleInit
  BY DEF Init, NoManagedOCS, NoStorageCluster, OCSCSV, DeployerCSV, L!LifecycleInit
<1>2. TypeOK /\ SafetyInv /\ [Next]_vars => [L!LifecycleNext]_(L!lifecycleVars)
  <2> SUFFICES ASSUME TypeOK, SafetyInv, [Next]_vars
               PROVE  [L!LifecycleNext]_(L!lifecycleVars)
    OBVIOUS
  <2>1. CASE Next
    BY <2>1, EnvironmentRefines, WorkerRefines DEF Next
  <2>2. CASE UNCHANGED vars
    BY <2>2, Stutters DEF vars
  <2>3. QED
    BY <2>1, <2>2
<1>3. QED
  BY <1>1, <1>2, TypeCorrect, SafetyCorrect, PTL
     DEF Spec, RefinesLifecycle, L!LifecycleSpec
=============================================================================
