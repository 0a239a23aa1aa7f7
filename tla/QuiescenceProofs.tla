-------------------------- MODULE QuiescenceProofs --------------------------
(***************************************************************************)
(* No wakeup of the reconcile loop is lost: whenever the worker waits with *)
(* an empty queue and current caches, the installation, the stored status  *)
(* and the uninstall are as far as the deployer can bring them, for any    *)
(* number of failed calls, restarts and changes by others.                 *)
(*                                                                         *)
(* The properties say nothing of a state in which the worker is busy or a  *)
(* cache is behind, and so are far from inductive.  The invariants below   *)
(* follow each of them through the reconcile: as long as nothing is on its *)
(* way that would queue another one (NothingPending), the copies the       *)
(* worker decides on say what the server says, and it has either done what *)
(* the property asks, or will do so before it ends, or ends with the       *)
(* request put back (again).                                               *)
(***************************************************************************)
EXTENDS UninstallProofs, UserProofs

-----------------------------------------------------------------------------
(***************************************************************************)
(* The inductive invariants                                                *)
(***************************************************************************)
\* The ManagedOCS is there to stay.
Alive == mo.uid # 0 /\ ~mo.deleting

\* Nothing is on its way that would queue a reconcile: no request, no event of the
\* ManagedOCS that its predicate lets pass, no event of the StorageCluster.
NothingPending == ~queued /\ ~ManagedOCSEvent /\ scSeenFresh

\* How the copies follow the server: a current one equals it; the cache knows every
\* CSV there is, every ManagedOCS there is and no deletion that has not been asked
\* for; and unless a request is queued, the worker's ManagedOCS is the cache's.
CopiesFollow ==
    /\ mo.uid = 0 => ~mo.deleting /\ ~mo.finalizer
    /\ Running =>
         /\ moSeenFresh => moSeen = mo
         /\ scSeenFresh => scSeen = sc
         /\ csvs \subseteq csvSeen
         /\ moSeen.uid = 0 => mo.uid = 0 /\ ~moSeen.deleting
         /\ moSeen.uid = mo.uid /\ moSeen.deleting => mo.deleting
    /\ Busy =>
         /\ obj.uid = 0 => ~obj.deleting
         /\ objFresh => obj.uid = mo.uid /\ obj.deleting = mo.deleting
         /\ ~queued => obj.uid = moSeen.uid /\ obj.deleting = moSeen.deleting

\* What the branch a reconcile has taken says of the ManagedOCS it began with, and
\* of the StorageCluster it has read.
BranchTaken ==
    /\ pc \in DeletingBranch => obj.deleting
    /\ pc \in InstallBranch \cup {"refresh"} => obj.uid # 0 /\ ~obj.deleting
    /\ pc = "deleteDeployerCSV" => obj.uid = 0
    /\ pc = "refresh" => ~Alive
    /\ again => pc = "updateStatus"
    /\ pc = "updateStorageCluster" /\ ~queued
         => scSeen.phase # "absent" /\ scObj.owner = scSeen.owner

\* From the step after the StorageCluster's on, and until the next event, a ManagedOCS
\* that stays has its StorageCluster, or the request will be put back.
InstallAttended ==
    NothingPending /\ Alive /\ pc \in CheckBranch \cup {"idle", "resources", "updateStatus"}
      => again \/ (sc.phase # "absent" /\ sc.owner = mo.uid)

InstallInv == CopiesFollow /\ BranchTaken /\ InstallAttended

Monitoring == IF monReady THEN "Ready" ELSE "Pending"

\* The states computed in this reconcile are those of the cluster until something
\* changes, which queues the next one; at the end they are the stored ones.
StatusAttended ==
    /\ Busy /\ pc \notin {"checkUninstall", "componentStatus"} /\ ~queued /\ Alive
         => /\ obj.status.storageCluster \in StatesOf(scSeen)
            /\ obj.status.monitoring = Monitoring
    /\ pc = "idle" /\ NothingPending /\ Alive
         => /\ mo.status.storageCluster \in StatesOf(sc)
            /\ mo.status.monitoring = Monitoring

\* A reconcile that has looked for the label and missed it has another one queued.
UninstallKnown ==
    Busy /\ pc # "checkUninstall" /\ ~queued => (labelled => uninstall)

\* At its end a reconcile has taken the next step of the uninstall, the delete of the
\* StorageCluster, of the deployer's CSV or of the ManagedOCS, or will be repeated.
UninstallAttended ==
    /\ pc = "deleteStorageCluster" /\ ~queued => scSeen.phase # "absent"
    /\ NothingPending /\ mo.deleting /\ pc \in {"idle", "deleteStorageSystems", "updateStatus"}
         => again \/ sc.phase = "deleting"
    /\ NothingPending /\ mo.uid = 0 /\ labelled /\ pc \in {"idle", "updateStatus"}
         => again \/ DeployerCSV \notin csvs
    /\ NothingPending /\ Alive /\ labelled /\ sc.phase = "ready" /\ monReady
         /\ pc \in {"idle", "updateStatus"} => again

ProgressInv == StatusAttended /\ UninstallKnown /\ UninstallAttended

\* QuiescentMeansUninstalling for the case that users may delete the ManagedOCS and the
\* StorageCluster by hand: nothing is said of a StorageCluster whose ManagedOCS is gone
\* and which waits for the garbage collector.
UninstallGoesOn ==
    Quiescent =>
      /\ mo.deleting => sc.phase = "deleting"
      /\ labelled /\ mo.uid = 0 => DeployerCSV \notin csvs
      /\ labelled /\ Alive => ~(sc.phase = "ready" /\ monReady)

-----------------------------------------------------------------------------
(***************************************************************************)
(* InstallInv is inductive, whatever users do and whichever reads fail     *)
(***************************************************************************)
USE DEF clusterVars, listSeen, cacheVars, localVars, boundVars
USE DEF InstallInv, CopiesFollow, BranchTaken, InstallAttended, Alive,
        NothingPending, ManagedOCSEvent, Running, Busy,
        DeletingBranch, CheckBranch, InstallBranch

\* Starting and stopping the pod keeps InstallInv.
LEMMA PodKeepsInstall ==
    ASSUME TypeOK, InstallInv,
           EnsureManagedOCS \/ StartManager \/ Crash \/ OLMStopsDeployer
    PROVE  InstallInv'
<1>1. CASE EnsureManagedOCS
  BY <1>1, Fields DEF EnsureManagedOCS
<1>2. CASE StartManager
  BY <1>2, Fields DEF StartManager
<1>3. CASE Crash
  BY <1>3, Fields DEF Crash, Stop, ResetLocals
<1>4. CASE OLMStopsDeployer
  BY <1>4, Fields DEF OLMStopsDeployer, Stop, ResetLocals
<1>5. QED
  BY <1>1, <1>2, <1>3, <1>4

\* So do the steps every reconcile starts with, and a call that fails.
LEMMA ReconcileKeepsInstall ==
    ASSUME TypeOK, InstallInv,
           ReadManagedOCSFails \/ BeginReconcile \/ CheckUninstallCondition
             \/ UpdateComponentStatus \/ CallFails
    PROVE  InstallInv'
<1>1. CASE ReadManagedOCSFails
  BY <1>1, Fields DEF ReadManagedOCSFails
<1>2. CASE BeginReconcile
  BY <1>2, Fields DEF BeginReconcile
<1>3. CASE CheckUninstallCondition
  BY <1>3, Fields DEF CheckUninstallCondition
<1>4. CASE UpdateComponentStatus
  BY <1>4, Fields DEF UpdateComponentStatus, PhaseAfter, StatesOf
<1>5. CASE CallFails
  BY <1>5, Fields DEF CallFails, Abort, Fallible
<1>6. QED
  BY <1>1, <1>2, <1>3, <1>4, <1>5

\* So does the branch for a ManagedOCS under deletion.
LEMMA DeletingBranchKeepsInstall ==
    ASSUME TypeOK, InstallInv,
           DeleteOCSCSV \/ RemoveFinalizer \/ DeleteStorageCluster
             \/ DeleteStorageSystems
    PROVE  InstallInv'
<1>1. CASE DeleteOCSCSV
  BY <1>1, Fields DEF DeleteOCSCSV, DeleteCSV, OCSCSV, DeployerCSV
<1>2. CASE RemoveFinalizer
  BY <1>2, Fields DEF RemoveFinalizer, Abort, NoManagedOCS
<1>3. CASE DeleteStorageCluster
  BY <1>3, Fields DEF DeleteStorageCluster
<1>4. CASE DeleteStorageSystems
  BY <1>4, Fields DEF DeleteStorageSystems
<1>5. QED
  BY <1>1, <1>2, <1>3, <1>4

\* So does the branch for an installed ManagedOCS.
LEMMA InstallBranchKeepsInstall ==
    ASSUME TypeOK, InstallInv,
           AddFinalizer \/ GetStorageCluster \/ CreateStorageCluster
             \/ UpdateStorageCluster \/ ReconcileResources
    PROVE  InstallInv'
<1>1. CASE AddFinalizer
  <2>1. CASE objFresh
    BY <1>1, <2>1, Fields, FinalizerAdded DEF AddFinalizer
  <2>2. CASE ~objFresh
    BY <1>1, <2>2, Fields DEF AddFinalizer, Abort
  <2>3. QED
    BY <2>1, <2>2
<1>2. CASE GetStorageCluster
  BY <1>2, Fields DEF GetStorageCluster
<1>3. CASE CreateStorageCluster
  BY <1>3, Fields DEF CreateStorageCluster, Abort
<1>4. CASE UpdateStorageCluster
  BY <1>4, Fields DEF UpdateStorageCluster, Abort
<1>5. CASE ReconcileResources
  BY <1>5, Fields DEF ReconcileResources, AreComponentsReadyForUninstall
<1>6. QED
  BY <1>1, <1>2, <1>3, <1>4, <1>5

\* So do the uninstall and the end of a reconcile.
LEMMA UninstallKeepsInstall ==
    ASSUME TypeOK, InstallInv,
           ListStorageClasses \/ ListVolumes \/ ListConsumers
             \/ DeleteManagedOCS \/ RefreshManagedOCS \/ DeleteDeployerCSV
             \/ UpdateStatus
    PROVE  InstallInv'
<1>1. CASE ListStorageClasses
  BY <1>1, Fields DEF ListStorageClasses
<1>2. CASE ListVolumes
  BY <1>2, Fields DEF ListVolumes, Proceed, Abort
<1>3. CASE ListConsumers
  BY <1>3, Fields DEF ListConsumers, Proceed, Abort
<1>4. CASE DeleteManagedOCS
  <2>1. /\ mo'.uid \in {mo.uid, 0} /\ (mo'.deleting <=> mo'.uid # 0)
        /\ mo'.uid = 0 => ~mo'.finalizer
    BY <1>4, Fields, TerminatingCases DEF DeleteManagedOCS
  <2>2. (moSeenFresh' => moSeenFresh /\ mo' = mo) /\ (objFresh' => objFresh /\ mo' = mo)
    BY <1>4, Fields DEF DeleteManagedOCS
  <2>3. /\ pc = "deleteManagedOCS" /\ pc' = "refresh"
        /\ UNCHANGED <<sc, csvs, moSeen, scSeen, scSeenFresh, csvSeen, queued, obj,
                       scObj, again>>
    BY <1>4 DEF DeleteManagedOCS
  <2>4. QED
    BY <2>1, <2>2, <2>3, Fields
<1>5. CASE RefreshManagedOCS
  BY <1>5, Fields DEF RefreshManagedOCS
<1>6. CASE DeleteDeployerCSV
  BY <1>6, Fields DEF DeleteDeployerCSV, DeleteCSV, OCSCSV, DeployerCSV
<1>7. CASE UpdateStatus
  BY <1>7, Fields, StatusUpdated DEF ResetLocals
<1>8. QED
  BY <1>1, <1>2, <1>3, <1>4, <1>5, <1>6, <1>7

\* So does a cache that catches up.
LEMMA InformersKeepInstall ==
    ASSUME TypeOK, InstallInv, Informers
    PROVE  InstallInv'
<1>1. CASE SyncManagedOCS
  BY <1>1, Fields DEF SyncManagedOCS
<1>2. CASE SyncStorageCluster
  BY <1>2, Fields DEF SyncStorageCluster
<1>3. CASE SyncCSVs
  BY <1>3, Fields DEF SyncCSVs
<1>4. CASE SyncStorageSystems
  BY <1>4, Fields DEF SyncStorageSystems
<1>5. CASE OtherEvent
  BY <1>5, Fields DEF OtherEvent
<1>6. CASE SyncConsumers
  BY <1>6, Fields DEF SyncConsumers
<1>7. QED
  BY <1>1, <1>2, <1>3, <1>4, <1>5, <1>6 DEF Informers

\* So do the operators.
LEMMA OperatorsKeepInstall ==
    ASSUME TypeOK, InstallInv, Operators
    PROVE  InstallInv'
<1>1. CASE OperatorAdopts
  BY <1>1, Fields DEF OperatorAdopts, ScWritten
<1>2. CASE OperatorReady
  BY <1>2, Fields DEF OperatorReady, ScWritten
<1>3. CASE OperatorNotReady
  BY <1>3, Fields DEF OperatorNotReady, ScWritten
<1>4. CASE OperatorDeletes
  BY <1>4, Fields DEF OperatorDeletes, ScWritten
<1>5. CASE StorageSystemGone
  BY <1>5, Fields DEF StorageSystemGone
<1>6. CASE GarbageCollect
  BY <1>6, Fields DEF GarbageCollect, ScWritten
<1>7. CASE RequestUninstall
  BY <1>7, Fields DEF RequestUninstall
<1>8. CASE MonitoringReady
  BY <1>8, Fields DEF MonitoringReady
<1>9. CASE MonitoringNotReady
  BY <1>9, Fields DEF MonitoringNotReady
<1>10. QED
  BY <1>1, <1>2, <1>3, <1>4, <1>5, <1>6, <1>7, <1>8, <1>9 DEF Operators

\* So do users.
LEMMA UsersKeepInstall ==
    ASSUME TypeOK, InstallInv, Users
    PROVE  InstallInv'
<1>1. CASE StorageClaimed
  BY <1>1, Fields DEF StorageClaimed
<1>2. CASE StorageReleased
  BY <1>2, Fields DEF StorageReleased
<1>3. CASE StorageClassRemoved
  BY <1>3, Fields DEF StorageClassRemoved
<1>4. CASE UserDeletesManagedOCS
  BY <1>4, Fields, TerminatingCases DEF UserDeletesManagedOCS
<1>5. CASE UserDeletesStorageCluster
  BY <1>5, Fields DEF UserDeletesStorageCluster, ScWritten
<1>6. CASE UserStripsFinalizer
  BY <1>6, Fields DEF UserStripsFinalizer
<1>7. QED
  BY <1>1, <1>2, <1>3, <1>4, <1>5, <1>6 DEF Users

\* Before the first start nothing has been seen and nothing is owed.
LEMMA InitInstall == Init => InstallInv
  BY DEF Init, NoManagedOCS

\* Every step keeps InstallInv.
LEMMA StepKeepsInstall ==
    ASSUME TypeOK, InstallInv, [Next]_vars
    PROVE  InstallInv'
<1>1. CASE Deployer
  BY <1>1, ReconcileKeepsInstall, DeletingBranchKeepsInstall, InstallBranchKeepsInstall,
     UninstallKeepsInstall DEF Deployer
<1>2. CASE UNCHANGED vars
  BY <1>2 DEF vars
<1>3. QED
  BY <1>1, <1>2, PodKeepsInstall, ReconcileKeepsInstall, InformersKeepInstall,
     OperatorsKeepInstall, UsersKeepInstall DEF Next

-----------------------------------------------------------------------------
(***************************************************************************)
(* ProgressInv is inductive                                                *)
(***************************************************************************)
USE DEF ProgressInv, FinalizerKept, StatusAttended, UninstallKnown, UninstallAttended,
        Monitoring

\* Starting and stopping the pod keeps ProgressInv.
LEMMA PodKeepsProgress ==
    ASSUME TypeOK, InstallInv, ProgressInv, FinalizerKept,
           ReadFaults = FALSE,
           EnsureManagedOCS \/ StartManager \/ Crash \/ OLMStopsDeployer
    PROVE  ProgressInv'
<1>1. CASE EnsureManagedOCS
  BY <1>1, Fields DEF EnsureManagedOCS
<1>2. CASE StartManager
  BY <1>2, Fields DEF StartManager
<1>3. CASE Crash
  BY <1>3, Fields DEF Crash, Stop, ResetLocals
<1>4. CASE OLMStopsDeployer
  BY <1>4, Fields DEF OLMStopsDeployer, Stop, ResetLocals
<1>5. QED
  BY <1>1, <1>2, <1>3, <1>4

\* So do the steps every reconcile starts with, and a call that fails.
LEMMA ReconcileKeepsProgress ==
    ASSUME TypeOK, InstallInv, ProgressInv, FinalizerKept,
           ReadFaults = FALSE,
           ReadManagedOCSFails \/ BeginReconcile \/ CheckUninstallCondition
             \/ UpdateComponentStatus \/ CallFails
    PROVE  ProgressInv'
<1>1. CASE ReadManagedOCSFails
  BY <1>1, Fields DEF ReadManagedOCSFails
<1>2. CASE BeginReconcile
  BY <1>2, Fields DEF BeginReconcile
<1>3. CASE CheckUninstallCondition
  BY <1>3, Fields DEF CheckUninstallCondition, ReadFails
<1>4. CASE UpdateComponentStatus
  <2>1. PICK state \in StatesOf(scSeen) :
           /\ obj' = [obj EXCEPT !.status = [storageCluster |-> state,
                                            monitoring |-> Monitoring]]
           /\ pc' = PhaseAfter(state)
    BY <1>4 DEF UpdateComponentStatus, ReadFails
  <2>2. /\ obj'.uid = obj.uid /\ obj'.deleting = obj.deleting
        /\ obj'.finalizer = obj.finalizer
        /\ obj'.status.storageCluster = state /\ obj'.status.monitoring = Monitoring
    BY <2>1, Fields DEF ManagedOCS
  <2>3. state = "NotFound" <=> scSeen.phase = "absent"
    BY <2>1 DEF StatesOf
  <2>4. /\ pc = "componentStatus"
        /\ UNCHANGED <<clusterVars, cacheVars, queued, objFresh, uninstall, again>>
    BY <1>4 DEF UpdateComponentStatus
  <2>5. StatusAttended'
    BY <2>1, <2>2, <2>4, Fields DEF PhaseAfter
  <2>6. UninstallKnown' /\ UninstallAttended'
    BY <2>1, <2>2, <2>3, <2>4, Fields DEF PhaseAfter
  <2>7. QED
    BY <2>5, <2>6
<1>5. CASE CallFails
  BY <1>5, Fields DEF CallFails, Abort, Fallible
<1>6. QED
  BY <1>1, <1>2, <1>3, <1>4, <1>5

\* So does the branch for a ManagedOCS under deletion.
LEMMA DeletingBranchKeepsProgress ==
    ASSUME TypeOK, InstallInv, ProgressInv, FinalizerKept,
           ReadFaults = FALSE,
           DeleteOCSCSV \/ RemoveFinalizer \/ DeleteStorageCluster
             \/ DeleteStorageSystems
    PROVE  ProgressInv'
<1>1. CASE DeleteOCSCSV
  BY <1>1, Fields DEF DeleteOCSCSV, DeleteCSV, OCSCSV, DeployerCSV
<1>2. CASE RemoveFinalizer
  BY <1>2, Fields DEF RemoveFinalizer, Abort, NoManagedOCS
<1>3. CASE DeleteStorageCluster
  <2>1. /\ sc.phase \in {"pending", "ready", "deleting"} => sc'.phase = "deleting"
        /\ sc.phase = "new" => sc' # sc
        /\ sc.phase \in Phases
    BY <1>3, Fields, DeletedCases DEF DeleteStorageCluster, NoStorageCluster
  <2>2. scSeenFresh' => scSeenFresh /\ sc' = sc
    BY <1>3, Fields DEF DeleteStorageCluster
  <2>3. /\ pc = "deleteStorageCluster" /\ pc' = "deleteStorageSystems"
        /\ UNCHANGED <<mo, csvs, labelled, monReady, moSeen, moSeenFresh, scSeen,
                       csvSeen, queued, localVars>>
    BY <1>3 DEF DeleteStorageCluster
  <2>4. UninstallAttended'
    BY <2>1, <2>2, <2>3, Fields DEF Phases
  <2>5. QED
    BY <2>2, <2>3, <2>4, Fields
<1>4. CASE DeleteStorageSystems
  BY <1>4, Fields DEF DeleteStorageSystems
<1>5. QED
  BY <1>1, <1>2, <1>3, <1>4

\* So does the branch for an installed ManagedOCS.
LEMMA InstallBranchKeepsProgress ==
    ASSUME TypeOK, InstallInv, ProgressInv, FinalizerKept,
           ReadFaults = FALSE,
           AddFinalizer \/ GetStorageCluster \/ CreateStorageCluster
             \/ UpdateStorageCluster \/ ReconcileResources
    PROVE  ProgressInv'
<1>1. CASE AddFinalizer
  <2>1. CASE objFresh
    BY <1>1, <2>1, Fields, FinalizerAdded DEF AddFinalizer
  <2>2. CASE ~objFresh
    BY <1>1, <2>2, Fields DEF AddFinalizer, Abort
  <2>3. QED
    BY <2>1, <2>2
<1>2. CASE GetStorageCluster
  BY <1>2, Fields DEF GetStorageCluster
<1>3. CASE CreateStorageCluster
  BY <1>3, Fields DEF CreateStorageCluster, Abort
<1>4. CASE UpdateStorageCluster
  BY <1>4, Fields DEF UpdateStorageCluster, Abort
<1>5. CASE ReconcileResources
  <2>1. scSeen.phase = "ready" => StatesOf(scSeen) = {"Ready"}
    BY DEF StatesOf
  <2>2. QED
    BY <1>5, <2>1, Fields DEF ReconcileResources, AreComponentsReadyForUninstall
<1>6. QED
  BY <1>1, <1>2, <1>3, <1>4, <1>5

\* So do the uninstall and the end of a reconcile.
LEMMA UninstallKeepsProgress ==
    ASSUME TypeOK, InstallInv, ProgressInv, FinalizerKept,
           ReadFaults = FALSE,
           ListStorageClasses \/ ListVolumes \/ ListConsumers
             \/ DeleteManagedOCS \/ RefreshManagedOCS \/ DeleteDeployerCSV
             \/ UpdateStatus
    PROVE  ProgressInv'
<1>1. CASE ListStorageClasses
  BY <1>1, Fields DEF ListStorageClasses
<1>2. CASE ListVolumes
  BY <1>2, Fields DEF ListVolumes, Proceed, Abort
<1>3. CASE ListConsumers
  BY <1>3, Fields DEF ListConsumers, Proceed, Abort
<1>4. CASE DeleteManagedOCS
  <2>1. /\ mo'.uid \in {mo.uid, 0} /\ (mo'.deleting <=> mo'.uid # 0)
        /\ mo'.uid # 0 => mo'.finalizer
    BY <1>4, Fields, TerminatingCases DEF DeleteManagedOCS
  <2>2. (moSeenFresh' => moSeenFresh /\ mo' = mo) /\ (objFresh' => objFresh /\ mo' = mo)
    BY <1>4, Fields DEF DeleteManagedOCS
  <2>3. /\ pc = "deleteManagedOCS" /\ pc' = "refresh"
        /\ UNCHANGED <<labelled, moSeen, queued, obj, uninstall>>
    BY <1>4 DEF DeleteManagedOCS
  <2>4. QED
    BY <2>1, <2>2, <2>3, Fields
<1>5. CASE RefreshManagedOCS
  BY <1>5, Fields DEF RefreshManagedOCS
<1>6. CASE DeleteDeployerCSV
  BY <1>6, Fields DEF DeleteDeployerCSV, DeleteCSV, OCSCSV, DeployerCSV
<1>7. CASE UpdateStatus
  <2>1. obj.uid # 0 /\ ~queued' => mo'.status = obj.status
    BY <1>7, Fields, StatusUpdated DEF ManagedOCS
  <2>2. UninstallKnown'
    BY <1>7, Fields, StatusUpdated DEF ResetLocals
  <2>3. StatusAttended'
    BY <1>7, <2>1, Fields, StatusUpdated
  <2>4. UninstallAttended'
    BY <1>7, Fields, StatusUpdated DEF ResetLocals
  <2>5. QED
    BY <2>2, <2>3, <2>4
<1>8. QED
  BY <1>1, <1>2, <1>3, <1>4, <1>5, <1>6, <1>7

\* So does a cache that catches up.
LEMMA InformersKeepProgress ==
    ASSUME TypeOK, InstallInv, ProgressInv, FinalizerKept,
           ReadFaults = FALSE, Informers
    PROVE  ProgressInv'
<1>1. CASE SyncManagedOCS
  BY <1>1, Fields DEF SyncManagedOCS
<1>2. CASE SyncStorageCluster
  BY <1>2, Fields DEF SyncStorageCluster
<1>3. CASE SyncCSVs
  BY <1>3, Fields DEF SyncCSVs
<1>4. CASE SyncStorageSystems
  BY <1>4, Fields DEF SyncStorageSystems
<1>5. CASE OtherEvent
  BY <1>5, Fields DEF OtherEvent
<1>6. CASE SyncConsumers
  BY <1>6, Fields DEF SyncConsumers
<1>7. QED
  BY <1>1, <1>2, <1>3, <1>4, <1>5, <1>6 DEF Informers

\* So do the operators.
LEMMA OperatorsKeepProgress ==
    ASSUME TypeOK, InstallInv, ProgressInv, FinalizerKept,
           ReadFaults = FALSE, Operators
    PROVE  ProgressInv'
<1>1. CASE OperatorAdopts
  BY <1>1, Fields DEF OperatorAdopts, ScWritten
<1>2. CASE OperatorReady
  BY <1>2, Fields DEF OperatorReady, ScWritten
<1>3. CASE OperatorNotReady
  BY <1>3, Fields DEF OperatorNotReady, ScWritten
<1>4. CASE OperatorDeletes
  BY <1>4, Fields DEF OperatorDeletes, ScWritten
<1>5. CASE StorageSystemGone
  BY <1>5, Fields DEF StorageSystemGone
<1>6. CASE GarbageCollect
  BY <1>6, Fields DEF GarbageCollect, ScWritten
<1>7. CASE RequestUninstall
  BY <1>7, Fields DEF RequestUninstall
<1>8. CASE MonitoringReady
  BY <1>8, Fields DEF MonitoringReady
<1>9. CASE MonitoringNotReady
  BY <1>9, Fields DEF MonitoringNotReady
<1>10. QED
  BY <1>1, <1>2, <1>3, <1>4, <1>5, <1>6, <1>7, <1>8, <1>9 DEF Operators

\* So do users.
LEMMA UsersKeepProgress ==
    ASSUME TypeOK, InstallInv, ProgressInv, FinalizerKept,
           ReadFaults = FALSE, Users
    PROVE  ProgressInv'
<1>1. CASE StorageClaimed
  BY <1>1, Fields DEF StorageClaimed
<1>2. CASE StorageReleased
  BY <1>2, Fields DEF StorageReleased
<1>3. CASE StorageClassRemoved
  BY <1>3, Fields DEF StorageClassRemoved
<1>4. CASE UserDeletesManagedOCS
  BY <1>4, Fields, TerminatingCases DEF UserDeletesManagedOCS
<1>5. CASE UserDeletesStorageCluster
  BY <1>5, Fields DEF UserDeletesStorageCluster, ScWritten
<1>6. CASE UserStripsFinalizer
  BY <1>6, Fields DEF UserStripsFinalizer
<1>7. QED
  BY <1>1, <1>2, <1>3, <1>4, <1>5, <1>6 DEF Users

\* Before the first start no status is stored and no uninstall requested.
LEMMA InitProgress == Init => ProgressInv
  BY DEF Init, NoManagedOCS

\* Every step keeps ProgressInv.
LEMMA StepKeepsProgress ==
    ASSUME TypeOK, InstallInv, ProgressInv, FinalizerKept,
           ReadFaults = FALSE, [Next]_vars
    PROVE  ProgressInv'
<1>1. CASE Deployer
  BY <1>1, ReconcileKeepsProgress, DeletingBranchKeepsProgress,
     InstallBranchKeepsProgress, UninstallKeepsProgress DEF Deployer
<1>2. CASE UNCHANGED vars
  BY <1>2 DEF vars
<1>3. QED
  BY <1>1, <1>2, PodKeepsProgress, ReconcileKeepsProgress, InformersKeepProgress,
     OperatorsKeepProgress, UsersKeepProgress DEF Next

\* Once the worker rests, the installation is there.
LEMMA RestIsInstalled == TypeOK /\ InstallInv => QuiescentMeansInstalled
  BY Fields DEF QuiescentMeansInstalled, Quiescent

\* Once the worker rests, the stored status is the cluster's.
LEMMA RestIsStored == TypeOK /\ InstallInv /\ ProgressInv => QuiescentMeansStatusStored
<1> SUFFICES ASSUME TypeOK, InstallInv, ProgressInv, Quiescent, mo.uid # 0, ~mo.deleting
             PROVE  /\ mo.status.storageCluster \in StatesOf(sc)
                    /\ mo.status.monitoring = Monitoring
                    /\ sc.phase = "ready" /\ monReady => IsReady
                    /\ IsReady => "Ready" \in StatesOf(sc) /\ monReady
  BY DEF QuiescentMeansStatusStored
<1>1. /\ mo.status.storageCluster \in StatesOf(sc)
      /\ mo.status.monitoring = Monitoring
  BY Fields DEF Quiescent
<1>2. mo.status \in Statuses
  BY Fields DEF ManagedOCS
<1>3. IsReady <=> mo.status.storageCluster = "Ready" /\ mo.status.monitoring = "Ready"
  BY <1>2, StatusFields DEF IsReady
<1>4. sc.phase = "ready" => StatesOf(sc) = {"Ready"}
  BY DEF StatesOf
<1>5. QED
  BY <1>1, <1>3, <1>4, Fields

\* Once the worker rests, the next step of the uninstall is up to others.
LEMMA RestIsAttended == TypeOK /\ InstallInv /\ ProgressInv => UninstallGoesOn
<1> SUFFICES ASSUME TypeOK, InstallInv, ProgressInv, Quiescent
             PROVE  /\ mo.deleting => sc.phase = "deleting"
                    /\ labelled /\ mo.uid = 0 => DeployerCSV \notin csvs
                    /\ labelled /\ Alive => ~(sc.phase = "ready" /\ monReady)
  BY DEF UninstallGoesOn
<1>1. QED
  BY Fields DEF Quiescent

HIDE DEF ProgressInv, FinalizerKept, StatusAttended, UninstallKnown, UninstallAttended,
         Monitoring, InstallInv, CopiesFollow, BranchTaken, InstallAttended,
         Alive, NothingPending, ManagedOCSEvent, Running, Busy,
         DeletingBranch, CheckBranch, InstallBranch

-----------------------------------------------------------------------------
(***************************************************************************)
(* What the run's properties say, in every reachable state                 *)
(***************************************************************************)
\* InstallInv holds in every reachable state.
LEMMA InstallInvariance == Spec => []InstallInv
<1>1. TypeOK /\ InstallInv /\ [Next]_vars => InstallInv'
  BY StepKeepsInstall
<1>2. QED
  BY <1>1, InitInstall, TypeCorrect, PTL DEF Spec

\* No wakeup of an installation is lost: when the worker waits with an empty queue
\* and current caches, a ManagedOCS that is to stay has its StorageCluster and owns
\* it, whatever calls and reads failed, and whoever deleted what.
THEOREM QuiescentInstalled == Spec => []QuiescentMeansInstalled
  BY InstallInvariance, RestIsInstalled, TypeCorrect, PTL

\* ProgressInv holds in every reachable state, if users leave the finalizer alone and
\* the reads fail only by NotFound.
LEMMA ProgressInvariance ==
    ASSUME ReadFaults = FALSE, "stripFinalizer" \notin UserActions
    PROVE  Spec => []ProgressInv
<1>1. TypeOK /\ InstallInv /\ ProgressInv /\ FinalizerKept /\ [Next]_vars => ProgressInv'
  BY StepKeepsProgress
<1>2. Spec => []FinalizerKept
  <2>1. DecisionInv => FinalizerKept
    BY DEF DecisionInv
  <2>2. QED
    BY <2>1, DecisionInvariance, PTL
<1>3. QED
  BY <1>1, <1>2, InitProgress, InstallInvariance, TypeCorrect, PTL DEF Spec

\* "Ensure status is updated once": when the worker waits, the stored status is that
\* of the cluster and the readiness probe answers accordingly, whatever users delete.
\* (Finding 3 is why the finalizer must stay; a read that fails is taken for Unknown.)
THEOREM QuiescentStatusStored ==
    ASSUME ReadFaults = FALSE, "stripFinalizer" \notin UserActions
    PROVE  Spec => []QuiescentMeansStatusStored
<1>1. Spec => []ProgressInv
  BY ProgressInvariance
<1>2. QED
  BY <1>1, InstallInvariance, RestIsStored, TypeCorrect, PTL

\* No wakeup of an uninstall is lost, whatever users delete: when the worker waits, the
\* StorageCluster of a ManagedOCS under deletion is going, the deployer's CSV is gone
\* with the ManagedOCS, and a ready and unused installation is not left standing.
THEOREM UninstallAlwaysGoesOn ==
    ASSUME ReadFaults = FALSE, "stripFinalizer" \notin UserActions
    PROVE  Spec => []UninstallGoesOn
<1>1. Spec => []ProgressInv
  BY ProgressInvariance
<1>2. QED
  BY <1>1, InstallInvariance, RestIsAttended, TypeCorrect, PTL

\* When users leave deletion to the deployer, a StorageCluster has its ManagedOCS, and
\* so the property the run MCUninstallOrder checks holds in full.
THEOREM QuiescentUninstalling ==
    ASSUME ReadFaults = FALSE, UserActions = {}
    PROVE  Spec => []QuiescentMeansUninstalling
<1>1. Spec => []UninstallGoesOn
  BY UninstallAlwaysGoesOn
<1>2. SafetyInv /\ UninstallGoesOn => QuiescentMeansUninstalling
  BY DEF SafetyInv, ServerStorageCluster, UninstallGoesOn, Alive,
         QuiescentMeansUninstalling
<1>3. Spec => []SafetyInv
  BY SafetyCorrect
<1>4. QED
  BY <1>1, <1>2, <1>3, PTL
=============================================================================
