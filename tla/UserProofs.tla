----------------------------- MODULE UserProofs -----------------------------
(***************************************************************************)
(* What holds of Reconciler whatever users do by hand: the deployer goes   *)
(* last, storage in use stops the uninstall, and, unless they strip the    *)
(* finalizer, an uninstall is decided on what the reconcile itself found.  *)
(***************************************************************************)
EXTENDS ReconcilerProofs

USE DEF clusterVars, listSeen, cacheVars, localVars, boundVars

-----------------------------------------------------------------------------
(***************************************************************************)
(* The deployer's CSV goes after the last ManagedOCS                       *)
(***************************************************************************)
\* A ManagedOCS is only created before the caches are filled.  So a cache that
\* holds none is right about it, and so is a worker that found none there.
AbsenceIsFinal ==
    /\ Running /\ moSeen.uid = 0 => mo.uid = 0
    /\ Running /\ pc # "idle" /\ obj.uid = 0 => mo.uid = 0
    /\ pc = "deleteDeployerCSV" => obj.uid = 0
    /\ NoOrphanedManagedOCS

\* The uids of the ManagedOCS and its copies are numbers.
LEMMA UIDFields ==
    ASSUME TypeOK
    PROVE  /\ mo.uid \in Nat /\ moSeen.uid \in Nat /\ obj.uid \in Nat /\ uids \in Nat
           /\ mo \in ManagedOCS /\ obj \in ManagedOCS
  BY DEF TypeOK, ManagedOCS, UIDs

USE DEF AbsenceIsFinal, NoOrphanedManagedOCS, Running

\* Starting and stopping the pod keeps AbsenceIsFinal.
LEMMA PodKeepsAbsence ==
    ASSUME TypeOK, AbsenceIsFinal,
           EnsureManagedOCS \/ StartManager \/ Crash \/ OLMStopsDeployer
    PROVE  AbsenceIsFinal'
<1>1. CASE EnsureManagedOCS
  BY <1>1, UIDFields DEF EnsureManagedOCS
<1>2. CASE StartManager
  BY <1>2, UIDFields DEF StartManager
<1>3. CASE Crash
  BY <1>3, UIDFields DEF Crash, Stop, ResetLocals, NoManagedOCS
<1>4. CASE OLMStopsDeployer
  BY <1>4, UIDFields DEF OLMStopsDeployer, Stop, ResetLocals, NoManagedOCS
<1>5. QED
  BY <1>1, <1>2, <1>3, <1>4

\* So do the steps every reconcile starts with, and a call that fails.
LEMMA ReconcileKeepsAbsence ==
    ASSUME TypeOK, AbsenceIsFinal,
           ReadManagedOCSFails \/ BeginReconcile \/ CheckUninstallCondition
             \/ UpdateComponentStatus \/ CallFails
    PROVE  AbsenceIsFinal'
<1>1. CASE ReadManagedOCSFails
  BY <1>1, UIDFields DEF ReadManagedOCSFails
<1>2. CASE BeginReconcile
  BY <1>2, UIDFields DEF BeginReconcile
<1>3. CASE CheckUninstallCondition
  BY <1>3, UIDFields DEF CheckUninstallCondition
<1>4. CASE UpdateComponentStatus
  BY <1>4, UIDFields DEF UpdateComponentStatus, PhaseAfter
<1>5. CASE CallFails
  BY <1>5, UIDFields DEF CallFails, Abort, Fallible
<1>6. QED
  BY <1>1, <1>2, <1>3, <1>4, <1>5

\* So does the branch for a ManagedOCS under deletion.
LEMMA DeletingBranchKeepsAbsence ==
    ASSUME TypeOK, AbsenceIsFinal,
           DeleteOCSCSV \/ RemoveFinalizer \/ DeleteStorageCluster
             \/ DeleteStorageSystems
    PROVE  AbsenceIsFinal'
<1>1. CASE DeleteOCSCSV
  BY <1>1, UIDFields DEF DeleteOCSCSV, DeleteCSV, OCSCSV, DeployerCSV
<1>2. CASE RemoveFinalizer
  BY <1>2, UIDFields DEF RemoveFinalizer, Abort, NoManagedOCS
<1>3. CASE DeleteStorageCluster
  BY <1>3, UIDFields DEF DeleteStorageCluster
<1>4. CASE DeleteStorageSystems
  BY <1>4, UIDFields DEF DeleteStorageSystems
<1>5. QED
  BY <1>1, <1>2, <1>3, <1>4

\* So does the branch for an installed ManagedOCS.
LEMMA InstallBranchKeepsAbsence ==
    ASSUME TypeOK, AbsenceIsFinal,
           AddFinalizer \/ GetStorageCluster \/ CreateStorageCluster
             \/ UpdateStorageCluster \/ ReconcileResources
    PROVE  AbsenceIsFinal'
<1>1. CASE AddFinalizer
  <2>1. mo' = mo \/ mo' = [mo EXCEPT !.finalizer = TRUE]
    BY <1>1 DEF AddFinalizer
  <2>2. mo'.uid = mo.uid
    BY <2>1, UIDFields DEF ManagedOCS
  <2>3. obj'.uid \in {obj.uid, mo.uid}
    <3>1. CASE objFresh
      <4> DEFINE s == IF mo.status = NoStatus THEN obj.status ELSE mo.status
      <4>1. obj' = [mo' EXCEPT !.status = s]
        BY <1>1, <3>1 DEF AddFinalizer
      <4>2. mo' \in ManagedOCS
        <5>1. CASE mo' = mo
          BY <5>1, UIDFields
        <5>2. CASE mo' = [mo EXCEPT !.finalizer = TRUE]
          BY <5>2, UIDFields, StartValues, ManagedOCSFields
        <5>3. QED
          BY <2>1, <5>1, <5>2
      <4>3. obj'.uid = mo'.uid
        BY <4>1, <4>2 DEF ManagedOCS
      <4>4. QED
        BY <4>3, <2>2
    <3>2. CASE ~objFresh
      BY <1>1, <3>2 DEF AddFinalizer
    <3>3. QED
      BY <3>1, <3>2
  <2>4. pc = "addFinalizer" /\ pc' # "deleteDeployerCSV"
        /\ UNCHANGED <<moSeen, csvs>>
    BY <1>1 DEF AddFinalizer, Abort
  <2>5. QED
    BY <2>2, <2>3, <2>4
<1>2. CASE GetStorageCluster
  BY <1>2, UIDFields DEF GetStorageCluster
<1>3. CASE CreateStorageCluster
  BY <1>3, UIDFields DEF CreateStorageCluster, Abort
<1>4. CASE UpdateStorageCluster
  BY <1>4, UIDFields DEF UpdateStorageCluster, Abort
<1>5. CASE ReconcileResources
  BY <1>5, UIDFields DEF ReconcileResources
<1>6. QED
  BY <1>1, <1>2, <1>3, <1>4, <1>5

\* So do the uninstall and the end of a reconcile.
LEMMA UninstallKeepsAbsence ==
    ASSUME TypeOK, AbsenceIsFinal,
           ListStorageClasses \/ ListVolumes \/ ListConsumers
             \/ DeleteManagedOCS \/ RefreshManagedOCS \/ DeleteDeployerCSV
             \/ UpdateStatus
    PROVE  AbsenceIsFinal'
<1>1. CASE ListStorageClasses
  BY <1>1, UIDFields DEF ListStorageClasses
<1>2. CASE ListVolumes
  BY <1>2, UIDFields DEF ListVolumes, Proceed, Abort
<1>3. CASE ListConsumers
  BY <1>3, UIDFields DEF ListConsumers, Proceed, Abort
<1>4. CASE DeleteManagedOCS
  <2>1. mo'.uid \in {mo.uid, 0}
    BY <1>4, UIDFields DEF DeleteManagedOCS, Terminating, NoManagedOCS, ManagedOCS
  <2>2. QED
    BY <1>4, <2>1 DEF DeleteManagedOCS
<1>5. CASE RefreshManagedOCS
  BY <1>5, UIDFields DEF RefreshManagedOCS
<1>6. CASE DeleteDeployerCSV
  BY <1>6, UIDFields DEF DeleteDeployerCSV, DeleteCSV, OCSCSV, DeployerCSV
<1>7. CASE UpdateStatus
  <2>1. mo' = mo \/ mo' = [mo EXCEPT !.status = obj.status]
    BY <1>7 DEF UpdateStatus
  <2>2. mo'.uid = mo.uid
    BY <2>1, UIDFields DEF ManagedOCS
  <2>3. pc = "updateStatus" /\ pc' = "idle" /\ UNCHANGED <<moSeen, csvs>>
    BY <1>7 DEF UpdateStatus, EndReconcile
  <2>4. QED
    BY <2>2, <2>3
<1>8. QED
  BY <1>1, <1>2, <1>3, <1>4, <1>5, <1>6, <1>7

\* So does a cache that catches up.
LEMMA InformersKeepAbsence ==
    ASSUME TypeOK, AbsenceIsFinal,
           SyncManagedOCS \/ SyncStorageCluster \/ SyncCSVs
             \/ SyncStorageSystems \/ SyncConsumers \/ OtherEvent
    PROVE  AbsenceIsFinal'
<1>1. CASE SyncManagedOCS
  BY <1>1, UIDFields DEF SyncManagedOCS
<1>2. CASE SyncStorageCluster
  BY <1>2, UIDFields DEF SyncStorageCluster
<1>3. CASE SyncCSVs
  BY <1>3, UIDFields DEF SyncCSVs
<1>4. CASE SyncStorageSystems
  BY <1>4, UIDFields DEF SyncStorageSystems
<1>5. CASE OtherEvent
  BY <1>5, UIDFields DEF OtherEvent
<1>6. CASE SyncConsumers
  BY <1>6, UIDFields DEF SyncConsumers
<1>7. QED
  BY <1>1, <1>2, <1>3, <1>4, <1>5, <1>6

\* So do the operators.
LEMMA OperatorsKeepAbsence ==
    ASSUME TypeOK, AbsenceIsFinal,
           OperatorAdopts \/ OperatorReady \/ OperatorNotReady
             \/ OperatorDeletes \/ StorageSystemGone \/ GarbageCollect
             \/ RequestUninstall \/ MonitoringReady \/ MonitoringNotReady
    PROVE  AbsenceIsFinal'
<1>1. CASE OperatorAdopts
  BY <1>1, UIDFields DEF OperatorAdopts, ScWritten
<1>2. CASE OperatorReady
  BY <1>2, UIDFields DEF OperatorReady, ScWritten
<1>3. CASE OperatorNotReady
  BY <1>3, UIDFields DEF OperatorNotReady, ScWritten
<1>4. CASE OperatorDeletes
  BY <1>4, UIDFields DEF OperatorDeletes, ScWritten
<1>5. CASE StorageSystemGone
  BY <1>5, UIDFields DEF StorageSystemGone
<1>6. CASE GarbageCollect
  BY <1>6, UIDFields DEF GarbageCollect, ScWritten
<1>7. CASE RequestUninstall
  BY <1>7, UIDFields DEF RequestUninstall
<1>8. CASE MonitoringReady
  BY <1>8, UIDFields DEF MonitoringReady
<1>9. CASE MonitoringNotReady
  BY <1>9, UIDFields DEF MonitoringNotReady
<1>10. QED
  BY <1>1, <1>2, <1>3, <1>4, <1>5, <1>6, <1>7, <1>8, <1>9

\* So does whatever users do.
LEMMA UsersKeepAbsence ==
    ASSUME TypeOK, AbsenceIsFinal,
           StorageClaimed \/ StorageReleased \/ StorageClassRemoved
             \/ UserDeletesManagedOCS \/ UserDeletesStorageCluster
             \/ UserStripsFinalizer
    PROVE  AbsenceIsFinal'
<1>1. CASE StorageClaimed
  BY <1>1, UIDFields DEF StorageClaimed
<1>2. CASE StorageReleased
  BY <1>2, UIDFields DEF StorageReleased
<1>3. CASE StorageClassRemoved
  BY <1>3, UIDFields DEF StorageClassRemoved
<1>4. CASE UserDeletesManagedOCS
  BY <1>4, UIDFields DEF UserDeletesManagedOCS, Terminating, NoManagedOCS, ManagedOCS
<1>5. CASE UserDeletesStorageCluster
  BY <1>5, UIDFields DEF UserDeletesStorageCluster, ScWritten
<1>6. CASE UserStripsFinalizer
  BY <1>6, UIDFields DEF UserStripsFinalizer, ManagedOCS
<1>7. QED
  BY <1>1, <1>2, <1>3, <1>4, <1>5, <1>6

HIDE DEF AbsenceIsFinal, NoOrphanedManagedOCS

\* No ManagedOCS is left without the only program that can finalize it, whatever
\* users delete or edit, and however often the deployer fails or restarts.
THEOREM DeployerGoesLast == Spec => []NoOrphanedManagedOCS
<1>1. Init => AbsenceIsFinal
  BY StartValues
     DEF Init, AbsenceIsFinal, NoOrphanedManagedOCS, Running, NoManagedOCS
<1>2. TypeOK /\ AbsenceIsFinal /\ [Next]_vars => AbsenceIsFinal'
  <2> SUFFICES ASSUME TypeOK, AbsenceIsFinal, [Next]_vars PROVE AbsenceIsFinal'
    OBVIOUS
  <2>1. CASE Next
    BY <2>1, PodKeepsAbsence, ReconcileKeepsAbsence, DeletingBranchKeepsAbsence,
       InstallBranchKeepsAbsence, UninstallKeepsAbsence, InformersKeepAbsence,
       OperatorsKeepAbsence, UsersKeepAbsence
       DEF Next, Deployer, Informers, Operators, Users
  <2>2. CASE UNCHANGED vars
    BY <2>2 DEF vars, AbsenceIsFinal, NoOrphanedManagedOCS
  <2>3. QED
    BY <2>1, <2>2
<1>3. AbsenceIsFinal => NoOrphanedManagedOCS
  BY DEF AbsenceIsFinal
<1>4. QED
  BY <1>1, <1>2, <1>3, TypeCorrect, PTL DEF Spec

-----------------------------------------------------------------------------
(***************************************************************************)
(* Storage in use stops the uninstall                                      *)
(***************************************************************************)
\* What the checks of hasOCSVolumes and hasOCSStorageConsumers have established
\* when the worker comes to the next step: nothing grows old during a reconcile.
\* Once there is an old consumer no change is on its way to the cache, and the last
\* the cache has heard or will hear is how the list is: so it holds that consumer.
UseChecked ==
    /\ pc \in {"listStorageClasses", "listVolumes"} => DeploymentType # "provider"
    /\ pc = "listConsumers" => DeploymentType = "provider"
    /\ pc = "listVolumes" /\ class = "old" => classListed
    /\ use = "old" => Len(consumersSeen) <= 1
    /\ consumersSeen # << >> => consumersSeen[Len(consumersSeen)] = (use # "none")
    /\ pc = "deleteManagedOCS" =>
         ~(use = "old" /\ (DeploymentType = "provider" \/ class = "old"))

USE DEF UseChecked

\* Starting and stopping the pod keeps UseChecked.
LEMMA PodKeepsUseChecked ==
    ASSUME TypeOK, UseChecked,
           EnsureManagedOCS \/ StartManager \/ Crash \/ OLMStopsDeployer
    PROVE  UseChecked'
<1>1. CASE EnsureManagedOCS
  BY <1>1 DEF EnsureManagedOCS
<1>2. CASE StartManager
  BY <1>2 DEF StartManager
<1>3. CASE Crash
  BY <1>3 DEF Crash, Stop
<1>4. CASE OLMStopsDeployer
  BY <1>4 DEF OLMStopsDeployer, Stop
<1>5. QED
  BY <1>1, <1>2, <1>3, <1>4

\* So do the steps every reconcile starts with, and a call that fails.
LEMMA ReconcileKeepsUseChecked ==
    ASSUME TypeOK, UseChecked,
           ReadManagedOCSFails \/ BeginReconcile \/ CheckUninstallCondition
             \/ UpdateComponentStatus \/ CallFails
    PROVE  UseChecked'
<1>1. CASE ReadManagedOCSFails
  BY <1>1 DEF ReadManagedOCSFails
<1>2. CASE BeginReconcile
  BY <1>2 DEF BeginReconcile, Aged
<1>3. CASE CheckUninstallCondition
  BY <1>3 DEF CheckUninstallCondition
<1>4. CASE UpdateComponentStatus
  BY <1>4 DEF UpdateComponentStatus, PhaseAfter
<1>5. CASE CallFails
  BY <1>5 DEF CallFails, Abort
<1>6. QED
  BY <1>1, <1>2, <1>3, <1>4, <1>5

\* So does the branch for a ManagedOCS under deletion.
LEMMA DeletingBranchKeepsUseChecked ==
    ASSUME TypeOK, UseChecked,
           DeleteOCSCSV \/ RemoveFinalizer \/ DeleteStorageCluster
             \/ DeleteStorageSystems
    PROVE  UseChecked'
<1>1. CASE DeleteOCSCSV
  BY <1>1 DEF DeleteOCSCSV
<1>2. CASE RemoveFinalizer
  BY <1>2 DEF RemoveFinalizer, Abort
<1>3. CASE DeleteStorageCluster
  BY <1>3 DEF DeleteStorageCluster
<1>4. CASE DeleteStorageSystems
  BY <1>4 DEF DeleteStorageSystems
<1>5. QED
  BY <1>1, <1>2, <1>3, <1>4

\* So does the branch for an installed ManagedOCS.
LEMMA InstallBranchKeepsUseChecked ==
    ASSUME TypeOK, UseChecked,
           AddFinalizer \/ GetStorageCluster \/ CreateStorageCluster
             \/ UpdateStorageCluster \/ ReconcileResources
    PROVE  UseChecked'
<1>1. CASE AddFinalizer
  BY <1>1 DEF AddFinalizer, Abort
<1>2. CASE GetStorageCluster
  BY <1>2 DEF GetStorageCluster
<1>3. CASE CreateStorageCluster
  BY <1>3 DEF CreateStorageCluster, Abort
<1>4. CASE UpdateStorageCluster
  BY <1>4 DEF UpdateStorageCluster, Abort
<1>5. CASE ReconcileResources
  BY <1>5 DEF ReconcileResources
<1>6. QED
  BY <1>1, <1>2, <1>3, <1>4, <1>5

\* So do the uninstall and the end of a reconcile.
LEMMA UninstallKeepsUseChecked ==
    ASSUME TypeOK, UseChecked,
           ListStorageClasses \/ ListVolumes \/ ListConsumers
             \/ DeleteManagedOCS \/ RefreshManagedOCS \/ DeleteDeployerCSV
             \/ UpdateStatus
    PROVE  UseChecked'
<1>1. CASE ListStorageClasses
  BY <1>1 DEF ListStorageClasses
<1>2. CASE ListVolumes
  BY <1>2 DEF ListVolumes, Proceed, Abort
<1>3. CASE ListConsumers
  <2>1. consumersSeen \in Seq(BOOLEAN)
    BY DEF TypeOK
  <2>2. /\ use = "old" => Len(consumersSeen') = 1
        /\ consumersSeen' # << >>
             => consumersSeen'[Len(consumersSeen')] = (use' # "none")
    <3>1. CASE consumersSeen = << >>
      BY <1>3, <3>1, FirstList DEF ListConsumers
    <3>2. CASE consumersSeen # << >>
      BY <1>3, <2>1, <3>2 DEF ListConsumers
    <3>3. QED
      BY <3>1, <3>2
  <2>3. use = "old" => Head(consumersSeen') = TRUE
    <3>1. CASE consumersSeen = << >>
      BY <1>3, <3>1, FirstList DEF ListConsumers
    <3>2. CASE consumersSeen # << >>
      <4>1. consumersSeen' = consumersSeen /\ Head(consumersSeen) = consumersSeen[1]
        BY <1>3, <2>1, <3>2 DEF ListConsumers
      <4>2. QED
        BY <2>2, <3>2, <4>1
    <3>3. QED
      BY <3>1, <3>2
  <2>4. /\ pc' \in {"updateStatus", "deleteManagedOCS"}
        /\ pc' = "deleteManagedOCS" => Head(consumersSeen') # TRUE
        /\ DeploymentType = "provider" /\ use' = use
    BY <1>3 DEF ListConsumers, Proceed, Abort
  <2>5. pc' = "deleteManagedOCS"
          => ~(use' = "old" /\ (DeploymentType = "provider" \/ class' = "old"))
    BY <2>3, <2>4
  <2>6. use' = "old" => Len(consumersSeen') <= 1
    <3>1. Len(consumersSeen') = 1 => Len(consumersSeen') <= 1
      OBVIOUS
    <3>2. QED
      BY <2>2, <2>4, <3>1
  <2>7. QED
    BY <2>2, <2>4, <2>5, <2>6
<1>4. CASE DeleteManagedOCS
  BY <1>4 DEF DeleteManagedOCS
<1>5. CASE RefreshManagedOCS
  BY <1>5 DEF RefreshManagedOCS
<1>6. CASE DeleteDeployerCSV
  BY <1>6 DEF DeleteDeployerCSV
<1>7. CASE UpdateStatus
  BY <1>7 DEF UpdateStatus, EndReconcile
<1>8. QED
  BY <1>1, <1>2, <1>3, <1>4, <1>5, <1>6, <1>7

\* So does a cache that catches up.
LEMMA InformersKeepUseChecked ==
    ASSUME TypeOK, UseChecked,
           SyncManagedOCS \/ SyncStorageCluster \/ SyncCSVs
             \/ SyncStorageSystems \/ SyncConsumers \/ OtherEvent
    PROVE  UseChecked'
<1>1. CASE SyncManagedOCS
  BY <1>1 DEF SyncManagedOCS
<1>2. CASE SyncStorageCluster
  BY <1>2 DEF SyncStorageCluster
<1>3. CASE SyncCSVs
  BY <1>3 DEF SyncCSVs
<1>4. CASE SyncStorageSystems
  BY <1>4 DEF SyncStorageSystems
<1>5. CASE OtherEvent
  BY <1>5 DEF OtherEvent
<1>6. CASE SyncConsumers
  BY <1>6 DEF SyncConsumers
<1>7. QED
  BY <1>1, <1>2, <1>3, <1>4, <1>5, <1>6

\* So do the operators.
LEMMA OperatorsKeepUseChecked ==
    ASSUME TypeOK, UseChecked,
           OperatorAdopts \/ OperatorReady \/ OperatorNotReady
             \/ OperatorDeletes \/ StorageSystemGone \/ GarbageCollect
             \/ RequestUninstall \/ MonitoringReady \/ MonitoringNotReady
    PROVE  UseChecked'
<1>1. CASE OperatorAdopts
  BY <1>1 DEF OperatorAdopts, ScWritten
<1>2. CASE OperatorReady
  BY <1>2 DEF OperatorReady, ScWritten
<1>3. CASE OperatorNotReady
  BY <1>3 DEF OperatorNotReady, ScWritten
<1>4. CASE OperatorDeletes
  BY <1>4 DEF OperatorDeletes, ScWritten
<1>5. CASE StorageSystemGone
  BY <1>5 DEF StorageSystemGone
<1>6. CASE GarbageCollect
  BY <1>6 DEF GarbageCollect, ScWritten
<1>7. CASE RequestUninstall
  BY <1>7 DEF RequestUninstall
<1>8. CASE MonitoringReady
  BY <1>8 DEF MonitoringReady
<1>9. CASE MonitoringNotReady
  BY <1>9 DEF MonitoringNotReady
<1>10. QED
  BY <1>1, <1>2, <1>3, <1>4, <1>5, <1>6, <1>7, <1>8, <1>9

\* So does whatever users do.
LEMMA UsersKeepUseChecked ==
    ASSUME TypeOK, UseChecked,
           StorageClaimed \/ StorageReleased \/ StorageClassRemoved
             \/ UserDeletesManagedOCS \/ UserDeletesStorageCluster
             \/ UserStripsFinalizer
    PROVE  UseChecked'
<1>1. CASE StorageClaimed
  <2>1. consumersSeen' # << >> => consumersSeen'[Len(consumersSeen')] = TRUE
    BY <1>1, ChangeOnItsWay DEF StorageClaimed, ConsumersChange, TypeOK
  <2>2. QED
    BY <1>1, <2>1 DEF StorageClaimed
<1>2. CASE StorageReleased
  <2>1. consumersSeen' # << >> => consumersSeen'[Len(consumersSeen')] = FALSE
    BY <1>2, ChangeOnItsWay DEF StorageReleased, ConsumersChange, TypeOK
  <2>2. QED
    BY <1>2, <2>1 DEF StorageReleased
<1>3. CASE StorageClassRemoved
  BY <1>3 DEF StorageClassRemoved
<1>4. CASE UserDeletesManagedOCS
  BY <1>4 DEF UserDeletesManagedOCS
<1>5. CASE UserDeletesStorageCluster
  BY <1>5 DEF UserDeletesStorageCluster, ScWritten
<1>6. CASE UserStripsFinalizer
  BY <1>6 DEF UserStripsFinalizer
<1>7. QED
  BY <1>1, <1>2, <1>3, <1>4, <1>5, <1>6

HIDE DEF UseChecked

\* Storage in use since before the reconcile began keeps the ManagedOCS: volumes of
\* a class as old, and consumers that had reached the cache or precede its first list.
THEOREM UseBlocksUninstall == Spec => UsedStorageBlocksUninstall
<1>1. Init => UseChecked
  BY DEF Init, UseChecked
<1>2. TypeOK /\ UseChecked /\ [Next]_vars => UseChecked'
  <2> SUFFICES ASSUME TypeOK, UseChecked, [Next]_vars PROVE UseChecked'
    OBVIOUS
  <2>1. CASE Next
    BY <2>1, PodKeepsUseChecked, ReconcileKeepsUseChecked, DeletingBranchKeepsUseChecked,
       InstallBranchKeepsUseChecked, UninstallKeepsUseChecked, InformersKeepUseChecked,
       OperatorsKeepUseChecked, UsersKeepUseChecked
       DEF Next, Deployer, Informers, Operators, Users
  <2>2. CASE UNCHANGED vars
    BY <2>2 DEF vars, UseChecked
  <2>3. QED
    BY <2>1, <2>2
<1>3. UseChecked
        => (pc = "deleteManagedOCS" /\ pc' = "refresh"
              => ~(use = "old" /\ (DeploymentType = "provider" \/ class = "old")))
  BY DEF UseChecked
<1>4. QED
  BY <1>1, <1>2, <1>3, TypeCorrect, PTL DEF Spec, UsedStorageBlocksUninstall

-----------------------------------------------------------------------------
(***************************************************************************)
(* The uninstall is decided on what this reconcile has computed            *)
(***************************************************************************)
\* Unless users strip it, a ManagedOCS and its copies have their finalizer, and
\* the worker never comes to the update that adds it.
FinalizerKept ==
    /\ mo.uid # 0 => mo.finalizer
    /\ Running /\ moSeen.uid # 0 => moSeen.finalizer
    /\ Running /\ pc # "idle" /\ obj.uid # 0 => obj.finalizer
    /\ pc # "addFinalizer"

\* So the states computed are still those in r.managedOCS when the worker asks
\* whether the components are ready, and until it deletes the ManagedOCS.
DecidedOnComputed ==
    /\ pc \in InstallBranch => obj.status = computed
    /\ pc \in CheckBranch => AreComponentsReadyForUninstall

DecisionInv == FinalizerKept /\ DecidedOnComputed

USE DEF DecisionInv, FinalizerKept, DecidedOnComputed, InstallBranch, CheckBranch,
        Running, AreComponentsReadyForUninstall

\* Starting and stopping the pod keeps DecisionInv.
LEMMA PodKeepsDecision ==
    ASSUME TypeOK, DecisionInv, "stripFinalizer" \notin UserActions,
           EnsureManagedOCS \/ StartManager \/ Crash \/ OLMStopsDeployer
    PROVE  DecisionInv'
<1>1. CASE EnsureManagedOCS
  BY <1>1, UIDFields DEF EnsureManagedOCS
<1>2. CASE StartManager
  BY <1>2, UIDFields DEF StartManager
<1>3. CASE Crash
  BY <1>3, UIDFields DEF Crash, Stop, ResetLocals
<1>4. CASE OLMStopsDeployer
  BY <1>4, UIDFields DEF OLMStopsDeployer, Stop, ResetLocals
<1>5. QED
  BY <1>1, <1>2, <1>3, <1>4

\* So do the steps every reconcile starts with, and a call that fails.
LEMMA ReconcileKeepsDecision ==
    ASSUME TypeOK, DecisionInv, "stripFinalizer" \notin UserActions,
           ReadManagedOCSFails \/ BeginReconcile \/ CheckUninstallCondition
             \/ UpdateComponentStatus \/ CallFails
    PROVE  DecisionInv'
<1>1. CASE ReadManagedOCSFails
  BY <1>1, UIDFields DEF ReadManagedOCSFails
<1>2. CASE BeginReconcile
  BY <1>2, UIDFields DEF BeginReconcile
<1>3. CASE CheckUninstallCondition
  BY <1>3, UIDFields DEF CheckUninstallCondition
<1>4. CASE UpdateComponentStatus
  BY <1>4, UIDFields DEF UpdateComponentStatus, PhaseAfter, StatesOf
<1>5. CASE CallFails
  BY <1>5, UIDFields DEF CallFails, Abort, Fallible
<1>6. QED
  BY <1>1, <1>2, <1>3, <1>4, <1>5

\* So does the branch for a ManagedOCS under deletion.
LEMMA DeletingBranchKeepsDecision ==
    ASSUME TypeOK, DecisionInv, "stripFinalizer" \notin UserActions,
           DeleteOCSCSV \/ RemoveFinalizer \/ DeleteStorageCluster
             \/ DeleteStorageSystems
    PROVE  DecisionInv'
<1>1. CASE DeleteOCSCSV
  BY <1>1, UIDFields DEF DeleteOCSCSV, DeleteCSV, OCSCSV, DeployerCSV
<1>2. CASE RemoveFinalizer
  BY <1>2, UIDFields DEF RemoveFinalizer, Abort, NoManagedOCS
<1>3. CASE DeleteStorageCluster
  BY <1>3, UIDFields DEF DeleteStorageCluster
<1>4. CASE DeleteStorageSystems
  BY <1>4, UIDFields DEF DeleteStorageSystems
<1>5. QED
  BY <1>1, <1>2, <1>3, <1>4

\* So does the branch for an installed ManagedOCS.
LEMMA InstallBranchKeepsDecision ==
    ASSUME TypeOK, DecisionInv, "stripFinalizer" \notin UserActions,
           AddFinalizer \/ GetStorageCluster \/ CreateStorageCluster
             \/ UpdateStorageCluster \/ ReconcileResources
    PROVE  DecisionInv'
<1>1. CASE AddFinalizer
  BY <1>1 DEF AddFinalizer
<1>2. CASE GetStorageCluster
  BY <1>2, UIDFields DEF GetStorageCluster
<1>3. CASE CreateStorageCluster
  BY <1>3, UIDFields DEF CreateStorageCluster, Abort
<1>4. CASE UpdateStorageCluster
  BY <1>4, UIDFields DEF UpdateStorageCluster, Abort
<1>5. CASE ReconcileResources
  BY <1>5, UIDFields DEF ReconcileResources
<1>6. QED
  BY <1>1, <1>2, <1>3, <1>4, <1>5

\* So do the uninstall and the end of a reconcile.
LEMMA UninstallKeepsDecision ==
    ASSUME TypeOK, DecisionInv, "stripFinalizer" \notin UserActions,
           ListStorageClasses \/ ListVolumes \/ ListConsumers
             \/ DeleteManagedOCS \/ RefreshManagedOCS \/ DeleteDeployerCSV
             \/ UpdateStatus
    PROVE  DecisionInv'
<1>1. CASE ListStorageClasses
  BY <1>1, UIDFields DEF ListStorageClasses
<1>2. CASE ListVolumes
  BY <1>2, UIDFields DEF ListVolumes, Proceed, Abort
<1>3. CASE ListConsumers
  BY <1>3, UIDFields DEF ListConsumers, Proceed, Abort
<1>4. CASE DeleteManagedOCS
  <2>1. mo'.uid # 0 => mo'.finalizer
    BY <1>4, UIDFields, TerminatingCases DEF DeleteManagedOCS
  <2>2. /\ pc = "deleteManagedOCS" /\ pc' = "refresh"
        /\ UNCHANGED <<moSeen, obj>>
    BY <1>4 DEF DeleteManagedOCS
  <2>3. QED
    BY <2>1, <2>2
<1>5. CASE RefreshManagedOCS
  BY <1>5, UIDFields DEF RefreshManagedOCS
<1>6. CASE DeleteDeployerCSV
  BY <1>6, UIDFields DEF DeleteDeployerCSV, DeleteCSV, OCSCSV, DeployerCSV
<1>7. CASE UpdateStatus
  BY <1>7, UIDFields, StatusUpdated DEF ResetLocals
<1>8. QED
  BY <1>1, <1>2, <1>3, <1>4, <1>5, <1>6, <1>7

\* So does a cache that catches up.
LEMMA InformersKeepDecision ==
    ASSUME TypeOK, DecisionInv, "stripFinalizer" \notin UserActions, Informers
    PROVE  DecisionInv'
<1>1. CASE SyncManagedOCS
  BY <1>1, UIDFields DEF SyncManagedOCS
<1>2. CASE SyncStorageCluster
  BY <1>2, UIDFields DEF SyncStorageCluster
<1>3. CASE SyncCSVs
  BY <1>3, UIDFields DEF SyncCSVs
<1>4. CASE SyncStorageSystems
  BY <1>4, UIDFields DEF SyncStorageSystems
<1>5. CASE OtherEvent
  BY <1>5, UIDFields DEF OtherEvent
<1>6. CASE SyncConsumers
  BY <1>6, UIDFields DEF SyncConsumers
<1>7. QED
  BY <1>1, <1>2, <1>3, <1>4, <1>5, <1>6 DEF Informers

\* So do the operators.
LEMMA OperatorsKeepDecision ==
    ASSUME TypeOK, DecisionInv, "stripFinalizer" \notin UserActions, Operators
    PROVE  DecisionInv'
<1>1. CASE OperatorAdopts
  BY <1>1, UIDFields DEF OperatorAdopts, ScWritten
<1>2. CASE OperatorReady
  BY <1>2, UIDFields DEF OperatorReady, ScWritten
<1>3. CASE OperatorNotReady
  BY <1>3, UIDFields DEF OperatorNotReady, ScWritten
<1>4. CASE OperatorDeletes
  BY <1>4, UIDFields DEF OperatorDeletes, ScWritten
<1>5. CASE StorageSystemGone
  BY <1>5, UIDFields DEF StorageSystemGone
<1>6. CASE GarbageCollect
  BY <1>6, UIDFields DEF GarbageCollect, ScWritten
<1>7. CASE RequestUninstall
  BY <1>7, UIDFields DEF RequestUninstall
<1>8. CASE MonitoringReady
  BY <1>8, UIDFields DEF MonitoringReady
<1>9. CASE MonitoringNotReady
  BY <1>9, UIDFields DEF MonitoringNotReady
<1>10. QED
  BY <1>1, <1>2, <1>3, <1>4, <1>5, <1>6, <1>7, <1>8, <1>9 DEF Operators

\* So do users who leave the finalizer alone.
LEMMA UsersKeepDecision ==
    ASSUME TypeOK, DecisionInv, "stripFinalizer" \notin UserActions, Users
    PROVE  DecisionInv'
<1>1. CASE StorageClaimed
  BY <1>1, UIDFields DEF StorageClaimed
<1>2. CASE StorageReleased
  BY <1>2, UIDFields DEF StorageReleased
<1>3. CASE StorageClassRemoved
  BY <1>3, UIDFields DEF StorageClassRemoved
<1>4. CASE UserDeletesManagedOCS
  BY <1>4, UIDFields, TerminatingCases DEF UserDeletesManagedOCS
<1>5. CASE UserDeletesStorageCluster
  BY <1>5, UIDFields DEF UserDeletesStorageCluster, ScWritten
<1>6. CASE UserStripsFinalizer
  BY <1>6, UIDFields DEF UserStripsFinalizer
<1>7. QED
  BY <1>1, <1>2, <1>3, <1>4, <1>5, <1>6 DEF Users

HIDE DEF DecisionInv, FinalizerKept, DecidedOnComputed, InstallBranch, CheckBranch,
         Running, AreComponentsReadyForUninstall

\* DecisionInv holds in every reachable state.
LEMMA DecisionInvariance ==
    ASSUME "stripFinalizer" \notin UserActions
    PROVE  Spec => []DecisionInv
<1>1. Init => DecisionInv
  BY DEF Init, DecisionInv, FinalizerKept, DecidedOnComputed, Running, NoManagedOCS,
         InstallBranch, CheckBranch
<1>2. TypeOK /\ DecisionInv /\ [Next]_vars => DecisionInv'
  <2> SUFFICES ASSUME TypeOK, DecisionInv, [Next]_vars PROVE DecisionInv'
    OBVIOUS
  <2>1. CASE Next
    BY <2>1, PodKeepsDecision, ReconcileKeepsDecision, DeletingBranchKeepsDecision,
       InstallBranchKeepsDecision, UninstallKeepsDecision, InformersKeepDecision,
       OperatorsKeepDecision, UsersKeepDecision DEF Next, Deployer
  <2>2. CASE UNCHANGED vars
    BY <2>2 DEF vars, DecisionInv, FinalizerKept, DecidedOnComputed, Running,
                AreComponentsReadyForUninstall
  <2>3. QED
    BY <2>1, <2>2
<1>3. QED
  BY <1>1, <1>2, TypeCorrect, PTL DEF Spec

\* As long as nobody strips the finalizer, a reconcile deletes the ManagedOCS only
\* when it has itself found every component ready, whatever reads and calls fail
\* and whatever users delete.  (MCStripFinalizer shows that the condition is needed.)
THEOREM DecidesOnItsOwnStatus ==
    ASSUME "stripFinalizer" \notin UserActions
    PROVE  Spec => DeletesOnlyWhenReady
<1>1. TypeOK /\ DecisionInv
        => (pc = "deleteManagedOCS" /\ pc' = "refresh"
              => computed = [storageCluster |-> "Ready", monitoring |-> "Ready"])
  <2> SUFFICES ASSUME TypeOK, DecisionInv, pc = "deleteManagedOCS"
               PROVE  computed = [storageCluster |-> "Ready", monitoring |-> "Ready"]
    OBVIOUS
  <2>1. computed.storageCluster = "Ready" /\ computed.monitoring = "Ready"
    BY DEF DecisionInv, DecidedOnComputed, InstallBranch, CheckBranch,
           AreComponentsReadyForUninstall
  <2>2. computed \in Statuses
    BY DEF TypeOK
  <2>3. QED
    BY <2>1, <2>2, StatusFields
<1>2. QED
  BY <1>1, TypeCorrect, DecisionInvariance, PTL DEF DeletesOnlyWhenReady
=============================================================================
