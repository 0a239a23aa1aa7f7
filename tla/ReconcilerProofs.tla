-------------------------- MODULE ReconcilerProofs --------------------------
(***************************************************************************)
(* Theorems about Reconciler, for every value of its constants:            *)
(*   - the states have their types (TypeCorrect);                          *)
(***************************************************************************)
EXTENDS ReconcilerInvariant, TLAPS

USE DEF clusterVars, listSeen, cacheVars, localVars, boundVars

-----------------------------------------------------------------------------
(***************************************************************************)
(* Facts about the data                                                    *)
(***************************************************************************)

\* The values every reconcile starts from have their types.
LEMMA StartValues ==
    /\ << >> \in Seq(BOOLEAN)
    /\ NoManagedOCS \in ManagedOCS /\ NoStatus \in Statuses
    /\ NoStorageCluster \in StorageClusters
    /\ NotLoaded \in [held : BOOLEAN, owner : UIDs, fresh : BOOLEAN]
    /\ OCSCSV # DeployerCSV
  BY DEF NoManagedOCS, ManagedOCS, NoStatus, Statuses, ComponentStates, UIDs,
         NoStorageCluster, StorageClusters, Phases, NotLoaded, OCSCSV, DeployerCSV

\* What ensureManagedOCS creates is a ManagedOCS.
LEMMA Created ==
    ASSUME NEW u \in UIDs
    PROVE  [uid |-> u, deleting |-> FALSE, finalizer |-> TRUE, status |-> NoStatus]
             \in ManagedOCS
  BY StartValues DEF ManagedOCS

\* Changing one field of a ManagedOCS leaves a ManagedOCS (own field updates of
\* the finalizer, of the status, and of what a delete request does).
LEMMA ManagedOCSFields ==
    ASSUME NEW m \in ManagedOCS, NEW s \in Statuses
    PROVE  /\ [m EXCEPT !.finalizer = TRUE] \in ManagedOCS
           /\ [m EXCEPT !.finalizer = FALSE] \in ManagedOCS
           /\ [m EXCEPT !.status = s] \in ManagedOCS
           /\ Terminating(m) \in ManagedOCS
           /\ m.status \in Statuses /\ m.uid \in UIDs
  BY StartValues DEF ManagedOCS, Terminating

\* A status whose two components are ready is the one the readiness probe and the
\* check for an uninstall look for.
LEMMA StatusFields ==
    ASSUME NEW s \in Statuses
    PROVE  s = [storageCluster |-> "Ready", monitoring |-> "Ready"]
             <=> s.storageCluster = "Ready" /\ s.monitoring = "Ready"
<1>1. \A A, B : \A r \in [storageCluster : A, monitoring : B] :
         r = [storageCluster |-> "Ready", monitoring |-> "Ready"]
           <=> r.storageCluster = "Ready" /\ r.monitoring = "Ready"
  OBVIOUS
<1>2. QED
  BY <1>1, Zenon DEF Statuses

\* A delete request marks a ManagedOCS with a finalizer and removes one without.
LEMMA TerminatingCases ==
    ASSUME NEW m \in ManagedOCS
    PROVE  /\ m.finalizer => /\ Terminating(m).uid = m.uid
                             /\ Terminating(m).deleting /\ Terminating(m).finalizer
           /\ ~m.finalizer => /\ Terminating(m).uid = 0
                              /\ ~Terminating(m).deleting /\ ~Terminating(m).finalizer
  BY DEF ManagedOCS, Terminating, NoManagedOCS

\* Deleting a StorageCluster, and changing its phase or its owner, leave a
\* StorageCluster.
LEMMA StorageClusterFields ==
    ASSUME NEW c \in StorageClusters, NEW u \in UIDs
    PROVE  /\ Deleted(c) \in StorageClusters
           /\ [c EXCEPT !.phase = "pending"] \in StorageClusters
           /\ [c EXCEPT !.phase = "ready"] \in StorageClusters
           /\ [c EXCEPT !.owner = u] \in StorageClusters
           /\ [phase |-> "new", owner |-> u] \in StorageClusters
           /\ c.owner \in UIDs
  BY StartValues DEF StorageClusters, Deleted, Phases

\* The counters of faults and changes stay below their bounds.
LEMMA Counters ==
    ASSUME TypeOK
    PROVE  /\ Churn => churn' \in 0 .. MaxChurn
           /\ faults < MaxFaults /\ faults' = faults + 1 => faults' \in 0 .. MaxFaults
           /\ ReadFails => faults' \in 0 .. MaxFaults
           /\ restarts < MaxRestarts /\ restarts' = restarts + 1
                => restarts' \in 0 .. MaxRestarts
  BY ABounds DEF TypeOK, Churn, ReadFails

\* Growing older keeps an age an age.
LEMMA AgedAge == ASSUME NEW a \in Ages PROVE Aged(a) \in Ages
  BY DEF Aged, Ages

\* The first list fills the cache with one entry.
LEMMA FirstList ==
    ASSUME NEW any \in BOOLEAN
    PROVE  /\ <<any>> \in Seq(BOOLEAN) /\ <<any>> # << >>
           /\ Len(<<any>>) = 1 /\ <<any>>[1] = any /\ Head(<<any>>) = any
  OBVIOUS

\* A change of the list that is on its way to the cache comes last.
LEMMA ChangeOnItsWay ==
    ASSUME NEW seen \in Seq(BOOLEAN), NEW any \in BOOLEAN
    PROVE  /\ Append(seen, any) \in Seq(BOOLEAN)
           /\ Append(seen, any) # << >> /\ Len(Append(seen, any)) = Len(seen) + 1
           /\ Append(seen, any)[Len(seen) + 1] = any
  OBVIOUS

\* The cache takes over the first change; the last one stays the last.
LEMMA HeardOfChange ==
    ASSUME NEW seen \in Seq(BOOLEAN), Len(seen) > 1
    PROVE  /\ Tail(seen) \in Seq(BOOLEAN)
           /\ Tail(seen) # << >> /\ Len(Tail(seen)) = Len(seen) - 1
           /\ Tail(seen)[Len(seen) - 1] = seen[Len(seen)]
  OBVIOUS

-----------------------------------------------------------------------------
(***************************************************************************)
(* Types                                                                   *)
(***************************************************************************)

\* Starting and stopping the pod keeps the types.
LEMMA TypePod ==
    ASSUME TypeOK, EnsureManagedOCS \/ StartManager \/ Crash \/ OLMStopsDeployer
    PROVE  TypeOK'
<1>1. CASE EnsureManagedOCS
  <2>1. mo' \in ManagedOCS /\ uids' \in UIDs
    BY <1>1, Created DEF TypeOK, EnsureManagedOCS, UIDs
  <2>2. pc' \in PCs
    BY <1>1 DEF EnsureManagedOCS, PCs
  <2>3. QED
    BY <1>1, <2>1, <2>2 DEF TypeOK, EnsureManagedOCS
<1>2. CASE StartManager
  <2>1. pc' \in PCs
    BY <1>2 DEF StartManager, PCs
  <2>2. QED
    BY <1>2, <2>1 DEF TypeOK, StartManager
<1>3. CASE Crash
  <2>1. pc' \in PCs /\ restarts' \in 0 .. MaxRestarts
    BY <1>3, Counters DEF Crash, Stop, PCs
  <2>2. QED
    BY <1>3, <2>1, StartValues DEF TypeOK, Crash, Stop, ResetLocals
<1>4. CASE OLMStopsDeployer
  <2>1. pc' \in PCs
    BY <1>4 DEF OLMStopsDeployer, Stop, PCs
  <2>2. QED
    BY <1>4, <2>1, StartValues DEF TypeOK, OLMStopsDeployer, Stop, ResetLocals
<1>5. QED
  BY <1>1, <1>2, <1>3, <1>4

\* The first steps of a reconcile keep the types.
LEMMA TypeBegin ==
    ASSUME TypeOK, ReadManagedOCSFails \/ BeginReconcile \/ CheckUninstallCondition
    PROVE  TypeOK'
<1>1. CASE BeginReconcile
  <2>1. pc' \in PCs
    BY <1>1 DEF BeginReconcile, PCs
  <2>2. use' \in Ages /\ class' \in Ages
    BY <1>1, AgedAge DEF BeginReconcile, TypeOK
  <2>3. obj' \in ManagedOCS /\ objFresh' \in BOOLEAN /\ queued' \in BOOLEAN
    BY <1>1 DEF BeginReconcile, TypeOK
  <2>4. UNCHANGED <<mo, sc, csvs, systems, labelled, monReady, cacheVars, scObj,
                    uninstall, classListed, again, computed, boundVars>>
    BY <1>1 DEF BeginReconcile
  <2>5. QED
    BY <2>1, <2>2, <2>3, <2>4 DEF TypeOK
<1>2. CASE CheckUninstallCondition
  <2>1. pc' \in PCs
    BY <1>2 DEF CheckUninstallCondition, PCs
  <2>2. faults' \in 0 .. MaxFaults /\ uninstall' \in BOOLEAN
    BY <1>2, Counters DEF CheckUninstallCondition, TypeOK
  <2>3. QED
    BY <1>2, <2>1, <2>2 DEF TypeOK, CheckUninstallCondition
<1>3. CASE ReadManagedOCSFails
  <2>1. faults' \in 0 .. MaxFaults
    BY <1>3, Counters DEF ReadManagedOCSFails
  <2>2. QED
    BY <1>3, <2>1 DEF TypeOK, ReadManagedOCSFails
<1>4. QED
  BY <1>1, <1>2, <1>3

\* The state of the components has its type, wherever it sends the worker.
LEMMA TypeUpdateComponentStatus ==
    ASSUME TypeOK, UpdateComponentStatus
    PROVE  TypeOK'
<1>1. PICK state \in StatesOf(scSeen) \cup {"Unknown"}, ready \in {monReady, FALSE} :
          /\ IF state = "Unknown" \/ ready # monReady THEN ReadFails ELSE UNCHANGED faults
          /\ computed' = [storageCluster |-> state,
                          monitoring |-> IF ready THEN "Ready" ELSE "Pending"]
          /\ scObj' = [scObj EXCEPT !.held = state \notin {"NotFound", "Unknown"}]
          /\ pc' = PhaseAfter(state)
  BY DEF UpdateComponentStatus
<1>2. state \in ComponentStates
  BY DEF StatesOf, ComponentStates
<1>3. computed' \in Statuses
  BY <1>1, <1>2 DEF Statuses
<1>4. pc' \in PCs
  BY <1>1 DEF PhaseAfter, PCs
<1>5. faults' \in 0 .. MaxFaults
  BY <1>1, Counters DEF TypeOK
<1>6. scObj' \in [held : BOOLEAN, owner : UIDs, fresh : BOOLEAN]
  BY <1>1 DEF TypeOK
<1>7. obj' \in ManagedOCS
  BY <1>3, ManagedOCSFields DEF TypeOK, UpdateComponentStatus
<1>8. QED
  BY <1>3, <1>4, <1>5, <1>6, <1>7 DEF TypeOK, UpdateComponentStatus

\* The branch for a ManagedOCS under deletion keeps the types.
LEMMA TypeDeletingBranch ==
    ASSUME TypeOK,
           DeleteOCSCSV \/ RemoveFinalizer \/ DeleteStorageCluster \/ DeleteStorageSystems
    PROVE  TypeOK'
<1>1. CASE DeleteOCSCSV
  <2>1. pc' \in PCs /\ csvs' \subseteq {OCSCSV, DeployerCSV}
    BY <1>1 DEF DeleteOCSCSV, DeleteCSV, PCs, TypeOK
  <2>2. QED
    BY <1>1, <2>1 DEF TypeOK, DeleteOCSCSV
<1>2. CASE RemoveFinalizer
  <2>1. pc' \in PCs /\ again' \in BOOLEAN
    BY <1>2 DEF RemoveFinalizer, Abort, PCs, TypeOK
  <2>2. /\ mo' \in ManagedOCS
        /\ moSeenFresh' \in BOOLEAN /\ objFresh' \in BOOLEAN
    BY <1>2, StartValues DEF RemoveFinalizer, TypeOK
  <2>3. QED
    BY <1>2, <2>1, <2>2 DEF TypeOK, RemoveFinalizer
<1>3. CASE DeleteStorageCluster
  <2>1. pc' \in PCs
    BY <1>3 DEF DeleteStorageCluster, PCs
  <2>2. sc' \in StorageClusters /\ scSeenFresh' \in BOOLEAN
    BY <1>3, StorageClusterFields DEF DeleteStorageCluster, TypeOK, UIDs
  <2>3. QED
    BY <1>3, <2>1, <2>2 DEF TypeOK, DeleteStorageCluster
<1>4. CASE DeleteStorageSystems
  <2>1. pc' \in PCs /\ systems' \in {"absent", "present", "deleting"}
    BY <1>4 DEF DeleteStorageSystems, PCs, TypeOK
  <2>2. QED
    BY <1>4, <2>1 DEF TypeOK, DeleteStorageSystems
<1>5. QED
  BY <1>1, <1>2, <1>3, <1>4

\* The writes of the branch for an installed ManagedOCS keep the types.
LEMMA TypeInstallBranch ==
    ASSUME TypeOK,
           AddFinalizer \/ GetStorageCluster \/ CreateStorageCluster
             \/ UpdateStorageCluster \/ ReconcileResources
    PROVE  TypeOK'
<1>1. CASE AddFinalizer
  <2>1. pc' \in PCs /\ again' \in BOOLEAN
    BY <1>1 DEF AddFinalizer, Abort, PCs, TypeOK
  <2>2. mo' \in ManagedOCS
    BY <1>1, ManagedOCSFields DEF AddFinalizer, TypeOK
  <2>3. obj' \in ManagedOCS
    <3>1. CASE objFresh
      <4> DEFINE s == IF mo.status = NoStatus THEN obj.status ELSE mo.status
      <4>1. s \in Statuses
        BY ManagedOCSFields DEF TypeOK
      <4>2. obj' = [mo' EXCEPT !.status = s]
        BY <1>1, <3>1 DEF AddFinalizer
      <4>3. QED
        BY <2>2, <4>1, <4>2, ManagedOCSFields
    <3>2. CASE ~objFresh
      BY <1>1, <3>2 DEF AddFinalizer, TypeOK
    <3>3. QED
      BY <3>1, <3>2
  <2>4. moSeenFresh' \in BOOLEAN
    BY <1>1 DEF AddFinalizer, TypeOK
  <2>5. QED
    BY <1>1, <2>1, <2>2, <2>3, <2>4 DEF TypeOK, AddFinalizer
<1>2. CASE GetStorageCluster
  <2>1. pc' \in PCs
    BY <1>2 DEF GetStorageCluster, PCs
  <2>2. scObj' \in [held : BOOLEAN, owner : UIDs, fresh : BOOLEAN]
    <3>1. scSeen.owner \in UIDs /\ scSeenFresh \in BOOLEAN
      BY StorageClusterFields DEF TypeOK
    <3>2. \/ scObj' = scObj
          \/ scObj' = [held |-> TRUE, owner |-> scSeen.owner, fresh |-> scSeenFresh]
      BY <1>2 DEF GetStorageCluster
    <3>3. [held |-> TRUE, owner |-> scSeen.owner, fresh |-> scSeenFresh]
            \in [held : BOOLEAN, owner : UIDs, fresh : BOOLEAN]
      BY <3>1
    <3>4. QED
      BY <3>2, <3>3 DEF TypeOK
  <2>3. QED
    BY <1>2, <2>1, <2>2 DEF TypeOK, GetStorageCluster
<1>3. CASE CreateStorageCluster
  <2>1. pc' \in PCs /\ again' \in BOOLEAN
    BY <1>3 DEF CreateStorageCluster, Abort, PCs, TypeOK
  <2>2. sc' \in StorageClusters /\ scSeenFresh' \in BOOLEAN
    BY <1>3, StorageClusterFields, ManagedOCSFields DEF CreateStorageCluster, TypeOK
  <2>3. QED
    BY <1>3, <2>1, <2>2, StartValues DEF TypeOK, CreateStorageCluster
<1>4. CASE UpdateStorageCluster
  <2>1. pc' \in PCs /\ again' \in BOOLEAN
    BY <1>4 DEF UpdateStorageCluster, Abort, PCs, TypeOK
  <2>2. sc' \in StorageClusters /\ scSeenFresh' \in BOOLEAN
    BY <1>4, StorageClusterFields, ManagedOCSFields DEF UpdateStorageCluster, TypeOK
  <2>3. QED
    BY <1>4, <2>1, <2>2, StartValues DEF TypeOK, UpdateStorageCluster
<1>5. CASE ReconcileResources
  <2>1. pc' \in PCs
    BY <1>5 DEF ReconcileResources, PCs
  <2>2. QED
    BY <1>5, <2>1 DEF TypeOK, ReconcileResources
<1>6. QED
  BY <1>1, <1>2, <1>3, <1>4, <1>5

\* The checks of the uninstall and its first delete keep the types.
LEMMA TypeUninstall ==
    ASSUME TypeOK,
           ListStorageClasses \/ ListVolumes \/ ListConsumers
             \/ DeleteManagedOCS \/ RefreshManagedOCS \/ DeleteDeployerCSV
    PROVE  TypeOK'
<1>1. CASE ListStorageClasses
  <2>1. pc' \in PCs /\ classListed' \in BOOLEAN
    BY <1>1 DEF ListStorageClasses, PCs
  <2>2. QED
    BY <1>1, <2>1 DEF TypeOK, ListStorageClasses
<1>2. CASE ListVolumes
  <2>1. pc' \in PCs /\ again' \in BOOLEAN
    BY <1>2 DEF ListVolumes, Proceed, Abort, PCs, TypeOK
  <2>2. QED
    BY <1>2, <2>1 DEF TypeOK, ListVolumes
<1>3. CASE DeleteManagedOCS
  <2>1. pc' \in PCs
    BY <1>3 DEF DeleteManagedOCS, PCs
  <2>2. /\ mo' \in ManagedOCS
        /\ moSeenFresh' \in BOOLEAN /\ objFresh' \in BOOLEAN
    BY <1>3, ManagedOCSFields, StartValues DEF DeleteManagedOCS, TypeOK
  <2>3. QED
    BY <1>3, <2>1, <2>2 DEF TypeOK, DeleteManagedOCS
<1>4. CASE RefreshManagedOCS
  <2>1. pc' \in PCs
    BY <1>4 DEF RefreshManagedOCS, PCs
  <2>2. obj' \in ManagedOCS /\ objFresh' \in BOOLEAN
    BY <1>4 DEF RefreshManagedOCS, TypeOK
  <2>3. QED
    BY <1>4, <2>1, <2>2 DEF TypeOK, RefreshManagedOCS
<1>5. CASE DeleteDeployerCSV
  <2>1. pc' \in PCs /\ csvs' \subseteq {OCSCSV, DeployerCSV}
    BY <1>5 DEF DeleteDeployerCSV, DeleteCSV, PCs, TypeOK
  <2>2. QED
    BY <1>5, <2>1 DEF TypeOK, DeleteDeployerCSV
<1>6. CASE ListConsumers
  <2>1. pc' \in PCs /\ again' \in BOOLEAN
    BY <1>6 DEF ListConsumers, Proceed, Abort, PCs, TypeOK
  <2>2. consumersSeen' \in Seq(BOOLEAN)
    BY <1>6, FirstList DEF ListConsumers, TypeOK
  <2>3. QED
    BY <1>6, <2>1, <2>2 DEF TypeOK, ListConsumers
<1>7. QED
  BY <1>1, <1>2, <1>3, <1>4, <1>5, <1>6

\* The end of a reconcile and a call that failed keep the types.
LEMMA TypeEnd ==
    ASSUME TypeOK, UpdateStatus \/ CallFails
    PROVE  TypeOK'
<1>1. CASE UpdateStatus
  <2>1. pc' \in PCs /\ queued' \in BOOLEAN
    BY <1>1 DEF UpdateStatus, EndReconcile, PCs, TypeOK
  <2>2. faults' \in 0 .. MaxFaults
    BY <1>1, Counters DEF UpdateStatus, TypeOK
  <2>3. mo' \in ManagedOCS /\ moSeenFresh' \in BOOLEAN
    BY <1>1, ManagedOCSFields, StartValues DEF UpdateStatus, TypeOK
  <2>4. ResetLocals
    BY <1>1 DEF UpdateStatus, EndReconcile
  <2>5. UNCHANGED <<sc, csvs, systems, class, use, labelled, monReady, moSeen, scSeen,
                    scSeenFresh, csvSeen, listSeen, uids, restarts, churn>>
    BY <1>1 DEF UpdateStatus
  <2>6. QED
    BY <2>1, <2>2, <2>3, <2>4, <2>5, StartValues DEF TypeOK, ResetLocals
<1>2. CASE CallFails
  <2>1. pc' \in PCs /\ again' \in BOOLEAN /\ faults' \in 0 .. MaxFaults
    BY <1>2, Counters DEF CallFails, Abort, PCs
  <2>2. QED
    BY <1>2, <2>1 DEF TypeOK, CallFails
<1>3. QED
  BY <1>1, <1>2

\* An informer copies a value of the right type.
LEMMA TypeInformers == ASSUME TypeOK, Informers PROVE TypeOK'
<1>1. CASE SyncManagedOCS
  BY <1>1 DEF TypeOK, SyncManagedOCS, ManagedOCSEvent
<1>2. CASE SyncStorageCluster
  BY <1>2 DEF TypeOK, SyncStorageCluster
<1>3. CASE SyncCSVs
  BY <1>3 DEF TypeOK, SyncCSVs
<1>4. CASE SyncStorageSystems
  BY <1>4 DEF TypeOK, SyncStorageSystems
<1>5. CASE OtherEvent
  BY <1>5 DEF TypeOK, OtherEvent
<1>6. CASE SyncConsumers
  <2>1. consumersSeen' \in Seq(BOOLEAN)
    BY <1>6, HeardOfChange DEF SyncConsumers, TypeOK
  <2>2. QED
    BY <1>6, <2>1 DEF TypeOK, SyncConsumers
<1>7. QED
  BY <1>1, <1>2, <1>3, <1>4, <1>5, <1>6 DEF Informers

\* A write of the StorageCluster by another client keeps the types of its copies.
LEMMA TypeScWritten ==
    ASSUME TypeOK, ScWritten
    PROVE  scSeenFresh' \in BOOLEAN
           /\ scObj' \in [held : BOOLEAN, owner : UIDs, fresh : BOOLEAN]
  BY DEF TypeOK, ScWritten

\* The operators keep the types.
LEMMA TypeOperators == ASSUME TypeOK, Operators PROVE TypeOK'
<1>1. CASE OperatorAdopts
  <2>1. sc' \in StorageClusters /\ systems' \in {"absent", "present", "deleting"}
    BY <1>1, StorageClusterFields DEF OperatorAdopts, TypeOK, UIDs
  <2>2. QED
    BY <1>1, <2>1, TypeScWritten DEF TypeOK, OperatorAdopts
<1>2. CASE OperatorReady
  <2>1. sc' \in StorageClusters /\ class' \in Ages
    BY <1>2, StorageClusterFields DEF OperatorReady, TypeOK, UIDs, Ages
  <2>2. QED
    BY <1>2, <2>1, TypeScWritten DEF TypeOK, OperatorReady
<1>3. CASE OperatorNotReady
  <2>1. sc' \in StorageClusters /\ churn' \in 0 .. MaxChurn
    BY <1>3, StorageClusterFields, Counters DEF OperatorNotReady, TypeOK, UIDs
  <2>2. QED
    BY <1>3, <2>1, TypeScWritten DEF TypeOK, OperatorNotReady
<1>4. CASE OperatorDeletes
  <2>1. sc' \in StorageClusters /\ class' \in Ages
    BY <1>4, StartValues DEF OperatorDeletes, Ages
  <2>2. QED
    BY <1>4, <2>1, TypeScWritten DEF TypeOK, OperatorDeletes
<1>5. CASE StorageSystemGone
  BY <1>5 DEF TypeOK, StorageSystemGone
<1>6. CASE GarbageCollect
  <2>1. sc' \in StorageClusters
    BY <1>6, StorageClusterFields DEF GarbageCollect, TypeOK, UIDs
  <2>2. QED
    BY <1>6, <2>1, TypeScWritten DEF TypeOK, GarbageCollect
<1>7. CASE RequestUninstall
  BY <1>7 DEF TypeOK, RequestUninstall, Running
<1>8. CASE MonitoringReady
  BY <1>8 DEF TypeOK, MonitoringReady, Running
<1>9. CASE MonitoringNotReady
  <2>1. churn' \in 0 .. MaxChurn /\ monReady' \in BOOLEAN /\ queued' \in BOOLEAN
    BY <1>9, Counters DEF MonitoringNotReady, Running
  <2>2. QED
    BY <1>9, <2>1 DEF TypeOK, MonitoringNotReady
<1>10. QED
  BY <1>1, <1>2, <1>3, <1>4, <1>5, <1>6, <1>7, <1>8, <1>9 DEF Operators

\* The users keep the types.
LEMMA TypeUsers == ASSUME TypeOK, Users PROVE TypeOK'
<1>1. CASE StorageClaimed
  <2>1. consumersSeen' \in Seq(BOOLEAN)
    BY <1>1, ChangeOnItsWay DEF StorageClaimed, ConsumersChange, TypeOK
  <2>2. QED
    BY <1>1, <2>1, Counters DEF TypeOK, StorageClaimed, Ages
<1>2. CASE StorageReleased
  <2>1. consumersSeen' \in Seq(BOOLEAN)
    BY <1>2, ChangeOnItsWay DEF StorageReleased, ConsumersChange, TypeOK
  <2>2. QED
    BY <1>2, <2>1 DEF TypeOK, StorageReleased, Ages
<1>3. CASE StorageClassRemoved
  BY <1>3, Counters DEF TypeOK, StorageClassRemoved, Ages
<1>4. CASE UserDeletesManagedOCS
  <2>1. mo' \in ManagedOCS /\ churn' \in 0 .. MaxChurn
    BY <1>4, ManagedOCSFields, StartValues, Counters DEF UserDeletesManagedOCS, TypeOK
  <2>2. /\ moSeenFresh' \in BOOLEAN /\ objFresh' \in BOOLEAN
        /\ UNCHANGED <<sc, csvs, systems, class, use, labelled, monReady, moSeen,
                       scSeen, scSeenFresh, csvSeen, listSeen, pc, queued, obj,
                       scObj, uninstall, classListed, again, computed, uids, faults,
                       restarts>>
    BY <1>4 DEF UserDeletesManagedOCS
  <2>3. QED
    BY <2>1, <2>2 DEF TypeOK
<1>5. CASE UserDeletesStorageCluster
  <2>1. sc' \in StorageClusters /\ churn' \in 0 .. MaxChurn
    BY <1>5, StorageClusterFields, Counters DEF UserDeletesStorageCluster, TypeOK, UIDs
  <2>2. QED
    BY <1>5, <2>1, TypeScWritten DEF TypeOK, UserDeletesStorageCluster
<1>6. CASE UserStripsFinalizer
  <2>1. mo' \in ManagedOCS /\ churn' \in 0 .. MaxChurn
    BY <1>6, ManagedOCSFields, StartValues, Counters DEF UserStripsFinalizer, TypeOK
  <2>2. /\ moSeenFresh' \in BOOLEAN /\ objFresh' \in BOOLEAN
        /\ UNCHANGED <<sc, csvs, systems, class, use, labelled, monReady, moSeen,
                       scSeen, scSeenFresh, csvSeen, listSeen, pc, queued, obj,
                       scObj, uninstall, classListed, again, computed, uids, faults,
                       restarts>>
    BY <1>6 DEF UserStripsFinalizer
  <2>3. QED
    BY <2>1, <2>2 DEF TypeOK
<1>7. QED
  BY <1>1, <1>2, <1>3, <1>4, <1>5, <1>6 DEF Users

\* Every reachable state of Reconciler has its type.
THEOREM TypeCorrect == Spec => []TypeOK
<1>1. Init => TypeOK
  <2> SUFFICES ASSUME Init PROVE TypeOK
    OBVIOUS
  <2>1. pc \in PCs /\ class \in Ages /\ use \in Ages
    BY DEF Init, PCs, Ages
  <2>2. /\ uids \in UIDs /\ faults \in 0 .. MaxFaults
        /\ restarts \in 0 .. MaxRestarts /\ churn \in 0 .. MaxChurn
    BY ABounds DEF Init, UIDs
  <2>3. QED
    BY <2>1, <2>2, StartValues DEF Init, TypeOK
<1>2. TypeOK /\ [Next]_vars => TypeOK'
  <2> SUFFICES ASSUME TypeOK, [Next]_vars PROVE TypeOK'
    OBVIOUS
  <2>1. CASE Next
    BY <2>1, TypePod, TypeBegin, TypeUpdateComponentStatus, TypeDeletingBranch,
       TypeInstallBranch, TypeUninstall, TypeEnd, TypeInformers, TypeOperators,
       TypeUsers DEF Next, Deployer
  <2>2. CASE UNCHANGED vars
    BY <2>2 DEF TypeOK, vars
  <2>3. QED
    BY <2>1, <2>2
<1>3. QED
  BY <1>1, <1>2, PTL DEF Spec

-----------------------------------------------------------------------------
(***************************************************************************)
(* What two updates of the ManagedOCS change, field by field               *)
(***************************************************************************)
\* Adding the finalizer changes neither the uid nor the deletion mark, and what the
\* worker holds afterwards is the server's object.
LEMMA FinalizerAdded ==
    ASSUME TypeOK, AddFinalizer, objFresh
    PROVE  /\ mo'.uid = mo.uid /\ mo'.deleting = mo.deleting
           /\ obj'.uid = mo.uid /\ obj'.deleting = mo.deleting
<1> DEFINE s == IF mo.status = NoStatus THEN obj.status ELSE mo.status
<1>1. mo' = [mo EXCEPT !.finalizer = TRUE] /\ obj' = [mo' EXCEPT !.status = s]
  BY DEF AddFinalizer
<1>2. mo' \in ManagedOCS
  BY <1>1, ManagedOCSFields, StartValues DEF TypeOK
<1>3. mo'.uid = mo.uid /\ mo'.deleting = mo.deleting
  BY <1>1 DEF TypeOK, ManagedOCS
<1>4. obj'.uid = mo'.uid /\ obj'.deleting = mo'.deleting
  BY <1>1, <1>2 DEF ManagedOCS
<1>5. QED
  BY <1>3, <1>4

\* The end of a reconcile leaves the ManagedOCS as it is but for its status, and
\* puts the request back when the reconcile asked for it or the update failed.
LEMMA StatusUpdated ==
    ASSUME TypeOK, UpdateStatus
    PROVE  /\ mo'.uid = mo.uid /\ mo'.deleting = mo.deleting
           /\ mo'.finalizer = mo.finalizer
           /\ moSeenFresh' => moSeenFresh /\ mo' = mo
           /\ pc = "updateStatus" /\ pc' = "idle" /\ ResetLocals
           /\ queued \/ again => queued'
           /\ UNCHANGED <<sc, csvs, systems, class, use, labelled, monReady, moSeen,
                          scSeen, scSeenFresh, csvSeen, listSeen>>
           /\ ~queued' => (obj.uid # 0 => mo' = [mo EXCEPT !.status = obj.status])
<1>1. mo' = mo \/ mo' = [mo EXCEPT !.status = obj.status]
  BY DEF UpdateStatus
<1>2. /\ mo'.uid = mo.uid /\ mo'.deleting = mo.deleting
      /\ mo'.finalizer = mo.finalizer
  BY <1>1 DEF TypeOK, ManagedOCS
<1>3. queued \in BOOLEAN /\ again \in BOOLEAN /\ moSeenFresh \in BOOLEAN
  BY DEF TypeOK
<1>4. \A requeue \in BOOLEAN : EndReconcile(requeue) => queued' = (queued \/ requeue)
  BY DEF EndReconcile
<1>5. /\ pc = "updateStatus" /\ pc' = "idle" /\ ResetLocals
      /\ UNCHANGED <<sc, csvs, systems, class, use, labelled, monReady, moSeen,
                     scSeen, scSeenFresh, csvSeen, listSeen>>
  BY DEF UpdateStatus, EndReconcile
<1>6. queued \/ again => queued'
  BY <1>3, <1>4 DEF UpdateStatus
<1>7. moSeenFresh' => moSeenFresh /\ mo' = mo
  BY <1>3 DEF UpdateStatus
<1>8. ~queued' => (obj.uid # 0 => mo' = [mo EXCEPT !.status = obj.status])
  BY <1>3, <1>4 DEF UpdateStatus
<1>9. QED
  BY <1>2, <1>5, <1>6, <1>7, <1>8
=============================================================================
