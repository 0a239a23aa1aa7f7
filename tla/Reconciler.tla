----------------------------- MODULE Reconciler -----------------------------
(***************************************************************************)
(* The reconcile loop of the deployer (controllers/managedocs_controller)  *)
(* from its first start to the removal of its own CSV, one action per call *)
(* that reads a cache or reaches the API server.                           *)
(*                                                                         *)
(* Three parties share the state:                                          *)
(*   - the API server and the controllers behind it (ocs-operator,         *)
(*     odf-operator, garbage collector, OLM, the addon operator, users):   *)
(*     mo, sc, csvs, systems, class, use, labelled, monReady;              *)
(*   - the manager's informer caches (mgr.GetClient() reads them), one per *)
(*     type and unordered between types: moSeen, scSeen, csvSeen,          *)
(*     systemsSeen, consumersSeen.  A write is checked against the         *)
(*     resourceVersion of the copy it starts from; "this copy is the       *)
(*     server's current version" is kept as one BOOLEAN per copy           *)
(*     (moSeenFresh, objFresh, ...);                                       *)
(*   - the one reconcile worker (MaxConcurrentReconciles is 1 and there is *)
(*     one request, the ManagedOCS called managedocs): pc and the fields   *)
(*     initReconciler resets.                                              *)
(***************************************************************************)
EXTENDS Naturals, Sequences, FiniteSets

CONSTANTS
    DeploymentType,   \* "converged", "consumer" or "provider"
    UserActions,      \* what users may do by hand, see AUserActions
    ReadFaults,       \* whether a read of a cache can fail other than by NotFound
    MaxFaults,        \* bound: API calls of the deployer that fail
    MaxRestarts,      \* bound: crashes of the deployer's pod
    MaxChurn          \* bound: changes made by users and operators at will

ASSUME ADeploymentType == DeploymentType \in {"converged", "consumer", "provider"}
ASSUME AUserActions ==
    UserActions \subseteq {"deleteManagedOCS", "deleteStorageCluster", "stripFinalizer"}
ASSUME AReadFaults == ReadFaults \in BOOLEAN
ASSUME ABounds == MaxFaults \in Nat /\ MaxRestarts \in Nat /\ MaxChurn \in Nat

VARIABLES
    mo,           \* the ManagedOCS on the API server
    sc,           \* the StorageCluster on the API server
    csvs,         \* the ClusterServiceVersions, by the prefixes the code looks for
    systems,      \* the StorageSystem: "absent", "present" or "deleting"
    class,        \* the StorageClass of the OCS provisioner, see Ages (a provider
                  \* does not ask for it and it stays "none")
    use,          \* what blocks an uninstall: an OCS volume or (the deployer of a
                  \* provider looks for these alone) a StorageConsumer, see Ages
    labelled,     \* the addon ConfigMap carries the delete label
    monReady,     \* both monitoring StatefulSets have their replicas ready
    moSeen, moSeenFresh, scSeen, scSeenFresh, csvSeen, systemsSeen,
    consumersSeen, \* whether the cached list of StorageConsumers has any, and
                  \* after it what the list became since; << >>: not listed yet
    pc,           \* where the deployer is
    queued,       \* the work queue holds the request
    obj,          \* r.managedOCS
    objFresh,     \* r.managedOCS is the server's current version
    scObj,        \* r.storageCluster
    uninstall,    \* initiateUninstall
    classListed,  \* ocsStorageClass of hasOCSVolumes is not empty
    again,        \* this reconcile ends with an error or a RequeueAfter
    computed,     \* what updateComponentStatus found (kept for the properties)
    uids, faults, restarts, churn

clusterVars == <<mo, sc, csvs, systems, class, use, labelled, monReady>>
listSeen    == <<systemsSeen, consumersSeen>>   \* listed, but not watched
cacheVars   == <<moSeen, moSeenFresh, scSeen, scSeenFresh, csvSeen, listSeen>>
localVars   == <<obj, objFresh, scObj, uninstall, classListed, again, computed>>
boundVars   == <<uids, faults, restarts, churn>>
vars == <<clusterVars, cacheVars, pc, queued, localVars, boundVars>>

-----------------------------------------------------------------------------
(***************************************************************************)
(* Data                                                                    *)
(***************************************************************************)
UIDs == Nat     \* 0: the object does not exist

\* v1.ComponentState; "" is a status nobody has written yet.
ComponentStates == {"", "Ready", "Pending", "NotFound", "Unknown"}

\* v1.ComponentStatusMap.  Prometheus and Alertmanager are handled alike and
\* asked for together: "Ready" when both are.
Statuses == [storageCluster : ComponentStates, monitoring : {"", "Ready", "Pending"}]
NoStatus == [storageCluster |-> "", monitoring |-> ""]

ManagedOCS == [uid : UIDs, deleting : BOOLEAN, finalizer : BOOLEAN, status : Statuses]
NoManagedOCS ==
    [uid |-> 0, deleting |-> FALSE, finalizer |-> FALSE, status |-> NoStatus]

\* A StorageCluster is "new" until ocs-operator puts its finalizer on it, and
\* "deleting" from the deletion request until ocs-operator has cleaned up.
Phases == {"absent", "new", "pending", "ready", "deleting"}
StorageClusters == [phase : Phases, owner : UIDs]
NoStorageCluster == [phase |-> "absent", owner |-> 0]

\* r.storageCluster: whether it carries a resourceVersion (held), whether that is
\* the server's current one (fresh), and the owner it was read with.
NotLoaded == [held |-> FALSE, owner |-> 0, fresh |-> FALSE]

\* Volumes, StorageConsumers and the StorageClass are "old" when they were
\* there before the current reconcile began; StorageConsumers, which are read from
\* a cache, when they had also reached that cache or it was yet to be filled.
Ages == {"none", "new", "old"}
Aged(a) == IF a = "none" THEN "none" ELSE "old"

OCSCSV == "ocs-operator"
DeployerCSV == "ocs-osd-deployer"

\* Mutant of StatesOf: the phase is copied instead of translated.
StatesOfCopied(cluster) == {cluster.phase}

\* What reading .Status.Phase and the result of the Get makes of it.  The phase
\* of a cluster whose deletion was just requested is still what it was.
StatesOf(cluster) ==
    CASE cluster.phase = "absent"   -> {"NotFound"}
      [] cluster.phase = "ready"    -> {"Ready"}
      [] cluster.phase = "deleting" -> {"Ready", "Pending"}
      [] OTHER                      -> {"Pending"}

Running == pc \notin {"down", "booted"}

PCs == {"down", "booted", "idle", "checkUninstall", "componentStatus",
        "deleteOCSCSV", "removeFinalizer", "deleteStorageCluster",
        "deleteStorageSystems", "addFinalizer", "getStorageCluster",
        "createStorageCluster", "updateStorageCluster", "resources",
        "listStorageClasses", "listVolumes", "listConsumers",
        "deleteManagedOCS", "refresh", "deleteDeployerCSV", "updateStatus"}

\* Calls whose error makes reconcilePhases return it.
Fallible == {"deleteOCSCSV", "removeFinalizer", "deleteStorageCluster",
             "deleteStorageSystems", "addFinalizer", "getStorageCluster",
             "createStorageCluster", "updateStorageCluster", "resources",
             "listStorageClasses", "listVolumes", "listConsumers",
             "deleteManagedOCS", "refresh", "deleteDeployerCSV"}

-----------------------------------------------------------------------------
(***************************************************************************)
(* Start, crash and stop of the pod (main.go)                              *)
(***************************************************************************)
\* Locals between two reconciles: initReconciler starts every one from these.
ResetLocals ==
    /\ obj' = NoManagedOCS /\ objFresh' = FALSE
    /\ scObj' = NotLoaded
    /\ uninstall' = FALSE /\ classListed' = FALSE
    /\ again' = FALSE /\ computed' = NoStatus

\* ensureManagedOCS: Create, AlreadyExists is fine.  It runs at every start of
\* the pod, before the manager (and with it the caches) is started.
EnsureManagedOCS ==
    /\ pc = "down" /\ DeployerCSV \in csvs
    /\ pc' = "booted"
    /\ IF mo.uid # 0
         THEN UNCHANGED <<mo, uids>>
         ELSE /\ uids' = uids + 1
              /\ mo' = [uid |-> uids + 1, deleting |-> FALSE, finalizer |-> TRUE,
                         status |-> NoStatus]
    /\ UNCHANGED <<sc, csvs, systems, class, use, labelled, monReady, cacheVars,
                   queued, localVars, faults, restarts, churn>>

\* mgr.Start waits for the caches to be filled; the objects of the first list
\* arrive as create events.
StartManager ==
    /\ pc = "booted"
    /\ pc' = "idle" /\ queued' = TRUE
    /\ moSeen' = mo /\ moSeenFresh' = TRUE
    /\ scSeen' = sc /\ scSeenFresh' = TRUE
    /\ csvSeen' = csvs /\ systemsSeen' = systems
    /\ UNCHANGED <<clusterVars, consumersSeen, localVars, boundVars>>

Stop ==
    /\ pc' = "down" /\ queued' = FALSE
    /\ moSeen' = NoManagedOCS /\ moSeenFresh' = FALSE
    /\ scSeen' = NoStorageCluster /\ scSeenFresh' = FALSE
    /\ csvSeen' = {} /\ systemsSeen' = "absent" /\ consumersSeen' = << >>
    /\ ResetLocals

Crash ==
    /\ pc # "down" /\ restarts < MaxRestarts
    /\ restarts' = restarts + 1
    /\ Stop
    /\ UNCHANGED <<clusterVars, uids, faults, churn>>

\* Without its CSV, OLM removes the deployment: the pod stops and stays down.
OLMStopsDeployer ==
    /\ pc # "down" /\ DeployerCSV \notin csvs
    /\ Stop
    /\ UNCHANGED <<clusterVars, boundVars>>

-----------------------------------------------------------------------------
(***************************************************************************)
(* Reconcile                                                               *)
(***************************************************************************)
\* Dequeue, initReconciler and the first get of the ManagedOCS.
BeginReconcile ==
    /\ pc = "idle" /\ queued
    /\ queued' = FALSE
    /\ obj' = moSeen /\ objFresh' = moSeenFresh
    /\ use' = IF Len(consumersSeen) <= 1 THEN Aged(use) ELSE use
    /\ class' = Aged(class)
    /\ pc' = "checkUninstall"
    /\ UNCHANGED <<mo, sc, csvs, systems, labelled, monReady, cacheVars, scObj,
                   uninstall, classListed, again, computed, boundVars>>

ReadFails == ReadFaults /\ faults < MaxFaults /\ faults' = faults + 1

\* The first get fails: Reconcile returns the error at once and the request goes
\* back to the queue.
ReadManagedOCSFails ==
    /\ pc = "idle" /\ queued
    /\ ReadFails
    /\ UNCHANGED <<clusterVars, cacheVars, pc, queued, localVars, uids, restarts, churn>>

\* An error other than NotFound is logged and counts as "do not uninstall".
CheckUninstallCondition ==
    /\ pc = "checkUninstall"
    /\ pc' = "componentStatus"
    /\ \/ uninstall' = labelled /\ UNCHANGED faults
       \/ ReadFails /\ uninstall' = FALSE
    /\ UNCHANGED <<clusterVars, cacheVars, queued, obj, objFresh, scObj,
                   classListed, again, computed, uids, restarts, churn>>

\* Mutants of PhaseAfter: the components are not verified; the CSV is forgotten;
\* an uninstall takes a ManagedOCS under deletion for a deleted one.
PhaseAfterUnverified(state) ==
    IF obj.deleting THEN "deleteOCSCSV"
      ELSE IF obj.uid # 0
             THEN IF obj.finalizer THEN "getStorageCluster" ELSE "addFinalizer"
             ELSE IF uninstall THEN "deleteDeployerCSV" ELSE "updateStatus"

PhaseAfterNoCSV(state) ==
    IF obj.deleting
      THEN IF state = "NotFound" THEN "removeFinalizer" ELSE "deleteStorageCluster"
      ELSE IF obj.uid # 0
             THEN IF obj.finalizer THEN "getStorageCluster" ELSE "addFinalizer"
             ELSE IF uninstall THEN "deleteDeployerCSV" ELSE "updateStatus"

PhaseAfterHasty(state) ==
    IF obj.deleting
      THEN IF state # "NotFound" THEN "deleteStorageCluster"
           ELSE IF uninstall THEN "deleteDeployerCSV" ELSE "deleteOCSCSV"
      ELSE IF obj.uid # 0
             THEN IF obj.finalizer THEN "getStorageCluster" ELSE "addFinalizer"
             ELSE IF uninstall THEN "deleteDeployerCSV" ELSE "updateStatus"

\* Where reconcilePhases goes once it has the status of the components.
PhaseAfter(state) ==
    IF obj.deleting
      THEN IF state = "NotFound" THEN "deleteOCSCSV" ELSE "deleteStorageCluster"
      ELSE IF obj.uid # 0
             THEN IF obj.finalizer THEN "getStorageCluster" ELSE "addFinalizer"
             ELSE IF uninstall THEN "deleteDeployerCSV" ELSE "updateStatus"

\* updateComponentStatus, and the branch that follows it.  A monitoring component
\* that cannot be read counts as one that is not ready.
UpdateComponentStatus ==
    /\ pc = "componentStatus"
    /\ \E state \in StatesOf(scSeen) \cup {"Unknown"}, ready \in {monReady, FALSE} :
          /\ IF state = "Unknown" \/ ready # monReady
               THEN ReadFails ELSE UNCHANGED faults
          /\ computed' = [storageCluster |-> state,
                          monitoring |-> IF ready THEN "Ready" ELSE "Pending"]
          /\ scObj' = [scObj EXCEPT !.held = state \notin {"NotFound", "Unknown"}]
          /\ pc' = PhaseAfter(state)
    /\ obj' = [obj EXCEPT !.status = computed']
    /\ UNCHANGED <<clusterVars, cacheVars, queued, objFresh, uninstall, classListed,
                   again, uids, restarts, churn>>

\* An error return of reconcilePhases: the status is written, then the request
\* goes back to the queue.
Abort == again' = TRUE /\ pc' = "updateStatus"

CallFails ==
    /\ pc \in Fallible
    /\ faults < MaxFaults /\ faults' = faults + 1
    /\ Abort
    /\ UNCHANGED <<clusterVars, cacheVars, queued, obj, objFresh, scObj, uninstall,
                   classListed, computed, uids, restarts, churn>>

-----------------------------------------------------------------------------
(***************************************************************************)
(* reconcilePhases, the ManagedOCS is being deleted                        *)
(***************************************************************************)
\* deleteCSVByPrefix: looked up in the cache, deleted on the server.
DeleteCSV(prefix) ==
    csvs' = IF prefix \in csvSeen THEN csvs \ {prefix} ELSE csvs

DeleteOCSCSV ==
    /\ pc = "deleteOCSCSV"
    /\ DeleteCSV(OCSCSV)
    /\ pc' = "removeFinalizer"
    /\ UNCHANGED <<mo, sc, systems, class, use, labelled, monReady, cacheVars,
                   queued, localVars, boundVars>>

\* An Update of r.managedOCS: refused unless it starts from the current
\* version.  Without its last finalizer a ManagedOCS under deletion is gone.
RemoveFinalizer ==
    /\ pc = "removeFinalizer"
    /\ IF objFresh
         THEN /\ mo' = NoManagedOCS
              /\ moSeenFresh' = FALSE /\ objFresh' = FALSE
              /\ pc' = "updateStatus" /\ UNCHANGED again
         ELSE Abort /\ UNCHANGED <<mo, moSeenFresh, objFresh>>
    /\ UNCHANGED <<sc, csvs, systems, class, use, labelled, monReady, moSeen, scSeen,
                   scSeenFresh, csvSeen, listSeen, queued, obj, scObj, uninstall,
                   classListed, computed, boundVars>>

\* What a delete request leaves of a StorageCluster.
Deleted(cluster) ==
    CASE cluster.phase \in {"pending", "ready"} -> [cluster EXCEPT !.phase = "deleting"]
      [] cluster.phase = "new"                  -> NoStorageCluster
      [] OTHER                                  -> cluster

DeleteStorageCluster ==
    /\ pc = "deleteStorageCluster"
    /\ sc' = Deleted(sc)
    /\ scSeenFresh' = (scSeenFresh /\ sc' = sc)
    /\ pc' = "deleteStorageSystems"
    /\ UNCHANGED <<mo, csvs, systems, class, use, labelled, monReady, moSeen,
                   moSeenFresh, scSeen, csvSeen, listSeen, queued, localVars,
                   boundVars>>

\* list from the cache, then delete each.
DeleteStorageSystems ==
    /\ pc = "deleteStorageSystems"
    /\ systems' = IF systemsSeen # "absent" /\ systems = "present"
                    THEN "deleting" ELSE systems
    /\ pc' = "updateStatus"
    /\ UNCHANGED <<mo, sc, csvs, class, use, labelled, monReady, cacheVars, queued,
                   localVars, boundVars>>

-----------------------------------------------------------------------------
(***************************************************************************)
(* reconcilePhases, the ManagedOCS is installed                            *)
(***************************************************************************)
\* The object the Update returns replaces r.managedOCS, its stored status
\* (once there is one) the status just computed.
AddFinalizer ==
    /\ pc = "addFinalizer"
    /\ IF objFresh
         THEN /\ mo' = [mo EXCEPT !.finalizer = TRUE]
              /\ obj' = [mo' EXCEPT !.status =
                           IF mo.status = NoStatus THEN obj.status ELSE mo.status]
              /\ moSeenFresh' = FALSE
              /\ pc' = "getStorageCluster" /\ UNCHANGED again
         ELSE Abort /\ UNCHANGED <<mo, obj, moSeenFresh>>
    /\ UNCHANGED <<sc, csvs, systems, class, use, labelled, monReady, moSeen, scSeen,
                   scSeenFresh, csvSeen, listSeen, queued, objFresh, scObj,
                   uninstall, classListed, computed, boundVars>>

\* The Get of CreateOrUpdate.  A NotFound leaves r.storageCluster, and the
\* resourceVersion updateComponentStatus may have loaded into it, alone.
GetStorageCluster ==
    /\ pc = "getStorageCluster"
    /\ IF scSeen.phase = "absent"
         THEN pc' = "createStorageCluster" /\ UNCHANGED scObj
         ELSE /\ pc' = "updateStorageCluster"
              /\ scObj' = [held |-> TRUE, owner |-> scSeen.owner, fresh |-> scSeenFresh]
    /\ UNCHANGED <<clusterVars, cacheVars, queued, obj, objFresh, uninstall,
                   classListed, again, computed, boundVars>>

\* Mutant of CreateStorageCluster: own() is forgotten.
CreateStorageClusterUnowned ==
    /\ pc = "createStorageCluster"
    /\ IF sc.phase = "absent" /\ ~scObj.held
         THEN /\ sc' = [phase |-> "new", owner |-> 0]
              /\ scSeenFresh' = FALSE
              /\ pc' = "resources" /\ UNCHANGED again
         ELSE Abort /\ UNCHANGED <<sc, scSeenFresh>>
    /\ scObj' = NotLoaded
    /\ UNCHANGED <<mo, csvs, systems, class, use, labelled, monReady, moSeen,
                   moSeenFresh, scSeen, csvSeen, listSeen, queued, obj, objFresh,
                   uninstall, classListed, computed, boundVars>>

\* AlreadyExists when the cache had missed it; an object that carries a
\* resourceVersion is refused.  (Nothing reads r.storageCluster after this step
\* and the next, so both leave it as the next reconcile will find it.)
CreateStorageCluster ==
    /\ pc = "createStorageCluster"
    /\ IF sc.phase = "absent" /\ ~scObj.held
         THEN /\ sc' = [phase |-> "new", owner |-> obj.uid]
              /\ scSeenFresh' = FALSE
              /\ pc' = "resources" /\ UNCHANGED again
         ELSE Abort /\ UNCHANGED <<sc, scSeenFresh>>
    /\ scObj' = NotLoaded
    /\ UNCHANGED <<mo, csvs, systems, class, use, labelled, monReady, moSeen,
                   moSeenFresh, scSeen, csvSeen, listSeen, queued, obj, objFresh,
                   uninstall, classListed, computed, boundVars>>

\* own() points the controller reference at the current uid; an object that
\* already has it is not written.
UpdateStorageCluster ==
    /\ pc = "updateStorageCluster"
    /\ IF scObj.owner = obj.uid
         THEN pc' = "resources" /\ UNCHANGED <<sc, scSeenFresh, again>>
         ELSE IF scObj.fresh
                THEN /\ sc' = [sc EXCEPT !.owner = obj.uid]
                     /\ scSeenFresh' = FALSE
                     /\ pc' = "resources" /\ UNCHANGED again
                ELSE Abort /\ UNCHANGED <<sc, scSeenFresh>>
    /\ scObj' = NotLoaded
    /\ UNCHANGED <<mo, csvs, systems, class, use, labelled, monReady, moSeen,
                   moSeenFresh, scSeen, csvSeen, listSeen, queued, obj, objFresh,
                   uninstall, classListed, computed, boundVars>>

\* Mutant of AreComponentsReadyForUninstall: monitoring is not asked for.
AreComponentsReadyOfStorage == obj.status.storageCluster = "Ready"

AreComponentsReadyForUninstall ==
    obj.status.storageCluster = "Ready" /\ obj.status.monitoring = "Ready"

\* The steps after the StorageCluster (they can fail, see CallFails) and the
\* question whether to uninstall.
ReconcileResources ==
    /\ pc = "resources"
    /\ pc' = IF uninstall /\ AreComponentsReadyForUninstall
               THEN IF DeploymentType = "provider"
                      THEN "listConsumers" ELSE "listStorageClasses"
               ELSE "updateStatus"
    /\ UNCHANGED <<clusterVars, cacheVars, queued, localVars, boundVars>>

-----------------------------------------------------------------------------
(***************************************************************************)
(* reconcilePhases, the start of the uninstall                             *)
(***************************************************************************)
\* Mutant of ListStorageClasses: the provisioner is compared, not its prefix.
ListStorageClassesExact ==
    /\ pc = "listStorageClasses"
    /\ classListed' = FALSE
    /\ pc' = "listVolumes"
    /\ UNCHANGED <<clusterVars, cacheVars, queued, obj, objFresh, scObj, uninstall,
                   again, computed, boundVars>>

\* hasOCSVolumes, first list (UnrestrictedClient reads the server).
ListStorageClasses ==
    /\ pc = "listStorageClasses"
    /\ classListed' = (class # "none")
    /\ pc' = "listVolumes"
    /\ UNCHANGED <<clusterVars, cacheVars, queued, obj, objFresh, scObj, uninstall,
                   again, computed, boundVars>>

\* Mutant of Proceed: the RequeueAfter is forgotten.
ProceedOnce(found) ==
    pc' = (IF found THEN "updateStatus" ELSE "deleteManagedOCS") /\ UNCHANGED again

\* Volumes or consumers are left: RequeueAfter 10 seconds.
Proceed(found) ==
    IF found THEN Abort ELSE pc' = "deleteManagedOCS" /\ UNCHANGED again

\* hasOCSVolumes, second list: volumes of the classes listed before.
ListVolumes ==
    /\ pc = "listVolumes"
    /\ Proceed(classListed /\ use # "none")
    /\ UNCHANGED <<clusterVars, cacheVars, queued, obj, objFresh, scObj, uninstall,
                   classListed, computed, boundVars>>

\* Mutant of ListConsumers: the first list does not wait for the cache to be filled.
ListConsumersUnsynced ==
    /\ pc = "listConsumers"
    /\ consumersSeen' = IF consumersSeen = << >>
                          THEN IF use # "none" THEN <<FALSE, TRUE>> ELSE <<FALSE>>
                          ELSE consumersSeen
    /\ Proceed(Head(consumersSeen'))
    /\ UNCHANGED <<clusterVars, moSeen, moSeenFresh, scSeen, scSeenFresh, csvSeen,
                   systemsSeen, queued, obj, objFresh, scObj, uninstall, classListed,
                   computed, boundVars>>

\* hasOCSStorageConsumers lists from the cache.  The first list starts the informer
\* and waits until it has filled the cache.
ListConsumers ==
    /\ pc = "listConsumers"
    /\ consumersSeen' = IF consumersSeen = << >> THEN <<use # "none">> ELSE consumersSeen
    /\ Proceed(Head(consumersSeen'))
    /\ UNCHANGED <<clusterVars, moSeen, moSeenFresh, scSeen, scSeenFresh, csvSeen,
                   systemsSeen, queued, obj, objFresh, scObj, uninstall, classListed,
                   computed, boundVars>>

\* What a delete request leaves of a ManagedOCS.
Terminating(m) == IF m.finalizer THEN [m EXCEPT !.deleting = TRUE] ELSE NoManagedOCS

DeleteManagedOCS ==
    /\ pc = "deleteManagedOCS"
    /\ mo' = Terminating(mo)
    /\ moSeenFresh' = (moSeenFresh /\ mo' = mo)
    /\ objFresh' = (objFresh /\ mo' = mo)
    /\ pc' = "refresh"
    /\ UNCHANGED <<sc, csvs, systems, class, use, labelled, monReady, moSeen, scSeen,
                   scSeenFresh, csvSeen, listSeen, queued, obj, scObj, uninstall,
                   classListed, again, computed, boundVars>>

\* The get after the delete reads the cache; NotFound leaves r.managedOCS alone.
RefreshManagedOCS ==
    /\ pc = "refresh"
    /\ IF moSeen.uid = 0
         THEN UNCHANGED <<obj, objFresh>>
         ELSE obj' = moSeen /\ objFresh' = moSeenFresh
    /\ pc' = "updateStatus"
    /\ UNCHANGED <<clusterVars, cacheVars, queued, scObj, uninstall, classListed,
                   again, computed, boundVars>>

\* removeOLMComponents
DeleteDeployerCSV ==
    /\ pc = "deleteDeployerCSV"
    /\ DeleteCSV(DeployerCSV)
    /\ pc' = "updateStatus"
    /\ UNCHANGED <<mo, sc, systems, class, use, labelled, monReady, cacheVars,
                   queued, localVars, boundVars>>

-----------------------------------------------------------------------------
(***************************************************************************)
(* The end of Reconcile: Status().Update and the result                    *)
(***************************************************************************)
\* Mutant of EndReconcile: an error of the status update is logged only.
EndReconcileLogged(requeue) ==
    /\ pc' = "idle" /\ queued' = (queued \/ again)
    /\ ResetLocals

EndReconcile(requeue) ==
    /\ pc' = "idle" /\ queued' = (queued \/ requeue)
    /\ ResetLocals

\* One status update, also after an error; a copy without uid is not written.
UpdateStatus ==
    /\ pc = "updateStatus"
    /\ \/ /\ obj.uid = 0
          /\ EndReconcile(again)
          /\ UNCHANGED <<mo, moSeenFresh, faults>>
       \/ /\ obj.uid # 0 /\ objFresh
          /\ mo' = [mo EXCEPT !.status = obj.status]
          /\ moSeenFresh' = (moSeenFresh /\ mo' = mo)
          /\ EndReconcile(again)
          /\ UNCHANGED faults
       \/ /\ obj.uid # 0
          /\ IF objFresh THEN faults < MaxFaults /\ faults' = faults + 1
                         ELSE UNCHANGED faults
          /\ EndReconcile(TRUE)
          /\ UNCHANGED <<mo, moSeenFresh>>
    /\ UNCHANGED <<sc, csvs, systems, class, use, labelled, monReady, moSeen, scSeen,
                   scSeenFresh, csvSeen, listSeen, uids, restarts, churn>>

\* What the readiness probe answers: it reads the stored status from the server.
IsReady == mo.uid # 0 /\ mo.status = [storageCluster |-> "Ready", monitoring |-> "Ready"]

Deployer ==
    \/ ReadManagedOCSFails \/ BeginReconcile
    \/ CheckUninstallCondition \/ UpdateComponentStatus
    \/ DeleteOCSCSV \/ RemoveFinalizer
    \/ DeleteStorageCluster \/ DeleteStorageSystems
    \/ AddFinalizer \/ GetStorageCluster \/ CreateStorageCluster
    \/ UpdateStorageCluster \/ ReconcileResources
    \/ ListStorageClasses \/ ListVolumes \/ ListConsumers
    \/ DeleteManagedOCS \/ RefreshManagedOCS \/ DeleteDeployerCSV \/ UpdateStatus

-----------------------------------------------------------------------------
(***************************************************************************)
(* Informers: a cache catches up with the server, and SetupWithManager's   *)
(* predicates decide whether the event queues the request                  *)
(***************************************************************************)
\* GenerationChangedPredicate: neither a status nor a finalizer changes the
\* generation; a deletion timestamp does.
ManagedOCSEvent == moSeen.uid # mo.uid \/ moSeen.deleting # mo.deleting

SyncManagedOCS ==
    /\ Running /\ ~moSeenFresh
    /\ moSeen' = mo /\ moSeenFresh' = TRUE
    /\ queued' = (queued \/ ManagedOCSEvent)
    /\ UNCHANGED <<clusterVars, scSeen, scSeenFresh, csvSeen, listSeen, pc,
                   localVars, boundVars>>

\* Mutant of SyncStorageCluster: only a changed generation queues the request.
SyncStorageClusterOnSpec ==
    /\ Running /\ ~scSeenFresh
    /\ scSeen' = sc /\ scSeenFresh' = TRUE
    /\ queued' = (queued \/ (scSeen.phase \in {"absent", "deleting"}) #
                           (sc.phase \in {"absent", "deleting"}))
    /\ UNCHANGED <<clusterVars, moSeen, moSeenFresh, csvSeen, listSeen, pc,
                   localVars, boundVars>>

\* Owns(&ocsv1.StorageCluster{}): every event of it.
SyncStorageCluster ==
    /\ Running /\ ~scSeenFresh
    /\ scSeen' = sc /\ scSeenFresh' = TRUE
    /\ queued' = TRUE
    /\ UNCHANGED <<clusterVars, moSeen, moSeenFresh, csvSeen, listSeen, pc,
                   localVars, boundVars>>

\* csvPredicates: only the CSVs prefixed with ocs-operator.
SyncCSVs ==
    /\ Running /\ csvSeen # csvs
    /\ csvSeen' = csvs
    /\ queued' = (queued \/ (OCSCSV \in csvSeen) # (OCSCSV \in csvs))
    /\ UNCHANGED <<clusterVars, moSeen, moSeenFresh, scSeen, scSeenFresh, listSeen,
                   pc, localVars, boundVars>>

\* StorageSystems are listed (which starts an informer) but not watched.
SyncStorageSystems ==
    /\ Running /\ systemsSeen # systems
    /\ systemsSeen' = systems
    /\ UNCHANGED <<clusterVars, moSeen, moSeenFresh, scSeen, scSeenFresh, csvSeen,
                   consumersSeen, pc, queued, localVars, boundVars>>

\* Neither are StorageConsumers: the next of their changes reaches the cache.
SyncConsumers ==
    /\ Running /\ Len(consumersSeen) > 1
    /\ consumersSeen' = Tail(consumersSeen)
    /\ UNCHANGED <<clusterVars, moSeen, moSeenFresh, scSeen, scSeenFresh, csvSeen,
                   systemsSeen, pc, queued, localVars, boundVars>>

\* Events of everything else that is owned or watched (monitoring, policies,
\* secrets, subscriptions) and the periodic resync: they may come at any time.
OtherEvent ==
    /\ Running /\ ~queued
    /\ queued' = TRUE
    /\ UNCHANGED <<clusterVars, cacheVars, pc, localVars, boundVars>>

Informers ==
    \/ SyncManagedOCS \/ SyncStorageCluster \/ SyncCSVs \/ SyncStorageSystems
    \/ SyncConsumers \/ OtherEvent

-----------------------------------------------------------------------------
(***************************************************************************)
(* The rest of the cluster                                                 *)
(***************************************************************************)
Churn == churn < MaxChurn /\ churn' = churn + 1

ScWritten == scSeenFresh' = FALSE /\ scObj' = [scObj EXCEPT !.fresh = FALSE]

\* ocs-operator runs while its CSV is there.  It puts its finalizer on a new
\* cluster, brings it up (with its StorageClass), and cleans up after a delete.
OperatorAdopts ==
    /\ OCSCSV \in csvs /\ sc.phase = "new"
    /\ sc' = [sc EXCEPT !.phase = "pending"]
    /\ systems' = IF systems = "absent" THEN "present" ELSE systems
    /\ ScWritten
    /\ UNCHANGED <<mo, csvs, class, use, labelled, monReady, moSeen, moSeenFresh,
                   scSeen, csvSeen, listSeen, pc, queued, obj, objFresh, uninstall,
                   classListed, again, computed, boundVars>>

OperatorReady ==
    /\ OCSCSV \in csvs /\ sc.phase = "pending"
    /\ sc' = [sc EXCEPT !.phase = "ready"]
    /\ class' = IF class = "none" /\ DeploymentType # "provider"
                  THEN "new" ELSE class
    /\ ScWritten
    /\ UNCHANGED <<mo, csvs, systems, use, labelled, monReady, moSeen, moSeenFresh,
                   scSeen, csvSeen, listSeen, pc, queued, obj, objFresh, uninstall,
                   classListed, again, computed, boundVars>>

OperatorNotReady ==
    /\ OCSCSV \in csvs /\ sc.phase = "ready"
    /\ Churn
    /\ sc' = [sc EXCEPT !.phase = "pending"]
    /\ ScWritten
    /\ UNCHANGED <<mo, csvs, systems, class, use, labelled, monReady, moSeen,
                   moSeenFresh, scSeen, csvSeen, listSeen, pc, queued, obj, objFresh,
                   uninstall, classListed, again, computed, uids, faults, restarts>>

OperatorDeletes ==
    /\ OCSCSV \in csvs /\ sc.phase = "deleting"
    /\ sc' = NoStorageCluster
    /\ class' = "none"
    /\ ScWritten
    /\ UNCHANGED <<mo, csvs, systems, use, labelled, monReady, moSeen, moSeenFresh,
                   scSeen, csvSeen, listSeen, pc, queued, obj, objFresh, uninstall,
                   classListed, again, computed, boundVars>>

\* odf-operator lets a StorageSystem go once its StorageCluster is gone.
StorageSystemGone ==
    /\ systems = "deleting" /\ sc.phase = "absent"
    /\ systems' = "absent"
    /\ UNCHANGED <<mo, sc, csvs, class, use, labelled, monReady, cacheVars, pc, queued,
                   localVars, boundVars>>

\* The garbage collector deletes what an absent uid owned.
GarbageCollect ==
    /\ sc.owner \notin {0, mo.uid} /\ Deleted(sc) # sc
    /\ sc' = Deleted(sc)
    /\ ScWritten
    /\ UNCHANGED <<mo, csvs, systems, class, use, labelled, monReady, moSeen,
                   moSeenFresh, scSeen, csvSeen, listSeen, pc, queued, obj, objFresh,
                   uninstall, classListed, again, computed, boundVars>>

\* The addon operator labels the ConfigMap; configMapPredicates let it pass.
RequestUninstall ==
    /\ ~labelled /\ labelled' = TRUE
    /\ queued' = Running
    /\ UNCHANGED <<mo, sc, csvs, systems, class, use, monReady, cacheVars, pc,
                   localVars, boundVars>>

\* The StatefulSets are watched.
MonitoringReady ==
    /\ ~monReady /\ monReady' = TRUE
    /\ queued' = Running
    /\ UNCHANGED <<mo, sc, csvs, systems, class, use, labelled, cacheVars, pc,
                   localVars, boundVars>>

MonitoringNotReady ==
    /\ monReady /\ Churn /\ monReady' = FALSE
    /\ queued' = Running
    /\ UNCHANGED <<mo, sc, csvs, systems, class, use, labelled, cacheVars, pc,
                   localVars, uids, faults, restarts>>

\* The informer of StorageConsumers, once started, will hear of a change.
ConsumersChange(any) ==
    consumersSeen' =
        IF consumersSeen = << >> THEN << >> ELSE Append(consumersSeen, any)

\* A workload gets a volume, or a consumer cluster is onboarded; neither queues
\* the request.
StorageClaimed ==
    /\ use = "none" /\ sc.phase = "ready"
    /\ DeploymentType = "provider" \/ class # "none"
    /\ Churn
    /\ use' = "new" /\ ConsumersChange(TRUE)
    /\ UNCHANGED <<mo, sc, csvs, systems, class, labelled, monReady, moSeen,
                   moSeenFresh, scSeen, scSeenFresh, csvSeen, systemsSeen, pc, queued,
                   localVars, uids, faults, restarts>>

StorageReleased ==
    /\ use # "none" /\ use' = "none" /\ ConsumersChange(FALSE)
    /\ UNCHANGED <<mo, sc, csvs, systems, class, labelled, monReady, moSeen,
                   moSeenFresh, scSeen, scSeenFresh, csvSeen, systemsSeen, pc, queued,
                   localVars, boundVars>>

\* A user removes the StorageClass; the volumes made with it stay.
StorageClassRemoved ==
    /\ class # "none" /\ Churn /\ class' = "none"
    /\ UNCHANGED <<mo, sc, csvs, systems, use, labelled, monReady, cacheVars, pc,
                   queued, localVars, uids, faults, restarts>>

UserDeletesManagedOCS ==
    /\ "deleteManagedOCS" \in UserActions /\ mo.uid # 0 /\ Churn
    /\ mo' = Terminating(mo) /\ mo' # mo
    /\ moSeenFresh' = FALSE /\ objFresh' = FALSE
    /\ UNCHANGED <<sc, csvs, systems, class, use, labelled, monReady, moSeen, scSeen,
                   scSeenFresh, csvSeen, listSeen, pc, queued, obj, scObj, uninstall,
                   classListed, again, computed, uids, faults, restarts>>

UserDeletesStorageCluster ==
    /\ "deleteStorageCluster" \in UserActions /\ Deleted(sc) # sc /\ Churn
    /\ sc' = Deleted(sc)
    /\ ScWritten
    /\ UNCHANGED <<mo, csvs, systems, class, use, labelled, monReady, moSeen,
                   moSeenFresh, scSeen, csvSeen, listSeen, pc, queued, obj, objFresh,
                   uninstall, classListed, again, computed, uids, faults, restarts>>

UserStripsFinalizer ==
    /\ "stripFinalizer" \in UserActions /\ mo.finalizer /\ ~mo.deleting /\ Churn
    /\ mo' = [mo EXCEPT !.finalizer = FALSE]
    /\ moSeenFresh' = FALSE /\ objFresh' = FALSE
    /\ UNCHANGED <<sc, csvs, systems, class, use, labelled, monReady, moSeen, scSeen,
                   scSeenFresh, csvSeen, listSeen, pc, queued, obj, scObj, uninstall,
                   classListed, again, computed, uids, faults, restarts>>

Operators ==
    \/ OperatorAdopts \/ OperatorReady \/ OperatorNotReady \/ OperatorDeletes
    \/ StorageSystemGone \/ GarbageCollect \/ RequestUninstall
    \/ MonitoringReady \/ MonitoringNotReady

Users ==
    \/ StorageClaimed \/ StorageReleased \/ StorageClassRemoved
    \/ UserDeletesManagedOCS \/ UserDeletesStorageCluster \/ UserStripsFinalizer

-----------------------------------------------------------------------------
\* The deployer was just installed by OLM, next to ocs-operator.
Init ==
    /\ mo = NoManagedOCS /\ sc = NoStorageCluster
    /\ csvs = {OCSCSV, DeployerCSV} /\ systems = "absent"
    /\ class = "none" /\ use = "none" /\ labelled = FALSE /\ monReady = FALSE
    /\ moSeen = NoManagedOCS /\ moSeenFresh = FALSE
    /\ scSeen = NoStorageCluster /\ scSeenFresh = FALSE
    /\ csvSeen = {} /\ systemsSeen = "absent" /\ consumersSeen = << >>
    /\ pc = "down" /\ queued = FALSE
    /\ obj = NoManagedOCS /\ objFresh = FALSE
    /\ scObj = NotLoaded
    /\ uninstall = FALSE /\ classListed = FALSE /\ again = FALSE
    /\ computed = NoStatus
    /\ uids = 0 /\ faults = 0 /\ restarts = 0 /\ churn = 0

Next ==
    \/ EnsureManagedOCS \/ StartManager \/ Crash \/ OLMStopsDeployer
    \/ Deployer \/ CallFails \/ Informers \/ Operators \/ Users

Spec == Init /\ [][Next]_vars

(***************************************************************************)
(* Fairness: the manager keeps its worker, its informers and its restarts  *)
(* going; the operators finish what they were asked to do and users give   *)
(* their volumes back.  Nothing obliges anyone to crash, to fail a call,   *)
(* to claim storage or to ask for the uninstall.                           *)
(***************************************************************************)
Fairness ==
    /\ WF_vars(EnsureManagedOCS) /\ WF_vars(StartManager) /\ WF_vars(OLMStopsDeployer)
    /\ WF_vars(Deployer)
    /\ WF_vars(SyncManagedOCS) /\ WF_vars(SyncStorageCluster)
    /\ WF_vars(SyncCSVs) /\ WF_vars(SyncStorageSystems) /\ WF_vars(SyncConsumers)
    /\ WF_vars(OperatorAdopts) /\ WF_vars(OperatorReady) /\ WF_vars(OperatorDeletes)
    /\ WF_vars(StorageSystemGone) /\ WF_vars(GarbageCollect)
    /\ WF_vars(MonitoringReady) /\ WF_vars(StorageReleased)

FairSpec == Spec /\ Fairness

-----------------------------------------------------------------------------
(***************************************************************************)
(* Properties                                                              *)
(***************************************************************************)
TypeOK ==
    /\ mo \in ManagedOCS /\ moSeen \in ManagedOCS /\ obj \in ManagedOCS
    /\ sc \in StorageClusters /\ scSeen \in StorageClusters
    /\ csvs \subseteq {OCSCSV, DeployerCSV} /\ csvSeen \subseteq {OCSCSV, DeployerCSV}
    /\ systems \in {"absent", "present", "deleting"}
    /\ systemsSeen \in {"absent", "present", "deleting"}
    /\ consumersSeen \in Seq(BOOLEAN)
    /\ class \in Ages /\ use \in Ages
    /\ labelled \in BOOLEAN /\ monReady \in BOOLEAN
    /\ moSeenFresh \in BOOLEAN /\ scSeenFresh \in BOOLEAN
    /\ pc \in PCs /\ queued \in BOOLEAN
    /\ objFresh \in BOOLEAN /\ scObj \in [held : BOOLEAN, owner : UIDs, fresh : BOOLEAN]
    /\ uninstall \in BOOLEAN /\ classListed \in BOOLEAN /\ again \in BOOLEAN
    /\ computed \in Statuses
    /\ uids \in UIDs /\ faults \in 0 .. MaxFaults
    /\ restarts \in 0 .. MaxRestarts /\ churn \in 0 .. MaxChurn

\* removeOLMComponents removes the only program that can take the finalizer off
\* a ManagedOCS: once the deployer's CSV is gone no ManagedOCS may be left,
\* whatever the caches showed and whatever was restarted in between.
NoOrphanedManagedOCS == DeployerCSV \notin csvs => mo.uid = 0

\* reconcilePhases deletes the StorageCluster before the CSV of the operator that
\* has to clean it up: the CSV never goes while the cluster exists.
StorageClusterBeforeCSV ==
    [][(OCSCSV \in csvs /\ OCSCSV \notin csvs') => sc.phase = "absent"]_vars

\* Storage in use since before a reconcile began stops an uninstall in it.  Of
\* StorageConsumers that is said of those the deployer can have heard of: they had
\* reached its cache, or are older than the first list that fills it.  (What is
\* claimed while the check runs, and a consumer whose event is still on its way, can
\* be missed: neither the check and the delete nor cache and server are one.)
UsedStorageBlocksUninstall ==
    [][pc = "deleteManagedOCS" /\ pc' = "refresh"
         => ~(use = "old" /\ (DeploymentType = "provider" \/ class = "old"))]_vars

\* The delete is decided on the component states this very reconcile computed.
DeletesOnlyWhenReady ==
    [][pc = "deleteManagedOCS" /\ pc' = "refresh"
         => computed = [storageCluster |-> "Ready", monitoring |-> "Ready"]]_vars

\* No wakeup is lost.  When the worker waits, the queue is empty and the caches are
\* current, a ManagedOCS that is to stay has its StorageCluster and owns it, whatever
\* reads failed and whoever deleted either of them.
Quiescent ==
    /\ pc = "idle" /\ ~queued
    /\ moSeenFresh /\ scSeenFresh /\ csvSeen = csvs

QuiescentMeansInstalled ==
    Quiescent /\ mo.uid # 0 /\ ~mo.deleting => sc.phase # "absent" /\ sc.owner = mo.uid

\* In the same situation an uninstall that could take its next step has taken it:
\* the StorageCluster goes once the ManagedOCS does, the deployer's CSV once there is
\* no ManagedOCS, and an unused, ready installation is not left standing.  (A read
\* that fails without ending the reconcile in an error can lose this wakeup.)
QuiescentMeansUninstalling ==
    Quiescent =>
      /\ mo.deleting => sc.phase = "deleting"
      /\ labelled /\ mo.uid = 0 => DeployerCSV \notin csvs
      /\ labelled /\ sc.phase = "ready" /\ monReady => mo.deleting

\* "Ensure status is updated once": in the same situation the stored status, which
\* the next uninstall check may start from, is that of the cluster, and the readiness
\* probe answers accordingly.
QuiescentMeansStatusStored ==
    Quiescent /\ mo.uid # 0 /\ ~mo.deleting =>
        /\ mo.status.storageCluster \in StatesOf(sc)
        /\ mo.status.monitoring = IF monReady THEN "Ready" ELSE "Pending"
        /\ sc.phase = "ready" /\ monReady => IsReady
        /\ IsReady => "Ready" \in StatesOf(sc) /\ monReady

\* An installation completes, whichever restart or conflict comes between: in the end,
\* and for good, there is a ready StorageCluster of the current ManagedOCS and the
\* readiness probe says so, unless the uninstall is requested.
InstallCompletes ==
    <>[](labelled \/ (IsReady /\ sc.phase = "ready" /\ sc.owner = mo.uid))

\* A requested uninstall ends with the deployer's own CSV removed, unless a
\* restart re-created the ManagedOCS after the operator's CSV was gone.
Stranded == mo.uid # 0 /\ ~mo.deleting /\ OCSCSV \notin csvs

UninstallCompletesUnlessStranded ==
    labelled ~> (DeployerCSV \notin csvs \/ Stranded)

\* A requested uninstall ends with the deployer's own CSV removed.
UninstallCompletes == labelled ~> DeployerCSV \notin csvs
=============================================================================
