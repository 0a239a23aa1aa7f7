------------------------- MODULE ReconcilerInvariant -------------------------
(***************************************************************************)
(* Why the caches of the deployer are recent enough for the order in which *)
(* it uninstalls: an inductive invariant of Reconciler for the case that   *)
(* only the deployer deletes the ManagedOCS and its StorageCluster         *)
(* (UserActions = {}), and the refinement of Lifecycle that rests on it.   *)
(***************************************************************************)
EXTENDS Reconciler

Busy == Running /\ pc # "idle"

\* The branch for a ManagedOCS under deletion, and the one for an installed one.
DeletingBranch == {"deleteOCSCSV", "removeFinalizer", "deleteStorageCluster",
                   "deleteStorageSystems"}
CheckBranch == {"listStorageClasses", "listVolumes", "listConsumers",
                "deleteManagedOCS"}
InstallBranch == CheckBranch \cup
    {"addFinalizer", "getStorageCluster", "createStorageCluster",
     "updateStorageCluster", "resources"}

-----------------------------------------------------------------------------
\* A ManagedOCS keeps its finalizer until it is gone, and its uid is the last
\* one handed out.  Once there was one and is none, ocs-operator is gone as well.
ServerManagedOCS ==
    /\ mo.uid # 0 => mo.finalizer /\ mo.uid = uids
    /\ mo.uid = 0 => mo = NoManagedOCS
    /\ mo.uid = 0 /\ uids # 0 => OCSCSV \notin csvs

\* A copy of the ManagedOCS trails the server's: it was alive when the server's
\* is, it is not under deletion unless the server's is (or is gone), and the
\* server's is not gone before the copy knew of the deletion.
Trails(copy) ==
    /\ copy.uid = 0 => copy = NoManagedOCS /\ mo.uid = 0
    /\ copy.uid # 0 => copy.finalizer /\ copy.uid = uids
    /\ copy.deleting => mo.deleting \/ mo.uid = 0
    /\ mo.uid = 0 /\ copy.uid # 0 => copy.deleting

CachedManagedOCS ==
    Running => /\ Trails(moSeen)
               /\ moSeenFresh => moSeen = mo

\* r.managedOCS during a reconcile trails the cache in the same way; its status is
\* the reconcile's own.
LocalManagedOCS ==
    Busy => /\ obj.uid = 0 => mo.uid = 0 /\ ~obj.deleting
            /\ obj.uid # 0 => obj.finalizer /\ obj.uid = uids
            /\ obj.deleting => mo.deleting \/ mo.uid = 0
            /\ obj.deleting => moSeen.deleting \/ moSeen.uid = 0
            /\ mo.uid = 0 /\ obj.uid # 0 => obj.deleting
            /\ objFresh => obj.uid = mo.uid /\ obj.deleting = mo.deleting

\* The StorageCluster belongs to the ManagedOCS there is, is only ever under
\* deletion while the ManagedOCS is, and does not lose an operator it has had.
ServerStorageCluster ==
    /\ sc.phase = "absent" => sc = NoStorageCluster
    /\ sc.phase # "absent" => mo.uid # 0 /\ sc.owner = mo.uid
    /\ sc.phase = "deleting" => mo.deleting
    /\ sc.phase \in {"pending", "ready", "deleting"} => OCSCSV \in csvs
    /\ sc.phase # "absent" /\ mo.deleting => OCSCSV \in csvs

\* The cache of it trails: while the ManagedOCS stays, a cluster once seen is
\* there, and once the ManagedOCS goes no cluster appears that the cache misses.
CachedStorageCluster ==
    Running =>
      /\ scSeenFresh => scSeen = sc
      /\ mo.uid # 0 /\ ~mo.deleting /\ scSeen.phase # "absent"
           => /\ sc.phase # "absent" /\ scSeen.phase # "deleting"
              /\ scSeen.phase # "new" => sc.phase # "new"
      /\ mo.uid = 0 \/ mo.deleting => (scSeen.phase = "absent" => sc.phase = "absent")

\* What is still to be cleaned up when a copy has not seen the deletion yet.
NotYetCleaned(copy) ==
    mo.deleting /\ copy.uid # 0 /\ ~copy.deleting
      => /\ sc.phase \in {"new", "pending", "ready"}
         /\ scSeen.phase # "absent"

StaleCopies == Running => NotYetCleaned(moSeen) /\ (Busy => NotYetCleaned(obj))

\* A CSV the cache does not hold is gone: nobody installs one.
CachedCSVs == Running => csvs \subseteq csvSeen

\* Where the worker is, and what it knows there.
WorkerKnows ==
    /\ pc \in DeletingBranch => obj.deleting
    /\ pc \in InstallBranch => obj.uid # 0 /\ ~obj.deleting /\ mo.uid # 0
    /\ pc # "addFinalizer"
    /\ pc \in {"deleteOCSCSV", "removeFinalizer"} => sc.phase = "absent"
    /\ pc = "removeFinalizer" => OCSCSV \notin csvs
    /\ pc = "createStorageCluster" => ~mo.deleting
    /\ pc = "updateStorageCluster" => sc.phase # "absent"
    /\ pc \in InstallBranch /\ obj.status.storageCluster = "Ready"
         => /\ scSeen.phase # "absent"
            /\ scSeen.phase # "new" \/ mo.deleting
    /\ pc \in CheckBranch => obj.status.storageCluster = "Ready" /\ uninstall
    /\ pc = "deleteDeployerCSV" => obj.uid = 0 /\ uninstall
    /\ pc = "booted" => mo.uid # 0
    /\ uninstall => labelled

\* The order of the uninstall rests on all of these: what the server holds, how
\* far each copy may trail it, and what the worker knows at each of its steps.
SafetyInv ==
    /\ ServerManagedOCS /\ CachedManagedOCS /\ LocalManagedOCS
    /\ ServerStorageCluster /\ CachedStorageCluster /\ StaleCopies
    /\ CachedCSVs /\ WorkerKnows /\ NoOrphanedManagedOCS

-----------------------------------------------------------------------------
\* The lifecycle as the API server shows it.
L == INSTANCE Lifecycle WITH
       managedOCS     <- IF mo.uid = 0 THEN "absent"
                         ELSE IF mo.deleting THEN "terminating" ELSE "installed",
       storageCluster <- sc.phase # "absent",
       operator       <- OCSCSV \in csvs,
       deployer       <- DeployerCSV \in csvs,
       requested      <- labelled

\* Every step of the deployer and of the cluster around it is a step of the
\* promised lifecycle or changes nothing of it.
RefinesLifecycle == L!LifecycleSpec
=============================================================================
