------------------------------ MODULE Lifecycle ------------------------------
(***************************************************************************)
(* What the deployer promises about the order in which the managed         *)
(* installation comes and goes, with no cache, queue, crash or error in    *)
(* sight: reconcilePhases as its comments tell it.  Module Reconciler is   *)
(* shown to implement it (ReconcilerInvariant!RefinesLifecycle).           *)
(***************************************************************************)
VARIABLES
    managedOCS,       \* "absent", "installed" or "terminating"
    storageCluster,   \* the StorageCluster exists
    operator,         \* the CSV of ocs-operator exists
    deployer,         \* the CSV of the deployer exists
    requested         \* the addon's removal was asked for

lifecycleVars == <<managedOCS, storageCluster, operator, deployer, requested>>

LifecycleInit ==
    /\ managedOCS = "absent" /\ storageCluster = FALSE
    /\ operator = TRUE /\ deployer = TRUE /\ requested = FALSE

Request ==
    /\ requested' = TRUE
    /\ UNCHANGED <<managedOCS, storageCluster, operator, deployer>>

\* ensureManagedOCS
Install ==
    /\ deployer /\ managedOCS = "absent"
    /\ managedOCS' = "installed"
    /\ UNCHANGED <<storageCluster, operator, deployer, requested>>

\* A StorageCluster is only created for a ManagedOCS that stays.
Provision ==
    /\ managedOCS = "installed"
    /\ storageCluster' = TRUE
    /\ UNCHANGED <<managedOCS, operator, deployer, requested>>

\* The uninstall starts on request and from a complete installation.
BeginUninstall ==
    /\ requested /\ managedOCS = "installed" /\ storageCluster
    /\ managedOCS' = "terminating"
    /\ UNCHANGED <<storageCluster, operator, deployer, requested>>

\* "Storage cluster needs to be deleted before we delete the CSV": it goes while
\* the operator that cleans up after it still runs.
Deprovision ==
    /\ managedOCS = "terminating" /\ operator
    /\ storageCluster' = FALSE
    /\ UNCHANGED <<managedOCS, operator, deployer, requested>>

RetireOperator ==
    /\ managedOCS = "terminating" /\ ~storageCluster
    /\ operator' = FALSE
    /\ UNCHANGED <<managedOCS, storageCluster, deployer, requested>>

\* The finalizer is taken off when nothing is left to clean up.
Finalize ==
    /\ managedOCS = "terminating" /\ ~storageCluster /\ ~operator
    /\ managedOCS' = "absent"
    /\ UNCHANGED <<storageCluster, operator, deployer, requested>>

\* removeOLMComponents: the deployer goes last.
RetireDeployer ==
    /\ requested /\ managedOCS = "absent" /\ ~storageCluster
    /\ deployer' = FALSE
    /\ UNCHANGED <<managedOCS, storageCluster, operator, requested>>

LifecycleNext ==
    \/ Request \/ Install \/ Provision \/ BeginUninstall
    \/ Deprovision \/ RetireOperator \/ Finalize \/ RetireDeployer

LifecycleSpec == LifecycleInit /\ [][LifecycleNext]_lifecycleVars
=============================================================================
