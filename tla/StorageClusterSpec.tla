------------------------- MODULE StorageClusterSpec -------------------------
(***************************************************************************)
(* How the spec of the StorageCluster follows the addon's parameters:      *)
(* reconcileStorageCluster and the getDesired...StorageCluster functions,  *)
(* with the parameters, the reconcile strategy and the StorageCluster read *)
(* from caches while users and ocs-operator write them.                    *)
(*                                                                         *)
(* A write of the StorageCluster is refused unless it starts from the      *)
(* server's current version; "is current" is one BOOLEAN per copy, as in   *)
(* module Reconciler, which has the rest of the life of the StorageCluster *)
(* (its deletion, its owner, the uninstall).                               *)
(***************************************************************************)
EXTENDS Integers

CONSTANTS
    DeploymentType,   \* "converged", "consumer" or "provider"
    Sizes,            \* the numbers users may put into the parameter "size"
    MaxDisturbances   \* bound: changes by others, failed calls and restarts

ASSUME ASpecDeploymentType == DeploymentType \in {"converged", "consumer", "provider"}
ASSUME ASizes == Sizes \subseteq Int /\ Sizes # {}
ASSUME AMaxDisturbances == MaxDisturbances \in Nat

VARIABLES
    params, paramsSeen,        \* the addon's parameters secret, and the cache's
    strategy, strategySeen,    \* .spec.reconcileStrategy of the ManagedOCS
    sc, scSeen,                \* the StorageCluster
    scSeenFresh,
    pc, queued,
    reconcileStrategy,         \* r.reconcileStrategy
    addonParams,               \* r.addonParams
    storageCluster,            \* r.storageCluster
    storageClusterFresh,
    disturbances

serverVars == <<params, strategy, sc>>
seenVars   == <<paramsSeen, strategySeen, scSeen, scSeenFresh>>
ownVars    == <<reconcileStrategy, addonParams, storageCluster, storageClusterFresh>>
specVars   == <<serverVars, seenVars, pc, queued, ownVars, disturbances>>

-----------------------------------------------------------------------------
\* The secret: missing, with a value that does not parse (or is missing), or
\* well formed.  mcg is enable-mcg, "false" unless it is there.
Params == [form : {"absent", "malformed", "wellFormed"}, size : Sizes, mcg : BOOLEAN]

\* The strategy is "none" in any case, or anything else and means "strict".
Strategies == {"none", "strict"}

\* The fields of the spec that follow the parameters: the Count of the device
\* set called "default" (0: there is none) and whether MultiCloudGateway's
\* ReconcileStrategy is "manage".
StorageClusterObjects == [exists : BOOLEAN, count : Int, mcg : BOOLEAN]
NoCluster == [exists |-> FALSE, count |-> 0, mcg |-> FALSE]

ProviderOSDSizeInTiB == 4

\* math.Ceil of a division by a positive number
CeilDiv(a, b) == -((-a) \div b)

\* Mutant of DesiredCount: rounded down.
DesiredCountFloor(p) ==
    CASE DeploymentType = "converged" -> p.size
      [] DeploymentType = "provider"  -> p.size \div ProviderOSDSizeInTiB
      [] OTHER                        -> 0

DesiredCount(p) ==
    CASE DeploymentType = "converged" -> p.size
      [] DeploymentType = "provider"  -> CeilDiv(p.size, ProviderOSDSizeInTiB)
      [] OTHER                        -> 0

\* setDeviceSetCount
DeviceSetCount(current, desired) == IF current <= desired THEN desired ELSE current

\* ensureMCGDeployment sets "manage" or leaves what it is given.  It is given the
\* MCG of a copy of the template, which is "ignore".
TemplateMCG == FALSE
EnsureMCG(mcg, enabled) == IF enabled THEN TRUE ELSE mcg

\* The mutate function of CreateOrUpdate, applied to r.storageCluster: the
\* template's spec (MCG "ignore") with the two fields set, or what is there.
Desired(cluster) ==
    IF reconcileStrategy = "none"
      THEN [cluster EXCEPT !.exists = TRUE]
      ELSE [exists |-> TRUE,
            count  |-> IF DeploymentType = "consumer" THEN 0
                       ELSE DeviceSetCount(cluster.count, DesiredCount(addonParams)),
            mcg    |-> EnsureMCG(TemplateMCG, addonParams.mcg)]

\* The errors of the mutate function
ParamsRefused == reconcileStrategy = "strict" /\ addonParams.form = "malformed"

-----------------------------------------------------------------------------
\* The end of a reconcile; an error puts the request back.
EndWith(error) ==
    /\ pc' = "idle" /\ queued' = (queued \/ error)
    /\ UNCHANGED ownVars

\* Mutant of BeginSpecReconcile: the default of the strategy is forgotten.
BeginSpecReconcileRaw ==
    /\ pc = "idle" /\ queued
    /\ pc' = "readParams" /\ queued' = FALSE
    /\ reconcileStrategy' = IF strategySeen = "none" THEN "none" ELSE ""
    /\ UNCHANGED <<serverVars, seenVars, addonParams, storageCluster,
                   storageClusterFresh, disturbances>>

\* Mutant of BeginSpecReconcile: the strategy is the one of an earlier reconcile.
BeginSpecReconcileKept ==
    /\ pc = "idle" /\ queued
    /\ pc' = "readParams" /\ queued' = FALSE
    /\ UNCHANGED <<serverVars, seenVars, ownVars, disturbances>>

\* Start of reconcilePhases: the ManagedOCS is read, and with it the strategy.
BeginSpecReconcile ==
    /\ pc = "idle" /\ queued
    /\ pc' = "readParams" /\ queued' = FALSE
    /\ reconcileStrategy' = strategySeen
    /\ UNCHANGED <<serverVars, seenVars, addonParams, storageCluster,
                   storageClusterFresh, disturbances>>

ReadParams ==
    /\ pc = "readParams"
    /\ IF paramsSeen.form = "absent"
         THEN EndWith(TRUE)
         ELSE /\ pc' = "get"
              /\ addonParams' = paramsSeen
              /\ UNCHANGED <<queued, reconcileStrategy, storageCluster,
                             storageClusterFresh>>
    /\ UNCHANGED <<serverVars, seenVars, disturbances>>

\* The Get of CreateOrUpdate, and the errors of its mutate function.
GetSpec ==
    /\ pc = "get"
    /\ IF ParamsRefused
         THEN EndWith(TRUE)
         ELSE /\ pc' = IF scSeen.exists THEN "update" ELSE "create"
              /\ storageCluster' = scSeen
              /\ storageClusterFresh' = scSeenFresh
              /\ UNCHANGED <<queued, reconcileStrategy, addonParams>>
    /\ UNCHANGED <<serverVars, seenVars, disturbances>>

CreateSpec ==
    /\ pc = "create"
    /\ IF sc.exists
         THEN EndWith(TRUE) /\ UNCHANGED <<sc, scSeenFresh>>
         ELSE /\ sc' = Desired(storageCluster)
              /\ scSeenFresh' = FALSE
              /\ EndWith(FALSE)
    /\ UNCHANGED <<params, strategy, paramsSeen, strategySeen, scSeen, disturbances>>

\* Mutant of UpdateSpec: the Update carries no resourceVersion.
UpdateSpecBlind ==
    /\ pc = "update"
    /\ IF sc.exists
         THEN /\ sc' = Desired(storageCluster)
              /\ scSeenFresh' = FALSE
              /\ EndWith(FALSE)
         ELSE EndWith(TRUE) /\ UNCHANGED <<sc, scSeenFresh>>
    /\ UNCHANGED <<params, strategy, paramsSeen, strategySeen, scSeen, disturbances>>

\* Nothing is written when nothing changes; a stale copy is a conflict.
UpdateSpec ==
    /\ pc = "update"
    /\ IF Desired(storageCluster) = storageCluster
         THEN EndWith(FALSE) /\ UNCHANGED <<sc, scSeenFresh>>
         ELSE IF storageClusterFresh
                THEN /\ sc' = Desired(storageCluster)
                     /\ scSeenFresh' = FALSE
                     /\ EndWith(FALSE)
                ELSE EndWith(TRUE) /\ UNCHANGED <<sc, scSeenFresh>>
    /\ UNCHANGED <<params, strategy, paramsSeen, strategySeen, scSeen, disturbances>>

Worker == BeginSpecReconcile \/ ReadParams \/ GetSpec \/ CreateSpec \/ UpdateSpec

-----------------------------------------------------------------------------
(***************************************************************************)
(* Informers.  All three kinds of object queue the request: the secret by  *)
(* its name, the ManagedOCS because its generation changed, the            *)
(* StorageCluster because it is owned.                                     *)
(***************************************************************************)
\* Mutant of SyncParams: an event that comes while the worker is busy is dropped.
SyncParamsWhenIdle ==
    /\ paramsSeen # params
    /\ paramsSeen' = params /\ queued' = (queued \/ pc = "idle")
    /\ UNCHANGED <<serverVars, strategySeen, scSeen, scSeenFresh, pc, ownVars,
                   disturbances>>

SyncParams ==
    /\ paramsSeen # params
    /\ paramsSeen' = params /\ queued' = TRUE
    /\ UNCHANGED <<serverVars, strategySeen, scSeen, scSeenFresh, pc, ownVars,
                   disturbances>>

SyncStrategy ==
    /\ strategySeen # strategy
    /\ strategySeen' = strategy /\ queued' = TRUE
    /\ UNCHANGED <<serverVars, paramsSeen, scSeen, scSeenFresh, pc, ownVars,
                   disturbances>>

\* Mutant of SyncSpec: the StorageCluster is not watched.
SyncSpecUnwatched ==
    /\ ~scSeenFresh
    /\ scSeen' = sc /\ scSeenFresh' = TRUE
    /\ UNCHANGED <<serverVars, paramsSeen, strategySeen, pc, queued, ownVars,
                   disturbances>>

SyncSpec ==
    /\ ~scSeenFresh
    /\ scSeen' = sc /\ scSeenFresh' = TRUE /\ queued' = TRUE
    /\ UNCHANGED <<serverVars, paramsSeen, strategySeen, pc, ownVars, disturbances>>

\* Anything else that is owned or watched, and the periodic resync.
OtherSpecEvent ==
    /\ ~queued /\ queued' = TRUE
    /\ UNCHANGED <<serverVars, seenVars, pc, ownVars, disturbances>>

-----------------------------------------------------------------------------
Disturb == disturbances < MaxDisturbances /\ disturbances' = disturbances + 1

\* Another client wrote the StorageCluster.
SpecWritten == scSeenFresh' = FALSE /\ storageClusterFresh' = FALSE

\* The user changes the parameters in the OCM console.
ChangeParams ==
    /\ Disturb
    /\ params' \in Params
    /\ UNCHANGED <<strategy, sc, seenVars, pc, queued, ownVars>>

ChangeStrategy ==
    /\ Disturb
    /\ strategy' \in Strategies
    /\ UNCHANGED <<params, sc, seenVars, pc, queued, ownVars>>

\* A user edits the spec by hand (allowed under strategy "none"), or
\* ocs-operator writes the status or a finalizer.
WriteStorageCluster ==
    /\ sc.exists /\ Disturb
    /\ \E size \in Sizes, enabled \in BOOLEAN :
          sc' \in {sc, [sc EXCEPT !.count = size], [sc EXCEPT !.mcg = enabled]}
    /\ SpecWritten
    /\ UNCHANGED <<params, strategy, paramsSeen, strategySeen, scSeen, pc, queued,
                   reconcileStrategy, addonParams, storageCluster>>

LoseStorageCluster ==
    /\ sc.exists /\ Disturb
    /\ sc' = NoCluster
    /\ SpecWritten
    /\ UNCHANGED <<params, strategy, paramsSeen, strategySeen, scSeen, pc, queued,
                   reconcileStrategy, addonParams, storageCluster>>

\* Any call of the reconcile, this one's or a later one's, fails.
ReconcileFails ==
    /\ pc # "idle" /\ Disturb
    /\ EndWith(TRUE)
    /\ UNCHANGED <<serverVars, seenVars>>

\* The pod restarts: the caches are filled anew before the worker starts.
Restart ==
    /\ Disturb
    /\ pc' = "idle" /\ queued' = TRUE
    /\ paramsSeen' = params /\ strategySeen' = strategy
    /\ scSeen' = sc /\ scSeenFresh' = TRUE
    /\ UNCHANGED <<serverVars, ownVars>>

Others == \/ ChangeParams \/ ChangeStrategy \/ WriteStorageCluster
          \/ LoseStorageCluster \/ ReconcileFails \/ Restart

-----------------------------------------------------------------------------
\* The pod has just started with whatever parameters there are.
InitSpec ==
    /\ params \in Params /\ paramsSeen = params
    /\ strategy = "strict" /\ strategySeen = "strict"
    /\ sc = NoCluster /\ scSeen = NoCluster /\ scSeenFresh = TRUE
    /\ pc = "idle" /\ queued = TRUE
    /\ reconcileStrategy = "strict" /\ addonParams = params
    /\ storageCluster = NoCluster /\ storageClusterFresh = FALSE
    /\ disturbances = 0

NextSpec ==
    Worker \/ SyncParams \/ SyncStrategy \/ SyncSpec \/ OtherSpecEvent \/ Others

SpecSpec == InitSpec /\ [][NextSpec]_specVars

\* The manager keeps its worker and its informers going.
FairSpecSpec ==
    /\ SpecSpec
    /\ WF_specVars(Worker)
    /\ WF_specVars(SyncParams) /\ WF_specVars(SyncStrategy) /\ WF_specVars(SyncSpec)

-----------------------------------------------------------------------------
SpecTypeOK ==
    /\ params \in Params /\ paramsSeen \in Params /\ addonParams \in Params
    /\ strategy \in Strategies /\ strategySeen \in Strategies
    /\ reconcileStrategy \in Strategies
    /\ sc \in StorageClusterObjects /\ scSeen \in StorageClusterObjects
    /\ storageCluster \in StorageClusterObjects
    /\ scSeenFresh \in BOOLEAN /\ storageClusterFresh \in BOOLEAN
    /\ pc \in {"idle", "readParams", "get", "create", "update"} /\ queued \in BOOLEAN
    /\ disturbances \in 0 .. MaxDisturbances

\* A write of the deployer never lowers the number of storage devices of a
\* cluster that has any, however old the cached cluster is that it compares the
\* parameter with ("Prevent downscaling by comparing count from secret and count
\* from storage cluster").
NeverScalesDown ==
    [][pc = "update" /\ pc' = "idle" /\ sc.exists /\ DeploymentType # "consumer"
         => sc'.count >= sc.count]_specVars

\* A user who has set the strategy to "none" may edit the spec by hand: the deployer
\* does not overwrite it any more, but for the reconcile during which it hears of the
\* change, and then another one is queued.  So whoever waits until the deployer has
\* heard and come to rest loses nothing.
NoneKeepsSpec ==
    [][pc = "update" /\ pc' = "idle" /\ sc' # sc /\ strategySeen = "none"
         => queued']_specVars

\* The storage devices hold as much as the addon's parameter "size" asks for, in TiB;
\* those of the converged template request 1 TiB each.
DeviceSizeInTiB == IF DeploymentType = "provider" THEN ProviderOSDSizeInTiB ELSE 1
HoldsSize(cluster, p) == cluster.count * DeviceSizeInTiB >= p.size

\* What the user asked for is in the StorageCluster's spec: the storage, and MCG when
\* it is enabled.  (That MCG goes away when it is no longer enabled is not asked for,
\* see MCGStaysEnabled.)
Applied ==
    params.form = "wellFormed" /\ strategy = "strict" =>
      /\ sc.exists
      /\ DeploymentType # "consumer" => HoldsSize(sc, params)
      /\ params.mcg => sc.mcg

\* No change is forgotten: when the worker waits, the queue is empty and the caches are
\* current, the StorageCluster is as asked for, whichever of the parameters, the
\* strategy and the StorageCluster changed while a reconcile ran on older copies.
QuiescentMeansApplied ==
    pc = "idle" /\ ~queued /\ paramsSeen = params /\ strategySeen = strategy /\ scSeenFresh
      => Applied

\* Once users, operators and failures leave it alone, the deployer brings the
\* StorageCluster to what was asked for and keeps it there.
EventuallyApplied == <>[]Applied

\* "should not change storagecluster's MCG reconcile strategy to 'ignore' or
\* 'standalone'" once it is "manage": the test of the reconciler says so.
MCGStaysEnabled ==
    [][pc = "update" /\ pc' = "idle" /\ sc.exists /\ sc.mcg => sc'.mcg]_specVars
=============================================================================
