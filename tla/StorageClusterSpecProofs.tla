---------------------- MODULE StorageClusterSpecProofs ----------------------
(***************************************************************************)
(* The deployer never scales the StorageCluster down, for any parameters,  *)
(* any deployment type and any number of changes made by others.  What     *)
(* makes it true is that a copy the server would accept is the server's    *)
(* own object (Accurate); the comparison of setDeviceSetCount then is one  *)
(* with the count that is being overwritten.  Nor does it forget a change: *)
(* without a request in the queue, the worker has read what the caches     *)
(* hold (Followed); that is also why a spec edited by hand under strategy  *)
(* "none" is safe once the deployer has come to rest.                      *)
(***************************************************************************)
EXTENDS StorageClusterSpec, TLAPS

USE DEF serverVars, seenVars, ownVars

\* A copy that carries the server's current version is the server's object.
Accurate ==
    /\ scSeenFresh => scSeen = sc
    /\ pc = "update" /\ storageClusterFresh => storageCluster = sc

-----------------------------------------------------------------------------
\* The count the deployer asks for is a number: sizes divide into whole devices.
LEMMA DesiredCountIsInt == ASSUME NEW p \in Params PROVE DesiredCount(p) \in Int
<1>1. p.size \in Int
  BY ASizes DEF Params
<1>2. CeilDiv(p.size, ProviderOSDSizeInTiB) \in Int
  BY <1>1 DEF CeilDiv, ProviderOSDSizeInTiB
<1>3. QED
  BY <1>1, <1>2 DEF DesiredCount

\* Rounded up, the number of devices is enough.
LEMMA DesiredCountHoldsSize ==
    ASSUME NEW p \in Params, DeploymentType # "consumer",
           NEW count \in Int, count >= DesiredCount(p)
    PROVE  count * DeviceSizeInTiB >= p.size
<1>1. p.size \in Int
  BY ASizes DEF Params
<1>2. CASE DeploymentType = "provider"
  <2>1. DesiredCount(p) = -((-p.size) \div 4) /\ DeviceSizeInTiB = 4
    BY <1>2 DEF DesiredCount, CeilDiv, ProviderOSDSizeInTiB, DeviceSizeInTiB
  <2>2. \A k \in Int : k >= -((-p.size) \div 4) => k * 4 >= p.size
    BY <1>1
  <2>3. QED
    BY <2>1, <2>2
<1>3. CASE DeploymentType = "converged"
  BY <1>1, <1>3 DEF DesiredCount, DeviceSizeInTiB
<1>4. QED
  BY <1>2, <1>3, ASpecDeploymentType

\* setDeviceSetCount returns one of the two counts, and the larger one.
LEMMA DeviceSetCountIsLarger ==
    ASSUME NEW current \in Int, NEW desired \in Int
    PROVE  /\ DeviceSetCount(current, desired) \in {current, desired}
           /\ DeviceSetCount(current, desired) >= current
           /\ DeviceSetCount(current, desired) >= desired
  BY DEF DeviceSetCount

\* The mutate function makes a StorageCluster out of any copy, and one with at
\* least the copy's devices.
LEMMA DesiredKeepsDevices ==
    ASSUME SpecTypeOK
    PROVE  /\ Desired(storageCluster) \in StorageClusterObjects
           /\ DeploymentType # "consumer"
                => Desired(storageCluster).count >= storageCluster.count
<1>1. storageCluster.count \in Int /\ storageCluster \in StorageClusterObjects
  BY DEF SpecTypeOK, StorageClusterObjects
<1>2. DesiredCount(addonParams) \in Int /\ addonParams.mcg \in BOOLEAN
  BY DesiredCountIsInt DEF SpecTypeOK, Params
<1> DEFINE larger == DeviceSetCount(storageCluster.count, DesiredCount(addonParams))
<1>3. larger \in Int /\ larger >= storageCluster.count
  BY <1>1, <1>2, DeviceSetCountIsLarger
<1> HIDE DEF larger
<1>4. CASE reconcileStrategy = "none"
  <2>1. Desired(storageCluster) = [storageCluster EXCEPT !.exists = TRUE]
    BY <1>4 DEF Desired
  <2>2. /\ [storageCluster EXCEPT !.exists = TRUE] \in StorageClusterObjects
        /\ [storageCluster EXCEPT !.exists = TRUE].count = storageCluster.count
    BY <1>1 DEF StorageClusterObjects
  <2>3. QED
    BY <1>1, <2>1, <2>2
<1>5. CASE reconcileStrategy # "none"
  <2>1. Desired(storageCluster)
          = [exists |-> TRUE,
             count  |-> IF DeploymentType = "consumer" THEN 0 ELSE larger,
             mcg    |-> addonParams.mcg]
    BY <1>5, <1>2 DEF Desired, larger, EnsureMCG, TemplateMCG
  <2>2. QED
    BY <2>1, <1>2, <1>3 DEF StorageClusterObjects
<1>6. QED
  BY <1>4, <1>5

-----------------------------------------------------------------------------
\* The worker's steps keep the types.
LEMMA WorkerTypes == ASSUME SpecTypeOK, Worker PROVE SpecTypeOK'
<1>1. CASE BeginSpecReconcile
  BY <1>1 DEF BeginSpecReconcile, SpecTypeOK
<1>2. CASE ReadParams
  BY <1>2 DEF ReadParams, EndWith, SpecTypeOK
<1>3. CASE GetSpec
  BY <1>3 DEF GetSpec, EndWith, SpecTypeOK
<1>4. CASE CreateSpec
  <2>1. sc' \in StorageClusterObjects /\ scSeenFresh' \in BOOLEAN
    BY <1>4, DesiredKeepsDevices DEF CreateSpec, SpecTypeOK
  <2>2. pc' = "idle" /\ queued' \in BOOLEAN /\ UNCHANGED ownVars
    BY <1>4 DEF CreateSpec, EndWith, SpecTypeOK
  <2>3. QED
    BY <1>4, <2>1, <2>2 DEF CreateSpec, SpecTypeOK
<1>5. CASE UpdateSpec
  <2>1. sc' \in StorageClusterObjects /\ scSeenFresh' \in BOOLEAN
    BY <1>5, DesiredKeepsDevices DEF UpdateSpec, SpecTypeOK
  <2>2. pc' = "idle" /\ queued' \in BOOLEAN /\ UNCHANGED ownVars
    BY <1>5 DEF UpdateSpec, EndWith, SpecTypeOK
  <2>3. QED
    BY <1>5, <2>1, <2>2 DEF UpdateSpec, SpecTypeOK
<1>6. QED
  BY <1>1, <1>2, <1>3, <1>4, <1>5 DEF Worker

\* So do everybody else's.
LEMMA OthersTypes ==
    ASSUME SpecTypeOK, SyncParams \/ SyncStrategy \/ SyncSpec \/ OtherSpecEvent \/ Others
    PROVE  SpecTypeOK'
<1>1. Disturb => disturbances' \in 0 .. MaxDisturbances
  BY AMaxDisturbances DEF SpecTypeOK, Disturb
<1>2. NoCluster \in StorageClusterObjects
  BY DEF NoCluster, StorageClusterObjects
<1>3. CASE SyncParams \/ SyncStrategy \/ SyncSpec \/ OtherSpecEvent
  BY <1>3 DEF SyncParams, SyncStrategy, SyncSpec, OtherSpecEvent, SpecTypeOK
<1>4. CASE ChangeParams \/ ChangeStrategy
  BY <1>1, <1>4 DEF ChangeParams, ChangeStrategy, SpecTypeOK
<1>5. CASE WriteStorageCluster
  <2>1. sc' \in StorageClusterObjects
    BY <1>5, ASizes DEF WriteStorageCluster, SpecTypeOK, StorageClusterObjects
  <2>2. scSeenFresh' \in BOOLEAN /\ storageClusterFresh' \in BOOLEAN
    BY <1>5 DEF WriteStorageCluster, SpecWritten
  <2>3. QED
    BY <1>1, <1>5, <2>1, <2>2 DEF WriteStorageCluster, SpecTypeOK
<1>6. CASE LoseStorageCluster
  BY <1>1, <1>2, <1>6 DEF LoseStorageCluster, SpecWritten, SpecTypeOK
<1>7. CASE ReconcileFails
  BY <1>1, <1>7 DEF ReconcileFails, EndWith, SpecTypeOK
<1>8. CASE Restart
  BY <1>1, <1>8 DEF Restart, SpecTypeOK
<1>9. QED
  BY <1>3, <1>4, <1>5, <1>6, <1>7, <1>8 DEF Others

\* Every reachable state has its type.
THEOREM SpecTypeCorrect == SpecSpec => []SpecTypeOK
<1>1. InitSpec => SpecTypeOK
  <2>1. NoCluster \in StorageClusterObjects
    BY DEF NoCluster, StorageClusterObjects
  <2>2. "strict" \in Strategies /\ 0 \in 0 .. MaxDisturbances
    BY AMaxDisturbances DEF Strategies
  <2>3. QED
    BY <2>1, <2>2 DEF InitSpec, SpecTypeOK
<1>2. SpecTypeOK /\ [NextSpec]_specVars => SpecTypeOK'
  <2> SUFFICES ASSUME SpecTypeOK, [NextSpec]_specVars PROVE SpecTypeOK'
    OBVIOUS
  <2>1. CASE NextSpec
    BY <2>1, WorkerTypes, OthersTypes DEF NextSpec
  <2>2. CASE UNCHANGED specVars
    BY <2>2 DEF SpecTypeOK, specVars
  <2>3. QED
    BY <2>1, <2>2
<1>3. QED
  BY <1>1, <1>2, PTL DEF SpecSpec

\* No step leaves a copy that would be accepted although it is not the server's.
LEMMA StaysAccurate ==
    ASSUME SpecTypeOK, Accurate, [NextSpec]_specVars
    PROVE  Accurate'
<1>1. CASE BeginSpecReconcile
  BY <1>1 DEF BeginSpecReconcile, Accurate
<1>2. CASE ReadParams
  BY <1>2 DEF ReadParams, EndWith, Accurate
<1>3. CASE GetSpec
  BY <1>3 DEF GetSpec, EndWith, Accurate
<1>4. CASE CreateSpec
  BY <1>4 DEF CreateSpec, EndWith, Accurate
<1>5. CASE UpdateSpec
  BY <1>5 DEF UpdateSpec, EndWith, Accurate
<1>6. CASE SyncParams \/ SyncStrategy \/ SyncSpec \/ OtherSpecEvent
  BY <1>6 DEF SyncParams, SyncStrategy, SyncSpec, OtherSpecEvent, Accurate
<1>7. CASE ChangeParams \/ ChangeStrategy
  BY <1>7 DEF ChangeParams, ChangeStrategy, Accurate
<1>8. CASE WriteStorageCluster \/ LoseStorageCluster
  BY <1>8 DEF WriteStorageCluster, LoseStorageCluster, SpecWritten, Accurate
<1>9. CASE ReconcileFails
  BY <1>9 DEF ReconcileFails, EndWith, Accurate
<1>10. CASE Restart
  BY <1>10 DEF Restart, Accurate
<1>11. CASE UNCHANGED specVars
  BY <1>11 DEF specVars, Accurate
<1>12. QED
  BY <1>1, <1>2, <1>3, <1>4, <1>5, <1>6, <1>7, <1>8, <1>9, <1>10, <1>11
     DEF NextSpec, Worker, Others

\* The deployer never lowers the number of devices of a cluster it updates.
THEOREM ScalesUpOnly == SpecSpec => NeverScalesDown
<1>1. InitSpec => Accurate
  BY DEF InitSpec, Accurate
<1>2. SpecTypeOK /\ Accurate /\ [NextSpec]_specVars => Accurate'
  BY StaysAccurate
<1>3. SpecTypeOK /\ Accurate /\ [NextSpec]_specVars
        => (pc = "update" /\ pc' = "idle" /\ sc.exists /\ DeploymentType # "consumer"
              => sc'.count >= sc.count)
  <2> SUFFICES ASSUME SpecTypeOK, Accurate, [NextSpec]_specVars,
                      pc = "update", pc' = "idle", sc.exists,
                      DeploymentType # "consumer"
               PROVE  sc'.count >= sc.count
    OBVIOUS
  <2>1. sc.count \in Int
    BY DEF SpecTypeOK, StorageClusterObjects
  <2>2. CASE UpdateSpec
    <3>1. CASE sc' = sc
      BY <3>1, <2>1
    <3>2. CASE sc' # sc
      <4>1. sc' = Desired(storageCluster) /\ storageClusterFresh
        BY <2>2, <3>2 DEF UpdateSpec
      <4>2. storageCluster = sc
        BY <4>1 DEF Accurate
      <4>3. QED
        BY <4>1, <4>2, DesiredKeepsDevices
    <3>3. QED
      BY <3>1, <3>2
  <2>3. CASE sc' = sc
    BY <2>1, <2>3
  <2>4. CASE WriteStorageCluster \/ LoseStorageCluster
    BY <2>4 DEF WriteStorageCluster, LoseStorageCluster
  <2>5. QED
    BY <2>2, <2>3, <2>4
       DEF NextSpec, Worker, Others, BeginSpecReconcile, ReadParams, GetSpec, CreateSpec,
           SyncParams, SyncStrategy, SyncSpec, OtherSpecEvent, ChangeParams, ChangeStrategy,
           ReconcileFails, Restart, specVars
<1>4. QED
  BY <1>1, <1>2, <1>3, SpecTypeCorrect, PTL DEF SpecSpec, NeverScalesDown

-----------------------------------------------------------------------------
(***************************************************************************)
(* No change of the parameters, the strategy or the StorageCluster is      *)
(* forgotten                                                               *)
(***************************************************************************)
\* As long as no request is queued, the worker has read what the caches hold; and
\* when it waits, the StorageCluster, if the cache is right about it, is what they
\* ask for.
Followed ==
    /\ ~queued /\ pc # "idle" => reconcileStrategy = strategySeen
    /\ ~queued /\ pc \in {"get", "create", "update"} => addonParams = paramsSeen
    /\ ~queued /\ pc \in {"create", "update"} => storageCluster = scSeen
    /\ pc = "update" => storageCluster.exists
    /\ pc = "idle" /\ ~queued /\ scSeenFresh
         /\ paramsSeen.form = "wellFormed" /\ strategySeen = "strict"
         => /\ sc.exists
            /\ DeploymentType # "consumer" => HoldsSize(sc, paramsSeen)
            /\ paramsSeen.mcg => sc.mcg

\* An update that finds nothing to write has found what the parameters ask for.
LEMMA NothingToWrite ==
    ASSUME SpecTypeOK, reconcileStrategy = "strict",
           Desired(storageCluster) = storageCluster
    PROVE  /\ storageCluster.exists
           /\ DeploymentType # "consumer" => HoldsSize(storageCluster, addonParams)
           /\ addonParams.mcg => storageCluster.mcg
<1>1. storageCluster.count \in Int /\ DesiredCount(addonParams) \in Int
      /\ addonParams.mcg \in BOOLEAN
  BY DesiredCountIsInt DEF SpecTypeOK, StorageClusterObjects, Params
<1> DEFINE larger == DeviceSetCount(storageCluster.count, DesiredCount(addonParams))
<1>2. larger >= DesiredCount(addonParams)
  BY <1>1, DeviceSetCountIsLarger
<1> HIDE DEF larger
<1>3. storageCluster = [exists |-> TRUE,
                        count  |-> IF DeploymentType = "consumer" THEN 0 ELSE larger,
                        mcg    |-> addonParams.mcg]
  BY <1>1 DEF Desired, larger, EnsureMCG, TemplateMCG
<1>4. DeploymentType # "consumer" => storageCluster.count = larger
  BY <1>3
<1>5. DeploymentType # "consumer" => HoldsSize(storageCluster, addonParams)
  BY <1>1, <1>2, <1>4, DesiredCountHoldsSize DEF HoldsSize, SpecTypeOK
<1>6. QED
  BY <1>3, <1>5

\* Every step keeps Followed.
LEMMA StaysFollowed ==
    ASSUME SpecTypeOK, Accurate, Followed, [NextSpec]_specVars
    PROVE  Followed'
<1>1. CASE BeginSpecReconcile
  BY <1>1 DEF BeginSpecReconcile, Followed
<1>2. CASE ReadParams
  BY <1>2 DEF ReadParams, EndWith, Followed
<1>3. CASE GetSpec
  BY <1>3 DEF GetSpec, EndWith, Followed
<1>4. CASE CreateSpec
  BY <1>4 DEF CreateSpec, EndWith, Followed
<1>5. CASE UpdateSpec
  BY <1>5, NothingToWrite DEF UpdateSpec, EndWith, Followed, Accurate
<1>6. CASE SyncParams \/ SyncStrategy \/ SyncSpec \/ OtherSpecEvent
  BY <1>6 DEF SyncParams, SyncStrategy, SyncSpec, OtherSpecEvent, Followed
<1>7. CASE ChangeParams \/ ChangeStrategy
  BY <1>7 DEF ChangeParams, ChangeStrategy, Followed
<1>8. CASE WriteStorageCluster \/ LoseStorageCluster
  BY <1>8 DEF WriteStorageCluster, LoseStorageCluster, SpecWritten, Followed
<1>9. CASE ReconcileFails
  BY <1>9 DEF ReconcileFails, EndWith, Followed
<1>10. CASE Restart
  BY <1>10 DEF Restart, Followed
<1>11. CASE UNCHANGED specVars
  BY <1>11 DEF specVars, Followed
<1>12. QED
  BY <1>1, <1>2, <1>3, <1>4, <1>5, <1>6, <1>7, <1>8, <1>9, <1>10, <1>11
     DEF NextSpec, Worker, Others

\* When the worker waits with current caches, the StorageCluster is what the user
\* asked for, whatever changed while a reconcile ran.
THEOREM QuiescentApplied == SpecSpec => []QuiescentMeansApplied
<1>1. InitSpec => Accurate /\ Followed
  BY DEF InitSpec, Accurate, Followed
<1>2. SpecTypeOK /\ Accurate /\ [NextSpec]_specVars => Accurate'
  BY StaysAccurate
<1>3. SpecTypeOK /\ Accurate /\ Followed /\ [NextSpec]_specVars => Followed'
  BY StaysFollowed
<1>4. Followed => QuiescentMeansApplied
  BY DEF Followed, QuiescentMeansApplied, Applied
<1>5. QED
  BY <1>1, <1>2, <1>3, <1>4, SpecTypeCorrect, PTL DEF SpecSpec

\* The deployer does not overwrite a spec under strategy "none", once it has heard of
\* the strategy and has come to rest.
THEOREM NoneIsRespected == SpecSpec => NoneKeepsSpec
<1>1. InitSpec => Accurate /\ Followed
  BY DEF InitSpec, Accurate, Followed
<1>2. SpecTypeOK /\ Accurate /\ [NextSpec]_specVars => Accurate'
  BY StaysAccurate
<1>3. SpecTypeOK /\ Accurate /\ Followed /\ [NextSpec]_specVars => Followed'
  BY StaysFollowed
<1>4. SpecTypeOK /\ Followed /\ [NextSpec]_specVars
        => (pc = "update" /\ pc' = "idle" /\ sc' # sc /\ strategySeen = "none"
              => queued')
  <2> SUFFICES ASSUME SpecTypeOK, Followed, [NextSpec]_specVars,
                      pc = "update", pc' = "idle", sc' # sc, strategySeen = "none",
                      ~queued'
               PROVE  FALSE
    OBVIOUS
  <2>1. CASE UpdateSpec
    <3>1. Desired(storageCluster) # storageCluster /\ ~queued
      BY <2>1 DEF UpdateSpec, EndWith, SpecTypeOK
    <3>2. reconcileStrategy = "none" /\ storageCluster.exists
      BY <3>1 DEF Followed
    <3>3. storageCluster \in StorageClusterObjects /\ storageCluster.exists = TRUE
      BY <3>2 DEF SpecTypeOK, StorageClusterObjects
    <3>4. Desired(storageCluster) = storageCluster
      BY <3>2, <3>3 DEF Desired, StorageClusterObjects
    <3>5. QED
      BY <3>1, <3>4
  <2>2. QED
    BY <2>1
       DEF NextSpec, Worker, Others, BeginSpecReconcile, ReadParams, GetSpec, CreateSpec,
           SyncParams, SyncStrategy, SyncSpec, OtherSpecEvent, ChangeParams,
           ChangeStrategy, WriteStorageCluster, LoseStorageCluster, ReconcileFails,
           Restart, EndWith, specVars
<1>5. QED
  BY <1>1, <1>2, <1>3, <1>4, SpecTypeCorrect, PTL DEF SpecSpec, NoneKeepsSpec
=============================================================================
