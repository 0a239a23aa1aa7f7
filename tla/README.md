# The OCS OSD deployer in TLA+

The deployer (`src/controllers/managedocs_controller.go`, `src/main.go`) installs OpenShift
Container Storage as an OpenShift Dedicated addon: it creates a `StorageCluster`, a monitoring
stack, network policies and some configuration from one custom resource, `ManagedOCS`, keeps
them as they should be, and takes them (and at last itself) away when the addon is removed.
It is one controller-runtime manager with one worker. What makes it hard is not concurrency
between its own threads but that it decides on caches which trail the API server, next to
operators, users and restarts that change the server at any moment.

- [Inventory](#inventory)
- [Plan](#plan)
- [Modules and code](#modules-and-code)
- [Runs](#runs)
- [Findings](#findings)
- [Proofs](#proofs)
- [What is not modelled](#what-is-not-modelled)

To check: `tlc -config MCUsers.cfg Reconciler` (the modules are in `PROJECT.json` next to the
names of the runs), `tlapm UninstallProofs.tla`.

## Inventory

| Component | State | Operations | Interacts with |
|---|---|---|---|
| Reconcile loop, `Reconcile` and `reconcilePhases` | the reconciler's fields, reset by `initReconciler` at every call; on the server: the ManagedOCS, its finalizer and status | one reconcile: uninstall condition, component status, one of three branches (deleting, installed, absent), status update | API server (writes), informer caches (reads), work queue |
| Start, `main`, `ensureManagedOCS` | none that survives | creates the ManagedOCS, then starts the caches and the worker | API server |
| Watches, `SetupWithManager` | work queue with at most the one request | an event of a watched type passes a predicate or not and queues the request | every other component wakes the loop through it |
| Spec of the StorageCluster, `reconcileStorageCluster` and `getDesired*` | the object on the server | CreateOrUpdate from template and parameters | parameters secret, reconcile strategy, ocs-operator |
| OLM objects, `reconcileODFSubscription`, `reconcileCSV` | channel of a subscription, resources in the CSVs | compare and update | OLM installs, upgrades and deletes CSVs |
| Egress rules, `reconcileEgressFirewall`, `reconcileEgressNetworkPolicy` | two policies | CreateOrUpdate from secrets and ConfigMap | DMS and SMTP secrets, ConfigMap `aws-data` |
| AWS data gatherer, `cmd/awsDataGather` | backoff, ConfigMap `aws-data` | fetch from IMDS, save, sleep | IMDS, API server, deployer (through the ConfigMap) |
| Uninstall check, `hasOCSVolumes`, `hasOCSStorageConsumers` | none | two lists of the server, or one of the cache | users of the storage |
| Readiness probe, `readinessProbe` | none | reads the stored status | status of the ManagedOCS |
| Monitoring stack, `reconcilePrometheus` to `reconcileDMSPrometheusRule` | Prometheus, Alertmanager, configuration, rules, monitors | CreateOrUpdate each, label every monitor in the namespace | secrets, deployer's CSV, programs that make monitors, the StatefulSets' readiness |
| Ingress policies, KMS, onboarding secret, OCSInitialization, rook ConfigMap | one object each | CreateOrUpdate each; the last two are only adjusted | parameters secret, ocs-operator, rook |
| Utilities, templates, generated code | none | pure | |

What is hard about each, and what would make it correct:

- **Loop.** Every decision is made on a cache or on a copy read earlier in the reconcile.
  Writes are refused when the copy is stale; every call may fail; the pod may restart between
  any two. The order *StorageCluster, CSV of ocs-operator, finalizer, deployer's CSV* must
  survive all that; the uninstall must start only from a ready, unused installation; it must
  end; no wakeup may get lost; the stored status must be true in the end.
- **Start.** `ensureManagedOCS` does not know whether an uninstall is under way.
- **Watches.** A predicate decides which change is noticed. Volumes and consumers are not
  watched and need `RequeueAfter`.
- **Spec of the StorageCluster.** "Current" and "desired" are read at different moments:
  the cluster must never be scaled down, and what was asked for must be reached.
- **OLM objects.** A loop over a list while OLM writes and replaces the listed objects.
- **Monitoring and single objects.** Twenty steps in a row, of which the first that fails ends
  the reconcile; the loops over monitors rewrite objects of other programs, with copies from
  a cache, and wake the worker by their own writes; the deployer's own rule is made after
  the loop that would label it.
- **Egress rules and gatherer.** A pipeline of two processes and two caches that must bring
  the latest data through, with a first-match rule list whose order matters, and a backoff.

## Plan

In the order of their importance.

1. `Lifecycle` (the promise) and `Reconciler` (the loop, its caches, its queue, crashes,
   failures, the cluster around it); `ReconcilerInvariant` with the inductive invariant and
   the refinement; proofs of type, order, refinement, and of what holds whatever users do.
2. `StorageClusterSpec`, with the proofs that it scales up only, applies what was asked for and
   leaves the spec to the users under strategy "none".
3. `OLMResources`, with the proof that no wakeup for a CSV of ocs-operator is lost.
4. `EgressRules` with the gatherer, and the proofs of its type, its backoff and its policies.
5. `ManagedResources`, the monitoring stack and the objects of one step each, with the proofs
   that nothing of other programs is taken back and that everything gets applied.
6. `QuiescenceProofs`: no wakeup of the loop in `Reconciler` is lost.
7. Perhaps: the composition of the uninstall with an upgrade, where two CSVs of ocs-operator
   exist and `getCSVByPrefix` returns the first that comes; and an abstract specification of
   what the gatherer and the egress rules promise together.

All but the last are there.

Modules that are proved about use no RECURSIVE operator. Each component has its own
instance of the same picture: server, cache with one BOOLEAN "is current" per copy, and
worker. They are separate modules because they share only the queue's wakeups: `Reconciler`
abstracts from the others in its steps `getStorageCluster` to `resources`, and the others
abstract from it by letting any reconcile fail at any point and any other event queue one.

## Modules and code

`PROJECT.json`, key `map`, has the lines of every definition. `external` marks what is not in
this repository: API server, garbage collector, OLM, ocs-operator, users.

**`Reconciler`.** `mo`, `sc`, `csvs`, `systems` are objects on the API server; `moSeen`,
`scSeen`, `csvSeen`, `systemsSeen`, `consumersSeen` the informer caches that `mgr.GetClient()`
reads. Caches of different types are not ordered. That of the StorageConsumers is filled by the
first list (nothing watches them, so no informer is started before) and hears of one change after
the other: `consumersSeen` is `<< >>` before that list, and then what the cache holds (whether
there are any) followed by what the list on the server has become since, event by event. Instead of resource versions, one BOOLEAN per copy says whether
it is the server's current version (`moSeenFresh`, `objFresh`, ...): a write from a copy that is
not is a conflict. `obj` is `r.managedOCS`, `scObj` is `r.storageCluster`, and `pc` names the
next call of the reconcile. Each call that reads a cache or reaches the server is one action, so
everything else may happen between two of them. Three details matter and are easy to miss: the
`Update` that adds the finalizer decodes the server's answer into `r.managedOCS` and so replaces
the status just computed (`AddFinalizer`); `updateComponentStatus` has loaded a resourceVersion
into `r.storageCluster` that a later create may still carry (`CreateStorageCluster`); the get
after the delete reads the cache (`RefreshManagedOCS`). `ReconcileResources` stands for all
steps between StorageCluster and uninstall; `CallFails` is any error in any call. `Ages` tells
storage that was in use before the current reconcile from storage claimed during it; a
StorageConsumer is "old" only if, by then, its event had reached the cache or the cache was yet
to be filled. Objects of
ocs-operator, odf-operator, garbage collector, OLM and users change by the actions of
`Operators` and `Users`.

**`Lifecycle`.** The same with no cache, queue, crash or error: five variables, eight steps.

**`ReconcilerInvariant`.** `SafetyInv` and the refinement mapping
`L == INSTANCE Lifecycle WITH ...`.

**`StorageClusterSpec`.** The parameters secret (absent, malformed, well formed), the reconcile
strategy, and the two fields of the spec that follow them: the device set's count and
MultiCloudGateway. `BeginSpecReconcile` reads the strategy, `ReadParams` the secret, `GetSpec`
the StorageCluster, `CreateSpec` and `UpdateSpec` write: five moments at which something may have
changed. `DesiredCount` has the rounding to devices of 4 TiB. Under strategy "none" an existing spec is
left as it is.

**`OLMResources`.** The subscription's channel and the CSVs of two operators in up to
`MaxVersion` versions, each "shipped" or "tuned". OLM installs the next version beside the old
one and removes the old one later, as its upgrades do.

**`ManagedResources`.** `Steps` is the row of calls in `reconcilePhases`, `pc` the place in it.
A step reads its sources and its object from caches and creates or updates the object
(`VisitOwned`, `Put`), or adjusts what another program has made (`VisitAdjusted`), or labels
every monitor of a kind (`ListMonitors`, `LabelMonitor`, `FinishMonitors`). The content of an
object is the set of entries the deployer puts into it: those copied from secrets,
parameters (`Addresses`: the row of e-mail keys ends at the first gap) and a CSV, and one
entry for the constant rest of a template. Only the CSV's image is a choice: the cache lists
in no order, and two CSVs of the deployer exist while OLM upgrades it. `Passes` has the
predicates: what the deployer owns always wakes it, monitors of others only without the label.
`MCManagedResources` gives the sources their values.

**`EgressRules`.** The gatherer's loop (`Fetch`, `GetAWSData`, `SaveAWSData`, with its copy of
the ConfigMap and its backoff) and the deployer's (`LoadSecrets`, then `PreparePolicy` and
`WritePolicy`, or `SkipPolicy`, for each of the two policies). An answer of IMDS is a sequence
of lines. The newlines become semicolons and are split again, empty items (`emptyLine`) dropped
(`CIDRList`, a recursive function so that the provers can look into it).
The HTTP status of the answer is not looked at, so an error page is an answer
(`FetchErrorPage`). `Permitted` is how the cluster reads a list of rules. `failures` is a
history variable of the property `SleepFollowsFailures`, and `Doubled` its 1, 2, 4...; its only use in an action is the bound
in `GatherFails`. `MCEgressRules` gives the answers, which a configuration cannot write.

## Runs

Passing:

| Run | Instance | Shows |
|---|---|---|
| `MCUninstallOrder` | converged, users leave deletion to the deployer; one failing call, one crash, one change by others | `TypeOK`, `SafetyInv` (the inductive invariant), `RefinesLifecycle`, `StorageClusterBeforeCSV`, `UsedStorageBlocksUninstall`, `DeletesOnlyWhenReady`, `QuiescentMeansUninstalling` (no wakeup of an uninstall is lost), `QuiescentMeansStatusStored` (stored status and readiness probe are true) |
| `MCUsers` | provider, all user actions, failing reads; one fault, crash, change | `NoOrphanedManagedOCS`, `UsedStorageBlocksUninstall` (for consumers the cache can know of), `QuiescentMeansInstalled` (no wakeup of an installation is lost) |
| `MCUninstallCompletes` | provider, one crash and change, fairness | `UninstallCompletesUnlessStranded`, `InstallCompletes` |
| `MCStorageClusterSpec` | provider, sizes 4 and 5 (one and two devices), three disturbances, fairness | `SpecTypeOK`, `QuiescentMeansApplied` (no wakeup of a changed parameter is lost), `NeverScalesDown`, `NoneKeepsSpec` (a user's own spec is safe once the deployer has settled on strategy "none"), `EventuallyApplied` |
| `MCOLMResources` | two versions of two operators, three disturbances, fairness | `OLMTypeOK`, `QuiescentMeansTuned`, `EventuallyTuned` |
| `MCEgressRules` | a provider on OVN, two hosts for DMS, two answers of IMDS, two disturbances, three failed attempts in a row, fairness | `EgressTypeOK`, `QuiescentMeansPermitted`, `SleepFollowsFailures`, `EventuallyReachable` |
| `MCManagedResources` | a provider, one rule of another program, the steps of Prometheus, Alertmanager configuration, both rules' and rook's; two disturbances, fairness | `ManagedTypeOK`, `QuiescentMeansMonitored`, `KeepsMonitors`, `EventuallyMonitored` |

`Applied`, in two of these properties, asks for devices that *hold* the size (`HoldsSize`, which
knows nothing of `DesiredCount`: rounded down they would not) and for MCG when it is enabled. It
does not ask that MCG goes when it is no longer enabled: the repository's test asks for the
opposite, and finding 4 is that the code does not do so.

`UsedStorageBlocksUninstall` does not cover all consumers on the server. One that is onboarded
while its event is on the way to a filled cache is missed, and the uninstall starts: were such a
consumer "old" as well, `MCUsers` would find that. No text of the repository promises more.

Violated, each stating what a comment or test says (see [Findings](#findings)):
`MCUserDelete`, `MCRestart`, `MCStripFinalizer`, `MCDisableMCG`, `MCChannel`.

**Bounds.** `MaxFaults`, `MaxRestarts`, `MaxChurn`, `MaxDisturbances` count what comes from
outside; each may happen at any point of any reconcile. What the deployer, its informers and
the operators do by themselves is unbounded: reconciles repeat, caches lag and catch up
without limit (`uids` grows only with a re-creation, and thus with restarts and deletions). One
fault, one crash and one change of each kind is enough to have every pair of them meet between any
two calls; the disturbances of the smaller modules are two or three of any kind. All safety
properties of the passing runs are proved for all bounds, so that the bounds matter for the
liveness properties only. `MaxSleep = 3` and
`MaxFailures = 3` reach the cap of the backoff: waits 1, 2, 3 instead of 1, 2, 4. Sizes 4 and
5 lie on the two sides of the rounding. `Available` has one policy because clusters have one
of the two CRDs (SDN or OVN), and so the skipped step is checked as well.

`MCManagedResources` keeps the steps whose content follows something, one constant object
(`dmsRule`, which is labelled as well) and one adjusted object, and leaves out (`Left`) the
others, which do what `dmsRule` does, and the loops over the other two kinds of monitors. Its
secrets have two values each (three entries of e-mail addresses, with an empty one or a gap in
the middle; a secret that is missing), the deployer one CSV or two. `MCUninstallOrder` and
`MCUninstallCompletes` have no failing reads: a read of the StorageCluster or of the addon's
ConfigMap that fails is taken for the state Unknown, or for no uninstall requested, and ends in
no error, so that an uninstall may then wait for the next event. `MCUsers` has such reads, and
in `MCStripFinalizer` and `MCUsers` users strip the finalizer; finding 3 is why the stored
status is not claimed there.

**Fairness.** Weak, and only on what the code and the platform do by themselves: the worker
takes the next call and the next queued request (a rate limiter delays, it never drops);
informers deliver, that of the StorageConsumers included; a pod whose CSV exists is restarted; OLM stops one whose CSV is gone;
ocs-operator finishes what it was asked; the gatherer's sleeps end; users give back their
volumes in `MCUninstallCompletes` (the promise makes no sense otherwise). No fairness for
crashes, failures, users' edits or `OtherEvent`: nothing is shown by relying on a lucky event.
The exception is `MCOLMResources`, whose liveness property is about what only the resync of the
informers repairs (every ten hours, the default of controller-runtime, which `main` does not
change). In `ManagedResources` each object has an informer with a fairness of its own: while two
CSVs of the deployer exist the loop may write Prometheus over and over, and a shared fairness
would let the informer of Prometheus starve the others. In `EgressRules` the gatherer may fail
up to `MaxFailures` times in a row, over and over.

**Deadlock.** Checked in all modules but one. Switched off
for `Reconciler`: a system whose deployer has uninstalled itself stops, as it should.

**Mutants.** Next to an action or operator stands a definition named after it with the defect
a plausible edit would introduce (`EndReconcileLogged`, `ListStorageClassesExact`,
`UpdateSpecBlind`, `EndEgressKept`, ...). In its place, the run that `PROJECT.json` names
finds the property violated. No specification uses these definitions.

## Findings

1. **A delete right after the creation** (`MCUserDelete`). "Storage cluster needs to be deleted before we delete
   the CSV", says the comment. When a user deletes the ManagedOCS before the cache has seen a
   StorageCluster that was just created, it counts as NotFound, and the CSV and the finalizer
   go first.
2. **A restart in the uninstall** (`MCRestart`). Between the removal of the finalizer and that
   of the deployer's CSV a restart runs `ensureManagedOCS` again. The new ManagedOCS gets a
   StorageCluster which, without ocs-operator, never becomes ready: the uninstall never ends.
3. **Adding the finalizer back** (`MCStripFinalizer`). The update's answer replaces the
   component states of this reconcile by the stored ones, and the uninstall is decided on those.
4. **Switching MCG off** (`MCDisableMCG`). `ensureMCGDeployment` looks at the template's copy,
   never at the existing StorageCluster, and the whole spec is overwritten.
5. **The subscription's predicate** (`MCChannel`) is the negation of what its comment says.

Not counted as findings, since no text of the repository promises otherwise, but visible in
the models: StorageSystems may stay when their delete failed and the StorageCluster is gone by
the next reconcile; a new CSV of mcg-operator queues no reconcile; nor does a new CSV of the
deployer, so that Prometheus keeps the old image of kube-rbac-proxy, or changes between two
images while both CSVs exist; a missing secret of the alerting services ends every reconcile
before the check for an uninstall, and so blocks that as well; volumes whose StorageClass
was deleted do not stop an uninstall; an error page of IMDS becomes an egress rule until the
gatherer's next attempt.

## Proofs

Checked by TLAPS for all values of the constants (within the named assumptions):

| Theorem | States |
|---|---|
| `ReconcilerProofs!TypeCorrect` | `Spec => []TypeOK` |
| `UninstallProofs!SafetyCorrect` | `UserActions = {}`: `Spec => []SafetyInv` |
| `UninstallProofs!UninstallOrder` | `UserActions = {}`: `Spec => StorageClusterBeforeCSV` |
| `UninstallProofs!ImplementsLifecycle` | `UserActions = {}`: `Spec => RefinesLifecycle` |
| `UserProofs!DeployerGoesLast` | `Spec => []NoOrphanedManagedOCS` |
| `UserProofs!UseBlocksUninstall` | `Spec => UsedStorageBlocksUninstall` |
| `UserProofs!DecidesOnItsOwnStatus` | nobody strips the finalizer: `Spec => DeletesOnlyWhenReady` |
| `QuiescenceProofs!QuiescentInstalled` | `Spec => []QuiescentMeansInstalled` |
| `QuiescenceProofs!QuiescentStatusStored` | no unnoticed read failures, nobody strips the finalizer: `Spec => []QuiescentMeansStatusStored` |
| `QuiescenceProofs!UninstallAlwaysGoesOn` | the same: `Spec => []UninstallGoesOn` |
| `QuiescenceProofs!QuiescentUninstalling` | no unnoticed read failures, `UserActions = {}`: `Spec => []QuiescentMeansUninstalling` |
| `StorageClusterSpecProofs!SpecTypeCorrect` | `SpecSpec => []SpecTypeOK` |
| `StorageClusterSpecProofs!ScalesUpOnly` | `SpecSpec => NeverScalesDown` |
| `StorageClusterSpecProofs!QuiescentApplied` | `SpecSpec => []QuiescentMeansApplied` |
| `StorageClusterSpecProofs!NoneIsRespected` | `SpecSpec => NoneKeepsSpec` |
| `OLMProofs!OLMTypeCorrect` | `OLMSpec => []OLMTypeOK` |
| `OLMProofs!OCSOperatorTuned` | `OLMSpec => []QuiescentMeansTuned` |
| `ManagedProofs!ManagedTypeCorrect` | `ManagedSpec => []ManagedTypeOK` |
| `ManagedProofs!MonitorsKept` | `ManagedSpec => KeepsMonitors` |
| `ManagedProofs!QuiescentMonitored` | `ManagedSpec => []QuiescentMeansMonitored` |
| `EgressProofs!EgressTypeCorrect` | `EgressSpec => []EgressTypeOK` |
| `EgressProofs!BackoffFollowsFailures` | `EgressSpec => []SleepFollowsFailures` |
| `EgressProofs!QuiescentPermitted` | `EgressSpec => []QuiescentMeansPermitted` |

**The order of the uninstall.** `StorageClusterBeforeCSV` is not inductive: the worker decides
on a cache that may be arbitrarily old. Why is it never too old? The argument, and `SafetyInv`:
a copy of the ManagedOCS may not know that it is being deleted, but never the other way round
(`Trails`). The deletion starts in a reconcile that has seen the StorageCluster ready, so the
cache holds it (`WorkerKnows`), and from then on nobody creates one, so a cache without one is
right (`CachedStorageCluster`). As long as any copy has not seen the deletion, the cluster is
still there (`StaleCopies`). The assumption that users leave deletion to the deployer is needed,
each action for itself: with the delete of a ManagedOCS finding 1 is the counterexample; after
the delete of a StorageCluster a worker with an old copy of the ManagedOCS creates a new one
that the cache has not seen; a stripped finalizer with a restart has the same effect. The
refinement of `Lifecycle` follows from the
same invariant, one step of `Lifecycle` or a stutter for each action.

**The deployer goes last** needs no such assumption: a ManagedOCS is only created before the
caches are filled, so a cache that holds none is right about it (`AbsenceIsFinal`). It is
an assumption of the model, and of the proof, that nobody but the deployer creates a ManagedOCS.

**Use blocks the uninstall** follows the worker from list to list: what was old at the start of
the reconcile is either released or seen (`UseChecked`). For the consumers of a provider that
takes two facts about the cache: what it has heard or will hear last is how the list on the server
is, and nothing is on its way any more once a consumer counts as old (a later change takes that
away). So the cache holds that consumer. It does not follow for a consumer that has yet to
reach the cache, and the theorem does not claim it.

**Decides on its own status.** In the branch that installs, the states in the worker's copy
are those just computed (`DecidedOnComputed`), as long as the finalizer need not be added, and
`ensureManagedOCS` creates the ManagedOCS with it (`FinalizerKept`). It is the property of finding 3, and says how far that
finding reaches: without somebody who strips the finalizer it does not occur.

**No wakeup of the loop is lost.** The three quiescence properties of `Reconciler` speak of
states in which the worker waits on an empty queue and all caches are current, and are far from
inductive: a reconcile that began on old caches ends in just such a state. The proof follows
each of them through the reconcile. `NothingPending` says that nothing is on its way that would
queue another one: no request, no event of the StorageCluster, no event of the ManagedOCS *that
its predicate lets pass* (an update of the status alone does not). As long as that holds, the
worker's copies say what the server says (`CopiesFollow`), and it has taken the branch that
fits (`BranchTaken`). So it has done, by the time it comes to its end, what the property asks
for, or has asked to be called again: a ManagedOCS that stays has its StorageCluster
(`InstallAttended`), the status was computed from the StorageCluster there is
(`StatusAttended`), the next step of the uninstall was taken (`UninstallAttended`, for which it
must have seen the addon's label, `UninstallKnown`). `InstallInv` is inductive without any
assumption. `ProgressInv` needs `ReadFaults = FALSE`, since a read that fails unnoticed ends the
reconcile with a status Unknown or an uninstall not seen, and that the finalizer is kept
(finding 3). With users who delete by hand the uninstall goes on all the same
(`UninstallGoesOn`), except that nothing can be said of a StorageCluster whose ManagedOCS is
gone: it waits for the garbage collector, no reconcile deletes it. When users leave deletion to
the deployer, `SafetyInv` rules that state out, and the property of the run follows in full.

**Scales up only, applies what was asked for.** A copy that will be accepted equals the server's (`Accurate`), and the
count computed from it is the larger of its own and the desired one (`DesiredKeepsDevices`).
`Followed` traces secret, strategy and StorageCluster, which are read one after the other: unless
a request is queued, what was read is what the caches hold now. The storage asked for then is
there because the rounding is upwards (`DesiredCountHoldsSize`), and a strategy "none" in the cache
is the one the worker goes by, so that it leaves the spec alone (`NoneIsRespected`).

**No CSV is forgotten.** A CSV of ocs-operator that the cache shows as shipped has a request
queued, or is ahead of the worker in this reconcile, or the cache will hear of a later version
(`Pending`). Each of the three hands over to the next: beginning a reconcile takes the request
and puts the CSV ahead; visiting it makes a version the cache has yet to hear of, or fails and
puts the request back; hearing of a version queues a request. With the mutant of `SyncCSV` the
last link is missing.

**Monitors are kept.** An update is accepted only if the copy is the server's version, and then
it is the server's object (`Accurate`), so that all it changes is the label, from absent to
present. With the blind patch of the mutant the copy may be older.

**Everything managed is applied.** Twenty steps, each of which may end the reconcile; three
loops; caches of which any may be behind. `Attended`: unless a request is queued, an object that
is not as the sources want it is one the worker comes to in this reconcile (`Pending`; for a
monitor, its list is ahead or the item is, `MonitorPending`), or one its cache is behind on, so
that its event will come. A step that passes an object by must leave it as wanted or with an
event to come, and the predicates (`Passes`) must let that event through. That is where the
two subtle cases are: a label that was put onto a monitor of others makes no event, and none is
needed; the deployer's own DMS rule is created after the loop over the rules, and the event of
its creation brings the worker back to label it.

**The policies permit what was asked for.** Two parts. One is about the data: what `CIDRList`
keeps of *any* answer, and that a list that starts with allow rules for hosts, blocks and the
fixed destinations and ends with a deny permits just these (`PermittedIsAllowed`,
`DesiredRulesPermit`). The other is again that nothing is forgotten (`PoliciesAttended`).
The backoff after `n` failures is `2^n`, capped (`BackoffDoubles`), which follows from
`CappedDoubling`: to cap before doubling makes no difference.
Both parts depend on what a recursive function computes. The library's induction theorems take
an operator, which the provers cannot instantiate; `WFMin` of WellFoundedInduction does not,
and from it follow an induction over sets of naturals (`Induction`) and the existence and
uniqueness of recursive functions (`RecursionExists`, `RecursionIsUnique`).

The assumptions are the ASSUMEs of the modules: types of the constants, bounds any natural
numbers, sizes any set of integers. Two of `EgressRules` say more than a type: no block and no
host is `0.0.0.0/0`, which as an allow rule would end the list before the deny. Blocks are the
CIDRs of a VPC, which are no larger than /16, and hosts go into a rule's DNS name and never
into its CIDR. And no block is the empty line, which stands for the text that the
split drops.

**Only model-checked**: the liveness properties (`UninstallCompletesUnlessStranded`, `InstallCompletes`,
`EventuallyApplied`, `EventuallyTuned`, `EventuallyReachable`, `EventuallyMonitored`): fairness
and ENABLED are outside the prover's reach. The quiescence properties are the part of each that
can be proved: they say that the system is right whenever it has come to rest, and TLC that it
comes to rest.

## What is not modelled

- The constant contents of templates (Prometheus, Alertmanager, policies, rules, resource
  requirements): one entry, "template", stands for them.
- The consumer's onboarding ticket and endpoint, which are copied from the parameters.
- Two CSVs of one operator during an uninstall, see the plan. (Two of them during upgrades are in
  `OLMResources`, two of the deployer in `ManagedResources`.)
- Leader election: one pod runs at a time (`Crash` ends one before the next starts).
- Flags, environment, schemes, HTTP of the readiness probe, manifests, scripts and generated
  code: no state that the rest depends on.
