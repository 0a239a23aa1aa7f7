-------------------------- MODULE ManagedResources --------------------------
(***************************************************************************)
(* The steps of reconcilePhases that keep one object each as it should be: *)
(* the monitoring stack, the ingress policies, and the secrets and         *)
(* ConfigMaps that go with them; and the three loops that put the label    *)
(* Prometheus selects by on every monitor of the namespace, whoever made   *)
(* it.  (StorageCluster, egress policies, subscription and CSVs have       *)
(* modules of their own.)                                                  *)
(*                                                                         *)
(* What an object should be follows from the parameters, some secrets and  *)
(* a CSV, all read from caches.  Each step is one action: what happens     *)
(* between its reads and its write might as well happen before the reads   *)
(* (a cache may be as old as it likes) or after the write (a copy that is  *)
(* no longer current is refused at either moment).                         *)
(***************************************************************************)
EXTENDS Naturals, Sequences

CONSTANTS
    DeploymentType,   \* "converged", "consumer" or "provider"
    PodMonitors,      \* the monitors that other programs make in the namespace
    ServiceMonitors,
    PrometheusRules,
    Entries,          \* the entries of sources, and of objects
    SourceValues,     \* the values each source may take, see Sources
    Installed,        \* those it has when the addon has just been installed
    Trimmed,          \* what strings.TrimSpace makes of an onboarding key
    Left,             \* bound: the steps an instance leaves out, those of single
                      \* objects and those that find nothing
    MaxDisturbances   \* bound: changes by others, failed calls and restarts

VARIABLES
    sources, sourcesSeen,     \* secrets and CSVs: server and caches
    store, cache,             \* the objects: server and caches
    current,                  \* those whose cached version is the server's
    pc, queued,               \* the step at hand, 0 between reconciles
    addonParams,
    listed, todo, copies,     \* the items of a list, those not yet visited, and
    copiesCurrent,            \* those that nobody has written since
    disturbances

sourceVars  == <<sources, sourcesSeen>>
objectVars  == <<store, cache, current>>
itemVars    == <<listed, todo, copies, copiesCurrent>>
managedVars == <<sourceVars, objectVars, pc, queued, addonParams, itemVars, disturbances>>

-----------------------------------------------------------------------------
(***************************************************************************)
(* The steps of a reconcile, each named for its object or its list.        *)
(***************************************************************************)
Steps ==
    <<"addonParams", "rookConfig", "onboardingSecret", "kmsConfigMap", "relabelSecret",
      "kubeRBACConfigMap", "prometheusService", "prometheus", "alertmanager",
      "alertmanagerConfig", "k8sMetricsServiceMonitor", "podMonitors", "serviceMonitors",
      "prometheusRules", "dmsRule", "ocsInitialization", "prometheusProxyPolicy",
      "ingressPolicy", "cephIngressPolicy", "providerAPIServerPolicy">>

Kinds == {"podMonitors", "serviceMonitors", "prometheusRules"}

\* Steps that return at once in this deployment.
Skipped ==
    Left \cup (IF DeploymentType = "provider"
                 THEN {} ELSE {"onboardingSecret", "providerAPIServerPolicy"})
         \cup (IF DeploymentType = "consumer" THEN {} ELSE {"kmsConfigMap"})

\* The deployer makes and owns most objects, these two it only adjusts.
Adjusted == {"rookConfig", "ocsInitialization"} \ Skipped
Owned == {Steps[i] : i \in 1 .. Len(Steps)}
           \ (Kinds \cup Adjusted \cup Skipped \cup {"addonParams"})

\* The monitors that a list of a kind may hold.
Others == PodMonitors \cup ServiceMonitors \cup PrometheusRules
Monitors == [podMonitors     |-> PodMonitors,
             serviceMonitors |-> ServiceMonitors \cup (Owned \cap {"k8sMetricsServiceMonitor"}),
             prometheusRules |-> PrometheusRules \cup (Owned \cap {"dmsRule"})]
Labelled == Others \cup (Owned \cap {"k8sMetricsServiceMonitor", "dmsRule"})

Objects == Owned \cup Adjusted \cup Others

ASSUME AManagedType == DeploymentType \in {"converged", "consumer", "provider"}
ASSUME AMonitors ==
    /\ Others \cap (Owned \cup Adjusted) = {}
    /\ PodMonitors \cap ServiceMonitors = {}
    /\ PrometheusRules \cap (PodMonitors \cup ServiceMonitors) = {}
ASSUME ALeft ==
    "addonParams" \notin Left /\ \A kind \in Kinds \cap Left : Monitors[kind] = {}
ASSUME AManagedDisturbances == MaxDisturbances \in Nat

-----------------------------------------------------------------------------
(***************************************************************************)
(* Data.  A source is absent, <<>>, or the sequence of its entries, one    *)
(* that is empty or has no key being "".                                   *)
(*   - addonParams: the onboarding key, then notification-email-0, -1, ... *)
(*     where the value "missing" is a key that is not there;               *)
(*   - pagerduty, dms, smtp, rhobs: the entry that ends up in an object;   *)
(*   - deployerCSVs: the images of kube-rbac-proxy in the CSVs of the      *)
(*     deployer, two of them while OLM upgrades it.                        *)
(* An object is absent, {}, or the set of what the deployer puts into it.  *)
(***************************************************************************)
Sources == {"addonParams", "pagerduty", "dms", "smtp", "rhobs", "deployerCSVs"}

ASSUME AEntries == {"", "missing", "template", "noRemoteWrite", "shipped", "edited"} \subseteq Entries
ASSUME ASources ==
    /\ DOMAIN SourceValues = Sources
    /\ \A s \in Sources : SourceValues[s] \subseteq Seq(Entries)
    /\ DOMAIN Installed = Sources /\ \A s \in Sources : Installed[s] \in SourceValues[s]
    /\ \A p \in SourceValues["addonParams"] : p # <<>> => Trimmed[p[1]] \in Entries

Values == [content : SUBSET Entries, label : BOOLEAN]
NoObject == [content |-> {}, label |-> FALSE]
Exists(value) == value.content # {}
Template == {"template"}

\* notification-email-0, -1, ... up to the first missing key, without empty ones.
Addresses(params) ==
    {params[n] : n \in {m \in 2 .. Len(params) :
                          \A k \in 2 .. m : params[k] # "missing"}} \ {""}

\* An entry that is there and not empty.
Usable(source) == source # <<>> /\ source[1] # ""

\* Where metrics are sent.
RemoteWrite(read) ==
    IF DeploymentType = "converged" \/ read["rhobs"] = <<>>
      THEN "noRemoteWrite" ELSE read["rhobs"][1]

\* The contents that a step may give to its object, from the sources it read and the
\* parameters read before; none is an error.
PrometheusContents(read) ==
    IF RemoteWrite(read) = ""
      THEN {}
      ELSE {{RemoteWrite(read), read["deployerCSVs"][i]} : i \in 1 .. Len(read["deployerCSVs"])}

AlertmanagerConfigContents(read, params) ==
    IF \A s \in {"pagerduty", "dms", "smtp"} : Usable(read[s])
      THEN {{read["dms"][1]} \cup
              (IF Addresses(params) = {} THEN {} ELSE {read["smtp"][1]} \cup Addresses(params))}
      ELSE {}

Contents(object, read, params) ==
    CASE object = "onboardingSecret"   -> {{Trimmed[params[1]]}}
      [] object = "prometheus"         -> PrometheusContents(read)
      [] object = "alertmanagerConfig" -> AlertmanagerConfigContents(read, params)
      [] object \notin {"onboardingSecret", "prometheus", "alertmanagerConfig"} -> {Template}

-----------------------------------------------------------------------------
(***************************************************************************)
(* The worker                                                              *)
(***************************************************************************)
NoItems ==
    /\ listed' = FALSE /\ todo' = {}
    /\ copies' = [m \in Labelled |-> NoObject] /\ copiesCurrent' = {}

\* Mutant of End: an error is logged and not returned.
EndLogged(error) ==
    pc' = 0 /\ queued' = queued /\ addonParams' = <<>> /\ NoItems

\* The end of a reconcile; an error puts the request back.
End(error) ==
    pc' = 0 /\ queued' = (queued \/ error) /\ addonParams' = <<>> /\ NoItems

\* The next step that does not return at once, if there is one.
Later == {i \in pc + 1 .. Len(Steps) : Steps[i] \notin Skipped}
GoOn == \E i \in Later : (\A j \in Later : i <= j) /\ pc' = i
Advance ==
    \/ Later = {} /\ End(FALSE)
    \/ GoOn /\ NoItems /\ UNCHANGED <<queued, addonParams>>

At(steps) == pc # 0 /\ Steps[pc] \in steps

Begin ==
    /\ pc = 0 /\ queued
    /\ pc' = 1 /\ queued' = FALSE
    /\ UNCHANGED <<sourceVars, objectVars, addonParams, itemVars, disturbances>>

\* Mutant of ReadAddonParams: parameters without a value are not copied.
ReadAddonParamsFilled ==
    /\ At({"addonParams"})
    /\ IF sourcesSeen["addonParams"] = <<>>
         THEN End(TRUE)
         ELSE /\ GoOn
              /\ addonParams' = SelectSeq(sourcesSeen["addonParams"], LAMBDA v : v # "")
              /\ NoItems /\ UNCHANGED queued
    /\ UNCHANGED <<sourceVars, objectVars, disturbances>>

ReadAddonParams ==
    /\ At({"addonParams"})
    /\ IF sourcesSeen["addonParams"] = <<>>
         THEN End(TRUE)
         ELSE /\ GoOn
              /\ addonParams' = sourcesSeen["addonParams"]
              /\ NoItems /\ UNCHANGED queued
    /\ UNCHANGED <<sourceVars, objectVars, disturbances>>

\* A create needs an object that is not there, an update a copy that is current.
Accepted(object) ==
    object \in current \/ (~Exists(cache[object]) /\ ~Exists(store[object]))

\* Create or update; an object that is as desired is not written.
Put(object, content) ==
    LET want == [content |-> content, label |-> cache[object].label] IN
    \/ /\ cache[object] = want
       /\ Advance /\ UNCHANGED objectVars
    \/ /\ cache[object] # want /\ Accepted(object)
       /\ store' = [store EXCEPT ![object] = want]
       /\ current' = current \ {object}
       /\ Advance /\ UNCHANGED cache
    \/ /\ cache[object] # want /\ ~Accepted(object)
       /\ End(TRUE) /\ UNCHANGED objectVars

\* CreateOrUpdate, with the contents that follow from the sources or an error.
VisitOwned ==
    /\ At(Owned)
    /\ LET contents == Contents(Steps[pc], sourcesSeen, addonParams) IN
       \/ contents = {} /\ End(TRUE) /\ UNCHANGED objectVars
       \/ \E content \in contents : Put(Steps[pc], content)
    /\ UNCHANGED <<sourceVars, disturbances>>

\* These are made by the operators and must not be created; without the ConfigMap of
\* rook a reconcile fails.
VisitAdjusted ==
    /\ At(Adjusted)
    /\ IF Exists(cache[Steps[pc]])
         THEN Put(Steps[pc], Template)
         ELSE /\ IF Steps[pc] = "rookConfig" THEN End(TRUE) ELSE Advance
              /\ UNCHANGED objectVars
    /\ UNCHANGED <<sourceVars, disturbances>>

ListMonitors ==
    /\ At(Kinds) /\ ~listed
    /\ LET found == {m \in Monitors[Steps[pc]] : Exists(cache[m])} IN
       /\ listed' = TRUE /\ todo' = found
       /\ copies' = [m \in Labelled |-> IF m \in found THEN cache[m] ELSE NoObject]
       /\ copiesCurrent' = found \cap current
    /\ UNCHANGED <<sourceVars, objectVars, pc, queued, addonParams, disturbances>>

\* Mutant of LabelMonitor: a patch that names no resourceVersion.
LabelMonitorBlind ==
    /\ At(Kinds)
    /\ \E m \in todo :
         /\ store' = [store EXCEPT ![m] = [copies[m] EXCEPT !.label = TRUE]]
         /\ current' = current \ {m} /\ copiesCurrent' = copiesCurrent \ {m}
         /\ todo' = todo \ {m}
    /\ UNCHANGED <<sourceVars, cache, pc, queued, addonParams, listed, copies, disturbances>>

\* The update is unconditional; one that changes nothing is no new version, and a copy
\* that is not current is refused and ends the reconcile.
LabelMonitor ==
    /\ At(Kinds)
    /\ \E m \in todo :
         IF m \in copiesCurrent
           THEN /\ todo' = todo \ {m}
                /\ store' = [store EXCEPT ![m] = [copies[m] EXCEPT !.label = TRUE]]
                /\ IF copies[m].label
                     THEN UNCHANGED <<current, copiesCurrent>>
                     ELSE current' = current \ {m} /\ copiesCurrent' = copiesCurrent \ {m}
                /\ UNCHANGED <<cache, pc, queued, addonParams, listed, copies>>
           ELSE End(TRUE) /\ UNCHANGED objectVars
    /\ UNCHANGED <<sourceVars, disturbances>>

FinishMonitors ==
    /\ At(Kinds) /\ listed /\ todo = {}
    /\ Advance
    /\ UNCHANGED <<sourceVars, objectVars, disturbances>>

Worker == \/ Begin \/ ReadAddonParams \/ VisitOwned \/ VisitAdjusted
          \/ ListMonitors \/ LabelMonitor \/ FinishMonitors

-----------------------------------------------------------------------------
(***************************************************************************)
(* Informers, with the predicates of SetupWithManager                      *)
(***************************************************************************)
\* Mutant of Passes: the service monitors are not owned, only watched.
PassesUnowned(object) ==
    object \in Labelled =>
      ~(IF Exists(store[object]) THEN store[object] ELSE cache[object]).label

\* What the deployer owns or watches by name always queues a reconcile, a monitor of
\* others only without the label, whoever removed it.
Passes(object) ==
    object \in Others =>
      ~(IF Exists(store[object]) THEN store[object] ELSE cache[object]).label

SyncObject(object) ==
    /\ object \notin current
    /\ cache' = [cache EXCEPT ![object] = store[object]]
    /\ current' = current \cup {object}
    /\ queued' = (queued \/ Passes(object))
    /\ UNCHANGED <<sourceVars, store, pc, addonParams, itemVars, disturbances>>

\* The secrets are watched by name; the CSVs of the deployer are not.
SyncSource ==
    /\ \E source \in Sources :
         /\ sourcesSeen[source] # sources[source]
         /\ sourcesSeen' = [sourcesSeen EXCEPT ![source] = sources[source]]
         /\ queued' = (queued \/ source # "deployerCSVs")
    /\ UNCHANGED <<sources, objectVars, pc, addonParams, itemVars, disturbances>>

\* Anything else that is owned or watched, and the periodic resync.
OtherManagedEvent ==
    /\ ~queued /\ queued' = TRUE
    /\ UNCHANGED <<sourceVars, objectVars, pc, addonParams, itemVars, disturbances>>

-----------------------------------------------------------------------------
(***************************************************************************)
(* Users, other programs and failures                                      *)
(***************************************************************************)
Disturb == disturbances < MaxDisturbances /\ disturbances' = disturbances + 1

\* The addon's secrets are edited or deleted; OLM upgrades the deployer.
ChangeSource ==
    /\ Disturb
    /\ \E source \in Sources : \E value \in SourceValues[source] :
         value # sources[source] /\ sources' = [sources EXCEPT ![source] = value]
    /\ UNCHANGED <<sourcesSeen, objectVars, pc, queued, addonParams, itemVars>>

\* A write or a delete of an object, by a user or by the program it belongs to, which
\* creates it, too.  A new version may be as the old one was.
ChangeObject ==
    /\ Disturb
    /\ \E object \in Objects :
         /\ \/ Exists(store[object]) /\ store' = [store EXCEPT ![object] = NoObject]
            \/ /\ Exists(store[object]) \/ object \notin Owned
               /\ \E content \in {store[object].content, {"edited"}} \ {{}},
                     label \in IF object \in Labelled THEN BOOLEAN ELSE {FALSE} :
                    store' = [store EXCEPT ![object] = [content |-> content, label |-> label]]
         /\ current' = current \ {object} /\ copiesCurrent' = copiesCurrent \ {object}
    /\ UNCHANGED <<sourceVars, cache, pc, queued, addonParams, listed, todo, copies>>

\* Any call of the reconcile fails, these or those of its other steps.
CallFails ==
    /\ pc # 0 /\ Disturb
    /\ End(TRUE)
    /\ UNCHANGED <<sourceVars, objectVars>>

\* The pod restarts: the caches are filled anew before the worker starts.
RestartManaged ==
    /\ Disturb
    /\ End(TRUE)
    /\ sourcesSeen' = sources
    /\ cache' = store /\ current' = Objects
    /\ UNCHANGED <<sources, store>>

Interference == ChangeSource \/ ChangeObject \/ CallFails \/ RestartManaged

-----------------------------------------------------------------------------
\* The deployer was just installed; other programs may have been at work before it.
ManagedInit ==
    /\ sources = Installed
    /\ sourcesSeen = sources
    /\ \E old \in SUBSET (Others \cup Adjusted) :
         store = [o \in Objects |-> IF o \in old THEN [content |-> {"shipped"}, label |-> FALSE]
                                                ELSE NoObject]
    /\ cache = store /\ current = Objects
    /\ pc = 0 /\ queued = TRUE /\ addonParams = <<>>
    /\ listed = FALSE /\ todo = {}
    /\ copies = [m \in Labelled |-> NoObject] /\ copiesCurrent = {}
    /\ disturbances = 0

ManagedNext ==
    \/ Worker
    \/ \E object \in Objects : SyncObject(object)
    \/ SyncSource
    \/ OtherManagedEvent
    \/ Interference

ManagedSpec == ManagedInit /\ [][ManagedNext]_managedVars

\* The manager keeps its worker and the informers going, that of each kind of object.
FairManagedSpec ==
    /\ ManagedSpec
    /\ WF_managedVars(Worker)
    /\ \A object \in Objects : WF_managedVars(SyncObject(object))
    /\ WF_managedVars(SyncSource)

-----------------------------------------------------------------------------
ManagedTypeOK ==
    /\ DOMAIN sources = Sources /\ DOMAIN sourcesSeen = Sources
    /\ \A s \in Sources : sources[s] \in SourceValues[s] /\ sourcesSeen[s] \in SourceValues[s]
    /\ store \in [Objects -> Values] /\ cache \in [Objects -> Values]
    /\ current \subseteq Objects
    /\ pc \in 0 .. Len(Steps) /\ queued \in BOOLEAN
    /\ addonParams \in SourceValues["addonParams"] \cup {<<>>}
    /\ listed \in BOOLEAN /\ todo \subseteq Labelled
    /\ copies \in [Labelled -> Values] /\ copiesCurrent \subseteq Labelled
    /\ disturbances \in 0 .. MaxDisturbances

\* The image of the proxy is left open: nothing watches the CSV it comes from.
Monitored ==
    /\ \A m \in Labelled : Exists(store[m]) => store[m].label
    /\ \A o \in Owned :
         IF o = "prometheus"
           THEN RemoteWrite(sources) \in store[o].content
           ELSE store[o].content \in Contents(o, sources, sources["addonParams"])
    /\ \A o \in Adjusted : Exists(store[o]) => store[o].content = Template

\* "Doing so instructs the Prometheus instance to notice and react to these labeled
\* monitoring resources": whenever the worker waits and its caches are current, every
\* monitor of the namespace is labelled, whoever made it and whenever, the deployer's
\* own rule is among them, and alerts, metrics and policies are as the secrets want
\* them, whichever conflict, failure or restart ended an earlier reconcile half way.
QuiescentMeansMonitored ==
    pc = 0 /\ ~queued /\ current = Objects /\ sourcesSeen = sources => Monitored

\* The deployer works on monitors that belong to other programs, with copies from a
\* cache: no step of it takes back what somebody else wrote, nor the label.
KeepsMonitors ==
    [][Worker => \A m \in Labelled :
         /\ m \in Others => store'[m].content = store[m].content
         /\ store[m].label => store'[m].label]_managedVars

\* No secret is missing, none lacks an entry and rook's operator has been installed.
InOrder ==
    /\ sources["addonParams"] # <<>> /\ sources["rhobs"] # <<"">>
    /\ \A s \in {"pagerduty", "dms", "smtp"} : Usable(sources[s])
    /\ sources["deployerCSVs"] # <<>>
    /\ "rookConfig" \in Adjusted => Exists(store["rookConfig"])

\* Once the secrets are in order and nobody interferes, everything is as they want it
\* and stays so; the loops over the monitors make progress despite the events that
\* their own updates cause.
EventuallyMonitored == <>[](InOrder => Monitored)
=============================================================================
