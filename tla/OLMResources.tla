---------------------------- MODULE OLMResources ----------------------------
(***************************************************************************)
(* What the deployer changes of the objects OLM manages: it moves the      *)
(* subscription of odf-operator to its channel (reconcileODFSubscription)  *)
(* and tunes the CSVs of ocs-operator and mcg-operator (reconcileCSV),     *)
(* while OLM upgrades the operators and users edit the subscription.       *)
(*                                                                         *)
(* Objects are read from two informer caches that know nothing of each     *)
(* other; "this copy is the server's current version" is one BOOLEAN per   *)
(* copy, as in module Reconciler, whose steps "resources" (and             *)
(* "getStorageCluster", for the subscription) abstract from all of this.   *)
(***************************************************************************)
EXTENDS Naturals

CONSTANTS
    MaxVersion,       \* bound: the versions OLM installs of one operator
    MaxDisturbances   \* bound: changes by others, failed calls and restarts

ASSUME AMaxVersion == MaxVersion \in Nat \ {0}
ASSUME AOLMDisturbances == MaxDisturbances \in Nat

VARIABLES
    channel, channelSeen, channelFresh,   \* the subscription of odf-operator
    othersWritten,            \* another subscription of the namespace was written
                              \* and its cache has not heard of it yet
    csv, csvSeen, csvFresh,   \* the CSVs: server, cache, and whether it is current
    pc, queued,
    sub, subFresh,            \* odfSub
    listed, listedFresh,      \* csvList
    todo,                     \* the items of csvList not yet visited
    disturbances

subVars  == <<channel, channelSeen, channelFresh, othersWritten>>
csvVars  == <<csv, csvSeen, csvFresh>>
loopVars == <<sub, subFresh, listed, listedFresh, todo>>
olmVars  == <<subVars, csvVars, pc, queued, loopVars, disturbances>>

-----------------------------------------------------------------------------
\* The subscription is absent, on desiredODFSubscriptionChannel or on another.
Channels == {"absent", "desired", "other"}

\* A CSV by the prefix of its name and its version.  It is "shipped" with the
\* resources and replicas of its bundle and "tuned" with those of the deployer.
Operators == {"ocs-operator", "mcg-operator"}
CSVs == Operators \X (1 .. MaxVersion)
CSVStates == {"absent", "shipped", "tuned"}

\* The end of a reconcile; an error puts the request back.
EndLoop(error) ==
    /\ pc' = "idle" /\ queued' = (queued \/ error)
    /\ sub' = "absent" /\ subFresh' = FALSE
    /\ listed' = [c \in CSVs |-> "absent"] /\ listedFresh' = [c \in CSVs |-> FALSE]
    /\ todo' = {}

BeginLoop ==
    /\ pc = "idle" /\ queued
    /\ pc' = "readSubscription" /\ queued' = FALSE
    /\ UNCHANGED <<subVars, csvVars, loopVars, disturbances>>

\* The list of the subscriptions, the search for the package odf-operator and
\* the comparison of its channel.
ReadSubscription ==
    /\ pc = "readSubscription"
    /\ IF channelSeen = "absent"
         THEN EndLoop(TRUE)
         ELSE /\ pc' = IF channelSeen = "desired" THEN "listCSVs" ELSE "updateSubscription"
              /\ sub' = channelSeen /\ subFresh' = channelFresh
              /\ UNCHANGED <<queued, listed, listedFresh, todo>>
    /\ UNCHANGED <<subVars, csvVars, disturbances>>

\* Mutant of UpdateSubscription: the channel is cleared instead of set.
UpdateSubscriptionCleared ==
    /\ pc = "updateSubscription"
    /\ IF subFresh
         THEN /\ channel' = "" /\ channelFresh' = FALSE
              /\ pc' = "listCSVs"
              /\ UNCHANGED <<queued, loopVars>>
         ELSE EndLoop(TRUE) /\ UNCHANGED <<channel, channelFresh>>
    /\ UNCHANGED <<channelSeen, othersWritten, csvVars, disturbances>>

\* A stale copy is refused.
UpdateSubscription ==
    /\ pc = "updateSubscription"
    /\ IF subFresh
         THEN /\ channel' = "desired" /\ channelFresh' = FALSE
              /\ pc' = "listCSVs"
              /\ UNCHANGED <<queued, loopVars>>
         ELSE EndLoop(TRUE) /\ UNCHANGED <<channel, channelFresh>>
    /\ UNCHANGED <<channelSeen, othersWritten, csvVars, disturbances>>

ListCSVs ==
    /\ pc = "listCSVs"
    /\ pc' = "visitCSVs"
    /\ listed' = csvSeen /\ listedFresh' = csvFresh
    /\ todo' = {c \in CSVs : csvSeen[c] # "absent"}
    /\ UNCHANGED <<subVars, csvVars, queued, sub, subFresh, disturbances>>

\* Mutant of VisitCSV: reconcileCSV returns what the first update returns.
VisitCSVFirst ==
    /\ pc = "visitCSVs"
    /\ \E c \in todo :
         IF listed[c] # "tuned" /\ ~listedFresh[c]
           THEN EndLoop(TRUE) /\ UNCHANGED <<csv, csvFresh>>
           ELSE /\ IF listed[c] = "tuned"
                     THEN UNCHANGED <<csv, csvFresh>>
                     ELSE /\ csv' = [csv EXCEPT ![c] = "tuned"]
                          /\ csvFresh' = [csvFresh EXCEPT ![c] = FALSE]
                /\ todo' = {}
                /\ UNCHANGED <<pc, queued, sub, subFresh, listed, listedFresh>>
    /\ UNCHANGED <<subVars, csvSeen, disturbances>>

\* updateOCSCSV and updateMCGCSV: a CSV that is as desired is not written, a copy
\* that is not current is refused and ends the loop.  The cache lists in no order.
VisitCSV ==
    /\ pc = "visitCSVs"
    /\ \E c \in todo :
         IF listed[c] # "tuned" /\ ~listedFresh[c]
           THEN EndLoop(TRUE) /\ UNCHANGED <<csv, csvFresh>>
           ELSE /\ IF listed[c] = "tuned"
                     THEN UNCHANGED <<csv, csvFresh>>
                     ELSE /\ csv' = [csv EXCEPT ![c] = "tuned"]
                          /\ csvFresh' = [csvFresh EXCEPT ![c] = FALSE]
                /\ todo' = todo \ {c}
                /\ UNCHANGED <<pc, queued, sub, subFresh, listed, listedFresh>>
    /\ UNCHANGED <<subVars, csvSeen, disturbances>>

FinishLoop ==
    /\ pc = "visitCSVs" /\ todo = {}
    /\ EndLoop(FALSE)
    /\ UNCHANGED <<subVars, csvVars, disturbances>>

Loop == \/ BeginLoop \/ ReadSubscription \/ UpdateSubscription
        \/ ListCSVs \/ VisitCSV \/ FinishLoop

-----------------------------------------------------------------------------
(***************************************************************************)
(* Informers, with the predicates of SetupWithManager                      *)
(***************************************************************************)
\* subPredicate lets the subscriptions pass whose package is not odf-operator.
SyncSubscription ==
    /\ ~channelFresh
    /\ channelSeen' = channel /\ channelFresh' = TRUE
    /\ UNCHANGED <<channel, othersWritten, csvVars, pc, queued, loopVars, disturbances>>

SyncOtherSubscriptions ==
    /\ othersWritten /\ othersWritten' = FALSE
    /\ queued' = TRUE
    /\ UNCHANGED <<channel, channelSeen, channelFresh, csvVars, pc, loopVars,
                   disturbances>>

\* Mutant of SyncCSV: the predicate compares the name, which ends with a version.
SyncCSVExact ==
    \E c \in CSVs :
      /\ ~csvFresh[c]
      /\ csvSeen' = [csvSeen EXCEPT ![c] = csv[c]]
      /\ csvFresh' = [csvFresh EXCEPT ![c] = TRUE]
      /\ UNCHANGED <<subVars, csv, pc, queued, loopVars, disturbances>>

\* csvPredicates lets the CSVs of ocs-operator pass.
SyncCSV ==
    \E c \in CSVs :
      /\ ~csvFresh[c]
      /\ csvSeen' = [csvSeen EXCEPT ![c] = csv[c]]
      /\ csvFresh' = [csvFresh EXCEPT ![c] = TRUE]
      /\ queued' = (queued \/ c[1] = "ocs-operator")
      /\ UNCHANGED <<subVars, csv, pc, loopVars, disturbances>>

\* Anything else that is owned or watched, and the periodic resync.
OtherOLMEvent ==
    /\ ~queued /\ queued' = TRUE
    /\ UNCHANGED <<subVars, csvVars, pc, loopVars, disturbances>>

-----------------------------------------------------------------------------
(***************************************************************************)
(* OLM, users and failures                                                 *)
(***************************************************************************)
Disturb == disturbances < MaxDisturbances /\ disturbances' = disturbances + 1

\* Another client wrote the CSV c.
Written(c) ==
    /\ csvFresh' = [csvFresh EXCEPT ![c] = FALSE]
    /\ listedFresh' = [listedFresh EXCEPT ![c] = FALSE]

\* The next version of an operator.
InstallCSV ==
    \E c \in CSVs :
      /\ csv[c] = "absent"
      /\ c[2] > 1 => csv[<<c[1], c[2] - 1>>] # "absent"
      /\ \A v \in c[2] .. MaxVersion : csv[<<c[1], v>>] = "absent"
      /\ Disturb
      /\ csv' = [csv EXCEPT ![c] = "shipped"]
      /\ Written(c)
      /\ UNCHANGED <<subVars, csvSeen, pc, queued, sub, subFresh, listed, todo>>

\* It runs: the CSV it replaces goes and its subscription says so.
ReplaceCSV ==
    \E c \in CSVs :
      /\ csv[c] # "absent" /\ c[2] < MaxVersion /\ csv[<<c[1], c[2] + 1>>] # "absent"
      /\ csv' = [csv EXCEPT ![c] = "absent"]
      /\ Written(c)
      /\ othersWritten' = TRUE
      /\ UNCHANGED <<channel, channelSeen, channelFresh, csvSeen, pc, queued, sub,
                     subFresh, listed, todo, disturbances>>

\* OLM writes the status of a CSV, or a user or a new bundle undoes the tuning.
WriteCSV ==
    \E c \in CSVs, s \in {"shipped", "tuned"} :
      /\ csv[c] # "absent" /\ s \in {"shipped", csv[c]}
      /\ Disturb
      /\ csv' = [csv EXCEPT ![c] = s]
      /\ Written(c)
      /\ UNCHANGED <<subVars, csvSeen, pc, queued, sub, subFresh, listed, todo>>

\* A user edits or deletes the subscription, or OLM writes its status.
WriteSubscription ==
    /\ Disturb
    /\ channel' \in Channels
    /\ channelFresh' = FALSE /\ subFresh' = FALSE
    /\ UNCHANGED <<channelSeen, othersWritten, csvVars, pc, queued, sub, listed,
                   listedFresh, todo>>

\* Any call of the reconcile fails, these or those of its other steps.
LoopFails ==
    /\ pc # "idle" /\ Disturb
    /\ EndLoop(TRUE)
    /\ UNCHANGED <<subVars, csvVars>>

\* The pod restarts: the caches are filled anew before the worker starts.
RestartLoop ==
    /\ Disturb
    /\ EndLoop(TRUE)
    /\ channelSeen' = channel /\ channelFresh' = TRUE
    /\ csvSeen' = csv /\ csvFresh' = [c \in CSVs |-> TRUE]
    /\ othersWritten' = FALSE
    /\ UNCHANGED <<channel, csv>>

Surroundings == \/ InstallCSV \/ ReplaceCSV \/ WriteCSV \/ WriteSubscription
                \/ LoopFails \/ RestartLoop

-----------------------------------------------------------------------------
\* The deployer was just installed with the first version of both operators.
OLMInit ==
    /\ channel \in {"desired", "other"} /\ channelSeen = channel /\ channelFresh = TRUE
    /\ othersWritten = FALSE
    /\ csv = [c \in CSVs |-> IF c[2] = 1 THEN "shipped" ELSE "absent"]
    /\ csvSeen = csv /\ csvFresh = [c \in CSVs |-> TRUE]
    /\ pc = "idle" /\ queued = TRUE
    /\ sub = "absent" /\ subFresh = FALSE
    /\ listed = [c \in CSVs |-> "absent"] /\ listedFresh = [c \in CSVs |-> FALSE]
    /\ todo = {}
    /\ disturbances = 0

OLMNext ==
    \/ Loop \/ SyncSubscription \/ SyncOtherSubscriptions \/ SyncCSV
    \/ OtherOLMEvent \/ Surroundings

OLMSpec == OLMInit /\ [][OLMNext]_olmVars

\* The manager keeps its worker and the informers going; every ten hours these hand
\* all their objects to the predicates again, and those that are always let through
\* queue a reconcile.
FairOLMSpec ==
    /\ OLMSpec
    /\ WF_olmVars(Loop)
    /\ WF_olmVars(SyncSubscription) /\ WF_olmVars(SyncCSV)
    /\ WF_olmVars(OtherOLMEvent)

-----------------------------------------------------------------------------
OLMTypeOK ==
    /\ channel \in Channels /\ channelSeen \in Channels /\ sub \in Channels
    /\ channelFresh \in BOOLEAN /\ subFresh \in BOOLEAN /\ othersWritten \in BOOLEAN
    /\ csv \in [CSVs -> CSVStates] /\ csvSeen \in [CSVs -> CSVStates]
    /\ listed \in [CSVs -> CSVStates]
    /\ csvFresh \in [CSVs -> BOOLEAN] /\ listedFresh \in [CSVs -> BOOLEAN]
    /\ todo \subseteq CSVs
    /\ pc \in {"idle", "readSubscription", "updateSubscription", "listCSVs", "visitCSVs"}
    /\ queued \in BOOLEAN /\ disturbances \in 0 .. MaxDisturbances

\* ocs-operator, rook-ceph-operator and the metrics exporter run with the resources
\* the deployer gives them: when the worker waits and the cache of CSVs is current,
\* no CSV of ocs-operator is left as shipped, whichever upgrade, conflict or restart
\* came between.
QuiescentMeansTuned ==
    pc = "idle" /\ ~queued /\ (\A c \in CSVs : csvFresh[c])
      => \A v \in 1 .. MaxVersion : csv[<<"ocs-operator", v>>] # "shipped"

\* Neither a new CSV of mcg-operator nor the subscription of odf-operator queues a
\* reconcile.  With the next resync at the latest noobaa's deployment has "zero
\* replicas" again and the subscription its channel, and that for good: as long as
\* there is a subscription, no failure or conflict makes a loop miss an operator.
EventuallyTuned ==
    <>[](channel # "absent" => channel = "desired" /\ \A c \in CSVs : csv[c] # "shipped")

\* "ignore if not a odf-operator subscription", the subscription predicate says: what
\* happens to the one of odf-operator is noticed, and when the worker waits and the
\* cache is current that subscription is on the deployer's channel.
QuiescentMeansOnChannel ==
    pc = "idle" /\ ~queued /\ channelFresh /\ channel # "absent" => channel = "desired"
=============================================================================
