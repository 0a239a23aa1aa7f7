---------------------------- MODULE ManagedProofs ----------------------------
(***************************************************************************)
(* Two results about the managed resources, for any monitors, any values   *)
(* of the secrets, every deployment type and any number of disturbances.   *)
(*                                                                         *)
(* No step of the deployer takes back what others wrote to a monitor.  The *)
(* reason is optimistic concurrency, stated as an invariant (Accurate): a  *)
(* copy that the server would accept, of the cache or of the list in hand, *)
(* is the server's own object.                                             *)
(*                                                                         *)
(* Whenever the worker waits with current caches, everything is as the     *)
(* secrets want it.  The reason (Attended, in the second half): what is    *)
(* not, is ahead in this reconcile, or has a request queued, or an event   *)
(* of it is to come.                                                       *)
(***************************************************************************)
EXTENDS ManagedResources, TLAPS

USE DEF sourceVars, objectVars, itemVars

\* A copy that carries the server's current version is the server's object, an item of
\* a list was there, what is not there has no label, and parameters have been read
\* before they are used.
Accurate ==
    /\ \A o \in current : cache[o] = store[o]
    /\ \A m \in copiesCurrent : copies[m] = store[m]
    /\ \A m \in todo : Exists(copies[m])
    /\ \A o \in Objects : ~Exists(store[o]) => ~store[o].label
    /\ pc > 1 => addonParams # <<>>

ManagedInv == ManagedTypeOK /\ Accurate

-----------------------------------------------------------------------------
\* The row of steps starts with the parameters.
LEMMA StepsBegin == Len(Steps) = 20 /\ Steps[1] = "addonParams"
  BY DEF Steps

\* Monitors, and those of other programs, are objects.
LEMMA LabelledAreObjects == Labelled \subseteq Objects /\ Others \subseteq Objects
  BY DEF Labelled, Objects

\* The monitors of each kind are among those that carry the label.
LEMMA MonitorsAreLabelled ==
    ASSUME NEW kind \in Kinds PROVE Monitors[kind] \subseteq Labelled
  BY DEF Kinds, Monitors, Labelled, Others

\* A missing object is a value of the server and of the caches.
LEMMA NoObjectIsValue == NoObject \in Values
  BY DEF NoObject, Values

\* Whatever a step puts into its object is a content, and not the empty one.
LEMMA ContentsAreContents ==
    ASSUME ManagedInv, At(Owned),
           NEW content \in Contents(Steps[pc], sourcesSeen, addonParams)
    PROVE  content \in SUBSET Entries /\ content # {}
<1>1. /\ \A s \in Sources : sourcesSeen[s] \in Seq(Entries)
      /\ addonParams \in Seq(Entries)
  <2>1. \A s \in Sources : SourceValues[s] \subseteq Seq(Entries)
    BY ASources
  <2>2. <<>> \in Seq(Entries) /\ "addonParams" \in Sources
    BY DEF Sources
  <2>3. QED
    BY <2>1, <2>2 DEF ManagedInv, ManagedTypeOK
<1>2. \A s \in Sources : sourcesSeen[s] # <<>> => sourcesSeen[s][1] \in Entries
  BY <1>1
<1>3. pc > 1
  <2>1. "addonParams" \notin Owned
    BY DEF Owned
  <2>2. QED
    BY <2>1, StepsBegin DEF At, ManagedInv, ManagedTypeOK
<1>4. Trimmed[addonParams[1]] \in Entries
  BY <1>3, ASources DEF ManagedInv, ManagedTypeOK, Accurate
<1>5. RemoteWrite(sourcesSeen) \in Entries
  <2>1. "rhobs" \in Sources
    BY DEF Sources
  <2>2. QED
    <3>1. CASE DeploymentType = "converged" \/ sourcesSeen["rhobs"] = <<>>
      <4>1. RemoteWrite(sourcesSeen) = "noRemoteWrite"
        BY <3>1 DEF RemoteWrite
      <4>2. QED
        BY <4>1, AEntries
    <3>2. CASE ~(DeploymentType = "converged" \/ sourcesSeen["rhobs"] = <<>>)
      <4>1. RemoteWrite(sourcesSeen) = sourcesSeen["rhobs"][1]
        BY <3>2 DEF RemoteWrite
      <4>2. QED
        BY <1>2, <2>1, <3>2, <4>1
    <3>3. QED
      BY <3>1, <3>2
<1>6. ASSUME content \in PrometheusContents(sourcesSeen)
      PROVE  content \in SUBSET Entries /\ content # {}
  <2>1. PICK i \in 1 .. Len(sourcesSeen["deployerCSVs"]) :
          content = {RemoteWrite(sourcesSeen), sourcesSeen["deployerCSVs"][i]}
    BY <1>6 DEF PrometheusContents
  <2>2. sourcesSeen["deployerCSVs"] \in Seq(Entries)
    BY <1>1 DEF Sources
  <2>3. sourcesSeen["deployerCSVs"][i] \in Entries
    BY <2>2
  <2>4. QED
    BY <1>5, <2>1, <2>3
<1>7. Addresses(addonParams) \in SUBSET Entries
  <2>1. \A n \in 2 .. Len(addonParams) : addonParams[n] \in Entries
    BY <1>1
  <2>2. QED
    BY <2>1 DEF Addresses
<1>8. ASSUME content \in AlertmanagerConfigContents(sourcesSeen, addonParams)
      PROVE  content \in SUBSET Entries /\ content # {}
  <2>1. \A s \in {"pagerduty", "dms", "smtp"} : sourcesSeen[s][1] \in Entries
    BY <1>2, <1>8 DEF AlertmanagerConfigContents, Usable, Sources
  <2>2. QED
    BY <1>7, <1>8, <2>1 DEF AlertmanagerConfigContents
<1>9. QED
  <2>1. CASE Steps[pc] = "onboardingSecret"
    BY <1>4, <2>1 DEF Contents
  <2>2. CASE Steps[pc] = "prometheus"
    BY <1>6, <2>2 DEF Contents
  <2>3. CASE Steps[pc] = "alertmanagerConfig"
    BY <1>8, <2>3 DEF Contents
  <2>4. CASE Steps[pc] \notin {"onboardingSecret", "prometheus", "alertmanagerConfig"}
    <3>1. Contents(Steps[pc], sourcesSeen, addonParams) = {{"template"}}
      BY <2>4 DEF Contents, Template
    <3>2. content = {"template"} /\ "template" \in Entries
      BY <3>1, AEntries
    <3>3. QED
      BY <3>2
  <2>5. QED
    BY <2>1, <2>2, <2>3, <2>4

-----------------------------------------------------------------------------
\* The end of a reconcile and the way to the next step keep types and accuracy of
\* all that is not the server's.
LEMMA EndIsTyped ==
    ASSUME ManagedTypeOK, NEW error \in BOOLEAN, End(error)
    PROVE  /\ pc' = 0 /\ queued' \in BOOLEAN /\ addonParams' = <<>>
           /\ listed' = FALSE /\ todo' = {} /\ copiesCurrent' = {}
           /\ copies' \in [Labelled -> Values]
  BY NoObjectIsValue DEF ManagedTypeOK, End, NoItems

\* Going on to the next step, or to the end, with the list emptied.
LEMMA AdvanceIsTyped ==
    ASSUME ManagedInv, Advance, pc # 0, addonParams # <<>>
    PROVE  /\ pc' \in 0 .. Len(Steps) /\ queued' \in BOOLEAN
           /\ addonParams' \in SourceValues["addonParams"] \cup {<<>>}
           /\ pc' > 1 => addonParams' # <<>>
           /\ listed' = FALSE /\ todo' = {} /\ copiesCurrent' = {}
           /\ copies' \in [Labelled -> Values]
<1>1. CASE Later = {} /\ End(FALSE)
  <2>1. 0 \in 0 .. Len(Steps)
    BY StepsBegin
  <2>2. QED
    <3>1. ManagedTypeOK /\ End(FALSE)
      BY <1>1 DEF ManagedInv
    <3>2. /\ pc' = 0 /\ queued' \in BOOLEAN /\ addonParams' = <<>>
          /\ listed' = FALSE /\ todo' = {} /\ copiesCurrent' = {}
          /\ copies' \in [Labelled -> Values]
      BY <3>1, EndIsTyped
    <3>3. QED
      BY <2>1, <3>2
<1>2. CASE GoOn /\ NoItems /\ UNCHANGED <<queued, addonParams>>
  <2>1. pc' \in 0 .. Len(Steps)
    BY <1>2, StepsBegin DEF GoOn, Later, ManagedInv, ManagedTypeOK
  <2>2. QED
    BY <1>2, <2>1, NoObjectIsValue DEF NoItems, ManagedInv, ManagedTypeOK
<1>3. QED
  BY <1>1, <1>2 DEF Advance

\* Create or update: an update is of the server's own object, a create of none.
LEMMA PutKeepsInv ==
    ASSUME ManagedInv, pc # 0, addonParams # <<>>,
           NEW o \in Owned \cup Adjusted, NEW content \in SUBSET Entries, content # {},
           Put(o, content), UNCHANGED <<sourceVars, disturbances>>
    PROVE  ManagedInv' /\ \A m \in Labelled : /\ m # o => store'[m] = store[m]
                                              /\ store[m].label => store'[m].label
<1> DEFINE want == [content |-> content, label |-> cache[o].label]
<1>1. o \in Objects /\ cache[o] \in Values /\ store[o] \in Values
  BY DEF Objects, ManagedInv, ManagedTypeOK
<1>2. want \in Values
  BY <1>1 DEF Values
<1>3. Advance \/ End(TRUE)
  BY DEF Put
<1>4. /\ pc' \in 0 .. Len(Steps) /\ queued' \in BOOLEAN
      /\ addonParams' \in SourceValues["addonParams"] \cup {<<>>}
      /\ pc' > 1 => addonParams' # <<>>
      /\ listed' = FALSE /\ todo' = {} /\ copiesCurrent' = {}
      /\ copies' \in [Labelled -> Values]
  <2>1. CASE Advance
    BY <2>1, AdvanceIsTyped
  <2>2. CASE End(TRUE)
    <3>1. ManagedTypeOK /\ 0 \in 0 .. Len(Steps) /\ ~(0 > 1)
      BY StepsBegin DEF ManagedInv
    <3>2. /\ pc' = 0 /\ queued' \in BOOLEAN /\ addonParams' = <<>>
          /\ listed' = FALSE /\ todo' = {} /\ copiesCurrent' = {}
          /\ copies' \in [Labelled -> Values]
      BY <2>2, <3>1, EndIsTyped
    <3>3. QED
      BY <3>1, <3>2
  <2>3. QED
    BY <1>3, <2>1, <2>2
<1>5. CASE UNCHANGED objectVars
  BY <1>4, <1>5, LabelledAreObjects DEF ManagedInv, ManagedTypeOK, Accurate
<1>6. CASE /\ Accepted(o) /\ UNCHANGED cache
           /\ store' = [store EXCEPT ![o] = want] /\ current' = current \ {o}
  <2>1. store' \in [Objects -> Values] /\ store'[o] = want
        /\ \A x \in Objects : x # o => store'[x] = store[x]
    BY <1>1, <1>2, <1>6 DEF ManagedInv, ManagedTypeOK
  <2>2. ManagedTypeOK'
    BY <1>4, <1>6, <2>1 DEF ManagedInv, ManagedTypeOK
  <2>3. Exists(want)
    BY DEF Exists
  <2>4. Accurate'
    BY <1>4, <1>6, <2>1, <2>3 DEF Accurate, ManagedInv, ManagedTypeOK, Exists
  <2>5. store[o].label => want.label
    BY <1>1, <1>6 DEF Accepted, Accurate, ManagedInv
  <2>6. QED
    BY <2>1, <2>2, <2>4, <2>5, LabelledAreObjects DEF ManagedInv
<1>7. QED
  BY <1>5, <1>6 DEF Put

\* What the worker keeps: the invariant, what others wrote, and every label.
Kept ==
    \A m \in Labelled : /\ m \in Others => store'[m].content = store[m].content
                        /\ store[m].label => store'[m].label

\* The end of a reconcile.
LEMMA EndKeepsInv ==
    ASSUME ManagedInv, NEW error \in BOOLEAN, End(error),
           UNCHANGED <<sourceVars, objectVars>>, disturbances' \in 0 .. MaxDisturbances
    PROVE  ManagedInv'
<1>1. ManagedTypeOK /\ 0 \in 0 .. Len(Steps) /\ ~(0 > 1)
  BY StepsBegin DEF ManagedInv
<1>2. /\ pc' = 0 /\ queued' \in BOOLEAN /\ addonParams' = <<>>
      /\ listed' = FALSE /\ todo' = {} /\ copiesCurrent' = {}
      /\ copies' \in [Labelled -> Values]
  BY <1>1, EndIsTyped
<1>3. ManagedTypeOK'
  BY <1>1, <1>2 DEF ManagedTypeOK
<1>4. Accurate'
  BY <1>1, <1>2 DEF ManagedInv, Accurate
<1>5. QED
  BY <1>3, <1>4 DEF ManagedInv

\* The step to the next call.
LEMMA AdvanceKeepsInv ==
    ASSUME ManagedInv, Advance, pc # 0, addonParams # <<>>,
           UNCHANGED <<sourceVars, objectVars, disturbances>>
    PROVE  ManagedInv'
<1>1. /\ pc' \in 0 .. Len(Steps) /\ queued' \in BOOLEAN
      /\ addonParams' \in SourceValues["addonParams"] \cup {<<>>}
      /\ pc' > 1 => addonParams' # <<>>
      /\ listed' = FALSE /\ todo' = {} /\ copiesCurrent' = {}
      /\ copies' \in [Labelled -> Values]
  BY AdvanceIsTyped
<1>2. ManagedTypeOK'
  BY <1>1 DEF ManagedInv, ManagedTypeOK
<1>3. Accurate'
  BY <1>1 DEF ManagedInv, Accurate
<1>4. QED
  BY <1>2, <1>3 DEF ManagedInv

\* After the first step the parameters have been read.
LEMMA ParamsRead ==
    ASSUME ManagedInv, NEW steps, At(steps), "addonParams" \notin steps
    PROVE  pc # 0 /\ addonParams # <<>> /\ Steps[pc] \in steps
  BY StepsBegin DEF At, ManagedInv, ManagedTypeOK, Accurate

\* A step of the worker, one case for each.
LEMMA WorkerKeepsInv == ASSUME ManagedInv, Worker PROVE ManagedInv' /\ Kept
<1> USE DEF ManagedInv
<1>1. CASE Begin
  <2>1. pc' = 1 /\ 1 \in 0 .. Len(Steps) /\ ~(1 > 1) /\ queued' = FALSE
    BY <1>1, StepsBegin DEF Begin
  <2>2. UNCHANGED <<sourceVars, objectVars, addonParams, itemVars, disturbances>>
    BY <1>1 DEF Begin
  <2>3. ManagedTypeOK'
    BY <2>1, <2>2 DEF ManagedTypeOK
  <2>4. Accurate'
    BY <2>1, <2>2 DEF Accurate
  <2>5. QED
    BY <2>2, <2>3, <2>4 DEF Kept
<1>2. CASE ReadAddonParams
  <2>1. CASE sourcesSeen["addonParams"] = <<>>
    <3>1. End(TRUE) /\ disturbances' \in 0 .. MaxDisturbances
      BY <1>2, <2>1 DEF ReadAddonParams, ManagedTypeOK
    <3>2. QED
      BY <1>2, <3>1, EndKeepsInv DEF ReadAddonParams, Kept
  <2>2. CASE sourcesSeen["addonParams"] # <<>>
    <3>1. GoOn /\ NoItems /\ addonParams' = sourcesSeen["addonParams"]
          /\ UNCHANGED <<queued, sourceVars, objectVars, disturbances>>
      BY <1>2, <2>2 DEF ReadAddonParams
    <3>2. pc' \in 0 .. Len(Steps)
      BY <3>1, StepsBegin DEF GoOn, Later, ManagedTypeOK
    <3>3. addonParams' \in SourceValues["addonParams"] /\ addonParams' # <<>>
      BY <2>2, <3>1 DEF ManagedTypeOK, Sources
    <3>4. QED
      BY <3>1, <3>2, <3>3, NoObjectIsValue DEF NoItems, ManagedTypeOK, Accurate, Kept
  <2>3. QED
    BY <2>1, <2>2
<1>3. CASE VisitOwned
  <2>1. "addonParams" \notin Owned /\ Owned \cap Others = {}
    BY AMonitors DEF Owned
  <2>2. pc # 0 /\ addonParams # <<>> /\ Steps[pc] \in Owned
    BY <1>3, <2>1, ParamsRead DEF VisitOwned
  <2>3. CASE End(TRUE) /\ UNCHANGED objectVars
    <3>1. disturbances' \in 0 .. MaxDisturbances /\ UNCHANGED sourceVars
      BY <1>3 DEF VisitOwned, ManagedTypeOK
    <3>2. QED
      BY <2>3, <3>1, EndKeepsInv DEF Kept
  <2>4. ASSUME NEW content \in Contents(Steps[pc], sourcesSeen, addonParams),
               Put(Steps[pc], content)
        PROVE  ManagedInv' /\ Kept
    <3>1. content \in SUBSET Entries /\ content # {}
      BY <1>3, ContentsAreContents DEF VisitOwned
    <3>2. UNCHANGED <<sourceVars, disturbances>>
      BY <1>3 DEF VisitOwned
    <3>3. Steps[pc] \in Owned \cup Adjusted
      BY <2>2
    <3>4. ManagedInv' /\ \A m \in Labelled : /\ m # Steps[pc] => store'[m] = store[m]
                                             /\ store[m].label => store'[m].label
      BY <2>2, <2>4, <3>1, <3>2, <3>3, PutKeepsInv
    <3>5. QED
      BY <2>1, <2>2, <3>4 DEF Kept
  <2>5. QED
    BY <1>3, <2>3, <2>4 DEF VisitOwned
<1>4. CASE VisitAdjusted
  <2>1. "addonParams" \notin Adjusted /\ Adjusted \cap Others = {}
    BY AMonitors DEF Adjusted
  <2>2. pc # 0 /\ addonParams # <<>> /\ Steps[pc] \in Adjusted
    BY <1>4, <2>1, ParamsRead DEF VisitAdjusted
  <2>3. UNCHANGED <<sourceVars, disturbances>> /\ disturbances' \in 0 .. MaxDisturbances
    BY <1>4 DEF VisitAdjusted, ManagedTypeOK
  <2>4. CASE End(TRUE) /\ UNCHANGED objectVars
    BY <2>3, <2>4, EndKeepsInv DEF Kept
  <2>5. CASE Advance /\ UNCHANGED objectVars
    BY <2>2, <2>3, <2>5, AdvanceKeepsInv DEF Kept
  <2>6. CASE Put(Steps[pc], Template)
    <3>1. Template \in SUBSET Entries /\ Template # {} /\ Steps[pc] \in Owned \cup Adjusted
      BY <2>2, AEntries DEF Template
    <3>2. ManagedInv' /\ \A m \in Labelled : /\ m # Steps[pc] => store'[m] = store[m]
                                             /\ store[m].label => store'[m].label
      BY <2>2, <2>3, <2>6, <3>1, PutKeepsInv
    <3>3. QED
      BY <2>1, <2>2, <3>2 DEF Kept
  <2>7. QED
    BY <1>4, <2>4, <2>5, <2>6 DEF VisitAdjusted
<1>5. CASE ListMonitors
  <2> DEFINE found == {m \in Monitors[Steps[pc]] : Exists(cache[m])}
  <2>1. found \subseteq Labelled
    BY <1>5, MonitorsAreLabelled DEF ListMonitors, At
  <2>2. /\ listed' = TRUE /\ todo' = found /\ copiesCurrent' = found \cap current
        /\ copies' = [m \in Labelled |-> IF m \in found THEN cache[m] ELSE NoObject]
        /\ UNCHANGED <<sourceVars, objectVars, pc, queued, addonParams, disturbances>>
    BY <1>5 DEF ListMonitors
  <2> HIDE DEF found
  <2>3. copies' \in [Labelled -> Values]
    BY <2>2, LabelledAreObjects, NoObjectIsValue DEF ManagedTypeOK
  <2>4. \A m \in copiesCurrent' : copies'[m] = store[m]
    BY <2>1, <2>2 DEF Accurate
  <2>5. \A m \in todo' : Exists(copies'[m])
    BY <2>1, <2>2 DEF found
  <2>6. QED
    BY <2>1, <2>2, <2>3, <2>4, <2>5 DEF ManagedTypeOK, Accurate, Kept
<1>6. CASE LabelMonitor
  <2>1. PICK m \in todo :
          IF m \in copiesCurrent
            THEN /\ todo' = todo \ {m}
                 /\ store' = [store EXCEPT ![m] = [copies[m] EXCEPT !.label = TRUE]]
                 /\ IF copies[m].label
                      THEN UNCHANGED <<current, copiesCurrent>>
                      ELSE current' = current \ {m} /\ copiesCurrent' = copiesCurrent \ {m}
                 /\ UNCHANGED <<cache, pc, queued, addonParams, listed, copies>>
            ELSE End(TRUE) /\ UNCHANGED objectVars
    BY <1>6 DEF LabelMonitor
  <2>2. UNCHANGED <<sourceVars, disturbances>> /\ disturbances' \in 0 .. MaxDisturbances
    BY <1>6 DEF LabelMonitor, ManagedTypeOK
  <2>3. CASE m \notin copiesCurrent
    BY <2>1, <2>2, <2>3, EndKeepsInv DEF Kept
  <2>4. CASE m \in copiesCurrent
    <3>1. m \in Labelled /\ m \in Objects /\ copies[m] = store[m] /\ store[m] \in Values
      BY <2>4, LabelledAreObjects DEF ManagedTypeOK, Accurate
    <3>2. /\ [copies[m] EXCEPT !.label = TRUE] \in Values
          /\ [copies[m] EXCEPT !.label = TRUE].content = store[m].content
          /\ [copies[m] EXCEPT !.label = TRUE].label = TRUE
          /\ copies[m].label => [copies[m] EXCEPT !.label = TRUE] = store[m]
      BY <3>1 DEF Values
    <3> DEFINE new == [copies[m] EXCEPT !.label = TRUE]
    <3>3. store' = [store EXCEPT ![m] = new]
      BY <2>1, <2>4
    <3> HIDE DEF new
    <3>4. store' \in [Objects -> Values] /\ store'[m] = new
          /\ \A x \in Objects : x # m => store'[x] = store[x]
      BY <3>1, <3>2, <3>3 DEF new, ManagedTypeOK
    <3>5. ManagedTypeOK'
      BY <2>1, <2>2, <2>4, <3>4 DEF ManagedTypeOK
    <3>6. Accurate'
      <4>1. /\ copies[m].label => UNCHANGED <<current, copiesCurrent>> /\ new = store[m]
            /\ ~copies[m].label => current' = current \ {m}
                                   /\ copiesCurrent' = copiesCurrent \ {m}
            /\ UNCHANGED <<cache, copies, pc, addonParams>>
        BY <2>1, <2>4, <3>2 DEF new
      <4>2. \A x \in Objects : ~Exists(store'[x]) => ~store'[x].label
        <5>1. Exists(store[m])
          BY <2>1, <3>1 DEF Accurate
        <5>2. QED
          BY <3>2, <3>4, <5>1 DEF new, Exists, Accurate
      <4>3. \A x \in todo' : Exists(copies'[x])
        BY <2>1, <2>4, <4>1 DEF Accurate
      <4>4. QED
        BY <3>1, <3>4, <4>1, <4>2, <4>3, LabelledAreObjects DEF Accurate, ManagedTypeOK
    <3>7. QED
      BY <3>1, <3>2, <3>4, <3>5, <3>6, LabelledAreObjects DEF new, Kept
  <2>5. QED
    BY <2>3, <2>4
<1>7. CASE FinishMonitors
  <2>1. "addonParams" \notin Kinds
    BY DEF Kinds
  <2>2. pc # 0 /\ addonParams # <<>>
    BY <1>7, <2>1, ParamsRead DEF FinishMonitors
  <2>3. QED
    BY <1>7, <2>2, AdvanceKeepsInv DEF FinishMonitors, Kept
<1>8. QED
  BY <1>1, <1>2, <1>3, <1>4, <1>5, <1>6, <1>7 DEF Worker

-----------------------------------------------------------------------------
\* Informers bring copies of what the server has.
LEMMA InformersKeepInv ==
    ASSUME ManagedInv,
           (\E o \in Objects : SyncObject(o)) \/ SyncSource \/ OtherManagedEvent
    PROVE  ManagedInv'
<1> USE DEF ManagedInv
<1>1. ASSUME NEW o \in Objects, SyncObject(o) PROVE ManagedInv'
  <2>1. /\ cache' = [cache EXCEPT ![o] = store[o]] /\ current' = current \cup {o}
        /\ UNCHANGED <<sourceVars, store, pc, addonParams, itemVars, disturbances>>
    BY <1>1 DEF SyncObject
  <2>2. queued' \in BOOLEAN
    BY <1>1 DEF SyncObject, ManagedTypeOK
  <2>3. cache' \in [Objects -> Values] /\ cache'[o] = store[o]
        /\ \A x \in Objects : x # o => cache'[x] = cache[x]
    BY <2>1 DEF ManagedTypeOK
  <2>4. ManagedTypeOK'
    BY <2>1, <2>2, <2>3 DEF ManagedTypeOK
  <2>5. Accurate'
    BY <2>1, <2>3 DEF Accurate, ManagedTypeOK
  <2>6. QED
    BY <2>4, <2>5
<1>2. CASE SyncSource
  <2>1. PICK s \in Sources : sourcesSeen' = [sourcesSeen EXCEPT ![s] = sources[s]]
    BY <1>2 DEF SyncSource
  <2>2. /\ DOMAIN sourcesSeen' = Sources
        /\ \A x \in Sources : sourcesSeen'[x] \in SourceValues[x]
    BY <2>1 DEF ManagedTypeOK
  <2>3. queued' \in BOOLEAN
        /\ UNCHANGED <<sources, objectVars, pc, addonParams, itemVars, disturbances>>
    BY <1>2 DEF SyncSource, ManagedTypeOK
  <2>4. QED
    BY <2>2, <2>3 DEF ManagedTypeOK, Accurate
<1>3. CASE OtherManagedEvent
  BY <1>3 DEF OtherManagedEvent, ManagedTypeOK, Accurate
<1>4. QED
  BY <1>1, <1>2, <1>3

\* After a write of others no copy of that object is current.
LEMMA InterferenceKeepsInv == ASSUME ManagedInv, Interference PROVE ManagedInv'
<1> USE DEF ManagedInv
<1>1. disturbances' \in 0 .. MaxDisturbances
  <2>1. disturbances < MaxDisturbances /\ disturbances' = disturbances + 1
    BY DEF Interference, ChangeSource, ChangeObject, CallFails, RestartManaged, Disturb
  <2>2. QED
    BY <2>1, AManagedDisturbances DEF ManagedTypeOK
<1>2. CASE ChangeSource
  <2>1. PICK s \in Sources : \E value \in SourceValues[s] :
          sources' = [sources EXCEPT ![s] = value]
    BY <1>2 DEF ChangeSource
  <2>2. DOMAIN sources' = Sources /\ \A x \in Sources : sources'[x] \in SourceValues[x]
    BY <2>1 DEF ManagedTypeOK
  <2>3. UNCHANGED <<sourcesSeen, objectVars, pc, queued, addonParams, itemVars>>
    BY <1>2 DEF ChangeSource
  <2>4. QED
    BY <1>1, <2>2, <2>3 DEF ManagedTypeOK, Accurate
<1>3. CASE ChangeObject
  <2>1. PICK o \in Objects :
          /\ \/ store' = [store EXCEPT ![o] = NoObject]
             \/ \E content \in {store[o].content, {"edited"}} \ {{}}, label \in BOOLEAN :
                  store' = [store EXCEPT ![o] = [content |-> content, label |-> label]]
          /\ current' = current \ {o} /\ copiesCurrent' = copiesCurrent \ {o}
    BY <1>3 DEF ChangeObject
  <2>2. PICK new \in Values : /\ store' = [store EXCEPT ![o] = new]
                              /\ ~Exists(new) => ~new.label
    <3>1. store[o].content \in SUBSET Entries /\ {"edited"} \in SUBSET Entries
      BY AEntries DEF ManagedTypeOK, Values
    <3>2. CASE store' = [store EXCEPT ![o] = NoObject]
      BY <3>2, NoObjectIsValue DEF NoObject
    <3>3. ASSUME NEW content \in {store[o].content, {"edited"}} \ {{}}, NEW label \in BOOLEAN,
                 store' = [store EXCEPT ![o] = [content |-> content, label |-> label]]
          PROVE  \E x \in Values : store' = [store EXCEPT ![o] = x]
                                   /\ (~Exists(x) => ~x.label)
      <4>1. [content |-> content, label |-> label] \in Values
        BY <3>1 DEF Values
      <4>2. Exists([content |-> content, label |-> label])
        BY DEF Exists
      <4>3. QED
        BY <3>3, <4>1, <4>2
    <3>4. QED
      BY <2>1, <3>2, <3>3
  <2>3. /\ store' \in [Objects -> Values] /\ store'[o] = new
        /\ \A x \in Objects : x # o => store'[x] = store[x]
    BY <2>2 DEF ManagedTypeOK
  <2>4. UNCHANGED <<sourceVars, cache, pc, queued, addonParams, listed, todo, copies>>
    BY <1>3 DEF ChangeObject
  <2>5. ManagedTypeOK'
    BY <1>1, <2>1, <2>3, <2>4 DEF ManagedTypeOK
  <2>6. Accurate'
    BY <2>1, <2>2, <2>3, <2>4, LabelledAreObjects DEF Accurate, ManagedTypeOK
  <2>7. QED
    BY <2>5, <2>6
<1>4. CASE CallFails
  BY <1>1, <1>4, EndKeepsInv DEF CallFails
<1>5. CASE RestartManaged
  <2>1. /\ sourcesSeen' = sources /\ cache' = store /\ current' = Objects
        /\ UNCHANGED <<sources, store>> /\ End(TRUE)
    BY <1>5 DEF RestartManaged
  <2>2. /\ pc' = 0 /\ queued' \in BOOLEAN /\ addonParams' = <<>>
        /\ listed' = FALSE /\ todo' = {} /\ copiesCurrent' = {}
        /\ copies' \in [Labelled -> Values]
    BY <2>1, EndIsTyped
  <2>3. 0 \in 0 .. Len(Steps) /\ ~(0 > 1)
    BY StepsBegin
  <2>4. ManagedTypeOK'
    BY <1>1, <2>1, <2>2, <2>3 DEF ManagedTypeOK
  <2>5. Accurate'
    BY <2>1, <2>2, <2>3 DEF Accurate
  <2>6. QED
    BY <2>4, <2>5
<1>6. QED
  BY <1>2, <1>3, <1>4, <1>5 DEF Interference

\* At the start the caches hold what the server has.
LEMMA InitEstablishesInv == ASSUME ManagedInit PROVE ManagedInv
<1>1. PICK old \in SUBSET (Others \cup Adjusted) :
        store = [o \in Objects |-> IF o \in old THEN [content |-> {"shipped"}, label |-> FALSE]
                                                ELSE NoObject]
  BY DEF ManagedInit
<1>2. [content |-> {"shipped"}, label |-> FALSE] \in Values
  BY AEntries DEF Values
<1>3. store \in [Objects -> Values] /\ \A o \in Objects : ~store[o].label
  BY <1>1, <1>2, NoObjectIsValue DEF NoObject
<1>4. pc = 0 /\ 0 \in 0 .. Len(Steps) /\ ~(0 > 1) /\ 0 \in 0 .. MaxDisturbances
  BY StepsBegin, AManagedDisturbances DEF ManagedInit
<1>5. ManagedTypeOK
  BY <1>3, <1>4, NoObjectIsValue, ASources DEF ManagedInit, ManagedTypeOK
<1>6. Accurate
  BY <1>3, <1>4 DEF ManagedInit, Accurate
<1>7. QED
  BY <1>5, <1>6 DEF ManagedInv

\* Nothing happens.
LEMMA StutteringKeepsInv == ASSUME ManagedInv, UNCHANGED managedVars PROVE ManagedInv'
  BY DEF ManagedInv, ManagedTypeOK, Accurate, managedVars

\* Accurate holds throughout.
LEMMA Invariance == ManagedSpec => []ManagedInv
<1>1. ManagedInit => ManagedInv
  BY InitEstablishesInv
<1>2. ManagedInv /\ [ManagedNext]_managedVars => ManagedInv'
  BY WorkerKeepsInv, InformersKeepInv, InterferenceKeepsInv, StutteringKeepsInv
     DEF ManagedNext
<1>3. QED
  BY <1>1, <1>2, PTL DEF ManagedSpec

\* Every reachable state has its type.
THEOREM ManagedTypeCorrect == ManagedSpec => []ManagedTypeOK
<1>1. ManagedInv => ManagedTypeOK
  BY DEF ManagedInv
<1>2. QED
  BY <1>1, Invariance, PTL

\* No step of the deployer changes what others put into a monitor or takes its label
\* away, however stale the cache and the list in hand are.
THEOREM MonitorsKept == ManagedSpec => KeepsMonitors
<1>1. ManagedInv /\ [ManagedNext]_managedVars
        => [Worker => \A m \in Labelled :
              /\ m \in Others => store'[m].content = store[m].content
              /\ store[m].label => store'[m].label]_managedVars
  BY WorkerKeepsInv DEF Kept
<1>2. QED
  BY <1>1, Invariance, PTL DEF ManagedSpec, KeepsMonitors
-----------------------------------------------------------------------------
(***************************************************************************)
(* Nothing that is not as wanted is forgotten.  When the worker waits and  *)
(* the caches are current nothing is pending, so that everything is as     *)
(* wanted; but on the way there the reason why an object will be seen to   *)
(* changes: an event is to come, then a request is queued, then the step   *)
(* is ahead, then the item of the list.                                    *)
(***************************************************************************)
\* The worker has a step still ahead, in the reconcile at hand.
Pending(step) == pc # 0 /\ \E i \in pc .. Len(Steps) : Steps[i] = step

\* It has still to come to a monitor: the list is ahead, or the item is.
MonitorPending(kind, m) ==
    /\ pc # 0
    /\ \/ \E i \in pc + 1 .. Len(Steps) : Steps[i] = kind
       \/ Steps[pc] = kind /\ (~listed \/ m \in todo)

\* The cached copy is as the sources that have been read want it.
OwnedAsWanted(o) ==
    IF o = "prometheus"
      THEN RemoteWrite(sourcesSeen) \in cache[o].content
      ELSE cache[o].content \in Contents(o, sourcesSeen, sourcesSeen["addonParams"])
AdjustedAsWanted(o) == Exists(cache[o]) => cache[o].content = Template
MonitorAsWanted(m) == Exists(cache[m]) => cache[m].label

\* What is not as wanted is attended to: the worker comes to it in this reconcile or,
\* because a request is queued or an event is to come, in a later one.
Attended ==
    ~queued =>
      /\ pc > 1 => addonParams = sourcesSeen["addonParams"]
      /\ \A o \in Owned : Pending(o) \/ o \notin current \/ OwnedAsWanted(o)
      /\ \A o \in Adjusted : Pending(o) \/ o \notin current \/ AdjustedAsWanted(o)
      /\ \A kind \in Kinds : \A m \in Monitors[kind] :
           MonitorPending(kind, m) \/ m \notin current \/ MonitorAsWanted(m)

QuietInv == ManagedInv /\ Attended

-----------------------------------------------------------------------------
\* Every object and every kind that is there has its step, and none is left out.
LEMMA StepsVisitAll ==
    /\ \A o \in Owned \cup Adjusted : o \notin Skipped /\ \E i \in 2 .. Len(Steps) : Steps[i] = o
    /\ \A kind \in Kinds : /\ \E i \in 2 .. Len(Steps) : Steps[i] = kind
                           /\ kind \in Skipped => Monitors[kind] = {}
<1>1. Steps[2] = "rookConfig" /\ Steps[16] = "ocsInitialization"
      /\ Steps[12] = "podMonitors" /\ Steps[13] = "serviceMonitors"
      /\ Steps[14] = "prometheusRules"
  BY DEF Steps
<1>2. ASSUME NEW o \in Owned PROVE o \notin Skipped /\ \E i \in 2 .. Len(Steps) : Steps[i] = o
  <2>1. PICK i \in 1 .. Len(Steps) : Steps[i] = o
    BY DEF Owned
  <2>2. i # 1 /\ o \notin Skipped
    BY <2>1, StepsBegin DEF Owned
  <2>3. QED
    BY <2>1, <2>2, StepsBegin
<1>3. ASSUME NEW o \in Adjusted PROVE o \notin Skipped /\ \E i \in 2 .. Len(Steps) : Steps[i] = o
  BY <1>1, StepsBegin DEF Adjusted
<1>4. ASSUME NEW kind \in Kinds
      PROVE  /\ \E i \in 2 .. Len(Steps) : Steps[i] = kind
             /\ kind \in Skipped => Monitors[kind] = {}
  <2>1. \E i \in 2 .. Len(Steps) : Steps[i] = kind
    BY <1>1, StepsBegin DEF Kinds
  <2>2. kind \in Skipped => kind \in Left
    BY DEF Kinds, Skipped
  <2>3. QED
    BY <2>1, <2>2, ALeft
<1>5. QED
  BY <1>2, <1>3, <1>4

\* The way to the next step passes none that has something to do.
LEMMA GoOnPassesNone ==
    ASSUME ManagedTypeOK, GoOn, NEW i \in Later
    PROVE  pc' # 0 /\ i \in pc' .. Len(Steps)
<1>1. PICK j \in Later : j <= i /\ pc' = j
  BY DEF GoOn
<1>2. pc \in Nat /\ Len(Steps) \in Nat
  BY StepsBegin DEF ManagedTypeOK
<1>3. i \in pc + 1 .. Len(Steps) /\ j \in pc + 1 .. Len(Steps)
  BY DEF Later
<1>4. QED
  BY <1>1, <1>2, <1>3

\* What is left of the steps from p on once p is done.
LEMMA StepsAfter ==
    ASSUME NEW p \in Nat, NEW n \in Nat, NEW i \in p .. n
    PROVE  i = p \/ i \in p + 1 .. n
  OBVIOUS

\* Going on to the next step passes none that is ahead.
LEMMA AdvancePassesNone ==
    ASSUME ManagedTypeOK, Advance, NEW i \in Later
    PROVE  pc' # 0 /\ i \in pc' .. Len(Steps) /\ listed' = FALSE
<1>1. GoOn /\ NoItems
  BY DEF Advance
<1>2. QED
  BY <1>1, GoOnPassesNone DEF NoItems

\* A step that leaves its own object or list as wanted, or with an event to come, may
\* go on to the next.
LEMMA AdvanceKeepsAttended ==
    ASSUME ManagedTypeOK, Attended, Advance, pc > 1,
           UNCHANGED <<sourcesSeen, cache>>, current' \subseteq current,
           Steps[pc] \in Owned => Steps[pc] \notin current' \/ OwnedAsWanted(Steps[pc]),
           Steps[pc] \in Adjusted => Steps[pc] \notin current' \/ AdjustedAsWanted(Steps[pc]),
           Steps[pc] \in Kinds => listed /\ todo = {}
    PROVE  Attended'
<1> SUFFICES ASSUME ~queued' PROVE Attended'
  BY DEF Attended
<1>1. ~queued /\ pc \in 2 .. Len(Steps)
  BY StepsBegin DEF Advance, End, ManagedTypeOK
<1>2. ASSUME NEW step, step \notin Skipped, NEW i \in pc + 1 .. Len(Steps), Steps[i] = step
      PROVE  pc' # 0 /\ i \in pc' .. Len(Steps) /\ listed' = FALSE
  <2>1. i \in Later
    BY <1>2 DEF Later
  <2>2. QED
    BY <2>1, AdvancePassesNone
<1>3. ASSUME NEW step, step \notin Skipped, Pending(step), step # Steps[pc]
      PROVE  Pending(step)'
  <2>1. PICK i \in pc .. Len(Steps) : Steps[i] = step
    BY <1>3 DEF Pending
  <2>2. i \in pc + 1 .. Len(Steps)
    BY <1>1, <1>3, <2>1, StepsBegin
  <2>3. QED
    BY <1>2, <1>3, <2>1, <2>2 DEF Pending
<1>4. pc' > 1 => addonParams' = sourcesSeen'["addonParams"]
  <2>1. pc' > 1 => addonParams' = addonParams
    BY DEF Advance, End
  <2>2. QED
    BY <1>1, <2>1 DEF Attended
<1>5. ASSUME NEW o \in Owned
      PROVE  Pending(o)' \/ o \notin current' \/ OwnedAsWanted(o)'
  <2>1. OwnedAsWanted(o) => OwnedAsWanted(o)'
    BY DEF OwnedAsWanted
  <2>2. CASE o = Steps[pc]
    BY <2>1, <2>2
  <2>3. CASE o # Steps[pc]
    <3>1. Pending(o) \/ o \notin current \/ OwnedAsWanted(o)
      BY <1>1 DEF Attended
    <3>2. o \notin Skipped
      BY StepsVisitAll
    <3>3. QED
      BY <1>3, <2>1, <2>3, <3>1, <3>2
  <2>4. QED
    BY <2>2, <2>3
<1>6. ASSUME NEW o \in Adjusted
      PROVE  Pending(o)' \/ o \notin current' \/ AdjustedAsWanted(o)'
  <2>1. AdjustedAsWanted(o) => AdjustedAsWanted(o)'
    BY DEF AdjustedAsWanted
  <2>2. CASE o = Steps[pc]
    BY <2>1, <2>2
  <2>3. CASE o # Steps[pc]
    <3>1. Pending(o) \/ o \notin current \/ AdjustedAsWanted(o)
      BY <1>1 DEF Attended
    <3>2. o \notin Skipped
      BY StepsVisitAll
    <3>3. QED
      BY <1>3, <2>1, <2>3, <3>1, <3>2
  <2>4. QED
    BY <2>2, <2>3
<1>7. ASSUME NEW kind \in Kinds, NEW m \in Monitors[kind]
      PROVE  MonitorPending(kind, m)' \/ m \notin current' \/ MonitorAsWanted(m)'
  <2>1. MonitorAsWanted(m) => MonitorAsWanted(m)'
    BY DEF MonitorAsWanted
  <2>2. MonitorPending(kind, m) \/ m \notin current \/ MonitorAsWanted(m)
    BY <1>1 DEF Attended
  <2>3. ASSUME MonitorPending(kind, m) PROVE MonitorPending(kind, m)'
    <3>1. PICK i \in pc + 1 .. Len(Steps) : Steps[i] = kind
      BY <2>3 DEF MonitorPending
    <3>2. kind \notin Skipped
      BY StepsVisitAll
    <3>3. pc' # 0 /\ i \in pc' .. Len(Steps) /\ listed' = FALSE
      BY <1>2, <3>1, <3>2
    <3>4. pc' \in Nat
      BY <1>1, StepsBegin DEF Advance, End, GoOn, Later
    <3>5. i = pc' \/ i \in pc' + 1 .. Len(Steps)
      BY <3>3, <3>4, StepsBegin, StepsAfter
    <3>6. QED
      BY <3>1, <3>3, <3>5 DEF MonitorPending
  <2>4. QED
    BY <2>1, <2>2, <2>3
<1>8. QED
  BY <1>4, <1>5, <1>6, <1>7 DEF Attended

\* An object that has just been put is as wanted in the cache, or its event is to come.
LEMMA PutKeepsAttended ==
    ASSUME ManagedTypeOK, Attended, pc > 1, Steps[pc] \in Owned \cup Adjusted,
           NEW content, Put(Steps[pc], content), UNCHANGED sourceVars,
           Steps[pc] \in Owned /\ cache[Steps[pc]].content = content
             => OwnedAsWanted(Steps[pc]),
           Steps[pc] \in Adjusted => content = Template
    PROVE  Attended'
<1>1. Steps[pc] \notin Kinds
  BY DEF Owned, Adjusted, Kinds
<1>2. CASE End(TRUE)
  BY <1>2 DEF End, Attended
<1>3. CASE Advance /\ UNCHANGED objectVars
           /\ cache[Steps[pc]] = [content |-> content, label |-> cache[Steps[pc]].label]
  <2>1. cache[Steps[pc]].content = content
    BY <1>3
  <2>2. QED
    BY <1>1, <1>3, <2>1, AdvanceKeepsAttended DEF AdjustedAsWanted
<1>4. CASE Advance /\ current' = current \ {Steps[pc]} /\ UNCHANGED cache
  BY <1>1, <1>4, AdvanceKeepsAttended
<1>5. QED
  BY <1>2, <1>3, <1>4 DEF Put

\* Only the first step reads the parameters.
LEMMA StepsAreDistinct == \A i \in 2 .. Len(Steps) : Steps[i] # "addonParams"
  BY DEF Steps

\* Wanted content is wanted as long as cache and sources are the same.
LEMMA UnchangedAsWanted ==
    ASSUME UNCHANGED <<sourcesSeen, cache>>, NEW o
    PROVE  (OwnedAsWanted(o) => OwnedAsWanted(o)') /\ (AdjustedAsWanted(o) => AdjustedAsWanted(o)')
  BY DEF OwnedAsWanted, AdjustedAsWanted

\* Whatever CSV Prometheus's image came from, the rest of it is as wanted.
LEMMA RemoteWriteIsPut ==
    ASSUME NEW read, NEW content \in PrometheusContents(read)
    PROVE  RemoteWrite(read) \in content
<1> DEFINE written == {{RemoteWrite(read), read["deployerCSVs"][i]} :
                          i \in 1 .. Len(read["deployerCSVs"])}
<1>1. PrometheusContents(read) = {} \/ PrometheusContents(read) = written
  BY Zenon DEF PrometheusContents
<1>2. content \in written
  BY <1>1
<1>3. PICK i \in 1 .. Len(read["deployerCSVs"]) :
        content = {RemoteWrite(read), read["deployerCSVs"][i]}
  BY <1>2
<1>4. QED
  BY <1>3

\* A step that needs the parameters is not the first.
LEMMA AfterTheFirstStep ==
    ASSUME ManagedTypeOK, NEW steps, At(steps), "addonParams" \notin steps
    PROVE  pc > 1 /\ pc \in 2 .. Len(Steps) /\ Steps[pc] \in steps
  BY StepsBegin DEF At, ManagedTypeOK

\* No step of the worker passes by what is not as wanted, one case for each.
LEMMA WorkerKeepsAttended == ASSUME QuietInv, Worker PROVE Attended'
<1> SUFFICES ASSUME ~queued' PROVE Attended'
  BY DEF Attended
<1>0. ManagedInv /\ ManagedTypeOK /\ Attended
  BY DEF QuietInv, ManagedInv
<1>1. CASE Begin
  <2>1. pc' = 1 /\ ~(1 > 1) /\ 1 # 0
    BY <1>1 DEF Begin
  <2>2. ASSUME NEW step, \E i \in 2 .. Len(Steps) : Steps[i] = step
        PROVE  Pending(step)' /\ \E i \in pc' + 1 .. Len(Steps) : Steps[i] = step
    <3>1. PICK i \in 2 .. Len(Steps) : Steps[i] = step
      BY <2>2
    <3>2. i \in pc' .. Len(Steps) /\ i \in pc' + 1 .. Len(Steps)
      BY <2>1, <3>1, StepsBegin
    <3>3. QED
      BY <2>1, <3>1, <3>2 DEF Pending
  <2>3. \A o \in Owned \cup Adjusted : Pending(o)'
    BY <2>2, StepsVisitAll
  <2>4. \A kind \in Kinds : \A m \in Monitors[kind] : MonitorPending(kind, m)'
    BY <2>1, <2>2, StepsVisitAll DEF MonitorPending
  <2>5. QED
    BY <2>1, <2>3, <2>4 DEF Attended
<1>2. CASE ReadAddonParams
  <2>1. GoOn /\ addonParams' = sourcesSeen["addonParams"] /\ listed' = FALSE
        /\ UNCHANGED <<queued, sourceVars, objectVars>>
    BY <1>2 DEF ReadAddonParams, End, NoItems
  <2>2. pc = 1
    BY <1>0, <1>2, StepsBegin, StepsAreDistinct DEF ReadAddonParams, At, ManagedTypeOK
  <2>3. ASSUME NEW step, step \notin Skipped, \E i \in 2 .. Len(Steps) : Steps[i] = step
        PROVE  pc' # 0 /\ \E i \in pc' .. Len(Steps) : Steps[i] = step
    <3>1. PICK i \in 2 .. Len(Steps) : Steps[i] = step
      BY <2>3
    <3>2. i \in Later
      BY <2>2, <2>3, <3>1 DEF Later
    <3>3. QED
      BY <1>0, <2>1, <3>1, <3>2, GoOnPassesNone
  <2>4. \A o \in Owned \cup Adjusted : Pending(o)'
    BY <2>3, StepsVisitAll DEF Pending
  <2>5. ASSUME NEW kind \in Kinds, NEW m \in Monitors[kind] PROVE MonitorPending(kind, m)'
    <3>1. PICK i \in pc' .. Len(Steps) : Steps[i] = kind
      BY <2>3, StepsVisitAll
    <3>2. pc' # 0 /\ pc' \in Nat
      BY <2>1, <2>2, <2>3, StepsVisitAll, StepsBegin DEF GoOn, Later
    <3>3. i = pc' \/ i \in pc' + 1 .. Len(Steps)
      BY <3>1, <3>2, StepsBegin, StepsAfter
    <3>4. QED
      BY <2>1, <3>1, <3>2, <3>3 DEF MonitorPending
  <2>6. QED
    BY <2>1, <2>4, <2>5 DEF Attended
<1>3. CASE VisitOwned
  <2>1. "addonParams" \notin Owned
    BY DEF Owned
  <2>2. pc > 1 /\ Steps[pc] \in Owned
    BY <1>0, <1>3, <2>1, AfterTheFirstStep DEF VisitOwned
  <2>3. PICK content \in Contents(Steps[pc], sourcesSeen, addonParams) : Put(Steps[pc], content)
    BY <1>3 DEF VisitOwned, End
  <2>4. ~queued /\ addonParams = sourcesSeen["addonParams"]
    <3>1. ~queued
      BY <2>3 DEF Put, Advance, End
    <3>2. QED
      BY <1>0, <2>2, <3>1 DEF Attended
  <2>5. ASSUME cache[Steps[pc]].content = content PROVE OwnedAsWanted(Steps[pc])
    <3>1. CASE Steps[pc] = "prometheus"
      <4>1. content \in PrometheusContents(sourcesSeen)
        BY <2>3, <3>1 DEF Contents
      <4>2. QED
        BY <2>5, <3>1, <4>1, RemoteWriteIsPut DEF OwnedAsWanted
    <3>2. CASE Steps[pc] # "prometheus"
      BY <2>3, <2>4, <2>5, <3>2 DEF OwnedAsWanted
    <3>3. QED
      BY <3>1, <3>2
  <2>6. Steps[pc] \notin Adjusted /\ UNCHANGED sourceVars
    BY <1>3, <2>2 DEF Owned, VisitOwned
  <2>7. QED
    BY <1>0, <2>2, <2>3, <2>5, <2>6, PutKeepsAttended
<1>4. CASE VisitAdjusted
  <2>1. "addonParams" \notin Adjusted
    BY DEF Adjusted
  <2>2. pc > 1 /\ Steps[pc] \in Adjusted /\ UNCHANGED sourceVars
    BY <1>0, <1>4, <2>1, AfterTheFirstStep DEF VisitAdjusted
  <2>3. Steps[pc] \notin Owned /\ Steps[pc] \notin Kinds
    BY <2>2 DEF Owned, Adjusted, Kinds
  <2>4. CASE Exists(cache[Steps[pc]])
    <3>1. Put(Steps[pc], Template)
      BY <1>4, <2>4 DEF VisitAdjusted
    <3>2. QED
      BY <1>0, <2>2, <2>3, <3>1, PutKeepsAttended
  <2>5. CASE ~Exists(cache[Steps[pc]])
    <3>1. Advance /\ UNCHANGED <<objectVars, sourceVars>>
      BY <1>4, <2>2, <2>5 DEF VisitAdjusted, End
    <3>2. AdjustedAsWanted(Steps[pc])
      BY <2>5 DEF AdjustedAsWanted
    <3>3. QED
      BY <1>0, <2>2, <2>3, <3>1, <3>2, AdvanceKeepsAttended
  <2>6. QED
    BY <2>4, <2>5
<1>5. CASE ListMonitors
  <2>1. /\ listed' = TRUE /\ todo' = {m \in Monitors[Steps[pc]] : Exists(cache[m])}
        /\ UNCHANGED <<sourceVars, objectVars, pc, queued, addonParams>>
    BY <1>5 DEF ListMonitors
  <2>2. ~queued
    BY <2>1
  <2>3. ASSUME NEW kind \in Kinds, NEW m \in Monitors[kind]
        PROVE  MonitorPending(kind, m)' \/ m \notin current' \/ MonitorAsWanted(m)'
    <3>1. MonitorPending(kind, m) \/ m \notin current \/ MonitorAsWanted(m)
      BY <1>0, <2>2 DEF Attended
    <3>2. CASE Steps[pc] = kind /\ Exists(cache[m])
      <4>1. m \in todo' /\ pc' # 0 /\ Steps[pc'] = kind
        BY <1>5, <2>1, <3>2 DEF ListMonitors, At
      <4>2. QED
        BY <4>1 DEF MonitorPending
    <3>3. CASE ~Exists(cache[m])
      BY <2>1, <3>3 DEF MonitorAsWanted
    <3>4. CASE Steps[pc] # kind
      BY <2>1, <3>1, <3>4 DEF MonitorPending, MonitorAsWanted
    <3>5. QED
      BY <3>2, <3>3, <3>4
  <2>4. QED
    BY <1>0, <2>1, <2>2, <2>3, UnchangedAsWanted DEF Attended, Pending
<1>6. CASE LabelMonitor
  <2>1. PICK m \in todo :
          /\ m \in copiesCurrent /\ todo' = todo \ {m}
          /\ IF copies[m].label
               THEN UNCHANGED <<current, copiesCurrent>>
               ELSE current' = current \ {m} /\ copiesCurrent' = copiesCurrent \ {m}
          /\ UNCHANGED <<sourceVars, cache, pc, queued, addonParams, listed, copies>>
    BY <1>6 DEF LabelMonitor, End
  <2>2. ~queued /\ current' \subseteq current
    BY <2>1
  <2>3. m \notin current' \/ MonitorAsWanted(m)'
    <3>1. ASSUME m \in current' PROVE cache'[m].label
      <4>1. copies[m].label /\ m \in current
        BY <2>1, <3>1
      <4>2. copies[m] = store[m] /\ cache[m] = store[m]
        BY <1>0, <2>1, <4>1 DEF ManagedInv, Accurate
      <4>3. QED
        BY <2>1, <4>1, <4>2
    <3>2. QED
      BY <3>1 DEF MonitorAsWanted
  <2>4. ASSUME NEW kind \in Kinds, NEW x \in Monitors[kind]
        PROVE  MonitorPending(kind, x)' \/ x \notin current' \/ MonitorAsWanted(x)'
    <3>1. CASE x = m
      BY <2>3, <3>1
    <3>2. CASE x # m
      <4>1. MonitorPending(kind, x) \/ x \notin current \/ MonitorAsWanted(x)
        BY <1>0, <2>2 DEF Attended
      <4>2. MonitorPending(kind, x) => MonitorPending(kind, x)'
        BY <2>1, <3>2 DEF MonitorPending
      <4>3. QED
        BY <2>1, <2>2, <4>1, <4>2 DEF MonitorAsWanted
    <3>3. QED
      BY <3>1, <3>2
  <2>5. QED
    BY <1>0, <2>1, <2>2, <2>4, UnchangedAsWanted DEF Attended, Pending
<1>7. CASE FinishMonitors
  <2>1. "addonParams" \notin Kinds
    BY DEF Kinds
  <2>2. pc > 1 /\ Steps[pc] \in Kinds
    BY <1>0, <1>7, <2>1, AfterTheFirstStep DEF FinishMonitors
  <2>3. Steps[pc] \notin Owned /\ Steps[pc] \notin Adjusted
    BY <2>2 DEF Owned, Adjusted, Kinds
  <2>4. Advance /\ listed /\ todo = {} /\ UNCHANGED <<sourceVars, objectVars>>
    BY <1>7 DEF FinishMonitors
  <2>5. QED
    BY <1>0, <2>2, <2>3, <2>4, AdvanceKeepsAttended
<1>8. QED
  BY <1>1, <1>2, <1>3, <1>4, <1>5, <1>6, <1>7 DEF Worker

\* The configuration of Alertmanager follows from its three secrets and the parameters.
LEMMA AlertmanagerReadsSecrets ==
    ASSUME NEW read, NEW other, NEW params,
           \A s \in {"pagerduty", "dms", "smtp"} : read[s] = other[s]
    PROVE  AlertmanagerConfigContents(read, params) = AlertmanagerConfigContents(other, params)
<1>1. (\A s \in {"pagerduty", "dms", "smtp"} : Usable(read[s]))
        <=> (\A s \in {"pagerduty", "dms", "smtp"} : Usable(other[s]))
  OBVIOUS
<1>2. read["dms"][1] = other["dms"][1] /\ read["smtp"][1] = other["smtp"][1]
  OBVIOUS
<1>3. QED
  BY <1>1, <1>2, Zenon DEF AlertmanagerConfigContents

\* An event queues a request, unless it brings a monitor with its label or a CSV, whose
\* image is left open.
LEMMA InformersKeepAttended ==
    ASSUME QuietInv, (\E o \in Objects : SyncObject(o)) \/ SyncSource \/ OtherManagedEvent
    PROVE  Attended'
<1> SUFFICES ASSUME ~queued' PROVE Attended'
  BY DEF Attended
<1>0. ManagedInv /\ ManagedTypeOK /\ Attended
  BY DEF QuietInv, ManagedInv
<1>1. ASSUME NEW o \in Objects, SyncObject(o) PROVE Attended'
  <2>1. /\ cache' = [cache EXCEPT ![o] = store[o]] /\ current' = current \cup {o}
        /\ ~queued /\ Passes(o) = FALSE
        /\ UNCHANGED <<sourceVars, store, pc, addonParams, itemVars>>
    BY <1>1 DEF SyncObject, Passes
  <2>2. cache'[o] = store[o] /\ \A x \in Objects : x # o => cache'[x] = cache[x]
    BY <1>0, <2>1 DEF ManagedTypeOK
  <2>3. o \in Others /\ (Exists(store[o]) => store[o].label)
    BY <2>1 DEF Passes
  <2>4. MonitorAsWanted(o)'
    BY <2>2, <2>3 DEF MonitorAsWanted
  <2>5. ASSUME NEW kind \in Kinds, NEW m \in Monitors[kind]
        PROVE  MonitorPending(kind, m)' \/ m \notin current' \/ MonitorAsWanted(m)'
    <3>1. CASE m = o
      BY <2>4, <3>1
    <3>2. CASE m # o
      <4>1. MonitorPending(kind, m) \/ m \notin current \/ MonitorAsWanted(m)
        BY <1>0, <2>1 DEF Attended
      <4>2. MonitorPending(kind, m) => MonitorPending(kind, m)'
        BY <2>1 DEF MonitorPending
      <4>3. m \in Objects
        BY MonitorsAreLabelled, LabelledAreObjects
      <4>4. MonitorAsWanted(m) => MonitorAsWanted(m)'
        BY <2>2, <3>2, <4>3 DEF MonitorAsWanted
      <4>5. QED
        BY <2>1, <3>2, <4>1, <4>2, <4>4
    <3>3. QED
      BY <3>1, <3>2
  <2>6. ASSUME NEW x \in Owned \cup Adjusted
        PROVE  /\ x # o /\ (Pending(x) => Pending(x)')
               /\ OwnedAsWanted(x) => OwnedAsWanted(x)'
               /\ AdjustedAsWanted(x) => AdjustedAsWanted(x)'
    <3>1. x # o /\ x \in Objects
      BY <2>3, AMonitors DEF Objects
    <3>2. cache'[x] = cache[x]
      BY <2>2, <3>1
    <3>3. Pending(x) => Pending(x)'
      BY <2>1 DEF Pending
    <3>4. QED
      BY <2>1, <3>1, <3>2, <3>3 DEF OwnedAsWanted, AdjustedAsWanted
  <2>7. QED
    BY <1>0, <2>1, <2>5, <2>6 DEF Attended
<1>2. CASE SyncSource
  <2>1. /\ sourcesSeen' = [sourcesSeen EXCEPT !["deployerCSVs"] = sources["deployerCSVs"]]
        /\ ~queued /\ UNCHANGED <<sources, objectVars, pc, addonParams, itemVars>>
    BY <1>2 DEF SyncSource
  <2>2. \A s \in Sources : s # "deployerCSVs" => sourcesSeen'[s] = sourcesSeen[s]
    BY <1>0, <2>1 DEF ManagedTypeOK
  <2>3. ASSUME NEW x PROVE /\ OwnedAsWanted(x) => OwnedAsWanted(x)'
                           /\ AdjustedAsWanted(x) => AdjustedAsWanted(x)'
    <3>1. OwnedAsWanted(x) => OwnedAsWanted(x)'
      <4>1. RemoteWrite(sourcesSeen') = RemoteWrite(sourcesSeen)
        BY <2>2, Zenon DEF RemoteWrite, Sources
      <4>2. x # "prometheus" => Contents(x, sourcesSeen', sourcesSeen'["addonParams"])
                                = Contents(x, sourcesSeen, sourcesSeen["addonParams"])
        <5>1. sourcesSeen'["addonParams"] = sourcesSeen["addonParams"]
          BY <2>2 DEF Sources
        <5>2. AlertmanagerConfigContents(sourcesSeen', sourcesSeen["addonParams"])
              = AlertmanagerConfigContents(sourcesSeen, sourcesSeen["addonParams"])
          BY <2>2, AlertmanagerReadsSecrets DEF Sources
        <5>3. QED
          BY <5>1, <5>2 DEF Contents
      <4>3. QED
        BY <2>1, <4>1, <4>2 DEF OwnedAsWanted
    <3>2. QED
      BY <2>1, <3>1 DEF AdjustedAsWanted
  <2>4. pc > 1 => addonParams' = sourcesSeen'["addonParams"]
    BY <1>0, <2>1, <2>2 DEF Attended, Sources
  <2>5. QED
    BY <1>0, <2>1, <2>3, <2>4 DEF Attended, Pending, MonitorPending, MonitorAsWanted
<1>3. CASE OtherManagedEvent
  BY <1>3 DEF OtherManagedEvent
<1>4. QED
  BY <1>1, <1>2, <1>3

\* Nobody writes an object without an event to come, nor ends a reconcile without a
\* request.
LEMMA InterferenceKeepsAttended == ASSUME QuietInv, Interference PROVE Attended'
<1>0. Attended
  BY DEF QuietInv
<1>1. CASE ChangeSource
  BY <1>0, <1>1 DEF ChangeSource, Attended, Pending, MonitorPending,
                    OwnedAsWanted, AdjustedAsWanted, MonitorAsWanted
<1>2. CASE ChangeObject
  <2>1. /\ current' \subseteq current
        /\ UNCHANGED <<sourceVars, cache, pc, queued, addonParams, listed, todo>>
    BY <1>2 DEF ChangeObject
  <2>2. QED
    BY <1>0, <2>1 DEF Attended, Pending, MonitorPending,
                      OwnedAsWanted, AdjustedAsWanted, MonitorAsWanted
<1>3. CASE CallFails \/ RestartManaged
  BY <1>3 DEF CallFails, RestartManaged, End, Attended
<1>4. QED
  BY <1>1, <1>2, <1>3 DEF Interference

\* Attended holds throughout.
LEMMA QuietInvariance == ManagedSpec => []QuietInv
<1>1. ManagedInit => QuietInv
  BY InitEstablishesInv DEF QuietInv, ManagedInit, Attended
<1>2. QuietInv /\ [ManagedNext]_managedVars => QuietInv'
  <2> SUFFICES ASSUME QuietInv, [ManagedNext]_managedVars PROVE QuietInv'
    OBVIOUS
  <2>1. ManagedInv
    BY DEF QuietInv
  <2>2. CASE Worker
    BY <2>1, <2>2, WorkerKeepsInv, WorkerKeepsAttended DEF QuietInv
  <2>3. CASE (\E o \in Objects : SyncObject(o)) \/ SyncSource \/ OtherManagedEvent
    BY <2>1, <2>3, InformersKeepInv, InformersKeepAttended DEF QuietInv
  <2>4. CASE Interference
    BY <2>1, <2>4, InterferenceKeepsInv, InterferenceKeepsAttended DEF QuietInv
  <2>5. CASE UNCHANGED managedVars
    <3>1. Attended'
      BY <2>5 DEF QuietInv, managedVars, Attended, Pending, MonitorPending,
                  OwnedAsWanted, AdjustedAsWanted, MonitorAsWanted
    <3>2. QED
      BY <2>1, <2>5, <3>1, StutteringKeepsInv DEF QuietInv
  <2>6. QED
    BY <2>2, <2>3, <2>4, <2>5 DEF ManagedNext
<1>3. QED
  BY <1>1, <1>2, PTL DEF ManagedSpec

\* Whenever the worker waits, nothing is queued and the caches are current, every
\* monitor of the namespace has its label and every object is as the secrets want it.
THEOREM QuiescentMonitored == ManagedSpec => []QuiescentMeansMonitored
<1>1. QuietInv => QuiescentMeansMonitored
  <2> SUFFICES ASSUME QuietInv, pc = 0, ~queued, current = Objects, sourcesSeen = sources
               PROVE  Monitored
    BY DEF QuiescentMeansMonitored
  <2>1. Attended /\ \A o \in Objects : cache[o] = store[o]
    BY DEF QuietInv, ManagedInv, Accurate
  <2>2. ASSUME NEW m \in Labelled, Exists(store[m]) PROVE store[m].label
    <3>1. PICK kind \in Kinds : m \in Monitors[kind]
      BY DEF Labelled, Others, Monitors, Kinds
    <3>2. m \in Objects
      BY LabelledAreObjects
    <3>3. MonitorAsWanted(m)
      BY <2>1, <3>1, <3>2 DEF Attended, MonitorPending
    <3>4. QED
      BY <2>1, <2>2, <3>2, <3>3 DEF MonitorAsWanted
  <2>3. ASSUME NEW o \in Owned
        PROVE  IF o = "prometheus"
                 THEN RemoteWrite(sources) \in store[o].content
                 ELSE store[o].content \in Contents(o, sources, sources["addonParams"])
    <3>1. o \in Objects
      BY DEF Objects
    <3>2. OwnedAsWanted(o)
      BY <2>1, <3>1 DEF Attended, Pending
    <3>3. QED
      BY <2>1, <3>1, <3>2 DEF OwnedAsWanted
  <2>4. ASSUME NEW o \in Adjusted, Exists(store[o]) PROVE store[o].content = Template
    <3>1. o \in Objects
      BY DEF Objects
    <3>2. QED
      BY <2>1, <2>4, <3>1 DEF Attended, Pending, AdjustedAsWanted
  <2>5. QED
    BY <2>2, <2>3, <2>4 DEF Monitored
<1>2. QED
  BY <1>1, QuietInvariance, PTL
=============================================================================
