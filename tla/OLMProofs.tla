------------------------------ MODULE OLMProofs ------------------------------
(***************************************************************************)
(* No CSV of ocs-operator stays as shipped once the worker waits, for any  *)
(* number of versions and of disturbances.  The argument (Pending): a      *)
(* cached CSV that still has to be tuned has a request queued, or is ahead *)
(* of the worker in this reconcile, or its cache will hear of a later      *)
(* version; an update that is refused puts the request back.               *)
(***************************************************************************)
EXTENDS OLMResources, TLAPS

USE DEF subVars, csvVars, loopVars

\* A copy that carries the server's current version is the server's object.
Accurate == \A c \in CSVs : csvFresh[c] => csvSeen[c] = csv[c]

\* A CSV that the cache shows as shipped is not forgotten.
Awaited(c) ==
    \/ queued \/ ~csvFresh[c]
    \/ pc \in {"readSubscription", "updateSubscription", "listCSVs"}
    \/ pc = "visitCSVs" /\ c \in todo /\ listed[c] # "tuned"

Pending ==
    \A c \in CSVs : c[1] = "ocs-operator" /\ csvSeen[c] = "shipped" => Awaited(c)

OLMInv == OLMTypeOK /\ Accurate /\ Pending

-----------------------------------------------------------------------------
\* The end of a reconcile, with the list and the copies dropped.
LEMMA EndLoopIsTyped ==
    ASSUME OLMTypeOK, NEW error \in BOOLEAN, EndLoop(error)
    PROVE  /\ pc' = "idle" /\ queued' = (queued \/ error) /\ queued' \in BOOLEAN
           /\ sub' \in Channels /\ subFresh' \in BOOLEAN /\ todo' \subseteq CSVs
           /\ listed' \in [CSVs -> CSVStates] /\ listedFresh' \in [CSVs -> BOOLEAN]
<1>1. "absent" \in Channels /\ "absent" \in CSVStates
  BY DEF Channels, CSVStates
<1>2. QED
  BY <1>1 DEF EndLoop, OLMTypeOK

\* Giving up with an error forgets nothing.
LEMMA ErrorKeepsInv ==
    ASSUME OLMInv, EndLoop(TRUE), UNCHANGED <<subVars, csvVars>>,
           disturbances' \in 0 .. MaxDisturbances
    PROVE  OLMInv'
<1>1. /\ pc' = "idle" /\ queued' = TRUE
      /\ sub' \in Channels /\ subFresh' \in BOOLEAN /\ todo' \subseteq CSVs
      /\ listed' \in [CSVs -> CSVStates] /\ listedFresh' \in [CSVs -> BOOLEAN]
  <2>1. OLMTypeOK
    BY DEF OLMInv
  <2>2. QED
    BY <2>1, EndLoopIsTyped
<1>2. OLMTypeOK'
  BY <1>1 DEF OLMInv, OLMTypeOK
<1>3. Accurate' /\ Pending'
  BY <1>1 DEF OLMInv, Accurate, Pending, Awaited
<1>4. QED
  BY <1>2, <1>3 DEF OLMInv

\* Steps of the worker: whoever is passed by has been tuned or will be heard of again.
LEMMA LoopKeepsInv == ASSUME OLMInv, Loop PROVE OLMInv'
<1> USE DEF OLMInv
<1>1. CASE BeginLoop
  BY <1>1 DEF BeginLoop, OLMTypeOK, Accurate, Pending, Awaited
<1>2. CASE ReadSubscription
  <2>1. CASE EndLoop(TRUE)
    BY <1>2, <2>1, ErrorKeepsInv DEF ReadSubscription, OLMTypeOK
  <2>2. CASE ~EndLoop(TRUE)
    <3>1. /\ pc' \in {"listCSVs", "updateSubscription"}
          /\ sub' = channelSeen /\ subFresh' = channelFresh
          /\ UNCHANGED <<queued, listed, listedFresh, todo, subVars, csvVars, disturbances>>
      BY <1>2, <2>2 DEF ReadSubscription
    <3>2. QED
      BY <3>1 DEF OLMTypeOK, Accurate, Pending, Awaited
  <2>3. QED
    BY <2>1, <2>2
<1>3. CASE UpdateSubscription
  <2>1. CASE subFresh
    <3>1. /\ pc' = "listCSVs" /\ channel' = "desired" /\ channelFresh' = FALSE
          /\ UNCHANGED <<queued, loopVars, channelSeen, othersWritten, csvVars, disturbances>>
      BY <1>3, <2>1 DEF UpdateSubscription
    <3>2. QED
      BY <3>1 DEF OLMTypeOK, Channels, Accurate, Pending, Awaited
  <2>2. CASE ~subFresh
    <3>1. EndLoop(TRUE) /\ UNCHANGED <<subVars, csvVars, disturbances>>
      BY <1>3, <2>2 DEF UpdateSubscription
    <3>2. QED
      BY <3>1, ErrorKeepsInv DEF OLMTypeOK
  <2>3. QED
    BY <2>1, <2>2
<1>4. CASE ListCSVs
  <2>1. /\ pc' = "visitCSVs" /\ listed' = csvSeen /\ listedFresh' = csvFresh
        /\ todo' = {c \in CSVs : csvSeen[c] # "absent"}
        /\ UNCHANGED <<subVars, csvVars, queued, sub, subFresh, disturbances>>
    BY <1>4 DEF ListCSVs
  <2>2. QED
    BY <2>1 DEF OLMTypeOK, Accurate, Pending, Awaited
<1>5. CASE VisitCSV
  <2>1. PICK c \in todo :
          IF listed[c] # "tuned" /\ ~listedFresh[c]
            THEN EndLoop(TRUE) /\ UNCHANGED <<csv, csvFresh>>
            ELSE /\ IF listed[c] = "tuned"
                      THEN UNCHANGED <<csv, csvFresh>>
                      ELSE /\ csv' = [csv EXCEPT ![c] = "tuned"]
                           /\ csvFresh' = [csvFresh EXCEPT ![c] = FALSE]
                 /\ todo' = todo \ {c}
                 /\ UNCHANGED <<pc, queued, sub, subFresh, listed, listedFresh>>
    BY <1>5 DEF VisitCSV
  <2>2. pc = "visitCSVs" /\ UNCHANGED <<subVars, csvSeen, disturbances>>
    BY <1>5 DEF VisitCSV
  <2>3. CASE listed[c] # "tuned" /\ ~listedFresh[c]
    BY <2>1, <2>2, <2>3, ErrorKeepsInv DEF OLMTypeOK
  <2>4. CASE listed[c] = "tuned"
    BY <2>1, <2>2, <2>4 DEF OLMTypeOK, Accurate, Pending, Awaited
  <2>5. CASE listed[c] # "tuned" /\ listedFresh[c]
    <3>1. /\ csv' = [csv EXCEPT ![c] = "tuned"]
          /\ csvFresh' = [csvFresh EXCEPT ![c] = FALSE]
          /\ todo' = todo \ {c}
          /\ UNCHANGED <<pc, queued, sub, subFresh, listed, listedFresh>>
      BY <2>1, <2>5
    <3>2. OLMTypeOK'
      BY <2>2, <3>1 DEF OLMTypeOK, CSVStates
    <3>3. Accurate' /\ Pending'
      BY <2>2, <3>1 DEF OLMTypeOK, Accurate, Pending, Awaited
    <3>4. QED
      BY <3>2, <3>3
  <2>6. QED
    BY <2>3, <2>4, <2>5
<1>6. CASE FinishLoop
  <2>1. /\ pc = "visitCSVs" /\ todo = {} /\ EndLoop(FALSE)
        /\ UNCHANGED <<subVars, csvVars, disturbances>>
    BY <1>6 DEF FinishLoop
  <2>2. /\ pc' = "idle" /\ queued' = queued
        /\ sub' \in Channels /\ subFresh' \in BOOLEAN /\ todo' \subseteq CSVs
        /\ listed' \in [CSVs -> CSVStates] /\ listedFresh' \in [CSVs -> BOOLEAN]
    <3>1. OLMTypeOK /\ EndLoop(FALSE)
      BY <2>1
    <3>2. /\ pc' = "idle" /\ queued' = (queued \/ FALSE)
          /\ sub' \in Channels /\ subFresh' \in BOOLEAN /\ todo' \subseteq CSVs
          /\ listed' \in [CSVs -> CSVStates] /\ listedFresh' \in [CSVs -> BOOLEAN]
      BY <3>1, EndLoopIsTyped
    <3>3. QED
      BY <3>2, <2>1 DEF OLMTypeOK
  <2>3. OLMTypeOK'
    BY <2>1, <2>2 DEF OLMTypeOK
  <2>4. Accurate' /\ Pending'
    BY <2>1, <2>2 DEF Accurate, Pending, Awaited
  <2>5. QED
    BY <2>3, <2>4
<1>7. QED
  BY <1>1, <1>2, <1>3, <1>4, <1>5, <1>6 DEF Loop

\* The informers queue the request when a CSV of ocs-operator has changed.
LEMMA InformersKeepInv ==
    ASSUME OLMInv, SyncSubscription \/ SyncOtherSubscriptions \/ SyncCSV \/ OtherOLMEvent
    PROVE  OLMInv'
<1> USE DEF OLMInv
<1>1. CASE SyncSubscription
  BY <1>1 DEF SyncSubscription, OLMTypeOK, Accurate, Pending, Awaited
<1>2. CASE SyncOtherSubscriptions
  BY <1>2 DEF SyncOtherSubscriptions, OLMTypeOK, Accurate, Pending, Awaited
<1>3. CASE SyncCSV
  <2>1. PICK c \in CSVs :
          /\ csvSeen' = [csvSeen EXCEPT ![c] = csv[c]]
          /\ csvFresh' = [csvFresh EXCEPT ![c] = TRUE]
          /\ queued' = (queued \/ c[1] = "ocs-operator")
          /\ UNCHANGED <<subVars, csv, pc, loopVars, disturbances>>
    BY <1>3 DEF SyncCSV
  <2>2. queued' \in BOOLEAN /\ (queued => queued')
    BY <2>1 DEF OLMTypeOK
  <2>3. OLMTypeOK'
    BY <2>1, <2>2 DEF OLMTypeOK
  <2>4. Accurate'
    BY <2>1 DEF OLMTypeOK, Accurate
  <2>5. Pending'
    BY <2>1, <2>2 DEF OLMTypeOK, Pending, Awaited
  <2>6. QED
    BY <2>3, <2>4, <2>5
<1>4. CASE OtherOLMEvent
  BY <1>4 DEF OtherOLMEvent, OLMTypeOK, Accurate, Pending, Awaited
<1>5. QED
  BY <1>1, <1>2, <1>3, <1>4

\* A write of another client is an event that is still to come.
LEMMA WriteKeepsInv ==
    ASSUME OLMInv, NEW c \in CSVs, NEW s \in CSVStates,
           csv' = [csv EXCEPT ![c] = s], Written(c),
           othersWritten' \in BOOLEAN, disturbances' \in 0 .. MaxDisturbances,
           UNCHANGED <<channel, channelSeen, channelFresh, csvSeen, pc, queued, sub,
                       subFresh, listed, todo>>
    PROVE  OLMInv'
<1> USE DEF OLMInv
<1>1. OLMTypeOK'
  BY DEF OLMTypeOK, Written
<1>2. Accurate' /\ Pending'
  BY DEF OLMTypeOK, Written, Accurate, Pending, Awaited
<1>3. QED
  BY <1>1, <1>2

\* Steps of OLM, the informers, users, failures and restarts.
LEMMA SurroundingsKeepInv == ASSUME OLMInv, Surroundings PROVE OLMInv'
<1> USE DEF OLMInv
<1>1. Disturb => disturbances' \in 0 .. MaxDisturbances
  <2>1. Disturb => disturbances < MaxDisturbances /\ disturbances' = disturbances + 1
    BY DEF Disturb
  <2>2. QED
    BY <2>1, AOLMDisturbances DEF OLMTypeOK
<1>2. "shipped" \in CSVStates /\ "absent" \in CSVStates /\ "tuned" \in CSVStates
  BY DEF CSVStates
<1>3. CASE InstallCSV
  <2>1. PICK c \in CSVs :
          /\ Disturb /\ csv' = [csv EXCEPT ![c] = "shipped"] /\ Written(c)
          /\ UNCHANGED <<subVars, csvSeen, pc, queued, sub, subFresh, listed, todo>>
    BY <1>3 DEF InstallCSV
  <2>2. QED
    BY <1>1, <1>2, <2>1, WriteKeepsInv DEF OLMTypeOK
<1>4. CASE ReplaceCSV
  <2>1. PICK c \in CSVs :
          /\ csv' = [csv EXCEPT ![c] = "absent"] /\ Written(c) /\ othersWritten' = TRUE
          /\ UNCHANGED <<channel, channelSeen, channelFresh, csvSeen, pc, queued, sub,
                         subFresh, listed, todo, disturbances>>
    BY <1>4 DEF ReplaceCSV
  <2>2. QED
    BY <1>2, <2>1, WriteKeepsInv DEF OLMTypeOK
<1>5. CASE WriteCSV
  <2>1. PICK c \in CSVs, s \in {"shipped", "tuned"} :
          /\ Disturb /\ csv' = [csv EXCEPT ![c] = s] /\ Written(c)
          /\ UNCHANGED <<subVars, csvSeen, pc, queued, sub, subFresh, listed, todo>>
    BY <1>5 DEF WriteCSV
  <2>2. s \in CSVStates
    BY <1>2
  <2>3. QED
    BY <1>1, <2>1, <2>2, WriteKeepsInv DEF OLMTypeOK
<1>6. CASE WriteSubscription
  BY <1>1, <1>6 DEF WriteSubscription, OLMTypeOK, Accurate, Pending, Awaited
<1>7. CASE LoopFails
  BY <1>1, <1>7, ErrorKeepsInv DEF LoopFails
<1>8. CASE RestartLoop
  <2>1. /\ Disturb /\ EndLoop(TRUE) /\ channelSeen' = channel /\ channelFresh' = TRUE
        /\ csvSeen' = csv /\ csvFresh' = [c \in CSVs |-> TRUE]
        /\ othersWritten' = FALSE /\ UNCHANGED <<channel, csv>>
    BY <1>8 DEF RestartLoop
  <2>2. /\ pc' = "idle" /\ queued' = TRUE
        /\ sub' \in Channels /\ subFresh' \in BOOLEAN /\ todo' \subseteq CSVs
        /\ listed' \in [CSVs -> CSVStates] /\ listedFresh' \in [CSVs -> BOOLEAN]
    BY <2>1, EndLoopIsTyped
  <2>3. OLMTypeOK'
    BY <1>1, <2>1, <2>2 DEF OLMTypeOK
  <2>4. Accurate' /\ Pending'
    BY <2>1, <2>2 DEF Accurate, Pending, Awaited
  <2>5. QED
    BY <2>3, <2>4
<1>9. QED
  BY <1>3, <1>4, <1>5, <1>6, <1>7, <1>8 DEF Surroundings

\* A worker that starts has a request queued.
LEMMA InitEstablishesInv == ASSUME OLMInit PROVE OLMInv
<1>1. 0 \in 0 .. MaxDisturbances /\ {"desired", "other", "absent"} \subseteq Channels
      /\ {"shipped", "absent"} \subseteq CSVStates
  BY AOLMDisturbances DEF Channels, CSVStates
<1>2. OLMTypeOK
  BY <1>1 DEF OLMInit, OLMTypeOK
<1>3. Accurate /\ Pending
  BY DEF OLMInit, Accurate, Pending, Awaited
<1>4. QED
  BY <1>2, <1>3 DEF OLMInv

\* Pending holds throughout.
LEMMA Invariance == OLMSpec => []OLMInv
<1>1. OLMInit => OLMInv
  BY InitEstablishesInv
<1>2. OLMInv /\ [OLMNext]_olmVars => OLMInv'
  <2> SUFFICES ASSUME OLMInv, [OLMNext]_olmVars PROVE OLMInv'
    OBVIOUS
  <2>1. CASE OLMNext
    BY <2>1, LoopKeepsInv, InformersKeepInv, SurroundingsKeepInv DEF OLMNext
  <2>2. CASE UNCHANGED olmVars
    BY <2>2 DEF OLMInv, OLMTypeOK, Accurate, Pending, Awaited, olmVars
  <2>3. QED
    BY <2>1, <2>2
<1>3. QED
  BY <1>1, <1>2, PTL DEF OLMSpec

-----------------------------------------------------------------------------
\* Every reachable state has its type.
THEOREM OLMTypeCorrect == OLMSpec => []OLMTypeOK
<1>1. OLMInv => OLMTypeOK
  BY DEF OLMInv
<1>2. QED
  BY <1>1, Invariance, PTL

\* Whatever OLM, users, failures and restarts do to the CSVs while a loop works on an
\* older list of them, none of ocs-operator is left as shipped.
THEOREM OCSOperatorTuned == OLMSpec => []QuiescentMeansTuned
<1>1. OLMInv => QuiescentMeansTuned
  <2> SUFFICES ASSUME OLMInv, pc = "idle", ~queued, \A c \in CSVs : csvFresh[c],
                      NEW v \in 1 .. MaxVersion
               PROVE  csv[<<"ocs-operator", v>>] # "shipped"
    BY DEF QuiescentMeansTuned
  <2> DEFINE c == <<"ocs-operator", v>>
  <2>1. c \in CSVs /\ c[1] = "ocs-operator"
    BY DEF CSVs, Operators
  <2>2. csvFresh[c] /\ csvSeen[c] = csv[c]
    BY <2>1 DEF OLMInv, Accurate
  <2>3. ~Awaited(c)
    BY <2>2 DEF Awaited
  <2>4. QED
    BY <2>1, <2>2, <2>3 DEF OLMInv, Pending
<1>2. QED
  BY <1>1, Invariance, PTL
=============================================================================
