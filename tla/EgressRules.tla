----------------------------- MODULE EgressRules -----------------------------
(***************************************************************************)
(* What the cluster may talk to: the aws-data-gather process copies the    *)
(* VPC's address blocks from the instance metadata service (IMDS) into the *)
(* ConfigMap aws-data; the deployer copies them, and the hosts named by    *)
(* the dead man's snitch (DMS) and SMTP secrets, into the rules of the     *)
(* EgressFirewall and of the EgressNetworkPolicy.                          *)
(*                                                                         *)
(* The secrets and the ConfigMap are only read by the deployer: a cache is *)
(* behind while its value differs.  A policy is also written, so each copy *)
(* of it has a BOOLEAN: is it the server's current version?  The other     *)
(* steps of a reconcile are those of module Reconciler.                    *)
(***************************************************************************)
EXTENDS Naturals, Sequences

CONSTANTS
    DMSHosts,         \* the hosts that the secret of the dead man's snitch may name
    SMTPHosts,        \* and those that the SMTP secret may name
    Blocks,           \* the address blocks that a VPC may have
    Answers,          \* the answers of IMDS: sequences of lines, some empty
    Available,        \* AvailableCRDs: the policies this cluster knows
    Converged,        \* DeploymentType = "converged"
    MaxSleep,         \* maxSleep, 300 in the code
    MaxFailures,      \* bound: attempts of the gatherer that fail in a row by
                      \* themselves
    MaxDisturbances   \* bound: changes by others, failed calls of the deployer
                      \* and restarts

\* An answer of IMDS is what it should be or the page of an HTTP error, whose
\* status code nobody looks at.
Kinds == {"EgressFirewall", "EgressNetworkPolicy"}
Lines == Blocks \cup {"emptyLine", "errorPage"}

ASSUME AHosts == {"absent", "malformed", "0.0.0.0/0"} \cap (DMSHosts \cup SMTPHosts) = {}
ASSUME ABlocks == {"emptyLine", "0.0.0.0/0"} \cap Blocks = {}
ASSUME AAnswers == Answers \subseteq Seq(Lines)
ASSUME AAvailable == Available \subseteq Kinds
ASSUME AConverged == Converged \in BOOLEAN
ASSUME AMaxSleep == MaxSleep \in Nat \ {0}
ASSUME AMaxFailures == MaxFailures \in Nat
ASSUME AEgressDisturbances == MaxDisturbances \in Nat

VARIABLES
    vpc,                              \* the answer IMDS has
    gpc, fetched,                     \* the gatherer: its step, cidr
    awsCopy, awsCopyFresh,            \* its copy of the ConfigMap
    backoff, sleep,                   \* its waits
    failures,                         \* history: failed attempts since the last
                                      \* success, or since it started
    aws, awsSeen,                     \* the ConfigMap: server and deployer's cache
    dms, dmsSeen, smtp, smtpSeen,     \* the secrets
    policy, policySeen, policyFresh,  \* the policies, by kind
    pc, queued,
    dmsSecret, smtpSecret,            \* deadMansSnitchSecret, smtpSecret
    copy, copyFresh, desired,         \* the policy at hand and its new rules
    disturbances

gathererVars == <<gpc, fetched, awsCopy, awsCopyFresh, backoff, sleep, failures>>
sourceVars   == <<aws, dms, smtp>>
sourceSeen   == <<awsSeen, dmsSeen, smtpSeen>>
policyVars   == <<policy, policySeen, policyFresh>>
localVars    == <<dmsSecret, smtpSecret, copy, copyFresh, desired>>
egressVars   == <<vpc, gathererVars, sourceVars, sourceSeen, policyVars, pc, queued,
                  localVars, disturbances>>

-----------------------------------------------------------------------------
(***************************************************************************)
(* Rules                                                                   *)
(***************************************************************************)
\* A secret names a host, is absent (or its entry is), or is no URL with a host.
DMSValues  == DMSHosts \cup {"absent", "malformed"}
SMTPValues == SMTPHosts \cup {"absent"}

ErrorPage == <<"errorPage">>

\* The ConfigMap, with or without the key vpc-cidr.
AWSData == [state : {"absent", "keyless", "data"}, lines : Answers \cup {<<>>, ErrorPage}]
NoAWSData == [state |-> "absent", lines |-> <<>>]

Fixed == {"rhobs", "sso", "events.pagerduty.com", "100.64.0.0/16"}
Destinations == DMSHosts \cup SMTPHosts \cup Blocks \cup Fixed
                  \cup {"errorPage", "0.0.0.0/0"}
Rules == [to : Destinations, allow : BOOLEAN]
Allow(to) == [to |-> to, allow |-> TRUE]
AllowAll(tos) == [i \in 1 .. Len(tos) |-> Allow(tos[i])]

Policies == [exists : BOOLEAN, rules : Seq(Rules)]
NoPolicy == [exists |-> FALSE, rules |-> <<>>]

\* EgressFirewallTemplate, EgressNetworkPolicyTemplate
Template == AllowAll(<<"events.pagerduty.com", "100.64.0.0/16">>)
              \o <<[to |-> "0.0.0.0/0", allow |-> FALSE]>>

\* Mutant of CIDRList: an empty line is taken for an address block.
CIDRListRaw(lines) == lines

\* The blocks of an answer; the newlines between them travel as semicolons.
CIDRList(lines) ==
  LET first[n \in 0 .. Len(lines)] ==   \* those of the first n lines
        IF n = 0 THEN <<>>
        ELSE IF lines[n] = "emptyLine" THEN first[n - 1] ELSE Append(first[n - 1], lines[n])
  IN first[Len(lines)]

DesiredRules(dmsHost, smtpHost, lines) ==
    AllowAll(<<dmsHost, smtpHost, "rhobs", "sso">>) \o AllowAll(CIDRList(lines))
      \o Template

\* The destinations of the rules that let them pass: the first rule that covers a
\* destination decides, and 0.0.0.0/0 covers them all.
Permitted(rules) ==
    {rules[i].to : i \in {n \in 1 .. Len(rules) :
                            /\ rules[n].allow
                            /\ \A m \in 1 .. n - 1 :
                                  rules[m].to \notin {rules[n].to, "0.0.0.0/0"}}}

-----------------------------------------------------------------------------
(***************************************************************************)
(* cmd/awsDataGather                                                       *)
(***************************************************************************)
Smaller(a, b) == IF a < b THEN a ELSE b

\* Mutant of Attempted: a success does not reset the backoff.
AttemptedKept(success) ==
    /\ gpc' = "sleep" /\ fetched' = <<>>
    /\ awsCopy' = NoAWSData /\ awsCopyFresh' = FALSE
    /\ IF success
         THEN sleep' = MaxSleep /\ backoff' = backoff /\ failures' = 0
         ELSE /\ sleep' = backoff
              /\ backoff' = Smaller(2 * backoff, MaxSleep)
              /\ failures' = failures + 1

\* The end of an attempt: how long to wait for the next one.
Attempted(success) ==
    /\ gpc' = "sleep" /\ fetched' = <<>>
    /\ awsCopy' = NoAWSData /\ awsCopyFresh' = FALSE
    /\ IF success
         THEN sleep' = MaxSleep /\ backoff' = 1 /\ failures' = 0
         ELSE /\ sleep' = backoff
              /\ backoff' = Smaller(2 * backoff, MaxSleep)
              /\ failures' = failures + 1

Gathered == UNCHANGED <<vpc, dms, smtp, sourceSeen, policyVars, pc, queued, localVars>>

\* The first attempt follows the start, each other one a sleep.
Fetch ==
    /\ gpc \in {"start", "sleep"}
    /\ gpc' = "get" /\ fetched' = vpc
    /\ UNCHANGED <<awsCopy, awsCopyFresh, backoff, sleep, failures, aws, disturbances>>
    /\ Gathered

\* Not through a cache: the copy is current for a moment.
GetAWSData ==
    /\ gpc = "get" /\ gpc' = "save"
    /\ awsCopy' = aws /\ awsCopyFresh' = TRUE
    /\ UNCHANGED <<fetched, backoff, sleep, failures, aws, disturbances>>
    /\ Gathered

\* Mutant of SaveAWSData: a ConfigMap that exists is left as it is.
SaveAWSDataOnce ==
    /\ gpc = "save"
    /\ IF awsCopyFresh
         THEN /\ aws' = IF awsCopy.state = "absent"
                          THEN [state |-> "data", lines |-> fetched] ELSE aws
              /\ Attempted(TRUE)
         ELSE UNCHANGED aws /\ Attempted(FALSE)
    /\ UNCHANGED disturbances
    /\ Gathered

\* A copy that is as desired is not written; a ConfigMap that was created,
\* written or deleted since it was read refuses the write.
SaveAWSData ==
    LET new == [state |-> "data", lines |-> fetched] IN
    /\ gpc = "save"
    /\ \/ awsCopy = new /\ UNCHANGED aws /\ Attempted(TRUE)
       \/ awsCopy # new /\ awsCopyFresh /\ aws' = new /\ Attempted(TRUE)
       \/ awsCopy # new /\ ~awsCopyFresh /\ UNCHANGED aws /\ Attempted(FALSE)
    /\ UNCHANGED disturbances
    /\ Gathered

Gatherer == Fetch \/ GetAWSData \/ SaveAWSData

-----------------------------------------------------------------------------
(***************************************************************************)
(* The deployer                                                            *)
(***************************************************************************)
\* Mutant of EndEgress: initReconciler keeps the secrets it has.
EndEgressKept(error) ==
    /\ pc' = "idle" /\ queued' = (queued \/ error)
    /\ UNCHANGED <<dmsSecret, smtpSecret>>
    /\ copy' = NoPolicy /\ copyFresh' = FALSE /\ desired' = <<>>

\* The end of a reconcile; initReconciler forgets the objects before the next.
EndEgress(error) ==
    /\ pc' = "idle" /\ queued' = (queued \/ error)
    /\ dmsSecret' = "absent" /\ smtpSecret' = "absent"
    /\ copy' = NoPolicy /\ copyFresh' = FALSE /\ desired' = <<>>

Reconciled == UNCHANGED <<vpc, gathererVars, sourceVars, sourceSeen>>

BeginEgress ==
    /\ pc = "idle" /\ queued
    /\ pc' = "loadSecrets" /\ queued' = FALSE
    /\ UNCHANGED <<policyVars, localVars, disturbances>>
    /\ Reconciled

\* reconcileAlertmanagerConfig, the first to need the secrets, reads those that this
\* reconcile has not read (the later steps ask the same) and fails unless each has
\* an entry.
LoadSecrets ==
    /\ pc = "loadSecrets"
    /\ LET dmsRead  == IF dmsSecret = "absent" THEN dmsSeen ELSE dmsSecret
           smtpRead == IF smtpSecret = "absent" THEN smtpSeen ELSE smtpSecret
       IN
       IF "absent" \in {dmsRead, smtpRead}
         THEN EndEgress(TRUE)
         ELSE /\ dmsSecret' = dmsRead /\ smtpSecret' = smtpRead
              /\ pc' = "EgressFirewall"
              /\ UNCHANGED <<queued, copy, copyFresh, desired>>
    /\ UNCHANGED <<policyVars, disturbances>>
    /\ Reconciled

\* After the policy of a kind comes the other one, then the rest of the reconcile.
GoOn(kind) ==
    IF kind = "EgressFirewall"
      THEN /\ pc' = "EgressNetworkPolicy" /\ copy' = NoPolicy
           /\ copyFresh' = FALSE /\ desired' = <<>>
           /\ UNCHANGED <<queued, dmsSecret, smtpSecret>>
      ELSE EndEgress(FALSE)

Writing == [EgressFirewall      |-> "writeEgressFirewall",
            EgressNetworkPolicy |-> "writeEgressNetworkPolicy"]

SkipPolicy ==
    \E kind \in Kinds \ Available :
      /\ pc = kind
      /\ GoOn(kind)
      /\ UNCHANGED <<policyVars, disturbances>>
      /\ Reconciled

\* CreateOrUpdate reads the policy and computes its rules from the ConfigMap in the
\* cache (unless converged) and the secrets read before.
PreparePolicy ==
    \E kind \in Available :
      /\ pc = kind
      /\ IF (~Converged /\ awsSeen.state # "data") \/ dmsSecret = "malformed"
           THEN EndEgress(TRUE)
           ELSE /\ pc' = Writing[kind]
                /\ copy' = policySeen[kind] /\ copyFresh' = policyFresh[kind]
                /\ desired' = DesiredRules(dmsSecret, smtpSecret,
                                           IF Converged THEN <<>> ELSE awsSeen.lines)
                /\ UNCHANGED <<queued, dmsSecret, smtpSecret>>
      /\ UNCHANGED <<policyVars, disturbances>>
      /\ Reconciled

\* A create needs a policy that is not there, an update a copy that is current.
WritePolicy ==
    \E kind \in Available :
      /\ pc = Writing[kind]
      /\ \/ /\ copy.exists /\ copy.rules = desired
            /\ GoOn(kind) /\ UNCHANGED <<policy, policyFresh>>
         \/ /\ IF copy.exists THEN copy.rules # desired /\ copyFresh
                              ELSE ~policy[kind].exists
            /\ policy' = [policy EXCEPT ![kind] = [exists |-> TRUE, rules |-> desired]]
            /\ policyFresh' = [policyFresh EXCEPT ![kind] = FALSE]
            /\ GoOn(kind)
         \/ /\ IF copy.exists THEN copy.rules # desired /\ ~copyFresh
                              ELSE policy[kind].exists
            /\ EndEgress(TRUE) /\ UNCHANGED <<policy, policyFresh>>
      /\ UNCHANGED <<policySeen, disturbances>>
      /\ Reconciled

EgressWorker == BeginEgress \/ LoadSecrets \/ SkipPolicy \/ PreparePolicy \/ WritePolicy

-----------------------------------------------------------------------------
(***************************************************************************)
(* Informers, with the predicates of SetupWithManager: each event of these *)
(* objects queues the request.                                             *)
(***************************************************************************)
SyncSources ==
    /\ \/ awsSeen # aws /\ awsSeen' = aws /\ UNCHANGED <<dmsSeen, smtpSeen>>
       \/ dmsSeen # dms /\ dmsSeen' = dms /\ UNCHANGED <<awsSeen, smtpSeen>>
       \/ smtpSeen # smtp /\ smtpSeen' = smtp /\ UNCHANGED <<awsSeen, dmsSeen>>
    /\ queued' = TRUE
    /\ UNCHANGED <<vpc, gathererVars, sourceVars, policyVars, pc, localVars, disturbances>>

SyncPolicy ==
    /\ \E kind \in Available :
         /\ ~policyFresh[kind]
         /\ policySeen' = [policySeen EXCEPT ![kind] = policy[kind]]
         /\ policyFresh' = [policyFresh EXCEPT ![kind] = TRUE]
    /\ queued' = TRUE
    /\ UNCHANGED <<vpc, gathererVars, sourceVars, sourceSeen, policy, pc, localVars,
                   disturbances>>

\* Anything else that is owned or watched, and the periodic resync.
OtherEgressEvent ==
    /\ ~queued /\ queued' = TRUE
    /\ UNCHANGED <<vpc, gathererVars, sourceVars, sourceSeen, policyVars, pc, localVars,
                   disturbances>>

-----------------------------------------------------------------------------
(***************************************************************************)
(* AWS, users and failures                                                 *)
(***************************************************************************)
Disturb == disturbances < MaxDisturbances /\ disturbances' = disturbances + 1

\* The VPC is given other address blocks.
ChangeVPC ==
    /\ Disturb
    /\ vpc' \in Answers
    /\ UNCHANGED <<gathererVars, sourceVars, sourceSeen, policyVars, pc, queued, localVars>>

\* IMDS answers with an HTTP error, which passes for an answer, or not at all; or
\* the API server fails.
FetchErrorPage ==
    /\ gpc \in {"start", "sleep"} /\ Disturb
    /\ gpc' = "get" /\ fetched' = ErrorPage
    /\ UNCHANGED <<awsCopy, awsCopyFresh, backoff, sleep, failures, aws>>
    /\ Gathered

GatherFails ==
    /\ failures < MaxFailures
    /\ Attempted(FALSE)
    /\ UNCHANGED <<aws, disturbances>>
    /\ Gathered

RestartGatherer ==
    /\ Disturb
    /\ gpc' = "start" /\ fetched' = <<>>
    /\ awsCopy' = NoAWSData /\ awsCopyFresh' = FALSE
    /\ backoff' = 1 /\ sleep' = 0 /\ failures' = 0
    /\ UNCHANGED aws
    /\ Gathered

\* Users edit or delete what the rules come from, and the policies.
EditAWSData ==
    /\ Disturb
    /\ \/ aws' = NoAWSData
       \/ aws.state # "absent" /\ aws' = [state |-> "keyless", lines |-> <<>>]
       \/ \E lines \in Answers : aws' = [state |-> "data", lines |-> lines]
    /\ awsCopyFresh' = FALSE
    /\ UNCHANGED <<vpc, gpc, fetched, awsCopy, backoff, sleep, failures, dms, smtp,
                   sourceSeen, policyVars, pc, queued, localVars>>

EditSecret ==
    /\ Disturb
    /\ \/ dms' \in DMSValues /\ UNCHANGED smtp
       \/ smtp' \in SMTPValues /\ UNCHANGED dms
    /\ UNCHANGED <<vpc, gathererVars, aws, sourceSeen, policyVars, pc, queued, localVars>>

EditPolicy ==
    /\ Disturb
    /\ \E kind \in Available :
         /\ policy[kind].exists
         /\ \E edited \in {NoPolicy, [exists |-> TRUE, rules |-> <<>>]} :
              policy' = [policy EXCEPT ![kind] = edited]
         /\ policyFresh' = [policyFresh EXCEPT ![kind] = FALSE]
         /\ copyFresh' = (copyFresh /\ pc # Writing[kind])
    /\ UNCHANGED <<vpc, gathererVars, sourceVars, sourceSeen, policySeen, pc, queued,
                   dmsSecret, smtpSecret, copy, desired>>

\* Any call of the reconcile fails, these or those of its other steps.
EgressFails ==
    /\ pc # "idle" /\ Disturb
    /\ EndEgress(TRUE)
    /\ UNCHANGED policyVars
    /\ Reconciled

\* The pod restarts: the caches are filled anew before the worker starts.
RestartEgress ==
    /\ Disturb
    /\ EndEgress(TRUE)
    /\ awsSeen' = aws /\ dmsSeen' = dms /\ smtpSeen' = smtp
    /\ policySeen' = policy /\ policyFresh' = [kind \in Kinds |-> TRUE]
    /\ UNCHANGED <<vpc, gathererVars, sourceVars, policy>>

Surroundings ==
    \/ ChangeVPC \/ FetchErrorPage \/ GatherFails \/ RestartGatherer
    \/ EditAWSData \/ EditSecret \/ EditPolicy \/ EgressFails \/ RestartEgress

-----------------------------------------------------------------------------
\* Deployer and gatherer have just started; the secrets came with the addon.
EgressInit ==
    /\ vpc \in Answers
    /\ gpc = "start" /\ fetched = <<>>
    /\ awsCopy = NoAWSData /\ awsCopyFresh = FALSE
    /\ backoff = 1 /\ sleep = 0 /\ failures = 0
    /\ aws = NoAWSData /\ awsSeen = aws
    /\ dms \in DMSHosts /\ dmsSeen = dms
    /\ smtp \in SMTPHosts /\ smtpSeen = smtp
    /\ policy = [kind \in Kinds |-> NoPolicy] /\ policySeen = policy
    /\ policyFresh = [kind \in Kinds |-> TRUE]
    /\ pc = "idle" /\ queued = TRUE
    /\ dmsSecret = "absent" /\ smtpSecret = "absent"
    /\ copy = NoPolicy /\ copyFresh = FALSE /\ desired = <<>>
    /\ disturbances = 0

EgressNext ==
    \/ Gatherer \/ EgressWorker \/ SyncSources \/ SyncPolicy \/ OtherEgressEvent
    \/ Surroundings

EgressSpec == EgressInit /\ [][EgressNext]_egressVars

\* The gatherer's sleeps end, and the manager keeps its worker and informers going.
FairEgressSpec ==
    /\ EgressSpec
    /\ WF_egressVars(Gatherer) /\ WF_egressVars(EgressWorker)
    /\ WF_egressVars(SyncSources) /\ WF_egressVars(SyncPolicy)

-----------------------------------------------------------------------------
EgressTypeOK ==
    /\ vpc \in Answers /\ fetched \in Answers \cup {<<>>, ErrorPage}
    /\ gpc \in {"start", "get", "save", "sleep"}
    /\ aws \in AWSData /\ awsSeen \in AWSData /\ awsCopy \in AWSData
    /\ awsCopyFresh \in BOOLEAN /\ copyFresh \in BOOLEAN /\ queued \in BOOLEAN
    /\ backoff \in 1 .. MaxSleep /\ sleep \in 0 .. MaxSleep
    /\ failures \in Nat
    /\ dms \in DMSValues /\ dmsSeen \in DMSValues /\ dmsSecret \in DMSValues
    /\ smtp \in SMTPValues /\ smtpSeen \in SMTPValues /\ smtpSecret \in SMTPValues
    /\ policy \in [Kinds -> Policies] /\ policySeen \in [Kinds -> Policies]
    /\ policyFresh \in [Kinds -> BOOLEAN]
    /\ copy \in Policies /\ desired \in Seq(Rules)
    /\ pc \in {"idle", "loadSecrets", "EgressFirewall", "writeEgressFirewall",
               "EgressNetworkPolicy", "writeEgressNetworkPolicy"}
    /\ disturbances \in 0 .. MaxDisturbances

\* The destinations that must be reached, given the secrets and an answer of IMDS.
Wanted(lines) ==
    Fixed \cup {dms, smtp}
      \cup IF Converged THEN {} ELSE {lines[i] : i \in 1 .. Len(lines)} \ {"emptyLine"}

Reachable(lines) ==
    \A kind \in Available :
       policy[kind].exists /\ Permitted(policy[kind].rules) = Wanted(lines)

\* "The order or rules matter": whenever the worker waits and its caches are current,
\* both policies, read from the first rule to the last, let exactly those destinations
\* pass that the secrets and the ConfigMap name, whichever of them changed while a
\* reconcile worked with older copies.
QuiescentMeansPermitted ==
    pc = "idle" /\ ~queued /\ awsSeen = aws /\ dmsSeen = dms /\ smtpSeen = smtp
    /\ (\A kind \in Available : policyFresh[kind])
      => Reachable(aws.lines)

\* 1, 2, 4...
Doubled[n \in Nat] == IF n = 0 THEN 1 ELSE 2 * Doubled[n - 1]

\* The gatherer waits 1, 2, 4... seconds after the failures since its last success, at
\* most MaxSleep, and MaxSleep after a success ("Reset the backoff counter since data
\* gathering succeeded").
SleepFollowsFailures ==
    gpc = "sleep" =>
      sleep = IF failures = 0 THEN MaxSleep
                              ELSE Smaller(Doubled[failures - 1], MaxSleep)

\* Once the secrets are in order and nobody interferes, what IMDS says gets through the
\* gatherer, the ConfigMap and the deployer into both policies and stays there.
EventuallyReachable ==
    <>[](dms \in DMSHosts /\ smtp \in SMTPHosts => Reachable(vpc))
=============================================================================
