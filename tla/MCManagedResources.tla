------------------------- MODULE MCManagedResources -------------------------
(* The values of ManagedResources for TLC that a configuration cannot write. *)
EXTENDS ManagedResources

MCEntries ==
    {"", "missing", "template", "noRemoteWrite", "shipped", "edited",
     "key", "key\n", "a@in", "b@in", "snitch", "mail", "audience", "v1", "v2"}

\* The address in the middle is empty, or its key is missing.
MCSourceValues ==
    [addonParams  |-> {<<"key\n", "a@in", "", "b@in">>, <<"key", "a@in", "missing", "b@in">>},
     pagerduty    |-> {<<"key">>},
     dms          |-> {<<"snitch">>},
     smtp         |-> {<<>>, <<"mail">>},
     rhobs        |-> {<<>>, <<"audience">>},
     deployerCSVs |-> {<<"v1">>, <<"v1", "v2">>}]

MCInstalled ==
    [addonParams  |-> <<"key\n", "a@in", "", "b@in">>, pagerduty |-> <<"key">>,
     dms |-> <<"snitch">>, smtp |-> <<"mail">>, rhobs |-> <<"audience">>,
     deployerCSVs |-> <<"v1">>]

MCTrimmed == [key \in {"key\n", "key"} |-> "key"]
=============================================================================
