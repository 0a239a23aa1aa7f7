---------------------------- MODULE MCEgressRules ----------------------------
(* The values of EgressRules for TLC that a configuration cannot write.     *)
EXTENDS EgressRules

\* One block, and two with an empty line between them.
MCAnswers == {<<"10.0.0.0/16">>, <<"10.1.0.0/16", "emptyLine", "10.0.0.0/16">>}
=============================================================================
