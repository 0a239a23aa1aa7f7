SPECIFICATION FairEgressSpec
CONSTANTS
  DMSHosts = {"snitch.example", "test.in"}
  SMTPHosts = {"mail.example"}
  Blocks = {"10.0.0.0/16", "10.1.0.0/16"}
  Answers <- MCAnswers
  Available = {"EgressFirewall"}
  Converged = FALSE
  MaxSleep = 3
  MaxFailures = 3
  MaxDisturbances = 2
INVARIANTS
  EgressTypeOK
  QuiescentMeansPermitted
  SleepFollowsFailures
PROPERTIES
  EventuallyReachable
