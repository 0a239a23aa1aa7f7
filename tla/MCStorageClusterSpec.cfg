SPECIFICATION FairSpecSpec
CONSTANTS
  DeploymentType = "provider"
  Sizes = {4, 5}
  MaxDisturbances = 3
INVARIANTS
  SpecTypeOK
  QuiescentMeansApplied
PROPERTIES
  NeverScalesDown
  NoneKeepsSpec
  EventuallyApplied
