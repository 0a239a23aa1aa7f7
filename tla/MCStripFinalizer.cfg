SPECIFICATION Spec
CONSTANTS
  DeploymentType = "converged"
  UserActions = {"stripFinalizer"}
  ReadFaults = FALSE
  MaxFaults = 0
  MaxRestarts = 0
  MaxChurn = 2
CHECK_DEADLOCK FALSE
PROPERTIES
  DeletesOnlyWhenReady
