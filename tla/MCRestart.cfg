SPECIFICATION FairSpec
CONSTANTS
  DeploymentType = "converged"
  UserActions = {}
  ReadFaults = FALSE
  MaxFaults = 0
  MaxRestarts = 1
  MaxChurn = 0
CHECK_DEADLOCK FALSE
PROPERTIES
  UninstallCompletes
