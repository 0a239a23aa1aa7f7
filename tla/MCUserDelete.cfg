SPECIFICATION Spec
CONSTANTS
  DeploymentType = "converged"
  UserActions = {"deleteManagedOCS"}
  ReadFaults = FALSE
  MaxFaults = 0
  MaxRestarts = 0
  MaxChurn = 1
CHECK_DEADLOCK FALSE
PROPERTIES
  StorageClusterBeforeCSV
