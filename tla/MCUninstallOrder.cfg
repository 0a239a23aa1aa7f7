SPECIFICATION Spec
CONSTANTS
  DeploymentType = "converged"
  UserActions = {}
  ReadFaults = FALSE
  MaxFaults = 1
  MaxRestarts = 1
  MaxChurn = 1
CHECK_DEADLOCK FALSE
INVARIANTS
  TypeOK
  SafetyInv
  QuiescentMeansStatusStored
  QuiescentMeansUninstalling
PROPERTIES
  RefinesLifecycle
  StorageClusterBeforeCSV
  UsedStorageBlocksUninstall
  DeletesOnlyWhenReady
