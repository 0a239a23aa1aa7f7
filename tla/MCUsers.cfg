SPECIFICATION Spec
CONSTANTS
  DeploymentType = "provider"
  UserActions = {"deleteManagedOCS", "deleteStorageCluster", "stripFinalizer"}
  ReadFaults = TRUE
  MaxFaults = 1
  MaxRestarts = 1
  MaxChurn = 1
CHECK_DEADLOCK FALSE
INVARIANTS
  NoOrphanedManagedOCS
  QuiescentMeansInstalled
PROPERTIES
  UsedStorageBlocksUninstall
