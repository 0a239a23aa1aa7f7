SPECIFICATION FairSpec
CONSTANTS
  DeploymentType = "provider"
  UserActions = {}
  ReadFaults = FALSE
  MaxFaults = 0
  MaxRestarts = 1
  MaxChurn = 1
CHECK_DEADLOCK FALSE
PROPERTIES
  UninstallCompletesUnlessStranded
  InstallCompletes
