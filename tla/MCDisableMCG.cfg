SPECIFICATION SpecSpec
CONSTANTS
  DeploymentType = "converged"
  Sizes = {1}
  MaxDisturbances = 1
PROPERTIES
  MCGStaysEnabled
