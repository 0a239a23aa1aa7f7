SPECIFICATION OLMSpec
CONSTANTS
  MaxVersion = 1
  MaxDisturbances = 1
INVARIANTS
  QuiescentMeansOnChannel
