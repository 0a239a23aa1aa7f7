SPECIFICATION FairOLMSpec
CONSTANTS
  MaxVersion = 2
  MaxDisturbances = 3
INVARIANTS
  OLMTypeOK
  QuiescentMeansTuned
PROPERTIES
  EventuallyTuned
