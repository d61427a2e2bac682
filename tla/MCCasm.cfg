SPECIFICATION Spec
CONSTANTS
  Algorithms <- MCAlgorithms
  Readers = {"casm-boot", "casm"}
  PredefinedName <- MCPredefined
INVARIANTS
  StackRoundTrip
  InflatesWholeOrNotAtAll
CHECK_DEADLOCK FALSE
