SPECIFICATION Spec
CONSTANTS
  v1 = v1
  v2 = v2
  h = h
  MaxIndex <- MCMaxIndex
  Value = {v1, v2}
  HeaderValue = {h}
  MaxEvents = 8
  MaxHeader = 1
  EmptyAtEnd = TRUE
  OutputMayFail = TRUE
INVARIANTS
  CopiesInOrder
  PassesLateOrNever
  FailsOnlyIfRefused
  StacksMatch
PROPERTIES
  PassEnds
CHECK_DEADLOCK FALSE
