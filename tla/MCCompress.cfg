SPECIFICATION Spec
CONSTANTS
  CHAR_BIT = 3
  Word32 = 2
  Word64 = 3
  Values <- MCValues
  Inputs <- MCInputs
  FlagSets <- MCFlagSets
  MaxPathLength = 4
  CismBase = 12
INVARIANTS
  CountsOccurrences
  SelectsCheapest
  NothingLost
  OutputDecodes
  TreeAcceptsAssigned
CHECK_DEADLOCK FALSE
