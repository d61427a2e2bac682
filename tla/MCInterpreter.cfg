\* Small trees over short inputs.
CONSTANTS
  Tasks <- MCTasks
  Width = 2
  Headroom = 2
  MaxBits = 2

SPECIFICATION SelectionSpec
INVARIANTS
  MatchesMeaning
  StacksMatchFrames
PROPERTY
  RunEnds
CHECK_DEADLOCK FALSE
