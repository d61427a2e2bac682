CONSTANTS
  Tasks <- DepartTasks
  Width = 2
  Headroom = 2
  MaxBits = 2

SPECIFICATION SelectionSpec
INVARIANT MatchesMeaning
CHECK_DEADLOCK FALSE
