SPECIFICATION Spec
CONSTANTS
  Files <- MCFiles
  Finals <- MCFinals
  NoFile <- MCNoFile
  PredefinedName <- MCPredefined
  KeptActions <- MCKept
  MaxTables = 3
  IntBits = 2
INVARIANTS
  BindsInnermost
  ActionsTellApart
  StripKeepsMeaning
  WrittenInstallsAgain
CHECK_DEADLOCK FALSE
