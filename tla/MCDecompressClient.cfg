SPECIFICATION ClientSpec
CONSTANTS
  Size <- MCSize
  MaxInput = 4
  MaxOutput = 4
  MaxPasses = 2
  IntRange = 16
  MaxBufferSize = 2
  kBufSize = 3
  FileSizes <- MCFileSizes
  WriteMayFail = TRUE
INVARIANTS
  SuccessIsComplete
  ResumeTellsTruth
  ExitsTruthfully
PROPERTIES
  PromisesAreKept
  ClientEnds
CHECK_DEADLOCK FALSE
