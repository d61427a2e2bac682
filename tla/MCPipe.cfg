SPECIFICATION PipeSpec
CONSTANTS
  PageSize = 3
  kMaxPageIndex = 3
  Byte <- MCByte
  Zero = 0
  Null = Null
  ErrorPage = ErrorPage
  w = w
  b = b
  Writers = {w, b}
  Readers = {}
  Grow = 3
  UseBroken = FALSE
  LateWrites = FALSE
  Backpatch = {b}
  Data <- MCData
  WritePos = WritePos
  OutputPos = OutputPos
INVARIANTS
  BlocksHeldBack
PROPERTIES
  IsChannel
CHECK_DEADLOCK FALSE
