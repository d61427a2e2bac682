SPECIFICATION Spec
CONSTANTS
  PageSize = 4
  kMaxPageIndex = 2
  Byte <- MCByte
  Zero = 0
  Null = Null
  ErrorPage = ErrorPage
  w = w
  b = b
  r1 = r1
  r2 = r2
  Writers = {w, b}
  Readers = {}
  Backpatch = {b}
  Grow = 4
  UseBroken = FALSE
  LateWrites = FALSE
  Data <- MCOutData
INVARIANTS
  ChainIntact
  BytesStayPut
  ClosedComplete
CHECK_DEADLOCK FALSE
