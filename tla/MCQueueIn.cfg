SPECIFICATION Spec
CONSTANTS
  PageSize = 4
  kMaxPageIndex = 2
  Byte <- MCByte
  Zero = 0
  Null = Null
  ErrorPage = ErrorPage
  w = w
  b = b
  r1 = r1
  r2 = r2
  Writers = {w}
  Readers = {r1, r2}
  Backpatch = {}
  Grow = 1
  UseBroken = FALSE
  LateWrites = FALSE
  Data <- MCInData
INVARIANTS
  TypeOK
  PageMapAligned
  LockedPagesStay
  CursorOnPage
  ReadersBeforeEof
  FailsOnlyAtEof
SYMMETRY MCSymmetry
CHECK_DEADLOCK FALSE
