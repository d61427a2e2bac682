SPECIFICATION Spec
CONSTANTS
  PageSize = 3
  kMaxPageIndex = 5
  Byte <- MCByte
  Zero = 0
  Null = Null
  ErrorPage = ErrorPage
  kBufSize = 2
  kResumeHeadroom = 2
  Pieces = {2, 3}
  Accepts <- MCAccepts
INVARIANTS
  AccountedFor
  LostOnlyInDestructors
  ReadsToTheEnd
CHECK_DEADLOCK FALSE
