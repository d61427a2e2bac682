SPECIFICATION Spec
CONSTANTS
  CHAR_BIT = 3
  Word32 = 2
  Word64 = 3
  MinimizeBlockSize = {TRUE, FALSE}
  Values <- MCValues
  MaxOps = 5
  FreezeUnaligned = FALSE
INVARIANTS
  IsEncoding
  ReadsBack
CHECK_DEADLOCK FALSE
