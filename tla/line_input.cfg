SPECIFICATION Spec
CONSTANTS
  Reader = {r1, r2}
  BlockSize = 3
  MaxSize = 7
INVARIANTS
  LinesReadOnce
  TypeOK
CHECK_DEADLOCK FALSE
