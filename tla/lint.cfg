SPECIFICATION Spec
CHECK_DEADLOCK FALSE
CONSTANTS
  Files <- MCFiles
  Commands <- MCCommands
  Config <- MCConfig
  NolintComments <- MCNolint
  Headers <- MCHeaders
  Required <- MCRequired
  MinNamespaceLines = 3
  MinClassLines = 2
  NormalTrigger = 1
  TestTrigger = 2
INVARIANTS
  TypeOK
  ElidedIsCode
  BadCharactersSeen
  ClosesBack
  FirstBranchesCount
  BlocksAreOpenBraces
  UnconditionalIncludesKept
  OrderWhenSilent
  FunctionLinesCounted
  NolintSilences
  CountsAgree
  FiltersAreOwn
