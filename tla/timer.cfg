SPECIFICATION FairSpec
CONSTANT
  MaxCalls = 4
INVARIANTS
  NoCallAfterStop
  HandlerPaced
PROPERTIES
  DestructorReturns
CHECK_DEADLOCK FALSE
