SPECIFICATION Spec
CONSTANTS
  MaxTasks = 5
  MaxData = 6
  MaxSources = 1
  MaxLoads = 2
  Parallelisms = {1, 2}
  Calls <- MCCalls
  Disciplined = TRUE
INVARIANTS
  TypeOK
  PrecedenceInv
  EdgesForward
  ConflictsOrdered
  UntrackedReadsOrdered
  ShardsAlign
CHECK_DEADLOCK FALSE
