SPECIFICATION MCSpec
CONSTANTS
  MinTasks = 4
  MaxTasks = 6
  MaxData = 7
  MaxSources = 1
  MaxLoads = 1
  Parallelisms = {2}
  Calls <- MCCalls
  Disciplined = TRUE
  Process = {"process"}
  Home <- MCHome
INVARIANTS
  InputsInProgramOrder
PROPERTIES
  LocksSpec
  JobFinishes
CHECK_DEADLOCK FALSE
