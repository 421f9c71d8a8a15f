SPECIFICATION Spec
CONSTANTS
  Terminals = {t1}
  Hosts = {w1, w2}
  Shared = {w2}
  MaxRuns = 3
  MaxLeft = 1
  Crashing = {"Master", w1}
INVARIANTS
  TypeOK
  OnlyOneEach
  PidFilesNameProcesses
PROPERTIES
  StopCleansUp
  StartStartsOrFindsPid
CHECK_DEADLOCK FALSE
