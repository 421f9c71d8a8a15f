SPECIFICATION Spec
CONSTANTS
  Terminals = {t1}
  Hosts = {w1, w2}
  Shared = {}
  MaxRuns = 4
  MaxLeft = 1
  Crashing = {}
INVARIANTS
  SchedulerPidIsOfRunning
CHECK_DEADLOCK FALSE
