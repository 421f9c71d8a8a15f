SPECIFICATION Spec
CHECK_DEADLOCK FALSE
CONSTANTS
  Jobs = {"PageRank", "ConnectedComponent"}
  Vertex = {1, 2, 3}
  Graphs <- MCDirected
  NumPartitions = 2
  NumIters = 3
INVARIANTS
  EntriesAligned
  RanksComplete
  Settled
PROPERTIES
  AllIterations
