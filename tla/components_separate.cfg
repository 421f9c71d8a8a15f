SPECIFICATION Spec
CHECK_DEADLOCK FALSE
CONSTANTS
  Jobs = {"ConnectedComponent"}
  Vertex = {1, 2, 3, 4}
  Graphs <- MCUndirected
  NumPartitions = 2
  NumIters = 3
INVARIANTS
  LabelsSeparate

