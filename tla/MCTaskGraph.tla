---------------------------- MODULE MCTaskGraph ----------------------------
(* Instances of TaskGraph for the model checker. *)
EXTENDS TaskGraph

\* Every call of the dataset API, with a task that has no dataset.
MCCalls ==
  {"AddTask", "TextSourceDataset", "FlatMap", "ApplyRead", "MapPartition",
   "MapPartitionWith", "SharedDataMapPartitionWith", "UpdatePartition", "UpdatePartitionWith",
   "PartitionBy", "Broadcast"}
=============================================================================
