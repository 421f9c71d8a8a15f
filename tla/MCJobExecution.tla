--------------------------- MODULE MCJobExecution ---------------------------
(***************************************************************************)
(* The instances of JobExecution for the model checker.  A job is four     *)
(* tasks; five if there is a shuffle, which makes three of them; six if    *)
(* there is a broadcast, which makes four, so that something reads what it *)
(* left.  Both shards are run by one process: they share its store.        *)
(***************************************************************************)
EXTENDS JobExecution

MCCalls ==
  {"TextSourceDataset", "FlatMap", "ApplyRead", "MapPartitionWith", "PartitionBy", "Broadcast",
   "SharedDataMapPartitionWith", "UpdatePartition", "UpdatePartitionWith"}

MCHome == [s \in Shard |-> "process"]

Shuffles == \E t \in TaskId : graph.type[t] = "NetWork"

MCSize == IF ProcessLevel # {} THEN 6 ELSE IF Shuffles THEN 5 ELSE 4

MCNext ==
  /\ JNext
  /\ graph'.nTasks <= MCSize'
  /\ submitted' => graph'.nTasks = MCSize'

MCSpec ==
  /\ JInit /\ [][MCNext]_vars
  /\ WF_vars(\E x \in AllInstances : Start(x))
  /\ WF_vars(\E x \in running : Finish(x))
=============================================================================
