------------------------------ MODULE TaskGraph ------------------------------
(***************************************************************************)
(* The task graph a driver program builds through the dataset API, before  *)
(* the job is submitted.  Every call creates tasks and datasets, records   *)
(* which task produces, reads and writes which dataset, and adds the       *)
(* dependencies the job manager will honour.  Nothing else orders two      *)
(* tasks, and partitions carry no lock: a dependency that is missing here  *)
(* is a data race on the workers.                                          *)
(*                                                                         *)
(* The whole graph is one record and each C++ method an operator from      *)
(* graphs to graphs, so that a dataset operation is the composition of the *)
(* methods it calls.  Ids are counted from 1: NoTask is a null pointer.    *)
(***************************************************************************)
EXTENDS Naturals, FiniteSets

CONSTANTS MaxTasks,      \* bound on the tasks of a driver program
          MaxData,       \* bound on its datasets
          MaxSources,    \* bound on the datasets among them that are sources
          MaxLoads,      \* bound on the tasks that load a source
          Parallelisms,  \* the numbers of partitions a driver asks for
          Calls,         \* the API calls the driver uses
          Disciplined    \* does the driver keep to the rules stated at Discipline?

ASSUME TaskGraphAssumption ==
  /\ MaxTasks \in Nat
  /\ MaxData \in Nat
  /\ MaxSources \in Nat
  /\ MaxLoads \in Nat
  /\ Parallelisms \subseteq Nat \ {0}
  /\ Disciplined \in BOOLEAN

VARIABLE graph

TaskId == 1..MaxTasks
DataId == 1..MaxData
NoTask == 0
NoData == 0

ResourceType == {"CPU", "NetWork"}
TaskDependencyType == {"Sync", "Async", "AsyncComm", "Aggregate", "Broadcast"}

(***************************************************************************)
(* A task has a type, a parallelism and three lists of datasets; an edge   *)
(* <<parent, child, type>> is an element of the parent's children_.  A     *)
(* dataset has a parallelism, a write precedence and a set of read         *)
(* precedences.  Three fields are bookkeeping of the model: handles, the   *)
(* datasets the driver holds an object of (the intermediate datasets of a  *)
(* shuffle are local to the call that creates them), untracked, the reads  *)
(* that were declared to the task but not to the dataset, and alias, which *)
(* says of the result of a broadcast whose objects its partitions are.     *)
(***************************************************************************)
Graph ==
  [ nTasks    : 0..MaxTasks,
    type      : [TaskId -> ResourceType],
    par       : [TaskId -> Nat],
    produces  : [TaskId -> SUBSET DataId],
    reads     : [TaskId -> SUBSET DataId],
    writes    : [TaskId -> SUBSET DataId],
    edges     : SUBSET (TaskId \X TaskId \X TaskDependencyType),
    nData     : 0..MaxData,
    dpar      : [DataId -> Nat],
    writePrec : [DataId -> TaskId \cup {NoTask}],
    readPrec  : [DataId -> SUBSET TaskId],
    handles   : SUBSET DataId,
    untracked : SUBSET (TaskId \X DataId),
    alias     : [DataId -> DataId \cup {NoData}] ]

EmptyGraph ==
  [ nTasks    |-> 0,
    type      |-> [t \in TaskId |-> "CPU"],
    par       |-> [t \in TaskId |-> 0],
    produces  |-> [t \in TaskId |-> {}],
    reads     |-> [t \in TaskId |-> {}],
    writes    |-> [t \in TaskId |-> {}],
    edges     |-> {},
    nData     |-> 0,
    dpar      |-> [d \in DataId |-> 0],
    writePrec |-> [d \in DataId |-> NoTask],
    readPrec  |-> [d \in DataId |-> {}],
    handles   |-> {},
    untracked |-> {},
    alias     |-> [d \in DataId |-> NoData] ]

-----------------------------------------------------------------------------
(* The methods of TaskGraph, Task and AbstractDataset, as functions of g.  *)

\* TaskGraph::CreateTask followed by SetParallelism; the id is g.nTasks + 1.
CreateTask(g, type, par) ==
  [g EXCEPT !.nTasks = @ + 1,
            !.type[g.nTasks + 1] = type,
            !.par[g.nTasks + 1] = par]

\* Task::AggregateThen, BroadcastThen, SyncThen: an edge of the given type.
Link(g, parents, child, dep) ==
  [g EXCEPT !.edges = @ \cup {<<p, child, dep>> : p \in parents}]

\* Mutant of ThenType: a network task is treated like any other.
ThenTypeAlwaysAsync(g, child) == "Async"

\* The type of the edge Task::Then adds depends on the child alone.
ThenType(g, child) == IF g.type[child] = "NetWork" THEN "AsyncComm" ELSE "Async"

\* Mutant of Then: only network tasks wait for their parents.
ThenForNetworkOnly(g, parents, child) ==
  IF g.type[child] = "NetWork" THEN Link(g, parents, child, "AsyncComm") ELSE g

Then(g, parents, child) == Link(g, parents, child, ThenType(g, child))

\* A dataset constructed without a producer: its parallelism is set later.
NewDataset(g, par) ==
  [g EXCEPT !.nData = @ + 1,
            !.dpar[g.nData + 1] = par]

\* Mutant of SetProducer: the dataset keeps its own parallelism.
SetProducerKeepsParallelism(g, d, t) ==
  [g EXCEPT !.writePrec[d] = t,
            !.produces[t] = @ \cup {d}]

\* AbstractDataset::SetProducer of the dataset d.
SetProducer(g, d, t) ==
  [g EXCEPT !.dpar[d] = g.par[t],
            !.writePrec[d] = t,
            !.produces[t] = @ \cup {d}]

\* Dataset::Create: a new dataset, id g.nData + 1, produced by the task t.
Create(g, t) == SetProducer(NewDataset(g, 0), g.nData + 1, t)

\* Mutant of WriteParents: the writer does not wait for the readers.
WriteParentsIgnoringReaders(g, d) == {g.writePrec[d]} \ {NoTask}

\* The tasks WriteBy puts before the new writer.
WriteParents(g, d) ==
  IF g.readPrec[d] = {} THEN {g.writePrec[d]} \ {NoTask} ELSE g.readPrec[d]

\* Mutants of WriteBy: the readers are kept, the new writer is not recorded, or
\* it is recorded first.
WriteByKeepingReaders(g, d, t) ==
  [Then(g, WriteParents(g, d), t)
     EXCEPT !.writes[t] = @ \cup {d},
            !.writePrec[d] = t]

WriteByNotRecorded(g, d, t) ==
  [Then(g, WriteParents(g, d), t)
     EXCEPT !.writes[t] = @ \cup {d},
            !.readPrec[d] = {}]

WriteByRecordedFirst(g, d, t) ==
  LET h == [g EXCEPT !.writes[t] = @ \cup {d}, !.writePrec[d] = t]
  IN [Then(h, WriteParents(h, d), t) EXCEPT !.readPrec[d] = {}]

WriteBy(g, d, t) ==
  [Then(g, WriteParents(g, d), t)
     EXCEPT !.writes[t] = @ \cup {d},
            !.readPrec[d] = {},
            !.writePrec[d] = t]

\* Mutant of ReadVia: the dataset does not record its reader.
ReadViaNotRecorded(g, d, t, dep) ==
  [Link(g, {g.writePrec[d]}, t, dep)
     EXCEPT !.reads[t] = @ \cup {d}]

\* What ReadBy and BroadcastBy share: they differ in the type of the edge.
ReadVia(g, d, t, dep) ==
  [Link(g, {g.writePrec[d]}, t, dep)
     EXCEPT !.reads[t] = @ \cup {d},
            !.readPrec[d] = @ \cup {t}]

ReadBy(g, d, t) == ReadVia(g, d, t, ThenType(g, t))

BroadcastBy(g, d, t) == ReadVia(g, d, t, "Broadcast")

\* Task::ReadData alone: the dataset does not learn of its reader.
ReadData(g, d, t) ==
  [g EXCEPT !.reads[t] = @ \cup {d},
            !.untracked = @ \cup {<<t, d>>}]

\* The closure of Broadcast's last task: the partitions of d are no objects of their own but
\* those that the dataset a left at process level.
Alias(g, d, a) == [g EXCEPT !.alias[d] = a]

\* The driver is handed an object of the dataset d.
Return(g, d) == [g EXCEPT !.handles = @ \cup {d}]

-----------------------------------------------------------------------------
(* Reachability, without recursion: b is reachable from a iff every set of *)
(* tasks that contains a and is closed under the edges contains b.         *)
Closed(g, S) == \A e \in g.edges : e[1] \in S => e[2] \in S
Reaches(g, a, b) == \A S \in SUBSET TaskId : a \in S /\ Closed(g, S) => b \in S

Mutates(g, t, d) == d \in g.produces[t] \cup g.writes[t]
Tracked(g, t, d) == d \in g.reads[t] /\ <<t, d>> \notin g.untracked

(***************************************************************************)
(* The rules a disciplined driver keeps to.  No check in the code enforces *)
(* them and every program under examples/ keeps to them.                   *)
(***************************************************************************)

\* A shared read needs an argument that already depends on the shared data ...
MayShare(g, d, other) ==
  Disciplined => Reaches(g, g.writePrec[d], g.writePrec[other])
\* ... and forbids updating the shared data in place from then on.  The result of a broadcast is
\* not updated in place at all: its partitions in one process may be one object.
MayWrite(g, d) ==
  Disciplined => g.alias[d] = NoData /\ \A t \in TaskId : <<t, d>> \notin g.untracked
\* Two datasets are zipped only when they have the same number of partitions.
Aligned(g, d, other) == Disciplined => g.dpar[d] = g.dpar[other]
\* A dataset is not updated with itself: its task would be its own parent.
Distinct(d, other) == Disciplined => d # other

\* Mutant of Usable: no SanityCheck.
AnyHandle == graph.handles

\* SanityCheck aborts on a dataset without producer, ReadBy dereferences null.
Usable == {d \in graph.handles : graph.writePrec[d] # NoTask}
Sources == {d \in graph.handles : graph.writePrec[d] = NoTask}

Loads == {t \in TaskId : graph.produces[t] # {} /\ graph.reads[t] = {}}

HasRoom(tasks, data) ==
  graph.nTasks + tasks <= MaxTasks /\ graph.nData + data <= MaxData

-----------------------------------------------------------------------------
(* The API calls.  t and r name the new task and the new dataset.          *)

\* hello_world.cc: a task created through the task graph, after parents.
AddTask(parents, n) ==
  /\ "AddTask" \in Calls /\ HasRoom(1, 0)
  /\ LET t == graph.nTasks + 1
     IN graph' = Link(CreateTask(graph, "CPU", n), parents, t, "Sync")

\* The constructor of a source: a dataset no task produces.
TextSourceDataset(n) ==
  /\ "TextSourceDataset" \in Calls /\ HasRoom(0, 1)
  /\ Cardinality(Sources) < MaxSources
  /\ graph' = Return(NewDataset(graph, n), graph.nData + 1)

FlatMap(d) ==
  /\ "FlatMap" \in Calls /\ HasRoom(1, 1)
  /\ d \in Sources /\ Cardinality(Loads) < MaxLoads
  /\ LET t == graph.nTasks + 1
         r == graph.nData + 1
     IN graph' = Return(Create(CreateTask(graph, "CPU", graph.dpar[d]), t), r)

ApplyRead(d) ==
  /\ "ApplyRead" \in Calls /\ HasRoom(1, 0) /\ d \in Usable
  /\ LET t == graph.nTasks + 1
     IN graph' = ReadBy(CreateTask(graph, "CPU", graph.dpar[d]), d, t)

MapPartition(d) ==
  /\ "MapPartition" \in Calls /\ HasRoom(1, 1) /\ d \in Usable
  /\ LET t == graph.nTasks + 1
         r == graph.nData + 1
         g == Create(CreateTask(graph, "CPU", graph.dpar[d]), t)
     IN graph' = Return(ReadBy(g, d, t), r)

MapPartitionWith(d, other) ==
  /\ "MapPartitionWith" \in Calls /\ HasRoom(1, 1)
  /\ d \in Usable /\ other \in Usable /\ Aligned(graph, d, other)
  /\ LET t == graph.nTasks + 1
         r == graph.nData + 1
         g == Create(CreateTask(graph, "CPU", graph.dpar[d]), t)
     IN graph' = Return(ReadBy(ReadBy(g, d, t), other, t), r)

SharedDataMapPartitionWith(d, other) ==
  /\ "SharedDataMapPartitionWith" \in Calls /\ HasRoom(1, 1)
  /\ d \in Usable /\ other \in Usable
  /\ Aligned(graph, d, other) /\ MayShare(graph, d, other)
  /\ LET t == graph.nTasks + 1
         r == graph.nData + 1
         g == Create(CreateTask(graph, "CPU", graph.dpar[d]), t)
     IN graph' = Return(ReadData(ReadBy(g, other, t), d, t), r)

UpdatePartition(d) ==
  /\ "UpdatePartition" \in Calls /\ HasRoom(1, 0)
  /\ d \in Usable /\ MayWrite(graph, d)
  /\ LET t == graph.nTasks + 1
     IN graph' = WriteBy(CreateTask(graph, "CPU", graph.dpar[d]), d, t)

UpdatePartitionWith(d, other) ==
  /\ "UpdatePartitionWith" \in Calls /\ HasRoom(1, 0)
  /\ d \in Usable /\ other \in Usable
  /\ Aligned(graph, d, other) /\ MayWrite(graph, d) /\ Distinct(d, other)
  /\ LET t == graph.nTasks + 1
         g == CreateTask(graph, "CPU", graph.dpar[d])
     IN graph' = ReadBy(WriteBy(g, d, t), other, t)

(***************************************************************************)
(* A shuffle: serialize writes one message per destination, the network    *)
(* task moves them, deserialize collects.  PartitionBy, RangeReduceBy and  *)
(* ReduceBy build this same graph and differ in their closures only.       *)
(***************************************************************************)
PartitionBy(d, n) ==
  /\ "PartitionBy" \in Calls /\ HasRoom(3, 3) /\ d \in Usable
  /\ LET serialize   == graph.nTasks + 1
         net         == graph.nTasks + 2
         deserialize == graph.nTasks + 3
         message     == graph.nData + 1
         shuffled    == graph.nData + 2
         ret         == graph.nData + 3
         g1 == CreateTask(graph, "CPU", graph.dpar[d])
         g2 == CreateTask(CreateTask(g1, "NetWork", n), "CPU", n)
         g3 == Create(Create(Create(g2, serialize), net), deserialize)
         g4 == ReadBy(ReadBy(g3, d, serialize), message, net)
         g5 == Link(g4, {net}, deserialize, "Aggregate")
     IN graph' = Return(ReadData(g5, shuffled, deserialize), ret)

(***************************************************************************)
(* A broadcast is a shuffle whose messages all go to partition 0, followed *)
(* by a task that fetches what a deserialize task left at process level.   *)
(***************************************************************************)
Broadcast(d, n) ==
  /\ "Broadcast" \in Calls /\ HasRoom(4, 4) /\ d \in Usable
  /\ LET serialize   == graph.nTasks + 1
         net         == graph.nTasks + 2
         deserialize == graph.nTasks + 3
         fetch       == graph.nTasks + 4
         message     == graph.nData + 1
         shuffled    == graph.nData + 2
         received    == graph.nData + 3
         ret         == graph.nData + 4
         g1 == CreateTask(graph, "CPU", graph.dpar[d])
         g2 == CreateTask(CreateTask(g1, "NetWork", n), "CPU", n)
         g3 == CreateTask(g2, "CPU", n)
         g4 == Create(Create(g3, serialize), net)
         g5 == Create(Create(g4, deserialize), fetch)
         g6 == BroadcastBy(ReadBy(g5, d, serialize), message, net)
         g7 == Link(g6, {net}, deserialize, "Aggregate")
         g8 == Then(ReadData(g7, shuffled, deserialize), {deserialize}, fetch)
         g9 == ReadData(g8, received, fetch)
     IN graph' = Return(Alias(g9, ret, received), ret)

-----------------------------------------------------------------------------
Init == graph = EmptyGraph

Next ==
  \/ \E n \in Parallelisms : \/ TextSourceDataset(n)
                             \/ AddTask({}, n)
                             \/ \E p \in 1..graph.nTasks : AddTask({p}, n)
  \/ \E d \in DataId : \/ FlatMap(d)
                       \/ ApplyRead(d)
                       \/ MapPartition(d)
                       \/ UpdatePartition(d)
  \/ \E d, other \in DataId : \/ MapPartitionWith(d, other)
                              \/ SharedDataMapPartitionWith(d, other)
                              \/ UpdatePartitionWith(d, other)
  \/ \E d \in DataId, n \in Parallelisms : PartitionBy(d, n) \/ Broadcast(d, n)

Spec == Init /\ [][Next]_graph

-----------------------------------------------------------------------------
(* The graph is well typed. *)
TypeOK == graph \in Graph

(***************************************************************************)
(* Two tasks of which one mutates a dataset the other mutates or reads     *)
(* through ReadBy are ordered by the dependencies, in program order: the   *)
(* contract of the two precedence fields of AbstractDataset.  It holds for *)
(* every driver, disciplined or not.                                       *)
(***************************************************************************)
Conflict(g, d, a, b) ==
  \/ Mutates(g, a, d) /\ (Mutates(g, b, d) \/ Tracked(g, b, d))
  \/ Tracked(g, a, d) /\ Mutates(g, b, d)

OrderedIn(g) ==
  \A d \in DataId, a, b \in TaskId :
    a < b /\ Conflict(g, d, a, b) => Reaches(g, a, b)

ConflictsOrdered == OrderedIn(graph)

(***************************************************************************)
(* What the precedence fields mean, the invariant that makes the calls     *)
(* above correct whatever was called before: every task that mutates a     *)
(* dataset is, or comes before, its write precedence; every reader the     *)
(* dataset was told of comes before it or is a read precedence; and the    *)
(* read precedences come after it, as do the untracked readers of a        *)
(* disciplined driver.                                                     *)
(***************************************************************************)
WritersPrecede(g) ==
  \A d \in DataId, t \in TaskId :
    Mutates(g, t, d) => /\ g.writePrec[d] # NoTask
                        /\ Reaches(g, t, g.writePrec[d])

ReadersKnown(g) ==
  \A d \in DataId, t \in TaskId :
    Tracked(g, t, d) => \/ t \in g.readPrec[d]
                        \/ /\ g.writePrec[d] # NoTask
                           /\ Reaches(g, t, g.writePrec[d])

ReadersFollow(g) ==
  \A d \in DataId, t \in TaskId :
    t \in g.readPrec[d] \/ (Disciplined /\ <<t, d>> \in g.untracked)
      => g.writePrec[d] # NoTask /\ Reaches(g, g.writePrec[d], t)

PrecedenceIn(g) == WritersPrecede(g) /\ ReadersKnown(g) /\ ReadersFollow(g)

PrecedenceInv == PrecedenceIn(graph)

(***************************************************************************)
(* A read the dataset does not know of (the data side of                   *)
(* SharedDataMapPartitionWith, the second half of a shuffle) still comes   *)
(* after every task that mutates the dataset, in a disciplined driver.     *)
(***************************************************************************)
UntrackedReadsOrdered ==
  Disciplined =>
    \A d \in DataId, t, w \in TaskId :
      <<t, d>> \in graph.untracked /\ Mutates(graph, w, d) => Reaches(graph, w, t)

(***************************************************************************)
(* Dependencies lead from a task to one created after it, so the graph has *)
(* no cycle and some task can always run, unless a driver updated a        *)
(* dataset with itself.                                                    *)
(***************************************************************************)
EdgesForward == Disciplined => \A e \in graph.edges : e[1] < e[2]

(***************************************************************************)
(* Where shard s of a child waits for shard s of its parent (Async and     *)
(* Aggregate edges) both have the same number of shards, and a CPU task    *)
(* has a shard for every partition of each dataset it touches.             *)
(***************************************************************************)
ShardsAlign ==
  /\ \A e \in graph.edges :
       e[3] \in {"Async", "Aggregate"} => graph.par[e[1]] = graph.par[e[2]]
  /\ \A t \in 1..graph.nTasks :
       \A d \in graph.produces[t] \cup graph.reads[t] \cup graph.writes[t] :
         graph.type[t] = "CPU" => graph.dpar[d] = graph.par[t]
=============================================================================
