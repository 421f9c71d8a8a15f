---------------------------- MODULE JobExecution ----------------------------
(***************************************************************************)
(* A job from its first dataset call to its last closure.  The driver      *)
(* builds a task graph; when it is submitted, every task is expanded into  *)
(* shards and the cluster runs them in any order the dependencies allow,   *)
(* as many at a time as it likes.  The closures that dataset.h registers   *)
(* take partitions out of the data store and work on them unlocked.        *)
(*                                                                         *)
(* The job manager and the job processes are not in this repository: which *)
(* shard waits for which is taken from the comments on TaskDependencyType, *)
(* and nothing else about the order is assumed.                            *)
(*                                                                         *)
(* What is broadcast is kept at process level: every shard that receives   *)
(* it makes an object, and the shards of a process put theirs into one     *)
(* cell, from which all of them then fetch.  They receive the same records *)
(* (the transfer is not in this repository either), so that it does not    *)
(* matter whose object is left there; and there is at least one record.    *)
(* The branch of deserialize for none, which puts an empty partition into  *)
(* the shard's own cell and leaves the fetch of a process without shard 0  *)
(* with a null pointer, is left out.                                       *)
(***************************************************************************)
EXTENDS TaskGraph

CONSTANTS MinTasks,  \* bound: the driver submits no smaller graph
          Process,   \* the job processes, each with a data store of its own
          Home       \* the process that runs the shards of a number, of every task

VARIABLES submitted,  \* has the driver handed the graph over?
          running,    \* the instances whose closure is running
          done,       \* the instances whose closure has returned
          store,      \* for every cell of the data stores, the object it points to
          reading,    \* the pairs of a running instance and an object it took out to read,
          writing,    \* ... and of one it creates or updates in place
          last        \* for every cell, the task that last wrote it

vars == <<graph, submitted, running, done, store, reading, writing, last>>

(***************************************************************************)
(* An instance <<t, s, i>> is shard s of the task t.  A network task has   *)
(* one instance i for every shard of the task it takes messages from, any  *)
(* other task just i = 0.  An object <<d, s, i>> is what instance i makes  *)
(* of partition s of the dataset d.  A cell <<p, d, s, i>> is where the    *)
(* store of process p has a pointer to such an object: store_[d][s].       *)
(***************************************************************************)
Shard == UNION {0..(n - 1) : n \in Parallelisms}
Instance == TaskId \X Shard \X Shard
Object == DataId \X Shard \X Shard
NoObject == <<NoData, 0, 0>>
Cell == Process \X DataId \X Shard \X Shard

\* A closure looks partitions up by its shard number in the store of its own process, so the
\* shards of one number are run by one process, whatever the task.
ASSUME JobExecutionAssumption == Home \in [Shard -> Process]

Senders(t) ==
  {e[1] : e \in {e \in graph.edges : e[2] = t /\ e[3] \in {"AsyncComm", "Broadcast"}}}

Dim(t) == IF Senders(t) = {} THEN {0} ELSE UNION {0..(graph.par[p] - 1) : p \in Senders(t)}

Instances(t) == {t} \X (0..(graph.par[t] - 1)) \X Dim(t)

AllInstances == UNION {Instances(t) : t \in 1..graph.nTasks}

\* The instances that x waits for along one dependency of its task.
AwaitsVia(x, e) ==
  CASE e[3] = "Sync"                     -> Instances(e[1])
    [] e[3] \in {"Async", "Aggregate"}   -> {y \in Instances(e[1]) : y[2] = x[2]}
    [] e[3] \in {"AsyncComm", "Broadcast"} -> {y \in Instances(e[1]) : y[2] = x[3]}

Awaits(x) == UNION {AwaitsVia(x, e) : e \in {e \in graph.edges : e[2] = x[1]}}

Ready(x) == x \notin running \cup done /\ Awaits(x) \subseteq done

-----------------------------------------------------------------------------
(* What a closure names, and where the stores have it.                     *)

\* Partition s of d, in the pieces that the instances of its producer make of it.
Partition(d, s) ==
  {<<d, s, i>> : i \in UNION {Dim(t) : t \in {t \in TaskId : d \in graph.produces[t]}}}

\* The partitions the closure of x takes, to read or to update,
Inputs(x) ==
  IF graph.type[x[1]] = "NetWork"
    THEN {<<d, x[3], 0>> : d \in graph.reads[x[1]]}
    ELSE UNION {Partition(d, x[2]) : d \in graph.reads[x[1]]}

Of(x, D) == {<<d, x[2], x[3]>> : d \in D}

\* ... and those it puts there or changes.
Outputs(x) == Of(x, graph.produces[x[1]] \cup graph.writes[x[1]])

\* The datasets Broadcast's deserialize tasks leave at process level.
ProcessLevel == {graph.alias[d] : d \in DataId} \ {NoData}

\* Process-level data is in slot 0 of the store, next to the partitions.
Slot(o) == IF o[1] \in ProcessLevel THEN 0 ELSE o[2]

\* The cell in which a closure looks for o, and in which its maker puts it.
CellOf(o) == <<Home[o[2]], o[1], Slot(o), o[3]>>

\* The objects that are there for a closure that starts.
Found(x) == {store[CellOf(o)] : o \in Inputs(x)} \ {NoObject}

\* The last task of a broadcast makes none: it passes on the one it took.
Made(x) == Of(x, {d \in graph.produces[x[1]] : graph.alias[d] = NoData})

Updated(x) == {store[CellOf(o)] : o \in Of(x, graph.writes[x[1]])} \ {NoObject}

\* What the last task of a broadcast passes on as its result d, of what it took.
Passed(x, d) == {l[2] : l \in {l \in reading : l[1] = x /\ l[2][1] = graph.alias[d]}}

\* The pairs of a cell and the object that the closure of x inserts there when it returns.
Puts(x) ==
  {<<CellOf(o), o>> : o \in Made(x)}
    \cup UNION {{CellOf(<<d, x[2], x[3]>>)} \X Passed(x, d) :
                d \in {d \in graph.produces[x[1]] : graph.alias[d] # NoData}}

-----------------------------------------------------------------------------
Build ==
  ~submitted /\ Next /\ UNCHANGED <<submitted, running, done, store, reading, writing, last>>

\* The driver returns; the graph does not change from here on.
Submit ==
  /\ ~submitted /\ graph.nTasks >= MinTasks
  /\ submitted' = TRUE
  /\ UNCHANGED <<graph, running, done, store, reading, writing, last>>

\* A closure starts and takes what it needs out of the store of its process.
Start(x) ==
  /\ submitted /\ Ready(x)
  /\ running' = running \cup {x}
  /\ writing' = writing \cup {x} \X (Made(x) \cup Updated(x))
  /\ reading' = reading \cup {x} \X (Found(x) \ Updated(x))
  /\ UNCHANGED <<graph, submitted, done, store, last>>

\* It returns: what it made is in the store, and it has let go of what it took.
Finish(x) ==
  /\ x \in running
  /\ running' = running \ {x}
  /\ done' = done \cup {x}
  /\ store' = [c \in Cell |-> IF \E p \in Puts(x) : p[1] = c
                               THEN (CHOOSE p \in Puts(x) : p[1] = c)[2] ELSE store[c]]
  /\ last' = [c \in Cell |-> IF c \in {CellOf(o) : o \in Outputs(x)} THEN x[1] ELSE last[c]]
  /\ reading' = {l \in reading : l[1] # x}
  /\ writing' = {l \in writing : l[1] # x}
  /\ UNCHANGED <<graph, submitted>>

Finished == submitted /\ done = AllInstances

Terminated == Finished /\ UNCHANGED vars

JInit ==
  /\ Init
  /\ submitted = FALSE
  /\ running = {}
  /\ done = {}
  /\ store = [c \in Cell |-> NoObject]
  /\ reading = {}
  /\ writing = {}
  /\ last = [c \in Cell |-> NoTask]

JNext ==
  \/ Build
  \/ Submit
  \/ \E x \in AllInstances : Start(x)
  \/ \E x \in running : Finish(x)
  \/ Terminated

JSpec == JInit /\ [][JNext]_vars

(***************************************************************************)
(* A closure returns, and the cluster runs some shard that is ready.       *)
(***************************************************************************)
JFairSpec ==
  /\ JSpec
  /\ WF_vars(\E x \in AllInstances : Start(x))
  /\ WF_vars(\E x \in running : Finish(x))

-----------------------------------------------------------------------------
(***************************************************************************)
(* While a closure runs, everything it takes out of the store is what a    *)
(* sequential run of the driver program would find there: the output of    *)
(* the latest earlier call that wrote the dataset, all of it, and nothing  *)
(* a later call did.                                                       *)
(***************************************************************************)
LatestBefore(t, d) ==
  LET W == {w \in 1..(t - 1) : Mutates(graph, w, d)}
  IN IF W = {} THEN NoTask ELSE CHOOSE w \in W : \A v \in W : v <= w

InputsInProgramOrder ==
  \A x \in running :
    \A o \in Inputs(x) \cup Of(x, graph.writes[x[1]]) :
      last[CellOf(o)] = LatestBefore(x[1], o[1])

(***************************************************************************)
(* A submitted job runs to completion: no shard waits for ever, and none   *)
(* waits for a shard that does not exist.                                  *)
(***************************************************************************)
JobFinishes == submitted ~> Finished

(***************************************************************************)
(* The store's mutex guards its tables, not the partitions they point to.  *)
(* Nobody locks those, yet the closures use them as if every object had a  *)
(* readers-writer lock that is never contended.                            *)
(***************************************************************************)
Locks == INSTANCE CellLocks
           WITH Holder    <- Instance,
                Object    <- Object,
                shared    <- reading,
                exclusive <- writing

LocksSpec == Locks!Spec
=============================================================================
