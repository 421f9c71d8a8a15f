----------------------------- MODULE JobProofs -----------------------------
(***************************************************************************)
(* What holds of every job, however many tasks, datasets, partitions and   *)
(* shards it has, in whatever order its driver makes its calls and in      *)
(* whatever order and however much at a time the cluster runs its shards.  *)
(*                                                                         *)
(* The first part is about the graph: it is well typed, conflicting tasks  *)
(* are ordered by it, and so are the untracked reads of a disciplined      *)
(* driver.  The inductive invariant is Inv(graph).  A call is a            *)
(* composition of methods, so there is one lemma per method -- it          *)
(* preserves Inv, and what it leaves alone -- and the step of a call       *)
(* chains the lemmas of the methods it is made of.  The second part says   *)
(* that the shards that a shard waits for exist, and that what a broadcast *)
(* leaves at process level is never updated in place, GraphLevels.         *)
(*                                                                         *)
(* The third part is about the run of the job: no closure uses an object   *)
(* of the data stores while another changes it, as if every object had a   *)
(* readers-writer lock, and every closure finds what a sequential run      *)
(* would find.  The dependencies order tasks; the argument turns that into *)
(* an order of shards.  Along a path from a task on the CPU, either        *)
(* everything that starts waits for all its shards, or what starts waits   *)
(* for the shard of the same number, PathWaits.  So of two shards that use *)
(* partitions of one number of a dataset that one of them changes, the     *)
(* earlier is done when the later starts, Conflicting.  After a broadcast  *)
(* shards of all numbers use one object: Stored and Held say what a cell   *)
(* and a closure may have of it, and that nobody changes it any more.      *)
(***************************************************************************)
EXTENDS JobExecution, WellFoundedInduction, TLAPS

-----------------------------------------------------------------------------
(* Reachability is a preorder that contains the edges and grows with them. *)

\* A task reaches itself.
LEMMA ReachesSelf ==
  ASSUME NEW g, NEW a
  PROVE  Reaches(g, a, a)
BY DEF Reaches

\* Reachability composes.
LEMMA ReachesTrans ==
  ASSUME NEW g, NEW a, NEW b, NEW c, Reaches(g, a, b), Reaches(g, b, c)
  PROVE  Reaches(g, a, c)
BY DEF Reaches

\* A dependency is a path.
LEMMA ReachesEdge ==
  ASSUME NEW g, NEW a, NEW b, NEW k, <<a, b, k>> \in g.edges
  PROVE  Reaches(g, a, b)
BY DEF Reaches, Closed

\* A call only adds dependencies, so it keeps every path.
LEMMA ReachesMono ==
  ASSUME NEW g, NEW h, g.edges \subseteq h.edges, NEW a, NEW b, Reaches(g, a, b)
  PROVE  Reaches(h, a, b)
BY DEF Reaches, Closed

-----------------------------------------------------------------------------
(* The inductive invariant. *)

Touches(g, t, d) ==
  d \in g.produces[t] \cup g.reads[t] \cup g.writes[t] \/ <<t, d>> \in g.untracked

\* Ids that have not been given out are unused.
Fresh(g) ==
  /\ \A t \in TaskId, d \in DataId : t > g.nTasks \/ d > g.nData => ~Touches(g, t, d)
  /\ \A d \in DataId : d > g.nData => g.writePrec[d] = NoTask /\ g.readPrec[d] = {}
  /\ \A d \in g.handles : d <= g.nData

Inv(g) == g \in Graph /\ Fresh(g) /\ PrecedenceIn(g) /\ OrderedIn(g)

\* t is at least as new as every task that touches d.
Youngest(g, t, d) == \A x \in TaskId : Touches(g, x, d) => x <= t

\* The parts of two graphs that say who touches what agree.
SameAccess(g, h) ==
  /\ h.produces = g.produces /\ h.reads = g.reads /\ h.writes = g.writes
  /\ h.untracked = g.untracked
  /\ h.writePrec = g.writePrec /\ h.readPrec = g.readPrec

\* A graph with the same accesses and more dependencies keeps the order.
LEMMA SameAccessOrder ==
  ASSUME NEW g, NEW h, SameAccess(g, h), g.edges \subseteq h.edges,
         PrecedenceIn(g), OrderedIn(g)
  PROVE  PrecedenceIn(h) /\ OrderedIn(h)
<1>1. \A a, b : Reaches(g, a, b) => Reaches(h, a, b)
  BY ReachesMono
<1>2. \A t, d : /\ Mutates(h, t, d) <=> Mutates(g, t, d)
                /\ Tracked(h, t, d) <=> Tracked(g, t, d)
  BY DEF SameAccess, Mutates, Tracked
<1>3. \A d, a, b : Conflict(h, d, a, b) <=> Conflict(g, d, a, b)
  BY <1>2 DEF Conflict
<1>4. OrderedIn(h)
  BY <1>1, <1>3 DEF OrderedIn
<1>5. WritersPrecede(h)
  BY <1>1, <1>2 DEF PrecedenceIn, WritersPrecede, SameAccess
<1>6. ReadersKnown(h)
  BY <1>1, <1>2 DEF PrecedenceIn, ReadersKnown, SameAccess
<1>7. ReadersFollow(h)
  BY <1>1 DEF PrecedenceIn, ReadersFollow, SameAccess
<1> QED BY <1>4, <1>5, <1>6, <1>7 DEF PrecedenceIn

\* Fresh looks at the accesses, the counters and the handles only.
LEMMA SameAccessFresh ==
  ASSUME NEW g, NEW h, Inv(g), SameAccess(g, h),
         h.nTasks \in Nat, h.nData \in Nat,
         h.nTasks >= g.nTasks, h.nData >= g.nData,
         \A d \in h.handles : d <= h.nData
  PROVE  Fresh(h)
<1>1. \A t, d : Touches(h, t, d) <=> Touches(g, t, d)
  BY DEF Touches, SameAccess
<1>2. g.nTasks \in Nat /\ g.nData \in Nat
  BY TaskGraphAssumption DEF Inv, Graph
<1>3. \A t \in TaskId, d \in DataId :
        t > h.nTasks \/ d > h.nData => t > g.nTasks \/ d > g.nData
  BY <1>2, TaskGraphAssumption DEF TaskId, DataId
<1>4. \A d \in DataId : d > h.nData => g.writePrec[d] = NoTask /\ g.readPrec[d] = {}
  BY <1>2, TaskGraphAssumption DEF Inv, Fresh, DataId
<1> QED BY <1>1, <1>3, <1>4 DEF Inv, Fresh, SameAccess

-----------------------------------------------------------------------------
(* The methods. *)

\* Creating a task changes no access.
LEMMA CreateTaskInv ==
  ASSUME NEW g, Inv(g), g.nTasks < MaxTasks,
         NEW type \in ResourceType, NEW par \in Nat
  PROVE  LET h == CreateTask(g, type, par)
         IN /\ Inv(h) /\ SameAccess(g, h) /\ h.nData = g.nData
            /\ h.nTasks = g.nTasks + 1
            /\ h.edges = g.edges
<1> DEFINE h == CreateTask(g, type, par)
<1>1. g \in Graph
  BY DEF Inv
<1>2. /\ h.nData = g.nData /\ h.nTasks = g.nTasks + 1
      /\ h.edges = g.edges /\ h.handles = g.handles
      /\ SameAccess(g, h)
  BY <1>1 DEF CreateTask, Graph, SameAccess
<1>3. g.nTasks + 1 \in TaskId
  BY <1>1, TaskGraphAssumption DEF Graph, TaskId
<1>4. h \in Graph
  <2>1. g.nTasks + 1 \in 0..MaxTasks
    BY <1>1, TaskGraphAssumption DEF Graph
  <2>2. [g.type EXCEPT ![g.nTasks + 1] = type] \in [TaskId -> ResourceType]
    BY <1>1 DEF Graph
  <2>3. [g.par EXCEPT ![g.nTasks + 1] = par] \in [TaskId -> Nat]
    BY <1>1 DEF Graph
  <2> QED BY <1>1, <2>1, <2>2, <2>3 DEF CreateTask, Graph
<1>5. PrecedenceIn(h) /\ OrderedIn(h)
  BY <1>2, SameAccessOrder DEF Inv
<1>6. Fresh(h)
  <2>1. g.nTasks \in Nat /\ g.nData \in Nat
    BY <1>1, TaskGraphAssumption DEF Graph
  <2>2. \A d \in h.handles : d <= h.nData
    BY <1>2 DEF Inv, Fresh
  <2> QED BY <1>2, <2>1, <2>2, SameAccessFresh
<1> QED BY <1>2, <1>4, <1>5, <1>6 DEF Inv

\* So does adding dependencies.
LEMMA LinkInv ==
  ASSUME NEW g, Inv(g), NEW parents \in SUBSET TaskId, NEW child \in TaskId,
         NEW dep \in TaskDependencyType
  PROVE  LET h == Link(g, parents, child, dep)
         IN /\ Inv(h) /\ SameAccess(g, h)
            /\ h.nData = g.nData /\ h.nTasks = g.nTasks
            /\ g.edges \subseteq h.edges
            /\ \A p \in parents : <<p, child, dep>> \in h.edges
<1> DEFINE h == Link(g, parents, child, dep)
<1>1. g \in Graph
  BY DEF Inv
<1>2. /\ h.nData = g.nData /\ h.nTasks = g.nTasks /\ h.handles = g.handles
      /\ g.edges \subseteq h.edges
      /\ \A p \in parents : <<p, child, dep>> \in h.edges
      /\ SameAccess(g, h)
  BY <1>1 DEF Link, Graph, SameAccess
<1>3. h \in Graph
  <2>1. {<<p, child, dep>> : p \in parents} \subseteq TaskId \X TaskId \X TaskDependencyType
    OBVIOUS
  <2>2. h.edges \in SUBSET (TaskId \X TaskId \X TaskDependencyType)
    BY <1>1, <2>1 DEF Link, Graph
  <2>3. h = [g EXCEPT !.edges = h.edges]
    BY <1>1 DEF Link, Graph
  <2> HIDE DEF h
  <2> QED BY <1>1, <2>2, <2>3 DEF Graph
<1>4. PrecedenceIn(h) /\ OrderedIn(h)
  BY <1>2, SameAccessOrder DEF Inv
<1>5. Fresh(h)
  <2>1. g.nTasks \in Nat /\ g.nData \in Nat
    BY <1>1, TaskGraphAssumption DEF Graph
  <2>2. \A d \in h.handles : d <= h.nData
    BY <1>2 DEF Inv, Fresh
  <2> QED BY <1>2, <2>1, <2>2, SameAccessFresh
<1> QED BY <1>2, <1>3, <1>4, <1>5 DEF Inv

\* So does handing a dataset to the driver.
LEMMA ReturnInv ==
  ASSUME NEW g, Inv(g), NEW d \in DataId, d <= g.nData
  PROVE  Inv(Return(g, d))
<1> DEFINE h == Return(g, d)
<1>1. g \in Graph
  BY DEF Inv
<1>2. /\ h.nData = g.nData /\ h.nTasks = g.nTasks
      /\ h.handles = g.handles \cup {d}
      /\ h.edges = g.edges
      /\ SameAccess(g, h)
  BY <1>1 DEF Return, Graph, SameAccess
<1>3. h \in Graph
  BY <1>1 DEF Return, Graph
<1>4. PrecedenceIn(h) /\ OrderedIn(h)
  BY <1>2, SameAccessOrder DEF Inv
<1>5. Fresh(h)
  <2>1. g.nTasks \in Nat /\ g.nData \in Nat
    BY <1>1, TaskGraphAssumption DEF Graph
  <2>2. \A x \in h.handles : x <= h.nData
    BY <1>2 DEF Inv, Fresh
  <2> QED BY <1>2, <2>1, <2>2, SameAccessFresh
<1> QED BY <1>3, <1>4, <1>5 DEF Inv

\* So does saying whose objects the partitions of a dataset are.
LEMMA AliasInv ==
  ASSUME NEW g, Inv(g), NEW d \in DataId, NEW a \in DataId
  PROVE  Inv(Alias(g, d, a)) /\ Alias(g, d, a).nData = g.nData
<1> DEFINE h == Alias(g, d, a)
<1>1. g \in Graph /\ g.nTasks \in Nat /\ g.nData \in Nat
  BY TaskGraphAssumption DEF Inv, Graph
<1>2. /\ h.nData = g.nData /\ h.nTasks = g.nTasks /\ h.handles = g.handles
      /\ h.edges = g.edges /\ SameAccess(g, h)
  BY <1>1 DEF Alias, Graph, SameAccess
<1>3. h \in Graph
  <2>1. [g.alias EXCEPT ![d] = a] \in [DataId -> DataId \cup {NoData}]
    BY <1>1 DEF Graph
  <2> QED BY <1>1, <2>1 DEF Alias, Graph
<1>4. PrecedenceIn(h) /\ OrderedIn(h)
  BY <1>2, SameAccessOrder DEF Inv
<1>5. Fresh(h)
  <2>1. \A x \in h.handles : x <= h.nData
    BY <1>2 DEF Inv, Fresh
  <2> QED BY <1>1, <1>2, <2>1, SameAccessFresh
<1> QED BY <1>2, <1>3, <1>4, <1>5 DEF Inv

\* d is used by the same tasks and has the same write precedence.
Agree(g, h, d) ==
  /\ h.writePrec[d] = g.writePrec[d]
  /\ \A x \in TaskId : Touches(h, x, d) <=> Touches(g, x, d)

\* A dataset without producer changes no access either.
LEMMA NewDatasetInv ==
  ASSUME NEW g, Inv(g), g.nData < MaxData, NEW par \in Nat
  PROVE  LET h == NewDataset(g, par)
             r == g.nData + 1
         IN /\ Inv(h) /\ SameAccess(g, h)
            /\ r \in DataId /\ h.nData = r /\ h.nTasks = g.nTasks
            /\ h.edges = g.edges
            /\ h.writePrec[r] = NoTask /\ h.readPrec[r] = {}
            /\ \A x \in TaskId : ~Touches(h, x, r)
<1> DEFINE h == NewDataset(g, par)
           r == g.nData + 1
<1>1. g \in Graph /\ g.nTasks \in Nat /\ g.nData \in Nat
  BY TaskGraphAssumption DEF Inv, Graph
<1>2. r \in DataId /\ r > g.nData /\ r \in 0..MaxData
  BY <1>1, TaskGraphAssumption DEF DataId
<1>3. /\ h.nData = r /\ h.nTasks = g.nTasks
      /\ h.edges = g.edges /\ h.handles = g.handles
      /\ SameAccess(g, h)
  BY <1>1 DEF NewDataset, Graph, SameAccess
<1>4. h \in Graph
  <2>1. [g.dpar EXCEPT ![r] = par] \in [DataId -> Nat]
    BY <1>1 DEF Graph
  <2> QED BY <1>1, <1>2, <2>1 DEF NewDataset, Graph
<1>5. PrecedenceIn(h) /\ OrderedIn(h)
  BY <1>3, SameAccessOrder DEF Inv
<1>6. Fresh(h)
  <2>1. \A d \in h.handles : d <= h.nData
    BY <1>1, <1>3 DEF Inv, Fresh, Graph, DataId
  <2> QED BY <1>1, <1>2, <1>3, <2>1, SameAccessFresh
<1>7. /\ \A x \in TaskId : ~Touches(g, x, r)
      /\ g.writePrec[r] = NoTask /\ g.readPrec[r] = {}
  BY <1>2 DEF Inv, Fresh
<1>8. \A x \in TaskId : ~Touches(h, x, r)
  BY <1>3, <1>7 DEF Touches, SameAccess
<1> QED BY <1>2, <1>3, <1>4, <1>5, <1>6, <1>7, <1>8 DEF Inv, SameAccess

\* SetProducer of a dataset no task has touched.
LEMMA SetProducerInv ==
  ASSUME NEW g, Inv(g), NEW t \in TaskId, t <= g.nTasks,
         NEW r \in DataId, r <= g.nData,
         g.writePrec[r] = NoTask, g.readPrec[r] = {},
         \A x \in TaskId : ~Touches(g, x, r)
  PROVE  LET h == SetProducer(g, r, t)
         IN /\ Inv(h)
            /\ h.nTasks = g.nTasks /\ h.nData = g.nData /\ h.edges = g.edges
            /\ h.writePrec[r] = t
            /\ \A x \in TaskId : Touches(h, x, r) <=> x = t
            /\ \A d \in DataId \ {r} : Agree(g, h, d)
<1> DEFINE h == SetProducer(g, r, t)
<1>1. g \in Graph /\ g.nTasks \in Nat /\ g.nData \in Nat
  BY TaskGraphAssumption DEF Inv, Graph
<1>3. /\ h.nTasks = g.nTasks /\ h.nData = g.nData /\ h.edges = g.edges
      /\ h.handles = g.handles /\ h.untracked = g.untracked
      /\ h.reads = g.reads /\ h.writes = g.writes /\ h.readPrec = g.readPrec
      /\ h.writePrec = [g.writePrec EXCEPT ![r] = t]
      /\ h.produces = [g.produces EXCEPT ![t] = @ \cup {r}]
      /\ h.dpar = [g.dpar EXCEPT ![r] = g.par[t]]
  BY <1>1 DEF SetProducer, Graph
<1>4. h \in Graph
  <2>2. h.writePrec \in [DataId -> TaskId \cup {NoTask}]
    BY <1>1, <1>3 DEF Graph
  <2>3. h.produces \in [TaskId -> SUBSET DataId]
    BY <1>1, <1>3 DEF Graph
  <2>4. h.dpar \in [DataId -> Nat]
    BY <1>1, <1>3 DEF Graph
  <2>5. h = [g EXCEPT !.dpar = h.dpar, !.writePrec = h.writePrec, !.produces = h.produces]
    BY <1>3, Zenon DEF SetProducer
  <2> HIDE DEF h
  <2> QED BY <1>1, <2>2, <2>3, <2>4, <2>5 DEF Graph
<1>5. \A x \in TaskId, d \in DataId :
        /\ Mutates(h, x, d) <=> Mutates(g, x, d) \/ (x = t /\ d = r)
        /\ Tracked(h, x, d) <=> Tracked(g, x, d)
        /\ Touches(h, x, d) <=> Touches(g, x, d) \/ (x = t /\ d = r)
  BY <1>1, <1>3 DEF Mutates, Tracked, Touches, Graph
<1>6. /\ h.writePrec[r] = t
      /\ \A d \in DataId \ {r} : h.writePrec[d] = g.writePrec[d]
  BY <1>1, <1>3 DEF Graph
<1>8. \A x \in TaskId : ~Mutates(g, x, r) /\ ~Tracked(g, x, r) /\ <<x, r>> \notin g.untracked
  BY DEF Touches, Mutates, Tracked
<1>9. \A a, b : Reaches(g, a, b) <=> Reaches(h, a, b)
  BY <1>3, ReachesMono
<1>10. t # NoTask
  BY DEF TaskId, NoTask
<1>11. Fresh(h)
  <2>1. \A x \in TaskId, d \in DataId : x > h.nTasks \/ d > h.nData => ~Touches(h, x, d)
    BY <1>1, <1>3, <1>5 DEF Inv, Fresh, TaskId, DataId
  <2>2. \A d \in DataId : d > h.nData => h.writePrec[d] = NoTask /\ h.readPrec[d] = {}
    BY <1>1, <1>3, <1>6 DEF Inv, Fresh, DataId
  <2>3. \A d \in h.handles : d <= h.nData
    BY <1>1, <1>3 DEF Inv, Fresh, Graph, DataId
  <2> QED BY <2>1, <2>2, <2>3 DEF Fresh
<1>12. WritersPrecede(h)
  BY <1>5, <1>6, <1>8, <1>9, <1>10, ReachesSelf DEF Inv, PrecedenceIn, WritersPrecede
<1>13. ReadersKnown(h)
  BY <1>3, <1>5, <1>6, <1>8, <1>9 DEF Inv, PrecedenceIn, ReadersKnown
<1>14. ReadersFollow(h)
  BY <1>3, <1>6, <1>8, <1>9 DEF Inv, PrecedenceIn, ReadersFollow
<1>15. OrderedIn(h)
  <2> SUFFICES ASSUME NEW d \in DataId, NEW a \in TaskId, NEW b \in TaskId,
                      a < b, Conflict(h, d, a, b)
               PROVE  Reaches(h, a, b)
    BY DEF OrderedIn
  <2>1. a # b
    BY DEF TaskId
  <2>2. d # r
    BY <1>5, <1>8, <2>1 DEF Conflict
  <2>3. Conflict(g, d, a, b)
    BY <1>5, <2>2 DEF Conflict
  <2> QED BY <1>9, <2>3 DEF Inv, OrderedIn
<1>16. Inv(h)
  BY <1>4, <1>11, <1>12, <1>13, <1>14, <1>15 DEF Inv, PrecedenceIn
<1>17. \A x \in TaskId : Touches(h, x, r) <=> x = t
  BY <1>5
<1>18. \A d \in DataId \ {r} : Agree(g, h, d)
  BY <1>5, <1>6 DEF Agree
<1> QED BY <1>3, <1>6, <1>16, <1>17, <1>18

\* A new dataset is touched by its producer alone.
LEMMA CreateInv ==
  ASSUME NEW g, Inv(g), NEW t \in TaskId, t <= g.nTasks, g.nData < MaxData
  PROVE  LET h == Create(g, t)
             r == g.nData + 1
         IN /\ Inv(h) /\ r \in DataId
            /\ h.nTasks = g.nTasks /\ h.nData = r /\ h.edges = g.edges
            /\ h.writePrec[r] = t
            /\ \A x \in TaskId : Touches(h, x, r) <=> x = t
            /\ \A d \in DataId \ {r} : Agree(g, h, d)
<1> DEFINE n == NewDataset(g, 0)
           h == Create(g, t)
           r == g.nData + 1
<1>1. /\ Inv(n) /\ SameAccess(g, n)
      /\ r \in DataId /\ n.nData = r /\ n.nTasks = g.nTasks /\ n.edges = g.edges
      /\ n.writePrec[r] = NoTask /\ n.readPrec[r] = {}
      /\ \A x \in TaskId : ~Touches(n, x, r)
  BY NewDatasetInv
<1>2. h = SetProducer(n, r, t)
  BY DEF Create
<1>3. r <= n.nData
  BY <1>1 DEF DataId
<1> HIDE DEF n
<1>4. /\ Inv(h)
      /\ h.nTasks = n.nTasks /\ h.nData = n.nData /\ h.edges = n.edges
      /\ h.writePrec[r] = t
      /\ \A x \in TaskId : Touches(h, x, r) <=> x = t
      /\ \A d \in DataId \ {r} : Agree(n, h, d)
  BY <1>1, <1>2, <1>3, SetProducerInv
<1>5. \A d : Agree(g, n, d)
  BY <1>1 DEF Agree, SameAccess, Touches
<1>6. \A d \in DataId \ {r} : Agree(g, h, d)
  BY <1>4, <1>5 DEF Agree
<1> QED BY <1>1, <1>4, <1>6

\* The half of MayWrite that the precedence fields need.
Unshared(g, d) == Disciplined => \A t \in TaskId : <<t, d>> \notin g.untracked

\* ReadBy and BroadcastBy by the newest task that touches d.
LEMMA ReadViaInv ==
  ASSUME NEW g, Inv(g), NEW d \in DataId, d <= g.nData, g.writePrec[d] # NoTask,
         NEW t \in TaskId, t <= g.nTasks, Youngest(g, t, d),
         NEW dep \in TaskDependencyType
  PROVE  LET h == ReadVia(g, d, t, dep)
         IN /\ Inv(h)
            /\ h.nTasks = g.nTasks /\ h.nData = g.nData
            /\ g.edges \subseteq h.edges
            /\ Reaches(h, g.writePrec[d], t)
            /\ h.writePrec = g.writePrec
            /\ \A x \in TaskId : Touches(h, x, d) <=> Touches(g, x, d) \/ x = t
            /\ \A e \in DataId \ {d} : Agree(g, h, e)
<1> DEFINE h == ReadVia(g, d, t, dep)
           w == g.writePrec[d]
<1>1. g \in Graph /\ g.nTasks \in Nat /\ g.nData \in Nat
  BY TaskGraphAssumption DEF Inv, Graph
<1>2. w \in TaskId
  BY <1>1 DEF Graph
<1>3. /\ h.nTasks = g.nTasks /\ h.nData = g.nData
      /\ h.edges = g.edges \cup {<<w, t, dep>>}
      /\ h.handles = g.handles /\ h.untracked = g.untracked
      /\ h.produces = g.produces /\ h.writes = g.writes
      /\ h.writePrec = g.writePrec
      /\ h.reads = [g.reads EXCEPT ![t] = @ \cup {d}]
      /\ h.readPrec = [g.readPrec EXCEPT ![d] = @ \cup {t}]
  <2> DEFINE l == Link(g, {w}, t, dep)
  <2>1. /\ l.edges = g.edges \cup {<<w, t, dep>>}
        /\ l.nTasks = g.nTasks /\ l.nData = g.nData
        /\ l.handles = g.handles /\ l.untracked = g.untracked
        /\ l.produces = g.produces /\ l.writes = g.writes /\ l.reads = g.reads
        /\ l.writePrec = g.writePrec /\ l.readPrec = g.readPrec
    BY <1>1 DEF Link, Graph
  <2>2. l \in Graph
    BY <1>2, LinkInv DEF Inv
  <2>3. h = [l EXCEPT !.reads[t] = @ \cup {d}, !.readPrec[d] = @ \cup {t}]
    BY DEF ReadVia
  <2> HIDE DEF l, h
  <2> QED BY <2>1, <2>2, <2>3 DEF Graph
<1>4. h \in Graph
  <2>2. h.reads \in [TaskId -> SUBSET DataId]
    BY <1>1, <1>3 DEF Graph
  <2>3. h.readPrec \in [DataId -> SUBSET TaskId]
    BY <1>1, <1>3 DEF Graph
  <2>4. Link(g, {w}, t, dep) \in Graph
    BY <1>2, LinkInv DEF Inv
  <2>5. h = [Link(g, {w}, t, dep) EXCEPT !.reads = h.reads, !.readPrec = h.readPrec]
    BY <2>4 DEF ReadVia, Graph
  <2> HIDE DEF h
  <2> QED BY <2>2, <2>3, <2>4, <2>5 DEF Graph
<1>5. \A x \in TaskId, e \in DataId :
        /\ Mutates(h, x, e) <=> Mutates(g, x, e)
        /\ Tracked(h, x, e) => Tracked(g, x, e) \/ (x = t /\ e = d)
        /\ Touches(h, x, e) <=> Touches(g, x, e) \/ (x = t /\ e = d)
  BY <1>1, <1>3 DEF Mutates, Tracked, Touches, Graph
<1>6. /\ h.readPrec[d] = g.readPrec[d] \cup {t}
      /\ \A e \in DataId \ {d} : h.readPrec[e] = g.readPrec[e]
  BY <1>1, <1>3 DEF Graph
<1>7. \A a, b : Reaches(g, a, b) => Reaches(h, a, b)
  BY <1>3, ReachesMono
<1>8. Reaches(h, w, t)
  BY <1>3, ReachesEdge
<1>9. Fresh(h)
  <2>1. \A x \in TaskId, e \in DataId : x > h.nTasks \/ e > h.nData => ~Touches(h, x, e)
    BY <1>1, <1>3, <1>5 DEF Inv, Fresh, TaskId, DataId
  <2>2. \A e \in DataId : e > h.nData => h.writePrec[e] = NoTask /\ h.readPrec[e] = {}
    BY <1>1, <1>3, <1>6 DEF Inv, Fresh, DataId
  <2> QED BY <1>3, <2>1, <2>2 DEF Inv, Fresh
<1>10. WritersPrecede(h)
  BY <1>3, <1>5, <1>7 DEF Inv, PrecedenceIn, WritersPrecede
<1>11. ReadersKnown(h)
  <2> SUFFICES ASSUME NEW e \in DataId, NEW x \in TaskId, Tracked(h, x, e)
               PROVE  x \in h.readPrec[e] \/ (h.writePrec[e] # NoTask /\ Reaches(h, x, h.writePrec[e]))
    BY DEF ReadersKnown
  <2>1. CASE x = t /\ e = d
    BY <1>6, <2>1
  <2>2. CASE Tracked(g, x, e)
    <3>1. x \in g.readPrec[e] => x \in h.readPrec[e]
      BY <1>6
    <3> QED BY <1>3, <1>7, <2>2, <3>1 DEF Inv, PrecedenceIn, ReadersKnown
  <2> QED BY <1>5, <2>1, <2>2
<1>12. ReadersFollow(h)
  <2> SUFFICES ASSUME NEW e \in DataId, NEW x \in TaskId,
                      x \in h.readPrec[e] \/ (Disciplined /\ <<x, e>> \in h.untracked)
               PROVE  h.writePrec[e] # NoTask /\ Reaches(h, h.writePrec[e], x)
    BY DEF ReadersFollow
  <2>1. CASE x = t /\ e = d
    BY <1>3, <1>8, <2>1
  <2>2. CASE ~(x = t /\ e = d)
    <3>1. x \in g.readPrec[e] \/ (Disciplined /\ <<x, e>> \in g.untracked)
      BY <1>3, <1>6, <2>2
    <3> QED BY <1>3, <1>7, <3>1 DEF Inv, PrecedenceIn, ReadersFollow
  <2> QED BY <2>1, <2>2
<1>13. OrderedIn(h)
  <2> SUFFICES ASSUME NEW e \in DataId, NEW a \in TaskId, NEW b \in TaskId,
                      a < b, Conflict(h, e, a, b)
               PROVE  Reaches(h, a, b)
    BY DEF OrderedIn
  <2>1. CASE Conflict(g, e, a, b)
    BY <1>7, <2>1 DEF Inv, OrderedIn
  <2>2. CASE e = d /\ b = t /\ Mutates(g, a, d)
    <3>1. Reaches(h, a, w)
      BY <1>7, <2>2 DEF Inv, PrecedenceIn, WritersPrecede
    <3> QED BY <1>8, <2>2, <3>1, ReachesTrans
  <2>3. CASE e = d /\ a = t /\ Mutates(g, b, d)
    <3>1. b <= t
      BY <2>3 DEF Youngest, Touches, Mutates
    <3> QED BY <2>3, <3>1 DEF TaskId
  <2> QED BY <1>5, <2>1, <2>2, <2>3 DEF Conflict
<1>14. Inv(h)
  BY <1>4, <1>9, <1>10, <1>11, <1>12, <1>13 DEF Inv, PrecedenceIn
<1>15. \A x \in TaskId : Touches(h, x, d) <=> Touches(g, x, d) \/ x = t
  BY <1>5
<1>16. \A e \in DataId \ {d} : Agree(g, h, e)
  BY <1>3, <1>5 DEF Agree
<1> QED BY <1>3, <1>8, <1>14, <1>15, <1>16
\* WriteBy by a task newer than all that touch d.
LEMMA WriteByInv ==
  ASSUME NEW g, Inv(g), NEW d \in DataId, d <= g.nData, g.writePrec[d] # NoTask,
         NEW t \in TaskId, t <= g.nTasks, Youngest(g, t, d), Unshared(g, d)
  PROVE  LET h == WriteBy(g, d, t)
         IN /\ Inv(h)
            /\ h.nTasks = g.nTasks /\ h.nData = g.nData
            /\ h.writePrec[d] = t
            /\ \A x \in TaskId : Touches(h, x, d) <=> Touches(g, x, d) \/ x = t
            /\ \A e \in DataId \ {d} : Agree(g, h, e)
<1> DEFINE h == WriteBy(g, d, t)
           P == WriteParents(g, d)
           dep == ThenType(g, t)
           l == Link(g, P, t, dep)
           w == g.writePrec[d]
<1>1. g \in Graph /\ g.nTasks \in Nat /\ g.nData \in Nat
  BY TaskGraphAssumption DEF Inv, Graph
<1>2. /\ w \in TaskId /\ t # NoTask
      /\ P \in SUBSET TaskId /\ dep \in TaskDependencyType
  BY <1>1 DEF Graph, WriteParents, ThenType, TaskDependencyType, TaskId, NoTask
<1>3. /\ l \in Graph /\ SameAccess(g, l)
      /\ l.nData = g.nData /\ l.nTasks = g.nTasks /\ l.handles = g.handles
      /\ g.edges \subseteq l.edges
      /\ \A p \in P : <<p, t, dep>> \in l.edges
  <2>1. l.handles = g.handles
    BY <1>1 DEF Link, Graph
  <2> QED BY <1>2, <2>1, LinkInv DEF Inv
<1>4. h = [l EXCEPT !.writes[t] = @ \cup {d}, !.readPrec[d] = {}, !.writePrec[d] = t]
  BY DEF WriteBy, Then
<1> HIDE DEF h, l, P, dep
<1>5. /\ h.nTasks = g.nTasks /\ h.nData = g.nData
      /\ h.edges = l.edges
      /\ h.handles = g.handles /\ h.untracked = g.untracked
      /\ h.produces = g.produces /\ h.reads = g.reads
      /\ h.writePrec = [g.writePrec EXCEPT ![d] = t]
      /\ h.writes = [g.writes EXCEPT ![t] = @ \cup {d}]
      /\ h.readPrec = [g.readPrec EXCEPT ![d] = {}]
  BY <1>3, <1>4 DEF Graph, SameAccess
<1>6. h \in Graph
  <2>1. h.writePrec \in [DataId -> TaskId \cup {NoTask}]
    BY <1>1, <1>5 DEF Graph
  <2>2. h.writes \in [TaskId -> SUBSET DataId]
    BY <1>1, <1>5 DEF Graph
  <2>3. h.readPrec \in [DataId -> SUBSET TaskId]
    BY <1>1, <1>5 DEF Graph
  <2>4. h = [l EXCEPT !.writes = h.writes, !.readPrec = h.readPrec, !.writePrec = h.writePrec]
    BY <1>3, <1>4 DEF Graph
  <2> QED BY <1>3, <2>1, <2>2, <2>3, <2>4 DEF Graph
<1>7. \A x \in TaskId, e \in DataId :
        /\ Mutates(h, x, e) <=> Mutates(g, x, e) \/ (x = t /\ e = d)
        /\ Tracked(h, x, e) <=> Tracked(g, x, e)
        /\ Touches(h, x, e) <=> Touches(g, x, e) \/ (x = t /\ e = d)
  BY <1>1, <1>5 DEF Mutates, Tracked, Touches, Graph
<1>8. /\ h.writePrec[d] = t /\ h.readPrec[d] = {}
      /\ \A e \in DataId \ {d} : /\ h.writePrec[e] = g.writePrec[e]
                                 /\ h.readPrec[e] = g.readPrec[e]
  BY <1>1, <1>5 DEF Graph
<1>9. \A a, b : Reaches(g, a, b) => Reaches(h, a, b)
  BY <1>3, <1>5, ReachesMono
<1>10. \A p \in P : Reaches(h, p, t)
  BY <1>3, <1>5, ReachesEdge
\* The write precedence comes before t, directly or through a reader.
<1>11. Reaches(h, w, t)
  <2>1. CASE g.readPrec[d] = {}
    <3>1. w \in P
      BY <2>1 DEF P, WriteParents
    <3> QED BY <1>10, <3>1
  <2>2. CASE g.readPrec[d] # {}
    <3>1. PICK r \in g.readPrec[d] : TRUE
      BY <2>2
    <3>2. r \in P /\ r \in TaskId
      BY <1>1, <2>2 DEF P, WriteParents, Graph
    <3>3. Reaches(g, w, r)
      BY <3>2, <3>1 DEF Inv, PrecedenceIn, ReadersFollow
    <3> QED BY <1>9, <1>10, <3>2, <3>3, ReachesTrans
  <2> QED BY <2>1, <2>2
\* So does every task that mutates d or that d knows to read it.
<1>12. ASSUME NEW x \in TaskId, Mutates(g, x, d) \/ Tracked(g, x, d)
       PROVE  Reaches(h, x, t)
  <2>1. CASE x \in g.readPrec[d]
    <3>1. x \in P
      BY <2>1 DEF P, WriteParents
    <3> QED BY <1>10, <3>1
  <2>2. CASE x \notin g.readPrec[d]
    <3>1. Reaches(g, x, w)
      BY <1>12, <2>2 DEF Inv, PrecedenceIn, WritersPrecede, ReadersKnown
    <3> QED BY <1>9, <1>11, <3>1, ReachesTrans
  <2> QED BY <2>1, <2>2
<1>13. Fresh(h)
  <2>1. \A x \in TaskId, e \in DataId : x > h.nTasks \/ e > h.nData => ~Touches(h, x, e)
    BY <1>1, <1>5, <1>7 DEF Inv, Fresh, TaskId, DataId
  <2>2. \A e \in DataId : e > h.nData => h.writePrec[e] = NoTask /\ h.readPrec[e] = {}
    BY <1>1, <1>5, <1>8 DEF Inv, Fresh, DataId
  <2> QED BY <1>5, <2>1, <2>2 DEF Inv, Fresh
<1>14. WritersPrecede(h)
  <2> SUFFICES ASSUME NEW e \in DataId, NEW x \in TaskId, Mutates(h, x, e)
               PROVE  h.writePrec[e] # NoTask /\ Reaches(h, x, h.writePrec[e])
    BY DEF WritersPrecede
  <2>1. CASE e # d
    BY <1>7, <1>8, <1>9, <2>1 DEF Inv, PrecedenceIn, WritersPrecede
  <2>2. CASE e = d /\ x = t
    BY <1>2, <1>8, <2>2, ReachesSelf
  <2>3. CASE e = d /\ x # t
    BY <1>2, <1>7, <1>8, <1>12, <2>3
  <2> QED BY <2>1, <2>2, <2>3
<1>15. ReadersKnown(h)
  <2> SUFFICES ASSUME NEW e \in DataId, NEW x \in TaskId, Tracked(h, x, e)
               PROVE  x \in h.readPrec[e] \/ (h.writePrec[e] # NoTask /\ Reaches(h, x, h.writePrec[e]))
    BY DEF ReadersKnown
  <2>1. CASE e # d
    BY <1>7, <1>8, <1>9, <2>1 DEF Inv, PrecedenceIn, ReadersKnown
  <2>2. CASE e = d
    BY <1>2, <1>7, <1>8, <1>12, <2>2
  <2> QED BY <2>1, <2>2
<1>16. ReadersFollow(h)
  <2> SUFFICES ASSUME NEW e \in DataId, NEW x \in TaskId,
                      x \in h.readPrec[e] \/ (Disciplined /\ <<x, e>> \in h.untracked)
               PROVE  h.writePrec[e] # NoTask /\ Reaches(h, h.writePrec[e], x)
    BY DEF ReadersFollow
  <2>1. e # d
    BY <1>5, <1>8 DEF Unshared
  <2> QED BY <1>5, <1>8, <1>9, <2>1 DEF Inv, PrecedenceIn, ReadersFollow
<1>17. OrderedIn(h)
  <2> SUFFICES ASSUME NEW e \in DataId, NEW a \in TaskId, NEW b \in TaskId,
                      a < b, Conflict(h, e, a, b)
               PROVE  Reaches(h, a, b)
    BY DEF OrderedIn
  <2>1. CASE Conflict(g, e, a, b)
    BY <1>9, <2>1 DEF Inv, OrderedIn
  <2>2. CASE e = d /\ b = t /\ a # t
    <3>1. Mutates(g, a, d) \/ Tracked(g, a, d)
      BY <1>7, <2>2 DEF Conflict
    <3> QED BY <1>12, <2>2, <3>1
  <2>3. CASE e = d /\ a = t /\ b # t
    <3>1. Touches(g, b, d)
      BY <1>7, <2>3 DEF Conflict, Touches, Mutates, Tracked
    <3> QED BY <2>3, <3>1 DEF TaskId, Youngest
  <2>4. a # b
    BY DEF TaskId
  <2> QED BY <1>7, <2>1, <2>2, <2>3, <2>4 DEF Conflict
<1>18. Inv(h)
  BY <1>6, <1>13, <1>14, <1>15, <1>16, <1>17 DEF Inv, PrecedenceIn
<1>19. \A x \in TaskId : Touches(h, x, d) <=> Touches(g, x, d) \/ x = t
  BY <1>7
<1>20. \A e \in DataId \ {d} : Agree(g, h, e)
  BY <1>7, <1>8 DEF Agree
<1> QED BY <1>5, <1>8, <1>18, <1>19, <1>20 DEF h

\* ReadData by a task that comes after the write precedence of d anyway.
LEMMA ReadDataInv ==
  ASSUME NEW g, Inv(g), NEW d \in DataId, d <= g.nData, g.writePrec[d] # NoTask,
         NEW t \in TaskId, t <= g.nTasks,
         Disciplined => Reaches(g, g.writePrec[d], t)
  PROVE  LET h == ReadData(g, d, t)
         IN /\ Inv(h)
            /\ h.nTasks = g.nTasks /\ h.nData = g.nData /\ h.edges = g.edges
            /\ h.writePrec = g.writePrec
            /\ \A e \in DataId \ {d} : Agree(g, h, e)
<1> DEFINE h == ReadData(g, d, t)
<1>1. g \in Graph /\ g.nTasks \in Nat /\ g.nData \in Nat
  BY TaskGraphAssumption DEF Inv, Graph
<1>2. /\ h.nTasks = g.nTasks /\ h.nData = g.nData /\ h.edges = g.edges
      /\ h.handles = g.handles
      /\ h.produces = g.produces /\ h.writes = g.writes
      /\ h.writePrec = g.writePrec /\ h.readPrec = g.readPrec
      /\ h.reads = [g.reads EXCEPT ![t] = @ \cup {d}]
      /\ h.untracked = g.untracked \cup {<<t, d>>}
  BY <1>1 DEF ReadData, Graph
<1>3. h \in Graph
  <2>1. h.reads \in [TaskId -> SUBSET DataId]
    BY <1>1, <1>2 DEF Graph
  <2>2. h.untracked \in SUBSET (TaskId \X DataId)
    BY <1>1, <1>2 DEF Graph
  <2>3. h = [g EXCEPT !.reads = h.reads, !.untracked = h.untracked]
    BY <1>1 DEF ReadData, Graph
  <2> HIDE DEF h
  <2> QED BY <1>1, <2>1, <2>2, <2>3 DEF Graph
<1>4. \A x \in TaskId, e \in DataId :
        /\ Mutates(h, x, e) <=> Mutates(g, x, e)
        /\ Tracked(h, x, e) => Tracked(g, x, e)
        /\ Touches(h, x, e) <=> Touches(g, x, e) \/ (x = t /\ e = d)
  BY <1>1, <1>2 DEF Mutates, Tracked, Touches, Graph
<1>5. \A a, b : Reaches(g, a, b) => Reaches(h, a, b)
  BY <1>2, ReachesMono
<1>6. Fresh(h)
  <2>1. \A x \in TaskId, e \in DataId : x > h.nTasks \/ e > h.nData => ~Touches(h, x, e)
    BY <1>1, <1>2, <1>4 DEF Inv, Fresh, TaskId, DataId
  <2> QED BY <1>2, <2>1 DEF Inv, Fresh
<1>7. WritersPrecede(h)
  BY <1>2, <1>4, <1>5 DEF Inv, PrecedenceIn, WritersPrecede
<1>8. ReadersKnown(h)
  BY <1>2, <1>4, <1>5 DEF Inv, PrecedenceIn, ReadersKnown
<1>9. ReadersFollow(h)
  BY <1>2, <1>5 DEF Inv, PrecedenceIn, ReadersFollow
<1>10. OrderedIn(h)
  <2>1. \A e \in DataId, a, b \in TaskId : Conflict(h, e, a, b) => Conflict(g, e, a, b)
    BY <1>4 DEF Conflict
  <2> QED BY <1>5, <2>1 DEF Inv, OrderedIn
<1>11. \A e \in DataId \ {d} : Agree(g, h, e)
  BY <1>2, <1>4 DEF Agree
<1> QED BY <1>2, <1>3, <1>6, <1>7, <1>8, <1>9, <1>10, <1>11 DEF Inv, PrecedenceIn

-----------------------------------------------------------------------------
(* The calls.                                                              *)

\* A call that needs a task: the next id is unused, hence the newest.
LEMMA NextTask ==
  ASSUME NEW g, Inv(g), g.nTasks < MaxTasks,
         NEW type \in ResourceType, NEW par \in Nat
  PROVE  LET h == CreateTask(g, type, par)
             t == g.nTasks + 1
         IN /\ Inv(h) /\ t \in TaskId /\ h.nTasks = t /\ h.nData = g.nData
            /\ h.edges = g.edges /\ h.untracked = g.untracked
            /\ \A d \in DataId : Agree(g, h, d)
            /\ \A d \in DataId, x \in TaskId : Touches(h, x, d) => x < t
<1> DEFINE h == CreateTask(g, type, par)
           t == g.nTasks + 1
<1>1. /\ Inv(h) /\ SameAccess(g, h) /\ h.nData = g.nData
      /\ h.nTasks = t /\ h.edges = g.edges
  BY CreateTaskInv
<1>2. g.nTasks \in Nat /\ t \in TaskId
  BY TaskGraphAssumption DEF Inv, Graph, TaskId
<1>3. \A d \in DataId : Agree(g, h, d)
  BY <1>1 DEF Agree, SameAccess, Touches
<1>4. \A d \in DataId, x \in TaskId : Touches(h, x, d) => x < t
  BY <1>2, <1>3 DEF Agree, Inv, Fresh, TaskId
<1> QED BY <1>1, <1>2, <1>3, <1>4 DEF SameAccess

\* The datasets a call may be made on have a producer.
LEMMA UsableFacts ==
  ASSUME Inv(graph), NEW d \in Usable
  PROVE  /\ d \in DataId /\ d <= graph.nData /\ graph.nData \in Nat
         /\ graph.writePrec[d] \in TaskId /\ graph.writePrec[d] # NoTask
         /\ graph.dpar[d] \in Nat
BY TaskGraphAssumption DEF Inv, Graph, Fresh, Usable

\* ReadBy is ReadVia with one of the dependency types.
LEMMA ThenTypeOK ==
  ASSUME NEW g, NEW t
  PROVE  ThenType(g, t) \in TaskDependencyType
BY DEF ThenType, TaskDependencyType

\* The calls that create one task and at most one dataset.
LEMMA AddTaskStep ==
  ASSUME Inv(graph), NEW parents \in SUBSET TaskId, NEW n \in Parallelisms,
         AddTask(parents, n)
  PROVE  Inv(graph')
<1> DEFINE c == CreateTask(graph, "CPU", n)
           t == graph.nTasks + 1
<1>1. graph.nTasks < MaxTasks /\ n \in Nat
  BY TaskGraphAssumption DEF AddTask, HasRoom, Inv, Graph
<1>2. Inv(c) /\ t \in TaskId
  BY <1>1, NextTask DEF ResourceType
<1>3. graph' = Link(c, parents, t, "Sync")
  BY DEF AddTask
<1> HIDE DEF c, t
<1> QED BY <1>2, <1>3, LinkInv DEF TaskDependencyType

LEMMA TextSourceDatasetStep ==
  ASSUME Inv(graph), NEW n \in Parallelisms, TextSourceDataset(n)
  PROVE  Inv(graph')
<1> DEFINE h == NewDataset(graph, n)
           r == graph.nData + 1
<1>1. graph.nData < MaxData /\ n \in Nat
  BY TaskGraphAssumption DEF TextSourceDataset, HasRoom, Inv, Graph
<1>2. Inv(h) /\ r \in DataId /\ h.nData = r
  BY <1>1, NewDatasetInv
<1>3. graph' = Return(h, r) /\ r <= h.nData
  BY <1>2 DEF TextSourceDataset, DataId
<1> HIDE DEF h, r
<1> QED BY <1>2, <1>3, ReturnInv

LEMMA FlatMapStep ==
  ASSUME Inv(graph), NEW d \in DataId, FlatMap(d)
  PROVE  Inv(graph')
<1> DEFINE c == CreateTask(graph, "CPU", graph.dpar[d])
           t == graph.nTasks + 1
           h == Create(c, t)
           r == graph.nData + 1
<1>1. /\ graph.nTasks < MaxTasks /\ graph.nData < MaxData
      /\ graph.dpar[d] \in Nat
  BY TaskGraphAssumption DEF FlatMap, HasRoom, Inv, Graph
<1>2. Inv(c) /\ t \in TaskId /\ c.nTasks = t /\ c.nData = graph.nData
  BY <1>1, NextTask DEF ResourceType
<1>3. t <= c.nTasks
  BY <1>2 DEF TaskId
<1>4. graph' = Return(h, r)
  BY DEF FlatMap
<1> HIDE DEF c
<1>5. Inv(h) /\ r \in DataId /\ h.nData = r
  BY <1>1, <1>2, <1>3, CreateInv
<1>6. r <= h.nData
  BY <1>5 DEF DataId
<1> HIDE DEF h, r
<1> QED BY <1>4, <1>5, <1>6, ReturnInv

LEMMA ApplyReadStep ==
  ASSUME Inv(graph), NEW d \in DataId, ApplyRead(d)
  PROVE  Inv(graph')
<1> DEFINE c == CreateTask(graph, "CPU", graph.dpar[d])
           t == graph.nTasks + 1
<1>1. d \in Usable /\ graph.nTasks < MaxTasks
  BY TaskGraphAssumption DEF ApplyRead, HasRoom, Inv, Graph
<1>2. /\ d <= graph.nData /\ graph.writePrec[d] # NoTask /\ graph.dpar[d] \in Nat
  BY <1>1, UsableFacts
<1>3. /\ Inv(c) /\ t \in TaskId /\ c.nTasks = t /\ c.nData = graph.nData
      /\ Agree(graph, c, d) /\ \A x \in TaskId : Touches(c, x, d) => x < t
  BY <1>1, <1>2, NextTask DEF ResourceType
<1>4. t <= c.nTasks /\ Youngest(c, t, d)
  BY <1>3 DEF Youngest, TaskId
<1>5. graph' = ReadVia(c, d, t, ThenType(c, t))
  BY DEF ApplyRead, ReadBy
<1> HIDE DEF c, t
<1> QED BY <1>2, <1>3, <1>4, <1>5, ThenTypeOK, ReadViaInv DEF Agree

LEMMA UpdatePartitionStep ==
  ASSUME Inv(graph), NEW d \in DataId, UpdatePartition(d)
  PROVE  Inv(graph')
<1> DEFINE c == CreateTask(graph, "CPU", graph.dpar[d])
           t == graph.nTasks + 1
<1>1. d \in Usable /\ graph.nTasks < MaxTasks /\ MayWrite(graph, d)
  BY TaskGraphAssumption DEF UpdatePartition, HasRoom, Inv, Graph
<1>2. /\ d <= graph.nData /\ graph.writePrec[d] # NoTask /\ graph.dpar[d] \in Nat
  BY <1>1, UsableFacts
<1>3. /\ Inv(c) /\ t \in TaskId /\ c.nTasks = t /\ c.nData = graph.nData
      /\ c.untracked = graph.untracked
      /\ Agree(graph, c, d) /\ \A x \in TaskId : Touches(c, x, d) => x < t
  BY <1>1, <1>2, NextTask DEF ResourceType
<1>4. t <= c.nTasks /\ Youngest(c, t, d) /\ Unshared(c, d)
  BY <1>1, <1>3 DEF Youngest, TaskId, MayWrite, Unshared
<1>5. graph' = WriteBy(c, d, t)
  BY DEF UpdatePartition
<1> HIDE DEF c, t
<1> QED BY <1>2, <1>3, <1>4, <1>5, WriteByInv DEF Agree

LEMMA UpdatePartitionWithStep ==
  ASSUME Inv(graph), NEW d \in DataId, NEW other \in DataId,
         UpdatePartitionWith(d, other)
  PROVE  Inv(graph')
<1> DEFINE c == CreateTask(graph, "CPU", graph.dpar[d])
           t == graph.nTasks + 1
           u == WriteBy(c, d, t)
<1>1. /\ d \in Usable /\ other \in Usable
      /\ graph.nTasks < MaxTasks /\ MayWrite(graph, d)
  BY TaskGraphAssumption DEF UpdatePartitionWith, HasRoom, Inv, Graph
<1>2. /\ d <= graph.nData /\ graph.writePrec[d] # NoTask /\ graph.dpar[d] \in Nat
      /\ other <= graph.nData /\ graph.writePrec[other] # NoTask
  BY <1>1, UsableFacts
<1>3. /\ Inv(c) /\ t \in TaskId /\ c.nTasks = t /\ c.nData = graph.nData
      /\ c.untracked = graph.untracked
      /\ Agree(graph, c, d) /\ Agree(graph, c, other)
      /\ \A e \in DataId, x \in TaskId : Touches(c, x, e) => x < t
  BY <1>1, <1>2, NextTask DEF ResourceType
<1>4. t <= c.nTasks /\ Youngest(c, t, d) /\ Unshared(c, d)
  BY <1>1, <1>3 DEF Youngest, TaskId, MayWrite, Unshared
<1>5. graph' = ReadVia(u, other, t, ThenType(u, t))
  BY DEF UpdatePartitionWith, ReadBy
<1> HIDE DEF c
<1>6. /\ Inv(u) /\ u.nTasks = c.nTasks /\ u.nData = c.nData
      /\ u.writePrec[d] = t
      /\ \A x \in TaskId : Touches(u, x, d) <=> Touches(c, x, d) \/ x = t
      /\ \A e \in DataId \ {d} : Agree(c, u, e)
  BY <1>1, <1>2, <1>3, <1>4, WriteByInv DEF Agree
<1>7. u.writePrec[other] # NoTask
  BY <1>2, <1>3, <1>6 DEF Agree, TaskId, NoTask
<1>8. Youngest(u, t, other)
  BY <1>3, <1>6 DEF Youngest, Agree, TaskId
<1> HIDE DEF u, t
<1> QED BY <1>2, <1>3, <1>4, <1>5, <1>6, <1>7, <1>8, ThenTypeOK, ReadViaInv

\* A call that creates a CPU task and the dataset it produces.
LEMMA NextProducer ==
  ASSUME NEW g, Inv(g), g.nTasks < MaxTasks, g.nData < MaxData, NEW par \in Nat
  PROVE  LET t == g.nTasks + 1
             r == g.nData + 1
             h == Create(CreateTask(g, "CPU", par), t)
         IN /\ Inv(h) /\ t \in TaskId /\ r \in DataId /\ h.nTasks = t /\ h.nData = r
            /\ h.edges = g.edges
            /\ \A d \in DataId : d <= g.nData =>
                 Agree(g, h, d) /\ d <= h.nData /\ Youngest(h, t, d)
<1> DEFINE c == CreateTask(g, "CPU", par)
           t == g.nTasks + 1
           r == g.nData + 1
           h == Create(c, t)
<1>1. /\ Inv(c) /\ t \in TaskId /\ c.nTasks = t /\ c.nData = g.nData
      /\ c.edges = g.edges
      /\ \A d \in DataId : Agree(g, c, d)
      /\ \A d \in DataId, x \in TaskId : Touches(c, x, d) => x < t
  BY NextTask DEF ResourceType
<1>2. t <= c.nTasks /\ g.nData \in Nat
  BY <1>1, TaskGraphAssumption DEF TaskId, Inv, Graph
<1> HIDE DEF c
<1>3. /\ Inv(h) /\ r \in DataId /\ h.nTasks = t /\ h.nData = r /\ h.edges = g.edges
      /\ \A d \in DataId \ {r} : Agree(c, h, d)
  BY <1>1, <1>2, CreateInv
<1>4. ASSUME NEW d \in DataId, d <= g.nData
      PROVE  Agree(g, h, d) /\ d <= h.nData /\ Youngest(h, t, d)
  <2>1. d # r /\ d <= h.nData
    BY <1>2, <1>3, <1>4 DEF DataId
  <2>2. Agree(c, h, d) /\ Agree(g, c, d)
    BY <1>1, <1>3, <2>1
  <2> HIDE DEF h
  <2>3. Agree(g, h, d)
    BY <2>2 DEF Agree
  <2>4. Youngest(h, t, d)
    BY <1>1, <2>2 DEF Youngest, Agree, TaskId
  <2> QED BY <2>1, <2>3, <2>4
<1> QED BY <1>1, <1>3, <1>4 DEF c

LEMMA MapPartitionStep ==
  ASSUME Inv(graph), NEW d \in DataId, MapPartition(d)
  PROVE  Inv(graph')
<1> DEFINE t == graph.nTasks + 1
           r == graph.nData + 1
           g == Create(CreateTask(graph, "CPU", graph.dpar[d]), t)
           h == ReadVia(g, d, t, ThenType(g, t))
<1>1. d \in Usable /\ graph.nTasks < MaxTasks /\ graph.nData < MaxData
  BY TaskGraphAssumption DEF MapPartition, HasRoom, Inv, Graph
<1>2. /\ d <= graph.nData /\ graph.writePrec[d] # NoTask /\ graph.dpar[d] \in Nat
  BY <1>1, UsableFacts
<1>3. /\ Inv(g) /\ t \in TaskId /\ r \in DataId /\ g.nTasks = t /\ g.nData = r
      /\ Agree(graph, g, d) /\ d <= g.nData /\ Youngest(g, t, d)
  BY <1>1, <1>2, NextProducer
<1>4. graph' = Return(h, r)
  BY DEF MapPartition, ReadBy
<1> HIDE DEF g
<1>5. t <= g.nTasks /\ r <= g.nData /\ g.writePrec[d] # NoTask
  BY <1>2, <1>3 DEF TaskId, DataId, Agree
<1> HIDE DEF t, r
<1>6. Inv(h) /\ h.nData = g.nData
  BY <1>3, <1>5, ThenTypeOK, ReadViaInv
<1> HIDE DEF h
<1> QED BY <1>3, <1>4, <1>5, <1>6, ReturnInv

LEMMA MapPartitionWithStep ==
  ASSUME Inv(graph), NEW d \in DataId, NEW other \in DataId,
         MapPartitionWith(d, other)
  PROVE  Inv(graph')
<1> DEFINE t == graph.nTasks + 1
           r == graph.nData + 1
           g == Create(CreateTask(graph, "CPU", graph.dpar[d]), t)
           k == ReadVia(g, d, t, ThenType(g, t))
           h == ReadVia(k, other, t, ThenType(k, t))
<1>1. /\ d \in Usable /\ other \in Usable
      /\ graph.nTasks < MaxTasks /\ graph.nData < MaxData
  BY TaskGraphAssumption DEF MapPartitionWith, HasRoom, Inv, Graph
<1>2. /\ d <= graph.nData /\ graph.writePrec[d] # NoTask /\ graph.dpar[d] \in Nat
      /\ other <= graph.nData /\ graph.writePrec[other] # NoTask
  BY <1>1, UsableFacts
<1>3. /\ Inv(g) /\ t \in TaskId /\ r \in DataId /\ g.nTasks = t /\ g.nData = r
      /\ Agree(graph, g, d) /\ d <= g.nData /\ Youngest(g, t, d)
      /\ Agree(graph, g, other) /\ other <= g.nData /\ Youngest(g, t, other)
  BY <1>1, <1>2, NextProducer
<1>4. graph' = Return(h, r)
  BY DEF MapPartitionWith, ReadBy
<1> HIDE DEF g
<1>5. /\ t <= g.nTasks /\ r <= g.nData
      /\ g.writePrec[d] # NoTask /\ g.writePrec[other] # NoTask
  BY <1>2, <1>3 DEF TaskId, DataId, Agree
<1> HIDE DEF t, r
<1>6. /\ Inv(k) /\ k.nData = g.nData /\ k.nTasks = g.nTasks /\ k.writePrec = g.writePrec
      /\ \A x \in TaskId : Touches(k, x, d) <=> Touches(g, x, d) \/ x = t
      /\ \A e \in DataId \ {d} : Agree(g, k, e)
  BY <1>3, <1>5, ThenTypeOK, ReadViaInv
<1>7. Youngest(k, t, other)
  BY <1>3, <1>6 DEF Youngest, Agree, TaskId
<1> HIDE DEF k
<1>8. Inv(h) /\ h.nData = g.nData
  BY <1>3, <1>5, <1>6, <1>7, ThenTypeOK, ReadViaInv
<1> HIDE DEF h
<1> QED BY <1>3, <1>4, <1>5, <1>8, ReturnInv

LEMMA SharedDataMapPartitionWithStep ==
  ASSUME Inv(graph), NEW d \in DataId, NEW other \in DataId,
         SharedDataMapPartitionWith(d, other)
  PROVE  Inv(graph')
<1> DEFINE t == graph.nTasks + 1
           r == graph.nData + 1
           g == Create(CreateTask(graph, "CPU", graph.dpar[d]), t)
           k == ReadVia(g, other, t, ThenType(g, t))
           h == ReadData(k, d, t)
<1>1. /\ d \in Usable /\ other \in Usable /\ MayShare(graph, d, other)
      /\ graph.nTasks < MaxTasks /\ graph.nData < MaxData
  BY TaskGraphAssumption DEF SharedDataMapPartitionWith, HasRoom, Inv, Graph
<1>2. /\ d <= graph.nData /\ graph.writePrec[d] # NoTask /\ graph.dpar[d] \in Nat
      /\ other <= graph.nData /\ graph.writePrec[other] # NoTask
  BY <1>1, UsableFacts
<1>3. /\ Inv(g) /\ t \in TaskId /\ r \in DataId /\ g.nTasks = t /\ g.nData = r
      /\ g.edges = graph.edges
      /\ Agree(graph, g, d) /\ d <= g.nData
      /\ Agree(graph, g, other) /\ other <= g.nData /\ Youngest(g, t, other)
  BY <1>1, <1>2, NextProducer
<1>4. graph' = Return(h, r)
  BY DEF SharedDataMapPartitionWith, ReadBy
<1> HIDE DEF g
<1>5. /\ t <= g.nTasks /\ r <= g.nData
      /\ g.writePrec[d] = graph.writePrec[d] /\ g.writePrec[d] # NoTask
      /\ g.writePrec[other] = graph.writePrec[other] /\ g.writePrec[other] # NoTask
  BY <1>2, <1>3 DEF TaskId, DataId, Agree
<1> HIDE DEF t, r
<1>6. /\ Inv(k) /\ k.nData = g.nData /\ k.nTasks = g.nTasks /\ k.writePrec = g.writePrec
      /\ g.edges \subseteq k.edges
      /\ Reaches(k, g.writePrec[other], t)
  BY <1>3, <1>5, ThenTypeOK, ReadViaInv
\* The argument comes after the shared data, and the task after the argument.
<1>7. Disciplined => Reaches(k, k.writePrec[d], t)
  <2>1. Disciplined => Reaches(graph, graph.writePrec[d], graph.writePrec[other])
    BY <1>1 DEF MayShare
  <2>2. Disciplined => Reaches(k, graph.writePrec[d], graph.writePrec[other])
    BY <1>3, <1>6, <2>1, ReachesMono
  <2> QED BY <1>5, <1>6, <2>2, ReachesTrans
<1> HIDE DEF k
<1>8. Inv(h) /\ h.nData = g.nData
  BY <1>3, <1>5, <1>6, <1>7, ReadDataInv
<1> HIDE DEF h
<1> QED BY <1>3, <1>4, <1>5, <1>8, ReturnInv

(***************************************************************************)
(* The dependencies of a shuffle: serialize reads d, the network task      *)
(* reads the messages, deserialize what the network task delivered.        *)
(***************************************************************************)
LEMMA ShuffleEdges ==
  ASSUME NEW g, Inv(g),
         NEW d \in DataId, NEW message \in DataId, NEW shuffled \in DataId,
         d # message, d # shuffled, message # shuffled,
         d <= g.nData, message <= g.nData, shuffled <= g.nData,
         NEW serialize \in TaskId, NEW net \in TaskId, NEW deserialize \in TaskId,
         serialize <= g.nTasks, net <= g.nTasks, deserialize <= g.nTasks,
         serialize < net,
         g.writePrec[d] # NoTask, Youngest(g, serialize, d),
         g.writePrec[message] = serialize,
         \A x \in TaskId : Touches(g, x, message) <=> x = serialize,
         g.writePrec[shuffled] = net,
         NEW dep1 \in TaskDependencyType, NEW dep2 \in TaskDependencyType
  PROVE  LET g1 == ReadVia(g, d, serialize, dep1)
             g2 == ReadVia(g1, message, net, dep2)
             g3 == Link(g2, {net}, deserialize, "Aggregate")
             h  == ReadData(g3, shuffled, deserialize)
         IN /\ Inv(h) /\ h.nTasks = g.nTasks /\ h.nData = g.nData
            /\ h.writePrec = g.writePrec
<1> DEFINE g1 == ReadVia(g, d, serialize, dep1)
           g2 == ReadVia(g1, message, net, dep2)
           g3 == Link(g2, {net}, deserialize, "Aggregate")
           h  == ReadData(g3, shuffled, deserialize)
<1>1. /\ Inv(g1) /\ g1.nTasks = g.nTasks /\ g1.nData = g.nData
      /\ g1.writePrec = g.writePrec
      /\ \A e \in DataId \ {d} : Agree(g, g1, e)
  BY ReadViaInv
<1> HIDE DEF g1
<1>2. Youngest(g1, net, message) /\ g1.writePrec[message] # NoTask
  <2>1. Agree(g, g1, message)
    BY <1>1
  <2> QED BY <1>1, <2>1 DEF Youngest, Agree, TaskId, NoTask
<1>3. /\ Inv(g2) /\ g2.nTasks = g.nTasks /\ g2.nData = g.nData
      /\ g2.writePrec = g.writePrec
  BY <1>1, <1>2, ReadViaInv
<1> HIDE DEF g2
<1>4. /\ Inv(g3) /\ SameAccess(g2, g3)
      /\ g3.nTasks = g.nTasks /\ g3.nData = g.nData
      /\ <<net, deserialize, "Aggregate">> \in g3.edges
  <2> DEFINE parents == {net}
             dep == "Aggregate"
  <2>1. parents \in SUBSET TaskId /\ dep \in TaskDependencyType
    BY DEF TaskDependencyType
  <2>2. g3 = Link(g2, parents, deserialize, dep) /\ net \in parents
    OBVIOUS
  <2>3. /\ Inv(g3) /\ SameAccess(g2, g3)
        /\ g3.nData = g2.nData /\ g3.nTasks = g2.nTasks
        /\ <<net, deserialize, dep>> \in g3.edges
    <3> HIDE DEF g3, parents, dep
    <3> QED BY <1>3, <2>1, <2>2, LinkInv
  <2> HIDE DEF g3
  <2> QED BY <1>3, <2>3
<1> HIDE DEF g3
<1>5. g3.writePrec = g.writePrec
  BY <1>3, <1>4 DEF SameAccess
<1>6. Reaches(g3, g3.writePrec[shuffled], deserialize)
  BY <1>4, <1>5, ReachesEdge
<1>7. g3.writePrec[shuffled] # NoTask
  BY <1>5 DEF TaskId, NoTask
<1>8. /\ Inv(h) /\ h.nTasks = g.nTasks /\ h.nData = g.nData
      /\ h.writePrec = g.writePrec
  BY <1>4, <1>5, <1>6, <1>7, ReadDataInv
<1> QED BY <1>8 DEF g1, g2, g3

\* The tasks of a shuffle of a dataset with par partitions into n.
LEMMA ShuffleTasks ==
  ASSUME NEW g, Inv(g), g.nTasks + 3 <= MaxTasks, NEW par \in Nat, NEW n \in Nat
  PROVE  LET h == CreateTask(CreateTask(CreateTask(g, "CPU", par), "NetWork", n), "CPU", n)
         IN /\ Inv(h) /\ h.nTasks = g.nTasks + 3 /\ h.nData = g.nData
            /\ \A e \in DataId : Agree(g, h, e)
<1> DEFINE g1 == CreateTask(g, "CPU", par)
           g2 == CreateTask(g1, "NetWork", n)
           h  == CreateTask(g2, "CPU", n)
<1>1. g.nTasks \in Nat
  BY TaskGraphAssumption DEF Inv, Graph
<1>2. /\ Inv(g1) /\ g1.nTasks = g.nTasks + 1 /\ g1.nData = g.nData
      /\ \A e \in DataId : Agree(g, g1, e)
  <2>1. g.nTasks < MaxTasks
    BY <1>1, TaskGraphAssumption
  <2> QED BY <2>1, NextTask DEF ResourceType
<1> HIDE DEF g1
<1>3. /\ Inv(g2) /\ g2.nTasks = g.nTasks + 2 /\ g2.nData = g.nData
      /\ \A e \in DataId : Agree(g1, g2, e)
  <2>1. g1.nTasks < MaxTasks /\ g1.nTasks + 1 = g.nTasks + 2
    BY <1>1, <1>2, TaskGraphAssumption
  <2> QED BY <1>2, <2>1, NextTask DEF ResourceType
<1> HIDE DEF g2
<1>4. /\ Inv(h) /\ h.nTasks = g.nTasks + 3 /\ h.nData = g.nData
      /\ \A e \in DataId : Agree(g2, h, e)
  <2>1. g2.nTasks < MaxTasks /\ g2.nTasks + 1 = g.nTasks + 3
    BY <1>1, <1>3, TaskGraphAssumption
  <2> QED BY <1>3, <2>1, NextTask DEF ResourceType
<1> HIDE DEF h
<1>5. \A e \in DataId : Agree(g, h, e)
  BY <1>2, <1>3, <1>4 DEF Agree
<1> QED BY <1>4, <1>5 DEF h, g1, g2

\* The datasets of a shuffle, one for each of its tasks.
LEMMA ShuffleData ==
  ASSUME NEW g, Inv(g), g.nData + 3 <= MaxData,
         NEW serialize \in TaskId, NEW net \in TaskId, NEW deserialize \in TaskId,
         serialize <= g.nTasks, net <= g.nTasks, deserialize <= g.nTasks
  PROVE  LET h == Create(Create(Create(g, serialize), net), deserialize)
             m == g.nData
         IN /\ Inv(h) /\ h.nTasks = g.nTasks /\ h.nData = m + 3
            /\ m + 1 \in DataId /\ m + 2 \in DataId /\ m + 3 \in DataId
            /\ h.writePrec[m + 1] = serialize
            /\ h.writePrec[m + 2] = net
            /\ h.writePrec[m + 3] = deserialize
            /\ \A x \in TaskId : Touches(h, x, m + 1) <=> x = serialize
            /\ \A e \in DataId : e <= m => Agree(g, h, e)
<1> DEFINE m  == g.nData
           g1 == Create(g, serialize)
           g2 == Create(g1, net)
           h  == Create(g2, deserialize)
<1>1. m \in Nat
  BY TaskGraphAssumption DEF Inv, Graph
<1>2. m < MaxData /\ m + 1 < MaxData /\ m + 2 < MaxData
  BY <1>1, TaskGraphAssumption
<1>3. /\ Inv(g1) /\ g1.nTasks = g.nTasks /\ g1.nData = m + 1
      /\ m + 1 \in DataId /\ g1.writePrec[m + 1] = serialize
      /\ \A x \in TaskId : Touches(g1, x, m + 1) <=> x = serialize
      /\ \A e \in DataId \ {m + 1} : Agree(g, g1, e)
  BY <1>2, CreateInv
<1> HIDE DEF g1
<1>4. /\ Inv(g2) /\ g2.nTasks = g.nTasks /\ g2.nData = m + 2
      /\ m + 2 \in DataId /\ g2.writePrec[m + 2] = net
      /\ \A e \in DataId \ {m + 2} : Agree(g1, g2, e)
  <2>1. g1.nData < MaxData /\ g1.nData + 1 = m + 2
    BY <1>1, <1>2, <1>3
  <2> QED BY <1>3, <2>1, CreateInv
<1> HIDE DEF g2
<1>5. /\ Inv(h) /\ h.nTasks = g.nTasks /\ h.nData = m + 3
      /\ m + 3 \in DataId /\ h.writePrec[m + 3] = deserialize
      /\ \A e \in DataId \ {m + 3} : Agree(g2, h, e)
  <2>1. g2.nData < MaxData /\ g2.nData + 1 = m + 3
    BY <1>1, <1>2, <1>4
  <2> QED BY <1>4, <2>1, CreateInv
<1> HIDE DEF h
<1>6. Agree(g1, h, m + 1) /\ Agree(g2, h, m + 2)
  <2>1. m + 1 # m + 2 /\ m + 1 # m + 3 /\ m + 2 # m + 3
    BY <1>1
  <2>2. Agree(g1, g2, m + 1) /\ Agree(g2, h, m + 1) /\ Agree(g2, h, m + 2)
    BY <1>3, <1>4, <1>5, <2>1
  <2> QED BY <2>2 DEF Agree
<1>7. ASSUME NEW e \in DataId, e <= m
      PROVE  Agree(g, h, e)
  <2>1. e # m + 1 /\ e # m + 2 /\ e # m + 3
    BY <1>1, <1>7 DEF DataId
  <2>2. Agree(g, g1, e) /\ Agree(g1, g2, e) /\ Agree(g2, h, e)
    BY <1>3, <1>4, <1>5, <2>1
  <2> QED BY <2>2 DEF Agree
<1> HIDE DEF m
<1>8. h.writePrec[m + 1] = serialize /\ h.writePrec[m + 2] = net
  BY <1>3, <1>4, <1>6 DEF Agree
<1>9. \A x \in TaskId : Touches(h, x, m + 1) <=> x = serialize
  BY <1>3, <1>6 DEF Agree
<1> QED BY <1>3, <1>4, <1>5, <1>7, <1>8, <1>9 DEF m, h, g1, g2

LEMMA PartitionByStep ==
  ASSUME Inv(graph), NEW d \in DataId, NEW n \in Parallelisms, PartitionBy(d, n)
  PROVE  Inv(graph')
<1> DEFINE serialize   == graph.nTasks + 1
           net         == graph.nTasks + 2
           deserialize == graph.nTasks + 3
           message     == graph.nData + 1
           shuffled    == graph.nData + 2
           ret         == graph.nData + 3
           g2 == CreateTask(CreateTask(CreateTask(graph, "CPU", graph.dpar[d]), "NetWork", n), "CPU", n)
           g3 == Create(Create(Create(g2, serialize), net), deserialize)
           dep1 == ThenType(g3, serialize)
           g4 == ReadVia(g3, d, serialize, dep1)
           dep2 == ThenType(g4, net)
           g5 == ReadVia(g4, message, net, dep2)
           g6 == Link(g5, {net}, deserialize, "Aggregate")
           h  == ReadData(g6, shuffled, deserialize)
<1>1. /\ d \in Usable
      /\ graph.nTasks + 3 <= MaxTasks /\ graph.nData + 3 <= MaxData
  BY DEF PartitionBy, HasRoom
<1>2. /\ d <= graph.nData /\ graph.writePrec[d] # NoTask /\ graph.dpar[d] \in Nat
      /\ n \in Nat /\ graph.nTasks \in Nat /\ graph.nData \in Nat
  BY <1>1, UsableFacts, TaskGraphAssumption DEF Inv, Graph
<1>3. /\ Inv(g2) /\ g2.nTasks = graph.nTasks + 3 /\ g2.nData = graph.nData
      /\ Agree(graph, g2, d)
  BY <1>1, <1>2, ShuffleTasks
<1>4. graph' = Return(h, ret)
  BY DEF PartitionBy, ReadBy
<1>5. /\ serialize \in TaskId /\ net \in TaskId /\ deserialize \in TaskId
      /\ serialize <= g2.nTasks /\ net <= g2.nTasks /\ deserialize <= g2.nTasks
      /\ serialize < net
  BY <1>1, <1>2, <1>3, TaskGraphAssumption DEF TaskId
<1> HIDE DEF g2
<1>6. /\ Inv(g3) /\ g3.nTasks = g2.nTasks /\ g3.nData = ret
      /\ message \in DataId /\ shuffled \in DataId /\ ret \in DataId
      /\ g3.writePrec[message] = serialize /\ g3.writePrec[shuffled] = net
      /\ \A x \in TaskId : Touches(g3, x, message) <=> x = serialize
      /\ Agree(g2, g3, d)
  BY <1>1, <1>2, <1>3, <1>5, ShuffleData
<1>7. /\ d # message /\ d # shuffled /\ message # shuffled
      /\ d <= ret /\ message <= ret /\ shuffled <= ret /\ ret <= ret
  BY <1>2 DEF DataId
<1> HIDE DEF g3
<1>8. g3.writePrec[d] # NoTask /\ Youngest(g3, serialize, d)
  <2>1. \A x \in TaskId : Touches(graph, x, d) => x <= graph.nTasks
    BY <1>2 DEF Inv, Fresh, TaskId
  <2> QED BY <1>2, <1>3, <1>6, <2>1 DEF Youngest, Agree, TaskId
<1>9. dep1 \in TaskDependencyType /\ dep2 \in TaskDependencyType
  BY ThenTypeOK
<1> HIDE DEF serialize, net, deserialize, message, shuffled, ret, dep1, dep2
<1>10. Inv(h) /\ h.nData = g3.nData
  BY <1>5, <1>6, <1>7, <1>8, <1>9, ShuffleEdges
<1> HIDE DEF h
<1> QED BY <1>4, <1>6, <1>7, <1>10, ReturnInv

LEMMA BroadcastStep ==
  ASSUME Inv(graph), NEW d \in DataId, NEW n \in Parallelisms, Broadcast(d, n)
  PROVE  Inv(graph')
<1> DEFINE serialize   == graph.nTasks + 1
           net         == graph.nTasks + 2
           deserialize == graph.nTasks + 3
           fetch       == graph.nTasks + 4
           message     == graph.nData + 1
           shuffled    == graph.nData + 2
           received    == graph.nData + 3
           ret         == graph.nData + 4
           g2 == CreateTask(CreateTask(CreateTask(graph, "CPU", graph.dpar[d]), "NetWork", n), "CPU", n)
           g3 == CreateTask(g2, "CPU", n)
           g4 == Create(Create(Create(g3, serialize), net), deserialize)
           g5 == Create(g4, fetch)
           dep1 == ThenType(g5, serialize)
           g6 == ReadVia(g5, d, serialize, dep1)
           g7 == ReadVia(g6, message, net, "Broadcast")
           g8 == Link(g7, {net}, deserialize, "Aggregate")
           g9 == ReadData(g8, shuffled, deserialize)
           dep2 == ThenType(g9, fetch)
           g10 == Link(g9, {deserialize}, fetch, dep2)
           g11 == ReadData(g10, received, fetch)
           h == Alias(g11, ret, received)
<1>1. /\ d \in Usable
      /\ graph.nTasks + 4 <= MaxTasks /\ graph.nData + 4 <= MaxData
  BY DEF Broadcast, HasRoom
<1>2. /\ d <= graph.nData /\ graph.writePrec[d] # NoTask /\ graph.dpar[d] \in Nat
      /\ n \in Nat /\ graph.nTasks \in Nat /\ graph.nData \in Nat
      /\ graph.nTasks + 3 <= MaxTasks /\ graph.nData + 3 <= MaxData
  BY <1>1, UsableFacts, TaskGraphAssumption DEF Inv, Graph
<1>3. /\ Inv(g2) /\ g2.nTasks = graph.nTasks + 3 /\ g2.nData = graph.nData
      /\ Agree(graph, g2, d)
  BY <1>1, <1>2, ShuffleTasks
<1>4. graph' = Return(h, ret)
  BY DEF Broadcast, ReadBy, BroadcastBy, Then
<1> HIDE DEF g2
<1>5. /\ Inv(g3) /\ g3.nTasks = fetch /\ g3.nData = graph.nData
      /\ Agree(g2, g3, d)
  <2>1. g2.nTasks < MaxTasks /\ g2.nTasks + 1 = fetch
    BY <1>1, <1>2, <1>3, TaskGraphAssumption
  <2> QED BY <1>2, <1>3, <2>1, NextTask DEF ResourceType
<1>6. /\ serialize \in TaskId /\ net \in TaskId /\ deserialize \in TaskId /\ fetch \in TaskId
      /\ serialize <= g3.nTasks /\ net <= g3.nTasks /\ deserialize <= g3.nTasks
      /\ fetch <= g3.nTasks /\ serialize < net
  BY <1>1, <1>2, <1>5, TaskGraphAssumption DEF TaskId
<1> HIDE DEF g3
<1>7. /\ Inv(g4) /\ g4.nTasks = g3.nTasks /\ g4.nData = received
      /\ message \in DataId /\ shuffled \in DataId /\ received \in DataId
      /\ g4.writePrec[message] = serialize /\ g4.writePrec[shuffled] = net
      /\ g4.writePrec[received] = deserialize
      /\ \A x \in TaskId : Touches(g4, x, message) <=> x = serialize
      /\ Agree(g3, g4, d)
  BY <1>1, <1>2, <1>5, <1>6, ShuffleData
<1>8. /\ d # message /\ d # shuffled /\ message # shuffled
      /\ d # ret /\ message # ret /\ shuffled # ret /\ received # ret
      /\ d <= ret /\ message <= ret /\ shuffled <= ret /\ received <= ret /\ ret <= ret
      /\ received < MaxData /\ received + 1 = ret
  BY <1>1, <1>2, TaskGraphAssumption DEF DataId
<1> HIDE DEF g4
<1>9. /\ Inv(g5) /\ g5.nTasks = g4.nTasks /\ g5.nData = ret /\ ret \in DataId
      /\ Agree(g4, g5, d) /\ Agree(g4, g5, message)
      /\ Agree(g4, g5, shuffled) /\ Agree(g4, g5, received)
  BY <1>6, <1>7, <1>8, CreateInv
<1> HIDE DEF g5
<1>10. /\ g5.writePrec[d] # NoTask /\ Youngest(g5, serialize, d)
       /\ g5.writePrec[message] = serialize /\ g5.writePrec[shuffled] = net
       /\ g5.writePrec[received] = deserialize
       /\ \A x \in TaskId : Touches(g5, x, message) <=> x = serialize
  <2>1. \A x \in TaskId : Touches(graph, x, d) => x <= graph.nTasks
    BY <1>2 DEF Inv, Fresh, TaskId
  <2> QED BY <1>2, <1>3, <1>5, <1>7, <1>9, <2>1 DEF Youngest, Agree, TaskId
<1>11. /\ dep1 \in TaskDependencyType /\ dep2 \in TaskDependencyType
       /\ "Broadcast" \in TaskDependencyType
  BY ThenTypeOK DEF TaskDependencyType
<1> HIDE DEF serialize, net, deserialize, fetch, message, shuffled, received, ret, dep1, dep2
<1>12. /\ Inv(g9) /\ g9.nTasks = g5.nTasks /\ g9.nData = g5.nData
       /\ g9.writePrec = g5.writePrec
  BY <1>6, <1>7, <1>8, <1>9, <1>10, <1>11, ShuffleEdges
<1> HIDE DEF g9
<1>13. /\ Inv(g10) /\ SameAccess(g9, g10)
       /\ g10.nTasks = g9.nTasks /\ g10.nData = g9.nData
       /\ <<deserialize, fetch, dep2>> \in g10.edges
  <2>1. {deserialize} \in SUBSET TaskId
    BY <1>6
  <2> QED BY <1>6, <1>11, <1>12, <2>1, LinkInv
<1> HIDE DEF g10
<1>14. /\ g10.writePrec[received] = deserialize /\ g10.writePrec[received] # NoTask
       /\ Reaches(g10, g10.writePrec[received], fetch)
  <2>1. g10.writePrec[received] = deserialize
    BY <1>10, <1>12, <1>13 DEF SameAccess
  <2> QED BY <1>6, <1>13, <2>1, ReachesEdge DEF TaskId, NoTask
<1>15. Inv(g11) /\ g11.nData = g5.nData
  BY <1>6, <1>7, <1>8, <1>9, <1>12, <1>13, <1>14, ReadDataInv
<1> HIDE DEF g11
<1>16. Inv(h) /\ h.nData = g5.nData
  BY <1>7, <1>9, <1>15, AliasInv
<1> HIDE DEF h
<1> QED BY <1>4, <1>8, <1>9, <1>16, ReturnInv

-----------------------------------------------------------------------------
(* The theorems. *)

\* The driver starts from an empty graph.
LEMMA InitInv == Init => Inv(graph)
<1> SUFFICES ASSUME Init PROVE Inv(graph)
  OBVIOUS
<1>1. graph = EmptyGraph
  BY DEF Init
<1>2. graph \in Graph
  BY <1>1, TaskGraphAssumption DEF EmptyGraph, Graph, ResourceType, TaskId, DataId, NoTask
<1>3. \A t \in TaskId, d \in DataId : ~Touches(graph, t, d) /\ graph.readPrec[d] = {}
  BY <1>1 DEF EmptyGraph, Touches
<1>4. Fresh(graph)
  BY <1>1, <1>3 DEF EmptyGraph, Fresh
<1>5. PrecedenceIn(graph)
  BY <1>3 DEF PrecedenceIn, WritersPrecede, ReadersKnown, ReadersFollow, Touches, Mutates, Tracked
<1>6. OrderedIn(graph)
  BY <1>3 DEF OrderedIn, Conflict, Touches, Mutates, Tracked
<1> QED BY <1>2, <1>4, <1>5, <1>6 DEF Inv

\* Every call preserves the invariant.
LEMMA NextInv == Inv(graph) /\ [Next]_graph => Inv(graph')
<1> SUFFICES ASSUME Inv(graph), [Next]_graph PROVE Inv(graph')
  OBVIOUS
<1>1. ASSUME NEW n \in Parallelisms, TextSourceDataset(n) PROVE Inv(graph')
  BY <1>1, TextSourceDatasetStep
<1>2. ASSUME NEW n \in Parallelisms, AddTask({}, n) PROVE Inv(graph')
  BY <1>2, AddTaskStep
<1>3. ASSUME NEW n \in Parallelisms, NEW p \in 1..graph.nTasks, AddTask({p}, n)
      PROVE  Inv(graph')
  <2>1. {p} \in SUBSET TaskId
    BY TaskGraphAssumption DEF Inv, Graph, TaskId
  <2> QED BY <1>3, <2>1, AddTaskStep
<1>4. ASSUME NEW d \in DataId, FlatMap(d) PROVE Inv(graph')
  BY <1>4, FlatMapStep
<1>5. ASSUME NEW d \in DataId, ApplyRead(d) PROVE Inv(graph')
  BY <1>5, ApplyReadStep
<1>6. ASSUME NEW d \in DataId, MapPartition(d) PROVE Inv(graph')
  BY <1>6, MapPartitionStep
<1>7. ASSUME NEW d \in DataId, UpdatePartition(d) PROVE Inv(graph')
  BY <1>7, UpdatePartitionStep
<1>8. ASSUME NEW d \in DataId, NEW other \in DataId, MapPartitionWith(d, other)
      PROVE  Inv(graph')
  BY <1>8, MapPartitionWithStep
<1>9. ASSUME NEW d \in DataId, NEW other \in DataId, SharedDataMapPartitionWith(d, other)
      PROVE  Inv(graph')
  BY <1>9, SharedDataMapPartitionWithStep
<1>10. ASSUME NEW d \in DataId, NEW other \in DataId, UpdatePartitionWith(d, other)
       PROVE  Inv(graph')
  BY <1>10, UpdatePartitionWithStep
<1>11. ASSUME NEW d \in DataId, NEW n \in Parallelisms, PartitionBy(d, n)
       PROVE  Inv(graph')
  BY <1>11, PartitionByStep
<1>12. ASSUME NEW d \in DataId, NEW n \in Parallelisms, Broadcast(d, n)
       PROVE  Inv(graph')
  BY <1>12, BroadcastStep
<1>13. CASE UNCHANGED graph
  BY <1>13
<1> QED BY <1>1, <1>2, <1>3, <1>4, <1>5, <1>6, <1>7, <1>8, <1>9, <1>10,
           <1>11, <1>12, <1>13 DEF Next

\* The graph of every driver satisfies the inductive invariant.
THEOREM GraphInvariant == Spec => []Inv(graph)
<1>1. Inv(graph) /\ [Next]_graph => Inv(graph)'
  BY NextInv
<1> QED BY InitInv, <1>1, PTL DEF Spec

\* The graph of every driver is well typed.
THEOREM GraphTypeOK == Spec => []TypeOK
<1>1. Inv(graph) => TypeOK
  BY DEF Inv, TypeOK
<1> QED BY GraphInvariant, <1>1, PTL

\* The two precedence fields of a dataset stand for all the tasks that used it.
THEOREM GraphPrecedence == Spec => []PrecedenceInv
<1>1. Inv(graph) => PrecedenceInv
  BY DEF Inv, PrecedenceInv
<1> QED BY GraphInvariant, <1>1, PTL

\* Whatever the driver calls, conflicting tasks are ordered in program order.
THEOREM GraphOrdersConflicts == Spec => []ConflictsOrdered
<1>1. Inv(graph) => ConflictsOrdered
  BY DEF Inv, ConflictsOrdered
<1> QED BY GraphInvariant, <1>1, PTL

\* In a disciplined driver the untracked reads are ordered too: a mutating
\* task comes before the write precedence, and that before the reader.
THEOREM GraphOrdersUntrackedReads == Spec => []UntrackedReadsOrdered
<1>1. Inv(graph) => UntrackedReadsOrdered
  BY ReachesTrans DEF Inv, PrecedenceIn, WritersPrecede, ReadersFollow, UntrackedReadsOrdered
<1> QED BY GraphInvariant, <1>1, PTL

-----------------------------------------------------------------------------
(***************************************************************************)
(* The layout of the graph.                                                *)
(*                                                                         *)
(* For every disciplined driver, whatever it calls and however much, and   *)
(* for all numbers of partitions: dependencies lead to later tasks; where  *)
(* a shard waits for the shard of its number of another task there is one, *)
(* and a task on the CPU has a shard for every partition it touches.       *)
(*                                                                         *)
(* The calls link tasks through what a dataset names, so the invariant is  *)
(* about that: the producer or last writer of a dataset has its            *)
(* parallelism, and so have the readers of a dataset the driver holds.     *)
(* The readers of the others need not: the network task of a shuffle has   *)
(* another parallelism than the messages it reads.  What is special about  *)
(* network tasks is part of the invariant: one task on the CPU sends to    *)
(* each, and nothing they read or produce ever gets into the driver's      *)
(* hands.                                                                  *)
(***************************************************************************)

Fields == {"nTasks", "type", "par", "produces", "reads", "writes", "edges", "nData", "dpar",
           "writePrec", "readPrec", "handles", "untracked", "alias"}

Shape(g) ==
  /\ DOMAIN g = Fields
  /\ g.nTasks \in Nat /\ g.nTasks <= MaxTasks /\ g.nData \in Nat /\ g.nData <= MaxData
  /\ DOMAIN g.type = TaskId /\ DOMAIN g.par = TaskId
  /\ DOMAIN g.produces = TaskId /\ DOMAIN g.reads = TaskId /\ DOMAIN g.writes = TaskId
  /\ DOMAIN g.dpar = DataId /\ DOMAIN g.writePrec = DataId /\ DOMAIN g.readPrec = DataId

Touched(g, t) == g.produces[t] \cup g.reads[t] \cup g.writes[t]

\* Nothing is said of the tasks and datasets to come.
Old(g) ==
  /\ \A e \in g.edges : e[1] \in 1..g.nTasks /\ e[2] \in 1..g.nTasks
  /\ \A t \in TaskId : \A d \in Touched(g, t) : t <= g.nTasks /\ d \in 1..g.nData
  /\ \A d \in DataId : g.writePrec[d] \in 0..g.nTasks /\ g.readPrec[d] \subseteq 1..g.nTasks
  /\ \A d \in DataId : d > g.nData => g.writePrec[d] = NoTask /\ g.readPrec[d] = {}
  /\ g.handles \subseteq 1..g.nData

EdgesAlign(g) ==
  \A e \in g.edges : e[3] \in {"Async", "Aggregate"} => g.par[e[1]] = g.par[e[2]]
AccessesAlign(g) ==
  \A t \in 1..g.nTasks : \A d \in Touched(g, t) : g.type[t] = "CPU" => g.dpar[d] = g.par[t]
WritersAlign(g) ==
  \A d \in DataId : g.writePrec[d] # NoTask => g.par[g.writePrec[d]] = g.dpar[d]
ReadersAlign(g) ==
  \A d \in g.handles : \A t \in g.readPrec[d] : g.par[t] = g.dpar[d]

\* Tasks and the driver's datasets have a number of partitions the driver asked for.
Sizes(g) ==
  /\ \A t \in 1..g.nTasks : g.par[t] \in Parallelisms
  /\ \A d \in g.handles : g.dpar[d] \in Parallelisms

Forward(g) == \A e \in g.edges : e[1] < e[2]

\* The types of the dependencies a network task has, and it alone.
Comm == {"AsyncComm", "Broadcast"}

\* One task on the CPU sends to a network task.
NetworkEdges(g) ==
  \A e \in g.edges :
    /\ g.type[e[2]] = "NetWork" <=> e[3] \in Comm
    /\ e[3] \in Comm => /\ g.type[e[1]] = "CPU"
                        /\ \A f \in g.edges : f[2] = e[2] => f[1] = e[1]

\* What the driver does not hold has one writer, which the dataset names.
Hidden(g) ==
  \A d \in DataId \ g.handles : \A t \in TaskId : Mutates(g, t, d) => g.writePrec[d] = t

NetFree(g, d) ==
  \A t \in TaskId : g.type[t] = "NetWork" => d \notin g.produces[t] \cup g.reads[t]

\* The messages a network task reads come from the task that sends to it, and what it
\* produces is read by tasks that collect from it.
NetworkData(g) ==
  /\ \A d \in g.handles : NetFree(g, d)
  /\ \A u \in TaskId : g.type[u] = "NetWork" =>
       /\ g.writes[u] = {}
       /\ \A d \in g.produces[u], t \in TaskId :
            d \in g.reads[t] => <<u, t, "Aggregate">> \in g.edges
       /\ \A d \in g.reads[u], t \in TaskId :
            Mutates(g, t, d) => \E e \in g.edges : e[1] = t /\ e[2] = u

Layout(g) ==
  /\ Shape(g) /\ Old(g)
  /\ EdgesAlign(g) /\ AccessesAlign(g) /\ WritersAlign(g) /\ ReadersAlign(g)
  /\ Sizes(g) /\ Forward(g) /\ NetworkEdges(g) /\ Hidden(g) /\ NetworkData(g)

\* h has the tasks and datasets of g, and they name what they named, but for readers.
Same(g, h) ==
  /\ h.nTasks = g.nTasks /\ h.nData = g.nData /\ h.type = g.type /\ h.par = g.par
  /\ h.dpar = g.dpar /\ h.writePrec = g.writePrec /\ h.handles = g.handles

\* A dataset the driver may be given.
Returnable(g, d) == g.readPrec[d] = {} /\ NetFree(g, d)

\* The ids that were given out.
LEMMA Ids ==
  ASSUME NEW g, Shape(g)
  PROVE  1..g.nTasks \subseteq TaskId /\ 1..g.nData \subseteq DataId
BY TaskGraphAssumption DEF Shape, TaskId, DataId

-----------------------------------------------------------------------------
(* The methods. *)

LEMMA CreateTaskLayout ==
  ASSUME NEW g, Layout(g), g.nTasks + 1 <= MaxTasks, NEW type, NEW par \in Parallelisms
  PROVE  LET h == CreateTask(g, type, par)
             t == g.nTasks + 1
         IN /\ Layout(h) /\ h.nTasks = t /\ h.nData = g.nData /\ t \in TaskId
            /\ h.type[t] = type /\ h.par[t] = par
            /\ \A x \in TaskId : x # t => h.type[x] = g.type[x] /\ h.par[x] = g.par[x]
            /\ h.dpar = g.dpar /\ h.writePrec = g.writePrec /\ h.readPrec = g.readPrec
            /\ h.handles = g.handles /\ h.edges = g.edges
<1> DEFINE h == CreateTask(g, type, par)
           t == g.nTasks + 1
<1>1. /\ DOMAIN h = Fields /\ h.nTasks = t /\ h.nData = g.nData
      /\ h.type = [g.type EXCEPT ![t] = type] /\ h.par = [g.par EXCEPT ![t] = par]
      /\ h.produces = g.produces /\ h.reads = g.reads /\ h.writes = g.writes
      /\ h.edges = g.edges /\ h.handles = g.handles
      /\ h.dpar = g.dpar /\ h.writePrec = g.writePrec /\ h.readPrec = g.readPrec
  BY DEF CreateTask, Layout, Shape, Fields
<1> HIDE DEF h
<1>2. t \in TaskId /\ g.nTasks \in Nat
  BY TaskGraphAssumption DEF Layout, Shape, TaskId
<1>3. /\ h.type[t] = type /\ h.par[t] = par
      /\ \A x \in TaskId : x # t => h.type[x] = g.type[x] /\ h.par[x] = g.par[x]
  BY <1>1, <1>2 DEF Layout, Shape
<1>4. Shape(h)
  BY <1>1, <1>2 DEF Layout, Shape
<1>5. Old(h)
  <2>1. /\ 0..g.nTasks \subseteq 0..t /\ 1..g.nTasks \subseteq 1..t
        /\ \A x \in TaskId : x <= g.nTasks => x <= t
    BY <1>2 DEF TaskId
  <2>2. \A x \in TaskId : Touched(h, x) = Touched(g, x)
    BY <1>1 DEF Touched
  <2> HIDE DEF t
  <2> QED BY <1>1, <2>1, <2>2 DEF Layout, Old
<1>6. \A x \in 1..g.nTasks : x \in TaskId /\ x # t
  BY <1>2, Ids DEF Layout
<1>7. EdgesAlign(h)
  BY <1>1, <1>3, <1>6 DEF Layout, Old, EdgesAlign
<1>8. AccessesAlign(h)
  <2> SUFFICES ASSUME NEW x \in 1..h.nTasks, NEW d \in Touched(h, x), h.type[x] = "CPU"
               PROVE  h.dpar[d] = h.par[x]
    BY DEF AccessesAlign
  <2>1. x \in TaskId /\ d \in Touched(g, x)
    BY <1>1, <1>4, Ids DEF Touched
  <2>2. x \in 1..g.nTasks
    BY <1>1, <1>2, <2>1 DEF Layout, Old
  <2> QED BY <1>1, <1>3, <1>6, <2>1, <2>2 DEF Layout, AccessesAlign
<1>9. WritersAlign(h)
  BY <1>1, <1>2, <1>3, <1>6 DEF Layout, Old, WritersAlign, NoTask
<1>10. ReadersAlign(h)
  <2>1. g.handles \subseteq DataId
    BY Ids DEF Layout, Old
  <2> QED BY <1>1, <1>3, <1>6, <2>1 DEF Layout, Old, ReadersAlign
<1>11. Sizes(h)
  <2>1. \A x \in 1..t : x = t \/ x \in 1..g.nTasks
    BY <1>2
  <2> QED BY <1>1, <1>3, <1>6, <2>1 DEF Layout, Sizes
<1>12. Forward(h) /\ Hidden(h)
  BY <1>1 DEF Layout, Forward, Hidden, Mutates
<1>13. NetworkEdges(h)
  BY <1>1, <1>3, <1>6 DEF Layout, Old, NetworkEdges
<1>14. NetworkData(h)
  <2>1. g.produces[t] = {} /\ g.reads[t] = {} /\ g.writes[t] = {}
    <3>1. ~(t <= g.nTasks)
      BY <1>2
    <3> QED BY <1>2, <3>1 DEF Layout, Old, Touched
  <2>2. \A d \in g.handles : NetFree(h, d)
    BY <1>1, <1>3, <2>1 DEF Layout, NetworkData, NetFree
  <2> QED BY <1>1, <1>3, <2>1, <2>2 DEF Layout, NetworkData, Mutates
<1> QED
  BY <1>1, <1>2, <1>3, <1>4, <1>5, <1>7, <1>8, <1>9, <1>10, <1>11, <1>12, <1>13, <1>14
  DEF Layout, h

\* The dependencies a call may add: to a later task, of the same parallelism if shards wait for
\* shards of their number, and to a network task from one on the CPU, its first.
Linkable(g, parents, child, dep) ==
  /\ parents \subseteq 1..g.nTasks /\ child \in 1..g.nTasks
  /\ g.type[child] = "NetWork" <=> dep \in Comm
  /\ \A p \in parents :
       /\ p < child
       /\ dep \in {"Async", "Aggregate"} => g.par[p] = g.par[child]
       /\ dep \in Comm => parents = {p} /\ g.type[p] = "CPU" /\ \A e \in g.edges : e[2] # child

LEMMA LinkLayout ==
  ASSUME NEW g, Layout(g), NEW parents, NEW child, NEW dep, Linkable(g, parents, child, dep)
  PROVE  LET h == Link(g, parents, child, dep)
         IN /\ Layout(h) /\ Same(g, h) /\ h.readPrec = g.readPrec
            /\ h.produces = g.produces /\ h.reads = g.reads /\ h.writes = g.writes
            /\ h.edges = g.edges \cup {<<p, child, dep>> : p \in parents}
<1> DEFINE h == Link(g, parents, child, dep)
<1>1. /\ DOMAIN h = Fields /\ Same(g, h) /\ h.readPrec = g.readPrec
      /\ h.produces = g.produces /\ h.reads = g.reads /\ h.writes = g.writes
      /\ h.edges = g.edges \cup {<<p, child, dep>> : p \in parents}
  BY DEF Link, Layout, Shape, Fields, Same
<1> HIDE DEF h
<1>2. Shape(h)
  BY <1>1 DEF Layout, Shape, Same
<1>3. Old(h)
  BY <1>1 DEF Layout, Old, Same, Touched, Linkable
<1>4. EdgesAlign(h) /\ Forward(h)
  BY <1>1 DEF Layout, EdgesAlign, Forward, Same, Linkable
<1>5. AccessesAlign(h) /\ WritersAlign(h) /\ ReadersAlign(h) /\ Sizes(h) /\ Hidden(h)
  BY <1>1
  DEF Layout, AccessesAlign, WritersAlign, ReadersAlign, Sizes, Hidden, Mutates, Same, Touched
<1>6. NetworkEdges(h)
  <2> SUFFICES ASSUME NEW e \in h.edges
               PROVE  /\ g.type[e[2]] = "NetWork" <=> e[3] \in Comm
                      /\ e[3] \in Comm => /\ g.type[e[1]] = "CPU"
                                          /\ \A f \in h.edges : f[2] = e[2] => f[1] = e[1]
    BY <1>1 DEF NetworkEdges, Same
  <2>1. CASE e \in g.edges
    BY <1>1, <2>1 DEF Layout, NetworkEdges, Linkable
  <2>2. CASE e \in {<<p, child, dep>> : p \in parents}
    BY <1>1, <2>2 DEF Layout, NetworkEdges, Linkable
  <2> QED BY <1>1, <2>1, <2>2
<1>7. NetworkData(h)
  BY <1>1 DEF Layout, NetworkData, NetFree, Mutates, Same
<1> QED BY <1>1, <1>2, <1>3, <1>4, <1>5, <1>6, <1>7 DEF Layout, h

LEMMA NewDatasetLayout ==
  ASSUME NEW g, Layout(g), g.nData + 1 <= MaxData, NEW par
  PROVE  LET h == NewDataset(g, par)
             r == g.nData + 1
         IN /\ Layout(h) /\ h.nTasks = g.nTasks /\ h.nData = r /\ r \in DataId
            /\ h.type = g.type /\ h.par = g.par
            /\ h.dpar = [g.dpar EXCEPT ![r] = par]
            /\ h.writePrec = g.writePrec /\ h.readPrec = g.readPrec
            /\ h.writePrec[r] = NoTask /\ h.readPrec[r] = {}
            /\ \A t \in TaskId : r \notin Touched(h, t)
            /\ h.produces = g.produces /\ h.reads = g.reads /\ h.writes = g.writes
            /\ h.edges = g.edges /\ h.handles = g.handles
<1> DEFINE h == NewDataset(g, par)
           r == g.nData + 1
<1>1. /\ DOMAIN h = Fields /\ h.nTasks = g.nTasks /\ h.nData = r
      /\ h.type = g.type /\ h.par = g.par
      /\ h.dpar = [g.dpar EXCEPT ![r] = par]
      /\ h.writePrec = g.writePrec /\ h.readPrec = g.readPrec
      /\ h.produces = g.produces /\ h.reads = g.reads /\ h.writes = g.writes
      /\ h.edges = g.edges /\ h.handles = g.handles
  BY DEF NewDataset, Layout, Shape, Fields
<1> HIDE DEF h
<1>2. r \in DataId /\ g.nData \in Nat /\ r > g.nData
  BY TaskGraphAssumption DEF Layout, Shape, DataId
<1>3. g.writePrec[r] = NoTask /\ g.readPrec[r] = {}
  BY <1>2 DEF Layout, Old
<1>4. \A d \in DataId : d # r => h.dpar[d] = g.dpar[d]
  BY <1>1 DEF Layout, Shape
<1>5. \A d \in 1..g.nData : d \in DataId /\ d # r
  BY <1>2, Ids DEF Layout
<1>6. Shape(h)
  BY <1>1, <1>2 DEF Layout, Shape
<1>7. Old(h)
  <2>1. \A d \in DataId : d > r => d > g.nData
    BY <1>2 DEF DataId
  <2>2. 1..g.nData \subseteq 1..r
    BY <1>2
  <2> QED BY <1>1, <2>1, <2>2 DEF Layout, Old, Touched
<1>8. EdgesAlign(h) /\ Forward(h) /\ NetworkEdges(h) /\ Hidden(h)
  BY <1>1 DEF Layout, EdgesAlign, Forward, NetworkEdges, Hidden, Mutates
<1>9. AccessesAlign(h)
  <2>1. \A x \in 1..g.nTasks : \A d \in Touched(g, x) : d \in 1..g.nData
    BY Ids DEF Layout, Old
  <2> QED BY <1>1, <1>4, <1>5, <2>1 DEF Layout, AccessesAlign, Touched
<1>10. WritersAlign(h)
  BY <1>1, <1>3, <1>4 DEF Layout, WritersAlign
<1>11. ReadersAlign(h) /\ Sizes(h)
  BY <1>1, <1>4, <1>5 DEF Layout, Old, ReadersAlign, Sizes
<1>12. NetworkData(h)
  BY <1>1 DEF Layout, NetworkData, NetFree, Mutates
<1>13. \A t \in TaskId : r \notin Touched(h, t)
  BY <1>1, <1>5 DEF Layout, Old, Touched
<1> QED
  BY <1>1, <1>2, <1>3, <1>6, <1>7, <1>8, <1>9, <1>10, <1>11, <1>12, <1>13 DEF Layout, h

\* A new dataset has the parallelism of its producer.
LEMMA CreateLayout ==
  ASSUME NEW g, Layout(g), g.nData + 1 <= MaxData, NEW t \in 1..g.nTasks
  PROVE  LET h == Create(g, t)
             r == g.nData + 1
         IN /\ Layout(h) /\ h.nTasks = g.nTasks /\ h.nData = r /\ r \in DataId
            /\ h.type = g.type /\ h.par = g.par
            /\ h.dpar[r] = g.par[t] /\ h.writePrec[r] = t /\ h.readPrec[r] = {}
            /\ g.type[t] = "CPU" => Returnable(h, r)
            /\ \A d \in DataId : d # r => h.dpar[d] = g.dpar[d] /\ h.writePrec[d] = g.writePrec[d]
            /\ h.readPrec = g.readPrec /\ h.handles = g.handles /\ h.edges = g.edges
<1> DEFINE n == NewDataset(g, 0)
           r == g.nData + 1
           h == SetProducer(n, r, t)
<1>1. /\ Layout(n) /\ n.nTasks = g.nTasks /\ n.nData = r /\ r \in DataId
      /\ n.type = g.type /\ n.par = g.par
      /\ n.dpar = [g.dpar EXCEPT ![r] = 0]
      /\ n.writePrec = g.writePrec /\ n.readPrec = g.readPrec
      /\ n.writePrec[r] = NoTask /\ n.readPrec[r] = {}
      /\ \A x \in TaskId : r \notin Touched(n, x)
      /\ n.produces = g.produces /\ n.reads = g.reads /\ n.writes = g.writes
      /\ n.edges = g.edges /\ n.handles = g.handles
  BY NewDatasetLayout
<1>2. t \in TaskId /\ g.nData \in Nat /\ r \notin 1..g.nData /\ r \in 1..r
  BY Ids DEF Layout, Shape
<1> HIDE DEF n
<1>3. /\ DOMAIN h = Fields /\ h.nTasks = n.nTasks /\ h.nData = n.nData
      /\ h.type = n.type /\ h.par = n.par
      /\ h.dpar = [n.dpar EXCEPT ![r] = n.par[t]]
      /\ h.writePrec = [n.writePrec EXCEPT ![r] = t] /\ h.readPrec = n.readPrec
      /\ h.produces = [n.produces EXCEPT ![t] = @ \cup {r}]
      /\ h.reads = n.reads /\ h.writes = n.writes
      /\ h.edges = n.edges /\ h.handles = n.handles
  BY <1>1 DEF SetProducer, Layout, Shape, Fields
<1> HIDE DEF h, r
<1>4. /\ h.dpar[r] = g.par[t] /\ h.writePrec[r] = t
      /\ \A d \in DataId : d # r => h.dpar[d] = g.dpar[d] /\ h.writePrec[d] = g.writePrec[d]
  BY <1>1, <1>3 DEF Layout, Shape
<1>5. \A x \in TaskId : Touched(h, x) = IF x = t THEN Touched(n, x) \cup {r} ELSE Touched(n, x)
  BY <1>1, <1>3 DEF Layout, Shape, Touched
<1>6. Shape(h)
  BY <1>1, <1>3 DEF Layout, Shape
<1>7. Old(h)
  <2>1. \A x \in TaskId : \A d \in Touched(h, x) : x <= h.nTasks /\ d \in 1..h.nData
    <3>1. t <= g.nTasks
      OBVIOUS
    <3> QED BY <1>1, <1>2, <1>3, <1>5, <3>1 DEF Layout, Old
  <2>2. \A d \in DataId : h.writePrec[d] \in 0..h.nTasks
    <3>1. t \in 0..g.nTasks
      OBVIOUS
    <3> QED BY <1>1, <1>3, <1>4, <3>1 DEF Layout, Old
  <2>3. \A d \in DataId : d > h.nData => h.writePrec[d] = NoTask /\ h.readPrec[d] = {}
    <3>1. \A d \in DataId : d > r => d # r
      BY <1>1 DEF DataId
    <3> QED BY <1>1, <1>3, <1>4, <3>1 DEF Layout, Old
  <2> QED BY <1>1, <1>3, <2>1, <2>2, <2>3 DEF Layout, Old
<1>8. EdgesAlign(h) /\ Forward(h) /\ NetworkEdges(h)
  BY <1>1, <1>3 DEF Layout, EdgesAlign, Forward, NetworkEdges
<1>9. AccessesAlign(h)
  <2>1. \A x \in 1..g.nTasks : \A d \in Touched(g, x) : d \in DataId /\ d # r
    BY <1>2, Ids DEF Layout, Old, r
  <2>2. \A x \in TaskId : Touched(n, x) = Touched(g, x)
    BY <1>1 DEF Touched
  <2> QED BY <1>1, <1>3, <1>4, <1>5, <2>1, <2>2, Ids DEF Layout, AccessesAlign
<1>10. WritersAlign(h)
  BY <1>1, <1>3, <1>4 DEF Layout, WritersAlign
<1>11. \A d \in g.handles : d \in DataId /\ d # r
  BY <1>2, Ids DEF Layout, Old, r
<1>12. ReadersAlign(h) /\ Sizes(h)
  BY <1>1, <1>3, <1>4, <1>11 DEF Layout, ReadersAlign, Sizes
<1>13. \A x \in TaskId : r \notin n.produces[x] \cup n.reads[x] \cup n.writes[x]
  BY <1>1 DEF Touched
<1>14. \A x \in TaskId : h.produces[x] = IF x = t THEN n.produces[x] \cup {r} ELSE n.produces[x]
  BY <1>1, <1>3 DEF Layout, Shape
<1>15. Hidden(h)
  BY <1>1, <1>3, <1>4, <1>13, <1>14 DEF Layout, Hidden, Mutates
<1>16. NetworkData(h)
  <2>1. \A d \in h.handles : NetFree(h, d)
    BY <1>1, <1>3, <1>11, <1>14 DEF Layout, NetworkData, NetFree
  <2> QED BY <1>1, <1>3, <1>13, <1>14, <2>1 DEF Layout, NetworkData, Mutates
<1>17. g.type[t] = "CPU" => Returnable(h, r)
  BY <1>1, <1>3, <1>13, <1>14 DEF Returnable, NetFree
<1> QED
  BY <1>1, <1>3, <1>4, <1>6, <1>7, <1>8, <1>9, <1>10, <1>12, <1>15, <1>16, <1>17
  DEF Layout, Create, h, n, r

\* The readers a call may add: a task on the CPU of a dataset of the driver, with its
\* parallelism; a network task of the messages of the task on the CPU that sends to it.
Readable(g, d, t, dep) ==
  /\ d \in 1..g.nData /\ t \in 1..g.nTasks
  /\ g.writePrec[d] # NoTask /\ g.writePrec[d] < t
  /\ \/ g.type[t] = "CPU" /\ d \in g.handles /\ g.par[t] = g.dpar[d] /\ dep \notin Comm
     \/ /\ g.type[t] = "NetWork" /\ d \notin g.handles /\ g.type[g.writePrec[d]] = "CPU"
        /\ dep \in Comm /\ \A e \in g.edges : e[2] # t

\* A reader is linked behind the task the dataset names.
LEMMA ReadViaLayout ==
  ASSUME NEW g, Layout(g), NEW d, NEW t, NEW dep, Readable(g, d, t, dep)
  PROVE  LET h == ReadVia(g, d, t, dep)
         IN /\ Layout(h) /\ Same(g, h)
            /\ \A r \in DataId : r # d /\ Returnable(g, r) => Returnable(h, r)
            /\ h.edges = g.edges \cup {<<g.writePrec[d], t, dep>>}
<1> DEFINE p == g.writePrec[d]
           l == Link(g, {p}, t, dep)
           h == ReadVia(g, d, t, dep)
<1>1. /\ d \in DataId /\ t \in TaskId /\ t \in 1..g.nTasks /\ p \in 1..g.nTasks
      /\ g.par[p] = g.dpar[d]
  BY Ids DEF Layout, Old, WritersAlign, NoTask, Readable
<1>2. Linkable(g, {p}, t, dep)
  BY <1>1 DEF Linkable, Readable, Comm
<1>3. /\ Layout(l) /\ Same(g, l) /\ l.readPrec = g.readPrec
      /\ l.produces = g.produces /\ l.reads = g.reads /\ l.writes = g.writes
      /\ l.edges = g.edges \cup {<<p, t, dep>>}
  <2> DEFINE parents == {p}
  <2>1. Linkable(g, parents, t, dep)
    BY <1>2
  <2>2. {<<q, t, dep>> : q \in parents} = {<<p, t, dep>>}
    OBVIOUS
  <2> HIDE DEF parents
  <2>3. LET k == Link(g, parents, t, dep)
        IN /\ Layout(k) /\ Same(g, k) /\ k.readPrec = g.readPrec
           /\ k.produces = g.produces /\ k.reads = g.reads /\ k.writes = g.writes
           /\ k.edges = g.edges \cup {<<q, t, dep>> : q \in parents}
    BY <2>1, LinkLayout
  <2> QED BY <2>2, <2>3 DEF parents
<1>4. h = [l EXCEPT !.reads[t] = @ \cup {d}, !.readPrec[d] = @ \cup {t}]
  BY DEF ReadVia
<1> HIDE DEF l, h
<1>5. /\ DOMAIN h = Fields /\ Same(l, h)
      /\ h.produces = l.produces /\ h.writes = l.writes /\ h.edges = l.edges
      /\ h.reads = [l.reads EXCEPT ![t] = @ \cup {d}]
      /\ h.readPrec = [l.readPrec EXCEPT ![d] = @ \cup {t}]
  BY <1>3, <1>4 DEF Layout, Shape, Fields, Same
<1>6. /\ \A x \in TaskId : Touched(h, x) \subseteq Touched(l, x) \cup (IF x = t THEN {d} ELSE {})
      /\ \A x \in TaskId : h.reads[x] = IF x = t THEN l.reads[x] \cup {d} ELSE l.reads[x]
      /\ \A e \in DataId : h.readPrec[e] = IF e = d THEN l.readPrec[e] \cup {t} ELSE l.readPrec[e]
  BY <1>1, <1>3, <1>5 DEF Layout, Shape, Touched
<1>7. Shape(h)
  BY <1>3, <1>5 DEF Layout, Shape, Same
<1>8. Old(h)
  <2>1. t <= g.nTasks /\ ~(d > g.nData) /\ d \in 1..g.nData
    BY DEF Layout, Shape, Readable
  <2> QED BY <1>1, <1>3, <1>5, <1>6, <2>1 DEF Layout, Old, Same
<1>9. EdgesAlign(h) /\ WritersAlign(h) /\ Sizes(h) /\ Forward(h) /\ NetworkEdges(h) /\ Hidden(h)
  BY <1>3, <1>5
  DEF Layout, EdgesAlign, WritersAlign, Sizes, Forward, NetworkEdges, Hidden, Mutates, Same
<1>10. AccessesAlign(h)
  BY <1>3, <1>5, <1>6, Ids DEF Layout, AccessesAlign, Same, Readable
<1>11. ReadersAlign(h)
  <2>1. l.handles \subseteq DataId
    BY <1>3, Ids DEF Layout, Old
  <2> QED BY <1>3, <1>5, <1>6, <2>1 DEF Layout, ReadersAlign, Same, Readable
<1>12. \A r \in DataId : r # d /\ Returnable(g, r) => Returnable(h, r)
  BY <1>3, <1>5, <1>6 DEF Returnable, NetFree, Same
<1>13. \A e \in h.handles : NetFree(h, e)
  BY <1>3, <1>5, <1>6 DEF Layout, NetworkData, NetFree, Same, Readable
<1>14. NetworkData(h)
  <2> SUFFICES ASSUME NEW u \in TaskId, h.type[u] = "NetWork"
               PROVE  /\ h.writes[u] = {}
                      /\ \A e \in h.produces[u], x \in TaskId :
                           e \in h.reads[x] => <<u, x, "Aggregate">> \in h.edges
                      /\ \A e \in h.reads[u], x \in TaskId :
                           Mutates(h, x, e) => \E f \in h.edges : f[1] = x /\ f[2] = u
    BY <1>13 DEF NetworkData
  <2>1. g.type[u] = "NetWork" /\ h.writes[u] = {}
    BY <1>3, <1>5 DEF Layout, NetworkData, Same
  <2>2. d \notin g.produces[u]
    <3>1. CASE d \in g.handles
      BY <2>1, <3>1 DEF Layout, NetworkData, NetFree
    <3>2. CASE d \notin g.handles
      BY <1>1, <2>1, <3>2 DEF Layout, Hidden, Mutates, Readable
    <3> QED BY <3>1, <3>2
  <2>3. \A e \in h.produces[u], x \in TaskId :
           e \in h.reads[x] => <<u, x, "Aggregate">> \in h.edges
    BY <1>3, <1>5, <1>6, <2>1, <2>2 DEF Layout, NetworkData, Same
  <2>4. ASSUME NEW e \in h.reads[u], NEW x \in TaskId, Mutates(h, x, e)
        PROVE  \E f \in h.edges : f[1] = x /\ f[2] = u
    <3>1. Mutates(g, x, e)
      BY <1>3, <1>5, <2>4 DEF Mutates
    <3>2. CASE e \in g.reads[u]
      BY <1>3, <1>5, <2>1, <3>1, <3>2 DEF Layout, NetworkData
    <3>3. CASE u = t /\ e = d
      <4>1. d \notin g.handles
        BY <2>1, <3>3 DEF Readable
      <4>2. x = p
        BY <1>1, <3>1, <3>3, <4>1 DEF Layout, Hidden
      <4>3. <<p, t, dep>> \in h.edges
        BY <1>3, <1>5
      <4> QED BY <3>3, <4>2, <4>3
    <3>4. e \in g.reads[u] \/ (u = t /\ e = d)
      <4>1. CASE u = t
        BY <1>3, <1>6, <4>1
      <4>2. CASE u # t
        BY <1>3, <1>6, <4>2
      <4> QED BY <4>1, <4>2
    <3> QED BY <3>2, <3>3, <3>4
  <2> QED BY <2>1, <2>3, <2>4
<1>15. Same(g, h) /\ h.edges = g.edges \cup {<<p, t, dep>>}
  BY <1>3, <1>5 DEF Same
<1> QED
  BY <1>7, <1>8, <1>9, <1>10, <1>11, <1>12, <1>14, <1>15 DEF Layout, h

\* A writer is linked behind the readers the dataset names, or behind its writer.
LEMMA WriteByLayout ==
  ASSUME NEW g, Layout(g), NEW d \in g.handles, NEW t \in 1..g.nTasks,
         g.type[t] = "CPU", g.par[t] = g.dpar[d],
         \A p \in g.readPrec[d] \cup {g.writePrec[d]} : p < t
  PROVE  LET h == WriteBy(g, d, t)
         IN /\ Layout(h) /\ h.nTasks = g.nTasks /\ h.nData = g.nData
            /\ h.type = g.type /\ h.par = g.par /\ h.dpar = g.dpar /\ h.handles = g.handles
            /\ h.writePrec[d] = t
            /\ \A e \in DataId : e # d => h.writePrec[e] = g.writePrec[e]
<1> DEFINE parents == WriteParents(g, d)
           dep == ThenType(g, t)
           l == Link(g, parents, t, dep)
           h == WriteBy(g, d, t)
<1>1. d \in DataId /\ t \in TaskId /\ d \in 1..g.nData
  BY Ids DEF Layout, Old
<1>2. dep = "Async"
  BY DEF ThenType
<1> HIDE DEF dep
<1>3. Linkable(g, parents, t, dep)
  <2>1. /\ parents \subseteq 1..g.nTasks
        /\ \A p \in parents : g.par[p] = g.par[t] /\ p < t
    BY <1>1 DEF WriteParents, Layout, Old, WritersAlign, ReadersAlign, NoTask
  <2> QED BY <1>2, <2>1 DEF Linkable, Comm
<1>4. h = [l EXCEPT !.writes[t] = @ \cup {d}, !.readPrec[d] = {}, !.writePrec[d] = t]
  BY DEF WriteBy, Then, dep
<1> HIDE DEF h, parents
<1>5. /\ Layout(l) /\ Same(g, l) /\ l.readPrec = g.readPrec
      /\ l.produces = g.produces /\ l.reads = g.reads /\ l.writes = g.writes
  BY <1>3, LinkLayout
<1> HIDE DEF l
<1>6. /\ DOMAIN h = Fields /\ h.nTasks = l.nTasks /\ h.nData = l.nData
      /\ h.type = l.type /\ h.par = l.par /\ h.dpar = l.dpar /\ h.handles = l.handles
      /\ h.produces = l.produces /\ h.reads = l.reads /\ h.edges = l.edges
      /\ h.writes = [l.writes EXCEPT ![t] = @ \cup {d}]
      /\ h.readPrec = [l.readPrec EXCEPT ![d] = {}]
      /\ h.writePrec = [l.writePrec EXCEPT ![d] = t]
  BY <1>4, <1>5 DEF Layout, Shape, Fields
<1>7. /\ \A x \in TaskId : Touched(h, x) \subseteq Touched(l, x) \cup (IF x = t THEN {d} ELSE {})
      /\ \A x \in TaskId : h.writes[x] = IF x = t THEN l.writes[x] \cup {d} ELSE l.writes[x]
      /\ \A e \in DataId : h.readPrec[e] = IF e = d THEN {} ELSE l.readPrec[e]
      /\ \A e \in DataId : h.writePrec[e] = IF e = d THEN t ELSE l.writePrec[e]
  BY <1>1, <1>5, <1>6 DEF Layout, Shape, Touched
<1>8. Shape(h)
  BY <1>5, <1>6 DEF Layout, Shape
<1>9. Old(h)
  <2>1. t <= g.nTasks /\ ~(d > g.nData) /\ t \in 0..g.nTasks
    BY <1>1 DEF Layout, Shape
  <2> QED BY <1>1, <1>5, <1>6, <1>7, <2>1 DEF Layout, Old, Same
<1>10. EdgesAlign(h) /\ WritersAlign(h) /\ Sizes(h) /\ Forward(h) /\ NetworkEdges(h)
  BY <1>5, <1>6, <1>7 DEF Layout, EdgesAlign, WritersAlign, Sizes, Forward, NetworkEdges, Same
<1>11. AccessesAlign(h)
  BY <1>5, <1>6, <1>7, Ids DEF Layout, AccessesAlign, Same
<1>12. ReadersAlign(h)
  <2>1. l.handles \subseteq DataId
    BY <1>5, Ids DEF Layout, Old
  <2> QED BY <1>5, <1>6, <1>7, <2>1 DEF Layout, ReadersAlign
<1>13. Hidden(h)
  BY <1>5, <1>6, <1>7 DEF Layout, Hidden, Mutates, Same
<1>14. NetworkData(h)
  <2>1. \A e \in h.handles : NetFree(h, e)
    BY <1>5, <1>6 DEF Layout, NetworkData, NetFree
  <2>2. \A u \in TaskId : g.type[u] = "NetWork" => d \notin g.reads[u]
    BY DEF Layout, NetworkData, NetFree
  <2> QED BY <1>5, <1>6, <1>7, <2>1, <2>2 DEF Layout, NetworkData, Mutates, Same
<1> QED
  BY <1>1, <1>5, <1>6, <1>7, <1>8, <1>9, <1>10, <1>11, <1>12, <1>13, <1>14 DEF Layout, Same, h

\* Task::ReadData adds no dependency: a task on the CPU reads a dataset of the driver, or
\* what it collects from a network task, or the data of a task on the CPU.
LEMMA ReadDataLayout ==
  ASSUME NEW g, Layout(g), NEW d \in 1..g.nData, NEW t \in 1..g.nTasks,
         g.type[t] = "CPU", g.par[t] = g.dpar[d],
         \/ d \in g.handles
         \/ g.type[g.writePrec[d]] = "CPU"
         \/ <<g.writePrec[d], t, "Aggregate">> \in g.edges
  PROVE  LET h == ReadData(g, d, t)
         IN /\ Layout(h) /\ Same(g, h) /\ h.edges = g.edges
            /\ \A r \in DataId : Returnable(g, r) => Returnable(h, r)
<1> DEFINE h == ReadData(g, d, t)
<1>1. /\ DOMAIN h = Fields /\ Same(g, h) /\ h.readPrec = g.readPrec
      /\ h.produces = g.produces /\ h.writes = g.writes /\ h.edges = g.edges
      /\ h.reads = [g.reads EXCEPT ![t] = @ \cup {d}]
  BY DEF ReadData, Layout, Shape, Fields, Same
<1> HIDE DEF h
<1>2. /\ \A x \in TaskId : Touched(h, x) \subseteq Touched(g, x) \cup (IF x = t THEN {d} ELSE {})
      /\ \A x \in TaskId : h.reads[x] = IF x = t THEN g.reads[x] \cup {d} ELSE g.reads[x]
  BY <1>1 DEF Layout, Shape, Touched
<1>3. Shape(h)
  BY <1>1 DEF Layout, Shape, Same
<1>4. Old(h)
  BY <1>1, <1>2 DEF Layout, Shape, Old, Same
<1>5. /\ EdgesAlign(h) /\ WritersAlign(h) /\ ReadersAlign(h)
      /\ Sizes(h) /\ Forward(h) /\ NetworkEdges(h) /\ Hidden(h)
  BY <1>1 DEF Layout, EdgesAlign, WritersAlign, ReadersAlign, Sizes, Forward, NetworkEdges, Hidden,
              Mutates, Same
<1>6. AccessesAlign(h)
  BY <1>1, <1>2, Ids DEF Layout, AccessesAlign, Same
<1>7. \A r \in DataId : Returnable(g, r) => Returnable(h, r)
  BY <1>1, <1>2 DEF Returnable, NetFree, Same
<1>8. \A e \in h.handles : NetFree(h, e)
  BY <1>1, <1>2 DEF Layout, NetworkData, NetFree, Same
<1>9. \A u \in TaskId : g.type[u] = "NetWork" /\ d \in g.produces[u] =>
                          <<u, t, "Aggregate">> \in g.edges
  <2>1. d \in DataId
    BY Ids DEF Layout
  <2> QED BY <2>1 DEF Layout, NetworkData, NetFree, Hidden, Mutates
<1>10. NetworkData(h)
  BY <1>1, <1>2, <1>8, <1>9 DEF Layout, NetworkData, Mutates, Same
<1> QED BY <1>1, <1>3, <1>4, <1>5, <1>6, <1>7, <1>10 DEF Layout, h

\* Whose objects the partitions of a dataset are does not matter here.
LEMMA AliasLayout ==
  ASSUME NEW g, Layout(g), NEW d, NEW a
  PROVE  LET h == Alias(g, d, a)
         IN /\ Layout(h) /\ Same(g, h)
            /\ \A r : Returnable(g, r) => Returnable(h, r)
<1> DEFINE h == Alias(g, d, a)
<1>1. /\ DOMAIN h = Fields /\ Same(g, h) /\ h.readPrec = g.readPrec
      /\ h.produces = g.produces /\ h.reads = g.reads /\ h.writes = g.writes /\ h.edges = g.edges
  BY DEF Alias, Layout, Shape, Fields, Same
<1> HIDE DEF h
<1>2. Shape(h) /\ Old(h)
  BY <1>1 DEF Layout, Shape, Old, Touched, Same
<1>3. EdgesAlign(h) /\ AccessesAlign(h) /\ WritersAlign(h) /\ ReadersAlign(h)
  BY <1>1 DEF Layout, EdgesAlign, AccessesAlign, WritersAlign, ReadersAlign, Touched, Same
<1>4. Sizes(h) /\ Forward(h) /\ NetworkEdges(h) /\ Hidden(h)
  BY <1>1 DEF Layout, Sizes, Forward, NetworkEdges, Hidden, Mutates, Same
<1>5. NetworkData(h)
  BY <1>1 DEF Layout, NetworkData, NetFree, Mutates, Same
<1>6. \A r : Returnable(g, r) => Returnable(h, r)
  BY <1>1 DEF Returnable, NetFree, Same
<1> QED BY <1>1, <1>2, <1>3, <1>4, <1>5, <1>6 DEF Layout, h

\* The driver is handed a dataset no network task has touched.
LEMMA ReturnLayout ==
  ASSUME NEW g, Layout(g), NEW d \in 1..g.nData, Returnable(g, d), g.dpar[d] \in Parallelisms
  PROVE  Layout(Return(g, d))
<1> DEFINE h == Return(g, d)
<1>1. /\ DOMAIN h = Fields /\ h.handles = g.handles \cup {d}
      /\ h.nTasks = g.nTasks /\ h.nData = g.nData /\ h.type = g.type /\ h.par = g.par
      /\ h.dpar = g.dpar /\ h.writePrec = g.writePrec /\ h.readPrec = g.readPrec
      /\ h.produces = g.produces /\ h.reads = g.reads /\ h.writes = g.writes /\ h.edges = g.edges
  BY DEF Return, Layout, Shape, Fields
<1> HIDE DEF h
<1>2. Shape(h) /\ Old(h)
  BY <1>1 DEF Layout, Shape, Old, Touched
<1>3. EdgesAlign(h) /\ AccessesAlign(h) /\ WritersAlign(h) /\ ReadersAlign(h)
  BY <1>1 DEF Layout, EdgesAlign, AccessesAlign, WritersAlign, ReadersAlign, Touched, Returnable
<1>4. Sizes(h) /\ Forward(h) /\ NetworkEdges(h) /\ Hidden(h)
  BY <1>1 DEF Layout, Sizes, Forward, NetworkEdges, Hidden, Mutates
<1>5. NetworkData(h)
  BY <1>1 DEF Layout, NetworkData, NetFree, Mutates, Returnable
<1> QED BY <1>1, <1>2, <1>3, <1>4, <1>5 DEF Layout, h

-----------------------------------------------------------------------------
(* The calls. *)

LEMMA UsableLayout ==
  ASSUME Layout(graph), NEW d \in Usable
  PROVE  /\ d \in DataId /\ d \in 1..graph.nData /\ d \in graph.handles
         /\ graph.writePrec[d] # NoTask /\ graph.dpar[d] \in Parallelisms
BY Ids DEF Usable, Layout, Old, Sizes

\* A task on the CPU with the parallelism of a dataset; whatever a dataset names comes before it.
LEMMA NextTaskLayout ==
  ASSUME Layout(graph), graph.nTasks + 1 <= MaxTasks, NEW d \in DataId, d \in graph.handles
  PROVE  LET h == CreateTask(graph, "CPU", graph.dpar[d])
             t == graph.nTasks + 1
         IN /\ Layout(h) /\ h.nTasks = t /\ h.nData = graph.nData /\ t \in 1..h.nTasks
            /\ h.type[t] = "CPU" /\ h.par[t] = graph.dpar[d]
            /\ h.dpar = graph.dpar /\ h.writePrec = graph.writePrec
            /\ h.readPrec = graph.readPrec /\ h.handles = graph.handles
            /\ \A e \in DataId : \A p \in graph.readPrec[e] \cup {graph.writePrec[e]} : p < t
<1>1. /\ graph.nTasks \in Nat /\ graph.nTasks + 1 \in 1..graph.nTasks + 1
      /\ graph.dpar[d] \in Parallelisms
  BY DEF Layout, Shape, Sizes
<1>2. \A e \in DataId : \A p \in graph.readPrec[e] \cup {graph.writePrec[e]} : p < graph.nTasks + 1
  <2>1. \A p \in 0..graph.nTasks : p < graph.nTasks + 1
    BY <1>1
  <2> QED BY <1>1, <2>1 DEF Layout, Old
<1> QED BY <1>1, <1>2, CreateTaskLayout

\* And the dataset it produces.
LEMMA NextProducerLayout ==
  ASSUME Layout(graph), graph.nTasks + 1 <= MaxTasks, graph.nData + 1 <= MaxData,
         NEW d \in DataId, d \in graph.handles
  PROVE  LET t == graph.nTasks + 1
             r == graph.nData + 1
             h == Create(CreateTask(graph, "CPU", graph.dpar[d]), t)
         IN /\ Layout(h) /\ t \in 1..h.nTasks /\ r \in 1..h.nData /\ r \in DataId
            /\ h.type[t] = "CPU" /\ h.par[t] = graph.dpar[d]
            /\ Returnable(h, r) /\ h.dpar[r] \in Parallelisms /\ h.handles = graph.handles
            /\ \A e \in 1..graph.nData :
                 /\ e \in 1..h.nData /\ e # r /\ e \in DataId
                 /\ h.dpar[e] = graph.dpar[e] /\ h.writePrec[e] = graph.writePrec[e]
                 /\ h.writePrec[e] < t
<1> DEFINE c == CreateTask(graph, "CPU", graph.dpar[d])
           t == graph.nTasks + 1
           r == graph.nData + 1
           h == Create(c, t)
<1>1. /\ Layout(c) /\ c.nTasks = t /\ c.nData = graph.nData /\ t \in 1..c.nTasks
      /\ c.type[t] = "CPU" /\ c.par[t] = graph.dpar[d]
      /\ c.dpar = graph.dpar /\ c.writePrec = graph.writePrec /\ c.handles = graph.handles
      /\ \A e \in DataId : graph.writePrec[e] < t
  BY NextTaskLayout
<1>2. /\ graph.nData \in Nat /\ 1..graph.nData \subseteq DataId /\ graph.dpar[d] \in Parallelisms
  BY Ids DEF Layout, Shape, Sizes
<1> HIDE DEF c
<1>3. /\ Layout(h) /\ h.nTasks = c.nTasks /\ h.nData = r /\ r \in DataId
      /\ h.type = c.type /\ h.par = c.par /\ Returnable(h, r) /\ h.dpar[r] = c.par[t]
      /\ \A e \in DataId : e # r => h.dpar[e] = c.dpar[e] /\ h.writePrec[e] = c.writePrec[e]
      /\ h.handles = c.handles
  BY <1>1, CreateLayout
<1> HIDE DEF h
<1>4. /\ r \in 1..h.nData
      /\ \A e \in 1..graph.nData : e \in 1..h.nData /\ e # r /\ e \in DataId
  BY <1>2, <1>3
<1> QED BY <1>1, <1>2, <1>3, <1>4 DEF c, h

\* The type of the dependency of a task on the CPU.
LEMMA ThenTypeOfCPU ==
  ASSUME NEW g, NEW t, g.type[t] = "CPU"
  PROVE  ThenType(g, t) = "Async" /\ ThenType(g, t) \notin Comm
BY DEF ThenType, Comm

LEMMA AddTaskLayout ==
  ASSUME Layout(graph), NEW parents \in SUBSET (1..graph.nTasks), NEW n \in Parallelisms,
         AddTask(parents, n)
  PROVE  Layout(graph')
<1> DEFINE t == graph.nTasks + 1
           c == CreateTask(graph, "CPU", n)
<1>1. Layout(c) /\ c.nTasks = t /\ c.type[t] = "CPU"
  BY CreateTaskLayout DEF AddTask, HasRoom
<1>2. parents \in SUBSET (1..t) /\ t \in 1..t /\ \A p \in parents : p < t
  BY DEF Layout, Shape
<1>3. graph' = Link(c, parents, t, "Sync")
  BY DEF AddTask
<1> HIDE DEF c, t
<1>4. Linkable(c, parents, t, "Sync")
  BY <1>1, <1>2 DEF Linkable, Comm
<1> QED BY <1>1, <1>3, <1>4, LinkLayout

LEMMA TextSourceDatasetLayout ==
  ASSUME Layout(graph), NEW n \in Parallelisms, TextSourceDataset(n)
  PROVE  Layout(graph')
<1> DEFINE r == graph.nData + 1
           h == NewDataset(graph, n)
<1>1. /\ Layout(h) /\ h.nData = r /\ h.readPrec[r] = {} /\ r \in DataId
      /\ \A t \in TaskId : r \notin Touched(h, t)
      /\ h.dpar = [graph.dpar EXCEPT ![r] = n]
  BY NewDatasetLayout DEF TextSourceDataset, HasRoom
<1>2. r \in 1..r /\ h.dpar[r] = n
  BY <1>1 DEF Layout, Shape
<1>3. graph' = Return(h, r)
  BY DEF TextSourceDataset
<1> HIDE DEF h, r
<1>4. Returnable(h, r)
  BY <1>1 DEF Returnable, NetFree, Touched
<1> QED BY <1>1, <1>2, <1>3, <1>4, ReturnLayout

LEMMA FlatMapLayout ==
  ASSUME Layout(graph), NEW d \in DataId, FlatMap(d)
  PROVE  Layout(graph')
<1> DEFINE r == graph.nData + 1
           h == Create(CreateTask(graph, "CPU", graph.dpar[d]), graph.nTasks + 1)
<1>1. d \in graph.handles
  BY DEF FlatMap, Sources
<1>2. Layout(h) /\ r \in 1..h.nData /\ Returnable(h, r) /\ h.dpar[r] \in Parallelisms
  BY <1>1, NextProducerLayout DEF FlatMap, HasRoom
<1>3. graph' = Return(h, r)
  BY DEF FlatMap
<1> HIDE DEF h, r
<1> QED BY <1>2, <1>3, ReturnLayout

LEMMA ApplyReadLayout ==
  ASSUME Layout(graph), NEW d \in DataId, ApplyRead(d)
  PROVE  Layout(graph')
<1> DEFINE t == graph.nTasks + 1
           c == CreateTask(graph, "CPU", graph.dpar[d])
           dep == ThenType(c, t)
<1>1. d \in 1..graph.nData /\ graph.writePrec[d] # NoTask /\ d \in graph.handles
  BY UsableLayout DEF ApplyRead
<1>2. /\ Layout(c) /\ c.nData = graph.nData /\ t \in 1..c.nTasks /\ c.type[t] = "CPU"
      /\ c.par[t] = c.dpar[d] /\ c.writePrec[d] # NoTask
      /\ d \in c.handles /\ c.writePrec[d] < t
  BY <1>1, NextTaskLayout DEF ApplyRead, HasRoom
<1>3. graph' = ReadVia(c, d, t, dep)
  BY DEF ApplyRead, ReadBy
<1> HIDE DEF c, t
<1>4. dep \notin Comm
  BY <1>2, ThenTypeOfCPU
<1> HIDE DEF dep
<1>5. Readable(c, d, t, dep)
  BY <1>1, <1>2, <1>4 DEF Readable
<1> QED BY <1>2, <1>3, <1>5, ReadViaLayout

LEMMA MapPartitionLayout ==
  ASSUME Layout(graph), NEW d \in DataId, MapPartition(d)
  PROVE  Layout(graph')
<1> DEFINE t == graph.nTasks + 1
           r == graph.nData + 1
           g == Create(CreateTask(graph, "CPU", graph.dpar[d]), t)
           dep == ThenType(g, t)
           h == ReadVia(g, d, t, dep)
<1>1. d \in 1..graph.nData /\ graph.writePrec[d] # NoTask /\ d \in graph.handles
  BY UsableLayout DEF MapPartition
<1>2. /\ Layout(g) /\ t \in 1..g.nTasks /\ r \in 1..g.nData /\ Returnable(g, r)
      /\ g.dpar[r] \in Parallelisms /\ g.type[t] = "CPU"
      /\ g.par[t] = g.dpar[d] /\ d \in 1..g.nData /\ d # r /\ r \in DataId
      /\ g.writePrec[d] # NoTask /\ g.writePrec[d] < t /\ d \in g.handles
  BY <1>1, NextProducerLayout DEF MapPartition, HasRoom
<1>3. graph' = Return(h, r)
  BY DEF MapPartition, ReadBy
<1> HIDE DEF g, t, r
<1>4. dep \notin Comm
  BY <1>2, ThenTypeOfCPU
<1> HIDE DEF dep
<1>5. Layout(h) /\ Same(g, h) /\ Returnable(h, r)
  <2>1. Readable(g, d, t, dep)
    BY <1>2, <1>4 DEF Readable
  <2> QED BY <1>2, <2>1, ReadViaLayout
<1> HIDE DEF h
<1> QED BY <1>2, <1>3, <1>5, ReturnLayout DEF Same

\* Here the discipline counts: only datasets with the same number of partitions are zipped.
LEMMA MapPartitionWithLayout ==
  ASSUME Disciplined, Layout(graph), NEW d \in DataId, NEW other \in DataId,
         MapPartitionWith(d, other)
  PROVE  Layout(graph')
<1> DEFINE t == graph.nTasks + 1
           r == graph.nData + 1
           g == Create(CreateTask(graph, "CPU", graph.dpar[d]), t)
           dep1 == ThenType(g, t)
           k == ReadVia(g, d, t, dep1)
           dep2 == ThenType(k, t)
           h == ReadVia(k, other, t, dep2)
<1>1. /\ d \in 1..graph.nData /\ graph.writePrec[d] # NoTask /\ d \in graph.handles
      /\ other \in 1..graph.nData /\ graph.writePrec[other] # NoTask /\ other \in graph.handles
      /\ graph.dpar[other] = graph.dpar[d]
  BY UsableLayout DEF MapPartitionWith, Aligned
<1>2. /\ Layout(g) /\ t \in 1..g.nTasks /\ r \in 1..g.nData /\ Returnable(g, r) /\ r \in DataId
      /\ g.dpar[r] \in Parallelisms /\ g.type[t] = "CPU"
      /\ g.par[t] = g.dpar[d] /\ d \in 1..g.nData /\ d # r /\ g.writePrec[d] # NoTask
      /\ g.writePrec[d] < t /\ d \in g.handles
      /\ g.par[t] = g.dpar[other] /\ other \in 1..g.nData /\ other # r
      /\ g.writePrec[other] # NoTask /\ g.writePrec[other] < t /\ other \in g.handles
  BY <1>1, NextProducerLayout DEF MapPartitionWith, HasRoom
<1>3. graph' = Return(h, r)
  BY DEF MapPartitionWith, ReadBy
<1> HIDE DEF g, t, r
<1>4. dep1 \notin Comm
  BY <1>2, ThenTypeOfCPU
<1> HIDE DEF dep1
<1>5. Layout(k) /\ Same(g, k) /\ Returnable(k, r)
  <2>1. Readable(g, d, t, dep1)
    BY <1>2, <1>4 DEF Readable
  <2> QED BY <1>2, <2>1, ReadViaLayout
<1> HIDE DEF k
<1>6. dep2 \notin Comm
  BY <1>2, <1>5, ThenTypeOfCPU DEF Same
<1> HIDE DEF dep2
<1>7. Layout(h) /\ Same(k, h) /\ Returnable(h, r)
  <2>1. Readable(k, other, t, dep2)
    BY <1>2, <1>5, <1>6 DEF Readable, Same
  <2> QED BY <1>2, <1>5, <2>1, ReadViaLayout
<1> HIDE DEF h
<1> QED BY <1>2, <1>3, <1>5, <1>7, ReturnLayout DEF Same

LEMMA SharedDataMapPartitionWithLayout ==
  ASSUME Disciplined, Layout(graph), NEW d \in DataId, NEW other \in DataId,
         SharedDataMapPartitionWith(d, other)
  PROVE  Layout(graph')
<1> DEFINE t == graph.nTasks + 1
           r == graph.nData + 1
           g == Create(CreateTask(graph, "CPU", graph.dpar[d]), t)
           dep == ThenType(g, t)
           k == ReadVia(g, other, t, dep)
           h == ReadData(k, d, t)
<1>1. /\ d \in 1..graph.nData /\ d \in graph.handles
      /\ other \in 1..graph.nData /\ graph.writePrec[other] # NoTask /\ other \in graph.handles
      /\ graph.dpar[other] = graph.dpar[d]
  BY UsableLayout DEF SharedDataMapPartitionWith, Aligned
<1>2. /\ Layout(g) /\ t \in 1..g.nTasks /\ r \in 1..g.nData /\ Returnable(g, r) /\ r \in DataId
      /\ g.dpar[r] \in Parallelisms /\ g.type[t] = "CPU"
      /\ g.par[t] = g.dpar[d] /\ d \in 1..g.nData /\ d \in g.handles
      /\ g.par[t] = g.dpar[other] /\ other \in 1..g.nData /\ other # r
      /\ g.writePrec[other] # NoTask /\ g.writePrec[other] < t /\ other \in g.handles
  BY <1>1, NextProducerLayout DEF SharedDataMapPartitionWith, HasRoom
<1>3. graph' = Return(h, r)
  BY DEF SharedDataMapPartitionWith, ReadBy
<1> HIDE DEF g, t, r
<1>4. dep \notin Comm
  BY <1>2, ThenTypeOfCPU
<1> HIDE DEF dep
<1>5. Layout(k) /\ Same(g, k) /\ Returnable(k, r)
  <2>1. Readable(g, other, t, dep)
    BY <1>2, <1>4 DEF Readable
  <2> QED BY <1>2, <2>1, ReadViaLayout
<1> HIDE DEF k
<1>6. Layout(h) /\ Same(k, h) /\ Returnable(h, r)
  <2>1. /\ d \in 1..k.nData /\ t \in 1..k.nTasks /\ k.type[t] = "CPU" /\ k.par[t] = k.dpar[d]
        /\ d \in k.handles
    BY <1>2, <1>5 DEF Same
  <2> QED BY <1>2, <1>5, <2>1, ReadDataLayout
<1> HIDE DEF h
<1> QED BY <1>2, <1>3, <1>5, <1>6, ReturnLayout DEF Same

LEMMA UpdatePartitionLayout ==
  ASSUME Layout(graph), NEW d \in DataId, UpdatePartition(d)
  PROVE  Layout(graph')
<1> DEFINE t == graph.nTasks + 1
           c == CreateTask(graph, "CPU", graph.dpar[d])
<1>1. d \in graph.handles
  BY UsableLayout DEF UpdatePartition
<1>2. /\ Layout(c) /\ t \in 1..c.nTasks /\ c.type[t] = "CPU"
      /\ c.par[t] = c.dpar[d] /\ d \in c.handles
      /\ \A p \in c.readPrec[d] \cup {c.writePrec[d]} : p < t
  BY <1>1, NextTaskLayout DEF UpdatePartition, HasRoom
<1>3. graph' = WriteBy(c, d, t)
  BY DEF UpdatePartition
<1> HIDE DEF c, t
<1> QED BY <1>2, <1>3, WriteByLayout

LEMMA UpdatePartitionWithLayout ==
  ASSUME Disciplined, Layout(graph), NEW d \in DataId, NEW other \in DataId,
         UpdatePartitionWith(d, other)
  PROVE  Layout(graph')
<1> DEFINE t == graph.nTasks + 1
           c == CreateTask(graph, "CPU", graph.dpar[d])
           u == WriteBy(c, d, t)
           dep == ThenType(u, t)
<1>1. /\ d \in graph.handles /\ d # other
      /\ other \in 1..graph.nData /\ graph.writePrec[other] # NoTask /\ other \in graph.handles
      /\ graph.dpar[other] = graph.dpar[d]
  BY UsableLayout DEF UpdatePartitionWith, Aligned, Distinct
<1>2. /\ Layout(c) /\ t \in 1..c.nTasks /\ c.type[t] = "CPU"
      /\ c.par[t] = c.dpar[d] /\ d \in c.handles
      /\ \A p \in c.readPrec[d] \cup {c.writePrec[d]} : p < t
      /\ c.par[t] = c.dpar[other] /\ other \in 1..c.nData /\ c.writePrec[other] # NoTask
      /\ c.writePrec[other] < t /\ other \in c.handles
  BY <1>1, NextTaskLayout DEF UpdatePartitionWith, HasRoom
<1>3. graph' = ReadVia(u, other, t, dep)
  BY DEF UpdatePartitionWith, ReadBy
<1> HIDE DEF c, t
<1>4. /\ Layout(u) /\ u.nTasks = c.nTasks /\ u.nData = c.nData /\ u.type = c.type
      /\ u.par = c.par /\ u.dpar = c.dpar /\ u.handles = c.handles
      /\ u.writePrec[other] = c.writePrec[other]
  BY <1>1, <1>2, WriteByLayout
<1> HIDE DEF u
<1>5. dep \notin Comm
  BY <1>2, <1>4, ThenTypeOfCPU
<1> HIDE DEF dep
<1>6. Readable(u, other, t, dep)
  BY <1>2, <1>4, <1>5 DEF Readable
<1> QED BY <1>3, <1>4, <1>6, ReadViaLayout

\* The tasks of a shuffle: serialize has the parallelism of d, the others the one asked for,
\* and nothing sends to the network task yet.
LEMMA ShuffleTasksLayout ==
  ASSUME Layout(graph), graph.nTasks + 3 <= MaxTasks,
         NEW d \in graph.handles, NEW n \in Parallelisms
  PROVE  LET c == CreateTask(graph, "CPU", graph.dpar[d])
             h == CreateTask(CreateTask(c, "NetWork", n), "CPU", n)
             t == graph.nTasks
         IN /\ Layout(h) /\ h.nTasks = t + 3 /\ h.nData = graph.nData
            /\ h.par[t + 1] = graph.dpar[d] /\ h.par[t + 2] = n /\ h.par[t + 3] = n
            /\ h.type[t + 1] = "CPU" /\ h.type[t + 2] = "NetWork" /\ h.type[t + 3] = "CPU"
            /\ h.dpar = graph.dpar /\ h.writePrec = graph.writePrec /\ h.readPrec = graph.readPrec
            /\ h.handles = graph.handles
            /\ \A e \in h.edges : e[2] # t + 2
<1> DEFINE t == graph.nTasks
           g1 == CreateTask(graph, "CPU", graph.dpar[d])
           g2 == CreateTask(g1, "NetWork", n)
           h  == CreateTask(g2, "CPU", n)
<1>1. t \in Nat /\ t + 1 <= MaxTasks /\ t + 2 <= MaxTasks /\ t + 1 # t + 2 /\ t + 2 # t + 3
      /\ t + 1 # t + 3 /\ (t + 1) + 1 = t + 2 /\ (t + 2) + 1 = t + 3
  BY TaskGraphAssumption DEF Layout, Shape
<1>2. graph.dpar[d] \in Parallelisms /\ \A e \in graph.edges : e[2] # t + 2
  <2>1. t + 2 \notin 1..t
    BY <1>1
  <2> QED BY <2>1 DEF Layout, Sizes, Old
<1>3. /\ Layout(g1) /\ g1.nTasks = t + 1 /\ g1.nData = graph.nData /\ t + 1 \in TaskId
      /\ g1.par[t + 1] = graph.dpar[d] /\ g1.type[t + 1] = "CPU"
      /\ g1.dpar = graph.dpar /\ g1.writePrec = graph.writePrec /\ g1.readPrec = graph.readPrec
      /\ g1.handles = graph.handles /\ g1.edges = graph.edges
  BY <1>1, <1>2, CreateTaskLayout
<1> HIDE DEF g1
<1>4. /\ Layout(g2) /\ g2.nTasks = t + 2 /\ g2.nData = g1.nData /\ t + 2 \in TaskId
      /\ g2.type[t + 2] = "NetWork" /\ g2.par[t + 2] = n
      /\ \A x \in TaskId : x # t + 2 => g2.type[x] = g1.type[x] /\ g2.par[x] = g1.par[x]
      /\ g2.dpar = g1.dpar /\ g2.writePrec = g1.writePrec /\ g2.readPrec = g1.readPrec
      /\ g2.handles = g1.handles /\ g2.edges = g1.edges
  <2>1. g1.nTasks + 1 = t + 2 /\ g1.nTasks + 1 <= MaxTasks
    BY <1>1, <1>3
  <2> QED BY <1>3, <2>1, CreateTaskLayout
<1> HIDE DEF g2
<1>5. /\ Layout(h) /\ h.nTasks = t + 3 /\ h.nData = g2.nData /\ t + 3 \in TaskId
      /\ h.par[t + 3] = n /\ h.type[t + 3] = "CPU"
      /\ \A x \in TaskId : x # t + 3 => h.type[x] = g2.type[x] /\ h.par[x] = g2.par[x]
      /\ h.dpar = g2.dpar /\ h.writePrec = g2.writePrec /\ h.readPrec = g2.readPrec
      /\ h.handles = g2.handles /\ h.edges = g2.edges
  <2>1. g2.nTasks + 1 = t + 3 /\ g2.nTasks + 1 <= MaxTasks
    BY <1>1, <1>4
  <2> QED BY <1>4, <2>1, CreateTaskLayout
<1> HIDE DEF h
<1> QED BY <1>1, <1>2, <1>3, <1>4, <1>5 DEF g1, g2, h

\* Its datasets have the parallelism of their producers, the others what they had.
LEMMA ShuffleDataLayout ==
  ASSUME NEW g, Layout(g), g.nData + 3 <= MaxData,
         NEW serialize \in 1..g.nTasks, NEW net \in 1..g.nTasks, NEW deserialize \in 1..g.nTasks,
         g.type[deserialize] = "CPU"
  PROVE  LET h == Create(Create(Create(g, serialize), net), deserialize)
             m == g.nData
         IN /\ Layout(h) /\ h.nTasks = g.nTasks /\ h.nData = m + 3
            /\ m + 1 \in DataId /\ m + 2 \in DataId /\ m + 3 \in DataId
            /\ h.type = g.type /\ h.par = g.par /\ h.handles = g.handles /\ h.edges = g.edges
            /\ h.writePrec[m + 1] = serialize /\ h.writePrec[m + 2] = net
            /\ h.writePrec[m + 3] = deserialize
            /\ h.dpar[m + 2] = g.par[net] /\ h.dpar[m + 3] = g.par[deserialize]
            /\ Returnable(h, m + 3)
            /\ \A e \in DataId : e <= m => h.dpar[e] = g.dpar[e] /\ h.writePrec[e] = g.writePrec[e]
<1> DEFINE m  == g.nData
           g1 == Create(g, serialize)
           g2 == Create(g1, net)
           h  == Create(g2, deserialize)
<1>1. /\ m \in Nat /\ m + 1 <= MaxData /\ m + 2 <= MaxData
      /\ m + 1 # m + 2 /\ m + 1 # m + 3 /\ m + 2 # m + 3
      /\ (m + 1) + 1 = m + 2 /\ (m + 2) + 1 = m + 3
  BY TaskGraphAssumption DEF Layout, Shape
<1>2. \A e \in DataId : e <= m => e # m + 1 /\ e # m + 2 /\ e # m + 3
  BY <1>1 DEF DataId
<1>3. /\ Layout(g1) /\ g1.nTasks = g.nTasks /\ g1.nData = m + 1 /\ m + 1 \in DataId
      /\ g1.type = g.type /\ g1.par = g.par /\ g1.handles = g.handles /\ g1.edges = g.edges
      /\ g1.writePrec[m + 1] = serialize
      /\ \A e \in DataId : e # m + 1 => g1.dpar[e] = g.dpar[e] /\ g1.writePrec[e] = g.writePrec[e]
  BY <1>1, CreateLayout
<1> HIDE DEF g1
<1>4. /\ Layout(g2) /\ g2.nTasks = g1.nTasks /\ g2.nData = m + 2 /\ m + 2 \in DataId
      /\ g2.type = g1.type /\ g2.par = g1.par /\ g2.handles = g1.handles /\ g2.edges = g1.edges
      /\ g2.dpar[m + 2] = g1.par[net] /\ g2.writePrec[m + 2] = net
      /\ \A e \in DataId : e # m + 2 => g2.dpar[e] = g1.dpar[e] /\ g2.writePrec[e] = g1.writePrec[e]
  <2>1. g1.nData + 1 = m + 2 /\ g1.nData + 1 <= MaxData /\ net \in 1..g1.nTasks
    BY <1>1, <1>3
  <2> QED BY <1>3, <2>1, CreateLayout
<1> HIDE DEF g2
<1>5. /\ Layout(h) /\ h.nTasks = g2.nTasks /\ h.nData = m + 3 /\ m + 3 \in DataId
      /\ h.type = g2.type /\ h.par = g2.par /\ h.handles = g2.handles /\ h.edges = g2.edges
      /\ h.dpar[m + 3] = g2.par[deserialize] /\ h.writePrec[m + 3] = deserialize
      /\ Returnable(h, m + 3)
      /\ \A e \in DataId : e # m + 3 => h.dpar[e] = g2.dpar[e] /\ h.writePrec[e] = g2.writePrec[e]
  <2>1. /\ g2.nData + 1 = m + 3 /\ g2.nData + 1 <= MaxData /\ deserialize \in 1..g2.nTasks
        /\ g2.type[deserialize] = "CPU"
    BY <1>1, <1>3, <1>4
  <2> QED BY <1>4, <2>1, CreateLayout
<1> HIDE DEF h
<1> QED BY <1>1, <1>2, <1>3, <1>4, <1>5 DEF g1, g2, h

\* What a shuffle adds behind dataset d: its reader, its network task, the reader of what came.
ShuffleLinks(g, d, message, shuffled, serialize, net, deserialize, dep1, dep2) ==
  ReadData(Link(ReadVia(ReadVia(g, d, serialize, dep1), message, net, dep2),
                {net}, deserialize, "Aggregate"), shuffled, deserialize)

\* What those calls find: the readers have the parallelism of what they read, the messages are
\* not the driver's and may have any number of partitions.  r is a dataset that gains no reader.
ShuffleReady(g, d, message, shuffled, serialize, net, deserialize, dep1, dep2, r) ==
  /\ Layout(g)
  /\ {d, message, shuffled} \subseteq 1..g.nData
  /\ {serialize, net, deserialize} \subseteq 1..g.nTasks
  /\ serialize < net /\ net < deserialize
  /\ g.type[serialize] = "CPU" /\ g.type[net] = "NetWork" /\ g.type[deserialize] = "CPU"
  /\ d \in g.handles /\ g.writePrec[d] # NoTask /\ g.writePrec[d] < serialize
  /\ g.par[serialize] = g.dpar[d] /\ dep1 \notin Comm
  /\ g.writePrec[message] = serialize /\ serialize # NoTask /\ message \notin g.handles
  /\ dep2 \in Comm /\ \A e \in g.edges : e[2] # net
  /\ g.writePrec[shuffled] = net
  /\ g.par[net] = g.par[deserialize] /\ g.dpar[shuffled] = g.par[deserialize]
  /\ r \in DataId /\ r # d /\ r # message /\ Returnable(g, r)

\* The dependencies and reads of a shuffle keep the invariant.
LEMMA ShuffleEdgesLayout ==
  ASSUME NEW g, NEW d, NEW message, NEW shuffled, NEW serialize, NEW net, NEW deserialize,
         NEW dep1, NEW dep2, NEW r,
         ShuffleReady(g, d, message, shuffled, serialize, net, deserialize, dep1, dep2, r)
  PROVE  LET h == ShuffleLinks(g, d, message, shuffled, serialize, net, deserialize, dep1, dep2)
         IN Layout(h) /\ Same(g, h) /\ Returnable(h, r)
<1> DEFINE g1 == ReadVia(g, d, serialize, dep1)
           g2 == ReadVia(g1, message, net, dep2)
           parents == {net}
           g3 == Link(g2, parents, deserialize, "Aggregate")
           h  == ReadData(g3, shuffled, deserialize)
<1> USE DEF ShuffleReady
<1>1. /\ Layout(g1) /\ Same(g, g1) /\ Returnable(g1, r)
      /\ g1.edges = g.edges \cup {<<g.writePrec[d], serialize, dep1>>}
  <2>1. Readable(g, d, serialize, dep1)
    BY DEF Readable
  <2> QED BY <2>1, ReadViaLayout
<1> HIDE DEF g1
<1>2. \A e \in g1.edges : e[2] # net
  BY <1>1
<1>3. Layout(g2) /\ Same(g1, g2) /\ Returnable(g2, r)
  <2>1. Readable(g1, message, net, dep2)
    BY <1>1, <1>2 DEF Readable, Same
  <2> QED BY <1>1, <2>1, ReadViaLayout
<1> HIDE DEF g2
<1>4. /\ Layout(g3) /\ Same(g2, g3) /\ Returnable(g3, r)
      /\ <<net, deserialize, "Aggregate">> \in g3.edges
  <2>1. Linkable(g2, parents, deserialize, "Aggregate")
    BY <1>1, <1>3 DEF Linkable, Comm, Same
  <2>2. net \in parents
    OBVIOUS
  <2> HIDE DEF parents
  <2>3. /\ Layout(g3) /\ Same(g2, g3) /\ g3.readPrec = g2.readPrec
        /\ g3.produces = g2.produces /\ g3.reads = g2.reads
        /\ g3.edges = g2.edges \cup {<<p, deserialize, "Aggregate">> : p \in parents}
    BY <1>3, <2>1, LinkLayout
  <2> HIDE DEF g3
  <2> QED BY <1>3, <2>2, <2>3 DEF Returnable, NetFree, Same
<1> HIDE DEF g3
<1>5. Layout(h) /\ Same(g3, h) /\ Returnable(h, r)
  <2>1. /\ shuffled \in 1..g3.nData /\ deserialize \in 1..g3.nTasks
        /\ g3.par[deserialize] = g3.dpar[shuffled] /\ g3.type[deserialize] = "CPU"
        /\ <<g3.writePrec[shuffled], deserialize, "Aggregate">> \in g3.edges
    BY <1>1, <1>3, <1>4 DEF Same
  <2> QED BY <1>4, <2>1, ReadDataLayout
<1> HIDE DEF h
<1>6. Same(g, h)
  BY <1>1, <1>3, <1>4, <1>5 DEF Same
<1> QED BY <1>5, <1>6 DEF ShuffleLinks, h, g3, g2, g1, parents

LEMMA PartitionByLayout ==
  ASSUME Layout(graph), NEW d \in DataId, NEW n \in Parallelisms, PartitionBy(d, n)
  PROVE  Layout(graph')
<1> DEFINE serialize   == graph.nTasks + 1
           net         == graph.nTasks + 2
           deserialize == graph.nTasks + 3
           message     == graph.nData + 1
           shuffled    == graph.nData + 2
           ret         == graph.nData + 3
           g1 == CreateTask(graph, "CPU", graph.dpar[d])
           g2 == CreateTask(CreateTask(g1, "NetWork", n), "CPU", n)
           g3 == Create(Create(Create(g2, serialize), net), deserialize)
           dep1 == ThenType(g3, serialize)
           dep2 == ThenType(ReadVia(g3, d, serialize, dep1), net)
           h  == ShuffleLinks(g3, d, message, shuffled, serialize, net, deserialize, dep1, dep2)
<1>1. /\ graph' = Return(h, ret)
      /\ graph.nTasks + 3 <= MaxTasks /\ graph.nData + 3 <= MaxData
  BY DEF PartitionBy, ReadBy, HasRoom, ShuffleLinks
<1>2. /\ d \in 1..graph.nData /\ d \in graph.handles /\ graph.writePrec[d] # NoTask
      /\ graph.writePrec[d] \in 0..graph.nTasks
      /\ graph.nTasks \in Nat /\ graph.nData \in Nat /\ graph.handles \subseteq 1..graph.nData
  BY UsableLayout DEF PartitionBy, Layout, Shape, Old
<1>3. /\ Layout(g2) /\ g2.nTasks = deserialize /\ g2.nData = graph.nData
      /\ g2.par[serialize] = graph.dpar[d] /\ g2.par[net] = n /\ g2.par[deserialize] = n
      /\ g2.type[serialize] = "CPU" /\ g2.type[net] = "NetWork" /\ g2.type[deserialize] = "CPU"
      /\ g2.dpar = graph.dpar /\ g2.writePrec = graph.writePrec /\ g2.handles = graph.handles
      /\ \A e \in g2.edges : e[2] # net
  <2>1. graph.nTasks + 3 <= MaxTasks /\ d \in graph.handles
    BY <1>1, <1>2, TaskGraphAssumption
  <2> QED BY <2>1, ShuffleTasksLayout
<1> HIDE DEF g2
<1>4. /\ serialize \in 1..g2.nTasks /\ net \in 1..g2.nTasks /\ deserialize \in 1..g2.nTasks
      /\ serialize # NoTask /\ serialize < net /\ net < deserialize
      /\ graph.writePrec[d] < serialize
  BY <1>2, <1>3 DEF NoTask
<1>5. /\ Layout(g3) /\ g3.nTasks = g2.nTasks /\ g3.nData = ret
      /\ ret \in DataId /\ Returnable(g3, ret) /\ g3.dpar[ret] = g2.par[deserialize]
      /\ g3.type = g2.type /\ g3.par = g2.par /\ g3.handles = g2.handles /\ g3.edges = g2.edges
      /\ g3.writePrec[message] = serialize /\ g3.writePrec[shuffled] = net
      /\ g3.dpar[shuffled] = g2.par[net]
      /\ g3.dpar[d] = g2.dpar[d] /\ g3.writePrec[d] = g2.writePrec[d]
  <2>1. g2.nData + 3 <= MaxData /\ d <= g2.nData
    BY <1>1, <1>2, <1>3
  <2> HIDE DEF serialize, net, deserialize
  <2>2. /\ Layout(g3) /\ g3.nTasks = g2.nTasks /\ g3.nData = g2.nData + 3
        /\ g2.nData + 3 \in DataId /\ Returnable(g3, g2.nData + 3)
        /\ g3.dpar[g2.nData + 3] = g2.par[deserialize]
        /\ g3.type = g2.type /\ g3.par = g2.par /\ g3.handles = g2.handles /\ g3.edges = g2.edges
        /\ g3.writePrec[g2.nData + 1] = serialize /\ g3.writePrec[g2.nData + 2] = net
        /\ g3.dpar[g2.nData + 2] = g2.par[net]
        /\ \A e \in DataId :
             e <= g2.nData => g3.dpar[e] = g2.dpar[e] /\ g3.writePrec[e] = g2.writePrec[e]
    BY <1>3, <1>4, <2>1, ShuffleDataLayout, SMTT(60)
  <2> HIDE DEF g3
  <2>3. d \in DataId
    OBVIOUS
  <2> QED BY <1>3, <2>1, <2>2, <2>3
<1> HIDE DEF g3
<1>6. /\ d \in 1..g3.nData /\ message \in 1..g3.nData /\ shuffled \in 1..g3.nData
      /\ ret \in 1..g3.nData /\ ret # d /\ ret # message /\ message \notin g3.handles
  BY <1>2, <1>3, <1>5
<1> HIDE DEF serialize, net, deserialize, message, shuffled, ret
<1>7. dep1 \notin Comm
  BY <1>3, <1>5, ThenTypeOfCPU
<1> HIDE DEF dep1
<1>8. dep2 \in Comm
  <2>1. Readable(g3, d, serialize, dep1)
    BY <1>2, <1>3, <1>4, <1>5, <1>6, <1>7 DEF Readable
  <2>2. Same(g3, ReadVia(g3, d, serialize, dep1))
    BY <1>5, <2>1, ReadViaLayout
  <2> QED BY <1>3, <1>5, <2>2 DEF Same, ThenType, Comm
<1> HIDE DEF dep2
<1>9. Layout(h) /\ Same(g3, h) /\ Returnable(h, ret)
  <2>1. ShuffleReady(g3, d, message, shuffled, serialize, net, deserialize, dep1, dep2, ret)
    BY <1>2, <1>3, <1>4, <1>5, <1>6, <1>7, <1>8 DEF ShuffleReady
  <2> HIDE DEF h
  <2>2. h = ShuffleLinks(g3, d, message, shuffled, serialize, net, deserialize, dep1, dep2)
    BY DEF h
  <2> QED BY <2>1, <2>2, ShuffleEdgesLayout
<1> HIDE DEF h
<1> QED BY <1>1, <1>3, <1>5, <1>6, <1>9, ReturnLayout DEF Same

LEMMA BroadcastLayout ==
  ASSUME Layout(graph), NEW d \in DataId, NEW n \in Parallelisms, Broadcast(d, n)
  PROVE  Layout(graph')
<1> DEFINE serialize   == graph.nTasks + 1
           net         == graph.nTasks + 2
           deserialize == graph.nTasks + 3
           fetch       == graph.nTasks + 4
           message     == graph.nData + 1
           shuffled    == graph.nData + 2
           received    == graph.nData + 3
           ret         == graph.nData + 4
           g1 == CreateTask(graph, "CPU", graph.dpar[d])
           g2 == CreateTask(CreateTask(g1, "NetWork", n), "CPU", n)
           g3 == CreateTask(g2, "CPU", n)
           g4 == Create(Create(Create(g3, serialize), net), deserialize)
           g5 == Create(g4, fetch)
           dep1 == ThenType(g5, serialize)
           g8 == ShuffleLinks(g5, d, message, shuffled, serialize, net, deserialize,
                              dep1, "Broadcast")
           dep2 == ThenType(g8, fetch)
           parents == {deserialize}
           g9 == Link(g8, parents, fetch, dep2)
           g10 == ReadData(g9, received, fetch)
           h   == Alias(g10, ret, received)
<1>1. /\ graph' = Return(h, ret)
      /\ graph.nTasks + 4 <= MaxTasks /\ graph.nData + 4 <= MaxData
  BY DEF Broadcast, ReadBy, BroadcastBy, Then, HasRoom, ShuffleLinks
<1>2. /\ d \in 1..graph.nData /\ d \in graph.handles /\ graph.writePrec[d] # NoTask
      /\ graph.writePrec[d] \in 0..graph.nTasks
      /\ graph.nTasks \in Nat /\ graph.nData \in Nat /\ graph.handles \subseteq 1..graph.nData
  BY UsableLayout DEF Broadcast, Layout, Shape, Old
<1>3. /\ Layout(g2) /\ g2.nTasks = deserialize /\ g2.nData = graph.nData
      /\ g2.par[serialize] = graph.dpar[d] /\ g2.par[net] = n /\ g2.par[deserialize] = n
      /\ g2.type[serialize] = "CPU" /\ g2.type[net] = "NetWork" /\ g2.type[deserialize] = "CPU"
      /\ g2.dpar = graph.dpar /\ g2.writePrec = graph.writePrec /\ g2.handles = graph.handles
      /\ \A e \in g2.edges : e[2] # net
  <2>1. graph.nTasks + 3 <= MaxTasks /\ d \in graph.handles
    BY <1>1, <1>2, TaskGraphAssumption
  <2> QED BY <2>1, ShuffleTasksLayout
<1> HIDE DEF g2
<1>4. /\ Layout(g3) /\ g3.nTasks = fetch /\ g3.nData = graph.nData
      /\ g3.par[serialize] = graph.dpar[d] /\ g3.par[net] = n /\ g3.par[deserialize] = n
      /\ g3.par[fetch] = n /\ g3.type[fetch] = "CPU"
      /\ g3.type[serialize] = "CPU" /\ g3.type[net] = "NetWork" /\ g3.type[deserialize] = "CPU"
      /\ g3.dpar = graph.dpar /\ g3.writePrec = graph.writePrec /\ g3.handles = graph.handles
      /\ \A e \in g3.edges : e[2] # net
  <2>1. g2.nTasks + 1 = fetch /\ g2.nTasks + 1 <= MaxTasks
    BY <1>1, <1>2, <1>3
  <2>2. /\ Layout(g3) /\ g3.nTasks = fetch /\ g3.nData = g2.nData
        /\ g3.par[fetch] = n /\ g3.type[fetch] = "CPU"
        /\ \A x \in TaskId : x # fetch => g3.type[x] = g2.type[x] /\ g3.par[x] = g2.par[x]
        /\ g3.dpar = g2.dpar /\ g3.writePrec = g2.writePrec /\ g3.handles = g2.handles
        /\ g3.edges = g2.edges
    BY <1>3, <2>1, CreateTaskLayout
  <2>3. /\ serialize \in TaskId /\ net \in TaskId /\ deserialize \in TaskId
        /\ serialize # fetch /\ net # fetch /\ deserialize # fetch
    BY <1>1, <1>2, TaskGraphAssumption DEF TaskId
  <2> HIDE DEF g3, serialize, net, deserialize, fetch
  <2> QED BY <1>3, <2>2, <2>3
<1> HIDE DEF g3
<1>5. /\ serialize \in 1..g3.nTasks /\ net \in 1..g3.nTasks /\ deserialize \in 1..g3.nTasks
      /\ fetch \in 1..g3.nTasks /\ serialize # NoTask
      /\ serialize < net /\ net < deserialize /\ deserialize < fetch
      /\ graph.writePrec[d] < serialize
  BY <1>2, <1>4 DEF NoTask
<1>6. /\ Layout(g4) /\ g4.nTasks = g3.nTasks /\ g4.nData = received
      /\ message \in DataId /\ shuffled \in DataId /\ received \in DataId
      /\ g4.type = g3.type /\ g4.par = g3.par /\ g4.handles = g3.handles /\ g4.edges = g3.edges
      /\ g4.writePrec[message] = serialize /\ g4.writePrec[shuffled] = net
      /\ g4.writePrec[received] = deserialize
      /\ g4.dpar[shuffled] = g3.par[net] /\ g4.dpar[received] = g3.par[deserialize]
      /\ g4.dpar[d] = g3.dpar[d] /\ g4.writePrec[d] = g3.writePrec[d]
  <2>1. /\ Layout(g3) /\ g3.nData + 3 <= MaxData /\ d <= g3.nData /\ g3.type[deserialize] = "CPU"
        /\ serialize \in 1..g3.nTasks /\ net \in 1..g3.nTasks /\ deserialize \in 1..g3.nTasks
    BY <1>1, <1>2, <1>4, <1>5, TaskGraphAssumption
  <2> HIDE DEF serialize, net, deserialize, fetch
  <2>2. /\ Layout(g4) /\ g4.nTasks = g3.nTasks /\ g4.nData = g3.nData + 3
        /\ g3.nData + 1 \in DataId /\ g3.nData + 2 \in DataId /\ g3.nData + 3 \in DataId
        /\ g4.type = g3.type /\ g4.par = g3.par /\ g4.handles = g3.handles /\ g4.edges = g3.edges
        /\ g4.writePrec[g3.nData + 1] = serialize /\ g4.writePrec[g3.nData + 2] = net
        /\ g4.writePrec[g3.nData + 3] = deserialize
        /\ g4.dpar[g3.nData + 2] = g3.par[net] /\ g4.dpar[g3.nData + 3] = g3.par[deserialize]
        /\ \A e \in DataId :
             e <= g3.nData => g4.dpar[e] = g3.dpar[e] /\ g4.writePrec[e] = g3.writePrec[e]
    BY <2>1, ShuffleDataLayout, SMTT(60)
  <2> HIDE DEF g4
  <2> QED BY <1>4, <2>1, <2>2
<1> HIDE DEF g4
<1>7. /\ Layout(g5) /\ g5.nTasks = g3.nTasks /\ g5.nData = ret
      /\ ret \in DataId /\ Returnable(g5, ret) /\ g5.dpar[ret] = g3.par[fetch]
      /\ g5.type = g3.type /\ g5.par = g3.par /\ g5.handles = g3.handles /\ g5.edges = g3.edges
      /\ g5.writePrec[message] = serialize /\ g5.writePrec[shuffled] = net
      /\ g5.writePrec[received] = deserialize
      /\ g5.dpar[shuffled] = g3.par[net] /\ g5.dpar[received] = g3.par[deserialize]
      /\ g5.dpar[d] = g3.dpar[d] /\ g5.writePrec[d] = g3.writePrec[d]
  <2>1. /\ g4.nData + 1 = ret /\ g4.nData + 1 <= MaxData /\ fetch \in 1..g4.nTasks
        /\ d # ret /\ message # ret /\ shuffled # ret /\ received # ret /\ g4.type[fetch] = "CPU"
    BY <1>1, <1>2, <1>4, <1>5, <1>6
  <2>2. /\ Layout(g5) /\ g5.nTasks = g4.nTasks /\ g5.nData = ret
        /\ ret \in DataId /\ Returnable(g5, ret) /\ g5.dpar[ret] = g4.par[fetch]
        /\ g5.type = g4.type /\ g5.par = g4.par /\ g5.handles = g4.handles /\ g5.edges = g4.edges
        /\ \A e \in DataId : e # ret => g5.dpar[e] = g4.dpar[e] /\ g5.writePrec[e] = g4.writePrec[e]
    BY <1>6, <2>1, CreateLayout
  <2> HIDE DEF g5, message, shuffled, received, ret, serialize, net, deserialize, fetch
  <2> QED BY <1>6, <2>1, <2>2
<1> HIDE DEF g5
<1>8. /\ d \in 1..g5.nData /\ message \in 1..g5.nData /\ shuffled \in 1..g5.nData
      /\ received \in 1..g5.nData /\ ret \in 1..g5.nData /\ ret # d /\ ret # message
      /\ message \notin g5.handles
  BY <1>2, <1>4, <1>7
<1> HIDE DEF serialize, net, deserialize, fetch, message, shuffled, received, ret
<1>9. dep1 \notin Comm /\ "Broadcast" \in Comm
  BY <1>4, <1>7, ThenTypeOfCPU DEF Comm
<1> HIDE DEF dep1
<1>10. Layout(g8) /\ Same(g5, g8) /\ Returnable(g8, ret)
  <2>1. ShuffleReady(g5, d, message, shuffled, serialize, net, deserialize, dep1, "Broadcast", ret)
    BY <1>2, <1>4, <1>5, <1>7, <1>8, <1>9 DEF ShuffleReady
  <2> HIDE DEF g8
  <2>2. g8 = ShuffleLinks(g5, d, message, shuffled, serialize, net, deserialize, dep1, "Broadcast")
    BY DEF g8
  <2> QED BY <2>1, <2>2, ShuffleEdgesLayout
<1> HIDE DEF g8
<1>11. dep2 = "Async"
  BY <1>4, <1>7, <1>10, ThenTypeOfCPU DEF Same
<1> HIDE DEF dep2
<1>12. Layout(g9) /\ Same(g8, g9) /\ Returnable(g9, ret)
  <2>1. Linkable(g8, parents, fetch, dep2)
    BY <1>4, <1>5, <1>7, <1>10, <1>11 DEF Linkable, Comm, Same
  <2> HIDE DEF parents
  <2>2. /\ Layout(g9) /\ Same(g8, g9) /\ g9.readPrec = g8.readPrec
        /\ g9.produces = g8.produces /\ g9.reads = g8.reads
    BY <1>10, <2>1, LinkLayout
  <2> QED BY <1>10, <2>2 DEF Returnable, NetFree, Same
<1> HIDE DEF g9
<1>13. Layout(g10) /\ Same(g9, g10) /\ Returnable(g10, ret)
  <2>1. /\ received \in 1..g9.nData /\ fetch \in 1..g9.nTasks /\ g9.par[fetch] = g9.dpar[received]
        /\ g9.type[fetch] = "CPU" /\ g9.type[g9.writePrec[received]] = "CPU"
    BY <1>4, <1>5, <1>7, <1>8, <1>10, <1>12 DEF Same
  <2>2. ret \in DataId
    BY <1>7
  <2> QED BY <1>12, <2>1, <2>2, ReadDataLayout
<1> HIDE DEF g10
<1>14. Layout(h) /\ Same(g10, h) /\ Returnable(h, ret)
  BY <1>13, AliasLayout
<1> HIDE DEF h
<1> QED BY <1>1, <1>4, <1>7, <1>8, <1>10, <1>12, <1>13, <1>14, ReturnLayout DEF Same

-----------------------------------------------------------------------------
(* The theorems. *)

\* The driver starts from an empty graph.
LEMMA InitLayout == Init => Layout(graph)
<1> SUFFICES ASSUME Init PROVE Layout(graph)
  OBVIOUS
<1> USE TaskGraphAssumption DEF Init, EmptyGraph, TaskId, DataId, NoTask
<1>1. Shape(graph) /\ Old(graph)
  BY DEF Shape, Old, Fields, Touched
<1>2. EdgesAlign(graph) /\ AccessesAlign(graph) /\ WritersAlign(graph) /\ ReadersAlign(graph)
  BY DEF EdgesAlign, AccessesAlign, WritersAlign, ReadersAlign, Touched
<1>3. Sizes(graph) /\ Forward(graph) /\ NetworkEdges(graph) /\ Hidden(graph) /\ NetworkData(graph)
  BY DEF Sizes, Forward, NetworkEdges, Hidden, NetworkData, NetFree, Mutates
<1> QED BY <1>1, <1>2, <1>3 DEF Layout

\* Every call keeps the invariant.
LEMMA NextLayout == ASSUME Disciplined, Layout(graph), [Next]_graph PROVE Layout(graph')
<1>1. ASSUME NEW n \in Parallelisms, TextSourceDataset(n) PROVE Layout(graph')
  BY <1>1, TextSourceDatasetLayout
<1>2. ASSUME NEW n \in Parallelisms, AddTask({}, n) PROVE Layout(graph')
  <2>1. {} \in SUBSET (1..graph.nTasks)
    OBVIOUS
  <2> QED BY <1>2, <2>1, AddTaskLayout
<1>3. ASSUME NEW n \in Parallelisms, NEW p \in 1..graph.nTasks, AddTask({p}, n)
      PROVE  Layout(graph')
  <2>1. {p} \in SUBSET (1..graph.nTasks)
    OBVIOUS
  <2> QED BY <1>3, <2>1, AddTaskLayout
<1>4. ASSUME NEW d \in DataId, FlatMap(d) \/ ApplyRead(d) \/ MapPartition(d) \/ UpdatePartition(d)
      PROVE  Layout(graph')
  BY <1>4, FlatMapLayout, ApplyReadLayout, MapPartitionLayout, UpdatePartitionLayout
<1>5. ASSUME NEW d \in DataId, NEW other \in DataId,
             \/ MapPartitionWith(d, other) \/ SharedDataMapPartitionWith(d, other)
             \/ UpdatePartitionWith(d, other)
      PROVE  Layout(graph')
  BY <1>5, MapPartitionWithLayout, SharedDataMapPartitionWithLayout, UpdatePartitionWithLayout
<1>6. ASSUME NEW d \in DataId, NEW n \in Parallelisms, PartitionBy(d, n) \/ Broadcast(d, n)
      PROVE  Layout(graph')
  BY <1>6, PartitionByLayout, BroadcastLayout
<1>7. CASE UNCHANGED graph
  BY <1>7
<1> QED BY <1>1, <1>2, <1>3, <1>4, <1>5, <1>6, <1>7 DEF Next

\* What the tasks of a disciplined driver are, whatever it calls: the invariant above, which
\* the execution of its job rests on.
THEOREM GraphLayout == ASSUME Disciplined PROVE Spec => []Layout(graph)
<1>1. Layout(graph) /\ [Next]_graph => Layout(graph)'
  BY NextLayout
<1> QED BY InitLayout, <1>1, PTL DEF Spec

\* Shard s of a task and shard s of the one it waits for both exist, and a task on the CPU has a
\* shard for every partition it touches (task.h's Then and AggregateThen, dataset.h's closures,
\* which look up the partition of their own number): for every disciplined driver.
THEOREM GraphShardsAlign == ASSUME Disciplined PROVE Spec => []ShardsAlign
<1>1. Layout(graph) => ShardsAlign
  BY DEF Layout, EdgesAlign, AccessesAlign, Touched, ShardsAlign
<1> QED BY GraphLayout, <1>1, PTL

\* The dependencies of a disciplined driver lead from older tasks to newer ones: among the
\* tasks that are not finished the oldest waits for none, so that a job never stands still.
THEOREM GraphEdgesForward == Spec => []EdgesForward
<1>1. CASE Disciplined
  <2>1. Layout(graph) => EdgesForward
    BY DEF Layout, Forward, EdgesForward
  <2> QED BY <1>1, GraphLayout, <2>1, PTL
<1>2. CASE ~Disciplined
  <2>1. EdgesForward
    BY <1>2 DEF EdgesForward
  <2> QED BY <2>1, PTL
<1>3. Disciplined \/ ~Disciplined
  OBVIOUS
<1> QED BY <1>1, <1>2
-----------------------------------------------------------------------------
(***************************************************************************)
(* What broadcasts share.                                                  *)
(*                                                                         *)
(* Deserialize tasks leave objects at process level, and the partitions of *)
(* the result of the broadcast are those objects.  For every disciplined   *)
(* driver neither is ever updated in place, the driver never gets hold of  *)
(* what is at process level, and only tasks later than its producer read   *)
(* it.                                                                     *)
(***************************************************************************)
Levels(g) ==
  \A d \in DataId : g.alias[d] # NoData =>
    /\ d <= g.nData
    /\ g.alias[d] \in DataId /\ g.alias[d] <= g.nData /\ g.alias[d] \notin g.handles
    /\ g.alias[g.alias[d]] = NoData
    /\ \A t \in TaskId : /\ d \notin g.writes[t] /\ g.alias[d] \notin g.writes[t]
                         /\ g.alias[d] \in g.reads[t] => g.writePrec[g.alias[d]] < t

\* The methods called on b have made g of it, and but for the datasets S have let tasks read and
\* write only what the driver holds.
Kept(b, g, S) ==
  /\ DOMAIN g = Fields /\ DOMAIN g.reads = TaskId /\ DOMAIN g.writes = TaskId
  /\ DOMAIN g.writePrec = DataId /\ DOMAIN g.alias = DataId
  /\ g.alias = b.alias /\ g.handles = b.handles
  /\ g.nData \in Nat /\ b.nData <= g.nData
  /\ \A t \in TaskId : /\ g.reads[t] \subseteq b.reads[t] \cup b.handles \cup S
                       /\ g.writes[t] \subseteq b.writes[t] \cup {d \in b.handles : b.alias[d] = NoData}
  /\ \A d \in DataId \ b.handles : d <= b.nData => g.writePrec[d] = b.writePrec[d]

\* Before any method is called.
LEMMA KeptSelf ==
  ASSUME Layout(graph), TypeOK, NEW S
  PROVE  Kept(graph, graph, S)
BY DEF Layout, Shape, Kept, TypeOK, Graph

\* The methods that touch no dataset.
LEMMA KeptTasks ==
  ASSUME NEW b, NEW g, NEW S, Kept(b, g, S)
  PROVE  /\ \A type, par : /\ Kept(b, CreateTask(g, type, par), S)
                            /\ CreateTask(g, type, par).nData = g.nData
         /\ \A parents, child, dep :
              /\ Kept(b, Link(g, parents, child, dep), S)
              /\ Link(g, parents, child, dep).nData = g.nData
              /\ Link(g, parents, child, dep).writePrec = g.writePrec
BY DEF Kept, Fields, CreateTask, Link

\* A new dataset.
LEMMA KeptNewDataset ==
  ASSUME NEW b, b.nData \in Nat, NEW g, NEW S, Kept(b, g, S), NEW par
  PROVE  /\ Kept(b, NewDataset(g, par), S) /\ NewDataset(g, par).nData = g.nData + 1
         /\ NewDataset(g, par).writePrec = g.writePrec
<1> DEFINE h == NewDataset(g, par)
<1>1. /\ DOMAIN h = Fields /\ h.reads = g.reads /\ h.writes = g.writes
      /\ h.writePrec = g.writePrec /\ h.alias = g.alias /\ h.handles = g.handles
      /\ h.nData = g.nData + 1
  BY DEF Kept, Fields, NewDataset
<1> HIDE DEF h
<1>2. h.nData \in Nat /\ b.nData <= h.nData
  BY <1>1 DEF Kept
<1> QED BY <1>1, <1>2 DEF Kept, h

\* A new dataset and its producer.
LEMMA KeptCreate ==
  ASSUME NEW b, b.nData \in Nat, NEW g, NEW S, Kept(b, g, S), NEW t,
         NEW h, h = Create(g, t)
  PROVE  /\ Kept(b, h, S) /\ g.nData \in Nat /\ h.nData = g.nData + 1
         /\ g.nData + 1 \in DataId => h.writePrec[g.nData + 1] = t
         /\ \A d \in DataId : d # g.nData + 1 => h.writePrec[d] = g.writePrec[d]
<1> DEFINE n == NewDataset(g, 0)
           r == g.nData + 1
<1>1. Kept(b, n, S) /\ n.nData = g.nData + 1 /\ n.writePrec = g.writePrec
  BY KeptNewDataset
<1>7. h = SetProducer(n, r, t)
  BY DEF Create
<1> HIDE DEF n
<1>2. /\ DOMAIN h = Fields /\ h.reads = n.reads /\ h.writes = n.writes
      /\ h.writePrec = [n.writePrec EXCEPT ![r] = t]
      /\ h.alias = n.alias /\ h.handles = n.handles /\ h.nData = n.nData
  BY <1>1, <1>7 DEF Kept, Fields, SetProducer
<1>3. r > b.nData
  BY DEF Kept
<1>4. \A d \in DataId : d <= b.nData => h.writePrec[d] = n.writePrec[d]
  BY <1>1, <1>2, <1>3 DEF Kept, DataId
<1>5. DOMAIN h.writePrec = DataId
  BY <1>1, <1>2 DEF Kept
<1>6. Kept(b, h, S)
  BY <1>1, <1>2, <1>4, <1>5 DEF Kept
<1>8. g.nData \in Nat
  BY DEF Kept
<1>10. h.nData = n.nData
  BY <1>2
<1>9. /\ r \in DataId => h.writePrec[r] = t
      /\ \A d \in DataId : d # r => h.writePrec[d] = g.writePrec[d]
  BY <1>1, <1>2 DEF Kept
<1>11. h.nData = r
  BY <1>1, <1>10
<1> HIDE DEF r
<1> QED BY <1>6, <1>8, <1>9, <1>11 DEF r

\* A read the dataset is told of,
LEMMA KeptReadVia ==
  ASSUME NEW b, NEW g, NEW S, Kept(b, g, S), NEW d, d \in b.handles \cup S, NEW t, NEW dep,
         NEW h, h = ReadVia(g, d, t, dep)
  PROVE  Kept(b, h, S) /\ h.nData = g.nData /\ h.writePrec = g.writePrec
<1>1. /\ DOMAIN h = Fields /\ h.reads = [g.reads EXCEPT ![t] = @ \cup {d}]
      /\ h.writes = g.writes /\ h.writePrec = g.writePrec /\ h.alias = g.alias
      /\ h.handles = g.handles /\ h.nData = g.nData
  BY DEF Kept, Fields, ReadVia, Link
<1> QED BY <1>1 DEF Kept

\* ... and one it is not.
LEMMA KeptReadData ==
  ASSUME NEW b, NEW g, NEW S, Kept(b, g, S), NEW d, d \in b.handles \cup S, NEW t,
         NEW h, h = ReadData(g, d, t)
  PROVE  Kept(b, h, S) /\ h.nData = g.nData /\ h.writePrec = g.writePrec
<1>1. /\ DOMAIN h = Fields /\ h.reads = [g.reads EXCEPT ![t] = @ \cup {d}]
      /\ h.writes = g.writes /\ h.writePrec = g.writePrec /\ h.alias = g.alias
      /\ h.handles = g.handles /\ h.nData = g.nData
  BY DEF Kept, Fields, ReadData
<1> QED BY <1>1 DEF Kept

\* An update in place, of what the driver may write.
LEMMA KeptWriteBy ==
  ASSUME NEW b, NEW g, NEW S, Kept(b, g, S), NEW d \in b.handles, b.alias[d] = NoData, NEW t
  PROVE  Kept(b, WriteBy(g, d, t), S)
<1> DEFINE P == WriteParents(g, d)
           dep == ThenType(g, t)
           l == Link(g, P, t, dep)
           h == WriteBy(g, d, t)
<1>1. h = [l EXCEPT !.writes[t] = @ \cup {d}, !.readPrec[d] = {}, !.writePrec[d] = t]
  BY DEF WriteBy, Then
<1>2. Kept(b, l, S)
  BY KeptTasks
<1> HIDE DEF l, h
<1>3. /\ DOMAIN h = Fields /\ h.reads = l.reads /\ h.writes = [l.writes EXCEPT ![t] = @ \cup {d}]
      /\ h.writePrec = [l.writePrec EXCEPT ![d] = t]
      /\ h.alias = l.alias /\ h.handles = l.handles /\ h.nData = l.nData
  BY <1>1, <1>2 DEF Kept, Fields
<1>4. Kept(b, h, S)
  BY <1>2, <1>3 DEF Kept
<1> QED BY <1>4 DEF h

\* Of what is read, nothing but what a broadcast's own fetch task reads was at process level.
LEMMA LevelsKept ==
  ASSUME NEW b, Levels(b), b.nData \in Nat, NEW g, NEW S, Kept(b, g, S), \A d \in S : d > b.nData
  PROVE  Levels(g)
<1> SUFFICES ASSUME NEW d \in DataId, g.alias[d] # NoData
             PROVE  /\ d <= g.nData
                    /\ g.alias[d] \in DataId /\ g.alias[d] <= g.nData /\ g.alias[d] \notin g.handles
                    /\ g.alias[g.alias[d]] = NoData
                    /\ \A t \in TaskId :
                         /\ d \notin g.writes[t] /\ g.alias[d] \notin g.writes[t]
                         /\ g.alias[d] \in g.reads[t] => g.writePrec[g.alias[d]] < t
  BY DEF Levels
<1> DEFINE a == b.alias[d]
<1>1. /\ g.alias[d] = a /\ d <= b.nData /\ a \in DataId /\ a <= b.nData /\ a \notin b.handles
      /\ b.alias[a] = NoData /\ b.alias[d] # NoData
      /\ \A t \in TaskId : /\ d \notin b.writes[t] /\ a \notin b.writes[t]
                           /\ a \in b.reads[t] => b.writePrec[a] < t
  BY DEF Levels, Kept
<1> HIDE DEF a
<1>2. a \notin S /\ d \in Nat /\ a \in Nat
  BY <1>1 DEF DataId
<1>3. d <= g.nData /\ a <= g.nData
  BY <1>1, <1>2 DEF Kept
<1>4. ASSUME NEW t \in TaskId
      PROVE  /\ d \notin g.writes[t] /\ a \notin g.writes[t]
             /\ a \in g.reads[t] => g.writePrec[a] < t
  <2>1. d \notin g.writes[t] /\ a \notin g.writes[t]
    BY <1>1 DEF Kept, a
  <2>2. a \in g.reads[t] => a \in b.reads[t]
    BY <1>1, <1>2 DEF Kept
  <2>3. g.writePrec[a] = b.writePrec[a]
    BY <1>1 DEF Kept
  <2> QED BY <1>1, <2>1, <2>2, <2>3
<1>5. g.alias[a] = NoData /\ a \notin g.handles
  BY <1>1 DEF Kept
<1> QED BY <1>1, <1>3, <1>4, <1>5

\* A call of methods, and perhaps a dataset for the driver.
LEMMA LevelsCall ==
  ASSUME Layout(graph), Levels(graph), NEW S, \A d \in S : d > graph.nData,
         NEW h, Kept(graph, h, S), NEW r \in Nat, r > graph.nData,
         graph' = h \/ graph' = Return(h, r)
  PROVE  Levels(graph')
<1>1. graph.nData \in Nat
  BY DEF Layout, Shape
<1>2. Levels(h)
  BY <1>1, LevelsKept
<1>3. CASE graph' = Return(h, r)
  <2> DEFINE k == Return(h, r)
  <2>1. /\ k.alias = h.alias /\ k.nData = h.nData /\ k.reads = h.reads /\ k.writes = h.writes
        /\ k.writePrec = h.writePrec /\ k.handles = h.handles \cup {r}
    BY DEF Return, Kept, Fields
  <2> HIDE DEF k
  <2>2. \A d \in DataId : h.alias[d] # NoData => h.alias[d] # r
    BY <1>1 DEF Levels, Kept, DataId
  <2>3. Levels(k)
    BY <1>2, <2>1, <2>2 DEF Levels
  <2> QED BY <1>3, <2>3 DEF k
<1> QED BY <1>2, <1>3

\* The calls that create a task, or a dataset without one.
LEMMA LevelsOneTask ==
  ASSUME Disciplined, Layout(graph), TypeOK, Levels(graph),
         NEW d \in DataId, NEW n \in Parallelisms, NEW parents,
         \/ AddTask(parents, n) \/ TextSourceDataset(n) \/ FlatMap(d) \/ ApplyRead(d)
         \/ MapPartition(d) \/ UpdatePartition(d)
  PROVE  Levels(graph')
<1> DEFINE t == graph.nTasks + 1
           r == graph.nData + 1
           c == CreateTask(graph, "CPU", graph.dpar[d])
           m == Create(c, t)
<1>1. /\ graph.nData \in Nat /\ r \in Nat /\ r > graph.nData
      /\ Kept(graph, graph, {}) /\ \A e \in {} : e > graph.nData
  BY KeptSelf DEF Layout, Shape
<1>2. CASE AddTask(parents, n)
  <2> DEFINE c1 == CreateTask(graph, "CPU", n)
             h == Link(c1, parents, t, "Sync")
  <2>1. graph' = h
    BY <1>2 DEF AddTask
  <2>2. Kept(graph, c1, {})
    BY <1>1, KeptTasks
  <2> HIDE DEF c1
  <2>3. Kept(graph, h, {})
    BY <2>2, KeptTasks
  <2> HIDE DEF h, r
  <2> QED BY <1>1, <2>1, <2>3, LevelsCall
<1>3. CASE TextSourceDataset(n)
  <2> DEFINE h == NewDataset(graph, n)
  <2>1. graph' = Return(h, r)
    BY <1>3 DEF TextSourceDataset
  <2>2. Kept(graph, h, {})
    BY <1>1, KeptNewDataset
  <2> HIDE DEF h, r
  <2> QED BY <1>1, <2>1, <2>2, LevelsCall
<1>4. Kept(graph, c, {})
  BY <1>1, KeptTasks
<1>5. CASE FlatMap(d)
  <2>1. graph' = Return(m, r)
    BY <1>5 DEF FlatMap
  <2> HIDE DEF c
  <2>2. Kept(graph, m, {})
    BY <1>1, <1>4, KeptCreate
  <2> HIDE DEF m, r
  <2> QED BY <1>1, <2>1, <2>2, LevelsCall
<1>6. CASE ApplyRead(d)
  <2> DEFINE h == ReadVia(c, d, t, ThenType(c, t))
  <2>1. graph' = h /\ d \in graph.handles
    BY <1>6 DEF ApplyRead, ReadBy, Usable
  <2> HIDE DEF c
  <2>2. Kept(graph, h, {})
    BY <1>4, <2>1, KeptReadVia, KeptReadData
  <2> HIDE DEF h, r
  <2> QED BY <1>1, <2>1, <2>2, LevelsCall
<1>7. CASE MapPartition(d)
  <2> DEFINE h == ReadVia(m, d, t, ThenType(m, t))
  <2>1. graph' = Return(h, r) /\ d \in graph.handles
    BY <1>7 DEF MapPartition, ReadBy, Usable
  <2> HIDE DEF c
  <2>2. Kept(graph, m, {})
    BY <1>1, <1>4, KeptCreate
  <2> HIDE DEF m
  <2>3. Kept(graph, h, {})
    BY <2>1, <2>2, KeptReadVia, KeptReadData
  <2> HIDE DEF h, r
  <2> QED BY <1>1, <2>1, <2>3, LevelsCall
<1>8. CASE UpdatePartition(d)
  <2> DEFINE h == WriteBy(c, d, t)
  <2>1. graph' = h /\ d \in graph.handles /\ graph.alias[d] = NoData
    BY <1>8 DEF UpdatePartition, Usable, MayWrite
  <2> HIDE DEF c
  <2>2. Kept(graph, h, {})
    BY <1>4, <2>1, KeptWriteBy
  <2> HIDE DEF h, r
  <2> QED BY <1>1, <2>1, <2>2, LevelsCall
<1> HIDE DEF c, m
<1> QED BY <1>2, <1>3, <1>5, <1>6, <1>7, <1>8

\* The calls on two datasets.
LEMMA LevelsTwoData ==
  ASSUME Disciplined, Layout(graph), TypeOK, Levels(graph),
         NEW d \in DataId, NEW other \in DataId,
         \/ MapPartitionWith(d, other) \/ SharedDataMapPartitionWith(d, other)
         \/ UpdatePartitionWith(d, other)
  PROVE  Levels(graph')
<1> DEFINE t == graph.nTasks + 1
           r == graph.nData + 1
           c == CreateTask(graph, "CPU", graph.dpar[d])
           m == Create(c, t)
<1>1. /\ graph.nData \in Nat /\ r \in Nat /\ r > graph.nData
      /\ Kept(graph, graph, {}) /\ \A e \in {} : e > graph.nData
  BY KeptSelf DEF Layout, Shape
<1>2. d \in graph.handles /\ other \in graph.handles
  BY DEF MapPartitionWith, SharedDataMapPartitionWith, UpdatePartitionWith, Usable
<1>3. Kept(graph, c, {})
  BY <1>1, KeptTasks
<1>4. Kept(graph, m, {})
  <2> HIDE DEF c
  <2> QED BY <1>1, <1>3, KeptCreate
<1>5. CASE MapPartitionWith(d, other)
  <2> DEFINE h1 == ReadVia(m, d, t, ThenType(m, t))
             h == ReadVia(h1, other, t, ThenType(h1, t))
  <2>1. graph' = Return(h, r)
    BY <1>5 DEF MapPartitionWith, ReadBy
  <2> HIDE DEF c, m
  <2>2. Kept(graph, h1, {})
    BY <1>2, <1>4, KeptReadVia, KeptReadData
  <2> HIDE DEF h1
  <2>3. Kept(graph, h, {})
    BY <1>2, <2>2, KeptReadVia, KeptReadData
  <2> HIDE DEF h, r
  <2> QED BY <1>1, <2>1, <2>3, LevelsCall
<1>6. CASE SharedDataMapPartitionWith(d, other)
  <2> DEFINE h1 == ReadVia(m, other, t, ThenType(m, t))
             h == ReadData(h1, d, t)
  <2>1. graph' = Return(h, r)
    BY <1>6 DEF SharedDataMapPartitionWith, ReadBy
  <2> HIDE DEF c, m
  <2>2. Kept(graph, h1, {})
    BY <1>2, <1>4, KeptReadVia, KeptReadData
  <2> HIDE DEF h1
  <2>3. Kept(graph, h, {})
    BY <1>2, <2>2, KeptReadVia, KeptReadData
  <2> HIDE DEF h, r
  <2> QED BY <1>1, <2>1, <2>3, LevelsCall
<1>7. CASE UpdatePartitionWith(d, other)
  <2> DEFINE h1 == WriteBy(c, d, t)
             h == ReadVia(h1, other, t, ThenType(h1, t))
  <2>1. graph' = h /\ graph.alias[d] = NoData
    BY <1>7 DEF UpdatePartitionWith, ReadBy, MayWrite
  <2> HIDE DEF c, m
  <2>2. Kept(graph, h1, {})
    BY <1>2, <1>3, <2>1, KeptWriteBy
  <2> HIDE DEF h1
  <2>3. Kept(graph, h, {})
    BY <1>2, <2>2, KeptReadVia, KeptReadData
  <2> HIDE DEF h, r
  <2> QED BY <1>1, <2>1, <2>3, LevelsCall
<1> HIDE DEF c, m
<1> QED BY <1>5, <1>6, <1>7

\* The methods that PartitionBy and Broadcast have in common touch what the driver holds and the
\* messages of the shuffle.
LEMMA KeptShuffle ==
  ASSUME NEW b, NEW g, NEW d \in b.handles, NEW message, NEW shuffled,
         NEW S, message \in S, shuffled \in S, Kept(b, g, S),
         NEW serialize, NEW net, NEW deserialize, NEW dep1, NEW dep2,
         NEW h, h = ShuffleLinks(g, d, message, shuffled, serialize, net, deserialize, dep1, dep2)
  PROVE  Kept(b, h, S) /\ h.nData = g.nData /\ h.writePrec = g.writePrec
<1> DEFINE h1 == ReadVia(g, d, serialize, dep1)
           h2 == ReadVia(h1, message, net, dep2)
           h3 == Link(h2, {net}, deserialize, "Aggregate")
<1>1. message \in b.handles \cup S /\ shuffled \in b.handles \cup S /\ d \in b.handles \cup S
  OBVIOUS
<1>2. Kept(b, h1, S) /\ h1.nData = g.nData /\ h1.writePrec = g.writePrec
  BY <1>1, KeptReadVia, KeptReadData
<1> HIDE DEF h1
<1>3. Kept(b, h2, S) /\ h2.nData = h1.nData /\ h2.writePrec = h1.writePrec
  BY <1>1, <1>2, KeptReadVia, KeptReadData
<1> HIDE DEF h2
<1>4. Kept(b, h3, S) /\ h3.nData = h2.nData /\ h3.writePrec = h2.writePrec
  BY <1>3, KeptTasks
<1> HIDE DEF h3
<1>6. h = ReadData(h3, shuffled, deserialize)
  BY DEF ShuffleLinks, h1, h2, h3
<1>5. Kept(b, h, S) /\ h.nData = h3.nData /\ h.writePrec = h3.writePrec
  BY <1>1, <1>4, <1>6, KeptReadData
<1> QED BY <1>2, <1>3, <1>4, <1>5

\* PartitionBy makes no aliases.
LEMMA LevelsPartitionBy ==
  ASSUME Layout(graph), TypeOK, Levels(graph), NEW d \in DataId, NEW n \in Parallelisms,
         PartitionBy(d, n)
  PROVE  Levels(graph')
<1> DEFINE serialize   == graph.nTasks + 1
           net         == graph.nTasks + 2
           deserialize == graph.nTasks + 3
           message     == graph.nData + 1
           shuffled    == graph.nData + 2
           ret         == graph.nData + 3
           S  == {message, shuffled}
           c1 == CreateTask(graph, "CPU", graph.dpar[d])
           c2 == CreateTask(c1, "NetWork", n)
           c3 == CreateTask(c2, "CPU", n)
           g1 == Create(c3, serialize)
           g2 == Create(g1, net)
           g3 == Create(g2, deserialize)
           dep1 == ThenType(g3, serialize)
           dep2 == ThenType(ReadVia(g3, d, serialize, dep1), net)
           h  == ShuffleLinks(g3, d, message, shuffled, serialize, net, deserialize, dep1, dep2)
<1>1. /\ graph' = Return(h, ret) /\ d \in graph.handles
      /\ graph.nData \in Nat
  BY DEF PartitionBy, ReadBy, ShuffleLinks, Usable, Layout, Shape
<1>2. /\ ret \in Nat /\ ret > graph.nData /\ \A e \in S : e > graph.nData
      /\ graph.nData \in Nat /\ message \in S /\ shuffled \in S
  BY <1>1
<1>3. Kept(graph, c3, S)
  <2> HIDE DEF S, c1, c2
  <2>1. Kept(graph, c1, S)
    BY KeptSelf, KeptTasks DEF c1
  <2>2. Kept(graph, c2, S)
    BY <2>1, KeptTasks DEF c2
  <2> QED BY <2>2, KeptTasks
<1> HIDE DEF c3, serialize, net, deserialize, dep1, dep2, ret
<1>4. Kept(graph, g3, S)
  <2> HIDE DEF S, g1, g2
  <2>1. Kept(graph, g1, S)
    BY <1>2, <1>3, KeptCreate DEF g1
  <2>2. Kept(graph, g2, S)
    BY <1>2, <2>1, KeptCreate DEF g2
  <2> QED BY <1>2, <2>2, KeptCreate
<1>6. d \in graph.handles
  BY <1>1
<1> HIDE DEF g3, message, shuffled, S
<1>5. Kept(graph, h, S)
  BY <1>2, <1>4, <1>6, KeptShuffle
<1> HIDE DEF h
<1> QED BY <1>1, <1>2, <1>5, LevelsCall

\* Broadcast makes one: of what it returns, to what its deserialize task leaves for fetch.
LEMMA LevelsBroadcast ==
  ASSUME Layout(graph), TypeOK, Levels(graph), NEW d \in DataId, NEW n \in Parallelisms,
         Broadcast(d, n)
  PROVE  Levels(graph')
<1> DEFINE serialize   == graph.nTasks + 1
           net         == graph.nTasks + 2
           deserialize == graph.nTasks + 3
           fetch       == graph.nTasks + 4
           message     == graph.nData + 1
           shuffled    == graph.nData + 2
           received    == graph.nData + 3
           ret         == graph.nData + 4
           S  == {message, shuffled}
           c1 == CreateTask(graph, "CPU", graph.dpar[d])
           c2 == CreateTask(c1, "NetWork", n)
           c3 == CreateTask(c2, "CPU", n)
           c4 == CreateTask(c3, "CPU", n)
           g1 == Create(c4, serialize)
           g2 == Create(g1, net)
           g3 == Create(g2, deserialize)
           g4 == Create(g3, fetch)
           dep1 == ThenType(g4, serialize)
           g5 == ShuffleLinks(g4, d, message, shuffled, serialize, net, deserialize,
                              dep1, "Broadcast")
           parents == {deserialize}
           dep2 == ThenType(g5, fetch)
           g6 == Link(g5, parents, fetch, dep2)
           k  == Return(Alias(ReadData(g6, received, fetch), ret, received), ret)
<1>1. /\ graph' = k /\ d \in graph.handles
      /\ graph.nTasks \in Nat /\ graph.nTasks + 4 <= MaxTasks
      /\ graph.nData \in Nat /\ graph.nData + 4 <= MaxData
  BY DEF Broadcast, HasRoom, ReadBy, BroadcastBy, Then, ShuffleLinks, Usable, Layout, Shape
<1>15. d \in graph.handles /\ graph.nData \in Nat
  BY <1>1
<1>2. /\ graph.handles \subseteq 1..graph.nData
      /\ \A t \in TaskId : graph.reads[t] \cup graph.writes[t] \subseteq 1..graph.nData
  BY DEF Layout, Old, Touched
<1>3. Kept(graph, c4, S) /\ c4.nData = graph.nData
  <2> HIDE DEF S, c1, c2, c3
  <2>1. Kept(graph, c1, S) /\ c1.nData = graph.nData
    BY KeptSelf, KeptTasks DEF c1
  <2>2. Kept(graph, c2, S) /\ c2.nData = graph.nData
    BY <2>1, KeptTasks DEF c2
  <2>3. Kept(graph, c3, S) /\ c3.nData = graph.nData
    BY <2>2, KeptTasks DEF c3
  <2> QED BY <2>3, KeptTasks
<1> HIDE DEF c4, dep1, dep2, parents
<1>16. graph.nData \in Nat /\ received \in DataId /\ received # ret
  BY <1>1, TaskGraphAssumption DEF DataId
<1>4. /\ Kept(graph, g4, S) /\ g4.nData = ret
      /\ g4.writePrec[received] = deserialize
  <2> HIDE DEF S, g1, g2, g3, serialize, net, deserialize, fetch
  <2>1. Kept(graph, g1, S) /\ g1.nData = message
    BY <1>16, <1>3, KeptCreate DEF g1
  <2>2. Kept(graph, g2, S) /\ g2.nData = shuffled
    BY <1>16, <2>1, KeptCreate DEF g2
  <2>3. Kept(graph, g3, S) /\ g3.nData = received /\ g3.writePrec[received] = deserialize
    BY <1>16, <2>2, KeptCreate DEF g3
  <2> QED BY <1>16, <2>3, KeptCreate
<1>5. /\ received \in DataId /\ ret \in DataId /\ received # ret /\ received # NoData
      /\ received > graph.nData /\ ret > graph.nData /\ received <= ret
      /\ received \notin S /\ \A e \in S : e > graph.nData
      /\ message \in S /\ shuffled \in S
      /\ fetch \in TaskId /\ deserialize < fetch
  BY <1>1, TaskGraphAssumption DEF DataId, TaskId, NoData
<1> HIDE DEF g4, serialize, net, deserialize, fetch, message, shuffled, received, ret, S
<1>6. Kept(graph, g5, S) /\ g5.nData = g4.nData /\ g5.writePrec = g4.writePrec
  <2>1. Kept(graph, g4, S) /\ message \in S /\ shuffled \in S /\ d \in graph.handles
    BY <1>15, <1>4, <1>5
  <2>2. ASSUME NEW h,
               h = ShuffleLinks(g4, d, message, shuffled, serialize, net, deserialize,
                                dep1, "Broadcast")
        PROVE  Kept(graph, h, S) /\ h.nData = g4.nData /\ h.writePrec = g4.writePrec
    BY <2>1, <2>2, KeptShuffle
  <2> QED BY <2>2
<1> HIDE DEF g5
<1>7. Kept(graph, g6, S) /\ g6.nData = ret /\ g6.writePrec[received] = deserialize
  BY <1>4, <1>6, KeptTasks
<1> HIDE DEF g6
<1>8. /\ k.nData = ret /\ k.handles = graph.handles \cup {ret}
      /\ k.alias = [graph.alias EXCEPT ![ret] = received]
      /\ k.reads = [g6.reads EXCEPT ![fetch] = @ \cup {received}]
      /\ k.writes = g6.writes /\ k.writePrec = g6.writePrec
  BY <1>7 DEF Kept, Fields, ReadData, Alias, Return
<1>9. DOMAIN graph.alias = DataId /\ DOMAIN g6.reads = TaskId
  BY <1>7 DEF Kept
<1> HIDE DEF k
<1>10. Levels(g6)
  BY <1>1, <1>5, <1>7, LevelsKept
<1>11. \A t \in TaskId : /\ received \notin g6.reads[t] /\ received \notin g6.writes[t]
                         /\ ret \notin g6.writes[t]
  BY <1>1, <1>2, <1>5, <1>7 DEF Kept
<1>12. graph.alias[received] = NoData
  BY <1>1, <1>5 DEF Levels, DataId
<1> SUFFICES ASSUME NEW e \in DataId, k.alias[e] # NoData
             PROVE  /\ e <= k.nData
                    /\ k.alias[e] \in DataId /\ k.alias[e] <= k.nData /\ k.alias[e] \notin k.handles
                    /\ k.alias[k.alias[e]] = NoData
                    /\ \A t \in TaskId :
                         /\ e \notin k.writes[t] /\ k.alias[e] \notin k.writes[t]
                         /\ k.alias[e] \in k.reads[t] => k.writePrec[k.alias[e]] < t
  BY <1>1 DEF Levels
<1>13. CASE e = ret
  <2>1. k.alias[e] = received /\ k.alias[received] = NoData
    BY <1>5, <1>8, <1>9, <1>12, <1>13
  <2>2. received \notin k.handles /\ received <= k.nData /\ e <= k.nData
    BY <1>1, <1>2, <1>5, <1>8, <1>13 DEF DataId
  <2>3. ASSUME NEW t \in TaskId
        PROVE  /\ e \notin k.writes[t] /\ received \notin k.writes[t]
               /\ received \in k.reads[t] => k.writePrec[received] < t
    BY <1>5, <1>7, <1>8, <1>9, <1>11, <1>13
  <2> QED BY <1>5, <2>1, <2>2, <2>3
<1>14. CASE e # ret
  <2> DEFINE a == graph.alias[e]
  <2>1. k.alias[e] = a /\ a # NoData
    BY <1>8, <1>9, <1>14
  <2>2. g6.alias = graph.alias /\ g6.handles = graph.handles
    BY <1>7 DEF Kept
  <2>3. e <= graph.nData /\ a \in DataId /\ a <= graph.nData
    BY <2>1 DEF Levels
  <2> HIDE DEF a
  <2>4. a # ret /\ a # received /\ e <= k.nData /\ a <= k.nData
    BY <1>1, <1>5, <1>8, <2>3 DEF DataId
  <2>5. /\ a \notin g6.handles /\ g6.alias[a] = NoData
        /\ \A t \in TaskId : /\ e \notin g6.writes[t] /\ a \notin g6.writes[t]
                             /\ a \in g6.reads[t] => g6.writePrec[a] < t
    BY <1>10, <2>1, <2>2 DEF Levels, a
  <2>6. k.alias[a] = NoData /\ a \notin k.handles
    BY <1>8, <1>9, <2>2, <2>3, <2>4, <2>5
  <2>7. ASSUME NEW t \in TaskId
        PROVE  /\ e \notin k.writes[t] /\ a \notin k.writes[t]
               /\ a \in k.reads[t] => k.writePrec[a] < t
    BY <1>8, <1>9, <2>4, <2>5
  <2> QED BY <2>1, <2>3, <2>4, <2>6, <2>7
<1> QED BY <1>13, <1>14

\* Every call keeps the invariant.
LEMMA NextLevels ==
  ASSUME Disciplined, Layout(graph), TypeOK, Levels(graph), [Next]_graph
  PROVE  Levels(graph')
<1>1. ASSUME NEW d \in DataId, NEW n \in Parallelisms, NEW parents,
             \/ AddTask(parents, n) \/ TextSourceDataset(n) \/ FlatMap(d) \/ ApplyRead(d)
             \/ MapPartition(d) \/ UpdatePartition(d)
      PROVE  Levels(graph')
  BY <1>1, LevelsOneTask
<1>2. ASSUME NEW n \in Parallelisms, NEW parents, AddTask(parents, n) \/ TextSourceDataset(n)
      PROVE  Levels(graph')
  <2>1. CASE DataId # {}
    BY <1>1, <1>2, <2>1
  <2>2. CASE DataId = {}
    <3>1. DataId = {} => \A g : Levels(g)
      BY DEF Levels
    <3> QED BY <2>2, <3>1
  <2> QED BY <2>1, <2>2
<1>3. ASSUME NEW d \in DataId,
             FlatMap(d) \/ ApplyRead(d) \/ MapPartition(d) \/ UpdatePartition(d)
      PROVE  Levels(graph')
  <2>1. CASE Parallelisms # {}
    BY <1>1, <1>3, <2>1
  <2>2. CASE Parallelisms = {}
    <3>1. d \in graph.handles
      BY <1>3 DEF FlatMap, ApplyRead, MapPartition, UpdatePartition, Usable, Sources
    <3> QED BY <2>2, <3>1 DEF Layout, Sizes
  <2> QED BY <2>1, <2>2
<1>4. ASSUME NEW d \in DataId, NEW other \in DataId,
             \/ MapPartitionWith(d, other) \/ SharedDataMapPartitionWith(d, other)
             \/ UpdatePartitionWith(d, other)
      PROVE  Levels(graph')
  BY <1>4, LevelsTwoData
<1>5. ASSUME NEW d \in DataId, NEW n \in Parallelisms, PartitionBy(d, n) \/ Broadcast(d, n)
      PROVE  Levels(graph')
  BY <1>5, LevelsPartitionBy, LevelsBroadcast
<1>6. CASE UNCHANGED graph
  BY <1>6
<1> QED BY <1>2, <1>3, <1>4, <1>5, <1>6 DEF Next

\* What broadcasts share is never changed in place nor named by the driver: for every disciplined
\* driver.
THEOREM GraphLevels == ASSUME Disciplined PROVE Spec => []Levels(graph)
<1>1. Init => Levels(graph)
  BY DEF Init, EmptyGraph, Levels
<1>2. Layout(graph) /\ TypeOK /\ Levels(graph) /\ [Next]_graph => Levels(graph)'
  BY NextLevels
<1> QED BY GraphLayout, GraphTypeOK, <1>1, <1>2, PTL DEF Spec

-----------------------------------------------------------------------------
(* The run of the job. *)

\* What the calls made of the graph.
Built ==
  /\ Disciplined /\ TypeOK /\ Layout(graph) /\ Levels(graph)
  /\ ConflictsOrdered /\ UntrackedReadsOrdered

Started == running \cup done

\* Nothing runs before the job is submitted, and nothing before what it waits for is done.
Waited ==
  /\ running \subseteq AllInstances /\ done \subseteq AllInstances
  /\ running \cap done = {}
  /\ ~submitted => Started = {}
  /\ \A y \in Started : Awaits(y) \subseteq done

\* The last writer of a cell is done, and no writer that is done comes after it.
LastWriter ==
  /\ last \in [Cell -> TaskId \cup {NoTask}]
  /\ \A c \in Cell : last[c] # NoTask =>
       \E x \in done : last[c] = x[1] /\ \E o \in Outputs(x) : CellOf(o) = c
  /\ \A x \in done : \A o \in Outputs(x) : x[1] <= last[CellOf(o)]

\* What is at process level was made by an instance that is done.
MadeAlready(o) == o[1] \in ProcessLevel => \E z \in done : o \in Outputs(z)

\* A cell has an object that belongs there, or for the result of a broadcast one of what the
\* broadcast shares.
Stored ==
  /\ store \in [Cell -> Object \cup {NoObject}]
  /\ ~submitted => \A c \in Cell : store[c] = NoObject
  /\ \A c \in Cell : store[c] # NoObject =>
       /\ graph.alias[c[2]] = NoData => CellOf(store[c]) = c
       /\ graph.alias[c[2]] # NoData => store[c][1] = graph.alias[c[2]]
       /\ MadeAlready(store[c])

\* A closure that runs changes objects of its own, which no broadcast returned, and reads
\* objects it names or objects at process level.
Held ==
  /\ \A l \in writing :
       /\ l = <<l[1], l[2]>> /\ l[1] \in running
       /\ l[2] \in Outputs(l[1]) /\ graph.alias[l[2][1]] = NoData
  /\ \A l \in reading :
       /\ l = <<l[1], l[2]>> /\ l[1] \in running /\ l[2] \in Object
       /\ l[2][1] \notin ProcessLevel => l[2] \in Inputs(l[1])
       /\ MadeAlready(l[2])

-----------------------------------------------------------------------------
(* Instances, objects and cells. *)

\* The parts of the layout that are used below.
LEMMA TaskFacts ==
  ASSUME Built
  PROVE  /\ graph.nTasks \in Nat
         /\ \A t \in 1..graph.nTasks : /\ t \in TaskId /\ t \in Nat /\ t # NoTask
                                       /\ graph.par[t] \in Nat /\ graph.par[t] # 0
                                       /\ graph.par[t] \in Parallelisms
                                       /\ graph.type[t] \in {"CPU", "NetWork"}
         /\ \A e \in graph.edges : /\ e = <<e[1], e[2], e[3]>>
                                   /\ e[1] \in 1..graph.nTasks /\ e[2] \in 1..graph.nTasks
                                   /\ e[3] \in TaskDependencyType /\ e[1] < e[2]
<1>1. graph \in Graph /\ Shape(graph) /\ Old(graph) /\ Sizes(graph) /\ Forward(graph)
  BY DEF Built, TypeOK, Layout
<1>2. 1..graph.nTasks \subseteq TaskId /\ graph.nTasks \in Nat
  BY <1>1, Ids DEF Shape
<1>3. graph.type \in [TaskId -> ResourceType]
  BY <1>1 DEF Graph
<1>4. graph.edges \subseteq TaskId \X TaskId \X TaskDependencyType
  BY <1>1 DEF Graph
<1>5. \A e \in TaskId \X TaskId \X TaskDependencyType :
        e = <<e[1], e[2], e[3]>> /\ e[3] \in TaskDependencyType
  OBVIOUS
<1>6. \A t \in 1..graph.nTasks : t \in Nat /\ t # NoTask
  BY <1>2 DEF NoTask
<1>7. \A t \in 1..graph.nTasks : graph.par[t] \in Nat /\ graph.par[t] # 0
                                 /\ graph.par[t] \in Parallelisms
  BY <1>1, TaskGraphAssumption DEF Sizes
<1>8. \A t \in 1..graph.nTasks : graph.type[t] \in {"CPU", "NetWork"}
  BY <1>2, <1>3 DEF ResourceType
<1>9. \A e \in graph.edges : e[1] \in 1..graph.nTasks /\ e[2] \in 1..graph.nTasks /\ e[1] < e[2]
  BY <1>1 DEF Old, Forward
<1> QED BY <1>2, <1>4, <1>5, <1>6, <1>7, <1>8, <1>9

\* A network task has an instance for every shard of the one task that sends to it.
LEMMA DimFacts ==
  ASSUME Built
  PROVE  /\ \A e \in graph.edges :
              e[3] \in Comm => /\ graph.type[e[1]] = "CPU" /\ graph.type[e[2]] = "NetWork"
                               /\ Dim(e[2]) = 0..(graph.par[e[1]] - 1)
         /\ \A e \in graph.edges : e[3] \notin Comm => graph.type[e[2]] = "CPU"
         /\ \A t \in TaskId : graph.type[t] = "CPU" => Dim(t) = {0}
<1>1. NetworkEdges(graph)
  BY DEF Built, Layout
<1>2. \A e \in graph.edges : /\ e[3] \in Comm <=> graph.type[e[2]] = "NetWork"
                             /\ e[3] \in Comm => graph.type[e[1]] = "CPU"
  BY <1>1 DEF NetworkEdges
<1>3. \A e \in graph.edges : e[3] \notin Comm => graph.type[e[2]] = "CPU"
  BY <1>2, TaskFacts
<1>4. ASSUME NEW e \in graph.edges, e[3] \in Comm
      PROVE  Dim(e[2]) = 0..(graph.par[e[1]] - 1)
  <2>1. e[1] \in Senders(e[2])
    BY <1>4 DEF Senders, Comm
  <2>2. \A p \in Senders(e[2]) : p = e[1]
    BY <1>1, <1>4 DEF NetworkEdges, Senders, Comm
  <2> QED BY <2>1, <2>2 DEF Dim
<1>5. ASSUME NEW t \in TaskId, graph.type[t] = "CPU" PROVE Dim(t) = {0}
  <2>1. Senders(t) = {}
    BY <1>2, <1>5 DEF Senders, Comm
  <2> QED BY <2>1 DEF Dim
<1> QED BY <1>2, <1>3, <1>4, <1>5

\* Shards and senders are numbered from 0, and there is one of each.
LEMMA DimShard ==
  ASSUME Built, NEW t \in TaskId
  PROVE  /\ 1..graph.nTasks # {} => Dim(t) \subseteq Shard
         /\ Dim(t) # {}
         /\ t \in 1..graph.nTasks => /\ 0..(graph.par[t] - 1) \subseteq Shard
                                    /\ 0 \in 0..(graph.par[t] - 1)
<1>1. \A u \in 1..graph.nTasks : /\ 0..(graph.par[u] - 1) \subseteq Shard
                                 /\ 0 \in 0..(graph.par[u] - 1)
  BY TaskFacts DEF Shard
<1>2. Senders(t) \subseteq 1..graph.nTasks
  BY TaskFacts DEF Senders
<1>3. CASE Senders(t) = {}
  BY <1>1, <1>3 DEF Dim
<1>4. CASE Senders(t) # {}
  <2>1. PICK p \in Senders(t) : TRUE
    BY <1>4
  <2>2. Dim(t) = UNION {0..(graph.par[q] - 1) : q \in Senders(t)}
    BY <1>4 DEF Dim
  <2>3. 0 \in Dim(t) /\ Dim(t) \subseteq Shard
    BY <1>1, <1>2, <2>1, <2>2
  <2> QED BY <1>1, <2>3
<1> QED BY <1>3, <1>4

\* An instance is a task, a shard of it and one of its senders.
LEMMA InstanceFacts ==
  ASSUME Built
  PROVE  /\ \A x \in AllInstances : /\ x = <<x[1], x[2], x[3]>>
                                    /\ x[1] \in 1..graph.nTasks /\ x \in Instances(x[1])
                                    /\ x[2] \in 0..(graph.par[x[1]] - 1) /\ x[3] \in Dim(x[1])
         /\ \A t \in 1..graph.nTasks : \A s \in 0..(graph.par[t] - 1), i \in Dim(t) :
              <<t, s, i>> \in Instances(t)
         /\ \A t \in 1..graph.nTasks : \A x \in Instances(t) : x \in AllInstances /\ x[1] = t
<1>1. \A t : \A x \in Instances(t) : /\ x = <<x[1], x[2], x[3]>> /\ x[1] = t
                                     /\ x[2] \in 0..(graph.par[t] - 1) /\ x[3] \in Dim(t)
  BY DEF Instances
<1>2. \A t : \A s \in 0..(graph.par[t] - 1), i \in Dim(t) : <<t, s, i>> \in Instances(t)
  BY DEF Instances
<1> QED BY <1>1, <1>2 DEF AllInstances

\* Instances and the objects they use are elements of the sets the locks are about.
LEMMA InstanceTypes ==
  ASSUME Built
  PROVE  /\ AllInstances \subseteq Instance
         /\ \A x \in AllInstances : Inputs(x) \subseteq Object /\ Outputs(x) \subseteq Object
<1>1. /\ graph.produces \in [TaskId -> SUBSET DataId]
      /\ graph.reads \in [TaskId -> SUBSET DataId]
      /\ graph.writes \in [TaskId -> SUBSET DataId]
  BY DEF Built, TypeOK, Graph
<1> SUFFICES ASSUME NEW x \in AllInstances
             PROVE  x \in Instance /\ Inputs(x) \subseteq Object /\ Outputs(x) \subseteq Object
  OBVIOUS
<1>2. /\ x = <<x[1], x[2], x[3]>> /\ x[1] \in 1..graph.nTasks /\ x[1] \in TaskId
      /\ x[2] \in Shard /\ x[3] \in Shard /\ 0 \in Shard
  BY TaskFacts, InstanceFacts, DimShard
<1>3. x \in Instance
  BY <1>2 DEF Instance
<1>4. Outputs(x) \subseteq Object
  BY <1>1, <1>2 DEF Outputs, Of, Object
<1>5. \A d \in DataId : Partition(d, x[2]) \subseteq Object
  BY <1>2, DimShard DEF Partition, Object
<1>6. Inputs(x) \subseteq Object
  <2>1. graph.reads[x[1]] \subseteq DataId
    BY <1>1, <1>2
  <2>2. CASE graph.type[x[1]] = "NetWork"
    BY <1>2, <2>1, <2>2 DEF Inputs, Object
  <2>3. CASE graph.type[x[1]] # "NetWork"
    BY <1>5, <2>1, <2>3 DEF Inputs
  <2> QED BY <2>2, <2>3
<1> QED BY <1>3, <1>4, <1>6

\* An object belongs in one cell, that of its dataset; no two objects of a dataset belong in
\* the same cell unless the dataset is at process level.
LEMMA CellsApart ==
  /\ \A o \in Object : CellOf(o) \in Cell /\ CellOf(o)[2] = o[1] /\ o # NoObject
  /\ \A o, q \in Object : CellOf(o) = CellOf(q) =>
       o[1] = q[1] /\ (o[1] \notin ProcessLevel => o = q)
<1>1. \A s \in Shard : Home[s] \in Process /\ 0 \in Shard
  BY JobExecutionAssumption, TaskGraphAssumption DEF Shard
<1>2. ASSUME NEW o \in Object
      PROVE  /\ o = <<o[1], o[2], o[3]>> /\ o[1] \in DataId /\ o[2] \in Shard /\ o[3] \in Shard
             /\ CellOf(o) \in Cell /\ CellOf(o)[2] = o[1] /\ o # NoObject
  <2>1. o = <<o[1], o[2], o[3]>> /\ o[1] \in DataId /\ o[2] \in Shard /\ o[3] \in Shard
    BY DEF Object
  <2>2. Slot(o) \in Shard
    BY <1>1, <2>1 DEF Slot
  <2>3. CellOf(o) \in Cell /\ CellOf(o)[2] = o[1]
    BY <1>1, <2>1, <2>2 DEF CellOf, Cell
  <2>4. o # NoObject
    BY <2>1 DEF NoObject, NoData, DataId
  <2> QED BY <2>1, <2>3, <2>4
<1>3. ASSUME NEW o \in Object, NEW q \in Object, CellOf(o) = CellOf(q)
      PROVE  o[1] = q[1] /\ (o[1] \notin ProcessLevel => o = q)
  <2>1. o[1] = q[1] /\ Slot(o) = Slot(q) /\ o[3] = q[3]
    BY <1>3 DEF CellOf
  <2>2. o[1] \notin ProcessLevel => o[2] = q[2]
    BY <2>1 DEF Slot
  <2> QED BY <1>2, <2>1, <2>2
<1> QED BY <1>2, <1>3

-----------------------------------------------------------------------------
(* Which shards a shard waits for. *)

\* A shard waits for something along every dependency of its task.
LEMMA WaitsForSome ==
  ASSUME Built, NEW e \in graph.edges, NEW z \in Instances(e[2])
  PROVE  \E y \in AwaitsVia(z, e) : y \in Instances(e[1])
<1>1. /\ e[1] \in 1..graph.nTasks /\ e[1] \in TaskId /\ e[2] \in 1..graph.nTasks
      /\ e[3] \in TaskDependencyType
  BY TaskFacts
<1>2. z[2] \in 0..(graph.par[e[2]] - 1) /\ z[3] \in Dim(e[2])
  BY <1>1, InstanceFacts
<1>3. PICK i \in Dim(e[1]) : TRUE
  BY <1>1, DimShard
<1>4. 0 \in 0..(graph.par[e[1]] - 1)
  BY <1>1, DimShard
<1>5. CASE e[3] = "Sync"
  <2>1. <<e[1], 0, i>> \in Instances(e[1])
    BY <1>1, <1>3, <1>4, InstanceFacts
  <2> QED BY <1>5, <2>1 DEF AwaitsVia
<1>6. CASE e[3] \in {"Async", "Aggregate"}
  <2>1. graph.par[e[1]] = graph.par[e[2]]
    BY <1>6 DEF Built, Layout, EdgesAlign
  <2>2. <<e[1], z[2], i>> \in Instances(e[1])
    BY <1>1, <1>2, <1>3, <2>1, InstanceFacts
  <2>3. <<e[1], z[2], i>> \in AwaitsVia(z, e)
    BY <1>6, <2>2 DEF AwaitsVia
  <2> QED BY <2>2, <2>3
<1>7. CASE e[3] \in Comm
  <2>1. z[3] \in 0..(graph.par[e[1]] - 1)
    BY <1>2, <1>7, DimFacts
  <2>2. <<e[1], z[3], i>> \in Instances(e[1])
    BY <1>1, <1>3, <2>1, InstanceFacts
  <2>3. <<e[1], z[3], i>> \in AwaitsVia(z, e)
    BY <1>7, <2>2 DEF AwaitsVia, Comm
  <2> QED BY <2>2, <2>3
<1> QED BY <1>1, <1>5, <1>6, <1>7 DEF TaskDependencyType, Comm

\* The number by which an instance stands for a shard upstream: that of its own shard, or for
\* a network task that of the sender it takes messages from.
Key(y) == IF graph.type[y[1]] = "NetWork" THEN y[3] ELSE y[2]
Keys(t) == IF graph.type[t] = "NetWork" THEN Dim(t) ELSE 0..(graph.par[t] - 1)

\* Whatever has started of the task u waited for all shards of the task a ...
BehindAll(a, u) == \A y \in Started : y[1] = u => Instances(a) \subseteq done

\* ... or for its shard of the same number.
BehindOne(a, u) ==
  /\ Keys(u) = 0..(graph.par[a] - 1)
  /\ \A y \in Started : y[1] = u => <<a, Key(y), 0>> \in done \/ <<a, Key(y), 0>> = y

\* One of the two is passed on along every dependency.
LEMMA WaitStep ==
  ASSUME Built, Waited, NEW a \in 1..graph.nTasks, graph.type[a] = "CPU",
         NEW e \in graph.edges, BehindAll(a, e[1]) \/ BehindOne(a, e[1])
  PROVE  BehindAll(a, e[2]) \/ BehindOne(a, e[2])
<1> DEFINE u == e[1]
           v == e[2]
<1>1. /\ u \in 1..graph.nTasks /\ v \in 1..graph.nTasks /\ u \in TaskId /\ v \in TaskId
      /\ a \in TaskId /\ e[3] \in TaskDependencyType
      /\ graph.type[u] \in {"CPU", "NetWork"} /\ graph.type[v] \in {"CPU", "NetWork"}
  BY TaskFacts
<1>2. \A z \in Started : z \in AllInstances
  BY DEF Waited, Started
<1>3. \A z \in Started : z[1] = v => AwaitsVia(z, e) \subseteq done
  BY DEF Waited, Awaits
<1>4. \A z \in Started : z[1] = v => z \in Instances(v)
  BY <1>2, InstanceFacts
<1>5. \A y \in Instances(u) : y[1] = u
  BY <1>1, InstanceFacts
<1>6. ASSUME BehindAll(a, u) PROVE BehindAll(a, v)
  <2> SUFFICES ASSUME NEW z \in Started, z[1] = v PROVE Instances(a) \subseteq done
    BY DEF BehindAll
  <2>1. PICK y \in AwaitsVia(z, e) : y \in Instances(u)
    BY <1>4, WaitsForSome
  <2>2. y \in Started /\ y[1] = u
    BY <1>3, <1>5, <2>1 DEF Started
  <2> QED BY <1>6, <2>2 DEF BehindAll
<1>7. ASSUME BehindOne(a, u) PROVE BehindAll(a, v) \/ BehindOne(a, v)
  <2>1. Keys(u) = 0..(graph.par[a] - 1)
    BY <1>7 DEF BehindOne
  <2>2. \A y \in done : y \in Instances(u) => <<a, Key(y), 0>> \in done
    BY <1>5, <1>7 DEF BehindOne, Started
  <2>3. \A y \in Instances(a) : y[2] \in Keys(u) /\ y = <<a, y[2], 0>>
    BY <1>1, <2>1, InstanceFacts, DimFacts
  <2>4. Dim(a) = {0} /\ (graph.type[u] = "CPU" => Dim(u) = {0})
    BY <1>1, DimFacts
  <2>5. ASSUME NEW z \in Started, z[1] = v,
               \A k \in Keys(u) : \E y \in AwaitsVia(z, e) : y \in Instances(u) /\ Key(y) = k
        PROVE  Instances(a) \subseteq done
    BY <1>3, <2>2, <2>3, <2>5
  <2>6. CASE e[3] = "Sync"
    <3>1. \A k \in Keys(u) : \E y \in Instances(u) : Key(y) = k
      <4>1. CASE graph.type[u] = "CPU"
        <5>1. \A k \in 0..(graph.par[u] - 1) : <<u, k, 0>> \in Instances(u) /\ Key(<<u, k, 0>>) = k
          BY <1>1, <2>4, <4>1, InstanceFacts DEF Key
        <5> QED BY <4>1, <5>1 DEF Keys
      <4>2. CASE graph.type[u] = "NetWork"
        <5>1. 0 \in 0..(graph.par[u] - 1)
          BY <1>1, DimShard
        <5>2. \A k \in Dim(u) : <<u, 0, k>> \in Instances(u) /\ Key(<<u, 0, k>>) = k
          BY <1>1, <4>2, <5>1, InstanceFacts DEF Key
        <5> QED BY <4>2, <5>2 DEF Keys
      <4> QED BY <1>1, <4>1, <4>2
    <3>2. \A z : AwaitsVia(z, e) = Instances(u)
      BY <2>6 DEF AwaitsVia
    <3> QED BY <2>5, <3>1, <3>2 DEF BehindAll
  <2>7. CASE e[3] \in {"Async", "Aggregate"} /\ graph.type[u] = "NetWork"
    <3>1. graph.par[u] = graph.par[v]
      BY <2>7 DEF Built, Layout, EdgesAlign
    <3>2. ASSUME NEW z \in Started, z[1] = v, NEW k \in Dim(u)
          PROVE  /\ <<u, z[2], k>> \in Instances(u) /\ <<u, z[2], k>> \in AwaitsVia(z, e)
                 /\ Key(<<u, z[2], k>>) = k
      <4>1. z[2] \in 0..(graph.par[u] - 1)
        BY <1>2, <3>1, <3>2, InstanceFacts
      <4>2. <<u, z[2], k>> \in Instances(u)
        BY <1>1, <4>1, InstanceFacts
      <4> QED BY <2>7, <4>2 DEF AwaitsVia, Key
    <3> QED BY <2>5, <2>7, <3>2 DEF BehindAll, Keys
  <2>8. CASE e[3] \in {"Async", "Aggregate"} /\ graph.type[u] = "CPU"
    <3>1. graph.par[u] = graph.par[v] /\ graph.type[v] = "CPU"
      BY <2>8, DimFacts DEF Built, Layout, EdgesAlign, Comm
    <3>2. ASSUME NEW z \in Started, z[1] = v PROVE <<a, Key(z), 0>> \in done
      <4>1. z[2] \in 0..(graph.par[u] - 1)
        BY <1>2, <3>1, <3>2, InstanceFacts
      <4>2. <<u, z[2], 0>> \in Instances(u)
        BY <1>1, <2>4, <2>8, <4>1, InstanceFacts
      <4>3. <<u, z[2], 0>> \in AwaitsVia(z, e)
        BY <2>8, <4>2 DEF AwaitsVia
      <4>4. Key(z) = z[2] /\ Key(<<u, z[2], 0>>) = z[2]
        BY <2>8, <3>1, <3>2 DEF Key
      <4> QED BY <1>3, <2>2, <3>2, <4>2, <4>3, <4>4
    <3>3. Keys(v) = Keys(u)
      BY <2>8, <3>1 DEF Keys
    <3> QED BY <2>1, <3>2, <3>3 DEF BehindOne
  <2>9. CASE e[3] \in Comm
    <3>1. graph.type[u] = "CPU" /\ graph.type[v] = "NetWork" /\ Dim(v) = 0..(graph.par[u] - 1)
      BY <2>9, DimFacts
    <3>2. ASSUME NEW z \in Started, z[1] = v PROVE <<a, Key(z), 0>> \in done
      <4>1. z[3] \in 0..(graph.par[u] - 1)
        BY <1>2, <3>1, <3>2, InstanceFacts
      <4>2. <<u, z[3], 0>> \in Instances(u)
        BY <1>1, <2>4, <3>1, <4>1, InstanceFacts
      <4>3. <<u, z[3], 0>> \in AwaitsVia(z, e)
        BY <2>9, <4>2 DEF AwaitsVia, Comm
      <4>4. Key(z) = z[3] /\ Key(<<u, z[3], 0>>) = z[3]
        BY <3>1, <3>2 DEF Key
      <4> QED BY <1>3, <2>2, <3>2, <4>2, <4>3, <4>4
    <3>3. Keys(v) = Keys(u)
      BY <3>1 DEF Keys
    <3> QED BY <2>1, <3>2, <3>3 DEF BehindOne
  <2> QED BY <1>1, <2>6, <2>7, <2>8, <2>9 DEF TaskDependencyType, Comm
<1> QED BY <1>6, <1>7

\* At the end of a path of dependencies from a task on the CPU, a shard that has started waited
\* for the shard of its number.
LEMMA PathWaits ==
  ASSUME Built, Waited, NEW a \in 1..graph.nTasks, graph.type[a] = "CPU",
         NEW b \in TaskId, Reaches(graph, a, b),
         NEW x \in Instances(a), NEW y \in Started, y[1] = b, x[2] = Key(y)
  PROVE  x \in done \/ x = y
<1> DEFINE S == {u \in TaskId : BehindAll(a, u) \/ BehindOne(a, u)}
<1>1. a \in TaskId /\ Dim(a) = {0}
  BY TaskFacts, DimFacts
<1>2. BehindOne(a, a)
  <2>1. \A z \in Started : z[1] = a => z = <<a, z[2], 0>> /\ Key(z) = z[2]
    BY <1>1, InstanceFacts DEF Waited, Started, Key
  <2>2. Keys(a) = 0..(graph.par[a] - 1)
    BY DEF Keys
  <2> QED BY <2>1, <2>2 DEF BehindOne
<1>3. Closed(graph, S)
  <2> SUFFICES ASSUME NEW e \in graph.edges, e[1] \in S PROVE e[2] \in S
    BY DEF Closed
  <2>1. e[2] \in TaskId
    BY TaskFacts
  <2> QED BY <2>1, WaitStep
<1>4. b \in S
  <2>1. a \in S /\ S \in SUBSET TaskId
    BY <1>1, <1>2
  <2> HIDE DEF S
  <2> QED BY <1>3, <2>1 DEF Reaches
<1>5. x = <<a, x[2], 0>>
  BY <1>1, InstanceFacts
<1> QED BY <1>4, <1>5 DEF BehindAll, BehindOne

-----------------------------------------------------------------------------
(* Two shards that use an object one of them changes. *)

\* x comes first in the program, and is done before y starts.
Before(x, y) == x[1] < y[1] /\ (y \in Started => x \in done)

\* A path leads to a later task, or stays.
LEMMA PathForward ==
  ASSUME Built, NEW a \in 1..graph.nTasks, NEW b \in TaskId, Reaches(graph, a, b)
  PROVE  a <= b
<1> DEFINE S == {t \in TaskId : a <= t}
<1>1. a \in TaskId /\ a \in Nat /\ TaskId \subseteq Nat
  BY TaskFacts DEF TaskId
<1>2. Closed(graph, S)
  <2> SUFFICES ASSUME NEW e \in graph.edges, e[1] \in S PROVE e[2] \in S
    BY DEF Closed
  <2>1. e[2] \in TaskId /\ e[1] \in TaskId /\ e[1] < e[2]
    BY TaskFacts
  <2>2. e[1] \in Nat /\ e[2] \in Nat /\ a <= e[1]
    BY <1>1, <2>1
  <2>3. a <= e[2]
    BY <1>1, <2>1, <2>2
  <2> QED BY <2>1, <2>3
<1>3. a \in S /\ S \in SUBSET TaskId
  BY <1>1
<1> HIDE DEF S
<1>4. b \in S
  BY <1>2, <1>3 DEF Reaches
<1> QED BY <1>4 DEF S

\* What an instance touches, by the type of its task.
LEMMA AccessFacts ==
  ASSUME Built, NEW x \in AllInstances, NEW c
  PROVE  /\ c \in Outputs(x) => /\ c = <<c[1], x[2], x[3]>> /\ c[1] \in DataId
                               /\ Mutates(graph, x[1], c[1])
         /\ c \in Inputs(x) => c[1] \in graph.reads[x[1]] /\ c[1] \in DataId
         /\ c \in Inputs(x) /\ graph.type[x[1]] = "NetWork" => c = <<c[1], x[3], 0>>
         /\ c \in Inputs(x) /\ graph.type[x[1]] # "NetWork" =>
              /\ c = <<c[1], x[2], c[3]>>
              /\ \E t \in TaskId : c[1] \in graph.produces[t] /\ c[3] \in Dim(t)
<1>1. x[1] \in TaskId
  BY InstanceFacts, TaskFacts
<1>2. /\ graph.produces[x[1]] \subseteq DataId /\ graph.reads[x[1]] \subseteq DataId
      /\ graph.writes[x[1]] \subseteq DataId
  BY <1>1 DEF Built, TypeOK, Graph
<1>3. ASSUME c \in Outputs(x)
      PROVE  c = <<c[1], x[2], x[3]>> /\ c[1] \in DataId /\ Mutates(graph, x[1], c[1])
  BY <1>2, <1>3 DEF Outputs, Of, Mutates
<1>4. ASSUME c \in Inputs(x), graph.type[x[1]] = "NetWork"
      PROVE  c = <<c[1], x[3], 0>> /\ c[1] \in graph.reads[x[1]]
  BY <1>4 DEF Inputs
<1>5. ASSUME c \in Inputs(x), graph.type[x[1]] # "NetWork"
      PROVE  /\ c = <<c[1], x[2], c[3]>> /\ c[1] \in graph.reads[x[1]]
             /\ \E t \in TaskId : c[1] \in graph.produces[t] /\ c[3] \in Dim(t)
  <2>1. PICK d \in graph.reads[x[1]] : c \in Partition(d, x[2])
    BY <1>5 DEF Inputs
  <2>2. PICK i \in UNION {Dim(t) : t \in {t \in TaskId : d \in graph.produces[t]}} :
               c = <<d, x[2], i>>
    BY <2>1 DEF Partition
  <2> QED BY <2>1, <2>2
<1> QED BY <1>2, <1>3, <1>4, <1>5

\* Two shards of which one changes an object that the other changes or reads never run at the
\* same time: the one of the earlier task is done before the other starts.
LEMMA Conflicting ==
  ASSUME Built, Waited, NEW x \in AllInstances, NEW y \in AllInstances, x # y,
         NEW c, c \in Outputs(x), c \in Inputs(y) \cup Outputs(y)
  PROVE  Before(x, y) \/ Before(y, x)
<1> DEFINE a == x[1]
           b == y[1]
           d == c[1]
<1>1. /\ x = <<a, x[2], x[3]>> /\ a \in 1..graph.nTasks /\ a \in TaskId /\ x \in Instances(a)
      /\ x[2] \in 0..(graph.par[a] - 1) /\ x[3] \in Dim(a) /\ graph.type[a] \in {"CPU", "NetWork"}
  BY InstanceFacts, TaskFacts
<1>2. /\ y = <<b, y[2], y[3]>> /\ b \in 1..graph.nTasks /\ b \in TaskId /\ y \in Instances(b)
      /\ y[2] \in 0..(graph.par[b] - 1) /\ y[3] \in Dim(b) /\ graph.type[b] \in {"CPU", "NetWork"}
  BY InstanceFacts, TaskFacts
<1>3. c = <<d, x[2], x[3]>> /\ d \in DataId /\ Mutates(graph, a, d)
  BY AccessFacts
<1>4. NetworkData(graph) /\ Hidden(graph)
  BY DEF Built, Layout
<1>5. ASSUME NEW e \in graph.edges, e[1] = a, e[2] = b, x \in AwaitsVia(y, e)
      PROVE  Before(x, y)
  <2>1. a < b
    BY <1>5, TaskFacts
  <2>2. y \in Started => x \in done
    BY <1>5 DEF Waited, Awaits
  <2> QED BY <2>1, <2>2 DEF Before
<1>6. CASE graph.type[a] = "NetWork"
  <2>1. d \in graph.produces[a]
    BY <1>1, <1>3, <1>4, <1>6 DEF NetworkData, Mutates
  <2>2. graph.writePrec[d] = a /\ d \notin graph.handles
    BY <1>1, <1>3, <1>4, <1>6, <2>1 DEF NetworkData, NetFree, Hidden
  <2>3. CASE c \in Outputs(y)
    <3>1. c = <<d, y[2], y[3]>> /\ Mutates(graph, b, d)
      BY <2>3, AccessFacts
    <3>2. a = b
      BY <1>2, <1>3, <1>4, <2>2, <3>1 DEF Hidden
    <3> QED BY <1>1, <1>2, <1>3, <3>1, <3>2
  <2>4. CASE c \in Inputs(y)
    <3>1. d \in graph.reads[b]
      BY <2>4, AccessFacts
    <3>2. <<a, b, "Aggregate">> \in graph.edges
      BY <1>1, <1>2, <1>4, <1>6, <2>1, <3>1 DEF NetworkData
    <3>3. graph.type[b] = "CPU"
      BY <3>2, DimFacts DEF Comm
    <3>4. x[2] = y[2]
      BY <1>3, <2>4, <3>3, AccessFacts
    <3>5. x \in AwaitsVia(y, <<a, b, "Aggregate">>)
      BY <1>1, <3>4 DEF AwaitsVia
    <3> QED BY <1>5, <3>2, <3>5
  <2> QED BY <2>3, <2>4
<1>7. CASE graph.type[a] = "CPU" /\ graph.type[b] = "NetWork"
  <2>1. CASE c \in Outputs(y)
    <3>1. d \in graph.produces[b]
      BY <1>2, <1>4, <1>7, <2>1, AccessFacts DEF NetworkData, Mutates
    <3>2. graph.writePrec[d] = b /\ d \notin graph.handles
      BY <1>2, <1>3, <1>4, <1>7, <3>1 DEF NetworkData, NetFree, Hidden, Mutates
    <3>3. a = b
      BY <1>1, <1>3, <1>4, <3>2 DEF Hidden
    <3> QED BY <1>7, <3>3
  <2>2. CASE c \in Inputs(y)
    <3>1. d \in graph.reads[b] /\ c = <<d, y[3], 0>>
      BY <1>7, <2>2, AccessFacts
    <3>2. PICK e \in graph.edges : e[1] = a /\ e[2] = b
      BY <1>1, <1>2, <1>3, <1>4, <1>7, <3>1 DEF NetworkData
    <3>3. e[3] \in Comm
      BY <1>7, <3>2, DimFacts
    <3>4. x[2] = y[3]
      BY <1>3, <3>1
    <3>5. x \in AwaitsVia(y, e)
      BY <1>1, <3>2, <3>3, <3>4 DEF AwaitsVia, Comm
    <3> QED BY <1>5, <3>2, <3>5
  <2> QED BY <2>1, <2>2
<1>8. CASE graph.type[a] = "CPU" /\ graph.type[b] = "CPU"
  <2>1. x[3] = 0 /\ y[3] = 0
    BY <1>1, <1>2, <1>8, DimFacts
  <2>2. x[2] = y[2]
    BY <1>3, <1>8, AccessFacts
  <2>3. a # b
    BY <1>1, <1>2, <2>1, <2>2
  <2>4. Mutates(graph, b, d) \/ d \in graph.reads[b]
    BY AccessFacts
  <2>5. Key(x) = x[2] /\ Key(y) = y[2]
    BY <1>8 DEF Key
  <2>6. ASSUME Reaches(graph, a, b), a < b PROVE Before(x, y)
    BY <1>1, <1>2, <1>8, <2>2, <2>5, <2>6, PathWaits DEF Before
  <2>7. ASSUME Reaches(graph, b, a), b < a PROVE Before(y, x)
    BY <1>1, <1>2, <1>8, <2>2, <2>5, <2>7, PathWaits DEF Before
  <2>8. a \in Nat /\ b \in Nat
    BY <1>1, <1>2
  <2>9. CASE Mutates(graph, b, d) \/ Tracked(graph, b, d)
    <3>1. Conflict(graph, d, a, b) /\ Conflict(graph, d, b, a)
      BY <1>3, <2>9 DEF Conflict
    <3>2. /\ a < b => Reaches(graph, a, b)
          /\ b < a => Reaches(graph, b, a)
      BY <1>1, <1>2, <1>3, <3>1 DEF Built, ConflictsOrdered, OrderedIn
    <3> QED BY <2>3, <2>6, <2>7, <2>8, <3>2
  <2>10. CASE <<b, d>> \in graph.untracked /\ Disciplined
    <3>1. Reaches(graph, a, b)
      BY <1>1, <1>2, <1>3, <2>10 DEF Built, UntrackedReadsOrdered
    <3>2. a <= b
      BY <1>1, <1>2, <3>1, PathForward
    <3> QED BY <2>3, <2>6, <2>8, <3>1, <3>2
  <2> QED BY <2>4, <2>9, <2>10 DEF Tracked, Built
<1> QED BY <1>1, <1>2, <1>6, <1>7, <1>8

\* A dataset at process level has one producer, no task updates it in place, and those that
\* read it come later.
LEMMA SharedFacts ==
  ASSUME Built, NEW p \in ProcessLevel
  PROVE  /\ p \in DataId /\ graph.alias[p] = NoData
         /\ \A t \in TaskId : /\ Mutates(graph, t, p) => t = graph.writePrec[p]
                              /\ p \notin graph.writes[t]
                              /\ p \in graph.reads[t] => graph.writePrec[p] < t
<1>1. PICK d \in DataId : graph.alias[d] = p /\ p # NoData
  BY DEF ProcessLevel
<1>2. /\ p \in DataId /\ p \notin graph.handles /\ graph.alias[p] = NoData
      /\ \A t \in TaskId : /\ p \notin graph.writes[t]
                           /\ p \in graph.reads[t] => graph.writePrec[p] < t
  BY <1>1 DEF Built, Levels
<1> QED BY <1>2 DEF Built, Layout, Hidden

\* So no two closures that run use an object one of them changes.
NoClash == \A l \in writing, m \in reading \cup writing : l[2] = m[2] => l = m

\* What is at process level was made before, by the only task that ever does.
LEMMA RunningApart == Built /\ Waited /\ Held => NoClash
<1> SUFFICES ASSUME Built, Waited, Held, NEW l \in writing, NEW m \in reading \cup writing,
                    l[2] = m[2], l[1] # m[1]
             PROVE  FALSE
  BY DEF NoClash, Held
<1> DEFINE x == l[1]
           y == m[1]
           o == l[2]
<1>1. o \in Outputs(x) /\ x \in running /\ y \in running
  BY DEF Held
<1>2. /\ x \in AllInstances /\ y \in AllInstances /\ x \notin done /\ y \notin done
      /\ x \in Started /\ y \in Started
  BY <1>1 DEF Waited, Started
<1>3. ASSUME o \in Inputs(y) \cup Outputs(y) PROVE FALSE
  BY <1>1, <1>2, <1>3, Conflicting DEF Before
<1>4. m \in reading /\ o[1] \in ProcessLevel
  BY <1>3 DEF Held
<1>5. PICK z \in done : o \in Outputs(z)
  BY <1>4 DEF Held, MadeAlready
<1>6. z \in AllInstances /\ z # x /\ z \in Started
  BY <1>2 DEF Waited, Started
<1>7. z[1] = x[1] /\ z[1] \in Nat
  <2>1. z[1] \in TaskId /\ x[1] \in TaskId /\ z[1] \in Nat
    BY <1>2, <1>6, InstanceFacts, TaskFacts
  <2>2. Mutates(graph, z[1], o[1]) /\ Mutates(graph, x[1], o[1])
    BY <1>1, <1>2, <1>5, <1>6, AccessFacts
  <2> QED BY <1>4, <2>1, <2>2, SharedFacts
<1>8. Before(x, z) \/ Before(z, x)
  BY <1>1, <1>2, <1>5, <1>6, Conflicting
<1> QED BY <1>7, <1>8 DEF Before

-----------------------------------------------------------------------------
(* What a closure finds. *)

\* Every other task that mutates the dataset of an object has an instance that makes or changes it.
LEMMA WriterOfObject ==
  ASSUME Built, NEW x \in AllInstances, NEW c,
         c \in Inputs(x) \/ (c \in Outputs(x) /\ c[1] \in graph.writes[x[1]]),
         NEW w \in 1..graph.nTasks, w # x[1], Mutates(graph, w, c[1])
  PROVE  \E z \in Instances(w) : c \in Outputs(z)
<1> DEFINE b == x[1]
           d == c[1]
<1>1. /\ x = <<b, x[2], x[3]>> /\ b \in 1..graph.nTasks /\ b \in TaskId
      /\ x[2] \in 0..(graph.par[b] - 1) /\ x[3] \in Dim(b) /\ graph.type[b] \in {"CPU", "NetWork"}
  BY InstanceFacts, TaskFacts
<1>2. w \in TaskId /\ graph.type[w] \in {"CPU", "NetWork"} /\ d \in DataId
  BY TaskFacts, AccessFacts
<1>3. NetworkData(graph) /\ Hidden(graph) /\ AccessesAlign(graph)
  BY DEF Built, Layout
<1>4. ASSUME NEW s \in 0..(graph.par[w] - 1), NEW i \in Dim(w), c = <<d, s, i>>
      PROVE  \E z \in Instances(w) : c \in Outputs(z)
  <2>1. <<w, s, i>> \in Instances(w)
    BY InstanceFacts
  <2>2. c \in Outputs(<<w, s, i>>)
    BY <1>4 DEF Outputs, Of, Mutates
  <2> QED BY <2>1, <2>2
<1>5. CASE graph.type[b] = "NetWork"
  <2>1. graph.writes[b] = {}
    BY <1>1, <1>3, <1>5 DEF NetworkData
  <2>2. c = <<d, x[3], 0>> /\ d \in graph.reads[b]
    BY <1>5, <2>1, AccessFacts
  <2>3. PICK e \in graph.edges : e[1] = w /\ e[2] = b
    BY <1>1, <1>2, <1>3, <1>5, <2>2 DEF NetworkData
  <2>4. e[3] \in Comm
    BY <1>5, <2>3, DimFacts
  <2>5. Dim(b) = 0..(graph.par[w] - 1) /\ Dim(w) = {0}
    BY <1>2, <2>3, <2>4, DimFacts
  <2> QED BY <1>1, <1>4, <2>2, <2>5
<1>6. CASE graph.type[b] = "CPU" /\ graph.type[w] = "CPU"
  <2>1. Dim(w) = {0} /\ Dim(b) = {0}
    BY <1>1, <1>2, <1>6, DimFacts
  <2>2. c = <<d, x[2], c[3]>> /\ d \in Touched(graph, b)
    BY <1>6, AccessFacts DEF Touched
  <2>3. graph.par[b] = graph.par[w]
    <3>1. d \in Touched(graph, w)
      BY DEF Mutates, Touched
    <3> QED BY <1>1, <1>3, <1>6, <2>2, <3>1 DEF AccessesAlign
  <2>4. c[3] = 0
    <3>1. CASE c \in Outputs(x)
      BY <1>1, <2>1, <3>1, AccessFacts
    <3>2. CASE c \in Inputs(x)
      <4>1. PICK t \in TaskId : d \in graph.produces[t] /\ c[3] \in Dim(t)
        BY <1>6, <3>2, AccessFacts
      <4>2. CASE graph.type[t] = "NetWork"
        <5>1. d \notin graph.handles
          BY <1>3, <4>1, <4>2 DEF NetworkData, NetFree
        <5>2. graph.writePrec[d] = t /\ graph.writePrec[d] = w
          BY <1>2, <1>3, <4>1, <5>1 DEF Hidden, Mutates
        <5> QED BY <1>6, <4>2, <5>2
      <4>3. CASE graph.type[t] # "NetWork"
        <5>1. graph.type[t] = "CPU"
          BY <4>3 DEF Built, TypeOK, Graph, ResourceType
        <5> QED BY <4>1, <5>1, DimFacts
      <4> QED BY <4>2, <4>3
    <3> QED BY <3>1, <3>2
  <2> QED BY <1>1, <1>4, <2>1, <2>2, <2>3, <2>4
<1>7. CASE graph.type[b] = "CPU" /\ graph.type[w] = "NetWork"
  <2>1. d \in graph.produces[w]
    BY <1>2, <1>3, <1>7 DEF NetworkData, Mutates
  <2>2. d \notin graph.handles /\ graph.writePrec[d] = w
    BY <1>2, <1>3, <1>7, <2>1 DEF NetworkData, NetFree, Hidden, Mutates
  <2>3. c \in Inputs(x)
    <3>1. d \notin graph.writes[b]
      BY <1>1, <1>2, <1>3, <2>2 DEF Hidden, Mutates
    <3> QED BY <3>1
  <2>4. PICK t \in TaskId : d \in graph.produces[t] /\ c[3] \in Dim(t)
    BY <1>7, <2>3, AccessFacts
  <2>5. t = w
    BY <1>2, <1>3, <2>2, <2>4 DEF Hidden, Mutates
  <2>6. c = <<d, x[2], c[3]>> /\ d \in graph.reads[b]
    BY <1>7, <2>3, AccessFacts
  <2>7. <<w, b, "Aggregate">> \in graph.edges
    BY <1>1, <1>2, <1>3, <1>7, <2>1, <2>6 DEF NetworkData
  <2>8. graph.par[w] = graph.par[b]
    BY <2>7 DEF Built, Layout, EdgesAlign
  <2> QED BY <1>1, <1>4, <2>4, <2>5, <2>6, <2>8
<1> QED BY <1>1, <1>2, <1>5, <1>6, <1>7

\* Whoever put something in the cell of an object that a closure takes came before it.
LEMMA EarlierWriter ==
  ASSUME Built, Waited, NEW x \in AllInstances, x \notin done,
         NEW o \in Object, o \in Inputs(x) \cup Of(x, graph.writes[x[1]]),
         NEW z \in done, NEW q \in Outputs(z), CellOf(q) = CellOf(o)
  PROVE  z[1] < x[1] /\ z[1] \in 1..graph.nTasks /\ Mutates(graph, z[1], o[1])
<1>1. /\ z \in AllInstances /\ z # x /\ z \in Started
      /\ z[1] \in 1..graph.nTasks /\ z[1] \in TaskId /\ x[1] \in TaskId
  BY InstanceFacts, TaskFacts DEF Waited, Started
<1>2. q[1] = o[1] /\ (o[1] \notin ProcessLevel => o = q)
  BY <1>1, InstanceTypes, CellsApart
<1>3. Mutates(graph, z[1], o[1])
  BY <1>1, <1>2, AccessFacts
<1>4. CASE o[1] \notin ProcessLevel
  <2>1. o \in Inputs(x) \cup Outputs(x)
    BY DEF Of, Outputs
  <2>2. Before(z, x)
    BY <1>1, <1>2, <1>4, <2>1, Conflicting DEF Before
  <2> QED BY <1>1, <1>3, <2>2 DEF Before
<1>5. CASE o[1] \in ProcessLevel
  <2>1. z[1] = graph.writePrec[o[1]]
    BY <1>1, <1>3, <1>5, SharedFacts
  <2>2. o \in Inputs(x)
    BY <1>1, <1>5, SharedFacts DEF Of
  <2>3. o[1] \in graph.reads[x[1]]
    BY <2>2, AccessFacts
  <2> QED BY <1>1, <1>3, <1>5, <2>1, <2>3, SharedFacts
<1> QED BY <1>4, <1>5

\* The last writer of what a closure takes is the one a sequential run would have had.
LEMMA ProgramOrder == Built /\ Waited /\ LastWriter => InputsInProgramOrder
<1> SUFFICES ASSUME Built, Waited, LastWriter, NEW x \in running,
                    NEW o \in Inputs(x) \cup Of(x, graph.writes[x[1]])
             PROVE  last[CellOf(o)] = LatestBefore(x[1], o[1])
  BY DEF InputsInProgramOrder
<1> DEFINE W == {w \in 1..(x[1] - 1) : Mutates(graph, w, o[1])}
           c == CellOf(o)
<1>1. /\ x \in AllInstances /\ x \notin done /\ x \in Started
      /\ x[1] \in 1..graph.nTasks /\ x[1] \in Nat /\ graph.nTasks \in Nat
  BY InstanceFacts, TaskFacts DEF Waited, Started
<1>2. Of(x, graph.writes[x[1]]) \subseteq {v \in Outputs(x) : v[1] \in graph.writes[x[1]]}
  BY DEF Outputs, Of
<1>3. o \in Inputs(x) \cup Outputs(x) /\ o \in Object /\ c \in Cell
  BY <1>1, <1>2, InstanceTypes, CellsApart
<1>4. ASSUME NEW z \in done, NEW q \in Outputs(z), CellOf(q) = c PROVE z[1] \in W
  <2>1. z[1] < x[1] /\ z[1] \in 1..graph.nTasks /\ Mutates(graph, z[1], o[1])
    BY <1>1, <1>3, <1>4, EarlierWriter
  <2> QED BY <1>1, <2>1
<1>5. ASSUME NEW w \in W PROVE \E z \in done : o \in Outputs(z) /\ z[1] = w
  <2>1. w \in 1..graph.nTasks /\ w < x[1] /\ w # x[1] /\ ~(x[1] < w)
    BY <1>1, <1>5
  <2>2. PICK z \in Instances(w) : o \in Outputs(z)
    BY <1>1, <1>2, <1>5, <2>1, WriterOfObject
  <2>3. z \in AllInstances /\ z[1] = w
    BY <2>1, InstanceFacts
  <2>4. Before(z, x)
    BY <1>1, <1>3, <2>1, <2>2, <2>3, Conflicting DEF Before
  <2> QED BY <1>1, <2>2, <2>3, <2>4 DEF Before
<1>6. W \subseteq Nat /\ NoTask \notin W
  BY <1>1 DEF NoTask
<1>7. LatestBefore(x[1], o[1]) = IF W = {} THEN NoTask ELSE CHOOSE w \in W : \A v \in W : v <= w
  BY DEF LatestBefore
<1> HIDE DEF W, c
<1>8. last[c] # NoTask => last[c] \in W
  BY <1>3, <1>4 DEF LastWriter
<1>9. \A w \in W : w <= last[c]
  BY <1>5 DEF LastWriter, c
<1>10. last[c] = LatestBefore(x[1], o[1])
  <2>1. CASE W = {}
    BY <1>7, <1>8, <2>1
  <2>2. CASE W # {}
    <3>1. last[c] \in W
      <4>1. PICK w \in W : w <= last[c]
        BY <1>9, <2>2
      <4>2. w # NoTask /\ w \in Nat /\ NoTask = 0
        BY <1>6 DEF NoTask
      <4> QED BY <1>8, <4>1, <4>2
    <3>2. \A w \in W : (\A v \in W : v <= w) => w = last[c]
      <4> SUFFICES ASSUME NEW w \in W, \A v \in W : v <= w PROVE w = last[c]
        OBVIOUS
      <4>1. w \in Nat /\ last[c] \in Nat /\ w <= last[c] /\ last[c] <= w
        BY <1>6, <1>9, <3>1
      <4> QED BY <4>1
    <3> QED BY <1>7, <1>9, <2>2, <3>1, <3>2
  <2> QED BY <2>1, <2>2
<1> QED BY <1>10 DEF c

-----------------------------------------------------------------------------
(* The steps. *)

\* Once the graph is fixed, so is everything that is read off it.
LEMMA GraphFixed ==
  ASSUME UNCHANGED graph
  PROVE  /\ AllInstances' = AllInstances
         /\ \A x : Awaits(x)' = Awaits(x)
         /\ \A x : Outputs(x)' = Outputs(x)
         /\ \A x : Inputs(x)' = Inputs(x)
         /\ ProcessLevel' = ProcessLevel
         /\ \A o : CellOf(o)' = CellOf(o)
<1>1. \A t : Senders(t)' = Senders(t)
  BY DEF Senders
<1>2. \A t : Dim(t)' = Dim(t)
  BY <1>1 DEF Dim
<1>3. \A t : Instances(t)' = Instances(t)
  BY <1>2 DEF Instances
<1>4. AllInstances' = AllInstances
  BY <1>3 DEF AllInstances
<1>5. \A x, e : AwaitsVia(x, e)' = AwaitsVia(x, e)
  BY <1>3 DEF AwaitsVia
<1>6. \A x : Awaits(x)' = Awaits(x)
  BY <1>5 DEF Awaits
<1>7. \A d, s : Partition(d, s)' = Partition(d, s)
  BY <1>2 DEF Partition
<1>8. \A x : Inputs(x)' = Inputs(x)
  BY <1>7 DEF Inputs
<1>9. \A x : Outputs(x)' = Outputs(x)
  BY DEF Outputs, Of
<1>10. ProcessLevel' = ProcessLevel
  BY DEF ProcessLevel
<1>11. \A o : Slot(o)' = Slot(o)
  BY <1>10 DEF Slot
<1>12. \A o : CellOf(o)' = CellOf(o)
  BY <1>11 DEF CellOf
<1> QED BY <1>4, <1>6, <1>8, <1>9, <1>10, <1>12

LEMMA WaitedInit == JInit => Waited
BY DEF JInit, Waited, Started

\* Whatever starts waited, whatever the graph.
LEMMA WaitedNext == Waited /\ [JNext]_vars => Waited'
<1> SUFFICES ASSUME Waited, [JNext]_vars PROVE Waited'
  OBVIOUS
<1>1. CASE Build
  BY <1>1 DEF Build, Waited, Started
<1>2. CASE Submit
  BY <1>2, GraphFixed DEF Submit, Waited, Started
<1>3. ASSUME NEW x \in AllInstances, Start(x) PROVE Waited'
  BY <1>3, GraphFixed DEF Start, Ready, Waited, Started
<1>4. ASSUME NEW x \in running, Finish(x) PROVE Waited'
  BY <1>4, GraphFixed DEF Finish, Waited, Started
<1>5. CASE UNCHANGED vars
  BY <1>5, GraphFixed DEF vars, Waited, Started
<1> QED BY <1>1, <1>2, <1>3, <1>4, <1>5 DEF JNext, Terminated

LEMMA LastWriterInit == JInit => LastWriter
BY DEF JInit, LastWriter, NoTask

\* A closure that returns overwrites what earlier tasks wrote, never what later ones did.
LEMMA LastWriterNext == Built /\ Waited /\ LastWriter /\ [JNext]_vars => LastWriter'
<1> SUFFICES ASSUME Built, Waited, LastWriter, [JNext]_vars PROVE LastWriter'
  OBVIOUS
<1>1. CASE Build
  <2>1. done = {} /\ done' = {} /\ last' = last
    BY <1>1 DEF Build, Waited, Started
  <2> QED BY <2>1 DEF LastWriter
<1>2. CASE UNCHANGED <<graph, done, last>>
  BY <1>2, GraphFixed DEF LastWriter
<1>3. ASSUME NEW x \in running, Finish(x) PROVE LastWriter'
  <2>1. /\ \A z : Outputs(z)' = Outputs(z)
        /\ \A o : CellOf(o)' = CellOf(o)
        /\ done' = done \cup {x}
        /\ last' = [c \in Cell |-> IF c \in {CellOf(o) : o \in Outputs(x)} THEN x[1] ELSE last[c]]
    BY <1>3, GraphFixed DEF Finish
  <2>2. x \in AllInstances /\ x[1] \in TaskId /\ x[1] \in Nat /\ x \notin done /\ x \in Started
    BY InstanceFacts, TaskFacts DEF Waited, Started
  <2>3. last' \in [Cell -> TaskId \cup {NoTask}]
    BY <2>1, <2>2 DEF LastWriter
  <2>4. ASSUME NEW c \in Cell, last'[c] # NoTask
        PROVE  \E z \in done' : last'[c] = z[1] /\ \E o \in Outputs(z) : CellOf(o) = c
    BY <2>1, <2>4 DEF LastWriter
  <2>5. ASSUME NEW z \in done', NEW o \in Outputs(z) PROVE z[1] <= last'[CellOf(o)]
    <3> DEFINE c == CellOf(o)
    <3>1. z \in AllInstances
      BY <2>1, <2>2 DEF Waited
    <3>2. o \in Object /\ c \in Cell /\ z[1] \in Nat /\ z[1] \in TaskId
      BY <3>1, InstanceTypes, InstanceFacts, TaskFacts, CellsApart
    <3> HIDE DEF c
    <3>3. CASE c \notin {CellOf(q) : q \in Outputs(x)}
      <4>1. z \in done
        BY <2>1, <2>5, <3>3 DEF c
      <4>2. last'[c] = last[c]
        BY <2>1, <3>2, <3>3
      <4> QED BY <4>1, <4>2 DEF LastWriter, c
    <3>4. ASSUME NEW q \in Outputs(x), CellOf(q) = c PROVE z[1] <= x[1]
      <4>1. q \in Object
        BY <2>2, InstanceTypes
      <4>2. q[1] = o[1] /\ (o[1] \notin ProcessLevel => o = q)
        BY <3>2, <3>4, <4>1, CellsApart DEF c
      <4>3. CASE z = x
        BY <2>2, <4>3
      <4>4. CASE z # x /\ o = q
        <5>1. z \in done /\ z \in Started
          BY <2>1, <4>4 DEF Started
        <5>2. Before(z, x)
          BY <2>2, <2>5, <3>1, <4>4, <5>1, Conflicting DEF Before
        <5> QED BY <2>2, <3>2, <5>2 DEF Before
      <4>5. CASE o[1] \in ProcessLevel
        <5>1. Mutates(graph, z[1], o[1]) /\ Mutates(graph, x[1], o[1])
          BY <2>2, <2>5, <3>1, <4>2, AccessFacts
        <5>2. z[1] = x[1]
          BY <2>2, <3>2, <4>5, <5>1, SharedFacts
        <5> QED BY <2>2, <5>2
      <4> QED BY <4>2, <4>3, <4>4, <4>5
    <3>5. CASE c \in {CellOf(q) : q \in Outputs(x)}
      <4>1. last'[c] = x[1]
        BY <2>1, <3>2, <3>5
      <4> QED BY <3>4, <3>5, <4>1 DEF c
    <3> QED BY <3>3, <3>5 DEF c
  <2> QED BY <2>1, <2>3, <2>4, <2>5 DEF LastWriter
<1>4. CASE Submit
  BY <1>2, <1>4 DEF Submit
<1>5. ASSUME NEW x \in AllInstances, Start(x) PROVE LastWriter'
  BY <1>2, <1>5 DEF Start
<1>6. CASE UNCHANGED vars
  BY <1>2, <1>6 DEF vars
<1> QED BY <1>1, <1>3, <1>4, <1>5, <1>6 DEF JNext, Terminated

LEMMA StoredHeldInit == JInit => Stored /\ Held
BY DEF JInit, Stored, Held

\* What a closure takes out of the store is there for it to take.
LEMMA TakenFacts ==
  ASSUME Built, Stored, NEW x \in AllInstances
  PROVE  /\ \A o \in Found(x) :
              /\ o \in Object /\ MadeAlready(o)
              /\ o[1] \notin ProcessLevel => o \in Inputs(x)
         /\ \A o \in Made(x) \cup Updated(x) : o \in Outputs(x) /\ graph.alias[o[1]] = NoData
<1>1. x[1] \in TaskId /\ Inputs(x) \subseteq Object /\ Outputs(x) \subseteq Object
  BY InstanceFacts, InstanceTypes, TaskFacts
<1>2. ASSUME NEW o \in Found(x)
      PROVE  /\ o \in Object /\ MadeAlready(o)
             /\ o[1] \notin ProcessLevel => o \in Inputs(x)
  <2>1. PICK q \in Inputs(x) : o = store[CellOf(q)] /\ o # NoObject
    BY <1>2 DEF Found
  <2>2. q \in Object /\ CellOf(q) \in Cell /\ CellOf(q)[2] = q[1]
    BY <1>1, <2>1, CellsApart
  <2>3. o \in Object /\ MadeAlready(o)
    BY <2>1, <2>2 DEF Stored
  <2>4. ASSUME o[1] \notin ProcessLevel PROVE o \in Inputs(x)
    <3>1. q[1] \in DataId
      BY <2>2 DEF Object
    <3>2. CASE graph.alias[q[1]] = NoData
      <4>1. CellOf(o) = CellOf(q)
        BY <2>1, <2>2, <3>2 DEF Stored
      <4>2. o = q
        BY <2>2, <2>3, <2>4, <4>1, CellsApart
      <4> QED BY <4>2
    <3>3. CASE graph.alias[q[1]] # NoData
      <4>1. o[1] = graph.alias[q[1]]
        BY <2>1, <2>2, <3>3 DEF Stored
      <4> QED BY <2>4, <3>1, <3>3, <4>1 DEF ProcessLevel
    <3> QED BY <3>2, <3>3
  <2> QED BY <2>3, <2>4
<1>3. ASSUME NEW o \in Made(x) PROVE o \in Outputs(x) /\ graph.alias[o[1]] = NoData
  BY <1>3 DEF Made, Of, Outputs
<1>4. ASSUME NEW o \in Updated(x) PROVE o \in Outputs(x) /\ graph.alias[o[1]] = NoData
  <2>1. PICK q \in Of(x, graph.writes[x[1]]) : o = store[CellOf(q)] /\ o # NoObject
    BY <1>4 DEF Updated
  <2>2. q \in Outputs(x) /\ q[1] \in graph.writes[x[1]]
    BY <2>1 DEF Of, Outputs
  <2>3. q \in Object /\ CellOf(q) \in Cell /\ CellOf(q)[2] = q[1] /\ q[1] \in DataId
    BY <1>1, <2>2, CellsApart DEF Object
  <2>4. graph.alias[q[1]] = NoData
    BY <1>1, <2>2, <2>3 DEF Built, Levels
  <2>5. q[1] \notin ProcessLevel
    BY <1>1, <2>2, SharedFacts
  <2>6. CellOf(o) = CellOf(q) /\ o \in Object
    BY <2>1, <2>3, <2>4 DEF Stored
  <2>7. o = q
    BY <2>3, <2>5, <2>6, CellsApart
  <2> QED BY <2>2, <2>4, <2>7
<1> QED BY <1>2, <1>3, <1>4

\* What a closure puts into the store when it returns belongs there.
LEMMA PutFacts ==
  ASSUME Built, Waited, Held, NEW x \in running, NEW p \in Puts(x)
  PROVE  /\ p[1] \in Cell /\ p[2] \in Object
         /\ graph.alias[p[1][2]] = NoData => CellOf(p[2]) = p[1]
         /\ graph.alias[p[1][2]] # NoData => p[2][1] = graph.alias[p[1][2]]
         /\ p[2] \in Outputs(x) \/ MadeAlready(p[2])
<1>1. x \in AllInstances /\ x[1] \in TaskId /\ Outputs(x) \subseteq Object
  BY InstanceFacts, InstanceTypes, TaskFacts DEF Waited
<1>2. CASE p \in {<<CellOf(o), o>> : o \in Made(x)}
  <2>1. PICK o \in Made(x) : p = <<CellOf(o), o>>
    BY <1>2
  <2>2. o \in Outputs(x) /\ graph.alias[o[1]] = NoData
    BY <2>1 DEF Made, Of, Outputs
  <2>3. o \in Object /\ CellOf(o) \in Cell /\ CellOf(o)[2] = o[1]
    BY <1>1, <2>2, CellsApart
  <2> QED BY <2>1, <2>2, <2>3
<1>3. ASSUME NEW d \in graph.produces[x[1]], graph.alias[d] # NoData,
             p \in {CellOf(<<d, x[2], x[3]>>)} \X Passed(x, d)
      PROVE  /\ p[1] \in Cell /\ p[2] \in Object
             /\ graph.alias[p[1][2]] # NoData /\ p[2][1] = graph.alias[p[1][2]]
             /\ MadeAlready(p[2])
  <2> DEFINE o == <<d, x[2], x[3]>>
  <2>1. o \in Outputs(x)
    BY DEF Outputs, Of
  <2>2. CellOf(o) \in Cell /\ CellOf(o)[2] = d
    BY <1>1, <2>1, CellsApart
  <2>3. PICK l \in reading : l[1] = x /\ l[2][1] = graph.alias[d] /\ p = <<CellOf(o), l[2]>>
    BY <1>3 DEF Passed
  <2>4. l[2] \in Object /\ MadeAlready(l[2])
    BY <2>3 DEF Held
  <2> HIDE DEF o
  <2> QED BY <1>3, <2>2, <2>3, <2>4
<1> QED BY <1>2, <1>3 DEF Puts

\* The store and what is held of it stay in step.
LEMMA StoredHeldNext == Built /\ Waited /\ Stored /\ Held /\ [JNext]_vars => Stored' /\ Held'
<1> SUFFICES ASSUME Built, Waited, Stored, Held, [JNext]_vars PROVE Stored' /\ Held'
  OBVIOUS
<1>1. CASE Build
  <2>1. /\ ~submitted /\ running = {} /\ submitted' = submitted /\ store' = store
        /\ reading' = reading /\ writing' = writing
    BY <1>1 DEF Build, Waited, Started
  <2>2. reading = {} /\ writing = {}
    BY <2>1 DEF Held
  <2>3. Stored'
    BY <2>1 DEF Stored
  <2>4. Held'
    BY <2>1, <2>2 DEF Held
  <2> QED BY <2>3, <2>4
<1>2. CASE /\ UNCHANGED <<graph, running, done, store, reading, writing>>
           /\ ~submitted' => ~submitted
  <2>2. Stored'
    BY <1>2, GraphFixed DEF Stored, MadeAlready
  <2>3. Held'
    BY <1>2, GraphFixed DEF Held, MadeAlready
  <2> QED BY <2>2, <2>3
<1>3. ASSUME NEW x \in AllInstances, Start(x) PROVE Stored' /\ Held'
  <2>1. /\ UNCHANGED <<graph, submitted, done, store>> /\ running' = running \cup {x}
        /\ writing' = writing \cup {x} \X (Made(x) \cup Updated(x))
        /\ reading' = reading \cup {x} \X (Found(x) \ Updated(x))
    BY <1>3 DEF Start
  <2>3. Stored'
    BY <2>1, GraphFixed DEF Stored, MadeAlready
  <2>4. ASSUME NEW l \in writing'
        PROVE  /\ l = <<l[1], l[2]>> /\ l[1] \in running'
               /\ l[2] \in Outputs(l[1]) /\ graph.alias[l[2][1]] = NoData
    <3>1. CASE l \in writing
      BY <2>1, <3>1 DEF Held
    <3>2. CASE l \in {x} \X (Made(x) \cup Updated(x))
      BY <2>1, <3>2, TakenFacts
    <3> QED BY <2>1, <2>4, <3>1, <3>2
  <2>5. ASSUME NEW l \in reading'
        PROVE  /\ l = <<l[1], l[2]>> /\ l[1] \in running' /\ l[2] \in Object
               /\ l[2][1] \notin ProcessLevel => l[2] \in Inputs(l[1])
               /\ MadeAlready(l[2])
    <3>1. CASE l \in reading
      BY <2>1, <3>1 DEF Held
    <3>2. CASE l \in {x} \X (Found(x) \ Updated(x))
      BY <2>1, <3>2, TakenFacts
    <3> QED BY <2>1, <2>5, <3>1, <3>2
  <2>6. Held'
    BY <2>1, <2>4, <2>5, GraphFixed DEF Held, MadeAlready
  <2> QED BY <2>3, <2>6
<1>4. ASSUME NEW x \in running, Finish(x) PROVE Stored' /\ Held'
  <2>1. /\ UNCHANGED <<graph, submitted>> /\ done' = done \cup {x} /\ running' = running \ {x}
        /\ store' = [c \in Cell |-> IF \E p \in Puts(x) : p[1] = c
                                      THEN (CHOOSE p \in Puts(x) : p[1] = c)[2] ELSE store[c]]
        /\ reading' = {l \in reading : l[1] # x}
        /\ writing' = {l \in writing : l[1] # x}
    BY <1>4 DEF Finish
  <2>2. submitted
    BY DEF Waited, Started
  <2>3. ASSUME NEW o, MadeAlready(o) \/ o \in Outputs(x)
        PROVE  o[1] \in ProcessLevel => \E z \in done' : o \in Outputs(z)
    BY <2>1, <2>3 DEF MadeAlready
  <2>4. ASSUME NEW c \in Cell
        PROVE  \/ store'[c] = store[c]
               \/ \E p \in Puts(x) : p[1] = c /\ store'[c] = p[2]
    BY <2>1
  <2>5. ASSUME NEW c \in Cell, NEW o, o = store'[c]
        PROVE  /\ o \in Object \cup {NoObject}
               /\ o # NoObject =>
                    /\ graph.alias[c[2]] = NoData => CellOf(o) = c
                    /\ graph.alias[c[2]] # NoData => o[1] = graph.alias[c[2]]
                    /\ o[1] \in ProcessLevel => \E z \in done' : o \in Outputs(z)
    <3>1. CASE o = store[c]
      BY <2>3, <3>1 DEF Stored
    <3>2. ASSUME NEW p \in Puts(x), p[1] = c, o = p[2]
          PROVE  /\ o \in Object
                 /\ graph.alias[c[2]] = NoData => CellOf(o) = c
                 /\ graph.alias[c[2]] # NoData => o[1] = graph.alias[c[2]]
                 /\ o[1] \in ProcessLevel => \E z \in done' : o \in Outputs(z)
      BY <2>3, <3>2, PutFacts
    <3> QED BY <2>4, <2>5, <3>1, <3>2
  <2>6. Stored'
    <3>1. store' \in [Cell -> Object \cup {NoObject}]
      BY <2>1, <2>5
    <3>2. ASSUME NEW c \in Cell, store'[c] # NoObject
          PROVE  /\ graph.alias[c[2]] = NoData => CellOf(store'[c]) = c
                 /\ graph.alias[c[2]] # NoData => store'[c][1] = graph.alias[c[2]]
                 /\ store'[c][1] \in ProcessLevel => \E z \in done' : store'[c] \in Outputs(z)
      BY <2>5, <3>2
    <3>3. submitted' /\ UNCHANGED graph
      BY <2>1, <2>2
    <3>4. /\ \A z : Outputs(z)' = Outputs(z)
          /\ ProcessLevel' = ProcessLevel /\ \A o : CellOf(o)' = CellOf(o)
      BY <3>3, GraphFixed
    <3> QED BY <3>1, <3>2, <3>3, <3>4 DEF Stored, MadeAlready
  <2>7. Held'
    <3>1. \A l \in reading : l[2][1] \in ProcessLevel => \E z \in done' : l[2] \in Outputs(z)
      BY <2>3 DEF Held
    <3>2. \A l \in writing' : l \in writing /\ l[1] # x
      BY <2>1
    <3>3. \A l \in reading' : l \in reading /\ l[1] # x
      BY <2>1
    <3> QED BY <2>1, <3>1, <3>2, <3>3, GraphFixed DEF Held, MadeAlready
  <2> QED BY <2>6, <2>7
<1>5. CASE Submit
  BY <1>2, <1>5 DEF Submit
<1>6. CASE UNCHANGED vars
  BY <1>2, <1>6 DEF vars
<1> QED BY <1>1, <1>3, <1>4, <1>5, <1>6 DEF JNext, Terminated

\* A job's steps on the graph are those of the driver, so that what was proved of the graph
\* holds throughout.
LEMMA JobBuilds == JSpec => Spec
<1>1. JInit => Init
  BY DEF JInit
<1>2. [JNext]_vars => [Next]_graph
  BY DEF JNext, Build, Submit, Start, Finish, Terminated, vars
<1> QED BY <1>1, <1>2, PTL DEF JSpec, Spec

-----------------------------------------------------------------------------
(* The theorems. *)

LEMMA JobBuilt == ASSUME Disciplined PROVE JSpec => []Built
<1>1. TypeOK /\ Layout(graph) /\ Levels(graph) /\ ConflictsOrdered /\ UntrackedReadsOrdered => Built
  BY DEF Built
<1> QED
  BY JobBuilds, GraphTypeOK, GraphLayout, GraphLevels, GraphOrdersConflicts,
     GraphOrdersUntrackedReads, <1>1, PTL

\* The inductive invariant of a job.
JobInv == Built /\ Waited /\ LastWriter /\ Stored /\ Held

LEMMA JobInvariant == ASSUME Disciplined PROVE JSpec => []JobInv
<1>1. JInit => Waited /\ LastWriter /\ Stored /\ Held
  BY WaitedInit, LastWriterInit, StoredHeldInit
<1>2. /\ Built /\ Waited /\ LastWriter /\ Stored /\ Held /\ [JNext]_vars
      => (Waited /\ LastWriter /\ Stored /\ Held)'
  BY WaitedNext, LastWriterNext, StoredHeldNext
<1>3. Built /\ Waited /\ LastWriter /\ Stored /\ Held => JobInv
  BY DEF JobInv
<1> QED BY JobBuilt, <1>1, <1>2, <1>3, PTL DEF JSpec

\* What a closure takes out of the data store (dataset.h's closures, which look partitions up
\* by the number of their shard, or by 0 at process level) is what the calls before it in the
\* driver program left there, whatever the cluster ran first: for every disciplined driver.
THEOREM JobInputsInProgramOrder == ASSUME Disciplined PROVE JSpec => []InputsInProgramOrder
<1>1. JobInv => InputsInProgramOrder
  BY ProgramOrder DEF JobInv
<1> QED BY <1>1, JobInvariant, PTL

\* No two closures that run at the same time hold an object that one of them changes: the data
\* store hands out partitions without a lock (data_store.h), all shards of one process the same
\* object after a broadcast, and needs none.
THEOREM JobNeverClashes == ASSUME Disciplined PROVE JSpec => []NoClash
<1>1. JobInv => NoClash
  BY RunningApart DEF JobInv
<1> QED BY <1>1, JobInvariant, PTL

\* A closure that starts takes the locks of its objects, one that returns releases them; nobody
\* is in the way of the one, and the other needs no one.
LEMMA LockStep ==
  ASSUME JobInv, NoClash', [JNext]_vars
  PROVE  [Locks!Next]_<<reading, writing>>
<1>1. Built /\ Waited /\ Stored /\ Held
  BY DEF JobInv
<1>2. CASE UNCHANGED <<reading, writing>>
  BY <1>2
<1>3. ASSUME NEW x \in AllInstances, Start(x) PROVE Locks!Next
  <2>1. /\ writing' = writing \cup {x} \X (Made(x) \cup Updated(x))
        /\ reading' = reading \cup {x} \X (Found(x) \ Updated(x))
        /\ x \notin running /\ x \in Instance
    BY <1>1, <1>3, InstanceTypes DEF Start, Ready
  <2>2. Made(x) \cup Updated(x) \subseteq Object /\ Found(x) \subseteq Object
    BY <1>1, TakenFacts, InstanceTypes
  <2>3. (reading \cup writing) \cap ({x} \X Object) = {}
    BY <1>1, <2>1 DEF Held
  <2>4. /\ reading' = reading \cup (reading' \cap ({x} \X Object))
        /\ writing' = writing \cup (writing' \cap ({x} \X Object))
    BY <2>1, <2>2, <2>3
  <2>5. \A l \in writing', m \in reading' \cup writing' : l[2] = m[2] => l = m
    BY DEF NoClash
  <2>6. Locks!Acquire(x)
    BY <2>3, <2>4, <2>5 DEF Locks!Acquire, Locks!Of
  <2> QED BY <2>1, <2>6 DEF Locks!Next
<1>4. ASSUME NEW x \in running, Finish(x) PROVE Locks!Next
  <2>1. /\ x \in Instance
        /\ reading' = {l \in reading : l[1] # x} /\ writing' = {l \in writing : l[1] # x}
    BY <1>1, <1>4, InstanceTypes DEF Finish, Waited
  <2>2. /\ \A l \in reading \cup writing : l = <<l[1], l[2]>> /\ l[2] \in Object
    BY <1>1, InstanceTypes DEF Held, Waited
  <2>3. reading' = reading \ ({x} \X Object) /\ writing' = writing \ ({x} \X Object)
    BY <2>1, <2>2
  <2>4. Locks!Release(x)
    BY <2>3 DEF Locks!Release, Locks!Of
  <2> QED BY <2>1, <2>4 DEF Locks!Next
<1>5. CASE Build \/ Submit \/ UNCHANGED vars
  BY <1>2, <1>5 DEF Build, Submit, vars
<1> QED BY <1>3, <1>4, <1>5 DEF JNext, Terminated

\* Nobody locks a partition, yet every job uses the data store as if a readers-writer lock
\* guarded each object and no closure ever had to wait for one: for every disciplined driver.
THEOREM JobImplementsLocks == ASSUME Disciplined PROVE JSpec => LocksSpec
<1>1. JInit => Locks!Init
  BY DEF JInit, Locks!Init
<1>2. JobInv /\ NoClash' /\ [JNext]_vars => [Locks!Next]_<<reading, writing>>
  BY LockStep
<1> QED
  BY <1>1, <1>2, JobInvariant, JobNeverClashes, PTL DEF JSpec, LocksSpec, Locks!Spec

-----------------------------------------------------------------------------
(* A job never stands still. *)

\* A set of numbers that is not empty has a least element.
LEMMA LeastNumber ==
  ASSUME NEW T \in SUBSET Nat, T # {}
  PROVE  \E m \in T : \A k \in T : m <= k
<1>1. \E m \in T : \A k \in T : <<k, m>> \notin OpToRel(<, Nat)
  BY NatLessThanWellFounded, WFMin
<1>2. \A m, k \in T : <<k, m>> \notin OpToRel(<, Nat) => m <= k
  <2>1. \A m, k \in T : <<k, m>> \in Nat \X Nat /\ (k < m \/ m <= k)
    OBVIOUS
  <2>2. \A m, k \in T : k < m => <<k, m>> \in OpToRel(<, Nat)
    BY <2>1 DEF OpToRel
  <2> QED BY <2>1, <2>2
<1> QED BY <1>1, <1>2

\* While a submitted job is not finished some closure is running, or some shard waits for none.
NeverStuck == submitted => Finished \/ running # {} \/ \E x \in AllInstances : Ready(x)

\* A shard waits for shards of earlier tasks.
LEMMA WaitsForEarlier ==
  ASSUME Built, NEW x \in AllInstances, NEW y \in Awaits(x)
  PROVE  y \in AllInstances /\ y[1] < x[1]
<1>1. PICK e \in graph.edges : e[2] = x[1] /\ y \in AwaitsVia(x, e)
  BY DEF Awaits
<1>2. e[1] \in 1..graph.nTasks /\ e[1] < x[1] /\ e[3] \in TaskDependencyType
  BY <1>1, TaskFacts
<1>3. y \in Instances(e[1])
  BY <1>1, <1>2 DEF AwaitsVia, TaskDependencyType
<1> QED BY <1>2, <1>3, InstanceFacts

\* Of the shards that are not done those of the oldest task wait for none, so that a job of a
\* disciplined driver never stands still, however its cluster runs it.
THEOREM JobNeverStuck == ASSUME Disciplined PROVE JSpec => []NeverStuck
<1>1. ASSUME Built, Waited PROVE NeverStuck
  <2> SUFFICES ASSUME submitted, done # AllInstances, running = {}
               PROVE  \E x \in AllInstances : Ready(x)
    BY DEF NeverStuck, Finished
  <2> DEFINE T == {x[1] : x \in AllInstances \ done}
  <2>1. T \in SUBSET Nat /\ T # {}
    <3>1. PICK x \in AllInstances : x \notin done
      BY <1>1 DEF Waited
    <3>2. \A z \in AllInstances : z[1] \in Nat
      BY <1>1, InstanceFacts, TaskFacts
    <3> QED BY <3>1, <3>2
  <2>2. PICK m \in T : \A k \in T : m <= k
    <3> HIDE DEF T
    <3> QED BY <2>1, LeastNumber
  <2>3. PICK x \in AllInstances \ done : x[1] = m
    OBVIOUS
  <2>4. ASSUME NEW y \in Awaits(x) PROVE y \in done
    <3>1. y \in AllInstances /\ y[1] < x[1]
      BY <1>1, WaitsForEarlier
    <3>2. y[1] \in Nat /\ x[1] \in Nat
      BY <1>1, <3>1, InstanceFacts, TaskFacts
    <3>3. ~(x[1] <= y[1])
      BY <3>1, <3>2
    <3> QED BY <2>2, <2>3, <3>1, <3>3
  <2> QED BY <2>3, <2>4 DEF Ready
<1>2. JobInv => NeverStuck
  BY <1>1 DEF JobInv
<1> QED BY <1>2, JobInvariant, PTL
=============================================================================
