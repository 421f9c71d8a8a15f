------------------------------ MODULE GraphJobs ------------------------------
(***************************************************************************)
(* The iterations of the graph programs, examples/pr.cc and                *)
(* examples/connected_component.cc.  Both keep the graph and a table of    *)
(* values, each partitioned by vertex id and sorted, and walk the two in   *)
(* step: nothing but the order and the contents of the partitions makes    *)
(* the entry found for a vertex the right one.                             *)
(*                                                                         *)
(* Partitions run ahead of each other: the closures of a partition wait    *)
(* for those of the same partition, and a reducer waits for one message of *)
(* every partition.  ReduceBy is taken by what ShuffleReduce shows of it:  *)
(* one merged record per key, sorted by key.                               *)
(***************************************************************************)
EXTENDS SequencesExt

CONSTANTS Jobs,           \* the programs run: "PageRank", "ConnectedComponent"
          Vertex,         \* the ids that occur in the input
          Graphs,         \* the inputs: for every line, an id and its neighbours
          NumPartitions,  \* parallelism
          NumIters        \* n_iters

ASSUME GraphJobsAssumption ==
  /\ Jobs \subseteq {"PageRank", "ConnectedComponent"}
  /\ Vertex \subseteq Nat /\ IsFiniteSet(Vertex)
  /\ \A g \in Graphs : DOMAIN g \subseteq Vertex /\ \A v \in DOMAIN g : g[v] \subseteq Vertex
  /\ NumPartitions \in Nat \ {0}
  /\ NumIters \in Nat

VARIABLES job,      \* the program
          graph,    \* the adjacency lists, by id
          table,    \* for every partition the ranks, or the answers
          round,    \* for every partition the iterations its table is the result of
          sent,     \* for every iteration the records of the partitions that have sent
          updates   \* the reduced updates of the partitions that have yet to apply them

vars == <<job, graph, table, round, sent, updates>>

Part == 0..(NumPartitions - 1)
Iter == 1..NumIters

\* The function f, and value at x.
With(f, x, value) == [y \in DOMAIN f \cup {x} |-> IF y = x THEN value ELSE f[y]]

\* hash of an int is the int.
PartOf(v) == v % NumPartitions

Ascending(S) ==
  CHOOSE seq \in [1..Cardinality(S) -> S] :
    \A i, j \in 1..Cardinality(S) : i < j => seq[i] < seq[j]
Local(g, p) == Ascending({v \in DOMAIN g : PartOf(v) = p})

\* The walk stops at the first entry whose id is not below v.
EntryOf(entries, v) == SelectInSeq(entries, LAMBDA e : e.id >= v)

\* Mutant of Reduced: of the records of a key one is kept, not all combined.
ReducedKeepingOne(records, p) ==
  LET keys == Ascending({r.id : r \in {r \in records : PartOf(r.id) = p}})
  IN [i \in DOMAIN keys |-> [id  |-> keys[i],
                             val |-> {(CHOOSE r \in records : r.id = keys[i]).val}]]

\* ReduceBy: the records for p, one per key, with all their values.
Reduced(records, p) ==
  LET keys == Ascending({r.id : r \in {r \in records : PartOf(r.id) = p}})
  IN [i \in DOMAIN keys |-> [id  |-> keys[i],
                             val |-> {r.val : r \in {r \in records : r.id = keys[i]}}]]

-----------------------------------------------------------------------------
(***************************************************************************)
(* PageRank.  A rank is what it is the sum of: the vertices whose share    *)
(* was added, and Constant for what is nobody's share, the rank at the     *)
(* start and what every vertex sends to itself.                            *)
(***************************************************************************)
Constant == -1

InitialRanks(g, p) == [i \in DOMAIN Local(g, p) |-> [id |-> Local(g, p)[i], val |-> {Constant}]]

\* Mutant of RankUpdates: a vertex without neighbours is left out.
RankUpdatesOfSenders(p) ==
  UNION {{[id |-> n, val |-> v] : n \in graph[v]}
           \cup {[id |-> v, val |-> Constant] : w \in graph[v]} : v \in ToSet(Local(graph, p))}

\* Partition p sends a constant to each vertex and shares to the neighbours;
\* the share is that of the entry the walk finds.
RankUpdates(p) ==
  UNION {LET e == table[p][EntryOf(table[p], v)]
         IN {[id |-> v, val |-> Constant]} \cup {[id |-> n, val |-> e.id] : n \in graph[v]} :
         v \in ToSet(Local(graph, p))}

-----------------------------------------------------------------------------
(* ConnectedComponent.  An answer is a label, and whether it is new. *)

InitialAnswers(g, p) ==
  [i \in DOMAIN Local(g, p) |-> [id |-> Local(g, p)[i], val |-> Local(g, p)[i], new |-> TRUE]]

\* Labels that are new are sent, to the neighbours with a larger id only.
AnswerUpdates(p) ==
  UNION {LET e == table[p][EntryOf(table[p], v)]
         IN {[id |-> n, val |-> e.val] : n \in {n \in graph[v] : e.new /\ v < n}} :
         v \in ToSet(Local(graph, p))}

Minimum(S) == CHOOSE x \in S : \A y \in S : x <= y

\* Mutant of Applied: the label that has just been lowered is not new.
AppliedSilently(answer, ups) ==
  LET i == EntryOf(ups, answer.id)
  IN IF i # 0 /\ Minimum(ups[i].val) < answer.val
       THEN [answer EXCEPT !.val = Minimum(ups[i].val), !.new = FALSE]
       ELSE [answer EXCEPT !.new = FALSE]

\* The walk of the updates finds the first whose key is not below the id of
\* the answer, and takes it for an update of that answer.
Applied(answer, ups) ==
  LET i == EntryOf(ups, answer.id)
  IN IF i # 0 /\ Minimum(ups[i].val) < answer.val
       THEN [answer EXCEPT !.val = Minimum(ups[i].val), !.new = TRUE]
       ELSE [answer EXCEPT !.new = FALSE]

-----------------------------------------------------------------------------
\* Mutant of Send: a partition that holds nothing sends no message.
SendByHolders(p) ==
  /\ round[p] < NumIters /\ p \notin DOMAIN sent[round[p] + 1]
  /\ Local(graph, p) # <<>>
  /\ \A v \in ToSet(Local(graph, p)) : EntryOf(table[p], v) # 0
  /\ sent' = [sent EXCEPT ![round[p] + 1] =
                With(@, p, IF job = "PageRank" THEN RankUpdates(p) ELSE AnswerUpdates(p))]
  /\ UNCHANGED <<job, graph, table, round, updates>>

\* send_updates on partition p; at() throws if the walk runs off the table.
Send(p) ==
  /\ round[p] < NumIters /\ p \notin DOMAIN sent[round[p] + 1]
  /\ \A v \in ToSet(Local(graph, p)) : EntryOf(table[p], v) # 0
  /\ sent' = [sent EXCEPT ![round[p] + 1] =
                With(@, p, IF job = "PageRank" THEN RankUpdates(p) ELSE AnswerUpdates(p))]
  /\ UNCHANGED <<job, graph, table, round, updates>>

Received(p) == DOMAIN sent[round[p] + 1] = Part

Incoming(p) == Reduced(UNION {sent[round[p] + 1][q] : q \in Part}, p)

\* The reducer of PageRank: its result are the ranks of the next iteration.
ReduceRanks(p) ==
  /\ job = "PageRank" /\ round[p] < NumIters /\ Received(p)
  /\ table' = [table EXCEPT ![p] = Incoming(p)]
  /\ round' = [round EXCEPT ![p] = @ + 1]
  /\ UNCHANGED <<job, graph, sent, updates>>

\* The reducer of ConnectedComponent, and the closure that applies its result.
ReduceUpdates(p) ==
  /\ job = "ConnectedComponent" /\ round[p] < NumIters /\ Received(p)
  /\ p \notin DOMAIN updates
  /\ updates' = With(updates, p, Incoming(p))
  /\ UNCHANGED <<job, graph, table, round, sent>>

Apply(p) ==
  /\ p \in DOMAIN updates
  /\ table' = [table EXCEPT ![p] = [i \in DOMAIN @ |-> Applied(@[i], updates[p])]]
  /\ round' = [round EXCEPT ![p] = @ + 1]
  /\ updates' = [q \in DOMAIN updates \ {p} |-> updates[q]]
  /\ UNCHANGED <<job, graph, sent>>

Init ==
  /\ job \in Jobs
  /\ graph \in Graphs
  /\ table = [p \in Part |-> IF job = "PageRank" THEN InitialRanks(graph, p)
                                                 ELSE InitialAnswers(graph, p)]
  /\ round = [p \in Part |-> 0]
  /\ sent = [i \in Iter |-> <<>>]
  /\ updates = <<>>

Next == \E p \in Part : Send(p) \/ ReduceRanks(p) \/ ReduceUpdates(p) \/ Apply(p)

Spec == Init /\ [][Next]_vars /\ WF_vars(Next)

-----------------------------------------------------------------------------
(***************************************************************************)
(* The entry the walk finds for a vertex is that of the vertex: what       *)
(* pr.cc:114 asserts with DCHECK_EQ, in every iteration and partition.     *)
(***************************************************************************)
EntriesAligned ==
  \A p \in Part : \A v \in ToSet(Local(graph, p)) :
    LET i == EntryOf(table[p], v) IN i # 0 /\ table[p][i].id = v

(***************************************************************************)
(* From the first iteration on the rank of a vertex is the sum of the      *)
(* constant, if the vertex has a line, and of a share of every vertex that *)
(* it is a neighbour of; every vertex with either has a rank.              *)
(***************************************************************************)
SharesOf(v) ==
  {u \in DOMAIN graph : v \in graph[u]} \cup {Constant : u \in {v} \cap DOMAIN graph}

RanksComplete ==
  job = "PageRank" =>
    \A p \in Part : round[p] > 0 =>
      ToSet(table[p]) = {[id |-> v, val |-> SharesOf(v)] :
                           v \in {v \in Vertex : PartOf(v) = p /\ SharesOf(v) # {}}}

(***************************************************************************)
(* A vertex whose label is no longer new need not send it: its neighbours  *)
(* with a larger id have a label as low, as soon as they have done as many *)
(* iterations.                                                             *)
(***************************************************************************)
Answer(v) == table[PartOf(v)][EntryOf(table[PartOf(v)], v)]

Settled ==
  job = "ConnectedComponent" =>
    \A v \in DOMAIN graph : \A u \in graph[v] \cap DOMAIN graph :
      /\ v < u /\ ~Answer(v).new
      /\ round[PartOf(u)] >= round[PartOf(v)]
      => Answer(u).val <= Answer(v).val

\* Every partition does all the iterations: nobody waits for a message for ever.
AllIterations == <>(\A p \in Part : round[p] = NumIters)

(***************************************************************************)
(* The labels say which vertices are connected ("class ConnectedComponent" *)
(* connected_component.cc:72): vertices with one label are connected.      *)
(***************************************************************************)
Connected(u, v) ==
  \A S \in SUBSET DOMAIN graph :
    u \in S /\ (\A x \in S : graph[x] \subseteq S) => v \in S

LabelsSeparate ==
  \A u, v \in DOMAIN graph : Answer(u).val = Answer(v).val => Connected(u, v)
=============================================================================
