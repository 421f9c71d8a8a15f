---------------------------- MODULE GraphJobsProofs ----------------------------
(***************************************************************************)
(* For any graph, any number of partitions and of iterations: the tables   *)
(* the jobs walk in step stay aligned, PageRank adds up every share, and   *)
(* ConnectedComponent keeps no label to itself.                            *)
(***************************************************************************)
EXTENDS GraphJobs, FiniteSetTheorems, WellFoundedInduction, TLAPS

-----------------------------------------------------------------------------
(* The invariant. *)

LocalIds(p) == {v \in DOMAIN graph : PartOf(v) = p}
RankIds(p)  == {v \in Vertex : PartOf(v) = p /\ SharesOf(v) # {}}

Rank  == [id : Nat, val : SUBSET Int]
Label == [id : Nat, val : Nat, new : BOOLEAN]

\* A sequence of entries from E with the ids of K, in ascending order.
Indexed(entries, K, E) ==
  /\ entries \in Seq(E) /\ Len(entries) = Cardinality(K)
  /\ \A i \in 1..Len(entries) : entries[i].id = Ascending(K)[i]

Shaped ==
  /\ job \in Jobs /\ graph \in Graphs
  /\ round \in [Part -> 0..NumIters]
  /\ table = [p \in Part |-> table[p]]
  /\ sent = [i \in Iter |-> sent[i]]
  /\ DOMAIN updates \subseteq Part

\* A partition sends once in an iteration, and all have sent in what is done.
InStep ==
  /\ \A i \in Iter : DOMAIN sent[i] \subseteq Part
  /\ \A i \in Iter, p \in Part : i <= round[p] => DOMAIN sent[i] = Part
  /\ \A i \in Iter, p \in Part : p \in DOMAIN sent[i] => i <= round[p] + 1

-----------------------------------------------------------------------------
\* What every partition sends in PageRank, in every iteration.
Shares(p) ==
  UNION {{[id |-> v, val |-> Constant]} \cup {[id |-> n, val |-> v] : n \in graph[v]} : v \in LocalIds(p)}

Summed ==
  job = "PageRank" =>
    /\ \A p \in Part : IF round[p] = 0
                         THEN Indexed(table[p], LocalIds(p), Rank)
                         ELSE /\ Indexed(table[p], RankIds(p), Rank)
                              /\ \A i \in 1..Len(table[p]) :
                                   table[p][i].val = SharesOf(table[p][i].id)
    /\ \A i \in Iter : \A p \in DOMAIN sent[i] : sent[i][p] = Shares(p)
    /\ updates = <<>>

-----------------------------------------------------------------------------
\* The label of v was sent to all neighbours it is for, in iteration i.
Told(v, label, i) ==
  \A n \in graph[v] : v < n => [id |-> n, val |-> label] \in sent[i][PartOf(v)]

Labelled ==
  job = "ConnectedComponent" =>
    /\ \A p \in Part : Indexed(table[p], LocalIds(p), Label)
    /\ \A i \in Iter : \A p \in DOMAIN sent[i] : sent[i][p] \subseteq [id : Vertex, val : Nat]
    /\ \A p \in DOMAIN updates :
         /\ round[p] < NumIters /\ Received(p)
         /\ updates[p] = Incoming(p)

\* A label that is new is in what was sent, one that is not was sent before.
Spread ==
  job = "ConnectedComponent" =>
    \A v \in DOMAIN graph :
      LET p == PartOf(v) IN
      /\ Answer(v).new /\ round[p] < NumIters /\ p \in DOMAIN sent[round[p] + 1]
           => Told(v, Answer(v).val, round[p] + 1)
      /\ ~Answer(v).new => \E i \in 1..round[p] : Told(v, Answer(v).val, i)

\* No label is above one that was received for it.
Lowered ==
  job = "ConnectedComponent" =>
    \A v \in DOMAIN graph : \A i \in 1..round[PartOf(v)] : \A p \in Part : \A r \in sent[i][p] :
      r.id = v => Answer(v).val <= r.val

Inv == Shaped /\ InStep /\ Summed /\ Labelled /\ Spread /\ Lowered

-----------------------------------------------------------------------------
(* Sets of numbers in ascending order. *)

LEMMA LeastNatural ==
  ASSUME NEW S, S \subseteq Nat, S # {}
  PROVE  \E x \in S : \A y \in S : x <= y
<1>1. PICK x \in S : \A y \in S : ~ (<<y, x>> \in OpToRel(<, Nat))
  BY NatLessThanWellFounded, WFMin
<1>2. \A y \in S : x \in Nat /\ y \in Nat /\ ~(y < x)
  BY <1>1 DEF OpToRel
<1>3. \A y \in S : x <= y
  BY <1>2
<1> QED BY <1>1, <1>3

\* What holds at first, and after each step if before it, holds at the end.
LEMMA Steps ==
  ASSUME NEW n \in Nat, NEW T, 0 \in T, \A i \in 1..n : i - 1 \in T => i \in T
  PROVE  0..n \subseteq T
<1> DEFINE Rest == (0..n) \ T
<1> SUFFICES ASSUME Rest # {} PROVE FALSE
  OBVIOUS
<1>1. PICK x \in Rest : \A y \in Rest : x <= y
  <2>1. Rest \subseteq Nat
    OBVIOUS
  <2> HIDE DEF Rest
  <2> QED BY <2>1, LeastNatural
<1>2. x \in 0..n /\ x \notin T /\ x # 0
  OBVIOUS
<1>3. x \in 1..n /\ x - 1 \in 0..n /\ ~(x <= x - 1)
  BY <1>2
<1> QED BY <1>1, <1>2, <1>3

Sorted(f, S) ==
  /\ f \in [1..Cardinality(S) -> S]
  /\ \A i, j \in 1..Cardinality(S) : i < j => f[i] < f[j]

LEMMA SortedExists ==
  ASSUME NEW S \in SUBSET Nat, IsFiniteSet(S)
  PROVE  \E f : Sorted(f, S)
<1> DEFINE n == Cardinality(S)
           T == {m \in 0..n : \A K \in SUBSET S : Cardinality(K) = m => \E f : Sorted(f, K)}
<1>1. n \in Nat
  BY FS_CardinalityType
<1>2. 0 \in T
  <2> SUFFICES ASSUME NEW K \in SUBSET S, Cardinality(K) = 0 PROVE \E f : Sorted(f, K)
    BY <1>1
  <2>1. IsFiniteSet(K)
    BY FS_Subset
  <2>2. K = {}
    BY <2>1, FS_EmptySet
  <2>3. <<>> \in [1..0 -> {}] /\ 1..0 = {}
    OBVIOUS
  <2> QED BY <2>2, <2>3 DEF Sorted
<1>3. ASSUME NEW m \in 1..n, m - 1 \in T PROVE m \in T
  <2> SUFFICES ASSUME NEW K \in SUBSET S, Cardinality(K) = m PROVE \E f : Sorted(f, K)
    BY <1>1
  <2>1. IsFiniteSet(K)
    BY FS_Subset
  <2>2. K # {}
    BY <1>1, <2>1, FS_EmptySet
  <2>3. PICK x \in K : \A y \in K : x <= y
    BY <2>2, LeastNatural
  <2>4. Cardinality(K \ {x}) = m - 1
    BY <2>1, <2>3, FS_RemoveElement
  <2>5. PICK f : Sorted(f, K \ {x})
    BY <1>3, <2>4
  <2>6. /\ f \in [1..(m - 1) -> K \ {x}]
        /\ \A i, j \in 1..(m - 1) : i < j => f[i] < f[j]
    BY <2>4, <2>5 DEF Sorted
  <2> DEFINE g == [i \in 1..m |-> IF i = 1 THEN x ELSE f[i - 1]]
  <2>7. \A i \in 1..m : i # 1 => i - 1 \in 1..(m - 1)
    BY <1>1
  <2>8. g \in [1..m -> K]
    BY <2>3, <2>6, <2>7
  <2>9. \A i, j \in 1..m : i < j => g[i] < g[j]
    <3> TAKE i, j \in 1..m
    <3> HAVE i < j
    <3>1. j # 1 /\ j - 1 \in 1..(m - 1) /\ g[j] = f[j - 1] /\ f[j - 1] \in K \ {x}
      BY <1>1, <2>6
    <3>2. CASE i = 1
      <4>1. g[i] = x /\ x <= f[j - 1] /\ x # f[j - 1] /\ x \in Nat /\ f[j - 1] \in Nat
        BY <2>3, <3>1, <3>2
      <4> QED BY <3>1, <4>1
    <3>3. CASE i # 1
      <4>1. i - 1 \in 1..(m - 1) /\ i - 1 < j - 1 /\ g[i] = f[i - 1]
        BY <1>1, <3>3
      <4> QED BY <2>6, <3>1, <4>1
    <3> QED BY <3>2, <3>3
  <2> HIDE DEF g
  <2> QED BY <2>8, <2>9 DEF Sorted
<1> HIDE DEF T
<1>4. n \in T
  BY <1>1, <1>2, <1>3, Steps
<1> QED BY <1>4 DEF T

\* Ascending(S) is a sequence of all members of S, each greater than the one before.
LEMMA AscendingSorted ==
  ASSUME NEW S \in SUBSET Nat, IsFiniteSet(S)
  PROVE  LET n == Cardinality(S) IN
         /\ n \in Nat
         /\ Ascending(S) \in [1..n -> S] /\ DOMAIN Ascending(S) = 1..n
         /\ \A i, j \in 1..n : i < j => Ascending(S)[i] < Ascending(S)[j]
         /\ \A v \in S : \E i \in 1..n : Ascending(S)[i] = v
         /\ ToSet(Ascending(S)) = S
<1> DEFINE n == Cardinality(S)
           f == Ascending(S)
<1>1. n \in Nat
  BY FS_CardinalityType
<1>2. Sorted(f, S)
  BY SortedExists DEF Ascending, Sorted
<1>3. f \in [1..n -> S] /\ \A i, j \in 1..n : i < j => f[i] < f[j]
  BY <1>2 DEF Sorted
<1> HIDE DEF f
<1>4. f \in Injection(1..n, S)
  <2>1. \A i, j \in 1..n : f[i] = f[j] => i = j
    <3> TAKE i, j \in 1..n
    <3>1. f[i] \in Nat /\ f[j] \in Nat /\ (i < j => f[i] < f[j]) /\ (j < i => f[j] < f[i])
      BY <1>3
    <3> QED BY <1>1, <3>1
  <2> QED BY <1>3, <2>1 DEF Injection, IsInjective
<1>5. Cardinality(1..n) = n
  BY <1>1, FS_Interval
<1>6. f \in Surjection(1..n, S)
  BY <1>4, <1>5, FS_Injection
<1>7. \A v \in S : \E i \in 1..n : f[i] = v
  BY <1>6 DEF Surjection
<1>8. ToSet(f) = S
  BY <1>3, <1>7 DEF ToSet
<1> QED BY <1>1, <1>3, <1>7, <1>8 DEF f

\* The walk finds nothing, or the first entry whose id is not below v.
LEMMA EntryOfIs ==
  ASSUME NEW E, NEW entries \in Seq(E), NEW v, NEW i, i = EntryOf(entries, v)
  PROVE  \/ i = 0 /\ \A j \in 1..Len(entries) : ~(entries[j].id >= v)
         \/ /\ i \in 1..Len(entries) /\ entries[i].id >= v
            /\ \A j \in 1..Len(entries) : entries[j].id >= v => i <= j
<1> DEFINE I == {j \in 1..Len(entries) : entries[j].id >= v}
<1>1. i = IF I # {} THEN Min(I) ELSE 0
  BY DEF EntryOf, SelectInSeq
<1>2. CASE I # {}
  <2>1. I \subseteq Nat
    OBVIOUS
  <2>2. PICK x \in I : \A y \in I : x <= y
    BY <1>2, <2>1, LeastNatural
  <2> HIDE DEF I
  <2>3. Min(I) \in I /\ \A y \in I : Min(I) <= y
    BY <2>2 DEF Min
  <2> QED BY <1>1, <1>2, <2>3 DEF I
<1>3. CASE I = {}
  BY <1>1, <1>3
<1> QED BY <1>2, <1>3

\* In a table that has an entry for v the walk finds that entry.
LEMMA EntryFound ==
  ASSUME NEW K \in SUBSET Nat, IsFiniteSet(K), NEW E, NEW entries, Indexed(entries, K, E),
         NEW v \in K, NEW i, i = EntryOf(entries, v)
  PROVE  i # 0 /\ i \in 1..Len(entries) /\ entries[i].id = v
<1> DEFINE n == Cardinality(K)
           ids == Ascending(K)
<1>1. /\ n \in Nat /\ ids \in [1..n -> K]
      /\ \A j, k \in 1..n : j < k => ids[j] < ids[k]
      /\ \A x \in K : \E j \in 1..n : ids[j] = x
  BY AscendingSorted
<1>2. entries \in Seq(E) /\ Len(entries) = n /\ \A j \in 1..n : entries[j].id = ids[j]
  BY DEF Indexed
<1> HIDE DEF n, ids
<1>3. PICK j \in 1..n : ids[j] = v
  BY <1>1
<1>4. entries[j].id = v /\ v \in Nat
  BY <1>2, <1>3
<1>5. i \in 1..n /\ entries[i].id >= v /\ i <= j
  BY <1>2, <1>3, <1>4, EntryOfIs
<1>6. ids[i] \in Nat /\ ids[i] >= v /\ (i < j => ids[i] < v)
  BY <1>1, <1>2, <1>3, <1>5
<1>7. i = j
  <2>1. ~(i < j)
    BY <1>3, <1>6
  <2> QED BY <1>1, <1>3, <1>5, <2>1
<1> QED BY <1>2, <1>3, <1>5, <1>7

-----------------------------------------------------------------------------
(* The partitions of a graph, and what a reducer makes of records. *)

LEMMA PartOfType == \A v \in Nat : PartOf(v) \in Part
<1>1. NumPartitions \in Nat /\ NumPartitions > 0
  BY GraphJobsAssumption
<1>2. \A v \in Nat : v % NumPartitions \in 0..(NumPartitions - 1)
  BY <1>1
<1> QED BY <1>2 DEF PartOf, Part

LEMMA VertexIds ==
  /\ \A K \in SUBSET Vertex : K \in SUBSET Nat /\ IsFiniteSet(K)
  /\ \A v \in Vertex : v \in Nat /\ PartOf(v) \in Part
<1>1. Vertex \subseteq Nat /\ IsFiniteSet(Vertex)
  BY GraphJobsAssumption
<1>2. \A K \in SUBSET Vertex : IsFiniteSet(K)
  BY <1>1, FS_Subset
<1> QED BY <1>1, <1>2, PartOfType

LEMMA GraphFacts ==
  ASSUME graph \in Graphs
  PROVE  /\ DOMAIN graph \subseteq Vertex
         /\ \A v \in DOMAIN graph : graph[v] \subseteq Vertex
         /\ \A v \in DOMAIN graph : v \in LocalIds(PartOf(v)) /\ PartOf(v) \in Part
         /\ \A p : /\ LocalIds(p) \in SUBSET Vertex /\ RankIds(p) \in SUBSET Vertex
                   /\ LocalIds(p) \subseteq RankIds(p)
                   /\ Local(graph, p) = Ascending(LocalIds(p))
                   /\ ToSet(Local(graph, p)) = LocalIds(p)
<1>1. DOMAIN graph \subseteq Vertex /\ \A v \in DOMAIN graph : graph[v] \subseteq Vertex
  BY GraphJobsAssumption
<1>2. \A v \in DOMAIN graph : v \in LocalIds(PartOf(v)) /\ PartOf(v) \in Part
  BY <1>1, VertexIds DEF LocalIds
<1>3. ASSUME NEW p
      PROVE  /\ LocalIds(p) \in SUBSET Vertex /\ RankIds(p) \in SUBSET Vertex
             /\ LocalIds(p) \subseteq RankIds(p)
             /\ Local(graph, p) = Ascending(LocalIds(p))
             /\ ToSet(Local(graph, p)) = LocalIds(p)
  <2>1. LocalIds(p) \in SUBSET Vertex /\ RankIds(p) \in SUBSET Vertex
    BY <1>1 DEF LocalIds, RankIds
  <2>2. LocalIds(p) \subseteq RankIds(p)
    BY <1>1 DEF LocalIds, RankIds, SharesOf
  <2>3. Local(graph, p) = Ascending(LocalIds(p))
    BY DEF Local, LocalIds
  <2> QED BY <2>1, <2>2, <2>3, VertexIds, AscendingSorted
<1> QED BY <1>1, <1>2, <1>3

KeysOf(records, p)   == {r.id : r \in {r \in records : PartOf(r.id) = p}}
ValuesOf(records, k) == {r.val : r \in {r \in records : r.id = k}}

\* One record for every key of partition p, with all the values sent for it.
LEMMA ReducedIs ==
  ASSUME NEW records \in SUBSET [id : Vertex, val : Int], NEW p
  PROVE  LET result == Reduced(records, p)
         IN /\ KeysOf(records, p) \in SUBSET Vertex /\ Indexed(result, KeysOf(records, p), Rank)
            /\ \A i \in 1..Len(result) : result[i].val = ValuesOf(records, result[i].id)
<1> DEFINE K == KeysOf(records, p)
           keys == Ascending(K)
           values(k) == ValuesOf(records, k)
           result == Reduced(records, p)
           n == Cardinality(K)
<1>1. K \in SUBSET Vertex
  BY DEF KeysOf
<1>2. result = [i \in DOMAIN keys |-> [id |-> keys[i], val |-> values(keys[i])]]
  BY DEF Reduced, KeysOf, ValuesOf
<1> HIDE DEF K, result
<1>3. n \in Nat /\ keys \in [1..n -> K] /\ DOMAIN keys = 1..n
  BY <1>1, VertexIds, AscendingSorted
<1>4. \A k : values(k) \in SUBSET Int
  BY DEF ValuesOf
<1> HIDE DEF keys, values
<1>5. \A i \in 1..n : keys[i] \in Nat
  BY <1>1, <1>3, VertexIds
<1>6. \A i \in 1..n : [id |-> keys[i], val |-> values(keys[i])] \in Rank
  BY <1>4, <1>5 DEF Rank
<1> HIDE DEF n
<1>7. result \in [1..n -> Rank]
  BY <1>2, <1>3, <1>6
<1>8. result \in Seq(Rank) /\ Len(result) = n
  BY <1>3, <1>7
<1>9. \A i \in 1..n : result[i].id = keys[i] /\ result[i].val = values(keys[i])
  BY <1>2, <1>3
<1>10. Indexed(result, K, Rank)
  BY <1>8, <1>9 DEF Indexed, keys, n
<1>11. \A i \in 1..Len(result) : result[i].val = values(result[i].id)
  BY <1>8, <1>9
<1> QED BY <1>1, <1>10, <1>11 DEF K, result, values

-----------------------------------------------------------------------------
(* The walks. *)

\* What the walk finds for v in partition p.
Finds(p, v) ==
  LET i == EntryOf(table[p], v)
  IN i # 0 /\ i \in 1..Len(table[p]) /\ table[p][i].id = v

\* In every partition the walk finds the entry of every vertex.
LEMMA Aligned ==
  ASSUME Inv, NEW p \in Part, NEW v \in LocalIds(p)
  PROVE  Finds(p, v)
<1>1. LocalIds(p) \in SUBSET Vertex /\ RankIds(p) \in SUBSET Vertex /\ LocalIds(p) \subseteq RankIds(p)
  BY GraphFacts DEF Inv, Shaped
<1>2. /\ LocalIds(p) \in SUBSET Nat /\ IsFiniteSet(LocalIds(p))
      /\ RankIds(p) \in SUBSET Nat /\ IsFiniteSet(RankIds(p))
  BY <1>1, VertexIds
<1>3. v \in RankIds(p)
  BY <1>1
<1>4. CASE job = "PageRank"
  <2>1. Indexed(table[p], LocalIds(p), Rank) \/ Indexed(table[p], RankIds(p), Rank)
    BY <1>4 DEF Inv, Summed
  <2> QED BY <1>2, <1>3, <2>1, EntryFound DEF Finds
<1>5. CASE job = "ConnectedComponent"
  <2>1. Indexed(table[p], LocalIds(p), Label)
    BY <1>5 DEF Inv, Labelled
  <2> QED BY <1>2, <2>1, EntryFound DEF Finds
<1> QED BY <1>4, <1>5, GraphJobsAssumption DEF Inv, Shaped

LEMMA SameEntry ==
  ASSUME NEW K \in SUBSET Nat, IsFiniteSet(K), NEW v \in K, NEW E, NEW F, NEW a, NEW b,
         Indexed(a, K, E), Indexed(b, K, F)
  PROVE  EntryOf(a, v) = EntryOf(b, v)
<1> DEFINE i == EntryOf(a, v)
           j == EntryOf(b, v)
           n == Cardinality(K)
           ids == Ascending(K)
<1>1. i \in 1..Len(a) /\ a[i].id = v /\ j \in 1..Len(b) /\ b[j].id = v
  BY EntryFound
<1>2. Len(a) = n /\ Len(b) = n /\ ids[i] = v /\ ids[j] = v
  BY <1>1 DEF Indexed
<1>3. n \in Nat /\ ids \in [1..n -> K] /\ \A x, y \in 1..n : x < y => ids[x] < ids[y]
  BY AscendingSorted
<1>4. v \in Nat /\ i \in 1..n /\ j \in 1..n
  BY <1>1, <1>2
<1> HIDE DEF i, j, n, ids
<1>5. ~(i < j) /\ ~(j < i)
  BY <1>2, <1>3, <1>4
<1> QED BY <1>3, <1>4, <1>5 DEF i, j

\* The first records of a partition are its own, in every iteration the same.
LEMMA RankUpdatesAre ==
  ASSUME Inv, job = "PageRank", NEW p \in Part
  PROVE  RankUpdates(p) = Shares(p)
<1> DEFINE found(v) == table[p][EntryOf(table[p], v)].id
           sends(v, x) == {[id |-> v, val |-> Constant]} \cup {[id |-> n, val |-> x] : n \in graph[v]}
<1>1. ToSet(Local(graph, p)) = LocalIds(p)
  BY GraphFacts DEF Inv, Shaped
<1>2. RankUpdates(p) = UNION {sends(v, found(v)) : v \in LocalIds(p)}
  BY <1>1 DEF RankUpdates
<1>3. \A v \in LocalIds(p) : found(v) = v
  BY Aligned DEF Finds
<1> HIDE DEF sends, found
<1>4. RankUpdates(p) = UNION {sends(v, v) : v \in LocalIds(p)}
  BY <1>2, <1>3
<1> QED BY <1>4 DEF Shares, sends

\* All that is sent for partition p in an iteration: what its ranks are the sums of.
LEMMA SharesReduced ==
  ASSUME graph \in Graphs, NEW p \in Part, NEW records, records = UNION {Shares(q) : q \in Part}
  PROVE  /\ Indexed(Reduced(records, p), RankIds(p), Rank)
         /\ \A i \in 1..Len(Reduced(records, p)) :
              Reduced(records, p)[i].val = SharesOf(Reduced(records, p)[i].id)
<1> DEFINE K == KeysOf(records, p)
           values(k) == ValuesOf(records, k)
<1>1. \A r : r \in records <=> \E v \in DOMAIN graph :
                                 \/ r = [id |-> v, val |-> Constant]
                                 \/ \E n \in graph[v] : r = [id |-> n, val |-> v]
  <2>1. \A r, q : r \in Shares(q) <=> \E v \in LocalIds(q) :
                                        \/ r = [id |-> v, val |-> Constant]
                                        \/ \E n \in graph[v] : r = [id |-> n, val |-> v]
    BY DEF Shares
  <2>2. \A q : LocalIds(q) \subseteq DOMAIN graph
    BY DEF LocalIds
  <2>3. \A v \in DOMAIN graph : \E q \in Part : v \in LocalIds(q)
    BY GraphFacts
  <2> QED BY <2>1, <2>2, <2>3
<1>2. /\ DOMAIN graph \subseteq Vertex /\ \A v \in DOMAIN graph : graph[v] \subseteq Vertex
      /\ Vertex \subseteq Nat /\ Constant \in Int
  BY GraphFacts, GraphJobsAssumption DEF Constant
<1>3. records \in SUBSET [id : Vertex, val : Int]
  <2> SUFFICES ASSUME NEW r \in records PROVE r \in [id : Vertex, val : Int]
    OBVIOUS
  <2>1. PICK v \in DOMAIN graph : \/ r = [id |-> v, val |-> Constant]
                                 \/ \E n \in graph[v] : r = [id |-> n, val |-> v]
    BY <1>1
  <2>2. v \in Vertex /\ v \in Nat /\ graph[v] \subseteq Vertex
    BY <1>2
  <2> QED BY <1>2, <2>1, <2>2
<1>4. \A k : \A x : x \in values(k) <=> \/ x \in DOMAIN graph /\ k \in graph[x]
                                        \/ k \in DOMAIN graph /\ x = Constant
  <2> TAKE k
  <2> TAKE x
  <2>1. x \in values(k) <=> \E r \in records : r.id = k /\ r.val = x
    BY DEF ValuesOf
  <2>2. ASSUME NEW r \in records, r.id = k, r.val = x
        PROVE  (x \in DOMAIN graph /\ k \in graph[x]) \/ (k \in DOMAIN graph /\ x = Constant)
    BY <1>1, <2>2
  <2>3. ASSUME x \in DOMAIN graph, k \in graph[x]
        PROVE  \E r \in records : r.id = k /\ r.val = x
    <3>1. [id |-> k, val |-> x] \in records
      BY <1>1, <2>3
    <3> QED BY <3>1
  <2>4. ASSUME k \in DOMAIN graph, x = Constant
        PROVE  \E r \in records : r.id = k /\ r.val = x
    <3>1. [id |-> k, val |-> Constant] \in records
      BY <1>1, <2>4
    <3> QED BY <2>4, <3>1
  <2> QED BY <2>1, <2>2, <2>3, <2>4
<1>5. \A k : values(k) = SharesOf(k)
  <2> TAKE k
  <2>1. \A x : x \in SharesOf(k) <=> \/ x \in DOMAIN graph /\ k \in graph[x]
                                     \/ k \in DOMAIN graph /\ x = Constant
    BY DEF SharesOf
  <2>2. \A x : x \in values(k) <=> x \in SharesOf(k)
    BY <1>4, <2>1
  <2> DEFINE here == values(k)
  <2>3. \A x : x \in here <=> x \in SharesOf(k)
    BY <2>2
  <2> HIDE DEF here
  <2>4. here = SharesOf(k)
    BY <2>3
  <2> QED BY <2>4 DEF here
<1>6. K = RankIds(p)
  <2>1. \A k : k \in K <=> PartOf(k) = p /\ values(k) # {}
    BY DEF KeysOf, ValuesOf
  <2>2. \A k : k \in K => k \in Vertex
    BY <1>3 DEF KeysOf
  <2> HIDE DEF K, values
  <2>3. \A k : k \in RankIds(p) <=> k \in Vertex /\ PartOf(k) = p /\ SharesOf(k) # {}
    BY DEF RankIds
  <2> QED BY <1>5, <2>1, <2>2, <2>3
<1>7. /\ Indexed(Reduced(records, p), K, Rank)
      /\ \A i \in 1..Len(Reduced(records, p)) :
           Reduced(records, p)[i].val = values(Reduced(records, p)[i].id)
  BY <1>3, ReducedIs
<1> HIDE DEF K, values
<1> QED BY <1>5, <1>6, <1>7

-----------------------------------------------------------------------------
(* Send. *)

\* What partition p sends.
Sending(p) == IF job = "PageRank" THEN RankUpdates(p) ELSE AnswerUpdates(p)

\* Send adds a message of p in its iteration, and changes nothing else.
LEMMA SendEffect ==
  ASSUME Inv, NEW p \in Part, Send(p), NEW m, m = round[p] + 1
  PROVE  /\ m \in Iter /\ p \notin DOMAIN sent[m]
         /\ sent' = [i \in Iter |-> sent'[i]]
         /\ DOMAIN sent'[m] = DOMAIN sent[m] \cup {p} /\ sent'[m][p] = Sending(p)
         /\ \A q \in DOMAIN sent[m] : sent'[m][q] = sent[m][q]
         /\ \A i \in Iter : i # m => sent'[i] = sent[i]
         /\ UNCHANGED <<job, graph, table, round, updates>>
<1>1. /\ round[p] < NumIters /\ p \notin DOMAIN sent[m] /\ round[p] \in 0..NumIters
      /\ sent = [i \in Iter |-> sent[i]] /\ NumIters \in Nat
      /\ sent' = [sent EXCEPT ![m] = With(sent[m], p, Sending(p))]
      /\ UNCHANGED <<job, graph, table, round, updates>>
  BY GraphJobsAssumption DEF Send, Inv, Shaped, Sending
<1>2. m \in Iter
  BY <1>1 DEF Iter
<1>3. /\ sent'[m] = With(sent[m], p, Sending(p))
      /\ \A i \in Iter : i # m => sent'[i] = sent[i]
      /\ sent' = [i \in Iter |-> sent'[i]]
  BY <1>1, <1>2
<1>4. /\ DOMAIN sent'[m] = DOMAIN sent[m] \cup {p} /\ sent'[m][p] = Sending(p)
      /\ \A q \in DOMAIN sent[m] : sent'[m][q] = sent[m][q]
  BY <1>1, <1>3 DEF With
<1> QED BY <1>1, <1>2, <1>3, <1>4

\* The labels a partition sends are those of its table that are new.
LEMMA AnswerUpdatesAre ==
  ASSUME Inv, job = "ConnectedComponent", NEW p \in Part
  PROVE  /\ AnswerUpdates(p) \subseteq [id : Vertex, val : Nat]
         /\ \A v \in LocalIds(p) : Answer(v).new =>
              \A n \in graph[v] : v < n => [id |-> n, val |-> Answer(v).val] \in AnswerUpdates(p)
<1>1. /\ ToSet(Local(graph, p)) = LocalIds(p) /\ DOMAIN graph \subseteq Vertex
      /\ \A v \in DOMAIN graph : graph[v] \subseteq Vertex
      /\ LocalIds(p) \subseteq DOMAIN graph /\ \A v \in LocalIds(p) : PartOf(v) = p
  BY GraphFacts DEF Inv, Shaped, LocalIds
<1> DEFINE sends(v) ==
      {[id |-> n, val |-> Answer(v).val] : n \in {n \in graph[v] : Answer(v).new /\ v < n}}
<1>2. AnswerUpdates(p) = UNION {sends(v) : v \in LocalIds(p)}
  BY <1>1 DEF AnswerUpdates, Answer
<1>3. \A v \in LocalIds(p) : Answer(v).val \in Nat
  <2> TAKE v \in LocalIds(p)
  <2>1. table[p] \in Seq(Label)
    BY DEF Inv, Labelled, Indexed
  <2>2. Finds(p, v)
    BY Aligned
  <2>3. Answer(v) \in Label
    BY <1>1, <2>1, <2>2 DEF Answer, Finds
  <2> QED BY <2>3 DEF Label
<1>4. AnswerUpdates(p) \subseteq [id : Vertex, val : Nat]
  BY <1>1, <1>2, <1>3
<1>5. \A v \in LocalIds(p) : Answer(v).new =>
        \A n \in graph[v] : v < n => [id |-> n, val |-> Answer(v).val] \in AnswerUpdates(p)
  BY <1>2
<1> QED BY <1>4, <1>5

LEMMA SendStep ==
  ASSUME Inv, NEW p \in Part, Send(p)
  PROVE  Inv'
<1> DEFINE m == round[p] + 1
<1>1. /\ m \in Iter /\ p \notin DOMAIN sent[m]
      /\ sent' = [i \in Iter |-> sent'[i]]
      /\ DOMAIN sent'[m] = DOMAIN sent[m] \cup {p} /\ sent'[m][p] = Sending(p)
      /\ \A q \in DOMAIN sent[m] : sent'[m][q] = sent[m][q]
      /\ \A i \in Iter : i # m => sent'[i] = sent[i]
      /\ UNCHANGED <<job, graph, table, round, updates>>
  BY SendEffect
<1>2. round \in [Part -> 0..NumIters] /\ NumIters \in Nat
  BY GraphJobsAssumption DEF Inv, Shaped
<1>3. \A i \in Iter : i # m \/ DOMAIN sent[i] # Part
  BY <1>1
<1>4. \A i \in Iter : \A q \in DOMAIN sent'[i] :
        \/ q \in DOMAIN sent[i] /\ sent'[i][q] = sent[i][q]
        \/ i = m /\ q = p /\ sent'[i][q] = Sending(p)
  BY <1>1
<1>5. \A i \in Iter : \A q \in DOMAIN sent[i] : sent'[i][q] = sent[i][q]
  BY <1>1
<1>6. \A i \in Iter : DOMAIN sent[i] = Part => sent'[i] = sent[i]
  BY <1>1, <1>3
<1>7. m = round[p] + 1
  OBVIOUS
<1> HIDE DEF m
<1>8. \A i, q : UNCHANGED <<LocalIds(q), RankIds(q), Shares(q), Finds(q, i), Answer(i)>>
  BY <1>1 DEF LocalIds, RankIds, Shares, SharesOf, Finds, Answer
<1>9. Shaped'
  BY <1>1 DEF Inv, Shaped
<1>10. InStep'
  <2>1. \A i \in Iter : DOMAIN sent'[i] \subseteq Part
    BY <1>1 DEF Inv, InStep
  <2>2. \A i \in Iter, q \in Part : i <= round'[q] => DOMAIN sent'[i] = Part
    BY <1>1, <1>6 DEF Inv, InStep
  <2>3. \A i \in Iter, q \in Part : q \in DOMAIN sent'[i] => i <= round'[q] + 1
    <3> TAKE i \in Iter, q \in Part
    <3> HAVE q \in DOMAIN sent'[i]
    <3>1. CASE q \in DOMAIN sent[i]
      BY <1>1, <3>1 DEF Inv, InStep
    <3>2. CASE i = m /\ q = p
      BY <1>1, <1>2, <1>7, <3>2
    <3> QED BY <1>4, <3>1, <3>2
  <2> QED BY <2>1, <2>2, <2>3 DEF InStep
<1>11. Summed'
  <2> SUFFICES ASSUME job' = "PageRank" PROVE Summed'
    BY DEF Summed
  <2>1. job = "PageRank"
    BY <1>1
  <2>2. \A i \in Iter : \A q \in DOMAIN sent'[i] : sent'[i][q] = Shares(q)
    <3>1. Sending(p) = Shares(p)
      BY <2>1, RankUpdatesAre DEF Sending
    <3> QED BY <1>4, <2>1, <3>1 DEF Inv, Summed
  <2>3. \A i, q : UNCHANGED <<SharesOf(i), Indexed(table[q], LocalIds(q), Rank),
                              Indexed(table[q], RankIds(q), Rank)>>
    BY <1>1, <1>8 DEF SharesOf, Indexed
  <2> QED BY <1>1, <1>8, <2>1, <2>2, <2>3 DEF Inv, Summed
<1>12. Labelled'
  <2> SUFFICES ASSUME job' = "ConnectedComponent" PROVE Labelled'
    BY DEF Labelled
  <2>1. job = "ConnectedComponent"
    BY <1>1
  <2>2. \A i \in Iter : \A q \in DOMAIN sent'[i] : sent'[i][q] \subseteq [id : Vertex, val : Nat]
    <3>1. Sending(p) \subseteq [id : Vertex, val : Nat]
      BY <2>1, AnswerUpdatesAre DEF Sending
    <3> QED BY <1>4, <2>1, <3>1 DEF Inv, Labelled
  <2>3. \A q \in Part : Indexed(table[q], LocalIds(q), Label)'
    BY <1>1, <1>8, <2>1 DEF Inv, Labelled, Indexed
  <2>4. ASSUME NEW q \in DOMAIN updates
        PROVE  (round[q] < NumIters /\ Received(q) /\ updates[q] = Incoming(q))'
    <3>1. q \in Part /\ round[q] < NumIters /\ Received(q) /\ updates[q] = Incoming(q)
      BY <2>1 DEF Inv, Labelled, Shaped
    <3>2. round[q] + 1 \in Iter
      BY <1>2, <3>1 DEF Iter
    <3>3. sent'[round[q] + 1] = sent[round[q] + 1]
      BY <1>6, <3>1, <3>2 DEF Received
    <3> QED BY <1>1, <3>1, <3>3 DEF Received, Incoming
  <2> QED BY <1>1, <2>2, <2>3, <2>4 DEF Labelled
<1>13. Spread'
  <2> SUFFICES ASSUME job' = "ConnectedComponent", NEW v \in DOMAIN graph'
               PROVE  LET q == PartOf(v) IN
                      (/\ Answer(v).new /\ round[q] < NumIters /\ q \in DOMAIN sent[round[q] + 1]
                            => Told(v, Answer(v).val, round[q] + 1)
                       /\ ~Answer(v).new => \E i \in 1..round[q] : Told(v, Answer(v).val, i))'
    BY DEF Spread
  <2> DEFINE q == PartOf(v)
             label == Answer(v).val
             ToldNow(i) == \A n \in graph[v] : v < n => [id |-> n, val |-> label] \in sent'[i][q]
  <2>1. job = "ConnectedComponent" /\ v \in DOMAIN graph /\ q \in Part /\ v \in LocalIds(q)
    BY <1>1, GraphFacts DEF Inv, Shaped
  <2>2. Answer(v)' = Answer(v) /\ graph' = graph /\ round' = round
    BY <1>1, <1>8
  <2>3. ASSUME NEW i \in Iter, q \in DOMAIN sent[i], Told(v, label, i) PROVE ToldNow(i)
    <3>1. sent'[i][q] = sent[i][q]
      BY <1>5, <2>3
    <3> QED BY <2>3, <3>1 DEF Told
  <2>4. ASSUME Answer(v).new, round[q] < NumIters, q \in DOMAIN sent'[round[q] + 1]
        PROVE  ToldNow(round[q] + 1)
    <3>1. round[q] + 1 \in Iter
      BY <1>2, <2>1, <2>4 DEF Iter
    <3>2. CASE q \in DOMAIN sent[round[q] + 1]
      <4>1. Told(v, label, round[q] + 1)
        BY <2>1, <2>4, <3>2 DEF Inv, Spread
      <4> QED BY <2>3, <3>1, <3>2, <4>1
    <3>3. CASE q = p /\ round[q] + 1 = m
      <4>1. sent'[m][p] = AnswerUpdates(p)
        BY <1>1, <2>1 DEF Sending
      <4>2. \A n \in graph[v] : v < n => [id |-> n, val |-> label] \in AnswerUpdates(p)
        BY <2>1, <2>4, <3>3, AnswerUpdatesAre
      <4> QED BY <3>3, <4>1, <4>2
    <3> QED BY <1>4, <2>4, <3>1, <3>2, <3>3
  <2>5. ASSUME ~Answer(v).new PROVE \E i \in 1..round[q] : ToldNow(i)
    <3>1. PICK i \in 1..round[q] : Told(v, label, i)
      BY <2>1, <2>5 DEF Inv, Spread
    <3>2. i \in Iter /\ i <= round[q]
      BY <1>2, <2>1 DEF Iter
    <3>3. DOMAIN sent[i] = Part
      BY <2>1, <3>2 DEF Inv, InStep
    <3> QED BY <2>1, <2>3, <3>1, <3>2, <3>3
  <2> QED BY <2>2, <2>4, <2>5 DEF Told
<1>14. Lowered'
  <2> SUFFICES ASSUME job' = "ConnectedComponent", NEW v \in DOMAIN graph',
                      NEW i \in 1..round'[PartOf(v)], NEW q \in Part, NEW r \in sent'[i][q], r.id = v
               PROVE  Answer(v)'.val <= r.val
    BY DEF Lowered
  <2>1. /\ job = "ConnectedComponent" /\ v \in DOMAIN graph /\ PartOf(v) \in Part
        /\ i \in 1..round[PartOf(v)]
    BY <1>1, GraphFacts DEF Inv, Shaped
  <2>2. i \in Iter /\ i <= round[PartOf(v)]
    BY <1>2, <2>1 DEF Iter
  <2>3. sent'[i] = sent[i]
    BY <1>6, <2>1, <2>2 DEF Inv, InStep
  <2> QED BY <1>8, <2>1, <2>3 DEF Inv, Lowered
<1> QED BY <1>9, <1>10, <1>11, <1>12, <1>13, <1>14 DEF Inv

-----------------------------------------------------------------------------
(* Reducers. *)

\* What a reducer or Apply that finishes the iteration of p does to the rounds.
LEMMA RoundDone ==
  ASSUME Inv, NEW p \in Part, round[p] < NumIters, Received(p),
         round' = [round EXCEPT ![p] = round[p] + 1], sent' = sent
  PROVE  /\ round[p] + 1 \in Iter /\ DOMAIN sent[round[p] + 1] = Part
         /\ round' \in [Part -> 0..NumIters]
         /\ round'[p] = round[p] + 1 /\ round'[p] # 0
         /\ \A q \in Part : q # p => round'[q] = round[q]
         /\ InStep'
<1>1. round \in [Part -> 0..NumIters] /\ NumIters \in Nat /\ round[p] \in 0..NumIters
  BY GraphJobsAssumption DEF Inv, Shaped
<1>2. round[p] + 1 \in Iter /\ round[p] + 1 \in 0..NumIters /\ round[p] + 1 # 0
  BY <1>1 DEF Iter
<1>3. /\ round' \in [Part -> 0..NumIters] /\ round'[p] = round[p] + 1
      /\ \A q \in Part : q # p => round'[q] = round[q]
  BY <1>1, <1>2
<1>4. DOMAIN sent[round[p] + 1] = Part
  BY DEF Received
<1>5. \A i \in Iter, q \in Part : i <= round'[q] => DOMAIN sent[i] = Part
  <2> TAKE i \in Iter, q \in Part
  <2> HAVE i <= round'[q]
  <2>1. i <= round[q] \/ (q = p /\ i = round[p] + 1)
    BY <1>1, <1>3 DEF Iter
  <2> QED BY <1>4, <2>1 DEF Inv, InStep
<1>6. \A i \in Iter, q \in Part : q \in DOMAIN sent[i] => i <= round'[q] + 1
  <2> TAKE i \in Iter, q \in Part
  <2> HAVE q \in DOMAIN sent[i]
  <2>1. i <= round[q] + 1 /\ i \in Nat /\ round[q] \in Nat
    BY <1>1 DEF Inv, InStep, Iter
  <2> QED BY <1>1, <1>3, <2>1
<1> QED BY <1>2, <1>3, <1>4, <1>5, <1>6 DEF Inv, InStep

LEMMA ReduceRanksStep ==
  ASSUME Inv, NEW p \in Part, ReduceRanks(p)
  PROVE  Inv'
<1>1. /\ job = "PageRank" /\ round[p] < NumIters /\ Received(p)
      /\ table' = [table EXCEPT ![p] = Incoming(p)]
      /\ round' = [round EXCEPT ![p] = round[p] + 1]
      /\ UNCHANGED <<job, graph, sent, updates>>
  BY DEF ReduceRanks
<1>2. /\ round[p] + 1 \in Iter /\ DOMAIN sent[round[p] + 1] = Part
      /\ round' \in [Part -> 0..NumIters]
      /\ round'[p] = round[p] + 1 /\ round'[p] # 0
      /\ \A q \in Part : q # p => round'[q] = round[q]
      /\ InStep'
  BY <1>1, RoundDone
<1>3. table = [q \in Part |-> table[q]] /\ graph \in Graphs
  BY DEF Inv, Shaped
<1>4. /\ table' = [q \in Part |-> table'[q]] /\ table'[p] = Incoming(p)
      /\ \A q \in Part : q # p => table'[q] = table[q]
  BY <1>1, <1>3
<1>5. Shaped'
  BY <1>1, <1>2, <1>4 DEF Inv, Shaped
<1>6. /\ Indexed(Incoming(p), RankIds(p), Rank)
      /\ \A i \in 1..Len(Incoming(p)) : Incoming(p)[i].val = SharesOf(Incoming(p)[i].id)
  <2> DEFINE records == UNION {sent[round[p] + 1][q] : q \in Part}
  <2>1. \A q \in Part : sent[round[p] + 1][q] = Shares(q)
    BY <1>1, <1>2 DEF Inv, Summed
  <2>2. records = UNION {Shares(q) : q \in Part}
    BY <2>1
  <2>3. Incoming(p) = Reduced(records, p)
    BY DEF Incoming
  <2> HIDE DEF records
  <2> QED BY <1>3, <2>2, <2>3, SharesReduced
<1>7. \A i, q : UNCHANGED <<LocalIds(q), RankIds(q), Shares(q), SharesOf(i)>>
  BY <1>1 DEF LocalIds, RankIds, Shares, SharesOf
<1> DEFINE RankTable(q) ==
      IF round[q] = 0 THEN Indexed(table[q], LocalIds(q), Rank)
                      ELSE /\ Indexed(table[q], RankIds(q), Rank)
                           /\ \A i \in 1..Len(table[q]) : table[q][i].val = SharesOf(table[q][i].id)
<1>8. \A q \in Part : RankTable(q)
  BY <1>1 DEF Inv, Summed
<1>9. \A q \in Part : RankTable(q)'
  <2> TAKE q \in Part
  <2>1. CASE q = p
    BY <1>2, <1>4, <1>6, <1>7, <2>1 DEF Indexed
  <2>2. CASE q # p
    BY <1>2, <1>4, <1>7, <1>8, <2>2 DEF Indexed
  <2> QED BY <2>1, <2>2
<1>10. Summed'
  BY <1>1, <1>7, <1>9 DEF Inv, Summed
<1>11. job' # "ConnectedComponent"
  BY <1>1
<1> QED BY <1>2, <1>5, <1>10, <1>11 DEF Inv, Labelled, Spread, Lowered

LEMMA ReduceUpdatesStep ==
  ASSUME Inv, NEW p \in Part, ReduceUpdates(p)
  PROVE  Inv'
<1>1. /\ job = "ConnectedComponent" /\ round[p] < NumIters /\ Received(p)
      /\ updates' = With(updates, p, Incoming(p))
      /\ UNCHANGED <<job, graph, table, round, sent>>
  BY DEF ReduceUpdates
<1>2. /\ DOMAIN updates' = DOMAIN updates \cup {p} /\ updates'[p] = Incoming(p)
      /\ \A q \in DOMAIN updates : q # p => updates'[q] = updates[q]
  BY <1>1 DEF With
<1>3. \A i, q : UNCHANGED <<LocalIds(q), Answer(i), Received(q), Incoming(q)>>
  BY <1>1 DEF LocalIds, Answer, Received, Incoming
<1>4. Shaped' /\ InStep'
  BY <1>1, <1>2 DEF Inv, Shaped, InStep
<1>5. Labelled'
  <2>1. \A q \in Part : Indexed(table[q], LocalIds(q), Label)'
    BY <1>1, <1>3 DEF Inv, Labelled, Indexed
  <2>2. \A q \in DOMAIN updates' :
          (round[q] < NumIters /\ Received(q) /\ updates[q] = Incoming(q))'
    BY <1>1, <1>2, <1>3 DEF Inv, Labelled
  <2> QED BY <1>1, <2>1, <2>2 DEF Inv, Labelled
<1>6. Spread' /\ Lowered'
  <2> QED BY <1>1, <1>3 DEF Inv, Spread, Lowered, Told
<1>7. Summed'
  BY <1>1 DEF Summed
<1> QED BY <1>4, <1>5, <1>6, <1>7 DEF Inv

-----------------------------------------------------------------------------
(* Apply. *)

LEMMA MinimumIs ==
  ASSUME NEW S, S \subseteq Nat, S # {}
  PROVE  Minimum(S) \in S /\ \A y \in S : Minimum(S) <= y
<1>1. \E x \in S : \A y \in S : x <= y
  BY LeastNatural
<1> QED BY <1>1 DEF Minimum

LEMMA UpdateFound ==
  ASSUME NEW records \in SUBSET [id : Vertex, val : Int], NEW p, NEW v \in KeysOf(records, p),
         NEW i, i = EntryOf(Reduced(records, p), v)
  PROVE  i # 0 /\ Reduced(records, p)[i].val = ValuesOf(records, v)
<1>1. /\ KeysOf(records, p) \in SUBSET Nat /\ IsFiniteSet(KeysOf(records, p))
      /\ Indexed(Reduced(records, p), KeysOf(records, p), Rank)
  BY ReducedIs, VertexIds
<1>2. i # 0 /\ i \in 1..Len(Reduced(records, p)) /\ Reduced(records, p)[i].id = v
  BY <1>1, EntryFound
<1> QED BY <1>2, ReducedIs

\* A label is lowered to the least that was sent for it, or stays; it may be lowered more.
LEMMA AppliedIs ==
  ASSUME NEW answer \in Label, NEW records \in SUBSET [id : Vertex, val : Nat],
         NEW p, PartOf(answer.id) = p,
         NEW new, new = Applied(answer, Reduced(records, p))
  PROVE  /\ new \in Label /\ new.id = answer.id /\ new.val <= answer.val
         /\ ~new.new => new.val = answer.val
         /\ \A r \in records : r.id = answer.id => new.val <= r.val
<1> DEFINE ups == Reduced(records, p)
           K == KeysOf(records, p)
           i == EntryOf(ups, answer.id)
           low == Minimum(ups[i].val)
<1>1. answer.id \in Nat /\ answer.val \in Nat /\ records \in SUBSET [id : Vertex, val : Int]
  BY DEF Label
<1>2. /\ K \in SUBSET Vertex /\ Indexed(ups, K, Rank)
      /\ \A j \in 1..Len(ups) : ups[j].val = ValuesOf(records, ups[j].id)
  BY <1>1, ReducedIs
<1>3. K \in SUBSET Nat /\ IsFiniteSet(K)
  BY <1>2, VertexIds
<1>4. ASSUME i # 0 PROVE low \in ups[i].val /\ low \in Nat /\ \A y \in ups[i].val : low <= y
  <2>1. i \in 1..Len(ups)
    <3>1. ups \in Seq(Rank)
      BY <1>2 DEF Indexed
    <3> HIDE DEF ups
    <3> QED BY <1>4, <3>1, EntryOfIs
  <2>2. ups[i].id \in K
    <3>1. Ascending(K) \in [1..Cardinality(K) -> K]
      BY <1>3, AscendingSorted
    <3> HIDE DEF K, i, ups
    <3> QED BY <1>2, <2>1, <3>1 DEF Indexed
  <2>3. ups[i].val = ValuesOf(records, ups[i].id)
    BY <1>2, <2>1
  <2>4. ups[i].val \subseteq Nat /\ ups[i].val # {}
    BY <2>2, <2>3 DEF KeysOf, ValuesOf
  <2> HIDE DEF i, ups
  <2> QED BY <2>4, MinimumIs
<1>5. new = IF i # 0 /\ low < answer.val THEN [answer EXCEPT !.val = low, !.new = TRUE]
                                         ELSE [answer EXCEPT !.new = FALSE]
  BY DEF Applied
<1>6. ASSUME NEW r \in records, r.id = answer.id PROVE i # 0 /\ r.val \in ups[i].val
  <2>1. answer.id \in K
    BY <1>6 DEF KeysOf
  <2>2. i # 0 /\ ups[i].val = ValuesOf(records, answer.id)
    BY <1>1, <2>1, UpdateFound
  <2>3. r.val \in ValuesOf(records, answer.id)
    BY <1>6 DEF ValuesOf
  <2> QED BY <2>2, <2>3
<1> HIDE DEF i, low, ups, K
<1>7. /\ new \in Label /\ new.id = answer.id /\ new.val <= answer.val
      /\ ~new.new => new.val = answer.val
  <2>1. CASE i # 0 /\ low < answer.val
    <3>1. new = [id |-> answer.id, val |-> low, new |-> TRUE]
      BY <1>5, <2>1 DEF Label
    <3>2. low \in Nat /\ low <= answer.val
      BY <1>1, <1>4, <2>1
    <3> QED BY <1>1, <3>1, <3>2 DEF Label
  <2>2. CASE ~(i # 0 /\ low < answer.val)
    <3>1. new = [id |-> answer.id, val |-> answer.val, new |-> FALSE]
      BY <1>5, <2>2 DEF Label
    <3> QED BY <1>1, <3>1 DEF Label
  <2> QED BY <2>1, <2>2
<1>8. ASSUME NEW r \in records, r.id = answer.id PROVE new.val <= r.val
  <2>1. i # 0 /\ low <= r.val /\ low \in Nat /\ r.val \in Nat
    BY <1>4, <1>6, <1>8
  <2>2. CASE low < answer.val
    <3>1. new.val = low
      BY <1>5, <2>1, <2>2 DEF Label
    <3> QED BY <2>1, <3>1
  <2>3. CASE ~(low < answer.val)
    <3>1. new.val = answer.val
      BY <1>5, <2>1, <2>3 DEF Label
    <3> QED BY <1>1, <2>1, <2>3, <3>1
  <2> QED BY <2>2, <2>3
<1> QED BY <1>7, <1>8

LEMMA AppliedAll ==
  ASSUME NEW records \in SUBSET [id : Vertex, val : Nat], NEW p, NEW answers \in Seq(Label),
         \A i \in 1..Len(answers) : PartOf(answers[i].id) = p, NEW i \in 1..Len(answers)
  PROVE  LET new == Applied(answers[i], Reduced(records, p))
         IN new \in Label /\ new.id = answers[i].id
<1>1. answers[i] \in Label /\ PartOf(answers[i].id) = p
  OBVIOUS
<1> QED BY <1>1, AppliedIs

\* Every answer of p is applied the updates that were reduced, and no other answer changes.
LEMMA ApplyEffect ==
  ASSUME Inv, NEW p \in Part, Apply(p), NEW records,
         records = UNION {sent[round[p] + 1][q] : q \in Part}
  PROVE  /\ job = "ConnectedComponent" /\ round[p] < NumIters /\ Received(p)
         /\ records \in SUBSET [id : Vertex, val : Nat]
         /\ table' = [q \in Part |-> table'[q]] /\ \A q \in Part : q # p => table'[q] = table[q]
         /\ Indexed(table'[p], LocalIds(p), Label)
         /\ \A v \in LocalIds(p) : /\ Answer(v) \in Label /\ Answer(v).id = v
                                   /\ Answer(v)' = Applied(Answer(v), Reduced(records, p))
         /\ \A v \in DOMAIN graph : PartOf(v) # p => Answer(v)' = Answer(v)
<1>1. /\ p \in DOMAIN updates
      /\ table' = [table EXCEPT ![p] = [i \in DOMAIN table[p] |-> Applied(table[p][i], updates[p])]]
  BY DEF Apply
<1>2. job = "ConnectedComponent"
  <2>1. job # "PageRank"
    BY <1>1 DEF Inv, Summed
  <2> QED BY <2>1, GraphJobsAssumption DEF Inv, Shaped
<1>3. round[p] < NumIters /\ Received(p) /\ updates[p] = Reduced(records, p)
  BY <1>1, <1>2 DEF Inv, Labelled, Incoming
<1>4. round[p] + 1 \in Iter /\ DOMAIN sent[round[p] + 1] = Part
  BY <1>3, GraphJobsAssumption DEF Inv, Shaped, Iter, Received
<1>5. records \in SUBSET [id : Vertex, val : Nat]
  BY <1>2, <1>4 DEF Inv, Labelled
<1> DEFINE ups == Reduced(records, p)
           old == table[p]
           n == Len(old)
           K == LocalIds(p)
<1>6. K \in SUBSET Nat /\ IsFiniteSet(K) /\ Indexed(old, K, Label)
  BY <1>2, GraphFacts, VertexIds DEF Inv, Shaped, Labelled
<1>7. old \in Seq(Label) /\ n \in Nat /\ DOMAIN old = 1..n /\ \A i \in 1..n : old[i] \in Label
  BY <1>6 DEF Indexed
<1>8. table = [q \in Part |-> table[q]]
  BY DEF Inv, Shaped
<1>9. /\ table' = [q \in Part |-> table'[q]] /\ \A q \in Part : q # p => table'[q] = table[q]
      /\ table'[p] = [i \in 1..n |-> Applied(old[i], ups)]
  BY <1>1, <1>3, <1>7, <1>8
<1>10. \A i \in 1..n : PartOf(old[i].id) = p
  <2>1. Ascending(K) \in [1..Cardinality(K) -> K]
    BY <1>6, AscendingSorted
  <2>2. \A i \in 1..n : old[i].id \in K
    BY <1>6, <2>1 DEF Indexed
  <2> QED BY <2>2 DEF LocalIds
<1> HIDE DEF n, old, K
<1>11. \A i \in 1..n : Applied(old[i], ups) \in Label /\ Applied(old[i], ups).id = old[i].id
  BY <1>5, <1>7, <1>10, AppliedAll DEF n
<1> HIDE DEF ups
<1>12. table'[p] \in [1..n -> Label]
  BY <1>9, <1>11
<1>13. table'[p] \in Seq(Label) /\ Len(table'[p]) = n
  BY <1>7, <1>12
<1>14. Indexed(table'[p], K, Label)
  <2>1. \A i \in 1..n : table'[p][i].id = old[i].id
    BY <1>9, <1>11
  <2> QED BY <1>6, <1>13, <2>1 DEF Indexed, n
<1>15. graph' = graph
  BY DEF Apply
<1>16. ASSUME NEW v \in K
       PROVE  /\ Answer(v) \in Label /\ Answer(v).id = v
              /\ Answer(v)' = Applied(Answer(v), ups)
  <2> DEFINE i == EntryOf(old, v)
  <2>1. i \in 1..n /\ old[i].id = v
    BY <1>6, EntryFound DEF n
  <2>2. EntryOf(table'[p], v) = i
    BY <1>6, <1>14, SameEntry
  <2>3. PartOf(v) = p
    BY DEF K, LocalIds
  <2>4. Answer(v) = old[i]
    BY <2>3 DEF Answer, old
  <2>5. Answer(v)' = table'[p][i]
    BY <2>2, <2>3 DEF Answer
  <2> HIDE DEF i
  <2> QED BY <1>7, <1>9, <2>1, <2>4, <2>5
<1>17. ASSUME NEW v \in DOMAIN graph, PartOf(v) # p PROVE Answer(v)' = Answer(v)
  <2>1. PartOf(v) \in Part
    BY GraphFacts DEF Inv, Shaped
  <2> QED BY <1>9, <1>17, <2>1 DEF Answer
<1> QED BY <1>2, <1>3, <1>5, <1>9, <1>14, <1>16, <1>17 DEF ups, K

LEMMA ApplyStep ==
  ASSUME Inv, NEW p \in Part, Apply(p)
  PROVE  Inv'
<1> DEFINE records == UNION {sent[round[p] + 1][q] : q \in Part}
           m == round[p] + 1
<1>1. /\ job = "ConnectedComponent" /\ round[p] < NumIters /\ Received(p)
      /\ records \in SUBSET [id : Vertex, val : Nat]
      /\ table' = [q \in Part |-> table'[q]] /\ \A q \in Part : q # p => table'[q] = table[q]
      /\ Indexed(table'[p], LocalIds(p), Label)
      /\ \A v \in LocalIds(p) : /\ Answer(v) \in Label /\ Answer(v).id = v
                                /\ Answer(v)' = Applied(Answer(v), Reduced(records, p))
      /\ \A v \in DOMAIN graph : PartOf(v) # p => Answer(v)' = Answer(v)
  BY ApplyEffect
<1>2. /\ round' = [round EXCEPT ![p] = round[p] + 1]
      /\ updates' = [q \in DOMAIN updates \ {p} |-> updates[q]]
      /\ UNCHANGED <<job, graph, sent>>
  BY DEF Apply
<1>3. /\ m \in Iter /\ DOMAIN sent[m] = Part
      /\ round' \in [Part -> 0..NumIters] /\ round'[p] = m
      /\ \A q \in Part : q # p => round'[q] = round[q]
      /\ InStep'
  BY <1>1, <1>2, RoundDone
<1>4. \A q : LocalIds(q)' = LocalIds(q)
  BY <1>2 DEF LocalIds
<1>5. Shaped'
  BY <1>1, <1>2, <1>3 DEF Inv, Shaped
<1>6. Summed'
  BY <1>1, <1>2 DEF Summed
<1>7. Labelled'
  <2>1. \A q \in Part : Indexed(table[q], LocalIds(q), Label)'
    <3> TAKE q \in Part
    <3>1. CASE q = p
      BY <1>1, <1>4, <3>1 DEF Indexed
    <3>2. CASE q # p
      BY <1>1, <1>4, <3>2 DEF Inv, Labelled, Indexed
    <3> QED BY <3>1, <3>2
  <2>2. ASSUME NEW q \in DOMAIN updates'
        PROVE  (round[q] < NumIters /\ Received(q) /\ updates[q] = Incoming(q))'
    <3>1. q \in DOMAIN updates /\ q # p /\ updates'[q] = updates[q] /\ q \in Part
      BY <1>2 DEF Inv, Shaped
    <3>2. round'[q] = round[q] /\ sent' = sent
      BY <1>2, <1>3, <3>1
    <3> QED BY <1>1, <3>1, <3>2 DEF Inv, Labelled, Received, Incoming
  <2> QED BY <1>1, <1>2, <2>1, <2>2 DEF Inv, Labelled
<1>8. \A v \in LocalIds(p) :
        /\ Answer(v).val \in Nat /\ Answer(v)' \in Label /\ Answer(v)'.val <= Answer(v).val
        /\ ~Answer(v)'.new => Answer(v)'.val = Answer(v).val
        /\ \A r \in records : r.id = v => Answer(v)'.val <= r.val
  <2> TAKE v \in LocalIds(p)
  <2> HIDE DEF records
  <2>1. PartOf(v) = p
    BY DEF LocalIds
  <2>2. Answer(v) \in Label /\ Answer(v).id = v /\ Answer(v)' = Applied(Answer(v), Reduced(records, p))
    BY <1>1
  <2>3. /\ Answer(v)' \in Label /\ Answer(v)'.val <= Answer(v).val
        /\ ~Answer(v)'.new => Answer(v)'.val = Answer(v).val
        /\ \A r \in records : r.id = Answer(v).id => Answer(v)'.val <= r.val
    BY <1>1, <2>1, <2>2, AppliedIs
  <2>4. Answer(v).val \in Nat
    BY <2>2 DEF Label
  <2> QED BY <2>2, <2>3, <2>4
<1>9. round[p] \in Nat /\ m = round[p] + 1 /\ round \in [Part -> 0..NumIters] /\ NumIters \in Nat
  BY GraphJobsAssumption DEF Inv, Shaped
<1>10. \A v \in DOMAIN graph :
         v \in LocalIds(PartOf(v)) /\ PartOf(v) \in Part /\ (PartOf(v) = p <=> v \in LocalIds(p))
  BY GraphFacts DEF Inv, Shaped, LocalIds
<1>11. \A q \in Part : sent[m][q] \subseteq records
  BY DEF m
<1> HIDE DEF records, m
<1> DEFINE ToldNow(v, x, i) == \A n \in graph[v] : v < n => [id |-> n, val |-> x] \in sent[i][PartOf(v)]
<1>12. Spread'
  <2> SUFFICES ASSUME NEW v \in DOMAIN graph
               PROVE  /\ (/\ Answer(v)'.new /\ round'[PartOf(v)] < NumIters
                          /\ PartOf(v) \in DOMAIN sent[round'[PartOf(v)] + 1]) =>
                           ToldNow(v, Answer(v)'.val, round'[PartOf(v)] + 1)
                      /\ ~Answer(v)'.new =>
                           \E i \in 1..round'[PartOf(v)] : ToldNow(v, Answer(v)'.val, i)
    BY <1>2 DEF Spread, Told
  <2> DEFINE P == PartOf(v)
  <2>1. /\ (Answer(v).new /\ round[P] < NumIters /\ P \in DOMAIN sent[round[P] + 1]) =>
             ToldNow(v, Answer(v).val, round[P] + 1)
        /\ ~Answer(v).new => \E i \in 1..round[P] : ToldNow(v, Answer(v).val, i)
    BY <1>1 DEF Inv, Spread, Told
  <2> HIDE DEF ToldNow
  <2>2. CASE P # p
    <3>1. Answer(v)' = Answer(v) /\ round'[P] = round[P]
      BY <1>1, <1>3, <1>10, <2>2
    <3>2. Answer(v)'.new = Answer(v).new /\ Answer(v)'.val = Answer(v).val
      BY <3>1
    <3> QED BY <2>1, <3>1, <3>2
  <2>3. CASE P = p
    <3>1. ~(round'[P] < NumIters /\ P \in DOMAIN sent[round'[P] + 1])
      <4>1. ASSUME m < NumIters PROVE m + 1 \in Iter /\ ~(m + 1 <= round[p] + 1)
        BY <1>9, <4>1 DEF Iter
      <4>2. ~(m < NumIters /\ p \in DOMAIN sent[m + 1])
        BY <4>1 DEF Inv, InStep
      <4> QED BY <1>3, <2>3, <4>2
    <3>2. ASSUME ~Answer(v)'.new
          PROVE  \E i \in 1..m : ToldNow(v, Answer(v)'.val, i)
      <4>1. Answer(v)'.val = Answer(v).val
        BY <1>8, <1>10, <2>3, <3>2
      <4>2. CASE Answer(v).new
        <5>1. round[P] < NumIters /\ P \in DOMAIN sent[round[P] + 1] /\ round[P] + 1 = m
          BY <1>1, <1>3, <1>9, <2>3
        <5>2. ToldNow(v, Answer(v).val, m)
          BY <2>1, <4>2, <5>1
        <5>3. m \in 1..m
          BY <1>9
        <5> QED BY <4>1, <5>2, <5>3
      <4>3. CASE ~Answer(v).new
        <5>1. PICK i \in 1..round[p] : ToldNow(v, Answer(v).val, i)
          BY <2>1, <2>3, <4>3
        <5>2. i \in 1..m
          BY <1>9
        <5> QED BY <4>1, <5>1, <5>2
      <4> QED BY <4>2, <4>3
    <3>3. round'[P] = m
      BY <1>3, <2>3
    <3> QED BY <3>1, <3>2, <3>3
  <2> QED BY <2>2, <2>3
<1>13. Lowered'
  <2> SUFFICES ASSUME NEW v \in DOMAIN graph, NEW i \in 1..round'[PartOf(v)], NEW q \in Part,
                      NEW r \in sent[i][q], r.id = v
               PROVE  Answer(v)'.val <= r.val
    BY <1>2 DEF Lowered
  <2>1. CASE PartOf(v) # p
    <3>1. Answer(v)' = Answer(v) /\ round'[PartOf(v)] = round[PartOf(v)]
      BY <1>1, <1>3, <1>10, <2>1
    <3> QED BY <1>1, <3>1 DEF Inv, Lowered
  <2>2. CASE PartOf(v) = p
    <3>1. v \in LocalIds(p) /\ i \in 1..m /\ m \in Nat
      BY <1>3, <1>9, <1>10, <2>2
    <3>2. CASE i = m
      <4>1. r \in records
        BY <1>11, <3>2
      <4> QED BY <1>8, <3>1, <4>1
    <3>3. CASE i # m
      <4>1. i \in 1..round[p]
        BY <1>9, <3>1, <3>3
      <4>2. Answer(v).val <= r.val
        BY <1>1, <2>2, <4>1 DEF Inv, Lowered
      <4>3. r.val \in Nat
        <5>1. i \in Iter /\ i <= round[p]
          BY <1>9, <4>1 DEF Iter
        <5>2. q \in DOMAIN sent[i]
          BY <5>1 DEF Inv, InStep
        <5>3. sent[i][q] \subseteq [id : Vertex, val : Nat]
          BY <1>1, <5>1, <5>2 DEF Inv, Labelled
        <5> QED BY <5>3
      <4>4. Answer(v)'.val <= Answer(v).val /\ Answer(v).val \in Nat /\ Answer(v)'.val \in Nat
        BY <1>8, <3>1 DEF Label
      <4> HIDE DEF ToldNow
      <4> QED BY <4>2, <4>3, <4>4
    <3> QED BY <3>2, <3>3
  <2> QED BY <2>1, <2>2
<1> QED BY <1>3, <1>5, <1>6, <1>7, <1>12, <1>13 DEF Inv

-----------------------------------------------------------------------------
(* The invariant holds at first, and in every step. *)

LEMMA InitialTables ==
  ASSUME graph \in Graphs, NEW p
  PROVE  /\ Indexed(InitialRanks(graph, p), LocalIds(p), Rank)
         /\ Indexed(InitialAnswers(graph, p), LocalIds(p), Label)
         /\ \A i \in 1..Len(InitialAnswers(graph, p)) : InitialAnswers(graph, p)[i].new
<1> DEFINE K == LocalIds(p)
           ids == Ascending(K)
           n == Cardinality(K)
           ranks == InitialRanks(graph, p)
           answers == InitialAnswers(graph, p)
<1>1. /\ n \in Nat /\ ids \in [1..n -> K] /\ DOMAIN ids = 1..n
      /\ K \subseteq Nat /\ Local(graph, p) = ids
  BY GraphFacts, VertexIds, AscendingSorted
<1>2. /\ ranks = [i \in DOMAIN ids |-> [id |-> ids[i], val |-> {Constant}]]
      /\ answers = [i \in DOMAIN ids |-> [id |-> ids[i], val |-> ids[i], new |-> TRUE]]
  BY <1>1 DEF InitialRanks, InitialAnswers
<1> HIDE DEF K, ids, n, ranks, answers
<1>3. ranks \in [1..n -> Rank] /\ \A i \in 1..n : ranks[i].id = ids[i]
  <2>1. {Constant} \in SUBSET Int
    BY DEF Constant
  <2>2. \A i \in 1..n : /\ [id |-> ids[i], val |-> {Constant}] \in Rank
                        /\ [id |-> ids[i], val |-> {Constant}].id = ids[i]
    BY <1>1, <2>1 DEF Rank
  <2> QED BY <1>1, <1>2, <2>2
<1>4. /\ answers \in [1..n -> Label]
      /\ \A i \in 1..n : answers[i].id = ids[i] /\ answers[i].new
  BY <1>1, <1>2 DEF Label
<1>5. /\ ranks \in Seq(Rank) /\ Len(ranks) = n
      /\ answers \in Seq(Label) /\ Len(answers) = n
  BY <1>1, <1>3, <1>4
<1> QED BY <1>3, <1>4, <1>5 DEF Indexed, K, ids, n, ranks, answers

LEMMA InitInv == Init => Inv
<1> SUFFICES ASSUME Init PROVE Inv
  OBVIOUS
<1>1. /\ job \in Jobs /\ graph \in Graphs /\ updates = <<>>
      /\ table = [p \in Part |-> IF job = "PageRank" THEN InitialRanks(graph, p)
                                                     ELSE InitialAnswers(graph, p)]
      /\ round = [p \in Part |-> 0] /\ sent = [i \in Iter |-> <<>>]
      /\ NumIters \in Nat /\ DOMAIN updates = {}
  BY GraphJobsAssumption DEF Init
<1>2. Shaped
  BY <1>1 DEF Shaped
<1>3. \A i \in Iter : DOMAIN sent[i] = {} /\ 1 <= i /\ i \in Nat
  BY <1>1 DEF Iter
<1>4. InStep
  BY <1>1, <1>3 DEF InStep
<1>5. Summed
  <2> SUFFICES ASSUME job = "PageRank" PROVE Summed
    BY DEF Summed
  <2>1. \A p \in Part : round[p] = 0 /\ Indexed(table[p], LocalIds(p), Rank)
    BY <1>1, InitialTables
  <2> QED BY <1>1, <1>3, <2>1 DEF Summed
<1>6. ASSUME job = "ConnectedComponent"
      PROVE  \A p \in Part : table[p] = InitialAnswers(graph, p)
  BY <1>1, <1>6
<1>7. Labelled
  <2> SUFFICES ASSUME job = "ConnectedComponent" PROVE Labelled
    BY DEF Labelled
  <2>1. \A p \in Part : Indexed(table[p], LocalIds(p), Label)
    BY <1>1, <1>6, InitialTables
  <2> QED BY <1>1, <1>3, <2>1 DEF Labelled
<1>8. Spread
  <2> SUFFICES ASSUME job = "ConnectedComponent" PROVE Spread
    BY DEF Spread
  <2>1. ASSUME NEW v \in DOMAIN graph PROVE Answer(v).new /\ round[PartOf(v)] = 0
    <3> DEFINE p == PartOf(v)
               answers == InitialAnswers(graph, p)
               i == EntryOf(answers, v)
    <3>1. p \in Part /\ v \in LocalIds(p) /\ LocalIds(p) \in SUBSET Nat /\ IsFiniteSet(LocalIds(p))
      BY <1>1, GraphFacts, VertexIds
    <3>2. table[p] = answers /\ Answer(v) = answers[i]
      BY <1>6, <3>1 DEF Answer
    <3>3. Indexed(answers, LocalIds(p), Label) /\ \A j \in 1..Len(answers) : answers[j].new
      BY <1>1, InitialTables
    <3>4. i \in 1..Len(answers)
      BY <3>1, <3>3, EntryFound
    <3> QED BY <1>1, <3>1, <3>2, <3>3, <3>4
  <2>2. ASSUME NEW v \in DOMAIN graph
        PROVE  ~(round[PartOf(v)] < NumIters /\ PartOf(v) \in DOMAIN sent[round[PartOf(v)] + 1])
    <3>1. 0 < NumIters => DOMAIN sent[0 + 1] = {}
      BY <1>1, <1>3 DEF Iter
    <3> QED BY <2>1, <3>1
  <2> QED BY <2>1, <2>2 DEF Spread
<1>9. Lowered
  <2>1. \A v \in DOMAIN graph : round[PartOf(v)] = 0
    BY <1>1, GraphFacts
  <2>2. \A i \in Int : i \notin 1..0
    OBVIOUS
  <2> QED BY <2>1, <2>2 DEF Lowered
<1> QED BY <1>2, <1>4, <1>5, <1>7, <1>8, <1>9 DEF Inv

LEMMA NextInv ==
  ASSUME Inv, [Next]_vars
  PROVE  Inv'
<1>1. CASE Next
  <2>1. PICK p \in Part : Send(p) \/ ReduceRanks(p) \/ ReduceUpdates(p) \/ Apply(p)
    BY <1>1 DEF Next
  <2> QED BY <2>1, SendStep, ReduceRanksStep, ReduceUpdatesStep, ApplyStep
<1>2. CASE UNCHANGED vars
  <2>1. UNCHANGED <<job, graph, table, round, sent, updates>>
    BY <1>2 DEF vars
  <2>2. Shaped' /\ InStep'
    BY <2>1 DEF Inv, Shaped, InStep
  <2>3. /\ \A q : LocalIds(q)' = LocalIds(q) /\ RankIds(q)' = RankIds(q) /\ Shares(q)' = Shares(q)
        /\ \A v : SharesOf(v)' = SharesOf(v)
    BY <2>1 DEF LocalIds, RankIds, Shares, SharesOf
  <2>4. Summed'
    <3>1. ASSUME job = "PageRank", NEW q \in Part
          PROVE  (IF round[q] = 0
                    THEN Indexed(table[q], LocalIds(q), Rank)
                    ELSE /\ Indexed(table[q], RankIds(q), Rank)
                         /\ \A i \in 1..Len(table[q]) : table[q][i].val = SharesOf(table[q][i].id))'
      <4>1. CASE round[q] = 0
        BY <2>1, <2>3, <3>1, <4>1 DEF Inv, Summed, Indexed
      <4>2. CASE round[q] # 0
        BY <2>1, <2>3, <3>1, <4>2 DEF Inv, Summed, Indexed
      <4> QED BY <4>1, <4>2
    <3>2. job = "PageRank" =>
            (updates = <<>> /\ \A i \in Iter : \A q \in DOMAIN sent[i] : sent[i][q] = Shares(q))'
      BY <2>1, <2>3 DEF Inv, Summed
    <3> QED BY <2>1, <3>1, <3>2 DEF Summed
  <2>5. Labelled'
    <3>1. job = "ConnectedComponent" => \A q \in Part : Indexed(table[q], LocalIds(q), Label)'
      BY <2>1, <2>3 DEF Inv, Labelled, Indexed
    <3>2. \A q \in DOMAIN updates : Received(q)' = Received(q) /\ Incoming(q)' = Incoming(q)
      BY <2>1 DEF Received, Incoming
    <3> QED BY <2>1, <3>1, <3>2 DEF Inv, Labelled
  <2>6. Spread' /\ Lowered'
    BY <2>1 DEF Inv, Spread, Lowered, Told, Answer
  <2> QED BY <2>2, <2>4, <2>5, <2>6 DEF Inv
<1> QED BY <1>1, <1>2

\* The invariant holds in every state of every behaviour of the jobs.
THEOREM GraphJobsInvariant == Spec => []Inv
<1> QED BY InitInv, NextInv, PTL DEF Spec

-----------------------------------------------------------------------------
(* What the runs check. *)

(***************************************************************************)
(* pr.cc:114 asserts that the entry found for a vertex is that of the      *)
(* vertex: it is, in every partition and iteration, whatever the graph.    *)
(***************************************************************************)
THEOREM EntriesStayAligned == Spec => []EntriesAligned
<1>1. Inv => EntriesAligned
  <2> SUFFICES ASSUME Inv, NEW p \in Part, NEW v \in ToSet(Local(graph, p))
               PROVE  LET i == EntryOf(table[p], v) IN i # 0 /\ table[p][i].id = v
    BY DEF EntriesAligned
  <2>1. v \in LocalIds(p)
    BY GraphFacts DEF Inv, Shaped
  <2> QED BY <2>1, Aligned DEF Finds
<1> QED BY <1>1, GraphJobsInvariant, PTL

(***************************************************************************)
(* After an iteration of PageRank every vertex that has a line or is a     *)
(* neighbour has one rank, the sum of its constant and of one share of     *)
(* every vertex it is a neighbour of; no other id has a rank.              *)
(***************************************************************************)
THEOREM RanksAddUp == Spec => []RanksComplete
<1>1. Inv => RanksComplete
  <2> SUFFICES ASSUME Inv, job = "PageRank", NEW p \in Part, round[p] > 0
               PROVE  ToSet(table[p]) = {[id |-> v, val |-> SharesOf(v)] : v \in RankIds(p)}
    BY DEF RanksComplete, RankIds
  <2> DEFINE K == RankIds(p)
             n == Len(table[p])
             ids == Ascending(K)
  <2>1. round[p] # 0
    BY DEF Inv, Shaped
  <2>2. /\ Indexed(table[p], K, Rank)
        /\ \A i \in 1..n : table[p][i].val = SharesOf(table[p][i].id)
    BY <2>1 DEF Inv, Summed
  <2>3. K \in SUBSET Nat /\ IsFiniteSet(K)
    BY GraphFacts, VertexIds DEF Inv, Shaped
  <2>4. /\ n \in Nat /\ DOMAIN table[p] = 1..n /\ n = Cardinality(K)
        /\ \A i \in 1..n : table[p][i] \in Rank /\ table[p][i].id = ids[i]
    BY <2>2 DEF Indexed
  <2>5. (\A i \in 1..n : ids[i] \in K) /\ \A v \in K : \E i \in 1..n : ids[i] = v
    BY <2>3, <2>4, AscendingSorted
  <2> HIDE DEF K, n, ids
  <2>6. \A i \in 1..n : table[p][i] = [id |-> ids[i], val |-> SharesOf(ids[i])]
    BY <2>2, <2>4 DEF Rank
  <2>7. ToSet(table[p]) = {table[p][i] : i \in 1..n}
    BY <2>4 DEF ToSet
  <2> DEFINE RankOf(v) == [id |-> v, val |-> SharesOf(v)]
  <2>8. \A i \in 1..n : table[p][i] = RankOf(ids[i])
    BY <2>6
  <2> HIDE DEF RankOf
  <2>9. ToSet(table[p]) = {RankOf(v) : v \in K}
    <3>1. \A x \in ToSet(table[p]) : x \in {RankOf(v) : v \in K}
      BY <2>5, <2>7, <2>8
    <3>2. \A v \in K : RankOf(v) \in ToSet(table[p])
      BY <2>5, <2>7, <2>8
    <3> QED BY <3>1, <3>2
  <2> QED BY <2>9 DEF K, RankOf
<1> QED BY <1>1, GraphJobsInvariant, PTL

(***************************************************************************)
(* ConnectedComponent sends a label only in the iteration after it was     *)
(* lowered: an answer that is no longer new has reached the neighbours it  *)
(* is for, once they have done as many iterations.                         *)
(***************************************************************************)
THEOREM LabelsSettle == Spec => []Settled
<1>1. Inv => Settled
  <2> SUFFICES ASSUME Inv, job = "ConnectedComponent", NEW v \in DOMAIN graph,
                      NEW u \in graph[v] \cap DOMAIN graph, v < u, ~Answer(v).new,
                      round[PartOf(u)] >= round[PartOf(v)]
               PROVE  Answer(u).val <= Answer(v).val
    BY DEF Settled
  <2>1. PartOf(v) \in Part /\ PartOf(u) \in Part
    BY GraphFacts DEF Inv, Shaped
  <2>2. PICK i \in 1..round[PartOf(v)] : Told(v, Answer(v).val, i)
    BY DEF Inv, Spread
  <2> DEFINE r == [id |-> u, val |-> Answer(v).val]
  <2>3. r \in sent[i][PartOf(v)] /\ r.id = u /\ r.val = Answer(v).val
    BY <2>2 DEF Told
  <2>4. i \in 1..round[PartOf(u)]
    BY <2>1, <2>2 DEF Inv, Shaped
  <2> HIDE DEF r
  <2> QED BY <2>1, <2>3, <2>4 DEF Inv, Lowered
<1> QED BY <1>1, GraphJobsInvariant, PTL

-----------------------------------------------------------------------------
(* The partitions do not all wait for each other. *)

CanSend(p) ==
  /\ round[p] < NumIters /\ p \notin DOMAIN sent[round[p] + 1]
  /\ \A v \in ToSet(Local(graph, p)) : EntryOf(table[p], v) # 0

CanReduce(p) ==
  /\ round[p] < NumIters /\ Received(p)
  /\ \/ job = "PageRank"
     \/ job = "ConnectedComponent" /\ p \notin DOMAIN updates

CanApply(p) == p \in DOMAIN updates

SomePartMoves ==
  (\E p \in Part : round[p] # NumIters) =>
     \E p \in Part : CanSend(p) \/ CanReduce(p) \/ CanApply(p)

(***************************************************************************)
(* A reducer waits for the messages of all partitions, and a partition     *)
(* sends only when its own closures of the iteration before are done: yet  *)
(* until all have done n_iters iterations the guard of some closure holds, *)
(* that of a partition that is behind if that of no other.                 *)
(***************************************************************************)
THEOREM NotAllWait == Spec => []SomePartMoves
<1>1. Inv => SomePartMoves
  <2> SUFFICES ASSUME Inv, NEW o \in Part, round[o] # NumIters
               PROVE  \E p \in Part : CanSend(p) \/ CanReduce(p) \/ CanApply(p)
    BY DEF SomePartMoves
  <2> DEFINE Rounds == {round[q] : q \in Part}
  <2>1. NumIters \in Nat /\ round \in [Part -> 0..NumIters] /\ job \in Jobs
    BY GraphJobsAssumption DEF Inv, Shaped
  <2>2. Rounds # {} /\ Rounds \subseteq Nat
    BY <2>1
  <2>3. PICK m \in Rounds : \A x \in Rounds : m <= x
    <3> HIDE DEF Rounds
    <3> QED BY <2>2, LeastNatural
  <2>4. PICK p \in Part : round[p] = m /\ \A q \in Part : round[p] <= round[q]
    BY <2>3
  <2>5. round[p] < NumIters /\ round[p] + 1 \in Iter /\ round[p] \in Nat
    <3>1. round[p] <= round[o] /\ round[o] \in 0..NumIters /\ round[p] \in 0..NumIters
      BY <2>1, <2>4
    <3> QED BY <2>1, <3>1 DEF Iter
  <2>6. ASSUME NEW q \in Part, q \notin DOMAIN sent[round[p] + 1] PROVE CanSend(q)
    <3>1. round[q] = round[p]
      <4>1. ~(round[p] + 1 <= round[q])
        BY <2>5, <2>6 DEF Inv, InStep
      <4> QED BY <2>1, <2>4, <4>1
    <3>2. \A v \in ToSet(Local(graph, q)) : EntryOf(table[q], v) # 0
      BY Aligned, GraphFacts DEF Inv, Shaped, Finds
    <3> QED BY <2>5, <2>6, <3>1, <3>2 DEF CanSend
  <2>7. CASE Received(p)
    <3>1. job = "PageRank" \/ job = "ConnectedComponent"
      BY <2>1, GraphJobsAssumption
    <3> QED BY <2>5, <2>7, <3>1 DEF CanReduce, CanApply
  <2>8. CASE ~Received(p)
    <3>1. DOMAIN sent[round[p] + 1] \subseteq Part
      BY <2>5 DEF Inv, InStep
    <3>2. \E q \in Part : q \notin DOMAIN sent[round[p] + 1]
      BY <2>8, <3>1 DEF Received
    <3> QED BY <2>6, <3>2
  <2> QED BY <2>7, <2>8
<1> QED BY <1>1, GraphJobsInvariant, PTL
=============================================================================
