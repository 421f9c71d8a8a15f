------------------------- MODULE ShuffleReduceProofs -------------------------
(***************************************************************************)
(* For senders, partitions, keys, hashes and records of any number: no     *)
(* record is lost or repeated in a shuffle, and what the partitions of the *)
(* result hold is what GroupByKey says, in whatever order the messages     *)
(* arrive and records of equal key are sorted.                             *)
(*                                                                         *)
(* Every sequence of records there is, in an input, in a message or in a   *)
(* result, carries a set of ids: each in one of its records, whose key is  *)
(* theirs.  The closures keep that set, and split it by destination.       *)
(***************************************************************************)
EXTENDS ShuffleReduce, FiniteSetTheorems, WellFoundedInduction, TLAPS

-----------------------------------------------------------------------------
(* Loops. *)

\* What holds at first, and after each step if before it, holds at the end.
LEMMA Steps ==
  ASSUME NEW m \in Nat, NEW n \in Nat, m <= n, NEW T,
         m \in T, \A i \in (m + 1)..n : i - 1 \in T => i \in T
  PROVE  m..n \subseteq T
<1> DEFINE Rest == (m..n) \ T
<1> SUFFICES ASSUME Rest # {} PROVE FALSE
  OBVIOUS
<1>1. Rest \subseteq Nat
  OBVIOUS
<1>2. PICK x \in Rest : \A y \in Rest : ~ (<<y, x>> \in OpToRel(<, Nat))
  BY <1>1, NatLessThanWellFounded, WFMin
<1>3. x \in (m + 1)..n /\ x - 1 \in m..n /\ x \notin T
  <2>1. x \in m..n /\ x \notin T /\ x # m
    OBVIOUS
  <2> QED BY <2>1
<1>4. <<x - 1, x>> \in OpToRel(<, Nat)
  BY <1>3 DEF OpToRel
<1>5. x - 1 \in T
  BY <1>2, <1>3, <1>4
<1> QED BY <1>3, <1>5

\* f is what a loop goes through from base on, its turns being those from m + 1 to n.
Runs(f, m, n, base, turn) ==
  f = [i \in m..n |-> IF i = m THEN base ELSE turn[i][f[i - 1]]]

\* A loop has a run if its turns are defined on what the turns before may leave.
LEMMA LoopRuns ==
  ASSUME NEW m \in Nat, NEW n \in Nat, m <= n, NEW T, NEW base, base \in T[m], NEW turn,
         \A i \in (m + 1)..n : \A q \in T[i - 1] : turn[i][q] \in T[i]
  PROVE  \E f : Runs(f, m, n, base, turn) /\ \A i \in m..n : f[i] \in T[i]
<1> DEFINE Run(k, f) == Runs(f, m, k, base, turn) /\ \A i \in m..k : f[i] \in T[i]
           Good == {k \in m..n : \E f : Run(k, f)}
<1>1. m \in Good
  <2> DEFINE f == [i \in m..m |-> base]
  <2>1. \A i \in m..m : i = m
    OBVIOUS
  <2>2. Run(m, f)
    BY <2>1 DEF Runs
  <2> HIDE DEF f, Run
  <2> QED BY <2>2
<1>2. ASSUME NEW k \in (m + 1)..n, k - 1 \in Good PROVE k \in Good
  <2>1. PICK f : Run(k - 1, f)
    BY <1>2
  <2> DEFINE g == [i \in m..k |-> IF i = k THEN turn[k][f[k - 1]] ELSE f[i]]
  <2>2. k - 1 \in m..(k - 1) /\ k \in m..k /\ k # m /\ k \in m..n
    OBVIOUS
  <2>3. \A i \in m..(k - 1) : g[i] = f[i] /\ i # k
    OBVIOUS
  <2>4. g[k] = turn[k][g[k - 1]]
    BY <2>2, <2>3
  <2>5. \A i \in m..(k - 1) : g[i] = IF i = m THEN base ELSE turn[i][g[i - 1]]
    <3> SUFFICES ASSUME NEW i \in m..(k - 1)
                 PROVE  g[i] = IF i = m THEN base ELSE turn[i][g[i - 1]]
      OBVIOUS
    <3>1. f[i] = IF i = m THEN base ELSE turn[i][f[i - 1]]
      BY <2>1 DEF Runs
    <3>2. i # m => i - 1 \in m..(k - 1)
      OBVIOUS
    <3> QED BY <3>1, <3>2, <2>3
  <2>6. \A i \in m..k : i = k \/ i \in m..(k - 1)
    OBVIOUS
  <2>7. g = [i \in m..k |-> g[i]]
    OBVIOUS
  <2>8. \A i \in m..k : g[i] \in T[i]
    BY <2>1, <2>2, <2>3, <2>4, <2>6
  <2> HIDE DEF g
  <2>9. \A i \in m..k : g[i] = IF i = m THEN base ELSE turn[i][g[i - 1]]
    BY <2>2, <2>4, <2>5, <2>6
  <2>10. Run(k, g)
    BY <2>7, <2>8, <2>9 DEF Runs
  <2> HIDE DEF Run
  <2> QED BY <2>2, <2>10
<1>3. m..n \subseteq Good
  <2> HIDE DEF Good
  <2> QED BY <1>1, <1>2, Steps
<1>4. n \in Good
  BY <1>3
<1> QED BY <1>4

\* What a run of a loop leaves: what its turns keep.
LEMMA LoopKeeps ==
  ASSUME NEW m \in Nat, NEW n \in Nat, m <= n, NEW T, NEW f, f[m] \in T[m],
         \A i \in (m + 1)..n : f[i - 1] \in T[i - 1] => f[i] \in T[i]
  PROVE  f[n] \in T[n]
<1> DEFINE Good == {i \in m..n : f[i] \in T[i]}
<1>1. m \in Good /\ \A i \in (m + 1)..n : i - 1 \in Good => i \in Good
  OBVIOUS
<1>2. m..n \subseteq Good
  <2> HIDE DEF Good
  <2> QED BY <1>1, Steps
<1> QED BY <1>2

-----------------------------------------------------------------------------
(* Records, and the ids they are made of; key gives the key of an id. *)

IdsOf(r) == DOMAIN r.val

\* The records that may be made of those of one key.
Made(key) ==
  {r \in [key : Key, val : UNION {[B -> {1}] : B \in SUBSET DOMAIN key}] :
     IdsOf(r) # {} /\ \A x \in IdsOf(r) : key[x] = r.key}

\* q is a sequence of records made of those with the ids R, each of them in one.
Carries(q, R, key) ==
  /\ q \in Seq(Made(key))
  /\ \A i, j \in 1..Len(q) : i # j => IdsOf(q[i]) \cap IdsOf(q[j]) = {}
  /\ \A i \in 1..Len(q) : IdsOf(q[i]) \subseteq R
  /\ \A x \in R : \E i \in 1..Len(q) : x \in IdsOf(q[i])

\* No records have been merged.
Single(q) == \A i \in 1..Len(q) : \E x : IdsOf(q[i]) = {x}

\* One record for every key, in the order of the keys.
Ascending(q) == \A i, j \in 1..Len(q) : i < j => q[i].key < q[j].key
InOrder(q) == \A i, j \in 1..Len(q) : i < j => q[i].key <= q[j].key

\* What a record is made of: its ids, each once, all of its key.
LEMMA MadeIs ==
  ASSUME NEW key, NEW r \in Made(key)
  PROVE  /\ r = [key |-> r.key, val |-> r.val] /\ r.key \in Key
         /\ r.val = [x \in IdsOf(r) |-> 1]
         /\ IdsOf(r) # {} /\ IdsOf(r) \subseteq DOMAIN key
         /\ \A x \in IdsOf(r) : key[x] = r.key
<1>1. /\ r \in [key : Key, val : UNION {[B -> {1}] : B \in SUBSET DOMAIN key}]
      /\ IdsOf(r) # {} /\ \A x \in IdsOf(r) : key[x] = r.key
  BY DEF Made
<1>2. PICK B \in SUBSET DOMAIN key : r.val \in [B -> {1}]
  BY <1>1
<1>3. IdsOf(r) = B
  BY <1>2 DEF IdsOf
<1> QED BY <1>1, <1>2, <1>3

\* A nonempty set of ids of one key makes a record.
LEMMA MadeFrom ==
  ASSUME NEW key, NEW B \in SUBSET DOMAIN key, B # {}, NEW k \in Key, \A x \in B : key[x] = k
  PROVE  LET r == [key |-> k, val |-> [x \in B |-> 1]] IN r \in Made(key) /\ IdsOf(r) = B
<1> DEFINE r == [key |-> k, val |-> [x \in B |-> 1]]
<1>1. r.val \in [B -> {1}] /\ r.key = k /\ IdsOf(r) = B
  BY DEF IdsOf
<1>2. r \in [key : Key, val : UNION {[C -> {1}] : C \in SUBSET DOMAIN key}]
  BY <1>1
<1> HIDE DEF r
<1>3. r \in Made(key)
  BY <1>1, <1>2 DEF Made
<1> QED BY <1>1, <1>3 DEF r

\* Merging records of equal key, none with an id of the other.
LEMMA MergeMade ==
  ASSUME NEW key, NEW a \in Made(key), NEW b \in Made(key), a.key = b.key,
         IdsOf(a) \cap IdsOf(b) = {}
  PROVE  /\ Merge(a, b) \in Made(key) /\ Merge(a, b).key = a.key
         /\ IdsOf(Merge(a, b)) = IdsOf(a) \cup IdsOf(b)
<1> DEFINE B == IdsOf(a) \cup IdsOf(b)
<1>1. /\ a = [key |-> a.key, val |-> a.val] /\ a.val = [x \in IdsOf(a) |-> 1]
      /\ b.val = [x \in IdsOf(b) |-> 1] /\ a.key \in Key
      /\ B \in SUBSET DOMAIN key /\ B # {} /\ \A x \in B : key[x] = a.key
  BY MadeIs
<1>2. a.val (+) b.val = [x \in B |-> 1]
  <2>1. \A x \in B : (IF x \in IdsOf(a) THEN a.val[x] ELSE 0)
                       + (IF x \in IdsOf(b) THEN b.val[x] ELSE 0) = 1
    BY <1>1
  <2>2. a.val (+) b.val = [x \in B |-> (IF x \in IdsOf(a) THEN a.val[x] ELSE 0)
                                         + (IF x \in IdsOf(b) THEN b.val[x] ELSE 0)]
    BY DEF (+), IdsOf
  <2> HIDE DEF B
  <2> QED BY <2>1, <2>2
<1>3. Merge(a, b) = [key |-> a.key, val |-> [x \in B |-> 1]]
  BY <1>1, <1>2 DEF Merge
<1> HIDE DEF B
<1>4. Merge(a, b) \in Made(key) /\ IdsOf(Merge(a, b)) = B
  BY <1>1, <1>3, MadeFrom
<1> QED BY <1>3, <1>4 DEF B

\* No records carry no ids.
LEMMA EmptyCarries ==
  ASSUME NEW key
  PROVE  Carries(<<>>, {}, key) /\ Single(<<>>) /\ Ascending(<<>>)
BY DEF Carries, Single, Ascending

\* A record more, with ids that were not carried.
LEMMA AppendCarries ==
  ASSUME NEW key, NEW q, NEW R, Carries(q, R, key), NEW r \in Made(key), IdsOf(r) \cap R = {}
  PROVE  /\ Carries(Append(q, r), R \cup IdsOf(r), key)
         /\ Single(q) /\ (\E x : IdsOf(r) = {x}) => Single(Append(q, r))
         /\ Ascending(q) /\ (\A i \in 1..Len(q) : q[i].key < r.key) => Ascending(Append(q, r))
<1> DEFINE p == Append(q, r)
<1>1. q \in Seq(Made(key)) /\ Len(q) \in Nat
  BY DEF Carries
<1>2. /\ p \in Seq(Made(key)) /\ Len(p) = Len(q) + 1
      /\ p[Len(q) + 1] = r /\ \A i \in 1..Len(q) : p[i] = q[i]
  BY <1>1
<1>3. \A i \in 1..Len(p) : i = Len(q) + 1 \/ i \in 1..Len(q)
  BY <1>1, <1>2
<1>4. Len(q) + 1 \in 1..Len(p) /\ \A i \in 1..Len(q) : i \in 1..Len(p)
  BY <1>1, <1>2
<1> HIDE DEF p
<1>5. \A i, j \in 1..Len(p) : i # j => IdsOf(p[i]) \cap IdsOf(p[j]) = {}
  BY <1>2, <1>3 DEF Carries
<1>6. \A i \in 1..Len(p) : IdsOf(p[i]) \subseteq R \cup IdsOf(r)
  BY <1>2, <1>3 DEF Carries
<1>7. \A x \in R \cup IdsOf(r) : \E i \in 1..Len(p) : x \in IdsOf(p[i])
  <2> TAKE x \in R \cup IdsOf(r)
  <2>1. CASE x \in IdsOf(r)
    BY <1>2, <1>4, <2>1
  <2>2. CASE x \in R
    BY <1>2, <1>4, <2>2 DEF Carries
  <2> QED BY <2>1, <2>2
<1>8. Carries(p, R \cup IdsOf(r), key)
  BY <1>2, <1>5, <1>6, <1>7 DEF Carries
<1>9. Single(q) /\ (\E x : IdsOf(r) = {x}) => Single(p)
  BY <1>2, <1>3 DEF Single
<1>10. Ascending(q) /\ (\A i \in 1..Len(q) : q[i].key < r.key) => Ascending(p)
  <2> SUFFICES ASSUME Ascending(q), \A i \in 1..Len(q) : q[i].key < r.key,
                      NEW i \in 1..Len(p), NEW j \in 1..Len(p), i < j
               PROVE  p[i].key < p[j].key
    BY DEF Ascending
  <2>1. i \in 1..Len(q)
    BY <1>1, <1>2
  <2> QED BY <1>2, <1>3, <2>1 DEF Ascending
<1> QED BY <1>8, <1>9, <1>10 DEF p

\* Two sequences with different ids, one after the other.
LEMMA ConcatCarries ==
  ASSUME NEW key, NEW a, NEW b, NEW A, NEW B, Carries(a, A, key), Carries(b, B, key),
         A \cap B = {}
  PROVE  /\ Carries(a \o b, A \cup B, key)
         /\ Single(a) /\ Single(b) => Single(a \o b)
<1> DEFINE p == a \o b
<1>1. a \in Seq(Made(key)) /\ b \in Seq(Made(key)) /\ Len(a) \in Nat /\ Len(b) \in Nat
  BY DEF Carries
<1>2. /\ p \in Seq(Made(key)) /\ Len(p) = Len(a) + Len(b)
      /\ \A i \in 1..Len(p) : p[i] = IF i <= Len(a) THEN a[i] ELSE b[i - Len(a)]
  BY <1>1
<1> HIDE DEF p
<1>3. \A i \in 1..Len(p) : \/ i \in 1..Len(a) /\ p[i] = a[i]
                           \/ i - Len(a) \in 1..Len(b) /\ p[i] = b[i - Len(a)]
  BY <1>1, <1>2
<1>4. /\ \A i \in 1..Len(a) : i \in 1..Len(p) /\ p[i] = a[i]
      /\ \A i \in 1..Len(b) : i + Len(a) \in 1..Len(p) /\ p[i + Len(a)] = b[i]
  <2>1. \A i \in 1..Len(a) : i \in 1..Len(p) /\ i <= Len(a)
    BY <1>1, <1>2
  <2>2. \A i \in 1..Len(b) : /\ i + Len(a) \in 1..Len(p) /\ ~(i + Len(a) <= Len(a))
                            /\ i + Len(a) - Len(a) = i
    BY <1>1, <1>2
  <2> QED BY <1>2, <2>1, <2>2
<1>5. ASSUME NEW i \in 1..Len(p), NEW j \in 1..Len(p), i # j
      PROVE  IdsOf(p[i]) \cap IdsOf(p[j]) = {}
  <2>1. /\ \A k \in 1..Len(a) : IdsOf(a[k]) \subseteq A
        /\ \A k \in 1..Len(b) : IdsOf(b[k]) \subseteq B
        /\ \A k, l \in 1..Len(a) : k # l => IdsOf(a[k]) \cap IdsOf(a[l]) = {}
        /\ \A k, l \in 1..Len(b) : k # l => IdsOf(b[k]) \cap IdsOf(b[l]) = {}
    BY DEF Carries
  <2>2. i - Len(a) # j - Len(a)
    BY <1>1, <1>2, <1>5
  <2> QED BY <1>3, <1>5, <2>1, <2>2
<1>6. \A i \in 1..Len(p) : IdsOf(p[i]) \subseteq A \cup B
  BY <1>3 DEF Carries
<1>7. \A x \in A \cup B : \E i \in 1..Len(p) : x \in IdsOf(p[i])
  <2> TAKE x \in A \cup B
  <2>1. CASE x \in A
    BY <1>4, <2>1 DEF Carries
  <2>2. CASE x \in B
    BY <1>4, <2>2 DEF Carries
  <2> QED BY <2>1, <2>2
<1>8. Carries(p, A \cup B, key)
  BY <1>2, <1>5, <1>6, <1>7 DEF Carries
<1>9. ASSUME Single(a), Single(b) PROVE Single(p)
  <2>1. /\ \A i \in 1..Len(a) : \E x : IdsOf(a[i]) = {x}
        /\ \A i \in 1..Len(b) : \E x : IdsOf(b[i]) = {x}
    BY <1>9 DEF Single
  <2>2. ASSUME NEW i \in 1..Len(p) PROVE \E x : IdsOf(p[i]) = {x}
    <3>1. CASE i \in 1..Len(a) /\ p[i] = a[i]
      BY <2>1, <3>1
    <3>2. CASE i - Len(a) \in 1..Len(b) /\ p[i] = b[i - Len(a)]
      BY <2>1, <3>2
    <3> QED BY <1>3, <3>1, <3>2
  <2> QED BY <2>2 DEF Single
<1> QED BY <1>8, <1>9 DEF p

\* Sorting keeps what is carried.
LEMMA SortingCarries ==
  ASSUME NEW key, NEW p, NEW R, Carries(p, R, key), NEW q \in Sortings(p)
  PROVE  Carries(q, R, key) /\ InOrder(q)
<1> DEFINE D == 1..Len(p)
<1>1. p \in Seq(Made(key)) /\ Len(p) \in Nat /\ DOMAIN p = D
  BY DEF Carries
<1>2. PICK f \in Bijection(D, D) : q = [i \in D |-> p[f[i]]]
  BY <1>1 DEF Sortings
<1>3. /\ f \in [D -> D] /\ \A i, j \in D : i # j => f[i] # f[j]
      /\ \A j \in D : \E i \in D : f[i] = j
  BY <1>2 DEF Bijection, Injection, Surjection, IsInjective
<1>4. q \in [D -> Made(key)]
  BY <1>1, <1>2, <1>3
<1>5. q \in Seq(Made(key)) /\ Len(q) = Len(p) /\ DOMAIN q = D
  BY <1>1, <1>4
<1>6. \A i \in D : f[i] \in D /\ q[i] = p[f[i]]
  BY <1>2, <1>3
<1>7. /\ \A i, j \in D : i # j => IdsOf(p[i]) \cap IdsOf(p[j]) = {}
      /\ \A i \in D : IdsOf(p[i]) \subseteq R
      /\ \A x \in R : \E i \in D : x \in IdsOf(p[i])
  BY DEF Carries
<1>8. \A i, j \in D : i < j => q[i].key <= q[j].key
  <2>1. \A i, j \in DOMAIN q : i < j => q[i].key <= q[j].key
    BY DEF Sortings
  <2> QED BY <1>5, <2>1
<1> HIDE DEF D
<1>9. /\ \A i, j \in D : i # j => IdsOf(q[i]) \cap IdsOf(q[j]) = {}
      /\ \A i \in D : IdsOf(q[i]) \subseteq R
  <2>1. ASSUME NEW i \in D, NEW j \in D, i # j PROVE IdsOf(q[i]) \cap IdsOf(q[j]) = {}
    <3>1. f[i] \in D /\ f[j] \in D /\ f[i] # f[j] /\ q[i] = p[f[i]] /\ q[j] = p[f[j]]
      BY <1>3, <1>6, <2>1
    <3> QED BY <1>7, <3>1
  <2>2. \A i \in D : IdsOf(q[i]) \subseteq R
    BY <1>6, <1>7
  <2> QED BY <2>1, <2>2
<1>10. \A x \in R : \E i \in D : x \in IdsOf(q[i])
  <2> TAKE x \in R
  <2>1. PICK j \in D : x \in IdsOf(p[j])
    BY <1>7
  <2>2. PICK i \in D : f[i] = j
    BY <1>3
  <2> QED BY <1>6, <2>1, <2>2
<1> QED BY <1>5, <1>8, <1>9, <1>10 DEF Carries, InOrder, D

-----------------------------------------------------------------------------
(* Groups of equal key, as CombineStep and CompactStep merge them. *)

IdsOfSpan(q, a, b) == UNION {IdsOf(q[j]) : j \in a..b}

\* After i records of q: those before cur are merged in out, those from cur on in r.
Grouped(out, cur, r, q, i, key) ==
  /\ cur \in 1..i
  /\ Carries(out, IdsOfSpan(q, 1, cur - 1), key)
  /\ r \in Made(key) /\ IdsOf(r) = IdsOfSpan(q, cur, i) /\ r.key = q[cur].key
  /\ InOrder(q) => (Ascending(out) /\ \A k \in 1..Len(out) : out[k].key < r.key)

\* The ids of a span that is one record longer.
LEMMA SpanAppend ==
  ASSUME NEW q, NEW a \in Nat, NEW i \in Nat, a <= i
  PROVE  IdsOfSpan(q, a, i) = IdsOfSpan(q, a, i - 1) \cup IdsOf(q[i])
<1>1. a..i = (a..(i - 1)) \cup {i}
  OBVIOUS
<1> QED BY <1>1 DEF IdsOfSpan

\* Spans that do not overlap have no ids in common.
LEMMA SpansDisjoint ==
  ASSUME NEW key, NEW q, NEW R, Carries(q, R, key),
         NEW a \in 1..Len(q), NEW b \in 0..Len(q), NEW c \in 1..Len(q), NEW d \in 1..Len(q), b < c
  PROVE  IdsOfSpan(q, a, b) \cap IdsOfSpan(q, c, d) = {}
<1>1. Len(q) \in Nat
  BY DEF Carries
<1>2. ASSUME NEW i \in a..b, NEW j \in c..d PROVE IdsOf(q[i]) \cap IdsOf(q[j]) = {}
  <2>1. i \in 1..Len(q) /\ j \in 1..Len(q) /\ i # j
    BY <1>1
  <2> QED BY <2>1 DEF Carries
<1> SUFFICES ASSUME NEW x \in IdsOfSpan(q, a, b), x \in IdsOfSpan(q, c, d) PROVE FALSE
  OBVIOUS
<1>3. PICK i \in a..b : x \in IdsOf(q[i])
  BY DEF IdsOfSpan
<1>4. PICK j \in c..d : x \in IdsOf(q[j])
  BY DEF IdsOfSpan
<1>5. IdsOf(q[i]) \cap IdsOf(q[j]) = {}
  BY <1>2
<1> QED BY <1>3, <1>4, <1>5

\* The span of all records has all ids that are carried.
LEMMA SpanIsAll ==
  ASSUME NEW key, NEW q, NEW R, Carries(q, R, key)
  PROVE  IdsOfSpan(q, 1, Len(q)) = R
BY DEF Carries, IdsOfSpan

\* The key of a record is that of its ids.
LEMMA KeyOfRecord ==
  ASSUME NEW key, NEW q, NEW R, Carries(q, R, key), NEW i \in 1..Len(q)
  PROVE  q[i] \in Made(key) /\ q[i].key \in Nat
<1>1. q[i] \in Made(key)
  BY DEF Carries
<1> QED BY <1>1, MadeIs, ShuffleAssumption

\* Before the first turn the group is the first record.
LEMMA FirstGrouped ==
  ASSUME NEW key, NEW q, NEW R, Carries(q, R, key), 1 <= Len(q)
  PROVE  Grouped(<<>>, 1, q[1], q, 1, key)
<1>1. IdsOfSpan(q, 1, 1 - 1) = {} /\ IdsOfSpan(q, 1, 1) = IdsOf(q[1])
  <2>1. 1..(1 - 1) = {} /\ 1..1 = {1}
    OBVIOUS
  <2> QED BY <2>1 DEF IdsOfSpan
<1>2. q[1] \in Made(key)
  BY DEF Carries
<1>3. Carries(<<>>, {}, key) /\ Ascending(<<>>)
  BY EmptyCarries
<1>4. \A k \in 1..Len(<<>>) : FALSE
  OBVIOUS
<1> QED BY <1>1, <1>2, <1>3, <1>4 DEF Grouped

\* A record of the key of the group.
LEMMA SameGrouped ==
  ASSUME NEW key, NEW q, NEW R, Carries(q, R, key), NEW i \in 2..Len(q),
         NEW out, NEW cur, NEW r, Grouped(out, cur, r, q, i - 1, key), q[i].key = r.key
  PROVE  Grouped(out, cur, Merge(r, q[i]), q, i, key)
<1>1. Len(q) \in Nat /\ i \in Nat /\ cur \in 1..(i - 1) /\ cur \in Nat /\ cur <= i
  BY DEF Carries, Grouped
<1>2. IdsOf(r) \cap IdsOf(q[i]) = {}
  <2>1. IdsOfSpan(q, cur, i - 1) \cap IdsOfSpan(q, i, i) = {}
    <3>1. cur \in 1..Len(q) /\ i - 1 \in 0..Len(q) /\ i \in 1..Len(q) /\ i - 1 < i
      BY <1>1
    <3> QED BY <3>1, SpansDisjoint
  <2>2. IdsOf(q[i]) \subseteq IdsOfSpan(q, i, i)
    BY <1>1 DEF IdsOfSpan
  <2> QED BY <2>1, <2>2 DEF Grouped
<1>3. r \in Made(key) /\ q[i] \in Made(key)
  <2>1. i \in 1..Len(q)
    BY <1>1
  <2> QED BY <2>1 DEF Carries, Grouped
<1>4. /\ Merge(r, q[i]) \in Made(key) /\ Merge(r, q[i]).key = r.key
      /\ IdsOf(Merge(r, q[i])) = IdsOf(r) \cup IdsOf(q[i])
  BY <1>2, <1>3, MergeMade
<1>5. IdsOf(Merge(r, q[i])) = IdsOfSpan(q, cur, i)
  BY <1>1, <1>4, SpanAppend DEF Grouped
<1>6. cur \in 1..i
  BY <1>1
<1> QED BY <1>4, <1>5, <1>6 DEF Grouped

\* The group that is complete is one record more.
LEMMA EndGrouped ==
  ASSUME NEW key, NEW q, NEW R, Carries(q, R, key), NEW i \in 1..Len(q),
         NEW out, NEW cur, NEW r, Grouped(out, cur, r, q, i, key)
  PROVE  /\ Carries(Append(out, r), IdsOfSpan(q, 1, i), key)
         /\ InOrder(q) => Ascending(Append(out, r))
<1>1. Len(q) \in Nat /\ cur \in 1..i /\ cur \in Nat /\ cur <= Len(q)
  BY DEF Carries, Grouped
<1>2. IdsOfSpan(q, 1, i) = IdsOfSpan(q, 1, cur - 1) \cup IdsOfSpan(q, cur, i)
  <2>1. 1..i = (1..(cur - 1)) \cup (cur..i)
    BY <1>1
  <2> QED BY <2>1 DEF IdsOfSpan
<1>3. IdsOfSpan(q, 1, cur - 1) \cap IdsOfSpan(q, cur, i) = {}
  <2>1. /\ 1 \in 1..Len(q) /\ cur - 1 \in 0..Len(q) /\ cur \in 1..Len(q) /\ i \in 1..Len(q)
        /\ cur - 1 < cur
    BY <1>1
  <2> QED BY <2>1, SpansDisjoint
<1>4. /\ Carries(out, IdsOfSpan(q, 1, cur - 1), key) /\ r \in Made(key)
      /\ IdsOf(r) = IdsOfSpan(q, cur, i)
      /\ InOrder(q) => (Ascending(out) /\ \A k \in 1..Len(out) : out[k].key < r.key)
  BY DEF Grouped
<1>5. IdsOf(r) \cap IdsOfSpan(q, 1, cur - 1) = {}
  BY <1>3, <1>4
<1>6. /\ Carries(Append(out, r), IdsOfSpan(q, 1, cur - 1) \cup IdsOf(r), key)
      /\ Ascending(out) /\ (\A k \in 1..Len(out) : out[k].key < r.key) => Ascending(Append(out, r))
  BY <1>4, <1>5, AppendCarries
<1> QED BY <1>2, <1>4, <1>6

\* A record of another key begins a group.
LEMMA NewGrouped ==
  ASSUME NEW key, NEW q, NEW R, Carries(q, R, key), NEW i \in 2..Len(q),
         NEW out, NEW cur, NEW r, Grouped(out, cur, r, q, i - 1, key), q[i].key # r.key
  PROVE  Grouped(Append(out, r), i, q[i], q, i, key)
<1>1. /\ Len(q) \in Nat /\ i \in Nat /\ i \in 1..i /\ i - 1 \in 1..Len(q) /\ i \in 1..Len(q)
      /\ cur \in 1..(i - 1) /\ cur \in 1..Len(q) /\ cur < i
  BY DEF Carries, Grouped
<1>2. /\ Carries(Append(out, r), IdsOfSpan(q, 1, i - 1), key)
      /\ InOrder(q) => Ascending(Append(out, r))
  BY <1>1, EndGrouped
<1>3. q[i] \in Made(key) /\ IdsOf(q[i]) = IdsOfSpan(q, i, i)
  <2>1. i..i = {i}
    BY <1>1
  <2> QED BY <1>1, <2>1 DEF Carries, IdsOfSpan
<1>4. ASSUME InOrder(q), NEW k \in 1..Len(Append(out, r))
      PROVE  Append(out, r)[k].key < q[i].key
  <2>1. out \in Seq(Made(key)) /\ Len(out) \in Nat
    BY DEF Grouped, Carries
  <2>2. r.key \in Nat /\ q[i].key \in Nat
    <3>1. r.key = q[cur].key
      BY DEF Grouped
    <3> QED BY <1>1, <3>1, KeyOfRecord
  <2>3. r.key < q[i].key
    <3>1. q[cur].key <= q[i].key /\ r.key = q[cur].key
      BY <1>1, <1>4 DEF InOrder, Grouped
    <3> QED BY <2>2, <3>1
  <2>4. CASE k \in 1..Len(out)
    <3>1. Append(out, r)[k] = out[k]
      BY <2>1, <2>4
    <3>2. out[k].key < r.key
      BY <1>4, <2>4 DEF Grouped
    <3>3. out[k].key \in Nat
      <4>1. Carries(out, IdsOfSpan(q, 1, cur - 1), key)
        BY DEF Grouped
      <4> QED BY <2>4, <4>1, KeyOfRecord
    <3> QED BY <2>2, <2>3, <3>1, <3>2, <3>3
  <2>5. CASE k = Len(out) + 1
    <3>1. Append(out, r)[k] = r
      BY <2>1, <2>5
    <3> QED BY <2>3, <3>1
  <2> QED BY <2>1, <2>4, <2>5
<1> QED BY <1>1, <1>2, <1>3, <1>4 DEF Grouped

-----------------------------------------------------------------------------
(* The loop that combines before a message is sent. *)

\* The state after i records of q.
CombinedTo(q, i, key) ==
  {st \in [buf : Seq(Made(key)), cur : Nat, out : Seq(Made(key))] :
     /\ Len(st.buf) = Len(q) /\ \A j \in (i + 1)..Len(q) : st.buf[j] = q[j]
     /\ Grouped(st.out, st.cur, st.buf[st.cur], q, i, key)}

\* A turn of the sender's loop.
LEMMA CombineTurn ==
  ASSUME NEW key, NEW q, NEW R, Carries(q, R, key), NEW i \in 2..Len(q),
         NEW st \in CombinedTo(q, i - 1, key)
  PROVE  CombineStep(st, i) \in CombinedTo(q, i, key)
<1> DEFINE M == Made(key)
           r == st.buf[st.cur]
<1>1. /\ st \in [buf : Seq(M), cur : Nat, out : Seq(M)] /\ Len(st.buf) = Len(q)
      /\ \A j \in ((i - 1) + 1)..Len(q) : st.buf[j] = q[j]
      /\ Grouped(st.out, st.cur, r, q, i - 1, key)
  BY DEF CombinedTo
<1>2. Len(q) \in Nat /\ i \in Nat /\ i \in 1..Len(q) /\ q \in Seq(M)
  BY DEF Carries
<1>3. /\ \A j \in i..Len(q) : st.buf[j] = q[j]
      /\ st.cur \in 1..(i - 1) /\ st.cur \in 1..Len(q) /\ st.cur < i /\ r \in M
  BY <1>1, <1>2 DEF Grouped
<1>4. st.buf[i] = q[i]
  BY <1>2, <1>3
<1> HIDE DEF M, r
<1>5. CASE q[i].key = r.key
  <2> DEFINE m == Merge(r, q[i])
             buf == [st.buf EXCEPT ![st.cur] = m]
  <2>1. Grouped(st.out, st.cur, m, q, i, key)
    BY <1>1, <1>5, SameGrouped
  <2>2. m \in M
    BY <2>1 DEF Grouped, M
  <2> HIDE DEF m
  <2>3. /\ buf \in Seq(M) /\ Len(buf) = Len(q) /\ buf[st.cur] = m
        /\ \A j \in (i + 1)..Len(q) : buf[j] = q[j]
    BY <1>1, <1>2, <1>3, <2>2
  <2>4. CombineStep(st, i) = [st EXCEPT !.buf = buf]
    BY <1>4, <1>5 DEF CombineStep, m, r
  <2> HIDE DEF buf
  <2>5. CombineStep(st, i) = [buf |-> buf, cur |-> st.cur, out |-> st.out]
    BY <1>1, <2>4
  <2>6. /\ CombineStep(st, i) \in [buf : Seq(M), cur : Nat, out : Seq(M)]
        /\ CombineStep(st, i).buf = buf /\ CombineStep(st, i).cur = st.cur
        /\ CombineStep(st, i).out = st.out
    BY <1>1, <2>3, <2>5
  <2> QED BY <2>1, <2>3, <2>6 DEF CombinedTo, M
<1>6. CASE q[i].key # r.key
  <2> DEFINE out == Append(st.out, r)
  <2>1. Grouped(out, i, q[i], q, i, key)
    BY <1>1, <1>6, NewGrouped
  <2>2. out \in Seq(M)
    BY <1>1, <1>3
  <2>3. CombineStep(st, i) = [st EXCEPT !.out = out, !.cur = i]
    BY <1>4, <1>6 DEF CombineStep, r
  <2> HIDE DEF out
  <2>4. CombineStep(st, i) = [buf |-> st.buf, cur |-> i, out |-> out]
    BY <1>1, <2>3
  <2>5. /\ CombineStep(st, i) \in [buf : Seq(M), cur : Nat, out : Seq(M)]
        /\ CombineStep(st, i).buf = st.buf /\ CombineStep(st, i).cur = i
        /\ CombineStep(st, i).out = out
    BY <1>1, <1>2, <2>2, <2>4
  <2>6. \A j \in (i + 1)..Len(q) : st.buf[j] = q[j]
    BY <1>2, <1>3
  <2> QED BY <1>1, <1>4, <2>1, <2>5, <2>6 DEF CombinedTo, M
<1> QED BY <1>5, <1>6

\* What is sent carries what was in the buffer.
LEMMA CombinedCarries ==
  ASSUME NEW key, NEW q, NEW R, Carries(q, R, key)
  PROVE  Carries(Combined(q), R, key)
<1> DEFINE n == Len(q)
           base == [buf |-> q, cur |-> 1, out |-> <<>>]
           T == [i \in 1..n |-> CombinedTo(q, i, key)]
           turn == [i \in 2..n |-> [st \in T[i - 1] |-> CombineStep(st, i)]]
<1>1. q \in Seq(Made(key)) /\ n \in Nat
  BY DEF Carries
<1>2. CASE q = <<>>
  <2>1. R = {}
    BY <1>2 DEF Carries
  <2>2. Combined(q) = <<>>
    BY <1>2 DEF Combined
  <2> QED BY <2>1, <2>2, EmptyCarries
<1>3. CASE q # <<>>
  <2>1. 1 <= n /\ 1 \in 1..n /\ n \in 1..n /\ \A i \in 2..n : i \in 1..n /\ i - 1 \in 1..n /\ i # 1
    BY <1>1, <1>3
  <2>2. base \in T[1]
    <3>1. Grouped(<<>>, 1, q[1], q, 1, key)
      BY <2>1, FirstGrouped
    <3>2. base \in [buf : Seq(Made(key)), cur : Nat, out : Seq(Made(key))]
      BY <1>1
    <3>3. base \in CombinedTo(q, 1, key)
      BY <1>1, <3>1, <3>2 DEF CombinedTo
    <3> QED BY <2>1, <3>3
  <2>3. ASSUME NEW i \in 2..n, NEW st \in T[i - 1]
        PROVE  CombineStep(st, i) \in T[i]
    <3>1. st \in CombinedTo(q, i - 1, key)
      BY <2>1
    <3>2. CombineStep(st, i) \in CombinedTo(q, i, key)
      BY <3>1, CombineTurn
    <3> QED BY <2>1, <3>2
  <2>4. \A i \in (1 + 1)..n : \A st \in T[i - 1] : turn[i][st] = CombineStep(st, i) /\ turn[i][st] \in T[i]
    <3> HIDE DEF T
    <3> QED BY <2>3
  <2> HIDE DEF T, turn, base, n
  <2>5. PICK g : Runs(g, 1, n, base, turn) /\ \A i \in 1..n : g[i] \in T[i]
    BY <1>1, <2>1, <2>2, <2>4, LoopRuns
  <2>6. g = [i \in 1..n |-> IF i = 1 THEN base ELSE CombineStep(g[i - 1], i)]
    <3>1. \A i \in 1..n : g[i] = IF i = 1 THEN base ELSE turn[i][g[i - 1]]
      BY <2>5 DEF Runs
    <3>2. \A i \in 1..n : i = 1 \/ i \in (1 + 1)..n
      BY <1>1
    <3>3. \A i \in 1..n : i # 1 => turn[i][g[i - 1]] = CombineStep(g[i - 1], i)
      BY <2>1, <2>4, <2>5, <3>2
    <3>4. g = [i \in 1..n |-> g[i]]
      BY <2>5 DEF Runs
    <3> QED BY <3>1, <3>3, <3>4
  <2> DEFINE f == CHOOSE h : h = [i \in 1..n |-> IF i = 1 THEN base ELSE CombineStep(h[i - 1], i)]
  <2>7. f = [i \in 1..n |-> IF i = 1 THEN base ELSE CombineStep(f[i - 1], i)]
    BY <2>6
  <2>8. Combined(q) = Append(f[n].out, f[n].buf[f[n].cur])
    BY <1>3 DEF Combined, n, base
  <2> HIDE DEF f
  <2>9. f[n] \in T[n]
    <3>1. f[1] \in T[1]
      BY <2>1, <2>2, <2>7
    <3>2. ASSUME NEW i \in (1 + 1)..n, f[i - 1] \in T[i - 1] PROVE f[i] \in T[i]
      <4>1. i \in 1..n /\ i # 1 /\ i \in 2..n
        BY <1>1
      <4>2. f[i] = CombineStep(f[i - 1], i)
        BY <2>7, <4>1, Zenon
      <4> QED BY <2>3, <3>2, <4>1, <4>2
    <3> QED BY <1>1, <2>1, <3>1, <3>2, LoopKeeps
  <2>10. Grouped(f[n].out, f[n].cur, f[n].buf[f[n].cur], q, n, key)
    BY <2>1, <2>9 DEF T, CombinedTo
  <2>11. Carries(Append(f[n].out, f[n].buf[f[n].cur]), IdsOfSpan(q, 1, n), key)
    BY <2>1, <2>10, EndGrouped DEF n
  <2> QED BY <2>8, <2>11, SpanIsAll DEF n
<1> QED BY <1>2, <1>3

-----------------------------------------------------------------------------
(* The loop that merges in place, in the reducer. *)

\* The first records of data.
Results(data, count) == [j \in 1..count |-> data[j]]

\* The first records of data and one more.
Longer(data, count, r) == [j \in 1..(count + 1) |-> IF j <= count THEN data[j] ELSE r]

\* The state after i records of q.
CompactedTo(q, i, key) ==
  {st \in [data : Seq(Made(key)), cur : Nat, count : Nat] :
     /\ Len(st.data) = Len(q) /\ \A j \in (i + 1)..Len(q) : st.data[j] = q[j]
     /\ st.count < st.cur
     /\ Grouped(Results(st.data, st.count), st.cur, st.data[st.cur], q, i, key)}

\* The results of the loop so far are as many as were counted.
LEMMA ResultsAre ==
  ASSUME NEW X, NEW data \in Seq(X), NEW count \in 0..Len(data)
  PROVE  Results(data, count) \in Seq(X) /\ Len(Results(data, count)) = count
<1>1. Len(data) \in Nat /\ count \in Nat /\ Results(data, count) \in [1..count -> X]
  BY DEF Results
<1> QED BY <1>1

\* One more is one appended.
LEMMA ResultsAppend ==
  ASSUME NEW X, NEW data \in Seq(X), NEW count \in 0..Len(data), NEW r \in X
  PROVE  Longer(data, count, r) = Append(Results(data, count), r)
<1>1. Len(data) \in Nat /\ count \in Nat
  OBVIOUS
<1>2. Results(data, count) \in Seq(X) /\ Len(Results(data, count)) = count
  BY ResultsAre
<1>3. Append(Results(data, count), r)
        = [j \in 1..(count + 1) |-> IF j = count + 1 THEN r ELSE Results(data, count)[j]]
  <2> DEFINE f == Results(data, count)
  <2>1. f \in Seq(X) /\ Len(f) = count
    BY <1>2
  <2> HIDE DEF f
  <2> DEFINE p == Append(f, r)
  <2>2. /\ p \in Seq(X) /\ Len(p) = count + 1 /\ p[count + 1] = r
        /\ \A j \in 1..count : p[j] = f[j]
    BY <1>1, <2>1
  <2> HIDE DEF p
  <2>3. p = [j \in 1..(count + 1) |-> p[j]]
    BY <1>1, <2>2
  <2>4. \A j \in 1..(count + 1) : p[j] = IF j = count + 1 THEN r ELSE f[j]
    BY <1>1, <2>2
  <2> QED BY <2>3, <2>4 DEF f, p
<1>4. \A j \in 1..(count + 1) : (j <= count => (j \in 1..count /\ j # count + 1))
                                /\ (~(j <= count) => j = count + 1)
  BY <1>1
<1>5. \A j \in 1..count : Results(data, count)[j] = data[j]
  BY DEF Results
<1>6. \A j \in 1..(count + 1) : (IF j = count + 1 THEN r ELSE Results(data, count)[j])
                                  = (IF j <= count THEN data[j] ELSE r)
  BY <1>1, <1>4, <1>5
<1> QED BY <1>3, <1>6 DEF Longer

\* A turn of the reducer's loop, whose writes do not touch what it has still to read.
LEMMA CompactTurn ==
  ASSUME NEW key, NEW q, NEW R, Carries(q, R, key), NEW i \in 2..Len(q),
         NEW st \in CompactedTo(q, i - 1, key)
  PROVE  CompactStep(st, i) \in CompactedTo(q, i, key)
<1> DEFINE M == Made(key)
           r == st.data[st.cur]
<1>1. /\ st \in [data : Seq(M), cur : Nat, count : Nat] /\ Len(st.data) = Len(q)
      /\ \A j \in ((i - 1) + 1)..Len(q) : st.data[j] = q[j]
      /\ st.count < st.cur
      /\ Grouped(Results(st.data, st.count), st.cur, r, q, i - 1, key)
  BY DEF CompactedTo
<1>2. Len(q) \in Nat /\ i \in Nat /\ i \in 1..Len(q) /\ q \in Seq(M)
  BY DEF Carries
<1>3. /\ \A j \in i..Len(q) : st.data[j] = q[j]
      /\ st.cur \in 1..(i - 1) /\ st.cur \in 1..Len(q) /\ st.cur < i /\ r \in M
  BY <1>1, <1>2 DEF Grouped
<1>4. /\ st.data[i] = q[i] /\ st.count \in Nat /\ st.count + 1 \in 1..Len(q)
      /\ st.count + 1 < i /\ st.count \in 0..Len(st.data) /\ st.data \in Seq(M)
  BY <1>1, <1>2, <1>3
<1> HIDE DEF M, r
<1>5. CASE q[i].key = r.key
  <2> DEFINE m == Merge(r, q[i])
             data == [st.data EXCEPT ![st.cur] = m]
  <2>1. Grouped(Results(st.data, st.count), st.cur, m, q, i, key)
    BY <1>1, <1>5, SameGrouped
  <2>2. m \in M
    BY <2>1 DEF Grouped, M
  <2> HIDE DEF m
  <2>3. /\ data \in Seq(M) /\ Len(data) = Len(q) /\ data[st.cur] = m
        /\ \A j \in (i + 1)..Len(q) : data[j] = q[j]
    BY <1>1, <1>2, <1>3, <2>2
  <2>4. Results(data, st.count) = Results(st.data, st.count)
    <3>1. \A j \in 1..st.count : data[j] = st.data[j]
      BY <1>1, <1>4
    <3> HIDE DEF data
    <3> QED BY <3>1 DEF Results
  <2>5. CompactStep(st, i) = [st EXCEPT !.data = data]
    BY <1>4, <1>5 DEF CompactStep, m, r
  <2> HIDE DEF data
  <2>6. CompactStep(st, i) = [data |-> data, cur |-> st.cur, count |-> st.count]
    BY <1>1, <2>5
  <2>7. /\ CompactStep(st, i) \in [data : Seq(M), cur : Nat, count : Nat]
        /\ CompactStep(st, i).data = data /\ CompactStep(st, i).cur = st.cur
        /\ CompactStep(st, i).count = st.count
    BY <1>1, <2>3, <2>6
  <2> QED BY <1>1, <2>1, <2>3, <2>4, <2>7 DEF CompactedTo, M
<1>6. CASE q[i].key # r.key
  <2> DEFINE data == [st.data EXCEPT ![st.count + 1] = r]
  <2>1. Grouped(Append(Results(st.data, st.count), r), i, q[i], q, i, key)
    BY <1>1, <1>6, NewGrouped
  <2>2. /\ data \in Seq(M) /\ Len(data) = Len(q) /\ data[i] = q[i]
        /\ \A j \in (i + 1)..Len(q) : data[j] = q[j]
    BY <1>1, <1>2, <1>3, <1>4
  <2>3. Results(data, st.count + 1) = Append(Results(st.data, st.count), r)
    <3>1. \A j \in 1..(st.count + 1) : data[j] = IF j <= st.count THEN st.data[j] ELSE r
      BY <1>1, <1>4
    <3> HIDE DEF data
    <3>2. Results(data, st.count + 1) = Longer(st.data, st.count, r)
      BY <3>1 DEF Results, Longer
    <3> QED BY <1>3, <1>4, <3>2, ResultsAppend
  <2>4. CompactStep(st, i) = [st EXCEPT !.data = data, !.cur = i, !.count = st.count + 1]
    BY <1>4, <1>6 DEF CompactStep, r
  <2> HIDE DEF data
  <2>5. CompactStep(st, i) = [data |-> data, cur |-> i, count |-> st.count + 1]
    BY <1>1, <2>4
  <2>6. /\ CompactStep(st, i) \in [data : Seq(M), cur : Nat, count : Nat]
        /\ CompactStep(st, i).data = data /\ CompactStep(st, i).cur = i
        /\ CompactStep(st, i).count = st.count + 1
    BY <1>2, <1>4, <2>2, <2>5
  <2> QED BY <1>4, <2>1, <2>2, <2>3, <2>6 DEF CompactedTo, M
<1> QED BY <1>5, <1>6

\* What the reducer returns carries what it received, in one record for every key.
LEMMA ReducedCarries ==
  ASSUME NEW key, NEW q, NEW R, Carries(q, R, key), InOrder(q)
  PROVE  Carries(Reduced(q), R, key) /\ Ascending(Reduced(q))
<1> DEFINE n == Len(q)
           base == [data |-> q, cur |-> 1, count |-> 0]
           T == [i \in 1..n |-> CompactedTo(q, i, key)]
           turn == [i \in 2..n |-> [st \in T[i - 1] |-> CompactStep(st, i)]]
<1>1. q \in Seq(Made(key)) /\ n \in Nat
  BY DEF Carries
<1>2. CASE q = <<>>
  <2>1. R = {}
    BY <1>2 DEF Carries
  <2>2. Reduced(q) = <<>>
    BY <1>2 DEF Reduced
  <2> QED BY <2>1, <2>2, EmptyCarries
<1>3. CASE q # <<>>
  <2>1. 1 <= n /\ 1 \in 1..n /\ n \in 1..n /\ \A i \in 2..n : i \in 1..n /\ i - 1 \in 1..n /\ i # 1
    BY <1>1, <1>3
  <2>2. base \in T[1]
    <3>1. Grouped(<<>>, 1, q[1], q, 1, key)
      BY <2>1, FirstGrouped
    <3>2. base \in [data : Seq(Made(key)), cur : Nat, count : Nat] /\ 0 < 1
      BY <1>1
    <3>3. Results(q, 0) = <<>>
      BY DEF Results
    <3>4. base \in CompactedTo(q, 1, key)
      BY <1>1, <3>1, <3>2, <3>3 DEF CompactedTo
    <3> QED BY <2>1, <3>4
  <2>3. ASSUME NEW i \in 2..n, NEW st \in T[i - 1]
        PROVE  CompactStep(st, i) \in T[i]
    <3>1. st \in CompactedTo(q, i - 1, key)
      BY <2>1
    <3>2. CompactStep(st, i) \in CompactedTo(q, i, key)
      BY <3>1, CompactTurn
    <3> QED BY <2>1, <3>2
  <2>4. \A i \in (1 + 1)..n : \A st \in T[i - 1] : turn[i][st] = CompactStep(st, i) /\ turn[i][st] \in T[i]
    <3> HIDE DEF T
    <3> QED BY <2>3
  <2> HIDE DEF T, turn, base, n
  <2>5. PICK g : Runs(g, 1, n, base, turn) /\ \A i \in 1..n : g[i] \in T[i]
    BY <1>1, <2>1, <2>2, <2>4, LoopRuns
  <2>6. g = [i \in 1..n |-> IF i = 1 THEN base ELSE CompactStep(g[i - 1], i)]
    <3>1. \A i \in 1..n : g[i] = IF i = 1 THEN base ELSE turn[i][g[i - 1]]
      BY <2>5 DEF Runs
    <3>2. \A i \in 1..n : i = 1 \/ i \in (1 + 1)..n
      BY <1>1
    <3>3. \A i \in 1..n : i # 1 => turn[i][g[i - 1]] = CompactStep(g[i - 1], i)
      BY <2>1, <2>4, <2>5, <3>2
    <3>4. g = [i \in 1..n |-> g[i]]
      BY <2>5 DEF Runs
    <3> QED BY <3>1, <3>3, <3>4
  <2> DEFINE f == CHOOSE h : h = [i \in 1..n |-> IF i = 1 THEN base ELSE CompactStep(h[i - 1], i)]
             st == f[n]
  <2>7. f = [i \in 1..n |-> IF i = 1 THEN base ELSE CompactStep(f[i - 1], i)]
    BY <2>6
  <2>8. Reduced(q) = [j \in 1..(st.count + 1) |-> st.data[IF j <= st.count THEN j ELSE st.cur]]
    BY <1>3 DEF Reduced, n, base
  <2> HIDE DEF f
  <2>9. st \in T[n]
    <3>1. f[1] \in T[1]
      BY <2>1, <2>2, <2>7
    <3>2. ASSUME NEW i \in (1 + 1)..n, f[i - 1] \in T[i - 1] PROVE f[i] \in T[i]
      <4>1. i \in 1..n /\ i # 1 /\ i \in 2..n
        BY <1>1
      <4>2. f[i] = CompactStep(f[i - 1], i)
        BY <2>7, <4>1, Zenon
      <4> QED BY <2>3, <3>2, <4>1, <4>2
    <3> QED BY <1>1, <2>1, <3>1, <3>2, LoopKeeps
  <2> HIDE DEF st
  <2>10. /\ st \in [data : Seq(Made(key)), cur : Nat, count : Nat] /\ Len(st.data) = n
         /\ st.count < st.cur
         /\ Grouped(Results(st.data, st.count), st.cur, st.data[st.cur], q, n, key)
    BY <2>1, <2>9 DEF T, CompactedTo, n
  <2>11. st.cur \in 1..n /\ st.count \in 0..Len(st.data) /\ st.data[st.cur] \in Made(key)
    BY <1>1, <2>10 DEF Grouped
  <2>12. Reduced(q) = Longer(st.data, st.count, st.data[st.cur])
    BY <2>8 DEF Longer
  <2>13. Reduced(q) = Append(Results(st.data, st.count), st.data[st.cur])
    BY <2>10, <2>11, <2>12, ResultsAppend
  <2>14. /\ Carries(Reduced(q), IdsOfSpan(q, 1, n), key)
         /\ InOrder(q) => Ascending(Reduced(q))
    BY <2>1, <2>10, <2>13, EndGrouped DEF n
  <2> QED BY <2>14, SpanIsAll DEF n
<1> QED BY <1>2, <1>3

-----------------------------------------------------------------------------
(* Routing, and reading the streams one after the other. *)

\* The ids of R that are for destination d.
Owned(R, d, key) == {x \in R : Slot(key[x]) = d}

\* The buffer for d after i records of q.
RoutedTo(q, i, d, key) ==
  {b \in Seq(Made(key)) : Carries(b, Owned(IdsOfSpan(q, 1, i), d, key), key) /\ Single(b)}

\* A record more that is routed, or not.
LEMMA RouteTurn ==
  ASSUME NEW key, NEW q, NEW R, Carries(q, R, key), Single(q), NEW d,
         NEW i \in 1..Len(q), NEW b \in RoutedTo(q, i - 1, d, key)
  PROVE  (IF Slot(q[i].key) = d THEN Append(b, q[i]) ELSE b) \in RoutedTo(q, i, d, key)
<1> DEFINE old == Owned(IdsOfSpan(q, 1, i - 1), d, key)
           new == Owned(IdsOfSpan(q, 1, i), d, key)
<1>1. Len(q) \in Nat /\ i \in Nat /\ 1 <= i /\ i - 1 \in 0..Len(q) /\ i - 1 < i
  BY DEF Carries
<1>2. q[i] \in Made(key) /\ (\E x : IdsOf(q[i]) = {x}) /\ \A x \in IdsOf(q[i]) : key[x] = q[i].key
  <2>1. q[i] \in Made(key)
    BY DEF Carries
  <2>2. \E x : IdsOf(q[i]) = {x}
    BY DEF Single
  <2>3. \A x \in IdsOf(q[i]) : key[x] = q[i].key
    BY <2>1 DEF Made
  <2> QED BY <2>1, <2>2, <2>3
<1>3. IdsOfSpan(q, 1, i) = IdsOfSpan(q, 1, i - 1) \cup IdsOf(q[i])
  BY <1>1, SpanAppend
<1>4. b \in Seq(Made(key)) /\ Carries(b, old, key) /\ Single(b)
  BY DEF RoutedTo
<1>5. CASE Slot(q[i].key) = d
  <2>1. new = old \cup IdsOf(q[i])
    BY <1>2, <1>3, <1>5 DEF Owned
  <2>2. IdsOf(q[i]) \cap old = {}
    <3>1. IdsOfSpan(q, 1, i - 1) \cap IdsOfSpan(q, i, i) = {}
      <4>1. 1 \in 1..Len(q)
        BY <1>1
      <4> QED BY <1>1, <4>1, SpansDisjoint
    <3>2. IdsOf(q[i]) \subseteq IdsOfSpan(q, i, i)
      BY <1>1 DEF IdsOfSpan
    <3> QED BY <3>1, <3>2 DEF Owned
  <2> HIDE DEF old, new
  <2>3. Carries(Append(b, q[i]), new, key) /\ Single(Append(b, q[i]))
    BY <1>2, <1>4, <2>1, <2>2, AppendCarries
  <2>4. Append(b, q[i]) \in Seq(Made(key))
    BY <2>3 DEF Carries
  <2> QED BY <1>5, <2>3, <2>4 DEF RoutedTo, new
<1>6. CASE Slot(q[i].key) # d
  <2>1. new = old
    BY <1>2, <1>3, <1>6 DEF Owned
  <2> QED BY <1>4, <1>6, <2>1 DEF RoutedTo
<1> QED BY <1>5, <1>6

\* The buffer for d carries the ids that go to d.
LEMMA RoutedCarries ==
  ASSUME NEW key, NEW q, NEW R, Carries(q, R, key), Single(q), NEW d
  PROVE  Carries(Routed(q, d), Owned(R, d, key), key) /\ Single(Routed(q, d))
<1> DEFINE n == Len(q)
           T == [i \in 0..n |-> RoutedTo(q, i, d, key)]
           step(b, i) == IF Slot(q[i].key) = d THEN Append(b, q[i]) ELSE b
           turn == [i \in 1..n |-> [b \in T[i - 1] |-> step(b, i)]]
<1>1. q \in Seq(Made(key)) /\ n \in Nat
  BY DEF Carries
<1>2. 0 <= n /\ 0 \in 0..n /\ n \in 0..n /\ \A i \in 1..n : i \in 0..n /\ i - 1 \in 0..n /\ i # 0
  BY <1>1
<1>3. <<>> \in T[0]
  <2>1. IdsOfSpan(q, 1, 0) = {}
    <3>1. 1..0 = {}
      OBVIOUS
    <3> QED BY <3>1 DEF IdsOfSpan
  <2>2. Owned(IdsOfSpan(q, 1, 0), d, key) = {}
    BY <2>1 DEF Owned
  <2>3. <<>> \in Seq(Made(key)) /\ Carries(<<>>, {}, key) /\ Single(<<>>)
    BY EmptyCarries
  <2>4. <<>> \in RoutedTo(q, 0, d, key)
    BY <2>2, <2>3 DEF RoutedTo
  <2> QED BY <1>2, <2>4
<1>4. ASSUME NEW i \in 1..n, NEW b \in T[i - 1] PROVE step(b, i) \in T[i]
  <2>1. b \in RoutedTo(q, i - 1, d, key)
    BY <1>2
  <2>2. step(b, i) \in RoutedTo(q, i, d, key)
    BY <2>1, RouteTurn
  <2> QED BY <1>2, <2>2
<1>5. \A i \in (0 + 1)..n : \A b \in T[i - 1] : turn[i][b] = step(b, i) /\ turn[i][b] \in T[i]
  <2> HIDE DEF T, step
  <2> QED BY <1>4
<1> HIDE DEF T, turn, n, step
<1>6. PICK g : Runs(g, 0, n, <<>>, turn) /\ \A i \in 0..n : g[i] \in T[i]
  BY <1>1, <1>2, <1>3, <1>5, LoopRuns
<1>7. g = [i \in 0..n |-> IF i = 0 THEN <<>> ELSE step(g[i - 1], i)]
  <2>1. \A i \in 0..n : g[i] = IF i = 0 THEN <<>> ELSE turn[i][g[i - 1]]
    BY <1>6 DEF Runs
  <2>2. \A i \in 0..n : i = 0 \/ i \in (0 + 1)..n
    BY <1>1
  <2>3. \A i \in 0..n : i # 0 => turn[i][g[i - 1]] = step(g[i - 1], i)
    BY <1>2, <1>5, <1>6, <2>2
  <2>4. g = [i \in 0..n |-> g[i]]
    BY <1>6 DEF Runs
  <2> QED BY <2>1, <2>3, <2>4
<1> DEFINE f == CHOOSE h : h = [i \in 0..n |->
                                  IF i = 0 THEN <<>>
                                  ELSE IF Slot(q[i].key) = d THEN Append(h[i - 1], q[i])
                                                             ELSE h[i - 1]]
<1>8. f = [i \in 0..n |-> IF i = 0 THEN <<>>
                          ELSE IF Slot(q[i].key) = d THEN Append(f[i - 1], q[i]) ELSE f[i - 1]]
  BY <1>7 DEF step
<1>9. Routed(q, d) = f[n]
  BY DEF Routed, n
<1> HIDE DEF f
<1>10. f[n] \in T[n]
  <2>1. f[0] \in T[0]
    BY <1>2, <1>3, <1>8
  <2>2. ASSUME NEW i \in (0 + 1)..n, f[i - 1] \in T[i - 1] PROVE f[i] \in T[i]
    <3>1. i \in 0..n /\ i # 0 /\ i \in 1..n
      BY <1>1
    <3>2. f[i] = step(f[i - 1], i)
      BY <1>8, <3>1, Zenon DEF step
    <3> QED BY <1>4, <2>2, <3>1, <3>2
  <2> QED BY <1>1, <1>2, <2>1, <2>2, LoopKeeps
<1>11. f[n] \in RoutedTo(q, n, d, key)
  BY <1>2, <1>10 DEF T
<1>12. IdsOfSpan(q, 1, n) = R
  BY SpanIsAll DEF n
<1> QED BY <1>9, <1>11, <1>12 DEF RoutedTo

\* n streams, each with ids of its own.
Apart(streams, sets, n, key) ==
  /\ Len(streams) = n /\ (n = 0 => streams = <<>>)
  /\ \A j \in 1..n : Carries(streams[j], sets[j], key)
  /\ \A j, k \in 1..n : j # k => sets[j] \cap sets[k] = {}
  /\ kind = "PartitionBy" => \A j \in 1..n : Single(streams[j])

\* The records read after i streams.
ReadTo(sets, i, key) ==
  {b \in Seq(Made(key)) : /\ Carries(b, UNION {sets[j] : j \in 1..i}, key)
                          /\ kind = "PartitionBy" => Single(b)}

\* A stream more that is read.
LEMMA ReadTurn ==
  ASSUME NEW key, NEW streams, NEW sets, NEW n \in Nat, Apart(streams, sets, n, key),
         NEW i \in 2..n, NEW b \in ReadTo(sets, i - 1, key)
  PROVE  b \o streams[i] \in ReadTo(sets, i, key)
<1> DEFINE old == UNION {sets[j] : j \in 1..(i - 1)}
<1>1. i \in 1..n /\ 1..i = (1..(i - 1)) \cup {i} /\ \A j \in 1..(i - 1) : j \in 1..n /\ j # i
  OBVIOUS
<1>2. UNION {sets[j] : j \in 1..i} = old \cup sets[i]
  BY <1>1
<1>3. old \cap sets[i] = {}
  <2> SUFFICES ASSUME NEW x \in old, x \in sets[i] PROVE FALSE
    OBVIOUS
  <2>1. PICK j \in 1..(i - 1) : x \in sets[j]
    OBVIOUS
  <2>2. sets[j] \cap sets[i] = {}
    BY <1>1 DEF Apart
  <2> QED BY <2>1, <2>2
<1>4. Carries(b, old, key) /\ (kind = "PartitionBy" => Single(b))
  BY DEF ReadTo
<1> HIDE DEF old
<1>5. Carries(streams[i], sets[i], key) /\ (kind = "PartitionBy" => Single(streams[i]))
  BY <1>1 DEF Apart
<1>6. /\ Carries(b \o streams[i], old \cup sets[i], key)
      /\ Single(b) /\ Single(streams[i]) => Single(b \o streams[i])
  BY <1>3, <1>4, <1>5, ConcatCarries
<1>7. b \o streams[i] \in Seq(Made(key))
  BY <1>6 DEF Carries
<1> QED BY <1>2, <1>4, <1>5, <1>6, <1>7 DEF ReadTo

\* Streams with different ids, read one after the other, carry the ids of all.
LEMMA FlattenCarries ==
  ASSUME NEW key, NEW streams, NEW sets, NEW n \in Nat, Apart(streams, sets, n, key)
  PROVE  /\ Carries(FlattenSeq(streams), UNION {sets[j] : j \in 1..n}, key)
         /\ kind = "PartitionBy" => Single(FlattenSeq(streams))
<1> DEFINE base == streams[1]
           T == [i \in 1..n |-> ReadTo(sets, i, key)]
           step(b, i) == b \o streams[i]
           turn == [i \in 2..n |-> [b \in T[i - 1] |-> step(b, i)]]
<1>1. CASE n = 0
  <2>1. 1..n = {} /\ UNION {sets[j] : j \in 1..n} = {}
    BY <1>1
  <2>2. FlattenSeq(streams) = <<>>
    BY <1>1 DEF FlattenSeq, Apart
  <2> QED BY <2>1, <2>2, EmptyCarries
<1>2. CASE n # 0
  <2>1. 1 <= n /\ 1 \in 1..n /\ n \in 1..n /\ \A i \in 2..n : i \in 1..n /\ i - 1 \in 1..n /\ i # 1
    BY <1>2
  <2>2. base \in T[1]
    <3>1. UNION {sets[j] : j \in 1..1} = sets[1]
      <4>1. 1..1 = {1}
        OBVIOUS
      <4> QED BY <4>1
    <3>2. Carries(streams[1], sets[1], key) /\ (kind = "PartitionBy" => Single(streams[1]))
      BY <2>1 DEF Apart
    <3>3. base \in Seq(Made(key))
      BY <3>2 DEF Carries
    <3>4. base \in ReadTo(sets, 1, key)
      BY <3>1, <3>2, <3>3 DEF ReadTo
    <3> QED BY <2>1, <3>4
  <2>3. ASSUME NEW i \in 2..n, NEW b \in T[i - 1] PROVE step(b, i) \in T[i]
    <3>1. b \in ReadTo(sets, i - 1, key)
      BY <2>1
    <3>2. step(b, i) \in ReadTo(sets, i, key)
      BY <3>1, ReadTurn
    <3> QED BY <2>1, <3>2
  <2>4. \A i \in (1 + 1)..n : \A b \in T[i - 1] : turn[i][b] = step(b, i) /\ turn[i][b] \in T[i]
    <3> HIDE DEF T, step
    <3> QED BY <2>3
  <2> HIDE DEF T, turn, step, base
  <2>5. PICK g : Runs(g, 1, n, base, turn) /\ \A i \in 1..n : g[i] \in T[i]
    BY <2>1, <2>2, <2>4, LoopRuns
  <2>6. g = [i \in 1..n |-> IF i = 1 THEN base ELSE step(g[i - 1], i)]
    <3>1. \A i \in 1..n : g[i] = IF i = 1 THEN base ELSE turn[i][g[i - 1]]
      BY <2>5 DEF Runs
    <3>2. \A i \in 1..n : i = 1 \/ i \in (1 + 1)..n
      OBVIOUS
    <3>3. \A i \in 1..n : i # 1 => turn[i][g[i - 1]] = step(g[i - 1], i)
      BY <2>1, <2>4, <2>5, <3>2
    <3>4. g = [i \in 1..n |-> g[i]]
      BY <2>5 DEF Runs
    <3> QED BY <3>1, <3>3, <3>4
  <2> DEFINE f == CHOOSE h : h = [i \in 1..n |-> IF i = 1 THEN streams[i]
                                                         ELSE h[i - 1] \o streams[i]]
  <2>7. f = [i \in 1..n |-> IF i = 1 THEN streams[i] ELSE f[i - 1] \o streams[i]]
    <3>1. \A i \in 1..n : i = 1 => streams[i] = base
      BY DEF base
    <3>2. g = [i \in 1..n |-> IF i = 1 THEN streams[i] ELSE g[i - 1] \o streams[i]]
      BY <2>6, <3>1 DEF step
    <3> QED BY <3>2
  <2>8. FlattenSeq(streams) = f[n]
    BY <1>2 DEF FlattenSeq, Apart
  <2> HIDE DEF f
  <2>9. f[n] \in T[n]
    <3>1. f[1] \in T[1]
      BY <2>1, <2>2, <2>7 DEF base
    <3>2. ASSUME NEW i \in (1 + 1)..n, f[i - 1] \in T[i - 1] PROVE f[i] \in T[i]
      <4>1. i \in 1..n /\ i # 1 /\ i \in 2..n
        OBVIOUS
      <4>2. f[i] = step(f[i - 1], i)
        BY <2>7, <4>1, Zenon DEF step
      <4> QED BY <2>3, <3>2, <4>1, <4>2
    <3> QED BY <2>1, <3>1, <3>2, LoopKeeps
  <2>10. f[n] \in ReadTo(sets, n, key)
    BY <2>1, <2>9 DEF T
  <2> QED BY <2>8, <2>10 DEF ReadTo
<1> QED BY <1>1, <1>2

-----------------------------------------------------------------------------
(* The invariant. *)

IdsFrom(s) == {<<s, i>> : i \in DOMAIN input[s]}
KeyOf == [x \in Ids |-> input[x[1]][x[2]].key]

\* The ids of a partition for a destination, and of the dataset.
IdsSent(s, d) == Owned(IdsFrom(s), d, KeyOf)
IdsAt(d) == Owned(Ids, d, KeyOf)

\* The partitions of the dataset carry ids of their own.
InputCarries ==
  \A s \in Senders : Carries(input[s], IdsFrom(s), KeyOf) /\ Single(input[s])

\* A message carries the ids that its sender has for its destination.
MessagesCarry ==
  /\ DOMAIN message \subseteq Senders
  /\ \A s \in DOMAIN message : \A d \in Dest :
       /\ Carries(message[s][d], IdsSent(s, d), KeyOf)
       /\ kind = "PartitionBy" => Single(message[s][d])

MessagesTyped == shuffled \in [Dest -> Seq([from : Senders, stream : Seq(Made(KeyOf))])]

\* A destination receives one message of a sender, and reads it once.
ReceivedOnce ==
  /\ MessagesTyped
  /\ \A d \in Dest : \A i \in 1..Len(shuffled[d]) :
       LET m == shuffled[d][i]
       IN /\ m.from \in DOMAIN message
          /\ m.stream = IF d \in DOMAIN result THEN <<>> ELSE message[m.from][d]
          /\ \A j \in 1..Len(shuffled[d]) : j # i => shuffled[d][j].from # m.from

\* A result carries all the ids for its partition, those of one key in one record if the
\* operation merges.
ResultsCarry ==
  /\ DOMAIN result \subseteq Dest
  /\ \A d \in DOMAIN result :
       /\ Arrived(d) /\ Carries(result[d], IdsAt(d), KeyOf)
       /\ kind = "PartitionBy" => Single(result[d])
       /\ kind # "PartitionBy" => Ascending(result[d])

Inv == InputCarries /\ MessagesCarry /\ ReceivedOnce /\ ResultsCarry

\* An id is that of one sender.
LEMMA IdsFromSenders ==
  /\ Ids = UNION {IdsFrom(s) : s \in Senders}
  /\ \A s, t : s # t => IdsFrom(s) \cap IdsFrom(t) = {}
<1>1. Ids = UNION {IdsFrom(s) : s \in Senders}
  BY DEF Ids, IdsFrom
<1>2. ASSUME NEW s, NEW t, s # t, NEW x \in IdsFrom(s), x \in IdsFrom(t) PROVE FALSE
  <2>1. x[1] = s /\ x[1] = t
    BY <1>2 DEF IdsFrom
  <2> QED BY <1>2, <2>1
<1> QED BY <1>1, <1>2

\* The dataset: one record for every id.
LEMMA InitInput ==
  ASSUME Init
  PROVE  InputCarries
<1>1. PICK ks \in [Senders -> BoundedSeq(Key, MaxRecords)] :
        input = [s \in Senders |-> [i \in DOMAIN ks[s] |->
                   [key |-> ks[s][i], val |-> SetToBag({<<s, i>>})]]]
  BY DEF Init, Datasets
<1>2. ASSUME NEW s \in Senders PROVE Carries(input[s], IdsFrom(s), KeyOf) /\ Single(input[s])
  <2>1. PICK n \in Nat : ks[s] \in [1..n -> Key]
    <3>1. ks[s] \in BoundedSeq(Key, MaxRecords)
      BY <1>1
    <3> QED BY <3>1, ShuffleAssumption DEF BoundedSeq, SeqOf
  <2>2. /\ DOMAIN input[s] = 1..n /\ input[s] = [i \in 1..n |-> input[s][i]]
        /\ \A i \in 1..n : /\ input[s][i] = [key |-> ks[s][i], val |-> SetToBag({<<s, i>>})]
                           /\ ks[s][i] \in Key
    BY <1>1, <2>1
  <2>3. \A i \in 1..n : <<s, i>> \in Ids /\ KeyOf[<<s, i>>] = ks[s][i]
    <3> TAKE i \in 1..n
    <3>1. <<s, i>> \in Ids
      BY <2>2 DEF Ids
    <3>2. KeyOf[<<s, i>>] = input[<<s, i>>[1]][<<s, i>>[2]].key
      BY <3>1, Zenon DEF KeyOf
    <3>3. input[<<s, i>>[1]][<<s, i>>[2]] = input[s][i]
      OBVIOUS
    <3>4. input[s][i].key = ks[s][i]
      <4>1. input[s][i] = [key |-> ks[s][i], val |-> SetToBag({<<s, i>>})]
        BY <2>2
      <4> QED BY <4>1
    <3> QED BY <3>1, <3>2, <3>3, <3>4, Zenon
  <2>4. ASSUME NEW i \in 1..n
        PROVE  input[s][i] \in Made(KeyOf) /\ IdsOf(input[s][i]) = {<<s, i>>}
    <3> DEFINE B == {<<s, i>>}
    <3>1. /\ B \in SUBSET DOMAIN KeyOf /\ B # {} /\ ks[s][i] \in Key
          /\ \A x \in B : KeyOf[x] = ks[s][i]
      BY <2>2, <2>3 DEF KeyOf
    <3>2. SetToBag(B) = [x \in B |-> 1]
      BY DEF SetToBag
    <3> HIDE DEF B
    <3>3. input[s][i] = [key |-> ks[s][i], val |-> [x \in B |-> 1]]
      BY <2>2, <3>2 DEF B
    <3> QED BY <3>1, <3>3, MadeFrom DEF B
  <2>5. input[s] \in Seq(Made(KeyOf)) /\ Len(input[s]) = n
    <3>1. input[s] \in [1..n -> Made(KeyOf)]
      BY <2>2, <2>4
    <3> QED BY <2>1, <3>1
  <2>6. IdsFrom(s) = {<<s, i>> : i \in 1..n}
    BY <2>2 DEF IdsFrom
  <2>7. Single(input[s])
    BY <2>4, <2>5 DEF Single
  <2>8. \A i, j \in 1..n : i # j => IdsOf(input[s][i]) \cap IdsOf(input[s][j]) = {}
    BY <2>4
  <2>9. /\ \A i \in 1..n : IdsOf(input[s][i]) \subseteq IdsFrom(s)
        /\ \A x \in IdsFrom(s) : \E i \in 1..n : x \in IdsOf(input[s][i])
    BY <2>4, <2>6
  <2>10. Carries(input[s], IdsFrom(s), KeyOf)
    BY <2>5, <2>8, <2>9 DEF Carries
  <2> QED BY <2>7, <2>10
<1> QED BY <1>2 DEF InputCarries

\* The invariant holds at first.
LEMMA InitInv == Init => Inv
<1> SUFFICES ASSUME Init PROVE Inv
  OBVIOUS
<1>1. InputCarries
  BY InitInput
<1>2. MessagesCarry
  BY DEF Init, MessagesCarry
<1>3. ResultsCarry
  BY DEF Init, ResultsCarry
<1>4. ReceivedOnce
  <2>1. shuffled = [d \in Dest |-> <<>>]
    BY DEF Init
  <2>2. \A d \in Dest : shuffled[d] = <<>> /\ 1..Len(shuffled[d]) = {}
    BY <2>1
  <2>3. shuffled \in [Dest -> Seq([from : Senders, stream : Seq(Made(KeyOf))])]
    BY <2>1
  <2>4. MessagesTyped
    BY <2>3 DEF MessagesTyped
  <2> QED BY <2>2, <2>4 DEF ReceivedOnce
<1> QED BY <1>1, <1>2, <1>3, <1>4 DEF Inv

\* What a sender puts into a message.
LEMMA StreamCarries ==
  ASSUME Inv, NEW s \in Senders, NEW d, NEW q \in Streams(s, d)
  PROVE  Carries(q, IdsSent(s, d), KeyOf) /\ (kind = "PartitionBy" => Single(q))
<1> DEFINE buffer == Routed(input[s], d)
<1>1. Carries(input[s], IdsFrom(s), KeyOf) /\ Single(input[s])
  BY DEF Inv, InputCarries
<1>2. Carries(buffer, IdsSent(s, d), KeyOf) /\ Single(buffer)
  BY <1>1, RoutedCarries DEF IdsSent
<1> HIDE DEF buffer
<1>3. CASE kind # "ReduceBy"
  <2>1. q = buffer
    BY <1>3 DEF Streams, buffer
  <2> QED BY <1>2, <2>1
<1>4. CASE kind = "ReduceBy"
  <2>1. PICK p \in Sortings(buffer) : q = Combined(p)
    BY <1>4 DEF Streams, buffer
  <2>2. Carries(p, IdsSent(s, d), KeyOf)
    BY <1>2, SortingCarries
  <2>3. Carries(q, IdsSent(s, d), KeyOf)
    BY <2>1, <2>2, CombinedCarries
  <2> QED BY <1>4, <2>3
<1> QED BY <1>3, <1>4

\* What a destination reads, once there is a message of every sender.
LEMMA ReadCarries ==
  ASSUME Inv, NEW d \in Dest, d \notin DOMAIN result, Arrived(d)
  PROVE  LET records == FlattenSeq([i \in DOMAIN shuffled[d] |-> shuffled[d][i].stream])
         IN /\ Carries(records, IdsAt(d), KeyOf)
            /\ kind = "PartitionBy" => Single(records)
<1> DEFINE got == shuffled[d]
           n == Len(got)
           streams == [i \in DOMAIN got |-> got[i].stream]
           sets == [i \in 1..n |-> IdsSent(got[i].from, d)]
<1>1. n \in Nat /\ DOMAIN got = 1..n
  <2> DEFINE S == [from : Senders, stream : Seq(Made(KeyOf))]
  <2>1. got \in Seq(S)
    BY DEF Inv, ReceivedOnce, MessagesTyped
  <2> HIDE DEF S, got
  <2> QED BY <2>1
<1>2. \A i \in 1..n : /\ got[i].from \in DOMAIN message /\ got[i].stream = message[got[i].from][d]
                      /\ \A j \in 1..n : j # i => got[j].from # got[i].from
  BY DEF Inv, ReceivedOnce
<1>3. \A i \in 1..n : /\ Carries(got[i].stream, IdsSent(got[i].from, d), KeyOf)
                      /\ kind = "PartitionBy" => Single(got[i].stream)
  BY <1>2 DEF Inv, MessagesCarry
<1>4. \A s \in Senders : \E i \in 1..n : got[i].from = s
  BY <1>1 DEF Arrived, Received
<1>5. \A i \in 1..n : got[i].from \in Senders
  BY <1>2 DEF Inv, MessagesCarry
<1> HIDE DEF got, n
<1>6. \A i, j \in 1..n : i # j => sets[i] \cap sets[j] = {}
  <2> TAKE i, j \in 1..n
  <2> HAVE i # j
  <2>1. IdsFrom(got[i].from) \cap IdsFrom(got[j].from) = {}
    BY <1>2, IdsFromSenders
  <2> QED BY <2>1 DEF IdsSent, Owned
<1>7. Len(streams) = n /\ (n = 0 => streams = <<>>)
  <2> DEFINE S == {got[i].stream : i \in 1..n}
  <2>1. streams \in [1..n -> S]
    BY <1>1
  <2> HIDE DEF streams, S
  <2>2. streams \in Seq(S) /\ Len(streams) = n
    BY <1>1, <2>1
  <2> QED BY <2>2
<1>8. Apart(streams, sets, n, KeyOf)
  <2>1. \A i \in 1..n : streams[i] = got[i].stream /\ sets[i] = IdsSent(got[i].from, d)
    BY <1>1
  <2> HIDE DEF streams, sets
  <2> QED BY <1>3, <1>6, <1>7, <2>1 DEF Apart
<1>9. UNION {sets[i] : i \in 1..n} = IdsAt(d)
  <2>1. ASSUME NEW x \in IdsAt(d) PROVE \E i \in 1..n : x \in sets[i]
    <3>1. x \in Ids /\ Slot(KeyOf[x]) = d
      BY DEF IdsAt, Owned
    <3>2. PICK s \in Senders : x \in IdsFrom(s)
      BY <3>1, IdsFromSenders
    <3>3. PICK i \in 1..n : got[i].from = s
      BY <1>4
    <3> QED BY <3>1, <3>2, <3>3 DEF IdsSent, Owned
  <2>2. ASSUME NEW i \in 1..n, NEW x \in sets[i] PROVE x \in IdsAt(d)
    <3>1. x \in IdsFrom(got[i].from) /\ Slot(KeyOf[x]) = d
      BY DEF IdsSent, Owned
    <3>2. x \in Ids
      BY <1>5, <3>1, IdsFromSenders
    <3> QED BY <3>1, <3>2 DEF IdsAt, Owned
  <2> HIDE DEF sets
  <2> QED BY <2>1, <2>2
<1> HIDE DEF sets, streams
<1>10. /\ Carries(FlattenSeq(streams), IdsAt(d), KeyOf)
       /\ kind = "PartitionBy" => Single(FlattenSeq(streams))
  BY <1>1, <1>8, <1>9, FlattenCarries
<1> QED BY <1>10 DEF streams, got

\* What a destination makes of what it reads.
LEMMA ReturnCarries ==
  ASSUME Inv, NEW d \in Dest, d \notin DOMAIN result, Arrived(d), NEW ret \in Returns(d)
  PROVE  /\ Carries(ret, IdsAt(d), KeyOf)
         /\ kind = "PartitionBy" => Single(ret)
         /\ kind # "PartitionBy" => Ascending(ret)
<1> DEFINE records == FlattenSeq([i \in DOMAIN shuffled[d] |-> shuffled[d][i].stream])
<1>1. Carries(records, IdsAt(d), KeyOf) /\ (kind = "PartitionBy" => Single(records))
  BY ReadCarries
<1> HIDE DEF records
<1>2. CASE kind = "PartitionBy"
  <2>1. ret = records
    BY <1>2 DEF Returns, records
  <2> QED BY <1>1, <1>2, <2>1
<1>3. CASE kind # "PartitionBy"
  <2>1. PICK p \in Sortings(records) : ret = Reduced(p)
    BY <1>3 DEF Returns, records
  <2>2. Carries(p, IdsAt(d), KeyOf) /\ InOrder(p)
    BY <1>1, SortingCarries
  <2> QED BY <1>3, <2>1, <2>2, ReducedCarries
<1> QED BY <1>2, <1>3


\* What the ids are and where they go is settled by the input.
LEMMA InputKept ==
  ASSUME UNCHANGED input
  PROVE  /\ KeyOf' = KeyOf /\ Ids' = Ids
         /\ \A s : IdsFrom(s)' = IdsFrom(s)
         /\ \A s, d : IdsSent(s, d)' = IdsSent(s, d)
         /\ \A d : IdsAt(d)' = IdsAt(d)
<1>1. Ids' = Ids
  BY DEF Ids
<1>2. KeyOf' = KeyOf
  BY <1>1 DEF KeyOf
<1>3. \A s : IdsFrom(s)' = IdsFrom(s)
  BY DEF IdsFrom
<1>4. \A s, d : IdsSent(s, d)' = IdsSent(s, d)
  BY <1>2, <1>3 DEF IdsSent, Owned
<1>5. \A d : IdsAt(d)' = IdsAt(d)
  BY <1>1, <1>2 DEF IdsAt, Owned
<1> QED BY <1>1, <1>2, <1>3, <1>4, <1>5

\* The dataset is not changed.
LEMMA InputCarriesKept ==
  ASSUME InputCarries, UNCHANGED input
  PROVE  InputCarries'
<1>1. KeyOf' = KeyOf /\ \A s : IdsFrom(s)' = IdsFrom(s)
  BY InputKept
<1> QED BY <1>1 DEF InputCarries

\* The serialize shard puts its records into messages, each into one.
LEMMA SerializeInv ==
  ASSUME Inv, NEW s \in Senders, Serialize(s)
  PROVE  Inv'
<1>1. UNCHANGED <<kind, input, shuffled, result>> /\ s \notin DOMAIN message
  BY DEF Serialize
<1>2. PICK streams \in [Dest -> UNION {Streams(s, d) : d \in Dest}] :
        /\ \A d \in Dest : streams[d] \in Streams(s, d)
        /\ message' = [t \in DOMAIN message \cup {s} |-> IF t = s THEN streams ELSE message[t]]
  BY DEF Serialize
<1>3. /\ DOMAIN message' = DOMAIN message \cup {s} /\ message'[s] = streams
      /\ \A t \in DOMAIN message : message'[t] = message[t]
  BY <1>1, <1>2
<1>4. /\ KeyOf' = KeyOf
      /\ \A t, d : IdsSent(t, d)' = IdsSent(t, d)
      /\ \A d : IdsAt(d)' = IdsAt(d)
  BY <1>1, InputKept
<1>5. InputCarries'
  BY <1>1, InputCarriesKept DEF Inv
<1>6. MessagesCarry'
  <2>1. DOMAIN message' \subseteq Senders
    BY <1>3 DEF Inv, MessagesCarry
  <2>2. ASSUME NEW t \in DOMAIN message', NEW d \in Dest
        PROVE  /\ Carries(message'[t][d], IdsSent(t, d), KeyOf)
               /\ kind = "PartitionBy" => Single(message'[t][d])
    <3>1. CASE t = s
      BY <1>2, <1>3, <3>1, StreamCarries
    <3>2. CASE t \in DOMAIN message
      BY <1>3, <3>2 DEF Inv, MessagesCarry
    <3> QED BY <1>3, <3>1, <3>2
  <2> QED BY <1>1, <1>4, <2>1, <2>2 DEF MessagesCarry
<1>7. ReceivedOnce'
  <2>1. MessagesTyped'
    <3>1. MessagesTyped
      BY DEF Inv, ReceivedOnce
    <3> QED BY <1>1, <1>4, <3>1 DEF MessagesTyped
  <2>2. ASSUME NEW d \in Dest, NEW i \in 1..Len(shuffled[d])
        PROVE  LET m == shuffled[d][i]
               IN /\ m.from \in DOMAIN message'
                  /\ m.stream = IF d \in DOMAIN result THEN <<>> ELSE message'[m.from][d]
                  /\ \A j \in 1..Len(shuffled[d]) : j # i => shuffled[d][j].from # m.from
    <3> DEFINE m == shuffled[d][i]
    <3>1. /\ m.from \in DOMAIN message
          /\ m.stream = IF d \in DOMAIN result THEN <<>> ELSE message[m.from][d]
          /\ \A j \in 1..Len(shuffled[d]) : j # i => shuffled[d][j].from # m.from
      BY DEF Inv, ReceivedOnce
    <3>2. m.from \in DOMAIN message' /\ message'[m.from] = message[m.from]
      BY <1>3, <3>1
    <3> HIDE DEF m
    <3>3. m.stream = IF d \in DOMAIN result THEN <<>> ELSE message'[m.from][d]
      BY <3>1, <3>2
    <3> QED BY <3>1, <3>2, <3>3 DEF m
  <2>3. shuffled' = shuffled /\ result' = result
    BY <1>1
  <2> QED BY <2>1, <2>2, <2>3 DEF ReceivedOnce
<1>8. ResultsCarry'
  <2>1. \A d : Arrived(d)' = Arrived(d)
    BY <1>1 DEF Arrived, Received
  <2> QED BY <1>1, <1>4, <2>1 DEF Inv, ResultsCarry
<1> QED BY <1>5, <1>6, <1>7, <1>8 DEF Inv

\* A message that was on the way is received, by one that has none of the sender.
LEMMA TransferInv ==
  ASSUME Inv, NEW s \in Senders, NEW d \in Dest, Transfer(s, d)
  PROVE  Inv'
<1> DEFINE got == shuffled[d]
           n == Len(got)
           m == [from |-> s, stream |-> message[s][d]]
<1>1. /\ UNCHANGED <<kind, input, message, result>> /\ s \in DOMAIN message /\ ~Received(s, d)
      /\ shuffled' = [shuffled EXCEPT ![d] = Append(got, m)]
  BY DEF Transfer
<1>2. /\ KeyOf' = KeyOf
      /\ \A t, e : IdsSent(t, e)' = IdsSent(t, e)
      /\ \A e : IdsAt(e)' = IdsAt(e)
  BY <1>1, InputKept
<1>3. shuffled \in [Dest -> Seq([from : Senders, stream : Seq(Made(KeyOf))])]
  BY DEF Inv, ReceivedOnce, MessagesTyped
<1>4. m \in [from : Senders, stream : Seq(Made(KeyOf))]
  BY <1>1 DEF Inv, MessagesCarry, Carries
<1>5. /\ n \in Nat /\ DOMAIN got = 1..n
      /\ Append(got, m) \in Seq([from : Senders, stream : Seq(Made(KeyOf))])
      /\ Len(Append(got, m)) = n + 1 /\ Append(got, m)[n + 1] = m
      /\ \A i \in 1..n : Append(got, m)[i] = got[i]
  <2> DEFINE S == [from : Senders, stream : Seq(Made(KeyOf))]
  <2>1. got \in Seq(S) /\ m \in S
    BY <1>3, <1>4
  <2> HIDE DEF S, got, m
  <2>2. /\ n \in Nat /\ DOMAIN got = 1..n /\ Append(got, m) \in Seq(S)
        /\ Len(Append(got, m)) = n + 1 /\ Append(got, m)[n + 1] = m
        /\ \A i \in 1..n : Append(got, m)[i] = got[i]
    BY <2>1
  <2> QED BY <2>2 DEF S
<1>6. shuffled' \in [Dest -> Seq([from : Senders, stream : Seq(Made(KeyOf))])]
  <2> DEFINE S == Seq([from : Senders, stream : Seq(Made(KeyOf))])
             p == Append(got, m)
  <2>1. shuffled \in [Dest -> S] /\ p \in S /\ shuffled' = [shuffled EXCEPT ![d] = p]
    BY <1>1, <1>3, <1>5
  <2> HIDE DEF S, p
  <2>2. shuffled' \in [Dest -> S]
    BY <2>1
  <2> QED BY <2>2 DEF S
<1>7. shuffled'[d] = Append(got, m) /\ \A e \in Dest : e # d => shuffled'[e] = shuffled[e]
  BY <1>1, <1>3
<1>8. d \notin DOMAIN result
  BY <1>1 DEF Inv, ResultsCarry, Arrived
<1>9. \A i \in 1..n : got[i].from # s
  BY <1>1, <1>5 DEF Received
<1>10. InputCarries'
  BY <1>1, InputCarriesKept DEF Inv
<1>11. MessagesCarry'
  BY <1>1, <1>2 DEF Inv, MessagesCarry
<1>12. ReceivedOnce'
  <2>1. ASSUME NEW e \in Dest, NEW i \in 1..Len(shuffled'[e])
        PROVE  /\ shuffled'[e][i].from \in DOMAIN message
               /\ shuffled'[e][i].stream =
                    IF e \in DOMAIN result THEN <<>> ELSE message[shuffled'[e][i].from][e]
               /\ \A j \in 1..Len(shuffled'[e]) :
                    j # i => shuffled'[e][j].from # shuffled'[e][i].from
    <3>1. CASE e # d
      BY <1>7, <3>1 DEF Inv, ReceivedOnce
    <3>2. CASE e = d
      <4>1. \A j \in 1..Len(shuffled'[e]) :
              \/ j = n + 1 /\ shuffled'[e][j].from = s /\ shuffled'[e][j].stream = message[s][d]
              \/ j \in 1..n /\ shuffled'[e][j] = got[j]
        <5>1. shuffled'[e] = Append(got, m) /\ m.from = s /\ m.stream = message[s][d]
          BY <1>7, <3>2
        <5>2. \A j \in 1..(n + 1) : j = n + 1 \/ j \in 1..n
          BY <1>5
        <5> HIDE DEF got, n, m
        <5> QED BY <1>5, <5>1, <5>2
      <4>2. \A j \in 1..n : /\ got[j].from \in DOMAIN message
                            /\ got[j].stream = message[got[j].from][d]
                            /\ \A k \in 1..n : k # j => got[k].from # got[j].from
        BY <1>8 DEF Inv, ReceivedOnce
      <4> HIDE DEF got, n, m
      <4> QED BY <1>1, <1>8, <1>9, <3>2, <4>1, <4>2
    <3> QED BY <3>1, <3>2
  <2>2. MessagesTyped'
    BY <1>2, <1>6 DEF MessagesTyped
  <2>3. result' = result /\ message' = message
    BY <1>1
  <2> QED BY <2>1, <2>2, <2>3 DEF ReceivedOnce
<1>13. ResultsCarry'
  <2>1. \A e \in DOMAIN result : e \in Dest /\ Arrived(e)' = Arrived(e)
    BY <1>7, <1>8 DEF Inv, ResultsCarry, Arrived, Received
  <2> QED BY <1>1, <1>2, <2>1 DEF Inv, ResultsCarry
<1> QED BY <1>10, <1>11, <1>12, <1>13 DEF Inv

\* The deserialize shard reads every message, and leaves the streams empty.
LEMMA DeserializeInv ==
  ASSUME Inv, NEW d \in Dest, Deserialize(d)
  PROVE  Inv'
<1> DEFINE got == shuffled[d]
           n == Len(got)
           read == [i \in DOMAIN got |-> [got[i] EXCEPT !.stream = <<>>]]
           S == [from : Senders, stream : Seq(Made(KeyOf))]
<1>1. /\ UNCHANGED <<kind, input, message>> /\ d \notin DOMAIN result /\ Arrived(d)
      /\ shuffled' = [shuffled EXCEPT ![d] = read]
  BY DEF Deserialize
<1>2. PICK ret \in Returns(d) :
        result' = [e \in DOMAIN result \cup {d} |-> IF e = d THEN ret ELSE result[e]]
  BY DEF Deserialize
<1>3. /\ KeyOf' = KeyOf
      /\ \A t, e : IdsSent(t, e)' = IdsSent(t, e)
      /\ \A e : IdsAt(e)' = IdsAt(e)
  BY <1>1, InputKept
<1>4. /\ DOMAIN result' = DOMAIN result \cup {d} /\ result'[d] = ret
      /\ \A e \in DOMAIN result : result'[e] = result[e]
  BY <1>1, <1>2
<1>5. shuffled \in [Dest -> Seq(S)] /\ got \in Seq(S)
  BY DEF Inv, ReceivedOnce, MessagesTyped
<1>6. n \in Nat /\ DOMAIN got = 1..n /\ \A i \in 1..n : got[i] \in S
  <2> HIDE DEF S, got
  <2> QED BY <1>5
<1>7. /\ read \in Seq(S) /\ Len(read) = n /\ DOMAIN read = 1..n
      /\ \A i \in 1..n : read[i].from = got[i].from /\ read[i].stream = <<>>
  <2> DEFINE empty(i) == [got[i] EXCEPT !.stream = <<>>]
  <2>1. \A i \in 1..n : empty(i) \in S /\ empty(i).from = got[i].from /\ empty(i).stream = <<>>
    <3> TAKE i \in 1..n
    <3> DEFINE Q == Seq(Made(KeyOf))
    <3>1. got[i] \in [from : Senders, stream : Q] /\ <<>> \in Q
      BY <1>6
    <3> HIDE DEF Q, got, n
    <3>2. /\ empty(i) \in [from : Senders, stream : Q]
          /\ empty(i).from = got[i].from /\ empty(i).stream = <<>>
      BY <3>1
    <3> QED BY <3>2 DEF Q
  <2>2. read = [i \in 1..n |-> empty(i)]
    BY <1>6
  <2> HIDE DEF S, got, n, empty, read
  <2>3. read \in [1..n -> S]
    BY <2>1, <2>2
  <2>4. read \in Seq(S) /\ Len(read) = n /\ DOMAIN read = 1..n
    BY <1>6, <2>3
  <2> QED BY <2>1, <2>2, <2>4
<1>8. shuffled' \in [Dest -> Seq(S)]
  <2> HIDE DEF S, read
  <2> QED BY <1>1, <1>5, <1>7
<1>9. shuffled'[d] = read /\ \A e \in Dest : e # d => shuffled'[e] = shuffled[e]
  <2> HIDE DEF read
  <2> QED BY <1>1, <1>5
<1>10. InputCarries'
  BY <1>1, InputCarriesKept DEF Inv
<1>11. MessagesCarry'
  BY <1>1, <1>3 DEF Inv, MessagesCarry
<1>12. ReceivedOnce'
  <2>1. ASSUME NEW e \in Dest, NEW i \in 1..Len(shuffled'[e])
        PROVE  /\ shuffled'[e][i].from \in DOMAIN message
               /\ shuffled'[e][i].stream =
                    IF e \in DOMAIN result' THEN <<>> ELSE message[shuffled'[e][i].from][e]
               /\ \A j \in 1..Len(shuffled'[e]) :
                    j # i => shuffled'[e][j].from # shuffled'[e][i].from
    <3>1. CASE e # d
      <4>1. shuffled'[e] = shuffled[e] /\ (e \in DOMAIN result' <=> e \in DOMAIN result)
        BY <1>4, <1>9, <3>1
      <4> QED BY <4>1 DEF Inv, ReceivedOnce
    <3>2. CASE e = d
      <4>1. \A j \in 1..n : /\ got[j].from \in DOMAIN message
                            /\ \A k \in 1..n : k # j => got[k].from # got[j].from
        BY DEF Inv, ReceivedOnce
      <4> HIDE DEF got, n, read
      <4> QED BY <1>4, <1>7, <1>9, <3>2, <4>1
    <3> QED BY <3>1, <3>2
  <2>2. MessagesTyped'
    BY <1>3, <1>8 DEF MessagesTyped
  <2>3. message' = message
    BY <1>1
  <2> QED BY <2>1, <2>2, <2>3 DEF ReceivedOnce
<1>13. ResultsCarry'
  <2>1. ASSUME NEW e \in DOMAIN result'
        PROVE  /\ e \in Dest /\ Arrived(e)' /\ Carries(result'[e], IdsAt(e), KeyOf)
               /\ kind = "PartitionBy" => Single(result'[e])
               /\ kind # "PartitionBy" => Ascending(result'[e])
    <3>1. CASE e = d
      <4>1. \A s \in Senders : \E i \in 1..n : got[i].from = s
        BY <1>1, <1>6 DEF Arrived, Received
      <4> HIDE DEF got, n, read
      <4>2. Arrived(d)'
        BY <1>7, <1>9, <4>1 DEF Arrived, Received
      <4> QED BY <1>1, <1>2, <1>4, <3>1, <4>2, ReturnCarries
    <3>2. CASE e # d
      <4>1. e \in DOMAIN result /\ e \in Dest /\ result'[e] = result[e]
        BY <1>4, <3>2 DEF Inv, ResultsCarry
      <4>2. Arrived(e)' = Arrived(e)
        BY <1>9, <3>2, <4>1 DEF Arrived, Received
      <4> QED BY <4>1, <4>2 DEF Inv, ResultsCarry
    <3> QED BY <3>1, <3>2
  <2> QED BY <1>1, <1>3, <2>1 DEF ResultsCarry
<1> QED BY <1>10, <1>11, <1>12, <1>13 DEF Inv

\* Every step keeps the invariant.
LEMMA NextInv ==
  ASSUME Inv, [Next]_vars
  PROVE  Inv'
<1>1. CASE UNCHANGED vars
  <2>1. UNCHANGED <<kind, input, message, shuffled, result>>
    BY <1>1 DEF vars
  <2>2. /\ KeyOf' = KeyOf
        /\ \A t, e : IdsSent(t, e)' = IdsSent(t, e)
        /\ \A e : IdsAt(e)' = IdsAt(e)
    BY <2>1, InputKept
  <2>3. InputCarries' /\ MessagesCarry'
    BY <2>1, <2>2, InputCarriesKept DEF Inv, MessagesCarry
  <2>4. ReceivedOnce'
    <3>1. MessagesTyped'
      BY <2>1, <2>2 DEF Inv, ReceivedOnce, MessagesTyped
    <3>2. shuffled' = shuffled /\ message' = message /\ result' = result
      BY <2>1
    <3> QED BY <3>1, <3>2 DEF Inv, ReceivedOnce
  <2>5. \A d : Arrived(d)' = Arrived(d)
    BY <2>1 DEF Arrived, Received
  <2>6. ResultsCarry'
    BY <2>1, <2>2, <2>5 DEF Inv, ResultsCarry
  <2> QED BY <2>3, <2>4, <2>6 DEF Inv
<1>2. ASSUME NEW s \in Senders, Serialize(s) PROVE Inv'
  BY <1>2, SerializeInv
<1>3. ASSUME NEW s \in Senders, NEW d \in Dest, Transfer(s, d) PROVE Inv'
  BY <1>3, TransferInv
<1>4. ASSUME NEW d \in Dest, Deserialize(d) PROVE Inv'
  BY <1>4, DeserializeInv
<1> QED BY <1>1, <1>2, <1>3, <1>4 DEF Next

(***************************************************************************)
(* What the records that are at a sender, in a message or in a result are  *)
(* made of: the inductive invariant.                                       *)
(***************************************************************************)
THEOREM ShuffleInvariant == Spec => []Inv
<1> QED BY InitInv, NextInv, PTL DEF Spec

-----------------------------------------------------------------------------
(* Nothing is lost or repeated. *)

\* The records at a place, if they carry the ids R.
LEMMA AtCarries ==
  ASSUME NEW place, NEW q, NEW R, Carries(q, R, KeyOf)
  PROVE  /\ \A o \in At(place, q) : /\ o.val = SetToBag(BagToSet(o.val))
                                    /\ BagToSet(o.val) \subseteq R
         /\ \A x \in R : \E o \in At(place, q) :
              /\ BagIn(x, o.val)
              /\ \A p \in At(place, q) : BagIn(x, p.val) => p = o
<1>1. q \in Seq(Made(KeyOf)) /\ DOMAIN q = 1..Len(q)
  BY DEF Carries
<1> DEFINE occurrence(i) == [place |-> place, at |-> i, val |-> q[i].val]
<1>2. At(place, q) = {occurrence(i) : i \in 1..Len(q)}
  BY <1>1 DEF At
<1>3. \A i \in 1..Len(q) : occurrence(i).val = q[i].val
  OBVIOUS
<1> HIDE DEF occurrence
<1>4. \A i \in 1..Len(q) : /\ q[i].val = SetToBag(BagToSet(q[i].val))
                           /\ BagToSet(q[i].val) = IdsOf(q[i])
  <2> TAKE i \in 1..Len(q)
  <2>1. q[i] \in Made(KeyOf)
    BY <1>1
  <2>2. q[i].val = [x \in IdsOf(q[i]) |-> 1]
    BY <2>1, MadeIs
  <2> QED BY <2>2 DEF SetToBag, BagToSet, IdsOf
<1>5. ASSUME NEW o \in At(place, q)
      PROVE  o.val = SetToBag(BagToSet(o.val)) /\ BagToSet(o.val) \subseteq R
  <2>1. PICK i \in 1..Len(q) : o = occurrence(i)
    BY <1>2
  <2>2. o.val = q[i].val
    BY <1>3, <2>1
  <2>3. IdsOf(q[i]) \subseteq R
    BY DEF Carries
  <2> QED BY <1>4, <2>2, <2>3
<1>6. ASSUME NEW x \in R
      PROVE  \E o \in At(place, q) :
               BagIn(x, o.val) /\ \A p \in At(place, q) : BagIn(x, p.val) => p = o
  <2>1. PICK i \in 1..Len(q) : x \in IdsOf(q[i])
    BY DEF Carries
  <2>2. \A j \in 1..Len(q) : x \in IdsOf(q[j]) => j = i
    BY <2>1 DEF Carries
  <2>3. occurrence(i) \in At(place, q) /\ BagIn(x, occurrence(i).val)
    BY <1>2, <1>3, <1>4, <2>1 DEF BagIn
  <2>4. ASSUME NEW p \in At(place, q), BagIn(x, p.val) PROVE p = occurrence(i)
    <3>1. PICK j \in 1..Len(q) : p = occurrence(j)
      BY <1>2
    <3>2. x \in IdsOf(q[j])
      BY <1>3, <1>4, <2>4, <3>1 DEF BagIn
    <3> QED BY <2>2, <3>1, <3>2
  <2> QED BY <2>3, <2>4
<1> QED BY <1>5, <1>6

\* The ids that the records of each place are made of.
LEMMA WaitingCarries ==
  ASSUME Inv, NEW s \in Senders
  PROVE  Carries(input[s], IdsFrom(s), KeyOf)
BY DEF Inv, InputCarries

\* Messages that have not been received carry the ids sent.
LEMMA OnTheWayCarries ==
  ASSUME Inv, NEW s \in DOMAIN message, NEW d \in Dest
  PROVE  Carries(message[s][d], IdsSent(s, d), KeyOf)
BY DEF Inv, MessagesCarry

\* Messages that have been received and read carry nothing, the others the ids sent.
LEMMA CollectedCarries ==
  ASSUME Inv, NEW d \in Dest, NEW i \in DOMAIN shuffled[d]
  PROVE  /\ shuffled[d][i].from \in DOMAIN message
         /\ Carries(shuffled[d][i].stream,
                    IF d \in DOMAIN result THEN {} ELSE IdsSent(shuffled[d][i].from, d), KeyOf)
         /\ \A j \in DOMAIN shuffled[d] :
              shuffled[d][j].from = shuffled[d][i].from => j = i
<1>1. DOMAIN shuffled[d] = 1..Len(shuffled[d])
  <2> DEFINE S == [from : Senders, stream : Seq(Made(KeyOf))]
  <2>1. shuffled[d] \in Seq(S)
    BY DEF Inv, ReceivedOnce, MessagesTyped
  <2> HIDE DEF S
  <2> QED BY <2>1
<1> DEFINE m == shuffled[d][i]
<1>2. /\ m.from \in DOMAIN message
      /\ m.stream = IF d \in DOMAIN result THEN <<>> ELSE message[m.from][d]
      /\ \A j \in 1..Len(shuffled[d]) : j # i => shuffled[d][j].from # m.from
  BY <1>1 DEF Inv, ReceivedOnce
<1> HIDE DEF m
<1>3. Carries(m.stream, IF d \in DOMAIN result THEN {} ELSE IdsSent(m.from, d), KeyOf)
  <2>1. CASE d \in DOMAIN result
    BY <1>2, <2>1, EmptyCarries
  <2>2. CASE d \notin DOMAIN result
    BY <1>2, <2>2, OnTheWayCarries
  <2> QED BY <2>1, <2>2
<1> QED BY <1>1, <1>2, <1>3 DEF m

\* A result is there only when every message has been received.
LEMMA ReturnedCarries ==
  ASSUME Inv, NEW d \in DOMAIN result
  PROVE  d \in Dest /\ Arrived(d) /\ Carries(result[d], IdsAt(d), KeyOf)
BY DEF Inv, ResultsCarry

\* Where an occurrence may be, and what it may be made of there.
IsWaiting(o, s) == s \in Senders \ DOMAIN message /\ o \in Waiting(s)
IsOnTheWay(o, s, d) ==
  s \in DOMAIN message /\ d \in Dest /\ ~Received(s, d) /\ o \in OnTheWay(s, d)
IsCollected(o, d, i) == d \in Dest /\ i \in DOMAIN shuffled[d] /\ o \in Collected(d, i)
IsReturned(o, d) == d \in DOMAIN result /\ o \in Returned(d)

\* The occurrences are those at the four kinds of places.
LEMMA OccurrenceIs ==
  /\ \A o \in Occurrences : \/ \E s : IsWaiting(o, s)
                            \/ \E s, d : IsOnTheWay(o, s, d)
                            \/ \E d, i : IsCollected(o, d, i)
                            \/ \E d : IsReturned(o, d)
  /\ \A o, s : IsWaiting(o, s) => o \in Occurrences
  /\ \A o, s, d : IsOnTheWay(o, s, d) => o \in Occurrences
  /\ \A o, d, i : IsCollected(o, d, i) => o \in Occurrences
  /\ \A o, d : IsReturned(o, d) => o \in Occurrences
<1> DEFINE A == UNION {Waiting(s) : s \in Senders \ DOMAIN message}
           B == UNION {UNION {OnTheWay(s, d) : d \in {e \in Dest : ~Received(s, e)}} :
                         s \in DOMAIN message}
           C == UNION {UNION {Collected(d, i) : i \in DOMAIN shuffled[d]} : d \in Dest}
           D == UNION {Returned(d) : d \in DOMAIN result}
<1>1. \A o : o \in A <=> \E s : IsWaiting(o, s)
  BY DEF IsWaiting
<1>2. \A o : o \in B <=> \E s, d : IsOnTheWay(o, s, d)
  BY DEF IsOnTheWay
<1>3. \A o : o \in C <=> \E d, i : IsCollected(o, d, i)
  BY DEF IsCollected
<1>4. \A o : o \in D <=> \E d : IsReturned(o, d)
  BY DEF IsReturned
<1>5. Occurrences = A \cup B \cup C \cup D
  BY DEF Occurrences
<1> HIDE DEF A, B, C, D
<1> QED BY <1>1, <1>2, <1>3, <1>4, <1>5

\* What an id of an occurrence at some place is.
LEMMA PlacesCarry ==
  ASSUME Inv, NEW o, NEW x, x \in BagToSet(o.val)
  PROVE  /\ \A s : IsWaiting(o, s) => x \in IdsFrom(s)
         /\ \A s, d : IsOnTheWay(o, s, d) => x \in IdsSent(s, d)
         /\ \A d, i : IsCollected(o, d, i) =>
              d \notin DOMAIN result /\ x \in IdsSent(shuffled[d][i].from, d)
         /\ \A d : IsReturned(o, d) => x \in IdsAt(d)
<1>1. ASSUME NEW s, IsWaiting(o, s) PROVE x \in IdsFrom(s)
  <2>1. s \in Senders /\ o \in At(<<"waiting", s>>, input[s])
    BY <1>1 DEF IsWaiting, Waiting
  <2> QED BY <2>1, WaitingCarries, AtCarries
<1>2. ASSUME NEW s, NEW d, IsOnTheWay(o, s, d) PROVE x \in IdsSent(s, d)
  <2>1. s \in DOMAIN message /\ d \in Dest /\ o \in At(<<"on the way", s, d>>, message[s][d])
    BY <1>2 DEF IsOnTheWay, OnTheWay
  <2> QED BY <2>1, OnTheWayCarries, AtCarries
<1>3. ASSUME NEW d, NEW i, IsCollected(o, d, i)
      PROVE  d \notin DOMAIN result /\ x \in IdsSent(shuffled[d][i].from, d)
  <2> DEFINE R == IF d \in DOMAIN result THEN {} ELSE IdsSent(shuffled[d][i].from, d)
  <2>1. /\ d \in Dest /\ i \in DOMAIN shuffled[d]
        /\ o \in At(<<"collected", d, i>>, shuffled[d][i].stream)
    BY <1>3 DEF IsCollected, Collected
  <2>2. Carries(shuffled[d][i].stream, R, KeyOf)
    BY <2>1, CollectedCarries
  <2> HIDE DEF R
  <2>3. x \in R
    BY <2>1, <2>2, AtCarries
  <2> QED BY <2>3 DEF R
<1>4. ASSUME NEW d, IsReturned(o, d) PROVE x \in IdsAt(d)
  <2>1. d \in DOMAIN result /\ o \in At(<<"returned", d>>, result[d])
    BY <1>4 DEF IsReturned, Returned
  <2> QED BY <2>1, ReturnedCarries, AtCarries
<1> QED BY <1>1, <1>2, <1>3, <1>4

\* An occurrence is made of ids of the dataset, each once.
LEMMA OccurrencesMade ==
  ASSUME Inv, NEW o \in Occurrences
  PROVE  o.val = SetToBag(BagToSet(o.val)) /\ BagToSet(o.val) \subseteq Ids
<1>1. o.val = SetToBag(BagToSet(o.val))
  <2>1. CASE \E s : IsWaiting(o, s)
    BY <2>1, WaitingCarries, AtCarries DEF IsWaiting, Waiting
  <2>2. CASE \E s, d : IsOnTheWay(o, s, d)
    BY <2>2, OnTheWayCarries, AtCarries DEF IsOnTheWay, OnTheWay
  <2>3. CASE \E d, i : IsCollected(o, d, i)
    BY <2>3, CollectedCarries, AtCarries DEF IsCollected, Collected
  <2>4. CASE \E d : IsReturned(o, d)
    BY <2>4, ReturnedCarries, AtCarries DEF IsReturned, Returned
  <2> QED BY <2>1, <2>2, <2>3, <2>4, OccurrenceIs
<1>2. ASSUME NEW x \in BagToSet(o.val) PROVE x \in Ids
  <2>1. \A s : s \in Senders => (\A y \in IdsFrom(s) : y \in Ids)
    BY IdsFromSenders
  <2>2. \A s, d : IdsSent(s, d) \subseteq IdsFrom(s) /\ IdsAt(d) \subseteq Ids
    BY DEF IdsSent, IdsAt, Owned
  <2>3. DOMAIN message \subseteq Senders
    BY DEF Inv, MessagesCarry
  <2>4. CASE \E s : IsWaiting(o, s)
    BY <2>1, <2>4, PlacesCarry DEF IsWaiting
  <2>5. CASE \E s, d : IsOnTheWay(o, s, d)
    BY <2>1, <2>2, <2>3, <2>5, PlacesCarry DEF IsOnTheWay
  <2>6. CASE \E d, i : IsCollected(o, d, i)
    <3>1. PICK d, i : IsCollected(o, d, i)
      BY <2>6
    <3>2. shuffled[d][i].from \in Senders
      BY <2>3, <3>1, CollectedCarries DEF IsCollected
    <3>3. x \in IdsSent(shuffled[d][i].from, d)
      BY <3>1, PlacesCarry
    <3> QED BY <2>1, <2>2, <3>2, <3>3
  <2>7. CASE \E d : IsReturned(o, d)
    BY <2>2, <2>7, PlacesCarry
  <2> QED BY <2>4, <2>5, <2>6, <2>7, OccurrenceIs
<1> QED BY <1>1, <1>2

\* The keys of the ids are keys.
LEMMA KeysOfIds ==
  ASSUME Inv, NEW x \in Ids
  PROVE  KeyOf[x] \in Key
<1>1. PICK s \in Senders : x \in IdsFrom(s)
  BY IdsFromSenders
<1> DEFINE q == input[s]
<1>2. Carries(q, IdsFrom(s), KeyOf)
  BY WaitingCarries
<1> HIDE DEF q
<1>3. \E i \in 1..Len(q) : x \in IdsOf(q[i]) /\ q[i] \in Made(KeyOf)
  BY <1>1, <1>2 DEF Carries
<1> QED BY <1>3, MadeIs

\* The place where the record made of x is: what is there carries x, and nothing else does.
IsHome(place, q, R, x) ==
  /\ Carries(q, R, KeyOf) /\ x \in R
  /\ At(place, q) \subseteq Occurrences
  /\ \A o \in Occurrences : x \in BagToSet(o.val) => o \in At(place, q)

\* Every id has a home, by how far its sender and its destination are.
LEMMA HomeExists ==
  ASSUME Inv, NEW x \in Ids
  PROVE  \E place, q, R : IsHome(place, q, R, x)
<1>1. PICK s \in Senders : x \in IdsFrom(s)
  BY IdsFromSenders
<1>2. \A t : x \in IdsFrom(t) => t = s
  BY <1>1, IdsFromSenders
<1> DEFINE d == Slot(KeyOf[x])
<1>3. \A t, e : /\ x \in IdsSent(t, e) <=> (t = s /\ e = d)
                /\ x \in IdsAt(e) <=> e = d
  BY <1>1, <1>2 DEF IdsSent, IdsAt, Owned
<1>4. d \in Dest
  <2>1. Hash[KeyOf[x]] \in Nat
    BY KeysOfIds, ShuffleAssumption
  <2> QED BY <2>1, ShuffleAssumption DEF Slot, Dest
<1>5. DOMAIN message \subseteq Senders
  BY DEF Inv, MessagesCarry
<1> HIDE DEF d
<1>6. ASSUME NEW o \in Occurrences, x \in BagToSet(o.val)
      PROVE  \/ IsWaiting(o, s)
             \/ IsOnTheWay(o, s, d)
             \/ \E i : IsCollected(o, d, i) /\ d \notin DOMAIN result /\ shuffled[d][i].from = s
             \/ IsReturned(o, d)
  <2>1. CASE \E t : IsWaiting(o, t)
    BY <1>2, <1>6, <2>1, PlacesCarry
  <2>2. CASE \E t, e : IsOnTheWay(o, t, e)
    BY <1>3, <1>6, <2>2, PlacesCarry
  <2>3. CASE \E e, i : IsCollected(o, e, i)
    <3>1. PICK e, i : IsCollected(o, e, i)
      BY <2>3
    <3>2. e \notin DOMAIN result /\ x \in IdsSent(shuffled[e][i].from, e)
      BY <1>6, <3>1, PlacesCarry
    <3> QED BY <1>3, <3>1, <3>2
  <2>4. CASE \E e : IsReturned(o, e)
    BY <1>3, <1>6, <2>4, PlacesCarry
  <2> QED BY <2>1, <2>2, <2>3, <2>4, OccurrenceIs
<1>7. \A i : i \in DOMAIN shuffled[d] => shuffled[d][i].from \in DOMAIN message
  BY <1>4, CollectedCarries
<1>8. CASE s \notin DOMAIN message
  <2>1. ~Received(s, d)
    BY <1>7, <1>8 DEF Received
  <2>2. d \notin DOMAIN result
    BY <2>1, ReturnedCarries DEF Arrived
  <2>3. \A o \in Occurrences : x \in BagToSet(o.val) => IsWaiting(o, s)
    BY <1>6, <1>7, <1>8, <2>2 DEF IsOnTheWay, IsCollected, IsReturned
  <2>4. \A o : IsWaiting(o, s) <=> o \in At(<<"waiting", s>>, input[s])
    BY <1>8 DEF IsWaiting, Waiting
  <2>5. IsHome(<<"waiting", s>>, input[s], IdsFrom(s), x)
    BY <1>1, <2>3, <2>4, WaitingCarries, OccurrenceIs DEF IsHome
  <2> QED BY <2>5
<1>9. CASE s \in DOMAIN message /\ ~Received(s, d)
  <2>1. d \notin DOMAIN result
    BY <1>9, ReturnedCarries DEF Arrived
  <2>2. \A o \in Occurrences : x \in BagToSet(o.val) => IsOnTheWay(o, s, d)
    BY <1>6, <1>9, <2>1 DEF IsWaiting, IsCollected, IsReturned, Received
  <2>3. \A o : IsOnTheWay(o, s, d) <=> o \in At(<<"on the way", s, d>>, message[s][d])
    BY <1>4, <1>9 DEF IsOnTheWay, OnTheWay
  <2>4. IsHome(<<"on the way", s, d>>, message[s][d], IdsSent(s, d), x)
    BY <1>3, <1>4, <1>9, <2>2, <2>3, OnTheWayCarries, OccurrenceIs DEF IsHome
  <2> QED BY <2>4
<1>10. CASE s \in DOMAIN message /\ Received(s, d) /\ d \notin DOMAIN result
  <2>1. PICK i \in DOMAIN shuffled[d] : shuffled[d][i].from = s
    BY <1>10 DEF Received
  <2>2. \A j : j \in DOMAIN shuffled[d] /\ shuffled[d][j].from = s => j = i
    BY <1>4, <2>1, CollectedCarries
  <2>3. Carries(shuffled[d][i].stream, IdsSent(s, d), KeyOf)
    BY <1>4, <1>10, <2>1, CollectedCarries
  <2>4. \A o \in Occurrences : x \in BagToSet(o.val) => IsCollected(o, d, i)
    BY <1>6, <1>10, <2>2 DEF IsWaiting, IsOnTheWay, IsCollected, IsReturned
  <2>5. \A o : IsCollected(o, d, i) <=> o \in At(<<"collected", d, i>>, shuffled[d][i].stream)
    BY <1>4, <2>1 DEF IsCollected, Collected
  <2>6. IsHome(<<"collected", d, i>>, shuffled[d][i].stream, IdsSent(s, d), x)
    BY <1>3, <2>3, <2>4, <2>5, OccurrenceIs DEF IsHome
  <2> QED BY <2>6
<1>11. CASE s \in DOMAIN message /\ Received(s, d) /\ d \in DOMAIN result
  <2>1. \A o \in Occurrences : x \in BagToSet(o.val) => IsReturned(o, d)
    BY <1>6, <1>11 DEF IsWaiting, IsOnTheWay
  <2>2. \A o : IsReturned(o, d) <=> o \in At(<<"returned", d>>, result[d])
    BY <1>11 DEF IsReturned, Returned
  <2>3. IsHome(<<"returned", d>>, result[d], IdsAt(d), x)
    BY <1>3, <1>11, <2>1, <2>2, ReturnedCarries, OccurrenceIs DEF IsHome
  <2> QED BY <2>3
<1> QED BY <1>8, <1>9, <1>10, <1>11

\* Every id is in one occurrence.
LEMMA OneOccurrence ==
  ASSUME Inv, NEW x \in Ids
  PROVE  Cardinality({o \in Occurrences : BagIn(x, o.val)}) = 1
<1>1. PICK place, q, R : IsHome(place, q, R, x)
  BY HomeExists
<1>2. PICK o \in At(place, q) : /\ BagIn(x, o.val)
                                /\ \A p \in At(place, q) : BagIn(x, p.val) => p = o
  BY <1>1, AtCarries DEF IsHome
<1>3. {p \in Occurrences : BagIn(x, p.val)} = {o}
  BY <1>1, <1>2 DEF IsHome, BagIn
<1> QED BY <1>3, FS_Singleton

(***************************************************************************)
(* At any moment each record of the dataset is in one place, once: waiting *)
(* at its sender, in one message, or in one partition of the result.       *)
(***************************************************************************)
THEOREM NothingLost == Spec => []NothingLostOrRepeated
<1>1. Inv => NothingLostOrRepeated
  BY OccurrencesMade, OneOccurrence DEF NothingLostOrRepeated
<1> QED BY <1>1, ShuffleInvariant, PTL

-----------------------------------------------------------------------------
(* The result is that of a grouping by key. *)

\* Records made of different ids are different, so each is there once.
LEMMA BagOfCarried ==
  ASSUME NEW key, NEW q, NEW R, Carries(q, R, key)
  PROVE  BagOf(q) = SetToBag(ToSet(q))
<1>1. q \in Seq(Made(key)) /\ DOMAIN q = 1..Len(q)
  BY DEF Carries
<1>2. \A i, j \in DOMAIN q : q[i] = q[j] => i = j
  <2>1. \A i \in 1..Len(q) : IdsOf(q[i]) # {}
    <3>1. \A i \in 1..Len(q) : q[i] \in Made(key)
      BY <1>1
    <3> QED BY <3>1 DEF Made
  <2> QED BY <1>1, <2>1 DEF Carries
<1>3. ToSet(q) = {q[i] : i \in DOMAIN q}
  BY DEF ToSet
<1>4. \A r \in ToSet(q) : Cardinality({i \in DOMAIN q : q[i] = r}) = 1
  <2> TAKE r \in ToSet(q)
  <2>1. PICK j \in DOMAIN q : r = q[j]
    BY <1>3
  <2>2. {i \in DOMAIN q : q[i] = r} = {j}
    BY <1>2, <2>1
  <2> QED BY <2>2, FS_Singleton
<1> QED BY <1>4 DEF BagOf, SetToBag

\* The record of an id, and the record of all the ids of a key.
RecordOf(x) == [key |-> KeyOf[x], val |-> [y \in {x} |-> 1]]
GroupOf(k) == [key |-> k, val |-> [x \in {x \in Ids : KeyOf[x] = k} |-> 1]]

\* Records that were not merged are those of their ids.
LEMMA SingleSet ==
  ASSUME NEW q, NEW R, Carries(q, R, KeyOf), Single(q)
  PROVE  ToSet(q) = {RecordOf(x) : x \in R}
<1>1. q \in Seq(Made(KeyOf)) /\ ToSet(q) = {q[i] : i \in 1..Len(q)}
  BY DEF Carries, ToSet
<1>2. \A i \in 1..Len(q) : \A x \in IdsOf(q[i]) : q[i] = RecordOf(x)
  <2> TAKE i \in 1..Len(q)
  <2> TAKE x \in IdsOf(q[i])
  <2> DEFINE r == q[i]
  <2>1. r \in Made(KeyOf)
    BY <1>1
  <2>2. IdsOf(r) = {x}
    BY DEF Single
  <2> HIDE DEF r
  <2>3. /\ r = [key |-> r.key, val |-> r.val]
        /\ r.val = [y \in IdsOf(r) |-> 1]
        /\ \A y \in IdsOf(r) : KeyOf[y] = r.key
    BY <2>1, MadeIs
  <2>4. r = RecordOf(x)
    BY <2>2, <2>3 DEF RecordOf
  <2> QED BY <2>4 DEF r
<1>3. \A i \in 1..Len(q) : \E x \in R : x \in IdsOf(q[i])
  BY DEF Carries, Single
<1>4. \A x \in R : \E i \in 1..Len(q) : x \in IdsOf(q[i])
  BY DEF Carries
<1> QED BY <1>1, <1>2, <1>3, <1>4

\* Records merged into one per key are those of all the ids of their keys.
LEMMA AscendingSet ==
  ASSUME NEW q, NEW d, Carries(q, IdsAt(d), KeyOf), Ascending(q)
  PROVE  ToSet(q) = {GroupOf(k) : k \in {KeyOf[x] : x \in IdsAt(d)}}
<1>1. /\ q \in Seq(Made(KeyOf)) /\ ToSet(q) = {q[i] : i \in 1..Len(q)}
      /\ Len(q) \in Nat
  BY DEF Carries, ToSet
<1>2. \A i \in 1..Len(q) : /\ IdsOf(q[i]) \subseteq IdsAt(d)
                           /\ IdsOf(q[i]) # {}
                           /\ q[i] = [key |-> q[i].key, val |-> [x \in IdsOf(q[i]) |-> 1]]
                           /\ q[i].key \in Key
                           /\ \A x \in IdsOf(q[i]) : KeyOf[x] = q[i].key
  <2> TAKE i \in 1..Len(q)
  <2>1. q[i] \in Made(KeyOf) /\ IdsOf(q[i]) \subseteq IdsAt(d)
    BY <1>1 DEF Carries
  <2> QED BY <2>1, MadeIs
<1>3. \A i, j \in 1..Len(q) : q[i].key = q[j].key => i = j
  <2> SUFFICES ASSUME NEW i \in 1..Len(q), NEW j \in 1..Len(q), q[i].key = q[j].key, i # j
               PROVE  FALSE
    OBVIOUS
  <2>1. q[i].key \in Nat /\ q[j].key \in Nat
    BY <1>2, ShuffleAssumption
  <2>2. i < j \/ j < i
    BY <1>1
  <2>3. q[i].key < q[j].key \/ q[j].key < q[i].key
    BY <2>2 DEF Ascending
  <2> QED BY <2>1, <2>3
<1>4. \A x \in IdsAt(d) : x \in Ids /\ Slot(KeyOf[x]) = d
  BY DEF IdsAt, Owned
<1>5. \A x \in Ids : Slot(KeyOf[x]) = d => x \in IdsAt(d)
  BY DEF IdsAt, Owned
<1>6. \A x \in IdsAt(d) : \E i \in 1..Len(q) : x \in IdsOf(q[i])
  BY DEF Carries
<1>7. ASSUME NEW i \in 1..Len(q) PROVE IdsOf(q[i]) = {x \in Ids : KeyOf[x] = q[i].key}
  <2>1. ASSUME NEW x \in Ids, KeyOf[x] = q[i].key PROVE x \in IdsOf(q[i])
    <3>1. PICK y : y \in IdsOf(q[i]) /\ y \in IdsAt(d) /\ KeyOf[y] = q[i].key
      BY <1>2
    <3>2. x \in IdsAt(d)
      BY <1>4, <1>5, <2>1, <3>1
    <3>3. PICK j \in 1..Len(q) : x \in IdsOf(q[j])
      BY <1>6, <3>2
    <3>4. q[j].key = q[i].key
      BY <1>2, <2>1, <3>3
    <3> QED BY <1>3, <3>3, <3>4
  <2> QED BY <1>2, <1>4, <2>1
<1>8. \A i \in 1..Len(q) : q[i] = GroupOf(q[i].key)
  BY <1>2, <1>7 DEF GroupOf
<1>9. \A i \in 1..Len(q) : \E x \in IdsAt(d) : q[i] = GroupOf(KeyOf[x])
  <2> TAKE i \in 1..Len(q)
  <2>1. PICK x \in IdsAt(d) : KeyOf[x] = q[i].key
    BY <1>2
  <2> QED BY <1>8, <2>1
<1>10. \A x \in IdsAt(d) : \E i \in 1..Len(q) : GroupOf(KeyOf[x]) = q[i]
  <2> TAKE x \in IdsAt(d)
  <2>1. PICK i \in 1..Len(q) : KeyOf[x] = q[i].key
    BY <1>2, <1>6
  <2> QED BY <1>8, <2>1
<1> QED BY <1>1, <1>9, <1>10

\* The records of the dataset.
AllRecords == UNION {ToSet(input[s]) : s \in Senders}

\* The dataset has the records of its ids.
LEMMA AllRecordsAre ==
  ASSUME Inv
  PROVE  AllRecords = {RecordOf(x) : x \in Ids}
<1>1. \A s \in Senders : ToSet(input[s]) = {RecordOf(x) : x \in IdsFrom(s)}
  BY SingleSet DEF Inv, InputCarries
<1> QED BY <1>1, IdsFromSenders DEF AllRecords

\* What carries the ids of a partition, merged as the operation merges, is its content.
LEMMA ContentIs ==
  ASSUME Inv, NEW d \in Dest, NEW ret, Carries(ret, IdsAt(d), KeyOf),
         kind = "PartitionBy" => Single(ret), kind # "PartitionBy" => Ascending(ret)
  PROVE  BagOf(ret) = Groups!Content(d)
<1> DEFINE records == SetToBag(AllRecords)
<1>1. BagOf(ret) = SetToBag(ToSet(ret))
  BY BagOfCarried
<1>2. DOMAIN records = {RecordOf(x) : x \in Ids} /\ records = [r \in DOMAIN records |-> 1]
  BY AllRecordsAre DEF SetToBag
<1>3. \A x : RecordOf(x).key = KeyOf[x] /\ BagToSet(RecordOf(x).val) = {x}
  BY DEF RecordOf, BagToSet
<1>4. \A x : x \in IdsAt(d) <=> (x \in Ids /\ Slot(KeyOf[x]) = d)
  BY DEF IdsAt, Owned
<1> HIDE DEF records
<1>5. CASE kind = "PartitionBy"
  <2>1. ToSet(ret) = {RecordOf(x) : x \in IdsAt(d)}
    BY <1>5, SingleSet
  <2>2. {r \in DOMAIN records : Slot(r.key) = d} = {RecordOf(x) : x \in IdsAt(d)}
    BY <1>2, <1>3, <1>4
  <2>3. Groups!Content(d) = [r \in {r \in DOMAIN records : Slot(r.key) = d} |-> records[r]]
    BY <1>5 DEF Groups!Content, records, AllRecords
  <2>4. Groups!Content(d) = [r \in ToSet(ret) |-> 1]
    BY <1>2, <2>1, <2>2, <2>3
  <2> QED BY <1>1, <2>4 DEF SetToBag
<1>6. CASE kind # "PartitionBy"
  <2> DEFINE ids(k) == UNION {BagToSet(r.val) : r \in {r \in DOMAIN records : r.key = k}}
             merged(k) == [key |-> k, val |-> SetToBag(ids(k))]
             keys == {k \in Key : Slot(k) = d /\ \E r \in DOMAIN records : r.key = k}
  <2>1. ToSet(ret) = {GroupOf(k) : k \in {KeyOf[x] : x \in IdsAt(d)}}
    BY <1>6, AscendingSet
  <2>2. \A k : ids(k) = {x \in Ids : KeyOf[x] = k}
    <3> TAKE k
    <3>1. ASSUME NEW x \in ids(k) PROVE x \in Ids /\ KeyOf[x] = k
      BY <1>2, <1>3
    <3>2. ASSUME NEW x \in Ids, KeyOf[x] = k PROVE x \in ids(k)
      <4>1. RecordOf(x) \in {r \in DOMAIN records : r.key = k}
        BY <1>2, <1>3, <3>2
      <4>2. x \in BagToSet(RecordOf(x).val)
        BY <1>3
      <4> QED BY <4>1, <4>2
    <3> QED BY <3>1, <3>2
  <2>3. \A k : merged(k) = GroupOf(k)
    <3> HIDE DEF ids
    <3> QED BY <2>2 DEF SetToBag, GroupOf
  <2>4. keys = {KeyOf[x] : x \in IdsAt(d)}
    <3>1. \A x \in Ids : KeyOf[x] \in Key
      BY KeysOfIds
    <3> QED BY <1>2, <1>3, <1>4, <3>1
  <2>5. Groups!Content(d) = SetToBag({merged(k) : k \in keys})
    BY <1>6 DEF Groups!Content, Groups!Merged, Groups!SetToBag, Groups!BagToSet,
                SetToBag, BagToSet, records, AllRecords
  <2> HIDE DEF merged, keys
  <2>6. {merged(k) : k \in keys} = ToSet(ret)
    BY <2>1, <2>3, <2>4
  <2> QED BY <1>1, <2>5, <2>6
<1> QED BY <1>5, <1>6

(***************************************************************************)
(* Whatever the order of the messages and of records of equal key, every   *)
(* partition of the result appears at once, for good, and with what a      *)
(* grouping by key has there: the records as they were for PartitionBy,    *)
(* and merged into one of each key for the others.                         *)
(***************************************************************************)
THEOREM ShuffleImplementsGroups == Spec => GroupsSpec
<1>1. Init => Groups!Init
  BY DEF Init, Groups!Init, Groups!EmptyBag
<1>2. ASSUME Inv, [Next]_vars
      PROVE  [Groups!Next]_<<kind # "PartitionBy",
                             SetToBag(UNION {ToSet(input[s]) : s \in Senders}),
                             [d \in DOMAIN result |-> BagOf(result[d])]>>
  <2>1. ASSUME UNCHANGED <<kind, input, result>>
        PROVE  UNCHANGED <<kind # "PartitionBy",
                           SetToBag(UNION {ToSet(input[s]) : s \in Senders}),
                           [d \in DOMAIN result |-> BagOf(result[d])]>>
    <3>1. UNCHANGED (kind # "PartitionBy")
      BY <2>1, Zenon
    <3>2. UNCHANGED SetToBag(UNION {ToSet(input[s]) : s \in Senders})
      BY <2>1
    <3>3. UNCHANGED [d \in DOMAIN result |-> BagOf(result[d])]
      BY <2>1
    <3> QED BY <3>1, <3>2, <3>3
  <2>2. ASSUME NEW s \in Senders, Serialize(s) PROVE UNCHANGED <<kind, input, result>>
    BY <2>2 DEF Serialize
  <2>3. ASSUME NEW s \in Senders, NEW d \in Dest, Transfer(s, d)
        PROVE  UNCHANGED <<kind, input, result>>
    BY <2>3 DEF Transfer
  <2>4. ASSUME NEW d \in Dest, Deserialize(d) PROVE Groups!Fill(d)
    <3> DEFINE parts == [e \in DOMAIN result |-> BagOf(result[e])]
               partsNext == [e \in DOMAIN result' |-> BagOf(result'[e])]
    <3>1. /\ d \notin DOMAIN result /\ Arrived(d) /\ kind' = kind /\ input' = input
          /\ \E ret \in Returns(d) :
               result' = [e \in DOMAIN result \cup {d} |-> IF e = d THEN ret ELSE result[e]]
      BY <2>4 DEF Deserialize
    <3>2. PICK ret \in Returns(d) :
            result' = [e \in DOMAIN result \cup {d} |-> IF e = d THEN ret ELSE result[e]]
      BY <3>1
    <3>3. BagOf(ret) = Groups!Content(d)
      BY <1>2, <3>1, ReturnCarries, ContentIs
    <3>4. /\ DOMAIN result' = DOMAIN result \cup {d} /\ result'[d] = ret
          /\ \A e \in DOMAIN result : result'[e] = result[e] /\ e # d
      BY <3>1, <3>2
    <3>5. partsNext = [e \in DOMAIN parts \cup {d} |->
                         IF e = d THEN Groups!Content(d) ELSE parts[e]]
      <4>1. DOMAIN parts = DOMAIN result /\ \A e \in DOMAIN result : parts[e] = BagOf(result[e])
        OBVIOUS
      <4> HIDE DEF parts
      <4>2. \A e \in DOMAIN result \cup {d} :
              BagOf(result'[e]) = IF e = d THEN Groups!Content(d) ELSE parts[e]
        BY <3>3, <3>4, <4>1
      <4> QED BY <3>4, <4>1, <4>2
    <3>6. UNCHANGED (kind # "PartitionBy")
      BY <3>1, Zenon
    <3>7. UNCHANGED SetToBag(UNION {ToSet(input[s]) : s \in Senders})
      BY <3>1
    <3> QED BY <3>1, <3>5, <3>6, <3>7 DEF Groups!Fill
  <2>5. CASE UNCHANGED vars
    BY <2>1, <2>5 DEF vars
  <2> QED BY <1>2, <2>1, <2>2, <2>3, <2>4, <2>5 DEF Next, Groups!Next
<1> QED BY <1>1, <1>2, ShuffleInvariant, PTL DEF Spec, GroupsSpec, Groups!Spec

=============================================================================
