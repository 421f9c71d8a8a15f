---------------------------- MODULE PartitionProofs ----------------------------
(***************************************************************************)
(* For values, strings and sizes of any number: a partition, of values or  *)
(* of strings, stays inside the memory it has, and is the vector that      *)
(* Vector describes, call by call.                                         *)
(***************************************************************************)
EXTENDS Partition, FiniteSetTheorems, WellFoundedInduction, TLAPS

-----------------------------------------------------------------------------
(* Loops. *)

\* What holds at first, and after each step if before it, holds at the end.
LEMMA Steps ==
  ASSUME NEW n \in Nat, NEW T, 0 \in T, \A i \in 1..n : i - 1 \in T => i \in T
  PROVE  0..n \subseteq T
<1> DEFINE Rest == (0..n) \ T
<1> SUFFICES ASSUME Rest # {} PROVE FALSE
  OBVIOUS
<1>1. Rest \subseteq Nat
  OBVIOUS
<1>2. PICK x \in Rest : \A y \in Rest : ~ (<<y, x>> \in OpToRel(<, Nat))
  BY <1>1, NatLessThanWellFounded, WFMin
<1>3. x \in 1..n /\ x - 1 \in 0..n /\ x \notin T
  <2>1. x \in 0..n /\ x \notin T /\ x # 0
    OBVIOUS
  <2> QED BY <2>1
<1>4. <<x - 1, x>> \in OpToRel(<, Nat)
  BY <1>3 DEF OpToRel
<1>5. x - 1 \in T
  BY <1>2, <1>3, <1>4
<1> QED BY <1>3, <1>5

\* f is what a loop of n turns goes through from base on.
Runs(f, n, base, turn) ==
  /\ f = [i \in 0..n |-> f[i]]
  /\ f[0] = base
  /\ \A i \in 1..n : f[i] = turn[i][f[i - 1]]

\* A loop has a run if its turns are defined on what the turns before may leave.
LEMMA LoopRuns ==
  ASSUME NEW n \in Nat, NEW T, NEW base, base \in T[0], NEW turn,
         \A i \in 1..n : \A q \in T[i - 1] : turn[i][q] \in T[i]
  PROVE  \E f : Runs(f, n, base, turn) /\ \A i \in 0..n : f[i] \in T[i]
<1> DEFINE Run(m, f) == Runs(f, m, base, turn) /\ \A i \in 0..m : f[i] \in T[i]
           Good == {m \in 0..n : \E f : Run(m, f)}
<1>1. 0 \in Good
  <2> DEFINE f == [i \in 0..0 |-> base]
  <2>1. Run(0, f)
    BY DEF Runs
  <2> HIDE DEF f, Run
  <2> QED BY <2>1
<1>2. ASSUME NEW m \in 1..n, m - 1 \in Good PROVE m \in Good
  <2>1. PICK f : Run(m - 1, f)
    BY <1>2
  <2> DEFINE g == [i \in 0..m |-> IF i = m THEN turn[m][f[m - 1]] ELSE f[i]]
  <2>2. /\ f[m - 1] \in T[m - 1] /\ m - 1 \in 0..(m - 1) /\ m \in 0..m /\ m # 0
        /\ g = [i \in 0..m |-> g[i]]
    BY <2>1
  <2>3. \A i \in 0..(m - 1) : g[i] = f[i] /\ i \in 0..m
    OBVIOUS
  <2>4. g[m] = turn[m][g[m - 1]]
    BY <2>2, <2>3
  <2>5. \A i \in 1..(m - 1) : g[i] = turn[i][g[i - 1]]
    <3> SUFFICES ASSUME NEW i \in 1..(m - 1) PROVE g[i] = turn[i][g[i - 1]]
      OBVIOUS
    <3>1. f[i] = turn[i][f[i - 1]]
      BY <2>1 DEF Runs
    <3>2. i - 1 \in 0..(m - 1)
      OBVIOUS
    <3> QED BY <3>1, <3>2, <2>3
  <2>6. \A i \in 0..m : i = m \/ i \in 0..(m - 1)
    OBVIOUS
  <2>7. g[0] = base
    BY <2>1, <2>3 DEF Runs
  <2>8. \A i \in 0..m : g[i] \in T[i]
    BY <2>1, <2>2, <2>3, <2>4, <2>6
  <2> HIDE DEF g
  <2>9. \A i \in 1..m : g[i] = turn[i][g[i - 1]]
    BY <2>4, <2>5, <2>6
  <2>10. Run(m, g)
    BY <2>2, <2>7, <2>8, <2>9 DEF Runs
  <2> HIDE DEF Run
  <2> QED BY <2>10
<1>3. 0..n \subseteq Good
  <2> HIDE DEF Good
  <2> QED BY <1>1, <1>2, Steps
<1>4. n \in Good
  BY <1>3
<1> QED BY <1>4

\* What a run of a loop leaves: what its turns keep.
LEMMA LoopKeeps ==
  ASSUME NEW n \in Nat, NEW T, NEW f, f[0] \in T[0],
         \A i \in 1..n : f[i - 1] \in T[i - 1] => f[i] \in T[i]
  PROVE  f[n] \in T[n]
<1> DEFINE Good == {i \in 0..n : f[i] \in T[i]}
<1>1. 0 \in Good /\ \A i \in 1..n : i - 1 \in Good => i \in Good
  OBVIOUS
<1>2. 0..n \subseteq Good
  <2> HIDE DEF Good
  <2> QED BY <1>1, Steps
<1> QED BY <1>2

-----------------------------------------------------------------------------
(* The buffer of a partition of values. *)

Buffer(p) ==
  /\ p \in [cells : Seq(Value \cup {Unset}), size : Nat, capacity : Nat]
  /\ p.size <= p.capacity /\ p.capacity <= Len(p.cells)
  /\ ~fundamental => p.cells \in Seq(Value)

\* The first cells have the elements v; size may have run ahead of them.
Has(p, v) ==
  /\ Buffer(p) /\ v \in Seq(Value) /\ Len(v) <= p.size
  /\ \A i \in 1..Len(v) : p.cells[i] = v[i]

\* p is the partition that holds the elements v.
Holds(p, v) == Has(p, v) /\ p.size = Len(v)

\* A function on 1..n is a sequence.
LEMMA IsSeq ==
  ASSUME NEW X, NEW n \in Nat, NEW f, f \in [1..n -> X]
  PROVE  f \in Seq(X) /\ Len(f) = n
OBVIOUS

LEMMA UsedElements ==
  ASSUME NEW p, NEW v, Holds(p, v)
  PROVE  Used(p) = v
<1>1. v = [i \in 1..Len(v) |-> v[i]] /\ Len(v) \in Nat
  BY DEF Holds, Has
<1> QED BY <1>1 DEF Holds, Has, Used

LEMMA NewBuffer ==
  ASSUME NEW v \in Seq(Value), NEW n \in Nat, Len(v) <= n
  PROVE  LET q == GetNewBuffer(n, v) IN Has(q, v) /\ q.size = n /\ q.capacity = n
<1> DEFINE filled == [i \in 1..n |-> IF i <= Len(v) THEN v[i]
                                   ELSE IF fundamental THEN Unset ELSE Zero]
<1>1. filled \in [1..n -> Value \cup {Unset}]
  BY PartitionAssumption
<1>2. ~fundamental => filled \in [1..n -> Value]
  BY PartitionAssumption
<1>3. \A i \in 1..Len(v) : filled[i] = v[i]
  OBVIOUS
<1> HIDE DEF filled
<1>4. filled \in Seq(Value \cup {Unset}) /\ Len(filled) = n /\ (~fundamental => filled \in Seq(Value))
  BY <1>1, <1>2, IsSeq
<1>5. GetNewBuffer(n, v) = [cells |-> filled, size |-> n, capacity |-> n]
  BY DEF GetNewBuffer, filled
<1> QED BY <1>3, <1>4, <1>5 DEF Has, Buffer

LEMMA ResizeInnerHas ==
  ASSUME NEW p, NEW v, Holds(p, v), NEW n \in Nat, Len(v) <= n
  PROVE  LET q == ResizeInner(p, n) IN Has(q, v) /\ q.size = n
<1>1. CASE p.capacity >= n
  <2>1. ResizeInner(p, n) = [p EXCEPT !.size = n]
    BY <1>1 DEF ResizeInner
  <2> QED BY <1>1, <2>1 DEF Holds, Has, Buffer
<1>2. CASE ~ (p.capacity >= n)
  <2>1. ResizeInner(p, n) = [GetNewBuffer(n + 5, v) EXCEPT !.size = n]
    BY <1>2, UsedElements DEF ResizeInner
  <2>2. Has(GetNewBuffer(n + 5, v), v) /\ GetNewBuffer(n + 5, v).capacity = n + 5
    BY NewBuffer DEF Holds, Has
  <2> HIDE DEF GetNewBuffer
  <2> QED BY <2>1, <2>2 DEF Has, Buffer
<1> QED BY <1>1, <1>2

LEMMA ReserveHolds ==
  ASSUME NEW p, NEW v, Holds(p, v), NEW n \in Nat
  PROVE  Holds(Reserve(p, n), v) /\ Reserve(p, n).capacity >= n
<1>1. CASE p.capacity >= n
  BY <1>1 DEF Reserve
<1>2. CASE ~ (p.capacity >= n)
  <2>1. Len(v) <= n /\ p.size = Len(v) /\ Len(v) \in Nat
    BY <1>2 DEF Holds, Has, Buffer
  <2>2. Has(ResizeInner(p, n), v) /\ ResizeInner(p, n).size = n
    BY <2>1, ResizeInnerHas
  <2>3. Reserve(p, n) = [ResizeInner(p, n) EXCEPT !.size = p.size]
    BY <1>2 DEF Reserve
  <2> QED BY <2>1, <2>2, <2>3 DEF Holds, Has, Buffer
<1> QED BY <1>1, <1>2

LEMMA GrownHas ==
  ASSUME NEW p, NEW v, Holds(p, v), NEW n \in Nat, Len(v) <= n
  PROVE  LET q == Grown(p, n) IN Has(q, v) /\ q.size = n
<1>1. p.size = Len(v) /\ Len(v) \in Nat
  BY DEF Holds, Has
<1>2. CASE n > p.capacity
  <2> DEFINE m == IF n > p.size * 2 THEN n ELSE p.size * 2
  <2>1. m \in Nat /\ n <= m /\ Len(v) <= m
    BY <1>1
  <2>2. Grown(p, n) = [ResizeInner(p, m) EXCEPT !.size = n]
    BY <1>2 DEF Grown
  <2> HIDE DEF m
  <2>3. Has(ResizeInner(p, m), v) /\ ResizeInner(p, m).size = m
    BY <2>1, ResizeInnerHas
  <2> QED BY <2>1, <2>2, <2>3 DEF Has, Buffer
<1>3. CASE ~ (n > p.capacity)
  BY <1>3, ResizeInnerHas DEF Grown
<1> QED BY <1>2, <1>3

\* What resize leaves: the elements there were, and x behind them.
Extended(v, n, x) == [i \in 1..n |-> IF i <= Len(v) THEN v[i] ELSE x]
ExtendedBy(v, n, f) == [i \in 1..n |-> IF i <= Len(v) THEN v[i] ELSE f[i]]

LEMMA CutHolds ==
  ASSUME NEW p, NEW v, Holds(p, v), NEW n \in Nat, n <= Len(v), NEW x
  PROVE  Holds([p EXCEPT !.size = n], Extended(v, n, x))
<1>1. Extended(v, n, x) \in [1..n -> Value]
  BY DEF Extended, Holds, Has
<1>2. Extended(v, n, x) \in Seq(Value) /\ Len(Extended(v, n, x)) = n
  BY <1>1, IsSeq
<1>3. \A i \in 1..n : i \in 1..Len(v) /\ Extended(v, n, x)[i] = v[i]
  BY DEF Extended, Holds, Has
<1> QED BY <1>2, <1>3 DEF Holds, Has, Buffer

LEMMA SetValuesHolds ==
  ASSUME NEW q, NEW v, NEW n \in Nat, Len(v) <= n, Has(q, v), q.size = n, NEW x \in Value
  PROVE  Holds(SetValues(q, Len(v), n - Len(v), x), Extended(v, n, x))
<1> DEFINE set == [i \in DOMAIN q.cells |->
                     IF i \in (Len(v) + 1)..(Len(v) + (n - Len(v))) THEN x ELSE q.cells[i]]
<1>1. v \in Seq(Value) /\ Len(v) \in Nat /\ n <= Len(q.cells) /\ Buffer(q)
  BY DEF Has, Buffer
<1>2. q.cells \in Seq(Value \cup {Unset}) /\ (~fundamental => q.cells \in Seq(Value))
  BY <1>1 DEF Buffer
<1>3. Len(q.cells) \in Nat /\ DOMAIN q.cells = 1..Len(q.cells)
  BY <1>2
<1>4. set \in [1..Len(q.cells) -> Value \cup {Unset}]
  BY <1>2, <1>3
<1>5. ~fundamental => set \in [1..Len(q.cells) -> Value]
  BY <1>2, <1>3
<1>6. \A i \in 1..n : set[i] = Extended(v, n, x)[i]
  <2> SUFFICES ASSUME NEW i \in 1..n PROVE set[i] = Extended(v, n, x)[i]
    OBVIOUS
  <2>1. i \in DOMAIN q.cells
    BY <1>1, <1>3
  <2>2. CASE i <= Len(v)
    BY <2>1, <2>2, <1>1 DEF Extended, Has
  <2>3. CASE ~ (i <= Len(v))
    BY <2>1, <2>3, <1>1 DEF Extended
  <2> QED BY <2>2, <2>3
<1>7. SetValues(q, Len(v), n - Len(v), x) = [q EXCEPT !.cells = set]
  BY DEF SetValues
<1> HIDE DEF set
<1>8. /\ set \in Seq(Value \cup {Unset}) /\ Len(set) = Len(q.cells)
      /\ ~fundamental => set \in Seq(Value)
  BY <1>3, <1>4, <1>5, IsSeq
<1>9. Extended(v, n, x) \in [1..n -> Value]
  BY <1>1 DEF Extended
<1>10. Extended(v, n, x) \in Seq(Value) /\ Len(Extended(v, n, x)) = n
  BY <1>9, IsSeq
<1> QED BY <1>1, <1>6, <1>7, <1>8, <1>10 DEF Holds, Has, Buffer

LEMMA ResizedWithHolds ==
  ASSUME NEW p, NEW v, Holds(p, v), NEW n \in Nat, NEW x \in Value
  PROVE  Holds(ResizedWith(p, n, x), Extended(v, n, x))
<1>1. p.size = Len(v) /\ Len(v) \in Nat
  BY DEF Holds, Has
<1>2. CASE n <= p.size
  BY <1>1, <1>2, CutHolds DEF ResizedWith
<1>3. CASE ~ (n <= p.size)
  <2>1. Has(Grown(p, n), v) /\ Grown(p, n).size = n
    BY <1>1, <1>3, GrownHas
  <2> QED BY <1>1, <1>3, <2>1, SetValuesHolds DEF ResizedWith
<1> QED BY <1>2, <1>3

\* What resize(n) appends is 0 in a fundamental type, and a value in others.
LEMMA ResizedHolds ==
  ASSUME NEW p, NEW v, Holds(p, v), NEW n \in Nat
  PROVE  \E f \in [1..n -> IF fundamental THEN {Zero} ELSE Value] :
           Holds(Resized(p, n), ExtendedBy(v, n, f))
<1>1. p.size = Len(v) /\ Len(v) \in Nat
  BY DEF Holds, Has
<1>2. \A x \in Value : \A f \in [1..n -> {x}] :
        ExtendedBy(v, n, f) = Extended(v, n, x)
  BY DEF Extended, ExtendedBy
<1>3. Zero \in Value /\ [i \in 1..n |-> Zero] \in [1..n -> {Zero}]
      /\ [i \in 1..n |-> Zero] \in [1..n -> Value]
  BY PartitionAssumption
<1>4. [i \in 1..n |-> Zero] \in [1..n -> IF fundamental THEN {Zero} ELSE Value]
  BY <1>3
<1>5. CASE n <= p.size
  <2>1. Holds(Resized(p, n), Extended(v, n, Zero))
    BY <1>1, <1>5, CutHolds DEF Resized
  <2> QED BY <2>1, <1>2, <1>3, <1>4
<1>6. CASE ~ (n <= p.size) /\ fundamental
  <2>1. Has(Grown(p, n), v) /\ Grown(p, n).size = n
    BY <1>1, <1>6, GrownHas
  <2>2. Holds(Resized(p, n), Extended(v, n, Zero))
    BY <1>1, <1>3, <1>6, <2>1, SetValuesHolds DEF Resized
  <2> QED BY <2>2, <1>2, <1>3, <1>4
<1>7. CASE ~ (n <= p.size) /\ ~fundamental
  <2> DEFINE q == Grown(p, n)
             f == [i \in 1..n |-> q.cells[i]]
             w == ExtendedBy(v, n, f)
  <2>1. Has(q, v) /\ q.size = n /\ Resized(p, n) = q
    BY <1>1, <1>7, GrownHas DEF Resized
  <2> HIDE DEF q
  <2>2. q.cells \in Seq(Value) /\ n <= Len(q.cells) /\ v \in Seq(Value)
    BY <1>7, <2>1 DEF Has, Buffer
  <2>3. f \in [1..n -> Value] /\ w \in [1..n -> Value]
    BY <1>1, <2>2 DEF ExtendedBy
  <2>4. \A i \in 1..n : q.cells[i] = w[i]
    BY <1>1, <2>1 DEF Has, ExtendedBy
  <2> HIDE DEF w
  <2>5. w \in Seq(Value) /\ Len(w) = n
    BY <2>3, IsSeq
  <2>6. Holds(Resized(p, n), w)
    BY <2>1, <2>4, <2>5 DEF Holds, Has
  <2> QED BY <1>7, <2>3, <2>6 DEF w
<1> QED BY <1>5, <1>6, <1>7

LEMMA OverwrittenCells ==
  ASSUME NEW p, Buffer(p), NEW pos \in Nat, NEW new \in Seq(Value)
  PROVE  LET q == Overwritten(p, pos, new)
         IN /\ Buffer(q) /\ q.size = p.size /\ q.capacity = p.capacity
            /\ \A i \in 1..Len(p.cells) :
                 q.cells[i] = IF i \in (pos + 1)..(pos + Len(new)) THEN new[i - pos]
                                                                  ELSE p.cells[i]
<1> DEFINE set == [i \in DOMAIN p.cells |->
                     IF i \in (pos + 1)..(pos + Len(new)) THEN new[i - pos] ELSE p.cells[i]]
<1>1. p.cells \in Seq(Value \cup {Unset}) /\ (~fundamental => p.cells \in Seq(Value))
  BY DEF Buffer
<1>2. Len(p.cells) \in Nat /\ DOMAIN p.cells = 1..Len(p.cells) /\ Len(new) \in Nat
  BY <1>1
<1>3. \A i \in (pos + 1)..(pos + Len(new)) : new[i - pos] \in Value
  BY <1>2
<1>4. set \in [1..Len(p.cells) -> Value \cup {Unset}]
  BY <1>1, <1>2, <1>3
<1>5. ~fundamental => set \in [1..Len(p.cells) -> Value]
  BY <1>1, <1>2, <1>3
<1>6. \A i \in 1..Len(p.cells) :
        set[i] = IF i \in (pos + 1)..(pos + Len(new)) THEN new[i - pos] ELSE p.cells[i]
  BY <1>2
<1>7. Overwritten(p, pos, new) = [p EXCEPT !.cells = set]
  BY DEF Overwritten
<1> HIDE DEF set
<1>8. /\ set \in Seq(Value \cup {Unset}) /\ Len(set) = Len(p.cells)
      /\ ~fundamental => set \in Seq(Value)
  BY <1>2, <1>4, <1>5, IsSeq
<1> QED BY <1>6, <1>7, <1>8 DEF Buffer

Replaced(v, pos, new) ==
  [i \in 1..Len(v) |-> IF i \in (pos + 1)..(pos + Len(new)) THEN new[i - pos] ELSE v[i]]

LEMMA OverwrittenHolds ==
  ASSUME NEW p, NEW v, Holds(p, v), NEW pos \in Nat, NEW new \in Seq(Value),
         pos + Len(new) <= Len(v)
  PROVE  Holds(Overwritten(p, pos, new), Replaced(v, pos, new))
<1> DEFINE w == Replaced(v, pos, new)
           q == Overwritten(p, pos, new)
<1>1. v \in Seq(Value) /\ Len(v) \in Nat /\ Len(new) \in Nat /\ Buffer(p) /\ p.size = Len(v)
  BY DEF Holds, Has
<1>2. \A i \in (pos + 1)..(pos + Len(new)) : new[i - pos] \in Value
  BY <1>1
<1>3. w \in [1..Len(v) -> Value]
  BY <1>1, <1>2 DEF Replaced
<1>4. /\ Buffer(q) /\ q.size = p.size
      /\ \A i \in 1..Len(p.cells) :
           q.cells[i] = IF i \in (pos + 1)..(pos + Len(new)) THEN new[i - pos] ELSE p.cells[i]
  BY <1>1, OverwrittenCells
<1>5. \A i \in 1..Len(v) : i \in 1..Len(p.cells) /\ p.cells[i] = v[i]
  BY <1>1 DEF Holds, Has, Buffer
<1>6. \A i \in 1..Len(v) : q.cells[i] = w[i]
  BY <1>4, <1>5 DEF Replaced
<1> HIDE DEF w, q
<1>7. w \in Seq(Value) /\ Len(w) = Len(v)
  BY <1>1, <1>3, IsSeq
<1>8. Holds(q, w)
  BY <1>1, <1>4, <1>6, <1>7 DEF Holds, Has
<1> QED BY <1>8 DEF w, q

\* push_back, on the partition or on the one Filter makes.
LEMMA PushedHolds ==
  ASSUME NEW p, NEW v, Holds(p, v), NEW x \in Value
  PROVE  Holds(Pushed(p, x), Append(v, x))
<1> DEFINE room == IF p.size = p.capacity THEN Reserve(p, p.size * 2 + 5) ELSE p
           q == Overwritten(room, p.size, <<x>>)
<1>1. v \in Seq(Value) /\ Len(v) \in Nat /\ p.size = Len(v) /\ <<x>> \in Seq(Value)
      /\ Len(<<x>>) = 1 /\ <<x>>[1] = x
  BY DEF Holds, Has
<1>2. Holds(room, v) /\ Len(v) + 1 <= room.capacity
  <2>1. CASE p.size = p.capacity
    <3> DEFINE n == p.size * 2 + 5
    <3>1. n \in Nat /\ Len(v) + 1 <= n
      BY <1>1
    <3>2. room = Reserve(p, n)
      BY <2>1
    <3> HIDE DEF n, room
    <3>3. Holds(Reserve(p, n), v) /\ Reserve(p, n).capacity >= n
      BY <3>1, ReserveHolds
    <3> QED BY <1>1, <3>1, <3>2, <3>3 DEF Holds, Has, Buffer
  <2>2. CASE p.size # p.capacity
    BY <1>1, <2>2 DEF Holds, Has, Buffer
  <2> QED BY <2>1, <2>2
<1>3. Pushed(p, x) = [q EXCEPT !.size = p.size + 1]
  BY DEF Pushed
<1> HIDE DEF room
<1>4. Buffer(room) /\ Len(v) + 1 <= Len(room.cells) /\ Len(room.cells) \in Nat
  BY <1>1, <1>2 DEF Holds, Has, Buffer
<1>5. /\ Buffer(q) /\ q.capacity = room.capacity
      /\ \A i \in 1..Len(room.cells) :
           q.cells[i] = IF i = p.size + 1 THEN x ELSE room.cells[i]
  <2> DEFINE new == <<x>>
  <2>1. new \in Seq(Value) /\ Len(new) = 1 /\ new[1] = x /\ p.size \in Nat
        /\ q = Overwritten(room, p.size, new)
    BY <1>1
  <2> HIDE DEF new, q
  <2>2. /\ Buffer(q) /\ q.capacity = room.capacity
        /\ \A i \in 1..Len(room.cells) :
             q.cells[i] = IF i \in (p.size + 1)..(p.size + Len(new)) THEN new[i - p.size]
                                                                     ELSE room.cells[i]
    BY <1>4, <2>1, OverwrittenCells
  <2>3. \A i \in 1..Len(room.cells) :
          /\ i \in (p.size + 1)..(p.size + 1) <=> i = p.size + 1
          /\ i = p.size + 1 => i - p.size = 1
    BY <1>4, <2>1
  <2> QED BY <2>1, <2>2, <2>3
<1> HIDE DEF q
<1>6. \A i \in 1..Len(v) : q.cells[i] = v[i]
  BY <1>1, <1>2, <1>4, <1>5 DEF Holds, Has
<1>7. q.cells[Len(v) + 1] = x
  BY <1>1, <1>4, <1>5
<1>8. Append(v, x) \in Seq(Value) /\ Len(Append(v, x)) = Len(v) + 1
  BY <1>1
<1>9. \A i \in 1..(Len(v) + 1) : q.cells[i] = Append(v, x)[i]
  BY <1>1, <1>6, <1>7
<1>10. room.capacity \in Nat
  BY <1>4 DEF Buffer
<1>11. /\ Buffer(Pushed(p, x)) /\ Pushed(p, x).size = Len(v) + 1
       /\ Pushed(p, x).cells = q.cells
  BY <1>1, <1>2, <1>3, <1>5, <1>10 DEF Buffer
<1> QED BY <1>1, <1>8, <1>9, <1>11 DEF Holds, Has

\* MoveInternal: the elements from pos on have moved up.
\* w is v with room for n elements at pos.
Parted(v, pos, n, w) ==
  /\ Len(w) = Len(v) + n
  /\ \A i \in 1..pos : w[i] = v[i]
  /\ \A i \in (pos + n + 1)..(Len(v) + n) : w[i] = v[i - n]

LEMMA MovedHolds ==
  ASSUME NEW p, NEW v, Holds(p, v), NEW pos \in 0..Len(v), NEW n \in Nat
  PROVE  \E w : Holds(MoveInternal(p, pos, n), w) /\ Parted(v, pos, n, w)
<1> DEFINE first == IF p.size + n > p.capacity THEN Reserve(p, (p.size + n) * 2 + 5) ELSE p
           room == Resized(first, p.size + n)
           moved == [i \in DOMAIN room.cells |-> IF i \in (pos + n + 1)..room.size
                                                   THEN room.cells[i - n] ELSE room.cells[i]]
<1>1. v \in Seq(Value) /\ Len(v) \in Nat /\ p.size = Len(v) /\ pos \in Nat /\ pos <= Len(v)
  BY DEF Holds, Has
<1>2. Holds(first, v)
  <2> DEFINE m == (p.size + n) * 2 + 5
  <2>1. m \in Nat /\ (first = Reserve(p, m) \/ first = p)
    BY <1>1
  <2> HIDE DEF m, first
  <2> QED BY <2>1, ReserveHolds
<1> HIDE DEF first
<1>3. PICK u : Holds(room, u) /\ Len(u) = Len(v) + n /\ \A i \in 1..Len(v) : u[i] = v[i]
  <2> DEFINE m == p.size + n
  <2>1. m \in Nat /\ room = Resized(first, m) /\ m = Len(v) + n
    BY <1>1
  <2> HIDE DEF m, room
  <2>2. PICK f \in [1..m -> IF fundamental THEN {Zero} ELSE Value] :
          Holds(room, ExtendedBy(v, m, f))
    BY <1>2, <2>1, ResizedHolds
  <2>3. ExtendedBy(v, m, f) \in Seq(Value) /\ DOMAIN ExtendedBy(v, m, f) = 1..m
    BY <2>2 DEF Holds, Has, ExtendedBy
  <2>4. \A i \in 1..Len(v) : ExtendedBy(v, m, f)[i] = v[i]
    BY <1>1, <2>1 DEF ExtendedBy
  <2> QED BY <2>1, <2>2, <2>3, <2>4
<1> DEFINE w == [i \in 1..Len(u) |-> IF i \in (pos + n + 1)..Len(u) THEN u[i - n] ELSE u[i]]
<1>4. MoveInternal(p, pos, n) = [room EXCEPT !.cells = moved]
  BY DEF MoveInternal, first
<1> HIDE DEF room
<1>5. u \in Seq(Value) /\ Len(u) \in Nat /\ room.size = Len(u) /\ Buffer(room)
  BY <1>3 DEF Holds, Has
<1>6. room.cells \in Seq(Value \cup {Unset}) /\ (~fundamental => room.cells \in Seq(Value))
      /\ Len(u) <= Len(room.cells) /\ Len(room.cells) \in Nat
      /\ DOMAIN room.cells = 1..Len(room.cells)
  BY <1>5 DEF Buffer
<1>7. \A i \in (pos + n + 1)..Len(u) : i - n \in 1..Len(u)
  BY <1>1, <1>5
<1>8. /\ moved \in [1..Len(room.cells) -> Value \cup {Unset}]
      /\ ~fundamental => moved \in [1..Len(room.cells) -> Value]
  BY <1>5, <1>6, <1>7
<1>9. w \in [1..Len(u) -> Value]
  BY <1>5, <1>7
<1>10. \A i \in 1..Len(u) : moved[i] = w[i]
  BY <1>3, <1>5, <1>6, <1>7 DEF Holds, Has
<1>11. /\ \A i \in 1..pos : w[i] = v[i]
       /\ \A i \in (pos + n + 1)..(Len(v) + n) : w[i] = v[i - n]
  BY <1>1, <1>3
<1> HIDE DEF w, moved
<1>12. w \in Seq(Value) /\ Len(w) = Len(u)
  BY <1>5, <1>9, IsSeq
<1>13. /\ moved \in Seq(Value \cup {Unset}) /\ Len(moved) = Len(room.cells)
       /\ ~fundamental => moved \in Seq(Value)
  BY <1>6, <1>8, IsSeq
<1>14. /\ Buffer(MoveInternal(p, pos, n)) /\ MoveInternal(p, pos, n).size = Len(u)
       /\ MoveInternal(p, pos, n).cells = moved
  BY <1>4, <1>5, <1>13 DEF Buffer
<1>15. Holds(MoveInternal(p, pos, n), w)
  BY <1>5, <1>10, <1>12, <1>14 DEF Holds, Has
<1> QED BY <1>3, <1>11, <1>12, <1>15 DEF Parted

-----------------------------------------------------------------------------
(* Filters of partitions of values. *)

Taken(v, kept) == [j \in DOMAIN kept |-> v[kept[j]]]

\* The kept ones of the first i elements.
Kept(keep, i) == {j \in 1..i : keep[j]}

LEMMA KeptGrows ==
  ASSUME NEW keep, NEW i \in Nat
  PROVE  /\ Kept(keep, 0) = {} /\ Kept(keep, i) \subseteq 1..i
         /\ keep[i + 1] => Kept(keep, i + 1) = Kept(keep, i) \cup {i + 1}
         /\ ~keep[i + 1] => Kept(keep, i + 1) = Kept(keep, i)
         /\ i + 1 \notin Kept(keep, i)
<1>1. \A j : j \in 1..(i + 1) <=> (j \in 1..i \/ j = i + 1)
  OBVIOUS
<1>2. 1..0 = {} /\ i + 1 \notin 1..i
  OBVIOUS
<1> QED BY <1>1, <1>2 DEF Kept

LEMMA AscendingIs ==
  ASSUME NEW K
  PROVE  Vec!Ascending(K) = {kept \in [1..Cardinality(K) -> K] :
                               \A i, j \in 1..Cardinality(K) : i < j => kept[i] < kept[j]}
<1>1. Vec!Cardinality(K) = Cardinality(K)
  BY DEF Vec!Cardinality, Cardinality
<1> QED BY <1>1 DEF Vec!Ascending

\* Numbers up to i in ascending order are a sequence of at most i of them.
LEMMA AscendingSeq ==
  ASSUME NEW i \in Nat, NEW K, K \subseteq 1..i, NEW kept \in Vec!Ascending(K)
  PROVE  /\ Cardinality(K) \in Nat /\ Cardinality(K) <= i
         /\ kept \in Seq(1..i) /\ Len(kept) = Cardinality(K) /\ DOMAIN kept = 1..Len(kept)
         /\ IsFiniteSet(K) /\ kept \in [1..Len(kept) -> K]
<1>1. IsFiniteSet(1..i) /\ Cardinality(1..i) = i
  BY FS_Interval
<1>2. IsFiniteSet(K) /\ Cardinality(K) <= i /\ Cardinality(K) \in Nat
  BY <1>1, FS_Subset, FS_CardinalityType
<1>3. kept \in [1..Cardinality(K) -> 1..i] /\ kept \in [1..Cardinality(K) -> K]
  BY AscendingIs
<1> QED BY <1>2, <1>3, IsSeq

\* One more, larger than those there are.
LEMMA AscendingAppend ==
  ASSUME NEW i \in Nat, NEW K, K \subseteq 1..i, NEW kept \in Vec!Ascending(K)
  PROVE  Append(kept, i + 1) \in Vec!Ascending(K \cup {i + 1})
<1> DEFINE n == Cardinality(K)
           longer == Append(kept, i + 1)
<1>1. /\ n \in Nat /\ kept \in Seq(1..i) /\ Len(kept) = n /\ IsFiniteSet(K)
      /\ kept \in [1..n -> K]
  BY AscendingSeq
<1>2. Cardinality(K \cup {i + 1}) = n + 1
  <2>1. i + 1 \notin K
    OBVIOUS
  <2> QED BY <1>1, <2>1, FS_AddElement
<1>3. \A a, b \in 1..n : a < b => kept[a] < kept[b]
  BY AscendingIs
<1>4. /\ \A a \in 1..n : longer[a] = kept[a] /\ kept[a] \in 1..i
      /\ longer[n + 1] = i + 1 /\ DOMAIN longer = 1..(n + 1)
  BY <1>1
<1>5. longer \in [1..(n + 1) -> K \cup {i + 1}]
  <2>1. longer = [a \in 1..(n + 1) |-> longer[a]]
    BY <1>1
  <2>2. \A a \in 1..(n + 1) : a \in 1..n \/ a = n + 1
    BY <1>1
  <2> HIDE DEF longer
  <2> QED BY <1>1, <1>4, <2>1, <2>2
<1>6. ASSUME NEW a \in 1..(n + 1), NEW b \in 1..(n + 1), a < b PROVE longer[a] < longer[b]
  <2>1. a \in 1..n /\ (b \in 1..n \/ b = n + 1)
    BY <1>1, <1>6
  <2> HIDE DEF longer, n
  <2> QED BY <1>3, <1>4, <1>6, <2>1
<1> DEFINE all == K \cup {i + 1}
<1>7. Cardinality(all) = n + 1 /\ longer \in [1..(n + 1) -> all]
  BY <1>2, <1>5
<1> HIDE DEF longer, n, all
<1>8. longer \in Vec!Ascending(all)
  BY <1>6, <1>7, AscendingIs
<1> QED BY <1>8 DEF longer, all

LEMMA AscendingEmpty ==
  <<>> \in Vec!Ascending({}) /\ Len(<<>>) = 0
<1>1. Cardinality({}) = 0
  BY FS_EmptySet
<1>2. <<>> \in [1..0 -> {}] /\ 1..0 = {} /\ Len(<<>>) = 0
  OBVIOUS
<1> QED BY <1>1, <1>2, AscendingIs

\* ApplyFilter after i turns: the first elements are those kept, the rest is in its place.
FilteredTo(v, keep, i) ==
  {q \in [cells : Seq(Value \cup {Unset}), size : Nat, capacity : Nat] :
     \E kept \in Vec!Ascending(Kept(keep, i)) :
       /\ Has(q, Taken(v, kept)) /\ q.size = Len(kept) /\ Len(v) <= q.capacity
       /\ \A j \in (i + 1)..Len(v) : q.cells[j] = v[j]}

LEMMA TakenSeq ==
  ASSUME NEW X, NEW v \in Seq(X), NEW i \in Nat, i <= Len(v), NEW K, K \subseteq 1..i,
         NEW kept \in Vec!Ascending(K)
  PROVE  /\ Taken(v, kept) \in Seq(X) /\ Len(Taken(v, kept)) = Len(kept)
         /\ \A j \in 1..Len(kept) : Taken(v, kept)[j] = v[kept[j]]
         /\ kept \in Seq(1..i) /\ Len(kept) <= i
<1>1. kept \in Seq(1..i) /\ DOMAIN kept = 1..Len(kept) /\ Len(kept) \in Nat /\ Len(kept) <= i
  BY AscendingSeq
<1>2. \A j \in 1..Len(kept) : kept[j] \in 1..Len(v)
  BY <1>1
<1>3. Taken(v, kept) \in [1..Len(kept) -> X]
  BY <1>1, <1>2 DEF Taken
<1> QED BY <1>1, <1>3, IsSeq DEF Taken

LEMMA MovedDownIs ==
  ASSUME NEW C, NEW q \in [cells : C, size : Nat, capacity : Nat], NEW i
  PROVE  MovedDown(q, i) = [cells    |-> [q.cells EXCEPT ![q.size + 1] = q.cells[i]],
                            size     |-> q.size + 1,
                            capacity |-> q.capacity]
<1> DEFINE new == [q.cells EXCEPT ![q.size + 1] = q.cells[i]]
<1>1. MovedDown(q, i) = [q EXCEPT !.cells = new, !.size = q.size + 1]
  BY DEF MovedDown
<1> HIDE DEF new
<1>2. MovedDown(q, i) = [cells |-> new, size |-> q.size + 1, capacity |-> q.capacity]
  BY <1>1
<1> QED BY <1>2 DEF new

\* One turn of the loop of ApplyFilter.
LEMMA FilterTurn ==
  ASSUME NEW v \in Seq(Value), NEW keep, NEW i \in 1..Len(v), keep[i] \in BOOLEAN,
         NEW q \in FilteredTo(v, keep, i - 1)
  PROVE  (IF keep[i] THEN MovedDown(q, i) ELSE q) \in FilteredTo(v, keep, i)
<1> DEFINE m == i - 1
<1>1. /\ m \in Nat /\ m + 1 = i /\ Len(v) \in Nat /\ m <= Len(v) /\ i \in Nat /\ i <= Len(v)
      /\ q \in FilteredTo(v, keep, m)
  OBVIOUS
<1> HIDE DEF m
<1>2. PICK kept \in Vec!Ascending(Kept(keep, m)) :
        /\ Has(q, Taken(v, kept)) /\ q.size = Len(kept) /\ Len(v) <= q.capacity
        /\ \A j \in (m + 1)..Len(v) : q.cells[j] = v[j]
  BY <1>1 DEF FilteredTo
<1>3. /\ Kept(keep, m) \subseteq 1..m
      /\ keep[i] => Kept(keep, i) = Kept(keep, m) \cup {i}
      /\ ~keep[i] => Kept(keep, i) = Kept(keep, m)
  BY <1>1, KeptGrows
<1>4. /\ Taken(v, kept) \in Seq(Value) /\ Len(Taken(v, kept)) = Len(kept)
      /\ \A j \in 1..Len(kept) : Taken(v, kept)[j] = v[kept[j]]
      /\ kept \in Seq(1..m) /\ Len(kept) <= m /\ Len(kept) \in Nat
  BY <1>1, <1>3, TakenSeq
<1>5. CASE ~keep[i]
  <2>1. \A j \in (i + 1)..Len(v) : q.cells[j] = v[j]
    BY <1>1, <1>2
  <2>2. kept \in Vec!Ascending(Kept(keep, i))
    BY <1>3, <1>5
  <2>3. q \in [cells : Seq(Value \cup {Unset}), size : Nat, capacity : Nat]
    BY <1>1 DEF FilteredTo
  <2> QED BY <1>2, <1>5, <2>1, <2>2, <2>3 DEF FilteredTo
<1>6. CASE keep[i]
  <2> DEFINE longer == Append(kept, i)
             r == MovedDown(q, i)
  <2>1. longer \in Vec!Ascending(Kept(keep, i))
    BY <1>1, <1>3, <1>6, AscendingAppend
  <2>2. /\ Taken(v, longer) \in Seq(Value) /\ Len(Taken(v, longer)) = Len(longer)
        /\ \A j \in 1..Len(longer) : Taken(v, longer)[j] = v[longer[j]]
    <3>1. Kept(keep, i) \subseteq 1..i
      BY <1>1, KeptGrows
    <3> HIDE DEF longer
    <3> QED BY <1>1, <2>1, <3>1, TakenSeq
  <2>3. /\ Len(longer) = Len(kept) + 1 /\ longer[Len(kept) + 1] = i
        /\ \A j \in 1..Len(kept) : longer[j] = kept[j]
    BY <1>4
  <2>4. /\ Buffer(q) /\ q.size = Len(kept) /\ Len(v) <= q.capacity /\ q.cells[i] = v[i]
        /\ q.cells \in Seq(Value \cup {Unset}) /\ (~fundamental => q.cells \in Seq(Value))
        /\ Len(q.cells) \in Nat /\ Len(v) <= Len(q.cells) /\ v[i] \in Value
    BY <1>1, <1>2 DEF Has, Buffer
  <2> DEFINE moved == [j \in 1..Len(q.cells) |-> IF j = Len(kept) + 1 THEN v[i] ELSE q.cells[j]]
  <2>5. /\ moved \in Seq(Value \cup {Unset}) /\ (~fundamental => moved \in Seq(Value))
        /\ Len(moved) = Len(q.cells)
    <3>1. /\ moved \in [1..Len(q.cells) -> Value \cup {Unset}]
          /\ ~fundamental => moved \in [1..Len(q.cells) -> Value]
      BY <2>4
    <3> QED BY <2>4, <3>1, IsSeq
  <2>6. /\ moved[Len(kept) + 1] = v[i]
        /\ \A j \in 1..Len(q.cells) : j # Len(kept) + 1 => moved[j] = q.cells[j]
    BY <1>1, <1>4, <2>4
  <2>7. r = [cells |-> moved, size |-> Len(kept) + 1, capacity |-> q.capacity]
    <3>1. [q.cells EXCEPT ![Len(kept) + 1] = v[i]] = moved
      BY <2>4
    <3>2. q \in [cells : Seq(Value \cup {Unset}), size : Nat, capacity : Nat]
      BY <2>4 DEF Buffer
    <3>3. r = [cells    |-> [q.cells EXCEPT ![q.size + 1] = q.cells[i]],
               size     |-> q.size + 1,
               capacity |-> q.capacity]
      BY <3>2, MovedDownIs
    <3> HIDE DEF r, moved
    <3> QED BY <2>4, <3>1, <3>3
  <2>13. q.capacity \in Nat /\ q.capacity <= Len(q.cells)
    BY <2>4 DEF Buffer
  <2> HIDE DEF moved, r, longer
  <2>8. /\ Buffer(r) /\ r.size = Len(longer) /\ Len(v) <= r.capacity /\ r.cells = moved
    BY <1>1, <1>4, <2>3, <2>4, <2>5, <2>7, <2>13 DEF Buffer
  <2>9. \A j \in 1..Len(longer) : moved[j] = Taken(v, longer)[j]
    <3>1. \A j \in 1..Len(kept) : /\ moved[j] = q.cells[j] /\ q.cells[j] = v[kept[j]]
      <4> TAKE j \in 1..Len(kept)
      <4>1. q.cells[j] = Taken(v, kept)[j]
        BY <1>2, <1>4 DEF Has
      <4>2. j \in 1..Len(q.cells) /\ j # Len(kept) + 1
        BY <1>1, <1>4, <2>4
      <4> QED BY <1>4, <2>6, <4>1, <4>2
    <3>2. \A j \in 1..(Len(kept) + 1) : j = Len(kept) + 1 \/ j \in 1..Len(kept)
      BY <1>4
    <3> QED BY <2>2, <2>3, <2>6, <3>1, <3>2
  <2>10. \A j \in (i + 1)..Len(v) : moved[j] = v[j]
    <3>1. \A j \in (i + 1)..Len(v) : /\ j \in (m + 1)..Len(v)
                                     /\ j \in 1..Len(q.cells) /\ j # Len(kept) + 1
      BY <1>1, <1>4, <2>4
    <3> QED BY <1>2, <2>6, <3>1
  <2>11. Has(r, Taken(v, longer))
    BY <2>2, <2>8, <2>9, <2>3, <1>4 DEF Has
  <2>12. r \in FilteredTo(v, keep, i)
    BY <2>1, <2>8, <2>10, <2>11 DEF FilteredTo, Buffer
  <2> QED BY <1>6, <2>12 DEF r
<1> QED BY <1>5, <1>6

\* What the loop of ApplyFilter leaves.
LEMMA ApplyFilterHolds ==
  ASSUME NEW v, Holds(This, v), NEW keep \in [1..size -> BOOLEAN], ApplyFilter(keep)
  PROVE  \E p : Becomes(p) /\ \E kept \in Vec!Ascending(Kept(keep, size)) : Holds(p, Taken(v, kept))
<1> DEFINE start == [This EXCEPT !.size = 0]
           T == [i \in 0..size |-> FilteredTo(v, keep, i)]
           turn == [i \in 1..size |-> [q \in T[i - 1] |->
                                         IF keep[i] THEN MovedDown(q, i) ELSE q]]
<1>1. v \in Seq(Value) /\ size = Len(v) /\ size \in Nat /\ Buffer(This) /\ This.size = size
  BY DEF Holds, Has, This
<1>2. start \in T[0]
  <2>1. Kept(keep, 0) = {}
    BY KeptGrows
  <2>2. Taken(v, <<>>) = <<>> /\ Len(<<>>) = 0 /\ <<>> \in Seq(Value)
    BY DEF Taken
  <2>3. \A j \in 1..Len(v) : This.cells[j] = v[j]
    BY DEF Holds, Has
  <2>4. /\ start \in [cells : Seq(Value \cup {Unset}), size : Nat, capacity : Nat]
        /\ Buffer(start) /\ start.size = 0 /\ Len(v) <= start.capacity /\ start.cells = This.cells
    BY <1>1 DEF Buffer, This
  <2>5. Has(start, <<>>)
    BY <2>2, <2>4 DEF Has
  <2>6. \A j \in (0 + 1)..Len(v) : start.cells[j] = v[j]
    BY <1>1, <2>3, <2>4
  <2>7. <<>> \in Vec!Ascending(Kept(keep, 0))
    BY <2>1, AscendingEmpty
  <2> HIDE DEF start
  <2>8. start \in FilteredTo(v, keep, 0)
    BY <2>2, <2>4, <2>5, <2>6, <2>7 DEF FilteredTo
  <2> QED BY <1>1, <2>8
<1>3. ASSUME NEW i \in 1..size, NEW q \in T[i - 1]
      PROVE  (IF keep[i] THEN MovedDown(q, i) ELSE q) \in T[i]
  <2>1. i \in 1..Len(v) /\ keep[i] \in BOOLEAN /\ q \in FilteredTo(v, keep, i - 1)
    BY <1>1
  <2>2. (IF keep[i] THEN MovedDown(q, i) ELSE q) \in FilteredTo(v, keep, i)
    BY <1>1, <2>1, FilterTurn
  <2> QED BY <1>1, <2>2
<1>4. \A i \in 1..size : \A q \in T[i - 1] :
        turn[i][q] = (IF keep[i] THEN MovedDown(q, i) ELSE q) /\ turn[i][q] \in T[i]
  <2> HIDE DEF T
  <2> QED BY <1>3
<1>5. \A i \in 1..size : i - 1 \in 0..size
  BY <1>1
<1> HIDE DEF T, turn, start
<1>6. PICK g : Runs(g, size, start, turn) /\ \A i \in 0..size : g[i] \in T[i]
  BY <1>1, <1>2, <1>4, LoopRuns
<1>7. g = [i \in 0..size |-> IF i = 0 THEN start
                             ELSE IF keep[i] THEN MovedDown(g[i - 1], i) ELSE g[i - 1]]
  <2>1. \A i \in 1..size : g[i] = IF keep[i] THEN MovedDown(g[i - 1], i) ELSE g[i - 1]
    BY <1>4, <1>5, <1>6 DEF Runs
  <2>2. \A i \in 0..size : i = 0 \/ i \in 1..size
    BY <1>1
  <2>3. \A i \in 0..size : g[i] = IF i = 0 THEN start
                                  ELSE IF keep[i] THEN MovedDown(g[i - 1], i) ELSE g[i - 1]
    BY <1>6, <2>1, <2>2 DEF Runs
  <2> QED BY <1>6, <2>3 DEF Runs
<1>8. PICK f : /\ f = [i \in 0..size |-> IF i = 0 THEN start
                                         ELSE IF keep[i] THEN MovedDown(f[i - 1], i) ELSE f[i - 1]]
               /\ Becomes(f[size])
  BY <1>7 DEF ApplyFilter, start
<1>9. f[size] \in T[size]
  <2>1. f[0] \in T[0]
    BY <1>1, <1>2, <1>8
  <2>2. ASSUME NEW i \in 1..size, f[i - 1] \in T[i - 1] PROVE f[i] \in T[i]
    <3>1. i \in 0..size /\ i # 0
      BY <1>1
    <3>2. f[i] = IF i = 0 THEN start
                 ELSE IF keep[i] THEN MovedDown(f[i - 1], i) ELSE f[i - 1]
      BY <1>8, <3>1, Zenon
    <3>3. f[i] = IF keep[i] THEN MovedDown(f[i - 1], i) ELSE f[i - 1]
      BY <3>1, <3>2, Zenon
    <3> QED BY <1>4, <2>2, <3>3
  <2> QED BY <1>1, <2>1, <2>2, LoopKeeps
<1>10. f[size] \in FilteredTo(v, keep, size)
  BY <1>1, <1>9 DEF T
<1>11. PICK kept \in Vec!Ascending(Kept(keep, size)) :
         Has(f[size], Taken(v, kept)) /\ f[size].size = Len(kept)
  BY <1>10 DEF FilteredTo
<1>12. Len(Taken(v, kept)) = Len(kept)
  BY <1>1, KeptGrows, TakenSeq
<1> QED BY <1>8, <1>11, <1>12 DEF Holds

LEMMA TakenAppend ==
  ASSUME NEW X, NEW v \in Seq(X), NEW i \in Nat, i < Len(v), NEW K, K \subseteq 1..i,
         NEW kept \in Vec!Ascending(K)
  PROVE  Taken(v, Append(kept, i + 1)) = Append(Taken(v, kept), v[i + 1])
<1> DEFINE longer == Append(kept, i + 1)
<1>1. /\ Taken(v, kept) \in Seq(X) /\ Len(Taken(v, kept)) = Len(kept)
      /\ \A j \in 1..Len(kept) : Taken(v, kept)[j] = v[kept[j]]
      /\ kept \in Seq(1..i) /\ Len(kept) \in Nat
  <2>1. /\ v \in Seq(X) /\ i \in Nat /\ i <= Len(v) /\ K \subseteq 1..i
        /\ kept \in Vec!Ascending(K)
    OBVIOUS
  <2>2. /\ Taken(v, kept) \in Seq(X) /\ Len(Taken(v, kept)) = Len(kept)
        /\ \A j \in 1..Len(kept) : Taken(v, kept)[j] = v[kept[j]]
        /\ kept \in Seq(1..i)
    <3> HIDE DEF longer
    <3>1. Taken(v, kept) \in Seq(X)
      BY <2>1, TakenSeq
    <3>2. Len(Taken(v, kept)) = Len(kept)
      <4>1. DOMAIN kept = 1..Len(kept) /\ Len(kept) \in Nat
        BY <2>1, AscendingSeq
      <4>2. DOMAIN Taken(v, kept) = 1..Len(kept)
        BY <4>1 DEF Taken
      <4> QED BY <3>1, <4>1, <4>2
    <3>3. \A j \in 1..Len(kept) : Taken(v, kept)[j] = v[kept[j]]
      BY <2>1, AscendingSeq DEF Taken
    <3>4. kept \in Seq(1..i)
      BY <2>1, TakenSeq
    <3> QED BY <3>1, <3>2, <3>3, <3>4
  <2> QED BY <2>2
<1>2. /\ longer \in Seq(1..(i + 1)) /\ Len(longer) = Len(kept) + 1
      /\ longer[Len(kept) + 1] = i + 1 /\ \A j \in 1..Len(kept) : longer[j] = kept[j]
  BY <1>1
<1> HIDE DEF longer
<1>3. Taken(v, longer) = [j \in 1..(Len(kept) + 1) |-> v[longer[j]]]
  BY <1>1, <1>2 DEF Taken
<1>4. Append(Taken(v, kept), v[i + 1])
        = [j \in 1..(Len(kept) + 1) |-> IF j = Len(kept) + 1 THEN v[i + 1] ELSE Taken(v, kept)[j]]
  BY <1>1
<1>5. \A j \in 1..(Len(kept) + 1) :
        v[longer[j]] = IF j = Len(kept) + 1 THEN v[i + 1] ELSE Taken(v, kept)[j]
  <2>1. \A j \in 1..(Len(kept) + 1) : j = Len(kept) + 1 \/ (j \in 1..Len(kept) /\ j # Len(kept) + 1)
    BY <1>1
  <2>2. \A j \in 1..Len(kept) : v[longer[j]] = Taken(v, kept)[j]
    BY <1>1, <1>2
  <2> QED BY <1>2, <2>1, <2>2
<1> QED BY <1>3, <1>4, <1>5 DEF longer

LEMMA EmptyHolds == Holds(Empty, <<>>)
<1>1. <<>> \in Seq(Value) /\ <<>> \in Seq(Value \cup {Unset}) /\ Len(<<>>) = 0
  OBVIOUS
<1> QED BY <1>1 DEF Holds, Has, Buffer, Empty

\* Filter after i turns: the new partition holds those kept.
CopiedTo(v, keep, i) ==
  {q \in [cells : Seq(Value \cup {Unset}), size : Nat, capacity : Nat] :
     \E kept \in Vec!Ascending(Kept(keep, i)) : Holds(q, Taken(v, kept))}

LEMMA FilterHolds ==
  ASSUME NEW v, Holds(This, v), NEW keep \in [1..size -> BOOLEAN], Filter(keep)
  PROVE  \E p : Becomes(p) /\ \E kept \in Vec!Ascending(Kept(keep, size)) : Holds(p, Taken(v, kept))
<1> DEFINE start == Reserve(Empty, Cardinality({j \in 1..size : keep[j]}))
           T == [i \in 0..size |-> CopiedTo(v, keep, i)]
           turn == [i \in 1..size |-> [q \in T[i - 1] |->
                                         IF keep[i] THEN Pushed(q, cells[i]) ELSE q]]
<1>1. v \in Seq(Value) /\ size = Len(v) /\ size \in Nat
  BY DEF Holds, Has, This
<1>2. start \in T[0]
  <2> DEFINE n == Cardinality({j \in 1..size : keep[j]})
  <2>1. IsFiniteSet(1..size)
    BY <1>1, FS_Interval
  <2>2. n \in Nat
    BY <2>1, FS_Subset, FS_CardinalityType
  <2>3. start = Reserve(Empty, n)
    OBVIOUS
  <2> HIDE DEF n, start
  <2>4. Holds(start, <<>>)
    BY <2>2, <2>3, EmptyHolds, ReserveHolds
  <2>5. <<>> \in Vec!Ascending(Kept(keep, 0))
    BY KeptGrows, AscendingEmpty
  <2>6. Taken(v, <<>>) = <<>>
    BY DEF Taken
  <2>7. start \in CopiedTo(v, keep, 0)
    BY <2>4, <2>5, <2>6 DEF CopiedTo, Holds, Has, Buffer
  <2> QED BY <1>1, <2>7
<1>3. ASSUME NEW i \in 1..size, NEW q \in T[i - 1]
      PROVE  (IF keep[i] THEN Pushed(q, cells[i]) ELSE q) \in T[i]
  <2> DEFINE m == i - 1
  <2>1. m \in Nat /\ m + 1 = i /\ m < Len(v) /\ m <= Len(v) /\ q \in CopiedTo(v, keep, m) /\ i \in Nat
    BY <1>1
  <2> HIDE DEF m
  <2>2. PICK kept \in Vec!Ascending(Kept(keep, m)) : Holds(q, Taken(v, kept))
    BY <2>1 DEF CopiedTo
  <2>3. /\ Kept(keep, m) \subseteq 1..m
        /\ keep[i] => Kept(keep, i) = Kept(keep, m) \cup {i}
        /\ ~keep[i] => Kept(keep, i) = Kept(keep, m)
    BY <2>1, KeptGrows
  <2>4. CASE ~keep[i]
    <3>1. q \in CopiedTo(v, keep, i)
      BY <2>1, <2>2, <2>3, <2>4 DEF CopiedTo
    <3> QED BY <1>1, <2>4, <3>1
  <2>5. CASE keep[i]
    <3>1. cells[i] = v[i] /\ v[i] \in Value
      BY <1>1 DEF Holds, Has, This
    <3>2. Append(kept, i) \in Vec!Ascending(Kept(keep, i))
      BY <2>1, <2>3, <2>5, AscendingAppend
    <3>3. Holds(Pushed(q, v[i]), Append(Taken(v, kept), v[i]))
      BY <2>2, <3>1, PushedHolds
    <3>4. Taken(v, Append(kept, i)) = Append(Taken(v, kept), v[i])
      BY <1>1, <2>1, <2>3, TakenAppend
    <3> DEFINE r == Pushed(q, v[i])
               longer == Append(kept, i)
    <3>5. Holds(r, Taken(v, longer)) /\ longer \in Vec!Ascending(Kept(keep, i))
      BY <3>2, <3>3, <3>4
    <3> HIDE DEF r, longer
    <3>6. r \in CopiedTo(v, keep, i)
      BY <3>5 DEF CopiedTo, Holds, Has, Buffer
    <3> QED BY <1>1, <2>5, <3>1, <3>6 DEF r
  <2> QED BY <2>4, <2>5
<1>4. \A i \in 1..size : \A q \in T[i - 1] :
        turn[i][q] = IF keep[i] THEN Pushed(q, cells[i]) ELSE q
  <2> HIDE DEF T
  <2> QED OBVIOUS
<1>11. \A i \in 1..size : \A q \in T[i - 1] : turn[i][q] \in T[i]
  <2> HIDE DEF T, turn
  <2> QED BY <1>3, <1>4
<1>5. \A i \in 1..size : i - 1 \in 0..size
  BY <1>1
<1> HIDE DEF T, turn, start
<1>6. PICK g : Runs(g, size, start, turn) /\ \A i \in 0..size : g[i] \in T[i]
  BY <1>1, <1>2, <1>11, LoopRuns
<1>7. g = [i \in 0..size |-> IF i = 0 THEN start
                             ELSE IF keep[i] THEN Pushed(g[i - 1], cells[i]) ELSE g[i - 1]]
  <2>1. \A i \in 1..size : g[i] = IF keep[i] THEN Pushed(g[i - 1], cells[i]) ELSE g[i - 1]
    BY <1>4, <1>5, <1>6 DEF Runs
  <2>2. \A i \in 0..size : i = 0 \/ i \in 1..size
    BY <1>1
  <2>3. \A i \in 0..size : g[i] = IF i = 0 THEN start
                                  ELSE IF keep[i] THEN Pushed(g[i - 1], cells[i]) ELSE g[i - 1]
    BY <1>6, <2>1, <2>2 DEF Runs
  <2> QED BY <1>6, <2>3 DEF Runs
<1>8. PICK f : /\ f = [i \in 0..size |-> IF i = 0 THEN start
                                         ELSE IF keep[i] THEN Pushed(f[i - 1], cells[i]) ELSE f[i - 1]]
               /\ Becomes(f[size])
  BY <1>7 DEF Filter, start
<1>9. f[size] \in T[size]
  <2>1. f[0] \in T[0]
    BY <1>1, <1>2, <1>8
  <2>2. ASSUME NEW i \in 1..size, f[i - 1] \in T[i - 1] PROVE f[i] \in T[i]
    <3>1. f[i] = IF keep[i] THEN Pushed(f[i - 1], cells[i]) ELSE f[i - 1]
      BY <1>1, <1>8
    <3> QED BY <1>3, <2>2, <3>1
  <2> QED BY <1>1, <2>1, <2>2, LoopKeeps
<1>10. f[size] \in CopiedTo(v, keep, size)
  BY <1>1, <1>9 DEF T
<1> QED BY <1>8, <1>10 DEF CopiedTo

-----------------------------------------------------------------------------
(* The calls of a partition of values. *)

\* What Vector lets the calls leave.
LEMMA VectorResults ==
  ASSUME NEW c, NEW v
  PROVE  /\ c.op = "assign" => c.new \in Vec!Results(c, v)
         /\ c.op = "clear" => <<>> \in Vec!Results(c, v)
         /\ c.op = "resize_val" => Extended(v, c.n, c.val) \in Vec!Results(c, v)
         /\ c.op = "resize" =>
              \A f \in [1..c.n -> Filler] : ExtendedBy(v, c.n, f) \in Vec!Results(c, v)
         /\ c.op = "push_back" => Append(v, c.val) \in Vec!Results(c, v)
         /\ c.op = "pop_back" =>
              (IF v = <<>> THEN v ELSE SubSeq(v, 1, Len(v) - 1)) \in Vec!Results(c, v)
         /\ c.op = "insert" =>
              SubSeq(v, 1, c.n) \o c.new \o SubSeq(v, c.n + 1, Len(v)) \in Vec!Results(c, v)
         /\ c.op = "at" => [v EXCEPT ![c.n] = c.val] \in Vec!Results(c, v)
         /\ c.op = "ApplyPermutation" => [i \in DOMAIN v |-> v[c.new[i]]] \in Vec!Results(c, v)
         /\ c.op = "ApplyFilter" =>
              \A kept \in Vec!Ascending({i \in DOMAIN v : c.new[i]}) :
                Taken(v, kept) \in Vec!Results(c, v)
         /\ c.op = "AppendPartition" => v \o c.new \in Vec!Results(c, v)
         /\ c.op = "Slice" => SubSeq(v, c.val + 1, c.val + c.n) \in Vec!Results(c, v)
         /\ c.op \in {"reserve", "shrink_to_fit"} => v \in Vec!Results(c, v)
<1>1. c.op = "resize_val" => Extended(v, c.n, c.val) \in Vec!Results(c, v)
  BY DEF Vec!Results, Extended
<1>2. ASSUME c.op = "resize", NEW f \in [1..c.n -> Filler]
      PROVE  ExtendedBy(v, c.n, f) \in Vec!Results(c, v)
  <2>1. Vec!Results(c, v) = {[i \in 1..c.n |-> IF i <= Len(v) THEN v[i] ELSE g[i]] :
                               g \in [1..c.n -> Filler]}
    BY <1>2 DEF Vec!Results
  <2> QED BY <2>1 DEF ExtendedBy
<1>3. ASSUME c.op = "ApplyFilter", NEW kept \in Vec!Ascending({i \in DOMAIN v : c.new[i]})
      PROVE  Taken(v, kept) \in Vec!Results(c, v)
  <2>1. Vec!Results(c, v) = {[i \in DOMAIN k |-> v[k[i]]] :
                               k \in Vec!Ascending({i \in DOMAIN v : c.new[i]})}
    BY <1>3 DEF Vec!Results
  <2> QED BY <2>1 DEF Taken
<1>4. c.op = "pop_back" =>
        (IF v = <<>> THEN v ELSE SubSeq(v, 1, Len(v) - 1)) \in Vec!Results(c, v)
  BY DEF Vec!Results, Vec!Front
<1>5. /\ c.op = "assign" => c.new \in Vec!Results(c, v)
      /\ c.op = "clear" => <<>> \in Vec!Results(c, v)
      /\ c.op = "push_back" => Append(v, c.val) \in Vec!Results(c, v)
  BY DEF Vec!Results
<1>6. c.op = "insert" =>
        SubSeq(v, 1, c.n) \o c.new \o SubSeq(v, c.n + 1, Len(v)) \in Vec!Results(c, v)
  BY DEF Vec!Results
<1>7. /\ c.op = "at" => [v EXCEPT ![c.n] = c.val] \in Vec!Results(c, v)
      /\ c.op = "ApplyPermutation" => [i \in DOMAIN v |-> v[c.new[i]]] \in Vec!Results(c, v)
  BY DEF Vec!Results
<1>8. /\ c.op = "AppendPartition" => v \o c.new \in Vec!Results(c, v)
      /\ c.op = "Slice" => SubSeq(v, c.val + 1, c.val + c.n) \in Vec!Results(c, v)
      /\ c.op \in {"reserve", "shrink_to_fit"} => v \in Vec!Results(c, v)
  BY DEF Vec!Results
<1> QED BY <1>1, <1>2, <1>3, <1>4, <1>5, <1>6, <1>7, <1>8

LEMMA CallFields ==
  ASSUME NEW op, NEW n, NEW x
  PROVE  /\ Call(op).op = op
         /\ CallAt(op, n, x).op = op /\ CallAt(op, n, x).n = n /\ CallAt(op, n, x).val = x
         /\ CallWith(op, n, x).op = op /\ CallWith(op, n, x).n = n /\ CallWith(op, n, x).new = x
BY DEF Call, CallAt, CallWith

LEMMA ArraySeq == Array \subseteq Seq(Value)
<1> SUFFICES ASSUME NEW new \in Array PROVE new \in Seq(Value)
  OBVIOUS
<1>1. PICK m \in 0..MaxSize : new \in [1..m -> Value]
  BY DEF Array, BoundedSeq, SeqOf
<1>2. m \in Nat
  BY PartitionAssumption
<1> QED BY <1>1, <1>2, IsSeq

\* The call leaves what it leaves of a vector of the elements v.
Leaves(v) == \E p, w : Becomes(p) /\ Holds(p, w) /\ w \in Vec!Results(call', v)

LEMMA AssignLeaves ==
  ASSUME NEW v, Holds(This, v), NEW new \in Array, Assign(new)
  PROVE  Leaves(v)
<1>1. new \in Seq(Value) /\ Len(new) \in Nat
  BY ArraySeq
<1>2. Holds(GetNewBuffer(Len(new), new), new)
  BY <1>1, NewBuffer DEF Holds
<1>3. call'.op = "assign" /\ call'.new = new
  BY CallFields DEF Assign
<1>4. new \in Vec!Results(call', v)
  BY <1>3, VectorResults
<1> QED BY <1>2, <1>4 DEF Leaves, Assign

LEMMA ClearLeaves ==
  ASSUME NEW v, Holds(This, v), Clear
  PROVE  Leaves(v)
<1>1. call'.op = "clear"
  BY CallFields DEF Clear
<1>2. <<>> \in Vec!Results(call', v)
  BY <1>1, VectorResults
<1> QED BY <1>2, EmptyHolds DEF Leaves, Clear

LEMMA ResizeLeaves ==
  ASSUME NEW v, Holds(This, v), ~strings, NEW n \in 0..MaxSize, NEW x \in Value,
         ResizeVal(n, x) \/ Resize(n) \/ ReserveCall(n)
  PROVE  Leaves(v)
<1>1. n \in Nat
  BY PartitionAssumption
<1>2. CASE ResizeVal(n, x)
  <2>1. call'.op = "resize_val" /\ call'.n = n /\ call'.val = x
    BY <1>2, CallFields DEF ResizeVal
  <2>2. Extended(v, n, x) \in Vec!Results(call', v)
    BY <2>1, VectorResults
  <2>3. Holds(ResizedWith(This, n, x), Extended(v, n, x))
    BY <1>1, ResizedWithHolds
  <2> QED BY <1>2, <2>2, <2>3 DEF Leaves, ResizeVal
<1>3. CASE Resize(n)
  <2>1. call'.op = "resize" /\ call'.n = n
    BY <1>3, CallFields DEF Resize
  <2>2. PICK f \in [1..n -> IF fundamental THEN {Zero} ELSE Value] :
          Holds(Resized(This, n), ExtendedBy(v, n, f))
    BY <1>1, ResizedHolds
  <2>3. f \in [1..n -> Filler]
    BY DEF Filler
  <2>4. ExtendedBy(v, n, f) \in Vec!Results(call', v)
    BY <2>1, <2>3, VectorResults
  <2> QED BY <1>3, <2>2, <2>4 DEF Leaves, Resize
<1>4. CASE ReserveCall(n)
  <2>1. call'.op = "reserve"
    BY <1>4, CallFields DEF ReserveCall
  <2>2. v \in Vec!Results(call', v)
    BY <2>1, VectorResults
  <2>3. Holds(Reserve(This, n), v)
    BY <1>1, ReserveHolds
  <2> QED BY <1>4, <2>2, <2>3 DEF Leaves, ReserveCall
<1> QED BY <1>2, <1>3, <1>4

LEMMA ShrinkLeaves ==
  ASSUME NEW v, Holds(This, v), ShrinkToFit
  PROVE  Leaves(v)
<1>1. v \in Seq(Value) /\ size = Len(v) /\ Len(v) \in Nat /\ Elements = v
  BY UsedElements DEF Holds, Has, This, Elements, Used
<1>2. Holds(GetNewBuffer(size, Elements), v)
  BY <1>1, NewBuffer DEF Holds
<1>3. call'.op = "shrink_to_fit"
  BY CallFields DEF ShrinkToFit
<1>4. v \in Vec!Results(call', v)
  BY <1>3, VectorResults
<1>5. PICK p : Becomes(p) /\ (p = This \/ p = GetNewBuffer(size, Elements))
  BY DEF ShrinkToFit
<1> QED BY <1>2, <1>4, <1>5 DEF Leaves

LEMMA PushBackLeaves ==
  ASSUME NEW v, Holds(This, v), NEW x \in Value, PushBack(x)
  PROVE  Leaves(v)
<1>1. call'.op = "push_back" /\ call'.val = x
  BY CallFields DEF PushBack
<1>2. Append(v, x) \in Vec!Results(call', v)
  BY <1>1, VectorResults
<1>3. Holds(Pushed(This, x), Append(v, x))
  BY PushedHolds
<1> QED BY <1>2, <1>3 DEF Leaves, PushBack

\* Two sequences with the same elements.
LEMMA SameSeq ==
  ASSUME NEW X, NEW a \in Seq(X), NEW b \in Seq(X), Len(a) = Len(b),
         \A i \in 1..Len(a) : a[i] = b[i]
  PROVE  a = b
OBVIOUS

LEMMA PopBackLeaves ==
  ASSUME NEW v, Holds(This, v), PopBack
  PROVE  Leaves(v)
<1>1. v \in Seq(Value) /\ size = Len(v) /\ Len(v) \in Nat
  BY DEF Holds, Has, This
<1>2. call'.op = "pop_back"
  BY CallFields DEF PopBack
<1>3. CASE size > 0
  <2> DEFINE n == size - 1
             w == SubSeq(v, 1, n)
  <2>1. n \in Nat /\ n <= Len(v) /\ v # <<>> /\ n = Len(v) - 1
    BY <1>1, <1>3
  <2>2. w \in Vec!Results(call', v)
    BY <1>2, <2>1, VectorResults
  <2> HIDE DEF n
  <2>3. w \in Seq(Value) /\ Len(w) = n /\ \A i \in 1..n : w[i] = v[i]
    BY <1>1, <2>1
  <2>4. Becomes([This EXCEPT !.size = n])
    BY <1>3 DEF PopBack, Becomes, This, n
  <2>5. Holds([This EXCEPT !.size = n], w)
    <3>1. Holds([This EXCEPT !.size = n], Extended(v, n, Zero))
      BY <2>1, CutHolds
    <3>2. Extended(v, n, Zero) = w
      BY <1>1, <2>1, <2>3 DEF Extended
    <3> QED BY <3>1, <3>2
  <2> QED BY <2>2, <2>4, <2>5 DEF Leaves
<1>4. CASE ~ (size > 0)
  <2>1. v = <<>>
    BY <1>1, <1>4
  <2>2. v \in Vec!Results(call', v)
    BY <1>2, <2>1, VectorResults
  <2>3. Becomes(This)
    BY <1>4 DEF PopBack, Becomes, This
  <2> QED BY <2>2, <2>3 DEF Leaves
<1> QED BY <1>3, <1>4

LEMMA SetAtLeaves ==
  ASSUME NEW v, Holds(This, v), NEW i \in 1..MaxSize, NEW x \in Value, SetAt(i, x)
  PROVE  Leaves(v)
<1>1. /\ v \in Seq(Value) /\ size = Len(v) /\ Len(v) \in Nat /\ Buffer(This) /\ i \in 1..Len(v)
      /\ \A j \in 1..Len(v) : cells[j] = v[j]
  BY DEF Holds, Has, This, SetAt
<1>2. call'.op = "at" /\ call'.n = i /\ call'.val = x
  BY CallFields DEF SetAt
<1> DEFINE w == [v EXCEPT ![i] = x]
           set == [cells EXCEPT ![i] = x]
           p == [cells |-> set, size |-> size, capacity |-> capacity]
<1>3. w \in Vec!Results(call', v)
  BY <1>2, VectorResults
<1>4. /\ cells \in Seq(Value \cup {Unset}) /\ (~fundamental => cells \in Seq(Value))
      /\ Len(v) <= Len(cells) /\ capacity \in Nat /\ size <= capacity /\ capacity <= Len(cells)
  BY <1>1 DEF Buffer, This
<1>5. /\ set \in Seq(Value \cup {Unset}) /\ (~fundamental => set \in Seq(Value))
      /\ Len(set) = Len(cells)
  BY <1>1, <1>4
<1>6. w \in Seq(Value) /\ Len(w) = Len(v) /\ \A j \in 1..Len(v) : set[j] = w[j]
  BY <1>1, <1>4
<1>7. Becomes(p)
  BY DEF Becomes, SetAt
<1> HIDE DEF set, w
<1>8. Holds(p, w)
  BY <1>1, <1>4, <1>5, <1>6 DEF Holds, Has, Buffer
<1> HIDE DEF p
<1> QED BY <1>3, <1>7, <1>8 DEF Leaves

LEMMA ApplyPermutationLeaves ==
  ASSUME NEW v, Holds(This, v), NEW permutation \in [1..size -> 1..size],
         ApplyPermutation(permutation)
  PROVE  Leaves(v)
<1>1. /\ v \in Seq(Value) /\ size = Len(v) /\ Len(v) \in Nat /\ Buffer(This)
      /\ \A j \in 1..Len(v) : cells[j] = v[j]
  BY DEF Holds, Has, This
<1>2. capacity \in Nat /\ size <= capacity
  BY <1>1 DEF Buffer, This
<1>3. call'.op = "ApplyPermutation" /\ call'.new = permutation
  BY CallFields DEF ApplyPermutation
<1> DEFINE w == [i \in 1..size |-> cells[permutation[i]]]
           room == Reserve(Empty, capacity)
           q == Overwritten(room, 0, w)
<1>4. w = [i \in DOMAIN v |-> v[permutation[i]]]
  BY <1>1
<1>5. w \in Vec!Results(call', v)
  BY <1>3, <1>4, VectorResults
<1>6. w \in [1..size -> Value]
  BY <1>1
<1> HIDE DEF w
<1>7. w \in Seq(Value) /\ Len(w) = size
  BY <1>1, <1>6, IsSeq
<1>8. Holds(room, <<>>) /\ capacity <= room.capacity
  BY <1>2, EmptyHolds, ReserveHolds
<1> HIDE DEF room
<1>9. Buffer(room) /\ capacity <= Len(room.cells) /\ Len(room.cells) \in Nat /\ room.capacity \in Nat
  BY <1>2, <1>8 DEF Holds, Has, Buffer
<1>10. /\ Buffer(q) /\ q.capacity = room.capacity
       /\ \A i \in 1..size : q.cells[i] = w[i]
  <2> DEFINE pos == 0
  <2>1. pos \in Nat /\ q = Overwritten(room, pos, w)
    OBVIOUS
  <2>2. \A i \in 1..size : i \in 1..Len(room.cells) /\ i \in (pos + 1)..(pos + Len(w)) /\ i - pos = i
    BY <1>1, <1>2, <1>7, <1>9
  <2> HIDE DEF pos, q
  <2>3. /\ Buffer(q) /\ q.capacity = room.capacity
        /\ \A i \in 1..Len(room.cells) :
             q.cells[i] = IF i \in (pos + 1)..(pos + Len(w)) THEN w[i - pos] ELSE room.cells[i]
    <3> DEFINE r == Overwritten(room, pos, w)
    <3>1. /\ Buffer(r) /\ r.capacity = room.capacity
          /\ \A i \in 1..Len(room.cells) :
               r.cells[i] = IF i \in (pos + 1)..(pos + Len(w)) THEN w[i - pos] ELSE room.cells[i]
      BY <1>7, <1>9, <2>1, OverwrittenCells
    <3> HIDE DEF r
    <3> QED BY <2>1, <3>1 DEF r
  <2> QED BY <2>2, <2>3
<1> HIDE DEF q
<1>11. /\ q.cells \in Seq(Value \cup {Unset}) /\ (~fundamental => q.cells \in Seq(Value))
       /\ capacity <= Len(q.cells)
  BY <1>2, <1>8, <1>9, <1>10 DEF Buffer
<1> DEFINE p == [cells |-> q.cells, size |-> size, capacity |-> capacity]
<1>12. Becomes(p)
  BY DEF Becomes, ApplyPermutation, q, room, w
<1>13. Holds(p, w)
  BY <1>1, <1>2, <1>7, <1>10, <1>11 DEF Holds, Has, Buffer
<1> HIDE DEF p
<1> QED BY <1>5, <1>12, <1>13 DEF Leaves

LEMMA FilterLeaves ==
  ASSUME NEW v, Holds(This, v), NEW keep \in [1..size -> BOOLEAN],
         ApplyFilter(keep) \/ Filter(keep)
  PROVE  Leaves(v)
<1>1. v \in Seq(Value) /\ size = Len(v) /\ DOMAIN v = 1..size
  BY DEF Holds, Has, This
<1>2. call'.op = "ApplyFilter" /\ call'.new = keep
  BY CallFields DEF ApplyFilter, Filter
<1>3. {i \in DOMAIN v : call'.new[i]} = Kept(keep, size)
  BY <1>1, <1>2 DEF Kept
<1>4. PICK p : Becomes(p) /\ \E kept \in Vec!Ascending(Kept(keep, size)) : Holds(p, Taken(v, kept))
  BY ApplyFilterHolds, FilterHolds
<1>5. PICK kept \in Vec!Ascending(Kept(keep, size)) : Holds(p, Taken(v, kept))
  BY <1>4
<1>6. Taken(v, kept) \in Vec!Results(call', v)
  BY <1>2, <1>3, VectorResults
<1> QED BY <1>4, <1>5, <1>6 DEF Leaves

LEMMA SliceLeaves ==
  ASSUME NEW v, Holds(This, v), NEW from \in 0..MaxSize, NEW n \in 0..MaxSize, Slice(from, n)
  PROVE  Leaves(v)
<1>1. /\ v \in Seq(Value) /\ size = Len(v) /\ Len(v) \in Nat /\ Buffer(This)
      /\ \A j \in 1..Len(v) : cells[j] = v[j]
  BY DEF Holds, Has, This
<1>2. from \in Nat /\ n \in Nat /\ from + n <= Len(v)
  BY <1>1, PartitionAssumption DEF Slice
<1>3. call'.op = "Slice" /\ call'.n = n /\ call'.val = from
  BY CallFields DEF Slice, CallAt, Call
<1> DEFINE w == SubSeq(v, from + 1, from + n)
           part == SubSeq(cells, from + 1, from + n)
           p == [cells |-> part, size |-> n, capacity |-> n]
<1>4. w \in Vec!Results(call', v)
  BY <1>3, VectorResults
<1>5. /\ cells \in Seq(Value \cup {Unset}) /\ (~fundamental => cells \in Seq(Value))
      /\ Len(v) <= Len(cells) /\ Len(cells) \in Nat
  BY <1>1 DEF Buffer, This
<1>6. /\ part \in Seq(Value \cup {Unset}) /\ (~fundamental => part \in Seq(Value))
      /\ Len(part) = n /\ \A j \in 1..n : part[j] = cells[from + j]
  <2>1. from + n <= Len(cells)
    BY <1>1, <1>2, <1>5
  <2>2. part \in Seq(Value \cup {Unset}) /\ Len(part) = n /\ \A j \in 1..n : part[j] = cells[from + j]
    BY <1>2, <1>5, <2>1
  <2>3. ~fundamental => part \in Seq(Value)
    BY <1>2, <1>5, <2>1
  <2> QED BY <2>2, <2>3
<1>7. w \in Seq(Value) /\ Len(w) = n /\ \A j \in 1..n : w[j] = v[from + j]
  BY <1>1, <1>2
<1>8. \A j \in 1..n : from + j \in 1..Len(v)
  BY <1>1, <1>2
<1>9. Becomes(p)
  BY DEF Slice
<1> HIDE DEF w, part
<1>10. Holds(p, w)
  <2>1. Buffer(p)
    BY <1>2, <1>6 DEF Buffer
  <2>2. \A j \in 1..n : part[j] = w[j]
    BY <1>1, <1>6, <1>7, <1>8
  <2> QED BY <1>2, <1>7, <2>1, <2>2 DEF Holds, Has
<1> HIDE DEF p
<1> QED BY <1>4, <1>9, <1>10 DEF Leaves

LEMMA AppendLeaves ==
  ASSUME NEW v, Holds(This, v), NEW rhs \in Array, AppendPartition(rhs)
  PROVE  Leaves(v)
<1>1. v \in Seq(Value) /\ size = Len(v) /\ Len(v) \in Nat /\ rhs \in Seq(Value) /\ Len(rhs) \in Nat
  BY ArraySeq DEF Holds, Has, This
<1>2. call'.op = "AppendPartition" /\ call'.new = rhs
  BY CallFields DEF AppendPartition
<1>3. v \o rhs \in Vec!Results(call', v)
  BY <1>2, VectorResults
<1> DEFINE n == size + Len(rhs)
           room == Resized(This, n)
<1>4. n \in Nat /\ n = Len(v) + Len(rhs)
  BY <1>1
<1> HIDE DEF n
<1>5. PICK f \in [1..n -> IF fundamental THEN {Zero} ELSE Value] : Holds(room, ExtendedBy(v, n, f))
  BY <1>4, ResizedHolds
<1> DEFINE longer == ExtendedBy(v, n, f)
           w == Replaced(longer, size, rhs)
<1>6. longer \in Seq(Value) /\ DOMAIN longer = 1..n /\ \A i \in 1..Len(v) : longer[i] = v[i]
  BY <1>1, <1>4, <1>5 DEF Holds, Has, ExtendedBy
<1>7. Len(longer) = n
  BY <1>4, <1>6
<1> HIDE DEF longer, room
<1>8. Holds(Overwritten(room, size, rhs), w)
  BY <1>1, <1>4, <1>5, <1>7, OverwrittenHolds DEF longer
<1>9. w = v \o rhs
  <2>1. /\ v \o rhs \in Seq(Value) /\ Len(v \o rhs) = n
        /\ \A i \in 1..n : (v \o rhs)[i] = IF i <= Len(v) THEN v[i] ELSE rhs[i - Len(v)]
    BY <1>1, <1>4
  <2>2. w = [i \in 1..n |-> IF i \in (size + 1)..(size + Len(rhs)) THEN rhs[i - size] ELSE longer[i]]
    BY <1>7 DEF Replaced
  <2>3. \A i \in 1..n : w[i] = (v \o rhs)[i]
    BY <1>1, <1>4, <1>6, <2>1, <2>2
  <2>4. w \in Seq(Value) /\ Len(w) = n
    <3>1. w \in Seq(Value)
      BY <1>8 DEF Holds, Has
    <3>2. DOMAIN w = 1..n
      BY <2>2
    <3> HIDE DEF w
    <3> QED BY <1>4, <3>1, <3>2
  <2> HIDE DEF w
  <2> QED BY <2>1, <2>3, <2>4, SameSeq
<1>10. Becomes(Overwritten(room, size, rhs))
  BY DEF AppendPartition, room, n
<1> QED BY <1>3, <1>8, <1>9, <1>10 DEF Leaves

LEMMA InsertLeaves ==
  ASSUME NEW v, Holds(This, v), NEW pos \in 0..MaxSize, NEW new \in Array, Insert(pos, new)
  PROVE  Leaves(v)
<1>1. /\ v \in Seq(Value) /\ size = Len(v) /\ Len(v) \in Nat /\ new \in Seq(Value)
      /\ Len(new) \in Nat /\ pos \in 0..Len(v) /\ pos \in Nat
  BY ArraySeq DEF Holds, Has, This, Insert
<1>2. call'.op = "insert" /\ call'.n = pos /\ call'.new = new
  BY CallFields DEF Insert
<1> DEFINE head == SubSeq(v, 1, pos)
           tail == SubSeq(v, pos + 1, Len(v))
           all == head \o new \o tail
           n == Len(new)
<1>3. all \in Vec!Results(call', v)
  BY <1>2, VectorResults
<1>4. PICK u : Holds(MoveInternal(This, pos, n), u) /\ Parted(v, pos, n, u)
  <2>1. n \in Nat /\ pos \in 0..Len(v)
    BY <1>1
  <2> HIDE DEF n
  <2> QED BY <2>1, MovedHolds
<1> DEFINE moved == MoveInternal(This, pos, n)
<1>5. u \in Seq(Value)
  BY <1>4 DEF Holds, Has
<1> DEFINE w == Replaced(u, pos, new)
<1> HIDE DEF moved
<1>6. Holds(Overwritten(moved, pos, new), w)
  <2>1. pos + Len(new) <= Len(u)
    BY <1>1, <1>4 DEF Parted
  <2>2. Holds(moved, u)
    BY <1>4 DEF moved
  <2> HIDE DEF n
  <2> QED BY <1>1, <2>1, <2>2, OverwrittenHolds
<1>7. /\ head \in Seq(Value) /\ Len(head) = pos /\ \A i \in 1..pos : head[i] = v[i]
      /\ tail \in Seq(Value) /\ Len(tail) = Len(v) - pos
      /\ \A i \in 1..(Len(v) - pos) : tail[i] = v[pos + i]
  BY <1>1
<1> HIDE DEF head, tail
<1>8. /\ head \o new \in Seq(Value) /\ Len(head \o new) = pos + n
      /\ \A i \in 1..(pos + n) : (head \o new)[i] = IF i <= pos THEN v[i] ELSE new[i - pos]
  <2>1. head \o new \in Seq(Value)
    BY <1>1, <1>7
  <2> DEFINE h == head
  <2>5. h \in Seq(Value) /\ Len(h) = pos /\ new \in Seq(Value)
    BY <1>1, <1>7
  <2> HIDE DEF h
  <2>6. Len(h \o new) = pos + n
    BY <1>1, <2>5
  <2>2. Len(head \o new) = pos + n
    BY <2>6 DEF h
  <2>3. \A i \in 1..(pos + n) : (head \o new)[i] = IF i <= pos THEN head[i] ELSE new[i - pos]
    BY <1>1, <1>7
  <2>4. \A i \in 1..(pos + n) : i <= pos => i \in 1..pos
    BY <1>1
  <2> QED BY <1>7, <2>1, <2>2, <2>3, <2>4
<1>9. /\ all \in Seq(Value) /\ Len(all) = Len(v) + n
      /\ \A i \in 1..(pos + n) : all[i] = (head \o new)[i]
      /\ \A i \in (pos + n + 1)..(Len(v) + n) : all[i] = v[i - n]
  <2> DEFINE front == head \o new
  <2>1. front \in Seq(Value) /\ Len(front) = pos + n
    BY <1>8
  <2> HIDE DEF front
  <2>2. all = front \o tail
    BY DEF front
  <2>3. /\ all \in Seq(Value) /\ Len(all) = Len(v) + n
        /\ \A i \in 1..(pos + n) : all[i] = front[i]
    BY <1>1, <1>7, <2>1, <2>2
  <2>4. \A i \in (pos + n + 1)..(Len(v) + n) : all[i] = v[i - n]
    <3> TAKE i \in (pos + n + 1)..(Len(v) + n)
    <3>1. all[i] = tail[i - (pos + n)]
      BY <1>1, <1>7, <2>1, <2>2
    <3>2. i - (pos + n) \in 1..(Len(v) - pos) /\ pos + (i - (pos + n)) = i - n
      BY <1>1
    <3> QED BY <1>7, <3>1, <3>2
  <2> QED BY <2>3, <2>4 DEF front
<1> HIDE DEF all
<1>10. w = [i \in 1..(Len(v) + n) |-> IF i \in (pos + 1)..(pos + Len(new)) THEN new[i - pos]
                                                                          ELSE u[i]]
  BY <1>4 DEF Replaced, Parted
<1>11. \A i \in 1..(Len(v) + n) : w[i] = all[i]
  <2> TAKE i \in 1..(Len(v) + n)
  <2>1. CASE i <= pos
    <3>1. i \in 1..pos /\ i \in 1..(pos + n) /\ i \notin (pos + 1)..(pos + Len(new))
      BY <1>1, <2>1
    <3>2. w[i] = u[i]
      BY <1>10, <3>1
    <3>3. u[i] = v[i]
      BY <1>4, <3>1 DEF Parted
    <3>4. all[i] = v[i]
      BY <1>8, <1>9, <2>1, <3>1
    <3> QED BY <3>2, <3>3, <3>4
  <2>2. CASE i \in (pos + 1)..(pos + n)
    <3>1. i \in 1..(pos + n) /\ ~(i <= pos) /\ i \in (pos + 1)..(pos + Len(new))
      BY <1>1, <2>2
    <3>2. w[i] = new[i - pos]
      BY <1>10, <3>1
    <3>3. all[i] = new[i - pos]
      BY <1>8, <1>9, <3>1
    <3> QED BY <3>2, <3>3
  <2>3. CASE i \in (pos + n + 1)..(Len(v) + n)
    <3>1. i \notin (pos + 1)..(pos + Len(new))
      BY <1>1, <2>3
    <3>2. w[i] = u[i]
      BY <1>10, <3>1
    <3>3. u[i] = v[i - n]
      BY <1>4, <2>3 DEF Parted
    <3>4. all[i] = v[i - n]
      BY <1>9, <2>3
    <3> QED BY <3>2, <3>3, <3>4
  <2> QED BY <1>1, <2>1, <2>2, <2>3
<1>12. w \in Seq(Value) /\ DOMAIN w = 1..(Len(v) + n)
  BY <1>6, <1>10 DEF Holds, Has
<1> HIDE DEF w
<1>13. w = all
  <2>1. Len(w) = Len(v) + n
    BY <1>1, <1>12
  <2> QED BY <1>9, <1>11, <1>12, <2>1, SameSeq
<1>14. Becomes(Overwritten(moved, pos, new))
  BY DEF Insert, moved
<1> QED BY <1>3, <1>6, <1>13, <1>14 DEF Leaves

-----------------------------------------------------------------------------
(* Every call of a partition of values. *)

LEMMA PermutationIs ==
  ASSUME NEW n, NEW permutation \in Bijection(1..n, 1..n)
  PROVE  permutation \in [1..n -> 1..n]
BY DEF Bijection, Injection, Surjection

LEMMA NextLeaves ==
  ASSUME NEW v, Holds(This, v), ~strings, Next
  PROVE  Leaves(v)
<1>1. CASE \E new \in Array : Assign(new) \/ AppendPartition(new)
  BY <1>1, AssignLeaves, AppendLeaves
<1>2. CASE Clear \/ ShrinkToFit \/ PopBack
  BY <1>2, ClearLeaves, ShrinkLeaves, PopBackLeaves
<1>3. CASE \/ \E n \in 0..MaxSize : Resize(n) \/ ReserveCall(n)
           \/ \E n \in 0..MaxSize, x \in Value : ResizeVal(n, x)
  BY <1>3, ResizeLeaves, PartitionAssumption
<1>4. CASE \E x \in Value : PushBack(x)
  BY <1>4, PushBackLeaves
<1>5. CASE \E pos \in 0..MaxSize, new \in Array : Insert(pos, new)
  BY <1>5, InsertLeaves
<1>6. CASE \E i \in 1..MaxSize, x \in Value : SetAt(i, x)
  BY <1>6, SetAtLeaves
<1>7. CASE \E permutation \in Bijection(1..size, 1..size) : ApplyPermutation(permutation)
  BY <1>7, PermutationIs, ApplyPermutationLeaves
<1>8. CASE \E keep \in [1..size -> BOOLEAN] : ApplyFilter(keep) \/ Filter(keep)
  BY <1>8, FilterLeaves
<1>9. CASE \E from, n \in 0..MaxSize : Slice(from, n)
  BY <1>9, SliceLeaves
<1> QED BY <1>1, <1>2, <1>3, <1>4, <1>5, <1>6, <1>7, <1>8, <1>9 DEF Next

\* The fields after a call are those of the partition it leaves.
LEMMA LeavesThat ==
  ASSUME NEW v, Leaves(v)
  PROVE  /\ Holds(This, Elements)' /\ Elements' \in Vec!Results(call', v)
         /\ UNCHANGED fundamental
<1>1. PICK p, w : Becomes(p) /\ Holds(p, w) /\ w \in Vec!Results(call', v)
  BY DEF Leaves
<1>2. /\ cells' = p.cells /\ size' = p.size /\ capacity' = p.capacity
      /\ fundamental' = fundamental
  BY <1>1 DEF Becomes
<1>3. p = [cells |-> cells', size |-> size', capacity |-> capacity']
  BY <1>1, <1>2 DEF Holds, Has, Buffer
<1>4. This' = p
  BY <1>3 DEF This
<1>5. Elements' = w
  BY <1>1, <1>2, UsedElements DEF Elements, Used
<1>6. Holds(This, Elements)'
  BY <1>1, <1>2, <1>4, <1>5 DEF Holds, Has, Buffer
<1> QED BY <1>1, <1>2, <1>5, <1>6

-----------------------------------------------------------------------------
(* The characters and offsets of a partition of strings. *)

Text == Seq(S!Char)

LEMMA StringsAreText == String \subseteq Text
<1> SUFFICES ASSUME NEW str \in String PROVE str \in Text
  OBVIOUS
<1>1. str \in Seq(Range(str)) /\ Range(str) \subseteq S!Char
  BY StringAssumption DEF S!Char, S!Range, Range
<1> QED BY <1>1 DEF Text

\* The offsets o and the characters d begin with the strings v.
Packs(o, d, v) ==
  /\ o \in Seq(Nat) /\ d \in Text /\ v \in Seq(Text)
  /\ Len(v) < Len(o) /\ o[1] = 0 /\ o[Len(v) + 1] <= Len(d)
  /\ \A i, j \in 1..(Len(v) + 1) : i <= j => o[i] <= o[j]
  /\ \A i \in 1..Len(v) : o[i + 1] = o[i] + Len(v[i])
  /\ \A i \in 1..Len(v) : \A k \in 1..Len(v[i]) : d[o[i] + k] = v[i][k]

\* What operator[] finds.
Found(o, d, i) ==
  [k \in 1..(o[i + 1] - o[i]) |-> IF o[i] + k \in DOMAIN d THEN d[o[i] + k] ELSE Unset]

LEMMA SeqFacts ==
  ASSUME NEW X, NEW s \in Seq(X)
  PROVE  Len(s) \in Nat /\ DOMAIN s = 1..Len(s) /\ \A i \in 1..Len(s) : s[i] \in X
OBVIOUS

\* Where the string str is: from o[i] to o[a].
Placed(o, d, str, i, a, m) ==
  /\ o[i] \in Nat /\ o[a] \in Nat /\ o[m] \in Nat /\ o[a] <= o[m]
  /\ str \in Text /\ Len(str) \in Nat /\ o[a] = o[i] + Len(str)
  /\ Len(d) \in Nat /\ o[m] <= Len(d)
  /\ \A k \in 1..Len(str) : o[i] + k \in 1..o[m] /\ d[o[i] + k] = str[k]

LEMMA PacksAt ==
  ASSUME NEW o, NEW d, NEW v, Packs(o, d, v), NEW i \in 1..Len(v),
         NEW a, a = i + 1, NEW m, m = Len(v) + 1
  PROVE  Placed(o, d, v[i], i, a, m)
<1>1. /\ o \in Seq(Nat) /\ d \in Text /\ v \in Seq(Text) /\ Len(v) \in Nat /\ Len(o) \in Nat
      /\ Len(v) < Len(o) /\ o[m] <= Len(d)
  BY DEF Packs
<1>2. /\ i \in Nat /\ a \in Nat /\ m \in Nat /\ i \in 1..m /\ a \in 1..m /\ m \in 1..m /\ a <= m
      /\ i \in 1..Len(o) /\ a \in 1..Len(o) /\ m \in 1..Len(o)
  BY <1>1
<1>3. o[i] \in Nat /\ o[a] \in Nat /\ o[m] \in Nat /\ v[i] \in Text
  <2>1. \A x \in 1..Len(o) : o[x] \in Nat
    BY <1>1, SeqFacts
  <2>2. v[i] \in Text
    BY <1>1, SeqFacts
  <2> QED BY <1>2, <2>1, <2>2
<1>4. Len(d) \in Nat /\ Len(v[i]) \in Nat
  BY <1>1, <1>3, SeqFacts DEF Text
<1>5. \A x, y \in 1..m : x <= y => o[x] <= o[y]
  BY DEF Packs
<1>6. o[a] <= o[m]
  BY <1>2, <1>5
<1>7. o[a] = o[i] + Len(v[i])
  BY DEF Packs
<1>8. \A k \in 1..Len(v[i]) : d[o[i] + k] = v[i][k]
  BY DEF Packs
<1>9. \A k \in 1..Len(v[i]) : o[i] + k \in 1..o[m]
  BY <1>3, <1>4, <1>6, <1>7
<1> QED BY <1>1, <1>3, <1>4, <1>6, <1>7, <1>8, <1>9 DEF Placed

LEMMA PacksFound ==
  ASSUME NEW o, NEW d, NEW v, Packs(o, d, v), NEW i \in 1..Len(v)
  PROVE  Found(o, d, i) = v[i]
<1> DEFINE a == i + 1
           m == Len(v) + 1
           str == v[i]
<1>1. /\ o[i] \in Nat /\ o[a] \in Nat /\ o[m] \in Nat /\ str \in Text /\ Len(str) \in Nat
      /\ o[a] = o[i] + Len(str) /\ Len(d) \in Nat /\ o[m] <= Len(d)
      /\ \A k \in 1..Len(str) : o[i] + k \in 1..o[m] /\ d[o[i] + k] = str[k]
  <2>1. Placed(o, d, str, i, a, m)
    BY PacksAt
  <2> QED BY <2>1 DEF Placed
<1>2. d \in Seq(S!Char)
  BY DEF Packs, Text
<1>3. Found(o, d, i) = [k \in 1..(o[a] - o[i]) |-> IF o[i] + k \in DOMAIN d THEN d[o[i] + k]
                                                                           ELSE Unset]
  BY DEF Found
<1> HIDE DEF a, m, str
<1>4. o[a] - o[i] = Len(str)
  BY <1>1
<1>5. \A k \in 1..Len(str) : o[i] + k \in DOMAIN d
  BY <1>1, <1>2
<1>6. str = [k \in 1..Len(str) |-> str[k]]
  BY <1>1 DEF Text
<1>7. Found(o, d, i) = str
  BY <1>1, <1>3, <1>4, <1>5, <1>6
<1> QED BY <1>7 DEF str

LEMMA PackedElements ==
  ASSUME NEW o, NEW d, NEW v, Packs(o, d, v)
  PROVE  [i \in 1..Len(v) |-> Found(o, d, i)] = v
<1>1. v = [i \in 1..Len(v) |-> v[i]]
  BY DEF Packs
<1> QED BY <1>1, PacksFound

\* a and b begin with the same n elements; str is behind the first n of a.
Agree(a, b, n) == \A k \in 1..n : a[k] = b[k]
Follows(a, n, str) == \A k \in 1..Len(str) : a[n + k] = str[k]

\* Whoever agrees on the first strings has them.
LEMMA PacksFront ==
  ASSUME NEW o, NEW d, NEW v, Packs(o, d, v),
         NEW w \in Seq(Text), Len(w) <= Len(v), Agree(w, v, Len(w)),
         NEW q \in Seq(Nat), Len(w) < Len(q), NEW m, m = Len(w) + 1, Agree(q, o, m),
         NEW e \in Text, o[m] <= Len(e), Agree(e, d, o[m])
  PROVE  Packs(q, e, w)
<1> USE DEF Agree
<1>1. Len(v) \in Nat /\ Len(w) \in Nat /\ o \in Seq(Nat) /\ Len(o) \in Nat /\ Len(v) < Len(o)
  BY DEF Packs
<1>2. m \in Nat /\ 1 \in 1..m /\ m \in 1..m /\ m \in 1..Len(o)
  BY <1>1
<1>3. q[1] = 0 /\ q[m] <= Len(e) /\ o[m] \in Nat
  <2>1. o[1] = 0
    BY DEF Packs
  <2>2. \A x \in 1..Len(o) : o[x] \in Nat
    BY <1>1, SeqFacts
  <2> QED BY <1>2, <2>1, <2>2
<1>4. \A i, j \in 1..m : i <= j => o[i] <= o[j]
  <2>1. \A i, j \in 1..(Len(v) + 1) : i <= j => o[i] <= o[j]
    BY DEF Packs
  <2>2. 1..m \subseteq 1..(Len(v) + 1)
    BY <1>1
  <2> QED BY <2>1, <2>2
<1>5. \A i, j \in 1..m : i <= j => q[i] <= q[j]
  BY <1>4
<1>6. ASSUME NEW i \in 1..Len(w)
      PROVE  /\ q[i + 1] = q[i] + Len(w[i])
             /\ \A k \in 1..Len(w[i]) : e[q[i] + k] = w[i][k]
  <2> DEFINE a == i + 1
             b == Len(v) + 1
  <2>1. i \in 1..Len(v) /\ i \in 1..m /\ a \in 1..m /\ a <= m
    <3> DEFINE x == Len(w)
               y == Len(v)
    <3>1. x \in Nat /\ y \in Nat /\ x <= y /\ m = x + 1 /\ i \in 1..x
      BY <1>1
    <3> HIDE DEF x, y
    <3>2. i \in 1..y
      BY <3>1
    <3>3. i \in 1..m /\ a \in 1..m /\ a <= m
      BY <3>1
    <3> QED BY <3>2, <3>3 DEF y
  <2>2. /\ o[i] \in Nat /\ o[a] \in Nat /\ Len(v[i]) \in Nat /\ o[a] = o[i] + Len(v[i])
        /\ \A k \in 1..Len(v[i]) : d[o[i] + k] = v[i][k]
    <3>1. Placed(o, d, v[i], i, a, b)
      BY <2>1, PacksAt
    <3> HIDE DEF a, b
    <3> QED BY <3>1 DEF Placed
  <2> HIDE DEF a, b
  <2>3. o[a] <= o[m]
    BY <1>2, <1>4, <2>1
  <2>4. q[i] = o[i] /\ q[a] = o[a] /\ w[i] = v[i]
    BY <2>1
  <2>5. \A k \in 1..Len(v[i]) : o[i] + k \in 1..o[m]
    <3> DEFINE x == o[i]
               l == Len(v[i])
               y == o[m]
    <3>1. x \in Nat /\ l \in Nat /\ y \in Nat /\ x + l <= y
      BY <1>3, <2>2, <2>3
    <3> HIDE DEF x, l, y
    <3>2. \A k \in 1..l : x + k \in 1..y
      BY <3>1
    <3> QED BY <3>2 DEF x, l, y
  <2>6. \A k \in 1..Len(w[i]) : e[q[i] + k] = w[i][k]
    BY <2>2, <2>4, <2>5
  <2>7. q[a] = q[i] + Len(w[i])
    BY <2>2, <2>4
  <2> QED BY <2>6, <2>7 DEF a
<1> QED BY <1>3, <1>5, <1>6 DEF Packs

\* Whoever agrees on all strings and has one more behind them.
LEMMA PacksBack ==
  ASSUME NEW o, NEW d, NEW v, Packs(o, d, v), NEW str \in Text,
         NEW m, m = Len(v) + 1, NEW b, b = Len(v) + 2,
         NEW q \in Seq(Nat), m < Len(q), Agree(q, o, m),
         q[b] = o[m] + Len(str),
         NEW e \in Text, q[b] <= Len(e), Agree(e, d, o[m]), Follows(e, o[m], str)
  PROVE  Packs(q, e, Append(v, str))
<1> USE DEF Agree, Follows
<1> DEFINE w == Append(v, str)
           n == Len(v)
<1>1. n \in Nat /\ o \in Seq(Nat) /\ Len(o) \in Nat /\ n < Len(o) /\ v \in Seq(Text)
  BY DEF Packs
<1>2. /\ w \in Seq(Text) /\ Len(w) = m /\ w[m] = str
      /\ \A i \in 1..n : w[i] = v[i]
  BY <1>1
<1> HIDE DEF w
<1>3. /\ m \in Nat /\ b \in Nat /\ m \in 1..m /\ 1 \in 1..m /\ m \in 1..Len(o)
      /\ 1..m \subseteq 1..Len(o) /\ b = m + 1
      /\ \A i \in 1..m : i = m \/ i \in 1..n
      /\ \A i \in 1..b : i = b \/ i \in 1..m
      /\ \A i \in 1..m : i <= m /\ i < b
      /\ \A i \in 1..n : i + 1 \in 1..m
  <2> HIDE DEF n
  <2>1. m = n + 1 /\ b = n + 2
    BY DEF n
  <2>2. n \in Nat /\ Len(o) \in Nat /\ n < Len(o)
    BY <1>1
  <2>3. /\ m \in Nat /\ b \in Nat /\ m \in 1..m /\ 1 \in 1..m
        /\ m \in 1..Len(o) /\ b = m + 1
    BY <2>1, <2>2
  <2>4. 1..m \subseteq 1..Len(o)
    BY <2>3
  <2>5. \A i \in 1..m : i = m \/ i \in 1..n
    BY <2>1, <2>2
  <2>6. /\ \A i \in 1..b : i = b \/ i \in 1..m
        /\ \A i \in 1..m : i <= m /\ i < b
    BY <2>3
  <2>7. \A i \in 1..n : i + 1 \in 1..m
    BY <2>1, <2>2
  <2> QED BY <2>3, <2>4, <2>5, <2>6, <2>7
<1>4. o[m] \in Nat /\ Len(str) \in Nat
  <2>1. \A x \in 1..Len(o) : o[x] \in Nat
    BY <1>1, SeqFacts
  <2> QED BY <1>3, <2>1, SeqFacts DEF Text
<1>5. \A i, j \in 1..m : i <= j => o[i] <= o[j]
  BY DEF Packs
<1>6. \A i \in 1..m : o[i] \in Nat /\ o[i] <= o[m]
  <2>1. \A x \in 1..Len(o) : o[x] \in Nat
    BY <1>1, SeqFacts
  <2>2. \A i \in 1..m : i <= m /\ m \in 1..m /\ i \in 1..Len(o)
    BY <1>3
  <2> QED BY <1>5, <2>1, <2>2
<1>7. \A i, j \in 1..b : i <= j => q[i] <= q[j]
  <2> TAKE i, j \in 1..b
  <2> HAVE i <= j
  <2>1. CASE i = b
    <3>1. j = b
      BY <1>3, <2>1
    <3>2. q[b] \in Nat
      BY <1>4
    <3> QED BY <2>1, <3>1, <3>2
  <2>2. CASE j = b /\ i \in 1..m
    BY <1>4, <1>6, <2>2
  <2>3. CASE i \in 1..m /\ j \in 1..m
    BY <1>5, <2>3
  <2> QED BY <1>3, <2>1, <2>2, <2>3
<1>8. ASSUME NEW i \in 1..m
      PROVE  /\ q[i + 1] = q[i] + Len(w[i])
             /\ \A k \in 1..Len(w[i]) : e[q[i] + k] = w[i][k]
  <2>1. CASE i = m
    <3>1. i + 1 = b /\ q[i] = o[m] /\ w[i] = str
      BY <1>2, <1>3, <2>1
    <3> QED BY <3>1
  <2>2. CASE i \in 1..n
    <3> DEFINE a == i + 1
    <3>1. w[i] = v[i] /\ a \in 1..m /\ i \in 1..Len(v)
      BY <1>2, <1>3, <2>2
    <3>4. a = i + 1
      OBVIOUS
    <3> HIDE DEF a
    <3>2. /\ o[i] \in Nat /\ o[a] = o[i] + Len(v[i])
          /\ \A k \in 1..Len(v[i]) : o[i] + k \in 1..o[m] /\ d[o[i] + k] = v[i][k]
      <4> HIDE DEF n
      <4>1. Placed(o, d, v[i], i, a, m)
        BY <3>1, <3>4, PacksAt
      <4> QED BY <4>1 DEF Placed
    <3>3. q[i] = o[i] /\ q[a] = o[a]
      BY <3>1
    <3>6. \A k \in 1..Len(w[i]) : e[q[i] + k] = w[i][k]
      BY <3>1, <3>2, <3>3
    <3>5. q[a] = q[i] + Len(w[i])
      BY <3>1, <3>2, <3>3
    <3> QED BY <3>6, <3>5 DEF a
  <2> QED BY <1>3, <2>1, <2>2
<1>9. q[1] = 0
  BY <1>3 DEF Packs
<1>10. Len(w) + 1 = b /\ Len(w) < Len(q) /\ q[b] <= Len(e)
  BY <1>2, <1>3
<1>11. Packs(q, e, w)
  BY <1>2, <1>7, <1>8, <1>9, <1>10 DEF Packs
<1> QED BY <1>11 DEF w

\* p is the partition of the strings v; nothing is behind the last offset in use.
Keeps(p, v) ==
  /\ p \in [offset : Seq(Nat), data : Text, size : Nat]
  /\ p.size = Len(v) /\ Packs(p.offset, p.data, v)

Tight(p, v) == Keeps(p, v) /\ Len(p.offset) = p.size + 1

LEMMA CutToIs ==
  ASSUME NEW chars \in Text, NEW n \in Nat, n <= Len(chars)
  PROVE  /\ S!CutTo(n, chars) \in Text /\ Len(S!CutTo(n, chars)) = n
         /\ Agree(S!CutTo(n, chars), chars, n)
<1> DEFINE cut == S!CutTo(n, chars)
<1>1. \A k \in 1..n : k \in DOMAIN chars /\ chars[k] \in S!Char
  BY DEF Text
<1>2. cut = [k \in 1..n |-> chars[k]]
  BY <1>1 DEF S!CutTo
<1>3. cut \in [1..n -> S!Char]
  BY <1>1, <1>2
<1> HIDE DEF cut
<1>4. cut \in Seq(S!Char) /\ Len(cut) = n
  BY <1>3, IsSeq
<1>5. \A k \in 1..n : cut[k] = chars[k]
  BY <1>2
<1> QED BY <1>4, <1>5 DEF cut, Text, Agree

LEMMA Joined ==
  ASSUME NEW X, NEW a \in Seq(X), NEW b \in Seq(X)
  PROVE  /\ a \o b \in Seq(X) /\ Len(a \o b) = Len(a) + Len(b)
         /\ Agree(a \o b, a, Len(a)) /\ Follows(a \o b, Len(a), b)
BY DEF Agree, Follows

LEMMA Appended ==
  ASSUME NEW X, NEW a \in Seq(X), NEW x \in X
  PROVE  /\ Append(a, x) \in Seq(X) /\ Len(Append(a, x)) = Len(a) + 1
         /\ Append(a, x)[Len(a) + 1] = x /\ Agree(Append(a, x), a, Len(a))
BY DEF Agree

LEMMA StringPushed ==
  ASSUME NEW p, NEW v, Tight(p, v), NEW str \in Text
  PROVE  Tight(S!Pushed(p, str), Append(v, str))
<1> DEFINE o == p.offset
           d == p.data
           m == Len(v) + 1
           b == Len(v) + 2
           pre == o[m]
           l == Len(str)
           q == Append(o, pre + l)
           e == IF str = <<>> THEN d ELSE S!CutTo(pre, d) \o str
<1>1. /\ o \in Seq(Nat) /\ d \in Text /\ v \in Seq(Text) /\ Len(v) \in Nat /\ p.size = Len(v)
      /\ Len(o) = m /\ Packs(o, d, v) /\ pre <= Len(d)
  BY DEF Tight, Keeps, Packs
<1>2. S!Pushed(p, str) = [offset |-> q, data |-> e, size |-> m]
  BY <1>1 DEF S!Pushed
<1> HIDE DEF o, d
<1>3. l \in Nat /\ Len(d) \in Nat /\ pre \in Nat
  <2>1. m \in 1..Len(o)
    BY <1>1
  <2> QED BY <1>1, <2>1, SeqFacts DEF Text
<1> HIDE DEF pre, l
<1>4. /\ q \in Seq(Nat) /\ Len(q) = Len(o) + 1 /\ q[Len(o) + 1] = pre + l
      /\ Agree(q, o, Len(o))
  <2> DEFINE x == pre + l
  <2>1. x \in Nat /\ q = Append(o, x)
    BY <1>3
  <2> HIDE DEF x, q
  <2> QED BY <1>1, <2>1, Appended DEF x
<1> HIDE DEF q
<1>5. /\ m \in Nat /\ b \in Nat /\ Len(q) = b /\ m < Len(q) /\ q[b] = pre + l
      /\ Agree(q, o, m)
  BY <1>1, <1>4
<1>6. e \in Text /\ q[b] <= Len(e) /\ Agree(e, d, pre) /\ Follows(e, pre, str)
  <2>1. CASE str = <<>>
    <3>1. l = 0
      BY <2>1 DEF l
    <3>2. q[b] = pre
      BY <1>3, <1>5, <3>1
    <3> QED BY <1>1, <2>1, <3>1, <3>2 DEF Agree, Follows
  <2>2. CASE str # <<>>
    <3> DEFINE cut == S!CutTo(pre, d)
    <3>1. cut \in Text /\ Len(cut) = pre /\ Agree(cut, d, pre)
      BY <1>1, <1>3, CutToIs
    <3>2. e = cut \o str
      BY <2>2
    <3> HIDE DEF cut, e
    <3>3. e \in Text /\ Len(e) = pre + l /\ Agree(e, cut, pre) /\ Follows(e, pre, str)
      <4>1. /\ e \in Text /\ Len(e) = Len(cut) + Len(str)
            /\ Agree(e, cut, Len(cut)) /\ Follows(e, Len(cut), str)
        BY <3>1, <3>2, Joined DEF Text
      <4> QED BY <3>1, <4>1 DEF l
    <3>4. q[b] <= Len(e)
      BY <1>3, <1>5, <3>3
    <3> QED BY <3>1, <3>3, <3>4 DEF Agree
  <2> QED BY <2>1, <2>2
<1> HIDE DEF e
<1>7. Packs(q, e, Append(v, str))
  <2> HIDE DEF m, b
  <2>1. m = Len(v) + 1 /\ b = Len(v) + 2
    BY DEF m, b
  <2>2. q \in Seq(Nat) /\ m < Len(q) /\ Agree(q, o, m) /\ q[b] = o[m] + Len(str)
    BY <1>4, <1>5 DEF pre, l
  <2>3. /\ e \in Text /\ q[b] <= Len(e) /\ Agree(e, d, o[m])
        /\ Follows(e, o[m], str)
    BY <1>6 DEF pre, l
  <2> QED BY <1>1, <2>1, <2>2, <2>3, PacksBack
<1>8. Len(Append(v, str)) = m
  BY <1>1
<1> QED BY <1>2, <1>4, <1>5, <1>6, <1>7, <1>8 DEF Tight, Keeps

\* The strings v and the first i of strs.
Upto(v, strs, i) == v \o SubSeq(strs, 1, i)

LEMMA UptoStep ==
  ASSUME NEW v \in Seq(Text), NEW strs \in Seq(Text), NEW i \in 1..Len(strs)
  PROVE  Upto(v, strs, i) = Append(Upto(v, strs, i - 1), strs[i])
<1> DEFINE m == i - 1
           a == SubSeq(strs, 1, i)
           s == SubSeq(strs, 1, m)
           x == strs[i]
<1>1. Len(strs) \in Nat /\ m \in Nat /\ i = m + 1 /\ m < Len(strs) /\ x \in Text /\ i \in Nat
  BY SeqFacts
<1> HIDE DEF m, x
<1>2. /\ a \in Seq(Text) /\ Len(a) = m + 1 /\ \A k \in 1..(m + 1) : a[k] = strs[k]
  BY <1>1
<1>3. /\ s \in Seq(Text) /\ Len(s) = m /\ \A k \in 1..m : s[k] = strs[k]
  BY <1>1
<1> HIDE DEF a, s
<1>4. /\ Append(s, x) \in Seq(Text) /\ Len(Append(s, x)) = m + 1 /\ Append(s, x)[m + 1] = x
      /\ Agree(Append(s, x), s, m)
  BY <1>1, <1>3, Appended
<1>5. \A k \in 1..(m + 1) : k = m + 1 \/ k \in 1..m
  BY <1>1
<1>6. \A k \in 1..Len(a) : a[k] = Append(s, x)[k]
  BY <1>1, <1>2, <1>3, <1>4, <1>5 DEF Agree, x
<1>7. a = Append(s, x)
  BY <1>2, <1>4, <1>6, SameSeq
<1>8. v \o Append(s, x) = Append(v \o s, x)
  BY <1>1, <1>3
<1> QED BY <1>7, <1>8 DEF Upto, a, s, m, x

AllPushed(v, strs, i) ==
  {q \in [offset : Seq(Nat), data : Text, size : Nat] : Tight(q, Upto(v, strs, i))}

LEMMA StringsPushed ==
  ASSUME NEW p, NEW v, Tight(p, v), NEW strs \in Seq(Text)
  PROVE  Tight(S!PushedAll(p, strs), v \o strs)
<1> DEFINE n == Len(strs)
           T == [i \in 0..n |-> AllPushed(v, strs, i)]
           turn == [i \in 1..n |-> [q \in T[i - 1] |-> S!Pushed(q, strs[i])]]
<1>1. n \in Nat /\ v \in Seq(Text) /\ \A i \in 1..n : strs[i] \in Text
  BY SeqFacts DEF Tight, Keeps, Packs
<1>2. p \in T[0]
  <2>1. Upto(v, strs, 0) = v
    <3>1. SubSeq(strs, 1, 0) = <<>> /\ v \o <<>> = v
      BY <1>1
    <3> QED BY <3>1 DEF Upto
  <2>2. p \in AllPushed(v, strs, 0)
    BY <2>1 DEF AllPushed, Tight, Keeps
  <2> QED BY <1>1, <2>2
<1>3. ASSUME NEW i \in 1..n, NEW q \in T[i - 1] PROVE S!Pushed(q, strs[i]) \in T[i]
  <2>1. q \in AllPushed(v, strs, i - 1) /\ strs[i] \in Text
    BY <1>1
  <2>2. Tight(S!Pushed(q, strs[i]), Append(Upto(v, strs, i - 1), strs[i]))
    BY <2>1, StringPushed DEF AllPushed
  <2>3. Tight(S!Pushed(q, strs[i]), Upto(v, strs, i))
    BY <1>1, <2>2, UptoStep
  <2>4. S!Pushed(q, strs[i]) \in AllPushed(v, strs, i)
    BY <2>3 DEF AllPushed, Tight, Keeps
  <2> QED BY <1>1, <2>4
<1>4. \A i \in 1..n : \A q \in T[i - 1] : turn[i][q] = S!Pushed(q, strs[i])
  <2> HIDE DEF T
  <2> QED OBVIOUS
<1>5. \A i \in 1..n : \A q \in T[i - 1] : turn[i][q] \in T[i]
  <2> HIDE DEF T, turn
  <2> QED BY <1>3, <1>4
<1>6. \A i \in 1..n : i - 1 \in 0..n
  BY <1>1
<1> HIDE DEF T, turn
<1>7. PICK g : Runs(g, n, p, turn) /\ \A i \in 0..n : g[i] \in T[i]
  BY <1>1, <1>2, <1>5, LoopRuns
<1>8. g = [i \in 0..n |-> IF i = 0 THEN p ELSE S!Pushed(g[i - 1], strs[i])]
  <2>1. \A i \in 1..n : g[i] = S!Pushed(g[i - 1], strs[i])
    BY <1>4, <1>6, <1>7 DEF Runs
  <2>2. \A i \in 0..n : i = 0 \/ i \in 1..n
    BY <1>1
  <2>3. \A i \in 0..n : g[i] = IF i = 0 THEN p ELSE S!Pushed(g[i - 1], strs[i])
    BY <1>7, <2>1, <2>2 DEF Runs
  <2> QED BY <1>7, <2>3 DEF Runs
<1>9. PICK f : /\ f = [i \in 0..n |-> IF i = 0 THEN p ELSE S!Pushed(f[i - 1], strs[i])]
               /\ S!PushedAll(p, strs) = f[n]
  BY <1>8 DEF S!PushedAll
<1>10. f[n] \in T[n]
  <2>1. f[0] \in T[0]
    BY <1>1, <1>2, <1>9
  <2>2. ASSUME NEW i \in 1..n, f[i - 1] \in T[i - 1] PROVE f[i] \in T[i]
    <3>1. f[i] = S!Pushed(f[i - 1], strs[i])
      BY <1>1, <1>9
    <3> QED BY <1>3, <2>2, <3>1
  <2> QED BY <1>1, <2>1, <2>2, LoopKeeps
<1>11. Tight(f[n], Upto(v, strs, n))
  BY <1>1, <1>10 DEF T, AllPushed
<1>12. SubSeq(strs, 1, n) = strs
  BY <1>1
<1> QED BY <1>9, <1>11, <1>12 DEF Upto

-----------------------------------------------------------------------------
(* The calls of a partition of strings. *)

\* The partition has the strings v, and if nothing was made smaller, no others.
Packed(v) ==
  /\ Keeps(S!This, v) /\ Len(v) <= MaxSize
  /\ Len(offset) = size + 1 \/ call.op \in {"resize", "resize_val"}

\* The call leaves what it leaves of a vector of the strings v.
LeavesStrings(v) ==
  \E p, w : /\ S!Becomes(p) /\ Keeps(p, w) /\ w \in Vec!Results(call', v) /\ Len(w) <= MaxSize
            /\ Len(p.offset) = p.size + 1 \/ call'.op \in {"resize", "resize_val"}

LEMMA StringCallFields ==
  ASSUME NEW op, NEW n, NEW x
  PROVE  /\ S!Call(op).op = op
         /\ S!CallAt(op, n, x).op = op /\ S!CallAt(op, n, x).n = n /\ S!CallAt(op, n, x).val = x
         /\ S!CallWith(op, n, x).op = op /\ S!CallWith(op, n, x).n = n
         /\ S!CallWith(op, n, x).new = x
BY DEF S!Call, S!CallAt, S!CallWith

LEMMA StringArraySeq ==
  ASSUME NEW new \in S!Array
  PROVE  new \in Seq(Text) /\ Len(new) \in Nat /\ Len(new) <= MaxSize
<1>1. PICK m \in 0..MaxSize : new \in [1..m -> String]
  BY DEF S!Array, S!BoundedSeq, S!SeqOf
<1>2. m \in Nat
  BY PartitionAssumption
<1>3. new \in [1..m -> Text]
  BY <1>1, StringsAreText
<1> QED BY <1>1, <1>2, <1>3, IsSeq

\* Who calls what appends has a partition that was not made smaller.
LEMMA MayAppendTight ==
  ASSUME ~AppendsToShrunk, NEW v, Packed(v), S!MayAppend
  PROVE  Tight(S!This, v)
<1>1. Len(offset) = size + 1
  BY DEF Packed, S!MayAppend
<1> QED BY <1>1 DEF Packed, Tight, S!This

LEMMA EmptyTight == Tight(S!Empty, <<>>)
<1>1. /\ <<0>> \in Seq(Nat) /\ Len(<<0>>) = 1 /\ <<0>>[1] = 0
      /\ <<>> \in Seq(S!Char) /\ <<>> \in Seq(Text) /\ Len(<<>>) = 0
  OBVIOUS
<1> QED BY <1>1 DEF Tight, Keeps, Packs, S!Empty, Text

LEMMA StringAssignLeaves ==
  ASSUME NEW v, NEW new \in S!Array, S!Assign(new)
  PROVE  LeavesStrings(v)
<1>1. new \in Seq(Text) /\ Len(new) <= MaxSize /\ <<>> \o new = new
  BY StringArraySeq
<1>2. Tight(S!PushedAll(S!Empty, new), new)
  <2>1. Tight(S!PushedAll(S!Empty, new), <<>> \o new)
    BY <1>1, EmptyTight, StringsPushed
  <2> QED BY <1>1, <2>1
<1>3. call'.op = "assign" /\ call'.new = new
  BY StringCallFields DEF S!Assign
<1>4. new \in Vec!Results(call', v)
  BY <1>3, VectorResults
<1> QED BY <1>1, <1>2, <1>4 DEF LeavesStrings, S!Assign, Tight

LEMMA StringClearLeaves ==
  ASSUME NEW v, S!Clear
  PROVE  LeavesStrings(v)
<1>1. call'.op = "clear"
  BY StringCallFields DEF S!Clear
<1>2. <<>> \in Vec!Results(call', v)
  BY <1>1, VectorResults
<1>3. Len(<<>>) <= MaxSize
  BY PartitionAssumption
<1> QED BY <1>2, <1>3, EmptyTight DEF LeavesStrings, S!Clear, Tight

LEMMA StringAppendLeaves ==
  ASSUME ~AppendsToShrunk, NEW v, Packed(v), NEW rhs \in S!Array, S!AppendPartition(rhs)
  PROVE  LeavesStrings(v)
<1>1. rhs \in Seq(Text) /\ v \in Seq(Text) /\ size = Len(v) /\ size + Len(rhs) <= MaxSize
  BY StringArraySeq DEF Packed, Keeps, Packs, S!This, S!AppendPartition
<1>2. Len(v \o rhs) <= MaxSize
  BY <1>1
<1>3. Tight(S!PushedAll(S!This, rhs), v \o rhs)
  BY <1>1, MayAppendTight, StringsPushed DEF S!AppendPartition
<1>4. call'.op = "AppendPartition" /\ call'.new = rhs
  BY StringCallFields DEF S!AppendPartition
<1>5. v \o rhs \in Vec!Results(call', v)
  BY <1>4, VectorResults
<1> QED BY <1>2, <1>3, <1>5 DEF LeavesStrings, S!AppendPartition, Tight

LEMMA StringPushBackLeaves ==
  ASSUME ~AppendsToShrunk, NEW v, Packed(v), NEW str \in String, S!PushBack(str)
  PROVE  LeavesStrings(v)
<1>1. str \in Text /\ v \in Seq(Text) /\ size = Len(v) /\ size < MaxSize
  BY StringsAreText DEF Packed, Keeps, Packs, S!This, S!PushBack
<1>2. Len(Append(v, str)) <= MaxSize
  BY <1>1, PartitionAssumption
<1>3. Tight(S!Pushed(S!This, str), Append(v, str))
  BY <1>1, MayAppendTight, StringPushed DEF S!PushBack
<1>4. call'.op = "push_back" /\ call'.val = str
  BY StringCallFields DEF S!PushBack
<1>5. Append(v, str) \in Vec!Results(call', v)
  BY <1>4, VectorResults
<1> QED BY <1>2, <1>3, <1>5 DEF LeavesStrings, S!PushBack, Tight

LEMMA StringPermutationLeaves ==
  ASSUME NEW v, Packed(v), NEW permutation \in [1..size -> 1..size],
         S!ApplyPermutation(permutation)
  PROVE  LeavesStrings(v)
<1> DEFINE w == [i \in 1..size |-> S!At(permutation[i])]
<1>1. /\ v \in Seq(Text) /\ size = Len(v) /\ size \in Nat /\ size <= MaxSize
      /\ Packs(offset, data, v)
  BY DEF Packed, Keeps, Packs, S!This
<1>2. \A i \in 1..size : permutation[i] \in 1..Len(v)
  BY <1>1
<1>3. \A i \in 1..Len(v) : S!At(i) = v[i]
  BY <1>1, PacksFound DEF Found, S!At
<1>4. \A i \in 1..size : S!At(permutation[i]) = v[permutation[i]] /\ v[permutation[i]] \in Text
  BY <1>1, <1>2, <1>3, SeqFacts
<1>5. w = [i \in DOMAIN v |-> v[permutation[i]]] /\ w \in [1..size -> Text]
  <2>1. DOMAIN v = 1..size
    BY <1>1
  <2> HIDE DEF S!At
  <2> QED BY <1>4, <2>1
<1>6. call'.op = "ApplyPermutation" /\ call'.new = permutation
  BY StringCallFields DEF S!ApplyPermutation
<1>7. w \in Vec!Results(call', v)
  BY <1>5, <1>6, VectorResults
<1>8. S!Becomes(S!PushedAll(S!Empty, w))
  BY DEF S!ApplyPermutation
<1> HIDE DEF w
<1>9. w \in Seq(Text) /\ Len(w) <= MaxSize /\ <<>> \o w = w
  BY <1>1, <1>5, IsSeq
<1>10. Tight(S!PushedAll(S!Empty, w), w)
  <2>1. Tight(S!PushedAll(S!Empty, w), <<>> \o w)
    BY <1>9, EmptyTight, StringsPushed
  <2> QED BY <1>9, <2>1
<1> QED BY <1>7, <1>8, <1>9, <1>10 DEF LeavesStrings, Tight

\* The offsets in use are inside the characters.
LEMMA PacksEnd ==
  ASSUME NEW o, NEW d, NEW v, Packs(o, d, v), NEW m \in 1..(Len(v) + 1)
  PROVE  /\ o[m] \in Nat /\ o[m] <= Len(d) /\ o[Len(v) + 1] \in Nat /\ o[m] <= o[Len(v) + 1]
         /\ m < Len(o) + 1
<1> DEFINE b == Len(v) + 1
<1>1. /\ o \in Seq(Nat) /\ d \in Text /\ Len(v) \in Nat /\ Len(o) \in Nat /\ Len(v) < Len(o)
      /\ o[b] <= Len(d)
  BY DEF Packs
<1>2. m \in 1..Len(o) /\ b \in 1..Len(o) /\ b \in 1..b /\ m <= b /\ m \in 1..b
  BY <1>1
<1>3. \A i, j \in 1..b : i <= j => o[i] <= o[j]
  BY DEF Packs
<1> HIDE DEF b
<1>4. o[m] \in Nat /\ o[b] \in Nat /\ o[m] <= o[b] /\ Len(d) \in Nat
  <2>1. \A x \in 1..Len(o) : o[x] \in Nat
    BY <1>1, SeqFacts
  <2>2. Len(d) \in Nat
    BY <1>1, SeqFacts DEF Text
  <2> QED BY <1>2, <1>3, <2>1, <2>2
<1>5. o[m] <= Len(d)
  BY <1>1, <1>4
<1>6. m < Len(o) + 1
  BY <1>1, <1>2
<1> QED BY <1>4, <1>5, <1>6 DEF b

LEMMA PushedNone ==
  ASSUME NEW p, NEW strs \in Seq(Text), Len(strs) = 0
  PROVE  S!PushedAll(p, strs) = p
<1> DEFINE g == [i \in 0..0 |-> p]
<1>1. g = [i \in 0..Len(strs) |-> IF i = 0 THEN p ELSE S!Pushed(g[i - 1], strs[i])]
  BY DEF S!Pushed
<1> HIDE DEF g
<1>2. PICK f : /\ f = [i \in 0..Len(strs) |-> IF i = 0 THEN p ELSE S!Pushed(f[i - 1], strs[i])]
               /\ S!PushedAll(p, strs) = f[Len(strs)]
  BY <1>1 DEF S!PushedAll
<1> QED BY <1>2

LEMMA StringsResized ==
  ASSUME NEW p, NEW v, Keeps(p, v), NEW n \in Nat, NEW x \in Text, n > p.size => Tight(p, v)
  PROVE  Keeps(S!Resized(p, n, x), Extended(v, n, x))
<1> DEFINE o == p.offset
           d == p.data
           w == Extended(v, n, x)
<1>1. /\ Packs(o, d, v) /\ p.size = Len(v) /\ Len(v) \in Nat /\ v \in Seq(Text)
      /\ o \in Seq(Nat) /\ d \in Text
  BY DEF Keeps, Packs
<1>2. w \in [1..n -> Text]
  BY <1>1, SeqFacts DEF Extended
<1>3. \A i \in 1..n : w[i] = IF i <= Len(v) THEN v[i] ELSE x
  BY DEF Extended
<1> HIDE DEF w
<1>4. w \in Seq(Text) /\ Len(w) = n
  BY <1>2, IsSeq
<1>5. CASE n < p.size
  <2> DEFINE m == n + 1
             a == Len(v) + 1
  <2>1. m \in 1..a /\ n < Len(o) /\ n <= Len(v)
    BY <1>1, <1>5 DEF Packs
  <2>2. m = Len(w) + 1 /\ a = Len(v) + 1
    BY <1>4
  <2> HIDE DEF m, a
  <2>3. o[m] <= Len(d)
    BY <1>1, <2>1, <2>2, PacksEnd
  <2>4. Agree(w, v, Len(w)) /\ Agree(o, o, m) /\ Agree(d, d, o[m])
    BY <1>1, <1>3, <1>4, <2>1 DEF Agree
  <2> HIDE DEF o, d
  <2>5. Packs(o, d, w)
    BY <1>1, <1>4, <2>1, <2>2, <2>3, <2>4, PacksFront
  <2>6. S!Resized(p, n, x) = [p EXCEPT !.size = n]
    BY <1>5 DEF S!Resized
  <2> QED BY <1>4, <2>5, <2>6 DEF Keeps, o, d, w
<1> DEFINE strs == [i \in 1..(n - p.size) |-> x]
<1>6. CASE n = p.size
  <2>1. w = v
    <3>1. \A i \in 1..Len(w) : w[i] = v[i]
      BY <1>1, <1>3, <1>4, <1>6
    <3> QED BY <1>1, <1>4, <1>6, <3>1, SameSeq
  <2>2. strs \in Seq(Text) /\ Len(strs) = 0
    <3>1. strs \in [1..0 -> Text]
      BY <1>1, <1>6
    <3> HIDE DEF strs
    <3> QED BY <3>1, IsSeq
  <2>3. S!Resized(p, n, x) = S!PushedAll(p, strs)
    BY <1>1, <1>6 DEF S!Resized
  <2> HIDE DEF strs
  <2> QED BY <2>1, <2>2, <2>3, PushedNone DEF w
<1>7. CASE n > p.size
  <2> DEFINE l == n - p.size
  <2>1. l \in Nat /\ n = Len(v) + l
    BY <1>1, <1>7
  <2>2. strs \in [1..l -> Text] /\ \A i \in 1..l : strs[i] = x
    OBVIOUS
  <2>3. S!Resized(p, n, x) = S!PushedAll(p, strs)
    BY <1>1, <1>7 DEF S!Resized
  <2> HIDE DEF l, strs
  <2>4. strs \in Seq(Text) /\ Len(strs) = l
    BY <2>1, <2>2, IsSeq
  <2>5. v \o strs = w
    <3>1. /\ v \o strs \in Seq(Text) /\ Len(v \o strs) = n
          /\ Agree(v \o strs, v, Len(v)) /\ Follows(v \o strs, Len(v), strs)
      <4>1. /\ v \o strs \in Seq(Text) /\ Len(v \o strs) = Len(v) + Len(strs)
            /\ Agree(v \o strs, v, Len(v)) /\ Follows(v \o strs, Len(v), strs)
        BY <1>1, <2>4, Joined
      <4> QED BY <2>1, <2>4, <4>1
    <3> DEFINE u == v \o strs
    <3> HIDE DEF u
    <3>2. u \in Seq(Text) /\ Len(u) = n /\ Agree(u, v, Len(v)) /\ Follows(u, Len(v), strs)
      BY <3>1 DEF u
    <3>3. \A i \in 1..n : u[i] = w[i]
      <4> TAKE i \in 1..n
      <4>1. CASE i <= Len(v)
        BY <1>1, <1>3, <3>2, <4>1 DEF Agree
      <4>2. CASE ~ (i <= Len(v))
        <5> DEFINE k == i - Len(v)
        <5>1. k \in 1..l /\ Len(v) + k = i
          BY <1>1, <2>1, <4>2
        <5> HIDE DEF k
        <5>2. u[Len(v) + k] = strs[k]
          BY <2>4, <3>2, <5>1 DEF Follows
        <5> QED BY <1>3, <2>2, <4>2, <5>1, <5>2
      <4> QED BY <4>1, <4>2
    <3> QED BY <1>4, <3>2, <3>3, SameSeq DEF u
  <2> QED BY <1>7, <2>3, <2>4, <2>5, StringsPushed DEF Tight, w
<1> QED BY <1>1, <1>5, <1>6, <1>7

LEMMA StringResizeLeaves ==
  ASSUME ~AppendsToShrunk, strings, NEW v, Packed(v), NEW n \in 0..MaxSize,
         (\E x \in String : S!ResizeVal(n, x)) \/ S!Resize(n)
  PROVE  LeavesStrings(v)
<1>1. n \in Nat /\ n <= MaxSize /\ <<>> \in Text /\ Keeps(S!This, v)
  BY PartitionAssumption, StringsAreText DEF Packed, Text
<1>2. n > S!This.size => Tight(S!This, v)
  BY MayAppendTight DEF S!ResizeVal, S!Resize, S!This
<1>3. \A y \in Text : Keeps(S!Resized(S!This, n, y), Extended(v, n, y))
  BY <1>1, <1>2, StringsResized
<1>4. \A y \in Text : Len(Extended(v, n, y)) = n
  BY <1>1 DEF Extended
<1>5. ASSUME NEW x \in String, S!ResizeVal(n, x) PROVE LeavesStrings(v)
  <2>3. x \in Text
    BY StringsAreText
  <2>1. call'.op = "resize_val" /\ call'.n = n /\ call'.val = x
    BY <1>5, StringCallFields DEF S!ResizeVal
  <2>2. Extended(v, n, x) \in Vec!Results(call', v)
    BY <2>1, VectorResults
  <2> QED BY <1>1, <1>3, <1>4, <1>5, <2>1, <2>2, <2>3 DEF LeavesStrings, S!ResizeVal
<1>6. CASE S!Resize(n)
  <2>1. call'.op = "resize" /\ call'.n = n
    BY <1>6, StringCallFields DEF S!Resize
  <2> DEFINE f == [i \in 1..n |-> <<>>]
  <2>2. f \in [1..n -> Filler] /\ ExtendedBy(v, n, f) = Extended(v, n, <<>>)
    BY DEF Filler, Extended, ExtendedBy
  <2>3. ExtendedBy(v, n, f) \in Vec!Results(call', v)
    BY <2>1, <2>2, VectorResults
  <2> QED BY <1>1, <1>3, <1>4, <1>6, <2>1, <2>2, <2>3 DEF LeavesStrings, S!Resize
<1> QED BY <1>5, <1>6

LEMMA StringPopBackLeaves ==
  ASSUME ~AppendsToShrunk, NEW v, Packed(v), S!PopBack
  PROVE  LeavesStrings(v)
<1> DEFINE w == SubSeq(v, 1, Len(v) - 1)
           m == Len(v)
           e == S!CutTo(offset[m], data)
           p == [offset |-> S!Front(offset), data |-> e, size |-> m - 1]
<1>1. /\ Tight(S!This, v) /\ size = m /\ size > 0 /\ m \in Nat /\ m <= MaxSize
  <2>1. Tight(S!This, v) /\ size > 0
    BY MayAppendTight DEF S!PopBack
  <2>2. size = m /\ m \in Nat
    BY <2>1 DEF Tight, Keeps, Packs, S!This
  <2>3. m <= MaxSize
    BY DEF Packed
  <2> QED BY <2>1, <2>2, <2>3
<1>2. /\ Packs(offset, data, v) /\ Len(offset) = m + 1 /\ offset \in Seq(Nat) /\ data \in Text
      /\ v \in Seq(Text)
  BY <1>1 DEF Tight, Keeps, Packs, S!This
<1>3. S!Becomes(p)
  BY <1>1 DEF S!PopBack
<1>4. call'.op = "pop_back"
  BY StringCallFields DEF S!PopBack
<1>5. v # <<>>
  BY <1>1
<1>6. w \in Vec!Results(call', v)
  BY <1>4, <1>5, VectorResults
<1>7. S!Front(offset) = SubSeq(offset, 1, m)
  BY <1>2 DEF S!Front
<1> DEFINE q == S!Front(offset)
<1>8. /\ q \in Seq(Nat) /\ Len(q) = m /\ Agree(q, offset, m)
  BY <1>1, <1>2, <1>7 DEF Agree
<1>9. /\ w \in Seq(Text) /\ Len(w) = m - 1 /\ Agree(w, v, m - 1)
  BY <1>1, <1>2 DEF Agree
<1>10. offset[m] \in Nat /\ offset[m] <= Len(data)
  BY <1>1, <1>2, PacksEnd
<1>11. e \in Text /\ Len(e) = offset[m] /\ Agree(e, data, offset[m])
  BY <1>2, <1>10, CutToIs
<1>12. offset[m] <= Len(e)
  BY <1>10, <1>11
<1> HIDE DEF w, q, e, m
<1>13. m = Len(w) + 1 /\ Len(w) <= Len(v) /\ Len(w) < Len(q) /\ Len(w) <= MaxSize /\ m - 1 = Len(w)
  <2>1. m = Len(v)
    BY DEF m
  <2>2. m \in Nat /\ m > 0 /\ m <= MaxSize /\ Len(q) = m /\ Len(w) = m - 1 /\ MaxSize \in Nat
    BY <1>1, <1>8, <1>9, PartitionAssumption
  <2> HIDE DEF p
  <2>3. m = Len(w) + 1 /\ Len(w) < Len(q) /\ Len(w) <= MaxSize /\ Len(w) <= m
    BY <2>2
  <2> QED BY <2>1, <2>2, <2>3
<1>14. Agree(w, v, Len(w))
  BY <1>9
<1>15. Packs(q, e, w)
  BY <1>2, <1>8, <1>9, <1>11, <1>12, <1>13, <1>14, PacksFront
<1>16. Keeps(p, w) /\ Len(p.offset) = p.size + 1
  <2>1. p = [offset |-> q, data |-> e, size |-> Len(w)]
    BY <1>13 DEF q
  <2> HIDE DEF p
  <2>2. Len(w) \in Nat /\ Len(q) = Len(w) + 1
    BY <1>1, <1>8, <1>9, <1>13
  <2> QED BY <1>8, <1>11, <1>15, <2>1, <2>2 DEF Keeps
<1> QED BY <1>3, <1>6, <1>13, <1>16 DEF LeavesStrings

LEMMA StringShrinkLeaves ==
  ASSUME NEW v, Packed(v), S!ShrinkToFit
  PROVE  LeavesStrings(v)
<1> DEFINE m == Len(v) + 1
           q == SubSeq(offset, 1, m)
           e == S!CutTo(offset[m], data)
           p == [offset |-> q, data |-> e, size |-> size]
<1>1. /\ size = Len(v) /\ Len(v) \in Nat /\ Len(v) <= MaxSize
      /\ Packs(offset, data, v) /\ Len(v) < Len(offset) /\ Len(offset) \in Nat
      /\ offset \in Seq(Nat) /\ data \in Text /\ v \in Seq(Text)
  BY DEF Packed, Keeps, Packs, S!This
<1>2. S!Becomes(p)
  BY <1>1 DEF S!ShrinkToFit, S!Becomes, S!This
<1>3. call'.op = "shrink_to_fit"
  BY StringCallFields DEF S!ShrinkToFit
<1>4. v \in Vec!Results(call', v)
  BY <1>3, VectorResults
<1>5. q \in Seq(Nat) /\ Len(q) = m /\ Agree(q, offset, m)
  BY <1>1 DEF Agree
<1>6. offset[m] \in Nat /\ offset[m] <= Len(data)
  <2>1. m \in 1..(Len(v) + 1)
    BY <1>1
  <2> QED BY <1>1, <2>1, PacksEnd
<1>7. e \in Text /\ Len(e) = offset[m] /\ Agree(e, data, offset[m])
  BY <1>1, <1>6, CutToIs
<1>8. offset[m] <= Len(e)
  BY <1>6, <1>7
<1>9. m = Len(v) + 1 /\ m = size + 1 /\ Len(v) < m
  BY <1>1
<1> HIDE DEF m, q, e
<1>10. Agree(v, v, Len(v)) /\ Len(v) <= Len(v) /\ Len(v) < Len(q)
  BY <1>1, <1>5, <1>9 DEF Agree
<1>11. Packs(q, e, v)
  BY <1>1, <1>5, <1>7, <1>8, <1>9, <1>10, PacksFront
<1>12. Keeps(p, v) /\ Len(p.offset) = p.size + 1
  BY <1>1, <1>5, <1>7, <1>9, <1>11 DEF Keeps
<1> HIDE DEF p
<1> QED BY <1>1, <1>2, <1>4, <1>12 DEF LeavesStrings

\* Slice copies the offsets from zero on, and the characters between them.
LEMMA PacksPart ==
  ASSUME NEW o, NEW d, NEW v, Packs(o, d, v), NEW from \in Nat, NEW n \in Nat,
         from < Len(v), from + n <= Len(v),
         NEW s, s = from + 1, NEW t, t = from + n + 1
  PROVE  Packs([i \in 1..(n + 1) |-> o[from + i] - o[s]], SubSeq(d, o[s] + 1, o[t]),
               SubSeq(v, from + 1, from + n))
<1> DEFINE q == [i \in 1..(n + 1) |-> o[from + i] - o[s]]
           e == SubSeq(d, o[s] + 1, o[t])
           w == SubSeq(v, from + 1, from + n)
           base == o[s]
           end == o[t]
<1>1. /\ o \in Seq(Nat) /\ d \in Text /\ v \in Seq(Text) /\ Len(v) \in Nat /\ Len(o) \in Nat
      /\ Len(v) < Len(o)
  BY DEF Packs
<1>2. s \in 1..(Len(v) + 1) /\ t \in 1..(Len(v) + 1) /\ s <= t
  BY <1>1
<1>3. \A i \in 1..(n + 1) : /\ from + i \in 1..(Len(v) + 1) /\ s <= from + i /\ from + i <= t
                            /\ from + i \in 1..Len(o)
  BY <1>1
<1>4. \A i, j \in 1..(Len(v) + 1) : i <= j => o[i] <= o[j]
  BY DEF Packs
<1>5. base \in Nat /\ end \in Nat /\ base <= end /\ end <= Len(d) /\ Len(d) \in Nat
  <2>1. Len(d) \in Nat
    BY <1>1, SeqFacts DEF Text
  <2> QED BY <1>2, <1>4, <2>1, PacksEnd
<1>6. \A i \in 1..(n + 1) : o[from + i] \in Nat /\ base <= o[from + i] /\ o[from + i] <= end
  <2> TAKE i \in 1..(n + 1)
  <2> DEFINE x == from + i
  <2>1. x \in 1..(Len(v) + 1) /\ s <= x /\ x <= t /\ x \in 1..Len(o)
    BY <1>3
  <2> HIDE DEF x
  <2>2. o[x] \in Nat
    BY <1>1, <2>1, SeqFacts
  <2> QED BY <1>2, <1>4, <2>1, <2>2 DEF x
<1>7. \A i \in 1..(n + 1) : q[i] = o[from + i] - base
  OBVIOUS
<1>8. q \in [1..(n + 1) -> Nat]
  <2>1. \A i \in 1..(n + 1) : o[from + i] - base \in Nat
    <3> TAKE i \in 1..(n + 1)
    <3> DEFINE y == o[from + i]
    <3>1. y \in Nat /\ base <= y
      BY <1>6
    <3> HIDE DEF y, base
    <3> QED BY <1>5, <3>1 DEF y
  <2> QED BY <2>1
<1>9. /\ e \in Text /\ Len(e) = end - base
      /\ \A k \in 1..(end - base) : e[k] = d[base + k]
  <2>1. d \in Seq(S!Char) /\ e = SubSeq(d, base + 1, end)
    BY <1>1 DEF Text
  <2> HIDE DEF base, end, e
  <2>2. /\ e \in Seq(S!Char) /\ Len(e) = end - base
        /\ \A k \in 1..(end - base) : e[k] = d[base + k]
    BY <1>5, <2>1
  <2> QED BY <2>2 DEF Text
<1>10. /\ w \in Seq(Text) /\ Len(w) = n
       /\ \A i \in 1..n : w[i] = v[from + i]
  BY <1>1
<1> HIDE DEF q, e, w, base, end
<1>11. q \in Seq(Nat) /\ Len(q) = n + 1
  BY <1>8, IsSeq
<1>12. q[1] = 0
  <2>1. 1 \in 1..(n + 1) /\ from + 1 = s
    OBVIOUS
  <2>2. q[1] = base - base
    BY <1>7, <2>1 DEF base
  <2> QED BY <1>5, <2>2
<1>13. q[n + 1] = end - base
  <2>1. n + 1 \in 1..(n + 1) /\ from + (n + 1) = t
    OBVIOUS
  <2> QED BY <1>7, <2>1 DEF end
<1>14. \A i, j \in 1..(n + 1) : i <= j => q[i] <= q[j]
  <2> TAKE i, j \in 1..(n + 1)
  <2> HAVE i <= j
  <2> DEFINE x == from + i
             y == from + j
  <2>1. x \in 1..(Len(v) + 1) /\ y \in 1..(Len(v) + 1) /\ x <= y
    BY <1>3
  <2>2. q[i] = o[x] - base /\ q[j] = o[y] - base /\ o[x] \in Nat /\ o[y] \in Nat
    BY <1>6, <1>7
  <2> HIDE DEF x, y
  <2>3. o[x] <= o[y]
    BY <1>4, <2>1
  <2> QED BY <1>5, <2>2, <2>3
<1>15. ASSUME NEW i \in 1..n
       PROVE  /\ q[i + 1] = q[i] + Len(w[i])
              /\ \A k \in 1..Len(w[i]) : e[q[i] + k] = w[i][k]
  <2> DEFINE x == from + i
             y == from + i + 1
             m == Len(v) + 1
             str == v[x]
  <2>1. x \in 1..Len(v) /\ y = x + 1 /\ m = Len(v) + 1 /\ w[i] = str
    BY <1>1, <1>10
  <2>2. q[i] = o[x] - base /\ q[i + 1] = o[y] - base /\ base <= o[x] /\ o[y] <= end
    <3>1. i \in 1..(n + 1) /\ i + 1 \in 1..(n + 1) /\ from + (i + 1) = y
      OBVIOUS
    <3> QED BY <1>6, <1>7, <3>1
  <2> HIDE DEF x, y, m
  <2>3. Placed(o, d, str, x, y, m)
    BY <2>1, PacksAt
  <2> HIDE DEF str
  <2>4. /\ o[x] \in Nat /\ o[y] \in Nat /\ Len(str) \in Nat /\ o[y] = o[x] + Len(str)
        /\ \A k \in 1..Len(str) : d[o[x] + k] = str[k]
    BY <2>3 DEF Placed
  <2>5. q[i + 1] = q[i] + Len(str)
    BY <1>5, <2>2, <2>4
  <2>6. \A k \in 1..Len(str) : e[q[i] + k] = str[k]
    <3> TAKE k \in 1..Len(str)
    <3> DEFINE z == q[i] + k
    <3>1. z \in 1..(end - base) /\ base + z = o[x] + k
      <4> DEFINE a == o[x]
                 b == o[y]
                 l == Len(str)
                 c == q[i]
      <4>1. /\ a \in Nat /\ l \in Nat /\ b = a + l /\ b <= end /\ base <= a /\ c = a - base
            /\ base \in Nat /\ end \in Nat /\ k \in 1..l
        BY <1>5, <2>2, <2>4
      <4> HIDE DEF a, b, c, l
      <4>2. c + k \in 1..(end - base) /\ base + (c + k) = a + k
        BY <4>1
      <4> QED BY <4>2 DEF a, c
    <3> HIDE DEF z
    <3>2. e[z] = d[base + z]
      BY <1>9, <3>1
    <3> QED BY <2>4, <3>1, <3>2 DEF z
  <2> QED BY <2>1, <2>5, <2>6
<1>16. Packs(q, e, w)
  <2>1. Len(w) < Len(q) /\ q[Len(w) + 1] <= Len(e) /\ Len(w) + 1 = n + 1
    BY <1>5, <1>9, <1>10, <1>11, <1>13
  <2> QED BY <1>9, <1>10, <1>11, <1>12, <1>14, <1>15, <2>1 DEF Packs
<1> QED BY <1>16 DEF q, e, w

LEMMA StringSliceLeaves ==
  ASSUME NEW v, Packed(v), NEW from \in 0..MaxSize, NEW n \in 0..MaxSize, S!Slice(from, n)
  PROVE  LeavesStrings(v)
<1>1. /\ size = Len(v) /\ Packs(offset, data, v) /\ from \in Nat /\ n \in Nat /\ n <= MaxSize
      /\ from < Len(v) /\ from + n <= Len(v)
  BY PartitionAssumption DEF Packed, Keeps, S!This, S!Slice
<1> DEFINE s == from + 1
           t == from + n + 1
           q == [i \in 1..(n + 1) |-> offset[from + i] - offset[s]]
           e == SubSeq(data, offset[s] + 1, offset[t])
           w == SubSeq(v, from + 1, from + n)
           p == [offset |-> q, data |-> e, size |-> n]
<1>2. S!Becomes(p)
  BY DEF S!Slice
<1>3. call'.op = "Slice" /\ call'.n = n /\ call'.val = from
  BY DEF S!Slice, S!CallWith, S!Call
<1>4. w \in Vec!Results(call', v)
  BY <1>3, VectorResults
<1>5. Packs(q, e, w)
  BY <1>1, PacksPart
<1>6. Len(w) = n
  BY <1>1 DEF Packs
<1>7. DOMAIN q = 1..(n + 1)
  OBVIOUS
<1> HIDE DEF q, e, w
<1>8. Len(q) = n + 1
  <2>1. q \in Seq(Nat)
    BY <1>5 DEF Packs
  <2> QED BY <1>1, <1>7, <2>1
<1>9. Keeps(p, w) /\ Len(p.offset) = p.size + 1
  BY <1>1, <1>5, <1>6, <1>8 DEF Keeps, Packs
<1> HIDE DEF p
<1> QED BY <1>1, <1>2, <1>4, <1>6, <1>9 DEF LeavesStrings

-----------------------------------------------------------------------------
(* The filter of a partition of strings, in place. *)

\* The offsets of the strings kept, and their end.
Closed(q) == [q.offset EXCEPT ![q.size + 1] = q.ptr]

\* After i turns: the strings kept are in front, and the others where they were.
FilteredStrings(o, d, v, keep, i) ==
  {q \in [offset : Seq(Nat), data : Text, size : Nat, ptr : Nat] :
     /\ Len(q.offset) = Len(o) /\ Len(q.data) = Len(d) /\ q.ptr <= o[i + 1]
     /\ \A j \in (i + 1)..Len(o) : q.offset[j] = o[j]
     /\ \A k \in (o[i + 1] + 1)..Len(d) : q.data[k] = d[k]
     /\ \E kept \in Vec!Ascending(Kept(keep, i)) :
          q.size = Len(kept) /\ Packs(Closed(q), q.data, Taken(v, kept))}

LEMMA SetInSeq ==
  ASSUME NEW X, NEW s \in Seq(X), NEW i \in 1..Len(s), NEW x \in X
  PROVE  LET u == [s EXCEPT ![i] = x] IN
         /\ u \in Seq(X) /\ Len(u) = Len(s) /\ u[i] = x
         /\ \A j \in 1..Len(s) : j # i => u[j] = s[j]
OBVIOUS

\* What a turn for str finds: it is where it was, and there is room in front of it.
BeforeTurn(o, d, q, w, str, i, a) ==
  /\ o \in Seq(Nat) /\ d \in Text /\ str \in Text /\ i \in Nat /\ a = i + 1
  /\ q \in [offset : Seq(Nat), data : Text, size : Nat, ptr : Nat]
  /\ Packs(Closed(q), q.data, w) /\ q.size = Len(w)
  /\ Len(q.offset) = Len(o) /\ Len(q.data) = Len(d)
  /\ q.size < i /\ i < Len(o) /\ q.ptr <= o[i]
  /\ q.offset[i] = o[i] /\ q.offset[a] = o[a]
  /\ o[a] = o[i] + Len(str) /\ o[a] <= Len(d) /\ Follows(q.data, o[i], str)

\* And what it leaves.
AfterTurn(o, d, q, r, w, str, a) ==
  /\ r \in [offset : Seq(Nat), data : Text, size : Nat, ptr : Nat]
  /\ r.size = q.size + 1 /\ r.ptr <= o[a]
  /\ Len(r.offset) = Len(o) /\ Len(r.data) = Len(d)
  /\ \A j \in a..Len(o) : r.offset[j] = q.offset[j]
  /\ \A k \in (o[a] + 1)..Len(d) : r.data[k] = q.data[k]
  /\ Packs(Closed(r), r.data, Append(w, str))

LEMMA StringFilterStep ==
  ASSUME NEW o, NEW d, NEW q, NEW w, NEW str, NEW i, NEW a, BeforeTurn(o, d, q, w, str, i, a)
  PROVE  AfterTurn(o, d, q, S!FilterStep(q, i), w, str, a)
<1> DEFINE l == Len(str)
           x == o[i]
           y == o[a]
           t == q.ptr
           m == q.size + 1
           b == q.size + 2
           c == Closed(q)
           e == [k \in DOMAIN q.data |-> IF k \in (t + 1)..(t + l) THEN q.data[k - t + x]
                                                               ELSE q.data[k]]
           r == S!FilterStep(q, i)
<1>1. /\ l \in Nat /\ x \in Nat /\ y \in Nat /\ t \in Nat /\ y = x + l /\ t <= x /\ y <= Len(d)
      /\ Len(d) \in Nat /\ Len(o) \in Nat
  <2>0. o \in Seq(Nat) /\ d \in Text /\ str \in Text /\ i \in Nat /\ q.size \in Nat /\ t \in Nat
    BY DEF BeforeTurn
  <2>3. l \in Nat /\ Len(d) \in Nat /\ Len(o) \in Nat
    BY <2>0, SeqFacts DEF Text
  <2>4. a = i + 1 /\ q.size < i /\ i < Len(o) /\ y = x + l /\ t <= x /\ y <= Len(d)
    BY DEF BeforeTurn
  <2>1. i \in 1..Len(o) /\ a \in 1..Len(o)
    <3> DEFINE z == q.size
    <3>1. z \in Nat /\ z < i
      BY <2>0, <2>4
    <3> HIDE DEF z
    <3> QED BY <2>0, <2>3, <2>4, <3>1
  <2>2. x \in Nat /\ y \in Nat
    BY <2>0, <2>1, SeqFacts
  <2> QED BY <2>2, <2>3, <2>4, <2>0
<1>2. r = [offset |-> c, data |-> e, size |-> m, ptr |-> t + l]
  <2>1. q.offset[i + 1] - q.offset[i] = l
    <3>1. q.offset[a] = y /\ q.offset[i] = x /\ a = i + 1
      BY DEF BeforeTurn
    <3> HIDE DEF x, y, l
    <3>2. y - x = l
      BY <1>1
    <3> QED BY <3>1, <3>2
  <2> DEFINE len == q.offset[i + 1] - q.offset[i]
             g == q.data
  <2>2. r = [offset |-> c,
             data   |-> [k \in DOMAIN g |-> IF k \in (t + 1)..(t + len) THEN g[k - t + q.offset[i]]
                                                                       ELSE g[k]],
             size   |-> m,
             ptr    |-> t + len]
    BY DEF S!FilterStep, Closed
  <2>3. len = l /\ q.offset[i] = x
    BY <2>1 DEF BeforeTurn
  <2>4. e = [k \in DOMAIN g |-> IF k \in (t + 1)..(t + l) THEN g[k - t + x] ELSE g[k]]
    OBVIOUS
  <2> HIDE DEF len, l, x, t, m, c, e, r, g
  <2> QED BY <2>2, <2>3, <2>4
<1>3. /\ c \in Seq(Nat) /\ Len(c) = Len(o) /\ c[m] = t
      /\ \A j \in 1..Len(o) : j # m => c[j] = q.offset[j]
      /\ m \in Nat /\ m \in 1..Len(o) /\ b \in 1..Len(o) /\ b = m + 1 /\ m <= i
  <2> DEFINE f == q.offset
  <2>1. f \in Seq(Nat) /\ Len(f) = Len(o) /\ q.size \in Nat /\ i \in Nat /\ q.size < i /\ i < Len(o)
    BY DEF BeforeTurn
  <2>2. m \in Nat /\ m \in 1..Len(o) /\ b \in 1..Len(o) /\ b = m + 1 /\ m <= i
    <3> DEFINE z == q.size
    <3>1. z \in Nat /\ i \in Nat /\ z < i /\ i < Len(o) /\ Len(o) \in Nat
      BY <1>1, <2>1
    <3> HIDE DEF z
    <3>2. /\ z + 1 \in Nat /\ z + 1 \in 1..Len(o) /\ z + 2 \in 1..Len(o) /\ z + 2 = z + 1 + 1
          /\ z + 1 <= i
      BY <3>1
    <3> QED BY <3>2 DEF z
  <2>3. c = [f EXCEPT ![m] = t]
    BY DEF Closed
  <2> HIDE DEF f, m, t, c
  <2>4. c \in Seq(Nat) /\ Len(c) = Len(o) /\ c[m] = t /\ \A j \in 1..Len(o) : j # m => c[j] = f[j]
    BY <1>1, <2>1, <2>2, <2>3
  <2> QED BY <2>2, <2>4 DEF f
<1>4. /\ e \in Text /\ Len(e) = Len(d)
      /\ \A k \in 1..Len(d) : k \notin (t + 1)..(t + l) => e[k] = q.data[k]
      /\ Follows(e, t, str)
  <2> DEFINE g == q.data
  <2>1. g \in Seq(S!Char) /\ Len(g) = Len(d) /\ DOMAIN g = 1..Len(d)
    BY DEF Text, BeforeTurn
  <2>2. \A k \in (t + 1)..(t + l) : k - t + x \in 1..Len(d)
    <3> HIDE DEF l, x, y, t
    <3> QED BY <1>1
  <2>3. e = [k \in 1..Len(d) |-> IF k \in (t + 1)..(t + l) THEN g[k - t + x] ELSE g[k]]
    BY <2>1
  <2>4. Follows(g, x, str)
    BY DEF BeforeTurn
  <2> HIDE DEF g, e, t, l, x, y
  <2>5. \A k \in 1..Len(d) : g[k] \in S!Char
    BY <2>1
  <2>6. e \in [1..Len(d) -> S!Char]
    <3>1. \A k \in 1..Len(d) : k \in (t + 1)..(t + l) => g[k - t + x] \in S!Char
      BY <2>2, <2>5
    <3> QED BY <2>3, <2>5, <3>1
  <2>7. e \in Seq(S!Char) /\ Len(e) = Len(d)
    BY <1>1, <2>6, IsSeq
  <2>8. \A k \in 1..Len(d) : k \notin (t + 1)..(t + l) => e[k] = g[k]
    BY <2>3
  <2>9. ASSUME NEW k \in 1..l PROVE e[t + k] = str[k]
    <3> DEFINE z == t + k
    <3>1. z \in (t + 1)..(t + l) /\ z \in 1..Len(d) /\ z - t + x = x + k
      BY <1>1
    <3> HIDE DEF z
    <3>2. e[z] = g[z - t + x]
      BY <2>3, <3>1
    <3>3. g[x + k] = str[k]
      BY <2>4 DEF Follows, l
    <3> QED BY <3>1, <3>2, <3>3 DEF z
  <2> QED BY <2>7, <2>8, <2>9 DEF Text, Follows, l, g
<1> DEFINE u == [c EXCEPT ![b] = t + l]
<1>5. Closed(r) = u
  <2> HIDE DEF c, e, t, l, r
  <2>1. r.offset = c /\ r.size + 1 = b /\ r.ptr = t + l
    BY <1>2, <1>3
  <2> QED BY <2>1 DEF Closed
<1>6. /\ u \in Seq(Nat) /\ Len(u) = Len(o) /\ u[b] = t + l /\ Agree(u, c, m)
  <2> DEFINE s == t + l
  <2>1. s \in Nat
    BY <1>1
  <2>4. u = [c EXCEPT ![b] = s]
    OBVIOUS
  <2> HIDE DEF s, c, m, b, u
  <2>2. \A j \in 1..m : j \in 1..Len(o) /\ j # b
    BY <1>1, <1>3
  <2>5. c \in Seq(Nat) /\ Len(c) = Len(o) /\ b \in 1..Len(c)
    BY <1>3
  <2>3. /\ u \in Seq(Nat) /\ Len(u) = Len(o) /\ u[b] = s
        /\ \A j \in 1..Len(o) : j # b => u[j] = c[j]
    BY <2>1, <2>4, <2>5, SetInSeq
  <2> QED BY <2>2, <2>3 DEF Agree, s
<1>7. m = Len(w) + 1 /\ b = Len(w) + 2 /\ m < Len(u)
  <2>1. q.size = Len(w)
    BY DEF BeforeTurn
  <2>2. m < Len(u)
    <3> HIDE DEF m, b, u
    <3> QED BY <1>1, <1>3, <1>6
  <2> QED BY <2>1, <2>2
<1>8. Agree(e, q.data, c[m])
  <2>1. \A k \in 1..t : k \in 1..Len(d) /\ k \notin (t + 1)..(t + l)
    <3> HIDE DEF l, x, y, t
    <3> QED BY <1>1
  <2> HIDE DEF e, c, t, l
  <2>2. Agree(e, q.data, t)
    BY <1>4, <2>1 DEF Agree
  <2> QED BY <1>3, <2>2
<1>9. u[b] <= Len(e) /\ u[b] = c[m] + Len(str) /\ Follows(e, c[m], str) /\ t + l <= y /\ t + l \in Nat
  <2>1. l = Len(str)
    OBVIOUS
  <2> HIDE DEF e, c, t, x, y, l, u, m, b, r
  <2>2. t + l <= y /\ t + l \in Nat /\ t + l <= Len(d)
    BY <1>1
  <2> QED BY <1>3, <1>4, <1>6, <2>1, <2>2
<1>10. Packs(u, e, Append(w, str))
  <2> HIDE DEF e, c, t, l, x, y, u, m, b, r
  <2>1. Packs(c, q.data, w) /\ str \in Text
    BY DEF c, BeforeTurn
  <2> QED BY <1>4, <1>6, <1>7, <1>8, <1>9, <2>1, PacksBack
<1>11. \A j \in a..Len(o) : c[j] = q.offset[j]
  <2>1. \A j \in a..Len(o) : j \in 1..Len(o) /\ j # m
    <3>1. a = i + 1 /\ i \in Nat /\ Len(o) \in Nat /\ m \in Nat /\ m <= i
      BY <1>1, <1>3 DEF BeforeTurn
    <3> HIDE DEF m
    <3> QED BY <3>1
  <2> HIDE DEF c, m
  <2> QED BY <1>3, <2>1
<1>12. \A k \in (y + 1)..Len(d) : e[k] = q.data[k]
  <2>1. \A k \in (y + 1)..Len(d) : k \in 1..Len(d) /\ k \notin (t + 1)..(t + l)
    <3> HIDE DEF l, x, y, t
    <3> QED BY <1>1
  <2> HIDE DEF e, y, t, l
  <2> QED BY <1>4, <2>1
<1> HIDE DEF e, c, t, l, u, m, b, r, x
<1>13. /\ r \in [offset : Seq(Nat), data : Text, size : Nat, ptr : Nat]
       /\ r.offset = c /\ r.data = e /\ r.size = m /\ r.ptr = t + l
  BY <1>2, <1>3, <1>4, <1>9
<1>14. m = q.size + 1 /\ y = o[a]
  BY DEF m
<1> QED BY <1>3, <1>4, <1>5, <1>9, <1>10, <1>11, <1>12, <1>13, <1>14 DEF r, AfterTurn

\* Before the loop nothing is kept.
LEMMA FilterStarts ==
  ASSUME NEW o, NEW d, NEW v, Packs(o, d, v), NEW keep
  PROVE  [offset |-> o, data |-> d, size |-> 0, ptr |-> 0] \in FilteredStrings(o, d, v, keep, 0)
<1> DEFINE q == [offset |-> o, data |-> d, size |-> 0, ptr |-> 0]
           none == <<>>
           m == 1
<1>1. /\ o \in Seq(Nat) /\ d \in Text /\ v \in Seq(Text) /\ Len(v) \in Nat /\ Len(o) \in Nat
      /\ Len(v) < Len(o) /\ o[1] = 0
  BY DEF Packs
<1>2. Closed(q) = o
  <2>1. Closed(q) = [o EXCEPT ![1] = 0]
    BY DEF Closed
  <2> QED BY <1>1, <2>1
<1>3. none \in Vec!Ascending(Kept(keep, 0)) /\ Len(none) = 0 /\ Taken(v, none) = none
  <2>1. Kept(keep, 0) = {}
    BY KeptGrows
  <2>2. none \in Vec!Ascending({}) /\ Len(none) = 0
    BY AscendingEmpty
  <2>3. Taken(v, none) = none
    BY DEF Taken
  <2> QED BY <2>1, <2>2, <2>3
<1>4. Packs(o, d, none)
  <2>1. none \in Seq(Text) /\ Len(none) <= Len(v) /\ Len(none) < Len(o) /\ m = Len(none) + 1
    BY <1>1
  <2>2. Agree(none, v, Len(none)) /\ Agree(o, o, m) /\ Agree(d, d, o[m])
    BY <2>1 DEF Agree
  <2>3. o[m] <= Len(d)
    <3>1. Len(d) \in Nat
      BY <1>1, SeqFacts DEF Text
    <3> QED BY <1>1, <3>1
  <2> HIDE DEF none, m
  <2> QED BY <1>1, <2>1, <2>2, <2>3, PacksFront
<1> HIDE DEF none
<1>5. q.ptr <= o[0 + 1] /\ q \in [offset : Seq(Nat), data : Text, size : Nat, ptr : Nat]
  BY <1>1
<1>6. q.size = Len(none) /\ q.data = d /\ q.offset = o
  BY <1>3
<1> HIDE DEF q
<1>7. q \in FilteredStrings(o, d, v, keep, 0)
  BY <1>2, <1>3, <1>4, <1>5, <1>6 DEF FilteredStrings
<1> QED BY <1>7 DEF q

\* A turn of the loop.
LEMMA FilterTurns ==
  ASSUME NEW o, NEW d, NEW v, Packs(o, d, v), NEW keep, NEW i \in 1..Len(v), NEW m, m = i - 1,
         NEW q \in FilteredStrings(o, d, v, keep, m)
  PROVE  (IF keep[i] THEN S!FilterStep(q, i) ELSE q) \in FilteredStrings(o, d, v, keep, i)
<1> DEFINE a == i + 1
           b == Len(v) + 1
           str == v[i]
<1>1. /\ o \in Seq(Nat) /\ d \in Text /\ v \in Seq(Text) /\ Len(v) \in Nat /\ Len(o) \in Nat
      /\ Len(v) < Len(o)
  BY DEF Packs
<1>2. /\ i \in Nat /\ m \in Nat /\ m + 1 = i /\ m < Len(v) /\ m <= Len(v) /\ i < Len(o) /\ a = i + 1
      /\ i \in (m + 1)..Len(o) /\ a \in (m + 1)..Len(o) /\ m < i
  BY <1>1
<1>3. Placed(o, d, str, i, a, b)
  BY PacksAt
<1> HIDE DEF a, b, str
<1>4. /\ o[i] \in Nat /\ o[a] \in Nat /\ o[a] = o[i] + Len(str) /\ Len(str) \in Nat /\ str \in Text
      /\ Len(d) \in Nat /\ o[b] \in Nat /\ o[a] <= o[b] /\ o[b] <= Len(d)
      /\ \A k \in 1..Len(str) : o[i] + k \in 1..o[b] /\ d[o[i] + k] = str[k]
  BY <1>3 DEF Placed
<1>5. /\ q \in [offset : Seq(Nat), data : Text, size : Nat, ptr : Nat]
      /\ Len(q.offset) = Len(o) /\ Len(q.data) = Len(d) /\ q.ptr <= o[i]
      /\ \A j \in i..Len(o) : q.offset[j] = o[j]
      /\ \A k \in (o[i] + 1)..Len(d) : q.data[k] = d[k]
  BY <1>2 DEF FilteredStrings
<1>6. PICK kept \in Vec!Ascending(Kept(keep, m)) :
        q.size = Len(kept) /\ Packs(Closed(q), q.data, Taken(v, kept))
  BY DEF FilteredStrings
<1>7. /\ Kept(keep, m) \subseteq 1..m
      /\ keep[i] => Kept(keep, i) = Kept(keep, m) \cup {i}
      /\ ~keep[i] => Kept(keep, i) = Kept(keep, m)
  BY <1>2, KeptGrows
<1>8. CASE ~keep[i]
  <2>1. q.ptr <= o[a]
    <3> DEFINE t == q.ptr
               x == o[i]
               y == o[a]
    <3>1. t \in Nat /\ x \in Nat /\ y \in Nat /\ t <= x /\ y = x + Len(str) /\ Len(str) \in Nat
      BY <1>4, <1>5
    <3> HIDE DEF t, x, y
    <3>2. t <= y
      BY <3>1
    <3> QED BY <3>2 DEF t, y
  <2>2. \A j \in a..Len(o) : q.offset[j] = o[j]
    <3>1. \A j \in a..Len(o) : j \in i..Len(o)
      BY <1>1, <1>2
    <3> QED BY <1>5, <3>1
  <2>3. \A k \in (o[a] + 1)..Len(d) : q.data[k] = d[k]
    <3>1. \A k \in (o[a] + 1)..Len(d) : k \in (o[i] + 1)..Len(d)
      BY <1>4
    <3> QED BY <1>5, <3>1
  <2>4. kept \in Vec!Ascending(Kept(keep, i))
    BY <1>7, <1>8
  <2>5. q \in FilteredStrings(o, d, v, keep, i)
    BY <1>5, <1>6, <2>1, <2>2, <2>3, <2>4 DEF FilteredStrings, a
  <2> QED BY <1>8, <2>5
<1>9. CASE keep[i]
  <2> DEFINE w == Taken(v, kept)
             r == S!FilterStep(q, i)
             longer == Append(kept, i)
  <2>1. Len(kept) <= m /\ Len(kept) \in Nat /\ Len(w) = Len(kept) /\ Len(longer) = Len(kept) + 1
    <3>1. kept \in Seq(1..m) /\ Len(kept) <= m /\ DOMAIN kept = 1..Len(kept)
      BY <1>2, <1>7, AscendingSeq
    <3>2. w \in Seq(Text)
      BY <1>1, <1>2, <1>7, TakenSeq
    <3>3. DOMAIN w = 1..Len(kept)
      BY <3>1 DEF Taken
    <3> HIDE DEF w
    <3> QED BY <3>1, <3>2, <3>3
  <2>2. longer \in Vec!Ascending(Kept(keep, i))
    BY <1>2, <1>7, <1>9, AscendingAppend
  <2>3. Taken(v, longer) = Append(w, str)
    BY <1>1, <1>2, <1>7, TakenAppend DEF str
  <2>4. BeforeTurn(o, d, q, w, str, i, a)
    <3>1. q.size = Len(w) /\ q.size < i
      BY <1>2, <1>6, <2>1
    <3>2. q.offset[i] = o[i] /\ q.offset[a] = o[a]
      <4>1. i \in i..Len(o) /\ a \in i..Len(o)
        BY <1>1, <1>2
      <4> QED BY <1>5, <4>1
    <3>3. o[a] <= Len(d)
      BY <1>4
    <3>4. Follows(q.data, o[i], str)
      <4> SUFFICES ASSUME NEW k \in 1..Len(str) PROVE q.data[o[i] + k] = str[k]
        BY DEF Follows
      <4> DEFINE z == o[i] + k
      <4>1. d[z] = str[k] /\ z \in 1..o[b]
        BY <1>4
      <4>2. z \in (o[i] + 1)..Len(d)
        BY <1>4, <4>1
      <4> HIDE DEF z
      <4>3. q.data[z] = d[z]
        BY <1>5, <4>2
      <4> QED BY <4>1, <4>3 DEF z
    <3> HIDE DEF w
    <3> QED BY <1>1, <1>2, <1>4, <1>5, <1>6, <3>1, <3>2, <3>3, <3>4 DEF BeforeTurn, w
  <2>5. AfterTurn(o, d, q, r, w, str, a)
    BY <2>4, StringFilterStep
  <2> HIDE DEF w, r, longer
  <2>6. /\ r \in [offset : Seq(Nat), data : Text, size : Nat, ptr : Nat]
        /\ r.size = q.size + 1 /\ r.ptr <= o[a]
        /\ Len(r.offset) = Len(o) /\ Len(r.data) = Len(d)
        /\ \A j \in a..Len(o) : r.offset[j] = q.offset[j]
        /\ \A k \in (o[a] + 1)..Len(d) : r.data[k] = q.data[k]
        /\ Packs(Closed(r), r.data, Append(w, str))
    BY <2>5 DEF AfterTurn
  <2>7. \A j \in a..Len(o) : r.offset[j] = o[j]
    <3>1. \A j \in a..Len(o) : j \in i..Len(o)
      BY <1>1, <1>2
    <3> QED BY <1>5, <2>6, <3>1
  <2>8. \A k \in (o[a] + 1)..Len(d) : r.data[k] = d[k]
    <3>1. \A k \in (o[a] + 1)..Len(d) : k \in (o[i] + 1)..Len(d)
      BY <1>4
    <3> QED BY <1>5, <2>6, <3>1
  <2>9. r.size = Len(longer) /\ Packs(Closed(r), r.data, Taken(v, longer))
    BY <1>6, <2>1, <2>3, <2>6
  <2>10. r \in FilteredStrings(o, d, v, keep, i)
    BY <2>2, <2>6, <2>7, <2>8, <2>9 DEF FilteredStrings, a
  <2> QED BY <1>9, <2>10 DEF r
<1> QED BY <1>8, <1>9

LEMMA StringFilterLeaves ==
  ASSUME NEW v, Packed(v), NEW keep \in [1..size -> BOOLEAN], S!ApplyFilter(keep)
  PROVE  LeavesStrings(v)
<1> DEFINE start == [offset |-> offset, data |-> data, size |-> 0, ptr |-> 0]
           T == [i \in 0..size |-> FilteredStrings(offset, data, v, keep, i)]
           turn == [i \in 1..size |-> [q \in T[i - 1] |->
                                         IF keep[i] THEN S!FilterStep(q, i) ELSE q]]
<1>1. /\ size = Len(v) /\ size \in Nat /\ size <= MaxSize /\ Packs(offset, data, v)
      /\ v \in Seq(Text)
  BY DEF Packed, Keeps, Packs, S!This
<1>2. start \in T[0]
  BY <1>1, FilterStarts
<1>3. ASSUME NEW i \in 1..size, NEW q \in T[i - 1]
      PROVE  (IF keep[i] THEN S!FilterStep(q, i) ELSE q) \in T[i]
  <2> DEFINE m == i - 1
  <2>1. i \in 1..Len(v) /\ m = i - 1 /\ q \in FilteredStrings(offset, data, v, keep, m)
    BY <1>1
  <2> HIDE DEF m
  <2>2. (IF keep[i] THEN S!FilterStep(q, i) ELSE q) \in FilteredStrings(offset, data, v, keep, i)
    BY <1>1, <2>1, FilterTurns
  <2> QED BY <1>1, <2>2
<1>4. \A i \in 1..size : \A q \in T[i - 1] :
        turn[i][q] = IF keep[i] THEN S!FilterStep(q, i) ELSE q
  <2> HIDE DEF T
  <2> QED OBVIOUS
<1>5. \A i \in 1..size : \A q \in T[i - 1] : turn[i][q] \in T[i]
  <2> HIDE DEF T, turn
  <2> QED BY <1>3, <1>4
<1>6. \A i \in 1..size : i - 1 \in 0..size
  BY <1>1
<1> HIDE DEF T, turn, start
<1>7. PICK g : Runs(g, size, start, turn) /\ \A i \in 0..size : g[i] \in T[i]
  BY <1>1, <1>2, <1>5, LoopRuns
<1>8. g = [i \in 0..size |-> IF i = 0 THEN start
                             ELSE IF keep[i] THEN S!FilterStep(g[i - 1], i) ELSE g[i - 1]]
  <2>1. \A i \in 1..size : g[i] = IF keep[i] THEN S!FilterStep(g[i - 1], i) ELSE g[i - 1]
    BY <1>4, <1>6, <1>7 DEF Runs
  <2>2. \A i \in 0..size : i = 0 \/ i \in 1..size
    BY <1>1
  <2>3. \A i \in 0..size :
          g[i] = IF i = 0 THEN start
                 ELSE IF keep[i] THEN S!FilterStep(g[i - 1], i) ELSE g[i - 1]
    BY <1>7, <2>1, <2>2 DEF Runs
  <2> QED BY <1>7, <2>3 DEF Runs
<1>9. PICK f : /\ f = [i \in 0..size |->
                         IF i = 0 THEN start
                         ELSE IF keep[i] THEN S!FilterStep(f[i - 1], i) ELSE f[i - 1]]
               /\ S!Becomes([f[size] EXCEPT
                    !.offset = SubSeq([@ EXCEPT ![f[size].size + 1] = f[size].ptr],
                                      1, f[size].size + 1)])
  BY <1>8 DEF S!ApplyFilter, start
<1>10. f[size] \in T[size]
  <2>1. f[0] \in T[0]
    BY <1>1, <1>2, <1>9
  <2>2. ASSUME NEW i \in 1..size, f[i - 1] \in T[i - 1] PROVE f[i] \in T[i]
    <3>1. f[i] = IF keep[i] THEN S!FilterStep(f[i - 1], i) ELSE f[i - 1]
      BY <1>1, <1>9
    <3> QED BY <1>3, <2>2, <3>1
  <2> QED BY <1>1, <2>1, <2>2, LoopKeeps
<1> DEFINE q == f[size]
<1>11. q \in FilteredStrings(offset, data, v, keep, size)
  BY <1>1, <1>10 DEF T
<1>12. PICK kept \in Vec!Ascending(Kept(keep, size)) :
         q.size = Len(kept) /\ Packs(Closed(q), q.data, Taken(v, kept))
  BY <1>11 DEF FilteredStrings
<1> DEFINE w == Taken(v, kept)
           n == q.size
           m == q.size + 1
           c == Closed(q)
           o == SubSeq(c, 1, m)
           p == [offset |-> o, data |-> q.data, size |-> n]
<1>13. S!Becomes(p)
  <2> HIDE DEF q
  <2>1. q \in [offset : Seq(Nat), data : Text, size : Nat, ptr : Nat]
    BY <1>11 DEF FilteredStrings
  <2>2. S!Becomes([q EXCEPT !.offset = SubSeq([@ EXCEPT ![q.size + 1] = q.ptr], 1, q.size + 1)])
    BY <1>9 DEF q
  <2> QED BY <2>1, <2>2 DEF S!Becomes, Closed
<1>14. call'.op = "ApplyFilter" /\ call'.new = keep
  BY StringCallFields DEF S!ApplyFilter
<1>15. {i \in DOMAIN v : call'.new[i]} = Kept(keep, size)
  <2>1. DOMAIN v = 1..size
    BY <1>1
  <2> QED BY <1>14, <2>1 DEF Kept
<1>16. w \in Vec!Results(call', v)
  BY <1>14, <1>15, VectorResults
<1>17. w \in Seq(Text) /\ Len(w) = n /\ n \in Nat /\ n <= size
  <2>1. Kept(keep, size) \subseteq 1..size
    BY <1>1, KeptGrows
  <2>2. kept \in Seq(1..size) /\ Len(kept) <= size /\ Len(kept) \in Nat /\ DOMAIN kept = 1..Len(kept)
    BY <1>1, <2>1, AscendingSeq
  <2>3. w \in Seq(Text)
    BY <1>1, <1>12 DEF Packs
  <2>4. DOMAIN w = 1..Len(kept)
    BY <2>2 DEF Taken
  <2> HIDE DEF w, q
  <2> QED BY <1>12, <2>2, <2>3, <2>4
<1>18. Packs(c, q.data, w)
  BY <1>12
<1> HIDE DEF q, w, c
<1>19. /\ c \in Seq(Nat) /\ n < Len(c) /\ Len(c) \in Nat /\ q.data \in Text /\ m \in Nat /\ m = n + 1
       /\ m \in 1..(Len(w) + 1) /\ m = Len(w) + 1
  <2>1. c \in Seq(Nat) /\ Len(w) < Len(c) /\ q.data \in Text
    BY <1>18 DEF Packs
  <2> QED BY <1>17, <2>1
<1>20. o \in Seq(Nat) /\ Len(o) = m /\ Agree(o, c, m)
  <2> HIDE DEF n, m
  <2>1. m <= Len(c)
    BY <1>17, <1>19
  <2> QED BY <1>19, <2>1 DEF Agree
<1>21. c[m] <= Len(q.data)
  BY <1>18, <1>19, PacksEnd
<1> HIDE DEF n, m, o
<1>22. Packs(o, q.data, w)
  <2>1. Agree(w, w, Len(w)) /\ Agree(q.data, q.data, c[m])
    BY DEF Agree
  <2>2. Len(w) <= Len(w) /\ Len(w) < Len(o)
    BY <1>17, <1>19, <1>20
  <2> QED BY <1>17, <1>18, <1>19, <1>20, <1>21, <2>1, <2>2, PacksFront
<1>23. Keeps(p, w) /\ Len(p.offset) = p.size + 1
  BY <1>17, <1>19, <1>20, <1>22 DEF Keeps
<1>24. Len(w) <= MaxSize
  BY <1>1, <1>17, PartitionAssumption
<1> HIDE DEF p
<1> QED BY <1>13, <1>16, <1>23, <1>24 DEF LeavesStrings

-----------------------------------------------------------------------------
(* Every call of a partition of strings. *)

LEMMA StringNextLeaves ==
  ASSUME ~AppendsToShrunk, strings, NEW v, Packed(v), S!Next
  PROVE  LeavesStrings(v)
<1>1. CASE \E new \in S!Array : S!Assign(new) \/ S!AppendPartition(new)
  BY <1>1, StringAssignLeaves, StringAppendLeaves
<1>2. CASE S!Clear \/ S!ShrinkToFit \/ S!PopBack
  BY <1>2, StringClearLeaves, StringShrinkLeaves, StringPopBackLeaves
<1>3. CASE \/ \E n \in 0..MaxSize : S!Resize(n)
           \/ \E n \in 0..MaxSize, x \in String : S!ResizeVal(n, x)
  BY <1>3, StringResizeLeaves
<1>4. CASE \E str \in String : S!PushBack(str)
  BY <1>4, StringPushBackLeaves
<1>5. CASE \E permutation \in S!Bijection(1..size, 1..size) : S!ApplyPermutation(permutation)
  <2>1. \A permutation \in S!Bijection(1..size, 1..size) : permutation \in [1..size -> 1..size]
    BY DEF S!Bijection, S!Injection, S!Surjection
  <2> QED BY <1>5, <2>1, StringPermutationLeaves
<1>6. CASE \E keep \in [1..size -> BOOLEAN] : S!ApplyFilter(keep)
  BY <1>6, StringFilterLeaves
<1>7. CASE \E from, n \in 0..MaxSize : S!Slice(from, n)
  BY <1>7, StringSliceLeaves
<1> QED BY <1>1, <1>2, <1>3, <1>4, <1>5, <1>6, <1>7 DEF S!Next

LEMMA StringsAreElements ==
  ASSUME NEW v, Keeps(S!This, v)
  PROVE  S!Elements = v
<1>1. Packs(offset, data, v) /\ size = Len(v)
  BY DEF Keeps, S!This
<1> QED BY <1>1, PackedElements DEF S!Elements, S!At, Found

LEMMA LeavesStringsThat ==
  ASSUME NEW v, LeavesStrings(v)
  PROVE  Packed(S!Elements)' /\ S!Elements' \in Vec!Results(call', v)
<1>1. PICK p, w :
        /\ S!Becomes(p) /\ Keeps(p, w) /\ w \in Vec!Results(call', v) /\ Len(w) <= MaxSize
        /\ Len(p.offset) = p.size + 1 \/ call'.op \in {"resize", "resize_val"}
  BY DEF LeavesStrings
<1>2. offset' = p.offset /\ data' = p.data /\ size' = p.size
  BY <1>1 DEF S!Becomes
<1>3. S!This' = p
  BY <1>1, <1>2 DEF S!This, Keeps
<1>4. Packs(offset', data', w) /\ size' = Len(w)
  BY <1>1, <1>2 DEF Keeps
<1>5. S!Elements' = w
  BY <1>4, PackedElements DEF S!Elements, S!At, Found
<1>6. Packed(S!Elements)'
  BY <1>1, <1>2, <1>3, <1>5 DEF Packed, Keeps
<1> QED BY <1>1, <1>5, <1>6

-----------------------------------------------------------------------------
(* Partitions. *)

\* What every call keeps: the fields are those of a partition of the elements.
Inv == IF strings THEN Packed(S!Elements) ELSE Holds(This, Elements)

LEMMA InvInit ==
  ASSUME PInit
  PROVE  Inv /\ Vec!Init
<1>1. CASE strings = FALSE /\ Init
  <2>1. This = Empty /\ Elements = <<>>
    BY <1>1 DEF Init, This, Empty, Elements
  <2>2. call.op = "construct"
    BY <1>1, CallFields DEF Init
  <2> QED BY <1>1, <2>1, <2>2, EmptyHolds DEF Inv, Vec!Init
<1>2. CASE strings = TRUE /\ S!Init
  <2>1. S!This = S!Empty /\ Len(offset) = size + 1 /\ S!Elements = <<>>
    BY <1>2 DEF S!Init, S!This, S!Empty, S!Elements
  <2>2. Packed(S!Elements)
    <3>1. Len(<<>>) <= MaxSize
      BY PartitionAssumption
    <3> QED BY <2>1, <3>1, EmptyTight DEF Packed, Tight
  <2>3. call.op = "construct"
    BY <1>2, StringCallFields DEF S!Init
  <2> QED BY <1>2, <2>1, <2>2, <2>3 DEF Inv, Vec!Init
<1> QED BY <1>1, <1>2 DEF PInit

\* The step of Vector that a step is.
VectorStep == [Vec!Next]_<<IF strings THEN S!Elements ELSE Elements, call, Filler>>

LEMMA InvStep ==
  ASSUME ~AppendsToShrunk, Inv, [PNext]_partitionVars
  PROVE  Inv' /\ VectorStep
<1>1. CASE ~strings /\ Next /\ UNCHANGED <<stringVars, strings>>
  <2>1. Holds(This, Elements) /\ strings' = strings
    BY <1>1 DEF Inv
  <2>2. Leaves(Elements)
    BY <1>1, <2>1, NextLeaves
  <2>3. /\ Holds(This, Elements)' /\ Elements' \in Vec!Results(call', Elements)
        /\ UNCHANGED fundamental
    BY <2>2, LeavesThat
  <2>4. Inv'
    BY <1>1, <2>1, <2>3 DEF Inv
  <2>5. UNCHANGED Filler
    BY <1>1, <2>1, <2>3 DEF Filler
  <2>6. Vec!Next
    BY <1>1, <2>1, <2>3, <2>5 DEF Vec!Next
  <2> QED BY <2>4, <2>6 DEF VectorStep
<1>2. CASE strings /\ S!Next /\ UNCHANGED <<fundamental, cells, capacity, strings>>
  <2>1. Packed(S!Elements) /\ strings' = strings
    BY <1>2 DEF Inv
  <2>2. LeavesStrings(S!Elements)
    BY <1>2, <2>1, StringNextLeaves
  <2>3. Packed(S!Elements)' /\ S!Elements' \in Vec!Results(call', S!Elements)
    BY <2>2, LeavesStringsThat
  <2>4. Inv'
    BY <1>2, <2>1, <2>3 DEF Inv
  <2>5. UNCHANGED Filler
    BY <1>2, <2>1 DEF Filler
  <2>6. Vec!Next
    BY <1>2, <2>1, <2>3, <2>5 DEF Vec!Next
  <2> QED BY <2>4, <2>6 DEF VectorStep
<1>3. CASE UNCHANGED partitionVars
  <2>1. /\ UNCHANGED <<fundamental, cells, size, capacity, call>> /\ UNCHANGED <<offset, data>>
        /\ UNCHANGED strings
    BY <1>3 DEF partitionVars, vars, stringVars
  <2>2. UNCHANGED <<This, Elements, S!This, S!Elements, Filler>>
    BY <2>1 DEF This, Elements, S!This, S!Elements, S!At, Filler
  <2>3. Inv'
    BY <2>1, <2>2 DEF Inv, Packed, Holds, Has, Buffer
  <2>4. UNCHANGED <<IF strings THEN S!Elements ELSE Elements, call, Filler>>
    BY <2>1, <2>2
  <2> QED BY <2>3, <2>4 DEF VectorStep
<1> QED BY <1>1, <1>2, <1>3 DEF PNext

LEMMA InvInside ==
  ASSUME Inv
  PROVE  ElementsInside
<1>1. CASE ~strings
  <2>1. Holds(This, Elements)
    BY <1>1 DEF Inv
  <2>2. /\ cells \in Seq(Value \cup {Unset}) /\ size \in Nat /\ capacity \in Nat
        /\ size <= capacity /\ capacity <= Len(cells)
        /\ Elements \in Seq(Value) /\ size = Len(Elements)
        /\ \A i \in 1..size : cells[i] = Elements[i]
    BY <2>1 DEF Holds, Has, Buffer, This
  <2>3. cells \in [1..Len(cells) -> Value \cup {Unset}]
    BY <2>2
  <2>4. \A i \in 1..size : cells[i] \in Value
    BY <2>2, SeqFacts
  <2>5. TypeOK
    BY <2>2, <2>3, <2>4 DEF TypeOK
  <2> QED BY <1>1, <2>5 DEF ElementsInside
<1>2. CASE strings
  <2>1. Packed(S!Elements)
    BY <1>2 DEF Inv
  <2> DEFINE v == S!Elements
             m == Len(v) + 1
  <2>2. Packs(offset, data, v) /\ size = Len(v) /\ Len(v) <= MaxSize
    BY <2>1 DEF Packed, Keeps, S!This
  <2> HIDE DEF v
  <2>3. /\ offset \in Seq(Nat) /\ data \in Text /\ Len(v) \in Nat /\ Len(v) < Len(offset)
        /\ offset[1] = 0 /\ offset[m] <= Len(data) /\ Len(offset) \in Nat
    BY <2>2 DEF Packs
  <2>4. ASSUME NEW i \in 1..size PROVE offset[i] <= offset[i + 1]
    <3> DEFINE a == i + 1
    <3>1. \A x, y \in 1..m : x <= y => offset[x] <= offset[y]
      BY <2>2 DEF Packs
    <3>2. i \in 1..m /\ a \in 1..m /\ i <= a
      BY <2>2, <2>3
    <3> QED BY <3>1, <3>2
  <2>5. S!TypeOK
    BY <2>2, <2>3, <2>4, PartitionAssumption DEF S!TypeOK, Text
  <2> QED BY <1>2, <2>5 DEF ElementsInside
<1> QED BY <1>1, <1>2

(***************************************************************************)
(* ElementsInside for any values and strings: no call leads out of the     *)
(* memory the partition has, if nothing is appended to a partition of      *)
(* strings that resize has made smaller.                                   *)
(***************************************************************************)
THEOREM PartitionStaysInside ==
  ASSUME ~AppendsToShrunk
  PROVE  PSpec => []ElementsInside
<1>1. PInit => Inv
  BY InvInit
<1>2. Inv /\ [PNext]_partitionVars => Inv'
  BY InvStep
<1>3. Inv => ElementsInside
  BY InvInside
<1> QED BY <1>1, <1>2, <1>3, PTL DEF PSpec

(***************************************************************************)
(* VectorSpec for any values and strings, under the same rule: every call  *)
(* of a partition leaves the elements it leaves of a vector.               *)
(***************************************************************************)
THEOREM PartitionIsVector ==
  ASSUME ~AppendsToShrunk
  PROVE  PSpec => VectorSpec
<1>1. PInit => Inv /\ Vec!Init
  BY InvInit
<1>2. Inv /\ [PNext]_partitionVars =>
        Inv' /\ [Vec!Next]_<<IF strings THEN S!Elements ELSE Elements, call, Filler>>
  BY InvStep DEF VectorStep
<1> QED BY <1>1, <1>2, PTL DEF PSpec, VectorSpec, Vec!Spec
=============================================================================
