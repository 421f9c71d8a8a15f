--------------------------- MODULE DatasetPartition ---------------------------
(***************************************************************************)
(* The array a partition of a dataset is kept in, dataset_partition.h: a   *)
(* buffer, the number of elements in use and the capacity.  No nulls, and  *)
(* one handle: whoever takes a slice drops what it was taken from.         *)
(*                                                                         *)
(* Of the types of elements it matters whether they are fundamental: new   *)
(* leaves the cells of such a buffer unset, and resize sets those it adds. *)
(***************************************************************************)
EXTENDS SequencesExt

CONSTANTS Value,        \* the values of an element
          Zero,         \* Val(), one of them
          Unset,        \* what is in a cell that nobody has written, no value
          MaxSize       \* bound on the size and on the arguments

ASSUME PartitionAssumption ==
  /\ Zero \in Value /\ Unset \notin Value
  /\ MaxSize \in Nat

VARIABLES fundamental,  \* is_fundamental<Val>
          cells,        \* the buffer ptr_ points to
          size,         \* size_
          capacity,     \* capacity_
          call          \* the last call and its arguments

vars == <<fundamental, cells, size, capacity, call>>

Array == BoundedSeq(Value, MaxSize)
Elements == [i \in 1..size |-> cells[i]]

Call(op) == [op |-> op, n |-> 0, val |-> Zero, new |-> <<>>]
CallAt(op, n, v) == [Call(op) EXCEPT !.n = n, !.val = v]
CallWith(op, n, s) == [Call(op) EXCEPT !.n = n, !.new = s]

-----------------------------------------------------------------------------
\* The fields as a record, for the functions that are called by several others.
This == [cells |-> cells, size |-> size, capacity |-> capacity]
Becomes(p) ==
  /\ cells' = p.cells /\ size' = p.size /\ capacity' = p.capacity
  /\ UNCHANGED fundamental

\* new Val[n], and the elements moved to its front.
GetNewBuffer(n, elements) ==
  [cells    |-> [i \in 1..n |-> IF i <= Len(elements) THEN elements[i]
                                ELSE IF fundamental THEN Unset ELSE Zero],
   size     |-> n,
   capacity |-> n]

Used(p) == [i \in 1..p.size |-> p.cells[i]]

ResizeInner(p, n) ==
  IF p.capacity >= n THEN [p EXCEPT !.size = n]
                     ELSE [GetNewBuffer(n + 5, Used(p)) EXCEPT !.size = n]

Reserve(p, n) ==
  IF p.capacity >= n THEN p ELSE [ResizeInner(p, n) EXCEPT !.size = p.size]

\* ResizeInner with the growth that resize asks for.
Grown(p, n) ==
  IF n > p.capacity
    THEN [ResizeInner(p, IF n > p.size * 2 THEN n ELSE p.size * 2) EXCEPT !.size = n]
    ELSE ResizeInner(p, n)

SetValues(p, from, length, v) ==
  [p EXCEPT !.cells = [i \in DOMAIN p.cells |->
                         IF i \in (from + 1)..(from + length) THEN v ELSE p.cells[i]]]

\* resize(n, v).
ResizedWith(p, n, v) ==
  IF n <= p.size THEN [p EXCEPT !.size = n]
                 ELSE SetValues(Grown(p, n), p.size, n - p.size, v)

\* Mutant of Resized: what is appended is not set.
ResizedUnset(p, n) ==
  IF n <= p.size THEN [p EXCEPT !.size = n] ELSE Grown(p, n)

\* resize(n): SetValues(index, length) does nothing unless Val is fundamental.
Resized(p, n) ==
  IF n <= p.size THEN [p EXCEPT !.size = n]
  ELSE IF fundamental THEN SetValues(Grown(p, n), p.size, n - p.size, Zero)
                      ELSE Grown(p, n)

\* Mutant of MoveInternal: the loop leaves out the element at pos.
MoveInternalShort(p, pos, distance) ==
  LET room == Resized(IF p.size + distance > p.capacity
                        THEN Reserve(p, (p.size + distance) * 2 + 5) ELSE p, p.size + distance)
  IN [room EXCEPT !.cells =
        [i \in DOMAIN @ |-> IF i \in (pos + distance + 2)..room.size
                              THEN @[i - distance] ELSE @[i]]]

\* MoveInternal: room for distance elements at pos, what follows is moved up.
MoveInternal(p, pos, distance) ==
  LET room == Resized(IF p.size + distance > p.capacity
                        THEN Reserve(p, (p.size + distance) * 2 + 5) ELSE p, p.size + distance)
  IN [room EXCEPT !.cells =
        [i \in DOMAIN @ |-> IF i \in (pos + distance + 1)..room.size
                              THEN @[i - distance] ELSE @[i]]]

Overwritten(p, pos, new) ==
  [p EXCEPT !.cells = [i \in DOMAIN p.cells |->
                         IF i \in (pos + 1)..(pos + Len(new)) THEN new[i - pos] ELSE p.cells[i]]]

\* push_back.
Pushed(p, v) ==
  LET room == IF p.size = p.capacity THEN Reserve(p, p.size * 2 + 5) ELSE p
  IN [Overwritten(room, p.size, <<v>>) EXCEPT !.size = p.size + 1]

\* One turn of the loop of ApplyFilter: p.size is cur.
MovedDown(p, i) ==
  [p EXCEPT !.cells = [p.cells EXCEPT ![p.size + 1] = p.cells[i]], !.size = p.size + 1]

Empty == [cells |-> <<>>, size |-> 0, capacity |-> 0]

-----------------------------------------------------------------------------
\* operator=(vec) and the constructors from a vector; CopyFrom.
Assign(new) ==
  /\ Becomes(GetNewBuffer(Len(new), new))
  /\ call' = CallWith("assign", 0, new)

Clear ==
  /\ Becomes(Empty)
  /\ call' = Call("clear")

ResizeVal(n, v) ==
  /\ Becomes(ResizedWith(This, n, v))
  /\ call' = CallAt("resize_val", n, v)

Resize(n) ==
  /\ Becomes(Resized(This, n))
  /\ call' = CallAt("resize", n, Zero)

ReserveCall(n) ==
  /\ Becomes(Reserve(This, n))
  /\ call' = CallAt("reserve", n, Zero)

ShrinkToFit ==
  /\ Becomes(IF capacity = size THEN This ELSE GetNewBuffer(size, Elements))
  /\ call' = Call("shrink_to_fit")

PushBack(v) ==
  /\ size < MaxSize
  /\ Becomes(Pushed(This, v))
  /\ call' = CallAt("push_back", 0, v)

PopBack ==
  /\ size' = (IF size > 0 THEN size - 1 ELSE size)
  /\ call' = Call("pop_back")
  /\ UNCHANGED <<cells, capacity, fundamental>>

Insert(pos, new) ==
  /\ pos <= size /\ size + Len(new) <= MaxSize
  /\ Becomes(Overwritten(MoveInternal(This, pos, Len(new)), pos, new))
  /\ call' = CallWith("insert", pos, new)

\* A caller writes through at(), operator[] or an iterator.
SetAt(i, v) ==
  /\ i \in 1..size
  /\ cells' = [cells EXCEPT ![i] = v]
  /\ call' = CallAt("at", i, v)
  /\ UNCHANGED <<size, capacity, fundamental>>

\* The new buffer has room for capacity_ + 5 elements; capacity_ stays.
ApplyPermutation(permutation) ==
  /\ cells' = Overwritten(Reserve(Empty, capacity), 0,
                           [i \in 1..size |-> cells[permutation[i]]]).cells
  /\ call' = CallWith("ApplyPermutation", 0, permutation)
  /\ UNCHANGED <<size, capacity, fundamental>>

\* The elements kept are moved to the front, and what follows is cut off.
ApplyFilter(keep) ==
  LET after[i \in 0..size] ==
        IF i = 0 THEN [This EXCEPT !.size = 0]
        ELSE IF keep[i] THEN MovedDown(after[i - 1], i) ELSE after[i - 1]
  IN /\ Becomes(after[size])
     /\ call' = CallWith("ApplyFilter", 0, keep)

\* Filter copies what ApplyFilter would keep.
Filter(keep) ==
  LET after[i \in 0..size] ==
        IF i = 0 THEN Reserve(Empty, Cardinality({j \in 1..size : keep[j]}))
        ELSE IF keep[i] THEN Pushed(after[i - 1], cells[i]) ELSE after[i - 1]
  IN /\ Becomes(after[size])
     /\ call' = CallWith("ApplyFilter", 0, keep)

\* The caller goes on with Slice(from, n), which points into the same buffer.
Slice(from, n) ==
  /\ from + n <= size
  /\ Becomes([cells |-> SubSeq(cells, from + 1, from + n), size |-> n, capacity |-> n])
  /\ call' = [CallAt("Slice", n, Zero) EXCEPT !.val = from]

\* resize, and the elements of the other partition copied behind.
AppendPartition(rhs) ==
  /\ size + Len(rhs) <= MaxSize
  /\ Becomes(Overwritten(Resized(This, size + Len(rhs)), size, rhs))
  /\ call' = CallWith("AppendPartition", 0, rhs)

Init ==
  /\ fundamental \in BOOLEAN
  /\ cells = <<>> /\ size = 0 /\ capacity = 0
  /\ call = Call("construct")

Next ==
  \/ \E new \in Array : Assign(new) \/ AppendPartition(new)
  \/ Clear \/ ShrinkToFit \/ PopBack
  \/ \E n \in 0..MaxSize : Resize(n) \/ ReserveCall(n)
  \/ \E n \in 0..MaxSize, v \in Value : ResizeVal(n, v)
  \/ \E v \in Value : PushBack(v)
  \/ \E pos \in 0..MaxSize, new \in Array : Insert(pos, new)
  \/ \E i \in 1..MaxSize, v \in Value : SetAt(i, v)
  \/ \E permutation \in Bijection(1..size, 1..size) : ApplyPermutation(permutation)
  \/ \E keep \in [1..size -> BOOLEAN] : ApplyFilter(keep) \/ Filter(keep)
  \/ \E from, n \in 0..MaxSize : Slice(from, n)

Spec == Init /\ [][Next]_vars

-----------------------------------------------------------------------------
(***************************************************************************)
(* The elements are inside the capacity, the capacity inside the buffer,   *)
(* and every element has been set: none is what new left in its cell.      *)
(***************************************************************************)
TypeOK ==
  /\ size \in 0..capacity
  /\ cells \in [1..Len(cells) -> Value \cup {Unset}] /\ capacity <= Len(cells)
  /\ \A i \in 1..size : cells[i] \in Value
=============================================================================
