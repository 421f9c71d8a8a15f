---------------------------- MODULE StringPartition ----------------------------
(***************************************************************************)
(* A partition of strings, string_partition.h: the characters of all       *)
(* strings behind each other, and the offset of every string in them, with *)
(* the end of the last.  size says how many of the offsets are in use.     *)
(*                                                                         *)
(* Offsets count characters from 0 as in the code; offset[i] of the model  *)
(* is offset_[i - 1].  No nulls.                                           *)
(***************************************************************************)
EXTENDS SequencesExt

CONSTANTS String,           \* the strings callers have, sequences of characters
          MaxSize,          \* bound on the number of strings and on the arguments
          Outside,          \* what is found where no string was written, no character
          AppendsToShrunk   \* does the caller append after a resize to fewer strings?

VARIABLES offset, data, size,
          call              \* the last call and its arguments

vars == <<offset, data, size, call>>

Char == UNION {Range(str) : str \in String}
Array == BoundedSeq(String, MaxSize)

\* operator[] with its bounds taken from two offsets.
At(i) ==
  [k \in 1..(offset[i + 1] - offset[i]) |->
     IF offset[i] + k \in DOMAIN data THEN data[offset[i] + k] ELSE Outside]

Elements == [i \in 1..size |-> At(i)]

\* data_.resize(n).
CutTo(n, chars) == [k \in 1..n |-> IF k \in DOMAIN chars THEN chars[k] ELSE Outside]

Call(op) == [op |-> op, n |-> 0, val |-> <<>>, new |-> <<>>]
CallAt(op, n, v) == [Call(op) EXCEPT !.n = n, !.val = v]
CallWith(op, n, s) == [Call(op) EXCEPT !.n = n, !.new = s]

\* The rule a careful caller keeps to: a smaller resize is followed by a call
\* that brings the offsets back to size + 1 before anything is appended.
MayAppend ==
  AppendsToShrunk \/ call.op \notin {"resize", "resize_val"} \/ Len(offset) = size + 1

-----------------------------------------------------------------------------
This == [offset |-> offset, data |-> data, size |-> size]
Becomes(p) == offset' = p.offset /\ data' = p.data /\ size' = p.size

\* The default constructor, and what clear leaves.
Empty == [offset |-> <<0>>, data |-> <<>>, size |-> 0]

\* Mutant of Pushed: the string is put behind all characters.
PushedAtEnd(p, str) ==
  [offset |-> Append(p.offset, Len(p.data) + Len(str)),
   data   |-> p.data \o str,
   size   |-> p.size + 1]

\* push_back: data_.resize(pre + length) cuts or extends, an empty string leaves it.
Pushed(p, str) ==
  LET pre == p.offset[p.size + 1]
  IN [offset |-> Append(p.offset, pre + Len(str)),
      data   |-> IF str = <<>> THEN p.data ELSE CutTo(pre, p.data) \o str,
      size   |-> p.size + 1]

PushedAll(p, strs) ==
  LET after[i \in 0..Len(strs)] == IF i = 0 THEN p ELSE Pushed(after[i - 1], strs[i])
  IN after[Len(strs)]

\* resize(n, v): AppendInner for what is missing.
Resized(p, n, v) ==
  IF n < p.size THEN [p EXCEPT !.size = n]
                ELSE PushedAll(p, [i \in 1..(n - p.size) |-> v])

PushBack(str) ==
  /\ size < MaxSize /\ MayAppend
  /\ Becomes(Pushed(This, str))
  /\ call' = CallAt("push_back", 0, str)

ResizeVal(n, v) ==
  /\ n > size => MayAppend
  /\ Becomes(Resized(This, n, v))
  /\ call' = CallAt("resize_val", n, v)

Resize(n) ==
  /\ n > size => MayAppend
  /\ Becomes(Resized(This, n, <<>>))
  /\ call' = CallAt("resize", n, <<>>)

Clear == Becomes(Empty) /\ call' = Call("clear")

\* Mutant of PopBack: the offset of the string stays.
PopBackKeepingOffset ==
  /\ size > 0 /\ MayAppend
  /\ Becomes([offset |-> offset, data |-> CutTo(offset[size], data), size |-> size - 1])
  /\ call' = Call("pop_back")

\* Without a test for an empty partition: the caller makes it.
PopBack ==
  /\ size > 0 /\ MayAppend
  /\ Becomes([offset |-> Front(offset), data |-> CutTo(offset[size], data), size |-> size - 1])
  /\ call' = Call("pop_back")

ShrinkToFit ==
  /\ Becomes([This EXCEPT !.offset = SubSeq(offset, 1, size + 1),
                          !.data = CutTo(offset[size + 1], data)])
  /\ call' = Call("shrink_to_fit")

\* The constructor from a vector.
Assign(new) ==
  /\ Becomes(PushedAll(Empty, new))
  /\ call' = CallWith("assign", 0, new)

ApplyPermutation(permutation) ==
  /\ Becomes(PushedAll(Empty, [i \in 1..size |-> At(permutation[i])]))
  /\ call' = CallWith("ApplyPermutation", 0, permutation)

\* One turn of the loop of ApplyFilter, in place: p.size is cur, p.ptr cur_ptr.
FilterStep(p, i) ==
  LET length == p.offset[i + 1] - p.offset[i]
  IN [offset |-> [p.offset EXCEPT ![p.size + 1] = p.ptr],
      data   |-> [k \in DOMAIN p.data |-> IF k \in (p.ptr + 1)..(p.ptr + length)
                                            THEN p.data[k - p.ptr + p.offset[i]] ELSE p.data[k]],
      size   |-> p.size + 1,
      ptr    |-> p.ptr + length]

ApplyFilter(keep) ==
  LET after[i \in 0..size] ==
        IF i = 0 THEN [offset |-> offset, data |-> data, size |-> 0, ptr |-> 0]
        ELSE IF keep[i] THEN FilterStep(after[i - 1], i) ELSE after[i - 1]
      p == after[size]
  IN /\ Becomes([p EXCEPT !.offset = SubSeq([@ EXCEPT ![p.size + 1] = p.ptr], 1, p.size + 1)])
     /\ call' = CallWith("ApplyFilter", 0, keep)

AppendPartition(rhs) ==
  /\ size + Len(rhs) <= MaxSize /\ MayAppend
  /\ Becomes(PushedAll(This, rhs))
  /\ call' = CallWith("AppendPartition", 0, rhs)

\* The caller goes on with Slice(from, n), a copy.
Slice(from, n) ==
  /\ from < size /\ from + n <= size
  /\ Becomes([offset |-> [i \in 1..(n + 1) |-> offset[from + i] - offset[from + 1]],
              data   |-> SubSeq(data, offset[from + 1] + 1, offset[from + n + 1]),
              size   |-> n])
  /\ call' = [CallWith("Slice", n, <<>>) EXCEPT !.val = from]

Init == offset = <<0>> /\ data = <<>> /\ size = 0 /\ call = Call("construct")

Next ==
  \/ \E new \in Array : Assign(new) \/ AppendPartition(new)
  \/ Clear \/ ShrinkToFit \/ PopBack
  \/ \E n \in 0..MaxSize : Resize(n)
  \/ \E n \in 0..MaxSize, v \in String : ResizeVal(n, v)
  \/ \E str \in String : PushBack(str)
  \/ \E permutation \in Bijection(1..size, 1..size) : ApplyPermutation(permutation)
  \/ \E keep \in [1..size -> BOOLEAN] : ApplyFilter(keep)
  \/ \E from, n \in 0..MaxSize : Slice(from, n)

Spec == Init /\ [][Next]_vars

-----------------------------------------------------------------------------
(***************************************************************************)
(* The offsets in use start at 0, do not decrease, and end inside data_:   *)
(* operator[] stays in the array for every index below size.               *)
(***************************************************************************)
TypeOK ==
  /\ size \in 0..MaxSize
  /\ data \in Seq(Char) /\ offset \in Seq(Nat)
  /\ Len(offset) > size /\ offset[1] = 0
  /\ \A i \in 1..size : offset[i] <= offset[i + 1]
  /\ offset[size + 1] <= Len(data)
=============================================================================
