-------------------------------- MODULE Vector --------------------------------
(***************************************************************************)
(* What a partition promises, whatever it keeps: "std::vector like         *)
(* interface".  Every call leaves the elements that the call of that name  *)
(* on a std::vector leaves; storage does not exist here.                   *)
(***************************************************************************)
EXTENDS SequencesExt

VARIABLES vec,         \* the elements
          call,        \* the last call and its arguments
          filler       \* the values resize(n) may append, for this type of elements

\* The elements of a set of numbers in ascending order: the set has one member.
Ascending(S) ==
  {kept \in [1..Cardinality(S) -> S] :
     \A i, j \in 1..Cardinality(S) : i < j => kept[i] < kept[j]}

\* The elements that call c may leave of v.
Results(c, v) ==
  CASE c.op = "assign"           -> {c.new}
    [] c.op = "clear"            -> {<<>>}
    [] c.op = "resize_val"       -> {[i \in 1..c.n |-> IF i <= Len(v) THEN v[i] ELSE c.val]}
    [] c.op = "resize"           -> {[i \in 1..c.n |-> IF i <= Len(v) THEN v[i] ELSE f[i]] :
                                         f \in [1..c.n -> filler]}
    [] c.op = "push_back"        -> {Append(v, c.val)}
    [] c.op = "pop_back"         -> {IF v = <<>> THEN v ELSE Front(v)}
    [] c.op = "insert"           -> {SubSeq(v, 1, c.n) \o c.new \o SubSeq(v, c.n + 1, Len(v))}
    [] c.op = "at"               -> {[v EXCEPT ![c.n] = c.val]}
    [] c.op = "ApplyPermutation" -> {[i \in DOMAIN v |-> v[c.new[i]]]}
    [] c.op = "ApplyFilter"      -> {[i \in DOMAIN kept |-> v[kept[i]]] :
                                         kept \in Ascending({i \in DOMAIN v : c.new[i]})}
    [] c.op = "AppendPartition"  -> {v \o c.new}
    [] c.op = "Slice"            -> {SubSeq(v, c.val + 1, c.val + c.n)}
    [] OTHER                     -> {v}

Init == vec = <<>> /\ call.op = "construct"

Next == vec' \in Results(call', vec) /\ UNCHANGED filler

Spec == Init /\ [][Next]_<<vec, call, filler>>
=============================================================================
