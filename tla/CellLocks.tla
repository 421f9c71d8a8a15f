------------------------------ MODULE CellLocks ------------------------------
(***************************************************************************)
(* A readers-writer lock for every object of a store.  A holder takes all  *)
(* the locks it needs in one step, waiting until no holder is in the way,  *)
(* and releases all of them in another.  This is what a worker that locks  *)
(* its partitions would do; no worker does.                                *)
(***************************************************************************)
CONSTANTS Holder, Object

VARIABLES shared, exclusive  \* the pairs <<holder, object>> of either kind

Init == shared = {} /\ exclusive = {}

Of(h) == {h} \X Object

Acquire(h) ==
  /\ (shared \cup exclusive) \cap Of(h) = {}
  /\ shared' \in {shared \cup (shared' \cap Of(h))}
  /\ exclusive' \in {exclusive \cup (exclusive' \cap Of(h))}
  /\ \A l \in exclusive', m \in shared' \cup exclusive' : l[2] = m[2] => l = m

Release(h) ==
  /\ shared' = shared \ Of(h)
  /\ exclusive' = exclusive \ Of(h)

Next == \E h \in Holder : Acquire(h) \/ Release(h)

Spec == Init /\ [][Next]_<<shared, exclusive>>
=============================================================================
