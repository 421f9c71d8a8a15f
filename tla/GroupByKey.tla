----------------------------- MODULE GroupByKey -----------------------------
(***************************************************************************)
(* What a driver expects of PartitionBy, RangeReduceBy and ReduceBy: every *)
(* partition of the result appears at once and for good, and holds the     *)
(* records of the keys it owns, as they were or merged into one per key.   *)
(***************************************************************************)
EXTENDS Naturals, Bags

CONSTANTS Key, Dest,
          Owner(_)  \* the partition that owns a key

VARIABLES merging,  \* are the records of one key merged?
          records,  \* the bag of all records of the dataset
          parts     \* the partitions made so far, each a bag of records

Init == parts = [d \in {} |-> EmptyBag]

\* The values of all the records with key k, merged; they have no id in common.
Merged(k) ==
  [key |-> k,
   val |-> SetToBag(UNION {BagToSet(r.val) : r \in {r \in DOMAIN records : r.key = k}})]

Content(d) ==
  IF merging
    THEN SetToBag({Merged(k) : k \in {k \in Key : /\ Owner(k) = d
                                                  /\ \E r \in DOMAIN records : r.key = k}})
    ELSE [r \in {r \in DOMAIN records : Owner(r.key) = d} |-> records[r]]

Fill(d) ==
  /\ d \notin DOMAIN parts
  /\ parts' = [e \in DOMAIN parts \cup {d} |-> IF e = d THEN Content(d) ELSE parts[e]]
  /\ UNCHANGED <<merging, records>>

Next == \E d \in Dest : Fill(d)

Spec == Init /\ [][Next]_<<merging, records, parts>>
=============================================================================
