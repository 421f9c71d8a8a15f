--------------------------- MODULE MCShuffleReduce ---------------------------
(* An instance of ShuffleReduce for the model checker. *)
EXTENDS ShuffleReduce

\* Three of the four keys share a partition, so that a reducer has a group to
\* move over the remains of another one; hashes wrap around.
MCHash == [k \in Key |-> <<2, 4, 6, 3>>[k]]
=============================================================================
