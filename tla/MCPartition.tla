----------------------------- MODULE MCPartition -----------------------------
(* Instances of Partition: strings of three lengths. *)
EXTENDS Partition

MCStrings == {<<>>, <<"a">>, <<"b", "c">>}
=============================================================================
