------------------------------- MODULE Partition -------------------------------
(***************************************************************************)
(* Partition, the base class of DatasetPartition and StringPartition: a    *)
(* caller that has a pointer to one does not know which it is, and both    *)
(* are held to the same interface.                                         *)
(***************************************************************************)
EXTENDS DatasetPartition

CONSTANTS String, AppendsToShrunk

\* Strings are sequences of characters.
ASSUME StringAssumption == \A str \in String : str \in Seq(Range(str))

VARIABLES strings,     \* is it a StringPartition?
          offset, data \* of a StringPartition

S == INSTANCE StringPartition WITH Outside <- Unset

stringVars == <<offset, data>>
partitionVars == <<vars, stringVars, strings>>

PInit ==
  \/ strings = FALSE /\ Init /\ offset = <<>> /\ data = <<>>
  \/ strings = TRUE /\ S!Init /\ fundamental = FALSE /\ cells = <<>> /\ capacity = 0

PNext ==
  \/ ~strings /\ Next /\ UNCHANGED <<stringVars, strings>>
  \/ strings /\ S!Next /\ UNCHANGED <<fundamental, cells, capacity, strings>>

PSpec == PInit /\ [][PNext]_partitionVars

-----------------------------------------------------------------------------
(***************************************************************************)
(* Every element lies inside the memory the partition has, and has been    *)
(* written: the buffer and its capacity, or the offsets and characters.    *)
(***************************************************************************)
ElementsInside == IF strings THEN S!TypeOK ELSE TypeOK

(***************************************************************************)
(* A partition is the vector its comments say it is: whatever was called   *)
(* before, every call leaves the elements std::vector would leave.  resize *)
(* is not held to a value for class types of a DatasetPartition, and       *)
(* nothing is appended to a StringPartition that resize has made smaller.  *)
(***************************************************************************)
Filler ==
  IF strings THEN {<<>>} ELSE IF fundamental THEN {Zero} ELSE Value

Vec == INSTANCE Vector WITH vec <- IF strings THEN S!Elements ELSE Elements,
                            filler <- Filler

VectorSpec == Vec!Spec

(***************************************************************************)
(* string_partition.h:114, of resize(size): "If size > size_, append size  *)
(* - size_ entries with empty string."                                     *)
(***************************************************************************)
AppendsEmptyStrings ==
  [][strings /\ call'.op = "resize" =>
       \A i \in (size + 1)..size' : S!Elements'[i] = <<>>]_partitionVars
=============================================================================
