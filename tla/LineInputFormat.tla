--------------------------- MODULE LineInputFormat ---------------------------
(***************************************************************************)
(* Reading a text file by blocks, LineInputFormat::ReadData.  Blocks are   *)
(* cut without regard to the lines: the reader of a block leaves out what  *)
(* comes before the first end of line, which belongs to the reader of an   *)
(* earlier block, and reads on into later blocks to finish its last line.  *)
(* Readers do not talk to each other.                                      *)
(*                                                                         *)
(* A line is the interval <<from, to>> of its characters in the file.      *)
(***************************************************************************)
EXTENDS Integers, FiniteSets

CONSTANTS Reader,     \* the tasks that read the file
          BlockSize,
          MaxSize     \* bound on the size of the file

ASSUME LineInputAssumption == BlockSize \in Nat \ {0} /\ MaxSize \in Nat

VARIABLES size,       \* the size of the file
          newlines,   \* where it has a '\n'
          blocks,     \* the offsets of the blocks nobody has taken yet
          reader,     \* for every reader its block, how much of it is buffered, and r
          executed    \* how often the executor was called on each interval

vars == <<size, newlines, blocks, reader, executed>>

Interval == (0..MaxSize) \X (0..MaxSize)
NPos == -1

Minimum(S) == CHOOSE x \in S : \A y \in S : x <= y

\* The part of the file a block holds; FetchBlockView gives an empty view past the end.
BlockEnd(offset) == IF offset + BlockSize < size THEN offset + BlockSize ELSE size
Empty(offset) == offset >= size

\* Mutant of FindNext: the search does not stop at the end of the block.
FindNextInFile(offset, i) ==
  LET found == {n \in newlines : offset + i <= n}
  IN IF found = {} THEN NPos ELSE Minimum(found) - offset

\* FindNext(buffer_, i, '\n') for the block at offset.
FindNext(offset, i) ==
  LET found == {n \in newlines : offset + i <= n /\ n < BlockEnd(offset)}
  IN IF found = {} THEN NPos ELSE Minimum(found) - offset

\* HandleNextBlock completes last_part_ from the blocks that follow.
LineEnd(from) == Minimum({n \in newlines : n >= from} \cup {size})

Idle == [block |-> NPos, buffered |-> 0, r |-> 0]

Execute(interval) == executed' = [executed EXCEPT ![interval] = @ + 1]
Leave(x) == reader' = [reader EXCEPT ![x] = Idle]

-----------------------------------------------------------------------------
\* A block that cannot be fetched, or holds no end of line, is left out.
TakeBlock(x, offset) ==
  /\ reader[x].block = NPos /\ offset \in blocks
  /\ blocks' = blocks \ {offset}
  /\ reader' = [reader EXCEPT ![x] =
       IF Empty(offset) \/ (offset # 0 /\ FindNext(offset, 0) = NPos) THEN Idle
       ELSE [block |-> offset, buffered |-> BlockEnd(offset) - offset,
             r |-> IF offset = 0 THEN NPos ELSE FindNext(offset, 0)]]
  /\ UNCHANGED <<size, newlines, executed>>

\* Mutant of AtEnd: the end is taken to be after the last character.
AtEndPastLast(x) == reader[x].r = reader[x].buffered

AtEnd(x) == reader[x].r = reader[x].buffered - 1

\* The block ends with a line: the next line is the first of the next block.
FirstOfNextBlock(x) ==
  /\ reader[x].block # NPos /\ AtEnd(x)
  /\ LET next == reader[x].block + BlockSize
     IN IF Empty(next) THEN UNCHANGED executed
                       ELSE Execute(<<next, LineEnd(next)>>)
  /\ Leave(x)
  /\ UNCHANGED <<size, newlines, blocks>>

\* The next line, if it ends in the block.
WholeLine(x) ==
  LET l == reader[x].r + 1
      r == FindNext(reader[x].block, l)
  IN /\ reader[x].block # NPos /\ ~AtEnd(x) /\ r # NPos
     /\ Execute(<<reader[x].block + l, reader[x].block + r>>)
     /\ reader' = [reader EXCEPT ![x].r = r]
     /\ UNCHANGED <<size, newlines, blocks>>

\* Otherwise last_part_ is what the block holds of it, and the rest follows.
LineAcrossBlocks(x) ==
  LET l == reader[x].r + 1
  IN /\ reader[x].block # NPos /\ ~AtEnd(x) /\ FindNext(reader[x].block, l) = NPos
     /\ Execute(<<reader[x].block + l, LineEnd(BlockEnd(reader[x].block))>>)
     /\ Leave(x)
     /\ UNCHANGED <<size, newlines, blocks>>

Init ==
  /\ size \in 0..MaxSize
  /\ newlines \in SUBSET (0..(size - 1))
  /\ blocks = {b \in 0..size : b % BlockSize = 0 /\ (b < size \/ b = 0)}
  /\ reader = [x \in Reader |-> Idle]
  /\ executed = [i \in Interval |-> 0]

Next ==
  \E x \in Reader :
    \/ \E offset \in blocks : TakeBlock(x, offset)
    \/ FirstOfNextBlock(x)
    \/ WholeLine(x)
    \/ LineAcrossBlocks(x)

Spec == Init /\ [][Next]_vars

-----------------------------------------------------------------------------
(***************************************************************************)
(* The executor sees every line of the file exactly once, whoever reads    *)
(* which block and in which order, and nothing that is not a line.         *)
(***************************************************************************)
Lines ==
  {<<s, LineEnd(s)>> : s \in {s \in 0..(size - 1) : s = 0 \/ s - 1 \in newlines}}

Done == blocks = {} /\ \A x \in Reader : reader[x].block = NPos

LinesReadOnce ==
  \A i \in Interval :
    /\ executed[i] <= (IF i \in Lines THEN 1 ELSE 0)
    /\ Done => executed[i] = (IF i \in Lines THEN 1 ELSE 0)

(***************************************************************************)
(* The types; while a reader works on a block, r is in what it buffered,   *)
(* so that substr and FindNext are not called past the end of the view.    *)
(***************************************************************************)
TypeOK ==
  /\ size \in 0..MaxSize /\ newlines \subseteq 0..(size - 1)
  /\ blocks \subseteq 0..size
  /\ executed \in [Interval -> Nat]
  /\ \A x \in Reader :
       \/ reader[x] = Idle
       \/ /\ reader[x].block \in 0..(size - 1)
          /\ reader[x].buffered \in 1..BlockSize
          /\ reader[x].r \in NPos..(reader[x].buffered - 1)
=============================================================================
