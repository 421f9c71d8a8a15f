------------------------ MODULE ReaderAndTimerProofs ------------------------
(***************************************************************************)
(* Two small components that share nothing: the reader of lines and, at    *)
(* the end, the timer.                                                     *)
(*                                                                         *)
(* Every line of a file is read exactly once, for files and blocks of any  *)
(* size and any number of readers.  Whose line is it?  The line that       *)
(* starts at s > 0 belongs to the block with the end of line before it,    *)
(* s - 1, and the first line to the first block: to one block each.  A     *)
(* line is pending while its block has not been taken, or is read by a     *)
(* reader that has not come to the line; what is not pending was read      *)
(* once.                                                                   *)
(*                                                                         *)
(* The handler of a timer is called at the earliest an interval after its  *)
(* last call, and never once the destructor has stopped the timer, for     *)
(* any number of calls.                                                    *)
(***************************************************************************)
EXTENDS LineInputFormat, Timer, WellFoundedInduction, TLAPS

-----------------------------------------------------------------------------
(* Numbers. *)

\* A set of naturals that is not empty has a least element.
LEMMA MinimumOfNaturals ==
  ASSUME NEW S, S \subseteq Nat, S # {}
  PROVE  Minimum(S) \in S /\ \A y \in S : Minimum(S) <= y
<1>1. PICK x \in S : \A y \in S : ~ (<<y, x>> \in OpToRel(<, Nat))
  BY NatLessThanWellFounded, WFMin
<1>2. ASSUME NEW y \in S PROVE x <= y
  <2>1. <<y, x>> \in Nat \X Nat
    OBVIOUS
  <2>2. y < x => <<y, x>> \in OpToRel(<, Nat)
    BY <2>1 DEF OpToRel
  <2>3. ~ (y < x)
    BY <1>1, <2>2
  <2> QED BY <2>3
<1> QED BY <1>2 DEF Minimum

\* Division with remainder, by the block size.
LEMMA Quotient ==
  ASSUME NEW p \in Nat
  PROVE  \E q \in Nat : /\ p = (BlockSize * q) + (p % BlockSize)
                        /\ p % BlockSize \in 0..(BlockSize - 1)
<1>1. /\ p = (BlockSize * (p \div BlockSize)) + (p % BlockSize)
      /\ p % BlockSize \in 0..(BlockSize - 1) /\ p \div BlockSize \in Nat
  BY LineInputAssumption
<1> QED BY <1>1

\* And every multiple of it is one.
LEMMA Multiple ==
  ASSUME NEW q \in Nat
  PROVE  BlockSize * q \in Nat /\ (BlockSize * q) % BlockSize = 0
BY LineInputAssumption

\* The offset of a block as a multiple.
LEMMA QuotientOfBlock ==
  ASSUME NEW b \in Nat, b % BlockSize = 0
  PROVE  \E q \in Nat : b = BlockSize * q
<1>1. PICK q \in Nat : b = (BlockSize * q) + (b % BlockSize)
  BY Quotient
<1>2. BlockSize * q \in Nat
  BY Multiple
<1> QED BY <1>1, <1>2

\* Different blocks do not overlap.
LEMMA BlocksApart ==
  ASSUME NEW b \in Nat, NEW c \in Nat, b % BlockSize = 0, c % BlockSize = 0, b < c
  PROVE  b + BlockSize <= c
<1>1. PICK q \in Nat : b = BlockSize * q
  BY QuotientOfBlock
<1>2. PICK r \in Nat : c = BlockSize * r
  BY QuotientOfBlock
<1>3. q < r
  BY <1>1, <1>2, LineInputAssumption
<1>4. q + 1 <= r
  BY <1>3
<1>5. BlockSize * (q + 1) <= BlockSize * r
  BY <1>4, LineInputAssumption
<1>6. BlockSize * (q + 1) = (BlockSize * q) + BlockSize
  BY LineInputAssumption
<1> QED BY <1>1, <1>2, <1>5, <1>6

\* Every position is in a block.
LEMMA BlockOf ==
  ASSUME NEW p \in Nat
  PROVE  \E b \in 0..p : b % BlockSize = 0 /\ p < b + BlockSize
<1>1. PICK q \in Nat : /\ p = (BlockSize * q) + (p % BlockSize)
                       /\ p % BlockSize \in 0..(BlockSize - 1)
  BY Quotient
<1>2. BlockSize * q \in Nat /\ (BlockSize * q) % BlockSize = 0
  BY Multiple
<1>3. BlockSize * q <= p /\ p < BlockSize * q + BlockSize
  BY <1>1, <1>2, LineInputAssumption
<1>4. BlockSize * q \in 0..p
  BY <1>2, <1>3
<1> QED BY <1>2, <1>3, <1>4

-----------------------------------------------------------------------------
(* The invariant. *)

AllBlocks == {b \in 0..size : b % BlockSize = 0 /\ (b < size \/ b = 0)}

Starts == {s \in 0..(size - 1) : s = 0 \/ s - 1 \in newlines}

\* The reader of block b reads the line that starts at s.
Owns(b, s) == IF s = 0 THEN b = 0 ELSE b < s /\ s <= b + BlockSize

\* A reader in state v has still to read it.
Ahead(v, s) == v.block # NPos /\ Owns(v.block, s) /\ v.block + v.r < s

Pending(s) ==
  \/ \E b \in blocks : Owns(b, s)
  \/ \E x \in Reader : Ahead(reader[x], s)

States == [block : Int, buffered : Int, r : Int]

\* While it reads, a reader stands on an end of line, or before the first line of the file.
AtLine(v) ==
  /\ v.block \in AllBlocks /\ v.block < size
  /\ v.buffered = BlockEnd(v.block) - v.block
  /\ v.r \in NPos..(v.buffered - 1)
  /\ IF v.r = NPos THEN v.block = 0 ELSE v.block + v.r \in newlines

Shape ==
  /\ size \in 0..MaxSize /\ newlines \subseteq 0..(size - 1)
  /\ blocks \subseteq AllBlocks
  /\ reader \in [Reader -> States]
  /\ \A x \in Reader : reader[x] = Idle \/ AtLine(reader[x])

\* A block is taken by one reader.
Taken ==
  \A x \in Reader : reader[x].block # NPos =>
    /\ reader[x].block \notin blocks
    /\ \A y \in Reader : y # x => reader[y].block # reader[x].block

Read ==
  /\ executed \in [Interval -> Nat]
  /\ \A i \in Interval : executed[i] = IF i \in Lines /\ ~Pending(i[1]) THEN 1 ELSE 0

Inv == Shape /\ Taken /\ Read

-----------------------------------------------------------------------------
(* Lines. *)

\* Where blocks and ends of line are.
LEMMA Positions ==
  ASSUME Shape
  PROVE  /\ size \in Nat /\ BlockSize \in Nat /\ BlockSize > 0
         /\ \A n \in newlines : n \in Nat /\ n < size
         /\ \A b \in AllBlocks : /\ b \in Nat /\ b <= size /\ b % BlockSize = 0
                                /\ BlockEnd(b) \in b..size /\ BlockEnd(b) <= b + BlockSize
<1>1. size \in Nat /\ BlockSize \in Nat /\ BlockSize > 0
  BY LineInputAssumption DEF Shape
<1>2. \A n \in newlines : n \in Nat /\ n < size
  BY <1>1 DEF Shape
<1> QED BY <1>1, <1>2 DEF AllBlocks, BlockEnd

\* LineEnd finds the first end of line, or the end of the file.
LEMMA LineEndFacts ==
  ASSUME Shape, NEW from \in 0..size
  PROVE  /\ LineEnd(from) \in from..size
         /\ LineEnd(from) \in newlines \/ LineEnd(from) = size
         /\ \A n \in newlines : n >= from => LineEnd(from) <= n
<1> DEFINE S == {n \in newlines : n >= from} \cup {size}
<1>1. S \subseteq Nat /\ S # {} /\ \A n \in S : n \in from..size
  BY Positions
<1> HIDE DEF S
<1>2. Minimum(S) \in S /\ \A n \in S : Minimum(S) <= n
  BY <1>1, MinimumOfNaturals
<1>3. Minimum(S) \in from..size
  BY <1>1, <1>2
<1> QED BY <1>2, <1>3 DEF LineEnd, S

\* A line ends at e if there is an end of line, or the end of the file, and none before.
LEMMA LineEndIs ==
  ASSUME Shape, NEW from \in 0..size, NEW e \in from..size, e \in newlines \/ e = size,
         \A n \in newlines : n >= from => n >= e
  PROVE  LineEnd(from) = e
<1> DEFINE S == {n \in newlines : n >= from} \cup {size}
<1>1. S \subseteq Nat /\ e \in S /\ \A n \in S : n >= e
  BY Positions
<1> HIDE DEF S
<1>2. Minimum(S) \in S /\ Minimum(S) <= e
  BY <1>1, MinimumOfNaturals
<1>3. Minimum(S) \in Nat /\ e \in Nat /\ Minimum(S) >= e
  BY <1>1, <1>2
<1>4. Minimum(S) = e
  BY <1>2, <1>3
<1> QED BY <1>4 DEF LineEnd, S

\* FindNext finds the first end of line in the rest of the block, if there is one.
LEMMA FindNextFacts ==
  ASSUME Shape, NEW b \in AllBlocks, NEW i \in Nat
  PROVE  LET r == FindNext(b, i)
         IN IF r = NPos
            THEN \A n \in newlines : n >= b + i => n >= BlockEnd(b)
            ELSE /\ r \in Nat /\ r >= i /\ b + r \in newlines /\ b + r < BlockEnd(b)
                 /\ \A n \in newlines : n >= b + i => n >= b + r
<1> DEFINE found == {n \in newlines : b + i <= n /\ n < BlockEnd(b)}
<1>1. /\ found \subseteq Nat /\ b \in Nat /\ BlockEnd(b) \in Nat
      /\ newlines \subseteq Nat
  BY Positions
<1>2. FindNext(b, i) = IF found = {} THEN NPos ELSE Minimum(found) - b
  BY DEF FindNext
<1>3. CASE found = {}
  BY <1>1, <1>2, <1>3
<1>4. CASE found # {}
  <2> DEFINE m == Minimum(found)
  <2>1. m \in found /\ \A n \in found : m <= n
    BY <1>1, <1>4, MinimumOfNaturals
  <2>2. /\ m \in Nat /\ m >= b + i /\ m \in newlines /\ m < BlockEnd(b)
    BY <1>1, <2>1
  <2>3. \A n \in newlines : n >= b + i => n >= m
    BY <1>1, <2>1, <2>2
  <2>4. FindNext(b, i) = m - b
    BY <1>2, <1>4
  <2> HIDE DEF m, found
  <2>5. m - b \in Nat /\ m - b >= i /\ b + (m - b) = m
    BY <1>1, <2>2
  <2> QED BY <2>2, <2>3, <2>4, <2>5 DEF NPos
<1> QED BY <1>3, <1>4

\* A line belongs to one block.
LEMMA OneOwner ==
  ASSUME NEW s \in Nat, NEW b \in AllBlocks, NEW c \in AllBlocks, Owns(b, s), Owns(c, s), Shape
  PROVE  b = c
<1>1. b \in Nat /\ c \in Nat /\ b % BlockSize = 0 /\ c % BlockSize = 0
  BY Positions
<1>2. ~ (b < c) /\ ~ (c < b)
  BY <1>1, BlocksApart, LineInputAssumption DEF Owns
<1> QED BY <1>1, <1>2

-----------------------------------------------------------------------------
(* The steps.  Reader x goes on to state v. *)

\* A line belongs to one block, and a block was taken by one reader: a line that x has still to
\* read is not in a block nobody took, nor before another reader.
LEMMA OneReader ==
  ASSUME Inv, NEW x \in Reader, NEW s \in Nat, Ahead(reader[x], s)
  PROVE  /\ \A b \in blocks : ~Owns(b, s)
         /\ \A y \in Reader : y # x => ~Ahead(reader[y], s)
<1>1. \A y \in Reader : Ahead(reader[y], s) => reader[y].block \in AllBlocks /\ Owns(reader[y].block, s)
  BY DEF Inv, Shape, AtLine, Ahead, Idle
<1>2. ASSUME NEW b \in blocks, Owns(b, s) PROVE FALSE
  <2>1. b = reader[x].block
    BY <1>1, <1>2, OneOwner DEF Inv, Shape
  <2> QED BY <1>2, <2>1 DEF Inv, Taken, Ahead
<1>3. ASSUME NEW y \in Reader, y # x, Ahead(reader[y], s) PROVE FALSE
  <2>1. reader[y].block = reader[x].block
    BY <1>1, <1>3, OneOwner DEF Inv
  <2> QED BY <1>3, <2>1 DEF Inv, Taken, Ahead
<1> QED BY <1>2, <1>3

\* Steps of a reader within its block.
LEMMA ShapeAndTaken ==
  ASSUME Inv, NEW x \in Reader, NEW v \in States, v = Idle \/ AtLine(v),
         v.block \in {reader[x].block, NPos},
         reader' = [reader EXCEPT ![x] = v], UNCHANGED <<size, newlines, blocks>>
  PROVE  Shape' /\ Taken'
<1>1. Shape'
  BY DEF Inv, Shape, AtLine, AllBlocks, BlockEnd
<1>2. Taken'
  BY DEF Inv, Shape, Taken
<1> QED BY <1>1, <1>2

\* The file does not change.
LEMMA SameLines ==
  ASSUME UNCHANGED <<size, newlines>>
  PROVE  Starts' = Starts /\ Lines' = Lines
BY DEF Starts, Lines, LineEnd

\* It reads the line that starts at s.
LEMMA ReadsLine ==
  ASSUME Inv, NEW x \in Reader, NEW v \in States, v = Idle \/ AtLine(v),
         v.block \in {reader[x].block, NPos}, NEW s \in Starts, Ahead(reader[x], s),
         \A t \in Starts : Ahead(v, t) <=> Ahead(reader[x], t) /\ t # s,
         reader' = [reader EXCEPT ![x] = v], Execute(<<s, LineEnd(s)>>),
         UNCHANGED <<size, newlines, blocks>>
  PROVE  Inv'
<1>1. Shape' /\ Taken'
  BY ShapeAndTaken
<1>2. Starts \subseteq Nat /\ Starts \subseteq 0..size
  BY Positions DEF Inv, Starts
<1>3. \A t \in Starts : Pending(t)' <=> Pending(t) /\ t # s
  <2> SUFFICES ASSUME NEW t \in Starts PROVE Pending(t)' <=> Pending(t) /\ t # s
    OBVIOUS
  <2>1. reader \in [Reader -> States]
    BY DEF Inv, Shape
  <2>2. \A y \in Reader : Ahead(reader'[y], t) <=> Ahead(reader[y], t) /\ (y = x => t # s)
    BY <2>1
  <2>3. t = s => /\ \A b \in blocks : ~Owns(b, t)
                 /\ \A y \in Reader : y # x => ~Ahead(reader[y], t)
    BY <1>2, OneReader
  <2> QED BY <2>2, <2>3 DEF Pending
<1>4. Pending(s)
  BY DEF Pending
<1>5. LineEnd(s) \in 0..size /\ <<s, LineEnd(s)>> \in Interval /\ <<s, LineEnd(s)>> \in Lines
  <2>1. s \in 0..size /\ LineEnd(s) \in s..size
    BY <1>2, LineEndFacts DEF Inv
  <2>2. s \in 0..MaxSize /\ LineEnd(s) \in 0..MaxSize /\ LineEnd(s) \in 0..size
    BY <2>1, LineInputAssumption DEF Inv, Shape
  <2> QED BY <2>2 DEF Interval, Lines, Starts
<1>6. Read'
  <2>1. executed \in [Interval -> Nat] /\ executed' \in [Interval -> Nat]
    BY <1>5 DEF Inv, Read, Execute
  <2>2. ASSUME NEW i \in Interval
        PROVE  executed'[i] = IF i \in Lines /\ ~Pending(i[1])' THEN 1 ELSE 0
    <3>1. executed[i] = IF i \in Lines /\ ~Pending(i[1]) THEN 1 ELSE 0
      BY DEF Inv, Read
    <3>2. CASE i = <<s, LineEnd(s)>>
      BY <1>3, <1>4, <1>5, <2>1, <3>1, <3>2 DEF Execute
    <3>3. CASE i # <<s, LineEnd(s)>>
      <4>1. executed'[i] = executed[i]
        BY <1>5, <2>1, <3>3 DEF Execute
      <4>2. i \in Lines => i[1] \in Starts /\ i[1] # s
        BY <3>3 DEF Lines, Starts
      <4> QED BY <1>3, <3>1, <4>1, <4>2
    <3> QED BY <3>2, <3>3
  <2> QED BY <2>1, <2>2, SameLines DEF Read
<1> QED BY <1>1, <1>6 DEF Inv

\* It reads nothing, and what is pending stays so.
LEMMA ReadsNothing ==
  ASSUME Inv, UNCHANGED <<size, newlines, executed>>,
         \A t \in Starts : Pending(t)' <=> Pending(t)
  PROVE  Read'
<1>1. \A i \in Lines : i[1] \in Starts
  BY DEF Lines, Starts
<1> QED BY <1>1, SameLines DEF Inv, Read

-----------------------------------------------------------------------------
(* The actions. *)

\* The line that comes after the end of line a reader stands on.
LEMMA NextLine ==
  ASSUME Inv, NEW x \in Reader, reader[x].block # NPos
  PROVE  LET b == reader[x].block
             r == reader[x].r
             s == b + r + 1
         IN /\ reader[x] \in States /\ AtLine(reader[x])
            /\ b \in AllBlocks /\ b \in Nat /\ b < size /\ r \in Int /\ r >= NPos
            /\ BlockEnd(b) = b + reader[x].buffered /\ BlockEnd(b) > b
            /\ s \in 0..BlockEnd(b) /\ Owns(b, s) /\ b + r < s
            /\ s = 0 \/ s - 1 \in newlines
            /\ (r = NPos => s = 0)
<1> DEFINE b == reader[x].block
           r == reader[x].r
           s == b + r + 1
<1>1. reader[x] \in States /\ AtLine(reader[x])
  BY DEF Inv, Shape, Idle
<1>2. /\ b \in AllBlocks /\ b \in Nat /\ b < size /\ r \in Int /\ r >= NPos
      /\ BlockEnd(b) \in b..size /\ BlockEnd(b) <= b + BlockSize /\ BlockSize > 0
      /\ BlockSize \in Nat /\ size \in Nat
  BY <1>1, Positions DEF Inv, AtLine, States, NPos
<1>3. BlockEnd(b) = b + reader[x].buffered /\ r <= reader[x].buffered - 1 /\ reader[x].buffered \in Int
  BY <1>1, <1>2 DEF AtLine, States, NPos
<1>4. BlockEnd(b) > b
  BY <1>2 DEF BlockEnd
<1>5. IF r = NPos THEN b = 0 ELSE b + r \in newlines
  BY <1>1 DEF AtLine
<1> HIDE DEF b, r
<1>6. s <= BlockEnd(b) /\ b + r < s
  BY <1>2, <1>3
<1>7. CASE r = NPos
  <2>1. s = 0 /\ b = 0
    BY <1>5, <1>7 DEF NPos
  <2> QED BY <1>1, <1>2, <1>3, <1>4, <1>6, <2>1 DEF Owns, b, r
<1>8. CASE r # NPos
  <2>1. s - 1 = b + r /\ s - 1 \in newlines /\ r >= 0
    BY <1>2, <1>5, <1>8 DEF NPos
  <2>2. s \in 0..BlockEnd(b) /\ s > b /\ s <= b + BlockSize
    BY <1>2, <1>6, <2>1
  <2> QED BY <1>1, <1>2, <1>3, <1>4, <1>6, <1>8, <2>1, <2>2 DEF Owns, b, r
<1> QED BY <1>7, <1>8

\* A reader without a block has nothing to read.
LEMMA IdleFacts ==
  Idle \in States /\ Idle.block = NPos /\ \A t : ~Ahead(Idle, t)
BY DEF Idle, States, Ahead, NPos

\* The line ends in the block: the reader stands on that end.
LEMMA WholeLineStep == ASSUME Inv, NEW x \in Reader, WholeLine(x) PROVE Inv'
<1> DEFINE b == reader[x].block
           l == reader[x].r + 1
           r == FindNext(b, l)
           s == b + l
           v == [reader[x] EXCEPT !.r = r]
<1>1. b # NPos /\ r # NPos /\ ~AtEnd(x)
  BY DEF WholeLine
<1>2. /\ reader[x] \in States /\ AtLine(reader[x])
      /\ b \in AllBlocks /\ b \in Nat /\ b < size /\ l \in Nat
      /\ BlockEnd(b) = b + reader[x].buffered
      /\ s \in 0..BlockEnd(b) /\ Owns(b, s) /\ b + reader[x].r < s
      /\ s = 0 \/ s - 1 \in newlines
  BY <1>1, NextLine DEF NPos
<1>3. /\ r \in Nat /\ r >= l /\ b + r \in newlines /\ b + r < BlockEnd(b)
      /\ \A n \in newlines : n >= b + l => n >= b + r
  BY <1>1, <1>2, FindNextFacts DEF Inv
<1>4. b + r < size /\ b + r \in Nat /\ size \in Nat /\ \A n \in newlines : n \in Nat
  BY <1>2, <1>3, Positions DEF Inv
<1>5. /\ v \in States /\ v.block = b /\ v.r = r /\ v.buffered = reader[x].buffered
  BY <1>2, <1>3 DEF States
<1> HIDE DEF r
<1>6. s \in Starts /\ s \in 0..size /\ b + r \in s..size
  BY <1>2, <1>3, <1>4 DEF Starts
<1>7. LineEnd(s) = b + r
  BY <1>3, <1>6, LineEndIs DEF Inv
<1>8. r \in NPos..(v.buffered - 1) /\ r # NPos
  BY <1>2, <1>3, <1>5 DEF NPos, States
<1>9. AtLine(v)
  BY <1>2, <1>3, <1>5, <1>8 DEF AtLine
<1>10. ASSUME NEW t \in Starts
       PROVE  Ahead(v, t) <=> Ahead(reader[x], t) /\ t # s
  <2>1. t \in Nat /\ (t = 0 \/ t - 1 \in newlines) /\ s \in Nat /\ reader[x].r \in Int
    BY <1>2, <1>4 DEF Starts, States
  <2>2. t > s => t > b + r
    BY <1>2, <1>3, <1>4, <2>1
  <2>3. t > b + r => t > s
    BY <1>2, <1>3, <1>4, <2>1
  <2>4. b + reader[x].r < t <=> t >= s
    BY <1>2, <2>1
  <2> HIDE DEF s, l, v
  <2>5. b + r < t <=> b + reader[x].r < t /\ t # s
    BY <2>1, <2>2, <2>3, <2>4
  <2> QED BY <1>1, <1>5, <2>5 DEF Ahead
<1>11. /\ reader' = [reader EXCEPT ![x] = v] /\ Execute(<<s, LineEnd(s)>>)
       /\ UNCHANGED <<size, newlines, blocks>>
  BY <1>7 DEF WholeLine, r
<1>12. Ahead(reader[x], s)
  BY <1>1, <1>2 DEF Ahead
<1> HIDE DEF v, s
<1> QED BY <1>5, <1>6, <1>9, <1>10, <1>11, <1>12, ReadsLine

\* Reader x leaves its block with the line that starts at s, the last one it has.
LEMMA ReadsLastLine ==
  ASSUME Inv, NEW x \in Reader, NEW s \in Starts, Ahead(reader[x], s),
         \A t \in Starts : Ahead(reader[x], t) => t = s,
         Leave(x), Execute(<<s, LineEnd(s)>>), UNCHANGED <<size, newlines, blocks>>
  PROVE  Inv'
<1>1. \A t \in Starts : Ahead(Idle, t) <=> Ahead(reader[x], t) /\ t # s
  BY IdleFacts
<1>2. reader' = [reader EXCEPT ![x] = Idle] /\ Idle.block \in {reader[x].block, NPos}
  BY IdleFacts DEF Leave
<1> QED BY <1>1, <1>2, IdleFacts, ReadsLine

\* The line goes on in the next block: no other line of this block is left.
LEMMA LineAcrossBlocksStep == ASSUME Inv, NEW x \in Reader, LineAcrossBlocks(x) PROVE Inv'
<1> DEFINE b == reader[x].block
           l == reader[x].r + 1
           s == b + l
           e == LineEnd(BlockEnd(b))
<1>1. b # NPos /\ FindNext(b, l) = NPos /\ ~AtEnd(x)
  BY DEF LineAcrossBlocks
<1>2. /\ reader[x] \in States /\ AtLine(reader[x])
      /\ b \in AllBlocks /\ b \in Nat /\ b < size /\ l \in Nat
      /\ BlockEnd(b) = b + reader[x].buffered
      /\ s \in 0..BlockEnd(b) /\ Owns(b, s) /\ b + reader[x].r < s
      /\ s = 0 \/ s - 1 \in newlines
  BY <1>1, NextLine DEF NPos
<1>3. \A n \in newlines : n >= s => n >= BlockEnd(b)
  BY <1>1, <1>2, FindNextFacts DEF Inv
<1>4. /\ size \in Nat /\ BlockSize \in Nat /\ \A n \in newlines : n \in Nat /\ n < size
      /\ BlockEnd(b) \in b..size /\ (BlockEnd(b) = b + BlockSize \/ BlockEnd(b) = size)
  BY <1>2, Positions DEF Inv, BlockEnd
<1>5. s < BlockEnd(b)
  <2>1. reader[x].r # reader[x].buffered - 1 /\ reader[x].r \in Int /\ reader[x].buffered \in Int
    BY <1>1, <1>2 DEF AtEnd, States
  <2> QED BY <1>2, <2>1
<1>6. s \in Starts /\ s \in 0..size
  BY <1>2, <1>4, <1>5 DEF Starts
<1>7. /\ e \in BlockEnd(b)..size /\ (e \in newlines \/ e = size)
      /\ \A n \in newlines : n >= BlockEnd(b) => n >= e
  <2>1. BlockEnd(b) \in 0..size
    BY <1>2, <1>4
  <2>2. /\ e \in BlockEnd(b)..size /\ (e \in newlines \/ e = size)
        /\ \A n \in newlines : n >= BlockEnd(b) => e <= n
    BY <2>1, LineEndFacts DEF Inv
  <2> HIDE DEF e
  <2> QED BY <1>2, <1>4, <2>2
<1> HIDE DEF e
<1>8. LineEnd(s) = e
  <2>1. e \in s..size
    BY <1>2, <1>4, <1>5, <1>7
  <2>2. \A n \in newlines : n >= s => n >= e
    BY <1>3, <1>7
  <2> HIDE DEF s
  <2> QED BY <1>6, <1>7, <2>1, <2>2, LineEndIs DEF Inv
<1>9. ASSUME NEW t \in Starts, Ahead(reader[x], t) PROVE t = s
  <2>1. /\ t \in Nat /\ t < size /\ (t = 0 \/ t - 1 \in newlines) /\ s \in Nat
        /\ reader[x].r \in Int /\ b + reader[x].r < t /\ (t = 0 \/ t <= b + BlockSize)
    BY <1>2, <1>4, <1>9 DEF Starts, States, Ahead, Owns
  <2>2. t >= s
    BY <1>2, <2>1
  <2>3. t > s => t - 1 >= BlockEnd(b)
    BY <1>3, <2>1
  <2> HIDE DEF s
  <2> QED BY <1>2, <1>4, <2>1, <2>2, <2>3
<1>10. Leave(x) /\ Execute(<<s, LineEnd(s)>>) /\ UNCHANGED <<size, newlines, blocks>>
  BY <1>8 DEF LineAcrossBlocks, e
<1>11. Ahead(reader[x], s)
  BY <1>1, <1>2 DEF Ahead
<1> HIDE DEF s
<1> QED BY <1>6, <1>9, <1>10, <1>11, ReadsLastLine

\* The block ends with a line: the one after it starts the next block, if there is one.
LEMMA FirstOfNextBlockStep == ASSUME Inv, NEW x \in Reader, FirstOfNextBlock(x) PROVE Inv'
<1> DEFINE b == reader[x].block
           s == b + BlockSize
<1>1. b # NPos /\ AtEnd(x) /\ Leave(x) /\ UNCHANGED <<size, newlines, blocks>>
  BY DEF FirstOfNextBlock
<1>2. /\ reader[x] \in States /\ b \in AllBlocks /\ b \in Nat /\ b < size
      /\ BlockEnd(b) = b + reader[x].buffered /\ BlockEnd(b) > b
      /\ b + reader[x].r + 1 = BlockEnd(b)
      /\ Owns(b, BlockEnd(b)) /\ BlockEnd(b) - 1 \in newlines
  <2> DEFINE next == b + reader[x].r + 1
  <2>1. /\ reader[x] \in States /\ b \in AllBlocks /\ b \in Nat /\ b < size
        /\ BlockEnd(b) = b + reader[x].buffered /\ BlockEnd(b) > b
        /\ Owns(b, next) /\ (next = 0 \/ next - 1 \in newlines)
    BY <1>1, NextLine
  <2>2. next = BlockEnd(b)
    BY <1>1, <2>1 DEF AtEnd, States
  <2> HIDE DEF next
  <2>3. next # 0
    BY <2>1, <2>2
  <2> QED BY <2>1, <2>2, <2>3 DEF next
<1>3. /\ size \in Nat /\ BlockSize \in Nat /\ BlockSize > 0
      /\ BlockEnd(b) = IF s < size THEN s ELSE size
  BY <1>2, Positions DEF Inv, BlockEnd
<1>4. ASSUME NEW t \in Starts, Ahead(reader[x], t) PROVE t < size /\ t = s
  <2>1. /\ t \in Nat /\ t < size /\ reader[x].r \in Int
        /\ b + reader[x].r < t /\ (t = 0 \/ t <= s)
    BY <1>2, <1>3, <1>4 DEF Starts, States, Ahead, Owns
  <2> QED BY <1>2, <1>3, <2>1
<1>5. CASE Empty(s)
  <2>1. executed' = executed
    BY <1>5 DEF FirstOfNextBlock
  <2>2. \A t \in Starts : ~Ahead(reader[x], t)
    BY <1>2, <1>3, <1>4, <1>5 DEF Empty
  <2>3. reader' = [reader EXCEPT ![x] = Idle] /\ reader \in [Reader -> States]
    BY <1>1 DEF Leave, Inv, Shape
  <2>4. \A t \in Starts : Pending(t)' <=> Pending(t)
    <3>1. \A t \in Starts : \A y \in Reader : Ahead(reader'[y], t) <=> Ahead(reader[y], t)
      BY <2>2, <2>3, IdleFacts
    <3> QED BY <1>1, <3>1 DEF Pending
  <2>5. Read'
    BY <1>1, <2>1, <2>4, ReadsNothing
  <2>6. Shape' /\ Taken'
    <3>1. Idle.block \in {reader[x].block, NPos}
      BY IdleFacts
    <3> QED BY <1>1, <2>3, <3>1, IdleFacts, ShapeAndTaken
  <2> QED BY <2>5, <2>6 DEF Inv
<1>6. CASE ~Empty(s)
  <2>1. Execute(<<s, LineEnd(s)>>)
    BY <1>6 DEF FirstOfNextBlock
  <2>2. s < size /\ BlockEnd(b) = s /\ s \in Nat
    BY <1>2, <1>3, <1>6 DEF Empty
  <2> HIDE DEF s
  <2>3. s \in Starts
    BY <1>2, <1>3, <2>2 DEF Starts
  <2>4. Ahead(reader[x], s)
    BY <1>1, <1>2, <2>2 DEF Ahead, States
  <2> QED BY <1>1, <1>4, <2>1, <2>3, <2>4, ReadsLastLine
<1> QED BY <1>5, <1>6

\* The reader of a block stands before all of its lines; a block that is left out has none.
LEMMA TakeBlockStep ==
  ASSUME Inv, NEW x \in Reader, NEW offset \in blocks, TakeBlock(x, offset)
  PROVE  Inv'
<1> DEFINE f == FindNext(offset, 0)
           skipped == Empty(offset) \/ (offset # 0 /\ f = NPos)
           v == [block |-> offset, buffered |-> BlockEnd(offset) - offset,
                 r |-> IF offset = 0 THEN NPos ELSE f]
           w == IF skipped THEN Idle ELSE v
<1>1. /\ reader[x].block = NPos /\ blocks' = blocks \ {offset}
      /\ reader' = [reader EXCEPT ![x] = w] /\ UNCHANGED <<size, newlines, executed>>
  BY DEF TakeBlock
<1>2. /\ offset \in AllBlocks /\ offset \in Nat /\ size \in Nat /\ BlockSize \in Nat
      /\ BlockEnd(offset) \in offset..size /\ reader \in [Reader -> States]
      /\ (BlockEnd(offset) = offset + BlockSize \/ BlockEnd(offset) = size)
      /\ (offset < size \/ offset = 0) /\ \A n \in newlines : n \in Nat /\ n < size
  BY Positions DEF Inv, Shape, AllBlocks, BlockEnd
<1>3. IF f = NPos
      THEN \A n \in newlines : n >= offset => n >= BlockEnd(offset)
      ELSE /\ f \in Nat /\ offset + f \in newlines /\ offset + f < BlockEnd(offset)
           /\ \A n \in newlines : n >= offset => n >= offset + f
  <2>1. 0 \in Nat /\ offset + 0 = offset
    BY <1>2
  <2>2. IF f = NPos
        THEN \A n \in newlines : n >= offset + 0 => n >= BlockEnd(offset)
        ELSE /\ f \in Nat /\ offset + f \in newlines /\ offset + f < BlockEnd(offset)
             /\ \A n \in newlines : n >= offset + 0 => n >= offset + f
    BY <1>2, <2>1, FindNextFacts DEF Inv
  <2> HIDE DEF f
  <2> QED BY <2>1, <2>2
<1> HIDE DEF f
<1>4. ASSUME NEW t \in Starts, Owns(offset, t) PROVE ~skipped /\ Ahead(v, t)
  <2>1. /\ t \in Nat /\ t < size /\ (t = 0 \/ t - 1 \in newlines)
        /\ IF t = 0 THEN offset = 0 ELSE offset < t /\ t <= offset + BlockSize
    BY <1>2, <1>4 DEF Starts, Owns
  <2>2. ~Empty(offset)
    BY <1>2, <2>1 DEF Empty
  <2>3. offset # 0 => f # NPos /\ offset + f < t
    <3>1. SUFFICES ASSUME offset # 0 PROVE f # NPos /\ offset + f < t
      OBVIOUS
    <3>2. t - 1 \in newlines /\ t - 1 >= offset /\ t - 1 < BlockEnd(offset)
      BY <1>2, <2>1, <3>1
    <3>3. f # NPos
      BY <1>2, <1>3, <3>2
    <3>4. t - 1 >= offset + f /\ f \in Nat
      BY <1>3, <3>2, <3>3
    <3> QED BY <1>2, <2>1, <3>3, <3>4
  <2>4. offset # NPos /\ (offset = 0 => offset + NPos < t)
    BY <1>2, <2>1 DEF NPos
  <2> QED BY <1>4, <2>2, <2>3, <2>4 DEF Ahead
<1>5. w \in States /\ (w = Idle \/ AtLine(w)) /\ w.block \in {offset, NPos} /\ offset # NPos
  <2>1. CASE skipped
    BY <1>2, <2>1, IdleFacts DEF NPos
  <2>2. CASE ~skipped
    <3>1. offset < size /\ (offset = 0 \/ f # NPos) /\ BlockEnd(offset) > offset
      BY <1>2, <2>2, LineInputAssumption DEF Empty, BlockEnd
    <3>2. v.r \in Int /\ v.r \in NPos..(v.buffered - 1) /\ v.buffered \in Int
      BY <1>2, <1>3, <3>1 DEF NPos
    <3>3. IF v.r = NPos THEN offset = 0 ELSE offset + v.r \in newlines
      BY <1>3, <3>1
    <3>4. AtLine(v) /\ v \in States /\ offset # NPos
      BY <1>2, <3>1, <3>2, <3>3 DEF AtLine, States, NPos
    <3> QED BY <2>2, <3>4
  <2> QED BY <2>1, <2>2
<1>6. \A t \in Starts : Ahead(w, t) <=> Owns(offset, t)
  <2> SUFFICES ASSUME NEW t \in Starts PROVE Ahead(w, t) <=> Owns(offset, t)
    OBVIOUS
  <2>1. Ahead(w, t) => Owns(offset, t)
    BY <1>5, IdleFacts DEF Ahead
  <2> QED BY <1>4, <2>1
<1> HIDE DEF w
<1>7. Shape'
  <2>1. \A y \in Reader : (reader[y] = Idle \/ AtLine(reader[y]))'
    BY <1>1, <1>2, <1>5 DEF Inv, Shape, AtLine, AllBlocks, BlockEnd
  <2>2. reader' \in [Reader -> States] /\ blocks' \subseteq AllBlocks'
    BY <1>1, <1>2, <1>5 DEF Inv, Shape, AllBlocks
  <2> QED BY <1>1, <2>1, <2>2 DEF Inv, Shape
<1>8. Taken'
  <2>1. \A y \in Reader : reader[y].block # offset
    BY <1>5 DEF Inv, Taken
  <2>2. \A y \in Reader : reader'[y] = IF y = x THEN w ELSE reader[y]
    BY <1>1, <1>2
  <2> QED BY <1>1, <1>5, <2>1, <2>2 DEF Inv, Taken
<1>9. \A t \in Starts : Pending(t)' <=> Pending(t)
  <2> SUFFICES ASSUME NEW t \in Starts PROVE Pending(t)' <=> Pending(t)
    OBVIOUS
  <2>1. \A y \in Reader : reader'[y] = IF y = x THEN w ELSE reader[y]
    BY <1>1, <1>2
  <2>2. ~Ahead(reader[x], t)
    BY <1>1 DEF Ahead
  <2>3. (\E y \in Reader : Ahead(reader'[y], t))
          <=> (\E y \in Reader : Ahead(reader[y], t)) \/ Owns(offset, t)
    BY <1>6, <2>1, <2>2
  <2> QED BY <1>1, <2>3 DEF Pending
<1> QED BY <1>1, <1>7, <1>8, <1>9, ReadsNothing DEF Inv

-----------------------------------------------------------------------------
(* The theorems. *)

\* At first every line is pending: its block exists.
LEMMA InitInv == Init => Inv
<1> SUFFICES ASSUME Init PROVE Inv
  OBVIOUS
<1>1. Shape
  BY LineInputAssumption, IdleFacts DEF Init, Shape, AllBlocks
<1>2. Taken
  BY IdleFacts DEF Init, Taken
<1>3. ASSUME NEW s \in Starts PROVE Pending(s)
  <2>1. s \in Nat /\ s < size /\ size \in Nat /\ BlockSize \in Nat /\ BlockSize > 0
    BY <1>1, Positions DEF Starts
  <2>2. CASE s = 0
    <3>1. 0 % BlockSize = 0 /\ 0 \in 0..size
      BY <2>1
    <3>2. 0 \in blocks
      BY <3>1 DEF Init
    <3> QED BY <2>2, <3>2 DEF Pending, Owns
  <2>3. CASE s # 0
    <3>1. s - 1 \in Nat
      BY <2>1, <2>3
    <3>2. PICK b \in 0..(s - 1) : b % BlockSize = 0 /\ s - 1 < b + BlockSize
      BY <3>1, BlockOf
    <3>3. b \in 0..size /\ b < size /\ b < s /\ s <= b + BlockSize
      BY <2>1, <3>2
    <3>4. b \in blocks /\ Owns(b, s)
      BY <2>3, <3>2, <3>3 DEF Init, Owns
    <3> QED BY <3>4 DEF Pending
  <2> QED BY <2>2, <2>3
<1>4. Read
  <2>1. \A i \in Lines : i[1] \in Starts
    BY DEF Lines, Starts
  <2> QED BY <1>3, <2>1 DEF Init, Read
<1> QED BY <1>1, <1>2, <1>4 DEF Inv

\* Every step keeps the invariant.
LEMMA NextInv == Inv /\ [Next]_vars => Inv'
<1> SUFFICES ASSUME Inv, [Next]_vars PROVE Inv'
  OBVIOUS
<1>1. ASSUME NEW x \in Reader, NEW offset \in blocks, TakeBlock(x, offset) PROVE Inv'
  BY <1>1, TakeBlockStep
<1>2. ASSUME NEW x \in Reader, FirstOfNextBlock(x) PROVE Inv'
  BY <1>2, FirstOfNextBlockStep
<1>3. ASSUME NEW x \in Reader, WholeLine(x) PROVE Inv'
  BY <1>3, WholeLineStep
<1>4. ASSUME NEW x \in Reader, LineAcrossBlocks(x) PROVE Inv'
  BY <1>4, LineAcrossBlocksStep
<1>5. CASE UNCHANGED vars
  <2>1. UNCHANGED <<size, newlines, blocks, reader, executed>>
    BY <1>5 DEF vars
  <2>2. Shape' /\ Taken'
    BY <2>1 DEF Inv, Shape, AtLine, AllBlocks, BlockEnd, Taken
  <2>3. \A t \in Starts : Pending(t)' <=> Pending(t)
    BY <2>1 DEF Pending
  <2> QED BY <2>1, <2>2, <2>3, ReadsNothing DEF Inv
<1> QED BY <1>1, <1>2, <1>3, <1>4, <1>5 DEF Next

\* What ReadData's readers keep between them without a word: no two of them have the same block,
\* and the lines that were not executed are just those that one of them will come to.
THEOREM LineInputInvariant == Spec => []Inv
BY InitInv, NextInv, PTL DEF Spec

\* ReadData passes every line of the file to the executor once, for every file, block size and
\* number of readers, in whatever order they take blocks.
THEOREM LineInputReadsLinesOnce == Spec => []LinesReadOnce
<1>1. Inv => LinesReadOnce
  <2> SUFFICES ASSUME Inv, NEW i \in Interval
               PROVE  /\ executed[i] <= (IF i \in Lines THEN 1 ELSE 0)
                      /\ Done => executed[i] = (IF i \in Lines THEN 1 ELSE 0)
    BY DEF LinesReadOnce
  <2>1. executed[i] = IF i \in Lines /\ ~Pending(i[1]) THEN 1 ELSE 0
    BY DEF Inv, Read
  <2>2. Done => ~Pending(i[1])
    BY DEF Done, Pending, Ahead
  <2> QED BY <2>1, <2>2
<1> QED BY LineInputInvariant, <1>1, PTL

\* ReadData's state is well typed: what it has found and will search lies in what it buffered.
THEOREM LineInputTypeOK == Spec => []TypeOK
<1>1. Inv => TypeOK
  <2> SUFFICES ASSUME Inv PROVE TypeOK
    OBVIOUS
  <2>1. /\ size \in 0..MaxSize /\ newlines \subseteq 0..(size - 1) /\ blocks \subseteq 0..size
        /\ executed \in [Interval -> Nat]
    BY DEF Inv, Shape, Read, AllBlocks
  <2>2. ASSUME NEW x \in Reader, AtLine(reader[x])
        PROVE  /\ reader[x].block \in 0..(size - 1)
               /\ reader[x].buffered \in 1..BlockSize
               /\ reader[x].r \in NPos..(reader[x].buffered - 1)
    <3> DEFINE b == reader[x].block
    <3>1. /\ b \in AllBlocks /\ b < size /\ reader[x].buffered = BlockEnd(b) - b
          /\ reader[x].r \in NPos..(reader[x].buffered - 1)
      BY <2>2 DEF AtLine
    <3>2. /\ b \in Nat /\ BlockEnd(b) \in b..size /\ BlockEnd(b) <= b + BlockSize
          /\ size \in Nat /\ BlockSize \in Nat /\ BlockSize > 0
      BY <3>1, Positions DEF Inv
    <3>3. BlockEnd(b) > b
      BY <3>1, <3>2 DEF BlockEnd
    <3> QED BY <3>1, <3>2, <3>3
  <2> QED BY <2>1, <2>2 DEF Inv, Shape, TypeOK
<1> QED BY LineInputInvariant, <1>1, PTL

-----------------------------------------------------------------------------
(* The timer. *)

\* The mutex is held exactly by the side whose code is inside the lock; there
\* is no thread before the start.
MutexInv ==
  /\ owner = "constructed" => thread = "none"
  /\ mutex = "thread" <=> thread \in Holding
  /\ mutex = "owner" <=> owner \in {"stopping", "unlocking"}

\* is_running_ is cleared once, by the destructor, and no handler outlives it.
StopInv ==
  /\ isRunning <=> owner \in {"constructed", "started", "stopping"}
  /\ thread = "handler" => isRunning

\* wait_for returns in a running timer only at the end of an interval, and
\* the intervals counted are those the phase and the calls account for.
PaceInv ==
  /\ thread = "asleep" => ~expired
  /\ thread \in {"returned", "handler"} /\ isRunning => expired
  /\ thread = "handler" => phase = "loop"
  /\ phase = "delay" => calls = 0
  /\ thread \in {"woken", "returned"} /\ expired => intervals >= 1
  /\ phase = "loop" /\ calls = 0 => intervals >= 1
  /\ thread \in {"woken", "returned", "handler"} /\ expired /\ phase = "loop"
       => intervals >= IF calls = 0 THEN 2 ELSE 1

TimerInv == TimerTypeOK /\ MutexInv /\ StopInv /\ PaceInv

LEMMA TimerInitInv == TimerInit => TimerInv
<1> SUFFICES ASSUME TimerInit PROVE TimerInv
  OBVIOUS
<1> USE DEF TimerInit
<1>1. TimerTypeOK
  <2>1. isRunning \in BOOLEAN /\ expired \in BOOLEAN
    BY Zenon
  <2>2. intervals \in 0..2 /\ calls \in 0..MaxCalls
    BY TimerAssumption
  <2>3. /\ owner \in OwnerAt /\ thread \in ThreadAt /\ phase \in {"delay", "loop"}
        /\ mutex \in {"free", "owner", "thread"}
    BY DEF OwnerAt, ThreadAt
  <2> QED BY <2>1, <2>2, <2>3 DEF TimerTypeOK
<1>2. MutexInv
  BY DEF MutexInv, Holding
<1>3. StopInv
  BY DEF StopInv
<1>4. PaceInv
  BY DEF PaceInv
<1> QED BY <1>1, <1>2, <1>3, <1>4 DEF TimerInv

LEMMA TypeStep == TimerTypeOK /\ [TimerNext]_timerVars => TimerTypeOK'
<1> SUFFICES ASSUME TimerTypeOK, [TimerNext]_timerVars PROVE TimerTypeOK'
  OBVIOUS
<1> USE TimerAssumption DEF TimerTypeOK, OwnerAt, ThreadAt, ownerVars, threadVars
<1>1. CASE Start
  BY <1>1 DEF Start
<1>2. CASE LockToStop
  BY <1>2 DEF LockToStop
<1>3. CASE StopRunning
  BY <1>3 DEF StopRunning
<1>4. CASE UnlockStopped
  BY <1>4 DEF UnlockStopped
<1>5. CASE Notify
  BY <1>5 DEF Notify
<1>6. CASE Join
  BY <1>6 DEF Join
<1>7. CASE Lock
  BY <1>7 DEF Lock
<1>8. CASE Wait
  BY <1>8 DEF Wait
<1>9. CASE IntervalPasses
  BY <1>9 DEF IntervalPasses
<1>10. CASE SpuriousWakeup
  BY <1>10 DEF SpuriousWakeup
<1>11. CASE Reacquire
  BY <1>11 DEF Reacquire
<1>12. CASE Exit
  BY <1>12 DEF Exit
<1>13. CASE EnterLoop
  BY <1>13 DEF EnterLoop
<1>14. CASE CallHandler
  BY <1>14 DEF CallHandler
<1>15. CASE HandlerReturns
  BY <1>15 DEF HandlerReturns
<1>16. CASE UNCHANGED timerVars
  BY <1>16 DEF timerVars
<1> QED
  BY <1>1, <1>2, <1>3, <1>4, <1>5, <1>6, <1>7, <1>8,
     <1>9, <1>10, <1>11, <1>12, <1>13, <1>14, <1>15, <1>16
     DEF TimerNext, OwnerNext, ThreadNext

LEMMA MutexStep == TimerTypeOK /\ MutexInv /\ [TimerNext]_timerVars => MutexInv'
<1> SUFFICES ASSUME TimerTypeOK, MutexInv, [TimerNext]_timerVars PROVE MutexInv'
  OBVIOUS
<1> USE DEF TimerTypeOK, MutexInv, Holding, OwnerAt, ThreadAt, ownerVars, threadVars
<1>1. CASE Start
  BY <1>1 DEF Start
<1>2. CASE LockToStop
  BY <1>2 DEF LockToStop
<1>3. CASE StopRunning
  BY <1>3 DEF StopRunning
<1>4. CASE UnlockStopped
  BY <1>4 DEF UnlockStopped
<1>5. CASE Notify
  BY <1>5 DEF Notify
<1>6. CASE Join
  BY <1>6 DEF Join
<1>7. CASE Lock
  BY <1>7 DEF Lock
<1>8. CASE Wait
  BY <1>8 DEF Wait
<1>9. CASE IntervalPasses
  BY <1>9 DEF IntervalPasses
<1>10. CASE SpuriousWakeup
  BY <1>10 DEF SpuriousWakeup
<1>11. CASE Reacquire
  BY <1>11 DEF Reacquire
<1>12. CASE Exit
  BY <1>12 DEF Exit
<1>13. CASE EnterLoop
  BY <1>13 DEF EnterLoop
<1>14. CASE CallHandler
  BY <1>14 DEF CallHandler
<1>15. CASE HandlerReturns
  BY <1>15 DEF HandlerReturns
<1>16. CASE UNCHANGED timerVars
  BY <1>16 DEF timerVars
<1> QED
  BY <1>1, <1>2, <1>3, <1>4, <1>5, <1>6, <1>7, <1>8,
     <1>9, <1>10, <1>11, <1>12, <1>13, <1>14, <1>15, <1>16
     DEF TimerNext, OwnerNext, ThreadNext

\* The step that clears is_running_ holds the mutex, so the handler is not
\* running: this is where the proof needs the destructor's lock.
LEMMA StopStep == TimerInv /\ [TimerNext]_timerVars => StopInv'
<1> SUFFICES ASSUME TimerInv, [TimerNext]_timerVars PROVE StopInv'
  OBVIOUS
<1> USE DEF TimerInv, TimerTypeOK, StopInv, OwnerAt, ThreadAt, ownerVars, threadVars
<1>1. CASE StopRunning
  <2>1. mutex = "owner" /\ thread # "handler"
    BY <1>1 DEF StopRunning, MutexInv, Holding
  <2> QED BY <1>1, <2>1 DEF StopRunning
<1>2. CASE Start \/ LockToStop \/ UnlockStopped \/ Notify \/ Join
  BY <1>2 DEF Start, LockToStop, UnlockStopped, Notify, Join
<1>3. CASE Lock \/ Wait \/ IntervalPasses \/ SpuriousWakeup \/ Reacquire
  BY <1>3 DEF Lock, Wait, IntervalPasses, SpuriousWakeup, Reacquire
<1>4. CASE Exit \/ EnterLoop \/ CallHandler \/ HandlerReturns
  BY <1>4 DEF Exit, EnterLoop, CallHandler, HandlerReturns
<1>5. CASE UNCHANGED timerVars
  BY <1>5 DEF timerVars
<1> QED
  BY <1>1, <1>2, <1>3, <1>4, <1>5 DEF TimerNext, OwnerNext, ThreadNext

LEMMA PaceStep == TimerInv /\ [TimerNext]_timerVars => PaceInv'
<1> SUFFICES ASSUME TimerInv, [TimerNext]_timerVars PROVE PaceInv'
  OBVIOUS
<1> USE TimerAssumption DEF TimerInv, TimerTypeOK, PaceInv, OwnerAt, ThreadAt, ownerVars, threadVars
<1>1. CASE OwnerNext
  BY <1>1 DEF OwnerNext, Start, LockToStop, StopRunning, UnlockStopped, Notify, Join
<1>2. CASE Lock \/ Wait
  BY <1>2 DEF Lock, Wait
<1>3. CASE IntervalPasses
  BY <1>3 DEF IntervalPasses
<1>4. CASE SpuriousWakeup \/ Reacquire
  BY <1>4 DEF SpuriousWakeup, Reacquire
<1>5. CASE Exit \/ EnterLoop \/ CallHandler
  BY <1>5 DEF Exit, EnterLoop, CallHandler
<1>6. CASE HandlerReturns
  BY <1>6 DEF HandlerReturns
<1>7. CASE UNCHANGED timerVars
  BY <1>7 DEF timerVars
<1> QED
  BY <1>1, <1>2, <1>3, <1>4, <1>5, <1>6, <1>7 DEF TimerNext, ThreadNext

\* The inductive invariant holds in every state of every behaviour.
THEOREM TimerInvariant == TimerSpec => []TimerInv
<1>1. TimerInv /\ [TimerNext]_timerVars => TimerInv'
  BY TypeStep, MutexStep, StopStep, PaceStep DEF TimerInv
<1> QED BY TimerInitInv, <1>1, PTL DEF TimerSpec

\* No handler runs once ~Timer has cleared is_running_ under the mutex.
THEOREM TimerNoCallAfterStop == TimerSpec => []NoCallAfterStop
<1>1. TimerInv => NoCallAfterStop
  BY DEF TimerInv, TimerTypeOK, StopInv, NoCallAfterStop
<1> QED BY TimerInvariant, <1>1, PTL

\* The handler is called at most once an interval, and not in the first one.
THEOREM TimerPaced == TimerSpec => []HandlerPaced
<1>1. TimerInv => HandlerPaced
  BY DEF TimerInv, StopInv, PaceInv, HandlerPaced
<1> QED BY TimerInvariant, <1>1, PTL
=============================================================================
