------------------------------ MODULE LintProofs ------------------------------
(***************************************************************************)
(* For every text of any lines: the stack of blocks is what the first      *)
(* branches of the conditionals and the braces make of it, and bad         *)
(* characters are found in every text that cpplint sees through.           *)
(*                                                                         *)
(* That a run is made of lines that are read one by one, and what the text *)
(* and the blocks of a file can be, is proved in LintReportProofs, with    *)
(* what is reported.                                                       *)
(***************************************************************************)
EXTENDS LintReportProofs

-----------------------------------------------------------------------------
(* Lines that open and close nothing. *)

LEMMA QuietParentheses ==
  ASSUME NEW stack \in Stacks({"no"}), NEW line \in Line, LeavesAlone(line, stack)
  PROVE  CountParentheses(stack, line) = stack
<1> DEFINE change == Count(line, "(") - Count(line, ")")
           open == Top(stack).parens + change
           asm == CASE Top(stack).asm \in {"no", "end"} ->
                         IF change # 0 /\ open = 1 /\ MatchAsm(line) THEN "inside" ELSE "no"
                    [] Top(stack).asm = "inside" /\ open = 0 -> "end"
                    [] OTHER -> Top(stack).asm
           top == [Top(stack) EXCEPT !.parens = open, !.asm = asm]
<1>1. change = 0
  <2>1. Count(line, "(") \in Nat /\ Count(line, "(") = Count(line, ")")
    BY CountIs DEF LeavesAlone, Line
  <2> QED BY <2>1
<1> HIDE DEF change
<1>2. CASE stack # << >>
  <2>1. Top(stack) \in Blocks({"no"}) /\ Len(stack) \in DOMAIN stack
    BY <1>2, TopIs DEF Stacks
  <2>2. Top(stack).parens \in Int /\ Top(stack).asm = "no"
    BY <2>1 DEF Blocks
  <2>3. open = Top(stack).parens
    BY <1>1, <2>2
  <2> HIDE DEF open
  <2>4. asm = "no"
    BY <1>1, <2>2
  <2> HIDE DEF asm
  <2>5. top = Top(stack)
    BY <2>1, <2>2, <2>3, <2>4 DEF Blocks
  <2>6. CountParentheses(stack, line) = [stack EXCEPT ![Len(stack)] = top]
    BY <1>2, <2>1 DEF CountParentheses, Stacks, change, open, asm, Top
  <2> HIDE DEF top
  <2>7. [stack EXCEPT ![Len(stack)] = Top(stack)] = stack
    BY <2>1 DEF Top, Stacks
  <2> QED BY <2>5, <2>6, <2>7
<1> QED BY <1>2 DEF CountParentheses

LEMMA QuietNamespaces ==
  ASSUME NEW stack, NEW line \in Line, LeavesAlone(line, stack), NEW n
  PROVE  PushNamespaces(stack, line, n) = [stack |-> stack, line |-> line]
<1> DEFINE m == Len(line)
           base == [stack |-> stack, line |-> line]
           T == [k \in 0..m |-> {base}]
           turn == [k \in 1..m |-> [b \in {base} |-> base]]
<1>1. m \in Nat /\ m \in Int /\ 0 \in Int /\ 0 <= m
  BY DEF Line
<1>2. \A i \in (0 + 1)..m : i \in 1..m /\ i \in 0..m /\ i - 1 \in 0..m /\ i # 0
  BY <1>1
<1>3. PushNamespace(base, n) = base
  <2> DEFINE words == {i \in DOMAIN line : line[i] # Space}
  <2>1. ASSUME words # {} PROVE line[Lowest(words)] # "namespace"
    <3>1. words \in SUBSET (DOMAIN line) /\ DOMAIN line = 1..Len(line)
      BY DEF Line
    <3> HIDE DEF words, Token
    <3>2. Lowest(words) \in 1..Len(line)
      BY <2>1, <3>1, LowestOf DEF Line
    <3>3. line[Lowest(words)] \notin HeadsAndBraces
      BY <3>1, <3>2 DEF LeavesAlone
    <3> QED BY <3>3 DEF HeadsAndBraces
  <2>2. base.line = line
    OBVIOUS
  <2> HIDE DEF base
  <2> QED BY <2>1, <2>2 DEF PushNamespace
<1>4. \A i \in (0 + 1)..m : \A b \in T[i - 1] : turn[i][b] = PushNamespace(b, n) /\ turn[i][b] \in T[i]
  <2> HIDE DEF m, base
  <2> QED BY <1>2, <1>3
<1>5. base \in T[0] /\ m \in 0..m /\ \A i \in 0..m : T[i] = {base}
  <2> HIDE DEF base
  <2> QED BY <1>1
<1> HIDE DEF T, turn, m, base
<1>6. PICK g : Runs(g, 0, m, base, turn) /\ \A i \in 0..m : g[i] \in T[i]
  <2>1. \A i \in (0 + 1)..m : \A b \in T[i - 1] : turn[i][b] \in T[i]
    BY <1>4
  <2>2. base \in T[0]
    BY <1>5
  <2> QED BY ONLY <1>1, <2>1, <2>2, LoopRuns
<1>7. g = [k \in 0..m |-> IF k = 0 THEN base ELSE PushNamespace(g[k - 1], n)]
  <2>1. \A i \in 0..m : i # 0 => i \in (0 + 1)..m
    BY <1>1
  <2>2. \A i \in 0..m : i # 0 => turn[i][g[i - 1]] = PushNamespace(g[i - 1], n)
    BY <1>2, <1>4, <1>6, <2>1
  <2> QED BY <1>6, <2>2 DEF Runs
<1> DEFINE f == CHOOSE h : h = [k \in 0..m |-> IF k = 0 THEN base ELSE PushNamespace(h[k - 1], n)]
<1>8. f = [k \in 0..m |-> IF k = 0 THEN base ELSE PushNamespace(f[k - 1], n)]
  BY <1>7
<1>9. PushNamespaces(stack, line, n) = f[m]
  BY DEF PushNamespaces, PushNamespace, m, base
<1> HIDE DEF f
<1>10. f[m] \in T[m]
  <2>1. f[0] \in T[0]
    BY <1>1, <1>5, <1>8
  <2>2. ASSUME NEW i \in (0 + 1)..m, f[i - 1] \in T[i - 1] PROVE f[i] \in T[i]
    BY <1>2, <1>3, <1>5, <1>8, <2>2
  <2> QED BY ONLY <1>1, <2>1, <2>2, LoopKeeps
<1> QED BY <1>5, <1>9, <1>10 DEF base

LEMMA QuietConsume ==
  ASSUME NEW stack \in Stacks({"no"}), NEW line \in LinesOf({"no"}), LeavesAlone(line, stack), NEW n \in Nat
  PROVE  Consume(stack, line, n).stack = stack
<1> DEFINE m == Len(line)
           base == [stack |-> stack, upTo |-> 0, ended |-> << >>]
           Same == {b \in Consumed({"no"}) : b.stack = stack}
           T == [k \in 0..m |-> Same]
           turn == [k \in 1..m |-> [b \in Same |-> ConsumeToken(b, line, k, n)]]
<1>1. m \in Nat /\ m \in Int /\ 0 \in Int /\ 0 <= m
  BY DEF LinesOf
<1>2. \A i \in (0 + 1)..m : i \in 1..m /\ i \in 0..m /\ i - 1 \in 0..m /\ i # 0 /\ i \in Nat
  BY <1>1
<1>3. ASSUME NEW i \in 1..m, NEW b \in Same PROVE ConsumeToken(b, line, i, n) \in Same
  <2>1. b \in Consumed({"no"}) /\ b.stack = stack
    OBVIOUS
  <2>2. ConsumeToken(b, line, i, n) \in Consumed({"no"})
    <3> HIDE DEF Same
    <3> QED BY <2>1, ConsumeTokenIs DEF AreAsms
  <2>3. line[i] \notin HeadsAndBraces /\ (line[i] = ")" => SeenOpenBrace(stack))
    <3>1. i \in DOMAIN line
      BY DEF LinesOf
    <3> QED BY <3>1 DEF LeavesAlone, Has, At
  <2>4. line[i] \notin {"{", "}", ";"}
    BY <2>3 DEF HeadsAndBraces
  <2>5. ConsumeToken(b, line, i, n).stack = stack
    <3>1. CASE line[i] = ")"
      <4>1. \A s : ConsumeStep(stack, s, ")", n) = stack
        BY <2>3, <3>1 DEF ConsumeStep
      <4> QED BY <2>1, <3>1, <4>1 DEF ConsumeToken
    <3>2. CASE line[i] # ")"
      BY <2>1, <2>4, <3>2 DEF ConsumeToken
    <3> QED BY <3>1, <3>2
  <2> QED BY <2>2, <2>5
<1>4. base \in Same
  BY EmptySeq DEF Consumed, Stacks
<1> HIDE DEF Same
<1>5. \A i \in (0 + 1)..m : \A b \in T[i - 1] :
        turn[i][b] = ConsumeToken(b, line, i, n) /\ turn[i][b] \in T[i]
  <2> HIDE DEF m
  <2> QED BY <1>2, <1>3
<1>6. base \in T[0] /\ m \in 0..m /\ \A i \in 0..m : T[i] = Same
  <2> HIDE DEF base
  <2> QED BY <1>1, <1>4
<1> HIDE DEF T, turn, base, m
<1>7. PICK g : Runs(g, 0, m, base, turn) /\ \A i \in 0..m : g[i] \in T[i]
  <2>1. \A i \in (0 + 1)..m : \A b \in T[i - 1] : turn[i][b] \in T[i]
    BY <1>5
  <2> QED BY ONLY <1>1, <1>6, <2>1, LoopRuns
<1>8. g = [k \in 0..m |-> IF k = 0 THEN base ELSE ConsumeToken(g[k - 1], line, k, n)]
  <2>1. \A i \in 0..m : i # 0 => i \in (0 + 1)..m
    BY <1>1
  <2>2. \A i \in 0..m : i # 0 => turn[i][g[i - 1]] = ConsumeToken(g[i - 1], line, i, n)
    BY <1>2, <1>5, <1>7, <2>1
  <2> QED BY <1>7, <2>2 DEF Runs
<1> DEFINE f == CHOOSE h : h = [k \in 0..m |-> IF k = 0 THEN base ELSE ConsumeToken(h[k - 1], line, k, n)]
<1>9. f = [k \in 0..m |-> IF k = 0 THEN base ELSE ConsumeToken(f[k - 1], line, k, n)]
  BY <1>8
<1>10. Consume(stack, line, n) = f[m]
  BY DEF Consume, m, base
<1> HIDE DEF f
<1>11. f[m] \in T[m]
  <2>1. f[0] \in T[0]
    BY <1>1, <1>6, <1>9
  <2>2. ASSUME NEW i \in (0 + 1)..m, f[i - 1] \in T[i - 1] PROVE f[i] \in T[i]
    <3>1. f[i] = ConsumeToken(f[i - 1], line, i, n) /\ i \in 1..m /\ f[i - 1] \in Same
      BY <1>2, <1>6, <1>9, <2>2
    <3> QED BY <1>2, <1>3, <1>6, <3>1
  <2> QED BY ONLY <1>1, <2>1, <2>2, LoopKeeps
<1>12. f[m] \in Same
  BY <1>6, <1>11
<1> QED BY <1>10, <1>12 DEF Same

\* What such a line makes of the stack.
LEMMA QuietLineLeaves ==
  ASSUME NEW stack \in Stacks({"no"}), NEW c, NEW n \in Nat, c.elided[n] \in LinesOf({"no"}),
         LeavesAlone(c.elided[n], stack)
  PROVE  UpdateStack(stack, c, n).stack = stack
<1> DEFINE line == c.elided[n]
<1>1. line \in Line
  BY LinesAre
<1> HIDE DEF line
<1>2. PushNamespaces(CountParentheses(stack, line), line, n) = [stack |-> stack, line |-> line]
  BY <1>1, QuietParentheses, QuietNamespaces DEF line
<1>3. ClassName(line) = {}
  <2>1. At(line, "class") = {} /\ At(line, "struct") = {}
    BY DEF At, LeavesAlone, HeadsAndBraces, line
  <2> QED BY <2>1 DEF ClassName
<1>4. BeforeConsume(stack, c, n) = [stack |-> stack, line |-> line]
  BY <1>2, <1>3 DEF BeforeConsume, PushClass, line
<1>5. SetAccess(stack, line) = stack
  <2>1. Accesses(stack, line) = {}
    BY DEF Accesses, LeavesAlone, HeadsAndBraces, line
  <2> QED BY <2>1 DEF SetAccess
<1>6. UpdateStack(stack, c, n) = Consume(stack, line, n)
  BY <1>4, <1>5 DEF UpdateStack, ConsumeRest
<1> QED BY <1>6, QuietConsume DEF line

-----------------------------------------------------------------------------
(* The conditionals that are open. *)

\* The conditional that line b begins is the j-th of those open at line n: it is that of all
\* the lines between, and those around it were open at b.
IsOpenAt(j, b, n) ==
  /\ b \in 0..n - 1 /\ DirectiveOf(b) \in Conditionals /\ Len(OpenConditionals[b]) = j - 1
  /\ \A k \in 1..j - 1 : OpenConditionals[b][k] = OpenConditionals[n][k]
  /\ \A i \in b + 1..n : j \in 1..Len(OpenConditionals[i]) /\ OpenConditionals[i][j] = b
IsNest(n) ==
  /\ OpenConditionals[n] \in Seq(Int)
  /\ \A j \in 1..Len(OpenConditionals[n]) : IsOpenAt(j, OpenConditionals[n][j], n)

\* The last of a sequence is taken off.
LEMMA PopIs ==
  ASSUME NEW S, NEW s \in Seq(S), s # <<>>
  PROVE  /\ Pop(s) \in Seq(S) /\ Len(s) \in Nat \ {0} /\ Len(Pop(s)) = Len(s) - 1
         /\ \A j \in 1..Len(s) - 1 : Pop(s)[j] = s[j]
<1>1. Len(s) \in Nat \ {0} /\ Pop(s) \in Seq(S)
  BY TopIs
<1>2. Pop(s) = SubSeq(s, 1, Len(s) - 1)
  BY DEF Pop, Take
<1>3. Len(SubSeq(s, 1, Len(s) - 1)) = Len(s) - 1
  <2> DEFINE m == Len(s) - 1
  <2>1. m \in Nat /\ m <= Len(s) /\ 1 \in Nat /\ \A i \in 1..m : i \in 1..Len(s)
    BY <1>1
  <2> HIDE DEF m
  <2>2. Len(SubSeq(s, 1, m)) = m
    BY <2>1, SubSeqProperties
  <2> QED BY <2>2 DEF m
<1>4. \A j \in 1..Len(s) - 1 : SubSeq(s, 1, Len(s) - 1)[j] = s[j]
  BY <1>1
<1> QED BY <1>1, <1>2, <1>3, <1>4

LEMMA NestNext ==
  ASSUME NEW n \in Nat, IsNest(n), OpenConditionals[n + 1] = OpensOn(OpenConditionals[n], n)
  PROVE  IsNest(n + 1)
<1> DEFINE s == OpenConditionals[n]
           t == OpenConditionals[n + 1]
<1>1. s \in Seq(Int) /\ Len(s) \in Nat /\ n + 1 \in Nat
  BY DEF IsNest
<1>2. \A j \in 1..Len(s) : IsOpenAt(j, s[j], n)
  BY DEF IsNest
<1>3. \/ t = Append(s, n) /\ DirectiveOf(n) \in Conditionals
      \/ t = Pop(s) /\ s # <<>>
      \/ t = s
  BY Zenon DEF OpensOn
<1> HIDE DEF s, t
<1>4. ASSUME NEW j \in 1..Len(s), j \in 1..Len(t), \A k \in 1..j : t[k] = s[k] PROVE IsOpenAt(j, t[j], n + 1)
  <2> DEFINE b == s[j]
  <2>1. /\ b \in 0..n - 1 /\ DirectiveOf(b) \in Conditionals /\ Len(OpenConditionals[b]) = j - 1
        /\ \A k \in 1..j - 1 : OpenConditionals[b][k] = s[k]
        /\ \A i \in b + 1..n : j \in 1..Len(OpenConditionals[i]) /\ OpenConditionals[i][j] = b
    BY <1>2 DEF IsOpenAt, s
  <2>2. t[j] = b /\ b \in 0..(n + 1) - 1
    BY <1>4, <2>1
  <2>3. \A k \in 1..j - 1 : t[k] = s[k]
    BY <1>1, <1>4
  <2>4. \A i \in b + 1..n + 1 : i \in b + 1..n \/ i = n + 1
    BY <2>1
  <2> HIDE DEF b
  <2>5. \A i \in b + 1..n + 1 : j \in 1..Len(OpenConditionals[i]) /\ OpenConditionals[i][j] = b
    BY <1>4, <2>1, <2>2, <2>4 DEF t
  <2> QED BY <2>1, <2>2, <2>3, <2>5 DEF IsOpenAt, t
<1>5. CASE t = Append(s, n) /\ DirectiveOf(n) \in Conditionals
  <2>1. t \in Seq(Int) /\ Len(t) = Len(s) + 1 /\ t[Len(s) + 1] = n /\ \A k \in 1..Len(s) : t[k] = s[k]
    BY <1>1, <1>5
  <2>2. IsOpenAt(Len(s) + 1, n, n + 1)
    <3>1. n \in 0..(n + 1) - 1 /\ Len(s) = (Len(s) + 1) - 1 /\ Len(s) + 1 \in 1..Len(t)
      BY <1>1, <2>1
    <3>2. \A i \in n + 1..n + 1 : i = n + 1
      OBVIOUS
    <3> QED BY <1>5, <2>1, <3>1, <3>2 DEF IsOpenAt, s, t
  <2>3. \A j \in 1..Len(t) : j = Len(s) + 1 \/ (j \in 1..Len(s) /\ \A k \in 1..j : k \in 1..Len(s))
    BY <1>1, <2>1
  <2>4. \A j \in 1..Len(t) : IsOpenAt(j, t[j], n + 1)
    BY <1>4, <2>1, <2>2, <2>3
  <2> QED BY <2>1, <2>4 DEF IsNest, t
<1>6. CASE t = Pop(s) /\ s # <<>>
  <2>1. t \in Seq(Int) /\ Len(t) = Len(s) - 1 /\ \A k \in 1..Len(s) - 1 : t[k] = s[k]
    BY <1>1, <1>6, PopIs
  <2>2. \A j \in 1..Len(t) : j \in 1..Len(s) /\ \A k \in 1..j : k \in 1..Len(s) - 1
    BY <1>1, <2>1
  <2>3. \A j \in 1..Len(t) : IsOpenAt(j, t[j], n + 1)
    BY <1>4, <2>1, <2>2
  <2> QED BY <2>1, <2>3 DEF IsNest, t
<1>7. CASE t = s
  BY <1>1, <1>4, <1>7 DEF IsNest, t
<1> QED BY <1>3, <1>5, <1>6, <1>7

LEMMA NestsAre ==
  ASSUME ReportsInv, next >= 0
  PROVE  \A n \in 0..LastLine + 1 : IsNest(n)
<1> DEFINE N == LastLine + 1
           T == {n \in 0..N : IsNest(n)}
<1>1. LastLine \in Nat /\ N \in Int /\ 0 \in Int /\ 0 <= N /\ 0 \in 0..N
  BY TextIsRead
<1>2. IsNest(0)
  <2>1. OpenConditionals[0] = <<>>
    BY OpenConditionalsAre
  <2>2. <<>> \in Seq(Int) /\ \A j : j \notin 1..Len(<<>>)
    BY EmptySeq
  <2> QED BY <2>1, <2>2 DEF IsNest
<1>3. ASSUME NEW i \in (0 + 1)..N, i - 1 \in T PROVE i \in T
  <2> DEFINE n == i - 1
  <2>1. n \in Nat /\ n \in 0..LastLine /\ n + 1 = i /\ i \in 0..N
    BY <1>1
  <2>2. OpenConditionals[n + 1] = OpensOn(OpenConditionals[n], n) /\ IsNest(n)
    BY <1>3, <2>1, OpenConditionalsAre
  <2> HIDE DEF n
  <2>3. IsNest(n + 1)
    BY <2>1, <2>2, NestNext
  <2> QED BY <2>1, <2>3
<1>4. 0 \in T
  BY <1>1, <1>2
<1> HIDE DEF T, N
<1>5. 0..N \subseteq T
  BY ONLY <1>1, <1>3, <1>4, Steps
<1> QED BY <1>5 DEF T, N

\* The conditionals open at line n, as a set, and what there is to know of them.
Within(n) == ToSet(OpenConditionals[n])
AreOpened ==
  /\ LastLine \in Nat
  /\ \A n \in 0..LastLine : OpenConditionals[n + 1] = OpensOn(OpenConditionals[n], n)
  /\ \A n \in 0..LastLine + 1 : IsNest(n)

LEMMA AreOpenedIs == ReportsInv /\ next >= 0 => AreOpened
BY TextIsRead, OpenConditionalsAre, NestsAre DEF AreOpened

LEMMA WithinIs ==
  ASSUME AreOpened, NEW n \in 0..LastLine + 1, NEW b \in Within(n)
  PROVE  /\ b \in 0..n - 1 /\ DirectiveOf(b) \in Conditionals /\ \A i \in b + 1..n : b \in Within(i)
         /\ \A a : a \in Within(b) <=> a \in Within(n) /\ a < b
<1>1. OpenConditionals[n] \in Seq(Int) /\ \A j \in 1..Len(OpenConditionals[n]) : IsOpenAt(j, OpenConditionals[n][j], n)
  BY DEF AreOpened, IsNest
<1>2. PICK j \in 1..Len(OpenConditionals[n]) : OpenConditionals[n][j] = b
  BY <1>1 DEF Within, ToSet
<1>3. /\ b \in 0..n - 1 /\ DirectiveOf(b) \in Conditionals /\ Len(OpenConditionals[b]) = j - 1
      /\ \A k \in 1..j - 1 : OpenConditionals[b][k] = OpenConditionals[n][k]
      /\ \A i \in b + 1..n : j \in 1..Len(OpenConditionals[i]) /\ OpenConditionals[i][j] = b
  BY <1>1, <1>2 DEF IsOpenAt
<1>4. LastLine \in Nat /\ b \in 0..LastLine + 1 /\ n \in Nat /\ \A i \in b + 1..n : i \in 0..LastLine + 1
  BY <1>3 DEF AreOpened
<1>5. \A i \in 0..LastLine + 1 : DOMAIN OpenConditionals[i] = 1..Len(OpenConditionals[i])
  BY DEF AreOpened, IsNest
<1>6. \A i \in b + 1..n : b \in Within(i)
  BY <1>3, <1>4, <1>5 DEF Within, ToSet
<1>7. DOMAIN OpenConditionals[b] = 1..j - 1 /\ \A k \in 1..j - 1 : k \in 1..Len(OpenConditionals[n])
  BY <1>1, <1>2, <1>3, <1>4, <1>5
<1>8. ASSUME NEW a \in Within(b) PROVE a \in Within(n) /\ a < b
  <2>1. PICK k \in 1..j - 1 : OpenConditionals[b][k] = a
    BY <1>7 DEF Within, ToSet
  <2>2. a \in Within(n)
    BY <1>3, <1>4, <1>5, <1>7, <2>1 DEF Within, ToSet
  <2>3. IsOpenAt(k, a, b)
    BY <1>3, <1>4, <2>1 DEF AreOpened, IsNest
  <2> QED BY <1>3, <2>2, <2>3 DEF IsOpenAt
<1>9. ASSUME NEW a \in Within(n), a < b PROVE a \in Within(b)
  <2>1. PICK k \in 1..Len(OpenConditionals[n]) : OpenConditionals[n][k] = a
    BY <1>1 DEF Within, ToSet
  <2>2. IsOpenAt(k, a, n)
    BY <1>1, <2>1
  <2>3. ~(j < k)
    <3> SUFFICES ASSUME j < k PROVE FALSE
      OBVIOUS
    <3>1. a \in 0..n - 1 /\ Len(OpenConditionals[a]) = k - 1 /\ j \in 1..k - 1
      BY <1>2, <2>1, <2>2 DEF IsOpenAt
    <3>2. OpenConditionals[a][j] = b
      BY <1>2, <2>2, <3>1 DEF IsOpenAt
    <3>3. IsOpenAt(j, b, a)
      <4>1. a \in 0..LastLine + 1 /\ j \in 1..Len(OpenConditionals[a])
        BY <1>4, <3>1
      <4>2. IsOpenAt(j, OpenConditionals[a][j], a)
        BY <4>1 DEF AreOpened, IsNest
      <4> QED BY <3>2, <4>2
    <3>4. b \in 0..a - 1
      BY <3>3 DEF IsOpenAt
    <3> QED BY <1>3, <1>9, <3>1, <3>4
  <2>4. j # k
    BY <1>2, <1>3, <1>9, <2>1
  <2>5. k \in 1..j - 1
    BY <1>2, <2>1, <2>3, <2>4
  <2> QED BY <1>3, <1>7, <2>1, <2>5 DEF Within, ToSet
<1> QED BY <1>3, <1>6, <1>8, <1>9

\* The innermost, and those around it.
LEMMA InnermostIs ==
  ASSUME AreOpened, NEW n \in 0..LastLine + 1, OpenConditionals[n] # <<>>
  PROVE  /\ Top(OpenConditionals[n]) \in Within(n) /\ \A a \in Within(n) : a <= Top(OpenConditionals[n])
         /\ Within(n) = Within(Top(OpenConditionals[n])) \cup {Top(OpenConditionals[n])}
         /\ Top(OpenConditionals[n]) \notin Within(Top(OpenConditionals[n]))
         /\ ToSet(Pop(OpenConditionals[n])) = Within(Top(OpenConditionals[n]))
<1> DEFINE s == OpenConditionals[n]
           m == Len(s)
           b == Top(s)
<1>1. /\ s \in Seq(Int) /\ m \in Nat \ {0} /\ m \in 1..m /\ DOMAIN s = 1..m /\ b = s[m]
      /\ Pop(s) \in Seq(Int) /\ Len(Pop(s)) = m - 1 /\ \A j \in 1..m - 1 : Pop(s)[j] = s[j]
  <2>1. s \in Seq(Int) /\ s # <<>>
    BY DEF AreOpened, IsNest
  <2> HIDE DEF s
  <2> QED BY <2>1, PopIs DEF Top
<1>2. \A j \in 1..m : IsOpenAt(j, s[j], n)
  BY DEF AreOpened, IsNest
<1>3. b \in Within(n)
  BY <1>1 DEF Within, ToSet
<1>4. /\ b \in 0..n - 1 /\ Len(OpenConditionals[b]) = m - 1
      /\ \A k \in 1..m - 1 : OpenConditionals[b][k] = s[k]
  <2>1. s = OpenConditionals[n] /\ IsOpenAt(m, b, n)
    BY <1>1, <1>2
  <2> HIDE DEF s, m, b
  <2> QED BY <1>1, <2>1 DEF IsOpenAt
<1>5. \A a : a \in Within(b) <=> a \in Within(n) /\ a < b
  BY <1>3, WithinIs
<1>6. OpenConditionals[b] \in Seq(Int)
  BY <1>4 DEF AreOpened, IsNest
<1> HIDE DEF s, m, b
<1>7. DOMAIN OpenConditionals[b] = 1..m - 1 /\ DOMAIN Pop(s) = 1..m - 1
  BY <1>1, <1>4, <1>6
<1>8. ToSet(Pop(s)) = Within(b)
  BY <1>1, <1>4, <1>7 DEF ToSet, Within
<1>9. \A a \in Within(n) : a = b \/ a \in Within(b)
  <2> SUFFICES ASSUME NEW a \in Within(n) PROVE a = b \/ a \in Within(b)
    OBVIOUS
  <2>1. PICK k \in 1..m : s[k] = a
    BY <1>1 DEF Within, ToSet, s
  <2>2. k = m \/ k \in 1..m - 1
    BY <1>1
  <2> QED BY <1>1, <1>4, <1>7, <2>1, <2>2 DEF Within, ToSet
<1>10. b \in Int /\ \A a \in Within(n) : a <= b
  <2>1. b \in Int /\ \A a \in Within(n) : a \in Int
    BY <1>3, WithinIs
  <2> QED BY <1>5, <1>9, <2>1
<1>11. ~(b < b)
  BY <1>10
<1>12. Within(n) = Within(b) \cup {b} /\ b \notin Within(b)
  BY <1>3, <1>5, <1>9, <1>11
<1> QED BY <1>3, <1>8, <1>10, <1>12 DEF s, b

\* What a line does to them.
LEMMA WithinNext ==
  ASSUME AreOpened, NEW n \in 0..LastLine
  PROVE  /\ DirectiveOf(n) \in Conditionals => Within(n + 1) = Within(n) \cup {n}
         /\ DirectiveOf(n) = "#endif" /\ OpenConditionals[n] # <<>> =>
              Within(n + 1) = Within(Top(OpenConditionals[n]))
         /\ DirectiveOf(n) \notin Conditionals /\ (DirectiveOf(n) = "#endif" => OpenConditionals[n] = <<>>) =>
              Within(n + 1) = Within(n)
<1>1. /\ OpenConditionals[n + 1] = OpensOn(OpenConditionals[n], n) /\ OpenConditionals[n] \in Seq(Int)
      /\ n \in 0..LastLine + 1
  BY DEF AreOpened, IsNest
<1>2. ASSUME DirectiveOf(n) \in Conditionals PROVE Within(n + 1) = Within(n) \cup {n}
  BY <1>1, <1>2, AppendMembers DEF OpensOn, Within
<1>3. ASSUME DirectiveOf(n) = "#endif", OpenConditionals[n] # <<>>
      PROVE  Within(n + 1) = Within(Top(OpenConditionals[n]))
  <2>1. OpenConditionals[n + 1] = Pop(OpenConditionals[n])
    BY <1>1, <1>3 DEF OpensOn, Conditionals
  <2> QED BY <1>1, <1>3, <2>1, InnermostIs DEF Within
<1>4. ASSUME DirectiveOf(n) \notin Conditionals, DirectiveOf(n) = "#endif" => OpenConditionals[n] = <<>>
      PROVE  Within(n + 1) = Within(n)
  BY <1>1, <1>4 DEF OpensOn, Within
<1> QED BY <1>2, <1>3, <1>4

-----------------------------------------------------------------------------
(* The lines taken. *)

\* The alternatives of a conditional among the lines up to i, and the branch i is in.
IsBranchOf(a, b) ==
  DirectiveOf(a) \in Alternatives /\ OpenConditionals[a] # <<>> /\ Top(OpenConditionals[a]) = b
AlternativesOf(b, i) == {a \in b + 1..i : IsBranchOf(a, b)}
BranchOf(b, i) == Highest({b} \cup AlternativesOf(b, i))
PickedOf(b, n) == IF b \in Within(n) THEN BranchOf(b, n - 1) ELSE b
IsTaken(i, n) == DirectiveOf(i) \notin Directives /\ \A b \in Within(i) : BranchOf(b, i) = PickedOf(b, n)

LEMMA TakenIs ==
  ASSUME NEW n
  PROVE  Taken(n) = {i \in 0..n - 1 : IsTaken(i, n)}
BY DEF Taken, IsTaken, Within, PickedOf, BranchOf, AlternativesOf, IsBranchOf

LEMMA BranchIs ==
  ASSUME NEW b \in Int, NEW i \in Int, b <= i
  PROVE  /\ AlternativesOf(b, i) = {} => BranchOf(b, i) = b
         /\ AlternativesOf(b, i) # {} =>
              BranchOf(b, i) \in AlternativesOf(b, i) /\ BranchOf(b, i) > b
         /\ \A a \in AlternativesOf(b, i) : a \in Int /\ a <= BranchOf(b, i) /\ a > b
         /\ BranchOf(b, i) \in Int /\ BranchOf(b, i) <= i
<1> DEFINE A == AlternativesOf(b, i)
           S == {b} \cup A
<1>1. A \subseteq b + 1..i
  BY DEF AlternativesOf
<1> HIDE DEF A
<1>2. S \in SUBSET (b..i) /\ S # {}
  BY <1>1
<1> HIDE DEF S
<1>3. Highest(S) \in S /\ \A y \in S : Highest(S) >= y
  BY <1>2, HighestIs
<1>4. BranchOf(b, i) = Highest(S)
  BY DEF BranchOf, S, A
<1>5. \A a \in A : a \in Int /\ a > b /\ a <= i /\ a \in S
  BY <1>1 DEF S
<1>6. Highest(S) = b \/ Highest(S) \in A
  BY <1>3 DEF S
<1>7. A # {} => Highest(S) \in A
  <2> SUFFICES ASSUME NEW a \in A, Highest(S) = b PROVE FALSE
    BY <1>6
  <2> QED BY <1>3, <1>5
<1>8. \A a \in A : a <= Highest(S)
  <2>1. Highest(S) \in Int
    BY <1>5, <1>6
  <2> QED BY <1>3, <1>5, <2>1
<1> QED BY <1>4, <1>5, <1>6, <1>7, <1>8 DEF A

\* While a conditional is open, those around it have no alternatives.
LEMMA NoAlternativesAround ==
  ASSUME AreOpened, NEW n \in 0..LastLine + 1, NEW c \in Within(n), NEW b \in Int, b < c,
         NEW i \in c - 1..n
  PROVE  AlternativesOf(b, i) = AlternativesOf(b, c - 1)
<1>1. c \in 0..n - 1 /\ DirectiveOf(c) \in Conditionals /\ \A a \in c + 1..n : c \in Within(a)
  BY WithinIs
<1>2. LastLine \in Nat /\ n \in Nat
  BY DEF AreOpened
<1>3. ASSUME NEW a \in AlternativesOf(b, i), a \notin b + 1..c - 1 PROVE FALSE
  <2>1. /\ a \in b + 1..i /\ DirectiveOf(a) \in Alternatives
        /\ OpenConditionals[a] # <<>> /\ Top(OpenConditionals[a]) = b
    BY DEF AlternativesOf, IsBranchOf
  <2>2. a # c
    BY <1>1, <2>1 DEF Conditionals, Alternatives
  <2>3. a \in c + 1..n /\ a \in 0..LastLine + 1
    BY <1>1, <1>2, <1>3, <2>1, <2>2
  <2>4. c <= b
    BY <1>1, <2>1, <2>3, InnermostIs
  <2> QED BY <1>1, <2>4
<1>4. \A a \in b + 1..c - 1 : a \in b + 1..i
  BY <1>1, <1>2
<1> QED BY <1>3, <1>4 DEF AlternativesOf

\* A line adds an alternative to the innermost conditional, or to none.
LEMMA AlternativesNext ==
  ASSUME NEW n \in Nat, NEW b \in 0..n - 1
  PROVE  /\ IsBranchOf(n, b) => AlternativesOf(b, n) = AlternativesOf(b, n - 1) \cup {n}
         /\ ~IsBranchOf(n, b) => AlternativesOf(b, n) = AlternativesOf(b, n - 1)
<1>1. \A a : a \in b + 1..n <=> a \in b + 1..n - 1 \/ a = n
  OBVIOUS
<1> QED BY <1>1 DEF AlternativesOf

\* The branch picked of a conditional stays, unless it ends or the line is a branch of it.
LEMMA PickedNext ==
  ASSUME AreOpened, NEW n \in 0..LastLine, NEW b \in 0..n - 1,
         b \in Within(n + 1) <=> b \in Within(n), ~IsBranchOf(n, b)
  PROVE  PickedOf(b, n + 1) = PickedOf(b, n)
<1>1. n \in Nat /\ (n + 1) - 1 = n
  BY DEF AreOpened
<1>2. AlternativesOf(b, n) = AlternativesOf(b, n - 1)
  BY <1>1, AlternativesNext
<1> QED BY <1>1, <1>2 DEF PickedOf, BranchOf

\* A line that is no directive is taken.
LEMMA TakenPlain ==
  ASSUME AreOpened, NEW n \in 0..LastLine, DirectiveOf(n) \notin Directives
  PROVE  Taken(n + 1) = Taken(n) \cup {n}
<1>1. n \in Nat /\ (n + 1) - 1 = n /\ LastLine \in Nat
  BY DEF AreOpened
<1>2. Within(n + 1) = Within(n)
  BY WithinNext DEF Directives
<1>3. ASSUME NEW i \in 0..n - 1 PROVE IsTaken(i, n + 1) <=> IsTaken(i, n)
  <2>1. \A b \in Within(i) : b \in 0..n - 1
    BY <1>1, WithinIs
  <2>2. \A b \in Within(i) : PickedOf(b, n + 1) = PickedOf(b, n)
    BY <1>2, <2>1, PickedNext DEF Directives, IsBranchOf
  <2> QED BY <2>2 DEF IsTaken
<1>4. IsTaken(n, n + 1)
  BY <1>1, <1>2 DEF IsTaken, PickedOf
<1>5. \A i : i \in 0..(n + 1) - 1 <=> i \in 0..n - 1 \/ i = n
  BY <1>1
<1> QED BY <1>3, <1>4, <1>5, TakenIs

\* Nor are lines taken out where a conditional begins, or ends without alternatives.
LEMMA TakenSame ==
  ASSUME AreOpened, NEW n \in 0..LastLine, DirectiveOf(n) \in Directives,
         DirectiveOf(n) \in Alternatives => OpenConditionals[n] = <<>>,
         DirectiveOf(n) = "#endif" /\ OpenConditionals[n] # <<>> =>
           AlternativesOf(Top(OpenConditionals[n]), n - 1) = {}
  PROVE  Taken(n + 1) = Taken(n)
<1>1. n \in Nat /\ (n + 1) - 1 = n /\ LastLine \in Nat /\ n \in 0..LastLine + 1
  BY DEF AreOpened
<1>2. ASSUME NEW i \in 0..n - 1, NEW b \in Within(i) PROVE PickedOf(b, n + 1) = PickedOf(b, n)
  <2>1. b \in 0..n - 1 /\ b # n
    BY <1>1, WithinIs
  <2>2. CASE b \in Within(n + 1) <=> b \in Within(n)
    BY <2>1, <2>2, PickedNext DEF IsBranchOf
  <2>3. CASE ~(b \in Within(n + 1) <=> b \in Within(n))
    <3> DEFINE c == Top(OpenConditionals[n])
    <3>1. /\ DirectiveOf(n) = "#endif" /\ OpenConditionals[n] # <<>> /\ Within(n + 1) = Within(c)
      BY <2>1, <2>3, WithinNext DEF Directives
    <3>2. Within(n) = Within(c) \cup {c} /\ c \notin Within(c) /\ c \in Within(n)
      BY <1>1, <3>1, InnermostIs
    <3>3. b = c /\ b \in Within(n) /\ b \notin Within(n + 1)
      BY <2>3, <3>1, <3>2
    <3> HIDE DEF c
    <3>4. AlternativesOf(b, n - 1) = {} /\ b \in Int /\ n - 1 \in Int /\ b <= n - 1
      BY <1>1, <2>1, <3>1, <3>3 DEF c
    <3>5. BranchOf(b, n - 1) = b
      BY <3>4, BranchIs
    <3> QED BY <3>3, <3>5 DEF PickedOf
  <2> QED BY <2>2, <2>3
<1>3. \A i \in 0..n - 1 : IsTaken(i, n + 1) <=> IsTaken(i, n)
  BY <1>2 DEF IsTaken
<1>4. ~IsTaken(n, n + 1)
  BY DEF IsTaken
<1>5. \A i : i \in 0..(n + 1) - 1 <=> i \in 0..n - 1 \/ i = n
  BY <1>1
<1> QED BY <1>3, <1>4, <1>5, TakenIs

\* An alternative takes out all the lines of the conditional.
LEMMA TakenAlternative ==
  ASSUME AreOpened, NEW n \in 0..LastLine, DirectiveOf(n) \in Alternatives, OpenConditionals[n] # <<>>,
         NEW c, c = Top(OpenConditionals[n])
  PROVE  c \in 0..n - 1 /\ Taken(n + 1) = Taken(c)
<1>1. n \in Nat /\ (n + 1) - 1 = n /\ LastLine \in Nat /\ n \in 0..LastLine + 1
  BY DEF AreOpened
<1>2. c \in Within(n)
  BY <1>1, InnermostIs
<1>3. /\ c \in 0..n - 1 /\ DirectiveOf(c) \in Conditionals /\ \A i \in c + 1..n : c \in Within(i)
      /\ \A a : a \in Within(c) <=> a \in Within(n) /\ a < c
  BY <1>1, <1>2, WithinIs
<1>4. Within(n + 1) = Within(n)
  BY WithinNext DEF Conditionals, Alternatives
<1>5. ASSUME NEW i \in c + 1..n - 1 PROVE ~IsTaken(i, n + 1)
  <2>1. c \in Within(i) /\ c \in Int /\ i \in Int /\ n \in Int /\ c <= i /\ c <= n
    BY <1>1, <1>3
  <2>2. n \in AlternativesOf(c, n)
    BY <1>1, <1>3 DEF AlternativesOf, IsBranchOf
  <2>3. n <= BranchOf(c, n) /\ BranchOf(c, n) \in Int /\ BranchOf(c, i) \in Int /\ BranchOf(c, i) <= i
    BY <2>1, <2>2, BranchIs
  <2>4. BranchOf(c, i) # BranchOf(c, n)
    BY <2>1, <2>3
  <2>5. PickedOf(c, n + 1) = BranchOf(c, n)
    BY <1>1, <1>2, <1>4 DEF PickedOf
  <2> QED BY <2>1, <2>4, <2>5 DEF IsTaken
<1>6. ASSUME NEW i \in 0..c - 1, NEW b \in Within(i) PROVE PickedOf(b, n + 1) = PickedOf(b, c)
  <2>1. b \in Int /\ b < c /\ i \in 0..LastLine + 1 /\ n \in c - 1..n
    <3>1. i \in 0..LastLine + 1 /\ n \in c - 1..n
      BY <1>1, <1>3
    <3>2. b \in 0..i - 1
      BY <3>1, WithinIs
    <3> QED BY <1>3, <3>1, <3>2
  <2>2. AlternativesOf(b, n) = AlternativesOf(b, c - 1)
    BY <1>1, <1>2, <2>1, NoAlternativesAround
  <2> QED BY <1>1, <1>3, <1>4, <2>1, <2>2 DEF PickedOf, BranchOf
<1>7. \A i \in 0..c - 1 : IsTaken(i, n + 1) <=> IsTaken(i, c)
  BY <1>6 DEF IsTaken
<1>8. ~IsTaken(n, n + 1) /\ ~IsTaken(c, n + 1)
  BY <1>3 DEF IsTaken, Directives
<1>9. \A i : i \in 0..(n + 1) - 1 <=> i \in 0..c - 1 \/ i = c \/ i \in c + 1..n - 1 \/ i = n
  BY <1>1, <1>3
<1> QED BY <1>3, <1>5, <1>7, <1>8, <1>9, TakenIs

\* At the end of a conditional the lines of its first branch are taken again.
LEMMA TakenEnd ==
  ASSUME AreOpened, NEW n \in 0..LastLine, DirectiveOf(n) = "#endif", OpenConditionals[n] # <<>>,
         NEW c, c = Top(OpenConditionals[n]), AlternativesOf(c, n - 1) # {},
         NEW m, m = Lowest(AlternativesOf(c, n - 1))
  PROVE  m \in 0..n - 1 /\ Taken(n + 1) = Taken(m)
<1>1. n \in Nat /\ (n + 1) - 1 = n /\ LastLine \in Nat /\ n \in 0..LastLine + 1
  BY DEF AreOpened
<1>2. c \in Within(n)
  BY <1>1, InnermostIs
<1>3. /\ c \in 0..n - 1 /\ DirectiveOf(c) \in Conditionals /\ \A i \in c + 1..n : c \in Within(i)
      /\ \A a : a \in Within(c) <=> a \in Within(n) /\ a < c
  BY <1>1, <1>2, WithinIs
<1>4. m \in AlternativesOf(c, n - 1) /\ \A a \in AlternativesOf(c, n - 1) : m <= a
  <2> DEFINE A == AlternativesOf(c, n - 1)
  <2>1. A \in SUBSET Nat
    BY <1>1, <1>3 DEF AlternativesOf
  <2> HIDE DEF A
  <2>2. Lowest(A) \in A /\ \A a \in A : Lowest(A) <= a
    BY <2>1, LowestIs DEF A
  <2> QED BY <2>2 DEF A
<1>5. m \in c + 1..n - 1 /\ OpenConditionals[m] # <<>> /\ Top(OpenConditionals[m]) = c
  BY <1>4 DEF AlternativesOf, IsBranchOf
<1>6. m \in 0..LastLine + 1
  BY <1>1, <1>3, <1>5
<1>7. Within(m) = Within(c) \cup {c} /\ c \notin Within(c) /\ Within(n + 1) = Within(c)
  BY <1>5, <1>6, InnermostIs, WithinNext
<1>8. ASSUME NEW i \in m..n - 1 PROVE ~IsTaken(i, n + 1)
  <2>1. c \in Within(i) /\ c \in Int /\ i \in Int /\ c <= i
    BY <1>1, <1>3, <1>5
  <2>2. m \in AlternativesOf(c, i)
    BY <1>1, <1>4, <1>5 DEF AlternativesOf
  <2>3. BranchOf(c, i) > c /\ BranchOf(c, i) \in Int
    BY <2>1, <2>2, BranchIs
  <2>4. BranchOf(c, i) # c
    BY <2>1, <2>3
  <2>5. PickedOf(c, n + 1) = c
    BY <1>7 DEF PickedOf
  <2> QED BY <2>1, <2>4, <2>5 DEF IsTaken
<1>9. ASSUME NEW i \in 0..m - 1, NEW b \in Within(i) PROVE PickedOf(b, n + 1) = PickedOf(b, m)
  <2>1. CASE b = c
    <3>1. AlternativesOf(c, m - 1) = {}
      <4> SUFFICES ASSUME NEW a \in AlternativesOf(c, m - 1) PROVE FALSE
        OBVIOUS
      <4>1. a \in AlternativesOf(c, n - 1) /\ a \in c + 1..m - 1
        BY <1>1, <1>3, <1>5 DEF AlternativesOf
      <4> QED BY <1>3, <1>4, <1>5, <4>1
    <3>2. c \in Int /\ m - 1 \in Int /\ c <= m - 1
      BY <1>1, <1>3, <1>5
    <3>3. BranchOf(c, m - 1) = c
      BY <3>1, <3>2, BranchIs
    <3> QED BY <1>7, <2>1, <3>3 DEF PickedOf
  <2>2. CASE b \in Within(c)
    <3>1. b \in Int /\ b < c
      <4>1. i \in 0..LastLine + 1
        BY <1>1, <1>5, <1>3
      <4>2. b \in 0..i - 1
        BY <4>1, WithinIs
      <4> QED BY <1>3, <2>2, <4>2
    <3>2. n \in c - 1..n /\ m - 1 \in c - 1..n
      BY <1>1, <1>3, <1>5
    <3>3. AlternativesOf(b, n) = AlternativesOf(b, c - 1) /\ AlternativesOf(b, m - 1) = AlternativesOf(b, c - 1)
      BY <1>1, <1>2, <3>1, <3>2, NoAlternativesAround
    <3> QED BY <1>1, <1>7, <2>2, <3>3 DEF PickedOf, BranchOf
  <2>3. CASE b # c /\ b \notin Within(c)
    BY <1>7, <2>3 DEF PickedOf
  <2> QED BY <2>1, <2>2, <2>3
<1>10. \A i \in 0..m - 1 : IsTaken(i, n + 1) <=> IsTaken(i, m)
  BY <1>9 DEF IsTaken
<1>11. ~IsTaken(n, n + 1)
  BY DEF IsTaken, Directives
<1>12. \A i : i \in 0..(n + 1) - 1 <=> i \in 0..m - 1 \/ i \in m..n - 1 \/ i = n
  BY <1>1, <1>3, <1>5
<1>13. m \in 0..n - 1
  BY <1>3, <1>5
<1> QED BY <1>8, <1>10, <1>11, <1>12, <1>13, TakenIs

-----------------------------------------------------------------------------
(* What the lines taken make of the stack. *)

RunOn(stack, S, i) == IF i \in S THEN UpdateStack(stack, clean, i).stack ELSE stack
RunUpto(S, n) ==
  CHOOSE h : h = [i \in 0..n |-> IF i = 0 THEN <<>>
                                 ELSE IF i - 1 \in S THEN UpdateStack(h[i - 1], clean, i - 1).stack
                                 ELSE h[i - 1]]

LEMMA RunUptoIs ==
  ASSUME ReportsInv, next >= 0, NEW S, NEW n \in 0..LastLine + 1
  PROVE  /\ RunUpto(S, n)[0] = <<>>
         /\ \A i \in 1..n : RunUpto(S, n)[i] = RunOn(RunUpto(S, n)[i - 1], S, i - 1)
<1> DEFINE T == [i \in 0..n |-> Stacks(AllAsms)]
           turn == [i \in 1..n |-> [s \in Stacks(AllAsms) |-> RunOn(s, S, i - 1)]]
           none == <<>>
<1>1. LastLine \in Nat /\ IsText(clean, LastLine)
  BY TextIsRead
<1>2. /\ n \in Int /\ 0 \in Int /\ 0 <= n /\ 0 \in 0..n
      /\ \A i \in (0 + 1)..n : i \in 1..n /\ i - 1 \in 0..n /\ i \in 0..n /\ i - 1 \in 0..LastLine /\ i # 0
  BY <1>1
<1>3. ASSUME NEW i \in 0..LastLine, NEW s \in Stacks(AllAsms) PROVE RunOn(s, S, i) \in Stacks(AllAsms)
  <2>1. clean.elided[i] \in LinesOf(AllAsms) /\ AreAsms(AllAsms)
    BY <1>1, ElidedIs
  <2>2. UpdateStack(s, clean, i) \in Consumed(AllAsms)
    BY <1>1, <2>1, UpdateStackIs
  <2> QED BY <2>2 DEF RunOn, Consumed
<1>4. \A i \in 1..n, s \in Stacks(AllAsms) : turn[i][s] = RunOn(s, S, i - 1)
  OBVIOUS
<1>5. \A i \in 0..n : T[i] = Stacks(AllAsms)
  OBVIOUS
<1>6. none \in T[0]
  BY <1>2, EmptySeq DEF Stacks
<1> HIDE DEF T, turn, none
<1>7. \A i \in (0 + 1)..n : \A q \in T[i - 1] : turn[i][q] \in T[i]
  BY <1>2, <1>3, <1>4, <1>5
<1>8. PICK f : Runs(f, 0, n, none, turn) /\ \A i \in 0..n : f[i] \in T[i]
  BY ONLY <1>2, <1>6, <1>7, LoopRuns
<1>9. f = [i \in 0..n |-> IF i = 0 THEN none ELSE RunOn(f[i - 1], S, i - 1)]
  <2>1. ASSUME NEW i \in 0..n, i # 0 PROVE turn[i][f[i - 1]] = RunOn(f[i - 1], S, i - 1)
    <3>1. i \in (0 + 1)..n
      BY <2>1
    <3> QED BY <1>2, <1>4, <1>5, <1>8, <3>1
  <2> QED BY <1>8, <2>1 DEF Runs
<1> DEFINE g == RunUpto(S, n)
<1>10. g = CHOOSE h : h = [i \in 0..n |-> IF i = 0 THEN none ELSE RunOn(h[i - 1], S, i - 1)]
  BY DEF RunUpto, RunOn, none
<1> HIDE DEF g
<1>11. g = [i \in 0..n |-> IF i = 0 THEN none ELSE RunOn(g[i - 1], S, i - 1)]
  BY <1>9, <1>10
<1>12. g[0] = <<>> /\ \A i \in 0..n : i # 0 => g[i] = RunOn(g[i - 1], S, i - 1)
  BY <1>2, <1>11 DEF none
<1>13. \A i \in 1..n : i \in 0..n /\ i # 0
  BY <1>2
<1> QED BY <1>12, <1>13 DEF g

LEMMA StackOfTakenIs ==
  ASSUME NEW n
  PROVE  StackOfTaken(n) = RunUpto(Taken(n), n)[n]
BY DEF StackOfTaken, RunUpto

\* Two sets of lines that agree up to m have the same stack there.
LEMMA RunsAgree ==
  ASSUME ReportsInv, next >= 0, NEW n \in 0..LastLine + 1, NEW k \in 0..LastLine + 1,
         NEW m \in 0..n, m <= k, NEW S, NEW R, \A i \in 0..m - 1 : i \in S <=> i \in R
  PROVE  RunUpto(S, n)[m] = RunUpto(R, k)[m]
<1> DEFINE f == RunUpto(S, n)
           g == RunUpto(R, k)
           T == {i \in 0..m : f[i] = g[i]}
<1>1. LastLine \in Nat /\ m \in Int /\ 0 \in Int /\ 0 <= m /\ 0 \in 0..m
  BY TextIsRead
<1>2. f[0] = <<>> /\ g[0] = <<>>
  BY RunUptoIs
<1>3. \A i \in 1..n : f[i] = RunOn(f[i - 1], S, i - 1)
  BY RunUptoIs
<1>4. \A i \in 1..k : g[i] = RunOn(g[i - 1], R, i - 1)
  BY RunUptoIs
<1> HIDE DEF f, g
<1>5. 0 \in T
  BY <1>1, <1>2
<1>6. ASSUME NEW i \in (0 + 1)..m, i - 1 \in T PROVE i \in T
  <2>1. i \in 1..n /\ i \in 1..k /\ i - 1 \in 0..m - 1 /\ i \in 0..m /\ f[i - 1] = g[i - 1]
    BY <1>1, <1>6
  <2>2. f[i] = RunOn(f[i - 1], S, i - 1) /\ g[i] = RunOn(g[i - 1], R, i - 1)
    BY <1>3, <1>4, <2>1
  <2>3. RunOn(f[i - 1], S, i - 1) = RunOn(f[i - 1], R, i - 1)
    BY <2>1 DEF RunOn
  <2> QED BY <2>1, <2>2, <2>3
<1> HIDE DEF T
<1>7. 0..m \subseteq T
  BY ONLY <1>1, <1>5, <1>6, Steps
<1>8. m \in T
  BY <1>1, <1>7
<1> QED BY <1>8 DEF T, f, g

\* Where no line is taken the stack stays.
LEMMA RunStays ==
  ASSUME ReportsInv, next >= 0, NEW n \in 0..LastLine + 1, NEW m \in 0..n, NEW S, S \subseteq 0..m - 1
  PROVE  RunUpto(S, n)[n] = RunUpto(S, n)[m]
<1> DEFINE f == RunUpto(S, n)
           T == {i \in m..n : f[i] = f[m]}
<1>1. LastLine \in Nat /\ m \in Int /\ n \in Int /\ m <= n /\ m \in m..n /\ n \in m..n
  BY TextIsRead
<1>2. \A i \in 1..n : f[i] = RunOn(f[i - 1], S, i - 1)
  BY RunUptoIs
<1> HIDE DEF f
<1>3. m \in T
  BY <1>1
<1>4. ASSUME NEW i \in (m + 1)..n, i - 1 \in T PROVE i \in T
  <2>1. i \in 1..n /\ i \in m..n /\ i - 1 \notin 0..m - 1 /\ f[i - 1] = f[m]
    BY <1>1, <1>4
  <2>2. i - 1 \notin S
    BY <2>1
  <2>3. RunOn(f[i - 1], S, i - 1) = f[i - 1]
    BY <2>2 DEF RunOn
  <2> QED BY <1>2, <2>1, <2>3
<1> HIDE DEF T
<1>5. m..n \subseteq T
  BY ONLY <1>1, <1>3, <1>4, Steps
<1>6. n \in T
  BY <1>1, <1>5
<1> QED BY <1>6 DEF T, f

LEMMA SameTaken ==
  ASSUME ReportsInv, next >= 0, NEW n \in 0..LastLine + 1, NEW m \in 0..n, Taken(n) = Taken(m)
  PROVE  StackOfTaken(n) = StackOfTaken(m)
<1>1. Taken(n) \subseteq 0..m - 1 /\ LastLine \in Nat /\ m \in 0..LastLine + 1 /\ m \in 0..m /\ m <= n /\ m <= m
  <2>1. Taken(m) \subseteq 0..m - 1
    BY TakenIs
  <2> QED BY <2>1, TextIsRead
<1>2. RunUpto(Taken(n), n)[n] = RunUpto(Taken(n), n)[m]
  BY <1>1, RunStays
<1>3. RunUpto(Taken(n), n)[m] = RunUpto(Taken(m), m)[m]
  BY <1>1, RunsAgree
<1> QED BY <1>2, <1>3, StackOfTakenIs

LEMMA MoreTaken ==
  ASSUME ReportsInv, next >= 0, NEW n \in 0..LastLine, Taken(n + 1) = Taken(n) \cup {n}
  PROVE  StackOfTaken(n + 1) = UpdateStack(StackOfTaken(n), clean, n).stack
<1> DEFINE f == RunUpto(Taken(n + 1), n + 1)
<1>1. /\ LastLine \in Nat /\ n \in 0..LastLine + 1 /\ n + 1 \in 0..LastLine + 1 /\ n + 1 \in 1..n + 1
      /\ n \in 0..n + 1 /\ n <= n /\ (n + 1) - 1 = n
  BY TextIsRead
<1>2. f[n + 1] = RunOn(f[(n + 1) - 1], Taken(n + 1), (n + 1) - 1)
  BY <1>1, RunUptoIs
<1>3. f[n + 1] = UpdateStack(f[n], clean, n).stack
  BY <1>1, <1>2 DEF RunOn
<1>4. \A i \in 0..n - 1 : i \in Taken(n + 1) <=> i \in Taken(n)
  <2>1. \A i \in 0..n - 1 : i # n
    BY <1>1
  <2> QED BY <2>1
<1>5. f[n] = RunUpto(Taken(n), n)[n]
  BY <1>1, <1>4, RunsAgree
<1> QED BY <1>3, <1>5, StackOfTakenIs

LEMMA NoneTaken == ReportsInv /\ next >= 0 => StackOfTaken(0) = <<>>
<1> SUFFICES ASSUME ReportsInv, next >= 0 PROVE StackOfTaken(0) = <<>>
  OBVIOUS
<1>1. 0 \in 0..LastLine + 1
  BY TextIsRead
<1> QED BY <1>1, RunUptoIs, StackOfTakenIs

-----------------------------------------------------------------------------
(* The run: first branches. *)

\* The stacks that are saved of a conditional are those of the lines taken up to its beginning,
\* and up to its first alternative.
IsSaved(saved, b, n) ==
  /\ saved.beforeIf = StackOfTaken(b)
  /\ saved.seenElse <=> AlternativesOf(b, n - 1) # {}
  /\ saved.seenElse => saved.beforeElse = StackOfTaken(Lowest(AlternativesOf(b, n - 1)))
AreSaved(pp, opened, n) ==
  Len(pp) = Len(opened) /\ \A j \in 1..Len(opened) : IsSaved(pp[j], opened[j], n)

LEMMA SelectedIs ==
  ASSUME NEW asms, NEW state \in NestingStates(asms), NEW directive,
         NEW selected, selected = UpdatePreprocessor(state, directive)
  PROVE  /\ directive \in Conditionals =>
              /\ selected.stack = state.stack
              /\ selected.pp = Append(state.pp, [beforeIf |-> state.stack, beforeElse |-> <<>>, seenElse |-> FALSE])
         /\ directive \in Alternatives /\ state.pp # <<>> =>
              /\ selected.stack = Top(state.pp).beforeIf
              /\ selected.pp = [state.pp EXCEPT ![Len(state.pp)] =
                                  IF Top(state.pp).seenElse THEN Top(state.pp)
                                  ELSE [Top(state.pp) EXCEPT !.seenElse = TRUE, !.beforeElse = state.stack]]
         /\ directive = "#endif" /\ state.pp # <<>> =>
              /\ selected.stack = IF Top(state.pp).seenElse THEN Top(state.pp).beforeElse ELSE state.stack
              /\ selected.pp = Pop(state.pp)
         /\ directive \notin Conditionals /\ (state.pp = <<>> \/ directive \notin Directives) =>
              selected = state
<1>1. DOMAIN state = {"stack", "previous", "pp"} /\ \A d \in Alternatives : d \notin Conditionals /\ d # "#endif"
  BY DEF NestingStates, Alternatives, Conditionals
<1>2. ASSUME directive \in Conditionals
      PROVE  selected = [state EXCEPT !.pp = Append(state.pp, [beforeIf |-> state.stack, beforeElse |-> <<>>, seenElse |-> FALSE])]
  BY <1>2 DEF UpdatePreprocessor, Conditionals, Alternatives
<1>3. ASSUME directive \in Alternatives, state.pp # <<>>
      PROVE  selected = [state EXCEPT !.pp = [state.pp EXCEPT ![Len(state.pp)] =
                           IF Top(state.pp).seenElse THEN Top(state.pp)
                           ELSE [Top(state.pp) EXCEPT !.seenElse = TRUE, !.beforeElse = state.stack]],
                         !.stack = Top(state.pp).beforeIf]
  <2>1. Len(state.pp) \in DOMAIN state.pp /\ DOMAIN state.pp = 1..Len(state.pp)
    BY <1>3, TopIs DEF NestingStates
  <2>2. selected
          = [state EXCEPT !.pp[Len(state.pp)] = IF @.seenElse THEN @
                                                ELSE [@ EXCEPT !.seenElse = TRUE, !.beforeElse = state.stack],
                          !.stack = Top(state.pp).beforeIf]
    BY <1>1, <1>3 DEF UpdatePreprocessor, Alternatives
  <2> QED BY <1>1, <2>1, <2>2 DEF Top
<1>4. ASSUME directive = "#endif", state.pp # <<>>
      PROVE  selected = [state EXCEPT !.pp = Pop(state.pp),
                           !.stack = IF Top(state.pp).seenElse THEN Top(state.pp).beforeElse ELSE state.stack]
  <2>1. directive \notin Conditionals /\ directive \notin Alternatives
    BY <1>4 DEF Alternatives, Conditionals
  <2> QED BY <1>4, <2>1, Zenon DEF UpdatePreprocessor
<1>5. ASSUME directive \notin Conditionals, state.pp = <<>> \/ directive \notin Directives PROVE selected = state
  BY <1>5 DEF UpdatePreprocessor, Directives
<1> QED BY <1>1, <1>2, <1>3, <1>4, <1>5

\* What was saved stays so, where the line is no alternative of the conditional.
LEMMA SavedStays ==
  ASSUME AreOpened, NEW n \in 0..LastLine, NEW b \in Within(n), NEW saved, IsSaved(saved, b, n),
         ~IsBranchOf(n, b)
  PROVE  IsSaved(saved, b, n + 1)
<1>1. n \in Nat /\ (n + 1) - 1 = n /\ b \in 0..n - 1
  BY WithinIs DEF AreOpened
<1>2. AlternativesOf(b, n) = AlternativesOf(b, n - 1)
  BY <1>1, AlternativesNext
<1> QED BY <1>1, <1>2 DEF IsSaved

LEMMA MembersAre ==
  ASSUME AreOpened, NEW n \in 0..LastLine + 1
  PROVE  /\ OpenConditionals[n] \in Seq(Int) /\ Len(OpenConditionals[n]) \in Nat
         /\ OpenConditionals[n] = <<>> <=> Len(OpenConditionals[n]) = 0
         /\ \A j \in 1..Len(OpenConditionals[n]) : OpenConditionals[n][j] \in Within(n)
         /\ \A j \in 1..Len(OpenConditionals[n]) - 1 : OpenConditionals[n][j] # Top(OpenConditionals[n])
<1> DEFINE s == OpenConditionals[n]
<1>1. s \in Seq(Int) /\ \A j \in 1..Len(s) : IsOpenAt(j, s[j], n)
  BY DEF AreOpened, IsNest
<1>2. Len(s) \in Nat /\ (s = <<>> <=> Len(s) = 0) /\ DOMAIN s = 1..Len(s)
  BY <1>1, EmptySeq
<1>3. ASSUME NEW j \in 1..Len(s) - 1 PROVE s[j] # Top(s)
  <2>1. s # <<>> /\ Len(s) \in 1..Len(s) /\ j \in 1..Len(s)
    BY <1>2
  <2>2. Top(s) = s[Len(s)]
    BY DEF Top
  <2>3. IsOpenAt(Len(s), Top(s), n)
    BY <1>1, <2>1, <2>2
  <2>4. Len(OpenConditionals[Top(s)]) = Len(s) - 1 /\ OpenConditionals[Top(s)][j] = s[j] /\ Top(s) \in 0..n - 1
    BY <2>3 DEF IsOpenAt
  <2>5. Top(s) \in 0..LastLine + 1 /\ j \in 1..Len(OpenConditionals[Top(s)]) /\ Top(s) \in Nat
    BY <2>4 DEF AreOpened
  <2>6. IsOpenAt(j, OpenConditionals[Top(s)][j], Top(s))
    BY <2>5 DEF AreOpened, IsNest
  <2>7. s[j] \in 0..Top(s) - 1
    BY <2>4, <2>6 DEF IsOpenAt
  <2> HIDE DEF s
  <2> QED BY <2>5, <2>7
<1> QED BY <1>1, <1>2, <1>3 DEF Within, ToSet

\* What a line selects of the stacks that are saved.
LEMMA SelectsTaken ==
  ASSUME ReportsInv, next >= 0, NEW n \in 0..LastLine, NEW asms, NEW state \in NestingStates(asms),
         state.stack = StackOfTaken(n), AreSaved(state.pp, OpenConditionals[n], n),
         NEW selected, selected = UpdatePreprocessor(state, DirectiveOf(n))
  PROVE  /\ selected.stack = IF DirectiveOf(n) \in Directives THEN StackOfTaken(n + 1) ELSE StackOfTaken(n)
         /\ AreSaved(selected.pp, OpenConditionals[n + 1], n + 1)
<1> DEFINE s == OpenConditionals[n]
           pp == state.pp
           d == DirectiveOf(n)
           k == Len(s)
           c == Top(s)
           p == Top(pp)
<1>1. /\ AreOpened /\ LastLine \in Nat /\ n \in Nat /\ n \in 0..LastLine + 1 /\ n + 1 \in 0..LastLine + 1
      /\ (n + 1) - 1 = n /\ n \in 0..n + 1
  BY AreOpenedIs, TextIsRead
<1>2. OpenConditionals[n + 1] = OpensOn(s, n)
  BY <1>1 DEF AreOpened
<1>3. /\ s \in Seq(Int) /\ k \in Nat /\ (s = <<>> <=> k = 0)
      /\ \A j \in 1..k : s[j] \in Within(n)
      /\ \A j \in 1..k - 1 : s[j] # c
  BY <1>1, MembersAre
<1>4. Len(pp) = k /\ \A j \in 1..k : IsSaved(pp[j], s[j], n)
  BY DEF AreSaved
<1>5. pp \in Seq([beforeIf : Stacks(asms), beforeElse : Stacks(asms), seenElse : BOOLEAN]) /\ (pp = <<>> <=> s = <<>>)
  <2>1. pp \in Seq([beforeIf : Stacks(asms), beforeElse : Stacks(asms), seenElse : BOOLEAN])
    BY DEF NestingStates
  <2> QED BY <1>3, <1>4, <2>1, EmptySeq
<1>6. \A j \in 1..k : ~IsBranchOf(n, s[j]) => IsSaved(pp[j], s[j], n + 1)
  BY <1>1, <1>3, <1>4, SavedStays
<1>7. \A b : IsBranchOf(n, b) <=> d \in Alternatives /\ s # <<>> /\ b = c
  BY DEF IsBranchOf
<1>8. ASSUME s # <<>>
      PROVE  /\ c = s[k] /\ p = pp[k] /\ k \in 1..k /\ IsSaved(p, c, n) /\ c \in Within(n) /\ c \in 0..n - 1
             /\ p \in [beforeIf : Stacks(asms), beforeElse : Stacks(asms), seenElse : BOOLEAN]
  <2>1. c = s[k] /\ p = pp[k] /\ k \in 1..k
    BY <1>3, <1>4, <1>8 DEF Top
  <2>2. c \in Within(n) /\ IsSaved(p, c, n)
    BY <1>3, <1>4, <2>1
  <2>3. c \in 0..n - 1
    BY <1>1, <2>2, WithinIs
  <2> QED BY <1>5, <1>8, <2>1, <2>2, <2>3, TopIs
<1> DEFINE pushed == [beforeIf |-> state.stack, beforeElse |-> <<>>, seenElse |-> FALSE]
           branch == IF p.seenElse THEN p ELSE [p EXCEPT !.seenElse = TRUE, !.beforeElse = state.stack]
<1>9. /\ d \in Conditionals => selected.stack = state.stack /\ selected.pp = Append(pp, pushed)
      /\ d \in Alternatives /\ pp # <<>> =>
           selected.stack = p.beforeIf /\ selected.pp = [pp EXCEPT ![Len(pp)] = branch]
      /\ d = "#endif" /\ pp # <<>> =>
           selected.stack = (IF p.seenElse THEN p.beforeElse ELSE state.stack) /\ selected.pp = Pop(pp)
      /\ d \notin Conditionals /\ (pp = <<>> \/ d \notin Directives) => selected = state
  <2> HIDE DEF s, d, k, c
  <2>1. selected = UpdatePreprocessor(state, d)
    BY DEF d
  <2> QED BY <2>1, SelectedIs
<1> HIDE DEF s, pp, d, k, c, p, pushed, branch
<1>10. CASE d \notin Directives
  <2>1. selected = state /\ OpenConditionals[n + 1] = s /\ \A b : ~IsBranchOf(n, b)
    BY <1>2, <1>7, <1>9, <1>10 DEF Directives, OpensOn, d
  <2> QED BY <1>4, <1>6, <1>10, <2>1 DEF AreSaved, k, pp, d
<1>11. CASE d \in Conditionals
  <2>1. OpenConditionals[n + 1] = Append(s, n) /\ \A b : ~IsBranchOf(n, b)
    BY <1>2, <1>7, <1>11 DEF OpensOn, d, Conditionals, Alternatives
  <2>2. Taken(n + 1) = Taken(n) /\ d \in Directives
    <3>1. d \in Directives /\ d \notin Alternatives /\ d # "#endif"
      BY <1>11 DEF Directives, Conditionals, Alternatives
    <3> QED BY <1>1, <3>1, TakenSame DEF d
  <2>3. StackOfTaken(n + 1) = StackOfTaken(n)
    BY <1>1, <2>2, SameTaken
  <2>4. IsSaved(pushed, n, n + 1)
    <3>1. AlternativesOf(n, n) = {}
      BY <1>1 DEF AlternativesOf
    <3> QED BY <1>1, <3>1 DEF IsSaved, pushed
  <2>5. AreSaved(Append(pp, pushed), OpenConditionals[n + 1], n + 1)
    <3> DEFINE t == Append(s, n)
               q == Append(pp, pushed)
    <3>1. Len(t) = k + 1 /\ t[k + 1] = n /\ \A j \in 1..k : t[j] = s[j]
      BY <1>3 DEF k
    <3>2. Len(q) = k + 1 /\ q[k + 1] = pushed /\ \A j \in 1..k : q[j] = pp[j]
      BY <1>3, <1>4, <1>5
    <3> HIDE DEF t, q
    <3>3. \A j \in 1..k + 1 : j = k + 1 \/ j \in 1..k
      BY <1>3
    <3>4. \A j \in 1..k + 1 : IsSaved(q[j], t[j], n + 1)
      BY <1>6, <2>1, <2>4, <3>1, <3>2, <3>3
    <3> QED BY <2>1, <3>1, <3>2, <3>4 DEF AreSaved, t, q
  <2> QED BY <1>9, <1>11, <2>2, <2>3, <2>5 DEF d
<1>12. CASE d \in Directives /\ d \notin Conditionals /\ s = <<>>
  <2>1. selected = state /\ OpenConditionals[n + 1] = s
    BY <1>2, <1>5, <1>9, <1>12 DEF OpensOn, d
  <2>2. Taken(n + 1) = Taken(n)
    BY <1>1, <1>12, TakenSame DEF d, s
  <2>3. StackOfTaken(n + 1) = StackOfTaken(n)
    BY <1>1, <2>2, SameTaken
  <2>4. AreSaved(pp, OpenConditionals[n + 1], n + 1)
    <3>1. \A j : j \notin 1..k
      BY <1>3, <1>12
    <3> QED BY <1>4, <2>1, <3>1 DEF AreSaved, k
  <2> QED BY <1>12, <2>1, <2>3, <2>4 DEF d, pp
<1>13. CASE d \in Alternatives /\ s # <<>>
  <2>1. OpenConditionals[n + 1] = s /\ d \in Directives
    BY <1>2, <1>13 DEF OpensOn, d, Conditionals, Alternatives, Directives
  <2>2. /\ c = s[k] /\ p = pp[k] /\ k \in 1..k /\ IsSaved(p, c, n) /\ c \in Within(n) /\ c \in 0..n - 1
        /\ p \in [beforeIf : Stacks(asms), beforeElse : Stacks(asms), seenElse : BOOLEAN]
    BY <1>8, <1>13
  <2>3. selected.stack = p.beforeIf /\ selected.pp = [pp EXCEPT ![Len(pp)] = branch]
    BY <1>5, <1>9, <1>13
  <2>4. Taken(n + 1) = Taken(c)
    BY <1>1, <1>13, TakenAlternative DEF d, s, c
  <2>5. StackOfTaken(n + 1) = StackOfTaken(c) /\ p.beforeIf = StackOfTaken(c)
    <3>1. c \in 0..n + 1
      BY <1>1, <2>2
    <3> QED BY <1>1, <2>2, <2>4, <3>1, SameTaken DEF IsSaved
  <2>6. AlternativesOf(c, n) = AlternativesOf(c, n - 1) \cup {n} /\ AlternativesOf(c, n - 1) \subseteq c + 1..n - 1
    BY <1>1, <1>7, <1>13, <2>2, AlternativesNext DEF AlternativesOf
  <2>7. IsSaved(branch, c, n + 1)
    <3> DEFINE A == AlternativesOf(c, n - 1)
    <3>1. p.seenElse <=> A # {}
      BY <2>2 DEF IsSaved
    <3>2. CASE p.seenElse
      <4>1. branch = p
        BY <3>2 DEF branch
      <4>2. Lowest(A \cup {n}) = Lowest(A)
        <5>1. A \in SUBSET Nat /\ A # {} /\ A \cup {n} \in SUBSET Nat /\ A \cup {n} # {} /\ \A a \in A : a < n
          BY <1>1, <2>2, <2>6, <3>1, <3>2
        <5> HIDE DEF A
        <5>2. Lowest(A) \in A /\ \A y \in A : Lowest(A) <= y
          BY <5>1, LowestIs
        <5> DEFINE B == A \cup {n}
        <5>3. Lowest(B) \in B /\ \A y \in B : Lowest(B) <= y
          <6>1. B \in SUBSET Nat /\ B # {}
            BY <5>1
          <6> HIDE DEF B
          <6> QED BY <6>1, LowestIs
        <5>4. Lowest(B) <= Lowest(A) /\ Lowest(B) \in Nat /\ Lowest(A) \in Nat /\ Lowest(A) < n
          BY <5>1, <5>2, <5>3
        <5>5. Lowest(B) \in A
          BY <1>1, <5>3, <5>4
        <5> QED BY <5>2, <5>4, <5>5
      <4>3. A # {} /\ p.beforeIf = StackOfTaken(c) /\ p.beforeElse = StackOfTaken(Lowest(A))
        BY <2>2, <3>1, <3>2 DEF IsSaved
      <4> HIDE DEF A
      <4>4. AlternativesOf(c, (n + 1) - 1) = A \cup {n} /\ A \cup {n} # {}
        BY <1>1, <2>6 DEF A
      <4> QED BY <3>2, <4>1, <4>2, <4>3, <4>4 DEF IsSaved
    <3>3. CASE ~p.seenElse
      <4>1. A = {}
        BY <3>1, <3>3
      <4>2. branch.seenElse = TRUE /\ branch.beforeElse = StackOfTaken(n) /\ branch.beforeIf = p.beforeIf
        BY <2>2, <3>3 DEF branch
      <4>3. AlternativesOf(c, (n + 1) - 1) = {n} /\ {n} # {}
        BY <1>1, <2>6, <4>1
      <4>4. Lowest({n}) = n
        BY <1>1, LowestIs
      <4> QED BY <2>5, <4>2, <4>3, <4>4 DEF IsSaved
    <3> QED BY <3>2, <3>3
  <2>8. AreSaved([pp EXCEPT ![Len(pp)] = branch], OpenConditionals[n + 1], n + 1)
    <3> DEFINE q == [pp EXCEPT ![Len(pp)] = branch]
    <3>1. DOMAIN pp = 1..k
      BY <1>4, <1>5
    <3>2. Len(q) = k /\ q[k] = branch /\ \A j \in 1..k : j # k => q[j] = pp[j]
      BY <1>3, <1>4, <1>5, <2>2, <3>1
    <3> HIDE DEF q
    <3>3. \A j \in 1..k : j # k => j \in 1..k - 1
      BY <1>3
    <3>4. ASSUME NEW j \in 1..k, j # k PROVE IsSaved(q[j], s[j], n + 1)
      <4>1. s[j] # c /\ q[j] = pp[j]
        BY <1>3, <3>2, <3>3, <3>4
      <4>2. ~IsBranchOf(n, s[j])
        BY <1>7, <4>1
      <4>3. IsSaved(pp[j], s[j], n + 1)
        BY <1>6, <4>2
      <4> QED BY <4>1, <4>3
    <3>5. \A j \in 1..k : IsSaved(q[j], s[j], n + 1)
      BY <2>2, <2>7, <3>2, <3>4
    <3> QED BY <2>1, <3>2, <3>5 DEF AreSaved, k, q
  <2> QED BY <2>1, <2>3, <2>5, <2>8 DEF d
<1>14. CASE d = "#endif" /\ s # <<>>
  <2>1. OpenConditionals[n + 1] = Pop(s) /\ d \in Directives /\ d \notin Alternatives /\ \A b : ~IsBranchOf(n, b)
    BY <1>2, <1>7, <1>14 DEF OpensOn, d, Conditionals, Alternatives, Directives
  <2>2. /\ c = s[k] /\ p = pp[k] /\ k \in 1..k /\ IsSaved(p, c, n) /\ c \in Within(n) /\ c \in 0..n - 1
        /\ p \in [beforeIf : Stacks(asms), beforeElse : Stacks(asms), seenElse : BOOLEAN]
    BY <1>8, <1>14
  <2>3. selected.stack = (IF p.seenElse THEN p.beforeElse ELSE state.stack) /\ selected.pp = Pop(pp)
    BY <1>5, <1>9, <1>14
  <2>4. selected.stack = StackOfTaken(n + 1)
    <3> DEFINE m == Lowest(AlternativesOf(c, n - 1))
    <3>1. CASE p.seenElse
      <4>1. AlternativesOf(c, n - 1) # {} /\ p.beforeElse = StackOfTaken(m)
        BY <2>2, <3>1 DEF IsSaved
      <4>2. m \in 0..n - 1 /\ Taken(n + 1) = Taken(m)
        BY <1>1, <1>14, <4>1, TakenEnd DEF d, s, c
      <4> HIDE DEF m
      <4>3. m \in 0..n + 1
        BY <1>1, <4>2
      <4> QED BY <1>1, <2>3, <3>1, <4>1, <4>2, <4>3, SameTaken
    <3>2. CASE ~p.seenElse
      <4>1. AlternativesOf(c, n - 1) = {}
        BY <2>2, <3>2 DEF IsSaved
      <4>2. Taken(n + 1) = Taken(n)
        BY <1>1, <2>1, <4>1, TakenSame DEF d, s, c
      <4> QED BY <1>1, <2>3, <3>2, <4>2, SameTaken
    <3> QED BY <3>1, <3>2
  <2>5. AreSaved(Pop(pp), OpenConditionals[n + 1], n + 1)
    <3>1. Len(Pop(s)) = k - 1 /\ \A j \in 1..k - 1 : Pop(s)[j] = s[j]
      BY <1>3, <1>14, PopIs DEF k
    <3>2. Len(Pop(pp)) = k - 1 /\ \A j \in 1..k - 1 : Pop(pp)[j] = pp[j]
      BY <1>4, <1>5, <1>14, PopIs
    <3>3. \A j \in 1..k - 1 : j \in 1..k
      BY <1>3
    <3> QED BY <1>6, <2>1, <3>1, <3>2, <3>3 DEF AreSaved
  <2> QED BY <2>1, <2>3, <2>4, <2>5 DEF d
<1> QED BY <1>10, <1>11, <1>12, <1>13, <1>14 DEF Directives

\* The directives read leave the stack alone; and the stack, and the stacks saved, are those of
\* the lines taken.
AreQuiet == \A n \in Read : DirectiveOf(n) \in Directives => IsQuiet(n)
BranchInv ==
  \A n \in Nat : n = next /\ n <= EndOfFile /\ NoAssembly /\ AreQuiet =>
    /\ nesting.stack = StackOfTaken(n)
    /\ \A pp, opened : pp = nesting.pp /\ opened = OpenConditionals[n] => AreSaved(pp, opened, n)

LEMMA SameClaims ==
  ASSUME UNCHANGED clean, NEW n
  PROVE  /\ StackOfTaken(n)' = StackOfTaken(n) /\ DirectiveOf(n)' = DirectiveOf(n)
         /\ IsQuiet(n)' <=> IsQuiet(n)
         /\ OpenConditionals' = OpenConditionals
         /\ \A i : AlternativesOf(n, i)' = AlternativesOf(n, i)
<1>1. OpenConditionals' = OpenConditionals
  BY SameConditionals
<1>2. \A k : DirectiveOf(k)' = DirectiveOf(k)
  BY DEF DirectiveOf
<1>3. Taken(n)' = Taken(n)
  BY <1>1, <1>2 DEF Taken
<1>4. \A k : StackOfTaken(k)' = StackOfTaken(k)
  <2> SUFFICES ASSUME NEW k PROVE StackOfTaken(k)' = StackOfTaken(k)
    OBVIOUS
  <2>1. Taken(k)' = Taken(k)
    BY <1>1, <1>2 DEF Taken
  <2> QED BY <2>1 DEF StackOfTaken
<1>5. IsQuiet(n)' <=> IsQuiet(n)
  BY <1>4 DEF IsQuiet
<1>6. \A i : AlternativesOf(n, i)' = AlternativesOf(n, i)
  BY <1>1, <1>2 DEF AlternativesOf, IsBranchOf
<1> QED BY <1>1, <1>2, <1>4, <1>5, <1>6

LEMMA SavedOn ==
  ASSUME UNCHANGED clean, NEW pp, NEW opened, NEW n, AreSaved(pp, opened, n)
  PROVE  AreSaved(pp, opened, n)'
<1> SUFFICES ASSUME NEW saved, NEW b, IsSaved(saved, b, n) PROVE IsSaved(saved, b, n)'
  BY DEF AreSaved
<1> DEFINE A == AlternativesOf(b, n - 1)
<1>1. StackOfTaken(b)' = StackOfTaken(b) /\ AlternativesOf(b, n - 1)' = AlternativesOf(b, n - 1)
  BY SameClaims
<1>2. \A k : StackOfTaken(k)' = StackOfTaken(k)
  BY SameClaims
<1> QED BY <1>1, <1>2 DEF IsSaved

LEMMA BranchesBegin == ReportsInv /\ next = 0 /\ nesting = InitNestingState => BranchInv
<1> SUFFICES ASSUME ReportsInv, next = 0, nesting = InitNestingState PROVE BranchInv
  OBVIOUS
<1>1. next >= 0 /\ nesting.stack = <<>> /\ nesting.pp = <<>>
  BY DEF InitNestingState
<1>2. OpenConditionals[0] = <<>> /\ StackOfTaken(0) = <<>>
  BY <1>1, OpenConditionalsAre, NoneTaken
<1>3. \A j : j \notin 1..Len(<<>>)
  OBVIOUS
<1> QED BY <1>1, <1>2, <1>3 DEF BranchInv, AreSaved

LEMMA NextBranch == ReportsInv /\ FunctionInv /\ BranchInv /\ [Next]_runVars => BranchInv'
<1> SUFFICES ASSUME ReportsInv, FunctionInv, BranchInv, [Next]_runVars, next' \in Nat PROVE BranchInv'
  BY DEF BranchInv
<1>1. CASE Prepares
  <2>1. next' = 0 /\ nesting' = InitNestingState /\ ReportsInv'
    BY <1>1, NextReports DEF Prepares
  <2>2. (ReportsInv /\ next = 0 /\ nesting = InitNestingState)'
    BY <2>1 DEF InitNestingState
  <2> QED BY <2>2, BranchesBegin, PTL
<1>2. CASE Reads
  <2> SUFFICES ASSUME NEW m \in Nat, m = next', m <= EndOfFile', NoAssembly', AreQuiet',
                      NEW pp, NEW opened, pp = nesting'.pp, opened = OpenConditionals'[m]
               PROVE  nesting'.stack = StackOfTaken(m)' /\ AreSaved(pp, opened, m)'
    BY DEF BranchInv
  <2> PICK n \in Nat : n = next
    BY <1>2 DEF Reads
  <2>1. /\ n \in 0..LastLine /\ m = n + 1 /\ clean' = clean /\ Read = 0..n - 1 /\ Read' = 0..n
        /\ nesting' = Update(nesting, clean, n) /\ LastLine \in Nat /\ IsText(clean, LastLine)
    BY <1>2 DEF Reads
  <2>2. NoAssembly /\ next >= 0 /\ clean.elided[n] \in LinesOf({"no"}) /\ nesting \in NestingStates({"no"})
    BY <1>2, NotPassedOver DEF FunctionInv
  <2>3. AreQuiet /\ (DirectiveOf(n) \in Directives => IsQuiet(n))
    <3>1. Read \subseteq Read' /\ n \in Read'
      BY <2>1
    <3>2. \A k \in Read' : DirectiveOf(k) \in Directives => IsQuiet(k)
      BY <2>1, SameClaims DEF AreQuiet
    <3> QED BY <3>1, <3>2 DEF AreQuiet
  <2>4. n <= EndOfFile
    BY <2>1, <2>2, TextIsRead
  <2>5. nesting.stack = StackOfTaken(n) /\ AreSaved(nesting.pp, OpenConditionals[n], n)
    BY <2>2, <2>3, <2>4 DEF BranchInv
  <2> DEFINE selected == UpdatePreprocessor(nesting, DirectiveOf(n))
  <2>6. /\ selected.stack = IF DirectiveOf(n) \in Directives THEN StackOfTaken(n + 1) ELSE StackOfTaken(n)
        /\ AreSaved(selected.pp, OpenConditionals[n + 1], n + 1)
    BY <2>1, <2>2, <2>5, SelectsTaken
  <2>7. selected.stack \in Stacks({"no"})
    <3>1. selected \in NestingStates({"no"})
      BY <2>2, UpdatePreprocessorIs DEF AreAsms
    <3> QED BY <3>1 DEF NestingStates
  <2>8. nesting'.stack = UpdateStack(selected.stack, clean, n).stack /\ nesting'.pp = selected.pp
    BY <2>1 DEF Update, DirectiveOf
  <2> HIDE DEF selected
  <2>9. UpdateStack(selected.stack, clean, n).stack = StackOfTaken(n + 1)
    <3>1. CASE DirectiveOf(n) \in Directives
      <4>1. LeavesAlone(clean.elided[n], selected.stack)
        BY <2>3, <2>6, <3>1 DEF IsQuiet
      <4>2. UpdateStack(selected.stack, clean, n).stack = selected.stack
        BY <2>2, <2>7, <4>1, QuietLineLeaves
      <4> QED BY <2>6, <3>1, <4>2
    <3>2. CASE DirectiveOf(n) \notin Directives
      <4>1. AreOpened
        BY <2>2, AreOpenedIs
      <4>2. Taken(n + 1) = Taken(n) \cup {n}
        BY <2>1, <3>2, <4>1, TakenPlain
      <4>3. StackOfTaken(n + 1) = UpdateStack(StackOfTaken(n), clean, n).stack
        BY <2>1, <2>2, <4>2, MoreTaken
      <4> QED BY <2>6, <3>2, <4>3
    <3> QED BY <3>1, <3>2
  <2>10. AreSaved(pp, opened, m)
    BY <2>1, <2>6, <2>8, SameClaims
  <2>11. AreSaved(pp, opened, m)'
    BY <2>1, <2>10, SavedOn
  <2>12. StackOfTaken(m)' = StackOfTaken(m)
    BY <2>1, SameClaims
  <2> QED BY <2>1, <2>8, <2>9, <2>11, <2>12
<1>3. CASE Finishes
  <2>1. next = EndOfFile /\ next' = Done /\ next >= 0 /\ UNCHANGED file
    BY <1>3 DEF Finishes
  <2>2. EndOfFile' = LastLine + 1 /\ next' = LastLine + 2 /\ LastLine \in Nat
    BY <2>1, TextIsRead DEF EndOfFile
  <2>3. ~(next' <= EndOfFile')
    BY <2>2
  <2> QED BY <2>3 DEF BranchInv
<1>4. CASE UNCHANGED vars
  <2>1. UNCHANGED <<clean, file, nesting, next>> /\ EndOfFile' = EndOfFile /\ Read' = Read
    BY <1>4 DEF vars, EndOfFile, Read
  <2> SUFFICES ASSUME NEW n \in Nat, n = next', n <= EndOfFile', NoAssembly', AreQuiet',
                      NEW pp, NEW opened, pp = nesting'.pp, opened = OpenConditionals'[n]
               PROVE  nesting'.stack = StackOfTaken(n)' /\ AreSaved(pp, opened, n)'
    BY DEF BranchInv
  <2>2. NoAssembly
    BY <2>1 DEF NoAssembly
  <2>3. AreQuiet
    BY <2>1, SameClaims DEF AreQuiet
  <2>4. nesting.stack = StackOfTaken(n) /\ AreSaved(pp, opened, n)
    BY <2>1, <2>2, <2>3, SameClaims DEF BranchInv
  <2>5. AreSaved(pp, opened, n)'
    BY <2>1, <2>4, SavedOn
  <2> QED BY <2>1, <2>4, <2>5, SameClaims
<1> QED BY <1>1, <1>2, <1>3, <1>4, StepIs

\* Only the first branches of the conditionals count for the stack, for every text without
\* assembly.
THEOREM FirstBranchesAreCounted == Spec => [](NoAssembly => FirstBranchesCount)
<1>1. Init => FunctionInv /\ BranchInv
  BY InitRead DEF FunctionInv, BranchInv
<1>2. ReportsInv /\ BranchInv => (NoAssembly => FirstBranchesCount)
  <2> SUFFICES ASSUME ReportsInv, BranchInv, NoAssembly, next \in 1..EndOfFile, AreQuiet
               PROVE  nesting.stack = StackOfTaken(next)
    BY DEF FirstBranchesCount, AreQuiet
  <2>1. next \in Nat /\ next <= EndOfFile
    <3>1. file \in Files
      BY DEF ReportsInv, Inv, FilesInv, Idle
    <3> QED BY <3>1, FilesAssumption DEF EndOfFile
  <2> QED BY <2>1 DEF BranchInv
<1> QED BY InitReports, NextReports, NextFunction, NextBranch, <1>1, <1>2, PTL DEF Spec

-----------------------------------------------------------------------------
(* Where the compiler is in a text, and what cpplint takes for comments. *)

\* The first and the last token of a line are those that no token but spaces stands before or
\* behind.
AreEnds(words, line, n) ==
  \/ words = <<>> /\ \A k \in 1..n : line[k] = Space
  \/ /\ words # <<>>
     /\ \E j \in 1..n : words[1] = line[j] /\ line[j] # Space /\ \A k \in 1..j - 1 : line[k] = Space
     /\ \E j \in 1..n : words[Len(words)] = line[j] /\ line[j] # Space /\ \A k \in j + 1..n : line[k] = Space

LEMMA WordsAre ==
  ASSUME NEW S, NEW line \in Seq(S)
  PROVE  AreEnds(Words(line), line, Len(line))
<1> DEFINE positions == {i \in DOMAIN line : line[i] # Space}
           T == [i \in 0..Len(line) |-> {w \in Seq(S) : AreEnds(w, line, i)}]
<1>1. PICK f : /\ f[0] = <<>> /\ f[0] \in Seq(S)
               /\ \A i \in 1..Len(line) :
                    /\ f[i] \in Seq(S)
                    /\ f[i] = IF i \in positions THEN Append(f[i - 1], line[i]) ELSE f[i - 1]
               /\ Keep(line, positions) = f[Len(line)]
  <2> HIDE DEF positions
  <2> QED BY KeepRuns
<1>2. f[0] \in T[0]
  BY <1>1 DEF AreEnds
<1>3. ASSUME NEW i \in (0 + 1)..Len(line), f[i - 1] \in T[i - 1] PROVE f[i] \in T[i]
  <2>1. i \in 1..Len(line) /\ i - 1 \in 0..Len(line) /\ i \in 0..Len(line) /\ line[i] \in S
        /\ \A k \in 1..i : k = i \/ k \in 1..i - 1
    OBVIOUS
  <2>2. f[i - 1] \in Seq(S) /\ AreEnds(f[i - 1], line, i - 1)
    BY <1>3, <2>1
  <2>3. f[i] \in Seq(S)
    BY <1>1, <2>1
  <2>4. CASE line[i] = Space
    <3>1. f[i] = f[i - 1]
      BY <1>1, <2>1, <2>4
    <3>2. AreEnds(f[i], line, i)
      <4>1. CASE f[i - 1] = <<>>
        BY <2>1, <2>2, <2>4, <3>1, <4>1 DEF AreEnds
      <4>2. CASE f[i - 1] # <<>>
        <5>1. PICK j \in 1..i - 1 : /\ f[i][1] = line[j] /\ line[j] # Space
                                    /\ \A k \in 1..j - 1 : line[k] = Space
          BY <2>2, <3>1, <4>2 DEF AreEnds
        <5>2. PICK q \in 1..i - 1 : /\ f[i][Len(f[i])] = line[q] /\ line[q] # Space
                                    /\ \A k \in q + 1..i - 1 : line[k] = Space
          BY <2>2, <3>1, <4>2 DEF AreEnds
        <5>3. j \in 1..i /\ q \in 1..i /\ \A k \in q + 1..i : k = i \/ k \in q + 1..i - 1
          BY <2>1
        <5> QED BY <2>4, <3>1, <4>2, <5>1, <5>2, <5>3 DEF AreEnds
      <4> QED BY <4>1, <4>2
    <3> QED BY <2>1, <2>3, <3>2
  <2>5. CASE line[i] # Space
    <3>1. f[i] = Append(f[i - 1], line[i])
      <4>1. i \in positions
        BY <2>1, <2>5
      <4> QED BY <1>1, <2>1, <4>1, Zenon
    <3>2. f[i] # <<>> /\ f[i][Len(f[i])] = line[i]
      <4> DEFINE w == f[i - 1]
                 t == line[i]
      <4>1. w \in Seq(S) /\ t \in S /\ f[i] = Append(w, t)
        BY <2>1, <2>2, <3>1
      <4> HIDE DEF w, t
      <4>2. Len(f[i]) = Len(w) + 1 /\ Len(f[i]) \in 1..Len(w) + 1 /\ f[i][Len(w) + 1] = t
        BY <4>1
      <4> QED BY <4>2, EmptySeq DEF t
    <3>3. \E j \in 1..i : f[i][1] = line[j] /\ line[j] # Space /\ \A k \in 1..j - 1 : line[k] = Space
      <4>1. CASE f[i - 1] = <<>>
        <5>1. f[i][1] = line[i]
          BY <2>1, <3>1, <4>1
        <5> QED BY <2>1, <2>2, <2>5, <4>1, <5>1 DEF AreEnds
      <4>2. CASE f[i - 1] # <<>>
        <5>1. f[i][1] = f[i - 1][1]
          BY <2>1, <2>2, <3>1, <4>2
        <5>2. PICK j \in 1..i - 1 : /\ f[i - 1][1] = line[j] /\ line[j] # Space
                                    /\ \A k \in 1..j - 1 : line[k] = Space
          BY <2>2, <4>2 DEF AreEnds
        <5> QED BY <2>1, <5>1, <5>2
      <4> QED BY <4>1, <4>2
    <3>4. \A k \in i + 1..i : line[k] = Space
      BY <2>1
    <3>5. AreEnds(f[i], line, i)
      BY <2>1, <2>5, <3>2, <3>3, <3>4 DEF AreEnds
    <3> QED BY <2>1, <2>3, <3>5
  <2> QED BY <2>4, <2>5
<1>4. f[Len(line)] \in T[Len(line)]
  <2> HIDE DEF T
  <2>1. Len(line) \in Int /\ 0 \in Int /\ 0 <= Len(line)
    OBVIOUS
  <2> QED BY ONLY <1>2, <1>3, <2>1, LoopKeeps
<1>5. Words(line) = f[Len(line)] /\ Len(line) \in 0..Len(line)
  BY <1>1 DEF Words
<1> QED BY <1>4, <1>5

LEMMA EndTokensAre ==
  ASSUME NEW line \in Line
  PROVE  /\ FirstToken(line) = "/*" =>
              \E j \in 1..Len(line) : line[j] = "/*" /\ \A k \in 1..j - 1 : line[k] = Space
         /\ (\E j \in 1..Len(line) : line[j] = "*/" /\ \A k \in j + 1..Len(line) : line[k] = Space)
              => LastToken(line) = "*/"
<1>1. AreEnds(Words(line), line, Len(line))
  BY WordsAre DEF Line
<1>2. Space # "*/" /\ "/*" # "" /\ Len(line) \in Nat
  BY DEF Space, Line
<1>3. ASSUME FirstToken(line) = "/*"
      PROVE  \E j \in 1..Len(line) : line[j] = "/*" /\ \A k \in 1..j - 1 : line[k] = Space
  <2>1. Words(line) # <<>> /\ Words(line)[1] = "/*"
    BY <1>2, <1>3 DEF FirstToken
  <2> QED BY <1>1, <2>1 DEF AreEnds
<1>4. ASSUME NEW j \in 1..Len(line), line[j] = "*/", \A k \in j + 1..Len(line) : line[k] = Space
      PROVE  LastToken(line) = "*/"
  <2>1. Words(line) # <<>>
    BY <1>1, <1>2, <1>4 DEF AreEnds
  <2>2. PICK i \in 1..Len(line) : /\ Words(line)[Len(Words(line))] = line[i] /\ line[i] # Space
                                  /\ \A k \in i + 1..Len(line) : line[k] = Space
    BY <1>1, <2>1 DEF AreEnds
  <2>3. i = j
    BY <1>2, <1>4, <2>2
  <2> QED BY <1>4, <2>1, <2>2, <2>3 DEF LastToken
<1> QED BY <1>3, <1>4

\* Where the compiler may be.
Modes == [in : {"code", "line", "block", "raw", DQ, SQ}, delimiter : Line]

LEMMA LexStepIs ==
  ASSUME NEW line \in Line, NEW mode \in Modes, NEW i \in 1..Len(line)
  PROVE  LexStep(mode, line, i) \in Modes
<1> DEFINE rawAt == IF i > 1 THEN RawParenthesis(line, i - 1) ELSE {}
           delimiter == <<")">> \o SubSeq(line, i + 1, Lowest(rawAt) - 1) \o <<DQ>>
<1>1. Code \in Modes /\ Mode("line", NoDelimiter) \in Modes /\ Mode("block", NoDelimiter) \in Modes
      /\ Mode(DQ, NoDelimiter) \in Modes /\ Mode(SQ, NoDelimiter) \in Modes
  BY Marks DEF Code, Mode, Modes, NoDelimiter
<1>2. rawAt # {} => Mode("raw", delimiter) \in Modes
  <2> SUFFICES ASSUME rawAt # {} PROVE delimiter \in Line
    BY DEF Mode, Modes
  <2>1. Len(line) \in Nat /\ rawAt \subseteq 1..Len(line) /\ rawAt \subseteq Nat
    BY DEF Line, RawParenthesis
  <2>2. Lowest(rawAt) \in 1..Len(line)
    <3> HIDE DEF rawAt
    <3> QED BY <2>1, LowestIs
  <2> HIDE DEF rawAt
  <2>3. SubSeq(line, i + 1, Lowest(rawAt) - 1) \in Seq(Token)
    BY <2>1, <2>2, SubSeqIs DEF Line
  <2>4. <<")">> \in Seq(Token) /\ <<DQ>> \in Seq(Token)
    BY Marks DEF Line
  <2> HIDE DEF Token
  <2> QED BY <2>3, <2>4, ConcatProperties DEF Line
<1> HIDE DEF delimiter
<1>3. LexStep(mode, line, i) \in
        {Code, mode, Mode("line", NoDelimiter), Mode("block", NoDelimiter), Mode(DQ, NoDelimiter),
         Mode(SQ, NoDelimiter)} \cup (IF rawAt # {} THEN {Mode("raw", delimiter)} ELSE {})
  <2> HIDE DEF rawAt
  <2>1. LexStep(mode, line, i) =
          LET t == line[i]
              backslashes == {k \in 1..i - 1 : \A j \in k..i - 1 : line[j] = BS}
          IN CASE mode.in = "code" ->
                    CASE t = "//" -> Mode("line", NoDelimiter)
                      [] t = "/*" -> Mode("block", NoDelimiter)
                      [] t = DQ /\ rawAt # {} -> Mode("raw", delimiter)
                      [] t = DQ /\ rawAt = {} -> Mode(DQ, NoDelimiter)
                      [] t = SQ -> Mode(SQ, NoDelimiter)
                      [] OTHER -> mode
               [] mode.in = "block" -> IF t = "*/" THEN Code ELSE mode
               [] mode.in = "raw" ->
                    IF TextAt(line, i - Len(mode.delimiter) + 1, mode.delimiter) THEN Code ELSE mode
               [] mode.in \in Quotes ->
                    IF t = mode.in /\ Cardinality(backslashes) % 2 = 0 THEN Code ELSE mode
               [] OTHER -> mode
    BY Zenon DEF LexStep, rawAt, delimiter
  <2> QED BY <2>1
<1> HIDE DEF rawAt
<1> QED BY <1>1, <1>2, <1>3

\* Steps in a comment, and steps in code.
LEMMA StepInComment ==
  ASSUME NEW line, NEW i, NEW mode, mode.in = "block"
  PROVE  LexStep(mode, line, i) = IF line[i] = "*/" THEN Code ELSE mode
BY DEF LexStep, Quotes, DQ, SQ

LEMMA StepInCode ==
  ASSUME NEW line, NEW i
  PROVE  /\ line[i] = Space => LexStep(Code, line, i) = Code
         /\ line[i] = "/*" => LexStep(Code, line, i).in = "block"
<1>1. Code.in = "code" /\ Space \notin {"//", "/*", DQ, SQ} /\ "/*" # "//"
  BY DEF Code, Mode, Space, DQ, SQ
<1>2. Mode("block", NoDelimiter).in = "block"
  BY DEF Mode
<1>3. ASSUME line[i] = Space PROVE LexStep(Code, line, i) = Code
  <2>1. line[i] # "//" /\ line[i] # "/*" /\ line[i] # DQ /\ line[i] # SQ
    BY <1>1, <1>3
  <2> QED BY <1>1, <2>1 DEF LexStep
<1>4. ASSUME line[i] = "/*" PROVE LexStep(Code, line, i) = Mode("block", NoDelimiter)
  <2>1. line[i] # "//" /\ line[i] # DQ /\ line[i] # SQ
    BY <1>1, <1>4 DEF DQ, SQ
  <2> DEFINE t == line[i]
  <2>2. Code.in = "code" /\ Code.in \notin Quotes /\ t = "/*" /\ t # "//" /\ t # DQ /\ t # SQ
    BY <1>1, <1>4, <2>1 DEF Quotes, DQ, SQ
  <2> HIDE DEF t
  <2> QED BY <2>2 DEF LexStep, t
<1> QED BY <1>2, <1>3, <1>4

LEMMA LexIs ==
  ASSUME NEW line \in Line, NEW start \in Modes
  PROVE  /\ Lex(line, start)[0] = start
         /\ \A i \in 1..Len(line) : Lex(line, start)[i] = LexStep(Lex(line, start)[i - 1], line, i)
         /\ \A i \in 0..Len(line) : Lex(line, start)[i] \in Modes
<1> DEFINE n == Len(line)
           T == [i \in 0..n |-> Modes]
           turn == [i \in 1..n |-> [b \in Modes |-> LexStep(b, line, i)]]
<1>1. n \in Nat /\ n \in Int /\ 0 \in Int /\ 0 <= n /\ \A i \in 0..n : T[i] = Modes
  BY DEF Line
<1>2. \A i \in (0 + 1)..n : i \in 1..n /\ i \in 0..n /\ i - 1 \in 0..n /\ i # 0
  BY <1>1
<1>3. \A i \in (0 + 1)..n : \A b \in T[i - 1] : turn[i][b] = LexStep(b, line, i) /\ turn[i][b] \in T[i]
  BY <1>1, <1>2, LexStepIs
<1>4. start \in T[0]
  BY <1>1
<1> HIDE DEF T, turn, n
<1>5. PICK g : Runs(g, 0, n, start, turn) /\ \A i \in 0..n : g[i] \in T[i]
  <2>1. \A i \in (0 + 1)..n : \A b \in T[i - 1] : turn[i][b] \in T[i]
    BY <1>3
  <2> QED BY ONLY <1>1, <1>4, <2>1, LoopRuns
<1>6. g = [i \in 0..n |-> IF i = 0 THEN start ELSE LexStep(g[i - 1], line, i)]
  <2>1. \A i \in 0..n : g[i] = IF i = 0 THEN start ELSE turn[i][g[i - 1]]
    BY <1>5 DEF Runs
  <2>2. \A i \in 0..n : i # 0 => i \in (0 + 1)..n
    BY <1>1
  <2>3. \A i \in 0..n : i # 0 => turn[i][g[i - 1]] = LexStep(g[i - 1], line, i)
    BY <1>2, <1>3, <1>5, <2>2
  <2>4. g = [i \in 0..n |-> g[i]]
    BY <1>5 DEF Runs
  <2> QED BY <2>1, <2>3, <2>4
<1> DEFINE f == CHOOSE h : h = [i \in 0..n |-> IF i = 0 THEN start ELSE LexStep(h[i - 1], line, i)]
<1>7. f = [i \in 0..n |-> IF i = 0 THEN start ELSE LexStep(f[i - 1], line, i)]
  BY <1>6
<1>8. Lex(line, start) = f
  BY DEF Lex, n
<1> HIDE DEF f
<1>9. f[0] = start /\ \A i \in 1..n : f[i] = LexStep(f[i - 1], line, i)
  <2>1. 0 \in 0..n /\ \A i \in 1..n : i \in 0..n /\ i # 0
    BY <1>1
  <2> QED BY <1>7, <2>1
<1>10. \A j \in 0..n : f[j] \in Modes
  <2> SUFFICES ASSUME NEW j \in 0..n PROVE f[j] \in T[j]
    BY <1>1
  <2>1. f[0] \in T[0]
    BY <1>4, <1>9
  <2>2. ASSUME NEW i \in (0 + 1)..j, f[i - 1] \in T[i - 1] PROVE f[i] \in T[i]
    <3>1. i \in (0 + 1)..n
      BY <1>1
    <3> QED BY <1>1, <1>2, <1>9, <2>2, <3>1, LexStepIs DEF n
  <2>3. j \in Int /\ 0 <= j
    BY <1>1
  <2> QED BY ONLY <1>1, <2>1, <2>2, <2>3, LoopKeeps
<1> QED BY <1>8, <1>9, <1>10 DEF n

\* The mode in which the line after one begins.
NextStart(line, start) ==
  LET end == Lex(line, start)[Len(line)]
  IN IF end.in \in {"block", "raw"} THEN end ELSE Code

LEMMA NextStartIs ==
  ASSUME NEW line \in Line, NEW start \in Modes
  PROVE  /\ NextStart(line, start) \in Modes
         /\ NextStart(line, start) = Code \/ NextStart(line, start).in \in {"block", "raw"}
         /\ Lex(line, start)[Len(line)].in = "block" => NextStart(line, start).in = "block"
<1>1. Code \in Modes
  BY Marks DEF Code, Mode, Modes, NoDelimiter
<1>2. Lex(line, start)[Len(line)] \in Modes
  BY LexIs DEF Line
<1> QED BY <1>1, <1>2 DEF NextStart

LEMMA LineStartIs ==
  ASSUME NEW last \in Nat, NEW lines \in Lines(last)
  PROVE  /\ LineStart(lines)[0] = Code
         /\ \A n \in 1..last : LineStart(lines)[n] = NextStart(lines[n - 1], LineStart(lines)[n - 1])
         /\ \A n \in 0..last :
              /\ LineStart(lines)[n] \in Modes
              /\ LineStart(lines)[n] = Code \/ LineStart(lines)[n].in \in {"block", "raw"}
<1> DEFINE IsStart(b) == b = Code \/ b.in \in {"block", "raw"}
           Starts == {b \in Modes : IsStart(b)}
           T == [n \in -1..last |-> Starts]
           step(b, n) == IF n = 0 THEN Code ELSE NextStart(lines[n - 1], b)
           turn == [n \in 0..last |-> [b \in Starts |-> step(b, n)]]
<1>1. /\ last \in Int /\ -1 \in Int /\ -1 <= last /\ \A n \in -1..last : T[n] = Starts
      /\ DOMAIN lines \cup {-1} = -1..last /\ \A n \in 0..last : lines[n] \in Line
  BY DEF Lines
<1>2. \A n \in (-1 + 1)..last : n \in 0..last /\ n \in -1..last /\ n - 1 \in -1..last /\ n # -1
                                /\ (n # 0 => n - 1 \in 0..last)
  OBVIOUS
<1>3. Code \in Starts
  BY Marks DEF Code, Mode, Modes, NoDelimiter
<1>4. ASSUME NEW b \in Starts, NEW n \in 0..last PROVE step(b, n) \in Starts
  <2>1. n # 0 => n - 1 \in 0..last
    OBVIOUS
  <2> QED BY <1>1, <1>3, <2>1, NextStartIs
<1> HIDE DEF T, turn, step, Starts
<1>5. \A n \in (-1 + 1)..last : \A b \in T[n - 1] : turn[n][b] = step(b, n) /\ turn[n][b] \in T[n]
  BY <1>1, <1>2, <1>4 DEF turn
<1>6. Code \in T[-1]
  BY <1>1, <1>3
<1>7. PICK g : Runs(g, -1, last, Code, turn) /\ \A n \in -1..last : g[n] \in T[n]
  <2>1. \A n \in (-1 + 1)..last : \A b \in T[n - 1] : turn[n][b] \in T[n]
    BY <1>5
  <2>2. last \in Int /\ -1 \in Int /\ -1 <= last
    BY <1>1
  <2> DEFINE base == Code
  <2>3. base \in T[-1]
    BY <1>6
  <2> HIDE DEF base
  <2>4. \E g : Runs(g, -1, last, base, turn) /\ \A n \in -1..last : g[n] \in T[n]
    BY ONLY <2>1, <2>2, <2>3, LoopRuns
  <2> QED BY <2>4 DEF base
<1>8. g = [n \in -1..last |-> IF n = -1 THEN Code ELSE step(g[n - 1], n)]
  <2>1. \A n \in -1..last : g[n] = IF n = -1 THEN Code ELSE turn[n][g[n - 1]]
    BY <1>7 DEF Runs
  <2>2. \A n \in -1..last : n # -1 => n \in (-1 + 1)..last
    BY <1>1
  <2>3. \A n \in -1..last : n # -1 => turn[n][g[n - 1]] = step(g[n - 1], n)
    BY <1>2, <1>5, <1>7, <2>2
  <2>4. g = [n \in -1..last |-> g[n]]
    BY <1>7 DEF Runs
  <2> QED BY <2>1, <2>3, <2>4
<1> DEFINE f == CHOOSE h : h = [n \in -1..last |->
                                  IF n = -1 THEN Code ELSE IF n = 0 THEN Code
                                  ELSE NextStart(lines[n - 1], h[n - 1])]
<1>9. f = [n \in -1..last |-> IF n = -1 THEN Code ELSE step(f[n - 1], n)]
  BY <1>8 DEF step
<1>10. LineStart(lines) = f
  BY <1>1 DEF LineStart, NextStart
<1> HIDE DEF f
<1>11. f[-1] = Code /\ \A n \in 0..last : f[n] = step(f[n - 1], n)
  <2>1. -1 \in -1..last /\ \A n \in 0..last : n \in -1..last /\ n # -1
    BY <1>1
  <2> QED BY <1>9, <2>1, Zenon
<1>12. \A j \in -1..last : f[j] \in Starts
  <2> SUFFICES ASSUME NEW j \in -1..last PROVE f[j] \in T[j]
    BY <1>1
  <2>1. f[-1] \in T[-1]
    BY <1>6, <1>11
  <2>2. ASSUME NEW n \in (-1 + 1)..j, f[n - 1] \in T[n - 1] PROVE f[n] \in T[n]
    <3>1. n \in (-1 + 1)..last
      BY <1>1
    <3> QED BY <1>1, <1>2, <1>4, <1>11, <2>2, <3>1
  <2>3. j \in Int /\ -1 <= j
    BY <1>1
  <2> QED BY ONLY <1>1, <2>1, <2>2, <2>3, LoopKeeps
<1>13. f[0] = Code /\ \A n \in 1..last : f[n] = NextStart(lines[n - 1], f[n - 1])
  <2>1. 0 \in 0..last /\ \A n \in 1..last : n \in 0..last /\ n # 0
    OBVIOUS
  <2> QED BY <1>11, <2>1 DEF step
<1>14. \A n \in 0..last : n \in -1..last
  OBVIOUS
<1> QED BY <1>10, <1>12, <1>13, <1>14 DEF Starts

OpenAfter(line, n, before) ==
  IF before # -1 THEN (IF EndsComment(line) THEN -1 ELSE before)
  ELSE IF StartsComment(line) THEN n ELSE -1

LEMMA OpenCommentIs ==
  ASSUME NEW last \in Nat, NEW lines \in Lines(last)
  PROVE  /\ OpenComment(lines)[-1] = -1
         /\ \A n \in 0..last :
              OpenComment(lines)[n] # -1 =>
                IF OpenComment(lines)[n - 1] # -1 THEN ~EndsComment(lines[n]) ELSE StartsComment(lines[n])
<1> DEFINE T == [n \in -1..last |-> Int]
           step(b, n) == OpenAfter(lines[n], n, b)
           turn == [n \in 0..last |-> [b \in Int |-> step(b, n)]]
<1>1. /\ last \in Int /\ -1 \in Int /\ -1 <= last /\ \A n \in -1..last : T[n] = Int
      /\ {-1} \cup DOMAIN lines = -1..last
  BY DEF Lines
<1>2. \A n \in (-1 + 1)..last : n \in 0..last /\ n \in -1..last /\ n - 1 \in -1..last /\ n # -1
  OBVIOUS
<1>3. ASSUME NEW b \in Int, NEW n \in 0..last PROVE step(b, n) \in Int
  BY DEF OpenAfter
<1> HIDE DEF T, turn, step
<1>4. \A n \in (-1 + 1)..last : \A b \in T[n - 1] : turn[n][b] = step(b, n) /\ turn[n][b] \in T[n]
  BY <1>1, <1>2, <1>3 DEF turn
<1>5. -1 \in T[-1]
  BY <1>1
<1>6. PICK g : Runs(g, -1, last, -1, turn) /\ \A n \in -1..last : g[n] \in T[n]
  <2>1. \A n \in (-1 + 1)..last : \A b \in T[n - 1] : turn[n][b] \in T[n]
    BY <1>4
  <2>2. last \in Int /\ -1 \in Int /\ -1 <= last
    BY <1>1
  <2> DEFINE base == -1
  <2>3. base \in T[-1]
    BY <1>5
  <2> HIDE DEF base
  <2>4. \E g : Runs(g, -1, last, base, turn) /\ \A n \in -1..last : g[n] \in T[n]
    BY ONLY <2>1, <2>2, <2>3, LoopRuns
  <2> QED BY <2>4 DEF base
<1>7. g = [n \in -1..last |-> IF n = -1 THEN -1 ELSE step(g[n - 1], n)]
  <2>1. \A n \in -1..last : g[n] = IF n = -1 THEN -1 ELSE turn[n][g[n - 1]]
    BY <1>6 DEF Runs
  <2>2. \A n \in -1..last : n # -1 => n \in (-1 + 1)..last
    BY <1>1
  <2>3. \A n \in -1..last : n # -1 => turn[n][g[n - 1]] = step(g[n - 1], n)
    BY <1>2, <1>4, <1>6, <2>2
  <2>4. g = [n \in -1..last |-> g[n]]
    BY <1>6 DEF Runs
  <2> QED BY <2>1, <2>3, <2>4
<1> DEFINE f == CHOOSE h : h = [i \in {-1} \cup DOMAIN lines |->
                                  IF i = -1 THEN -1 ELSE OpenAfter(lines[i], i, h[i - 1])]
<1>8. f = [n \in -1..last |-> IF n = -1 THEN -1 ELSE step(f[n - 1], n)]
  BY <1>1, <1>7 DEF step
<1>9. OpenComment(lines) = f
  BY DEF OpenComment, OpenAfter
<1> HIDE DEF f
<1>10. f[-1] = -1 /\ \A n \in 0..last : f[n] = step(f[n - 1], n)
  <2>1. -1 \in -1..last /\ \A n \in 0..last : n \in -1..last /\ n # -1
    BY <1>1
  <2> QED BY <1>8, <2>1, Zenon
<1> QED BY <1>9, <1>10 DEF step, OpenAfter

\* A line that begins inside a comment, with nothing behind its end: no token is anywhere else,
\* and if the comment has ended then the line ends with it.
NothingBehind(line, start) == \A i \in DOMAIN line : Lex(line, start)[i - 1] = Code => line[i] = Space

LEMMA CommentGoesOn ==
  ASSUME NEW line \in Line, NEW start \in Modes, start.in = "block", NothingBehind(line, start)
  PROVE  /\ \A i \in 1..Len(line) : line[i] = "bad" => Lex(line, start)[i].in = "block"
         /\ ~(Has(line, "*/") /\ EndsComment(line)) => Lex(line, start)[Len(line)].in = "block"
<1> DEFINE mode == Lex(line, start)
           n == Len(line)
           HasEnded(i) == \E j \in 1..i : line[j] = "*/" /\ \A k \in j + 1..i : line[k] = Space
           Good == {i \in 0..n : mode[i].in = "block" \/ (mode[i] = Code /\ HasEnded(i))}
<1>1. n \in Nat /\ DOMAIN line = 1..n
  BY DEF Line
<1>2. mode[0] = start /\ \A i \in 1..n : mode[i] = LexStep(mode[i - 1], line, i)
  BY LexIs
<1>3. Code.in # "block"
  BY DEF Code, Mode
<1> HIDE DEF mode, n
<1>4. 0 \in Good
  BY <1>1, <1>2
<1>5. ASSUME NEW i \in (0 + 1)..n, i - 1 \in Good PROVE i \in Good
  <2>1. i \in 0..n /\ i \in 1..n
    BY <1>1
  <2>2. CASE mode[i - 1].in = "block"
    <3>1. mode[i] = IF line[i] = "*/" THEN Code ELSE mode[i - 1]
      BY <1>2, <2>1, <2>2, StepInComment
    <3>2. line[i] = "*/" => HasEnded(i)
      BY <2>1
    <3> QED BY <2>1, <2>2, <3>1, <3>2
  <2>3. CASE mode[i - 1] = Code /\ HasEnded(i - 1)
    <3>1. line[i] = Space
      BY <1>1, <2>1, <2>3 DEF NothingBehind, mode
    <3>2. mode[i] = Code
      BY <1>2, <2>1, <2>3, <3>1, StepInCode
    <3>3. HasEnded(i)
      <4>1. PICK j \in 1..i - 1 : line[j] = "*/" /\ \A k \in j + 1..i - 1 : line[k] = Space
        BY <2>3
      <4>2. j \in 1..i /\ \A k \in j + 1..i : k = i \/ k \in j + 1..i - 1
        BY <2>1
      <4> QED BY <3>1, <4>1, <4>2
    <3> QED BY <2>1, <3>2, <3>3
  <2> QED BY <1>5, <2>2, <2>3
<1>6. 0..n \subseteq Good
  <2> HIDE DEF Good
  <2>1. 0 \in Int /\ n \in Int /\ 0 <= n
    BY <1>1
  <2> QED BY ONLY <1>4, <1>5, <2>1, Steps
<1>7. ASSUME NEW i \in 1..n, line[i] = "bad" PROVE mode[i].in = "block"
  <2>1. i - 1 \in 0..n /\ i \in 0..n
    BY <1>1
  <2>2. mode[i - 1] # Code
    BY <1>1, <1>7 DEF NothingBehind, mode, Space
  <2>3. mode[i - 1].in = "block"
    BY <1>6, <2>1, <2>2
  <2> QED BY <1>2, <1>7, <2>3, StepInComment
<1>8. ASSUME mode[n].in # "block" PROVE Has(line, "*/") /\ EndsComment(line)
  <2>1. HasEnded(n)
    BY <1>1, <1>6, <1>8
  <2>2. LastToken(line) = "*/"
    BY <2>1, EndTokensAre DEF n
  <2>3. Has(line, "*/")
    BY <1>1, <2>1 DEF Has, At
  <2> QED BY <2>2, <2>3 DEF EndsComment
<1> QED BY <1>7, <1>8 DEF mode, n

\* A line that begins a comment which does not end on it: no token but spaces is before it.
LEMMA CommentBegins ==
  ASSUME NEW line \in Line, StartsComment(line)
  PROVE  /\ \A i \in 1..Len(line) : line[i] = "bad" => Lex(line, Code)[i].in = "block"
         /\ Lex(line, Code)[Len(line)].in = "block"
<1>1. PICK j \in 1..Len(line) : line[j] = "/*" /\ \A k \in 1..j - 1 : line[k] = Space
  BY EndTokensAre DEF StartsComment
<1> DEFINE mode == Lex(line, Code)
           n == Len(line)
           Good == {i \in 0..n : IF i < j THEN mode[i] = Code ELSE mode[i].in = "block"}
<1>2. n \in Nat /\ DOMAIN line = 1..n /\ j \in 1..n
  BY DEF Line
<1>3. mode[0] = Code /\ \A i \in 1..n : mode[i] = LexStep(mode[i - 1], line, i)
  <2>1. Code \in Modes
    BY Marks DEF Code, Mode, Modes, NoDelimiter
  <2> QED BY <2>1, LexIs
<1>4. \A i \in 1..n : line[i] # "*/"
  BY <1>2 DEF StartsComment, Has, At
<1> HIDE DEF mode, n
<1>5. 0 \in Good
  BY <1>2, <1>3
<1>6. ASSUME NEW i \in (0 + 1)..n, i - 1 \in Good PROVE i \in Good
  <2>1. i \in 0..n /\ i \in 1..n
    BY <1>2
  <2>2. CASE i < j
    <3>1. mode[i - 1] = Code /\ line[i] = Space
      BY <1>1, <1>2, <1>6, <2>1, <2>2
    <3>2. mode[i] = Code
      BY <1>3, <2>1, <3>1, StepInCode
    <3> QED BY <2>1, <2>2, <3>2
  <2>3. CASE i = j
    <3>1. mode[i - 1] = Code /\ line[i] = "/*"
      BY <1>1, <1>2, <1>6, <2>1, <2>3
    <3>2. mode[i].in = "block"
      BY <1>3, <2>1, <3>1, StepInCode
    <3> QED BY <2>1, <2>3, <3>2
  <2>4. CASE i > j
    <3>1. mode[i - 1].in = "block"
      BY <1>2, <1>6, <2>1, <2>4
    <3>2. mode[i].in = "block"
      BY <1>3, <1>4, <2>1, <3>1, StepInComment
    <3> QED BY <1>2, <2>1, <2>4, <3>2
  <2> QED BY <1>2, <2>1, <2>2, <2>3, <2>4
<1>7. 0..n \subseteq Good
  <2> HIDE DEF Good
  <2>1. 0 \in Int /\ n \in Int /\ 0 <= n
    BY <1>2
  <2> QED BY ONLY <1>5, <1>6, <2>1, Steps
<1>8. ASSUME NEW i \in 1..n, line[i] = "bad" PROVE mode[i].in = "block"
  <2>1. i \in 0..n /\ ~(i < j)
    <3>1. line[i] # Space
      BY <1>8 DEF Space
    <3>2. i < j => i \in 1..j - 1
      BY <1>2
    <3> QED BY <1>1, <1>2, <3>1, <3>2
  <2> QED BY <1>7, <2>1
<1>9. mode[n].in = "block"
  <2>1. n \in 0..n /\ ~(n < j)
    BY <1>2
  <2> QED BY <1>7, <2>1
<1> QED BY <1>8, <1>9 DEF mode, n

\* Where cpplint takes a line for one inside a comment, the line is inside a comment; and what
\* it clears of a text is nothing else.
LEMMA ClearedAreComments ==
  ASSUME NEW last \in Nat, NEW lines \in Lines(last), Opaque(lines) = {}
  PROVE  \A n \in 0..last :
           OpenComment(lines)[n] # -1 \/ OpenComment(lines)[n - 1] # -1 =>
             \A i \in 1..Len(lines[n]) :
               lines[n][i] = "bad" => Lex(lines[n], LineStart(lines)[n])[i].in = "block"
<1> DEFINE start == LineStart(lines)
           open == OpenComment(lines)
           IsIn(n) == n < last => start[n + 1].in = "block"
           Good == {n \in -1..last : open[n] # -1 => IsIn(n)}
           Bad(n) == \A i \in 1..Len(lines[n]) : lines[n][i] = "bad" => Lex(lines[n], start[n])[i].in = "block"
<1>1. /\ DOMAIN lines = 0..last /\ \A n \in 0..last : lines[n] \in Line
      /\ last \in Int /\ -1 \in Int /\ -1 <= last
  BY DEF Lines
<1>2. /\ start[0] = Code
      /\ \A n \in 1..last : start[n] = NextStart(lines[n - 1], start[n - 1])
      /\ \A n \in 0..last : start[n] \in Modes /\ (start[n] = Code \/ start[n].in \in {"block", "raw"})
  BY LineStartIs
<1>3. /\ open[-1] = -1
      /\ \A n \in 0..last :
           open[n] # -1 => IF open[n - 1] # -1 THEN ~EndsComment(lines[n]) ELSE StartsComment(lines[n])
  BY OpenCommentIs
<1>4. \A n \in 0..last : start[n].in = "block" => NothingBehind(lines[n], start[n])
  BY <1>1 DEF Opaque, NothingBehind
<1>5. \A n \in 0..last : start[n].in = "raw" => ~StartsComment(lines[n])
  BY <1>1 DEF Opaque
<1> HIDE DEF start, open
\* A line of a comment that was open before it, or begins in it.
<1>6. ASSUME NEW n \in 0..last, open[n - 1] # -1 \/ open[n] # -1, open[n - 1] # -1 => start[n].in = "block"
      PROVE  Bad(n) /\ (open[n] # -1 => Lex(lines[n], start[n])[Len(lines[n])].in = "block")
  <2>1. lines[n] \in Line /\ start[n] \in Modes
    BY <1>1, <1>2
  <2>2. CASE start[n].in = "block"
    <3>1. open[n] # -1 => ~(Has(lines[n], "*/") /\ EndsComment(lines[n]))
      BY <1>3 DEF StartsComment
    <3> QED BY <1>4, <2>1, <2>2, <3>1, CommentGoesOn
  <2>3. CASE start[n].in # "block"
    <3>1. StartsComment(lines[n])
      BY <1>3, <1>6, <2>3
    <3>2. start[n] = Code
      BY <1>2, <1>5, <2>3, <3>1
    <3> QED BY <2>1, <3>1, <3>2, CommentBegins
  <2> QED BY <2>2, <2>3
<1>7. -1 \in Good
  BY <1>1, <1>3
<1>8. ASSUME NEW n \in (-1 + 1)..last, n - 1 \in Good PROVE n \in Good
  <2>1. n \in 0..last /\ n \in -1..last /\ n - 1 < last /\ (n - 1) + 1 = n
    BY <1>1
  <2>2. SUFFICES ASSUME open[n] # -1, n < last PROVE start[n + 1].in = "block"
    BY <2>1
  <2>3. open[n - 1] # -1 => start[n].in = "block"
    BY <1>8, <2>1
  <2>4. Lex(lines[n], start[n])[Len(lines[n])].in = "block"
    BY <1>6, <2>1, <2>2, <2>3
  <2>5. start[n + 1] = NextStart(lines[n], start[n])
    <3>1. n + 1 \in 1..last /\ (n + 1) - 1 = n
      BY <2>1, <2>2
    <3> QED BY <1>2, <3>1
  <2> QED BY <1>1, <1>2, <2>1, <2>4, <2>5, NextStartIs
<1>9. -1..last \subseteq Good
  <2> HIDE DEF Good
  <2> QED BY ONLY <1>1, <1>7, <1>8, Steps
<1>10. ASSUME NEW n \in 0..last, open[n] # -1 \/ open[n - 1] # -1 PROVE Bad(n)
  <2>1. n - 1 \in -1..last /\ n - 1 < last /\ (n - 1) + 1 = n
    BY <1>1
  <2>2. open[n - 1] # -1 => start[n].in = "block"
    BY <1>9, <2>1
  <2> QED BY <1>6, <1>10, <2>2
<1> QED BY <1>10 DEF start, open

-----------------------------------------------------------------------------
(* The run: bad characters. *)

LEMMA BadCharactersFound ==
  ASSUME NEW last \in Nat, NEW lines, DOMAIN lines = 0..last, NEW n \in 1..last, Has(lines[n], "bad")
  PROVE  Found(n, Utf8, 5) \in ToSet(BadCharacterErrors(lines))
<1> DEFINE S == {Found(k, Utf8, 5) : k \in Nat}
           lists == [k \in 1..last |-> When(Has(lines[k], "bad"), <<Found(k, Utf8, 5)>>)]
<1>1. Highest(DOMAIN lines) = last
  <2>1. last \in Int /\ 0 \in Int /\ 0..last # {} /\ 0..last \in SUBSET (0..last) /\ last \in 0..last
    OBVIOUS
  <2>2. Highest(0..last) \in 0..last /\ Highest(0..last) >= last
    BY <2>1, HighestIs
  <2> QED BY <2>2
<1>2. \A k \in 1..last : Found(k, Utf8, 5) \in S
  OBVIOUS
<1> HIDE DEF S
<1>3. lists \in Seq(Seq(S))
  <2>1. \A k \in 1..last : When(Has(lines[k], "bad"), <<Found(k, Utf8, 5)>>) \in Seq(S)
    BY <1>2, EmptySeq DEF When
  <2> QED BY <2>1
<1>4. /\ lists # <<>> /\ DOMAIN lists = 1..last /\ lists[n] = <<Found(n, Utf8, 5)>>
      /\ Found(n, Utf8, 5) \in ToSet(lists[n])
  <2>1. 1..last # {} /\ DOMAIN lists = 1..last
    OBVIOUS
  <2>2. lists[n] = <<Found(n, Utf8, 5)>>
    BY DEF When
  <2>3. lists # <<>>
    BY <2>1
  <2> HIDE DEF lists
  <2> QED BY <2>1, <2>2, <2>3 DEF ToSet
<1>5. BadCharacterErrors(lines) = FlattenSeq(lists)
  BY <1>1 DEF BadCharacterErrors
<1> HIDE DEF lists
<1>6. ToSet(FlattenSeq(lists)) = Listed(lists)
  BY <1>3, <1>4, FlattenMembers
<1> QED BY <1>4, <1>5, <1>6 DEF Listed

\* The lines are those of the file, but for the comments that were cleared; and at the end all
\* bad characters in them are reported.
BadInv ==
  next >= 0 =>
    /\ clean.raw = RemoveMultiLineComments(Marked(file.lines))
    /\ next = Done => \A n \in 1..LastLine : Has(clean.raw[n], "bad") => n \in LinesWith(reports.found, Utf8)

LEMMA NotYetDone == ReportsInv /\ next >= 0 => next # 0 \/ next # Done
BY TextIsRead

LEMMA NextBad == ReportsInv /\ BadInv /\ [Next]_runVars => BadInv'
<1> SUFFICES ASSUME ReportsInv, BadInv, [Next]_runVars, next' >= 0 PROVE BadInv'
  BY DEF BadInv
<1>1. CASE Prepare /\ Prepares
  <2>1. next' = 0 /\ file' = file /\ clean' = CleansedLines(RemoveMultiLineComments(Marked(file.lines)))
    BY <1>1 DEF Prepare, Prepares
  <2>2. clean'.raw = RemoveMultiLineComments(Marked(file.lines))
    BY <2>1 DEF CleansedLines
  <2>3. next' # Done'
    <3>1. (ReportsInv /\ next >= 0)'
      BY NextReports
    <3>2. (next # 0 \/ next # Done)'
      BY <3>1, NotYetDone, PTL
    <3> QED BY <2>1, <3>2
  <2> QED BY <2>1, <2>2, <2>3 DEF BadInv
<1>2. CASE Reads
  <2>1. next >= 0 /\ UNCHANGED <<clean, file>> /\ next' \in 0..LastLine + 1
    BY <1>2 DEF Reads
  <2>2. Done' = LastLine + 2 /\ LastLine \in Nat
    BY <2>1, TextIsRead DEF Done, EndOfFile
  <2>3. next' # Done'
    BY <2>1, <2>2
  <2> QED BY <2>1, <2>3 DEF BadInv
<1>3. CASE Finishes
  <2>1. /\ next >= 0 /\ UNCHANGED <<clean, file>> /\ LastLine' = LastLine
        /\ ToSet(BadCharacterErrors(clean.raw)) \subseteq ErrorsIn(reports'.found)
    BY <1>3 DEF Finishes, LastLine
  <2>2. ASSUME NEW n \in 1..LastLine, Has(clean.raw[n], "bad") PROVE n \in LinesWith(reports'.found, Utf8)
    <3>1. Found(n, Utf8, 5) \in ErrorsIn(reports'.found)
      BY <2>1, <2>2, TextIsRead, BadCharactersFound
    <3>2. Found(n, Utf8, 5).line = n /\ Found(n, Utf8, 5).category = Utf8
      BY DEF Found
    <3> QED BY <3>1, <3>2 DEF LinesWith
  <2> QED BY <2>1, <2>2 DEF BadInv
<1>4. CASE UNCHANGED vars
  <2>1. UNCHANGED <<next, clean, file, reports>>
    BY <1>4 DEF vars
  <2> QED BY <2>1 DEF BadInv, Done, EndOfFile, LastLine
<1> QED BY <1>1, <1>2, <1>3, <1>4, StepIs

\* Every bad character is reported, outside comments of the form /* */, for every text that
\* cpplint sees through.
THEOREM BadCharactersAreSeen == Spec => []BadCharactersSeen
<1>1. Init => BadInv
  BY InitRead DEF BadInv
<1>2. ReportsInv /\ BadInv => BadCharactersSeen
  <2> DEFINE lines == Marked(file.lines)
  <2> SUFFICES ASSUME ReportsInv, BadInv, next = Done, Opaque(lines) = {},
                      NEW n \in DOMAIN file.lines, NEW i \in At(file.lines[n], "bad"),
                      Lex(file.lines[n], LineStart(lines)[n])[i].in # "block"
               PROVE  n \in LinesAt(Utf8)
    BY DEF BadCharactersSeen
  <2>1. next >= 0
    BY DEF ReportsInv, Inv, FilesInv, Idle, Unread, Done, EndOfFile
  <2>2. /\ LastLine \in Nat /\ file \in Files /\ file.lines \in Seq(Seq(STRING))
        /\ clean.raw = RemoveMultiLineComments(lines)
        /\ \A k \in 1..LastLine : Has(clean.raw[k], "bad") => k \in LinesWith(reports.found, Utf8)
    BY <2>1, TextIsRead, FilesAssumption DEF BadInv
  <2>3. /\ lines \in Lines(LastLine) /\ n \in 0..LastLine /\ n \in 1..LastLine /\ lines[n] = file.lines[n]
        /\ n \in DOMAIN lines
    BY <2>2, MarkedIs DEF LastLine, Marked
  <2> HIDE DEF lines
  <2>4. lines[n] \in Line /\ i \in 1..Len(lines[n]) /\ lines[n][i] = "bad"
    BY <2>3 DEF At, Lines, Line
  <2>5. OpenComment(lines)[n] = -1 /\ OpenComment(lines)[n - 1] = -1
    <3>1. \A k \in 0..LastLine :
            OpenComment(lines)[k] # -1 \/ OpenComment(lines)[k - 1] # -1 =>
              \A j \in 1..Len(lines[k]) :
                lines[k][j] = "bad" => Lex(lines[k], LineStart(lines)[k])[j].in = "block"
      BY ONLY <2>2, <2>3, Opaque(lines) = {}, ClearedAreComments
    <3> QED BY <2>3, <2>4, <3>1
  <2>6. clean.raw[n] = lines[n]
    BY <2>2, <2>3, <2>5 DEF RemoveMultiLineComments
  <2>7. Has(clean.raw[n], "bad")
    BY <2>3, <2>6 DEF Has
  <2>8. n \in LinesWith(reports.found, Utf8)
    BY <2>2, <2>3, <2>7
  <2> QED BY <2>8, LinesAtIs DEF LinesAt
<1> QED BY InitReports, NextReports, NextBad, <1>1, <1>2, PTL DEF Spec

-----------------------------------------------------------------------------
(* The run: the blocks on the stack and the braces that are open. *)

Place(n, i) == [line |-> n, at |-> i]
OpenBrace == "{"
CloseBrace == "}"
Ends == {OpenBrace, ";", ")"}

\* A head stands at or before the place, and nothing that ends one is behind it.
IsPending(n, i) ==
  \E p \in Heads(n + 1) : /\ ~Precedes(Place(n, i), p)
                          /\ \A r \in Places(Ends) : Precedes(p, r) => Precedes(Place(n, i), r)

SeenBlocks(stack) == IF SeenOpenBrace(stack) THEN Len(stack) ELSE Len(stack) - 1

\* The braces that are open at a place.
AreFinite(n, i) == IsFiniteSet(UpTo(Place(n, i), {OpenBrace})) /\ IsFiniteSet(UpTo(Place(n, i), {CloseBrace}))
BracesAt(n, i) == Cardinality(UpTo(Place(n, i), {OpenBrace})) - Cardinality(UpTo(Place(n, i), {CloseBrace}))

\* All blocks but the innermost have seen their brace, and so has it but behind a head; and those
\* that have are the braces open.
AreBraced(stack, n, i) ==
  /\ \A k \in 1..Len(stack) - 1 : stack[k].seen
  /\ SeenOpenBrace(stack) \/ IsPending(n, i)
  /\ AreFinite(n, i) /\ SeenBlocks(stack) = BracesAt(n, i)

LEMMA BraceTokens ==
  /\ OpenBrace # CloseBrace /\ CloseBrace \notin Ends /\ OpenBrace \in Ends
  /\ Ends = {"{", ";", ")"} /\ {OpenBrace} = {"{"} /\ {CloseBrace} = {"}"}
BY Zenon DEF OpenBrace, CloseBrace, Ends

LEMMA PlaceIs ==
  ASSUME NEW n, NEW i
  PROVE  Place(n, i).line = n /\ Place(n, i).at = i
BY DEF Place

LEMMA LineIs ==
  ASSUME NEW last \in Nat, IsText(clean, last), NEW n \in 0..last
  PROVE  /\ clean.elided[n] \in Line /\ Len(clean.elided[n]) \in Nat /\ n \in Nat
         /\ DOMAIN clean.elided = 0..last /\ DOMAIN clean.elided[n] = 1..Len(clean.elided[n])
<1>1. clean.elided \in [0..last -> Line]
  BY DEF IsText, Lines
<1>2. \A line \in Line : DOMAIN line = 1..Len(line) /\ Len(line) \in Nat
  BY DEF Line
<1> QED BY <1>1, <1>2

LEMMA PushedIs ==
  ASSUME NEW S, NEW stack \in Seq(S), NEW block \in S
  PROVE  LET pushed == Append(stack, block)
         IN /\ Len(pushed) = Len(stack) + 1 /\ Len(stack) \in Nat /\ pushed # <<>> /\ Top(pushed) = block
            /\ \A k \in 1..Len(stack) : pushed[k] = stack[k]
            /\ stack # <<>> => Len(stack) \in 1..Len(stack)
<1> DEFINE pushed == Append(stack, block)
<1>1. /\ Len(pushed) = Len(stack) + 1 /\ Len(stack) \in Nat /\ pushed # <<>> /\ pushed[Len(stack) + 1] = block
      /\ \A k \in 1..Len(stack) : pushed[k] = stack[k]
  OBVIOUS
<1>2. stack # <<>> => Len(stack) \in 1..Len(stack)
  OBVIOUS
<1> QED BY <1>1, <1>2 DEF Top

LEMMA PlacesAre ==
  ASSUME NEW last \in Nat, IsText(clean, last), NEW tokens
  PROVE  /\ \A n \in 0..last : \A i \in 1..Len(clean.elided[n]) :
              clean.elided[n][i] \in tokens => Place(n, i) \in Places(tokens)
         /\ \A p \in Places(tokens) :
              /\ p.line \in 0..last /\ p.at \in 1..Len(clean.elided[p.line]) /\ p.at \in Nat
              /\ clean.elided[p.line][p.at] \in tokens /\ p = Place(p.line, p.at)
<1>1. DOMAIN clean.elided = 0..last /\ \A n \in 0..last : DOMAIN clean.elided[n] = 1..Len(clean.elided[n])
                                         /\ Len(clean.elided[n]) \in Nat
  <2>1. ASSUME NEW n \in 0..last
        PROVE  DOMAIN clean.elided = 0..last /\ DOMAIN clean.elided[n] = 1..Len(clean.elided[n])
               /\ Len(clean.elided[n]) \in Nat
    BY LineIs
  <2>2. 0 \in 0..last
    OBVIOUS
  <2> QED BY <2>1, <2>2
<1>2. ASSUME NEW n \in 0..last, NEW i \in 1..Len(clean.elided[n]), clean.elided[n][i] \in tokens
      PROVE  Place(n, i) \in Places(tokens)
  BY <1>1, <1>2 DEF Place, Places
<1>3. ASSUME NEW p \in Places(tokens)
      PROVE  /\ p.line \in 0..last /\ p.at \in 1..Len(clean.elided[p.line]) /\ p.at \in Nat
             /\ clean.elided[p.line][p.at] \in tokens /\ p = Place(p.line, p.at)
  <2>1. PICK n \in 0..last : \E i \in 1..Len(clean.elided[n]) :
               p = [line |-> n, at |-> i] /\ clean.elided[n][i] \in tokens
    BY <1>1 DEF Places
  <2>2. PICK i \in 1..Len(clean.elided[n]) : p = [line |-> n, at |-> i] /\ clean.elided[n][i] \in tokens
    BY <2>1
  <2> QED BY <1>1, <2>2 DEF Place
<1> QED BY <1>2, <1>3

\* From one place of a line on to another, past none of the tokens.
LEMMA UpToSame ==
  ASSUME NEW last \in Nat, IsText(clean, last), NEW n \in 0..last, NEW i \in 0..Len(clean.elided[n]),
         NEW j \in i..Len(clean.elided[n]), NEW tokens,
         \A k \in i + 1..j : clean.elided[n][k] \notin tokens
  PROVE  UpTo(Place(n, j), tokens) = UpTo(Place(n, i), tokens)
<1>1. Len(clean.elided[n]) \in Nat /\ i \in Nat /\ j \in Nat
  BY LineIs
<1>2. ASSUME NEW p \in Places(tokens)
      PROVE  Precedes(Place(n, j), p) <=> Precedes(Place(n, i), p)
  <2>1. /\ p.line \in 0..last /\ p.at \in 1..Len(clean.elided[p.line]) /\ p.at \in Nat
        /\ clean.elided[p.line][p.at] \in tokens
    BY PlacesAre
  <2>2. p.line = n => ~(p.at \in i + 1..j)
    BY <2>1
  <2> QED BY <1>1, <2>1, <2>2, PlaceIs DEF Precedes
<1> QED BY <1>2 DEF UpTo

\* One of the tokens is one place more.
LEMMA UpToMore ==
  ASSUME NEW last \in Nat, IsText(clean, last), NEW n \in 0..last, NEW i \in 1..Len(clean.elided[n]),
         NEW tokens, clean.elided[n][i] \in tokens
  PROVE  /\ UpTo(Place(n, i), tokens) = UpTo(Place(n, i - 1), tokens) \cup {Place(n, i)}
         /\ Place(n, i) \notin UpTo(Place(n, i - 1), tokens)
<1>1. Len(clean.elided[n]) \in Nat /\ i \in Nat /\ i - 1 \in Nat
  BY LineIs
<1>2. Place(n, i) \in Places(tokens)
  BY PlacesAre
<1>3. ASSUME NEW p \in Places(tokens)
      PROVE  ~Precedes(Place(n, i), p) <=> ~Precedes(Place(n, i - 1), p) \/ p = Place(n, i)
  <2>1. p.line \in 0..last /\ p.at \in Nat /\ p = Place(p.line, p.at)
    BY PlacesAre
  <2>2. p = Place(n, i) <=> p.line = n /\ p.at = i
    BY <2>1, PlaceIs
  <2> QED BY <1>1, <2>1, <2>2, PlaceIs DEF Precedes
<1>4. Precedes(Place(n, i - 1), Place(n, i))
  BY <1>1, PlaceIs DEF Precedes
<1> QED BY <1>2, <1>3, <1>4 DEF UpTo

\* The begin of a line is the end of the one before.
LEMMA UpToLine ==
  ASSUME NEW last \in Nat, IsText(clean, last), NEW n \in 0..last, NEW tokens
  PROVE  UpTo(Place(n + 1, 0), tokens) = UpTo(Place(n, Len(clean.elided[n])), tokens)
<1>1. Len(clean.elided[n]) \in Nat
  BY LineIs
<1>2. ASSUME NEW p \in Places(tokens)
      PROVE  Precedes(Place(n + 1, 0), p) <=> Precedes(Place(n, Len(clean.elided[n])), p)
  <2>1. p.line \in 0..last /\ p.at \in 1..Len(clean.elided[p.line]) /\ p.at \in Nat
    BY PlacesAre
  <2>2. p.line = n => p.at <= Len(clean.elided[n])
    BY <2>1
  <2> QED BY <1>1, <2>1, <2>2, PlaceIs DEF Precedes
<1> QED BY <1>2 DEF UpTo

\* The braces are the same behind other tokens.
LEMMA BracesSame ==
  ASSUME NEW last \in Nat, IsText(clean, last), NEW n \in 0..last, NEW i \in 0..Len(clean.elided[n]),
         NEW j \in i..Len(clean.elided[n]),
         \A k \in i + 1..j : clean.elided[n][k] # OpenBrace /\ clean.elided[n][k] # CloseBrace
  PROVE  BracesAt(n, j) = BracesAt(n, i) /\ (AreFinite(n, i) => AreFinite(n, j))
<1>1. \A tokens : (\A k \in i + 1..j : clean.elided[n][k] \notin tokens)
                     => UpTo(Place(n, j), tokens) = UpTo(Place(n, i), tokens)
  BY UpToSame
<1>2. \A k \in i + 1..j : clean.elided[n][k] \notin {OpenBrace} /\ clean.elided[n][k] \notin {CloseBrace}
  OBVIOUS
<1> QED BY <1>1, <1>2 DEF BracesAt, AreFinite

\* One brace more is open, or one less.
LEMMA BraceCounts ==
  ASSUME NEW last \in Nat, IsText(clean, last), NEW n \in 0..last, NEW i \in 1..Len(clean.elided[n]),
         AreFinite(n, i - 1)
  PROVE  /\ AreFinite(n, i) /\ BracesAt(n, i - 1) \in Int
         /\ clean.elided[n][i] = OpenBrace => BracesAt(n, i) = BracesAt(n, i - 1) + 1
         /\ clean.elided[n][i] = CloseBrace => BracesAt(n, i) = BracesAt(n, i - 1) - 1
         /\ clean.elided[n][i] \notin {OpenBrace, CloseBrace} => BracesAt(n, i) = BracesAt(n, i - 1)
<1> DEFINE A == UpTo(Place(n, i - 1), {OpenBrace})
           B == UpTo(Place(n, i - 1), {CloseBrace})
           A1 == UpTo(Place(n, i), {OpenBrace})
           B1 == UpTo(Place(n, i), {CloseBrace})
           p == Place(n, i)
           t == clean.elided[n][i]
<1>1. /\ i - 1 \in 0..Len(clean.elided[n]) /\ i \in i - 1..Len(clean.elided[n])
      /\ \A k \in (i - 1) + 1..i : k = i
  BY LineIs
<1>2. /\ t = OpenBrace => A1 = A \cup {p} /\ p \notin A
      /\ t = CloseBrace => B1 = B \cup {p} /\ p \notin B
  <2>1. ASSUME t = OpenBrace PROVE A1 = A \cup {p} /\ p \notin A
    <3>1. t \in {OpenBrace}
      BY <2>1
    <3> QED BY <3>1, UpToMore
  <2>2. ASSUME t = CloseBrace PROVE B1 = B \cup {p} /\ p \notin B
    <3>1. t \in {CloseBrace}
      BY <2>2
    <3> QED BY <3>1, UpToMore
  <2> QED BY <2>1, <2>2
<1>3. /\ t # OpenBrace => A1 = A
      /\ t # CloseBrace => B1 = B
  BY <1>1, UpToSame
<1> HIDE DEF A, B, A1, B1, p, t
<1>4. IsFiniteSet(A) /\ IsFiniteSet(B) /\ Cardinality(A) \in Nat /\ Cardinality(B) \in Nat
  BY FS_CardinalityType DEF A, B, AreFinite
<1>5. /\ p \notin A => IsFiniteSet(A \cup {p}) /\ Cardinality(A \cup {p}) = Cardinality(A) + 1
      /\ p \notin B => IsFiniteSet(B \cup {p}) /\ Cardinality(B \cup {p}) = Cardinality(B) + 1
  BY <1>4, FS_AddElement
<1>6. IsFiniteSet(A1) /\ IsFiniteSet(B1)
  BY <1>2, <1>3, <1>4, <1>5
<1>7. OpenBrace # CloseBrace
  BY BraceTokens
<1>8. /\ t = OpenBrace => Cardinality(A1) - Cardinality(B1) = (Cardinality(A) - Cardinality(B)) + 1
      /\ t = CloseBrace => Cardinality(A1) - Cardinality(B1) = (Cardinality(A) - Cardinality(B)) - 1
      /\ t \notin {OpenBrace, CloseBrace} => A1 = A /\ B1 = B
  <2>1. ASSUME t = OpenBrace PROVE Cardinality(A1) - Cardinality(B1) = (Cardinality(A) - Cardinality(B)) + 1
    <3>1. Cardinality(A1) = Cardinality(A) + 1 /\ B1 = B
      BY <1>2, <1>3, <1>5, <1>7, <2>1
    <3> QED BY <1>4, <3>1
  <2>2. ASSUME t = CloseBrace PROVE Cardinality(A1) - Cardinality(B1) = (Cardinality(A) - Cardinality(B)) - 1
    <3>1. Cardinality(B1) = Cardinality(B) + 1 /\ A1 = A
      BY <1>2, <1>3, <1>5, <1>7, <2>2
    <3> QED BY <1>4, <3>1
  <2> QED BY <1>3, <2>1, <2>2
<1> QED BY <1>4, <1>6, <1>8 DEF A, B, A1, B1, t, BracesAt, AreFinite

\* Before the next head, or the end of a block, no head waits for its brace.
LEMMA BracesOpen ==
  ASSUME NEW last \in Nat, IsText(clean, last), NEW n \in 0..last, NEW i \in 1..Len(clean.elided[n]),
         NEW stack, AreBraced(stack, n, i - 1), IsWellBraced(n + 1),
         Place(n, i) \in Heads(n + 1) \/ clean.elided[n][i] = CloseBrace
  PROVE  SeenOpenBrace(stack)
<1> SUFFICES ASSUME IsPending(n, i - 1) PROVE FALSE
  BY DEF AreBraced
<1> DEFINE q == Place(n, i)
<1>1. Len(clean.elided[n]) \in Nat /\ i \in Nat /\ i - 1 \in Nat /\ n < n + 1 /\ n \in Nat
  BY LineIs
<1>2. PICK p \in Heads(n + 1) : /\ ~Precedes(Place(n, i - 1), p)
                                /\ \A r \in Places(Ends) : Precedes(p, r) => Precedes(Place(n, i - 1), r)
  BY DEF IsPending
<1>3. q \in Heads(n + 1) \cup PlacesIn({CloseBrace}, n + 1)
  <2>1. ASSUME clean.elided[n][i] = CloseBrace PROVE q \in PlacesIn({CloseBrace}, n + 1)
    BY <1>1, <2>1, PlacesAre, PlaceIs DEF PlacesIn
  <2> QED BY <2>1
<1>4. p.line \in Nat /\ p.at \in Nat
  <2>1. p \in Places({"namespace"}) \/ p \in Places({"class", "struct"})
    BY DEF Heads, PlacesIn
  <2> QED BY <2>1, PlacesAre
<1>5. Precedes(p, q)
  BY <1>1, <1>2, <1>4, PlaceIs DEF Precedes
<1>6. PICK r \in Places(Ends) : Precedes(p, r) /\ Precedes(r, q)
  <2>1. \A x \in Heads(n + 1), y \in Heads(n + 1) \cup PlacesIn({CloseBrace}, n + 1) :
          Precedes(x, y) => \E r \in Places(Ends) : Precedes(x, r) /\ Precedes(r, y)
    BY Zenon, BraceTokens DEF IsWellBraced
  <2> QED BY <1>3, <1>5, <2>1
<1>7. Precedes(Place(n, i - 1), r) /\ r.line \in Nat /\ r.at \in Nat
  BY <1>2, <1>6, PlacesAre
<1> QED BY <1>1, <1>6, <1>7, PlaceIs DEF Precedes

\* From one place of a line on to another, past nothing that ends a head or a block.
LEMMA BracedOn ==
  ASSUME NEW last \in Nat, IsText(clean, last), NEW n \in 0..last, NEW i \in 0..Len(clean.elided[n]),
         NEW j \in i..Len(clean.elided[n]), NEW stack, AreBraced(stack, n, i),
         \A k \in i + 1..j : clean.elided[n][k] \notin Ends \cup {CloseBrace}
  PROVE  AreBraced(stack, n, j)
<1>1. Len(clean.elided[n]) \in Nat /\ i \in Nat /\ j \in Nat /\ n \in Nat /\ i <= j
  BY LineIs
<1>2. UpTo(Place(n, j), Ends) = UpTo(Place(n, i), Ends)
  <2>1. \A k \in i + 1..j : clean.elided[n][k] \notin Ends
    OBVIOUS
  <2> QED
    BY ONLY <2>1, UpToSame, IsText(clean, last), last \in Nat, n \in 0..last, i \in 0..Len(clean.elided[n]),
            j \in i..Len(clean.elided[n])
<1>4. BracesAt(n, j) = BracesAt(n, i) /\ (AreFinite(n, i) => AreFinite(n, j))
  <2>1. \A k \in i + 1..j : clean.elided[n][k] # OpenBrace /\ clean.elided[n][k] # CloseBrace
    BY BraceTokens
  <2> QED BY <2>1, BracesSame
<1>3. ASSUME IsPending(n, i) PROVE IsPending(n, j)
  <2>1. PICK p \in Heads(n + 1) : /\ ~Precedes(Place(n, i), p)
                                  /\ \A r \in Places(Ends) : Precedes(p, r) => Precedes(Place(n, i), r)
    BY <1>3 DEF IsPending
  <2>2. p.line \in Nat /\ p.at \in Nat
    <3>1. p \in Places({"namespace"}) \/ p \in Places({"class", "struct"})
      BY DEF Heads, PlacesIn
    <3> QED BY <3>1, PlacesAre
  <2>3. ~Precedes(Place(n, j), p)
    BY <1>1, <2>1, <2>2, PlaceIs DEF Precedes
  <2>4. \A r \in Places(Ends) : Precedes(p, r) => Precedes(Place(n, j), r)
    BY <1>2, <2>1 DEF UpTo
  <2> QED BY <2>3, <2>4 DEF IsPending
<1> QED BY <1>3, <1>4 DEF AreBraced

\* A block whose brace was not seen is pushed at a head.
LEMMA BracedHead ==
  ASSUME NEW last \in Nat, IsText(clean, last), NEW n \in 0..last, NEW i \in 1..Len(clean.elided[n]),
         NEW S, NEW stack \in Seq(S), NEW block \in S, ~block.seen, AreBraced(stack, n, i - 1), IsWellBraced(n + 1),
         Place(n, i) \in Heads(n + 1), clean.elided[n][i] \notin Ends \cup {CloseBrace}
  PROVE  AreBraced(Append(stack, block), n, i)
<1> DEFINE pushed == Append(stack, block)
<1>1. SeenOpenBrace(stack)
  BY BracesOpen
<1>2. /\ Len(pushed) = Len(stack) + 1 /\ Len(stack) \in Nat /\ pushed # <<>> /\ Top(pushed) = block
      /\ \A k \in 1..Len(stack) : pushed[k] = stack[k]
      /\ stack # <<>> => Len(stack) \in 1..Len(stack)
  BY PushedIs
<1> HIDE DEF pushed
<1>3. SeenBlocks(pushed) = SeenBlocks(stack) /\ ~SeenOpenBrace(pushed)
  BY <1>1, <1>2 DEF SeenBlocks, SeenOpenBrace
<1>4. \A k \in 1..Len(pushed) - 1 : pushed[k].seen
  <2>1. \A k \in 1..Len(stack) : stack[k].seen
    BY <1>1, <1>2 DEF AreBraced, SeenOpenBrace, Top
  <2> QED BY <1>2, <2>1
<1>5. IsPending(n, i)
  <2>1. ~Precedes(Place(n, i), Place(n, i))
    <3>1. i \in Nat /\ n \in Nat
      BY LineIs
    <3> QED BY <3>1, PlaceIs DEF Precedes
  <2> QED BY <2>1 DEF IsPending
<1>6. BracesAt(n, i) = BracesAt(n, i - 1) /\ AreFinite(n, i)
  <2>1. clean.elided[n][i] \notin {OpenBrace, CloseBrace}
    BY BraceTokens
  <2> QED BY <2>1, BraceCounts DEF AreBraced
<1> QED BY <1>3, <1>4, <1>5, <1>6 DEF AreBraced, pushed

\* A block whose brace was seen is pushed at the brace.
LEMMA BracedBlock ==
  ASSUME NEW last \in Nat, IsText(clean, last), NEW n \in 0..last, NEW i \in 1..Len(clean.elided[n]),
         NEW S, NEW stack \in Seq(S), NEW block \in S, block.seen, SeenOpenBrace(stack),
         AreBraced(stack, n, i - 1), clean.elided[n][i] = OpenBrace
  PROVE  AreBraced(Append(stack, block), n, i)
<1> DEFINE pushed == Append(stack, block)
<1>1. /\ Len(pushed) = Len(stack) + 1 /\ Len(stack) \in Nat /\ pushed # <<>> /\ Top(pushed) = block
      /\ \A k \in 1..Len(stack) : pushed[k] = stack[k]
      /\ stack # <<>> => Len(stack) \in 1..Len(stack)
  BY PushedIs
<1> HIDE DEF pushed
<1>2. SeenBlocks(pushed) = SeenBlocks(stack) + 1 /\ SeenOpenBrace(pushed)
  BY <1>1 DEF SeenBlocks, SeenOpenBrace
<1>3. \A k \in 1..Len(pushed) - 1 : pushed[k].seen
  <2>1. \A k \in 1..Len(stack) : stack[k].seen
    BY <1>1 DEF AreBraced, SeenOpenBrace, Top
  <2> QED BY <1>1, <2>1
<1>4. AreFinite(n, i) /\ BracesAt(n, i - 1) \in Int /\ BracesAt(n, i) = BracesAt(n, i - 1) + 1
  BY BraceCounts DEF AreBraced
<1>5. SeenBlocks(stack) = BracesAt(n, i - 1)
  BY DEF AreBraced
<1> QED BY <1>2, <1>3, <1>4, <1>5 DEF AreBraced, pushed

\* The innermost block ends, or is not to be opened.
LEMMA PoppedIs ==
  ASSUME NEW S, NEW stack \in Seq(S), stack # <<>>
  PROVE  /\ Len(Pop(stack)) = Len(stack) - 1 /\ Len(stack) \in Nat \ {0}
         /\ \A k \in 1..Len(stack) - 1 : Pop(stack)[k] = stack[k]
         /\ Pop(stack) # <<>> => Top(Pop(stack)) = stack[Len(stack) - 1] /\ Len(stack) - 1 \in 1..Len(stack) - 1
<1> DEFINE popped == SubSeq(stack, 1, Len(stack) - 1)
<1>1. Len(stack) \in Nat \ {0}
  OBVIOUS
<1>2. Len(popped) = Len(stack) - 1 /\ \A k \in 1..Len(stack) - 1 : popped[k] = stack[k]
  <2> DEFINE n == Len(stack) - 1
  <2>1. n \in Nat /\ n <= Len(stack)
    BY <1>1
  <2> HIDE DEF n
  <2>2. Len(SubSeq(stack, 1, n)) = n
    BY <1>1, <2>1
  <2>3. \A k \in 1..n : SubSeq(stack, 1, n)[k] = stack[k]
    BY <1>1, <2>1
  <2> QED BY <2>2, <2>3 DEF n
<1>3. Pop(stack) = popped
  BY DEF Pop, Take
<1>4. popped # <<>> => Len(stack) - 1 \in 1..Len(stack) - 1
  BY <1>1, <1>2
<1> HIDE DEF popped
<1> QED BY <1>1, <1>2, <1>3, <1>4 DEF Top

LEMMA PoppedSeen ==
  ASSUME NEW S, NEW stack \in Seq(S), stack # <<>>, \A k \in 1..Len(stack) - 1 : stack[k].seen
  PROVE  /\ \A k \in 1..Len(Pop(stack)) - 1 : Pop(stack)[k].seen
         /\ SeenOpenBrace(Pop(stack)) /\ SeenBlocks(Pop(stack)) = Len(stack) - 1
<1>1. /\ Len(Pop(stack)) = Len(stack) - 1 /\ Len(stack) \in Nat \ {0}
      /\ \A k \in 1..Len(stack) - 1 : Pop(stack)[k] = stack[k]
      /\ Pop(stack) # <<>> => Top(Pop(stack)) = stack[Len(stack) - 1] /\ Len(stack) - 1 \in 1..Len(stack) - 1
  BY PoppedIs
<1>2. SeenOpenBrace(Pop(stack))
  BY <1>1 DEF SeenOpenBrace
<1>3. \A k \in 1..Len(Pop(stack)) - 1 : k \in 1..Len(stack) - 1
  BY <1>1
<1> QED BY <1>1, <1>2, <1>3 DEF SeenBlocks

\* A block whose brace was not seen is popped.
LEMMA BracedPop ==
  ASSUME NEW last \in Nat, IsText(clean, last), NEW n \in 0..last, NEW i \in 1..Len(clean.elided[n]),
         NEW S, NEW stack \in Seq(S), ~SeenOpenBrace(stack), AreBraced(stack, n, i - 1),
         clean.elided[n][i] \notin {OpenBrace, CloseBrace}
  PROVE  AreBraced(Pop(stack), n, i)
<1>1. stack # <<>>
  BY DEF SeenOpenBrace
<1>2. /\ \A k \in 1..Len(Pop(stack)) - 1 : Pop(stack)[k].seen
      /\ SeenOpenBrace(Pop(stack)) /\ SeenBlocks(Pop(stack)) = Len(stack) - 1
  BY <1>1, PoppedSeen DEF AreBraced
<1>3. SeenBlocks(stack) = Len(stack) - 1
  BY DEF SeenBlocks
<1>4. AreFinite(n, i) /\ BracesAt(n, i) = BracesAt(n, i - 1)
  BY BraceCounts DEF AreBraced
<1> QED BY <1>2, <1>3, <1>4 DEF AreBraced

\* A block is popped at the brace that closes it.
LEMMA BracedEnd ==
  ASSUME NEW last \in Nat, IsText(clean, last), NEW n \in 0..last, NEW i \in 1..Len(clean.elided[n]),
         NEW S, NEW stack \in Seq(S), AreBraced(stack, n, i - 1), IsWellBraced(n + 1),
         clean.elided[n][i] = CloseBrace
  PROVE  stack # <<>> /\ AreBraced(Pop(stack), n, i)
<1>1. SeenOpenBrace(stack)
  BY BracesOpen
<1>2. /\ AreFinite(n, i) /\ BracesAt(n, i - 1) \in Int /\ BracesAt(n, i) = BracesAt(n, i - 1) - 1
      /\ SeenBlocks(stack) = BracesAt(n, i - 1)
  BY BraceCounts DEF AreBraced
<1>3. Len(stack) \in Nat /\ Len(stack) = BracesAt(n, i - 1)
  BY <1>1, <1>2 DEF SeenBlocks
<1>4. stack # <<>>
  <2>1. Place(n, i) \in PlacesIn({CloseBrace}, n + 1)
    <3>1. n \in Nat /\ n < n + 1
      BY LineIs
    <3>2. Place(n, i) \in Places({CloseBrace})
      BY PlacesAre
    <3> QED BY <3>1, <3>2, PlaceIs DEF PlacesIn
  <2>2. Cardinality(UpTo(Place(n, i), {CloseBrace})) <= Cardinality(UpTo(Place(n, i), {OpenBrace}))
    <3>1. \A q \in PlacesIn({CloseBrace}, n + 1) : Cardinality(UpTo(q, {CloseBrace})) <= Cardinality(UpTo(q, {OpenBrace}))
      BY Zenon, BraceTokens DEF IsWellBraced
    <3> QED BY <2>1, <3>1
  <2>3. BracesAt(n, i) >= 0
    <3>1. Cardinality(UpTo(Place(n, i), {CloseBrace})) \in Nat /\ Cardinality(UpTo(Place(n, i), {OpenBrace})) \in Nat
      BY <1>2, FS_CardinalityType DEF AreFinite
    <3> QED BY <2>2, <3>1 DEF BracesAt
  <2>4. Len(stack) # 0
    BY <1>2, <1>3, <2>3
  <2> QED BY <2>4
<1>5. /\ \A k \in 1..Len(Pop(stack)) - 1 : Pop(stack)[k].seen
      /\ SeenOpenBrace(Pop(stack)) /\ SeenBlocks(Pop(stack)) = Len(stack) - 1
  BY <1>4, PoppedSeen DEF AreBraced
<1> QED BY <1>2, <1>3, <1>4, <1>5 DEF AreBraced

\* The brace of a head is seen.
LEMMA BracedSeen ==
  ASSUME NEW last \in Nat, IsText(clean, last), NEW n \in 0..last, NEW i \in 1..Len(clean.elided[n]),
         NEW asms, NEW stack \in Stacks(asms), ~SeenOpenBrace(stack), AreBraced(stack, n, i - 1),
         clean.elided[n][i] = OpenBrace
  PROVE  AreBraced([stack EXCEPT ![Len(stack)].seen = TRUE], n, i)
<1> DEFINE seen == [stack EXCEPT ![Len(stack)].seen = TRUE]
<1>1. stack # <<>> /\ stack \in Seq(Blocks(asms))
  BY DEF SeenOpenBrace, Stacks
<1>2. Len(stack) \in Nat \ {0} /\ Len(stack) \in DOMAIN stack /\ Top(stack) \in Blocks(asms)
  BY <1>1, TopIs
<1>3. /\ Len(seen) = Len(stack) /\ Top(seen).seen /\ \A k \in 1..Len(stack) - 1 : seen[k] = stack[k]
  <2>1. Top(stack).seen \in BOOLEAN /\ "seen" \in DOMAIN Top(stack)
    BY <1>2 DEF Blocks
  <2>2. seen = [stack EXCEPT ![Len(stack)] = [Top(stack) EXCEPT !.seen = TRUE]]
    BY DEF Top
  <2>3. [Top(stack) EXCEPT !.seen = TRUE].seen
    BY <2>1
  <2> DEFINE top == [Top(stack) EXCEPT !.seen = TRUE]
  <2> HIDE DEF top
  <2>4. Len([stack EXCEPT ![Len(stack)] = top]) = Len(stack) /\ [stack EXCEPT ![Len(stack)] = top][Len(stack)] = top
        /\ \A k \in 1..Len(stack) - 1 : [stack EXCEPT ![Len(stack)] = top][k] = stack[k]
    BY <1>1, <1>2
  <2> QED BY <2>2, <2>3, <2>4 DEF Top, top
<1> HIDE DEF seen
<1>4. SeenOpenBrace(seen) /\ SeenBlocks(seen) = Len(stack) /\ SeenBlocks(stack) = Len(stack) - 1
  BY <1>3 DEF SeenOpenBrace, SeenBlocks
<1>5. \A k \in 1..Len(seen) - 1 : seen[k].seen
  BY <1>3 DEF AreBraced
<1>6. AreFinite(n, i) /\ BracesAt(n, i - 1) \in Int /\ BracesAt(n, i) = BracesAt(n, i - 1) + 1
  BY BraceCounts DEF AreBraced
<1>7. AreBraced(seen, n, i)
  BY <1>2, <1>4, <1>5, <1>6 DEF AreBraced
<1> QED BY <1>7 DEF seen

LEMMA DropGives ==
  ASSUME NEW S, NEW line \in Seq(S), NEW d \in 0..Len(line)
  PROVE  /\ Drop(line, d) \in Seq(S) /\ Len(Drop(line, d)) = Len(line) - d
         /\ Drop(line, d) = [k \in 1..Len(line) - d |-> line[d + k]]
<1>1. Len(line) \in Nat /\ d \in Nat
  OBVIOUS
<1>2. Drop(line, d) \in Seq(S)
  BY <1>1, DropIs
<1>3. CASE d + 1 > Len(line)
  BY <1>1, <1>3 DEF Drop
<1>4. CASE d + 1 <= Len(line)
  BY <1>1, <1>4 DEF Drop
<1> QED BY <1>1, <1>2, <1>3, <1>4

\* The tokens behind a place of the line.
LEMMA BehindIs ==
  ASSUME NEW line \in Line, NEW d \in 0..Len(line)
  PROVE  /\ Drop(line, d) \in Line /\ Len(Drop(line, d)) = Len(line) - d /\ Len(line) \in Nat /\ d \in Nat
         /\ Len(line) - d \in Nat
         /\ \A k \in 1..Len(line) - d : Drop(line, d)[k] = line[d + k] /\ d + k \in 1..Len(line)
         /\ \A k \in 0..Len(line) - d : Drop(Drop(line, d), k) = Drop(line, d + k) /\ d + k \in 0..Len(line)
<1> HIDE DEF Token
<1>1. Len(line) \in Nat /\ d \in Nat /\ line \in Seq(Token) /\ Len(line) - d \in Nat
  BY DEF Line
<1> DEFINE rest == Drop(line, d)
<1>2. rest \in Seq(Token) /\ Len(rest) = Len(line) - d /\ rest = [k \in 1..Len(line) - d |-> line[d + k]]
  BY <1>1, DropGives
<1> HIDE DEF rest
<1>3. \A k \in 1..Len(line) - d : rest[k] = line[d + k] /\ d + k \in 1..Len(line)
  BY <1>1, <1>2
<1>4. ASSUME NEW k \in 0..Len(line) - d PROVE Drop(rest, k) = Drop(line, d + k) /\ d + k \in 0..Len(line)
  <2>1. k \in 0..Len(rest) /\ d + k \in 0..Len(line) /\ k \in Nat
    BY <1>1, <1>2
  <2> DEFINE S == Token
  <2> HIDE DEF S
  <2>6. rest \in Seq(S)
    BY <1>2 DEF S
  <2>2. Drop(rest, k) = [j \in 1..Len(rest) - k |-> rest[k + j]]
    BY ONLY <2>1, <2>6, DropGives
  <2>7. line \in Seq(S)
    BY <1>1 DEF S
  <2>3. Drop(line, d + k) = [j \in 1..Len(line) - (d + k) |-> line[(d + k) + j]]
    BY ONLY <2>1, <2>7, DropGives
  <2>4. Len(rest) - k = Len(line) - (d + k)
    BY <1>1, <1>2, <2>1
  <2>5. \A j \in 1..Len(rest) - k : rest[k + j] = line[(d + k) + j]
    <3> SUFFICES ASSUME NEW j \in 1..Len(rest) - k PROVE rest[k + j] = line[(d + k) + j]
      OBVIOUS
    <3>1. k + j \in 1..Len(line) - d /\ d + (k + j) = (d + k) + j
      BY <1>1, <1>2, <2>1
    <3> QED BY <1>3, <3>1
  <2> QED BY <2>1, <2>2, <2>3, <2>4, <2>5
<1> QED BY <1>1, <1>2, <1>3, <1>4 DEF Line, rest

\* What a token of the rest of the line makes of the stack.
IsMade(after, stack, token) ==
  /\ token = OpenBrace /\ ~SeenOpenBrace(stack) => after = [stack EXCEPT ![Len(stack)].seen = TRUE]
  /\ token = OpenBrace /\ SeenOpenBrace(stack)
       => \E block \in Blocks(AllAsms) : block.seen /\ after = Append(stack, block)
  /\ token \in {";", ")"} => after = IF SeenOpenBrace(stack) THEN stack ELSE Pop(stack)
  /\ token = CloseBrace /\ stack # <<>> => after = Pop(stack)

LEMMA ConsumeStepMakes ==
  ASSUME NEW stack, NEW segment, NEW token, NEW n \in Nat
  PROVE  IsMade(ConsumeStep(stack, segment, token, n), stack, token)
<1> DEFINE extern == Words(segment) = <<"extern", DQ, DQ, "{">> /\ segment[1] = "extern"
           plain == Block("block", n, TRUE)
           block == IF MatchAsm(segment) THEN [plain EXCEPT !.asm = "block"] ELSE plain
           other == Block("extern", n, TRUE)
<1>1. plain \in Blocks(AllAsms) /\ other \in Blocks(AllAsms)
  BY BlockIs DEF Kinds, AreAsms
<1>2. plain.seen /\ other.seen
  BY DEF Block
<1>3. block \in Blocks(AllAsms) /\ block.seen
  <2>1. "block" \in AllAsms
    BY DEF AllAsms
  <2> HIDE DEF plain, Token, AccessTokens, Kinds, AllAsms
  <2> QED BY <1>1, <1>2, <2>1 DEF Blocks
<1>4. CASE token = OpenBrace
  <2>1. token = "{"
    BY <1>4 DEF OpenBrace
  <2>2. ConsumeStep(stack, segment, token, n)
          = IF ~SeenOpenBrace(stack) THEN [stack EXCEPT ![Len(stack)].seen = TRUE]
            ELSE IF extern THEN Append(stack, other) ELSE Append(stack, block)
    BY <2>1, Zenon DEF ConsumeStep
  <2> HIDE DEF extern, block, other
  <2>3. token # CloseBrace /\ token \notin {";", ")"}
    BY <1>4, Zenon DEF OpenBrace, CloseBrace
  <2> QED BY <1>1, <1>2, <1>3, <2>2, <2>3 DEF IsMade
<1>5. CASE token \in {";", ")"}
  <2>1. token # OpenBrace /\ token # CloseBrace
    BY <1>5, Zenon DEF OpenBrace, CloseBrace
  <2>2. ConsumeStep(stack, segment, token, n) = IF SeenOpenBrace(stack) THEN stack ELSE Pop(stack)
    BY <1>5, Zenon DEF ConsumeStep
  <2> QED BY <2>1, <2>2 DEF IsMade
<1>6. CASE token = CloseBrace
  <2>1. token # OpenBrace /\ token \notin {";", ")"}
    BY <1>6, Zenon DEF OpenBrace, CloseBrace
  <2>2. ConsumeStep(stack, segment, token, n) = IF stack = <<>> THEN stack ELSE Pop(stack)
    BY <1>6, Zenon DEF ConsumeStep, CloseBrace
  <2> QED BY <2>1, <2>2 DEF IsMade
<1>7. CASE token \notin {OpenBrace, CloseBrace, ";", ")"}
  BY <1>7 DEF IsMade
<1> QED BY <1>4, <1>5, <1>6, <1>7

\* The blocks are those of the braces behind a token, if they were before it.
LEMMA BracedStep ==
  ASSUME NEW last \in Nat, IsText(clean, last), NEW n \in 0..last, NEW i \in 1..Len(clean.elided[n]),
         NEW stack \in Stacks(AllAsms), AreBraced(stack, n, i - 1), IsWellBraced(n + 1),
         NEW segment, clean.elided[n][i] \in Ends \cup {CloseBrace}
  PROVE  AreBraced(ConsumeStep(stack, segment, clean.elided[n][i], n), n, i)
<1> DEFINE token == clean.elided[n][i]
           after == ConsumeStep(stack, segment, token, n)
<1>1. n \in Nat /\ stack \in Seq(Blocks(AllAsms)) /\ Len(clean.elided[n]) \in Nat
  BY LineIs DEF Stacks
<1>2. Ends = {OpenBrace, ";", ")"}
  BY DEF Ends
<1>7. IsMade(after, stack, token)
  BY <1>1, ConsumeStepMakes
<1> SUFFICES AreBraced(after, n, i)
  OBVIOUS
<1> HIDE DEF after
<1>3. CASE token = OpenBrace /\ ~SeenOpenBrace(stack)
  <2>1. AreBraced([stack EXCEPT ![Len(stack)].seen = TRUE], n, i)
    BY <1>3, BracedSeen
  <2>2. after = [stack EXCEPT ![Len(stack)].seen = TRUE]
    BY <1>3, <1>7, Zenon DEF IsMade
  <2> QED BY <2>1, <2>2
<1>4. CASE token = OpenBrace /\ SeenOpenBrace(stack)
  <2>1. PICK block \in Blocks(AllAsms) : block.seen /\ after = Append(stack, block)
    BY <1>4, <1>7 DEF IsMade
  <2> QED BY <1>1, <1>4, <2>1, BracedBlock
<1>5. CASE token \in {";", ")"}
  <2>1. after = IF SeenOpenBrace(stack) THEN stack ELSE Pop(stack)
    BY <1>5, <1>7 DEF IsMade
  <2>2. token \notin {OpenBrace, CloseBrace}
    BY <1>5, Zenon DEF OpenBrace, CloseBrace
  <2>3. CASE SeenOpenBrace(stack)
    <3>1. AreFinite(n, i) /\ BracesAt(n, i) = BracesAt(n, i - 1)
      BY <2>2, BraceCounts DEF AreBraced
    <3> QED BY <2>1, <2>3, <3>1 DEF AreBraced
  <2>4. CASE ~SeenOpenBrace(stack)
    BY <1>1, <2>1, <2>2, <2>4, BracedPop
  <2> QED BY <2>3, <2>4
<1>6. CASE token = CloseBrace
  <2>1. stack # <<>> /\ AreBraced(Pop(stack), n, i)
    BY <1>1, <1>6, BracedEnd
  <2> QED BY <1>6, <1>7, <2>1 DEF IsMade
<1> QED BY <1>2, <1>3, <1>4, <1>5, <1>6

\* The rest of a line is consumed.
LEMMA BracedConsume ==
  ASSUME NEW last \in Nat, IsText(clean, last), NEW n \in 0..last, NEW d \in 0..Len(clean.elided[n]),
         NEW stack \in Stacks(AllAsms), AreBraced(stack, n, d), IsWellBraced(n + 1)
  PROVE  AreBraced(Consume(stack, Drop(clean.elided[n], d), n).stack, n, Len(clean.elided[n]))
<1> DEFINE line == Drop(clean.elided[n], d)
           m == Len(line)
           base == [stack |-> stack, upTo |-> 0, ended |-> << >>]
           Good(k) == {b \in Consumed(AllAsms) : AreBraced(b.stack, n, d + k)}
           T == [k \in 0..m |-> Good(k)]
           turn == [k \in 1..m |-> [b \in Consumed(AllAsms) |-> ConsumeToken(b, line, k, n)]]
<1>1. /\ line \in Line /\ m = Len(clean.elided[n]) - d /\ m \in Nat /\ n \in Nat /\ d \in Nat
      /\ Len(clean.elided[n]) \in Nat
      /\ \A k \in 1..m : line[k] = clean.elided[n][d + k] /\ d + k \in 1..Len(clean.elided[n])
  <2>1. clean.elided[n] \in Line /\ n \in Nat
    BY LineIs
  <2> DEFINE text == clean.elided[n]
  <2>2. text \in Line /\ d \in 0..Len(text)
    BY <2>1
  <2> HIDE DEF text
  <2>3. /\ Drop(text, d) \in Line /\ Len(Drop(text, d)) = Len(text) - d /\ Len(text) \in Nat /\ d \in Nat
        /\ Len(text) - d \in Nat
        /\ \A k \in 1..Len(text) - d : Drop(text, d)[k] = text[d + k] /\ d + k \in 1..Len(text)
    BY ONLY <2>2, BehindIs
  <2>4. line = Drop(text, d) /\ m = Len(line)
    BY DEF text
  <2> HIDE DEF line, m
  <2> QED BY <2>1, <2>3, <2>4 DEF text
<1>2. line \in LinesOf(AllAsms) /\ AreAsms(AllAsms)
  BY <1>1, LinesAre DEF AreAsms
<1>3. \A i \in (0 + 1)..m : i \in 1..m /\ i \in 0..m /\ i - 1 \in 0..m /\ i # 0 /\ i \in Nat
  BY <1>1
<1> HIDE DEF line
<1>4. ASSUME NEW i \in 1..m, NEW b \in Good(i - 1) PROVE ConsumeToken(b, line, i, n) \in Good(i)
  <2>1. b \in Consumed(AllAsms) /\ b.stack \in Stacks(AllAsms) /\ AreBraced(b.stack, n, d + (i - 1))
    BY DEF Consumed
  <2>2. ConsumeToken(b, line, i, n) \in Consumed(AllAsms)
    BY <1>1, <1>2, <2>1, ConsumeTokenIs
  <2> DEFINE j == d + i
             token == clean.elided[n][j]
  <2>3. j \in 1..Len(clean.elided[n]) /\ j - 1 = d + (i - 1) /\ line[i] = token
        /\ j - 1 \in 0..Len(clean.elided[n]) /\ j \in j - 1..Len(clean.elided[n])
        /\ \A k \in (j - 1) + 1..j : k = j
    BY <1>1
  <2>4. AreBraced(b.stack, n, j - 1)
    BY <2>1, <2>3
  <2> HIDE DEF j
  <2>5. AreBraced(ConsumeToken(b, line, i, n).stack, n, j)
    <3>1. CASE token \in Ends \cup {CloseBrace}
      <4> DEFINE segment == SubSeq(line, b.upTo + 1, i)
      <4>1. ~(line[i] \notin {"{", "}", ";", ")"})
        BY <2>3, <3>1, Zenon DEF Ends, OpenBrace, CloseBrace
      <4>2. ConsumeToken(b, line, i, n).stack = ConsumeStep(b.stack, segment, line[i], n)
        BY <4>1, Zenon DEF ConsumeToken
      <4> HIDE DEF segment
      <4>3. AreBraced(ConsumeStep(b.stack, segment, token, n), n, j)
        BY <2>1, <2>3, <2>4, <3>1, BracedStep
      <4> QED BY <2>3, <4>2, <4>3
    <3>2. CASE token \notin Ends \cup {CloseBrace}
      <4>1. line[i] \notin {"{", "}", ";", ")"}
        BY <2>3, <3>2, Zenon DEF Ends, OpenBrace, CloseBrace
      <4>2. ConsumeToken(b, line, i, n) = b
        BY <4>1, Zenon DEF ConsumeToken
      <4>3. AreBraced(b.stack, n, j)
        BY <2>3, <2>4, <3>2, BracedOn
      <4> QED BY <4>2, <4>3
    <3> QED BY <3>1, <3>2
  <2> QED BY <2>2, <2>5 DEF j
<1>5. base \in Good(0)
  <2>1. base \in Consumed(AllAsms)
    BY EmptySeq DEF Consumed, Stacks
  <2>2. d + 0 = d
    BY <1>1
  <2> QED BY <2>1, <2>2
<1>6. \A k \in 0..m : T[k] = Good(k) /\ \A b \in Good(k) : b \in Consumed(AllAsms)
  OBVIOUS
<1> HIDE DEF Good
<1>7. \A i \in (0 + 1)..m : \A b \in T[i - 1] :
        turn[i][b] = ConsumeToken(b, line, i, n) /\ turn[i][b] \in T[i]
  <2> HIDE DEF m, T
  <2> QED BY <1>3, <1>4, <1>6
<1>8. base \in T[0] /\ m \in 0..m /\ m \in Int /\ 0 \in Int /\ 0 <= m
  <2> HIDE DEF base, T, m
  <2>1. m \in 0..m /\ 0 \in 0..m /\ m \in Int /\ 0 \in Int /\ 0 <= m
    BY <1>1
  <2>2. base \in T[0]
    BY <1>5, <1>6, <2>1
  <2> QED BY <2>1, <2>2
<1> HIDE DEF T, turn, base, m
<1>9. PICK g : Runs(g, 0, m, base, turn) /\ \A i \in 0..m : g[i] \in T[i]
  <2>1. \A i \in (0 + 1)..m : \A b \in T[i - 1] : turn[i][b] \in T[i]
    BY <1>7
  <2> QED BY ONLY <1>8, <2>1, LoopRuns
<1>10. g = [k \in 0..m |-> IF k = 0 THEN base ELSE ConsumeToken(g[k - 1], line, k, n)]
  <2>1. \A i \in 0..m : i # 0 => i \in (0 + 1)..m
    BY <1>1
  <2>2. \A i \in 0..m : i # 0 => turn[i][g[i - 1]] = ConsumeToken(g[i - 1], line, i, n)
    BY <1>3, <1>7, <1>9, <2>1
  <2> QED BY <1>9, <2>2 DEF Runs
<1> DEFINE f == CHOOSE h : h = [k \in 0..m |-> IF k = 0 THEN base ELSE ConsumeToken(h[k - 1], line, k, n)]
<1>11. f = [k \in 0..m |-> IF k = 0 THEN base ELSE ConsumeToken(f[k - 1], line, k, n)]
  BY <1>10
<1>12. Consume(stack, line, n) = f[m]
  BY DEF Consume, m, base
<1> HIDE DEF f
<1>13. f[m] \in T[m]
  <2>1. f[0] \in T[0]
    BY <1>1, <1>8, <1>11
  <2>2. ASSUME NEW i \in (0 + 1)..m, f[i - 1] \in T[i - 1] PROVE f[i] \in T[i]
    <3>1. f[i] = ConsumeToken(f[i - 1], line, i, n) /\ i \in 1..m /\ f[i - 1] \in Good(i - 1)
      BY <1>3, <1>6, <1>11, <2>2
    <3> QED BY <1>3, <1>4, <1>6, <3>1
  <2> QED BY ONLY <1>8, <2>1, <2>2, LoopKeeps
<1>14. f[m] \in Good(m) /\ d + m = Len(clean.elided[n])
  <2>1. f[m] \in Good(m)
    BY <1>6, <1>8, <1>13
  <2>2. d + m = Len(clean.elided[n])
    BY <1>1
  <2> QED BY <2>1, <2>2
<1> QED BY <1>12, <1>14 DEF Good, line

\* Only the length of the stack and the braces seen tell.
LEMMA BracedSame ==
  ASSUME NEW stack, NEW other, NEW n, NEW i, AreBraced(stack, n, i), Len(other) = Len(stack), Len(stack) \in Nat,
         \A k \in 1..Len(stack) : other[k].seen = stack[k].seen,
         other = <<>> <=> stack = <<>>, stack # <<>> => Len(stack) > 0
  PROVE  AreBraced(other, n, i)
<1>1. SeenOpenBrace(other) <=> SeenOpenBrace(stack)
  <2>1. stack # <<>> => Len(stack) \in 1..Len(stack)
    OBVIOUS
  <2> QED BY <2>1 DEF SeenOpenBrace, Top
<1>2. SeenBlocks(other) = SeenBlocks(stack)
  BY <1>1 DEF SeenBlocks
<1>3. \A k \in 1..Len(other) - 1 : other[k].seen
  <2>1. \A k \in 1..Len(other) - 1 : k \in 1..Len(stack) /\ k \in 1..Len(stack) - 1
    OBVIOUS
  <2> QED BY <2>1 DEF AreBraced
<1> QED BY <1>1, <1>2, <1>3 DEF AreBraced

\* A block of the stack is replaced by one whose brace was seen if it was.
LEMMA BracedReplaced ==
  ASSUME NEW asms, NEW stack \in Stacks(asms), NEW n, NEW i, AreBraced(stack, n, i), stack # <<>>,
         NEW block \in Blocks(asms), block.seen = Top(stack).seen
  PROVE  AreBraced([stack EXCEPT ![Len(stack)] = block], n, i)
<1> DEFINE other == [stack EXCEPT ![Len(stack)] = block]
<1>1. stack \in Seq(Blocks(asms)) /\ Len(stack) \in Nat /\ Len(stack) > 0
  BY DEF Stacks
<1>2. other \in Seq(Blocks(asms)) /\ Len(other) = Len(stack)
  BY <1>1
<1>3. \A k \in 1..Len(stack) : other[k].seen = stack[k].seen
  <2>1. \A k \in 1..Len(stack) : other[k] = IF k = Len(stack) THEN block ELSE stack[k]
    BY <1>1
  <2> HIDE DEF other
  <2> QED BY <1>1, <2>1 DEF Top
<1>4. other # <<>>
  BY <1>1, <1>2
<1> HIDE DEF other
<1>5. AreBraced(other, n, i)
  BY <1>1, <1>2, <1>3, <1>4, BracedSame
<1> QED BY <1>5 DEF other

LEMMA BracedParentheses ==
  ASSUME NEW stack \in Stacks(AllAsms), NEW line \in LinesOf(AllAsms), NEW n, NEW i, AreBraced(stack, n, i)
  PROVE  AreBraced(CountParentheses(stack, line), n, i)
<1> DEFINE change == Count(line, "(") - Count(line, ")")
           open == Top(stack).parens + change
           asm == CASE Top(stack).asm \in {"no", "end"} ->
                         IF change # 0 /\ open = 1 /\ MatchAsm(line) THEN "inside" ELSE "no"
                    [] Top(stack).asm = "inside" /\ open = 0 -> "end"
                    [] OTHER -> Top(stack).asm
           top == [Top(stack) EXCEPT !.parens = open, !.asm = asm]
<1>1. CASE stack # << >>
  <2>1. Top(stack) \in Blocks(AllAsms) /\ Len(stack) \in DOMAIN stack
    BY <1>1, TopIs DEF Stacks
  <2>2. CountParentheses(stack, line) = [stack EXCEPT ![Len(stack)] = top]
    BY <1>1, <2>1 DEF CountParentheses, Stacks, change, open, asm, Top
  <2>3. CountParentheses(stack, line) \in Stacks(AllAsms)
    BY CountParenthesesIs DEF AreAsms
  <2>4. top \in Blocks(AllAsms)
    <3>1. [stack EXCEPT ![Len(stack)] = top][Len(stack)] = top
      BY <2>1
    <3>2. Len(stack) \in DOMAIN [stack EXCEPT ![Len(stack)] = top]
      BY <2>1
    <3> HIDE DEF top
    <3>3. \A s \in Seq(Blocks(AllAsms)) : \A k \in DOMAIN s : s[k] \in Blocks(AllAsms)
      OBVIOUS
    <3> QED BY <2>2, <2>3, <3>1, <3>2, <3>3 DEF Stacks
  <2>5. top.seen = Top(stack).seen
    <3> HIDE DEF open, asm
    <3> QED BY <2>1 DEF Blocks
  <2> HIDE DEF top
  <2>6. AreBraced([stack EXCEPT ![Len(stack)] = top], n, i)
    BY <1>1, <2>4, <2>5, BracedReplaced
  <2> QED BY <2>2, <2>6
<1> QED BY <1>1 DEF CountParentheses

LEMMA BracedAccess ==
  ASSUME NEW stack \in Stacks(AllAsms), NEW line \in LinesOf(AllAsms), NEW n, NEW i, AreBraced(stack, n, i)
  PROVE  AreBraced(SetAccess(stack, line), n, i)
<1> DEFINE S == Accesses(stack, line)
           top == [Top(stack) EXCEPT !.access = line[Highest(S)]]
<1>1. CASE S = {}
  BY <1>1 DEF SetAccess
<1>2. CASE S # {}
  <2>1. stack # << >> /\ S \in SUBSET (DOMAIN line)
    BY <1>2 DEF Accesses, Innermost
  <2> HIDE DEF S
  <2>2. line[Highest(S)] \in Token
    <3>1. line \in Seq(Token)
      BY LinesAre DEF Line
    <3> HIDE DEF Token
    <3> QED BY <1>2, <2>1, <3>1, HighestOf
  <2>3. Top(stack) \in Blocks(AllAsms) /\ Len(stack) \in DOMAIN stack
    BY <2>1, TopIs DEF Stacks
  <2>4. top \in Blocks(AllAsms) /\ top.seen = Top(stack).seen
    <3> HIDE DEF Token, AccessTokens, Kinds
    <3> QED BY <2>2, <2>3 DEF Blocks
  <2>5. SetAccess(stack, line) = [stack EXCEPT ![Len(stack)] = top]
    BY <1>2, <2>3 DEF SetAccess, S, Top
  <2> HIDE DEF top
  <2>6. AreBraced([stack EXCEPT ![Len(stack)] = top], n, i)
    BY <2>1, <2>4, BracedReplaced
  <2> QED BY <2>5, <2>6
<1> QED BY <1>1, <1>2

\* What a parameter of a template is behind.
Commas == {"<", ","}

\* The stack and what is left of the line are those at a place of the line.
AreReady(b, n) ==
  /\ b \in Pushed(AllAsms)
  /\ \E d \in 0..Len(clean.elided[n]) :
       /\ b.line = Drop(clean.elided[n], d) /\ AreBraced(b.stack, n, d)
       /\ d = 0 \/ clean.elided[n][d] \notin Commas \cup {Space}

\* No word is the end of a head or of a block, or what a parameter is behind.
LEMMA WordsAreNot ==
  ASSUME NEW token, IsWord(token)
  PROVE  token \notin Ends \cup {CloseBrace} /\ token \notin Commas \cup {Space}
BY Zenon DEF IsWord, Punctuation, Commas, Ends, OpenBrace, CloseBrace, Space

LEMMA NamespaceHead ==
  ASSUME NEW last \in Nat, IsText(clean, last), NEW n \in 0..last, NEW h \in 1..Len(clean.elided[n]),
         clean.elided[n][h] = "namespace"
  PROVE  /\ Place(n, h) \in Heads(n + 1) /\ Place(n, h) \in PlacesIn({"namespace"}, n + 1)
         /\ clean.elided[n][h] \notin Ends \cup {CloseBrace}
<1>1. n \in Nat /\ n < n + 1
  BY LineIs
<1>2. Place(n, h) \in Places({"namespace"})
  BY PlacesAre
<1>3. Place(n, h) \in PlacesIn({"namespace"}, n + 1)
  BY <1>1, <1>2, PlaceIs DEF PlacesIn
<1>4. "namespace" \notin Ends \cup {CloseBrace}
  BY Zenon DEF Ends, OpenBrace, CloseBrace
<1> QED BY <1>3, <1>4 DEF Heads

\* The namespace is pushed at its name, as no brace opens it on its line.
LEMMA BracedNamed ==
  ASSUME NEW last \in Nat, IsText(clean, last), NEW n \in 0..last, NEW d \in 0..Len(clean.elided[n]),
         NEW S, NEW stack \in Seq(S), NEW block \in S, ~block.seen, AreBraced(stack, n, d), IsWellBraced(n + 1),
         NEW h \in d + 1..Len(clean.elided[n]), Place(n, h) \in Heads(n + 1),
         clean.elided[n][h] \notin Ends \cup {CloseBrace},
         NEW e \in h..Len(clean.elided[n]),
         \A k \in (d + 1..h - 1) \cup (h + 1..e) : clean.elided[n][k] \notin Ends \cup {CloseBrace}
  PROVE  AreBraced(Append(stack, block), n, e)
<1>1. /\ Len(clean.elided[n]) \in Nat /\ d \in Nat /\ h \in Nat /\ e \in Nat
      /\ h - 1 \in d..Len(clean.elided[n]) /\ h \in 1..Len(clean.elided[n]) /\ h \in 0..Len(clean.elided[n])
  BY LineIs
<1>2. AreBraced(stack, n, h - 1)
  <2>1. \A k \in d + 1..h - 1 : clean.elided[n][k] \notin Ends \cup {CloseBrace}
    OBVIOUS
  <2> QED BY <1>1, <2>1, BracedOn
<1>3. AreBraced(Append(stack, block), n, h)
  BY <1>1, <1>2, BracedHead
<1>4. \A k \in h + 1..e : clean.elided[n][k] \notin Ends \cup {CloseBrace}
  OBVIOUS
<1> DEFINE pushed == Append(stack, block)
<1> HIDE DEF pushed
<1>5. AreBraced(pushed, n, h)
  BY <1>3 DEF pushed
<1>6. AreBraced(pushed, n, e)
  BY ONLY <1>1, <1>4, <1>5, BracedOn, IsText(clean, last), last \in Nat, n \in 0..last, e \in h..Len(clean.elided[n])
<1> QED BY <1>6 DEF pushed

\* The namespace is pushed at its brace.
LEMMA BracedOpened ==
  ASSUME NEW last \in Nat, IsText(clean, last), NEW n \in 0..last, NEW d \in 0..Len(clean.elided[n]),
         NEW S, NEW stack \in Seq(S), NEW block \in S, block.seen, AreBraced(stack, n, d), IsWellBraced(n + 1),
         NEW h \in d + 1..Len(clean.elided[n]), clean.elided[n][h] = "namespace",
         \A k \in d + 1..h - 1 : clean.elided[n][k] \notin Ends \cup {CloseBrace},
         NEW e \in h + 1..Len(clean.elided[n]), clean.elided[n][e] = OpenBrace,
         \A k \in h + 1..e - 1 : clean.elided[n][k] # OpenBrace
  PROVE  AreBraced(Append(stack, block), n, e)
<1>1. /\ Len(clean.elided[n]) \in Nat /\ d \in Nat /\ h \in Nat /\ e \in Nat /\ n \in Nat
      /\ h - 1 \in d..Len(clean.elided[n]) /\ h - 1 \in 0..Len(clean.elided[n]) /\ h \in 1..Len(clean.elided[n])
      /\ e \in 1..Len(clean.elided[n]) /\ e - 1 \in h - 1..Len(clean.elided[n])
  <2>1. Len(clean.elided[n]) \in Nat /\ n \in Nat
    BY LineIs
  <2> QED
    BY ONLY <2>1, d \in 0..Len(clean.elided[n]), h \in d + 1..Len(clean.elided[n]),
            e \in h + 1..Len(clean.elided[n])
<1>2. AreBraced(stack, n, h - 1)
  BY <1>1, BracedOn
<1>3. /\ Place(n, h) \in Heads(n + 1) /\ Place(n, h) \in PlacesIn({"namespace"}, n + 1)
      /\ clean.elided[n][h] \notin Ends \cup {CloseBrace}
  BY <1>1, NamespaceHead
<1>4. SeenOpenBrace(stack)
  BY <1>1, <1>2, <1>3, BracesOpen
<1>5. ASSUME NEW k \in h + 1..e - 1 PROVE clean.elided[n][k] # CloseBrace
  <2> SUFFICES ASSUME clean.elided[n][k] = CloseBrace PROVE FALSE
    OBVIOUS
  <2>1. k \in 1..Len(clean.elided[n]) /\ k \in Nat
    BY <1>1
  <2>2. Place(n, k) \in Places({CloseBrace}) /\ Place(n, e) \in Places({OpenBrace})
    BY <1>1, <2>1, PlacesAre
  <2>3. Precedes(Place(n, h), Place(n, k)) /\ Precedes(Place(n, k), Place(n, e))
    BY <1>1, <2>1, PlaceIs DEF Precedes
  <2>4. \A p \in PlacesIn({"namespace"}, n + 1), q \in Places({CloseBrace}), r \in Places({OpenBrace}) :
          p.line = r.line /\ Precedes(p, q) /\ Precedes(q, r) =>
            \E s \in Places({OpenBrace}) : Precedes(p, s) /\ Precedes(s, q)
    BY Zenon, BraceTokens DEF IsWellBraced
  <2>5. PICK s \in Places({OpenBrace}) : Precedes(Place(n, h), s) /\ Precedes(s, Place(n, k))
    <3>1. Place(n, h).line = Place(n, e).line
      BY PlaceIs
    <3> QED BY Zenon, <1>3, <2>2, <2>3, <2>4, <3>1
  <2>6. s.line \in Nat /\ s.at \in Nat /\ clean.elided[s.line][s.at] \in {OpenBrace}
    <3> DEFINE opens == {OpenBrace}
    <3> HIDE DEF opens
    <3>1. s \in Places(opens)
      BY <2>5 DEF opens
    <3>2. s.line \in 0..last /\ s.at \in Nat /\ clean.elided[s.line][s.at] \in opens
      BY <3>1, PlacesAre
    <3> QED BY <3>2 DEF opens
  <2>7. s.line = n /\ s.at \in h + 1..e - 1
    <3>1. /\ n < s.line \/ (n = s.line /\ h < s.at)
          /\ s.line < n \/ (s.line = n /\ s.at < k)
      BY <2>5, PlaceIs DEF Precedes
    <3> QED BY <1>1, <2>1, <2>6, <3>1
  <2> QED BY <2>6, <2>7
<1>6. BracesAt(n, e - 1) = BracesAt(n, h - 1) /\ (AreFinite(n, h - 1) => AreFinite(n, e - 1))
  <2>1. \A k \in (h - 1) + 1..e - 1 : k = h \/ k \in h + 1..e - 1
    BY <1>1
  <2>2. clean.elided[n][h] # OpenBrace /\ clean.elided[n][h] # CloseBrace
    BY <1>3, BraceTokens
  <2>3. \A k \in (h - 1) + 1..e - 1 : clean.elided[n][k] # OpenBrace /\ clean.elided[n][k] # CloseBrace
    BY <1>5, <2>1, <2>2
  <2> QED BY <1>1, <2>3, BracesSame
<1>7. AreBraced(stack, n, e - 1)
  BY <1>2, <1>4, <1>6 DEF AreBraced
<1> QED BY <1>1, <1>4, <1>7, BracedBlock

LEMMA BracedNamespace ==
  ASSUME NEW last \in Nat, IsText(clean, last), NEW n \in 0..last, NEW b, AreReady(b, n), IsWellBraced(n + 1)
  PROVE  AreReady(PushNamespace(b, n), n)
<1> DEFINE text == b.line
           full == clean.elided[n]
           words == {i \in DOMAIN text : text[i] # Space}
           first == Lowest(words)
           second == Lowest(words \ {first})
           named == words # {first} /\ IsWord(text[second])
           name == IF named THEN text[second] ELSE ""
           seen == Has(text, "{")
           brace == Lowest(At(text, "{"))
           block == [Block("namespace", n, seen) EXCEPT !.name = name]
           rest == IF seen THEN brace ELSE IF named THEN second ELSE first
<1>1. CASE words = {} \/ text[first] # "namespace"
  BY <1>1 DEF PushNamespace
<1>2. CASE ~(words = {} \/ text[first] # "namespace")
  <2>1. PICK d \in 0..Len(full) : text = Drop(full, d) /\ AreBraced(b.stack, n, d) /\ b \in Pushed(AllAsms)
    BY DEF AreReady
  <2>2. full \in Line /\ n \in Nat /\ n < n + 1
    BY LineIs
  <2> HIDE DEF full
  <2>3. /\ text \in Line /\ Len(text) = Len(full) - d /\ Len(full) \in Nat /\ d \in Nat /\ Len(text) \in Nat
        /\ \A k \in 1..Len(text) : text[k] = full[d + k] /\ d + k \in 1..Len(full)
        /\ \A k \in 0..Len(text) : Drop(text, k) = Drop(full, d + k) /\ d + k \in 0..Len(full)
    <3>1. /\ Drop(full, d) \in Line /\ Len(Drop(full, d)) = Len(full) - d /\ Len(full) \in Nat /\ d \in Nat
          /\ Len(full) - d \in Nat
          /\ \A k \in 1..Len(full) - d : Drop(full, d)[k] = full[d + k] /\ d + k \in 1..Len(full)
          /\ \A k \in 0..Len(full) - d : Drop(Drop(full, d), k) = Drop(full, d + k) /\ d + k \in 0..Len(full)
      BY <2>2, BehindIs
    <3> QED BY <2>1, <3>1
  <2> HIDE DEF text
  <2>4. first \in words /\ first \in 1..Len(text) /\ \A k \in 1..first - 1 : text[k] = Space
    <3>1. words # {} /\ words \subseteq DOMAIN text /\ words \subseteq Nat /\ DOMAIN text = 1..Len(text)
      BY <1>2, <2>3 DEF Line
    <3>2. first \in words /\ \A y \in words : first <= y
      <4> HIDE DEF words
      <4> QED BY <3>1, LowestIs
    <3>3. ASSUME NEW k \in 1..first - 1 PROVE text[k] = Space
      <4>1. k \in DOMAIN text /\ ~(first <= k)
        BY <2>3, <3>1, <3>2
      <4> QED BY <3>2, <4>1
    <3> QED BY <3>1, <3>2, <3>3
  <2>5. text[first] = "namespace"
    BY <1>2
  <2>6. ASSUME named PROVE /\ second \in first + 1..Len(text) /\ IsWord(text[second])
                           /\ \A k \in first + 1..second - 1 : text[k] = Space
    <3>1. words \ {first} # {} /\ words \ {first} \subseteq Nat /\ DOMAIN text = 1..Len(text)
      <4>1. first \in words
        BY <2>4
      <4>2. words \subseteq Nat /\ DOMAIN text = 1..Len(text)
        BY <2>3 DEF Line
      <4> HIDE DEF words, first
      <4> QED BY <2>6, <4>1, <4>2
    <3>2. second \in words \ {first} /\ \A y \in words \ {first} : second <= y
      <4> HIDE DEF words, first
      <4> QED BY <3>1, LowestIs
    <3> HIDE DEF first, second
    <3>3. second \in 1..Len(text) /\ second # first /\ text[second] # Space
      BY <3>1, <3>2
    <3>4. second > first
      BY <2>3, <2>4, <3>3
    <3>5. ASSUME NEW k \in first + 1..second - 1 PROVE text[k] = Space
      <4>1. k \in DOMAIN text /\ ~(second <= k) /\ k # first
        BY <2>3, <2>4, <3>1, <3>3
      <4> QED BY <3>2, <4>1
    <3> QED BY <2>3, <2>4, <2>6, <3>3, <3>4, <3>5
  <2>7. ASSUME seen PROVE /\ brace \in 1..Len(text) /\ text[brace] = OpenBrace
                          /\ \A k \in 1..brace - 1 : text[k] # OpenBrace
    <3> DEFINE braces == At(text, OpenBrace)
    <3>1. At(text, "{") = braces
      BY DEF OpenBrace
    <3>2. braces # {}
      BY <2>7, <3>1 DEF Has
    <3>3. braces \subseteq 1..Len(text) /\ \A k \in braces : text[k] = OpenBrace
      BY <2>3 DEF At, Line
    <3>4. Lowest(braces) \in braces /\ \A y \in braces : Lowest(braces) <= y
      <4>1. braces \subseteq Nat
        BY <3>3
      <4> HIDE DEF braces
      <4> QED BY <3>2, <4>1, LowestIs
    <3>5. ASSUME NEW k \in 1..Lowest(braces) - 1 PROVE text[k] # OpenBrace
      <4>1. k \in DOMAIN text /\ ~(Lowest(braces) <= k)
        BY <2>3, <3>3, <3>4 DEF Line
      <4>2. k \notin braces
        BY <3>4, <4>1
      <4> QED BY <4>1, <4>2 DEF At
    <3> HIDE DEF braces
    <3> QED BY <3>1, <3>3, <3>4, <3>5
  <2>8. block \in Blocks(AllAsms) /\ block.seen = seen
    <3>1. name \in Token \cup {""} /\ seen \in BOOLEAN
      <4>1. text \in Seq(Token)
        BY <2>3 DEF Line
      <4> HIDE DEF named, Token, second
      <4>2. named => text[second] \in Token
        BY <2>3, <2>4, <2>6, <4>1
      <4> QED BY <4>2 DEF Has
    <3> HIDE DEF name, seen
    <3>2. Block("namespace", n, seen) \in Blocks(AllAsms)
      BY <2>2, <3>1, BlockIs DEF Kinds, AreAsms
    <3> QED BY <3>1, <3>2 DEF Blocks, Block
  <2>9. PushNamespace(b, n) = [stack |-> Append(b.stack, block), line |-> Drop(text, rest)]
    <3>1. PushNamespace(b, n)
            = [stack |-> Append(b.stack, block), line |-> Drop(text, IF block.seen THEN brace ELSE IF named THEN second ELSE first)]
      BY <1>2 DEF PushNamespace, text
    <3> HIDE DEF block, seen, brace, named, second, first
    <3> QED BY <2>8, <3>1
  <2>10. PushNamespace(b, n) \in Pushed(AllAsms) /\ b.stack \in Seq(Blocks(AllAsms))
    BY <2>1, <2>2, PushNamespaceIs DEF AreAsms, Pushed, Stacks
  <2> HIDE DEF words, first, second, named, name, seen, brace, block, rest, Blocks
  <2> DEFINE e == d + rest
  <2>11. /\ AreBraced(Append(b.stack, block), n, e)
         /\ rest \in 1..Len(text) /\ full[e] \notin Commas \cup {Space}
    <3> DEFINE h == d + first
    <3>1. /\ h \in d + 1..Len(full) /\ full[h] = "namespace" /\ h \in 1..Len(full)
          /\ \A k \in d + 1..h - 1 : full[k] = Space
      <4>1. h \in d + 1..Len(full) /\ full[h] = "namespace" /\ h \in 1..Len(full)
        BY <2>3, <2>4, <2>5
      <4>2. ASSUME NEW k \in d + 1..h - 1 PROVE full[k] = Space
        <5>1. k - d \in 1..first - 1 /\ k - d \in 1..Len(text) /\ d + (k - d) = k
          BY <2>3, <2>4
        <5>2. text[k - d] = Space /\ text[k - d] = full[d + (k - d)]
          BY <2>3, <2>4, <5>1
        <5> QED BY <5>1, <5>2
      <4> QED BY <4>1, <4>2
    <3>2. /\ Place(n, h) \in Heads(n + 1) /\ full[h] \notin Ends \cup {CloseBrace}
      BY <3>1, NamespaceHead DEF full
    <3>3. Space \notin Ends \cup {CloseBrace} /\ "namespace" \notin Commas \cup {Space} /\ OpenBrace \notin Commas \cup {Space}
      BY Zenon DEF Space, Commas, Ends, OpenBrace, CloseBrace
    <3>4. \A k \in d + 1..h - 1 : full[k] \notin Ends \cup {CloseBrace}
      BY <3>1, <3>3
    <3>5. CASE seen
      <4>1. rest = brace
        BY <3>5 DEF rest
      <4>2. \A k \in 1..brace - 1 : text[k] # OpenBrace
        BY <2>7, <3>5
      <4>3. brace \in 1..Len(text) /\ full[e] = OpenBrace
        BY <2>3, <2>7, <3>5, <4>1
      <4>4. brace > first
        <5>1. text[brace] = OpenBrace /\ text[first] = "namespace" /\ OpenBrace # "namespace" /\ OpenBrace # Space
          BY <2>5, <2>7, <3>2, <3>3, <3>5, BraceTokens, <2>3, <2>4
        <5>2. brace # first /\ ~(brace \in 1..first - 1)
          BY <2>4, <5>1
        <5> QED BY <2>3, <2>4, <4>3, <5>2
      <4>5. e \in h + 1..Len(full)
        BY <2>3, <2>4, <4>1, <4>3, <4>4
      <4>6. ASSUME NEW k \in h + 1..e - 1 PROVE full[k] # OpenBrace
        <5>1. k - d \in 1..brace - 1 /\ k - d \in 1..Len(text) /\ d + (k - d) = k
          BY <2>3, <2>4, <4>1, <4>3
        <5>2. text[k - d] # OpenBrace /\ text[k - d] = full[d + (k - d)]
          BY <2>3, <4>2, <5>1
        <5> QED BY <5>1, <5>2
      <4> HIDE DEF e, h
      <4>7. AreBraced(Append(b.stack, block), n, e)
        BY <2>1, <2>8, <2>10, <3>1, <3>4, <3>5, <4>3, <4>5, <4>6, BracedOpened DEF full
      <4> QED BY <3>3, <4>1, <4>3, <4>7
    <3>6. CASE ~seen
      <4>1. /\ rest \in first..Len(text) /\ full[e] \notin Commas \cup {Space}
            /\ \A k \in first + 1..rest : text[k] \notin Ends \cup {CloseBrace}
        <5>1. CASE named
          <6>1. rest = second
            BY <3>6, <5>1 DEF rest
          <6>2. text[second] \notin Ends \cup {CloseBrace} /\ text[second] \notin Commas \cup {Space}
            BY <2>6, <5>1, WordsAreNot
          <6>3. second \in first + 1..Len(text) /\ \A k \in first + 1..second - 1 : text[k] = Space
            BY <2>6, <5>1
          <6>4. second \in 1..Len(text) /\ \A k \in first + 1..second : k = second \/ k \in first + 1..second - 1
            BY <2>3, <2>4, <6>3
          <6>5. full[e] = text[second]
            BY <2>3, <6>1, <6>4
          <6>6. ASSUME NEW k \in first + 1..rest PROVE text[k] \notin Ends \cup {CloseBrace}
            <7>1. k = second \/ text[k] = Space
              BY <6>1, <6>3, <6>4
            <7> QED BY <3>3, <6>2, <7>1
          <6>7. rest \in first..Len(text)
            BY <2>3, <2>4, <6>1, <6>3
          <6> QED BY <6>2, <6>5, <6>6, <6>7
        <5>2. CASE ~named
          <6>1. rest = first
            BY <3>6, <5>2 DEF rest
          <6>2. rest \in first..Len(text) /\ \A k \in first + 1..rest : FALSE
            BY <2>3, <2>4, <6>1
          <6>3. full[e] = "namespace"
            BY <3>1, <6>1
          <6> QED BY <3>3, <6>2, <6>3
        <5> QED BY <5>1, <5>2
      <4>2. e \in h..Len(full) /\ rest \in 1..Len(text)
        <5>1. rest \in first..Len(text)
          BY <4>1
        <5>2. first \in 1..Len(text) /\ Len(text) = Len(full) - d /\ Len(full) \in Nat /\ d \in Nat /\ Len(text) \in Nat
          BY <2>3, <2>4
        <5> QED BY <5>1, <5>2
      <4>3. ASSUME NEW k \in h + 1..e PROVE full[k] \notin Ends \cup {CloseBrace}
        <5>1. k - d \in first + 1..rest /\ k - d \in 1..Len(text) /\ d + (k - d) = k
          BY <2>3, <2>4, <4>2
        <5>2. text[k - d] \notin Ends \cup {CloseBrace} /\ text[k - d] = full[d + (k - d)]
          BY <2>3, <4>1, <5>1
        <5> QED BY <5>1, <5>2
      <4>4. \A k \in (d + 1..h - 1) \cup (h + 1..e) : full[k] \notin Ends \cup {CloseBrace}
        BY <3>4, <4>3
      <4> HIDE DEF e, h
      <4>5. AreBraced(Append(b.stack, block), n, e)
        BY <2>1, <2>8, <2>10, <3>1, <3>2, <3>6, <4>2, <4>4, BracedNamed DEF full
      <4> QED BY <4>1, <4>2, <4>5
    <3> QED BY <3>5, <3>6
  <2>12. PushNamespace(b, n).stack = Append(b.stack, block) /\ PushNamespace(b, n).line = Drop(full, e) /\ e \in 0..Len(full)
    <3>1. rest \in 1..Len(text)
      BY <2>11
    <3>2. rest \in 0..Len(text)
      BY <2>3, <3>1
    <3>3. Drop(text, rest) = Drop(full, e) /\ e \in 0..Len(full)
      BY <2>3, <3>2
    <3> QED BY <2>9, <3>3
  <2> HIDE DEF e
  <2> QED BY <2>10, <2>11, <2>12 DEF AreReady, full
<1> QED BY <1>1, <1>2

LEMMA DropNone ==
  ASSUME NEW line \in Line
  PROVE  Drop(line, 0) = line /\ 0 \in 0..Len(line)
<1> HIDE DEF Token
<1>1. line \in Seq(Token) /\ Len(line) \in Nat
  BY DEF Line
<1>2. 0 \in 0..Len(line)
  BY <1>1
<1>3. Drop(line, 0) = [k \in 1..Len(line) - 0 |-> line[0 + k]]
  BY <1>1, <1>2, DropGives
<1>4. Len(line) - 0 = Len(line) /\ \A k \in 1..Len(line) : 0 + k = k
  BY <1>1
<1>5. line = [k \in 1..Len(line) |-> line[k]]
  BY <1>1
<1> QED BY <1>2, <1>3, <1>4, <1>5

\* The namespaces that begin a line.
LEMMA BracedNamespaces ==
  ASSUME NEW last \in Nat, IsText(clean, last), NEW n \in 0..last, NEW stack \in Stacks(AllAsms),
         AreBraced(stack, n, 0), IsWellBraced(n + 1)
  PROVE  AreReady(PushNamespaces(stack, clean.elided[n], n), n)
<1> DEFINE line == clean.elided[n]
           m == Len(line)
           base == [stack |-> stack, line |-> line]
           Ready == {b \in Pushed(AllAsms) : AreReady(b, n)}
           T == [k \in 0..m |-> Ready]
           turn == [k \in 1..m |-> [b \in Ready |-> PushNamespace(b, n)]]
<1>1. m \in Nat /\ m \in Int /\ 0 \in Int /\ 0 <= m /\ line \in Line /\ line \in LinesOf(AllAsms)
  <2>1. line \in Line /\ m \in Nat
    BY LineIs
  <2>2. line \in LinesOf(AllAsms)
    BY <2>1, LinesAre
  <2> HIDE DEF line, m
  <2> QED BY <2>1, <2>2
<1>2. \A i \in (0 + 1)..m : i \in 1..m /\ i \in 0..m /\ i - 1 \in 0..m /\ i # 0
  BY <1>1
<1>3. \A b \in Ready : PushNamespace(b, n) \in Ready
  <2> SUFFICES ASSUME NEW b \in Ready PROVE PushNamespace(b, n) \in Ready
    OBVIOUS
  <2>1. AreReady(PushNamespace(b, n), n)
    BY BracedNamespace
  <2> QED BY <2>1 DEF AreReady
<1>4. base \in Ready
  <2>1. base \in Pushed(AllAsms)
    BY <1>1 DEF Pushed
  <2>2. Drop(line, 0) = line /\ 0 \in 0..Len(line)
    BY <1>1, DropNone
  <2> QED BY <2>1, <2>2 DEF AreReady
<1>5. \A b \in Ready : AreReady(b, n)
  OBVIOUS
<1> HIDE DEF Ready
<1>6. \A i \in (0 + 1)..m : \A b \in T[i - 1] : turn[i][b] = PushNamespace(b, n) /\ turn[i][b] \in T[i]
  <2> HIDE DEF m
  <2> QED BY <1>2, <1>3
<1>7. base \in T[0] /\ m \in 0..m /\ \A i \in 0..m : T[i] = Ready
  <2> HIDE DEF base
  <2> QED BY <1>1, <1>4
<1> HIDE DEF T, turn, m, base
<1>8. PICK g : Runs(g, 0, m, base, turn) /\ \A i \in 0..m : g[i] \in T[i]
  <2>1. \A i \in (0 + 1)..m : \A b \in T[i - 1] : turn[i][b] \in T[i]
    BY <1>6
  <2> QED BY ONLY <1>1, <1>7, <2>1, LoopRuns
<1>9. g = [k \in 0..m |-> IF k = 0 THEN base ELSE PushNamespace(g[k - 1], n)]
  <2>1. \A i \in 0..m : i # 0 => i \in (0 + 1)..m
    BY <1>1
  <2>2. \A i \in 0..m : i # 0 => turn[i][g[i - 1]] = PushNamespace(g[i - 1], n)
    BY <1>2, <1>6, <1>8, <2>1
  <2> QED BY <1>8, <2>2 DEF Runs
<1> DEFINE f == CHOOSE h : h = [k \in 0..m |-> IF k = 0 THEN base ELSE PushNamespace(h[k - 1], n)]
<1>10. f = [k \in 0..m |-> IF k = 0 THEN base ELSE PushNamespace(f[k - 1], n)]
  BY <1>9
<1>11. PushNamespaces(stack, line, n) = f[m]
  BY DEF PushNamespaces, PushNamespace, m, base
<1> HIDE DEF f
<1>12. f[m] \in T[m]
  <2>1. f[0] \in T[0]
    BY <1>1, <1>7, <1>10
  <2>2. ASSUME NEW i \in (0 + 1)..m, f[i - 1] \in T[i - 1] PROVE f[i] \in T[i]
    BY <1>2, <1>3, <1>7, <1>10, <2>2
  <2> QED BY ONLY <1>1, <2>1, <2>2, LoopKeeps
<1> QED BY <1>5, <1>7, <1>11, <1>12

\* What may stand before a class, but for words.
Templates == {Space, "<", ">", ",", ":", "::"}

\* A class or a struct at p and its name at q, that begin the line: and no < or comma is before p.
IsDeclared(line, p, q) ==
  /\ q \in p + 1..Len(line) /\ Lowest(ClassName(line)) = q
  /\ line[p] \in {"class", "struct"} /\ IsWord(line[q])
  /\ \A k \in p + 1..q - 1 : line[k] = Space
  /\ \A k \in 1..p - 1 : line[k] \in Templates \/ IsWord(line[k])
  /\ \A i \in 1..p - 1 : line[i] \in Commas => \E j \in i + 1..p - 1 : line[j] # Space

LEMMA ClassNameHas ==
  ASSUME NEW line \in Line, ClassName(line) # {}
  PROVE  \E p \in 1..Len(line) : \E q : IsDeclared(line, p, q)
<1> DEFINE template(p) ==
             /\ FirstToken(line) = "template" /\ LastToken(Take(line, p)) = ">"
             /\ \A i \in 1..p : line[i] \in Templates \/ IsWord(line[i])
           heads == {p \in At(line, "class") \cup At(line, "struct") :
                       /\ IsBlankLine(Take(line, p - 1)) \/ template(p - 1)
                       /\ \E i \in p + 1..Len(line) : line[i] # Space
                       /\ IsWord(FirstToken(Drop(line, p)))}
           p == Highest(heads)
           names == {i \in p + 1..Len(line) : line[i] # Space}
           q == Lowest(names)
<1>1. ClassName(line) = IF heads = {} THEN {} ELSE {q}
  BY DEF ClassName, Templates
<1>2. heads # {}
  <2> HIDE DEF heads, q
  <2> QED BY <1>1
<1>3. heads \subseteq DOMAIN line /\ Len(line) \in Nat /\ DOMAIN line = 1..Len(line)
  <2>1. heads \subseteq DOMAIN line
    BY DEF At
  <2>2. Len(line) \in Nat /\ DOMAIN line = 1..Len(line)
    <3> HIDE DEF Token
    <3> QED BY DEF Line
  <2> QED BY <2>1, <2>2
<1>4. \A h \in heads : /\ line[h] \in {"class", "struct"}
                       /\ IsBlankLine(Take(line, h - 1)) \/ template(h - 1)
                       /\ \E i \in h + 1..Len(line) : line[i] # Space
                       /\ IsWord(FirstToken(Drop(line, h)))
  BY DEF At
<1> HIDE DEF heads
<1>5. p \in heads /\ p \in 1..Len(line)
  BY <1>2, <1>3, HighestOf DEF Line
<1>6. /\ line[p] \in {"class", "struct"}
      /\ IsBlankLine(Take(line, p - 1)) \/ template(p - 1)
      /\ \E i \in p + 1..Len(line) : line[i] # Space
      /\ IsWord(FirstToken(Drop(line, p)))
  BY <1>4, <1>5
<1> HIDE DEF p
<1>7. names # {} /\ names \subseteq DOMAIN line /\ names \subseteq Nat
  <2>1. p + 1..Len(line) \subseteq 1..Len(line) /\ 1..Len(line) \subseteq Nat
    BY <1>3, <1>5
  <2> QED BY <1>3, <1>6, <2>1
<1>8. q \in p + 1..Len(line) /\ q \in names /\ line[q] # Space /\ \A k \in p + 1..q - 1 : line[k] = Space
  <2>1. q \in names /\ \A y \in names : q <= y
    <3> HIDE DEF names
    <3> QED BY <1>7, LowestIs
  <2> HIDE DEF q
  <2>2. ASSUME NEW k \in p + 1..q - 1 PROVE line[k] = Space
    <3>1. k \in p + 1..Len(line) /\ ~(q <= k)
      BY <1>3, <1>5, <2>1
    <3> QED BY <2>1, <3>1
  <2> QED BY <2>1, <2>2
<1> HIDE DEF names, q
<1>9. Lowest(ClassName(line)) = q
  <2>1. ClassName(line) = {q} /\ q \in Nat
    BY <1>1, <1>2, <1>3, <1>5, <1>8
  <2> QED BY <2>1, LowestIs
<1>10. IsWord(line[q])
  <2> DEFINE rest == Drop(line, p)
  <2>1. p \in 0..Len(line)
    BY <1>3, <1>5
  <2>2. /\ rest \in Line /\ Len(rest) = Len(line) - p
        /\ \A k \in 1..Len(line) - p : rest[k] = line[p + k] /\ p + k \in 1..Len(line)
    BY <2>1, BehindIs
  <2>3. AreEnds(Words(rest), rest, Len(rest))
    BY <2>2, WordsAre DEF Line
  <2>4. Words(rest) # <<>> /\ IsWord(Words(rest)[1])
    <3>1. ~IsWord("")
      BY DEF IsWord, Punctuation
    <3> QED BY <1>6, <3>1 DEF FirstToken
  <2>5. PICK j \in 1..Len(rest) : Words(rest)[1] = rest[j] /\ rest[j] # Space /\ \A k \in 1..j - 1 : rest[k] = Space
    BY <2>3, <2>4 DEF AreEnds
  <2> HIDE DEF rest
  <2>6. j \in Nat /\ p + j \in p + 1..Len(line) /\ rest[j] = line[p + j]
    BY <1>3, <1>5, <2>2, <2>5
  <2>7. ~(p + j < q)
    <3> SUFFICES ASSUME p + j < q PROVE FALSE
      OBVIOUS
    <3>1. p + j \in p + 1..q - 1
      BY <1>3, <1>5, <1>8, <2>6
    <3> QED BY <1>8, <2>5, <2>6, <3>1
  <2>8. ~(q < p + j)
    <3> SUFFICES ASSUME q < p + j PROVE FALSE
      OBVIOUS
    <3>1. q - p \in 1..j - 1 /\ q - p \in 1..Len(line) - p /\ p + (q - p) = q
      BY <1>3, <1>5, <1>8, <2>6
    <3> QED BY <1>8, <2>2, <2>5, <3>1
  <2>9. q = p + j
    BY <1>3, <1>5, <1>8, <2>6, <2>7, <2>8
  <2> QED BY <2>4, <2>5, <2>6, <2>9
<1>11. /\ \A k \in 1..p - 1 : line[k] \in Templates \/ IsWord(line[k])
       /\ \A i \in 1..p - 1 : line[i] \in Commas => \E j \in i + 1..p - 1 : line[j] # Space
  <2> DEFINE before == Take(line, p - 1)
  <2>1. before \in Seq(Token) /\ Len(before) = p - 1 /\ p - 1 \in Nat /\ \A k \in 1..p - 1 : before[k] = line[k]
    <3> HIDE DEF Token
    <3>1. line \in Seq(Token)
      BY DEF Line
    <3>2. p - 1 \in Nat /\ p - 1 <= Len(line)
      BY <1>3, <1>5
    <3> DEFINE m == p - 1
    <3> HIDE DEF m
    <3>3. SubSeq(line, 1, m) \in Seq(Token) /\ Len(SubSeq(line, 1, m)) = m /\ \A k \in 1..m : SubSeq(line, 1, m)[k] = line[k]
      BY <3>1, <3>2 DEF m
    <3> QED BY <3>2, <3>3 DEF Take, m
  <2> HIDE DEF before
  <2>2. CASE IsBlankLine(before)
    <3>1. \A k \in 1..p - 1 : line[k] = Space
      BY <2>1, <2>2 DEF IsBlankLine
    <3>2. Space \notin Commas /\ Space \in Templates
      BY Zenon DEF Space, Commas, Templates
    <3> QED BY <3>1, <3>2
  <2>3. CASE template(p - 1)
    <3>1. /\ LastToken(before) = ">"
          /\ \A k \in 1..p - 1 : line[k] \in Templates \/ IsWord(line[k])
      BY <2>3 DEF before
    <3>2. AreEnds(Words(before), before, Len(before))
      BY <2>1, WordsAre
    <3>3. PICK j \in 1..Len(before) : before[j] = ">" /\ before[j] # Space /\ \A k \in j + 1..Len(before) : before[k] = Space
      <4>1. Words(before) # <<>> /\ Words(before)[Len(Words(before))] = ">"
        BY <3>1 DEF LastToken
      <4> QED BY <3>2, <4>1 DEF AreEnds
    <3>4. ASSUME NEW i \in 1..p - 1, line[i] \in Commas PROVE \E k \in i + 1..p - 1 : line[k] # Space
      <4>1. line[i] # Space /\ line[i] # ">"
        BY <3>4, Zenon DEF Space, Commas
      <4>2. before[i] = line[i] /\ i \in Nat
        BY <2>1
      <4>3. i # j /\ ~(i \in j + 1..Len(before))
        BY <3>3, <4>1, <4>2
      <4>4. j \in i + 1..p - 1
        BY <2>1, <3>3, <4>2, <4>3
      <4> QED BY <2>1, <3>3, <4>4
    <3> QED BY <3>1, <3>4
  <2> QED BY <1>6, <2>2, <2>3 DEF before
<1> HIDE DEF template
<1>12. IsDeclared(line, p, q)
  BY Zenon, <1>6, <1>8, <1>9, <1>10, <1>11 DEF IsDeclared
<1> QED BY <1>5, <1>12
LEMMA ParameterIs ==
  ASSUME NEW p, IsParameter(p)
  PROVE  \E i \in 1..p.at - 1 : /\ clean.elided[p.line][i] \in Commas
                                /\ \A j \in i + 1..p.at - 1 : clean.elided[p.line][j] = Space
BY Zenon DEF IsParameter, Commas

\* A class is pushed at its name.
LEMMA BracedClass ==
  ASSUME NEW last \in Nat, IsText(clean, last), NEW n \in 0..last, NEW b, AreReady(b, n), IsWellBraced(n + 1)
  PROVE  /\ PushClass(b.stack, b.line, clean, n) \in Pushed(AllAsms)
         /\ \E e \in 0..Len(clean.elided[n]) :
              /\ PushClass(b.stack, b.line, clean, n).line = Drop(clean.elided[n], e)
              /\ AreBraced(PushClass(b.stack, b.line, clean, n).stack, n, e)
<1> DEFINE text == b.line
           full == clean.elided[n]
           nameAt == Lowest(ClassName(text))
           block == ClassBlock(clean, text, n, nameAt)
           after == PushClass(b.stack, text, clean, n)
<1>1. PICK d \in 0..Len(full) : /\ text = Drop(full, d) /\ AreBraced(b.stack, n, d) /\ b \in Pushed(AllAsms)
                                /\ d = 0 \/ full[d] \notin Commas \cup {Space}
  BY DEF AreReady
<1>2. full \in Line /\ n \in Nat /\ n < n + 1
  BY LineIs
<1> HIDE DEF full
<1>3. /\ text \in Line /\ Len(text) = Len(full) - d /\ Len(full) \in Nat /\ d \in Nat /\ Len(text) \in Nat
      /\ \A k \in 1..Len(text) : text[k] = full[d + k] /\ d + k \in 1..Len(full)
      /\ \A k \in 0..Len(text) : Drop(text, k) = Drop(full, d + k) /\ d + k \in 0..Len(full)
  <2>1. /\ Drop(full, d) \in Line /\ Len(Drop(full, d)) = Len(full) - d /\ Len(full) \in Nat /\ d \in Nat
        /\ Len(full) - d \in Nat
        /\ \A k \in 1..Len(full) - d : Drop(full, d)[k] = full[d + k] /\ d + k \in 1..Len(full)
        /\ \A k \in 0..Len(full) - d : Drop(Drop(full, d), k) = Drop(full, d + k) /\ d + k \in 0..Len(full)
    BY <1>2, BehindIs
  <2> QED BY <1>1, <2>1
<1>4. b.stack \in Stacks(AllAsms) /\ text \in LinesOf(AllAsms) /\ b.stack \in Seq(Blocks(AllAsms)) /\ AreAsms(AllAsms)
  BY <1>1 DEF Pushed, Stacks, AreAsms
<1>5. after \in Pushed(AllAsms)
  BY <1>4, PushClassIs
<1>6. \/ after = [stack |-> b.stack, line |-> text]
      \/ ClassName(text) # {} /\ after = [stack |-> Append(b.stack, block), line |-> Drop(text, nameAt)]
  BY DEF PushClass
<1> HIDE DEF text, after
<1>7. CASE after = [stack |-> b.stack, line |-> text]
  BY <1>1, <1>5, <1>7 DEF after, text, full
<1>8. CASE ClassName(text) # {} /\ after = [stack |-> Append(b.stack, block), line |-> Drop(text, nameAt)]
  <2>1. PICK p \in 1..Len(text) : \E q : IsDeclared(text, p, q)
    BY <1>3, <1>8, ClassNameHas
  <2>2. PICK q : IsDeclared(text, p, q)
    BY <2>1
  <2>3. q \in p + 1..Len(text) /\ nameAt = q /\ text[p] \in {"class", "struct"} /\ IsWord(text[q])
    BY <2>2 DEF IsDeclared
  <2> DEFINE h == d + p
             e == d + q
  <2>4. /\ p \in Nat /\ q \in Nat /\ h \in d + 1..Len(full) /\ h \in 1..Len(full) /\ h \in Nat
        /\ e \in h..Len(full) /\ e \in 0..Len(full)
        /\ full[h] = text[p] /\ full[e] = text[q] /\ q \in 0..Len(text)
    BY <1>3, <2>3
  <2>5. \A k \in d + 1..e : k - d \in 1..q /\ k - d \in 1..Len(text) /\ full[k] = text[k - d]
    <3> SUFFICES ASSUME NEW k \in d + 1..e PROVE k - d \in 1..q /\ k - d \in 1..Len(text) /\ full[k] = text[k - d]
      OBVIOUS
    <3>1. k - d \in 1..q /\ k - d \in 1..Len(text) /\ d + (k - d) = k
      BY <1>3, <2>3, <2>4
    <3> QED BY <1>3, <3>1
  <2>6. block \in Blocks(AllAsms) /\ ~block.seen
    <3>1. text[q] \in Token
      <4>1. text \in Seq(Token) /\ q \in 1..Len(text)
        BY <1>3, <2>3, <2>4 DEF Line
      <4> HIDE DEF Token
      <4> QED BY <4>1
    <3>2. block \in Blocks(AllAsms)
      BY <1>4, <2>3, <3>1, ClassBlockIs
    <3>3. ~block.seen
      BY DEF ClassBlock, Block
    <3> QED BY <3>2, <3>3
  <2> HIDE DEF block, nameAt
  <2>7. /\ \A t \in {"class", "struct"} \cup Templates : t \notin Ends \cup {CloseBrace}
        /\ \A t : IsWord(t) => t \notin Ends \cup {CloseBrace}
    <3>1. \A t \in {"class", "struct"} \cup Templates : t \notin Ends \cup {CloseBrace}
      BY Zenon DEF Space, Templates, Ends, OpenBrace, CloseBrace
    <3> QED BY <3>1, WordsAreNot
  <2>8. \A k \in (d + 1..h - 1) \cup (h + 1..e) : full[k] \notin Ends \cup {CloseBrace}
    <3> SUFFICES ASSUME NEW k \in (d + 1..h - 1) \cup (h + 1..e) PROVE full[k] \notin Ends \cup {CloseBrace}
      OBVIOUS
    <3>1. k \in d + 1..e /\ (k - d \in 1..p - 1 \/ k - d \in p + 1..q - 1 \/ k - d = q)
      BY <1>3, <2>3, <2>4
    <3> DEFINE j == k - d
    <3> HIDE DEF j
    <3>2. full[k] = text[j] /\ (j \in 1..p - 1 \/ j \in p + 1..q - 1 \/ j = q)
      BY <2>5, <3>1 DEF j
    <3>3. text[j] \in {"class", "struct"} \cup Templates \/ IsWord(text[j])
      <4>1. Space \in Templates
        BY DEF Templates
      <4> QED BY <2>2, <3>2, <4>1 DEF IsDeclared
    <3> QED BY <2>7, <3>2, <3>3
  <2>9. Place(n, h) \in Heads(n + 1) /\ full[h] \notin Ends \cup {CloseBrace}
    <3>1. full[h] \in {"class", "struct"}
      BY <2>3, <2>4
    <3>2. Place(n, h) \in PlacesIn({"class", "struct"}, n + 1)
      <4>1. Place(n, h) \in Places({"class", "struct"})
        BY <2>4, <3>1, PlacesAre DEF full
      <4> QED BY <1>2, <4>1, PlaceIs DEF PlacesIn
    <3>3. ~IsParameter(Place(n, h))
      <4> SUFFICES ASSUME NEW i \in 1..h - 1, full[i] \in Commas, \A j \in i + 1..h - 1 : full[j] = Space
                   PROVE  FALSE
        <5>1. Place(n, h).line = n /\ Place(n, h).at = h
          BY PlaceIs
        <5> QED BY <5>1, ParameterIs DEF full
      <4>1. CASE i > d
        <5>1. i \in d + 1..e /\ i - d \in 1..p - 1
          BY <1>3, <2>4, <4>1
        <5>2. text[i - d] \in Commas
          BY <2>5, <5>1
        <5>3. PICK j \in (i - d) + 1..p - 1 : text[j] # Space
          BY <2>2, <5>1, <5>2 DEF IsDeclared
        <5>4. d + j \in i + 1..h - 1 /\ j \in 1..Len(text)
          BY <1>3, <2>4, <4>1, <5>1
        <5>5. full[d + j] = text[j]
          BY <1>3, <5>4
        <5> QED BY <5>3, <5>4, <5>5
      <4>2. CASE i = d
        <5>1. d # 0
          BY <1>3, <4>2
        <5> QED BY <1>1, <4>2, <5>1
      <4>3. CASE i < d
        <5>1. d # 0 /\ d \in i + 1..h - 1
          BY <1>3, <2>4, <4>3
        <5> QED BY <1>1, <5>1
      <4> QED BY <1>3, <2>4, <4>1, <4>2, <4>3
    <3> QED BY <2>7, <3>1, <3>2, <3>3 DEF Heads
  <2>10. after.stack = Append(b.stack, block) /\ after.line = Drop(full, e)
    BY <1>3, <1>8, <2>3, <2>4
  <2> HIDE DEF h, e
  <2>11. AreBraced(Append(b.stack, block), n, e)
    BY <1>1, <1>4, <2>4, <2>6, <2>8, <2>9, BracedNamed DEF full
  <2> QED BY <1>5, <2>4, <2>10, <2>11 DEF after, text, full
<1> QED BY <1>6, <1>7, <1>8

\* A line leaves as many blocks open as there are braces, if the one before did.
LEMMA BracedLine ==
  ASSUME NEW last \in Nat, IsText(clean, last), NEW n \in 0..last, NEW stack \in Stacks(AllAsms),
         AreBraced(stack, n, 0), IsWellBraced(n + 1)
  PROVE  AreBraced(UpdateStack(stack, clean, n).stack, n, Len(clean.elided[n]))
<1> DEFINE line == clean.elided[n]
           counted == CountParentheses(stack, line)
           namespaces == PushNamespaces(counted, line, n)
           before == PushClass(namespaces.stack, namespaces.line, clean, n)
           set == SetAccess(before.stack, before.line)
<1>1. line \in LinesOf(AllAsms) /\ AreAsms(AllAsms) /\ n \in Nat
  BY LineIs, LinesAre DEF AreAsms
<1>2. counted \in Stacks(AllAsms) /\ AreBraced(counted, n, 0)
  BY <1>1, CountParenthesesIs, BracedParentheses
<1>3. AreReady(namespaces, n)
  <2> HIDE DEF counted
  <2> QED BY <1>2, BracedNamespaces
<1> HIDE DEF namespaces
<1>4. before \in Pushed(AllAsms)
  BY <1>3, BracedClass
<1>5. PICK d \in 0..Len(clean.elided[n]) : before.line = Drop(clean.elided[n], d) /\ AreBraced(before.stack, n, d)
  BY <1>3, BracedClass
<1> HIDE DEF before
<1>6. before.stack \in Stacks(AllAsms) /\ before.line \in LinesOf(AllAsms)
  BY <1>4 DEF Pushed
<1>7. set \in Stacks(AllAsms) /\ AreBraced(set, n, d)
  BY <1>1, <1>5, <1>6, SetAccessIs, BracedAccess
<1>8. UpdateStack(stack, clean, n) = Consume(set, Drop(clean.elided[n], d), n)
  BY <1>5 DEF UpdateStack, ConsumeRest, BeforeConsume, before, namespaces
<1> HIDE DEF set
<1> QED BY <1>7, <1>8, BracedConsume

\* So it does at the begin of the next.
LEMMA BracedNext ==
  ASSUME NEW last \in Nat, IsText(clean, last), NEW n \in 0..last, NEW stack,
         AreBraced(stack, n, Len(clean.elided[n]))
  PROVE  AreBraced(stack, n + 1, 0)
<1> DEFINE m == Len(clean.elided[n])
<1>1. n \in Nat /\ m \in Nat
  BY LineIs
<1>2. \A tokens : UpTo(Place(n + 1, 0), tokens) = UpTo(Place(n, m), tokens)
  BY UpToLine
<1> HIDE DEF m
<1>3. ASSUME IsPending(n, m) PROVE IsPending(n + 1, 0)
  <2>1. PICK p \in Heads(n + 1) : /\ ~Precedes(Place(n, m), p)
                                  /\ \A r \in Places(Ends) : Precedes(p, r) => Precedes(Place(n, m), r)
    BY <1>3 DEF IsPending
  <2>2. \A tokens : \A q \in PlacesIn(tokens, n + 1) : q \in PlacesIn(tokens, (n + 1) + 1) /\ q.line \in Nat /\ q.line < n + 1
    <3> SUFFICES ASSUME NEW tokens, NEW q \in PlacesIn(tokens, n + 1)
                 PROVE  q \in PlacesIn(tokens, (n + 1) + 1) /\ q.line \in Nat /\ q.line < n + 1
      OBVIOUS
    <3>1. q \in Places(tokens) /\ q.line < n + 1
      BY DEF PlacesIn
    <3>2. q.line \in Nat
      BY <3>1, PlacesAre
    <3> QED BY <1>1, <3>1, <3>2 DEF PlacesIn
  <2>3. p \in Heads((n + 1) + 1) /\ p.line \in Nat /\ p.line < n + 1
    BY <2>2 DEF Heads
  <2>4. ~Precedes(Place(n + 1, 0), p)
    BY <1>1, <2>3, PlaceIs DEF Precedes
  <2>5. \A r \in Places(Ends) : Precedes(p, r) => Precedes(Place(n + 1, 0), r)
    BY <1>2, <2>1 DEF UpTo
  <2> QED BY <2>3, <2>4, <2>5 DEF IsPending
<1>4. BracesAt(n + 1, 0) = BracesAt(n, m) /\ (AreFinite(n, m) => AreFinite(n + 1, 0))
  BY <1>2 DEF BracesAt, AreFinite
<1> QED BY <1>3, <1>4 DEF AreBraced, m

\* Nothing is open at the begin of the text.
LEMMA BracedNone ==
  ASSUME NEW last \in Nat, IsText(clean, last)
  PROVE  AreBraced(<<>>, 0, 0)
<1>1. ASSUME NEW tokens PROVE UpTo(Place(0, 0), tokens) = {}
  <2> SUFFICES ASSUME NEW p \in Places(tokens) PROVE Precedes(Place(0, 0), p)
    BY DEF UpTo
  <2>1. p.line \in 0..last /\ p.at \in 1..Len(clean.elided[p.line]) /\ p.at \in Nat
    BY PlacesAre
  <2> QED BY <2>1, PlaceIs DEF Precedes
<1>2. AreFinite(0, 0) /\ BracesAt(0, 0) = 0
  BY <1>1, FS_EmptySet DEF AreFinite, BracesAt
<1>3. SeenOpenBrace(<<>>) /\ SeenBlocks(<<>>) = 0 /\ \A k \in 1..Len(<<>>) - 1 : FALSE
  BY DEF SeenOpenBrace, SeenBlocks
<1> QED BY <1>2, <1>3 DEF AreBraced

\* A text that is well braced was so before.
LEMMA WellBracedBefore ==
  ASSUME NEW last \in Nat, IsText(clean, last), NEW n \in Nat, IsWellBraced(n + 1)
  PROVE  IsWellBraced(n) /\ DirectiveOf(n) \notin Directives
<1>1. \A tokens : PlacesIn(tokens, n) \subseteq PlacesIn(tokens, n + 1)
  <2> SUFFICES ASSUME NEW tokens, NEW q \in PlacesIn(tokens, n) PROVE q \in PlacesIn(tokens, n + 1)
    OBVIOUS
  <2>1. q \in Places(tokens) /\ q.line < n
    BY DEF PlacesIn
  <2>2. q.line \in Nat
    BY <2>1, PlacesAre
  <2> QED BY <2>1, <2>2 DEF PlacesIn
<1>2. Heads(n) \subseteq Heads(n + 1)
  BY <1>1 DEF Heads
<1>3. 0..n - 1 \subseteq 0..(n + 1) - 1 /\ n \in 0..(n + 1) - 1
  OBVIOUS
<1> QED BY Zenon, <1>1, <1>2, <1>3 DEF IsWellBraced

\* At the begin of a line the braces open are those of the lines before it.
LEMMA BracesBefore ==
  ASSUME NEW last \in Nat, IsText(clean, last), NEW n \in Nat
  PROVE  BracesAt(n, 0) = Cardinality(PlacesIn({OpenBrace}, n)) - Cardinality(PlacesIn({CloseBrace}, n))
<1>1. ASSUME NEW tokens PROVE UpTo(Place(n, 0), tokens) = PlacesIn(tokens, n)
  <2>1. ASSUME NEW p \in Places(tokens) PROVE ~Precedes(Place(n, 0), p) <=> p.line < n
    <3>1. p.line \in Nat /\ p.at \in 1..Len(clean.elided[p.line]) /\ p.at \in Nat
      BY PlacesAre
    <3>2. p.at > 0
      BY <3>1
    <3> QED BY <3>1, <3>2, PlaceIs DEF Precedes
  <2> QED BY <2>1 DEF UpTo, PlacesIn
<1> QED BY <1>1 DEF BracesAt

\* The blocks whose brace was seen are counted.
LEMMA SeenAre ==
  ASSUME NEW S, NEW stack \in Seq(S), \A k \in 1..Len(stack) - 1 : stack[k].seen
  PROVE  Cardinality({i \in DOMAIN stack : stack[i].seen}) = SeenBlocks(stack)
<1> DEFINE seen == {i \in DOMAIN stack : stack[i].seen}
           n == Len(stack)
           m == SeenBlocks(stack)
<1>1. DOMAIN stack = 1..n /\ n \in Nat /\ (stack = <<>> => n = 0) /\ (stack # <<>> => n > 0)
  OBVIOUS
<1>2. \A k \in 1..n - 1 : stack[k].seen
  OBVIOUS
<1>3. m = IF stack = <<>> \/ stack[n].seen THEN n ELSE n - 1
  BY DEF SeenBlocks, SeenOpenBrace, Top
<1> HIDE DEF n, m
<1>4. m \in Nat /\ seen = 1..m
  <2>1. CASE stack = <<>> \/ stack[n].seen
    <3>1. m = n
      BY <1>3, <2>1
    <3>2. ASSUME NEW k \in 1..n PROVE stack[k].seen
      <4>1. n > 0 /\ (k = n \/ k \in 1..n - 1)
        BY <1>1
      <4>2. stack # <<>>
        BY <1>1, <4>1
      <4> QED BY <1>2, <2>1, <4>1, <4>2
    <3> QED BY <1>1, <3>1, <3>2
  <2>2. CASE ~(stack = <<>> \/ stack[n].seen)
    <3>1. m = n - 1 /\ n > 0
      BY <1>1, <1>3, <2>2
    <3>2. m \in Nat /\ \A k \in 1..n : k \in 1..m \/ k = n
      BY <1>1, <3>1
    <3>3. \A k \in 1..m : k \in 1..n /\ k \in 1..n - 1 /\ k # n
      BY <1>1, <3>1
    <3> QED BY <1>1, <1>2, <2>2, <3>2, <3>3
  <2> QED BY <2>1, <2>2
<1> HIDE DEF seen
<1>5. Cardinality(1..m) = m
  <2>1. Cardinality(1..m) = IF 1 > m THEN 0 ELSE m - 1 + 1
    BY <1>4, FS_Interval
  <2> QED BY <1>4, <2>1
<1> QED BY <1>4, <1>5 DEF m, seen

\* The blocks on the stack, if the lines read are well braced.
BlockInv ==
  \A n \in Nat : \A stack :
    n = next /\ stack = nesting.stack /\ n <= EndOfFile /\ IsWellBraced(n) => AreBraced(stack, n, 0)

LEMMA SameBraces ==
  ASSUME UNCHANGED clean, NEW n, NEW stack
  PROVE  /\ IsWellBraced(n)' <=> IsWellBraced(n)
         /\ AreBraced(stack, n, 0)' <=> AreBraced(stack, n, 0)
<1>1. \A tokens : Places(tokens)' = Places(tokens)
  BY DEF Places
<1>2. \A tokens, k : PlacesIn(tokens, k)' = PlacesIn(tokens, k)
  BY <1>1 DEF PlacesIn
<1>3. \A p, tokens : UpTo(p, tokens)' = UpTo(p, tokens)
  BY <1>1 DEF UpTo
<1>4. \A p : IsParameter(p)' <=> IsParameter(p)
  BY DEF IsParameter
<1>5. \A k : Heads(k)' = Heads(k)
  BY <1>2, <1>4 DEF Heads
<1>6. \A k : DirectiveOf(k)' = DirectiveOf(k)
  BY DEF DirectiveOf
<1>7. IsWellBraced(n)' <=> IsWellBraced(n)
  BY Zenon, <1>1, <1>2, <1>3, <1>5, <1>6 DEF IsWellBraced
<1>8. AreBraced(stack, n, 0)' <=> AreBraced(stack, n, 0)
  BY <1>1, <1>3, <1>5 DEF AreBraced, AreFinite, BracesAt, IsPending
<1> QED BY <1>7, <1>8

LEMMA BlocksBegin == ReportsInv /\ next = 0 /\ nesting = InitNestingState => BlockInv
<1> SUFFICES ASSUME ReportsInv, next = 0, nesting = InitNestingState PROVE BlockInv
  OBVIOUS
<1>1. nesting.stack = <<>> /\ LastLine \in Nat /\ IsText(clean, LastLine)
  BY TextIsRead DEF InitNestingState
<1> QED BY <1>1, BracedNone DEF BlockInv

LEMMA NextBlock == ReportsInv /\ BlockInv /\ [Next]_runVars => BlockInv'
<1> SUFFICES ASSUME ReportsInv, BlockInv, [Next]_runVars, next' \in Nat PROVE BlockInv'
  BY DEF BlockInv
<1>1. CASE Prepares
  <2>1. next' = 0 /\ nesting' = InitNestingState /\ ReportsInv'
    BY <1>1, NextReports DEF Prepares
  <2>2. (ReportsInv /\ next = 0 /\ nesting = InitNestingState)'
    BY <2>1 DEF InitNestingState
  <2> QED BY <2>2, BlocksBegin, PTL
<1>2. CASE Reads
  <2> SUFFICES ASSUME NEW m \in Nat, NEW stack, m = next', stack = nesting'.stack, m <= EndOfFile', IsWellBraced(m)'
               PROVE  AreBraced(stack, m, 0)'
    BY DEF BlockInv
  <2> PICK n \in Nat : n = next
    BY <1>2 DEF Reads
  <2>1. /\ n \in 0..LastLine /\ m = n + 1 /\ clean' = clean
        /\ nesting' = Update(nesting, clean, n) /\ LastLine \in Nat /\ IsText(clean, LastLine)
    BY <1>2 DEF Reads
  <2>2. n <= EndOfFile /\ nesting \in NestingStates(AllAsms)
    <3>1. next >= 0
      BY <2>1
    <3> QED BY <2>1, <3>1, TextIsRead DEF ReportsInv, TextInv
  <2>3. IsWellBraced(n + 1) /\ IsWellBraced(n) /\ DirectiveOf(n) \notin Directives
    <3>1. IsWellBraced(n + 1)
      BY <2>1, SameBraces
    <3> QED BY <2>1, <3>1, WellBracedBefore
  <2>4. AreBraced(nesting.stack, n, 0) /\ nesting.stack \in Stacks(AllAsms)
    BY <2>2, <2>3 DEF BlockInv, NestingStates
  <2> DEFINE selected == UpdatePreprocessor(nesting, DirectiveOf(n))
  <2>5. selected = nesting
    <3>1. DirectiveOf(n) \notin Conditionals
      BY <2>3 DEF Directives
    <3> HIDE DEF selected
    <3> QED BY <2>2, <2>3, <3>1, SelectedIs DEF selected
  <2>6. stack = UpdateStack(nesting.stack, clean, n).stack
    BY <2>1, <2>5 DEF Update, DirectiveOf
  <2>7. AreBraced(stack, n, Len(clean.elided[n]))
    BY <2>1, <2>3, <2>4, <2>6, BracedLine
  <2>8. AreBraced(stack, m, 0)
    BY <2>1, <2>7, BracedNext
  <2> QED BY <2>1, <2>8, SameBraces
<1>3. CASE Finishes
  <2>1. next = EndOfFile /\ next' = Done /\ next >= 0 /\ UNCHANGED file
    BY <1>3 DEF Finishes
  <2>2. EndOfFile' = LastLine + 1 /\ next' = LastLine + 2 /\ LastLine \in Nat
    BY <2>1, TextIsRead DEF EndOfFile
  <2>3. ~(next' <= EndOfFile')
    BY <2>2
  <2> QED BY <2>3 DEF BlockInv
<1>4. CASE UNCHANGED vars
  <2>1. UNCHANGED <<clean, file, nesting, next>> /\ EndOfFile' = EndOfFile
    BY <1>4 DEF vars, EndOfFile
  <2> SUFFICES ASSUME NEW m \in Nat, NEW stack, m = next', stack = nesting'.stack, m <= EndOfFile', IsWellBraced(m)'
               PROVE  AreBraced(stack, m, 0)'
    BY DEF BlockInv
  <2>2. IsWellBraced(m)
    BY <2>1, SameBraces
  <2>3. AreBraced(stack, m, 0)
    BY <2>1, <2>2 DEF BlockInv
  <2> QED BY <2>1, <2>3, SameBraces
<1> QED BY <1>1, <1>2, <1>3, <1>4, StepIs

\* The blocks on the stack whose brace was seen are the braces that are open, for every text that
\* is well braced.
THEOREM BlocksAreTheBraces == Spec => []BlocksAreOpenBraces
<1>1. Init => BlockInv
  BY InitRead DEF BlockInv
<1>2. ReportsInv /\ BlockInv => BlocksAreOpenBraces
  <2> SUFFICES ASSUME ReportsInv, BlockInv, next \in 1..EndOfFile, IsWellBraced(next)
               PROVE  Cardinality({i \in DOMAIN nesting.stack : nesting.stack[i].seen})
                        = Cardinality(PlacesIn({OpenBrace}, next)) - Cardinality(PlacesIn({CloseBrace}, next))
    BY Zenon, BraceTokens DEF BlocksAreOpenBraces
  <2>1. next \in Nat /\ next <= EndOfFile
    <3>1. file \in Files
      BY DEF ReportsInv, Inv, FilesInv, Idle
    <3> QED BY <3>1, FilesAssumption DEF EndOfFile
  <2>2. AreBraced(nesting.stack, next, 0)
    BY <2>1 DEF BlockInv
  <2>3. LastLine \in Nat /\ IsText(clean, LastLine) /\ nesting.stack \in Stacks(AllAsms)
    BY <2>1, TextIsRead DEF ReportsInv, TextInv, NestingStates
  <2>4. Cardinality({i \in DOMAIN nesting.stack : nesting.stack[i].seen}) = SeenBlocks(nesting.stack)
    BY <2>2, <2>3, SeenAre DEF AreBraced, Stacks
  <2>5. SeenBlocks(nesting.stack) = BracesAt(next, 0)
    BY <2>2 DEF AreBraced
  <2> QED BY <2>1, <2>3, <2>4, <2>5, BracesBefore
<1> QED BY InitReports, NextReports, NextBlock, <1>1, <1>2, PTL DEF Spec
=============================================================================
