-------------------------- MODULE LintReportProofs --------------------------
(***************************************************************************)
(* For every command line, every tree of directories with their            *)
(* configurations, and every sequence of files of any text: which filters  *)
(* are in force while a file is checked, that the NOLINT comments of the   *)
(* lines read so far are heeded, and that the counts and the exit status   *)
(* say what was printed; and that the lengths of functions, the sections   *)
(* and the lists of includes, of which errors are reported, are what the   *)
(* lines read make of them.                                                *)
(*                                                                         *)
(* Filters, counts and suppressions are one global state of cpplint, which *)
(* Error reads and every check may change by what it reports.  So the      *)
(* proofs go through the checks: what the blocks and the text of a file    *)
(* can be, what errors each check may report of them, and what Error makes *)
(* of those.                                                               *)
(***************************************************************************)
EXTENDS LintClaims, FiniteSetTheorems, SequenceTheorems, WellFoundedInduction, TLAPS

-----------------------------------------------------------------------------
(* Loops. *)

\* What holds at first, and after each step if before it, holds at the end.
LEMMA Steps ==
  ASSUME NEW m \in Int, NEW n \in Int, m <= n, NEW T,
         m \in T, \A i \in (m + 1)..n : i - 1 \in T => i \in T
  PROVE  m..n \subseteq T
<1> DEFINE Rest == {k \in Nat : m + k \in (m..n) \ T}
<1> SUFFICES ASSUME NEW i \in m..n, i \notin T PROVE FALSE
  OBVIOUS
<1>1. i - m \in Rest
  OBVIOUS
<1>2. PICK x \in Rest : \A y \in Rest : ~ (<<y, x>> \in OpToRel(<, Nat))
  BY <1>1, NatLessThanWellFounded, WFMin
<1>3. x \in Nat /\ m + x \in (m + 1)..n /\ (m + x) - 1 \in m..n /\ m + x \notin T /\ x # 0
  <2>1. x \in Nat /\ m + x \in m..n /\ m + x \notin T
    OBVIOUS
  <2>2. x # 0
    BY <2>1
  <2> QED BY <2>1, <2>2
<1>4. x - 1 \in Nat /\ <<x - 1, x>> \in OpToRel(<, Nat)
  BY <1>3 DEF OpToRel
<1>5. (m + x) - 1 \in T
  <2>1. m + (x - 1) = (m + x) - 1
    BY <1>3
  <2> QED BY <1>2, <1>3, <1>4, <2>1
<1> QED BY <1>3, <1>5

\* f is what a loop goes through from base on, its turns being those from m + 1 to n.
Runs(f, m, n, base, turn) ==
  f = [i \in m..n |-> IF i = m THEN base ELSE turn[i][f[i - 1]]]

\* A loop has a run if its turns are defined on what the turns before may leave.
LEMMA LoopRuns ==
  ASSUME NEW m \in Int, NEW n \in Int, m <= n, NEW T, NEW base, base \in T[m], NEW turn,
         \A i \in (m + 1)..n : \A q \in T[i - 1] : turn[i][q] \in T[i]
  PROVE  \E f : Runs(f, m, n, base, turn) /\ \A i \in m..n : f[i] \in T[i]
<1> DEFINE Run(k, f) == Runs(f, m, k, base, turn) /\ \A i \in m..k : f[i] \in T[i]
           Good == {k \in m..n : \E f : Run(k, f)}
<1>1. m \in Good
  <2> DEFINE f == [i \in m..m |-> base]
  <2>1. \A i \in m..m : i = m
    OBVIOUS
  <2>2. Run(m, f)
    BY <2>1 DEF Runs
  <2> HIDE DEF f, Run
  <2> QED BY <2>2
<1>2. ASSUME NEW k \in (m + 1)..n, k - 1 \in Good PROVE k \in Good
  <2>1. PICK f : Run(k - 1, f)
    BY <1>2
  <2> DEFINE g == [i \in m..k |-> IF i = k THEN turn[k][f[k - 1]] ELSE f[i]]
  <2>2. k - 1 \in m..(k - 1) /\ k \in m..k /\ k # m /\ k \in m..n
    OBVIOUS
  <2>3. \A i \in m..(k - 1) : g[i] = f[i] /\ i # k
    OBVIOUS
  <2>4. g[k] = turn[k][g[k - 1]]
    BY <2>2, <2>3
  <2>5. \A i \in m..(k - 1) : g[i] = IF i = m THEN base ELSE turn[i][g[i - 1]]
    <3> SUFFICES ASSUME NEW i \in m..(k - 1)
                 PROVE  g[i] = IF i = m THEN base ELSE turn[i][g[i - 1]]
      OBVIOUS
    <3>1. f[i] = IF i = m THEN base ELSE turn[i][f[i - 1]]
      BY <2>1 DEF Runs
    <3>2. i # m => i - 1 \in m..(k - 1)
      OBVIOUS
    <3> QED BY <3>1, <3>2, <2>3
  <2>6. \A i \in m..k : i = k \/ i \in m..(k - 1)
    OBVIOUS
  <2>7. g = [i \in m..k |-> g[i]]
    OBVIOUS
  <2>8. \A i \in m..k : g[i] \in T[i]
    BY <2>1, <2>2, <2>3, <2>4, <2>6
  <2> HIDE DEF g
  <2>9. \A i \in m..k : g[i] = IF i = m THEN base ELSE turn[i][g[i - 1]]
    BY <2>2, <2>4, <2>5, <2>6
  <2>10. Run(k, g)
    BY <2>7, <2>8, <2>9 DEF Runs
  <2> HIDE DEF Run
  <2> QED BY <2>2, <2>10
<1>3. m..n \subseteq Good
  <2> HIDE DEF Good
  <2> QED BY <1>1, <1>2, Steps
<1>4. n \in Good
  BY <1>3
<1> QED BY <1>4

\* What a run of a loop leaves: what its turns keep.
LEMMA LoopKeeps ==
  ASSUME NEW m \in Int, NEW n \in Int, m <= n, NEW T, NEW f, f[m] \in T[m],
         \A i \in (m + 1)..n : f[i - 1] \in T[i - 1] => f[i] \in T[i]
  PROVE  f[n] \in T[n]
<1> DEFINE Good == {i \in m..n : f[i] \in T[i]}
<1>1. m \in Good /\ \A i \in (m + 1)..n : i - 1 \in Good => i \in Good
  OBVIOUS
<1>2. m..n \subseteq Good
  <2> HIDE DEF Good
  <2> QED BY <1>1, Steps
<1> QED BY <1>2

-----------------------------------------------------------------------------
(* Sequences. *)

Associate(s, t, u) == (s \o t) \o u = s \o (t \o u)
LEMMA AllAssociate ==
  ASSUME NEW S, NEW s \in Seq(S), NEW t \in Seq(S), NEW u \in Seq(S)
  PROVE  Associate(s, t, u)
BY ConcatAssociative DEF Associate

\* Two lists behind each other have the members of both.
LEMMA MembersOfBoth ==
  ASSUME NEW S, NEW s \in Seq(S), NEW T, NEW t \in Seq(T)
  PROVE  ToSet(s \o t) = ToSet(s) \cup ToSet(t)
<1>1. s \in Seq(S \cup T) /\ t \in Seq(S \cup T)
  OBVIOUS
<1>2. /\ Len(s \o t) = Len(s) + Len(t)
      /\ \A i \in 1..Len(s) + Len(t) : (s \o t)[i] = IF i <= Len(s) THEN s[i] ELSE t[i - Len(s)]
  BY <1>1
<1>3. \A i \in 1..Len(s) : i \in 1..Len(s) + Len(t) /\ (s \o t)[i] = s[i]
  BY <1>2
<1>4. \A i \in 1..Len(t) : Len(s) + i \in 1..Len(s) + Len(t) /\ (s \o t)[Len(s) + i] = t[i]
  BY <1>2
<1>5. \A i \in 1..Len(s) + Len(t) : i \in 1..Len(s) \/ i - Len(s) \in 1..Len(t)
  OBVIOUS
<1>6. DOMAIN (s \o t) = 1..Len(s) + Len(t) /\ DOMAIN s = 1..Len(s) /\ DOMAIN t = 1..Len(t)
  BY <1>1, <1>2, ConcatProperties
<1> DEFINE u == s \o t
<1>7. u = s \o t
  OBVIOUS
<1> HIDE DEF u
<1>8. ASSUME NEW i \in DOMAIN u PROVE u[i] \in ToSet(s) \cup ToSet(t)
  <2>1. CASE i \in 1..Len(s)
    BY <1>3, <1>6, <1>7, <2>1 DEF ToSet
  <2>2. CASE i - Len(s) \in 1..Len(t)
    <3>1. i = Len(s) + (i - Len(s))
      BY <1>6, <1>7
    <3>2. u[i] = t[i - Len(s)]
      BY <1>4, <1>7, <2>2, <3>1
    <3> QED BY <1>6, <2>2, <3>2 DEF ToSet
  <2> QED BY <1>5, <1>6, <1>7, <2>1, <2>2
<1>9. (\A i \in DOMAIN s : s[i] \in ToSet(u)) /\ (\A i \in DOMAIN t : t[i] \in ToSet(u))
  BY <1>3, <1>4, <1>6, <1>7 DEF ToSet
<1>10. ToSet(u) = ToSet(s) \cup ToSet(t)
  BY <1>8, <1>9 DEF ToSet
<1> QED BY <1>7, <1>10

\* FlattenSeq puts the lists behind each other, from the first on.
LEMMA FlattenRuns ==
  ASSUME NEW S, NEW lists \in Seq(Seq(S)), lists # <<>>
  PROVE  \E f : /\ \A i \in 1..Len(lists) :
                     f[i] \in Seq(S) /\ f[i] = IF i = 1 THEN lists[i] ELSE f[i - 1] \o lists[i]
                /\ FlattenSeq(lists) = f[Len(lists)]
<1> DEFINE n == Len(lists)
           T == [i \in 1..n |-> Seq(S)]
           base == lists[1]
           turn == [i \in 2..n |-> [b \in Seq(S) |-> b \o lists[i]]]
<1>1. n \in Nat /\ n \in Int /\ 1 \in Int /\ 1 <= n /\ \A i \in 1..n : lists[i] \in Seq(S) /\ T[i] = Seq(S)
  BY EmptySeq
<1>2. \A i \in (1 + 1)..n : i \in 2..n /\ i \in 1..n /\ i - 1 \in 1..n /\ i # 1
  BY <1>1
<1>3. \A i \in (1 + 1)..n : \A b \in T[i - 1] : turn[i][b] = b \o lists[i] /\ turn[i][b] \in T[i]
  BY <1>1, <1>2, ConcatProperties
<1>4. base \in T[1]
  BY <1>1
<1> HIDE DEF T, turn, n, base
<1>5. PICK g : Runs(g, 1, n, base, turn) /\ \A i \in 1..n : g[i] \in T[i]
  <2>1. \A i \in (1 + 1)..n : \A b \in T[i - 1] : turn[i][b] \in T[i]
    BY <1>3
  <2> QED BY ONLY <1>1, <1>4, <2>1, LoopRuns
<1>6. \A i \in 1..n : g[i] \in Seq(S)
  BY <1>1, <1>5
<1>7. g = [i \in 1..n |-> IF i = 1 THEN lists[i] ELSE g[i - 1] \o lists[i]]
  <2>1. \A i \in 1..n : g[i] = IF i = 1 THEN lists[1] ELSE turn[i][g[i - 1]]
    BY <1>5 DEF Runs, base
  <2>2. \A i \in 1..n : i # 1 => i \in (1 + 1)..n
    OBVIOUS
  <2>3. \A i \in 1..n : i # 1 => turn[i][g[i - 1]] = g[i - 1] \o lists[i]
    BY <1>2, <1>3, <1>5, <2>2
  <2>4. g = [i \in 1..n |-> g[i]]
    BY <1>5 DEF Runs
  <2>5. \A i \in 1..n : g[i] = IF i = 1 THEN lists[i] ELSE g[i - 1] \o lists[i]
    BY <2>1, <2>3
  <2> QED BY ONLY <2>4, <2>5
<1> DEFINE f == CHOOSE h : h = [i \in 1..n |-> IF i = 1 THEN lists[i] ELSE h[i - 1] \o lists[i]]
<1>8. f = [i \in 1..n |-> IF i = 1 THEN lists[i] ELSE f[i - 1] \o lists[i]]
  BY <1>7
<1>9. FlattenSeq(lists) = f[n]
  BY <1>1 DEF FlattenSeq, n
<1> HIDE DEF f
<1>10. ASSUME NEW k \in 1..n PROVE f[k] \in Seq(S)
  <2> DEFINE Good == {i \in 1..n : f[i] \in Seq(S)}
  <2>1. 1 \in Good
    BY <1>1, <1>8
  <2>2. ASSUME NEW i \in (1 + 1)..n, i - 1 \in Good PROVE i \in Good
    <3>1. f[i] = f[i - 1] \o lists[i] /\ lists[i] \in Seq(S) /\ f[i - 1] \in Seq(S)
      BY <1>1, <1>2, <1>8, <2>2
    <3>2. f[i - 1] \o lists[i] \in Seq(S)
      BY <3>1, ConcatProperties
    <3> QED BY <1>2, <3>1, <3>2
  <2> HIDE DEF Good
  <2>3. 1..n \subseteq Good
    BY <1>1, <2>1, <2>2, Steps
  <2> QED BY <2>3 DEF Good
<1>11. \A i \in 1..n : f[i] \in Seq(S) /\ f[i] = IF i = 1 THEN lists[i] ELSE f[i - 1] \o lists[i]
  BY <1>8, <1>10
<1> QED BY <1>9, <1>11 DEF n

\* The members of a list of lists are those of its lists.
Listed(lists) == UNION {ToSet(lists[j]) : j \in DOMAIN lists}

LEMMA FlattenMembers ==
  ASSUME NEW S, NEW lists \in Seq(Seq(S)), lists # <<>>
  PROVE  FlattenSeq(lists) \in Seq(S) /\ ToSet(FlattenSeq(lists)) = Listed(lists)
<1> DEFINE n == Len(lists)
           Upto(i) == UNION {ToSet(lists[j]) : j \in 1..i}
           T == [i \in 1..n |-> {s \in Seq(S) : ToSet(s) = Upto(i)}]
<1>1. PICK f : /\ \A i \in 1..n : f[i] \in Seq(S) /\ f[i] = IF i = 1 THEN lists[i] ELSE f[i - 1] \o lists[i]
               /\ FlattenSeq(lists) = f[n]
  BY FlattenRuns
<1>2. n \in Nat /\ n \in Int /\ 1 \in Int /\ 1 <= n /\ DOMAIN lists = 1..n
      /\ \A i \in 1..n : lists[i] \in Seq(S)
  BY EmptySeq
<1>3. f[1] \in T[1]
  <2>1. 1 \in 1..n /\ 1..1 = {1}
    BY <1>2
  <2>2. Upto(1) = ToSet(lists[1])
    BY <2>1
  <2>3. f[1] = lists[1] /\ f[1] \in Seq(S)
    BY <1>1, <2>1
  <2> HIDE DEF Upto, n
  <2> QED BY <2>1, <2>2, <2>3
<1>4. \A i \in (1 + 1)..n : f[i - 1] \in T[i - 1] => f[i] \in T[i]
  <2> SUFFICES ASSUME NEW i \in (1 + 1)..n, f[i - 1] \in T[i - 1] PROVE f[i] \in T[i]
    OBVIOUS
  <2>1. i \in 1..n /\ i # 1 /\ i - 1 \in 1..n /\ 1..i = 1..(i - 1) \cup {i}
    BY <1>2
  <2>2. f[i] = f[i - 1] \o lists[i] /\ f[i] \in Seq(S) /\ lists[i] \in Seq(S)
    BY <1>1, <1>2, <2>1
  <2>3. Upto(i) = Upto(i - 1) \cup ToSet(lists[i])
    BY <2>1
  <2> HIDE DEF Upto, n
  <2>4. f[i - 1] \in Seq(S) /\ ToSet(f[i - 1]) = Upto(i - 1)
    BY <2>1
  <2>5. ToSet(f[i - 1] \o lists[i]) = Upto(i)
    BY <2>2, <2>3, <2>4, MembersOfBoth
  <2> QED BY <2>1, <2>2, <2>5
<1>5. f[n] \in T[n] /\ n \in 1..n
  <2>1. n \in 1..n
    BY <1>2
  <2> HIDE DEF n, T
  <2> QED BY ONLY <1>2, <1>3, <1>4, <2>1, LoopKeeps
<1>6. Upto(n) = Listed(lists)
  BY <1>2 DEF Listed
<1> HIDE DEF n, Upto
<1> QED BY <1>1, <1>5, <1>6

LEMMA FlattenEmpty == FlattenSeq(<<>>) = <<>>
BY DEF FlattenSeq

\* A list put before the others is before all that is in them.
LEMMA FlattenPrepend ==
  ASSUME NEW S, NEW lists \in Seq(Seq(S)), NEW first \in Seq(S)
  PROVE  /\ FlattenSeq(lists) \in Seq(S)
         /\ <<first>> \o lists \in Seq(Seq(S))
         /\ FlattenSeq(<<first>> \o lists) = first \o FlattenSeq(lists)
<1> DEFINE longer == <<first>> \o lists
           n == Len(lists)
<1>1. /\ n \in Nat /\ n \in Int /\ 1 \in Int /\ longer \in Seq(Seq(S)) /\ Len(longer) = n + 1 /\ longer # <<>>
      /\ longer[1] = first /\ \A i \in 1..n : longer[i + 1] = lists[i] /\ lists[i] \in Seq(S)
  OBVIOUS
<1> HIDE DEF longer
<1>2. PICK g : /\ \A i \in 1..Len(longer) :
                    g[i] \in Seq(S) /\ g[i] = IF i = 1 THEN longer[i] ELSE g[i - 1] \o longer[i]
               /\ FlattenSeq(longer) = g[Len(longer)]
  BY <1>1, FlattenRuns
<1>3. CASE lists = <<>>
  <2>1. FlattenSeq(longer) = first
    BY <1>1, <1>2, <1>3
  <2> QED BY <1>1, <1>3, <2>1, FlattenEmpty, ConcatEmptySeq, EmptySeq DEF longer
<1>4. CASE lists # <<>>
  <2>1. PICK f : /\ \A i \in 1..Len(lists) :
                      f[i] \in Seq(S) /\ f[i] = IF i = 1 THEN lists[i] ELSE f[i - 1] \o lists[i]
                 /\ FlattenSeq(lists) = f[Len(lists)]
    BY <1>4, FlattenRuns
  <2>2. 1 <= n /\ n \in 1..n /\ n + 1 \in 1..Len(longer)
    BY <1>1, <1>4
  <2> DEFINE Good == {i \in 1..n : g[i + 1] = first \o f[i]}
  <2>3. 1 \in Good
    <3>1. 1 \in 1..Len(longer) /\ 2 \in 1..Len(longer) /\ 1 \in 1..n
      BY <1>1, <2>2
    <3>2. g[1] = longer[1]
      BY <1>2, <3>1
    <3>3. g[2] = g[1] \o longer[2]
      <4>1. g[2] = IF 2 = 1 THEN longer[2] ELSE g[2 - 1] \o longer[2]
        BY <1>2, <3>1, Zenon
      <4> QED BY <4>1
    <3>4. longer[1] = first /\ longer[2] = lists[1]
      <4>1. longer[1 + 1] = lists[1]
        BY <1>1, <3>1
      <4> QED BY <1>1, <4>1
    <3>5. f[1] = lists[1]
      BY <2>1, <3>1
    <3>6. g[1 + 1] = first \o f[1]
      <4>1. g[2] = first \o f[1]
        BY <3>2, <3>3, <3>4, <3>5, Zenon
      <4> QED BY <4>1
    <3> QED BY <3>1, <3>6
  <2>4. ASSUME NEW i \in (1 + 1)..n, i - 1 \in Good PROVE i \in Good
    <3>1. i \in 1..n /\ i - 1 \in 1..n /\ i + 1 \in 1..Len(longer) /\ i + 1 # 1 /\ i # 1
          /\ (i + 1) - 1 = i /\ (i - 1) + 1 = i
      <4>1. n \in Nat /\ Len(longer) = n + 1
        BY <1>1
      <4> HIDE DEF n, longer
      <4> QED BY <2>4, <4>1
    <3>2. g[i + 1] = g[i] \o lists[i]
      BY <1>1, <1>2, <3>1
    <3>3. f[i] = f[i - 1] \o lists[i] /\ f[i - 1] \in Seq(S) /\ lists[i] \in Seq(S)
      BY <1>1, <2>1, <3>1
    <3>4. g[i] = first \o f[i - 1]
      BY <2>4, <3>1
    <3>5. (first \o f[i - 1]) \o lists[i] = first \o (f[i - 1] \o lists[i])
      <4>1. Associate(first, f[i - 1], lists[i])
        BY <3>3, AllAssociate, Zenon
      <4> QED BY <4>1 DEF Associate
    <3> QED BY <3>1, <3>2, <3>3, <3>4, <3>5
  <2>5. 1..n \subseteq Good
    <3> HIDE DEF Good, n
    <3> QED BY <1>1, <2>2, <2>3, <2>4, Steps
  <2>6. g[n + 1] = first \o f[n]
    BY <2>2, <2>5
  <2>7. FlattenSeq(longer) = first \o FlattenSeq(lists)
    BY <1>1, <1>2, <2>1, <2>6
  <2> QED BY <1>1, <2>1, <2>2, <2>7 DEF longer
<1> QED BY <1>3, <1>4

-----------------------------------------------------------------------------
(* Filters. *)

FilterList == Seq(FilterRecord \cup {DefaultFilters[1]})

\* The last filter that matches decides.
LEMMA LastMatch ==
  ASSUME NEW q \in FilterList, NEW category, Matching(q, category) # {}
  PROVE  \E i \in Matching(q, category) :
           /\ \A j \in Matching(q, category) : j <= i
           /\ Filtered(q, category) <=> q[i].sign = "-"
<1> DEFINE M == Matching(q, category)
           n == Len(q)
           Good == {k \in 0..n : M \cap 1..k # {} =>
                                   \E i \in M \cap 1..k : \A j \in M \cap 1..k : j <= i}
<1>1. n \in Nat /\ M \subseteq 1..n
  BY DEF FilterList, Matching
<1>2. 0 \in Good
  <2>1. 1..0 = {} /\ 0 \in 0..n
    BY <1>1
  <2> QED BY <2>1
<1>3. ASSUME NEW k \in (0 + 1)..n, k - 1 \in Good PROVE k \in Good
  <2>1. k \in 0..n /\ 1..k = 1..(k - 1) \cup {k} /\ \A j \in 1..k : j <= k
    BY <1>1
  <2>2. CASE k \in M
    BY <2>1, <2>2
  <2>3. CASE k \notin M
    <3>1. M \cap 1..k = M \cap 1..(k - 1)
      BY <2>1, <2>3
    <3> QED BY <1>3, <2>1, <3>1
  <2> QED BY <2>2, <2>3
<1>4. n \in Good
  <2> HIDE DEF Good, M, n
  <2>1. 0..n \subseteq Good
    BY <1>1, <1>2, <1>3, Steps
  <2> QED BY <1>1, <2>1
<1>5. M \cap 1..n = M
  BY <1>1
<1>6. PICK i \in M : \A j \in M : j <= i
  BY <1>4, <1>5
<1> DEFINE last == CHOOSE x \in M : \A j \in M : j <= x
<1>7. last \in M /\ \A j \in M : j <= last
  BY <1>6
<1>8. Filtered(q, category) <=> q[last].sign = "-"
  BY DEF Filtered
<1> QED BY <1>7, <1>8

\* The last match of a list is the one it has, whichever way it is found.
LEMMA LastDecides ==
  ASSUME NEW q \in FilterList, NEW category, NEW i \in Matching(q, category),
         \A j \in Matching(q, category) : j <= i
  PROVE  Filtered(q, category) <=> q[i].sign = "-"
<1>1. PICK k \in Matching(q, category) :
        /\ \A j \in Matching(q, category) : j <= k
        /\ Filtered(q, category) <=> q[k].sign = "-"
  BY LastMatch
<1>2. i \in Int /\ k \in Int
  BY DEF FilterList, Matching
<1>3. i = k
  BY <1>1, <1>2
<1> QED BY <1>1, <1>3

\* Of two lists the second decides if it says something, or else the first.
LEMMA ConcatDecides ==
  ASSUME NEW q \in FilterList, NEW r \in FilterList, NEW category
  PROVE  /\ q \o r \in FilterList
         /\ Matching(q \o r, category) = {} <=>
              Matching(q, category) = {} /\ Matching(r, category) = {}
         /\ Filtered(q \o r, category) <=>
              IF Matching(r, category) # {} THEN Filtered(r, category) ELSE Filtered(q, category)
<1> DEFINE m == Len(q)
           n == Len(r)
           M(s) == Matching(s, category)
<1>1. /\ m \in Nat /\ n \in Nat /\ q \o r \in FilterList /\ Len(q \o r) = m + n
      /\ \A i \in 1..m : (q \o r)[i] = q[i]
      /\ \A i \in 1..n : (q \o r)[m + i] = r[i]
  BY DEF FilterList
<1>2. \A i \in 1..m : i \in M(q \o r) <=> i \in M(q)
  BY <1>1 DEF Matching, FilterList
<1>3. \A i \in 1..n : m + i \in M(q \o r) <=> i \in M(r)
  BY <1>1 DEF Matching, FilterList
<1>4. \A j \in M(q \o r) : j \in 1..m \/ (j - m \in 1..n /\ j = m + (j - m))
  BY <1>1 DEF Matching, FilterList
<1>5. M(q) \subseteq 1..m /\ M(r) \subseteq 1..n
  BY DEF Matching, FilterList
<1>6. M(q \o r) = {} <=> M(q) = {} /\ M(r) = {}
  <2> HIDE DEF M, m, n
  <2> QED BY <1>2, <1>3, <1>4, <1>5
<1>7. CASE M(r) # {}
  <2>1. PICK i \in M(r) : (\A j \in M(r) : j <= i) /\ (Filtered(r, category) <=> r[i].sign = "-")
    BY <1>7, LastMatch
  <2>2. m + i \in M(q \o r) /\ (q \o r)[m + i] = r[i] /\ i \in 1..n
    BY <1>1, <1>3, <1>5
  <2>3. \A j \in M(q \o r) : j <= m + i
    <3> HIDE DEF M, m, n
    <3>1. ASSUME NEW j \in M(q \o r) PROVE j <= m + i
      <4>1. CASE j \in 1..m
        BY <1>1, <2>2, <4>1
      <4>2. CASE j - m \in 1..n /\ j = m + (j - m)
        <5>1. j - m \in M(r)
          BY <1>3, <3>1, <4>2
        <5>2. j - m <= i
          BY <2>1, <5>1
        <5> QED BY <1>1, <2>2, <4>2, <5>2
      <4> QED BY <1>4, <4>1, <4>2
    <3> QED BY <3>1
  <2>4. Filtered(q \o r, category) <=> (q \o r)[m + i].sign = "-"
    BY <1>1, <2>2, <2>3, LastDecides
  <2> QED BY <1>1, <1>6, <1>7, <2>1, <2>2, <2>4
<1>8. CASE M(r) = {} /\ M(q) # {}
  <2>1. PICK i \in M(q) : (\A j \in M(q) : j <= i) /\ (Filtered(q, category) <=> q[i].sign = "-")
    BY <1>8, LastMatch
  <2>2. i \in M(q \o r) /\ (q \o r)[i] = q[i]
    BY <1>1, <1>2, <1>5
  <2>3. \A j \in M(q \o r) : j <= i
    BY <1>2, <1>3, <1>4, <1>8, <2>1
  <2>4. Filtered(q \o r, category) <=> (q \o r)[i].sign = "-"
    BY <1>1, <2>2, <2>3, LastDecides
  <2> QED BY <1>1, <1>6, <1>8, <2>1, <2>2, <2>4
<1>9. CASE M(r) = {} /\ M(q) = {}
  BY <1>1, <1>6, <1>9 DEF Filtered
<1> QED BY <1>7, <1>8, <1>9

-----------------------------------------------------------------------------
(* The configuration of the directories of the file. *)

OptionAt(v) == ConfigAt(v[1]).options[v[2]]
Before(v, w) == v[1] < w[1] \/ (v[1] = w[1] /\ v[2] <= w[2])

LineLengths(lineLength) ==
  {lineLength} \cup
    UNION {{CHOOSE n \in Config[dir].options[i].number : TRUE : i \in DOMAIN Config[dir].options}
           : dir \in DOMAIN Config}
OverrideRecords(lineLength) ==
  [look : BOOLEAN, filters : Seq(FilterList), lineLength : LineLengths(lineLength),
   excluded : BOOLEAN]

\* The filters say of a category what the first of the places says.
SaidBy(filters, places, category) ==
  /\ places = {} => Matching(filters, category) = {}
  /\ places # {} =>
       \E first \in places :
         /\ \A w \in places : Before(first, w)
         /\ Matching(filters, category) # {}
         /\ Filtered(filters, category) <=> Filtered(OptionAt(first).filters, category)

\* What cpplint has when it comes to an option of a directory it is to look at.
LooksBelow(k) == \A j \in Configured : j < k => ~EndsSearch(j)
HeardBelow(category, k) == {v \in Speaking(category) : v[1] < k}
HeardUpTo(category, k, i) == {v \in Speaking(category) : v[1] < k \/ (v[1] = k /\ v[2] <= i)}
NoParentUpTo(k, i) == \E j \in 1..i : OptionAt(<<k, j>>).name = "noparent"

AfterDirectories(category, lineLength, k) ==
  {o \in OverrideRecords(lineLength) :
     ~o.excluded =>
       /\ o.look <=> LooksBelow(k)
       /\ SaidBy(FlattenSeq(o.filters), HeardBelow(category, k), category)}
AfterOptions(category, lineLength, k, i) ==
  {o \in OverrideRecords(lineLength) :
     ~o.excluded =>
       /\ o.look <=> LooksBelow(k) /\ ~NoParentUpTo(k, i)
       /\ SaidBy(FlattenSeq(o.filters), HeardUpTo(category, k, i), category)}

\* The places are in directories that are looked at, at options that are there.
LEMMA SpeakingAre ==
  ASSUME NEW category, file \in Files
  PROVE  \A v \in Speaking(category) :
           /\ v[1] \in Consulted /\ v[1] \in Configured /\ v[1] \in Int /\ v[1] >= 0
           /\ v[2] \in DOMAIN ConfigAt(v[1]).options /\ v[2] \in Int /\ v[2] >= 1
           /\ v = <<v[1], v[2]>>
           /\ OptionAt(v).name = "filter" /\ OptionAt(v).filters \in FilterList
           /\ Matching(OptionAt(v).filters, category) # {}
<1> SUFFICES ASSUME NEW v \in Speaking(category)
             PROVE  /\ v[1] \in Consulted /\ v[1] \in Configured /\ v[1] \in Int /\ v[1] >= 0
                    /\ v[2] \in DOMAIN ConfigAt(v[1]).options /\ v[2] \in Int /\ v[2] >= 1
                    /\ v = <<v[1], v[2]>>
                    /\ OptionAt(v).name = "filter" /\ OptionAt(v).filters \in FilterList
                    /\ Matching(OptionAt(v).filters, category) # {}
  OBVIOUS
<1>1. PICK k \in Consulted : v \in {k} \X DOMAIN ConfigAt(k).options
  BY DEF Speaking
<1>2. v = <<k, v[2]>> /\ v[1] = k /\ v[2] \in DOMAIN ConfigAt(k).options
  BY <1>1
<1>3. k \in Configured /\ Len(file.path.dir) \in Nat /\ k \in 0..Len(file.path.dir)
  BY FilesAssumption DEF Consulted, Configured
<1>4. OptionAt(v).name = "filter" /\ Matching(OptionAt(v).filters, category) # {}
  BY DEF Speaking, OptionAt
<1>5. /\ DOMAIN ConfigAt(k).options = 1..Len(ConfigAt(k).options)
      /\ Len(ConfigAt(k).options) \in Nat
      /\ \A i \in DOMAIN ConfigAt(k).options :
           ConfigAt(k).options[i].name = "filter" => ConfigAt(k).options[i].filters \in FilterList
  BY <1>3, ConfigAssumption DEF Configured, ConfigAt, FilterList
<1> QED BY <1>1, <1>2, <1>3, <1>4, <1>5 DEF OptionAt

\* Filters put before the others count where the others say nothing.
LEMMA PrependSaid ==
  ASSUME NEW category, NEW lists \in Seq(FilterList), NEW places, NEW v,
         SaidBy(FlattenSeq(lists), places, category),
         OptionAt(v).filters \in FilterList,
         Matching(OptionAt(v).filters, category) # {},
         Before(v, v), \A w \in places : Before(w, v)
  PROVE  SaidBy(FlattenSeq(<<OptionAt(v).filters>> \o lists), places \cup {v}, category)
<1> DEFINE q == OptionAt(v).filters
           r == FlattenSeq(lists)
<1>1. FlattenSeq(<<q>> \o lists) = q \o r /\ r \in FilterList
  BY FlattenPrepend DEF FilterList
<1> HIDE DEF q, r
<1>2. /\ Matching(q \o r, category) # {}
      /\ Filtered(q \o r, category) <=>
              IF Matching(r, category) # {} THEN Filtered(r, category) ELSE Filtered(q, category)
  BY <1>1, ConcatDecides DEF q
<1>3. CASE places = {}
  <2>1. Matching(r, category) = {}
    BY <1>3 DEF SaidBy, r
  <2>2. SaidBy(q \o r, {v}, category)
    BY <1>2, <2>1 DEF SaidBy, q
  <2>3. places \cup {v} = {v}
    BY <1>3
  <2> QED BY <1>1, <2>2, <2>3 DEF q
<1>4. CASE places # {}
  <2>1. PICK first \in places :
          /\ \A w \in places : Before(first, w)
          /\ Matching(r, category) # {}
          /\ Filtered(r, category) <=> Filtered(OptionAt(first).filters, category)
    BY <1>4 DEF SaidBy, r
  <2>2. SaidBy(q \o r, places \cup {v}, category)
    BY <1>2, <2>1 DEF SaidBy
  <2> QED BY <1>1, <2>2 DEF q
<1> QED BY <1>3, <1>4

\* Filters that say nothing change nothing.
LEMMA PrependSilent ==
  ASSUME NEW category, NEW lists \in Seq(FilterList), NEW places, NEW q \in FilterList,
         SaidBy(FlattenSeq(lists), places, category), Matching(q, category) = {}
  PROVE  SaidBy(FlattenSeq(<<q>> \o lists), places, category)
<1> DEFINE r == FlattenSeq(lists)
<1>1. FlattenSeq(<<q>> \o lists) = q \o r /\ r \in FilterList
  BY FlattenPrepend DEF FilterList
<1> HIDE DEF r
<1>2. /\ Matching(q \o r, category) = {} <=> Matching(r, category) = {}
      /\ Matching(r, category) # {} => (Filtered(q \o r, category) <=> Filtered(r, category))
  BY <1>1, ConcatDecides
<1>3. SaidBy(r, places, category)
  BY DEF r
<1>4. SaidBy(q \o r, places, category)
  BY <1>2, <1>3 DEF SaidBy
<1> QED BY <1>1, <1>4

\* What is heard of an option.
LEMMA HeardNext ==
  ASSUME NEW category, file \in Files, NEW k \in Consulted, NEW i \in Nat, i >= 1,
         i \in DOMAIN ConfigAt(k).options
  PROVE  LET option == OptionAt(<<k, i>>)
             speaks == option.name = "filter" /\ Matching(option.filters, category) # {}
         IN /\ HeardUpTo(category, k, i)
                 = HeardUpTo(category, k, i - 1) \cup (IF speaks THEN {<<k, i>>} ELSE {})
            /\ \A w \in HeardUpTo(category, k, i - 1) : Before(w, <<k, i>>)
            /\ NoParentUpTo(k, i) <=> NoParentUpTo(k, i - 1) \/ option.name = "noparent"
<1> DEFINE option == OptionAt(<<k, i>>)
           speaks == option.name = "filter" /\ Matching(option.filters, category) # {}
<1>1. <<k, i>> \in Speaking(category) <=> speaks
  BY DEF Speaking, OptionAt
<1>2. k \in Int /\ i - 1 \in Int
  BY FilesAssumption DEF Consulted, Configured
<1>3. \A v \in Speaking(category) :
        /\ v[1] \in Int /\ v[2] \in Int /\ v = <<v[1], v[2]>>
        /\ v[2] <= i <=> v[2] <= i - 1 \/ v[2] = i
        /\ v[2] <= i - 1 => v[2] <= i
  BY SpeakingAre
<1> HIDE DEF speaks, option
<1>4. ASSUME NEW v \in Speaking(category)
      PROVE  v \in HeardUpTo(category, k, i) <=> v \in HeardUpTo(category, k, i - 1) \/ v = <<k, i>>
  BY <1>2, <1>3 DEF HeardUpTo
<1>5. HeardUpTo(category, k, i)
        = HeardUpTo(category, k, i - 1) \cup (IF speaks THEN {<<k, i>>} ELSE {})
  BY <1>1, <1>4 DEF HeardUpTo
<1>6. \A w \in HeardUpTo(category, k, i - 1) : Before(w, <<k, i>>)
  BY <1>2, <1>3 DEF HeardUpTo, Before
<1>7. 1..i = 1..(i - 1) \cup {i}
  OBVIOUS
<1>8. NoParentUpTo(k, i) <=> NoParentUpTo(k, i - 1) \/ option.name = "noparent"
  BY <1>7 DEF NoParentUpTo, option
<1> QED BY <1>5, <1>6, <1>8 DEF option, speaks

LEMMA OptionTurn ==
  ASSUME NEW category, NEW lineLength, NEW name, file \in Files, NEW k \in Consulted,
         NEW i \in Nat, i >= 1, i \in DOMAIN ConfigAt(k).options,
         NEW o \in AfterOptions(category, lineLength, k, i - 1)
  PROVE  Override(o, ConfigAt(k).options[i], name) \in AfterOptions(category, lineLength, k, i)
<1> DEFINE option == OptionAt(<<k, i>>)
           result == Override(o, option, name)
           places == HeardUpTo(category, k, i - 1)
           speaks == option.name = "filter" /\ Matching(option.filters, category) # {}
<1>1. /\ HeardUpTo(category, k, i) = places \cup (IF speaks THEN {<<k, i>>} ELSE {})
      /\ \A w \in places : Before(w, <<k, i>>)
      /\ NoParentUpTo(k, i) <=> NoParentUpTo(k, i - 1) \/ option.name = "noparent"
  BY HeardNext
<1>2. ConfigAt(k).options[i] = option
  BY DEF OptionAt
<1>3. /\ o \in OverrideRecords(lineLength)
      /\ ~o.excluded =>
           /\ o.look <=> LooksBelow(k) /\ ~NoParentUpTo(k, i - 1)
           /\ SaidBy(FlattenSeq(o.filters), places, category)
  BY DEF AfterOptions
<1>4. /\ o = [look |-> o.look, filters |-> o.filters, lineLength |-> o.lineLength,
              excluded |-> o.excluded]
      /\ o.look \in BOOLEAN /\ o.excluded \in BOOLEAN /\ o.filters \in Seq(FilterList)
      /\ o.lineLength \in LineLengths(lineLength)
  BY <1>3 DEF OverrideRecords
<1> SUFFICES result \in AfterOptions(category, lineLength, k, i)
  BY <1>2
<1>5. CASE o.excluded
  BY <1>3, <1>5 DEF Override, AfterOptions
<1>6. CASE ~o.excluded /\ option.name = "noparent"
  <2>1. result = [o EXCEPT !.look = FALSE]
    BY <1>6 DEF Override
  <2>2. result \in OverrideRecords(lineLength) /\ ~result.look /\ result.filters = o.filters
    BY <1>4, <2>1 DEF OverrideRecords
  <2>3. HeardUpTo(category, k, i) = places
    BY <1>1, <1>6
  <2> QED BY <1>1, <1>3, <1>6, <2>2, <2>3 DEF AfterOptions
<1>7. CASE ~o.excluded /\ option.name = "filter"
  <2>1. option.filters \in FilterList
    BY <1>7, ConfigAssumption DEF OptionAt, ConfigAt, Consulted, Configured, FilterList
  <2>2. result = [o EXCEPT !.filters = <<option.filters>> \o o.filters]
    BY <1>7 DEF Override
  <2>3. <<option.filters>> \o o.filters \in Seq(FilterList)
    BY <1>4, <2>1, FlattenPrepend DEF FilterList
  <2>4. /\ result \in OverrideRecords(lineLength) /\ result.look = o.look
        /\ result.filters = <<option.filters>> \o o.filters
    BY <1>4, <2>2, <2>3 DEF OverrideRecords
  <2>5. SaidBy(FlattenSeq(<<option.filters>> \o o.filters), HeardUpTo(category, k, i), category)
    <3>1. SaidBy(FlattenSeq(o.filters), places, category)
      BY <1>3, <1>7
    <3>2. CASE speaks
      <4>1. Before(<<k, i>>, <<k, i>>)
        BY DEF Before
      <4> HIDE DEF places
      <4>2. SaidBy(FlattenSeq(<<option.filters>> \o o.filters), places \cup {<<k, i>>}, category)
        BY <1>1, <1>4, <2>1, <3>1, <3>2, <4>1, PrependSaid
      <4> QED BY <1>1, <3>2, <4>2
    <3>3. CASE ~speaks
      <4>1. Matching(option.filters, category) = {}
        BY <1>7, <3>3
      <4>2. SaidBy(FlattenSeq(<<option.filters>> \o o.filters), places, category)
        BY <1>4, <2>1, <3>1, <4>1, PrependSilent
      <4> QED BY <1>1, <3>3, <4>2
    <3> QED BY <3>2, <3>3
  <2> QED BY <1>1, <1>3, <1>7, <2>4, <2>5 DEF AfterOptions
<1>8. CASE ~o.excluded /\ option.name \notin {"noparent", "filter"}
  <2>1. result.filters = o.filters /\ result.look = o.look /\ result \in OverrideRecords(lineLength)
    <3>1. CASE option.name = "exclude_files"
      <4>1. result = [o EXCEPT !.excluded = name \in option.names]
        BY <1>8, <3>1 DEF Override
      <4> DEFINE excluded == name \in option.names
      <4>2. excluded \in BOOLEAN
        OBVIOUS
      <4> HIDE DEF excluded
      <4>3. result = [o EXCEPT !.excluded = excluded]
        BY <4>1 DEF excluded
      <4> QED BY <1>4, <4>2, <4>3 DEF OverrideRecords
    <3>2. CASE option.name = "linelength" /\ option.number # {}
      <4>1. result = [o EXCEPT !.lineLength = CHOOSE n \in option.number : TRUE]
        BY <1>8, <3>2 DEF Override
      <4>2. (CHOOSE n \in option.number : TRUE) \in LineLengths(lineLength)
        BY DEF LineLengths, OptionAt, ConfigAt, Consulted, Configured
      <4> QED BY <1>4, <4>1, <4>2 DEF OverrideRecords
    <3>3. CASE option.name # "exclude_files" /\ ~(option.name = "linelength" /\ option.number # {})
      BY <1>3, <1>8, <3>3 DEF Override
    <3> QED BY <3>1, <3>2, <3>3
  <2>2. HeardUpTo(category, k, i) = places
    BY <1>1, <1>8
  <2> QED BY <1>1, <1>3, <1>8, <2>1, <2>2 DEF AfterOptions
<1> QED BY <1>4, <1>5, <1>6, <1>7, <1>8

\* The options of a directory, one after the other.
LEMMA OptionsRun ==
  ASSUME NEW category, NEW lineLength, NEW name, file \in Files, NEW k \in Consulted,
         NEW o \in AfterOptions(category, lineLength, k, 0)
  PROVE  OptionsApplied(o, ConfigAt(k).options, name)
           \in AfterOptions(category, lineLength, k, Len(ConfigAt(k).options))
<1> DEFINE options == ConfigAt(k).options
           n == Len(options)
           T == [i \in 0..n |-> AfterOptions(category, lineLength, k, i)]
           turn == [i \in 1..n |-> [b \in T[i - 1] |-> Override(b, options[i], name)]]
<1>1. n \in Nat /\ n \in Int /\ 0 \in Int /\ 0 <= n /\ DOMAIN options = 1..n
  BY ConfigAssumption DEF ConfigAt, Consulted, Configured
<1>2. \A i \in (0 + 1)..n : /\ i \in 1..n /\ i \in 0..n /\ i - 1 \in 0..n /\ i # 0
                            /\ i \in Nat /\ i >= 1 /\ i \in DOMAIN options
  BY <1>1
<1>3. ASSUME NEW i \in (0 + 1)..n, NEW b \in T[i - 1] PROVE Override(b, options[i], name) \in T[i]
  <2>1. b \in AfterOptions(category, lineLength, k, i - 1)
    BY <1>2
  <2>2. Override(b, options[i], name) \in AfterOptions(category, lineLength, k, i)
    BY <1>2, <2>1, OptionTurn
  <2> QED BY <1>2, <2>2
<1>4. \A i \in (0 + 1)..n : \A b \in T[i - 1] :
        turn[i][b] = Override(b, options[i], name) /\ turn[i][b] \in T[i]
  <2> HIDE DEF T, n, options
  <2> QED BY <1>2, <1>3
<1>5. o \in T[0] /\ 0 \in 0..n /\ n \in 0..n
  BY <1>1
<1>6. T[n] = AfterOptions(category, lineLength, k, n)
  BY <1>5
<1> HIDE DEF T, turn, n, options
<1>7. PICK g : Runs(g, 0, n, o, turn) /\ \A i \in 0..n : g[i] \in T[i]
  <2>1. \A i \in (0 + 1)..n : \A b \in T[i - 1] : turn[i][b] \in T[i]
    BY <1>4
  <2>2. 0 \in Int /\ n \in Int /\ 0 <= n
    BY <1>1
  <2> QED BY ONLY <1>1, <1>5, <2>1, <2>2, LoopRuns
<1>8. g = [i \in 0..n |-> IF i = 0 THEN o ELSE Override(g[i - 1], options[i], name)]
  <2>1. \A i \in 0..n : g[i] = IF i = 0 THEN o ELSE turn[i][g[i - 1]]
    BY <1>7 DEF Runs
  <2>2. \A i \in 0..n : i # 0 => i \in (0 + 1)..n
    OBVIOUS
  <2>3. \A i \in 0..n : i # 0 => turn[i][g[i - 1]] = Override(g[i - 1], options[i], name)
    BY <1>2, <1>4, <1>7, <2>2
  <2>4. g = [i \in 0..n |-> g[i]]
    BY <1>7 DEF Runs
  <2> QED BY <2>1, <2>3, <2>4
<1> DEFINE f == CHOOSE h : h = [i \in 0..n |-> IF i = 0 THEN o
                                               ELSE Override(h[i - 1], options[i], name)]
<1>9. f = [i \in 0..n |-> IF i = 0 THEN o ELSE Override(f[i - 1], options[i], name)]
  BY <1>8
<1>10. OptionsApplied(o, options, name) = f[n]
  BY DEF OptionsApplied, n
<1> HIDE DEF f
<1>11. f[n] \in T[n]
  <2>1. f[0] \in T[0]
    BY <1>5, <1>9
  <2>2. ASSUME NEW i \in (0 + 1)..n, f[i - 1] \in T[i - 1] PROVE f[i] \in T[i]
    <3>1. f[i] = Override(f[i - 1], options[i], name)
      BY <1>2, <1>9, Zenon
    <3> QED BY <1>3, <2>2, <3>1
  <2> QED BY <1>1, <2>1, <2>2, LoopKeeps
<1> QED BY <1>6, <1>10, <1>11 DEF n, options

\* What is heard of a directory.
LEMMA HeardBelowNext ==
  ASSUME NEW category, file \in Files, NEW k \in 0..Len(file.path.dir)
  PROVE  /\ k \notin Consulted => HeardBelow(category, k + 1) = HeardBelow(category, k)
         /\ k \in Consulted =>
              /\ HeardUpTo(category, k, 0) = HeardBelow(category, k)
              /\ HeardUpTo(category, k, Len(ConfigAt(k).options)) = HeardBelow(category, k + 1)
         /\ LooksBelow(k + 1) <=> LooksBelow(k) /\ (k \in Configured => ~EndsSearch(k))
<1>1. k \in Int /\ Len(file.path.dir) \in Nat /\ Configured \subseteq 0..Len(file.path.dir)
  BY FilesAssumption DEF Configured
<1>2. \A v \in Speaking(category) :
        /\ v[1] \in Consulted /\ v[1] \in Int /\ v[2] \in DOMAIN ConfigAt(v[1]).options
        /\ v[2] \in Int /\ v[2] >= 1
  BY SpeakingAre
<1>3. k \notin Consulted => HeardBelow(category, k + 1) = HeardBelow(category, k)
  <2>1. \A v \in Speaking(category) : v[1] < k + 1 <=> v[1] < k \/ v[1] = k
    BY <1>1, <1>2
  <2> QED BY <1>2, <2>1 DEF HeardBelow
<1>4. ASSUME k \in Consulted PROVE HeardUpTo(category, k, 0) = HeardBelow(category, k)
  BY <1>2 DEF HeardUpTo, HeardBelow
<1>5. ASSUME k \in Consulted
      PROVE  HeardUpTo(category, k, Len(ConfigAt(k).options)) = HeardBelow(category, k + 1)
  <2>1. DOMAIN ConfigAt(k).options = 1..Len(ConfigAt(k).options)
    BY <1>5, ConfigAssumption DEF ConfigAt, Consulted, Configured
  <2>2. \A v \in Speaking(category) :
          v[1] < k + 1 <=> v[1] < k \/ (v[1] = k /\ v[2] <= Len(ConfigAt(k).options))
    BY <1>1, <1>2, <2>1
  <2> QED BY <2>2 DEF HeardUpTo, HeardBelow
<1>6. LooksBelow(k + 1) <=> LooksBelow(k) /\ (k \in Configured => ~EndsSearch(k))
  <2>1. \A j \in Configured : j < k + 1 <=> j < k \/ j = k
    BY <1>1
  <2> QED BY <2>1 DEF LooksBelow
<1> QED BY <1>3, <1>4, <1>5, <1>6

\* One directory more: it is read if cpplint is to look at it, and only then.
LEMMA DirectoryTurn ==
  ASSUME NEW category, NEW lineLength, file \in Files, NEW k \in 0..Len(file.path.dir),
         NEW o \in AfterDirectories(category, lineLength, k)
  PROVE  ReadConfig(o, file, k) \in AfterDirectories(category, lineLength, k + 1)
<1> DEFINE result == ReadConfig(o, file, k)
           dir == DirectoryAbove(file, k)
<1>1. /\ o \in OverrideRecords(lineLength)
      /\ ~o.excluded =>
           /\ o.look <=> LooksBelow(k)
           /\ SaidBy(FlattenSeq(o.filters), HeardBelow(category, k), category)
  BY DEF AfterDirectories
<1>2. /\ o = [look |-> o.look, filters |-> o.filters, lineLength |-> o.lineLength,
              excluded |-> o.excluded]
      /\ o.look \in BOOLEAN /\ o.excluded \in BOOLEAN /\ o.filters \in Seq(FilterList)
      /\ o.lineLength \in LineLengths(lineLength)
  BY <1>1 DEF OverrideRecords
<1>3. /\ k \notin Consulted => HeardBelow(category, k + 1) = HeardBelow(category, k)
      /\ k \in Consulted =>
           /\ HeardUpTo(category, k, 0) = HeardBelow(category, k)
           /\ HeardUpTo(category, k, Len(ConfigAt(k).options)) = HeardBelow(category, k + 1)
      /\ LooksBelow(k + 1) <=> LooksBelow(k) /\ (k \in Configured => ~EndsSearch(k))
  BY HeardBelowNext
<1>4. k \in Configured <=> dir \in DOMAIN Config
  BY DEF Configured
<1>5. k \in Consulted <=> k \in Configured /\ ConfigAt(k).open /\ LooksBelow(k)
  BY DEF Consulted, LooksBelow
<1>6. CASE o.excluded
  BY <1>1, <1>6 DEF ReadConfig, AfterDirectories
<1>7. CASE ~o.excluded /\ ~o.look
  <2>1. result = o /\ ~LooksBelow(k)
    BY <1>1, <1>7 DEF ReadConfig
  <2> QED BY <1>1, <1>3, <1>5, <1>7, <2>1 DEF AfterDirectories
<1>8. CASE ~o.excluded /\ o.look /\ k \notin Configured
  <2>1. result = o
    BY <1>4, <1>8 DEF ReadConfig
  <2> QED BY <1>1, <1>3, <1>5, <1>8, <2>1 DEF AfterDirectories
<1>9. CASE ~o.excluded /\ o.look /\ k \in Configured /\ ~ConfigAt(k).open
  <2>1. result = [o EXCEPT !.look = FALSE] /\ EndsSearch(k)
    BY <1>4, <1>9 DEF ReadConfig, ConfigAt, EndsSearch
  <2>2. result \in OverrideRecords(lineLength) /\ ~result.look /\ result.filters = o.filters
    BY <1>2, <2>1 DEF OverrideRecords
  <2> QED BY <1>1, <1>3, <1>5, <1>9, <2>1, <2>2 DEF AfterDirectories
<1>10. CASE ~o.excluded /\ o.look /\ k \in Configured /\ ConfigAt(k).open
  <2> DEFINE name == Components(file)[Len(file.path.dir) - k + 1]
             n == Len(ConfigAt(k).options)
  <2>1. k \in Consulted
    BY <1>1, <1>5, <1>10
  <2>2. result = OptionsApplied(o, ConfigAt(k).options, name)
    BY <1>4, <1>10 DEF ReadConfig, ConfigAt
  <2>3. o \in AfterOptions(category, lineLength, k, 0)
    <3>1. ~NoParentUpTo(k, 0)
      BY DEF NoParentUpTo
    <3> QED BY <1>1, <1>3, <2>1, <3>1 DEF AfterOptions
  <2>4. result \in AfterOptions(category, lineLength, k, n)
    BY <2>1, <2>2, <2>3, OptionsRun
  <2>5. NoParentUpTo(k, n) <=> EndsSearch(k)
    <3>1. DOMAIN ConfigAt(k).options = 1..n
      BY <1>10, ConfigAssumption DEF ConfigAt, Configured
    <3> QED BY <1>10, <3>1 DEF NoParentUpTo, EndsSearch, OptionAt
  <2> QED BY <1>3, <1>10, <2>1, <2>4, <2>5 DEF AfterOptions, AfterDirectories
<1> QED BY <1>2, <1>6, <1>7, <1>8, <1>9, <1>10

\* All directories: what the filters of a file that is not excluded say of a category.
LEMMA OverridesSay ==
  ASSUME NEW category, NEW lineLength, file \in Files, ~Overrides(file, lineLength).excluded
  PROVE  LET lists == Overrides(file, lineLength).filters
         IN /\ lists \in Seq(FilterList)
            /\ SaidBy(FlattenSeq(lists), Speaking(category), category)
<1> DEFINE n == Len(file.path.dir) + 1
           base == NoOverrides(lineLength)
           T == [k \in 0..n |-> AfterDirectories(category, lineLength, k)]
           turn == [k \in 1..n |-> [b \in T[k - 1] |-> ReadConfig(b, file, k - 1)]]
<1>1. n \in Nat /\ n \in Int /\ 0 \in Int /\ 0 <= n /\ Len(file.path.dir) = n - 1
  BY FilesAssumption
<1>2. \A k \in (0 + 1)..n : k \in 1..n /\ k \in 0..n /\ k - 1 \in 0..n /\ k # 0
                            /\ k - 1 \in 0..Len(file.path.dir) /\ (k - 1) + 1 = k
  BY <1>1
<1>3. ASSUME NEW k \in (0 + 1)..n, NEW b \in T[k - 1] PROVE ReadConfig(b, file, k - 1) \in T[k]
  <2>1. b \in AfterDirectories(category, lineLength, k - 1)
    BY <1>2
  <2>2. ReadConfig(b, file, k - 1) \in AfterDirectories(category, lineLength, (k - 1) + 1)
    BY <1>2, <2>1, DirectoryTurn
  <2> QED BY <1>2, <2>2
<1>4. \A k \in (0 + 1)..n : \A b \in T[k - 1] :
        turn[k][b] = ReadConfig(b, file, k - 1) /\ turn[k][b] \in T[k]
  <2> HIDE DEF T, n
  <2> QED BY <1>2, <1>3
<1>5. base \in T[0] /\ 0 \in 0..n /\ n \in 0..n
  <2>1. /\ base.look = TRUE /\ base.filters = <<>> /\ base.excluded = FALSE
        /\ base \in OverrideRecords(lineLength)
    BY DEF NoOverrides, OverrideRecords, LineLengths
  <2>2. \A j \in Configured : ~(j < 0)
    BY FilesAssumption DEF Configured
  <2>3. HeardBelow(category, 0) = {}
    BY SpeakingAre DEF HeardBelow
  <2>4. SaidBy(FlattenSeq(<<>>), {}, category)
    BY FlattenEmpty DEF SaidBy, Matching
  <2>5. base \in AfterDirectories(category, lineLength, 0)
    BY <2>1, <2>2, <2>3, <2>4 DEF AfterDirectories, LooksBelow
  <2> QED BY <1>1, <2>5
<1>6. T[n] = AfterDirectories(category, lineLength, n)
  BY <1>5
<1> HIDE DEF T, turn, base
<1>7. PICK g : Runs(g, 0, n, base, turn) /\ \A k \in 0..n : g[k] \in T[k]
  <2> HIDE DEF n
  <2>1. \A k \in (0 + 1)..n : \A b \in T[k - 1] : turn[k][b] \in T[k]
    BY <1>4
  <2>2. 0 \in Int /\ n \in Int /\ 0 <= n
    BY <1>1
  <2> QED BY ONLY <1>1, <1>5, <2>1, <2>2, LoopRuns
<1>8. g = [k \in 0..n |-> IF k = 0 THEN base ELSE ReadConfig(g[k - 1], file, k - 1)]
  <2> HIDE DEF n
  <2>1. \A k \in 0..n : g[k] = IF k = 0 THEN base ELSE turn[k][g[k - 1]]
    BY <1>7 DEF Runs
  <2>2. \A k \in 0..n : k # 0 => k \in (0 + 1)..n
    OBVIOUS
  <2>3. \A k \in 0..n : k # 0 => turn[k][g[k - 1]] = ReadConfig(g[k - 1], file, k - 1)
    BY <1>2, <1>4, <1>7, <2>2
  <2>4. g = [k \in 0..n |-> g[k]]
    BY <1>7 DEF Runs
  <2> QED BY <2>1, <2>3, <2>4
<1> DEFINE f == CHOOSE h : h = [k \in 0..n |-> IF k = 0 THEN base
                                               ELSE ReadConfig(h[k - 1], file, k - 1)]
<1>9. f = [k \in 0..n |-> IF k = 0 THEN base ELSE ReadConfig(f[k - 1], file, k - 1)]
  BY <1>8
<1>10. Overrides(file, lineLength) = f[n]
  BY DEF Overrides, base
<1> HIDE DEF f, n
<1>11. f[n] \in T[n]
  <2>1. f[0] \in T[0]
    BY <1>5, <1>9
  <2>2. ASSUME NEW k \in (0 + 1)..n, f[k - 1] \in T[k - 1] PROVE f[k] \in T[k]
    <3>1. f[k] = ReadConfig(f[k - 1], file, k - 1)
      BY <1>2, <1>9, Zenon
    <3> QED BY <1>3, <2>2, <3>1
  <2> QED BY <1>1, <2>1, <2>2, LoopKeeps
<1>12. HeardBelow(category, n) = Speaking(category)
  <2>1. \A v \in Speaking(category) : v[1] < n
    BY <1>1, SpeakingAre, FilesAssumption DEF Configured
  <2> QED BY <2>1 DEF HeardBelow
<1> QED BY <1>6, <1>10, <1>11, <1>12 DEF AfterDirectories, OverrideRecords

-----------------------------------------------------------------------------
(* The run. *)

OfCommandLine == DefaultFilters \o command.filters

\* The fields of the state that outlives a file.
SettingsShape == DOMAIN settings = {"verbose", "filters", "backup", "counting", "lineLength", "extensions"}

\* Between two files the filters are those of the command line; during one they are kept
\* for its end.
FiltersKept ==
  /\ status = "new" => next = Idle
  /\ status # "new" /\ next = Idle => settings.filters = OfCommandLine
  /\ next # Idle => settings.backup = OfCommandLine

\* During a file the filters of its directories, whatever line length was in force when
\* it was begun, are the only ones behind those of the command line.
FiltersOfFile ==
  next # Idle =>
    \E lineLength : /\ ~Overrides(file, lineLength).excluded
                    /\ settings.filters = FiltersWith(OfCommandLine, Overrides(file, lineLength))

\* The file that is checked is one of the queue, and its lines are read one by one.
FilesInv ==
  /\ command \in Commands /\ queue \in Seq(Files)
  /\ next \in Nat \cup {Idle, Unread} /\ DOMAIN clean.raw \subseteq Nat
  /\ next # Idle => file \in Files /\ queue # <<>>

Inv == SettingsShape /\ FiltersKept /\ FiltersOfFile /\ FilesInv

LEMMA InitInv == Init => Inv
BY DEF Init, ProcessFileInit, NotCleansed, Inv, SettingsShape, FiltersKept, FiltersOfFile, FilesInv

LEMMA ParseArgumentsStep ==
  ASSUME Inv, ParseArguments
  PROVE  Inv'
<1>1. next = Idle /\ next' = next /\ command' = command /\ status' # "new"
  BY DEF ParseArguments, Inv, FiltersKept
<1>2. settings'.filters = OfCommandLine /\ SettingsShape'
  BY DEF ParseArguments, Inv, SettingsShape, OfCommandLine
<1>3. queue' \in Seq(Files) /\ command' \in Commands /\ clean' = clean
  BY CommandsAssumption DEF ParseArguments, Inv, FilesInv
<1> QED BY <1>1, <1>2, <1>3 DEF Inv, FiltersKept, FiltersOfFile, FilesInv, OfCommandLine

\* A file that is begun: the filters of the command line are kept for its end, and those of
\* its directories put behind them.  A file that is passed over leaves the filters as they were.
LEMMA StartFileStep ==
  ASSUME Inv, StartFile
  PROVE  Inv'
<1>1. /\ status = "running" /\ next = Idle /\ command' = command
      /\ settings.filters = OfCommandLine /\ OfCommandLine' = OfCommandLine
      /\ queue # <<>> /\ queue \in Seq(Files) /\ command \in Commands
      /\ clean' = clean /\ status' # "new"
  BY DEF StartFile, Inv, FiltersKept, FilesInv, OfCommandLine
<1>2. CASE settings' = settings /\ next' = next /\ queue' = queue
  BY <1>1, <1>2 DEF Inv, SettingsShape, FiltersKept, FiltersOfFile, FilesInv
<1>3. CASE SkipFile /\ next' = next /\ queue' = Tail(queue)
  <2>1. settings'.filters = settings.filters /\ SettingsShape'
    BY <1>3 DEF SkipFile, Inv, SettingsShape
  <2>2. queue' \in Seq(Files)
    BY <1>1, <1>3
  <2> QED BY <1>1, <1>3, <2>1, <2>2 DEF Inv, FiltersKept, FiltersOfFile, FilesInv
<1>4. CASE /\ settings' = [settings EXCEPT !.backup = settings.filters,
                                           !.filters = FiltersWith(settings.filters, Overridden),
                                           !.lineLength = Overridden.lineLength]
           /\ ~Overridden.excluded
           /\ file' = Current /\ next' = Unread /\ queue' = queue
  <2>1. settings'.backup = OfCommandLine /\ SettingsShape'
    BY <1>1, <1>4 DEF Inv, SettingsShape
  <2>2. settings'.filters = FiltersWith(OfCommandLine, Overrides(Head(queue), settings.lineLength))
    BY <1>1, <1>4 DEF Inv, SettingsShape, Overridden, Current
  <2>3. file' = Head(queue) /\ file' \in Files /\ next' # Idle
    BY <1>1, <1>4 DEF Unread, Idle, Current
  <2>4. FiltersOfFile'
    BY <1>1, <1>4, <2>2, <2>3 DEF FiltersOfFile, FiltersWith, Overridden, Current
  <2> QED BY <1>1, <1>4, <2>1, <2>3, <2>4 DEF Inv, FiltersKept, FilesInv
<1> QED BY <1>2, <1>3, <1>4 DEF StartFile, CanRead

\* The text is prepared and read: nothing of a run changes but the line that is next.
LEMMA ProcessFileDataStep ==
  ASSUME Inv, ProcessFileData, UNCHANGED <<command, status, queue, done>>
  PROVE  Inv'
<1>1. settings' = settings /\ file' = file
  BY DEF ProcessFileData, Prepare, ProcessLine, Finish
<1>2. OfCommandLine' = OfCommandLine
  BY DEF OfCommandLine
<1>3. CASE Prepare
  <2>1. next # Idle /\ file.lines \in Seq(Seq(STRING)) /\ next' = 0
    BY <1>3, FilesAssumption DEF Prepare, Unread, Idle, Inv, FilesInv
  <2>2. clean'.raw = RemoveMultiLineComments(Marked(file.lines))
    BY <1>3 DEF Prepare, CleansedLines
  <2>3. DOMAIN clean'.raw = 0..Len(file.lines) + 1
    BY <2>2 DEF RemoveMultiLineComments, Marked
  <2>4. DOMAIN clean'.raw \subseteq Nat /\ next' # Idle
    BY <2>1, <2>3 DEF Idle
  <2> QED BY <1>1, <1>2, <2>1, <2>4 DEF Inv, SettingsShape, FiltersKept, FiltersOfFile, FilesInv
<1>4. CASE ProcessLine \/ Finish
  <2>1. clean' = clean
    BY <1>4 DEF ProcessLine, Finish
  <2>2. next # Idle /\ next' \in Nat
    BY <1>4, FilesAssumption
       DEF ProcessLine, Finish, Done, EndOfFile, Idle, Unread, Inv, FilesInv
  <2>3. next' # Idle
    BY <2>2 DEF Idle
  <2> QED BY <1>1, <1>2, <2>1, <2>2, <2>3
          DEF Inv, SettingsShape, FiltersKept, FiltersOfFile, FilesInv
<1> QED BY <1>3, <1>4 DEF ProcessFileData

LEMMA EndFileStep ==
  ASSUME Inv, EndFile
  PROVE  Inv'
<1>1. next' = Idle /\ status' = "running" /\ status = "running" /\ command' = command
  BY DEF EndFile
<1>2. next # Idle /\ clean' = clean
  BY FilesAssumption DEF EndFile, Done, EndOfFile, Idle, Inv, FilesInv
<1>3. settings'.filters = OfCommandLine /\ SettingsShape'
  BY <1>2 DEF EndFile, Inv, SettingsShape, FiltersKept
<1>4. queue' \in Seq(Files)
  BY <1>2 DEF EndFile, Inv, FilesInv
<1> QED BY <1>1, <1>2, <1>3, <1>4 DEF Inv, FiltersKept, FiltersOfFile, FilesInv, OfCommandLine

\* The exit status is all that the end of the run changes.
LEMMA ExitStep ==
  ASSUME Inv, Exit
  PROVE  Inv'
<1>1. UNCHANGED vars /\ UNCHANGED <<command, queue>> /\ status # "new" /\ status' # "new"
  BY DEF Exit
<1> QED BY <1>1 DEF vars, Inv, SettingsShape, FiltersKept, FiltersOfFile, FilesInv, OfCommandLine

LEMMA NextInv == Inv /\ [Next]_runVars => Inv'
<1> SUFFICES ASSUME Inv, [Next]_runVars PROVE Inv'
  OBVIOUS
<1>1. CASE ParseArguments
  BY <1>1, ParseArgumentsStep
<1>2. CASE StartFile
  BY <1>2, StartFileStep
<1>3. CASE ProcessFileData /\ UNCHANGED <<command, status, queue, done>>
  BY <1>3, ProcessFileDataStep
<1>4. CASE EndFile
  BY <1>4, EndFileStep
<1>5. CASE Exit
  BY <1>5, ExitStep
<1>6. CASE UNCHANGED runVars
  BY <1>6 DEF runVars, vars, Inv, SettingsShape, FiltersKept, FiltersOfFile, FilesInv, OfCommandLine
<1> QED BY <1>1, <1>2, <1>3, <1>4, <1>5, <1>6 DEF Next

\* The filters of a file are those of the command line, then those of its own directories:
\* no file that was checked, passed over or excluded before it leaves any of its own.
THEOREM FiltersAreThoseOfTheFile == Spec => []FiltersOfFile
<1>1. Inv /\ [Next]_runVars => Inv'
  BY NextInv
<1>2. Inv => FiltersOfFile
  BY DEF Inv
<1> QED BY InitInv, <1>1, <1>2, PTL DEF Spec

\* Between two files, after the last one and after a filter that raises an error, the
\* filters are those of the command line.
THEOREM FiltersAreRestored == Spec => []FiltersKept
<1>1. Inv /\ [Next]_runVars => Inv'
  BY NextInv
<1>2. Inv => FiltersKept
  BY DEF Inv
<1> QED BY InitInv, <1>1, <1>2, PTL DEF Spec

\* There is one nearest place.
LEMMA NearestIs ==
  ASSUME NEW category, file \in Files, NEW first \in Speaking(category),
         \A w \in Speaking(category) : Before(first, w)
  PROVE  Nearest(Speaking(category)) = first
<1> DEFINE near == Nearest(Speaking(category))
<1>1. near \in Speaking(category) /\ \A w \in Speaking(category) : Before(near, w)
  BY DEF Nearest, Before
<1> HIDE DEF near
<1>2. Before(near, first) /\ Before(first, near)
  BY <1>1
<1>3. /\ near = <<near[1], near[2]>> /\ near[1] \in Int /\ near[2] \in Int
      /\ first = <<first[1], first[2]>> /\ first[1] \in Int /\ first[2] \in Int
  BY <1>1, SpeakingAre
<1>4. near[1] = first[1] /\ near[2] = first[2]
  BY <1>2, <1>3 DEF Before
<1>5. near = first
  BY <1>3, <1>4, Zenon
<1> QED BY <1>5 DEF near

LEMMA InvFiltersAreOwn == Inv => FiltersAreOwn
<1> SUFFICES ASSUME Inv, next \in Unread..Done, NEW category \in ErrorCategories
             PROVE  LET speaking == Speaking(category)
                        first == Nearest(speaking)
                    IN Filtered(settings.filters, category)
                         = IF speaking = {} THEN Filtered(DefaultFilters \o command.filters, category)
                           ELSE Filtered(ConfigAt(first[1]).options[first[2]].filters, category)
  BY DEF FiltersAreOwn
<1>1. next # Idle /\ file \in Files /\ command \in Commands
  <2>1. next # Idle
    BY DEF Unread, Idle
  <2> QED BY <2>1 DEF Inv, FilesInv
<1>2. PICK lineLength : /\ ~Overrides(file, lineLength).excluded
                        /\ settings.filters = FiltersWith(OfCommandLine, Overrides(file, lineLength))
  BY <1>1 DEF Inv, FiltersOfFile
<1> DEFINE lists == Overrides(file, lineLength).filters
           said == FlattenSeq(lists)
<1>3. lists \in Seq(FilterList) /\ SaidBy(said, Speaking(category), category)
  BY <1>1, <1>2, OverridesSay
<1>4. OfCommandLine \in FilterList
  <2>1. DefaultFilters \in FilterList /\ command.filters \in FilterList
    <3> DEFINE first == DefaultFilters[1]
    <3>1. DefaultFilters = <<first>>
      BY DEF DefaultFilters
    <3>2. FilterList = Seq(FilterRecord \cup {first})
      BY DEF FilterList
    <3> HIDE DEF first
    <3>3. DefaultFilters \in FilterList
      BY <3>1, <3>2
    <3>4. command.filters \in FilterList
      BY <1>1, CommandsAssumption DEF FilterList
    <3> QED BY <3>3, <3>4
  <2> QED BY <2>1, ConcatDecides DEF OfCommandLine
<1>5. said \in FilterList
  BY <1>3, FlattenPrepend, EmptySeq DEF FilterList
<1>6. settings.filters = OfCommandLine \o said
  BY <1>2 DEF FiltersWith
<1> HIDE DEF said, lists
<1>7. Filtered(settings.filters, category) <=>
        IF Matching(said, category) # {} THEN Filtered(said, category)
        ELSE Filtered(OfCommandLine, category)
  BY <1>4, <1>5, <1>6, ConcatDecides
<1>8. CASE Speaking(category) = {}
  <2>1. Matching(said, category) = {}
    BY <1>3, <1>8 DEF SaidBy
  <2>2. Filtered(settings.filters, category) <=> Filtered(OfCommandLine, category)
    BY <1>7, <2>1
  <2> QED BY <1>8, <2>2 DEF Filtered, OfCommandLine
<1>9. CASE Speaking(category) # {}
  <2>1. PICK first \in Speaking(category) :
          /\ \A w \in Speaking(category) : Before(first, w)
          /\ Matching(said, category) # {}
          /\ Filtered(said, category) <=> Filtered(OptionAt(first).filters, category)
    BY <1>3, <1>9 DEF SaidBy
  <2>2. Nearest(Speaking(category)) = first
    BY <1>1, <2>1, NearestIs
  <2>3. Filtered(settings.filters, category) <=> Filtered(OptionAt(first).filters, category)
    BY <1>7, <2>1
  <2> QED BY <1>9, <2>2, <2>3 DEF Filtered, OptionAt
<1> QED BY <1>8, <1>9

\* While a file is checked its own directories decide which categories are filtered out, the
\* nearest that says something of a category, or else the command line, or else the defaults:
\* for every tree of directories, every command line, and whatever was checked before.
THEOREM FiltersAreTheFilesOwn == Spec => []FiltersAreOwn
<1>1. Inv /\ [Next]_runVars => Inv'
  BY NextInv
<1> QED BY InitInv, <1>1, InvFiltersAreOwn, PTL DEF Spec

-----------------------------------------------------------------------------
(* The text of a file. *)

Token == STRING \cup {DQ, Space, BS, ")", "//", "/*", "*/", "marker", "x"}
Line == Seq(Token)

LEMMA LowestIs ==
  ASSUME NEW S \in SUBSET Nat, S # {}
  PROVE  Lowest(S) \in S /\ \A y \in S : Lowest(S) <= y
<1>1. PICK x \in S : \A y \in S : ~ (<<y, x>> \in OpToRel(<, Nat))
  BY NatLessThanWellFounded, WFMin
<1>2. ASSUME NEW y \in S, y < x PROVE FALSE
  <2>1. <<y, x>> \in OpToRel(<, Nat)
    BY <1>2 DEF OpToRel
  <2> QED BY <1>1, <2>1
<1>3. \A y \in S : x <= y
  BY <1>2
<1> QED BY <1>3 DEF Lowest

LEMMA HighestIs ==
  ASSUME NEW m \in Int, NEW n \in Int, NEW S \in SUBSET (m..n), S # {}
  PROVE  Highest(S) \in S /\ \A y \in S : Highest(S) >= y
<1> DEFINE R == {k \in Nat : n - k \in S}
<1>1. R # {}
  <2>1. PICK y \in S : TRUE
    OBVIOUS
  <2>2. n - y \in Nat /\ n - (n - y) = y
    OBVIOUS
  <2> QED BY <2>1, <2>2
<1>2. R \subseteq Nat
  OBVIOUS
<1> HIDE DEF R
<1>3. Lowest(R) \in R /\ \A k \in R : Lowest(R) <= k
  BY <1>1, <1>2, LowestIs
<1> DEFINE x == n - Lowest(R)
<1>4. x \in S
  BY <1>3 DEF R
<1>5. ASSUME NEW y \in S PROVE x >= y
  <2>1. n - y \in Nat /\ n - (n - y) = y
    OBVIOUS
  <2>2. n - y \in R
    BY <2>1 DEF R
  <2>3. Lowest(R) <= n - y /\ Lowest(R) \in Nat
    BY <1>2, <1>3, <2>2
  <2> HIDE DEF R
  <2> QED BY <2>1, <2>3
<1> QED BY <1>4, <1>5 DEF Highest

LEMMA SubSeqIs ==
  ASSUME NEW S, NEW s \in Seq(S), NEW m \in Nat, m >= 1, NEW n \in Int, n <= Len(s)
  PROVE  SubSeq(s, m, n) \in Seq(S)
<1>1. CASE m > n
  BY <1>1
<1>2. CASE m <= n
  BY <1>2
<1> QED BY <1>1, <1>2

LEMMA TakeIs ==
  ASSUME NEW S, NEW s \in Seq(S), NEW n \in Int, n <= Len(s)
  PROVE  Take(s, n) \in Seq(S)
BY SubSeqIs DEF Take

LEMMA DropIs ==
  ASSUME NEW S, NEW s \in Seq(S), NEW n \in Nat
  PROVE  Drop(s, n) \in Seq(S)
<1>1. n + 1 \in Nat /\ n + 1 >= 1 /\ Len(s) \in Int /\ Len(s) <= Len(s)
  OBVIOUS
<1> QED BY <1>1, SubSeqIs DEF Drop

\* The tokens of a line that are kept are gathered from the left.
LEMMA KeepRuns ==
  ASSUME NEW S, NEW line \in Seq(S), NEW positions
  PROVE  \E f : /\ f[0] = <<>> /\ f[0] \in Seq(S)
                /\ \A i \in 1..Len(line) :
                     /\ f[i] \in Seq(S)
                     /\ f[i] = IF i \in positions THEN Append(f[i - 1], line[i]) ELSE f[i - 1]
                /\ Keep(line, positions) = f[Len(line)]
<1> DEFINE n == Len(line)
           base == << >>
           T == [i \in 0..n |-> Seq(S)]
           step(b, i) == IF i \in positions THEN Append(b, line[i]) ELSE b
           turn == [i \in 1..n |-> [b \in Seq(S) |-> step(b, i)]]
<1>1. n \in Nat /\ n \in Int /\ 0 \in Int /\ 0 <= n /\ \A i \in 1..n : line[i] \in S
  OBVIOUS
<1>2. \A i \in (0 + 1)..n : i \in 1..n /\ i \in 0..n /\ i - 1 \in 0..n /\ i # 0
  BY <1>1
<1>3. ASSUME NEW i \in (0 + 1)..n, NEW b \in Seq(S) PROVE step(b, i) \in Seq(S)
  BY <1>1, <1>2
<1>4. \A i \in (0 + 1)..n : \A b \in T[i - 1] : turn[i][b] = step(b, i) /\ turn[i][b] \in T[i]
  <2> HIDE DEF step, n
  <2> QED BY <1>2, <1>3
<1>5. base \in T[0] /\ n \in 0..n /\ T[n] = Seq(S)
  BY <1>1, EmptySeq
<1>6. \A i \in 0..n : T[i] = Seq(S)
  OBVIOUS
<1> HIDE DEF T, turn, n, base, step
<1>7. PICK g : Runs(g, 0, n, base, turn) /\ \A i \in 0..n : g[i] \in T[i]
  <2>1. \A i \in (0 + 1)..n : \A b \in T[i - 1] : turn[i][b] \in T[i]
    BY <1>4
  <2> QED BY ONLY <1>1, <1>5, <2>1, LoopRuns
<1>8. g = [i \in 0..n |-> IF i = 0 THEN base ELSE step(g[i - 1], i)]
  <2>1. \A i \in 0..n : g[i] = IF i = 0 THEN base ELSE turn[i][g[i - 1]]
    BY <1>7 DEF Runs
  <2>2. \A i \in 0..n : i # 0 => i \in (0 + 1)..n
    BY <1>1
  <2>3. \A i \in 0..n : i # 0 => turn[i][g[i - 1]] = step(g[i - 1], i)
    BY <1>2, <1>4, <1>7, <2>2
  <2>4. g = [i \in 0..n |-> g[i]]
    BY <1>7 DEF Runs
  <2> QED BY <2>1, <2>3, <2>4
<1> DEFINE f == CHOOSE h : h = [i \in 0..n |-> IF i = 0 THEN <<>>
                                               ELSE IF i \in positions THEN Append(h[i - 1], line[i])
                                               ELSE h[i - 1]]
<1>9. f = [i \in 0..n |-> IF i = 0 THEN base ELSE step(f[i - 1], i)]
  BY <1>8 DEF step, base
<1>10. Keep(line, positions) = f[n]
  BY DEF Keep, n
<1> HIDE DEF f
<1>11. \A j \in 0..n : f[j] \in T[j]
  <2> SUFFICES ASSUME NEW j \in 0..n PROVE f[j] \in T[j]
    OBVIOUS
  <2>1. f[0] \in T[0]
    BY <1>1, <1>5, <1>9
  <2>2. ASSUME NEW i \in (0 + 1)..j, f[i - 1] \in T[i - 1] PROVE f[i] \in T[i]
    <3>1. i \in (0 + 1)..n
      BY <1>1
    <3>2. f[i] = step(f[i - 1], i)
      BY <1>2, <1>9, <3>1, Zenon
    <3> QED BY <1>2, <1>3, <1>6, <2>2, <3>1, <3>2
  <2>3. j \in Int /\ 0 <= j
    BY <1>1
  <2> QED BY ONLY <1>1, <2>1, <2>2, <2>3, LoopKeeps
<1>12. \A i \in 1..n : f[i] = IF i \in positions THEN Append(f[i - 1], line[i]) ELSE f[i - 1]
  <2> SUFFICES ASSUME NEW i \in 1..n PROVE f[i] = step(f[i - 1], i)
    BY DEF step
  <2>1. i \in 0..n /\ i # 0
    BY <1>1
  <2> QED BY <1>9, <2>1, Zenon
<1>13. f[0] = <<>> /\ 0 \in 0..n /\ 1..n \subseteq 0..n
  BY <1>1, <1>9 DEF base
<1> QED BY <1>6, <1>10, <1>11, <1>12, <1>13 DEF n

LEMMA KeepIs ==
  ASSUME NEW S, NEW line \in Seq(S), NEW positions
  PROVE  Keep(line, positions) \in Seq(S)
<1>1. Len(line) = 0 \/ Len(line) \in 1..Len(line)
  OBVIOUS
<1> QED BY <1>1, KeepRuns

Cleansed == [line : Line, delimiter : Line]

LEMMA Marks == <<DQ, DQ>> \in Line /\ <<DQ>> \in Line /\ <<")">> \in Line /\ << >> \in Line
<1>1. DQ \in Token /\ ")" \in Token
  BY DEF Token
<1> QED BY <1>1, EmptySeq DEF Line

LEMMA RawEndIs ==
  ASSUME NEW line \in Line, NEW delimiter \in Line
  PROVE  RawEnd(line, delimiter) \in Cleansed
<1> DEFINE ends == Occurrences(line, delimiter, 1)
           rest == Lowest(ends) + Len(delimiter) - 1
<1>1. ends \subseteq 1..Len(line) /\ ends \subseteq Nat /\ Len(delimiter) \in Nat
  BY DEF Occurrences, Line
<1>2. ASSUME ends # {} PROVE <<DQ, DQ>> \o Drop(line, rest) \in Line
  <2>1. Lowest(ends) \in ends
    BY <1>1, <1>2, LowestIs
  <2>2. rest \in Nat
    BY <1>1, <2>1
  <2>3. Drop(line, rest) \in Line
    BY <2>2, DropIs DEF Line
  <2> QED BY <2>3, Marks, ConcatProperties DEF Line
<1> QED BY <1>2, Marks DEF RawEnd, Cleansed, NoDelimiter

LEMMA RawStartIs ==
  ASSUME NEW line \in Line
  PROVE  RawStart(line) \in Cleansed
<1> DEFINE i == Lowest(RawStarts(line))
           k == Lowest(RawParenthesis(line, i))
           delimiter == <<")">> \o SubSeq(line, i + 2, k - 1) \o <<DQ>>
           ends == Occurrences(line, delimiter, k + 1)
           rest == Lowest(ends) + Len(delimiter) - 1
           before == Take(line, i - 1) \o <<DQ, DQ>>
<1>1. CASE RawStarts(line) = {}
  BY <1>1, Marks DEF RawStart, Cleansed, NoDelimiter
<1>2. CASE RawStarts(line) # {}
  <2>1. i \in RawStarts(line) /\ i \in 1..Len(line)
    <3>1. RawStarts(line) \subseteq 1..Len(line) /\ RawStarts(line) \subseteq Nat
      BY DEF RawStarts, Line
    <3> QED BY <1>2, <3>1, LowestIs
  <2>2. RawParenthesis(line, i) # {} /\ RawParenthesis(line, i) \subseteq (i + 2)..Len(line)
    BY <2>1 DEF RawStarts, RawParenthesis
  <2> HIDE DEF i
  <2>3. k \in (i + 2)..Len(line)
    BY <2>1, <2>2, LowestIs
  <2> HIDE DEF k
  <2>4. Take(line, i - 1) \in Line
    BY <2>1, TakeIs DEF Line
  <2>5. before \in Line
    BY <2>4, Marks, ConcatProperties DEF Line
  <2>6. delimiter \in Line
    <3>1. SubSeq(line, i + 2, k - 1) \in Line
      BY <2>1, <2>3, SubSeqIs DEF Line
    <3> QED BY <3>1, Marks, ConcatProperties DEF Line
  <2> HIDE DEF before, delimiter
  <2>7. ASSUME ends # {} PROVE before \o Drop(line, rest) \in Line
    <3>1. ends \subseteq (k + 1)..Len(line) /\ ends \subseteq Nat /\ Len(delimiter) \in Nat
      BY <2>1, <2>3, <2>6 DEF Occurrences, Line
    <3>2. Lowest(ends) \in ends
      BY <2>7, <3>1, LowestIs
    <3>3. rest \in Nat
      BY <2>1, <2>3, <3>1, <3>2
    <3>4. Drop(line, rest) \in Line
      BY <3>3, DropIs DEF Line
    <3> QED BY <2>5, <3>4, ConcatProperties DEF Line
  <2> HIDE DEF ends
  <2>8. \/ RawStart(line) = [line |-> line, delimiter |-> NoDelimiter]
        \/ RawStart(line) = [line |-> before, delimiter |-> delimiter]
        \/ ends # {} /\ RawStart(line) = [line |-> before \o Drop(line, rest), delimiter |-> NoDelimiter]
    BY DEF RawStart, before, delimiter, ends, i, k
  <2> HIDE DEF rest
  <2>9. NoDelimiter \in Line
    BY Marks DEF NoDelimiter
  <2>10. CASE ends # {} /\ RawStart(line) = [line |-> before \o Drop(line, rest), delimiter |-> NoDelimiter]
    BY <2>7, <2>9, <2>10 DEF Cleansed
  <2>11. CASE RawStart(line) = [line |-> line, delimiter |-> NoDelimiter]
    BY <2>9, <2>11 DEF Cleansed
  <2>12. CASE RawStart(line) = [line |-> before, delimiter |-> delimiter]
    BY <2>5, <2>6, <2>12 DEF Cleansed
  <2> QED BY <2>8, <2>10, <2>11, <2>12
<1> QED BY <1>1, <1>2

LEMMA CleanseRawLineIs ==
  ASSUME NEW line \in Line, NEW delimiter \in Line
  PROVE  CleanseRawLine(line, delimiter) \in Cleansed
<1> DEFINE n == Len(line)
           base == RawEnd(line, delimiter)
           T == [k \in 0..n |-> Cleansed]
           step(b) == IF b.delimiter # NoDelimiter THEN b ELSE RawStart(b.line)
           turn == [k \in 1..n |-> [b \in Cleansed |-> step(b)]]
<1>1. n \in Nat /\ n \in Int /\ 0 \in Int /\ 0 <= n
  BY DEF Line
<1>2. \A i \in (0 + 1)..n : i \in 1..n /\ i \in 0..n /\ i - 1 \in 0..n /\ i # 0
  BY <1>1
<1>3. ASSUME NEW b \in Cleansed PROVE step(b) \in Cleansed
  <2>1. b.line \in Line
    BY DEF Cleansed
  <2> QED BY <2>1, RawStartIs
<1>4. \A i \in (0 + 1)..n : \A b \in T[i - 1] : turn[i][b] = step(b) /\ turn[i][b] \in T[i]
  <2> HIDE DEF step, n
  <2> QED BY <1>2, <1>3
<1>5. base \in T[0] /\ n \in 0..n /\ \A i \in 0..n : T[i] = Cleansed
  BY <1>1, RawEndIs
<1> HIDE DEF T, turn, n, base, step
<1>6. PICK g : Runs(g, 0, n, base, turn) /\ \A i \in 0..n : g[i] \in T[i]
  <2>1. \A i \in (0 + 1)..n : \A b \in T[i - 1] : turn[i][b] \in T[i]
    BY <1>4
  <2> QED BY ONLY <1>1, <1>5, <2>1, LoopRuns
<1>7. g = [i \in 0..n |-> IF i = 0 THEN base ELSE step(g[i - 1])]
  <2>1. \A i \in 0..n : i # 0 => i \in (0 + 1)..n
    BY <1>1
  <2>2. \A i \in 0..n : i # 0 => turn[i][g[i - 1]] = step(g[i - 1])
    BY <1>2, <1>4, <1>6, <2>1
  <2> QED BY <1>6, <2>2 DEF Runs
<1> DEFINE f == CHOOSE h : h = [k \in 0..n |-> IF k = 0 THEN RawEnd(line, delimiter)
                                               ELSE LET before == h[k - 1]
                                                    IN IF before.delimiter # NoDelimiter THEN before
                                                       ELSE RawStart(before.line)]
<1>8. f = [i \in 0..n |-> IF i = 0 THEN base ELSE step(f[i - 1])]
  BY <1>7 DEF step, base
<1>9. CleanseRawLine(line, delimiter) = f[n]
  BY DEF CleanseRawLine, n
<1> HIDE DEF f
<1>10. f[n] \in T[n]
  <2>1. f[0] \in T[0]
    BY <1>1, <1>5, <1>8
  <2>2. ASSUME NEW i \in (0 + 1)..n, f[i - 1] \in T[i - 1] PROVE f[i] \in T[i]
    BY <1>2, <1>3, <1>5, <1>8, <2>2
  <2> QED BY ONLY <1>1, <2>1, <2>2, LoopKeeps
<1> QED BY <1>5, <1>9, <1>10

\* The lines of a file: from 0 on.
Lines(n) == [0..n -> Line]

LEMMA CleanseRawStringsIs ==
  ASSUME NEW n \in Nat, NEW lines \in Lines(n)
  PROVE  CleanseRawStrings(lines) \in Lines(n)
<1> DEFINE base == [line |-> << >>, delimiter |-> NoDelimiter]
           T == [k \in -1..n |-> Cleansed]
           step(b, k) == CleanseRawLine(lines[k], b.delimiter)
           turn == [k \in 0..n |-> [b \in Cleansed |-> step(b, k)]]
<1>1. n \in Int /\ -1 \in Int /\ -1 <= n
  OBVIOUS
<1>2. \A i \in (-1 + 1)..n : i \in 0..n /\ i \in -1..n /\ i - 1 \in -1..n /\ i # -1
  OBVIOUS
<1>3. ASSUME NEW b \in Cleansed, NEW k \in 0..n PROVE step(b, k) \in Cleansed
  <2>1. b.delimiter \in Line /\ lines[k] \in Line
    BY DEF Cleansed, Lines
  <2> QED BY <2>1, CleanseRawLineIs
<1>4. \A i \in (-1 + 1)..n : \A b \in T[i - 1] : turn[i][b] = step(b, i) /\ turn[i][b] \in T[i]
  <2> HIDE DEF step
  <2> QED BY <1>2, <1>3
<1>5. base \in T[-1] /\ \A i \in -1..n : T[i] = Cleansed
  <2>1. base \in Cleansed
    BY Marks DEF Cleansed, NoDelimiter
  <2>2. -1 \in -1..n /\ \A i \in -1..n : T[i] = Cleansed
    BY <1>1
  <2> QED BY <2>1, <2>2
<1>6. {-1} \cup DOMAIN lines = -1..n /\ DOMAIN lines = 0..n
  BY DEF Lines
<1> HIDE DEF T, turn, base, step
<1>7. PICK g : Runs(g, -1, n, base, turn) /\ \A i \in -1..n : g[i] \in T[i]
  <2>1. \A i \in (-1 + 1)..n : \A b \in T[i - 1] : turn[i][b] \in T[i]
    BY <1>4
  <2> QED BY ONLY <1>1, <1>5, <2>1, LoopRuns
<1>8. g = [i \in -1..n |-> IF i = -1 THEN base ELSE step(g[i - 1], i)]
  <2>1. \A i \in -1..n : i # -1 => i \in (-1 + 1)..n
    BY <1>1
  <2>2. \A i \in -1..n : i # -1 => turn[i][g[i - 1]] = step(g[i - 1], i)
    BY <1>2, <1>4, <1>7, <2>1
  <2> QED BY <1>7, <2>2 DEF Runs
<1> DEFINE f == CHOOSE h : h = [i \in {-1} \cup DOMAIN lines |->
                                  IF i = -1 THEN [line |-> << >>, delimiter |-> NoDelimiter]
                                  ELSE CleanseRawLine(lines[i], h[i - 1].delimiter)]
<1>9. f = [i \in -1..n |-> IF i = -1 THEN base ELSE step(f[i - 1], i)]
  BY <1>6, <1>8 DEF step, base
<1>10. CleanseRawStrings(lines) = [i \in 0..n |-> f[i].line]
  BY <1>6 DEF CleanseRawStrings
<1> HIDE DEF f
<1>11. \A j \in 0..n : f[j] \in Cleansed
  <2> SUFFICES ASSUME NEW j \in 0..n PROVE f[j] \in T[j]
    BY <1>2, <1>5
  <2>1. f[-1] \in T[-1]
    BY <1>1, <1>5, <1>9
  <2>2. ASSUME NEW i \in (-1 + 1)..j, f[i - 1] \in T[i - 1] PROVE f[i] \in T[i]
    <3>1. i \in (-1 + 1)..n
      OBVIOUS
    <3> QED BY <1>2, <1>3, <1>5, <1>9, <2>2, <3>1
  <2>3. j \in Int /\ -1 <= j
    OBVIOUS
  <2> QED BY ONLY <1>1, <2>1, <2>2, <2>3, LoopKeeps
<1>12. \A j \in 0..n : f[j].line \in Line
  BY <1>11 DEF Cleansed
<1> QED BY <1>10, <1>12 DEF Lines

LEMMA WithoutTrailingSpacesIs ==
  ASSUME NEW line \in Line
  PROVE  WithoutTrailingSpaces(line) \in Line
<1> DEFINE ends == {i \in DOMAIN line : line[i] # Space} \cup {0}
<1>1. Len(line) \in Int /\ 0 \in Int /\ ends \in SUBSET (0..Len(line)) /\ ends # {}
  BY DEF Line
<1> HIDE DEF ends
<1>2. Highest(ends) \in 0..Len(line)
  BY <1>1, HighestIs
<1>3. Take(line, Highest(ends)) \in Line
  BY <1>1, <1>2, TakeIs DEF Line
<1> QED BY <1>3 DEF WithoutTrailingSpaces, ends

LEMMA CleanseCommentsIs ==
  ASSUME NEW line \in Line
  PROVE  CleanseComments(line) \in Line
<1> DEFINE at == Lowest(At(line, "//"))
           before == Take(line, at - 1)
           kept == IF Has(line, "//") /\ ~IsCppString(before) THEN WithoutTrailingSpaces(before) ELSE line
<1>1. ASSUME Has(line, "//") PROVE before \in Line
  <2>1. At(line, "//") \subseteq 1..Len(line) /\ At(line, "//") \subseteq Nat /\ At(line, "//") # {}
    BY <1>1 DEF At, Has, Line
  <2>2. at \in 1..Len(line)
    BY <2>1, LowestIs
  <2> HIDE DEF at
  <2> QED BY <2>2, TakeIs DEF Line
<1>2. kept \in Line
  <2> HIDE DEF before
  <2> QED BY <1>1, WithoutTrailingSpacesIs
<1> HIDE DEF kept
<1>3. WithoutBlockComments(kept) \in Line
  BY <1>2, KeepIs DEF WithoutBlockComments, Line
<1> QED BY <1>3 DEF CleanseComments, kept

\* f is what a recursion yields that goes from a number to a larger one, up to n.
Jumps(f, m, n, stop, base, jump, turn) ==
  f = [k \in m..n |-> IF k \in stop THEN base[k] ELSE turn[k][f[jump[k]]]]

\* The jumps go forward, not beyond n, and every turn keeps what is in T.
JumpsInto(m, n, T, stop, base, jump, turn) ==
  \A k \in m..n :
    IF k \in stop THEN base[k] \in T
    ELSE jump[k] \in (k + 1)..n /\ \A q \in T : turn[k][q] \in T

\* What is in T where it stops is in T before each jump if behind it.
KeptByJumps(f, m, n, T, stop, jump) ==
  \A k \in m..n :
    IF k \in stop THEN f[k] \in T
    ELSE jump[k] \in (k + 1)..n /\ (f[jump[k]] \in T => f[k] \in T)

LEMMA JumpsKeep ==
  ASSUME NEW m \in Int, NEW n \in Int, NEW T, NEW stop, NEW jump, NEW f,
         KeptByJumps(f, m, n, T, stop, jump)
  PROVE  \A k \in m..n : f[k] \in T
<1> USE DEF KeptByJumps
<1>1. CASE m > n
  BY <1>1
<1>2. CASE m <= n
  <2> DEFINE Good == {i \in 0..(n - m) : \A k \in (n - i)..n : f[k] \in T}
  <2>1. n \in stop
    BY <1>2
  <2>2. 0 \in Good
    BY <1>2, <2>1
  <2>3. ASSUME NEW i \in (0 + 1)..(n - m), i - 1 \in Good PROVE i \in Good
    <3>1. n - i \in m..n /\ i \in 0..(n - m) /\ \A k \in (n - i + 1)..n : f[k] \in T
      BY <2>3
    <3>2. f[n - i] \in T
      BY <3>1
    <3>3. \A k \in (n - i)..n : k = n - i \/ k \in (n - i + 1)..n
      BY <3>1
    <3> QED BY <3>1, <3>2, <3>3
  <2> HIDE DEF Good
  <2>4. n - m \in Int /\ 0 \in Int /\ 0 <= n - m
    BY <1>2
  <2>5. n - m \in Good
    BY ONLY <2>2, <2>3, <2>4, Steps
  <2> QED BY <1>2, <2>5 DEF Good
<1> QED BY <1>1, <1>2

LEMMA JumpsRun ==
  ASSUME NEW m \in Int, NEW n \in Int, m <= n, NEW T, NEW stop, NEW base, NEW jump, NEW turn,
         JumpsInto(m, n, T, stop, base, jump, turn)
  PROVE  \E f : Jumps(f, m, n, stop, base, jump, turn) /\ \A k \in m..n : f[k] \in T
<1>0. /\ \A k \in m..n : k \in stop => base[k] \in T
      /\ \A k \in m..n : k \notin stop => jump[k] \in (k + 1)..n /\ \A q \in T : turn[k][q] \in T
  BY DEF JumpsInto
<1> DEFINE Run(i, f) == Jumps(f, n - i, n, stop, base, jump, turn) /\ \A k \in (n - i)..n : f[k] \in T
           Good == {i \in 0..(n - m) : \E f : Run(i, f)}
<1>1. 0 \in Good
  <2> DEFINE f == [k \in n..n |-> base[n]]
  <2>1. n \in stop /\ base[n] \in T /\ \A k \in n..n : k = n
    BY <1>0
  <2>2. Run(0, f)
    BY <2>1 DEF Jumps
  <2> HIDE DEF f, Run
  <2> QED BY <2>2
<1>2. ASSUME NEW i \in (0 + 1)..(n - m), i - 1 \in Good PROVE i \in Good
  <2>1. PICK f : Run(i - 1, f)
    BY <1>2
  <2> DEFINE j == n - i
             g == [k \in j..n |-> IF k = j THEN (IF j \in stop THEN base[j] ELSE turn[j][f[jump[j]]]) ELSE f[k]]
  <2>2. j \in m..n /\ j \in j..n /\ n - (i - 1) = j + 1
    OBVIOUS
  <2>3. \A k \in (j + 1)..n : f[k] \in T /\ f[k] = IF k \in stop THEN base[k] ELSE turn[k][f[jump[k]]]
    BY <2>1, <2>2 DEF Jumps
  <2> HIDE DEF j
  <2>4. \A k \in j..n : k = j \/ k \in (j + 1)..n
    BY <2>2
  <2>5. \A k \in (j + 1)..n : k # j /\ k \in j..n /\ k \in m..n
    BY <2>2
  <2>6. \A k \in (j + 1)..n : g[k] = f[k]
    BY <2>5
  <2>7. \A k \in j..n : k \notin stop => jump[k] \in (j + 1)..n /\ g[jump[k]] = f[jump[k]]
    <3> SUFFICES ASSUME NEW k \in j..n, k \notin stop PROVE jump[k] \in (j + 1)..n
      BY <2>6
    <3>1. jump[k] \in (k + 1)..n
      BY <1>0, <2>2
    <3> QED BY <2>2, <3>1
  <2>8. \A k \in j..n : g[k] = IF k \in stop THEN base[k] ELSE turn[k][g[jump[k]]]
    <3> SUFFICES ASSUME NEW k \in j..n PROVE g[k] = IF k \in stop THEN base[k] ELSE turn[k][g[jump[k]]]
      OBVIOUS
    <3>1. CASE k = j
      BY <2>7, <3>1
    <3>2. CASE k # j
      BY <2>3, <2>4, <2>6, <2>7, <3>2
    <3> QED BY <3>1, <3>2
  <2>9. g = [k \in j..n |-> g[k]]
    OBVIOUS
  <2>10. g[j] \in T
    BY <1>0, <2>2, <2>3, <2>7
  <2> HIDE DEF g
  <2>11. Jumps(g, j, n, stop, base, jump, turn)
    BY <2>8, <2>9 DEF Jumps
  <2>12. \A k \in j..n : g[k] \in T
    BY <2>3, <2>4, <2>6, <2>10
  <2>13. Run(i, g)
    BY <2>11, <2>12 DEF j
  <2> HIDE DEF Run
  <2>14. i \in 0..(n - m)
    OBVIOUS
  <2> QED BY <2>13, <2>14
<1>3. n - m \in Int /\ 0 \in Int /\ 0 <= n - m
  OBVIOUS
<1>4. n - m \in Good
  <2> HIDE DEF Good
  <2>1. 0..(n - m) \subseteq Good
    BY ONLY <1>1, <1>2, <1>3, Steps
  <2> QED BY <1>3, <2>1
<1> QED BY <1>4

LEMMA CollapseStringsIs ==
  ASSUME NEW line \in Line
  PROVE  CollapseStrings(line) \in Line
<1> DEFINE text == WithoutEscapes(line)
           n == Len(text) + 1
           quotes(k) == {i \in k..Len(text) : text[i] \in Quotes}
           open(k) == Lowest(quotes(k))
           closes(k) == {i \in open(k) + 1..Len(text) : text[i] = text[open(k)]}
           left(k) == SubSeq(text, k, open(k) - 1) \o <<text[open(k)], text[open(k)]>>
           stop == {k \in 1..n : quotes(k) = {} \/ closes(k) = {}}
           base == [k \in 1..n |-> Drop(text, k - 1)]
           jump == [k \in 1..n |-> Lowest(closes(k)) + 1]
           turn == [k \in 1..n |-> [q \in Line |-> left(k) \o q]]
<1>1. text \in Line /\ n \in Int /\ 1 \in Int /\ 1 <= n /\ Len(text) \in Nat /\ n = Len(text) + 1
  BY KeepIs DEF WithoutEscapes, Line
<1> HIDE DEF text, n
<1>2. \A k \in 1..n : base[k] = Drop(text, k - 1) /\ base[k] \in Line
  <2> SUFFICES ASSUME NEW k \in 1..n PROVE Drop(text, k - 1) \in Line
    OBVIOUS
  <2>1. k - 1 \in Nat
    BY <1>1
  <2> QED BY <1>1, <2>1, DropIs DEF Line
<1>4. \A k \in 1..n : k \notin stop <=> ~(quotes(k) = {} \/ closes(k) = {})
  <2> HIDE DEF quotes, closes
  <2> QED OBVIOUS
<1>3. ASSUME NEW k \in 1..n, k \notin stop
      PROVE  /\ jump[k] = Lowest(closes(k)) + 1 /\ jump[k] \in (k + 1)..n
             /\ \A q \in Line : turn[k][q] = left(k) \o q /\ turn[k][q] \in Line
  <2>1. quotes(k) # {} /\ closes(k) # {} /\ quotes(k) \subseteq k..Len(text) /\ quotes(k) \subseteq Nat
    <3>1. quotes(k) # {} /\ closes(k) # {}
      <4> HIDE DEF quotes, closes, stop
      <4> QED BY <1>3, <1>4
    <3> HIDE DEF closes
    <3>2. quotes(k) \subseteq k..Len(text) /\ quotes(k) \subseteq Nat
      BY <1>1
    <3> QED BY <3>1, <3>2
  <2>2. open(k) \in k..Len(text)
    <3> HIDE DEF quotes
    <3> QED BY <2>1, LowestIs
  <2>3. closes(k) \subseteq (open(k) + 1)..Len(text) /\ closes(k) \subseteq Nat
    <3> HIDE DEF open
    <3> QED BY <1>1, <1>3, <2>2
  <2>4. jump[k] = Lowest(closes(k)) + 1
    OBVIOUS
  <2> HIDE DEF open
  <2>5. Lowest(closes(k)) \in (open(k) + 1)..Len(text)
    <3> HIDE DEF closes
    <3> QED BY <2>1, <2>3, LowestIs
  <2> HIDE DEF closes, quotes
  <2>6. jump[k] \in (k + 1)..n
    BY <1>1, <2>2, <2>4, <2>5
  <2>7. left(k) \in Line
    <3>1. SubSeq(text, k, open(k) - 1) \in Line
      BY <1>1, <2>2, SubSeqIs DEF Line
    <3>2. <<text[open(k)], text[open(k)]>> \in Line
      <4>1. text[open(k)] \in Token
        BY <1>1, <2>2 DEF Line
      <4> HIDE DEF Token
      <4> QED BY <4>1 DEF Line
    <3> QED BY <3>1, <3>2, ConcatProperties DEF Line
  <2> HIDE DEF left
  <2>8. \A q \in Line : turn[k][q] = left(k) \o q
    OBVIOUS
  <2>9. \A q \in Line : left(k) \o q \in Line
    BY <2>7, ConcatProperties DEF Line
  <2> QED BY <2>4, <2>6, <2>8, <2>9
<1> HIDE DEF quotes, open, closes, left, stop, base, jump, turn
<1>5b. JumpsInto(1, n, Line, stop, base, jump, turn)
  BY <1>2, <1>3 DEF JumpsInto
<1>5c. \A k \in 1..n : k \notin stop => jump[k] = Lowest(closes(k)) + 1
  BY <1>3
<1>5. PICK g : Jumps(g, 1, n, stop, base, jump, turn) /\ \A k \in 1..n : g[k] \in Line
  BY ONLY <1>1, <1>5b, JumpsRun
<1>6. g = [k \in 1..n |-> IF quotes(k) = {} \/ closes(k) = {} THEN Drop(text, k - 1)
                          ELSE left(k) \o g[Lowest(closes(k)) + 1]]
  <2>1. \A k \in 1..n : k \notin stop => g[jump[k]] \in Line /\ jump[k] \in 1..n
    <3> SUFFICES ASSUME NEW k \in 1..n, k \notin stop PROVE jump[k] \in 1..n
      BY <1>5
    <3>1. jump[k] \in (k + 1)..n
      BY <1>3
    <3> QED BY <1>1, <3>1
  <2>2. \A k \in 1..n : k \notin stop => turn[k][g[jump[k]]] = left(k) \o g[Lowest(closes(k)) + 1]
    BY <1>3, <2>1
  <2>3. \A k \in 1..n : (IF k \in stop THEN base[k] ELSE turn[k][g[jump[k]]])
                          = IF quotes(k) = {} \/ closes(k) = {} THEN Drop(text, k - 1)
                            ELSE left(k) \o g[Lowest(closes(k)) + 1]
    BY <1>2, <1>4, <2>2
  <2> QED BY <1>5, <2>3 DEF Jumps
<1> DEFINE f == CHOOSE h : h = [k \in 1..Len(text) + 1 |->
                  IF quotes(k) = {} \/ closes(k) = {} THEN Drop(text, k - 1)
                  ELSE SubSeq(text, k, open(k) - 1) \o <<text[open(k)], text[open(k)]>>
                       \o h[Lowest(closes(k)) + 1]]
<1>7. f = [k \in 1..n |-> IF quotes(k) = {} \/ closes(k) = {} THEN Drop(text, k - 1)
                          ELSE left(k) \o f[Lowest(closes(k)) + 1]]
  BY <1>1, <1>6 DEF left
<1>8. CollapseStrings(line) = IF IsInclude(line) THEN line ELSE f[1]
  BY DEF CollapseStrings, text, quotes, open, closes
<1> HIDE DEF f
<1>9. \A k \in 1..n : f[k] \in Line
  <2>1. \A k \in 1..n : k \in stop => f[k] \in Line
    BY <1>2, <1>4, <1>7
  <2>2. \A k \in 1..n : k \notin stop => jump[k] \in (k + 1)..n
    BY <1>3
  <2>3. \A k \in 1..n : k \notin stop /\ f[jump[k]] \in Line => f[k] \in Line
    <3> SUFFICES ASSUME NEW k \in 1..n, k \notin stop, f[jump[k]] \in Line PROVE f[k] \in Line
      OBVIOUS
    <3>1. f[k] = left(k) \o f[jump[k]]
      <4>1. f[k] = left(k) \o f[Lowest(closes(k)) + 1]
        BY <1>4, <1>7
      <4> QED BY <1>5c, <4>1
    <3>2. \A q \in Line : left(k) \o q \in Line
      BY <1>3
    <3> QED BY <1>3, <3>1, <3>2
  <2>4. KeptByJumps(f, 1, n, Line, stop, jump)
    BY <2>1, <2>2, <2>3 DEF KeptByJumps
  <2>5. n \in Int /\ 1 \in Int
    BY <1>1
  <2> QED BY ONLY <2>4, <2>5, JumpsKeep
<1> QED BY <1>1, <1>8, <1>9

\* The text of a file: every kind of its lines is a line for every number up to the last.
IsText(c, n) == c.raw \in Lines(n) /\ c.noRaw \in Lines(n) /\ c.lines \in Lines(n) /\ c.elided \in Lines(n)

LEMMA MarkedIs ==
  ASSUME NEW lines \in Seq(Seq(STRING))
  PROVE  Marked(lines) \in Lines(Len(lines) + 1)
<1>1. Marker \in Line
  BY DEF Marker, Line, Token
<1>2. \A i \in DOMAIN lines : lines[i] \in Line
  BY DEF Line, Token
<1>3. \A i \in 0..Len(lines) + 1 : (IF i \in DOMAIN lines THEN lines[i] ELSE Marker) \in Line
  BY <1>1, <1>2
<1> QED BY <1>3 DEF Marked, Lines

LEMMA TextIs ==
  ASSUME NEW n \in Nat, NEW lines \in Lines(n)
  PROVE  /\ RemoveMultiLineComments(lines) \in Lines(n)
         /\ IsText(CleansedLines(lines), n)
<1>1. DOMAIN lines = 0..n /\ \A i \in 0..n : lines[i] \in Line
  BY DEF Lines
<1>2. RemoveMultiLineComments(lines) \in Lines(n)
  <2>1. CommentLine \in Line
    BY DEF CommentLine, Line, Token
  <2> HIDE DEF CommentLine
  <2> QED BY <1>1, <2>1 DEF RemoveMultiLineComments, Lines
<1> DEFINE noRaw == CleanseRawStrings(lines)
<1>3. noRaw \in Lines(n) /\ \A i \in 0..n : noRaw[i] \in Line
  BY CleanseRawStringsIs DEF Lines
<1> HIDE DEF noRaw
<1>4. /\ [i \in DOMAIN lines |-> CleanseComments(noRaw[i])] \in Lines(n)
      /\ [i \in DOMAIN lines |-> CleanseComments(CollapseStrings(noRaw[i]))] \in Lines(n)
  BY <1>1, <1>3, CleanseCommentsIs, CollapseStringsIs DEF Lines
<1> QED BY <1>2, <1>3, <1>4 DEF CleansedLines, IsText, noRaw

-----------------------------------------------------------------------------
(* The blocks on the stack. *)

Kinds == {"class", "namespace", "extern", "block"}

\* What a block may be of inline assembly: only where a line has the token may it be any but
\* "no".  The lemmas hold of all text, and of that without assembly.
AllAsms == {"no", "inside", "end", "block"}
AreAsms(asms) == asms = AllAsms \/ asms = {"no"}
TokensOf(asms) == {t \in Token : t = "asm" => asms = AllAsms}
LinesOf(asms) == Seq(TokensOf(asms))

Blocks(asms) ==
  [kind : Kinds, line : Nat, seen : BOOLEAN, parens : Int, asm : asms, name : Token \cup {""},
   indent : Nat, access : Token \cup AccessTokens \cup {""}, lastLine : Nat]
Stacks(asms) == Seq(Blocks(asms))
NestingStates(asms) ==
  [stack : Stacks(asms), previous : {<< >>} \cup Nat \X Nat \X Kinds,
   pp : Seq([beforeIf : Stacks(asms), beforeElse : Stacks(asms), seenElse : BOOLEAN])]

LEMMA LinesAre ==
  /\ LinesOf(AllAsms) = Line
  /\ \A asms : TokensOf(asms) \subseteq Token /\ \A line \in LinesOf(asms) : line \in Line
<1>1. TokensOf(AllAsms) = Token /\ \A asms : TokensOf(asms) \subseteq Token
  BY DEF TokensOf
<1>2. ASSUME NEW asms, NEW line \in LinesOf(asms) PROVE line \in Line
  <2> HIDE DEF Token
  <2> QED BY <1>1, <1>2 DEF LinesOf, Line
<1> QED BY <1>1, <1>2 DEF LinesOf, Line

\* Only where assembly is allowed does a line begin with it.
LEMMA MatchAsmIs ==
  ASSUME NEW asms, NEW line \in LinesOf(asms), MatchAsm(line)
  PROVE  asms = AllAsms
<1>1. PICK a \in DOMAIN line : line[a] = "asm"
  BY DEF MatchAsm
<1>2. line[a] \in TokensOf(asms)
  BY <1>1 DEF LinesOf
<1> QED BY <1>1, <1>2 DEF TokensOf

\* The lines of a text are lines of any text.
LEMMA ElidedIs ==
  ASSUME NEW last \in Nat, NEW c, IsText(c, last), NEW n \in 0..last
  PROVE  c.elided[n] \in LinesOf(AllAsms) /\ AreAsms(AllAsms)
BY LinesAre DEF IsText, Lines, AreAsms

LEMMA BlockIs ==
  ASSUME NEW asms, AreAsms(asms), NEW kind \in Kinds, NEW n \in Nat, NEW seen \in BOOLEAN
  PROVE  Block(kind, n, seen) \in Blocks(asms)
BY DEF Block, Blocks, AreAsms, AllAsms

LEMMA CountIs ==
  ASSUME NEW S, NEW line \in Seq(S), NEW token
  PROVE  Count(line, token) \in Nat
<1>1. At(line, token) \subseteq 1..Len(line) /\ Len(line) \in Nat
  BY DEF At
<1>2. IsFiniteSet(At(line, token))
  <2>1. IsFiniteSet(1..Len(line))
    BY <1>1, FS_Interval
  <2> QED BY <1>1, <2>1, FS_Subset
<1> QED BY <1>2, FS_CardinalityType DEF Count

LEMMA TopIs ==
  ASSUME NEW S, NEW stack \in Seq(S), stack # << >>
  PROVE  /\ Len(stack) \in Nat \ {0} /\ Len(stack) \in DOMAIN stack /\ Top(stack) \in S
         /\ Pop(stack) \in Seq(S)
<1>1. Len(stack) \in Nat \ {0} /\ Len(stack) \in 1..Len(stack)
  OBVIOUS
<1>2. Len(stack) - 1 \in Int /\ Len(stack) - 1 <= Len(stack)
  BY <1>1
<1>3. Take(stack, Len(stack) - 1) \in Seq(S)
  BY <1>2, TakeIs
<1> QED BY <1>1, <1>3 DEF Top, Pop

\* A block of the stack is replaced by another.
LEMMA ReplacedIs ==
  ASSUME NEW S, NEW stack \in Seq(S), NEW i \in DOMAIN stack, NEW block \in S
  PROVE  [stack EXCEPT ![i] = block] \in Seq(S)
OBVIOUS

LEMMA CountParenthesesIs ==
  ASSUME NEW asms, AreAsms(asms), NEW stack \in Stacks(asms), NEW line \in LinesOf(asms)
  PROVE  CountParentheses(stack, line) \in Stacks(asms)
<1> DEFINE change == Count(line, "(") - Count(line, ")")
           open == Top(stack).parens + change
           asm == CASE Top(stack).asm \in {"no", "end"} ->
                         IF change # 0 /\ open = 1 /\ MatchAsm(line) THEN "inside" ELSE "no"
                    [] Top(stack).asm = "inside" /\ open = 0 -> "end"
                    [] OTHER -> Top(stack).asm
           top == [Top(stack) EXCEPT !.parens = open, !.asm = asm]
<1>1. change \in Int
  BY CountIs DEF LinesOf
<1> HIDE DEF change
<1>2. CASE stack # << >>
  <2>1. Top(stack) \in Blocks(asms) /\ Len(stack) \in DOMAIN stack
    BY <1>2, TopIs DEF Stacks
  <2>2. open \in Int
    <3>1. Top(stack).parens \in Int
      BY <2>1 DEF Blocks
    <3> QED BY <1>1, <3>1
  <2> HIDE DEF open
  <2>3. asm \in asms
    <3>1. Top(stack).asm \in asms
      BY <2>1 DEF Blocks
    <3>2. MatchAsm(line) => asms = AllAsms
      BY MatchAsmIs
    <3> QED BY <3>1, <3>2 DEF AreAsms, AllAsms
  <2> HIDE DEF asm
  <2>4. top \in Blocks(asms)
    BY <2>1, <2>2, <2>3 DEF Blocks
  <2>5. CountParentheses(stack, line) = [stack EXCEPT ![Len(stack)] = top]
    BY <1>2, <2>1 DEF CountParentheses, Stacks, change, open, asm, Top
  <2> HIDE DEF top
  <2> QED BY <2>1, <2>4, <2>5, ReplacedIs DEF Stacks
<1> QED BY <1>2 DEF CountParentheses

\* What is left of a line behind one of its tokens.
LEMMA LowestOf ==
  ASSUME NEW T, NEW line \in Seq(T), NEW S \in SUBSET (DOMAIN line), S # {}
  PROVE  Lowest(S) \in S /\ Lowest(S) \in 1..Len(line) /\ line[Lowest(S)] \in T
<1>1. DOMAIN line = 1..Len(line) /\ S \subseteq Nat
  OBVIOUS
<1>2. Lowest(S) \in S
  BY <1>1, LowestIs
<1> QED BY <1>1, <1>2

LEMMA HighestOf ==
  ASSUME NEW T, NEW line \in Seq(T), NEW S \in SUBSET (DOMAIN line), S # {}
  PROVE  Highest(S) \in S /\ Highest(S) \in 1..Len(line) /\ line[Highest(S)] \in T
<1>1. DOMAIN line = 1..Len(line) /\ Len(line) \in Int /\ 1 \in Int
  OBVIOUS
<1>2. Highest(S) \in S
  BY <1>1, HighestIs
<1> QED BY <1>1, <1>2

Pushed(asms) == [stack : Stacks(asms), line : LinesOf(asms)]

LEMMA PushNamespaceIs ==
  ASSUME NEW asms, AreAsms(asms), NEW before \in Pushed(asms), NEW n \in Nat
  PROVE  PushNamespace(before, n) \in Pushed(asms)
<1> DEFINE text == before.line
           words == {i \in DOMAIN text : text[i] # Space}
           first == Lowest(words)
           second == Lowest(words \ {first})
           named == words # {first} /\ IsWord(text[second])
           name == IF named THEN text[second] ELSE ""
           seen == Has(text, "{")
           block == [Block("namespace", n, seen) EXCEPT !.name = name]
           rest == IF block.seen THEN Lowest(At(text, "{")) ELSE IF named THEN second ELSE first
<1>1. text \in LinesOf(asms) /\ before.stack \in Stacks(asms)
  BY DEF Pushed
<1>2. CASE words = {} \/ text[first] # "namespace"
  BY <1>2 DEF PushNamespace
<1>3. CASE ~(words = {} \/ text[first] # "namespace")
  <2>1. words \subseteq DOMAIN text /\ words # {}
    BY <1>3
  <2>2. first \in words /\ first \in 1..Len(text)
    BY <1>1, <2>1, LowestOf DEF LinesOf
  <2>3. ASSUME named PROVE second \in 1..Len(text) /\ text[second] \in Token
    <3>1. words \ {first} # {} /\ words \ {first} \subseteq DOMAIN text
      <4> HIDE DEF words, first
      <4> QED BY <2>1, <2>2, <2>3
    <3> HIDE DEF words, first, text, Token
    <3>2. text \in Seq(Token)
      BY <1>1, LinesAre DEF Line
    <3> QED BY <3>1, <3>2, LowestOf
  <2>4. ASSUME seen PROVE Lowest(At(text, "{")) \in 1..Len(text)
    <3>1. At(text, "{") \subseteq DOMAIN text /\ At(text, "{") # {}
      BY <2>4 DEF Has, At
    <3> HIDE DEF text
    <3> QED BY <1>1, <3>1, LowestOf DEF LinesOf
  <2>5. name \in Token \cup {""} /\ seen \in BOOLEAN
    <3> HIDE DEF named, Token, text, second
    <3> QED BY <2>3 DEF Has
  <2>6. PushNamespace(before, n) = [stack |-> Append(before.stack, block), line |-> Drop(text, rest)]
    BY <1>3 DEF PushNamespace
  <2> HIDE DEF text, words, first, second, named, name, seen
  <2>7. block \in Blocks(asms) /\ block.seen = seen
    <3>1. Block("namespace", n, seen) \in Blocks(asms)
      BY <2>5, BlockIs DEF Kinds
    <3> QED BY <2>5, <3>1 DEF Blocks, Block
  <2> HIDE DEF block
  <2>8. rest \in Nat
    <3>1. Len(text) \in Nat /\ 1..Len(text) \subseteq Nat
      BY <1>1 DEF LinesOf
    <3>2. first \in Nat /\ (named => second \in Nat) /\ (seen => Lowest(At(text, "{")) \in Nat)
      BY <2>2, <2>3, <2>4, <3>1
    <3> QED BY <2>7, <3>2
  <2> HIDE DEF rest
  <2>9. Drop(text, rest) \in LinesOf(asms)
    BY <1>1, <2>8, DropIs DEF LinesOf
  <2> HIDE DEF Blocks
  <2>10. Append(before.stack, block) \in Stacks(asms)
    BY <1>1, <2>7 DEF Stacks
  <2> QED BY <2>6, <2>9, <2>10 DEF Pushed
<1> QED BY <1>2, <1>3

LEMMA PushNamespacesIs ==
  ASSUME NEW asms, AreAsms(asms), NEW stack \in Stacks(asms), NEW line \in LinesOf(asms), NEW n \in Nat
  PROVE  PushNamespaces(stack, line, n) \in Pushed(asms)
<1> DEFINE m == Len(line)
           base == [stack |-> stack, line |-> line]
           T == [k \in 0..m |-> Pushed(asms)]
           turn == [k \in 1..m |-> [b \in Pushed(asms) |-> PushNamespace(b, n)]]
<1>1. m \in Nat /\ m \in Int /\ 0 \in Int /\ 0 <= m
  BY DEF LinesOf
<1>2. \A i \in (0 + 1)..m : i \in 1..m /\ i \in 0..m /\ i - 1 \in 0..m /\ i # 0
  BY <1>1
<1>3. \A i \in (0 + 1)..m : \A b \in T[i - 1] : turn[i][b] = PushNamespace(b, n) /\ turn[i][b] \in T[i]
  <2> HIDE DEF m
  <2> QED BY <1>2, PushNamespaceIs
<1>4. base \in T[0] /\ m \in 0..m /\ \A i \in 0..m : T[i] = Pushed(asms)
  <2>1. base \in Pushed(asms)
    BY DEF Pushed
  <2> HIDE DEF base
  <2> QED BY <1>1, <2>1
<1> HIDE DEF T, turn, m, base
<1>5. PICK g : Runs(g, 0, m, base, turn) /\ \A i \in 0..m : g[i] \in T[i]
  <2>1. \A i \in (0 + 1)..m : \A b \in T[i - 1] : turn[i][b] \in T[i]
    BY <1>3
  <2> QED BY ONLY <1>1, <1>4, <2>1, LoopRuns
<1>6. g = [k \in 0..m |-> IF k = 0 THEN base ELSE PushNamespace(g[k - 1], n)]
  <2>1. \A i \in 0..m : i # 0 => i \in (0 + 1)..m
    BY <1>1
  <2>2. \A i \in 0..m : i # 0 => turn[i][g[i - 1]] = PushNamespace(g[i - 1], n)
    BY <1>2, <1>3, <1>5, <2>1
  <2> QED BY <1>5, <2>2 DEF Runs
<1> DEFINE f == CHOOSE h : h = [k \in 0..m |-> IF k = 0 THEN base ELSE PushNamespace(h[k - 1], n)]
<1>7. f = [k \in 0..m |-> IF k = 0 THEN base ELSE PushNamespace(f[k - 1], n)]
  BY <1>6
<1>8. PushNamespaces(stack, line, n) = f[m]
  BY DEF PushNamespaces, PushNamespace, m, base
<1> HIDE DEF f
<1>9. f[m] \in T[m]
  <2>1. f[0] \in T[0]
    BY <1>1, <1>4, <1>7
  <2>2. ASSUME NEW i \in (0 + 1)..m, f[i - 1] \in T[i - 1] PROVE f[i] \in T[i]
    BY <1>2, <1>4, <1>7, <2>2, PushNamespaceIs
  <2> QED BY ONLY <1>1, <2>1, <2>2, LoopKeeps
<1> QED BY <1>4, <1>8, <1>9

LEMMA IndentLevelIs ==
  ASSUME NEW line \in Line
  PROVE  IndentLevel(line) \in Nat
<1> DEFINE S == {i \in DOMAIN line : line[i] # Space} \cup {Len(line) + 1}
<1>1. S \subseteq Nat \ {0} /\ S # {} /\ S \subseteq Nat
  BY DEF Line
<1> HIDE DEF S
<1>2. Lowest(S) \in S
  BY <1>1, LowestIs
<1>3. Lowest(S) - 1 \in Nat
  <2>1. Lowest(S) \in Nat \ {0}
    BY <1>1, <1>2
  <2> QED BY <2>1
<1> QED BY <1>3 DEF IndentLevel, LeadingSpaces, S

LEMMA ClassNameIs ==
  ASSUME NEW line \in Line, ClassName(line) # {}
  PROVE  /\ Lowest(ClassName(line)) \in 1..Len(line)
         /\ line[Lowest(ClassName(line))] \in Token
<1> DEFINE template(p) ==
             /\ FirstToken(line) = "template" /\ LastToken(Take(line, p)) = ">"
             /\ \A i \in 1..p : line[i] \in {Space, "<", ">", ",", ":", "::"} \/ IsWord(line[i])
           heads == {p \in At(line, "class") \cup At(line, "struct") :
                       /\ IsBlankLine(Take(line, p - 1)) \/ template(p - 1)
                       /\ \E i \in p + 1..Len(line) : line[i] # Space
                       /\ IsWord(FirstToken(Drop(line, p)))}
           p == Highest(heads)
           names == {i \in p + 1..Len(line) : line[i] # Space}
<1>1. ClassName(line) = IF heads = {} THEN {} ELSE {Lowest(names)}
  BY DEF ClassName
<1>2. heads # {}
  <2> HIDE DEF heads, names
  <2> QED BY <1>1
<1>3. heads \subseteq DOMAIN line
  BY DEF At
<1>4. \A q \in heads : \E i \in q + 1..Len(line) : line[i] # Space
  OBVIOUS
<1> HIDE DEF heads
<1>5. p \in heads /\ p \in 1..Len(line)
  BY <1>2, <1>3, HighestOf DEF Line
<1> HIDE DEF p
<1>6. names # {} /\ names \subseteq DOMAIN line
  BY <1>4, <1>5 DEF Line
<1> HIDE DEF names
<1>7. Lowest(names) \in 1..Len(line) /\ line[Lowest(names)] \in Token
  BY <1>6, LowestOf DEF Line
<1>8. ClassName(line) = {Lowest(names)} /\ Lowest(names) \in Nat
  BY <1>1, <1>2, <1>7 DEF Line
<1>9. Lowest(ClassName(line)) = Lowest(names)
  BY <1>8, LowestIs
<1> QED BY <1>7, <1>9

LEMMA ClassBlockIs ==
  ASSUME NEW asms, AreAsms(asms), NEW last \in Nat, NEW c, IsText(c, last), NEW n \in 0..last,
         NEW line \in LinesOf(asms), NEW nameAt, line[nameAt] \in Token
  PROVE  ClassBlock(c, line, n, nameAt) \in Blocks(asms)
<1> DEFINE depth[i \in n - 1..Highest(DOMAIN c.elided)] ==
             IF i < n THEN 0
             ELSE depth[i - 1] + Count(c.elided[i], "{") - Count(c.elided[i], "}")
           ends == {i \in n..Highest(DOMAIN c.elided) : depth[i] = 0}
           indent == IndentLevel(c.raw[n])
           access == IF Has(Take(line, nameAt), "struct") THEN "public:" ELSE "private:"
           lastLine == IF ends = {} THEN 0 ELSE Lowest(ends)
           block == Block("class", n, FALSE)
<1>1. DOMAIN c.elided = 0..last /\ c.raw[n] \in Line /\ n \in Nat
  BY DEF IsText, Lines
<1>2. Highest(DOMAIN c.elided) \in 0..last
  <2>1. last \in Int /\ 0 \in Int /\ 0..last # {} /\ 0..last \in SUBSET (0..last)
    OBVIOUS
  <2> QED BY <1>1, <2>1, HighestIs
<1>3. lastLine \in Nat
  <2> HIDE DEF depth
  <2>1. ends \subseteq Nat
    BY <1>1, <1>2
  <2> HIDE DEF ends
  <2> QED BY <2>1, LowestIs
<1>4. indent \in Nat
  BY <1>1, IndentLevelIs
<1>5. access \in AccessTokens
  BY DEF AccessTokens
<1>6. ClassBlock(c, line, n, nameAt)
        = [block EXCEPT !.name = line[nameAt], !.indent = indent, !.access = access, !.lastLine = lastLine]
  BY DEF ClassBlock
<1>7. block \in Blocks(asms)
  BY <1>1, BlockIs DEF Kinds
<1> HIDE DEF block, lastLine, access, indent, Token, AccessTokens, Kinds
<1>8. [block EXCEPT !.name = line[nameAt], !.indent = indent, !.access = access, !.lastLine = lastLine] \in Blocks(asms)
  BY <1>3, <1>4, <1>5, <1>7 DEF Blocks
<1> QED BY <1>6, <1>8

LEMMA PushClassIs ==
  ASSUME NEW asms, AreAsms(asms), NEW last \in Nat, NEW c, IsText(c, last), NEW n \in 0..last,
         NEW line \in LinesOf(asms), NEW stack \in Stacks(asms)
  PROVE  PushClass(stack, line, c, n) \in Pushed(asms)
<1> DEFINE nameAt == Lowest(ClassName(line))
           block == ClassBlock(c, line, n, nameAt)
<1>1. PushClass(stack, line, c, n) = [stack |-> stack, line |-> line]
      \/ (ClassName(line) # {} /\ PushClass(stack, line, c, n)
            = [stack |-> Append(stack, block), line |-> Drop(line, nameAt)])
  BY DEF PushClass
<1>2. ASSUME ClassName(line) # {} PROVE Append(stack, block) \in Stacks(asms) /\ Drop(line, nameAt) \in LinesOf(asms)
  <2>1. nameAt \in 1..Len(line) /\ line[nameAt] \in Token
    BY <1>2, ClassNameIs, LinesAre
  <2>2. nameAt \in Nat
    BY <2>1 DEF LinesOf
  <2> HIDE DEF nameAt
  <2>3. block \in Blocks(asms)
    BY <2>1, ClassBlockIs
  <2> HIDE DEF block
  <2>4. Drop(line, nameAt) \in LinesOf(asms)
    BY <2>2, DropIs DEF LinesOf
  <2> QED BY <2>3, <2>4 DEF Stacks
<1> HIDE DEF nameAt, block
<1>3. [stack |-> stack, line |-> line] \in Pushed(asms)
  BY DEF Pushed
<1>4. ASSUME ClassName(line) # {}
      PROVE  [stack |-> Append(stack, block), line |-> Drop(line, nameAt)] \in Pushed(asms)
  BY <1>2, <1>4 DEF Pushed
<1> QED BY <1>1, <1>3, <1>4

LEMMA SetAccessIs ==
  ASSUME NEW asms, AreAsms(asms), NEW stack \in Stacks(asms), NEW line \in LinesOf(asms)
  PROVE  SetAccess(stack, line) \in Stacks(asms)
<1> DEFINE S == Accesses(stack, line)
           top == [Top(stack) EXCEPT !.access = line[Highest(S)]]
<1>1. CASE S = {}
  BY <1>1 DEF SetAccess
<1>2. CASE S # {}
  <2>1. stack # << >> /\ S \in SUBSET (DOMAIN line)
    BY <1>2 DEF Accesses, Innermost
  <2> HIDE DEF S
  <2>2. line[Highest(S)] \in Token
    <3>1. line \in Seq(Token)
      BY LinesAre DEF Line
    <3> HIDE DEF Token
    <3> QED BY <1>2, <2>1, <3>1, HighestOf
  <2>3. Top(stack) \in Blocks(asms) /\ Len(stack) \in DOMAIN stack
    BY <2>1, TopIs DEF Stacks
  <2>4. top \in Blocks(asms)
    <3> HIDE DEF Token, AccessTokens, Kinds
    <3> QED BY <2>2, <2>3 DEF Blocks
  <2>5. SetAccess(stack, line) = [stack EXCEPT ![Len(stack)] = top]
    BY <1>2, <2>3 DEF SetAccess, S, Top
  <2> HIDE DEF top
  <2> QED BY <2>3, <2>4, <2>5, ReplacedIs DEF Stacks
<1> QED BY <1>1, <1>2

LEMMA ConsumeStepIs ==
  ASSUME NEW asms, AreAsms(asms), NEW stack \in Stacks(asms), NEW segment \in LinesOf(asms),
         NEW token, NEW n \in Nat
  PROVE  ConsumeStep(stack, segment, token, n) \in Stacks(asms)
<1> DEFINE extern == Words(segment) = <<"extern", DQ, DQ, "{">> /\ segment[1] = "extern"
           plain == Block("block", n, TRUE)
           block == IF MatchAsm(segment) THEN [plain EXCEPT !.asm = "block"] ELSE plain
           top == [Top(stack) EXCEPT !.seen = TRUE]
<1>1. \/ ConsumeStep(stack, segment, token, n) = stack
      \/ ConsumeStep(stack, segment, token, n) = Pop(stack) /\ stack # << >>
      \/ ConsumeStep(stack, segment, token, n) = [stack EXCEPT ![Len(stack)].seen = TRUE] /\ stack # << >>
      \/ ConsumeStep(stack, segment, token, n) = Append(stack, Block("extern", n, TRUE))
      \/ ConsumeStep(stack, segment, token, n) = Append(stack, block)
  <2> HIDE DEF extern
  <2>1. CASE token = "{"
    BY <2>1 DEF ConsumeStep, SeenOpenBrace, extern
  <2>2. CASE token \in {";", ")"}
    BY <2>2 DEF ConsumeStep, SeenOpenBrace
  <2>3. CASE token = "}"
    BY <2>3 DEF ConsumeStep
  <2>4. CASE token \notin {"{", ";", ")", "}"}
    BY <2>4 DEF ConsumeStep
  <2> QED BY <2>1, <2>2, <2>3, <2>4
<1>2. Block("extern", n, TRUE) \in Blocks(asms) /\ plain \in Blocks(asms)
  BY BlockIs DEF Kinds
<1>3. block \in Blocks(asms)
  <2>1. MatchAsm(segment) => "block" \in asms
    BY MatchAsmIs DEF AllAsms
  <2> HIDE DEF plain, Token, AccessTokens, Kinds
  <2> QED BY <1>2, <2>1 DEF Blocks
<1> HIDE DEF block
<1>4. ASSUME stack # << >> PROVE Pop(stack) \in Stacks(asms) /\ [stack EXCEPT ![Len(stack)].seen = TRUE] \in Stacks(asms)
  <2>1. Top(stack) \in Blocks(asms) /\ Len(stack) \in DOMAIN stack /\ Pop(stack) \in Stacks(asms)
    BY <1>4, TopIs DEF Stacks
  <2>2. top \in Blocks(asms)
    <3> HIDE DEF Token, AccessTokens, Kinds
    <3> QED BY <2>1 DEF Blocks
  <2>3. [stack EXCEPT ![Len(stack)].seen = TRUE] = [stack EXCEPT ![Len(stack)] = top]
    BY <2>1 DEF Top
  <2> HIDE DEF top
  <2> QED BY <2>1, <2>2, <2>3, ReplacedIs DEF Stacks
<1>5. \A b \in Blocks(asms) : Append(stack, b) \in Stacks(asms)
  BY DEF Stacks
<1> QED BY <1>1, <1>2, <1>3, <1>4, <1>5

Consumed(asms) == [stack : Stacks(asms), upTo : Nat, ended : Stacks(asms)]

LEMMA ConsumeTokenIs ==
  ASSUME NEW asms, AreAsms(asms), NEW before \in Consumed(asms), NEW line \in LinesOf(asms),
         NEW i \in 1..Len(line), NEW n \in Nat
  PROVE  ConsumeToken(before, line, i, n) \in Consumed(asms)
<1> DEFINE stack == ConsumeStep(before.stack, SubSeq(line, before.upTo + 1, i), line[i], n)
           ended == IF line[i] = "}" /\ before.stack # << >>
                    THEN Append(before.ended, Top(before.stack)) ELSE before.ended
<1>1. before.stack \in Stacks(asms) /\ before.ended \in Stacks(asms)
  BY DEF Consumed
<1>2. stack \in Stacks(asms)
  <2>1. before.upTo + 1 \in Nat /\ 1 <= before.upTo + 1 /\ i \in Int /\ i <= Len(line)
    BY DEF Consumed, LinesOf
  <2>2. SubSeq(line, before.upTo + 1, i) \in LinesOf(asms)
    BY <2>1, SubSeqIs DEF LinesOf
  <2> QED BY <1>1, <2>2, ConsumeStepIs
<1>3. ended \in Stacks(asms)
  <2>1. ASSUME before.stack # << >> PROVE Append(before.ended, Top(before.stack)) \in Stacks(asms)
    <3>1. Top(before.stack) \in Blocks(asms)
      BY <1>1, <2>1, TopIs DEF Stacks
    <3> QED BY <1>1, <3>1 DEF Stacks
  <2> QED BY <1>1, <2>1
<1>4. ConsumeToken(before, line, i, n) \in {before, [stack |-> stack, upTo |-> i, ended |-> ended]}
  BY DEF ConsumeToken
<1> HIDE DEF stack, ended
<1>5. [stack |-> stack, upTo |-> i, ended |-> ended] \in Consumed(asms)
  BY <1>2, <1>3 DEF Consumed, LinesOf
<1> QED BY <1>4, <1>5

LEMMA ConsumeIs ==
  ASSUME NEW asms, AreAsms(asms), NEW stack \in Stacks(asms), NEW line \in LinesOf(asms), NEW n \in Nat
  PROVE  Consume(stack, line, n) \in Consumed(asms)
<1> DEFINE m == Len(line)
           base == [stack |-> stack, upTo |-> 0, ended |-> << >>]
           T == [k \in 0..m |-> Consumed(asms)]
           turn == [k \in 1..m |-> [b \in Consumed(asms) |-> ConsumeToken(b, line, k, n)]]
<1>1. m \in Nat /\ m \in Int /\ 0 \in Int /\ 0 <= m
  BY DEF LinesOf
<1>2. \A i \in (0 + 1)..m : i \in 1..m /\ i \in 0..m /\ i - 1 \in 0..m /\ i # 0 /\ i \in Nat
  BY <1>1
<1>3. \A i \in (0 + 1)..m : \A b \in T[i - 1] :
        turn[i][b] = ConsumeToken(b, line, i, n) /\ turn[i][b] \in T[i]
  <2>1. 1..Len(line) = 1..m
    OBVIOUS
  <2> HIDE DEF m
  <2> QED BY <1>2, <2>1, ConsumeTokenIs
<1>4. base \in T[0] /\ m \in 0..m /\ \A i \in 0..m : T[i] = Consumed(asms)
  <2>1. base \in Consumed(asms)
    BY EmptySeq DEF Consumed, Stacks
  <2> HIDE DEF base
  <2> QED BY <1>1, <2>1
<1> HIDE DEF T, turn, base
<1>10. \A i \in (0 + 1)..m : i \in 1..Len(line)
  BY <1>2
<1> HIDE DEF m
<1>5. PICK g : Runs(g, 0, m, base, turn) /\ \A i \in 0..m : g[i] \in T[i]
  <2>1. \A i \in (0 + 1)..m : \A b \in T[i - 1] : turn[i][b] \in T[i]
    BY <1>3
  <2> QED BY ONLY <1>1, <1>4, <2>1, LoopRuns
<1>6. g = [k \in 0..m |-> IF k = 0 THEN base ELSE ConsumeToken(g[k - 1], line, k, n)]
  <2>1. \A i \in 0..m : i # 0 => i \in (0 + 1)..m
    BY <1>1
  <2>2. \A i \in 0..m : i # 0 => turn[i][g[i - 1]] = ConsumeToken(g[i - 1], line, i, n)
    BY <1>2, <1>3, <1>5, <2>1
  <2> QED BY <1>5, <2>2 DEF Runs
<1> DEFINE f == CHOOSE h : h = [k \in 0..m |-> IF k = 0 THEN base ELSE ConsumeToken(h[k - 1], line, k, n)]
<1>7. f = [k \in 0..m |-> IF k = 0 THEN base ELSE ConsumeToken(f[k - 1], line, k, n)]
  BY <1>6
<1>8. Consume(stack, line, n) = f[m]
  BY DEF Consume, m, base
<1> HIDE DEF f
<1>9. f[m] \in T[m]
  <2>1. f[0] \in T[0]
    BY <1>1, <1>4, <1>7
  <2>2. ASSUME NEW i \in (0 + 1)..m, f[i - 1] \in T[i - 1] PROVE f[i] \in T[i]
    BY <1>2, <1>4, <1>7, <1>10, <2>2, ConsumeTokenIs
  <2> QED BY ONLY <1>1, <2>1, <2>2, LoopKeeps
<1> QED BY <1>4, <1>8, <1>9

LEMMA UpdateStackIs ==
  ASSUME NEW asms, AreAsms(asms), NEW last \in Nat, NEW c, IsText(c, last), NEW n \in 0..last,
         c.elided[n] \in LinesOf(asms), NEW stack \in Stacks(asms)
  PROVE  /\ BeforeConsume(stack, c, n) \in Pushed(asms)
         /\ UpdateStack(stack, c, n) \in Consumed(asms)
<1>1. n \in Nat
  OBVIOUS
<1>2. CountParentheses(stack, c.elided[n]) \in Stacks(asms)
  BY <1>1, CountParenthesesIs
<1> DEFINE namespaces == PushNamespaces(CountParentheses(stack, c.elided[n]), c.elided[n], n)
           before == BeforeConsume(stack, c, n)
<1>3. namespaces \in Pushed(asms)
  BY <1>1, <1>2, PushNamespacesIs
<1>4. namespaces.stack \in Stacks(asms) /\ namespaces.line \in LinesOf(asms)
  BY <1>3 DEF Pushed
<1>5. before \in Pushed(asms)
  BY <1>4, PushClassIs DEF BeforeConsume
<1> HIDE DEF before, namespaces
<1>6. before.stack \in Stacks(asms) /\ before.line \in LinesOf(asms)
  BY <1>5 DEF Pushed
<1>7. SetAccess(before.stack, before.line) \in Stacks(asms)
  BY <1>6, SetAccessIs
<1>8. UpdateStack(stack, c, n) \in Consumed(asms)
  BY <1>1, <1>6, <1>7, ConsumeIs DEF UpdateStack, ConsumeRest, before
<1> QED BY <1>5, <1>8 DEF before

LEMMA UpdatePreprocessorIs ==
  ASSUME NEW asms, AreAsms(asms), NEW state \in NestingStates(asms), NEW directive
  PROVE  UpdatePreprocessor(state, directive) \in NestingStates(asms)
<1> DEFINE Branches == [beforeIf : Stacks(asms), beforeElse : Stacks(asms), seenElse : BOOLEAN]
           pushed == [beforeIf |-> state.stack, beforeElse |-> << >>, seenElse |-> FALSE]
           top == Top(state.pp)
           branch == IF top.seenElse THEN top
                     ELSE [top EXCEPT !.seenElse = TRUE, !.beforeElse = state.stack]
           chosen == IF top.seenElse THEN top.beforeElse ELSE state.stack
<1>1. state.stack \in Stacks(asms) /\ state.pp \in Seq(Branches)
  BY DEF NestingStates
<1>2. pushed \in Branches
  BY <1>1, EmptySeq DEF Stacks
<1>3. CASE directive \in Conditionals
  <2>1. UpdatePreprocessor(state, directive) = [state EXCEPT !.pp = Append(state.pp, pushed)]
    BY <1>3 DEF UpdatePreprocessor, Conditionals, Alternatives
  <2> HIDE DEF pushed
  <2>2. Append(state.pp, pushed) \in Seq(Branches)
    BY <1>1, <1>2
  <2> QED BY <2>1, <2>2 DEF NestingStates
<1>4. ASSUME state.pp # << >>
      PROVE  /\ branch \in Branches /\ top.beforeIf \in Stacks(asms) /\ chosen \in Stacks(asms)
             /\ Len(state.pp) \in DOMAIN state.pp /\ Pop(state.pp) \in Seq(Branches)
  <2>1. top \in Branches /\ Len(state.pp) \in DOMAIN state.pp /\ Pop(state.pp) \in Seq(Branches)
    <3> HIDE DEF Branches
    <3> QED BY <1>1, <1>4, TopIs
  <2> HIDE DEF top
  <2> QED BY <1>1, <2>1
<1>5. CASE directive \in Alternatives /\ state.pp # << >>
  <2>1. directive \notin Conditionals
    BY <1>5 DEF Alternatives, Conditionals
  <2>2. UpdatePreprocessor(state, directive)
          = [state EXCEPT !.pp = [state.pp EXCEPT ![Len(state.pp)] = branch], !.stack = top.beforeIf]
    <3>1. UpdatePreprocessor(state, directive)
            = [state EXCEPT !.pp[Len(state.pp)] = IF @.seenElse THEN @
                                                  ELSE [@ EXCEPT !.seenElse = TRUE, !.beforeElse = state.stack],
                            !.stack = top.beforeIf]
      BY <1>5, <2>1 DEF UpdatePreprocessor, Alternatives
    <3> QED BY <1>4, <1>5, <3>1 DEF Top, NestingStates
  <2> HIDE DEF branch, top
  <2>3. [state.pp EXCEPT ![Len(state.pp)] = branch] \in Seq(Branches)
    <3> HIDE DEF Branches
    <3> QED BY <1>1, <1>4, <1>5, ReplacedIs
  <2>4. top.beforeIf \in Stacks(asms)
    BY <1>4, <1>5
  <2> QED BY <2>2, <2>3, <2>4 DEF NestingStates
<1>6. CASE directive = "#endif" /\ state.pp # << >>
  <2>1. directive \notin Conditionals /\ directive \notin Alternatives
    BY <1>6 DEF Alternatives, Conditionals
  <2>2. UpdatePreprocessor(state, directive)
          = [state EXCEPT !.pp = Pop(state.pp), !.stack = chosen]
    BY <1>6, <2>1, Zenon DEF UpdatePreprocessor
  <2> HIDE DEF chosen
  <2>3. Pop(state.pp) \in Seq(Branches) /\ chosen \in Stacks(asms)
    BY <1>4, <1>6
  <2> QED BY <2>2, <2>3 DEF NestingStates
<1>7. CASE /\ directive \notin Conditionals
           /\ ~(directive \in Alternatives /\ state.pp # << >>)
           /\ ~(directive = "#endif" /\ state.pp # << >>)
  BY <1>7 DEF UpdatePreprocessor
<1> QED BY <1>3, <1>5, <1>6, <1>7

LEMMA UpdateIs ==
  ASSUME NEW asms, AreAsms(asms), NEW last \in Nat, NEW c, IsText(c, last), NEW n \in 0..last,
         c.elided[n] \in LinesOf(asms), NEW state \in NestingStates(asms)
  PROVE  Update(state, c, n) \in NestingStates(asms)
<1> DEFINE selected == UpdatePreprocessor(state, FirstToken(c.elided[n]))
           stack == UpdateStack(selected.stack, c, n).stack
           previous == IF state.stack = << >> THEN << >>
                       ELSE <<Len(state.stack), Top(state.stack).line, Top(state.stack).kind>>
<1>1. selected \in NestingStates(asms)
  BY UpdatePreprocessorIs
<1>2. state.stack \in Stacks(asms) /\ selected.stack \in Stacks(asms)
  BY <1>1 DEF NestingStates
<1> HIDE DEF selected
<1>3. UpdateStack(selected.stack, c, n) \in Consumed(asms)
  BY <1>2, UpdateStackIs
<1>4. stack \in Stacks(asms)
  BY <1>3 DEF Consumed
<1>5. previous \in {<< >>} \cup Nat \X Nat \X Kinds
  <2>1. CASE state.stack # << >>
    <3>1. Top(state.stack) \in Blocks(asms) /\ Len(state.stack) \in Nat
      BY <1>2, <2>1, TopIs DEF Stacks
    <3>2. Top(state.stack).line \in Nat /\ Top(state.stack).kind \in Kinds
      BY <3>1 DEF Blocks
    <3> QED BY <2>1, <3>1, <3>2
  <2> QED BY <2>1
<1>6. Update(state, c, n) = [stack |-> stack, pp |-> selected.pp, previous |-> previous]
  BY DEF Update, selected
<1> HIDE DEF stack, previous
<1> QED BY <1>1, <1>4, <1>5, <1>6 DEF NestingStates

-----------------------------------------------------------------------------
(* The errors. *)

\* A list of errors, each of a category there is; but for what is said of the headers a file
\* lacks, which only the end of the file tells.
LineCategories == ErrorCategories \ {IncludeWhatYouUse}
AnyErrors(errors) == \E S : errors \in Seq(S) /\ \A e \in S : e.category \in ErrorCategories
IsErrors(errors) == \E S : errors \in Seq(S) /\ \A e \in S : e.category \in LineCategories

LEMMA LineErrorsAreErrors ==
  ASSUME NEW errors, IsErrors(errors)
  PROVE  AnyErrors(errors)
BY DEF IsErrors, AnyErrors, LineCategories

LEMMA ErrorsAre ==
  ASSUME NEW S, NEW errors \in Seq(S), \A e \in S : e.category \in LineCategories
  PROVE  IsErrors(errors)
BY DEF IsErrors

LEMMA NoErrors == IsErrors(<< >>)
<1> DEFINE none == << >>
<1>1. none \in Seq({})
  BY EmptySeq
<1> HIDE DEF none
<1>2. IsErrors(none)
  BY <1>1, ErrorsAre
<1> QED BY <1>2 DEF none

LEMMA OneError ==
  ASSUME NEW n, NEW category \in LineCategories, NEW confidence
  PROVE  IsErrors(<<Found(n, category, confidence)>>)
<1> DEFINE e == Found(n, category, confidence)
<1>1. e.category = category
  BY DEF Found
<1> HIDE DEF e
<1> DEFINE one == <<e>>
<1>2. one \in Seq({e})
  OBVIOUS
<1>3. \A q \in {e} : q.category \in LineCategories
  BY <1>1
<1> HIDE DEF one
<1>4. IsErrors(one)
  BY <1>2, <1>3, ErrorsAre
<1> QED BY <1>4 DEF e, one

LEMMA MoreErrors ==
  ASSUME NEW first, IsErrors(first), NEW second, IsErrors(second)
  PROVE  IsErrors(first \o second)
<1>1. PICK S : first \in Seq(S) /\ \A e \in S : e.category \in LineCategories
  BY DEF IsErrors
<1>2. PICK T : second \in Seq(T) /\ \A e \in T : e.category \in LineCategories
  BY DEF IsErrors
<1>3. first \in Seq(S \cup T) /\ second \in Seq(S \cup T)
  BY <1>1, <1>2
<1>4. first \o second \in Seq(S \cup T)
  BY <1>3, ConcatProperties
<1>5. \A e \in S \cup T : e.category \in LineCategories
  BY <1>1, <1>2
<1> QED BY <1>4, <1>5 DEF IsErrors

LEMMA CategoriesOf ==
  ASSUME NEW errors, IsErrors(errors)
  PROVE  \A e \in ToSet(errors) : e.category \in LineCategories
<1>1. PICK S : errors \in Seq(S) /\ \A e \in S : e.category \in LineCategories
  BY DEF IsErrors
<1> QED BY <1>1 DEF ToSet

LEMMA MoreAnyErrors ==
  ASSUME NEW first, AnyErrors(first), NEW second, AnyErrors(second)
  PROVE  AnyErrors(first \o second)
<1>1. PICK S : first \in Seq(S) /\ \A e \in S : e.category \in ErrorCategories
  BY DEF AnyErrors
<1>2. PICK T : second \in Seq(T) /\ \A e \in T : e.category \in ErrorCategories
  BY DEF AnyErrors
<1>3. first \in Seq(S \cup T) /\ second \in Seq(S \cup T)
  BY <1>1, <1>2
<1>4. first \o second \in Seq(S \cup T)
  BY <1>3, ConcatProperties
<1>5. \A e \in S \cup T : e.category \in ErrorCategories
  BY <1>1, <1>2
<1> QED BY <1>4, <1>5 DEF AnyErrors

LEMMA MembersOfErrors ==
  ASSUME NEW first, AnyErrors(first), NEW second, AnyErrors(second)
  PROVE  ToSet(first \o second) = ToSet(first) \cup ToSet(second)
BY MembersOfBoth DEF AnyErrors

LEMMA ErrorWhen ==
  ASSUME NEW condition, NEW n, NEW category \in LineCategories, NEW confidence
  PROVE  IsErrors(When(condition, <<Found(n, category, confidence)>>))
BY OneError, NoErrors DEF When

LEMMA ErrorsWhen ==
  ASSUME NEW condition, NEW errors, IsErrors(errors)
  PROVE  IsErrors(When(condition, errors))
BY NoErrors DEF When

\* One list of errors for each of the members of a list.
LEMMA ErrorsOfAll ==
  ASSUME NEW n \in Nat, NEW lists, lists = [i \in 1..n |-> lists[i]], \A i \in 1..n : IsErrors(lists[i])
  PROVE  IsErrors(FlattenSeq(lists))
<1> DEFINE S == UNION {{lists[i][j] : j \in 1..Len(lists[i])} : i \in 1..n}
<1>1. \A i \in 1..n : lists[i] \in Seq(S)
  <2> SUFFICES ASSUME NEW i \in 1..n PROVE lists[i] \in Seq(S)
    OBVIOUS
  <2>1. PICK R : lists[i] \in Seq(R)
    BY DEF IsErrors
  <2>2. \A j \in 1..Len(lists[i]) : lists[i][j] \in S
    OBVIOUS
  <2> HIDE DEF S
  <2> QED BY <2>1, <2>2
<1>2. \A e \in S : e.category \in LineCategories
  <2> SUFFICES ASSUME NEW i \in 1..n, NEW j \in 1..Len(lists[i])
               PROVE  lists[i][j].category \in LineCategories
    OBVIOUS
  <2>1. PICK R : lists[i] \in Seq(R) /\ \A e \in R : e.category \in LineCategories
    BY DEF IsErrors
  <2> QED BY <2>1
<1> HIDE DEF S
<1>3. lists \in Seq(Seq(S))
  BY <1>1
<1>4. CASE lists = << >>
  BY <1>4, FlattenEmpty, NoErrors
<1>5. CASE lists # << >>
  <2>1. PICK f : /\ \A i \in 1..Len(lists) :
                      f[i] \in Seq(S) /\ f[i] = IF i = 1 THEN lists[i] ELSE f[i - 1] \o lists[i]
                 /\ FlattenSeq(lists) = f[Len(lists)]
    BY ONLY <1>3, <1>5, FlattenRuns
  <2>2. Len(lists) \in 1..Len(lists)
    BY <1>3, <1>5
  <2>3. FlattenSeq(lists) \in Seq(S)
    BY <2>1, <2>2
  <2> QED BY <1>2, <2>3 DEF IsErrors
<1> QED BY <1>4, <1>5

LEMMA Categories ==
  /\ Include \in LineCategories /\ IncludeAlpha \in LineCategories /\ IncludeOrder \in LineCategories
  /\ BuildClass \in LineCategories
  /\ BuildNamespaces \in LineCategories /\ BuildHeaderGuard \in LineCategories
  /\ Cxx11 \in LineCategories /\ Copyright \in LineCategories /\ Braces \in LineCategories
  /\ Constructors \in LineCategories /\ FnSize \in LineCategories
  /\ MultilineComment \in LineCategories /\ MultilineString \in LineCategories
  /\ NamespaceEnd \in LineCategories /\ NolintCategory \in LineCategories /\ Utf8 \in LineCategories
  /\ IndentationNamespace \in LineCategories /\ BlankLine \in LineCategories
  /\ WhitespaceBraces \in LineCategories /\ EmptyConditionalBody \in LineCategories
  /\ EmptyIfBody \in LineCategories /\ EmptyLoopBody \in LineCategories
  /\ EndOfLine \in LineCategories /\ EndingNewline \in LineCategories /\ Indent \in LineCategories
  /\ LineLength \in LineCategories /\ Newline \in LineCategories /\ Tab \in LineCategories
<1>1. \A category \in ErrorCategories : category # IncludeWhatYouUse => category \in LineCategories
  BY DEF LineCategories
<1>2. /\ \A a, b : <<a, b>> # IncludeWhatYouUse
      /\ \A b, c : <<"readability", b, c>> # IncludeWhatYouUse /\ <<"whitespace", b, c>> # IncludeWhatYouUse
      /\ \A c : c # "what_you_use" => <<"build", "include", c>> # IncludeWhatYouUse
  BY DEF IncludeWhatYouUse
<1> QED BY <1>1, <1>2 DEF ErrorCategories, Include, IncludeAlpha, IncludeOrder, BuildClass,
       BuildNamespaces, BuildHeaderGuard, Cxx11, Copyright, Braces, Constructors, FnSize,
       MultilineComment, MultilineString, NamespaceEnd, NolintCategory, Utf8, IndentationNamespace,
       BlankLine, WhitespaceBraces, EmptyConditionalBody, EmptyIfBody, EmptyLoopBody, EndOfLine,
       EndingNewline, Indent, LineLength, Newline, Tab

LEMMA SetToSeqIs ==
  ASSUME NEW S, IsFiniteSet(S)
  PROVE  SetToSeq(S) \in Seq(S)
<1> DEFINE n == Cardinality(S)
<1>1. n \in Nat /\ ExistsBijection(1..n, S)
  BY FS_CardinalityType
<1>2. \E f \in [1..n -> S] : IsInjective(f)
  BY <1>1 DEF ExistsBijection, Bijection, Injection, IsInjective
<1>3. SetToSeq(S) \in [1..n -> S]
  BY <1>2 DEF SetToSeq
<1> HIDE DEF n
<1> QED BY <1>1, <1>3

\* One list of errors for each of the members of a set of at most one.
LEMMA ErrorsOfSome ==
  ASSUME NEW S, S = {} \/ \E x : S = {x}, \A errors \in S : IsErrors(errors)
  PROVE  IsErrors(FlattenSeq(SetToSeq(S)))
<1> DEFINE lists == SetToSeq(S)
<1>1. IsFiniteSet(S)
  <2>1. IsFiniteSet({}) /\ \A x : IsFiniteSet({x})
    BY FS_EmptySet, FS_Singleton
  <2> QED BY ONLY <2>1, S = {} \/ \E x : S = {x}
<1>2. lists \in Seq(S)
  BY <1>1, SetToSeqIs
<1> HIDE DEF lists
<1>3. Len(lists) \in Nat /\ lists = [i \in 1..Len(lists) |-> lists[i]]
      /\ \A i \in 1..Len(lists) : IsErrors(lists[i])
  BY <1>2
<1>4. IsErrors(FlattenSeq(lists))
  BY <1>3, ErrorsOfAll
<1> QED BY <1>4 DEF lists

-----------------------------------------------------------------------------
(* What the checks report. *)

LEMMA EndErrorsAre ==
  ASSUME NEW blocks \in Stacks(AllAsms), NEW c, NEW n
  PROVE  IsErrors(EndErrors(blocks, c, n))
<1> DEFINE lists == [i \in DOMAIN blocks |->
                       CASE blocks[i].kind = "class" -> ClassEndErrors(blocks[i], c, n)
                         [] blocks[i].kind = "namespace" -> NamespaceEndErrors(blocks[i], c, n)
                         [] OTHER -> << >>]
<1>1. \A block : IsErrors(ClassEndErrors(block, c, n)) /\ IsErrors(NamespaceEndErrors(block, c, n))
  BY ErrorWhen, MoreErrors, Categories DEF ClassEndErrors, NamespaceEndErrors
<1>2. Len(blocks) \in Nat /\ DOMAIN blocks = 1..Len(blocks)
  BY DEF Stacks
<1>3. \A i \in 1..Len(blocks) : IsErrors(lists[i])
  BY <1>1, <1>2, NoErrors
<1>4. lists = [i \in 1..Len(blocks) |-> lists[i]]
  BY <1>2
<1> HIDE DEF lists
<1>5. IsErrors(FlattenSeq(lists))
  BY <1>2, <1>3, <1>4, ErrorsOfAll
<1> QED BY <1>5 DEF EndErrors, lists

LEMMA UpdateErrorsAre ==
  ASSUME NEW last \in Nat, NEW c, IsText(c, last), NEW n \in 0..last, NEW state \in NestingStates(AllAsms)
  PROVE  IsErrors(UpdateErrors(state, c, n))
<1> DEFINE stack == UpdatePreprocessor(state, FirstToken(c.elided[n])).stack
           before == BeforeConsume(stack, c, n)
           ended == UpdateStack(stack, c, n).ended
<1>1. stack \in Stacks(AllAsms)
  <2>1. UpdatePreprocessor(state, FirstToken(c.elided[n])) \in NestingStates(AllAsms)
    BY UpdatePreprocessorIs, ElidedIs
  <2> QED BY <2>1 DEF NestingStates
<1> HIDE DEF stack
<1>2. ended \in Stacks(AllAsms)
  <2>1. UpdateStack(stack, c, n) \in Consumed(AllAsms)
    BY <1>1, UpdateStackIs, ElidedIs
  <2> QED BY <2>1 DEF Consumed
<1> HIDE DEF ended, before
<1>3. IsErrors(AccessErrors(before.stack, before.line, n))
  BY ErrorWhen, Categories DEF AccessErrors
<1>4. IsErrors(EndErrors(ended, c, n))
  BY <1>2, EndErrorsAre
<1>5. UpdateErrors(state, c, n) = AccessErrors(before.stack, before.line, n) \o EndErrors(ended, c, n)
  BY DEF UpdateErrors, stack, before, ended
<1> QED BY <1>3, <1>4, <1>5, MoreErrors

LEMMA CompletedBlocksErrorsAre ==
  ASSUME NEW state \in NestingStates(AllAsms)
  PROVE  IsErrors(CompletedBlocksErrors(state))
<1> DEFINE lists == [i \in DOMAIN state.stack |->
                       LET block == state.stack[i]
                       IN CASE block.kind = "class" -> <<Found(block.line, BuildClass, 5)>>
                            [] block.kind = "namespace" -> <<Found(block.line, BuildNamespaces, 5)>>
                            [] OTHER -> << >>]
<1>1. \A line : IsErrors(<<Found(line, BuildClass, 5)>>) /\ IsErrors(<<Found(line, BuildNamespaces, 5)>>)
  BY OneError, Categories
<1>2. Len(state.stack) \in Nat /\ DOMAIN state.stack = 1..Len(state.stack)
  BY DEF Stacks, NestingStates
<1>3. \A i \in 1..Len(state.stack) : IsErrors(lists[i])
  BY <1>1, <1>2, NoErrors
<1>4. lists = [i \in 1..Len(state.stack) |-> lists[i]]
  BY <1>2
<1> HIDE DEF lists
<1>5. IsErrors(FlattenSeq(lists))
  BY <1>2, <1>3, <1>4, ErrorsOfAll
<1> QED BY <1>5 DEF CompletedBlocksErrors, lists

LEMMA BracesErrorsAre ==
  ASSUME NEW c, NEW n
  PROVE  IsErrors(BracesErrors(c, n))
<1>1. IsErrors(UnbracedBodyErrors(c, n))
  BY ErrorWhen, Categories DEF UnbracedBodyErrors
<1> DEFINE line == c.elided[n]
           previous == PreviousNonBlankLine(c, n)
           openEnds == {",", ";", ":", "}", "{", "("} \cup AccessTokens
           after == Words(Drop(line, Lowest(At(line, "else"))))
           open == When(Words(line) = <<"{">> /\ LastToken(previous) \notin openEnds
                        /\ FirstToken(previous) \notin Directives \cup {"#include", "#define"},
                        <<Found(n, WhitespaceBraces, 4)>>)
           else == When(FirstToken(line) = "else" /\ (after = <<>> \/ after[1] \in {"if", "{"})
                        /\ Words(previous) = <<"}">>, <<Found(n, Newline, 4)>>)
           sided == When(OneSidedElse(c, n), <<Found(n, Braces, 5)>>)
           short == When(ShortBody(line, "else") # {}
                         /\ \A i \in DOMAIN line : ~TextAt(line, i, <<"else", Space, "if">>),
                         <<Found(n, Newline, 4)>>)
           do == When(FirstToken(line) = "do" /\ Lowest(At(line, "do")) \in ShortBody(line, "do"),
                      <<Found(n, Newline, 4)>>)
<1>2. BracesErrors(c, n) = open \o else \o sided \o short \o do \o UnbracedBodyErrors(c, n)
  BY DEF BracesErrors
<1>3. IsErrors(open) /\ IsErrors(else) /\ IsErrors(sided) /\ IsErrors(short) /\ IsErrors(do)
  BY ErrorWhen, Categories
<1> HIDE DEF open, else, sided, short, do
<1> QED BY <1>1, <1>2, <1>3, MoreErrors

LEMMA TrailingSemicolonErrorsAre ==
  ASSUME NEW c, NEW n
  PROVE  IsErrors(TrailingSemicolonErrors(c, n))
<1> DEFINE places == StatementBrace(c, n)
           S == {SemicolonErrors(c, CloseExpression(c, n, i)) : i \in places}
<1>1. places = {} \/ \E x : places = {x}
  BY DEF StatementBrace
<1> HIDE DEF places
<1>2. \A i : IsErrors(SemicolonErrors(c, CloseExpression(c, n, i)))
  BY ErrorWhen, Categories DEF SemicolonErrors
<1>3. S = {} \/ \E x : S = {x}
  BY <1>1
<1>4. \A errors \in S : IsErrors(errors)
  BY <1>2
<1> HIDE DEF S
<1>5. IsErrors(FlattenSeq(SetToSeq(S)))
  BY <1>3, <1>4, ErrorsOfSome
<1> QED BY <1>5 DEF TrailingSemicolonErrors, S, places

LEMMA SectionSpacingErrorsAre ==
  ASSUME NEW state, NEW c, NEW n
  PROVE  IsErrors(SectionSpacingErrors(state, c, n))
<1> DEFINE spacing(class) ==
      LET previous == c.lines[n - 1]
          heads == {i \in class.line..n - 1 : LastToken(c.lines[i]) = "{"}
          headEnd == IF heads = {} THEN class.line ELSE Lowest(heads)
      IN When(/\ class.lastLine - class.line > MinClassLines /\ n > class.line
              /\ FirstToken(c.lines[n]) \in AccessTokens
              /\ ~IsBlankLine(previous) /\ ~Has(previous, "class") /\ ~Has(previous, "struct")
              /\ LastToken(previous) # BS /\ headEnd < n - 1,
              <<Found(n, BlankLine, 3)>>)
           classes == InnermostClass(state.stack)
           S == {spacing(class) : class \in classes}
<1>1. classes = {} \/ \E x : classes = {x}
  BY DEF InnermostClass
<1>2. \A class : IsErrors(spacing(class))
  BY ErrorWhen, Categories
<1> HIDE DEF spacing, classes
<1>3. S = {} \/ \E x : S = {x}
  BY <1>1
<1>4. \A errors \in S : IsErrors(errors)
  BY <1>2
<1> HIDE DEF S
<1>5. IsErrors(FlattenSeq(SetToSeq(S)))
  BY <1>3, <1>4, ErrorsOfSome
<1> QED BY <1>5 DEF SectionSpacingErrors, S, classes, spacing

LEMMA BlankLineErrorsAre ==
  ASSUME NEW state, NEW c, NEW n
  PROVE  IsErrors(BlankLineErrors(state, c, n))
BY ErrorWhen, ErrorsWhen, MoreErrors, Categories DEF BlankLineErrors

LEMMA EmptyBodyErrorsAre ==
  ASSUME NEW c, NEW n
  PROVE  IsErrors(EmptyBodyErrors(c, n))
<1> DEFINE line == c.elided[n]
           keyword == FirstToken(line)
           close == CloseExpression(c, n, Lowest(At(line, "(")))
           after == After(c, close)
           category == IF keyword = "if" THEN EmptyConditionalBody ELSE EmptyLoopBody
           first == When(after # << >> /\ after[1] = ";", <<Found(close.line, category, 5)>>)
           second == When(keyword = "if" /\ EmptyIf(c, close), <<Found(close.line, EmptyIfBody, 4)>>)
<1>1. category \in LineCategories
  BY Categories
<1>2. IsErrors(first)
  <2> HIDE DEF category, after, close
  <2> QED BY <1>1, ErrorWhen
<1>3. IsErrors(second)
  BY ErrorWhen, Categories
<1>4. EmptyBodyErrors(c, n) \in {<< >>, first \o second}
  BY DEF EmptyBodyErrors
<1> HIDE DEF first, second
<1> QED BY <1>2, <1>3, <1>4, NoErrors, MoreErrors

LEMMA PlainStyleErrorsAre ==
  ASSUME NEW n
  PROVE  IsErrors(PlainStyleErrors(n))
BY ErrorWhen, MoreErrors, Categories DEF PlainStyleErrors

LEMMA StyleErrorsAre ==
  ASSUME NEW state, NEW n
  PROVE  IsErrors(StyleErrors(state, n))
<1>1. IsErrors(AccessOfDisallowErrors(state, clean, n))
  BY ErrorWhen, Categories DEF AccessOfDisallowErrors
<1> QED BY <1>1, PlainStyleErrorsAre, BracesErrorsAre, TrailingSemicolonErrorsAre, EmptyBodyErrorsAre,
           BlankLineErrorsAre, SectionSpacingErrorsAre, MoreErrors DEF StyleErrors

LEMMA CheckLanguageErrorsAre ==
  ASSUME NEW n
  PROVE  IsErrors(CheckLanguageErrors(n))
<1>1. IsErrors(LanguageErrors(n))
  BY ErrorWhen, MoreErrors, Categories DEF LanguageErrors
<1>2. IsErrors(IncludeErrors(include, file, clean.lines[n], clean.elided[n - 1], n))
  BY ErrorWhen, MoreErrors, Categories DEF IncludeErrors
<1> QED BY <1>1, <1>2, ErrorsWhen DEF CheckLanguageErrors

LEMMA FunctionLengthErrorsAre ==
  ASSUME NEW state, NEW c, NEW verbose, NEW n
  PROVE  IsErrors(FunctionLengthErrors(state, c, verbose, n))
BY ErrorWhen, MoreErrors, Categories DEF FunctionLengthErrors

\* What ProcessLine reports of a line but for its NOLINT.
LEMMA LineErrorsAre ==
  ASSUME NEW last \in Nat, IsText(clean, last), NEW n \in 0..last, nesting \in NestingStates(AllAsms),
         NEW updated, NEW skipped
  PROVE  LET nested == UpdateErrors(nesting, clean, n) \o NamespaceIndentationErrors(updated, clean, n)
             checked == FunctionLengthErrors(function, clean, settings.verbose, n)
                        \o MultilineErrors(clean.elided[n], n) \o StyleErrors(updated, n)
                        \o CheckLanguageErrors(n)
             errors == nested \o When(~skipped, checked) \o Cxx11Errors(n)
         IN IsErrors(errors) /\ (~skipped => ToSet(CheckLanguageErrors(n)) \subseteq ToSet(errors))
<1> DEFINE nested == UpdateErrors(nesting, clean, n) \o NamespaceIndentationErrors(updated, clean, n)
           checked == FunctionLengthErrors(function, clean, settings.verbose, n)
                        \o MultilineErrors(clean.elided[n], n) \o StyleErrors(updated, n)
                        \o CheckLanguageErrors(n)
<1>1. IsErrors(nested)
  <2>1. IsErrors(NamespaceIndentationErrors(updated, clean, n))
    BY ErrorWhen, Categories DEF NamespaceIndentationErrors
  <2> QED BY <2>1, UpdateErrorsAre, MoreErrors
<1>2. IsErrors(checked)
  <2>1. IsErrors(MultilineErrors(clean.elided[n], n))
    BY ErrorWhen, MoreErrors, Categories DEF MultilineErrors
  <2> QED BY <2>1, FunctionLengthErrorsAre, StyleErrorsAre, CheckLanguageErrorsAre, MoreErrors
<1>6. ToSet(CheckLanguageErrors(n)) \subseteq ToSet(checked)
  <2> DEFINE rest == FunctionLengthErrors(function, clean, settings.verbose, n)
                     \o MultilineErrors(clean.elided[n], n) \o StyleErrors(updated, n)
  <2>1. IsErrors(MultilineErrors(clean.elided[n], n))
    BY ErrorWhen, MoreErrors, Categories DEF MultilineErrors
  <2>2. IsErrors(rest)
    BY <2>1, FunctionLengthErrorsAre, StyleErrorsAre, MoreErrors
  <2>3. checked = rest \o CheckLanguageErrors(n)
    OBVIOUS
  <2> HIDE DEF rest, checked
  <2> QED BY <2>2, <2>3, CheckLanguageErrorsAre, LineErrorsAreErrors, MembersOfErrors
<1>3. IsErrors(Cxx11Errors(n))
  BY ErrorWhen, Categories DEF Cxx11Errors
<1> HIDE DEF nested, checked
<1>4. IsErrors(When(~skipped, checked))
  BY <1>2, ErrorsWhen
<1>5. IsErrors(nested \o When(~skipped, checked) \o Cxx11Errors(n))
  BY <1>1, <1>3, <1>4, MoreErrors
<1>7. ASSUME ~skipped
      PROVE  ToSet(checked) \subseteq ToSet(nested \o When(~skipped, checked) \o Cxx11Errors(n))
  <2>1. When(~skipped, checked) = checked
    BY <1>7 DEF When
  <2>2. IsErrors(nested \o checked)
    BY <1>1, <1>2, MoreErrors
  <2>3. ToSet((nested \o checked) \o Cxx11Errors(n)) = ToSet(nested \o checked) \cup ToSet(Cxx11Errors(n))
    BY <1>3, <2>2, LineErrorsAreErrors, MembersOfErrors
  <2>4. ToSet(nested \o checked) = ToSet(nested) \cup ToSet(checked)
    BY <1>1, <1>2, LineErrorsAreErrors, MembersOfErrors
  <2> QED BY <2>1, <2>3, <2>4
<1>8. ~skipped => ToSet(CheckLanguageErrors(n))
                    \subseteq ToSet(nested \o When(~skipped, checked) \o Cxx11Errors(n))
  BY <1>6, <1>7
<1> QED BY <1>5, <1>8 DEF nested, checked

\* The headers that are needed and not there.
Needed == {Required[t].header : t \in DOMAIN Required}
Missing(state, f, c) == {h \in Needed : UseLines(c, h) # {} /\ h \notin VisibleHeaders(state, f)}

LEMMA IncludeWhatYouUseErrorsAre ==
  ASSUME NEW state, NEW f, NEW c
  PROVE  /\ AnyErrors(IncludeWhatYouUseErrors(state, f, c))
         /\ \A e \in ToSet(IncludeWhatYouUseErrors(state, f, c)) :
              \E h \in Missing(state, f, c) : e.line = Highest(UseLines(c, h))
<1> DEFINE needed == Needed
           S == Missing(state, f, c)
           missing == SetToSeq(S)
           errors == [i \in DOMAIN missing |-> Found(Highest(UseLines(c, missing[i])), IncludeWhatYouUse, 4)]
<1>1. IsFiniteSet(S)
  <2>1. IsFiniteSet(DOMAIN Required)
    BY RequiredAssumption
  <2> DEFINE header == [t \in DOMAIN Required |-> Required[t].header]
  <2>2. header \in Surjection(DOMAIN Required, needed)
    BY DEF Surjection, Needed
  <2> HIDE DEF header
  <2>3. IsFiniteSet(needed)
    BY <2>1, <2>2, FS_Surjection
  <2>4. S \subseteq needed
    BY DEF Missing
  <2> HIDE DEF needed, S
  <2> QED BY <2>3, <2>4, FS_Subset
<1> HIDE DEF S
<1>2. missing \in Seq(S)
  BY <1>1, SetToSeqIs
<1> HIDE DEF missing
<1>3. \A i \in DOMAIN missing : /\ errors[i].category = IncludeWhatYouUse
                                /\ errors[i].line = Highest(UseLines(c, missing[i]))
  BY DEF Found
<1>4. Len(missing) \in Nat /\ errors = [i \in 1..Len(missing) |-> errors[i]]
  BY <1>2
<1> DEFINE R == {errors[i] : i \in 1..Len(missing)}
<1>5. errors \in Seq(R)
  <2> HIDE DEF errors
  <2> QED BY <1>4
<1>6. \A e \in R : e.category \in ErrorCategories
  <2>1. DOMAIN missing = 1..Len(missing)
    BY <1>2
  <2> HIDE DEF errors
  <2> QED BY <2>1, <1>3 DEF ErrorCategories
<1>8. \A e \in ToSet(errors) : \E h \in S : e.line = Highest(UseLines(c, h))
  <2>1. \A i \in DOMAIN missing : missing[i] \in S
    BY <1>2
  <2>2. DOMAIN errors = DOMAIN missing
    OBVIOUS
  <2> HIDE DEF errors
  <2> QED BY <1>3, <2>1, <2>2 DEF ToSet
<1> HIDE DEF errors, R
<1> DEFINE none == <<>>
<1>7. AnyErrors(errors) /\ AnyErrors(none) /\ ToSet(none) = {}
  <2>1. DOMAIN none = {}
    OBVIOUS
  <2> QED BY <1>5, <1>6, <2>1, NoErrors, LineErrorsAreErrors DEF AnyErrors, ToSet
<1> HIDE DEF none
<1>9. IncludeWhatYouUseErrors(state, f, c) \in {errors, none}
  BY DEF When, IncludeWhatYouUseErrors, errors, none, missing, S, Missing, Needed
<1> QED BY <1>7, <1>8, <1>9 DEF S

LEMMA BadCharacterErrorsAre ==
  ASSUME NEW last \in Nat, NEW lines, DOMAIN lines = 0..last
  PROVE  IsErrors(BadCharacterErrors(lines))
<1> DEFINE lists == [n \in 1..last |-> When(Has(lines[n], "bad"), <<Found(n, Utf8, 5)>>)]
<1>1. Highest(DOMAIN lines) = last
  <2>1. last \in Int /\ 0 \in Int /\ 0..last # {} /\ 0..last \in SUBSET (0..last) /\ last \in 0..last
    OBVIOUS
  <2>2. Highest(0..last) \in 0..last /\ Highest(0..last) >= last
    BY <2>1, HighestIs
  <2> QED BY <2>2
<1>2. \A n \in 1..last : IsErrors(lists[n])
  BY ErrorWhen, Categories
<1>3. lists = [n \in 1..last |-> lists[n]]
  OBVIOUS
<1> HIDE DEF lists
<1>4. IsErrors(FlattenSeq(lists))
  BY <1>2, <1>3, ErrorsOfAll
<1> QED BY <1>1, <1>4 DEF BadCharacterErrors, lists

LEMMA LineEndErrorsAre ==
  ASSUME NEW f \in Files
  PROVE  IsErrors(LineEndErrors(f))
<1> DEFINE lists == [n \in DOMAIN f.lines |-> When(n \in f.crlf, <<Found(n, Newline, 1)>>)]
<1>1. Len(f.lines) \in Nat /\ DOMAIN f.lines = 1..Len(f.lines)
  BY FilesAssumption
<1>2. \A n \in 1..Len(f.lines) : IsErrors(lists[n])
  BY <1>1, ErrorWhen, Categories
<1>3. lists = [n \in 1..Len(f.lines) |-> lists[n]]
  BY <1>1
<1> HIDE DEF lists
<1>4. IsErrors(FlattenSeq(lists))
  BY <1>1, <1>2, <1>3, ErrorsOfAll
<1> QED BY <1>4, ErrorsWhen DEF LineEndErrors, lists

\* What Finish reports.
LEMMA FinishErrorsAre ==
  ASSUME NEW last \in Nat, IsText(clean, last), nesting \in NestingStates(AllAsms)
  PROVE  LET errors == CompletedBlocksErrors(nesting) \o IncludeWhatYouUseErrors(include, file, clean)
                       \o HeaderIncludedErrors(include, file) \o BadCharacterErrors(clean.raw)
                       \o NewlineAtEOFErrors(clean.raw)
         IN /\ AnyErrors(errors)
            /\ \A e \in ToSet(errors) : e.category \in LineCategories
                                        \/ e \in ToSet(IncludeWhatYouUseErrors(include, file, clean))
            /\ ToSet(BadCharacterErrors(clean.raw)) \subseteq ToSet(errors)
<1>1. IsErrors(HeaderIncludedErrors(include, file)) /\ IsErrors(NewlineAtEOFErrors(clean.raw))
  BY ErrorWhen, Categories DEF HeaderIncludedErrors, NewlineAtEOFErrors
<1>2. IsErrors(BadCharacterErrors(clean.raw))
  BY BadCharacterErrorsAre DEF IsText, Lines
<1> DEFINE first == CompletedBlocksErrors(nesting)
           second == IncludeWhatYouUseErrors(include, file, clean)
           third == HeaderIncludedErrors(include, file)
           fourth == BadCharacterErrors(clean.raw)
           fifth == NewlineAtEOFErrors(clean.raw)
<1>3. IsErrors(first) /\ IsErrors(third) /\ IsErrors(fourth) /\ IsErrors(fifth) /\ AnyErrors(second)
  BY <1>1, <1>2, CompletedBlocksErrorsAre, IncludeWhatYouUseErrorsAre
<1> HIDE DEF first, second, third, fourth, fifth
<1>4. AnyErrors(first) /\ AnyErrors(third) /\ AnyErrors(fourth) /\ AnyErrors(fifth)
  BY <1>3, LineErrorsAreErrors
<1>5. /\ AnyErrors(first \o second) /\ AnyErrors((first \o second) \o third)
      /\ AnyErrors(((first \o second) \o third) \o fourth)
  BY <1>3, <1>4, MoreAnyErrors
<1>6. AnyErrors((((first \o second) \o third) \o fourth) \o fifth)
  BY <1>4, <1>5, MoreAnyErrors
<1>7. ToSet((((first \o second) \o third) \o fourth) \o fifth)
        = ToSet(first) \cup ToSet(second) \cup ToSet(third) \cup ToSet(fourth) \cup ToSet(fifth)
  <2>1. ToSet(first \o second) = ToSet(first) \cup ToSet(second)
    BY <1>3, <1>4, MembersOfErrors
  <2>2. ToSet((first \o second) \o third) = ToSet(first \o second) \cup ToSet(third)
    BY <1>4, <1>5, MembersOfErrors
  <2>3. ToSet(((first \o second) \o third) \o fourth) = ToSet((first \o second) \o third) \cup ToSet(fourth)
    BY <1>4, <1>5, MembersOfErrors
  <2>4. ToSet((((first \o second) \o third) \o fourth) \o fifth)
          = ToSet(((first \o second) \o third) \o fourth) \cup ToSet(fifth)
    BY <1>4, <1>5, MembersOfErrors
  <2> QED BY <2>1, <2>2, <2>3, <2>4
<1>8. \A e \in ToSet(first) \cup ToSet(third) \cup ToSet(fourth) \cup ToSet(fifth) :
         e.category \in LineCategories
  BY <1>3, CategoriesOf
<1> QED BY <1>6, <1>7, <1>8 DEF first, second, third, fourth, fifth

-----------------------------------------------------------------------------
(* The counts. *)

IsSequence(s) == Len(s) \in Nat /\ s = [i \in 1..Len(s) |-> s[i]]

\* The errors printed of those found, and those of them that are counted by a name.
Printed(found) == {i \in DOMAIN found : found[i].printed}
NameOf(found, counting, i) == CountedAs(counting, found[i].error.category)
PrintedAs(found, counting, c) == {i \in Printed(found) : NameOf(found, counting, i) = c}

\* What CountsAgree says of the counts, with the errors found and the way to count given.
Agree(counts, counting, found) ==
  /\ counts.total = Cardinality(Printed(found))
  /\ counting # "total" =>
       /\ DOMAIN counts.by = {NameOf(found, counting, i) : i \in Printed(found)}
       /\ \A c \in DOMAIN counts.by : counts.by[c] = Cardinality(PrintedAs(found, counting, c))

Names == ErrorCategories \cup {<<c[1]>> : c \in ErrorCategories}
CountRecords == [total : Nat, by : UNION {[D -> Nat] : D \in SUBSET Names}]

\* longer is found with f behind it.
Extends(longer, found, f) ==
  /\ IsSequence(longer) /\ Len(longer) = Len(found) + 1
  /\ \A i \in 1..Len(found) : longer[i] = found[i]
  /\ longer[Len(found) + 1] = f

\* What one more error makes of the errors printed, and of those counted by the name c.
PrintedMore(longer, found, f, n) ==
  /\ n \notin Printed(found) /\ n \in DOMAIN longer /\ IsFiniteSet(Printed(found))
  /\ Printed(longer) = IF f.printed THEN Printed(found) \cup {n} ELSE Printed(found)
PrintedAsMore(longer, found, f, n, counting, c) ==
  /\ IsFiniteSet(PrintedAs(found, counting, c))
  /\ PrintedAs(longer, counting, c) =
       IF f.printed /\ CountedAs(counting, f.error.category) = c
       THEN PrintedAs(found, counting, c) \cup {n} ELSE PrintedAs(found, counting, c)

LEMMA PrintedNext ==
  ASSUME NEW found, IsSequence(found), NEW f, NEW longer, Extends(longer, found, f), NEW counting, NEW n,
         n = Len(found) + 1
  PROVE  /\ PrintedMore(longer, found, f, n)
         /\ NameOf(longer, counting, n) = CountedAs(counting, f.error.category)
         /\ \A i \in Printed(found) : NameOf(longer, counting, i) = NameOf(found, counting, i)
         /\ \A c : PrintedAsMore(longer, found, f, n, counting, c)
<1>1. /\ Len(found) \in Nat /\ n \in Nat /\ DOMAIN found = 1..Len(found)
      /\ DOMAIN longer = (1..Len(found)) \cup {n} /\ n \notin 1..Len(found) /\ longer[n] = f
      /\ \A i \in 1..Len(found) : longer[i] = found[i]
  <2>1. Len(found) \in Nat /\ DOMAIN found = 1..Len(found)
    BY DEF IsSequence
  <2>2. DOMAIN longer = 1..n /\ longer[n] = f /\ \A i \in 1..Len(found) : longer[i] = found[i]
    BY DEF Extends, IsSequence
  <2>3. 1..n = (1..Len(found)) \cup {n} /\ n \notin 1..Len(found) /\ n \in Nat
    BY <2>1
  <2> QED BY <2>1, <2>2, <2>3
<1>2. IsFiniteSet(Printed(found)) /\ \A c : IsFiniteSet(PrintedAs(found, counting, c))
  <2>1. IsFiniteSet(1..Len(found))
    <3>1. 1 \in Int /\ Len(found) \in Int
      BY <1>1
    <3> QED BY ONLY <3>1, FS_Interval
  <2>2. Printed(found) \subseteq 1..Len(found) /\ \A c : PrintedAs(found, counting, c) \subseteq 1..Len(found)
    BY <1>1 DEF Printed, PrintedAs
  <2> QED BY <2>1, <2>2, FS_Subset
<1>3. n \notin Printed(found)
  BY <1>1 DEF Printed
<1>4. Printed(longer) = IF f.printed THEN Printed(found) \cup {n} ELSE Printed(found)
  BY <1>1, Zenon DEF Printed
<1>5. \A i \in Printed(found) : NameOf(longer, counting, i) = NameOf(found, counting, i)
  BY <1>1 DEF Printed, NameOf
<1>6. NameOf(longer, counting, n) = CountedAs(counting, f.error.category)
  BY <1>1 DEF NameOf
<1>7. ASSUME NEW c PROVE PrintedAsMore(longer, found, f, n, counting, c)
  <2>1. PrintedAs(longer, counting, c) =
          IF f.printed /\ CountedAs(counting, f.error.category) = c
          THEN PrintedAs(found, counting, c) \cup {n} ELSE PrintedAs(found, counting, c)
    BY <1>3, <1>4, <1>5, <1>6 DEF PrintedAs
  <2> QED BY <1>2, <2>1 DEF PrintedAsMore
<1>8. PrintedMore(longer, found, f, n)
  BY <1>1, <1>2, <1>3, <1>4 DEF PrintedMore
<1> QED BY <1>5, <1>6, <1>7, <1>8

\* IncrementErrorCount counts what was printed, and nothing twice.
LEMMA CountedNext ==
  ASSUME NEW found, IsSequence(found), NEW f, NEW longer, Extends(longer, found, f),
         NEW counting, NEW counts \in CountRecords, Agree(counts, counting, found),
         f.error.category \in ErrorCategories
  PROVE  LET after == IF f.printed THEN IncrementErrorCount(counts, counting, f.error.category)
                      ELSE counts
         IN after \in CountRecords /\ Agree(after, counting, longer)
<1> DEFINE n == Len(found) + 1
           name == CountedAs(counting, f.error.category)
           after == IncrementErrorCount(counts, counting, f.error.category)
<1>a. n = Len(found) + 1
  OBVIOUS
<1> HIDE DEF n
<1>0. /\ PrintedMore(longer, found, f, n) /\ NameOf(longer, counting, n) = name
      /\ \A i \in Printed(found) : NameOf(longer, counting, i) = NameOf(found, counting, i)
      /\ \A c : PrintedAsMore(longer, found, f, n, counting, c)
  BY <1>a, PrintedNext
<1>1. /\ n \notin Printed(found) /\ n \in DOMAIN longer
      /\ IsFiniteSet(Printed(found)) /\ \A c : IsFiniteSet(PrintedAs(found, counting, c))
      /\ Printed(longer) = IF f.printed THEN Printed(found) \cup {n} ELSE Printed(found)
      /\ \A i \in Printed(found) : NameOf(longer, counting, i) = NameOf(found, counting, i)
      /\ \A c : PrintedAs(longer, counting, c) =
                  IF f.printed /\ name = c
                  THEN PrintedAs(found, counting, c) \cup {n} ELSE PrintedAs(found, counting, c)
  BY <1>0, Zenon DEF PrintedMore, PrintedAsMore
<1>2. NameOf(longer, counting, n) = name
  BY <1>0
<1>3. CASE ~f.printed
  <2>1. Printed(longer) = Printed(found) /\ \A c : PrintedAs(longer, counting, c) = PrintedAs(found, counting, c)
    BY <1>1, <1>3
  <2>2. {NameOf(longer, counting, i) : i \in Printed(longer)} = {NameOf(found, counting, i) : i \in Printed(found)}
    BY <1>1, <2>1
  <2> QED BY <1>3, <2>1, <2>2 DEF Agree
<1>4. CASE f.printed
  <2>1. after.total = counts.total + 1 /\ after.total \in Nat
    BY DEF IncrementErrorCount, CountRecords
  <2>2. after.total = Cardinality(Printed(longer))
    <3>1. Cardinality(Printed(found) \cup {n}) = Cardinality(Printed(found)) + 1
      BY <1>1, FS_AddElement
    <3>2. Printed(longer) = Printed(found) \cup {n}
      BY <1>1, <1>4
    <3> HIDE DEF after, n
    <3> QED BY <2>1, <3>1, <3>2 DEF Agree
  <2>3. CASE counting = "total"
    <3>1. after = [total |-> after.total, by |-> counts.by]
      BY <2>3 DEF IncrementErrorCount
    <3> HIDE DEF after
    <3>2. after \in CountRecords /\ Agree(after, counting, longer)
      BY <2>1, <2>2, <2>3, <3>1 DEF CountRecords, Agree
    <3> QED BY <1>4, <3>2 DEF after
  <2>4. CASE counting # "total"
    <3> DEFINE D == DOMAIN counts.by \cup {name}
               by == [c \in D |-> (IF c \in DOMAIN counts.by THEN counts.by[c] ELSE 0)
                                  + (IF c = name THEN 1 ELSE 0)]
    <3>1. after = [total |-> after.total, by |-> by]
      BY <2>4 DEF IncrementErrorCount
    <3>2. name \in Names
      BY DEF CountedAs, Names
    <3>3. PICK E \in SUBSET Names : counts.by \in [E -> Nat]
      BY DEF CountRecords
    <3>4. by \in [D -> Nat] /\ D \in SUBSET Names /\ DOMAIN by = D
      BY <3>2, <3>3
    <3>5. D = {NameOf(longer, counting, i) : i \in Printed(longer)}
      <4>1. Printed(longer) = Printed(found) \cup {n}
        BY <1>1, <1>4
      <4>2. DOMAIN counts.by = {NameOf(found, counting, i) : i \in Printed(found)}
        BY <2>4 DEF Agree
      <4>3. DOMAIN counts.by = {NameOf(longer, counting, i) : i \in Printed(found)}
        BY <1>1, <4>2
      <4> HIDE DEF name, n
      <4> QED BY <1>2, <4>1, <4>3
    <3>6. ASSUME NEW c \in D PROVE by[c] = Cardinality(PrintedAs(longer, counting, c))
      <4>1. c \in DOMAIN counts.by => counts.by[c] = Cardinality(PrintedAs(found, counting, c))
        BY <2>4 DEF Agree
      <4>2. c \notin DOMAIN counts.by => Cardinality(PrintedAs(found, counting, c)) = 0
        <5>1. DOMAIN counts.by = {NameOf(found, counting, i) : i \in Printed(found)}
          BY <2>4 DEF Agree
        <5>2. c \notin DOMAIN counts.by => PrintedAs(found, counting, c) = {}
          BY <5>1 DEF PrintedAs
        <5> QED BY <5>2, FS_EmptySet
      <4>3. n \notin PrintedAs(found, counting, c) /\ IsFiniteSet(PrintedAs(found, counting, c))
        BY <1>1 DEF PrintedAs
      <4>4. CASE c = name
        <5>1. PrintedAs(longer, counting, c) = PrintedAs(found, counting, c) \cup {n}
          BY <1>1, <1>4, <4>4
        <5>2. Cardinality(PrintedAs(longer, counting, c)) = Cardinality(PrintedAs(found, counting, c)) + 1
          BY <4>3, <5>1, FS_AddElement
        <5>3. by[c] = (IF c \in DOMAIN counts.by THEN counts.by[c] ELSE 0) + 1
          BY <4>4
        <5> QED BY <4>1, <4>2, <5>2, <5>3
      <4>5. CASE c # name
        <5>1. PrintedAs(longer, counting, c) = PrintedAs(found, counting, c)
          BY <1>1, <4>5
        <5>2. c \in DOMAIN counts.by /\ by[c] = counts.by[c] + 0 /\ counts.by[c] \in Nat
          BY <3>3, <4>5
        <5> QED BY <4>1, <5>1, <5>2
      <4> QED BY <4>4, <4>5
    <3> HIDE DEF by, D, after
    <3>7. after.by = by /\ after \in CountRecords
      <4>1. after.by = by
        BY <3>1
      <4>2. by \in UNION {[R -> Nat] : R \in SUBSET Names}
        BY <3>4
      <4> QED BY <2>1, <3>1, <4>1, <4>2 DEF CountRecords
    <3>8. Agree(after, counting, longer)
      BY <2>2, <3>4, <3>5, <3>6, <3>7 DEF Agree
    <3> QED BY <1>4, <3>7, <3>8 DEF after
  <2> QED BY <2>3, <2>4
<1> QED BY <1>3, <1>4

Joined(s, t, u) ==
  /\ IsSequence(u) /\ Len(u) = Len(s) + Len(t)
  /\ \A i \in 1..Len(s) : u[i] = s[i]
  /\ \A i \in 1..Len(t) : u[Len(s) + i] = t[i]

LEMMA JoinedIs ==
  ASSUME NEW s, IsSequence(s), NEW t, IsSequence(t)
  PROVE  /\ IsSequence(s \o t) /\ Len(s \o t) = Len(s) + Len(t)
         /\ \A i \in 1..Len(s) : (s \o t)[i] = s[i]
         /\ \A i \in 1..Len(t) : (s \o t)[Len(s) + i] = t[i]
<1> DEFINE S == {s[i] : i \in 1..Len(s)} \cup {t[i] : i \in 1..Len(t)}
<1>1. s \in Seq(S) /\ t \in Seq(S)
  <2>1. (\A i \in 1..Len(s) : s[i] \in S) /\ (\A i \in 1..Len(t) : t[i] \in S)
    OBVIOUS
  <2> HIDE DEF S
  <2> QED BY <2>1 DEF IsSequence
<1> HIDE DEF S
<1>2. s \o t \in Seq(S) /\ Len(s \o t) = Len(s) + Len(t)
  BY <1>1, ConcatProperties
<1>3. IsSequence(s \o t)
  <2> DEFINE u == s \o t
  <2>1. u \in Seq(S)
    BY <1>2
  <2> HIDE DEF u
  <2>2. IsSequence(u)
    BY <2>1 DEF IsSequence
  <2> QED BY <2>2 DEF u
<1> QED BY <1>1, <1>2, <1>3

-----------------------------------------------------------------------------
(* Reports. *)

\* The state reports is, with counts that agree with the errors in before and in its own.
AreShaped(rep) ==
  /\ DOMAIN rep = {"suppressions", "found", "counts"}
  /\ DOMAIN rep.suppressions = {"lines", "global"}
  /\ IsSequence(rep.found) /\ rep.counts \in CountRecords
AreReports(rep, counting, before) ==
  /\ AreShaped(rep)
  /\ Agree(rep.counts, counting, before \o rep.found)

\* What Error notes of an error.
Reported(e, suppressions, when) ==
  [error |-> e, when |-> when, printed |-> ShouldPrintError(settings, suppressions, e)]

\* after is rep with errors reported behind those found before.
Reports(after, rep, when) ==
  /\ after.suppressions = rep.suppressions
  /\ \A j \in DOMAIN after.found :
       \/ j \in DOMAIN rep.found /\ after.found[j] = rep.found[j]
       \/ \E e : e.category \in ErrorCategories /\ after.found[j] = Reported(e, rep.suppressions, when)

LEMMA ReportIs ==
  ASSUME NEW before, IsSequence(before), NEW rep, AreReports(rep, settings.counting, before),
         NEW errors, AnyErrors(errors), NEW when
  PROVE  /\ AreReports(Report(rep, errors, when), settings.counting, before)
         /\ Reports(Report(rep, errors, when), rep, when)
<1> DEFINE n == Len(errors)
           counting == settings.counting
           reported == [i \in DOMAIN errors |-> [error |-> errors[i], when |-> when,
                          printed |-> ShouldPrintError(settings, rep.suppressions, errors[i])]]
           found == rep.found \o reported
           all == before \o found
           K == Len(before) + Len(rep.found)
           prefix(i) == [j \in 1..K + i |-> all[j]]
<1>1. n \in Nat /\ DOMAIN errors = 1..n /\ \A i \in 1..n : errors[i].category \in ErrorCategories
  BY DEF AnyErrors
<1>2. IsSequence(reported) /\ Len(reported) = n
  BY <1>1 DEF IsSequence
<1>3. \A i \in 1..n : reported[i] = Reported(errors[i], rep.suppressions, when)
                      /\ reported[i].error = errors[i]
  BY <1>1 DEF Reported
<1>31. \A i \in 1..n : reported[i].error.category = errors[i].category
  BY <1>3
<1> HIDE DEF reported, n
<1>4. IsSequence(rep.found)
  BY DEF AreReports, AreShaped
<1>5. /\ IsSequence(found) /\ Len(found) = Len(rep.found) + n
      /\ \A i \in 1..Len(rep.found) : found[i] = rep.found[i]
      /\ \A i \in 1..n : found[Len(rep.found) + i] = reported[i]
  <2>1. \A s, t : IsSequence(s) /\ IsSequence(t) => Joined(s, t, s \o t)
    BY JoinedIs DEF Joined
  <2>2. Joined(rep.found, reported, found)
    BY <1>2, <1>4, <2>1 DEF found
  <2> QED BY <1>2, <2>2 DEF Joined
<1> HIDE DEF found
<1>6. /\ IsSequence(all) /\ Len(all) = Len(before) + Len(found)
      /\ \A i \in 1..Len(before) : all[i] = before[i]
      /\ \A i \in 1..Len(found) : all[Len(before) + i] = found[i]
  <2>1. \A s, t : IsSequence(s) /\ IsSequence(t) => Joined(s, t, s \o t)
    BY JoinedIs DEF Joined
  <2>2. Joined(before, found, all)
    BY <1>5, <2>1 DEF all
  <2> QED BY <2>2 DEF Joined
<1> HIDE DEF all
<1>7. Len(before) \in Nat /\ Len(rep.found) \in Nat /\ K \in Nat /\ Len(all) = K + n
  <2>1. \A s : IsSequence(s) => Len(s) \in Nat
    BY DEF IsSequence
  <2> QED BY <1>1, <1>4, <1>5, <1>6, <2>1
<1>8. \A i \in 1..n : all[K + i] = reported[i]
  <2> SUFFICES ASSUME NEW i \in 1..n PROVE all[K + i] = reported[i]
    OBVIOUS
  <2>1. Len(rep.found) + i \in 1..Len(found) /\ K + i = Len(before) + (Len(rep.found) + i)
    BY <1>1, <1>5, <1>7
  <2> HIDE DEF K
  <2> QED BY <1>5, <1>6, <2>1
<1>9. prefix(0) = before \o rep.found
  <2> DEFINE u == before \o rep.found
  <2>1. /\ IsSequence(u) /\ Len(u) = K
        /\ \A i \in 1..Len(before) : u[i] = before[i]
        /\ \A i \in 1..Len(rep.found) : u[Len(before) + i] = rep.found[i]
    BY <1>4, JoinedIs
  <2> HIDE DEF u
  <2>2. ASSUME NEW j \in 1..K PROVE all[j] = u[j]
    <3>1. CASE j <= Len(before)
      BY <1>6, <1>7, <2>1, <3>1
    <3>2. CASE j > Len(before)
      <4> DEFINE i == j - Len(before)
      <4>1. i \in 1..Len(rep.found) /\ i \in 1..Len(found) /\ j = Len(before) + i
        BY <1>1, <1>5, <1>7, <3>2
      <4> HIDE DEF i
      <4> QED BY <1>5, <1>6, <2>1, <4>1
    <3> QED BY <1>7, <3>1, <3>2
  <2> HIDE DEF K
  <2>3. prefix(0) = u
    BY <1>7, <2>1, <2>2 DEF IsSequence
  <2> QED BY <2>3 DEF u
<1>10. prefix(n) = all
  BY <1>6, <1>7 DEF IsSequence
<1>11. ASSUME NEW i \in 1..n PROVE Extends(prefix(i), prefix(i - 1), reported[i]) /\ IsSequence(prefix(i - 1))
  <2>1. Len(prefix(i)) = K + i /\ Len(prefix(i - 1)) = K + (i - 1) /\ i \in Nat /\ i - 1 \in Nat
    BY <1>1, <1>7
  <2>2. prefix(i)[K + i] = reported[i]
    BY <1>7, <1>8, <2>1
  <2>3. IsSequence(prefix(i)) /\ IsSequence(prefix(i - 1))
    <3>1. K + i \in Nat /\ K + (i - 1) \in Nat
      BY <1>7, <2>1
    <3>2. \A k \in Nat : IsSequence([j \in 1..k |-> all[j]])
      BY DEF IsSequence
    <3> HIDE DEF K
    <3> QED BY <3>1, <3>2
  <2>4. \A j \in 1..K + (i - 1) : prefix(i)[j] = prefix(i - 1)[j]
    <3>1. K + (i - 1) \in Nat /\ 1..K + (i - 1) \subseteq 1..K + i
      BY <1>7, <2>1
    <3> QED BY <3>1
  <2>5. K + i = (K + (i - 1)) + 1
    BY <1>7, <2>1
  <2> HIDE DEF K, prefix
  <2> QED BY <2>1, <2>2, <2>3, <2>4, <2>5 DEF Extends
<1> HIDE DEF prefix, K
<1> DEFINE T == [i \in 0..n |-> {c \in CountRecords : Agree(c, counting, prefix(i))}]
           base == rep.counts
           step(i, c) == IF reported[i].printed THEN IncrementErrorCount(c, counting, errors[i].category) ELSE c
           turn == [i \in 1..n |-> [c \in CountRecords |-> step(i, c)]]
<1>12. ASSUME NEW i \in 1..n, NEW c \in CountRecords, Agree(c, counting, prefix(i - 1))
       PROVE  step(i, c) \in CountRecords /\ Agree(step(i, c), counting, prefix(i))
  <2>1. reported[i].error.category = errors[i].category /\ errors[i].category \in ErrorCategories
    BY <1>1, <1>31
  <2>2. step(i, c) = IF reported[i].printed
                     THEN IncrementErrorCount(c, counting, reported[i].error.category) ELSE c
    BY <2>1
  <2> HIDE DEF step, counting
  <2> QED BY <1>11, <1>12, <2>1, <2>2, CountedNext
<1> HIDE DEF step, counting
<1>13. base \in T[0]
  <2>1. 0 \in 0..n /\ prefix(0) = before \o rep.found
    BY <1>1, <1>9
  <2>2. rep.counts \in CountRecords /\ Agree(rep.counts, counting, prefix(0))
    BY <2>1 DEF AreReports, AreShaped, counting
  <2> QED BY <2>1, <2>2
<1>14. /\ \A i \in 0..n : T[i] = {c \in CountRecords : Agree(c, counting, prefix(i))}
       /\ \A i \in 1..n : \A c \in CountRecords : turn[i][c] = step(i, c)
  OBVIOUS
<1> HIDE DEF T, turn, base
<1>15. \A i \in 1..n : \A c \in T[i - 1] : c \in CountRecords /\ turn[i][c] = step(i, c) /\ step(i, c) \in T[i]
  <2> SUFFICES ASSUME NEW i \in 1..n, NEW c \in T[i - 1]
               PROVE  c \in CountRecords /\ turn[i][c] = step(i, c) /\ step(i, c) \in T[i]
    OBVIOUS
  <2>1. i \in 0..n /\ i - 1 \in 0..n
    BY <1>1
  <2>2. c \in CountRecords /\ Agree(c, counting, prefix(i - 1))
    BY <1>14, <2>1
  <2> QED BY <1>12, <1>14, <2>1, <2>2
<1>16. n \in Int /\ 0 \in Int /\ 0 <= n
  BY <1>1
<1>17. PICK g : Runs(g, 0, n, base, turn) /\ \A i \in 0..n : g[i] \in T[i]
  <2>1. \A i \in (0 + 1)..n : \A c \in T[i - 1] : turn[i][c] \in T[i]
    BY <1>15
  <2> QED BY ONLY <1>13, <1>16, <2>1, LoopRuns
<1>18. g = [i \in 0..n |-> IF i = 0 THEN base ELSE step(i, g[i - 1])]
  <2>1. \A i \in 0..n : g[i] = IF i = 0 THEN base ELSE turn[i][g[i - 1]]
    BY <1>17 DEF Runs
  <2>2. \A i \in 0..n : i # 0 => i \in 1..n /\ i - 1 \in 0..n
    BY <1>1
  <2>3. \A i \in 0..n : i # 0 => turn[i][g[i - 1]] = step(i, g[i - 1])
    BY <1>15, <1>17, <2>2
  <2>4. g = [i \in 0..n |-> g[i]]
    BY <1>17 DEF Runs
  <2> QED BY <2>1, <2>3, <2>4
<1> DEFINE h == CHOOSE q : q = [i \in 0..n |-> IF i = 0 THEN base ELSE step(i, q[i - 1])]
<1>19. h = [i \in 0..n |-> IF i = 0 THEN base ELSE step(i, h[i - 1])]
  BY <1>18
<1>20. Report(rep, errors, when) = [rep EXCEPT !.found = found, !.counts = h[n]]
  BY DEF Report, reported, found, h, step, base, counting, n
<1> HIDE DEF h
<1>21. h[n] \in T[n]
  <2>1. h[0] \in T[0]
    BY <1>13, <1>16, <1>19
  <2>2. ASSUME NEW i \in (0 + 1)..n, h[i - 1] \in T[i - 1] PROVE h[i] \in T[i]
    <3>1. i \in 0..n /\ i # 0 /\ i \in 1..n
      BY <1>16
    <3>2. h[i] = step(i, h[i - 1])
      BY <1>19, <3>1
    <3> QED BY <1>15, <2>2, <3>1, <3>2
  <2> QED BY <1>16, <2>1, <2>2, LoopKeeps
<1>22. h[n] \in CountRecords /\ Agree(h[n], counting, all)
  BY <1>10, <1>14, <1>16, <1>21
<1> DEFINE after == Report(rep, errors, when)
<1>23. DOMAIN after = DOMAIN rep /\ after.found = found /\ after.counts = h[n] /\ after.suppressions = rep.suppressions
  BY <1>20 DEF AreReports, AreShaped
<1> HIDE DEF after
<1>24. AreReports(after, settings.counting, before)
  BY <1>5, <1>22, <1>23 DEF AreReports, AreShaped, all, counting
<1>25. ASSUME NEW j \in DOMAIN found
       PROVE  \/ j \in DOMAIN rep.found /\ found[j] = rep.found[j]
              \/ \E e : e.category \in ErrorCategories /\ found[j] = Reported(e, rep.suppressions, when)
  <2>1. j \in 1..Len(found) /\ DOMAIN rep.found = 1..Len(rep.found)
    BY <1>4, <1>5 DEF IsSequence
  <2>2. CASE j <= Len(rep.found)
    BY <1>5, <1>7, <2>1, <2>2
  <2>3. CASE j > Len(rep.found)
    <3> DEFINE i == j - Len(rep.found)
    <3>1. i \in 1..n /\ j = Len(rep.found) + i
      <4>1. Len(found) = Len(rep.found) + n /\ Len(rep.found) \in Nat /\ n \in Nat
        BY <1>1, <1>5, <1>7
      <4> QED BY ONLY <2>1, <2>3, <4>1
    <3> HIDE DEF i
    <3> QED BY <1>1, <1>3, <1>5, <3>1
  <2> QED BY <1>7, <2>1, <2>2, <2>3
<1> QED BY <1>23, <1>24, <1>25 DEF Reports, after

\* The errors noted in a list of reports, and those of them that are not of a line.
ErrorsIn(found) == {found[i].error : i \in DOMAIN found}
OnlyOfLines(found) == \A e \in ErrorsIn(found) : e.category \in LineCategories

LEMMA ReportFinds ==
  ASSUME NEW rep, AreShaped(rep), NEW errors, AnyErrors(errors), NEW when
  PROVE  ErrorsIn(Report(rep, errors, when).found) = ErrorsIn(rep.found) \cup ToSet(errors)
<1> DEFINE reported == [i \in DOMAIN errors |-> [error |-> errors[i], when |-> when,
                          printed |-> ShouldPrintError(settings, rep.suppressions, errors[i])]]
           found == rep.found \o reported
<1>1. Report(rep, errors, when).found = found
  BY DEF Report, AreShaped
<1>2. Len(errors) \in Nat /\ DOMAIN errors = 1..Len(errors)
  BY DEF AnyErrors
<1>3. IsSequence(reported) /\ Len(reported) = Len(errors)
  BY <1>2 DEF IsSequence
<1>4. \A i \in 1..Len(errors) : reported[i].error = errors[i]
  BY <1>2
<1> HIDE DEF reported
<1>5. Joined(rep.found, reported, found)
  <2>1. \A s, t : IsSequence(s) /\ IsSequence(t) => Joined(s, t, s \o t)
    BY JoinedIs DEF Joined
  <2> QED BY <1>3, <2>1 DEF AreShaped
<1> HIDE DEF found
<1>6. Len(rep.found) \in Nat /\ DOMAIN rep.found = 1..Len(rep.found)
  BY DEF AreShaped, IsSequence
<1>7. DOMAIN found = 1..Len(rep.found) + Len(errors)
  BY <1>3, <1>5 DEF Joined, IsSequence
<1>8. \A i \in 1..Len(rep.found) : i \in DOMAIN found /\ found[i] = rep.found[i]
  BY <1>2, <1>5, <1>6, <1>7 DEF Joined
<1>9. \A i \in 1..Len(errors) : Len(rep.found) + i \in DOMAIN found
                               /\ found[Len(rep.found) + i].error = errors[i]
  BY <1>2, <1>3, <1>4, <1>5, <1>6, <1>7 DEF Joined
<1>10. \A i \in DOMAIN found : i \in 1..Len(rep.found)
                               \/ \E k \in 1..Len(errors) : i = Len(rep.found) + k
  <2> SUFFICES ASSUME NEW i \in DOMAIN found, i \notin 1..Len(rep.found)
               PROVE  \E k \in 1..Len(errors) : i = Len(rep.found) + k
    OBVIOUS
  <2>1. i - Len(rep.found) \in 1..Len(errors) /\ i = Len(rep.found) + (i - Len(rep.found))
    BY <1>2, <1>6, <1>7
  <2> QED BY <2>1
<1>11. ErrorsIn(found) = ErrorsIn(rep.found) \cup ToSet(errors)
  <2>1. ErrorsIn(found) \subseteq ErrorsIn(rep.found) \cup ToSet(errors)
    <3> SUFFICES ASSUME NEW i \in DOMAIN found
                 PROVE  found[i].error \in ErrorsIn(rep.found) \cup ToSet(errors)
      BY DEF ErrorsIn
    <3>1. CASE i \in 1..Len(rep.found)
      BY <1>6, <1>8, <3>1 DEF ErrorsIn
    <3>2. CASE \E k \in 1..Len(errors) : i = Len(rep.found) + k
      BY <1>2, <1>9, <3>2 DEF ToSet
    <3> QED BY <1>10, <3>1, <3>2
  <2>2. ErrorsIn(rep.found) \subseteq ErrorsIn(found)
    BY <1>6, <1>8 DEF ErrorsIn
  <2>3. ToSet(errors) \subseteq ErrorsIn(found)
    BY <1>2, <1>9 DEF ErrorsIn, ToSet
  <2> QED BY <2>1, <2>2, <2>3
<1> QED BY <1>1, <1>11

\* A list put behind the others is behind all that is in them.
LEMMA FlattenAppend ==
  ASSUME NEW S, NEW lists \in Seq(Seq(S)), NEW last \in Seq(S)
  PROVE  /\ FlattenSeq(lists) \in Seq(S)
         /\ FlattenSeq(Append(lists, last)) = FlattenSeq(lists) \o last
<1> DEFINE longer == Append(lists, last)
           n == Len(lists)
<1>1. /\ n \in Nat /\ n \in Int /\ 1 \in Int /\ longer \in Seq(Seq(S)) /\ Len(longer) = n + 1 /\ longer # <<>>
      /\ longer[n + 1] = last /\ \A i \in 1..n : longer[i] = lists[i]
  <2> DEFINE R == Seq(S)
  <2>1. lists \in Seq(R) /\ last \in R
    OBVIOUS
  <2> HIDE DEF R
  <2>2. /\ n \in Nat /\ longer \in Seq(R) /\ Len(longer) = n + 1
        /\ longer[n + 1] = last /\ \A i \in 1..n : longer[i] = lists[i]
    BY <2>1
  <2>3. longer # <<>> /\ n \in Int /\ 1 \in Int
    <3>1. Len(longer) # 0
      BY <2>2
    <3> HIDE DEF longer, n
    <3>2. longer # <<>>
      BY <3>1
    <3> QED BY <2>2, <3>2
  <2> QED BY <2>2, <2>3 DEF R
<1>2. FlattenSeq(lists) \in Seq(S)
  BY FlattenPrepend
<1> HIDE DEF longer
<1>3. PICK g : /\ \A i \in 1..Len(longer) :
                    g[i] \in Seq(S) /\ g[i] = IF i = 1 THEN longer[i] ELSE g[i - 1] \o longer[i]
               /\ FlattenSeq(longer) = g[Len(longer)]
  BY <1>1, FlattenRuns
<1>4. CASE lists = <<>>
  <2>1. FlattenSeq(longer) = last
    BY <1>1, <1>3, <1>4
  <2> QED BY <1>2, <1>4, <2>1, FlattenEmpty, ConcatEmptySeq, EmptySeq DEF longer
<1>5. CASE lists # <<>>
  <2>1. PICK f : /\ \A i \in 1..Len(lists) :
                      f[i] \in Seq(S) /\ f[i] = IF i = 1 THEN lists[i] ELSE f[i - 1] \o lists[i]
                 /\ FlattenSeq(lists) = f[Len(lists)]
    BY <1>5, FlattenRuns
  <2>2. 1 <= n /\ 1 \in 1..n /\ n \in 1..n /\ n + 1 \in 1..Len(longer) /\ 1 \in 1..Len(longer)
    BY <1>1, <1>5
  <2> DEFINE Good == {i \in 1..n : g[i] = f[i]}
  <2>3. 1 \in Good
    <3>1. g[1] = longer[1] /\ f[1] = lists[1]
      BY <1>3, <2>1, <2>2
    <3> QED BY <1>1, <2>2, <3>1
  <2>4. ASSUME NEW i \in (1 + 1)..n, i - 1 \in Good PROVE i \in Good
    <3>1. i \in 1..n /\ i - 1 \in 1..n /\ i \in 1..Len(longer) /\ i # 1
      BY <1>1
    <3>2. g[i] = g[i - 1] \o longer[i] /\ f[i] = f[i - 1] \o lists[i]
      BY <1>3, <2>1, <3>1
    <3> QED BY <1>1, <2>4, <3>1, <3>2
  <2>5. 1..n \subseteq Good
    <3> HIDE DEF Good, n
    <3> QED BY <1>1, <2>2, <2>3, <2>4, Steps
  <2>6. g[n + 1] = g[n] \o last
    <3>1. n + 1 # 1 /\ (n + 1) - 1 = n
      BY <1>1, <2>2
    <3> HIDE DEF n
    <3> QED BY <1>1, <1>3, <2>2, <3>1
  <2>7. g[n] = FlattenSeq(lists) /\ FlattenSeq(longer) = g[n + 1]
    BY <1>1, <1>3, <2>1, <2>2, <2>5
  <2> QED BY <1>2, <2>6, <2>7 DEF longer
<1> QED BY <1>4, <1>5

-----------------------------------------------------------------------------
(* Files that were done. *)

FoundIn(files) == FlattenSeq([i \in DOMAIN files |-> files[i].found])
AreDone(files) == IsSequence(files) /\ \A i \in DOMAIN files : IsSequence(files[i].found)

LEMMA FoundNone == AreDone(<<>>) /\ FoundIn(<<>>) = <<>> /\ IsSequence(<<>>)
<1> DEFINE none == <<>>
<1>1. Len(none) = 0 /\ DOMAIN none = {} /\ none = [i \in 1..0 |-> none[i]]
  OBVIOUS
<1>2. [i \in DOMAIN none |-> none[i].found] = <<>>
  OBVIOUS
<1> HIDE DEF none
<1>3. IsSequence(none)
  BY <1>1 DEF IsSequence
<1>4. FoundIn(none) = FlattenSeq(<<>>)
  BY <1>2 DEF FoundIn
<1> QED BY <1>1, <1>3, <1>4, FlattenEmpty DEF AreDone, none

LEMMA FoundNext ==
  ASSUME NEW files, AreDone(files), NEW f, IsSequence(f.found)
  PROVE  /\ AreDone(Append(files, f)) /\ IsSequence(FoundIn(files))
         /\ FoundIn(Append(files, f)) = FoundIn(files) \o f.found
<1> DEFINE n == Len(files)
           lists == [i \in DOMAIN files |-> files[i].found]
           more == Append(files, f)
           A == UNION {{lists[i][j] : j \in 1..Len(lists[i])} : i \in 1..n}
           B == {f.found[j] : j \in 1..Len(f.found)}
           S == A \cup B
<1>1. n \in Nat /\ DOMAIN files = 1..n /\ files = [i \in 1..n |-> files[i]]
  BY DEF AreDone, IsSequence
<1>2. \A i \in 1..n : IsSequence(lists[i])
  BY <1>1 DEF AreDone
<1>3. lists = [i \in 1..n |-> lists[i]] /\ Len(lists) = n
  BY <1>1
<1>4. /\ Len(more) = n + 1 /\ IsSequence(more) /\ DOMAIN more = 1..(n + 1)
      /\ \A i \in 1..n : more[i] = files[i]
      /\ more[n + 1] = f
  <2> DEFINE R == {files[i] : i \in 1..n} \cup {f}
  <2>1. files \in Seq(R)
    <3>1. \A i \in 1..n : files[i] \in R
      OBVIOUS
    <3> HIDE DEF R
    <3> QED BY <1>1, <3>1
  <2>2. f \in R
    OBVIOUS
  <2> HIDE DEF R
  <2>3. more \in Seq(R) /\ Len(more) = n + 1 /\ (\A i \in 1..n : more[i] = files[i]) /\ more[n + 1] = f
    BY <2>1, <2>2
  <2> HIDE DEF more
  <2>4. IsSequence(more) /\ DOMAIN more = 1..(n + 1)
    BY <2>3 DEF IsSequence
  <2> QED BY <2>3, <2>4
<1> HIDE DEF more
<1>5. \A i \in 1..n + 1 : IsSequence(more[i].found)
  BY <1>1, <1>4 DEF AreDone
<1>6. AreDone(more)
  BY <1>4, <1>5 DEF AreDone
<1>7. (\A i \in 1..n : lists[i] \in Seq(S)) /\ f.found \in Seq(S)
  <2>1. ASSUME NEW s, IsSequence(s), \A j \in 1..Len(s) : s[j] \in S PROVE s \in Seq(S)
    <3> HIDE DEF S
    <3> QED BY <2>1 DEF IsSequence
  <2> HIDE DEF lists
  <2>2. ASSUME NEW i \in 1..n, NEW j \in 1..Len(lists[i]) PROVE lists[i][j] \in S
    <3>1. lists[i][j] \in A
      OBVIOUS
    <3> HIDE DEF A, B
    <3> QED BY <3>1
  <2>3. ASSUME NEW j \in 1..Len(f.found) PROVE f.found[j] \in S
    <3>1. f.found[j] \in B
      OBVIOUS
    <3> HIDE DEF A, B
    <3> QED BY <3>1
  <2> HIDE DEF S
  <2> QED BY <1>2, <2>1, <2>2, <2>3
<1> HIDE DEF S, lists
<1>8. lists \in Seq(Seq(S)) /\ f.found \in Seq(S)
  BY <1>1, <1>3, <1>7
<1>9. FoundIn(files) = FlattenSeq(lists)
  BY DEF FoundIn, lists
<1>10. [i \in DOMAIN more |-> more[i].found] = Append(lists, f.found)
  <2> DEFINE q == [i \in DOMAIN more |-> more[i].found]
             r == Append(lists, f.found)
  <2>1. q = [i \in 1..(n + 1) |-> more[i].found]
    BY <1>4
  <2>2. r \in Seq(Seq(S)) /\ Len(r) = n + 1 /\ (\A i \in 1..n : r[i] = lists[i]) /\ r[n + 1] = f.found
    BY <1>3, <1>8
  <2> HIDE DEF r
  <2>3. r = [i \in 1..(n + 1) |-> r[i]]
    BY <2>2
  <2>4. \A i \in 1..n : lists[i] = more[i].found
    BY <1>1, <1>4 DEF lists
  <2>5. \A i \in 1..(n + 1) : r[i] = more[i].found
    <3>1. \A i \in 1..(n + 1) : i \in 1..n \/ i = n + 1
      BY <1>1
    <3> QED BY <1>4, <2>2, <2>4, <3>1
  <2> QED BY <2>1, <2>3, <2>5 DEF r
<1>11. FoundIn(more) = FlattenSeq(lists) \o f.found /\ FlattenSeq(lists) \in Seq(S)
  BY <1>8, <1>10, FlattenAppend DEF FoundIn
<1>12. IsSequence(FoundIn(files))
  BY <1>9, <1>11 DEF IsSequence
<1> QED BY <1>6, <1>9, <1>11, <1>12 DEF more

-----------------------------------------------------------------------------
(* NOLINT comments. *)

\* The NOLINT of a line is among the suppressions.
Noted(line, n, suppressions) ==
  NolintsOf(line) # <<>> /\ FirstNolint(line).category \in ErrorCategories \cup {AllCategories}
    => <<FirstNolint(line).category, SuppressedLine(line, n)>> \in suppressions.lines

LEMMA ParseNolintIs ==
  ASSUME NEW suppressions, DOMAIN suppressions = {"lines", "global"}, NEW line, NEW n
  PROVE  LET after == ParseNolint(suppressions, line, n)
         IN /\ DOMAIN after = {"lines", "global"} /\ suppressions.lines \subseteq after.lines
            /\ Noted(line, n, after)
BY DEF ParseNolint, Noted

LEMMA NolintErrorsAre ==
  ASSUME NEW line, NEW n
  PROVE  IsErrors(NolintErrors(line, n))
BY ErrorWhen, Categories DEF NolintErrors

\* What a NOLINT in the line makes of the suppressions, and what is reported of it.
Parsed(rep, lines, n) == [rep EXCEPT !.suppressions = ParseNolint(@, lines[n], n)]

LEMMA ParseNolintSuppressionsIs ==
  ASSUME NEW before, IsSequence(before), NEW rep, AreReports(rep, settings.counting, before),
         NEW lines, NEW n, NEW when
  PROVE  /\ AreReports(ParseNolintSuppressions(rep, lines, n, when), settings.counting, before)
         /\ Reports(ParseNolintSuppressions(rep, lines, n, when), Parsed(rep, lines, n), when)
         /\ Parsed(rep, lines, n).found = rep.found
         /\ Parsed(rep, lines, n).suppressions = ParseNolint(rep.suppressions, lines[n], n)
         /\ ErrorsIn(ParseNolintSuppressions(rep, lines, n, when).found)
              = ErrorsIn(rep.found) \cup ToSet(NolintErrors(lines[n], n))
<1> DEFINE parsed == Parsed(rep, lines, n)
<1>1. /\ DOMAIN parsed = DOMAIN rep /\ parsed.found = rep.found /\ parsed.counts = rep.counts
      /\ parsed.suppressions = ParseNolint(rep.suppressions, lines[n], n)
  BY DEF AreReports, AreShaped, Parsed
<1>2. DOMAIN parsed.suppressions = {"lines", "global"}
  BY <1>1, ParseNolintIs DEF AreReports, AreShaped
<1>3. ParseNolintSuppressions(rep, lines, n, when) = Report(parsed, NolintErrors(lines[n], n), when)
  BY DEF ParseNolintSuppressions, Parsed
<1> HIDE DEF parsed
<1>4. AreReports(parsed, settings.counting, before)
  BY <1>1, <1>2 DEF AreReports, AreShaped
<1>5. AnyErrors(NolintErrors(lines[n], n))
  BY NolintErrorsAre, LineErrorsAreErrors
<1>6. AreReports(Report(parsed, NolintErrors(lines[n], n), when), settings.counting, before)
      /\ Reports(Report(parsed, NolintErrors(lines[n], n), when), parsed, when)
  BY <1>4, <1>5, ReportIs
<1>7. ErrorsIn(Report(parsed, NolintErrors(lines[n], n), when).found)
        = ErrorsIn(rep.found) \cup ToSet(NolintErrors(lines[n], n))
  BY <1>1, <1>4, <1>5, ReportFinds DEF AreReports
<1> QED BY <1>1, <1>3, <1>6, <1>7 DEF parsed

LEMMA ReportedIs ==
  ASSUME NEW e, NEW suppressions, NEW when
  PROVE  /\ Reported(e, suppressions, when).when = when /\ Reported(e, suppressions, when).error = e
         /\ Reported(e, suppressions, when).printed <=> ShouldPrintError(settings, suppressions, e)
<1>1. Reported(e, suppressions, when).when = when /\ Reported(e, suppressions, when).error = e
  BY DEF Reported
<1>2. Reported(e, suppressions, when).printed = ShouldPrintError(settings, suppressions, e)
  BY DEF Reported
<1> QED BY <1>1, <1>2, Zenon

\* All that was found was found then.
FoundAt(rep, when) == \A j \in DOMAIN rep.found : rep.found[j].when = when

LEMMA ReportsFoundAt ==
  ASSUME NEW rep, NEW when, FoundAt(rep, when), NEW after, Reports(after, rep, when)
  PROVE  FoundAt(after, when)
BY ReportedIs DEF FoundAt, Reports

\* Reports as they are while the text is prepared.
Early(rep, before) ==
  AreReports(rep, settings.counting, before) /\ FoundAt(rep, Unread) /\ OnlyOfLines(rep.found)

LEMMA EarlyReport ==
  ASSUME NEW before, IsSequence(before), NEW rep, Early(rep, before), NEW errors, IsErrors(errors)
  PROVE  Early(Report(rep, errors, Unread), before)
<1> DEFINE after == Report(rep, errors, Unread)
<1>1. AreReports(after, settings.counting, before) /\ FoundAt(after, Unread)
  BY ReportIs, ReportsFoundAt, LineErrorsAreErrors DEF Early
<1>2. ErrorsIn(after.found) = ErrorsIn(rep.found) \cup ToSet(errors)
  BY ReportFinds, LineErrorsAreErrors DEF Early, AreReports
<1> HIDE DEF after
<1>3. OnlyOfLines(after.found)
  BY <1>2, CategoriesOf DEF OnlyOfLines, Early
<1> QED BY <1>1, <1>3 DEF Early, after

LEMMA EarlyNolint ==
  ASSUME NEW before, IsSequence(before), NEW rep, Early(rep, before), NEW lines, NEW n
  PROVE  Early(ParseNolintSuppressions(rep, lines, n, Unread), before)
<1> DEFINE parsed == Parsed(rep, lines, n)
           after == ParseNolintSuppressions(rep, lines, n, Unread)
<1>1. AreReports(after, settings.counting, before) /\ Reports(after, parsed, Unread) /\ parsed.found = rep.found
  <2>1. AreReports(rep, settings.counting, before)
    BY DEF Early
  <2>2. AreReports(ParseNolintSuppressions(rep, lines, n, Unread), settings.counting, before)
    BY <2>1, ParseNolintSuppressionsIs
  <2>3. Reports(ParseNolintSuppressions(rep, lines, n, Unread), Parsed(rep, lines, n), Unread)
    BY <2>1, ParseNolintSuppressionsIs
  <2>4. Parsed(rep, lines, n).found = rep.found
    BY <2>1 DEF AreReports, AreShaped, Parsed
  <2> QED BY <2>2, <2>3, <2>4
<1>3. ErrorsIn(after.found) = ErrorsIn(rep.found) \cup ToSet(NolintErrors(lines[n], n))
  BY ParseNolintSuppressionsIs DEF Early
<1> HIDE DEF parsed, after
<1>2. FoundAt(parsed, Unread)
  BY <1>1 DEF Early, FoundAt
<1>4. OnlyOfLines(after.found)
  BY <1>3, NolintErrorsAre, CategoriesOf DEF OnlyOfLines, Early
<1> QED BY <1>1, <1>2, <1>4, ReportsFoundAt DEF Early, after

LEMMA CheckForHeaderGuardIs ==
  ASSUME NEW before, IsSequence(before), NEW rep, Early(rep, before), NEW lines, NEW guard
  PROVE  Early(CheckForHeaderGuard(rep, lines, guard), before)
<1> DEFINE ifndefs == DirectiveLines(lines, "#ifndef")
           defines == DirectiveLines(lines, "#define")
           endifs == {n \in DOMAIN lines : lines[n] # <<>> /\ lines[n][1] = "#endif"}
           ifndef == Lowest(ifndefs)
           endif == IF endifs = {} THEN 0 ELSE Highest(endifs)
           named == ArgumentOf(lines, ifndef)
           style == IF named = guard.name THEN rep
                    ELSE Report(ParseNolintSuppressions(rep, lines, ifndef, Unread),
                                <<Found(ifndef, BuildHeaderGuard, IF named = guard.old THEN 0 ELSE 5)>>,
                                Unread)
           marks == IF \A n \in DOMAIN lines : n \in {0, Highest(DOMAIN lines)} \/ ~HasLineComment(lines[n])
                    THEN {"//", "/*"} ELSE {"//"}
           errors == IF EndifNames(lines[endif], guard.name, marks) THEN <<>>
                     ELSE <<Found(endif, BuildHeaderGuard,
                                  IF EndifNames(lines[endif], guard.old, marks) THEN 0 ELSE 5)>>
           none == Report(rep, <<Found(0, BuildHeaderGuard, 5)>>, Unread)
           both == Report(ParseNolintSuppressions(style, lines, endif, Unread), errors, Unread)
           after == CheckForHeaderGuard(rep, lines, guard)
<1>1. after \in {rep, none, both}
  BY Zenon DEF CheckForHeaderGuard
<1>2. \A n, confidence : IsErrors(<<Found(n, BuildHeaderGuard, confidence)>>)
  BY OneError, Categories
<1>3. Early(none, before)
  BY <1>2, EarlyReport
<1>4. Early(style, before)
  <2> HIDE DEF ifndef, named
  <2> QED BY <1>2, EarlyReport, EarlyNolint
<1>5. IsErrors(errors)
  <2> HIDE DEF endif, marks
  <2> QED BY <1>2, NoErrors
<1> HIDE DEF style, errors, endif
<1>6. Early(both, before)
  BY <1>4, <1>5, EarlyReport, EarlyNolint
<1> HIDE DEF none, both, after
<1>7. Early(after, before)
  BY <1>1, <1>3, <1>6
<1> QED BY <1>7 DEF after

\* No error is printed of a line under a NOLINT of the lines up to the one it was found at.
Quiet(rep) ==
  \A i \in DOMAIN rep.found :
    LET f == rep.found[i]
    IN f.printed =>
         \A n \in DOMAIN clean.raw : Silences(n, f.error.line, f.error.category) => f.when < n

LEMMA ReportsQuiet ==
  ASSUME NEW rep, Quiet(rep), NEW when \in Int, NEW after, Reports(after, rep, when),
         DOMAIN clean.raw \subseteq Int,
         \A n \in DOMAIN clean.raw : n <= when => Noted(clean.raw[n], n, rep.suppressions)
  PROVE  Quiet(after)
<1> SUFFICES ASSUME NEW i \in DOMAIN after.found, after.found[i].printed, NEW n \in DOMAIN clean.raw,
                    Silences(n, after.found[i].error.line, after.found[i].error.category)
             PROVE  after.found[i].when < n
  BY DEF Quiet
<1>1. CASE i \in DOMAIN rep.found /\ after.found[i] = rep.found[i]
  BY <1>1 DEF Quiet
<1>2. CASE \E e : e.category \in ErrorCategories /\ after.found[i] = Reported(e, rep.suppressions, when)
  <2>1. PICK e : e.category \in ErrorCategories /\ after.found[i] = Reported(e, rep.suppressions, when)
    BY <1>2
  <2>2. /\ after.found[i].when = when /\ after.found[i].error = e
        /\ ShouldPrintError(settings, rep.suppressions, e)
    BY <2>1, ReportedIs
  <2>3. CASE n <= when
    <3> DEFINE category == FirstNolint(clean.raw[n]).category
    <3>1. /\ NolintsOf(clean.raw[n]) # <<>> /\ category \in {AllCategories, e.category}
          /\ e.line = SuppressedLine(clean.raw[n], n)
      BY <2>2 DEF Silences
    <3>2. <<category, e.line>> \in rep.suppressions.lines
      BY <2>1, <2>3, <3>1 DEF Noted
    <3>3. ~SuppressedByNolint(rep.suppressions, e.category, e.line)
      BY <2>2 DEF ShouldPrintError
    <3> HIDE DEF category
    <3> QED BY <3>1, <3>2, <3>3 DEF SuppressedByNolint
  <2> QED BY <2>2, <2>3
<1> QED BY <1>1, <1>2 DEF Reports

-----------------------------------------------------------------------------
(* The run: what is reported. *)

\* The errors found in the files done, and in the file that is read.
Earlier == FoundIn(done)
Counted == Earlier \o (IF next >= 0 THEN reports.found ELSE <<>>)

\* The counts are those of the errors found, by the name the command line asks for; they
\* are new with the run, and the exit status says what they are.
CountsInv ==
  /\ AreShaped(reports) /\ AreDone(done)
  /\ Agree(reports.counts, settings.counting, Counted)
  /\ status = "new" => done = <<>> /\ reports = NoReports
  /\ status # "new" => settings.counting = command.counting
  /\ next # Idle => status = "running"
  /\ status = "failed" => reports.counts.total > 0
  /\ status = "clean" => reports.counts.total = 0

\* The last line of the text of a file.
LastLine == Len(file.lines) + 1

TextInv == next >= 0 => IsText(clean, LastLine) /\ nesting \in NestingStates(AllAsms)

\* The NOLINT comments read so far are noted, and none of them is disregarded.
NolintInv ==
  next >= 0 =>
    /\ Quiet(reports)
    /\ \A n \in DOMAIN clean.raw : n < next => Noted(clean.raw[n], n, reports.suppressions)

ReportsInv == Inv /\ CountsInv /\ TextInv /\ NolintInv

LEMMA NothingCounted ==
  ASSUME NEW counting
  PROVE  NoCounts \in CountRecords /\ Agree(NoCounts, counting, <<>>) /\ IsSequence(<<>>)
         /\ <<>> \o <<>> = <<>>
<1> DEFINE none == <<>>
<1>1. IsSequence(none) /\ DOMAIN none = {} /\ none \in Seq({}) /\ none \o none = none
  BY FoundNone, EmptySeq, ConcatEmptySeq
<1>2. NoCounts.total = 0 /\ NoCounts.by = none /\ NoCounts = [total |-> 0, by |-> none]
  BY DEF NoCounts
<1>3. none \in [{} -> Nat] /\ {} \in SUBSET Names
  OBVIOUS
<1> HIDE DEF none
<1>4. NoCounts \in CountRecords
  <2>1. none \in UNION {[D -> Nat] : D \in SUBSET Names}
    BY <1>3
  <2> QED BY <1>2, <2>1 DEF CountRecords
<1>5. Printed(none) = {}
  BY <1>1 DEF Printed
<1>6. Agree(NoCounts, counting, none)
  BY <1>1, <1>2, <1>5, FS_EmptySet DEF Agree
<1> QED BY <1>1, <1>4, <1>6 DEF none

LEMMA JoinedNone ==
  ASSUME NEW s, IsSequence(s)
  PROVE  s \o <<>> = s
<1> DEFINE S == {s[i] : i \in 1..Len(s)}
<1>1. \A i \in 1..Len(s) : s[i] \in S
  OBVIOUS
<1> HIDE DEF S
<1>2. s \in Seq(S)
  BY <1>1 DEF IsSequence
<1> QED BY <1>2, ConcatEmptySeq

LEMMA EarlierIs ==
  ASSUME CountsInv
  PROVE  IsSequence(Earlier)
<1>1. AreDone(done) /\ IsSequence(reports.found)
  BY DEF CountsInv, AreShaped
<1> QED BY <1>1, FoundNext DEF Earlier

LEMMA InitReports == Init => ReportsInv
<1> SUFFICES ASSUME Init PROVE ReportsInv
  OBVIOUS
<1>1. /\ status = "new" /\ next = Idle /\ ~(next >= 0) /\ done = <<>> /\ reports = NoReports
  BY DEF Init, ProcessFileInit, Idle
<1>2. AreShaped(NoReports)
  BY NothingCounted DEF AreShaped, NoReports, NoSuppressions
<1>3. Counted = <<>> /\ AreDone(done)
  BY <1>1, FoundNone, NothingCounted DEF Counted, Earlier
<1>4. NoReports.counts = NoCounts
  BY DEF NoReports
<1>5. Agree(reports.counts, settings.counting, Counted)
  BY <1>1, <1>3, <1>4, NothingCounted
<1> QED BY <1>1, <1>2, <1>3, <1>5, InitInv DEF ReportsInv, CountsInv, TextInv, NolintInv

LEMMA ParseArgumentsReports ==
  ASSUME ReportsInv, ParseArguments
  PROVE  ReportsInv'
<1>1. Inv'
  BY ParseArgumentsStep DEF ReportsInv
<1>2. /\ status = "new" /\ next = Idle /\ next' = Idle /\ done' = done /\ reports' = reports
      /\ command' = command /\ status' \in {"usage", "raised", "running"}
  BY DEF ParseArguments, ReportsInv, Inv, FiltersKept
<1>3. ~(next >= 0) /\ ~(next' >= 0)
  BY <1>2 DEF Idle
<1>4. done = <<>> /\ reports = NoReports /\ settings'.counting = command.counting
  BY <1>2 DEF ParseArguments, ReportsInv, CountsInv, Inv, SettingsShape
<1>5. Counted' = <<>>
  BY <1>2, <1>3, <1>4, FoundNone, NothingCounted DEF Counted, Earlier
<1>6. NoReports.counts = NoCounts
  BY DEF NoReports
<1>7. Agree(reports'.counts, settings'.counting, Counted')
  BY <1>2, <1>4, <1>5, <1>6, NothingCounted
<1>8. CountsInv'
  BY <1>2, <1>4, <1>7 DEF ReportsInv, CountsInv
<1> QED BY <1>1, <1>3, <1>8 DEF ReportsInv, TextInv, NolintInv

LEMMA StartFileReports ==
  ASSUME ReportsInv, StartFile
  PROVE  ReportsInv'
<1>1. Inv'
  BY StartFileStep DEF ReportsInv
<1>2. /\ status = "running" /\ next = Idle /\ next' \in {Idle, Unread} /\ done' = done /\ reports' = reports
      /\ command' = command /\ status' \in {"raised", "running"} /\ (next' # Idle => status' = "running")
  BY DEF StartFile
<1>3. ~(next >= 0) /\ ~(next' >= 0)
  BY <1>2 DEF Idle, Unread
<1>4. settings'.counting = settings.counting
  BY DEF StartFile, SkipFile, ReportsInv, Inv, SettingsShape
<1>5. Counted' = Counted
  BY <1>2, <1>3 DEF Counted, Earlier
<1>6. CountsInv'
  BY <1>2, <1>4, <1>5 DEF ReportsInv, CountsInv
<1> QED BY <1>1, <1>3, <1>6 DEF ReportsInv, TextInv, NolintInv

\* Before the first line nothing is quiet or not: what is found is found ahead of every line.
LEMMA PrepareReports ==
  ASSUME ReportsInv, Prepare, UNCHANGED <<command, status, queue, done>>
  PROVE  ReportsInv' /\ OnlyOfLines(reports'.found)
<1> DEFINE raw == Marked(file.lines)
           lines == RemoveMultiLineComments(raw)
           new == [reports EXCEPT !.suppressions = NoSuppressions, !.found = <<>>]
           fresh == Report(new, CopyrightErrors(raw), Unread)
           marked == [fresh EXCEPT !.suppressions = ProcessGlobalSuppressions(raw, @)]
           removed == Report(marked, MultiLineCommentErrors(raw), Unread)
           cleansed == CleansedLines(lines)
<1>1. Inv'
  BY ProcessFileDataStep DEF ReportsInv, ProcessFileData
<1>2. /\ next = Unread /\ next' = 0 /\ settings' = settings /\ file' = file /\ done' = done
      /\ clean' = cleansed /\ nesting' = InitNestingState
      /\ reports' = IF file.path.ext = "h"
                    THEN CheckForHeaderGuard(removed, cleansed.noRaw, file.guard) ELSE removed
  BY Zenon DEF Prepare
<1>3. next # Idle /\ status = "running" /\ file \in Files /\ ~(next >= 0) /\ next' >= 0
  <2>1. next # Idle /\ ~(next >= 0) /\ next' >= 0
    BY <1>2 DEF Idle, Unread
  <2> QED BY <2>1 DEF ReportsInv, CountsInv, Inv, FilesInv
<1>4. IsSequence(Earlier) /\ Counted = Earlier \o <<>>
  <2>1. IsSequence(Earlier)
    BY EarlierIs DEF ReportsInv
  <2> QED BY <1>3, <2>1 DEF Counted
<1>5. Early(new, Earlier)
  <2>1. /\ DOMAIN new = {"suppressions", "found", "counts"} /\ new.suppressions = NoSuppressions
        /\ new.found = <<>> /\ new.counts = reports.counts
    BY DEF ReportsInv, CountsInv, AreShaped
  <2>2. DOMAIN NoSuppressions = {"lines", "global"}
    BY DEF NoSuppressions
  <2>3. Agree(reports.counts, settings.counting, Earlier \o <<>>) /\ reports.counts \in CountRecords
    BY <1>4 DEF ReportsInv, CountsInv, AreShaped
  <2> HIDE DEF new
  <2>4. AreReports(new, settings.counting, Earlier)
    BY <2>1, <2>2, <2>3, NothingCounted DEF AreReports, AreShaped
  <2>5. FoundAt(new, Unread)
    BY <2>1 DEF FoundAt
  <2>6. OnlyOfLines(new.found)
    BY <2>1 DEF OnlyOfLines, ErrorsIn
  <2> QED BY <2>4, <2>5, <2>6 DEF Early
<1>6. IsErrors(CopyrightErrors(raw)) /\ IsErrors(MultiLineCommentErrors(raw))
  BY ErrorWhen, Categories DEF CopyrightErrors, MultiLineCommentErrors
<1>7. raw \in Lines(LastLine) /\ LastLine \in Nat
  BY <1>3, FilesAssumption, MarkedIs DEF LastLine
<1> HIDE DEF raw, new
<1>8. Early(fresh, Earlier)
  BY <1>4, <1>5, <1>6, EarlyReport
<1> HIDE DEF fresh
<1>9. Early(marked, Earlier)
  <2>1. /\ DOMAIN marked = DOMAIN fresh /\ marked.found = fresh.found /\ marked.counts = fresh.counts
        /\ marked.suppressions = ProcessGlobalSuppressions(raw, fresh.suppressions)
    BY <1>8 DEF Early, AreReports, AreShaped
  <2>2. DOMAIN marked.suppressions = DOMAIN fresh.suppressions
    BY <2>1 DEF ProcessGlobalSuppressions
  <2> HIDE DEF marked
  <2> QED BY <1>8, <2>1, <2>2 DEF Early, AreReports, AreShaped, FoundAt
<1> HIDE DEF marked
<1>10. Early(removed, Earlier)
  BY <1>4, <1>6, <1>9, EarlyReport
<1> HIDE DEF removed
<1>11. Early(reports', Earlier)
  BY <1>2, <1>4, <1>10, CheckForHeaderGuardIs
<1>12. AreReports(reports', settings'.counting, Earlier')
  BY <1>2, <1>11 DEF Early, Earlier
<1>13. CountsInv'
  <2>1. Counted' = Earlier' \o reports'.found
    BY <1>3 DEF Counted
  <2>2. status' = "running" /\ command' = command
    BY <1>3
  <2> QED BY <1>2, <1>12, <2>1, <2>2 DEF ReportsInv, CountsInv, AreReports
<1>14. TextInv'
  <2>1. lines \in Lines(LastLine)
    BY <1>7, TextIs
  <2> HIDE DEF lines
  <2>2. IsText(cleansed, LastLine) /\ LastLine' = LastLine
    BY <1>2, <1>7, <2>1, TextIs DEF LastLine
  <2>3. InitNestingState \in NestingStates(AllAsms)
    BY EmptySeq DEF InitNestingState, NestingStates, Stacks
  <2> QED BY <1>2, <2>2, <2>3 DEF TextInv
<1>15. NolintInv'
  <2>1. DOMAIN clean'.raw \subseteq Nat
    BY <1>1 DEF Inv, FilesInv
  <2>2. \A i \in DOMAIN reports'.found : reports'.found[i].when = Unread
    BY <1>11 DEF Early, FoundAt
  <2>3. \A n \in DOMAIN clean'.raw : Unread < n /\ ~(n < next')
    BY <1>2, <2>1 DEF Unread
  <2>4. Quiet(reports)'
    BY <2>2, <2>3 DEF Quiet
  <2> QED BY <2>3, <2>4 DEF NolintInv
<1> QED BY <1>1, <1>11, <1>13, <1>14, <1>15 DEF ReportsInv, Early

\* A line: its NOLINT is noted before anything of it is reported.
LEMMA ProcessLineReports ==
  ASSUME ReportsInv, ProcessLine, UNCHANGED <<command, status, queue, done>>
  PROVE  ReportsInv'
<1> DEFINE n == next
           updated == Update(nesting, clean, n)
           parsed == ParseNolintSuppressions(reports, clean.raw, n, n)
           nested == UpdateErrors(nesting, clean, n) \o NamespaceIndentationErrors(updated, clean, n)
           checked == FunctionLengthErrors(function, clean, settings.verbose, n)
                      \o MultilineErrors(clean.elided[n], n) \o StyleErrors(updated, n)
                      \o CheckLanguageErrors(n)
           skipped == InAsmBlock(updated)
           errors == nested \o When(~skipped, checked) \o Cxx11Errors(n)
           noted == Parsed(reports, clean.raw, n)
<1>1. Inv'
  BY ProcessFileDataStep DEF ReportsInv, ProcessFileData
<1>2. /\ n \in DOMAIN clean.raw /\ next' = n + 1 /\ settings' = settings /\ file' = file
      /\ done' = done /\ clean' = clean /\ nesting' = updated /\ reports' = Report(parsed, errors, n)
  BY Zenon DEF ProcessLine
<1>3. n \in Nat /\ next >= 0 /\ next' >= 0 /\ next # Idle /\ status = "running" /\ file \in Files
  <2>1. n \in Nat
    BY <1>2 DEF ReportsInv, Inv, FilesInv
  <2>2. next >= 0 /\ next' >= 0 /\ next # Idle
    BY <1>2, <2>1 DEF Idle
  <2> QED BY <2>1, <2>2 DEF ReportsInv, CountsInv, Inv, FilesInv
<1>4. IsText(clean, LastLine) /\ nesting \in NestingStates(AllAsms) /\ LastLine \in Nat /\ n \in 0..LastLine
  <2>1. IsText(clean, LastLine) /\ nesting \in NestingStates(AllAsms)
    BY <1>3 DEF ReportsInv, TextInv
  <2>2. LastLine \in Nat
    BY <1>3, FilesAssumption DEF LastLine
  <2>3. DOMAIN clean.raw = 0..LastLine
    BY <2>1 DEF IsText, Lines
  <2> QED BY <1>2, <2>1, <2>2, <2>3
<1>5. updated \in NestingStates(AllAsms)
  BY <1>4, UpdateIs, ElidedIs
<1>6. IsErrors(errors)
  <2> HIDE DEF updated, skipped, n
  <2> QED BY <1>4, LineErrorsAre
<1> HIDE DEF updated, errors
<1>7. IsSequence(Earlier) /\ AreReports(reports, settings.counting, Earlier)
  BY <1>3, EarlierIs DEF ReportsInv, CountsInv, Counted, AreReports
<1>8. /\ AreReports(parsed, settings.counting, Earlier) /\ Reports(parsed, noted, n)
      /\ noted.found = reports.found
      /\ noted.suppressions = ParseNolint(reports.suppressions, clean.raw[n], n)
  <2> HIDE DEF n
  <2>1. AreReports(parsed, settings.counting, Earlier) /\ Reports(parsed, noted, n)
    BY <1>7, ParseNolintSuppressionsIs
  <2>2. /\ noted.found = reports.found
        /\ noted.suppressions = ParseNolint(reports.suppressions, clean.raw[n], n)
    BY <1>7 DEF Parsed, AreReports, AreShaped
  <2> QED BY <2>1, <2>2
<1> HIDE DEF parsed, noted
<1>9. AreReports(reports', settings.counting, Earlier) /\ Reports(reports', parsed, n)
  BY <1>2, <1>6, <1>7, <1>8, ReportIs, LineErrorsAreErrors
<1>10. CountsInv'
  <2>1. Counted' = Earlier \o reports'.found
    BY <1>2, <1>3 DEF Counted, Earlier
  <2>2. status' = "running" /\ command' = command
    BY <1>3
  <2> QED BY <1>2, <1>9, <2>1, <2>2 DEF ReportsInv, CountsInv, AreReports
<1>11. TextInv'
  BY <1>2, <1>3, <1>4, <1>5 DEF TextInv, LastLine
<1>12. \A m \in DOMAIN clean.raw : m <= n => Noted(clean.raw[m], m, noted.suppressions)
  <2>1. /\ reports.suppressions.lines \subseteq noted.suppressions.lines
        /\ Noted(clean.raw[n], n, noted.suppressions)
    <3>1. DOMAIN reports.suppressions = {"lines", "global"}
      BY <1>7 DEF AreReports, AreShaped
    <3> QED BY <1>8, <3>1, ParseNolintIs
  <2>2. \A m \in DOMAIN clean.raw : m < n => Noted(clean.raw[m], m, reports.suppressions)
    BY <1>3 DEF ReportsInv, NolintInv
  <2>3. DOMAIN clean.raw \subseteq Nat
    BY DEF ReportsInv, Inv, FilesInv
  <2>4. \A m \in DOMAIN clean.raw : m <= n => m < n \/ m = n
    BY <1>3, <2>3
  <2> QED BY <2>1, <2>2, <2>4 DEF Noted
<1>13. NolintInv'
  <2>1. n \in Int /\ DOMAIN clean.raw \subseteq Int
    BY <1>3 DEF ReportsInv, Inv, FilesInv
  <2>2. Quiet(reports)
    BY <1>3 DEF ReportsInv, NolintInv
  <2>3. Quiet(noted)
    BY <1>8, <2>2 DEF Quiet
  <2>4. Quiet(parsed)
    BY <1>8, <1>12, <2>1, <2>3, ReportsQuiet
  <2>5. parsed.suppressions = noted.suppressions /\ reports'.suppressions = noted.suppressions
    BY <1>8, <1>9 DEF Reports
  <2>6. Quiet(reports')
    BY <1>9, <1>12, <2>1, <2>4, <2>5, ReportsQuiet
  <2>7. Quiet(reports)'
    BY <1>2, <2>6 DEF Quiet, Silences
  <2>8. \A m \in DOMAIN clean.raw : m < next' => m <= n
    BY <1>2, <2>1
  <2> QED BY <1>2, <1>12, <2>5, <2>7, <2>8 DEF NolintInv
<1> QED BY <1>1, <1>10, <1>11, <1>13 DEF ReportsInv

\* The end of the text: every NOLINT of it is noted.
LEMMA FinishReports ==
  ASSUME ReportsInv, Finish, UNCHANGED <<command, status, queue, done>>
  PROVE  ReportsInv'
<1> DEFINE errors == CompletedBlocksErrors(nesting) \o IncludeWhatYouUseErrors(include, file, clean)
                     \o HeaderIncludedErrors(include, file) \o BadCharacterErrors(clean.raw)
                     \o NewlineAtEOFErrors(clean.raw)
<1>1. Inv'
  BY ProcessFileDataStep DEF ReportsInv, ProcessFileData
<1>2. /\ next = EndOfFile /\ next' = Done /\ settings' = settings /\ file' = file
      /\ done' = done /\ clean' = clean /\ nesting' = nesting
      /\ reports' = Report(reports, errors, EndOfFile)
  BY Zenon DEF Finish
<1>3. /\ LastLine \in Nat /\ EndOfFile = LastLine + 1 /\ Done = LastLine + 2
      /\ next >= 0 /\ next' >= 0 /\ next # Idle /\ status = "running" /\ file \in Files
  <2>1. next # Idle /\ file \in Files
    BY <1>2, FilesAssumption DEF EndOfFile, Idle, ReportsInv, Inv, FilesInv
  <2>2. LastLine \in Nat /\ EndOfFile = LastLine + 1 /\ Done = LastLine + 2
    BY <2>1, FilesAssumption DEF LastLine, EndOfFile, Done
  <2> QED BY <1>2, <2>1, <2>2 DEF ReportsInv, CountsInv
<1>4. IsText(clean, LastLine) /\ nesting \in NestingStates(AllAsms)
  BY <1>3 DEF ReportsInv, TextInv
<1>5. AnyErrors(errors)
  BY <1>3, <1>4, FinishErrorsAre
<1> HIDE DEF errors
<1>6. IsSequence(Earlier) /\ AreReports(reports, settings.counting, Earlier)
  BY <1>3, EarlierIs DEF ReportsInv, CountsInv, Counted, AreReports
<1>7. AreReports(reports', settings.counting, Earlier) /\ Reports(reports', reports, EndOfFile)
  BY <1>2, <1>5, <1>6, ReportIs
<1>8. CountsInv'
  <2>1. Counted' = Earlier \o reports'.found
    BY <1>2, <1>3 DEF Counted, Earlier
  <2>2. status' = "running" /\ command' = command
    BY <1>3
  <2> QED BY <1>2, <1>7, <2>1, <2>2 DEF ReportsInv, CountsInv, AreReports
<1>9. TextInv'
  BY <1>2, <1>3, <1>4 DEF TextInv, LastLine
<1>10. NolintInv'
  <2>1. DOMAIN clean.raw = 0..LastLine
    BY <1>4 DEF IsText, Lines
  <2>2. \A m \in DOMAIN clean.raw : Noted(clean.raw[m], m, reports.suppressions)
    BY <1>2, <1>3, <2>1 DEF ReportsInv, NolintInv
  <2>3. Quiet(reports) /\ EndOfFile \in Int /\ DOMAIN clean.raw \subseteq Int
    BY <1>3, <2>1 DEF ReportsInv, NolintInv
  <2>4. Quiet(reports')
    BY <1>7, <2>2, <2>3, ReportsQuiet
  <2>5. reports'.suppressions = reports.suppressions
    BY <1>7 DEF Reports
  <2>6. Quiet(reports)'
    BY <1>2, <2>4 DEF Quiet, Silences
  <2> QED BY <1>2, <2>2, <2>5, <2>6 DEF NolintInv
<1> QED BY <1>1, <1>8, <1>9, <1>10 DEF ReportsInv

\* The errors of a file that ends go to those of the files done.
LEMMA EndFileReports ==
  ASSUME ReportsInv, EndFile
  PROVE  ReportsInv'
<1> DEFINE ended == Report(reports, LineEndErrors(file), Done)
           record == [file |-> file, settings |-> settings, found |-> ended.found]
<1>1. Inv'
  BY EndFileStep DEF ReportsInv
<1>2. /\ status = "running" /\ next = Done /\ reports' = ended /\ done' = Append(done, record)
      /\ next' = Idle /\ command' = command /\ status' = status
  BY Zenon DEF EndFile
<1>3. /\ next >= 0 /\ ~(next' >= 0) /\ file \in Files
  <2>1. next # Idle /\ file \in Files
    BY <1>2, FilesAssumption DEF Done, EndOfFile, Idle, ReportsInv, Inv, FilesInv
  <2>2. Done \in Nat
    BY <2>1, FilesAssumption DEF EndOfFile, Done
  <2> QED BY <1>2, <2>1, <2>2 DEF Idle
<1>4. IsSequence(Earlier) /\ AreReports(reports, settings.counting, Earlier)
  BY <1>3, EarlierIs DEF ReportsInv, CountsInv, Counted, AreReports
<1>5. AreReports(ended, settings.counting, Earlier)
  BY <1>3, <1>4, LineEndErrorsAre, LineErrorsAreErrors, ReportIs
<1> HIDE DEF ended
<1>6. record.found = ended.found /\ IsSequence(ended.found)
  BY <1>5 DEF AreReports, AreShaped
<1> HIDE DEF record
<1>7. AreDone(done') /\ Earlier' = Earlier \o ended.found /\ IsSequence(Earlier')
  <2>1. AreDone(done') /\ Earlier' = Earlier \o ended.found
    BY <1>2, <1>6, FoundNext DEF ReportsInv, CountsInv, Earlier
  <2> QED BY <1>4, <1>6, <2>1, JoinedIs
<1>8. Counted' = Earlier \o ended.found
  BY <1>3, <1>7, JoinedNone DEF Counted
<1>9. settings'.counting = settings.counting
  BY DEF EndFile, ReportsInv, Inv, SettingsShape
<1>10. CountsInv'
  BY <1>2, <1>5, <1>7, <1>8, <1>9 DEF ReportsInv, CountsInv, AreReports
<1> QED BY <1>1, <1>3, <1>10 DEF ReportsInv, TextInv, NolintInv

LEMMA ExitReports ==
  ASSUME ReportsInv, Exit
  PROVE  ReportsInv'
<1>1. Inv'
  BY ExitStep DEF ReportsInv
<1>2. /\ next = Idle /\ UNCHANGED vars /\ UNCHANGED <<command, done>> /\ status = "running"
      /\ status' = IF reports.counts.total > 0 THEN "failed" ELSE "clean"
  BY DEF Exit
<1>3. next' = Idle /\ reports' = reports /\ settings' = settings /\ ~(next' >= 0) /\ Counted' = Counted
  BY <1>2 DEF vars, Counted, Earlier, Idle
<1>4. reports.counts.total \in Nat
  BY DEF ReportsInv, CountsInv, AreShaped, CountRecords
<1>5. CountsInv'
  BY <1>2, <1>3, <1>4 DEF ReportsInv, CountsInv
<1> QED BY <1>1, <1>3, <1>5 DEF ReportsInv, TextInv, NolintInv

LEMMA NextReports == ReportsInv /\ [Next]_runVars => ReportsInv'
<1> SUFFICES ASSUME ReportsInv, [Next]_runVars PROVE ReportsInv'
  OBVIOUS
<1>1. CASE ParseArguments
  BY <1>1, ParseArgumentsReports
<1>2. CASE StartFile
  BY <1>2, StartFileReports
<1>3. CASE ProcessFileData /\ UNCHANGED <<command, status, queue, done>>
  BY <1>3, PrepareReports, ProcessLineReports, FinishReports DEF ProcessFileData
<1>4. CASE EndFile
  BY <1>4, EndFileReports
<1>5. CASE Exit
  BY <1>5, ExitReports
<1>6. CASE UNCHANGED runVars
  <2>1. Inv'
    BY <1>6, NextInv DEF ReportsInv
  <2>2. UNCHANGED <<reports, done, settings, next, status, command, clean, file, nesting>>
    BY <1>6 DEF runVars, vars
  <2>3. CountsInv' /\ TextInv'
    BY <2>2 DEF ReportsInv, CountsInv, TextInv, Counted, Earlier, LastLine
  <2>4. NolintInv'
    BY <2>2 DEF ReportsInv, NolintInv, Quiet, Silences
  <2> QED BY <2>1, <2>3, <2>4 DEF ReportsInv
<1> QED BY <1>1, <1>2, <1>3, <1>4, <1>5, <1>6 DEF Next

\* An error on a line under a NOLINT is not printed, once cpplint has read the NOLINT: for
\* every text, whatever its comments, strings, blocks and conditionals are.
THEOREM NolintsSilence == Spec => []NolintSilences
<1>1. ReportsInv => NolintSilences
  BY DEF ReportsInv, NolintInv, NolintSilences, Quiet, Inv, FilesInv, Idle, Unread
<1> QED BY InitReports, NextReports, <1>1, PTL DEF Spec

\* What is printed of all the files is what is counted, by any of the three ways to count,
\* and what the exit status says.
THEOREM CountsAgreeWithPrinted == Spec => []CountsAgree
<1>1. ReportsInv => CountsAgree
  <2> SUFFICES ASSUME ReportsInv PROVE CountsAgree
    OBVIOUS
  <2>1. settings.counting = command.counting \/ (status = "new" /\ Printed(Counted) = {})
    <3>1. CASE status = "new"
      <4>1. Counted = <<>>
        BY <3>1, FoundNone, NothingCounted
           DEF ReportsInv, CountsInv, Counted, Earlier, NoReports
      <4> QED BY <3>1, <4>1 DEF Printed
    <3> QED BY <3>1 DEF ReportsInv, CountsInv
  <2>2. Agree(reports.counts, command.counting, Counted)
    <3>1. CASE settings.counting = command.counting
      BY <3>1 DEF ReportsInv, CountsInv
    <3>2. CASE status = "new" /\ Printed(Counted) = {}
      <4>1. reports.counts = NoCounts /\ Counted = <<>>
        BY <3>2, FoundNone, NothingCounted
           DEF ReportsInv, CountsInv, Counted, Earlier, NoReports
      <4> QED BY <4>1, NothingCounted
    <3> QED BY <2>1, <3>1, <3>2
  <2> DEFINE printed == Printed(Counted)
             name(i) == NameOf(Counted, command.counting, i)
             categories == {name(i) : i \in printed}
  <2>3. /\ reports.counts.total = Cardinality(printed)
        /\ command.counting # "total" =>
             /\ DOMAIN reports.counts.by = categories
             /\ \A c \in categories : reports.counts.by[c] = Cardinality({i \in printed : name(i) = c})
    BY <2>2 DEF Agree, PrintedAs
  <2>4. (status = "failed" => printed # {}) /\ (status = "clean" => printed = {})
    <3>1. IsFiniteSet(printed)
      <4>1. IsSequence(Counted)
        BY EarlierIs, JoinedIs, JoinedNone DEF Counted, ReportsInv, CountsInv, AreShaped
      <4>2. IsFiniteSet(1..Len(Counted)) /\ printed \subseteq 1..Len(Counted)
        <5>1. Len(Counted) \in Int /\ 1 \in Int /\ DOMAIN Counted = 1..Len(Counted)
          BY <4>1 DEF IsSequence
        <5> QED BY <5>1, FS_Interval DEF Printed
      <4> QED BY <4>2, FS_Subset
    <3>2. Cardinality(printed) = 0 <=> printed = {}
      BY <3>1, FS_EmptySet
    <3>3. (status = "failed" => reports.counts.total > 0) /\ (status = "clean" => reports.counts.total = 0)
      BY DEF ReportsInv, CountsInv
    <3> HIDE DEF printed
    <3> QED BY <2>3, <3>2, <3>3
  <2> QED BY <2>3, <2>4 DEF CountsAgree, Counted, Earlier, FoundIn, Printed, NameOf
<1> QED BY InitReports, NextReports, <1>1, PTL DEF Spec

-----------------------------------------------------------------------------
(* Functions. *)

\* A function begins on the line, and has a body.
Begins(c, n) ==
  StartsFunction(c.lines[n]) /\ BodyLines(c, n) # {} /\ ~IsDeclaration(c.lines[Lowest(BodyLines(c, n))])
BegunIn(c, lines) == {n \in lines : Begins(c, n)}
BodyIn(c, lines) == {n \in lines : n > Highest(BegunIn(c, lines))}
CountedIn(c, lines) ==
  {n \in BodyIn(c, lines) : ~IsBlankLine(c.lines[n]) /\ ~StartsFunction(c.lines[n])}

IsFunction(f) == DOMAIN f = {"inside", "lines", "test"} /\ f.inside \in BOOLEAN /\ f.lines \in Nat
IsAsLong(f, c, lines) ==
  f.inside => /\ BegunIn(c, lines) # {} /\ \A n \in BodyIn(c, lines) : c.lines[n] # <<"}">>
              /\ f.lines = Cardinality(CountedIn(c, lines))

LEMMA OneToken ==
  ASSUME NEW x
  PROVE  /\ DOMAIN <<x>> = {1} /\ <<x>>[1] = x /\ <<x>> # << >>
         /\ DOMAIN Drop(<<x>>, 1) = {}
<1>1. <<x>> \in Seq({x}) /\ Len(<<x>>) = 1
  OBVIOUS
<1>2. DOMAIN <<x>> = 1..1 /\ 1..1 = {1} /\ 1..0 = {}
  OBVIOUS
<1>3. \A S : \A s \in Seq(S) : Len(s) = 1 => DOMAIN SubSeq(s, 2, 1) = 1..0
  OBVIOUS
<1>4. DOMAIN Drop(<<x>>, 1) = 1..0
  BY <1>1, <1>3 DEF Drop
<1> QED BY <1>2, <1>4

\* A brace alone is neither the beginning of a function nor a blank line: it ends one.
LEMMA BraceEnds ==
  ASSUME NEW line, line = <<"}">>
  PROVE  ~StartsFunction(line) /\ ~IsBlankLine(line) /\ EndsFunction(line)
<1>1. DOMAIN line = {1} /\ line[1] = "}" /\ line # << >> /\ DOMAIN Drop(line, 1) = {}
  BY OneToken
<1>2. ~Has(line, "(")
  BY <1>1 DEF Has, At
<1>3. ~IsBlankLine(line)
  BY <1>1 DEF IsBlankLine, Space
<1>4. IsBlankLine(Drop(line, 1))
  BY <1>1 DEF IsBlankLine
<1> QED BY <1>1, <1>2, <1>3, <1>4 DEF StartsFunction, EndsFunction

\* Where nothing begins on line n, the body is longer by it.
LEMMA BodyGrows ==
  ASSUME NEW c, NEW n \in Nat, ~Begins(c, n), BegunIn(c, 0..n - 1) # {}
  PROVE  /\ BegunIn(c, 0..n) = BegunIn(c, 0..n - 1)
         /\ BodyIn(c, 0..n) = BodyIn(c, 0..n - 1) \cup {n} /\ n \notin BodyIn(c, 0..n - 1)
<1>1. 0..n = 0..n - 1 \cup {n}
  OBVIOUS
<1>2. BegunIn(c, 0..n) = BegunIn(c, 0..n - 1)
  BY <1>1 DEF BegunIn
<1>3. Highest(BegunIn(c, 0..n - 1)) \in 0..n - 1
  <2>1. 0 \in Int /\ n - 1 \in Int /\ BegunIn(c, 0..n - 1) \in SUBSET (0..n - 1)
    BY DEF BegunIn
  <2> HIDE DEF BegunIn
  <2> QED BY <2>1, HighestIs
<1>4. n > Highest(BegunIn(c, 0..n - 1)) /\ n \notin 0..n - 1
  BY <1>3
<1> QED BY <1>1, <1>2, <1>4 DEF BodyIn

LEMMA CountedIsFinite ==
  ASSUME NEW c, NEW n \in Nat
  PROVE  IsFiniteSet(CountedIn(c, 0..n - 1)) /\ Cardinality(CountedIn(c, 0..n - 1)) \in Nat
<1>1. IsFiniteSet(0..n - 1)
  <2>1. 0 \in Int /\ n - 1 \in Int
    OBVIOUS
  <2> QED BY <2>1, FS_Interval
<1>2. CountedIn(c, 0..n - 1) \subseteq 0..n - 1
  BY DEF CountedIn, BodyIn
<1> QED BY <1>1, <1>2, FS_Subset, FS_CardinalityType

LEMMA FunctionStateIs ==
  ASSUME NEW f, IsFunction(f), NEW c, NEW n \in Nat, IsAsLong(f, c, 0..n - 1)
  PROVE  IsFunction(FunctionState(f, c, n)) /\ IsAsLong(FunctionState(f, c, n), c, 0..n)
<1> DEFINE line == c.lines[n]
           after == FunctionState(f, c, n)
<1>1. 0..n = 0..n - 1 \cup {n} /\ n \notin 0..n - 1
  OBVIOUS
<1>2. CASE Begins(c, n)
  <2>1. after = [inside |-> TRUE, lines |-> 0, test |-> IsTest(line)]
    BY <1>2 DEF FunctionState, Begins
  <2>2. BegunIn(c, 0..n) \in SUBSET (0..n) /\ n \in BegunIn(c, 0..n)
    BY <1>1, <1>2 DEF BegunIn
  <2>3. Highest(BegunIn(c, 0..n)) \in 0..n /\ Highest(BegunIn(c, 0..n)) >= n
    <3>1. 0 \in Int /\ n \in Int /\ BegunIn(c, 0..n) # {}
      BY <2>2
    <3> QED BY <2>2, <3>1, HighestIs
  <2>4. BodyIn(c, 0..n) = {}
    BY <2>3 DEF BodyIn
  <2>5. Cardinality(CountedIn(c, 0..n)) = 0
    BY <2>4, FS_EmptySet DEF CountedIn
  <2> HIDE DEF after
  <2>6. after.inside = TRUE /\ after.lines = 0 /\ DOMAIN after = {"inside", "lines", "test"}
    BY <2>1
  <2>7. IsFunction(after)
    <3>1. after.inside \in BOOLEAN
      BY <2>6, Zenon
    <3>2. after.lines \in Nat
      BY <2>6
    <3> QED BY <2>6, <3>1, <3>2 DEF IsFunction
  <2>8. IsAsLong(after, c, 0..n)
    BY <2>2, <2>4, <2>5, <2>6 DEF IsAsLong
  <2> QED BY <2>7, <2>8 DEF after
<1>3. CASE ~Begins(c, n) /\ StartsFunction(line)
  <2>1. after = f
    BY <1>3 DEF FunctionState, Begins
  <2>2. ASSUME f.inside PROVE IsAsLong(f, c, 0..n)
    <3>1. BegunIn(c, 0..n - 1) # {}
      BY <2>2 DEF IsAsLong
    <3>2. CountedIn(c, 0..n) = CountedIn(c, 0..n - 1)
      BY <1>3, <3>1, BodyGrows DEF CountedIn
    <3>3. line # <<"}">>
      BY <1>3, BraceEnds
    <3>4. /\ BegunIn(c, 0..n) = BegunIn(c, 0..n - 1)
          /\ BodyIn(c, 0..n) = BodyIn(c, 0..n - 1) \cup {n}
      BY <1>3, <3>1, BodyGrows
    <3> HIDE DEF line, after
    <3> QED BY <2>2, <3>1, <3>2, <3>3, <3>4 DEF IsAsLong, line
  <2> QED BY <2>1, <2>2 DEF IsAsLong
<1>4. CASE ~StartsFunction(line) /\ EndsFunction(line)
  <2>1. after = [f EXCEPT !.inside = FALSE]
    BY <1>4 DEF FunctionState
  <2> HIDE DEF after
  <2>2. after.inside = FALSE /\ after.lines = f.lines /\ DOMAIN after = DOMAIN f
    BY <2>1 DEF IsFunction
  <2> QED BY <2>2 DEF IsFunction, IsAsLong, after
<1>5. CASE ~StartsFunction(line) /\ ~EndsFunction(line) /\ ~(~IsBlankLine(line) /\ f.inside)
  <2>1. after = f
    BY <1>5 DEF FunctionState
  <2>2. ASSUME f.inside PROVE IsAsLong(f, c, 0..n)
    <3>1. BegunIn(c, 0..n - 1) # {} /\ ~Begins(c, n)
      BY <1>5, <2>2 DEF IsAsLong, Begins
    <3>2. CountedIn(c, 0..n) = CountedIn(c, 0..n - 1)
      BY <1>5, <2>2, <3>1, BodyGrows DEF CountedIn
    <3>3. line # <<"}">>
      BY <1>5, BraceEnds
    <3>4. /\ BegunIn(c, 0..n) = BegunIn(c, 0..n - 1)
          /\ BodyIn(c, 0..n) = BodyIn(c, 0..n - 1) \cup {n}
      BY <3>1, BodyGrows
    <3> HIDE DEF line, after
    <3> QED BY <2>2, <3>1, <3>2, <3>3, <3>4 DEF IsAsLong, line
  <2> QED BY <2>1, <2>2 DEF IsAsLong
<1>6. CASE ~StartsFunction(line) /\ ~EndsFunction(line) /\ ~IsBlankLine(line) /\ f.inside
  <2>1. after = [f EXCEPT !.lines = f.lines + 1]
    BY <1>6 DEF FunctionState
  <2>2. BegunIn(c, 0..n - 1) # {} /\ ~Begins(c, n)
    BY <1>6 DEF IsAsLong, Begins
  <2>3. CountedIn(c, 0..n) = CountedIn(c, 0..n - 1) \cup {n} /\ n \notin CountedIn(c, 0..n - 1)
    BY <1>6, <2>2, BodyGrows DEF CountedIn
  <2>4. f.lines = Cardinality(CountedIn(c, 0..n - 1))
    BY <1>6 DEF IsAsLong
  <2>5. Cardinality(CountedIn(c, 0..n)) = f.lines + 1
    BY <2>3, <2>4, CountedIsFinite, FS_AddElement
  <2>6. line # <<"}">>
    BY <1>6, BraceEnds
  <2> HIDE DEF after
  <2>7. after.inside = f.inside /\ after.lines = f.lines + 1 /\ DOMAIN after = DOMAIN f
    BY <2>1 DEF IsFunction
  <2>8. IsFunction(after)
    BY <2>7 DEF IsFunction
  <2>9. IsAsLong(after, c, 0..n)
    <3>1. /\ BegunIn(c, 0..n) = BegunIn(c, 0..n - 1)
          /\ BodyIn(c, 0..n) = BodyIn(c, 0..n - 1) \cup {n}
      BY <2>2, BodyGrows
    <3>2. \A m \in BodyIn(c, 0..n - 1) : c.lines[m] # <<"}">>
      BY <1>6 DEF IsAsLong
    <3> QED BY <2>2, <2>5, <2>6, <2>7, <3>1, <3>2 DEF IsAsLong
  <2> QED BY <2>8, <2>9 DEF after
<1> QED BY <1>2, <1>3, <1>4, <1>5, <1>6 DEF Begins
-----------------------------------------------------------------------------
(* The run: the lines read. *)

\* What the steps do to the states that go with the lines read.
Prepares ==
  /\ next' = 0 /\ Read' = {} /\ clean' = CleansedLines(RemoveMultiLineComments(Marked(file.lines)))
  /\ nesting' = InitNestingState /\ include' = InitIncludeState /\ function' = InitFunctionState
  /\ OnlyOfLines(reports'.found)
Reads ==
  /\ next \in 0..LastLine /\ next' = next + 1 /\ Read = 0..next - 1 /\ Read' = 0..next
  /\ IsText(clean, LastLine) /\ LastLine \in Nat /\ UNCHANGED <<clean, file>>
  /\ nesting' = Update(nesting, clean, next)
  /\ function' = IF InAsmBlock(nesting') THEN function ELSE FunctionState(function, clean, next)
  /\ include' = IF InAsmBlock(nesting') THEN include ELSE IncludeStateAfter(next)
  /\ ErrorsIn(reports.found) \subseteq ErrorsIn(reports'.found)
  /\ OnlyOfLines(reports.found) => OnlyOfLines(reports'.found)
  /\ ~InAsmBlock(nesting') => ToSet(CheckLanguageErrors(next)) \subseteq ErrorsIn(reports'.found)
Finishes ==
  /\ next = EndOfFile /\ next' = Done /\ next >= 0 /\ Read' = Read
  /\ UNCHANGED <<clean, file, nesting, include, function>>
  /\ ErrorsIn(reports.found) \subseteq ErrorsIn(reports'.found)
  /\ OnlyOfLines(reports.found) =>
       \A e \in ErrorsIn(reports'.found) :
         e.category \in LineCategories \/ e \in ToSet(IncludeWhatYouUseErrors(include, file, clean))
  /\ ToSet(BadCharacterErrors(clean.raw)) \subseteq ErrorsIn(reports'.found)

LEMMA PreparesIs ==
  ASSUME ReportsInv, Prepare, UNCHANGED <<command, status, queue, done>>
  PROVE  Prepares
<1>1. /\ next' = 0 /\ nesting' = InitNestingState /\ include' = InitIncludeState
      /\ function' = InitFunctionState
      /\ clean' = CleansedLines(RemoveMultiLineComments(Marked(file.lines)))
  BY Zenon DEF Prepare
<1>5. ReportsInv' /\ OnlyOfLines(reports'.found)
  BY PrepareReports
<1>2. DOMAIN clean'.raw \subseteq Nat
  BY <1>5 DEF ReportsInv, Inv, FilesInv
<1>3. \A n \in Nat : ~(n < 0)
  OBVIOUS
<1>4. Read' = {}
  BY <1>1, <1>2, <1>3 DEF Read
<1> QED BY <1>1, <1>4, <1>5 DEF Prepares

LEMMA TextIsRead ==
  ASSUME ReportsInv, next >= 0
  PROVE  /\ LastLine \in Nat /\ IsText(clean, LastLine) /\ DOMAIN clean.raw = 0..LastLine
         /\ next \in Nat /\ EndOfFile = LastLine + 1 /\ Done = LastLine + 2 /\ file \in Files
<1>1. next # Idle
  BY DEF Idle
<1>2. file \in Files /\ IsText(clean, LastLine) /\ next \in Nat
  BY <1>1 DEF ReportsInv, TextInv, Inv, FilesInv, Unread
<1>3. LastLine \in Nat /\ EndOfFile = LastLine + 1 /\ Done = LastLine + 2
  BY <1>2, FilesAssumption DEF LastLine, EndOfFile, Done
<1> QED BY <1>2, <1>3 DEF IsText, Lines

\* What is reported of a line, and at the end of the file.
LEMMA LineFinds ==
  ASSUME ReportsInv, next >= 0, ProcessLine
  PROVE  /\ ErrorsIn(reports.found) \subseteq ErrorsIn(reports'.found)
         /\ OnlyOfLines(reports.found) => OnlyOfLines(reports'.found)
         /\ ~InAsmBlock(nesting') => ToSet(CheckLanguageErrors(next)) \subseteq ErrorsIn(reports'.found)
<1> DEFINE n == next
           updated == Update(nesting, clean, n)
           parsed == ParseNolintSuppressions(reports, clean.raw, n, n)
           nested == UpdateErrors(nesting, clean, n) \o NamespaceIndentationErrors(updated, clean, n)
           checked == FunctionLengthErrors(function, clean, settings.verbose, n)
                      \o MultilineErrors(clean.elided[n], n) \o StyleErrors(updated, n)
                      \o CheckLanguageErrors(n)
           skipped == InAsmBlock(updated)
           errors == nested \o When(~skipped, checked) \o Cxx11Errors(n)
<1>1. n \in DOMAIN clean.raw /\ nesting' = updated /\ reports' = Report(parsed, errors, n)
  BY Zenon DEF ProcessLine
<1>2. LastLine \in Nat /\ IsText(clean, LastLine) /\ n \in 0..LastLine /\ nesting \in NestingStates(AllAsms)
  BY <1>1, TextIsRead DEF ReportsInv, TextInv
<1>3. IsErrors(errors) /\ (~skipped => ToSet(CheckLanguageErrors(n)) \subseteq ToSet(errors))
  <2> HIDE DEF updated, skipped, n
  <2> QED BY <1>2, LineErrorsAre
<1> HIDE DEF updated, errors
<1>4. IsSequence(Earlier) /\ AreReports(reports, settings.counting, Earlier)
  BY EarlierIs DEF ReportsInv, CountsInv, Counted, AreReports
<1>5. /\ AreReports(parsed, settings.counting, Earlier)
      /\ ErrorsIn(parsed.found) = ErrorsIn(reports.found) \cup ToSet(NolintErrors(clean.raw[n], n))
  <2> HIDE DEF n
  <2> QED BY <1>4, ParseNolintSuppressionsIs
<1> HIDE DEF parsed
<1>6. ErrorsIn(reports'.found) = ErrorsIn(parsed.found) \cup ToSet(errors)
  BY <1>1, <1>3, <1>5, ReportFinds, LineErrorsAreErrors DEF AreReports
<1>7. \A e \in ToSet(errors) \cup ToSet(NolintErrors(clean.raw[n], n)) : e.category \in LineCategories
  BY <1>3, NolintErrorsAre, CategoriesOf
<1> QED BY <1>1, <1>3, <1>5, <1>6, <1>7 DEF OnlyOfLines

LEMMA EndFinds ==
  ASSUME ReportsInv, next >= 0, Finish
  PROVE  /\ ErrorsIn(reports.found) \subseteq ErrorsIn(reports'.found)
         /\ OnlyOfLines(reports.found) =>
              \A e \in ErrorsIn(reports'.found) :
                e.category \in LineCategories \/ e \in ToSet(IncludeWhatYouUseErrors(include, file, clean))
         /\ ToSet(BadCharacterErrors(clean.raw)) \subseteq ErrorsIn(reports'.found)
<1> DEFINE errors == CompletedBlocksErrors(nesting) \o IncludeWhatYouUseErrors(include, file, clean)
                     \o HeaderIncludedErrors(include, file) \o BadCharacterErrors(clean.raw)
                     \o NewlineAtEOFErrors(clean.raw)
<1>1. reports' = Report(reports, errors, EndOfFile)
  BY Zenon DEF Finish
<1>2. LastLine \in Nat /\ IsText(clean, LastLine) /\ nesting \in NestingStates(AllAsms)
  BY TextIsRead DEF ReportsInv, TextInv
<1>3. /\ AnyErrors(errors)
      /\ \A e \in ToSet(errors) : e.category \in LineCategories
                                  \/ e \in ToSet(IncludeWhatYouUseErrors(include, file, clean))
      /\ ToSet(BadCharacterErrors(clean.raw)) \subseteq ToSet(errors)
  BY <1>2, FinishErrorsAre
<1> HIDE DEF errors
<1>4. ErrorsIn(reports'.found) = ErrorsIn(reports.found) \cup ToSet(errors)
  BY <1>1, <1>3, ReportFinds DEF ReportsInv, CountsInv
<1> QED BY <1>3, <1>4 DEF OnlyOfLines

LEMMA ReadsIs ==
  ASSUME ReportsInv, ProcessLine
  PROVE  Reads
<1>1. /\ next \in DOMAIN clean.raw /\ next' = next + 1 /\ UNCHANGED <<clean, file>>
      /\ nesting' = Update(nesting, clean, next)
      /\ function' = IF InAsmBlock(nesting') THEN function ELSE FunctionState(function, clean, next)
      /\ include' = IF InAsmBlock(nesting') THEN include ELSE IncludeStateAfter(next)
  BY Zenon DEF ProcessLine
<1>2. next >= 0
  BY <1>1 DEF ReportsInv, Inv, FilesInv
<1>3. LastLine \in Nat /\ IsText(clean, LastLine) /\ DOMAIN clean.raw = 0..LastLine
  BY <1>2, TextIsRead
<1>4. Read = 0..next - 1 /\ Read' = 0..next
  BY <1>1, <1>3 DEF Read
<1>5. /\ ErrorsIn(reports.found) \subseteq ErrorsIn(reports'.found)
      /\ OnlyOfLines(reports.found) => OnlyOfLines(reports'.found)
      /\ ~InAsmBlock(nesting') => ToSet(CheckLanguageErrors(next)) \subseteq ErrorsIn(reports'.found)
  BY <1>2, LineFinds
<1> QED BY <1>1, <1>3, <1>4, <1>5 DEF Reads

LEMMA FinishesIs ==
  ASSUME ReportsInv, Finish
  PROVE  Finishes
<1>1. /\ next = EndOfFile /\ next' = Done /\ UNCHANGED <<clean, file, nesting, include, function>>
  BY Zenon DEF Finish
<1>2. next >= 0
  <2>1. next # Idle /\ file \in Files
    BY <1>1, FilesAssumption DEF EndOfFile, Idle, ReportsInv, Inv, FilesInv
  <2> QED BY <1>1, <2>1, FilesAssumption DEF EndOfFile
<1>3. DOMAIN clean.raw = 0..LastLine /\ next = LastLine + 1 /\ next' = LastLine + 2 /\ LastLine \in Nat
  BY <1>1, <1>2, TextIsRead
<1>4. Read' = Read
  BY <1>1, <1>3 DEF Read
<1>5. /\ ErrorsIn(reports.found) \subseteq ErrorsIn(reports'.found)
      /\ OnlyOfLines(reports.found) =>
           \A e \in ErrorsIn(reports'.found) :
             e.category \in LineCategories \/ e \in ToSet(IncludeWhatYouUseErrors(include, file, clean))
      /\ ToSet(BadCharacterErrors(clean.raw)) \subseteq ErrorsIn(reports'.found)
  BY <1>2, EndFinds
<1> QED BY <1>1, <1>2, <1>4, <1>5 DEF Finishes

\* Every step prepares the text, reads a line or is behind the last; or there is no text.
LEMMA StepIs ==
  ASSUME ReportsInv, [Next]_runVars
  PROVE  \/ ~(next' >= 0)
         \/ Prepare /\ Prepares
         \/ ProcessLine /\ Reads
         \/ Finish /\ Finishes
         \/ UNCHANGED vars
<1>1. CASE ParseArguments \/ StartFile \/ EndFile \/ Exit
  <2>1. next' \in {Idle, Unread}
    BY <1>1 DEF ParseArguments, StartFile, EndFile, Exit, ReportsInv, CountsInv, vars
  <2> QED BY <2>1 DEF Idle, Unread
<1>2. CASE ProcessFileData /\ UNCHANGED <<command, status, queue, done>>
  <2> QED BY <1>2, PreparesIs, ReadsIs, FinishesIs DEF ProcessFileData
<1>3. CASE UNCHANGED runVars
  BY <1>3 DEF runVars
<1> QED BY <1>1, <1>2, <1>3 DEF Next

-----------------------------------------------------------------------------
(* The run: the lines of functions. *)

\* Without assembly in the lines read, no line was passed over; and the length of the function
\* is that of its body.
FunctionInv ==
  next >= 0 /\ NoAssembly =>
    /\ nesting \in NestingStates({"no"})
    /\ IsFunction(function) /\ IsAsLong(function, clean, Read)

\* A line without assembly is not passed over.
LEMMA NotPassedOver ==
  ASSUME ReportsInv, FunctionInv, Reads, NoAssembly'
  PROVE  /\ NoAssembly /\ next >= 0 /\ nesting' \in NestingStates({"no"}) /\ ~InAsmBlock(nesting')
         /\ clean.elided[next] \in LinesOf({"no"})
<1>1. next >= 0 /\ next \in Read' /\ Read \subseteq Read' /\ clean' = clean
  BY DEF Reads
<1>2. NoAssembly /\ ~Has(clean.elided[next], "asm")
  BY <1>1 DEF NoAssembly
<1>3. clean.elided[next] \in LinesOf({"no"})
  <2>1. clean.elided[next] \in Seq(Token)
    BY DEF Reads, IsText, Lines, Line
  <2> DEFINE line == clean.elided[next]
  <2> HIDE DEF line, Token
  <2>2. \A i \in DOMAIN line : line[i] \in TokensOf({"no"})
    BY <1>2, <2>1 DEF TokensOf, Has, At, line
  <2>3. line \in Seq(TokensOf({"no"}))
    BY <2>1, <2>2 DEF line
  <2> QED BY <2>3 DEF LinesOf, line
<1>4. nesting' \in NestingStates({"no"})
  BY <1>1, <1>2, <1>3, UpdateIs DEF FunctionInv, Reads, AreAsms
<1>5. ~InAsmBlock(nesting')
  <2> SUFFICES ASSUME nesting'.stack # << >> PROVE Top(nesting'.stack).asm = "no"
    BY DEF InAsmBlock
  <2>1. nesting'.stack \in Seq(Blocks({"no"}))
    BY <1>4 DEF NestingStates, Stacks
  <2>2. Top(nesting'.stack) \in Blocks({"no"})
    BY <2>1, TopIs
  <2> QED BY <2>2 DEF Blocks
<1> QED BY <1>1, <1>2, <1>3, <1>4, <1>5

LEMMA NextFunction == ReportsInv /\ FunctionInv /\ [Next]_runVars => FunctionInv'
<1> SUFFICES ASSUME ReportsInv, FunctionInv, [Next]_runVars, next' >= 0, NoAssembly'
             PROVE  /\ nesting' \in NestingStates({"no"})
                    /\ IsFunction(function') /\ IsAsLong(function', clean', Read')
  BY DEF FunctionInv
<1>1. CASE Prepares
  <2>1. nesting' \in NestingStates({"no"})
    BY <1>1, EmptySeq DEF Prepares, InitNestingState, NestingStates, Stacks
  <2>2. function' = [inside |-> FALSE, lines |-> 0, test |-> FALSE]
    BY <1>1 DEF Prepares, InitFunctionState
  <2>3. DOMAIN function' = {"inside", "lines", "test"} /\ function'.inside = FALSE /\ function'.lines = 0
    BY <2>2
  <2>4. function'.inside \in BOOLEAN
    BY <2>3, Zenon
  <2>5. IsFunction(function')
    BY <2>3, <2>4 DEF IsFunction
  <2> QED BY <2>1, <2>3, <2>5 DEF IsAsLong
<1>2. CASE Reads
  <2>1. NoAssembly /\ next >= 0 /\ nesting' \in NestingStates({"no"}) /\ ~InAsmBlock(nesting')
    BY <1>2, NotPassedOver
  <2>2. /\ function' = FunctionState(function, clean, next) /\ clean' = clean
        /\ Read = 0..next - 1 /\ Read' = 0..next /\ next \in Nat
    BY <1>2, <2>1 DEF Reads
  <2>3. IsFunction(function) /\ IsAsLong(function, clean, 0..next - 1)
    BY <2>1, <2>2 DEF FunctionInv
  <2> QED BY <2>1, <2>2, <2>3, FunctionStateIs
<1>3. CASE Finishes \/ UNCHANGED vars
  <2>1. /\ next >= 0 /\ Read' = Read /\ clean' = clean /\ nesting' = nesting /\ function' = function
    BY <1>3 DEF Finishes, vars, Read
  <2>2. NoAssembly
    BY <2>1 DEF NoAssembly
  <2> QED BY <2>1, <2>2 DEF FunctionInv
<1> QED BY <1>1, <1>2, <1>3, StepIs

LEMMA InitRead == Init => ~(next >= 0)
BY DEF Init, ProcessFileInit, Idle

\* The length of a function that is open is the number of the lines with code in its body, for
\* every text without assembly.
THEOREM FunctionLinesAreCounted == Spec => []FunctionLinesCounted
<1>1. Init => FunctionInv
  BY InitRead DEF FunctionInv
<1>2. ReportsInv /\ FunctionInv => FunctionLinesCounted
  <2> SUFFICES ASSUME ReportsInv, FunctionInv, next > 0, function.inside, NoAssembly
               PROVE  /\ BegunIn(clean, Read) # {} /\ \A n \in BodyIn(clean, Read) : clean.lines[n] # <<"}">>
                      /\ function.lines = Cardinality(CountedIn(clean, Read))
    BY DEF FunctionLinesCounted, Beginnings, BegunIn, Begins, BodyIn, CountedIn
  <2>1. next >= 0
    BY DEF ReportsInv, Inv, FilesInv, Idle, Unread
  <2> QED BY <2>1 DEF FunctionInv, IsAsLong
<1> QED BY InitReports, NextReports, NextFunction, <1>1, <1>2, PTL DEF Spec

-----------------------------------------------------------------------------
(* Includes. *)

\* What the include lines among the lines enter in the lists.
Entry(c, n) == [header |-> Included(c.lines[n]), line |-> n]
Entries(c, lines) == {Entry(c, n) : n \in {m \in lines : IsInclude(c.elided[m])}}
Sections == InitialSection..OtherHSection
IsIncludeState(state, c, lines) ==
  /\ DOMAIN state = {"section", "last", "lists"} /\ state.section \in Sections
  /\ state.lists # <<>> /\ state.lists \in Seq(Seq(Entries(c, lines)))

\* The section a header of the type is in, at least.
LeastSection(type) ==
  CASE type = CSysHeader -> CSection
    [] type = CppSysHeader -> CppSection
    [] type \in {LikelyMyHeader, PossibleMyHeader} -> MyHSection
    [] OTHER -> OtherHSection

\* The section before, at and after another header of the type.
MovesTo(section, type, s) ==
  /\ s \in Sections /\ s >= section /\ s >= LeastSection(type) /\ NextSection(s, type) = {s}

LEMMA NextSectionIs ==
  ASSUME NEW section \in Sections, NEW type
  PROVE  NextSection(section, type) = {}
         \/ \E s : NextSection(section, type) = {s} /\ MovesTo(section, type, s)
<1> USE DEF Sections, InitialSection, MyHSection, CSection, CppSection, OtherHSection
<1>1. section \in 0..4
  OBVIOUS
<1>2. CASE type = CSysHeader
  <2>4. type # CppSysHeader /\ type \notin {LikelyMyHeader, PossibleMyHeader}
    BY <1>2 DEF CSysHeader, CppSysHeader, LikelyMyHeader, PossibleMyHeader
  <2>5. \A s : NextSection(s, type) = IF s <= 2 THEN {2} ELSE {}
    BY <1>2, <2>4 DEF NextSection
  <2>6. LeastSection(type) = 2
    BY <1>2, <2>4 DEF LeastSection
  <2>1. NextSection(section, type) = (IF section <= 2 THEN {2} ELSE {}) /\ NextSection(2, type) = {2}
        /\ LeastSection(type) = 2
    BY <2>5, <2>6
  <2>2. CASE section <= 2
    <3>1. NextSection(section, type) = {2}
      BY <2>1, <2>2
    <3>2. MovesTo(section, type, 2)
      BY <1>1, <2>1, <2>2 DEF MovesTo
    <3> QED BY <3>1, <3>2
  <2>3. CASE ~(section <= 2)
    <3>1. NextSection(section, type) = {}
      BY <2>1, <2>3
    <3> QED BY <3>1
  <2> QED BY <2>2, <2>3, Zenon
<1>3. CASE type = CppSysHeader
  <2>4. type # CSysHeader /\ type \notin {LikelyMyHeader, PossibleMyHeader}
    BY <1>3 DEF CSysHeader, CppSysHeader, LikelyMyHeader, PossibleMyHeader
  <2>5. \A s : NextSection(s, type) = IF s <= 3 THEN {3} ELSE {}
    BY <1>3, <2>4 DEF NextSection
  <2>6. LeastSection(type) = 3
    BY <1>3, <2>4 DEF LeastSection
  <2>1. NextSection(section, type) = (IF section <= 3 THEN {3} ELSE {}) /\ NextSection(3, type) = {3}
        /\ LeastSection(type) = 3
    BY <2>5, <2>6
  <2>2. CASE section <= 3
    <3>1. NextSection(section, type) = {3}
      BY <2>1, <2>2
    <3>2. MovesTo(section, type, 3)
      BY <1>1, <2>1, <2>2 DEF MovesTo
    <3> QED BY <3>1, <3>2
  <2>3. CASE ~(section <= 3)
    <3>1. NextSection(section, type) = {}
      BY <2>1, <2>3
    <3> QED BY <3>1
  <2> QED BY <2>2, <2>3, Zenon
<1>4. CASE type \in {LikelyMyHeader, PossibleMyHeader}
  <2>1. type \notin {CSysHeader, CppSysHeader}
    BY <1>4 DEF CSysHeader, CppSysHeader, LikelyMyHeader, PossibleMyHeader
  <2>2. /\ NextSection(section, type) = {IF section <= 1 THEN 1 ELSE 4}
        /\ NextSection(1, type) = {1} /\ NextSection(4, type) = {4} /\ LeastSection(type) = 1
    BY <1>4, <2>1 DEF NextSection, LeastSection
  <2> QED BY <1>1, <2>2 DEF MovesTo
<1>5. CASE type \notin {CSysHeader, CppSysHeader, LikelyMyHeader, PossibleMyHeader}
  <2>1. NextSection(section, type) = {4} /\ NextSection(4, type) = {4} /\ LeastSection(type) = 4
    BY <1>5 DEF NextSection, LeastSection
  <2> QED BY <1>1, <2>1 DEF MovesTo
<1> QED BY <1>2, <1>3, <1>4, <1>5

LEMMA ListsOfMore ==
  ASSUME NEW S, NEW T, S \subseteq T
  PROVE  Seq(Seq(S)) \subseteq Seq(Seq(T))
<1>1. Seq(S) \subseteq Seq(T)
  OBVIOUS
<1> DEFINE A == Seq(S)
           B == Seq(T)
<1>2. A \subseteq B
  BY <1>1
<1> HIDE DEF A, B
<1>3. Seq(A) \subseteq Seq(B)
  BY <1>2
<1> QED BY <1>3 DEF A, B

LEMMA NoEntries ==
  ASSUME NEW c
  PROVE  IsIncludeState(InitIncludeState, c, {})
<1> DEFINE none == << >>
           lists == <<none>>
<1>1. none \in Seq(Entries(c, {}))
  BY EmptySeq
<1> HIDE DEF none
<1>2. lists \in Seq(Seq(Entries(c, {}))) /\ lists # <<>>
  BY <1>1
<1> HIDE DEF lists
<1>3. InitIncludeState = [section |-> InitialSection, last |-> 0, lists |-> lists]
  BY DEF InitIncludeState, lists, none
<1>4. InitialSection \in Sections
  BY DEF Sections, InitialSection, OtherHSection
<1> QED BY <1>2, <1>3, <1>4 DEF IsIncludeState

\* A list in place of the last.
LEMMA LastReplaced ==
  ASSUME NEW S, NEW lists \in Seq(S), lists # <<>>, NEW new \in S
  PROVE  /\ Len(lists) \in DOMAIN lists /\ lists[Len(lists)] \in S
         /\ [lists EXCEPT ![Len(lists)] = new] \in Seq(S)
         /\ DOMAIN [lists EXCEPT ![Len(lists)] = new] = DOMAIN lists
         /\ Len([lists EXCEPT ![Len(lists)] = new]) = Len(lists)
         /\ [lists EXCEPT ![Len(lists)] = new][Len(lists)] = new
         /\ \A j \in DOMAIN lists : j < Len(lists) => [lists EXCEPT ![Len(lists)] = new][j] = lists[j]
<1>1. Len(lists) \in DOMAIN lists
  BY EmptySeq
<1>2. [lists EXCEPT ![Len(lists)] = new] \in [1..Len(lists) -> S]
  OBVIOUS
<1> QED BY <1>1, <1>2

LEMMA ResetSectionIs ==
  ASSUME NEW c, NEW lines, NEW state, IsIncludeState(state, c, lines), NEW directive
  PROVE  IsIncludeState(ResetSection(state, directive), c, lines)
<1> DEFINE S == Seq(Entries(c, lines))
           none == << >>
           after == ResetSection(state, directive)
<1>1. none \in S /\ state.lists \in Seq(S) /\ state.lists # <<>>
  BY EmptySeq DEF IsIncludeState
<1>2. /\ DOMAIN after = {"section", "last", "lists"} /\ after.section = InitialSection
      /\ after.lists \in {Append(state.lists, none), [state.lists EXCEPT ![Len(state.lists)] = none], state.lists}
  BY DEF ResetSection
<1> HIDE DEF after, none, S
<1>3. Append(state.lists, none) \in Seq(S) /\ Append(state.lists, none) # <<>>
  BY <1>1
<1>4. [state.lists EXCEPT ![Len(state.lists)] = none] \in Seq(S)
      /\ [state.lists EXCEPT ![Len(state.lists)] = none] # <<>>
  BY <1>1, LastReplaced
<1>5. InitialSection \in Sections
  BY DEF Sections, InitialSection, OtherHSection
<1> QED BY <1>1, <1>2, <1>3, <1>4, <1>5 DEF IsIncludeState, S, after

\* A header that is entered.
IsEntered(after, state, f, c, n) ==
  LET type == ClassifyInclude(f, Included(c.lines[n]), IsSystem(c.lines[n]))
      moves == NextSection(state.section, type)
  IN /\ DOMAIN after = {"section", "last", "lists"}
     /\ after.last = Headers[Included(c.lines[n])].order
     /\ after.section = (IF moves = {} THEN state.section ELSE CHOOSE s \in moves : TRUE)
     /\ after.lists = [state.lists EXCEPT ![Len(state.lists)] = Append(@, Entry(c, n))]

LEMMA EnteredIs ==
  ASSUME NEW c, NEW lines, NEW state, IsIncludeState(state, c, lines), NEW f, NEW n,
         IsOrdered(state, f, Included(c.lines[n]))
  PROVE  IsEntered(IncludeAfter(state, f, c.lines[n], n), state, f, c, n)
<1> DEFINE header == Included(c.lines[n])
           type == ClassifyInclude(f, header, IsSystem(c.lines[n]))
           moves == NextSection(state.section, type)
           lists == [state.lists EXCEPT ![Len(state.lists)] = Append(@, Entry(c, n))]
           listed == [state EXCEPT !.lists[Len(state.lists)] = Append(@, [header |-> header, line |-> n])]
           checked == CheckNextIncludeOrder(listed, type)
           after == IncludeAfter(state, f, c.lines[n], n)
<1>1. after = [checked EXCEPT !.last = Headers[header].order]
  BY DEF IncludeAfter
<1>2. /\ DOMAIN listed = {"section", "last", "lists"} /\ listed.section = state.section
      /\ listed.lists = lists
  BY DEF IsIncludeState, Entry
<1> HIDE DEF listed, lists, after, type
<1>3. /\ DOMAIN checked = {"section", "last", "lists"} /\ checked.lists = lists
      /\ checked.section = (IF moves = {} THEN state.section ELSE CHOOSE s \in moves : TRUE)
  BY <1>2 DEF CheckNextIncludeOrder
<1> HIDE DEF checked, moves, header
<1>4. /\ DOMAIN after = {"section", "last", "lists"} /\ after.lists = lists
      /\ after.last = Headers[header].order /\ after.section = checked.section
  BY <1>1, <1>3
<1> QED BY <1>3, <1>4 DEF IsEntered, after, lists, moves, header, type

LEMMA IncludeAfterIs ==
  ASSUME NEW c, NEW lines, NEW state, IsIncludeState(state, c, lines), NEW f, NEW n, IsInclude(c.elided[n])
  PROVE  LET after == IncludeAfter(state, f, c.lines[n], n)
         IN /\ IsIncludeState(after, c, lines \cup {n}) /\ after.section >= state.section
            /\ ~IsOrdered(state, f, Included(c.lines[n])) => after = state
<1> DEFINE after == IncludeAfter(state, f, c.lines[n], n)
           type == ClassifyInclude(f, Included(c.lines[n]), IsSystem(c.lines[n]))
           moves == NextSection(state.section, type)
           S == Seq(Entries(c, lines \cup {n}))
<1>1. state.lists \in Seq(S) /\ state.lists # <<>> /\ state.section \in Sections
  <2>1. Entries(c, lines) \subseteq Entries(c, lines \cup {n})
    BY DEF Entries
  <2>2. Seq(Seq(Entries(c, lines))) \subseteq Seq(S)
    BY <2>1, ListsOfMore
  <2> QED BY <2>2 DEF IsIncludeState
<1>2. CASE ~IsOrdered(state, f, Included(c.lines[n]))
  <2>1. after = state
    BY <1>2 DEF IncludeAfter
  <2>2. after.section >= state.section
    BY <1>1, <2>1 DEF Sections, InitialSection, OtherHSection
  <2> QED BY <1>1, <2>1, <2>2 DEF IsIncludeState
<1>3. CASE IsOrdered(state, f, Included(c.lines[n]))
  <2>1. /\ DOMAIN after = {"section", "last", "lists"}
        /\ after.section = (IF moves = {} THEN state.section ELSE CHOOSE s \in moves : TRUE)
        /\ after.lists = [state.lists EXCEPT ![Len(state.lists)] = Append(@, Entry(c, n))]
    <3>1. IsEntered(after, state, f, c, n)
      BY <1>3, EnteredIs
    <3> QED BY <3>1 DEF IsEntered
  <2> DEFINE new == Append(state.lists[Len(state.lists)], Entry(c, n))
  <2>2. Entry(c, n) \in Entries(c, lines \cup {n})
    BY DEF Entries
  <2>3. state.lists[Len(state.lists)] \in S /\ Len(state.lists) \in DOMAIN state.lists
    BY <1>1, EmptySeq
  <2>4. new \in S
    BY <2>2, <2>3
  <2> HIDE DEF after, S
  <2>5. after.lists = [state.lists EXCEPT ![Len(state.lists)] = new]
    BY <2>1
  <2> HIDE DEF new
  <2>6. after.lists \in Seq(S) /\ after.lists # <<>>
    BY <1>1, <2>4, <2>5, LastReplaced
  <2>7. after.section \in Sections /\ after.section >= state.section
    <3>1. CASE moves = {}
      BY <1>1, <2>1, <3>1 DEF Sections, InitialSection, OtherHSection
    <3>2. CASE moves # {}
      <4>1. PICK s : moves = {s} /\ MovesTo(state.section, type, s)
        BY <1>1, <3>2, NextSectionIs
      <4> HIDE DEF moves, type
      <4>2. after.section = s
        BY <2>1, <4>1
      <4> QED BY <4>1, <4>2 DEF MovesTo
    <3> QED BY <3>1, <3>2
  <2>8. IsIncludeState(after, c, lines \cup {n})
    BY <2>1, <2>6, <2>7 DEF IsIncludeState, S
  <2> QED BY <1>3, <2>7, <2>8 DEF after
<1> QED BY <1>2, <1>3

\* An include line begins with #include, which is none of the directives that end a section.
LEMMA IncludeBegins ==
  ASSUME NEW line, IsInclude(line)
  PROVE  FirstToken(line) = "#include" /\ FirstToken(line) \notin Directives
<1> DEFINE w == Words(line)
<1>1. Len(w) > 2 /\ w[1] = "#include"
  BY DEF IsInclude
<1> HIDE DEF w
<1>2. w # <<>>
  BY <1>1
<1> QED BY <1>1, <1>2 DEF FirstToken, w, Directives, Conditionals, Alternatives

LEMMA IncludeStateAfterIs ==
  ASSUME NEW n, NEW lines, IsIncludeState(include, clean, lines)
  PROVE  /\ IsIncludeState(IncludeStateAfter(n), clean, lines \cup {n})
         /\ FirstToken(clean.elided[n]) \notin Directives => IncludeStateAfter(n).section >= include.section
<1> DEFINE line == clean.elided[n]
           after == IncludeStateAfter(n)
<1>1. IsIncludeState(include, clean, lines \cup {n}) /\ include.section >= include.section
  <2>1. Entries(clean, lines) \subseteq Entries(clean, lines \cup {n})
    BY DEF Entries
  <2>2. Seq(Seq(Entries(clean, lines))) \subseteq Seq(Seq(Entries(clean, lines \cup {n})))
    BY <2>1, ListsOfMore
  <2>3. include.section \in 0..4
    BY DEF IsIncludeState, Sections, InitialSection, OtherHSection
  <2>4. include.section >= include.section
    BY <2>3
  <2>5. IsIncludeState(include, clean, lines \cup {n})
    BY <2>2 DEF IsIncludeState
  <2> QED BY <2>4, <2>5
<1>2. CASE IsInclude(line)
  <2>1. after = IncludeAfter(include, file, clean.lines[n], n)
    BY <1>2 DEF IncludeStateAfter
  <2>2. /\ IsIncludeState(IncludeAfter(include, file, clean.lines[n], n), clean, lines \cup {n})
        /\ IncludeAfter(include, file, clean.lines[n], n).section >= include.section
    BY <1>2, IncludeAfterIs
  <2> QED BY <2>1, <2>2
<1>3. CASE ~IsInclude(line) /\ FirstToken(line) \in Directives
  <2>1. after = ResetSection(include, FirstToken(line))
    BY <1>3 DEF IncludeStateAfter
  <2> QED BY <1>1, <1>3, <2>1, ResetSectionIs
<1>4. CASE ~IsInclude(line) /\ FirstToken(line) \notin Directives
  <2>1. after = include
    BY <1>4 DEF IncludeStateAfter
  <2> QED BY <1>1, <2>1
<1> QED BY <1>2, <1>3, <1>4

-----------------------------------------------------------------------------
(* The run: the order of includes. *)

LinesWith(found, category) == {e.line : e \in {f \in ErrorsIn(found) : f.category = category}}

LEMMA LinesAtIs ==
  ASSUME NEW found, NEW category
  PROVE  {e.error.line : e \in {f \in ToSet(found) : f.error.category = category}} = LinesWith(found, category)
BY DEF LinesWith, ErrorsIn, ToSet

LEMMA LinesGrow ==
  ASSUME NEW found, NEW more, ErrorsIn(found) \subseteq ErrorsIn(more), NEW category
  PROVE  LinesWith(found, category) \subseteq LinesWith(more, category)
BY DEF LinesWith

\* The include lines read that are in the lists.
Entered == {k \in ReadIncludes : IsListed(k) /\ k \notin LinesAt(Include)}

InOrder(n, m) ==
  /\ TypeAt(m) = CSysHeader => TypeAt(n) \in {CSysHeader, LikelyMyHeader, PossibleMyHeader}
  /\ TypeAt(m) = CppSysHeader => TypeAt(n) # OtherHeader
  /\ m = n + 1 /\ TypeAt(m) = TypeAt(n) /\ LinesAt(IncludeAlpha) = {}
       => Headers[HeaderAt(n)].order <= Headers[HeaderAt(m)].order
PairsInOrder == \A n, m \in Entered : n < m /\ SameStretch(n, m) => InOrder(n, m)

\* The state is in the section of every header of the stretch, and at the last line's.
IsReached(k) ==
  /\ include.section >= LeastSection(TypeAt(k))
  /\ k = next - 1 => /\ include.last = Headers[HeaderAt(k)].order
                     /\ NextSection(include.section, TypeAt(k)) = {include.section}
SectionReached == \A k \in Entered : SameStretch(k, next - 1) => IsReached(k)

OrderInv ==
  next >= 0 =>
    /\ IsIncludeState(include, clean, Read)
    /\ NoAssembly /\ LinesAt(IncludeOrder) = {} => PairsInOrder /\ (next <= EndOfFile => SectionReached)

LEMMA TypeIs ==
  ASSUME NEW f, NEW header, NEW system
  PROVE  ClassifyInclude(f, header, system)
           \in {CSysHeader, CppSysHeader, LikelyMyHeader, PossibleMyHeader, OtherHeader}
BY DEF ClassifyInclude

LEMMA LeastSectionIs ==
  ASSUME NEW type \in {CSysHeader, CppSysHeader, LikelyMyHeader, PossibleMyHeader, OtherHeader}
  PROVE  /\ LeastSection(type) \in Int
         /\ LeastSection(type) <= CSection => type \in {CSysHeader, LikelyMyHeader, PossibleMyHeader}
         /\ LeastSection(type) <= CppSection => type # OtherHeader
<1>1. \A a, b \in {CSysHeader, CppSysHeader, LikelyMyHeader, PossibleMyHeader, OtherHeader} : TRUE
  OBVIOUS
<1>2. CASE type = CppSysHeader
  <2>1. type \notin {CSysHeader, LikelyMyHeader, PossibleMyHeader, OtherHeader}
    BY <1>2 DEF CSysHeader, CppSysHeader, LikelyMyHeader, PossibleMyHeader, OtherHeader
  <2>2. LeastSection(type) = 3
    BY <1>2, <2>1 DEF LeastSection, CppSection
  <2> QED BY <2>1, <2>2 DEF CSection, CppSection
<1>3. CASE type = OtherHeader
  <2>1. type \notin {CSysHeader, CppSysHeader, LikelyMyHeader, PossibleMyHeader}
    BY <1>3 DEF CSysHeader, CppSysHeader, LikelyMyHeader, PossibleMyHeader, OtherHeader
  <2>2. LeastSection(type) = 4
    BY <2>1 DEF LeastSection, OtherHSection
  <2> QED BY <2>2 DEF CSection, CppSection
<1>4. CASE type = CSysHeader
  <2>1. type \notin {CppSysHeader, LikelyMyHeader, PossibleMyHeader, OtherHeader}
    BY <1>4 DEF CSysHeader, CppSysHeader, LikelyMyHeader, PossibleMyHeader, OtherHeader
  <2>2. LeastSection(type) = 2
    BY <1>4, <2>1 DEF LeastSection, CSection
  <2> QED BY <1>4, <2>1, <2>2
<1>5. CASE type \in {LikelyMyHeader, PossibleMyHeader}
  <2>1. type \notin {CSysHeader, CppSysHeader, OtherHeader}
    BY <1>5 DEF CSysHeader, CppSysHeader, LikelyMyHeader, PossibleMyHeader, OtherHeader
  <2>2. LeastSection(type) = 1
    BY <1>5, <2>1 DEF LeastSection, MyHSection
  <2> QED BY <1>5, <2>1, <2>2
<1> QED BY <1>2, <1>3, <1>4, <1>5

\* The sections before which a system header is in order.
LEMMA InSection ==
  ASSUME NEW section \in Sections, NEW type, NextSection(section, type) # {}
  PROVE  /\ type = CSysHeader => section <= CSection
         /\ type = CppSysHeader => section <= CppSection
<1>1. type = CppSysHeader => type # CSysHeader /\ type \notin {LikelyMyHeader, PossibleMyHeader}
  BY DEF CSysHeader, CppSysHeader, LikelyMyHeader, PossibleMyHeader
<1>2. type = CSysHeader => type # CppSysHeader /\ type \notin {LikelyMyHeader, PossibleMyHeader}
  BY DEF CSysHeader, CppSysHeader, LikelyMyHeader, PossibleMyHeader
<1>3. ASSUME type = CSysHeader PROVE section <= CSection
  <2>1. NextSection(section, type) = IF section <= CSection THEN {CSection} ELSE {}
    BY <1>2, <1>3 DEF NextSection
  <2> QED BY <2>1
<1>4. ASSUME type = CppSysHeader PROVE section <= CppSection
  <2>1. NextSection(section, type) = IF section <= CppSection THEN {CppSection} ELSE {}
    BY <1>1, <1>4 DEF NextSection
  <2> QED BY <2>1
<1> QED BY <1>3, <1>4

LEMMA WhenReports ==
  ASSUME NEW condition, condition, NEW e
  PROVE  e \in ToSet(When(condition, <<e>>))
<1>1. When(condition, <<e>>) = <<e>>
  BY DEF When
<1>2. DOMAIN <<e>> = {1} /\ <<e>>[1] = e
  BY OneToken
<1> QED BY <1>1, <1>2 DEF ToSet

\* What is said of an include line.
LEMMA IncludeErrorsSaid ==
  ASSUME NEW state, NEW f, NEW line, NEW previous, NEW n
  PROVE  LET header == Included(line)
             type == ClassifyInclude(f, header, IsSystem(line))
             errors == ToSet(IncludeErrors(state, f, line, previous, n))
         IN /\ FindHeader(state, header) >= 0 => Found(n, Include, 4) \in errors
            /\ IsOrdered(state, f, header) /\ NextSection(state.section, type) = {}
                 => Found(n, IncludeOrder, 4) \in errors
            /\ IsOrdered(state, f, header)
               /\ OutOfAlphabeticalOrder(CheckNextIncludeOrder(state, type), header, previous)
                 => Found(n, IncludeAlpha, 4) \in errors
<1> DEFINE header == Included(line)
           type == ClassifyInclude(f, header, IsSystem(line))
           checked == CheckNextIncludeOrder(state, type)
           c1 == ~IsSystem(line) /\ BareHeader(header)
           c2 == FindHeader(state, header) >= 0 \/ OtherPackagesSource(f, header)
           c3 == IsOrdered(state, f, header) /\ NextSection(state.section, type) = {}
           c4 == IsOrdered(state, f, header) /\ OutOfAlphabeticalOrder(checked, header, previous)
           e1 == When(c1, <<Found(n, Include, 4)>>)
           e2 == When(c2, <<Found(n, Include, 4)>>)
           e3 == When(c3, <<Found(n, IncludeOrder, 4)>>)
           e4 == When(c4, <<Found(n, IncludeAlpha, 4)>>)
<1>1. IncludeErrors(state, f, line, previous, n) = ((e1 \o e2) \o e3) \o e4
  BY DEF IncludeErrors
<1>2. AnyErrors(e1) /\ AnyErrors(e2) /\ AnyErrors(e3) /\ AnyErrors(e4)
  BY ErrorWhen, Categories, LineErrorsAreErrors
<1>3. (c2 => Found(n, Include, 4) \in ToSet(e2)) /\ (c3 => Found(n, IncludeOrder, 4) \in ToSet(e3))
      /\ (c4 => Found(n, IncludeAlpha, 4) \in ToSet(e4))
  <2> HIDE DEF c2, c3, c4
  <2> QED BY WhenReports
<1> HIDE DEF e1, e2, e3, e4
<1>4. AnyErrors(e1 \o e2) /\ AnyErrors((e1 \o e2) \o e3)
  BY <1>2, MoreAnyErrors
<1>5. ToSet(((e1 \o e2) \o e3) \o e4) = ToSet(e1) \cup ToSet(e2) \cup ToSet(e3) \cup ToSet(e4)
  <2>1. ToSet(e1 \o e2) = ToSet(e1) \cup ToSet(e2)
    BY <1>2, MembersOfErrors
  <2>2. ToSet((e1 \o e2) \o e3) = ToSet(e1 \o e2) \cup ToSet(e3)
    BY <1>2, <1>4, MembersOfErrors
  <2>3. ToSet(((e1 \o e2) \o e3) \o e4) = ToSet((e1 \o e2) \o e3) \cup ToSet(e4)
    BY <1>2, <1>4, MembersOfErrors
  <2> QED BY <2>1, <2>2, <2>3
<1> QED BY <1>1, <1>3, <1>5

\* at is the line of an entry of the header, or -1 if there is none.
IsWhere(at, header, entries) ==
  \/ at = -1 /\ \A e \in entries : e.header # header
  \/ \E e \in entries : e.header = header /\ at = e.line

LEMMA FindHeaderIs ==
  ASSUME NEW S, NEW state, state.lists \in Seq(Seq(S)), state.lists # <<>>, NEW header
  PROVE  IsWhere(FindHeader(state, header), header, Listed(state.lists))
<1> DEFINE all == FlattenSeq(state.lists)
           hits == {i \in DOMAIN all : all[i].header = header}
<1>1. all \in Seq(S) /\ ToSet(all) = Listed(state.lists)
  BY FlattenMembers
<1>2. FindHeader(state, header) = IF hits = {} THEN -1 ELSE all[Lowest(hits)].line
  BY DEF FindHeader
<1> HIDE DEF all
<1>3. hits \in SUBSET Nat
  BY <1>1
<1>4. CASE hits = {}
  BY <1>1, <1>2, <1>4 DEF ToSet, IsWhere
<1>5. CASE hits # {}
  <2>1. Lowest(hits) \in hits
    BY <1>3, <1>5, LowestIs
  <2>2. all[Lowest(hits)] \in ToSet(all) /\ all[Lowest(hits)].header = header
    BY <2>1 DEF ToSet
  <2> QED BY <1>1, <1>2, <1>5, <2>2 DEF IsWhere
<1> QED BY <1>4, <1>5

\* A header is found where it was entered.
LEMMA HeaderFound ==
  ASSUME NEW c, NEW lines \in SUBSET Nat, NEW state, IsIncludeState(state, c, lines), NEW header
  PROVE  /\ FindHeader(state, header) \in Int
         /\ FindHeader(state, header) < 0 => \A e \in Listed(state.lists) : e.header # header
         /\ FindHeader(state, header) >= 0 =>
              \E e \in Listed(state.lists) :
                e.header = header /\ FindHeader(state, header) = e.line /\ e.line \in lines
<1> DEFINE S == Entries(c, lines)
           found == FindHeader(state, header)
<1>1. state.lists \in Seq(Seq(S)) /\ state.lists # <<>>
  BY DEF IsIncludeState
<1>2. \A e \in Listed(state.lists) : e.line \in lines /\ e.line \in Nat
  <2>1. \A e \in Listed(state.lists) : e \in S
    <3> HIDE DEF S
    <3> QED BY <1>1, EmptySeq DEF Listed, ToSet
  <2>2. \A e \in S : e.line \in lines
    BY DEF Entries, Entry
  <2> QED BY <2>1, <2>2
<1>3. IsWhere(found, header, Listed(state.lists))
  <2> HIDE DEF S
  <2> QED BY <1>1, FindHeaderIs
<1> HIDE DEF found
<1>4. CASE found = -1 /\ \A e \in Listed(state.lists) : e.header # header
  BY <1>4 DEF found
<1>5. CASE \E e \in Listed(state.lists) : e.header = header /\ found = e.line
  <2>1. PICK e \in Listed(state.lists) : e.header = header /\ found = e.line
    BY <1>5
  <2>2. found \in Nat /\ e.line \in lines
    BY <1>2, <2>1
  <2> QED BY <2>1, <2>2 DEF found
<1> QED BY <1>3, <1>4, <1>5 DEF IsWhere

LEMMA FoundIs ==
  ASSUME NEW found, NEW n, NEW category, NEW confidence, Found(n, category, confidence) \in ErrorsIn(found)
  PROVE  n \in LinesWith(found, category)
<1> DEFINE e == Found(n, category, confidence)
<1>1. e.line = n /\ e.category = category
  BY DEF Found
<1> HIDE DEF e
<1>2. e \in ErrorsIn(found)
  BY DEF e
<1> QED BY <1>1, <1>2 DEF LinesWith

\* What reading an include line that is to be listed does and reports.
LEMMA IncludeRead ==
  ASSUME ReportsInv, FunctionInv, Reads, NoAssembly', IsIncludeState(include, clean, Read),
         IsInclude(clean.elided[next]), IsListed(next)
  PROVE  LET n == next
             header == HeaderAt(n)
             moves == NextSection(include.section, TypeAt(n))
             checked == CheckNextIncludeOrder(include, TypeAt(n))
         IN /\ include' = IncludeAfter(include, file, clean.lines[n], n)
            /\ FindHeader(include, header) >= 0 => n \in LinesWith(reports'.found, Include)
            /\ ~IsOrdered(include, file, header) => FindHeader(include, header) >= 0
            /\ IsOrdered(include, file, header) /\ moves = {} => n \in LinesWith(reports'.found, IncludeOrder)
            /\ IsOrdered(include, file, header)
               /\ OutOfAlphabeticalOrder(checked, header, clean.elided[n - 1])
                 => n \in LinesWith(reports'.found, IncludeAlpha)
<1> DEFINE n == next
           header == HeaderAt(n)
           errors == IncludeErrors(include, file, clean.lines[n], clean.elided[n - 1], n)
<1>1. ~InAsmBlock(nesting')
  BY NotPassedOver
<1>2. include' = IncludeAfter(include, file, clean.lines[n], n)
  BY <1>1 DEF Reads, IncludeStateAfter
<1>3. CheckLanguageErrors(n) = errors
  BY DEF CheckLanguageErrors
<1>4. ToSet(errors) \subseteq ErrorsIn(reports'.found)
  BY <1>1, <1>3 DEF Reads
<1>5. /\ FindHeader(include, header) >= 0 => Found(n, Include, 4) \in ToSet(errors)
      /\ IsOrdered(include, file, header) /\ NextSection(include.section, TypeAt(n)) = {}
           => Found(n, IncludeOrder, 4) \in ToSet(errors)
      /\ IsOrdered(include, file, header)
         /\ OutOfAlphabeticalOrder(CheckNextIncludeOrder(include, TypeAt(n)), header, clean.elided[n - 1])
           => Found(n, IncludeAlpha, 4) \in ToSet(errors)
  BY IncludeErrorsSaid DEF HeaderAt, TypeAt
<1> HIDE DEF errors
<1>6. Read \in SUBSET Nat
  BY DEF Reads
<1>7. FindHeader(include, header) \in Int
  BY <1>6, HeaderFound
<1> HIDE DEF header
<1>8. ~IsOrdered(include, file, header) => FindHeader(include, header) >= 0
  BY <1>7 DEF IsOrdered, IsListed, header
<1>9. \A category : Found(n, category, 4) \in ToSet(errors) => n \in LinesWith(reports'.found, category)
  BY <1>4, FoundIs
<1> QED BY <1>2, <1>5, <1>8, <1>9 DEF header

LEMMA SameText ==
  ASSUME UNCHANGED <<clean, file>>, NEW n, NEW m
  PROVE  /\ HeaderAt(n)' = HeaderAt(n) /\ TypeAt(n)' = TypeAt(n)
         /\ IsListed(n)' <=> IsListed(n)
         /\ SameStretch(n, m)' <=> SameStretch(n, m)
<1>1. HeaderAt(n)' = HeaderAt(n)
  BY DEF HeaderAt
<1>2. TypeAt(n)' = TypeAt(n)
  BY <1>1 DEF TypeAt
<1>3. IsListed(n)' <=> IsListed(n)
  BY <1>1 DEF IsListed
<1>4. SameStretch(n, m)' <=> SameStretch(n, m)
  BY DEF SameStretch, DirectiveOf
<1> QED BY <1>1, <1>2, <1>3, <1>4

\* More is reported, of the same text.
LEMMA MoreReported ==
  ASSUME UNCHANGED <<clean, file>>, ErrorsIn(reports.found) \subseteq ErrorsIn(reports'.found)
  PROVE  /\ \A category : LinesAt(category) \subseteq LinesAt(category)'
         /\ \A category : LinesAt(category)' = LinesWith(reports'.found, category)
         /\ \A n, m : InOrder(n, m) => InOrder(n, m)'
<1>1. \A category : LinesAt(category) = LinesWith(reports.found, category)
  BY LinesAtIs DEF LinesAt
<1>2. \A category : LinesAt(category)' = LinesWith(reports'.found, category)
  BY LinesAtIs DEF LinesAt
<1>3. \A category : LinesAt(category) \subseteq LinesAt(category)'
  BY <1>1, <1>2, LinesGrow
<1>4. LinesAt(IncludeAlpha) \subseteq LinesAt(IncludeAlpha)'
  BY <1>3
<1>5. ASSUME NEW n, NEW m, InOrder(n, m) PROVE InOrder(n, m)'
  <2>1. /\ HeaderAt(n)' = HeaderAt(n) /\ TypeAt(n)' = TypeAt(n)
        /\ HeaderAt(m)' = HeaderAt(m) /\ TypeAt(m)' = TypeAt(m)
    BY SameText
  <2> QED BY <1>4, <1>5, <2>1 DEF InOrder
<1> QED BY <1>2, <1>3, <1>5

\* A header that is entered, and its place.
LEMMA EnteredNext ==
  ASSUME ReportsInv, FunctionInv, Reads, NoAssembly', IsIncludeState(include, clean, Read),
         LinesAt(IncludeOrder)' = {}, next \in Entered'
  PROVE  /\ IsInclude(clean.elided[next]) /\ HeaderAt(next) \in DOMAIN Headers
         /\ NextSection(include.section, TypeAt(next)) # {}
         /\ MovesTo(include.section, TypeAt(next), include'.section)
         /\ include'.last = Headers[HeaderAt(next)].order
         /\ OutOfAlphabeticalOrder(CheckNextIncludeOrder(include, TypeAt(next)), HeaderAt(next), clean.elided[next - 1])
              => next \in LinesAt(IncludeAlpha)'
<1> DEFINE n == next
           moves == NextSection(include.section, TypeAt(n))
<1>1. UNCHANGED <<clean, file>> /\ ErrorsIn(reports.found) \subseteq ErrorsIn(reports'.found)
  BY DEF Reads
<1>2. \A category : LinesAt(category)' = LinesWith(reports'.found, category)
  BY <1>1, MoreReported
<1>3. /\ IsInclude(clean.elided[n]) /\ HeaderAt(n) \in DOMAIN Headers /\ IsListed(n)
      /\ n \notin LinesAt(Include)'
  BY <1>1, SameText DEF Entered, ReadIncludes, HeaderAt, IsListed
<1>4. /\ include' = IncludeAfter(include, file, clean.lines[n], n)
      /\ IsOrdered(include, file, HeaderAt(n)) /\ moves # {}
      /\ OutOfAlphabeticalOrder(CheckNextIncludeOrder(include, TypeAt(n)), HeaderAt(n), clean.elided[n - 1])
           => n \in LinesAt(IncludeAlpha)'
  BY <1>2, <1>3, IncludeRead
<1>5. IsEntered(include', include, file, clean, n)
  BY <1>4, EnteredIs DEF HeaderAt
<1>6. PICK s : moves = {s} /\ MovesTo(include.section, TypeAt(n), s)
  BY <1>4, NextSectionIs DEF IsIncludeState
<1>7. include'.last = Headers[HeaderAt(n)].order /\ include'.section = CHOOSE t \in moves : TRUE
  BY <1>4, <1>5 DEF IsEntered, HeaderAt, TypeAt
<1> HIDE DEF moves
<1>8. include'.section = s
  BY <1>6, <1>7
<1> QED BY <1>3, <1>4, <1>6, <1>7, <1>8 DEF moves

\* The lines before are as they were.
LEMMA EnteredBefore ==
  ASSUME Reads, NEW k \in Entered', k # next
  PROVE  k \in Entered /\ k \in 0..next - 1
<1>1. UNCHANGED <<clean, file>> /\ ErrorsIn(reports.found) \subseteq ErrorsIn(reports'.found)
      /\ Read = 0..next - 1 /\ Read' = 0..next /\ next \in Nat
  BY DEF Reads
<1>2. k \in Read'
  BY DEF Entered, ReadIncludes
<1>3. k \in Read
  BY <1>1, <1>2
<1>4. IsInclude(clean.elided[k]) /\ HeaderAt(k) \in DOMAIN Headers /\ IsListed(k) /\ k \notin LinesAt(Include)'
  BY <1>1, SameText DEF Entered, ReadIncludes, HeaderAt, IsListed
<1>5. k \notin LinesAt(Include)
  BY <1>1, <1>4, MoreReported
<1> QED BY <1>1, <1>3, <1>4, <1>5 DEF Entered, ReadIncludes, HeaderAt

\* Two headers of a stretch, the second of which is just read.
LEMMA PairNext ==
  ASSUME ReportsInv, FunctionInv, Reads, NoAssembly', IsIncludeState(include, clean, Read),
         LinesAt(IncludeOrder)' = {}, next \in Entered',
         NEW k \in Entered, k \in 0..next - 1, IsReached(k), NEW n, n = next
  PROVE  InOrder(k, n)'
<1> DEFINE section == include.section
<1>1. /\ NextSection(section, TypeAt(n)) # {} /\ HeaderAt(n) \in DOMAIN Headers
      /\ OutOfAlphabeticalOrder(CheckNextIncludeOrder(include, TypeAt(n)), HeaderAt(n), clean.elided[n - 1])
           => n \in LinesAt(IncludeAlpha)'
  BY EnteredNext
<1>2. section \in Sections /\ section \in Int
  BY DEF IsIncludeState, Sections, InitialSection, OtherHSection
<1>3. TypeAt(k) \in {CSysHeader, CppSysHeader, LikelyMyHeader, PossibleMyHeader, OtherHeader}
  BY TypeIs DEF TypeAt
<1>4. section >= LeastSection(TypeAt(k)) /\ LeastSection(TypeAt(k)) \in Int
  BY <1>3, LeastSectionIs DEF IsReached
<1>5. /\ TypeAt(n) = CSysHeader => TypeAt(k) \in {CSysHeader, LikelyMyHeader, PossibleMyHeader}
      /\ TypeAt(n) = CppSysHeader => TypeAt(k) # OtherHeader
  <2>1. TypeAt(n) = CSysHeader => LeastSection(TypeAt(k)) <= CSection
    BY <1>1, <1>2, <1>4, InSection DEF CSection
  <2>2. TypeAt(n) = CppSysHeader => LeastSection(TypeAt(k)) <= CppSection
    BY <1>1, <1>2, <1>4, InSection DEF CppSection
  <2> QED BY <1>3, <2>1, <2>2, LeastSectionIs
<1>6. ASSUME n = k + 1, TypeAt(n) = TypeAt(k), LinesAt(IncludeAlpha)' = {}
      PROVE  Headers[HeaderAt(k)].order <= Headers[HeaderAt(n)].order
  <2>1. k = n - 1
    BY <1>6
  <2>2. include.last = Headers[HeaderAt(k)].order /\ NextSection(section, TypeAt(n)) = {section}
    BY <1>6, <2>1 DEF IsReached
  <2>3. CheckNextIncludeOrder(include, TypeAt(n)).last = include.last
    BY <2>2 DEF CheckNextIncludeOrder, IsIncludeState
  <2>4. FirstToken(clean.elided[n - 1]) = "#include" /\ HeaderAt(k) \in DOMAIN Headers
    BY <2>1, IncludeBegins DEF Entered, ReadIncludes, HeaderAt
  <2>5. ~(include.last > Headers[HeaderAt(n)].order)
    BY <1>1, <1>6, <2>3, <2>4 DEF OutOfAlphabeticalOrder
  <2>6. Headers[HeaderAt(k)].order \in Nat /\ Headers[HeaderAt(n)].order \in Nat
    BY <1>1, <2>4, HeadersAssumption
  <2> QED BY <2>2, <2>5, <2>6
<1>7. UNCHANGED <<clean, file>>
  BY DEF Reads
<1>8. /\ HeaderAt(n)' = HeaderAt(n) /\ TypeAt(n)' = TypeAt(n)
      /\ HeaderAt(k)' = HeaderAt(k) /\ TypeAt(k)' = TypeAt(k)
  BY <1>7, SameText
<1> QED BY <1>5, <1>6, <1>8 DEF InOrder

LEMMA NextOrder == ReportsInv /\ FunctionInv /\ OrderInv /\ [Next]_runVars => OrderInv'
<1> SUFFICES ASSUME ReportsInv, FunctionInv, OrderInv, [Next]_runVars, next' >= 0
             PROVE  /\ IsIncludeState(include', clean', Read')
                    /\ NoAssembly' /\ LinesAt(IncludeOrder)' = {} =>
                         PairsInOrder' /\ (next' <= EndOfFile' => SectionReached')
  BY DEF OrderInv
<1>1. CASE Prepares
  <2>1. include' = InitIncludeState /\ Read' = {}
    BY <1>1 DEF Prepares
  <2>2. IsIncludeState(include', clean', Read')
    BY <2>1, NoEntries
  <2>3. Entered' = {}
    BY <2>1 DEF Entered, ReadIncludes
  <2> QED BY <2>2, <2>3 DEF PairsInOrder, SectionReached
<1>2. CASE Reads
  <2>1. next >= 0 /\ next \in Nat /\ Read = 0..next - 1 /\ Read' = Read \cup {next} /\ next' = next + 1
        /\ UNCHANGED <<clean, file>> /\ next <= EndOfFile
        /\ ErrorsIn(reports.found) \subseteq ErrorsIn(reports'.found)
    BY <1>2 DEF Reads, LastLine, EndOfFile
  <2>2. IsIncludeState(include, clean, Read)
    BY <2>1 DEF OrderInv
  <2>3. /\ IsIncludeState(IncludeStateAfter(next), clean, Read')
        /\ FirstToken(clean.elided[next]) \notin Directives
             => IncludeStateAfter(next).section >= include.section
    BY <2>1, <2>2, IncludeStateAfterIs
  <2>4. IsIncludeState(include', clean', Read')
    <3>1. CASE InAsmBlock(nesting')
      <4>1. Entries(clean, Read) \subseteq Entries(clean, Read')
        BY <2>1 DEF Entries
      <4>2. Seq(Seq(Entries(clean, Read))) \subseteq Seq(Seq(Entries(clean, Read')))
        BY <4>1, ListsOfMore
      <4>3. include' = include
        BY <1>2, <3>1 DEF Reads
      <4> QED BY <2>1, <2>2, <4>2, <4>3 DEF IsIncludeState
    <3>2. CASE ~InAsmBlock(nesting')
      <4>1. include' = IncludeStateAfter(next)
        BY <1>2, <3>2 DEF Reads
      <4> QED BY <2>1, <2>3, <4>1
    <3> QED BY <3>1, <3>2
  <2>5. ASSUME NoAssembly', LinesAt(IncludeOrder)' = {}
        PROVE  PairsInOrder' /\ SectionReached'
    <3>1. NoAssembly /\ ~InAsmBlock(nesting') /\ LinesAt(IncludeOrder) = {}
      BY <1>2, <2>1, <2>5, NotPassedOver, MoreReported
    <3>2. PairsInOrder /\ SectionReached
      BY <2>1, <3>1 DEF OrderInv
    <3>3. include' = IncludeStateAfter(next)
      BY <1>2, <3>1 DEF Reads
    <3>4. PairsInOrder'
      <4> SUFFICES ASSUME NEW k \in Entered', NEW m \in Entered', k < m, SameStretch(k, m)'
                   PROVE  InOrder(k, m)'
        BY DEF PairsInOrder
      <4>1. k \in 0..next /\ m \in 0..next /\ SameStretch(k, m)
        BY <2>1, SameText DEF Entered, ReadIncludes
      <4>2. k \in Entered /\ k \in 0..next - 1
        BY <1>2, <4>1, EnteredBefore
      <4>3. CASE m # next
        <5>1. m \in Entered
          BY <1>2, <4>3, EnteredBefore
        <5>2. InOrder(k, m)
          BY <3>2, <4>1, <4>2, <5>1 DEF PairsInOrder
        <5> QED BY <2>1, <5>2, MoreReported
      <4>4. CASE m = next
        <5>1. SameStretch(k, next - 1)
          BY <2>1, <4>1, <4>4 DEF SameStretch
        <5>2. IsReached(k)
          BY <3>2, <4>2, <5>1 DEF SectionReached
        <5> QED BY <1>2, <2>2, <2>5, <4>2, <4>4, <5>2, PairNext
      <4> QED BY <4>3, <4>4
    <3>5. SectionReached'
      <4> SUFFICES ASSUME NEW k \in Entered', SameStretch(k, next - 1)'
                   PROVE  IsReached(k)'
        BY DEF SectionReached
      <4>1. k \in 0..next /\ next' - 1 = next /\ TypeAt(k)' = TypeAt(k) /\ HeaderAt(k)' = HeaderAt(k)
        BY <2>1, SameText DEF Entered, ReadIncludes
      <4>2. \A l \in k..next : DirectiveOf(l) \notin Directives
        BY <2>1, <4>1 DEF SameStretch, DirectiveOf
      <4>3. CASE k # next
        <5>1. k \in Entered /\ k \in 0..next - 1
          BY <1>2, <4>3, EnteredBefore
        <5>2. SameStretch(k, next - 1)
          BY <2>1, <4>1, <4>2 DEF SameStretch
        <5>3. include.section >= LeastSection(TypeAt(k))
          BY <3>2, <5>1, <5>2 DEF SectionReached, IsReached
        <5>4. FirstToken(clean.elided[next]) \notin Directives
          BY <2>1, <4>1, <4>2 DEF DirectiveOf
        <5>5. include'.section >= include.section
          BY <2>3, <3>3, <5>4
        <5>6. include.section \in Int /\ include'.section \in Int /\ LeastSection(TypeAt(k)) \in Int
          <6>1. include.section \in Int /\ include'.section \in Int
            BY <2>2, <2>4 DEF IsIncludeState, Sections, InitialSection, OtherHSection
          <6>2. TypeAt(k) \in {CSysHeader, CppSysHeader, LikelyMyHeader, PossibleMyHeader, OtherHeader}
            BY TypeIs DEF TypeAt
          <6> QED BY <6>1, <6>2, LeastSectionIs
        <5> QED BY <4>1, <4>3, <5>3, <5>5, <5>6 DEF IsReached
      <4>4. CASE k = next
        <5>1. MovesTo(include.section, TypeAt(k), include'.section)
              /\ include'.last = Headers[HeaderAt(k)].order
          BY <1>2, <2>2, <2>5, <4>4, EnteredNext
        <5> QED BY <4>1, <5>1 DEF IsReached, MovesTo
      <4> QED BY <4>3, <4>4
    <3> QED BY <3>4, <3>5
  <2> QED BY <2>4, <2>5
<1>3. CASE Finishes \/ UNCHANGED vars
  <2>1. /\ next >= 0 /\ Read' = Read /\ UNCHANGED <<clean, file, include>>
        /\ ErrorsIn(reports.found) \subseteq ErrorsIn(reports'.found)
    BY <1>3 DEF Finishes, vars, Read
  <2>2. IsIncludeState(include', clean', Read')
    BY <2>1 DEF OrderInv
  <2>3. ASSUME NoAssembly', LinesAt(IncludeOrder)' = {}
        PROVE  PairsInOrder' /\ (next' <= EndOfFile' => SectionReached')
    <3>1. NoAssembly /\ LinesAt(IncludeOrder) = {}
      BY <2>1, <2>3, MoreReported DEF NoAssembly
    <3>2. PairsInOrder /\ (next <= EndOfFile => SectionReached)
      BY <2>1, <3>1 DEF OrderInv
    <3>3. Entered' \subseteq Entered
      BY <2>1, MoreReported, SameText DEF Entered, ReadIncludes, HeaderAt, IsListed
    <3>4. PairsInOrder'
      BY <2>1, <3>2, <3>3, MoreReported, SameText DEF PairsInOrder
    <3>5. ASSUME next' <= EndOfFile' PROVE SectionReached'
      <4>1. UNCHANGED vars
        BY <1>3, <3>5, TextIsRead DEF Finishes, EndOfFile, Done
      <4>2. Entered' = Entered /\ next' = next /\ EndOfFile' = EndOfFile /\ SectionReached
        BY <3>2, <3>5, <4>1 DEF vars, EndOfFile, Entered, ReadIncludes, HeaderAt, IsListed, LinesAt, Read
      <4> QED BY <4>1, <4>2 DEF vars, SectionReached, SameStretch, IsReached, DirectiveOf, TypeAt, HeaderAt
    <3> QED BY <3>4, <3>5
  <2> QED BY <2>2, <2>3
<1> QED BY <1>1, <1>2, <1>3, StepIs

\* Where no order is reported the system headers of a stretch are in order, and where no
\* alphabetical order is either, headers of a type on neighbouring lines are sorted: for every
\* text without assembly.
THEOREM SilenceMeansOrder == Spec => []OrderWhenSilent
<1>1. Init => FunctionInv /\ OrderInv
  BY InitRead DEF FunctionInv, OrderInv
<1>2. ReportsInv /\ OrderInv => OrderWhenSilent
  <2> SUFFICES ASSUME ReportsInv, OrderInv, next > 0, NoAssembly, LinesAt(IncludeOrder) = {}
               PROVE  \A n, m \in Entered : n < m /\ SameStretch(n, m) => InOrder(n, m)
    BY DEF OrderWhenSilent, Entered, InOrder
  <2>1. next >= 0
    BY DEF ReportsInv, Inv, FilesInv, Idle, Unread
  <2> QED BY <2>1 DEF OrderInv, PairsInOrder
<1> QED BY InitReports, NextReports, NextFunction, NextOrder, <1>1, <1>2, PTL DEF Spec

-----------------------------------------------------------------------------
(* The run: includes outside of conditionals. *)

\* What a line does to the conditionals that are open.
OpensOn(before, n) ==
  IF DirectiveOf(n) \in Conditionals THEN Append(before, n)
  ELSE IF DirectiveOf(n) = "#endif" /\ before # <<>> THEN Pop(before) ELSE before

LEMMA OpenConditionalsAre ==
  ASSUME ReportsInv, next >= 0
  PROVE  /\ OpenConditionals[0] = <<>>
         /\ \A n \in 0..LastLine : OpenConditionals[n + 1] = OpensOn(OpenConditionals[n], n)
<1> DEFINE N == LastLine + 1
           T == [i \in 0..N |-> Seq(Int)]
           turn == [i \in 1..N |-> [b \in Seq(Int) |-> OpensOn(b, i - 1)]]
           none == <<>>
<1>1. LastLine \in Nat /\ IsText(clean, LastLine)
  BY TextIsRead
<1>2. N \in Int /\ 0 \in Int /\ 0 <= N /\ \A i \in (0 + 1)..N : i \in 1..N /\ i - 1 \in 0..N /\ i \in 0..N /\ i - 1 \in Int /\ i # 0
  BY <1>1
<1>3. \A b \in Seq(Int), k \in Int : OpensOn(b, k) \in Seq(Int)
  <2> SUFFICES ASSUME NEW b \in Seq(Int), NEW k \in Int PROVE OpensOn(b, k) \in Seq(Int)
    OBVIOUS
  <2>1. Append(b, k) \in Seq(Int)
    OBVIOUS
  <2>2. ASSUME b # <<>> PROVE Pop(b) \in Seq(Int)
    <3>1. Len(b) \in Nat /\ Len(b) # 0
      BY <2>2, EmptySeq
    <3>2. \A i \in 1..Len(b) - 1 : i \in 1..Len(b)
      BY <3>1
    <3> QED BY <3>1, <3>2, SubSeqIs DEF Pop, Take
  <2> QED BY <2>1, <2>2 DEF OpensOn
<1>4. none \in T[0]
  BY <1>2, EmptySeq
<1>5. \A i \in (0 + 1)..N : \A q \in T[i - 1] : turn[i][q] \in T[i]
  BY <1>2, <1>3
<1>6. \A i \in 1..N, b \in Seq(Int) : turn[i][b] = OpensOn(b, i - 1)
  OBVIOUS
<1>7. \A i \in 0..N : T[i] = Seq(Int)
  OBVIOUS
<1> HIDE DEF N, T, turn, none
<1>8. PICK f : Runs(f, 0, N, none, turn) /\ \A i \in 0..N : f[i] \in T[i]
  BY ONLY <1>2, <1>4, <1>5, LoopRuns
<1>9. \A i \in 0..N : f[i] = IF i = 0 THEN none ELSE OpensOn(f[i - 1], i - 1)
  <2> SUFFICES ASSUME NEW i \in 0..N PROVE f[i] = IF i = 0 THEN none ELSE OpensOn(f[i - 1], i - 1)
    OBVIOUS
  <2>1. f[i] = IF i = 0 THEN none ELSE turn[i][f[i - 1]]
    BY <1>8 DEF Runs
  <2>2. ASSUME i # 0 PROVE i \in 1..N /\ i - 1 \in 0..N
    BY <1>2, <2>2
  <2>3. ASSUME i # 0 PROVE turn[i][f[i - 1]] = OpensOn(f[i - 1], i - 1)
    BY <1>6, <1>7, <1>8, <2>2, <2>3
  <2> QED BY <2>1, <2>3
<1>10. f = [i \in 0..N |-> IF i = 0 THEN none ELSE OpensOn(f[i - 1], i - 1)]
  <2>1. f = [i \in 0..N |-> f[i]]
    BY <1>8 DEF Runs
  <2> QED BY <1>9, <2>1
<1>11. DOMAIN clean.elided \cup {NumLines(clean)} = 0..N
  <2>1. DOMAIN clean.elided = 0..LastLine /\ DOMAIN clean.raw = 0..LastLine
    BY <1>1 DEF IsText, Lines
  <2>2. Cardinality(0..LastLine) = LastLine + 1
    <3>1. 0 \in Int /\ LastLine \in Int /\ LastLine - 0 + 1 = LastLine + 1 /\ ~(0 > LastLine)
      BY <1>1
    <3> QED BY <3>1, FS_Interval
  <2> QED BY <1>1, <2>1, <2>2 DEF NumLines, N
<1> DEFINE g == OpenConditionals
<1>12. g = CHOOSE h : h = [i \in 0..N |-> IF i = 0 THEN none ELSE OpensOn(h[i - 1], i - 1)]
  BY <1>11 DEF OpenConditionals, OpensOn, none
<1> HIDE DEF g
<1>13. g = [i \in 0..N |-> IF i = 0 THEN none ELSE OpensOn(g[i - 1], i - 1)]
  BY <1>10, <1>12
<1>14. g[0] = <<>> /\ \A i \in 0..N : i # 0 => g[i] = OpensOn(g[i - 1], i - 1)
  <2>1. 0 \in 0..N
    BY <1>2
  <2> QED BY <1>13, <2>1 DEF none
<1>15. \A n \in 0..LastLine : n + 1 \in 0..N /\ n + 1 # 0 /\ (n + 1) - 1 = n
  BY <1>1 DEF N
<1> QED BY <1>14, <1>15 DEF g

LEMMA AppendMembers ==
  ASSUME NEW S, NEW s \in Seq(S), NEW x
  PROVE  ToSet(Append(s, x)) = ToSet(s) \cup {x}
<1> DEFINE t == Append(s, x)
<1>1. Len(s) \in Nat /\ DOMAIN s = 1..Len(s)
  OBVIOUS
<1>2. DOMAIN t = 1..Len(s) + 1 /\ t[Len(s) + 1] = x /\ \A i \in 1..Len(s) : t[i] = s[i]
  OBVIOUS
<1> HIDE DEF t
<1>3. \A i \in 1..Len(s) + 1 : i \in 1..Len(s) \/ i = Len(s) + 1
  BY <1>1
<1>4. Len(s) + 1 \in DOMAIN t /\ \A i \in DOMAIN s : i \in DOMAIN t
  BY <1>1, <1>2
<1>5. ToSet(t) \subseteq ToSet(s) \cup {x}
  BY <1>1, <1>2, <1>3 DEF ToSet
<1>6. ToSet(s) \subseteq ToSet(t) /\ x \in ToSet(t)
  BY <1>1, <1>2, <1>4 DEF ToSet
<1>7. ToSet(t) = ToSet(s) \cup {x}
  BY <1>5, <1>6
<1> QED BY <1>7 DEF t

\* What a line enters in the lists.
ListsGrow(lists, more, n) ==
  /\ Len(lists) \in Nat /\ Len(more) \in Nat /\ Len(lists) <= Len(more)
  /\ DOMAIN lists = 1..Len(lists) /\ DOMAIN more = 1..Len(more)
  /\ \A j \in DOMAIN lists :
       j < Len(lists) \/ DirectiveOf(n) \notin Alternatives => ToSet(lists[j]) \subseteq ToSet(more[j])
  /\ DirectiveOf(n) \in Conditionals => Len(lists) < Len(more)

LEMMA ListsGrowOn ==
  ASSUME NEW lines, IsIncludeState(include, clean, lines), NEW n
  PROVE  LET after == IncludeStateAfter(n)
             enters == IsInclude(clean.elided[n]) /\ IsOrdered(include, file, HeaderAt(n))
         IN /\ ListsGrow(include.lists, after.lists, n)
            /\ ~enters => Listed(after.lists) \subseteq Listed(include.lists)
            /\ enters => /\ Listed(after.lists) \subseteq Listed(include.lists) \cup {Entry(clean, n)}
                         /\ Entry(clean, n) \in Listed(after.lists)
<1> DEFINE line == clean.elided[n]
           directive == FirstToken(line)
           lists == include.lists
           after == IncludeStateAfter(n)
           enters == IsInclude(line) /\ IsOrdered(include, file, HeaderAt(n))
           S == Entries(clean, lines)
           m == Len(lists)
<1>1. lists \in Seq(Seq(S)) /\ lists # <<>>
  BY DEF IsIncludeState
<1>2. m \in Nat /\ m \in DOMAIN lists /\ DOMAIN lists = 1..m /\ m >= 1
  <2> HIDE DEF S, lists
  <2> QED BY <1>1, EmptySeq
<1>3. DirectiveOf(n) = directive
  BY DEF DirectiveOf
<1>4. CASE ~enters /\ ~(~IsInclude(line) /\ directive \in Directives)
  <2>1. after = include
    BY <1>4 DEF IncludeStateAfter, IncludeAfter, HeaderAt
  <2>2. directive \notin Conditionals
    BY <1>4, IncludeBegins DEF Directives
  <2> HIDE DEF after, lists, enters
  <2> QED BY <1>2, <1>3, <1>4, <2>1, <2>2 DEF ListsGrow, lists, after, enters
<1>5. CASE enters
  <2> DEFINE new == Append(lists[m], Entry(clean, n))
             more == after.lists
  <2>1. IsEntered(after, include, file, clean, n)
    <3>1. after = IncludeAfter(include, file, clean.lines[n], n)
      BY <1>5 DEF IncludeStateAfter
    <3> QED BY <1>5, <3>1, EnteredIs DEF HeaderAt
  <2>2. more = [lists EXCEPT ![m] = new]
    BY <2>1 DEF IsEntered
  <2>3. lists[m] \in Seq(S)
    BY <1>1, <1>2
  <2>4. ToSet(new) = ToSet(lists[m]) \cup {Entry(clean, n)}
    <3> HIDE DEF S, lists
    <3> QED BY <2>3, AppendMembers
  <2> HIDE DEF after, lists, enters, new, S
  <2>5. /\ DOMAIN more = 1..m /\ more[m] = new /\ \A j \in 1..m : j # m => more[j] = lists[j]
    BY <1>2, <2>2
  <2>6. Len(more) = m
    <3>1. \A s, t : s \in Seq(Seq(S)) /\ m = Len(s) /\ t = [s EXCEPT ![m] = new] => Len(t) = m
      OBVIOUS
    <3> QED BY <1>1, <2>2, <3>1
  <2>7. \A j \in 1..m : ToSet(lists[j]) \subseteq ToSet(more[j])
    BY <2>4, <2>5
  <2>8. \A j \in 1..m : ToSet(more[j]) \subseteq ToSet(lists[j]) \cup {Entry(clean, n)}
    BY <2>4, <2>5
  <2>9. directive \notin Conditionals
    BY <1>5, IncludeBegins DEF Directives, enters
  <2>10. ListsGrow(lists, more, n)
    <3>1. DirectiveOf(n) \notin Conditionals
      BY <1>3, <2>9
    <3>2. Len(more) = m /\ m <= m /\ DOMAIN lists = 1..m /\ m = Len(lists)
      BY <1>2, <2>6 DEF m
    <3> HIDE DEF m
    <3> QED BY <1>2, <2>5, <2>7, <3>1, <3>2 DEF ListsGrow
  <2>11. Listed(more) \subseteq Listed(lists) \cup {Entry(clean, n)} /\ Entry(clean, n) \in Listed(more)
    BY <1>2, <2>4, <2>5, <2>8 DEF Listed
  <2> QED BY <1>5, <2>10, <2>11 DEF lists, after, enters
<1>6. CASE ~IsInclude(line) /\ directive \in Directives
  <2> DEFINE none == << >>
             more == after.lists
  <2>1. after = ResetSection(include, directive)
    BY <1>6 DEF IncludeStateAfter
  <2>2. more = IF directive \in Conditionals THEN Append(lists, none)
               ELSE IF directive \in Alternatives THEN [lists EXCEPT ![m] = none]
               ELSE lists
    BY <2>1 DEF ResetSection, Conditionals, Alternatives
  <2>3. ToSet(none) = {} /\ none \in Seq(S)
    BY EmptySeq DEF ToSet
  <2> HIDE DEF after, lists, none, S
  <2>4. CASE directive \in Conditionals
    <3>1. more = Append(lists, none)
      BY <2>2, <2>4
    <3>2. \A s, t : s \in Seq(Seq(S)) /\ m = Len(s) /\ t = Append(s, none)
                   => DOMAIN t = 1..m + 1 /\ Len(t) = m + 1 /\ t[m + 1] = none /\ \A j \in 1..m : t[j] = s[j]
      BY <2>3
    <3>3. DOMAIN more = 1..m + 1 /\ Len(more) = m + 1 /\ more[m + 1] = none
          /\ \A j \in 1..m : more[j] = lists[j]
      BY <1>1, <3>1, <3>2
    <3>4. ListsGrow(lists, more, n)
      <4>1. Len(lists) = m /\ m <= m + 1 /\ m < m + 1 /\ m + 1 \in Nat
        BY <1>2 DEF m
      <4>2. \A j \in 1..m : ToSet(lists[j]) \subseteq ToSet(more[j])
        BY <3>3
      <4> HIDE DEF m
      <4> QED BY <1>2, <3>3, <4>1, <4>2 DEF ListsGrow
    <3>5. \A j \in 1..m + 1 : j \in 1..m \/ j = m + 1
      BY <1>2
    <3>6. Listed(more) \subseteq Listed(lists)
      BY <1>2, <2>3, <3>3, <3>5 DEF Listed
    <3> QED BY <1>6, <3>4, <3>6 DEF lists, after
  <2>5. CASE directive \notin Conditionals /\ directive \in Alternatives
    <3>1. more = [lists EXCEPT ![m] = none]
      BY <2>2, <2>5
    <3>2. \A s, t : s \in Seq(Seq(S)) /\ m = Len(s) /\ t = [s EXCEPT ![m] = none]
                   => Len(t) = m
      OBVIOUS
    <3>3. DOMAIN more = 1..m /\ Len(more) = m /\ more[m] = none
          /\ \A j \in 1..m : j # m => more[j] = lists[j]
      BY <1>1, <1>2, <3>1, <3>2
    <3>4. ListsGrow(lists, more, n)
      <4>1. Len(lists) = m
        BY DEF m
      <4> HIDE DEF m
      <4>2. m <= m /\ \A j \in 1..m : j < m => j # m
        BY <1>2
      <4> QED BY <1>2, <1>3, <2>5, <3>3, <4>1, <4>2 DEF ListsGrow
    <3>6. Listed(more) \subseteq Listed(lists)
      BY <1>2, <2>3, <3>3 DEF Listed
    <3> QED BY <1>6, <3>4, <3>6 DEF lists, after
  <2>6. CASE directive \notin Conditionals /\ directive \notin Alternatives
    <3>1. more = lists
      BY <2>2, <2>6
    <3>4. ListsGrow(lists, more, n)
      <4>1. Len(lists) = m /\ m <= m
        BY <1>2 DEF m
      <4> HIDE DEF m
      <4> QED BY <1>2, <1>3, <2>6, <3>1, <4>1 DEF ListsGrow
    <3> QED BY <1>6, <3>1, <3>4 DEF lists, after
  <2> QED BY <2>4, <2>5, <2>6
<1> QED BY <1>4, <1>5, <1>6

\* The header of an include is in a list that no #else is to empty.
IsHeld(n) ==
  \E j \in DOMAIN include.lists :
    /\ \E e \in ToSet(include.lists[j]) : e.header = HeaderAt(n)
    /\ next <= EndOfFile /\ OpenConditionals[next] # <<>> => j < Len(include.lists)
\* It is not entered again, and an include of it is reported.
IsKept(n) ==
  /\ IsHeld(n)
  /\ \A e \in Listed(include.lists) : e.header = HeaderAt(n) => e.line \in 0..n
  /\ \A m \in ReadIncludes : m > n /\ HeaderAt(m) = HeaderAt(n) => m \in LinesAt(Include)
Outside == {n \in ReadIncludes : Unconditional(n) /\ IsListed(n)}
KeptInv == next >= 0 /\ NoAssembly /\ IsBalanced => \A n \in Outside : IsKept(n)

LEMMA SameConditionals ==
  ASSUME UNCHANGED clean
  PROVE  OpenConditionals' = OpenConditionals /\ (IsBalanced' <=> IsBalanced)
<1>1. OpenConditionals' = OpenConditionals
  BY DEF OpenConditionals, DirectiveOf, NumLines
<1>2. IsBalanced' <=> IsBalanced
  BY <1>1 DEF IsBalanced, DirectiveOf
<1> QED BY <1>1, <1>2

\* The lists hold what the lines enter.
LEMMA ListedLines ==
  ASSUME NEW c, NEW lines, NEW state, IsIncludeState(state, c, lines)
  PROVE  \A e \in Listed(state.lists) : e.line \in lines
<1> DEFINE S == Entries(c, lines)
<1>1. state.lists \in Seq(Seq(S))
  BY DEF IsIncludeState
<1>2. \A e \in Listed(state.lists) : e \in S
  <2> HIDE DEF S
  <2> QED BY <1>1 DEF Listed, ToSet
<1>3. \A e \in S : e.line \in lines
  BY DEF Entries, Entry
<1> QED BY <1>2, <1>3

\* The header that is held is found.
LEMMA HeldIsFound ==
  ASSUME NEW lines \in SUBSET Nat, IsIncludeState(include, clean, lines), NEW n, IsHeld(n)
  PROVE  FindHeader(include, HeaderAt(n)) >= 0
<1>1. PICK j \in DOMAIN include.lists : \E e \in ToSet(include.lists[j]) : e.header = HeaderAt(n)
  BY DEF IsHeld
<1>2. \E e \in Listed(include.lists) : e.header = HeaderAt(n)
  BY <1>1 DEF Listed
<1>3. FindHeader(include, HeaderAt(n)) \in Int /\ ~(FindHeader(include, HeaderAt(n)) < 0)
  BY <1>2, HeaderFound
<1> QED BY <1>3

\* The conditionals that are open over a line that is read.
LEMMA StaysOpen ==
  ASSUME ReportsInv, Reads, IsBalanced, NEW n, n = next
  PROVE  /\ DirectiveOf(n) \notin Conditionals /\ OpenConditionals[n + 1] # <<>> => OpenConditionals[n] # <<>>
         /\ DirectiveOf(n) \in Alternatives => OpenConditionals[n] # <<>>
         /\ DirectiveOf(n) \notin Directives => OpenConditionals[n + 1] = OpenConditionals[n]
<1>1. n \in 0..LastLine /\ n >= 0 /\ IsText(clean, LastLine)
  BY DEF Reads
<1>2. OpenConditionals[n + 1] = OpensOn(OpenConditionals[n], n)
  BY <1>1, OpenConditionalsAre
<1>3. n \in DOMAIN clean.elided
  BY <1>1 DEF IsText, Lines
<1> QED BY <1>2, <1>3 DEF OpensOn, Directives, IsBalanced

\* A line that is read takes nothing that is held.
LEMMA HeldOn ==
  ASSUME ReportsInv, Reads, IsBalanced, IsIncludeState(include, clean, Read), ~InAsmBlock(nesting'),
         NEW k, IsHeld(k)
  PROVE  IsHeld(k)'
<1> DEFINE n == next
           lists == include.lists
           more == include'.lists
<1>1. /\ include' = IncludeStateAfter(n) /\ next' = n + 1 /\ UNCHANGED <<clean, file>>
      /\ n \in 0..LastLine /\ LastLine \in Nat
  BY DEF Reads
<1>2. ListsGrow(lists, more, n)
  BY <1>1, ListsGrowOn
<1>3. n <= EndOfFile
  BY <1>1 DEF EndOfFile, LastLine
<1>4. PICK j \in DOMAIN lists :
        /\ \E e \in ToSet(lists[j]) : e.header = HeaderAt(k)
        /\ OpenConditionals[n] # <<>> => j < Len(lists)
  BY <1>3 DEF IsHeld
<1>5. /\ DirectiveOf(n) \notin Conditionals /\ OpenConditionals[n + 1] # <<>> => OpenConditionals[n] # <<>>
      /\ DirectiveOf(n) \in Alternatives => OpenConditionals[n] # <<>>
  BY StaysOpen
<1> HIDE DEF lists, more, n
<1>6. /\ Len(lists) \in Nat /\ Len(more) \in Nat /\ Len(lists) <= Len(more)
      /\ DOMAIN lists = 1..Len(lists) /\ DOMAIN more = 1..Len(more)
      /\ DirectiveOf(n) \in Conditionals => Len(lists) < Len(more)
  BY <1>2 DEF ListsGrow
<1>7. ToSet(lists[j]) \subseteq ToSet(more[j])
  BY <1>2, <1>4, <1>5 DEF ListsGrow
<1>8. j \in DOMAIN more
  BY <1>4, <1>6
<1>9. OpenConditionals[n + 1] # <<>> => j < Len(more)
  <2>1. CASE DirectiveOf(n) \in Conditionals
    BY <1>4, <1>6, <2>1
  <2>2. CASE DirectiveOf(n) \notin Conditionals
    BY <1>4, <1>5, <1>6, <2>2
  <2> QED BY <2>1, <2>2
<1>10. HeaderAt(k)' = HeaderAt(k) /\ OpenConditionals' = OpenConditionals
  BY <1>1, SameText, SameConditionals
<1>11. \E e \in ToSet(more[j]) : e.header = HeaderAt(k)
  BY <1>4, <1>7
<1> QED BY <1>1, <1>8, <1>9, <1>10, <1>11 DEF IsHeld, more

\* The include lines that are read are the ones before and, maybe, the line.
LEMMA IncludesRead ==
  ASSUME Reads
  PROVE  /\ \A k : k # next => (k \in ReadIncludes' <=> k \in ReadIncludes)
         /\ ReadIncludes' \subseteq 0..next /\ ReadIncludes \subseteq 0..next - 1
         /\ next \in ReadIncludes' => IsInclude(clean.elided[next]) /\ HeaderAt(next) \in DOMAIN Headers
<1>1. /\ UNCHANGED clean /\ Read = 0..next - 1 /\ Read' = 0..next /\ next \in Nat
  BY DEF Reads
<1>2. \A k : k # next => (k \in Read' <=> k \in Read)
  BY <1>1
<1> QED BY <1>1, <1>2 DEF ReadIncludes, HeaderAt

\* A header that was kept is kept.
LEMMA KeptOn ==
  ASSUME ReportsInv, FunctionInv, Reads, NoAssembly', IsBalanced, IsIncludeState(include, clean, Read),
         NEW k \in ReadIncludes, IsListed(k), IsKept(k), NEW n, n = next
  PROVE  IsKept(k)'
<1> DEFINE header == HeaderAt(k)
<1>1. /\ include' = IncludeStateAfter(n) /\ UNCHANGED <<clean, file>> /\ ~InAsmBlock(nesting')
      /\ ErrorsIn(reports.found) \subseteq ErrorsIn(reports'.found) /\ Read \in SUBSET Nat
  BY NotPassedOver DEF Reads
<1>2. IsHeld(k)'
  BY <1>1, HeldOn DEF IsKept
<1>3. FindHeader(include, header) >= 0 /\ ~(FindHeader(include, header) < 0)
  <2>1. FindHeader(include, header) >= 0 /\ FindHeader(include, header) \in Int
    BY <1>1, HeldIsFound, HeaderFound DEF IsKept
  <2> QED BY <2>1
<1> DEFINE enters == IsInclude(clean.elided[n]) /\ IsOrdered(include, file, HeaderAt(n))
<1>4. /\ ~enters => Listed(include'.lists) \subseteq Listed(include.lists)
      /\ enters => Listed(include'.lists) \subseteq Listed(include.lists) \cup {Entry(clean, n)}
  BY <1>1, ListsGrowOn
<1>5. enters => HeaderAt(n) # header
  BY <1>3 DEF IsOrdered
<1>6. \A e \in Listed(include'.lists) : e.header = header => e \in Listed(include.lists)
  <2>1. Entry(clean, n).header = HeaderAt(n)
    BY DEF Entry, HeaderAt
  <2> HIDE DEF enters, header
  <2> QED BY <1>4, <1>5, <2>1
<1>7. \A e \in Listed(include'.lists) : e.header = header => e.line \in 0..k
  BY <1>6 DEF IsKept
<1>8. ASSUME NEW m \in ReadIncludes', m > k, HeaderAt(m) = header
      PROVE  m \in LinesAt(Include)'
  <2>1. CASE m # n
    <3>1. m \in ReadIncludes
      BY <2>1, IncludesRead
    <3>2. m \in LinesAt(Include)
      BY <1>8, <3>1 DEF IsKept
    <3> QED BY <1>1, <3>2, MoreReported
  <2>2. CASE m = n
    <3>1. IsInclude(clean.elided[n]) /\ IsListed(n) /\ FindHeader(include, HeaderAt(n)) >= 0
      BY <1>3, <1>8, <2>2, IncludesRead DEF IsListed
    <3>2. n \in LinesWith(reports'.found, Include)
      BY <3>1, IncludeRead
    <3> QED BY <1>1, <2>2, <3>2, MoreReported
  <2> QED BY <2>1, <2>2
<1>9. \A m : HeaderAt(m)' = HeaderAt(m)
  BY <1>1, SameText
<1> HIDE DEF header
<1>10. HeaderAt(k)' = header
  BY <1>9 DEF header
<1> QED BY <1>2, <1>7, <1>8, <1>9, <1>10 DEF IsKept

\* The header of an include that is just read is kept.
LEMMA KeptNew ==
  ASSUME ReportsInv, FunctionInv, Reads, NoAssembly', IsBalanced, IsIncludeState(include, clean, Read),
         IsIncludeState(include', clean, Read'),
         NEW n, n = next, n \in ReadIncludes', IsListed(n), Unconditional(n)
  PROVE  IsKept(n)'
<1> DEFINE header == HeaderAt(n)
           lists == include.lists
           more == include'.lists
<1>1. /\ include' = IncludeStateAfter(n) /\ UNCHANGED <<clean, file>> /\ ~InAsmBlock(nesting')
      /\ Read \in SUBSET Nat /\ Read' = 0..n /\ n \in Nat /\ next' = n + 1
  BY NotPassedOver DEF Reads
<1>2. IsInclude(clean.elided[n]) /\ HeaderAt(n) \in DOMAIN Headers
  BY IncludesRead
<1>3. DirectiveOf(n) \notin Directives
  BY <1>2, IncludeBegins DEF DirectiveOf
<1>4. OpenConditionals[n + 1] = <<>>
  BY <1>3, StaysOpen DEF Unconditional
<1>5. \E e \in Listed(more) : e.header = header
  <2>1. CASE IsOrdered(include, file, header)
    <3>1. Entry(clean, n) \in Listed(more) /\ Entry(clean, n).header = header
      BY <1>1, <1>2, <2>1, ListsGrowOn DEF Entry, HeaderAt
    <3> QED BY <3>1
  <2>2. CASE ~IsOrdered(include, file, header)
    <3>1. FindHeader(include, header) >= 0
      BY <1>2, <2>2, IncludeRead
    <3>2. PICK e \in Listed(lists) : e.header = header
      BY <1>1, <3>1, HeaderFound
    <3>3. PICK j \in DOMAIN lists : e \in ToSet(lists[j])
      BY <3>2 DEF Listed
    <3>4. ListsGrow(lists, more, n)
      BY <1>1, ListsGrowOn
    <3> HIDE DEF lists, more
    <3>5. ToSet(lists[j]) \subseteq ToSet(more[j]) /\ j \in DOMAIN more
      BY <1>3, <3>3, <3>4 DEF ListsGrow, Directives
    <3>6. e \in Listed(more)
      BY <3>3, <3>5 DEF Listed
    <3> QED BY <3>2, <3>6
  <2> QED BY <2>1, <2>2
<1>6. \E j \in DOMAIN more : \E e \in ToSet(more[j]) : e.header = header
  BY <1>5 DEF Listed
<1>7. \A m : HeaderAt(m)' = HeaderAt(m)
  BY <1>1, SameText
<1>8. IsHeld(n)'
  <2>1. OpenConditionals' = OpenConditionals
    BY <1>1, SameConditionals
  <2> QED BY <1>1, <1>4, <1>6, <1>7, <2>1 DEF IsHeld
<1>9. \A e \in Listed(more) : e.line \in 0..n
  BY <1>1, ListedLines
<1>10. \A m \in ReadIncludes' : ~(m > n)
  BY <1>1, IncludesRead
<1> QED BY <1>8, <1>9, <1>10 DEF IsKept

LEMMA NextKept == ReportsInv /\ FunctionInv /\ OrderInv /\ KeptInv /\ [Next]_runVars => KeptInv'
<1> SUFFICES ASSUME ReportsInv, FunctionInv, OrderInv, KeptInv, [Next]_runVars,
                    next' >= 0, NoAssembly', IsBalanced'
             PROVE  \A n \in Outside' : IsKept(n)'
  BY DEF KeptInv
<1>1. CASE Prepares
  BY <1>1 DEF Prepares, Outside, ReadIncludes
<1>2. CASE Reads
  <2>1. UNCHANGED <<clean, file>> /\ next >= 0 /\ next \in Nat
    BY <1>2 DEF Reads
  <2>2. NoAssembly /\ IsBalanced /\ IsIncludeState(include, clean, Read)
    BY <1>2, <2>1, NotPassedOver, SameConditionals DEF OrderInv
  <2>3. IsIncludeState(include', clean', Read')
    BY <1>2, NextOrder DEF OrderInv
  <2> SUFFICES ASSUME NEW n \in Outside' PROVE IsKept(n)'
    OBVIOUS
  <2>4. n \in ReadIncludes' /\ Unconditional(n) /\ IsListed(n)
    BY <2>1, SameText, SameConditionals DEF Outside, Unconditional
  <2>5. CASE n # next
    <3>1. n \in ReadIncludes
      BY <1>2, <2>4, <2>5, IncludesRead
    <3>2. IsKept(n)
      BY <2>1, <2>2, <2>4, <3>1 DEF KeptInv, Outside
    <3> QED BY <1>2, <2>2, <2>4, <3>1, <3>2, KeptOn
  <2>6. CASE n = next
    BY <1>2, <2>1, <2>2, <2>3, <2>4, <2>6, KeptNew
  <2> QED BY <2>5, <2>6
<1>3. CASE Finishes \/ UNCHANGED vars
  <2>1. /\ next >= 0 /\ Read' = Read /\ UNCHANGED <<clean, file, include>>
        /\ ErrorsIn(reports.found) \subseteq ErrorsIn(reports'.found)
    BY <1>3 DEF Finishes, vars, Read
  <2>2. NoAssembly /\ IsBalanced
    BY <2>1, SameConditionals DEF NoAssembly
  <2>3. /\ ReadIncludes' = ReadIncludes /\ OpenConditionals' = OpenConditionals
        /\ \A m : HeaderAt(m)' = HeaderAt(m) /\ (IsListed(m)' <=> IsListed(m))
    BY <2>1, SameText, SameConditionals DEF ReadIncludes
  <2> SUFFICES ASSUME NEW n \in Outside' PROVE IsKept(n)'
    OBVIOUS
  <2>4. IsKept(n)
    BY <2>1, <2>2, <2>3 DEF KeptInv, Outside, Unconditional
  <2>5. IsHeld(n)'
    <3>1. EndOfFile' = EndOfFile
      BY <2>1 DEF EndOfFile
    <3>2. next' <= EndOfFile => next' = next
      BY <1>3, <2>1, TextIsRead DEF Finishes, vars
    <3> QED BY <2>1, <2>3, <2>4, <3>1, <3>2 DEF IsKept, IsHeld
  <2> QED BY <2>1, <2>3, <2>4, <2>5, MoreReported DEF IsKept
<1> QED BY <1>1, <1>2, <1>3, StepIs

\* That a header is missing is not said before the end of the file, and then of a use of it.
UsesInv ==
  next >= 0 =>
    /\ next <= EndOfFile => OnlyOfLines(reports.found)
    /\ next = Done => \A m \in LinesAt(IncludeWhatYouUse) :
                        \E h \in Needed : m \in UseLines(clean, h) /\ h \notin AllIncluded(include)

LEMMA NextUses == ReportsInv /\ UsesInv /\ [Next]_runVars => UsesInv'
<1> SUFFICES ASSUME ReportsInv, UsesInv, [Next]_runVars, next' >= 0
             PROVE  /\ next' <= EndOfFile' => OnlyOfLines(reports'.found)
                    /\ next' = Done' => \A m \in LinesAt(IncludeWhatYouUse)' :
                          \E h \in Needed : m \in UseLines(clean', h) /\ h \notin AllIncluded(include')
  BY DEF UsesInv
<1>1. CASE Prepares
  <2>1. next' = 0 /\ OnlyOfLines(reports'.found)
    BY <1>1 DEF Prepares
  <2>2. ReportsInv'
    BY NextReports
  <2>3. Done' # 0
    <3>1. file' \in Files
      BY <2>1, <2>2 DEF ReportsInv, Inv, FilesInv, Idle
    <3> QED BY <3>1, FilesAssumption DEF Done, EndOfFile
  <2> QED BY <2>1, <2>3
<1>2. CASE Reads
  <2>1. /\ next \in 0..LastLine /\ LastLine \in Nat /\ next' = next + 1 /\ UNCHANGED file
        /\ OnlyOfLines(reports.found) => OnlyOfLines(reports'.found)
    BY <1>2 DEF Reads
  <2>2. EndOfFile = LastLine + 1 /\ Done' = Done /\ Done = LastLine + 2
    BY <2>1, TextIsRead DEF Done, EndOfFile
  <2>3. next >= 0 /\ next <= EndOfFile /\ next' # Done'
    BY <2>1, <2>2
  <2> QED BY <2>1, <2>3 DEF UsesInv
<1>3. CASE Finishes
  <2>1. /\ next = EndOfFile /\ next' = Done /\ next >= 0 /\ UNCHANGED <<clean, file, include>>
        /\ OnlyOfLines(reports.found) =>
             \A e \in ErrorsIn(reports'.found) :
               e.category \in LineCategories \/ e \in ToSet(IncludeWhatYouUseErrors(include, file, clean))
    BY <1>3 DEF Finishes
  <2>2. EndOfFile = LastLine + 1 /\ Done = LastLine + 2 /\ LastLine \in Nat /\ IsText(clean, LastLine)
    BY <2>1, TextIsRead
  <2>3. ~(next' <= EndOfFile') /\ next <= EndOfFile
    BY <2>1, <2>2 DEF EndOfFile
  <2>4. OnlyOfLines(reports.found)
    BY <2>1, <2>3 DEF UsesInv
  <2> SUFFICES ASSUME NEW m \in LinesAt(IncludeWhatYouUse)'
               PROVE  \E h \in Needed : m \in UseLines(clean, h) /\ h \notin AllIncluded(include)
    BY <2>1, <2>3
  <2>5. LinesAt(IncludeWhatYouUse)' = LinesWith(reports'.found, IncludeWhatYouUse)
    BY LinesAtIs DEF LinesAt
  <2>6. PICK e \in ErrorsIn(reports'.found) : e.category = IncludeWhatYouUse /\ m = e.line
    BY <2>5 DEF LinesWith
  <2>7. e \in ToSet(IncludeWhatYouUseErrors(include, file, clean))
    BY <2>1, <2>4, <2>6 DEF LineCategories
  <2>8. PICK h \in Missing(include, file, clean) : e.line = Highest(UseLines(clean, h))
    BY <2>7, IncludeWhatYouUseErrorsAre
  <2>9. h \in Needed /\ UseLines(clean, h) # {} /\ h \notin AllIncluded(include)
    BY <2>8 DEF Missing, VisibleHeaders
  <2>10. UseLines(clean, h) \subseteq 0..LastLine
    BY <2>2 DEF UseLines, IsText, Lines
  <2>11. Highest(UseLines(clean, h)) \in UseLines(clean, h)
    <3> DEFINE S == UseLines(clean, h)
    <3>1. S \in SUBSET (0..LastLine) /\ S # {} /\ 0 \in Int /\ LastLine \in Int
      BY <2>2, <2>9, <2>10
    <3> HIDE DEF S
    <3>2. Highest(S) \in S
      BY <3>1, HighestIs
    <3> QED BY <3>2 DEF S
  <2> QED BY <2>6, <2>8, <2>9, <2>11
<1>4. CASE UNCHANGED vars
  <2>1. LinesAt(IncludeWhatYouUse)' = LinesAt(IncludeWhatYouUse) /\ Done' = Done /\ EndOfFile' = EndOfFile
    BY <1>4 DEF vars, LinesAt, Done, EndOfFile
  <2> QED BY <1>4, <2>1 DEF vars, UsesInv
<1> QED BY <1>1, <1>2, <1>3, <1>4, StepIs

\* An include outside of all conditionals is not forgotten: for every text without assembly whose
\* conditionals are balanced, another of the header is reported, and no use of it.
THEOREM UnconditionalIncludesAreKept == Spec => []UnconditionalIncludesKept
<1>1. Init => FunctionInv /\ OrderInv /\ KeptInv /\ UsesInv
  BY InitRead DEF FunctionInv, OrderInv, KeptInv, UsesInv
<1>2. ReportsInv /\ OrderInv /\ KeptInv /\ UsesInv => UnconditionalIncludesKept
  <2> SUFFICES ASSUME ReportsInv, OrderInv, KeptInv, UsesInv, next > 0, NoAssembly, IsBalanced,
                      NEW n \in ReadIncludes, Unconditional(n), IsListed(n)
               PROVE  /\ FindHeader(include, HeaderAt(n)) \in 0..n
                      /\ \A m \in ReadIncludes : m > n /\ HeaderAt(m) = HeaderAt(n) => m \in LinesAt(Include)
                      /\ next = Done => \A m \in LinesAt(IncludeWhatYouUse) :
                           \E h \in Needed \ {HeaderAt(n)} : m \in UseLines(clean, h)
    BY DEF UnconditionalIncludesKept, Needed
  <2>1. next >= 0
    BY DEF ReportsInv, Inv, FilesInv, Idle, Unread
  <2>2. IsKept(n) /\ IsIncludeState(include, clean, Read) /\ Read \in SUBSET Nat
    <3>1. Read \in SUBSET Nat
      BY <2>1, TextIsRead DEF Read
    <3> QED BY <2>1, <3>1 DEF KeptInv, OrderInv, Outside
  <2>3. FindHeader(include, HeaderAt(n)) >= 0
    BY <2>2, HeldIsFound DEF IsKept
  <2>4. PICK e \in Listed(include.lists) : e.header = HeaderAt(n) /\ FindHeader(include, HeaderAt(n)) = e.line
    BY <2>2, <2>3, HeaderFound
  <2>5. FindHeader(include, HeaderAt(n)) \in 0..n
    BY <2>2, <2>4 DEF IsKept
  <2>6. AllIncluded(include) = {f.header : f \in Listed(include.lists)}
    <3> DEFINE S == Entries(clean, Read)
    <3>1. include.lists \in Seq(Seq(S)) /\ include.lists # <<>>
      BY <2>2 DEF IsIncludeState
    <3> HIDE DEF S
    <3> QED BY <3>1, FlattenMembers DEF AllIncluded
  <2>7. HeaderAt(n) \in AllIncluded(include)
    BY <2>4, <2>6
  <2> QED BY <2>1, <2>2, <2>5, <2>7 DEF UsesInv, IsKept
<1> QED BY InitReports, NextReports, NextFunction, NextOrder, NextKept, NextUses, <1>1, <1>2, PTL DEF Spec
=============================================================================
