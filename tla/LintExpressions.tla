--------------------------- MODULE LintExpressions ---------------------------
(***************************************************************************)
(* How cpplint matches brackets over the elided lines of a file, forwards  *)
(* from an opening one and backwards from a closing one.  A < or > is a    *)
(* bracket only until something shows that it was an operator.             *)
(*                                                                         *)
(* A place is a line and a position in it; at = 0 says that there is none. *)
(***************************************************************************)
EXTENDS LintText

Openers == {"(", "[", "{"}
Closers == {")", "]", "}"}
Closing(opener) == CASE opener = "(" -> ")" [] opener = "[" -> "]" [] opener = "{" -> "}"
                     [] opener = "<" -> ">"

NoPlace == [line |-> 0, at |-> 0]
Failed == -1

Top(stack) == stack[Len(stack)]
Pop(stack) == Take(stack, Len(stack) - 1)

\* The stack without the tentative angle brackets on its top.
DropAngles(stack, angle) ==
  LET keep == {i \in DOMAIN stack : stack[i] # angle}
  IN IF keep = {} THEN <<>> ELSE Take(stack, Highest(keep))

\* The tokens before position i end with the word, but for spaces.
EndsWith(line, i, word) == LastToken(Take(line, i)) = word

\* What one token does to the search: the stack it leaves, and the end it finds.
Scanning(stack) == [stack |-> stack, at |-> 0]
Unmatched == [stack |-> <<>>, at |-> Failed]
Popped(stack, i) == IF Len(stack) = 1 THEN [stack |-> <<>>, at |-> i] ELSE Scanning(Pop(stack))
PoppedOrUnmatched(stack) == IF Len(stack) = 1 THEN Unmatched ELSE Scanning(Pop(stack))

\* Mutant of EndStep: a pending < is not dropped by a closing bracket.
EndStepKeepsAngles(line, i, stack) ==
  LET t == line[i]
  IN IF t \in Openers \cup {"<"} THEN Scanning(Append(stack, t))
     ELSE IF t \in Closers \cup {">"}
       THEN (IF stack # <<>> /\ Closing(Top(stack)) = t THEN Popped(stack, i) ELSE Unmatched)
     ELSE Scanning(stack)

\* One character of FindEndOfExpressionInLine.
EndStep(line, i, stack) ==
  LET t == line[i]
      bare == DropAngles(stack, "<")
      after(word) == i > 1 /\ line[i - 1] = word
  IN CASE t \in Openers -> Scanning(Append(stack, t))
       [] t = "<" /\ after("<") ->                        \* a shift
            IF stack # <<>> /\ Top(stack) = "<" THEN PoppedOrUnmatched(stack)
            ELSE Scanning(stack)
       [] t = "<" /\ ~after("<") ->
            IF EndsWith(line, i - 1, "operator") THEN Scanning(stack)
            ELSE Scanning(Append(stack, "<"))
       [] t \in Closers ->
            IF bare # <<>> /\ Closing(Top(bare)) = t THEN Popped(bare, i) ELSE Unmatched
       [] t = ">" ->
            IF after("-") \/ EndsWith(line, i - 2, "operator")
               \/ stack = <<>> \/ Top(stack) # "<" THEN Scanning(stack)
            ELSE Popped(stack, i)
       [] t = ";" -> IF bare = <<>> THEN Unmatched ELSE Scanning(bare)
       [] OTHER -> Scanning(stack)

\* FindEndOfExpressionInLine.
FindEnd(line, from, stack) ==
  LET scan[i \in from - 1..Len(line)] ==
        IF i = from - 1 THEN Scanning(stack)
        ELSE LET before == scan[i - 1]
             IN IF before.at # 0 THEN before ELSE EndStep(line, i, before.stack)
  IN scan[Len(line)]

\* The place where a search ended, if it found something.
Ending(search) ==
  IF search.found.at > 0 THEN [line |-> search.line, at |-> search.found.at] ELSE NoPlace

\* The search for what closes the token at position at of line n: the line it came to,
\* and what it found there.
SearchClose(clean, n, at) ==
  LET lines == clean.elided
      last == Highest(DOMAIN lines)
      search[m \in n..last] ==
        IF m = n THEN [line |-> n, found |-> FindEnd(lines[n], at, <<>>)]
        ELSE LET before == search[m - 1]
             IN IF before.found.at # 0 \/ before.found.stack = <<>> THEN before
                ELSE [line |-> m, found |-> FindEnd(lines[m], 1, before.found.stack)]
      shift == lines[n][at] = "<" /\ at < Len(lines[n]) /\ lines[n][at + 1] \in {"<", "="}
  IN IF lines[n][at] \notin Openers \cup {"<"} \/ shift
     THEN [line |-> n, found |-> Unmatched] ELSE search[last]

\* The place of the token that closes the one at position at of line n.
CloseExpression(clean, n, at) == Ending(SearchClose(clean, n, at))

-----------------------------------------------------------------------------
\* FindStartOfExpressionInLine looks at i, and may leave out i - 1.
StartStep(line, i, stack) ==
  LET t == line[i]
      bare == DropAngles(stack, ">")
      comparison == TextAt(line, i - 1, <<Space, ">", "=", Space>>)
  IN CASE t \in Closers -> Scanning(Append(stack, t))
       [] t = ">" ->
            IF i > 1 /\ (line[i - 1] = "-" \/ comparison
                         \/ EndsWith(line, i - 1, "operator"))
            THEN Scanning(stack) ELSE Scanning(Append(stack, ">"))
       [] t = "<" ->
            IF (i > 1 /\ line[i - 1] = "<") \/ stack = <<>> \/ Top(stack) # ">"
            THEN Scanning(stack) ELSE Popped(stack, i)
       [] t \in Openers ->
            IF bare # <<>> /\ Closing(t) = Top(bare) THEN Popped(bare, i) ELSE Unmatched
       [] t = ";" -> IF bare = <<>> THEN Unmatched ELSE Scanning(bare)
       [] OTHER -> Scanning(stack)

\* The token before i is left out with the one at i: of -> and <<, and before an operator's >.
SkipsTwo(line, i) ==
  /\ i > 1
  /\ \/ line[i] = "<" /\ line[i - 1] = "<"
     \/ /\ line[i] = ">"
        /\ \/ line[i - 1] = "-" \/ EndsWith(line, i - 1, "operator")
           \/ TextAt(line, i - 1, <<Space, ">", "=", Space>>)

FindStart(line, from, stack) ==
  LET scan[i \in 0..from + 1] ==         \* before position i is looked at
        IF i >= from THEN [stack |-> stack, at |-> 0, skip |-> FALSE]
        ELSE LET before == scan[i + 1]
             IN IF before.at # 0 THEN before
                ELSE IF before.skip THEN [before EXCEPT !.skip = FALSE]
                ELSE LET step == StartStep(line, i + 1, before.stack)
                     IN [stack |-> step.stack, at |-> step.at, skip |-> SkipsTwo(line, i + 1)]
  IN scan[0]

\* The place of the token that the one at position at of line n closes.
ReverseCloseExpression(clean, n, at) ==
  LET lines == clean.elided
      search[m \in 0..n] ==
        IF m = n THEN [line |-> n, found |-> FindStart(lines[n], at, <<>>)]
        ELSE LET before == search[m + 1]
             IN IF before.found.at # 0 \/ before.found.stack = <<>> THEN before
                ELSE [line |-> m, found |-> FindStart(lines[m], Len(lines[m]), before.found.stack)]
  IN IF lines[n][at] \notin Closers \cup {">"} THEN NoPlace ELSE Ending(search[0])

\* The tokens after the first at ones of line n are still inside a template argument list.
InTemplateArgumentList(clean, n, at) ==
  LET lines == clean.elided
      last == Highest(DOMAIN lines)
      longest == Highest({Len(lines[m]) : m \in DOMAIN lines} \cup {at})
      ends == {"{", "}", ";", "=", "[", "]", ".", "<", ">"}
      inside[m \in n..last + 1, from \in 0..longest] ==
        IF m > last THEN FALSE
        ELSE LET hits == {i \in from + 1..Len(lines[m]) : lines[m][i] \in ends}
                 i == Lowest(hits)
                 close == CloseExpression(clean, m, i)
             IN IF hits = {} THEN inside[m + 1, 0]
                ELSE CASE lines[m][i] \in {"{", "}", ";"} -> FALSE
                       [] lines[m][i] \in {">", "=", "[", "]", "."} -> TRUE
                       [] OTHER -> close # NoPlace /\ inside[close.line, close.at]
  IN inside[n, at]
=============================================================================
