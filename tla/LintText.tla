------------------------------ MODULE LintText ------------------------------
(***************************************************************************)
(* How cpplint prepares the text of a file before any check reads it:      *)
(* multi-line comments are cleared, raw strings emptied, and every line is *)
(* kept three more times, without raw strings, without comments, and       *)
(* "elided", without comments and without what is inside quotes.           *)
(*                                                                         *)
(* A line is a sequence of tokens.  Quotes, backslashes and the marks of   *)
(* comments are tokens of their own; a word is one token; " " is a space.  *)
(* The lines of a file are a function on 0..n + 1: the lines 1..n of the   *)
(* file between the two marker lines of ProcessFileData.                   *)
(***************************************************************************)
EXTENDS Integers, Sequences, FiniteSets

DQ == "\""
SQ == "'"
BS == "\\"
Space == " "
Quotes == {DQ, SQ}

AccessTokens == {"public:", "private:", "protected:"}
Conditionals == {"#if", "#ifdef", "#ifndef"}
Alternatives == {"#else", "#elif"}
Directives == Conditionals \cup Alternatives \cup {"#endif"}
Punctuation == {"", Space, DQ, SQ, BS, "(", ")", "{", "}", "[", "]", "<", ">", ";", ":", "::",
                ",", ".", "=", "-", "&", "*", "//", "/*", "*/", "#include", "#define"}
                 \cup AccessTokens \cup Directives
IsWord(token) == token \notin Punctuation

Lowest(S) == CHOOSE x \in S : \A y \in S : x <= y
Highest(S) == CHOOSE x \in S : \A y \in S : x >= y

At(line, token) == {i \in DOMAIN line : line[i] = token}
Has(line, token) == At(line, token) # {}
Count(line, token) == Cardinality(At(line, token))
Take(line, n) == SubSeq(line, 1, n)
Drop(line, n) == SubSeq(line, n + 1, Len(line))

\* The text is in the line at position i.
TextAt(line, i, text) ==
  i > 0 /\ i + Len(text) - 1 <= Len(line) /\ SubSeq(line, i, i + Len(text) - 1) = text

\* The tokens of the line at the positions of a set, in order.
Keep(line, positions) ==
  LET kept[i \in 0..Len(line)] ==
        IF i = 0 THEN <<>>
        ELSE IF i \in positions THEN Append(kept[i - 1], line[i]) ELSE kept[i - 1]
  IN kept[Len(line)]

Words(line) == Keep(line, {i \in DOMAIN line : line[i] # Space})
FirstToken(line) == IF Words(line) = <<>> THEN "" ELSE Words(line)[1]
LastToken(line) == IF Words(line) = <<>> THEN "" ELSE Words(line)[Len(Words(line))]
IsBlankLine(line) == \A i \in DOMAIN line : line[i] = Space
LeadingSpaces(line) == Lowest({i \in DOMAIN line : line[i] # Space} \cup {Len(line) + 1}) - 1
IndentLevel(line) == IF IsBlankLine(line) THEN 0 ELSE LeadingSpaces(line)

\* _RE_PATTERN_INCLUDE.
IsInclude(line) ==
  LET w == Words(line)
  IN Len(w) > 2 /\ w[1] = "#include" /\ w[2] \in {DQ, "<"}
     /\ \E i \in 3..Len(w) : w[i] \in {DQ, ">"}

-----------------------------------------------------------------------------
(* Quotes and comments of a line                                           *)

\* The second backslashes of the pairs \\ of a line, paired from the left.
SecondOfPair(line) ==
  LET second[i \in 0..Len(line)] ==
        i > 1 /\ line[i] = BS /\ line[i - 1] = BS /\ ~second[i - 1]
  IN {i \in DOMAIN line : second[i]}

IsCppString(line) ==
  LET pairs == SecondOfPair(line)
      escaped(i) == i > 1 /\ line[i - 1] = BS /\ (i - 1) \notin pairs
      charLiteral[i \in -1..Len(line)] ==          \* an occurrence of '"' starts here
        /\ i > 0 /\ i + 2 <= Len(line)
        /\ line[i] = SQ /\ line[i + 1] = DQ /\ line[i + 2] = SQ /\ ~charLiteral[i - 2]
  IN Cardinality({i \in At(line, DQ) : ~escaped(i) /\ (i = 1 \/ ~charLiteral[i - 1])}) % 2 = 1

WithoutTrailingSpaces(line) ==
  Take(line, Highest({i \in DOMAIN line : line[i] # Space} \cup {0}))

\* The line without the comments that end on it: nor the spaces on the left of a comment
\* that no word follows, or those on its right, if it had none on the left or ends the line.
WithoutBlockComments(line) ==
  LET comment[i \in 0..Len(line)] ==
        /\ i > 0
        /\ \/ comment[i - 1] /\ line[i - 1] # "*/"
           \/ line[i] = "/*" /\ \E j \in i + 1..Len(line) : line[j] = "*/"
      nextAt(i) == Lowest({j \in i..Len(line) : line[j] # Space} \cup {Len(line) + 1})
      lastAt(i) == Highest({j \in 1..i : line[j] # Space} \cup {0})
      begin(j) == Highest({k \in 1..j : line[k] = "/*"})
      end(j) == Lowest({k \in j..Len(line) : line[k] = "*/"})
      left(i) == LET j == nextAt(i) IN
                 j <= Len(line) /\ comment[j] /\ (end(j) = Len(line) \/ ~IsWord(line[end(j) + 1]))
      right(i) == LET j == lastAt(i) IN
                  comment[j] /\ (nextAt(i) > Len(line) \/ begin(j) = 1 \/ line[begin(j) - 1] # Space)
  IN Keep(line, {i \in DOMAIN line : ~comment[i] /\ ~(line[i] = Space /\ (left(i) \/ right(i)))})

CleanseComments(line) ==
  LET before == Take(line, Lowest(At(line, "//")) - 1)
  IN WithoutBlockComments(IF Has(line, "//") /\ ~IsCppString(before)
                          THEN WithoutTrailingSpaces(before) ELSE line)

\* Pairs of a backslash and a character it escapes are taken out.
WithoutEscapes(line) ==
  LET second[i \in 0..Len(line)] ==
        i > 1 /\ line[i - 1] = BS /\ ~second[i - 1] /\ line[i] \in {DQ, SQ, BS}
  IN Keep(line, {i \in DOMAIN line : ~second[i] /\ (i = Len(line) \/ ~second[i + 1])})

\* What is between two quotes is left out; an open quote ends the search.  No token is a number
\* with a single quote between its digits, so that the branch for one is left out.
CollapseStrings(line) ==
  IF IsInclude(line) THEN line
  ELSE LET text == WithoutEscapes(line)
           collapsed[k \in 1..Len(text) + 1] ==
             LET quotes == {i \in k..Len(text) : text[i] \in Quotes}
                 open == Lowest(quotes)
                 closes == {i \in open + 1..Len(text) : text[i] = text[open]}
             IN IF quotes = {} \/ closes = {} THEN Drop(text, k - 1)
                ELSE SubSeq(text, k, open - 1) \o <<text[open], text[open]>>
                     \o collapsed[Lowest(closes) + 1]
       IN collapsed[1]

-----------------------------------------------------------------------------
(* Raw strings, which may go on over several lines                         *)

NoDelimiter == <<>>

\* The positions where text occurs in the line, from a position on.
Occurrences(line, text, from) ==
  {i \in from..Len(line) : TextAt(line, i, text)}

\* R"delimiter( starts at i, and its ( is at the position in the set.
RawParenthesis(line, i) ==
  {k \in i + 2..Len(line) :
     /\ line[i] = "R" /\ line[i + 1] = DQ /\ line[k] = "("
     /\ \A j \in i + 2..k - 1 : line[j] \notin {Space, BS, "(", ")"}}
RawStarts(line) == {i \in DOMAIN line : RawParenthesis(line, i) # {}}

\* The prefix has a // that is not inside its quotes.
HasLineComment(prefix) ==
  LET quoted(s, e) ==
        /\ prefix[s] \in Quotes /\ prefix[e] = prefix[s]
        /\ \A j \in s + 1..e - 1 : prefix[j] = prefix[s] => j - 1 > s /\ prefix[j - 1] = BS
      split[e \in 0..Len(prefix)] ==
        \/ e = 0
        \/ prefix[e] \notin Quotes /\ split[e - 1]
        \/ \E s \in 1..e - 1 : quoted(s, e) /\ split[s - 1]
  IN \E p \in At(prefix, "//") : split[p - 1]

\* A line read with the delimiter of an open raw string, or none.
RawEnd(line, delimiter) ==
  LET ends == Occurrences(line, delimiter, 1)
  IN IF delimiter = NoDelimiter THEN [line |-> line, delimiter |-> NoDelimiter]
     ELSE IF ends = {} THEN [line |-> <<DQ, DQ>>, delimiter |-> delimiter]
     ELSE [line |-> <<DQ, DQ>> \o Drop(line, Lowest(ends) + Len(delimiter) - 1),
           delimiter |-> NoDelimiter]

\* One raw string of the line emptied.
RawStart(line) ==
  LET i == Lowest(RawStarts(line))
      k == Lowest(RawParenthesis(line, i))
      delimiter == <<")">> \o SubSeq(line, i + 2, k - 1) \o <<DQ>>
      ends == Occurrences(line, delimiter, k + 1)
  IN IF RawStarts(line) = {} \/ HasLineComment(Take(line, i - 1))
     THEN [line |-> line, delimiter |-> NoDelimiter]
     ELSE IF ends = {} THEN [line |-> Take(line, i - 1) \o <<DQ, DQ>>, delimiter |-> delimiter]
     ELSE [line |-> Take(line, i - 1) \o <<DQ, DQ>>
                    \o Drop(line, Lowest(ends) + Len(delimiter) - 1),
           delimiter |-> NoDelimiter]

\* Mutant of CleanseRawLine: a raw string is not looked for behind the end of another.
CleanseRawLineOnce(line, delimiter) ==
  IF delimiter = NoDelimiter THEN RawStart(line) ELSE RawEnd(line, delimiter)

CleanseRawLine(line, delimiter) ==
  LET round[k \in 0..Len(line)] ==
        IF k = 0 THEN RawEnd(line, delimiter)
        ELSE LET before == round[k - 1]
             IN IF before.delimiter # NoDelimiter THEN before ELSE RawStart(before.line)
  IN round[Len(line)]

CleanseRawStrings(lines) ==
  LET cleansed[i \in {-1} \cup DOMAIN lines] ==
        IF i = -1 THEN [line |-> <<>>, delimiter |-> NoDelimiter]
        ELSE CleanseRawLine(lines[i], cleansed[i - 1].delimiter)
  IN [i \in DOMAIN lines |-> cleansed[i].line]

-----------------------------------------------------------------------------
(* Comments over several lines                                             *)

CommentLine == <<"/*", "*/">>

StartsComment(line) ==
  FirstToken(line) = "/*" /\ ~Has(line, "*/")
EndsComment(line) == LastToken(line) = "*/"

\* After line i: the line where the comment that is open began, or -1.
OpenComment(lines) ==
  LET open[i \in {-1} \cup DOMAIN lines] ==
        IF i = -1 THEN -1
        ELSE LET before == open[i - 1]
             IN IF before # -1 THEN (IF EndsComment(lines[i]) THEN -1 ELSE before)
                ELSE IF StartsComment(lines[i]) THEN i ELSE -1
  IN open

\* Where a comment begins that does not end, or -1.
UnendedComment(lines) == OpenComment(lines)[Highest(DOMAIN lines)]

RemoveMultiLineComments(lines) ==
  LET open == OpenComment(lines)
      unended == UnendedComment(lines)
  IN [i \in DOMAIN lines |->
        IF (open[i] # -1 \/ open[i - 1] # -1) /\ (unended = -1 \/ i < unended)
        THEN CommentLine ELSE lines[i]]

CleansedLines(lines) ==
  LET noRaw == CleanseRawStrings(lines)
  IN [raw |-> lines,
      noRaw |-> noRaw,
      lines |-> [i \in DOMAIN lines |-> CleanseComments(noRaw[i])],
      elided |-> [i \in DOMAIN lines |-> CleanseComments(CollapseStrings(noRaw[i]))]]

NumLines(clean) == Cardinality(DOMAIN clean.raw)

\* The two warnings of CheckForMultilineCommentsAndStrings.
OpensComment(line) == Count(line, "/*") > Count(line, "*/")
OpensString(line) ==
  LET pairs == SecondOfPair(line)
      text == Keep(line, {i \in DOMAIN line : i \notin pairs /\ (i + 1) \notin pairs})
  IN Cardinality({i \in At(text, DQ) : i = 1 \/ text[i - 1] # BS}) % 2 = 1
=============================================================================
