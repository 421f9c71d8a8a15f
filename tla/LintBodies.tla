----------------------------- MODULE LintBodies -----------------------------
(***************************************************************************)
(* The checks of cpplint that follow brackets from the line they read to   *)
(* other lines of the file: lengths of functions, braces around bodies,    *)
(* semicolons after blocks, empty bodies, and blank lines around blocks.   *)
(***************************************************************************)
EXTENDS NestingState

CONSTANTS NormalTrigger,   \* lines a function may have at verbosity 0
          TestTrigger      \* the same for a test

ASSUME TriggerAssumption == NormalTrigger \in Nat \ {0} /\ TestTrigger \in Nat \ {0}

-----------------------------------------------------------------------------
(* _FunctionState and CheckForFunctionLengths                              *)

InitFunctionState == [inside |-> FALSE, lines |-> 0, test |-> FALSE]

Power2(n) == LET p[i \in Nat] == IF i = 0 THEN 1 ELSE 2 * p[i - 1] IN p[n]
\* The floor of the logarithm, at most 5.
Log2(n) == Highest({k \in 0..5 : Power2(k) <= n})

\* An unindented name followed by its parameters; macros in capitals are left out, but for TEST.
StartsFunction(line) ==
  LET p == Lowest(At(line, "("))
      name == LastToken(Take(line, p - 1))
  IN /\ Has(line, "(") /\ line[1] # Space /\ IsWord(line[1])
     /\ \A i \in 1..p - 1 : IsWord(line[i]) \/ line[i] \in {Space, "*", "&", "::"}
     /\ IsWord(name) /\ name \notin {"MACRO", "DISALLOW", "R"}
IsTest(line) == LastToken(Take(line, Lowest(At(line, "(")) - 1)) = "TEST"

\* The lines from n on that show whether the function has a body.
BodyLines(clean, n) ==
  {m \in n..Highest(DOMAIN clean.lines) : \E t \in {";", "}", "{"} : Has(clean.lines[m], t)}
IsDeclaration(line) == Has(line, ";") \/ Has(line, "}")
EndsFunction(line) == line # <<>> /\ line[1] = "}" /\ IsBlankLine(Drop(line, 1))

\* Mutant of FunctionState: the count is not reset where another function begins.
FunctionStateKeeps(state, clean, n) ==
  LET line == clean.lines[n]
      body == BodyLines(clean, n)
  IN IF StartsFunction(line)
     THEN (IF body # {} /\ ~IsDeclaration(clean.lines[Lowest(body)])
           THEN [state EXCEPT !.inside = TRUE, !.test = IsTest(line)] ELSE state)
     ELSE IF EndsFunction(line) THEN [state EXCEPT !.inside = FALSE]
     ELSE IF ~IsBlankLine(line) /\ state.inside THEN [state EXCEPT !.lines = @ + 1]
     ELSE state

FunctionState(state, clean, n) ==
  LET line == clean.lines[n]
      body == BodyLines(clean, n)
  IN IF StartsFunction(line)
     THEN (IF body # {} /\ ~IsDeclaration(clean.lines[Lowest(body)])
           THEN [inside |-> TRUE, lines |-> 0, test |-> IsTest(line)] ELSE state)
     ELSE IF EndsFunction(line) THEN [state EXCEPT !.inside = FALSE]
     ELSE IF ~IsBlankLine(line) /\ state.inside THEN [state EXCEPT !.lines = @ + 1]
     ELSE state

FunctionLengthErrors(state, clean, verbose, n) ==
  LET line == clean.lines[n]
      base == IF state.test THEN TestTrigger ELSE NormalTrigger
  IN When(StartsFunction(line) /\ BodyLines(clean, n) = {}, <<Found(n, FnSize, 5)>>)
     \o When(~StartsFunction(line) /\ EndsFunction(line) /\ state.inside
             /\ state.lines > base * Power2(verbose),
             <<Found(n, FnSize, Log2(state.lines \div base))>>)

-----------------------------------------------------------------------------
(* Blank lines and braces                                                  *)

\* GetPreviousNonBlankLine.
PreviousNonBlankLine(clean, n) ==
  LET before == {m \in 0..n - 1 : ~IsBlankLine(clean.elided[m])}
  IN IF before = {} THEN <<>> ELSE clean.elided[Highest(before)]

FourSpaces == <<Space, Space, Space, Space>>
Indented(line, spaces) == IndentLevel(line) = spaces /\ Len(line) > spaces /\ IsWord(line[spaces + 1])

\* The line before line n is the last of a function's parameters, or of its initializers.
EndsParameters(clean, n) ==
  LET previous == clean.elided[n - 1]
      before == {m \in 0..n - 2 : ~Indented(clean.elided[m], 6)}
      ends(rest) == rest \in {<<"{">>, <<"const", "{">>} \/ IsPrefix(<<":">>, rest)
                    \/ IsPrefix(<<"const", ":">>, rest)
  IN IF Indented(previous, 6)
     THEN before # {} /\ IsPrefix(Append(FourSpaces, ":"), clean.elided[Highest(before)])
     ELSE \/ IsPrefix(Append(FourSpaces, ":"), previous)
          \/ Indented(previous, 4)
             /\ \E j \in At(previous, ")") :
                  ~Has(Take(previous, j), "(") /\ ends(Words(Drop(previous, j)))

\* The blank lines CheckSpacing reports.
BlankLineErrors(state, clean, n) ==
  LET previous == clean.elided[n - 1]
      last == Highest(DOMAIN clean.noRaw)
      next == clean.noRaw[n + 1]
  IN When(IsBlankLine(clean.noRaw[n]) /\ ~Innermost(state.stack, "namespace")
          /\ ~Innermost(state.stack, "extern"),
       When(Has(previous, "{") /\ ~EndsParameters(clean, n) /\ \A i \in At(previous, "}") : i < Highest(At(previous, "{")),
            <<Found(n, BlankLine, 2)>>)
       \o When(n < last /\ FirstToken(next) = "}"
                 /\ \A i \in DOMAIN next : ~TextAt(next, i, <<"}", Space, "else", Space>>), <<Found(n, BlankLine, 3)>>)
       \o When(FirstToken(previous) \in AccessTokens, <<Found(n, BlankLine, 3)>>))

\* What follows a place, to the end of its line.
After(clean, place) == Drop(clean.elided[place.line], place.at)

\* An else has a brace on one side only: else if looks behind its condition.
OneSidedElse(clean, n) ==
  LET line == clean.elided[n]
      braceBefore(e) == LastToken(Take(line, e - 1)) = "}"
      elseIfs == {e \in At(line, "else") :
                    TextAt(line, e + 1, <<Space, "if">>) /\ FirstToken(Drop(line, e + 2)) = "("}
      e == Lowest(elseIfs)
      paren == Lowest({i \in At(line, "(") : i > e})
      close == CloseExpression(clean, n, paren)
      stop == clean.elided[SearchClose(clean, n, paren).line]    \* where no end is found
  IN IF elseIfs # {}
     THEN (\E i \in elseIfs : braceBefore(i))
            # (IF close # NoPlace THEN Has(After(clean, close), "{")
                            ELSE stop # <<>> /\ Top(stop) = "{")
     ELSE \E i \in At(line, "else") :
            \/ braceBefore(i) /\ ~Has(Drop(line, i), "{")
            \/ FirstToken(Drop(line, i)) = "{" /\ ~Has(Take(line, i), "}")

\* The body of an if or an else without braces: the line where its first semicolon is.
Semicolons(clean, from) ==
  {m \in from.line..Highest(DOMAIN clean.elided) :
     Has(IF m = from.line THEN After(clean, from) ELSE clean.elided[m], ";")}
IsLastSemicolon(line) ==
  LET rest == Words(Drop(line, Lowest(At(line, ";"))))
  IN \A i \in DOMAIN rest : rest[i] = "}" \/ (rest[i] = BS /\ i = Len(rest))

HasBrace(clean, place) ==
  \/ FirstToken(After(clean, place)) = "{"
  \/ IsBlankLine(After(clean, place)) /\ place.line + 1 \in DOMAIN clean.elided
     /\ FirstToken(clean.elided[place.line + 1]) = "{"

\* The body at the place has no braces, and seems to be more than one statement.  The exemption of
\* a body that is a call with a lambda is left out.
IsUnbraced(clean, n, isIf, place) ==
  LET line == clean.elided[n]
      lines == Semicolons(clean, place)
      m == Lowest(lines)
      next == clean.elided[m + 1]
  IN /\ place # NoPlace /\ ~HasBrace(clean, place) /\ lines # {}
     /\ \/ ~IsLastSemicolon(clean.elided[m])
        \/ IsLastSemicolon(clean.elided[m]) /\ m + 1 \in DOMAIN clean.elided
           /\ \/ isIf /\ FirstToken(next) = "else" /\ IndentLevel(next) # IndentLevel(line)
              \/ IndentLevel(next) > IndentLevel(line)

UnbracedBodyErrors(clean, n) ==
  LET line == clean.elided[n]
      ifs == {i \in At(line, "if") : FirstToken(Drop(line, i)) = "("}
      paren == Lowest({j \in At(line, "(") : j > Lowest(ifs)})
      place == IF ifs # {} THEN CloseExpression(clean, n, paren)
               ELSE [line |-> n, at |-> Lowest(At(line, "else"))]
  IN When(/\ (ifs # {} \/ Has(line, "else")) /\ FirstToken(line)
                \notin Conditionals \cup Alternatives \cup {"#define"}
          /\ IsUnbraced(clean, n, ifs # {}, place),
          <<Found(n, Braces, 4)>>)

\* Where the word is followed, on its line, by something that is not a block.
ShortBody(line, word) ==
  {i \in At(line, word) : i + 2 <= Len(line) /\ line[i + 1] = Space /\ line[i + 2] \notin {Space, "{"}}

\* CheckBraces.  The exemption of a brace below an array's '[]' that fills its line is left out.
BracesErrors(clean, n) ==
  LET line == clean.elided[n]
      previous == PreviousNonBlankLine(clean, n)
      openEnds == {",", ";", ":", "}", "{", "("} \cup AccessTokens
      after == Words(Drop(line, Lowest(At(line, "else"))))
  IN When(Words(line) = <<"{">> /\ LastToken(previous) \notin openEnds
          /\ FirstToken(previous) \notin Directives \cup {"#include", "#define"},
          <<Found(n, WhitespaceBraces, 4)>>)
     \o When(FirstToken(line) = "else" /\ (after = <<>> \/ after[1] \in {"if", "{"})
             /\ Words(previous) = <<"}">>, <<Found(n, Newline, 4)>>)
     \o When(OneSidedElse(clean, n), <<Found(n, Braces, 5)>>)
     \o When(ShortBody(line, "else") # {}
             /\ \A i \in DOMAIN line : ~TextAt(line, i, <<"else", Space, "if">>), <<Found(n, Newline, 4)>>)
     \o When(FirstToken(line) = "do" /\ Lowest(At(line, "do")) \in ShortBody(line, "do"),
             <<Found(n, Newline, 4)>>)
     \o UnbracedBodyErrors(clean, n)

-----------------------------------------------------------------------------
(* Errors about the line where a bracket closes                            *)

\* The { of the line that follows the token, but for spaces: the last one.
BracesAfter(line, token) ==
  {i \in At(line, "{") : LastToken(Take(line, i - 1)) = token}

\* A parenthesis at the place is not the one of a function or a statement.
OpensOther(clean, open) ==
  LET prefix == Take(clean.elided[open.line], open.at - 1)
      words == Words(prefix)
  IN open # NoPlace
     /\ \/ LastToken(prefix) \in {"MACRO", "DISALLOW", "R"}
        \/ LastToken(prefix) = "]"
           /\ \A k \in DOMAIN words : ~TextAt(words, k, <<"operator", "[", "]">>)
        \/ prefix # <<>> /\ Top(prefix) = "decltype"
        \/ \E head \in {"struct", "union"} : IsSuffix(<<head, "alignas">>, words)
        \/ IsSuffix(<<Space, "=">>, WithoutTrailingSpaces(prefix))
        \/ open.line > 1 /\ LastToken(clean.elided[open.line - 1]) = "]"

\* The parentheses before the brace at i are not those of a function or a statement.
LooksLikeOther(clean, n, i) ==
  LET close == Highest({j \in At(clean.elided[n], ")") : j < i})
  IN OpensOther(clean, ReverseCloseExpression(clean, n, close))

\* The { of line n whose block should not be followed by a semicolon: at most one.
StatementBrace(clean, n) ==
  LET line == clean.elided[n]
      afterParen == BracesAfter(line, ")")
      afterConst == {i \in BracesAfter(line, "const") :
                       LET w == Words(Take(line, i - 1)) IN Len(w) > 1 /\ w[Len(w) - 1] = ")"}
      others == BracesAfter(line, "else") \cup afterConst
      previous == PreviousNonBlankLine(clean, n)
  IN IF afterParen # {}
     THEN {i \in {Highest(afterParen)} : ~LooksLikeOther(clean, n, i)}
     ELSE IF others # {} THEN {Highest(others)}
     ELSE IF FirstToken(line) = "{" /\ LastToken(previous) \in {";", "{", "}"}
       THEN {Lowest(At(line, "{"))} ELSE {}

\* A block ends at the place, and a semicolon follows.
SemicolonErrors(clean, close) ==
  When(close # NoPlace /\ FirstToken(After(clean, close)) = ";", <<Found(close.line, Braces, 4)>>)

\* CheckTrailingSemicolon.
TrailingSemicolonErrors(clean, n) ==
  FlattenSeq(SetToSeq({SemicolonErrors(clean, CloseExpression(clean, n, i)) :
                         i \in StatementBrace(clean, n)}))

\* The first place from a given one on, over the lines, where there is more than spaces:
\* what is left of that line.
RestFrom(clean, place) ==
  LET rest(m) == IF m = place.line THEN After(clean, place) ELSE clean.elided[m]
      lines == {m \in place.line..Highest(DOMAIN clean.elided) : ~IsBlankLine(rest(m))}
  IN IF lines = {} THEN [line |-> -1, text |-> <<>>]
     ELSE [line |-> Lowest(lines), text |-> rest(Lowest(lines))]

IsEmptyBody(clean, open, close) ==
  IF open.line = close.line
  THEN IsBlankLine(SubSeq(clean.elided[open.line], open.at + 1, close.at - 1))
  ELSE /\ IsBlankLine(After(clean, open))
       /\ \A m \in open.line + 1..close.line - 1 : IsBlankLine(clean.raw[m])
       /\ IsBlankLine(Take(clean.elided[close.line], close.at - 1))

\* The condition ends at the place, and an empty block without an else follows.
EmptyIf(clean, condition) ==
  LET rest == RestFrom(clean, condition)
      line == clean.elided[rest.line]
      open == [line |-> rest.line,
               at |-> Len(line) - Len(rest.text) + Lowest(At(rest.text, "{"))]
      close == CloseExpression(clean, open.line, open.at)
  IN /\ FirstToken(rest.text) = "{" /\ close # NoPlace
     /\ clean.raw[open.line] = CleanseComments(clean.raw[open.line])
     /\ IsEmptyBody(clean, open, close)
     /\ FirstToken(RestFrom(clean, close).text) # "else"

\* CheckEmptyBlockBody.
EmptyBodyErrors(clean, n) ==
  LET line == clean.elided[n]
      keyword == FirstToken(line)
      close == CloseExpression(clean, n, Lowest(At(line, "(")))
      after == After(clean, close)
  IN IF keyword \notin {"for", "while", "if"} \/ FirstToken(Drop(line, Lowest(At(line, keyword)))) # "("
        \/ close = NoPlace THEN <<>>
     ELSE When(after # <<>> /\ after[1] = ";",
               <<Found(close.line,
                       IF keyword = "if" THEN EmptyConditionalBody ELSE EmptyLoopBody, 5)>>)
          \o When(keyword = "if" /\ EmptyIf(clean, close), <<Found(close.line, EmptyIfBody, 4)>>)
=============================================================================
