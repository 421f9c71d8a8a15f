----------------------------- MODULE LintClaims -----------------------------
(***************************************************************************)
(* What cpplint promises about the files and the counts of a run, each     *)
(* claim stated from the text of the files and the command line, and not   *)
(* from how the checks go about it.                                        *)
(***************************************************************************)
EXTENDS LintRun

Read == {n \in DOMAIN clean.raw : n < next}    \* the lines of the file read so far
Prepared == next = 0                            \* the text is prepared, and no line read
NoAssembly == \A n \in Read : ~Has(clean.elided[n], "asm")    \* or else lines are passed over
LinesAt(errorCategory) == {e.error.line : e \in {f \in ToSet(reports.found) : f.error.category = errorCategory}}

\* The state of a file, of the run, and of what outlives a file keeps its shape.
TypeOK ==
  /\ status \in {"new", "running", "usage", "raised", "failed", "clean"}
  /\ IsSuffix(queue, command.files) /\ \A i \in DOMAIN done : done[i].file \in ToSet(command.files)
  /\ next \in Idle..Done /\ next # Idle => queue # <<>> /\ file = Head(queue)
  /\ settings.verbose \in Nat /\ settings.lineLength \in Nat /\ settings.extensions \subseteq STRING
  /\ settings.counting \in {"total", "toplevel", "detailed"}
  /\ next # Idle => AreValid(settings.filters) /\ AreValid(settings.backup)
  /\ nesting.stack \in Seq([kind : {"class", "namespace", "extern", "block"}, line : Nat,
                            seen : BOOLEAN, parens : Int, asm : {"no", "inside", "end", "block"},
                            name : STRING, indent : Nat, access : AccessTokens \cup {""},
                            lastLine : Nat])
  /\ include.section \in InitialSection..OtherHSection /\ include.last \in Nat
  /\ include.lists # <<>>
  /\ function \in [inside : BOOLEAN, lines : Nat, test : BOOLEAN]
  /\ reports.suppressions.lines \subseteq (ErrorCategories \cup {AllCategories}) \X Nat

-----------------------------------------------------------------------------
(* The text                                                                *)

\* Where the compiler is in the text: in code, a comment, a string or a raw string.
Mode(m, delimiter) == [in |-> m, delimiter |-> delimiter]
Code == Mode("code", NoDelimiter)

\* The mode after the token at i, from the mode before it.
LexStep(mode, line, i) ==
  LET t == line[i]
      rawAt == IF i > 1 THEN RawParenthesis(line, i - 1) ELSE {}
      backslashes == {k \in 1..i - 1 : \A j \in k..i - 1 : line[j] = BS}
  IN CASE mode.in = "code" ->
            CASE t = "//" -> Mode("line", NoDelimiter)
              [] t = "/*" -> Mode("block", NoDelimiter)
              [] t = DQ /\ rawAt # {} ->
                   Mode("raw", <<")">> \o SubSeq(line, i + 1, Lowest(rawAt) - 1) \o <<DQ>>)
              [] t = DQ /\ rawAt = {} -> Mode(DQ, NoDelimiter)
              [] t = SQ -> Mode(SQ, NoDelimiter)
              [] OTHER -> mode
       [] mode.in = "block" -> IF t = "*/" THEN Code ELSE mode
       [] mode.in = "raw" ->
            IF TextAt(line, i - Len(mode.delimiter) + 1, mode.delimiter) THEN Code ELSE mode
       [] mode.in \in Quotes ->
            IF t = mode.in /\ Cardinality(backslashes) % 2 = 0 THEN Code ELSE mode
       [] OTHER -> mode

\* The modes before and after every token of a line that begins in a mode.
Lex(line, start) ==
  LET after[i \in 0..Len(line)] == IF i = 0 THEN start ELSE LexStep(after[i - 1], line, i)
  IN after

\* Comments and raw strings go on over the end of a line.
LineStart(lines) ==
  LET start[n \in DOMAIN lines \cup {-1}] ==
        IF n = -1 THEN Code
        ELSE IF n = 0 THEN Code
        ELSE LET end == Lex(lines[n - 1], start[n - 1])[Len(lines[n - 1])]
             IN IF end.in \in {"block", "raw"} THEN end ELSE Code
  IN start

\* The tokens of line n that are code; quotes and spaces, which tell nothing, are left out.
IsPlain(t) == t \notin Quotes \cup {Space, BS}
CodeOf(lines, n) ==
  LET line == lines[n]
      mode == Lex(line, LineStart(lines)[n])
      raw(i) == i < Len(line) /\ line[i] = "R" /\ mode[i + 1].in = "raw" /\ mode[i] = Code
  IN SelectSeq(Keep(line, {i \in DOMAIN line : mode[i - 1] = Code /\ mode[i] = Code /\ ~raw(i)}), IsPlain)

\* Every quote is closed on its line, and the marks */ and \ are not in code.
IsSoundText(lines) ==
  \A n \in DOMAIN lines :
     LET mode == Lex(lines[n], LineStart(lines)[n])
     IN /\ mode[Len(lines[n])].in \notin Quotes
        /\ \A i \in DOMAIN lines[n] : mode[i - 1] = Code => lines[n][i] \notin {"*/", BS}

\* The lines cpplint does not see through: a quote inside a comment of the form /* */,
\* code behind the end of a comment from an earlier line, /* at the start of a line in
\* a raw string, what looks like the start of a raw string inside quotes.
Opaque(lines) ==
  {n \in DOMAIN lines :
     LET start == LineStart(lines)[n]
         mode == Lex(lines[n], start)
     IN \/ \E i \in DOMAIN lines[n] : mode[i].in = "block" /\ lines[n][i] \in Quotes
        \/ start.in = "block" /\ \E i \in DOMAIN lines[n] : mode[i - 1] = Code /\ lines[n][i] # Space
        \/ start.in = "raw" /\ StartsComment(lines[n])
        \/ \E i \in RawStarts(lines[n]) : mode[i].in \in Quotes}

\* Where cpplint does not say that it may give bogus warnings, what the checks read
\* of a line is its code; the name in an include line is left to them.
ElidedIsCode ==
  Prepared /\ (\A n \in DOMAIN clean.elided : MultilineErrors(clean.elided[n], n) = <<>>)
           /\ IsSoundText(Marked(file.lines)) /\ Opaque(Marked(file.lines)) = {}
  => \A n \in {m \in DOMAIN clean.elided : ~IsInclude(clean.elided[m])} :
       SelectSeq(clean.elided[n], IsPlain) = CodeOf(Marked(file.lines), n)

\* A character that is not valid is reported wherever it stands, but for comments of the
\* form /* */.
BadCharactersSeen ==
  next = Done /\ IsSoundText(Marked(file.lines)) /\ Opaque(Marked(file.lines)) = {} =>
    \A n \in DOMAIN file.lines : \A i \in At(file.lines[n], "bad") :
      Lex(file.lines[n], LineStart(Marked(file.lines))[n])[i].in # "block" => n \in LinesAt(Utf8)

-----------------------------------------------------------------------------
(* Brackets                                                                *)

Places(tokens) ==
  UNION {{[line |-> n, at |-> i] : i \in {j \in DOMAIN clean.elided[n] : clean.elided[n][j] \in tokens}}
         : n \in DOMAIN clean.elided}

\* From an opening bracket to the one that closes it, and back, is the same pair: but
\* for < and >, which the two directions may take for operators.
ClosesBack ==
  Prepared =>
    /\ \A p \in Places(Openers) :
         LET q == CloseExpression(clean, p.line, p.at)
         IN q # NoPlace => ReverseCloseExpression(clean, q.line, q.at) = p
    /\ \A q \in Places(Closers) :
         LET p == ReverseCloseExpression(clean, q.line, q.at)
         IN p # NoPlace => CloseExpression(clean, p.line, p.at) = q

-----------------------------------------------------------------------------
(* Conditionals of the preprocessor, and the blocks that are open          *)

DirectiveOf(n) == FirstToken(clean.elided[n])

\* The lines where the conditionals open before line n begin, the innermost last.
OpenConditionals ==
  LET open[n \in DOMAIN clean.elided \cup {NumLines(clean)}] ==
        IF n = 0 THEN <<>>
        ELSE LET before == open[n - 1]
             IN IF DirectiveOf(n - 1) \in Conditionals THEN Append(before, n - 1)
                ELSE IF DirectiveOf(n - 1) = "#endif" /\ before # <<>> THEN Pop(before)
                ELSE before
  IN open

\* The lines i in 0..n - 1 that the compiler would see when the first branch of every
\* conditional is taken, but for those conditionals that are still open at n: of them the
\* branch that n is in.
Taken(n) ==
  LET open == OpenConditionals
      branch(b, i) == Highest({b} \cup {a \in b + 1..i : DirectiveOf(a) \in Alternatives
                                                         /\ open[a] # <<>> /\ Top(open[a]) = b})
      within(i) == ToSet(open[i])
  IN {i \in 0..n - 1 : DirectiveOf(i) \notin Directives
        /\ \A b \in within(i) : branch(b, i) = IF b \in within(n) THEN branch(b, n - 1) ELSE b}

Outline(stack) == [i \in DOMAIN stack |-> <<stack[i].kind, stack[i].line, stack[i].seen>>]

\* What the lines taken up to n make of the stack, one after the other.
StackOfTaken(n) ==
  LET stack[i \in 0..n] ==
        IF i = 0 THEN <<>>
        ELSE IF i - 1 \in Taken(n) THEN UpdateStack(stack[i - 1], clean, i - 1).stack
        ELSE stack[i - 1]
  IN stack[n]

\* A line that opens and closes nothing: its parentheses are balanced, and not between the
\* head of a class or a namespace and its brace.
HeadsAndBraces == {"class", "struct", "namespace", "{", "}", ";"} \cup AccessTokens
LeavesAlone(line, stack) ==
  /\ \A i \in DOMAIN line : line[i] \notin HeadsAndBraces
  /\ Count(line, "(") = Count(line, ")")
  /\ Has(line, ")") => SeenOpenBrace(stack)
IsQuiet(n) == LeavesAlone(clean.elided[n], StackOfTaken(n + 1))

\* If the directives open and close nothing, the stack is that of the file without the later
\* branches of its conditionals.
FirstBranchesCount ==
  next \in 1..EndOfFile /\ (\A n \in Read : DirectiveOf(n) \in Directives => IsQuiet(n)) =>
    Outline(nesting.stack) = Outline(StackOfTaken(next))

\* The places of tokens in the first n lines, in the order of the text.
PlacesIn(tokens, n) == {p \in Places(tokens) : p.line < n}
Precedes(p, q) == p.line < q.line \/ (p.line = q.line /\ p.at < q.at)
UpTo(p, tokens) == {q \in Places(tokens) : ~Precedes(p, q)}

\* The heads of classes and namespaces: not the parameters of a template, which are behind its
\* < or a comma.
IsParameter(p) ==
  \E i \in 1..p.at - 1 : /\ clean.elided[p.line][i] \in {"<", ","}
                        /\ \A j \in i + 1..p.at - 1 : clean.elided[p.line][j] = Space
Heads(n) == PlacesIn({"namespace"}, n) \cup {p \in PlacesIn({"class", "struct"}, n) : ~IsParameter(p)}

\* There are no conditionals.  Braces are closed after they are opened; a head is behind a
\* brace, a semicolon or a parenthesis before the next head or the end of a block; and from a
\* namespace to the brace that opens on its line nothing is closed.
IsWellBraced(n) ==
  /\ \A m \in 0..n - 1 : DirectiveOf(m) \notin Directives
  /\ \A q \in PlacesIn({"}"}, n) : Cardinality(UpTo(q, {"}"})) <= Cardinality(UpTo(q, {"{"}))
  /\ \A p \in Heads(n), q \in Heads(n) \cup PlacesIn({"}"}, n) :
       Precedes(p, q) => \E r \in Places({"{", ";", ")"}) : Precedes(p, r) /\ Precedes(r, q)
  /\ \A p \in PlacesIn({"namespace"}, n), q \in Places({"}"}), r \in Places({"{"}) :
       p.line = r.line /\ Precedes(p, q) /\ Precedes(q, r) =>
         \E s \in Places({"{"}) : Precedes(p, s) /\ Precedes(s, q)

\* The blocks on the stack whose brace was seen are the braces that are open.
BlocksAreOpenBraces ==
  next \in 1..EndOfFile /\ IsWellBraced(next) =>
    Cardinality({i \in DOMAIN nesting.stack : nesting.stack[i].seen})
      = Cardinality(PlacesIn({"{"}, next)) - Cardinality(PlacesIn({"}"}, next))

-----------------------------------------------------------------------------
(* Includes                                                                *)

ReadIncludes == {n \in Read : IsInclude(clean.elided[n]) /\ Included(clean.lines[n]) \in DOMAIN Headers}
HeaderAt(n) == Included(clean.lines[n])
Unconditional(n) == OpenConditionals[n] = <<>>
IsBalanced ==        \* no #else, #elif or #endif without its #if
  \A n \in DOMAIN clean.elided :
     DirectiveOf(n) \in Alternatives \cup {"#endif"} => OpenConditionals[n] # <<>>
IsListed(n) ==       \* not one of those cpplint leaves out of its lists on purpose
  ~Headers[HeaderAt(n)].thirdParty /\ ~OtherPackagesSource(file, HeaderAt(n))

\* An include outside of all conditionals is never forgotten: another of the same header
\* is reported, if it is not in a conditional either, and no use of the header is.
UnconditionalIncludesKept ==
  next > 0 /\ NoAssembly /\ IsBalanced =>
    \A n \in ReadIncludes :
      Unconditional(n) /\ IsListed(n) =>
        /\ FindHeader(include, HeaderAt(n)) \in 0..n
        /\ \A m \in ReadIncludes : m > n /\ HeaderAt(m) = HeaderAt(n) => m \in LinesAt(Include)
        /\ next = Done => \A m \in LinesAt(IncludeWhatYouUse) :
                             \E h \in {Required[t].header : t \in DOMAIN Required} \ {HeaderAt(n)} :
                                m \in UseLines(clean, h)

\* The includes between two directives.
SameStretch(n, m) == \A k \in n..m : DirectiveOf(k) \notin Directives
TypeAt(n) == ClassifyInclude(file, HeaderAt(n), IsSystem(clean.lines[n]))

\* Where no order is reported, no system header follows one that should be behind it; and
\* where no alphabetical order is either, headers of a type on neighbouring lines are sorted.
OrderWhenSilent ==
  next > 0 /\ NoAssembly /\ LinesAt(IncludeOrder) = {} =>
    \A n, m \in {k \in ReadIncludes : IsListed(k) /\ k \notin LinesAt(Include)} :
      n < m /\ SameStretch(n, m) =>
        /\ TypeAt(m) = CSysHeader => TypeAt(n) \in {CSysHeader, LikelyMyHeader, PossibleMyHeader}
        /\ TypeAt(m) = CppSysHeader => TypeAt(n) # OtherHeader
        /\ m = n + 1 /\ TypeAt(m) = TypeAt(n) /\ LinesAt(IncludeAlpha) = {}
             => Headers[HeaderAt(n)].order <= Headers[HeaderAt(m)].order

-----------------------------------------------------------------------------
(* Functions, NOLINT and counts                                            *)

\* The lines from the one after the last beginning of a function on, and where that is.
Beginnings == {n \in Read : StartsFunction(clean.lines[n]) /\ BodyLines(clean, n) # {}
                            /\ ~IsDeclaration(clean.lines[Lowest(BodyLines(clean, n))])}

\* A function that is open is as long as the lines with code in it: but for those that
\* look like the beginning of another.  Lines of assembly are not counted.
FunctionLinesCounted ==
  next > 0 /\ function.inside /\ NoAssembly =>
    LET inside == {n \in Read : n > Highest(Beginnings)}
    IN /\ Beginnings # {} /\ \A n \in inside : clean.lines[n] # <<"}">>
       /\ function.lines = Cardinality({n \in inside : ~IsBlankLine(clean.lines[n])
                                                       /\ ~StartsFunction(clean.lines[n])})

\* The line is under a NOLINT for the category, which is in line n.
Silences(n, line, category) ==
  LET raw == clean.raw[n]
  IN NolintsOf(raw) # <<>> /\ FirstNolint(raw).category \in {AllCategories, category}
     /\ line = SuppressedLine(raw, n)

\* An error on a line under a NOLINT is not printed, once cpplint has read the NOLINT:
\* only what it says of a line ahead of the one it reads escapes.
NolintSilences ==
  next > 0 =>
    \A i \in DOMAIN reports.found :
      LET f == reports.found[i]
      IN f.printed =>
           \A n \in DOMAIN clean.raw : Silences(n, f.error.line, f.error.category) => f.when < n

\* What is printed, of all the files, is what is counted, by whichever category it is
\* counted; and the exit status says whether anything was.
CountsAgree ==
  LET found == FlattenSeq([i \in DOMAIN done |-> done[i].found])
               \o (IF next >= 0 THEN reports.found ELSE <<>>)
      printed == {i \in DOMAIN found : found[i].printed}
      name(i) == CountedAs(command.counting, found[i].error.category)
      categories == {name(i) : i \in printed}
  IN /\ reports.counts.total = Cardinality(printed)
     /\ command.counting # "total" =>
          /\ DOMAIN reports.counts.by = categories
          /\ \A c \in categories :
               reports.counts.by[c] = Cardinality({i \in printed : name(i) = c})
     /\ status = "failed" => printed # {}
     /\ status = "clean" => printed = {}

-----------------------------------------------------------------------------
(* The configuration of directories                                        *)

\* The directories over the file that have a configuration, by how far up they are; and
\* those of them cpplint is to look at.
Configured == {k \in 0..Len(file.path.dir) : DirectoryAbove(file, k) \in DOMAIN Config}
ConfigAt(k) == Config[DirectoryAbove(file, k)]
EndsSearch(k) ==
  \/ ~ConfigAt(k).open
  \/ \E i \in DOMAIN ConfigAt(k).options : ConfigAt(k).options[i].name = "noparent"
Consulted == {k \in Configured : ConfigAt(k).open /\ \A j \in Configured : j < k => ~EndsSearch(j)}

\* The options of these directories that say something of a category, each with how far up
\* it is; and the first of the nearest directory.
Speaking(category) ==
  {v \in UNION {{k} \X DOMAIN ConfigAt(k).options : k \in Consulted} :
     LET option == ConfigAt(v[1]).options[v[2]]
     IN option.name = "filter" /\ Matching(option.filters, category) # {}}
Nearest(places) ==
  CHOOSE v \in places : \A w \in places : v[1] < w[1] \/ (v[1] = w[1] /\ v[2] <= w[2])

\* While a file is checked a category is filtered out if the nearest directory that says
\* something of it says so, the first of its options that does, or else the command line, or
\* else the defaults: whatever files were checked before.
FiltersAreOwn ==
  next \in Unread..Done =>
    \A category \in ErrorCategories :
      LET speaking == Speaking(category)
          first == Nearest(speaking)
      IN Filtered(settings.filters, category)
           = IF speaking = {} THEN Filtered(DefaultFilters \o command.filters, category)
             ELSE Filtered(ConfigAt(first[1]).options[first[2]].filters, category)
=============================================================================
