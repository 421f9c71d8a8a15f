---------------------------- MODULE NestingState ----------------------------
(***************************************************************************)
(* The stack of the blocks that are open after a line of the file, kept by *)
(* cpplint from the elided lines, and the checks that read it.             *)
(*                                                                         *)
(* The innermost block is the last of the stack.  A class or a namespace   *)
(* is pushed at its name, before its opening brace is seen.                *)
(***************************************************************************)
EXTENDS LintExpressions, LintReports

CONSTANTS MinNamespaceLines,   \* lines a namespace must span for its end to need a comment
          MinClassLines        \* lines a class must span for the spacing of its sections

ASSUME NestingAssumption == MinNamespaceLines \in Nat /\ MinClassLines \in Nat

Block(kind, n, seen) ==
  [kind |-> kind, line |-> n, seen |-> seen, parens |-> 0, asm |-> "no",
   name |-> "", indent |-> 0, access |-> "", lastLine |-> 0]

InitNestingState == [stack |-> <<>>, previous |-> <<>>, pp |-> <<>>]

SeenOpenBrace(stack) == stack = <<>> \/ Top(stack).seen
Innermost(stack, kind) == stack # <<>> /\ Top(stack).kind = kind
InAsmBlock(state) == state.stack # <<>> /\ Top(state.stack).asm # "no"

\* InnermostClass: the innermost class on the stack, as a set of at most one.
InnermostClass(stack) ==
  LET classes == {i \in DOMAIN stack : stack[i].kind = "class"}
  IN IF classes = {} THEN {} ELSE {stack[Highest(classes)]}

-----------------------------------------------------------------------------
(* Preprocessor conditionals: only what is before the first #else counts   *)

\* Mutant of UpdatePreprocessor: #else keeps the stack of the branch before it.
UpdatePreprocessorKeeps(state, directive) ==
  CASE directive \in Conditionals ->
         [state EXCEPT !.pp = Append(@, [beforeIf |-> state.stack, beforeElse |-> <<>>,
                                         seenElse |-> FALSE])]
    [] directive \in Alternatives /\ state.pp # <<>> ->
         [state EXCEPT !.pp[Len(state.pp)] = [@ EXCEPT !.seenElse = TRUE,
                                                       !.beforeElse = state.stack],
                       !.stack = Top(state.pp).beforeIf]
    [] directive = "#endif" /\ state.pp # <<>> ->
         [state EXCEPT !.pp = Pop(@),
                       !.stack = IF Top(state.pp).seenElse THEN Top(state.pp).beforeElse ELSE @]
    [] OTHER -> state

UpdatePreprocessor(state, directive) ==
  CASE directive \in Conditionals ->
         [state EXCEPT !.pp = Append(@, [beforeIf |-> state.stack, beforeElse |-> <<>>,
                                         seenElse |-> FALSE])]
    [] directive \in Alternatives /\ state.pp # <<>> ->
         [state EXCEPT !.pp[Len(state.pp)] =
                         IF @.seenElse THEN @
                         ELSE [@ EXCEPT !.seenElse = TRUE, !.beforeElse = state.stack],
                       !.stack = Top(state.pp).beforeIf]
    [] directive = "#endif" /\ state.pp # <<>> ->
         [state EXCEPT !.pp = Pop(@),
                       !.stack = IF Top(state.pp).seenElse THEN Top(state.pp).beforeElse ELSE @]
    [] OTHER -> state

-----------------------------------------------------------------------------
(* The parts of Update, each on the stack and what is left of the line     *)

MatchAsm(line) ==
  \E a, b \in DOMAIN line :
     /\ a < b /\ line[a] = "asm" /\ line[b] \in {"(", "{"}
     /\ IsBlankLine(Take(line, a - 1))
     /\ Words(SubSeq(line, a + 1, b - 1)) \in {<<>>, <<"volatile">>}

\* Parentheses are counted in the innermost block, which may enter or leave inline assembly.
CountParentheses(stack, line) ==
  LET change == Count(line, "(") - Count(line, ")")
      open == Top(stack).parens + change
      asm == CASE Top(stack).asm \in {"no", "end"} ->
                    IF change # 0 /\ open = 1 /\ MatchAsm(line) THEN "inside" ELSE "no"
               [] Top(stack).asm = "inside" /\ open = 0 -> "end"
               [] OTHER -> Top(stack).asm
  IN IF stack = <<>> THEN stack
     ELSE [stack EXCEPT ![Len(stack)].parens = open, ![Len(stack)].asm = asm]

\* A namespace at the begin of the line, if there is one, and the text behind it.
PushNamespace(before, n) ==
  LET text == before.line
      words == {i \in DOMAIN text : text[i] # Space}
      first == Lowest(words)
      second == Lowest(words \ {first})
      named == words # {first} /\ IsWord(text[second])
      block == [Block("namespace", n, Has(text, "{")) EXCEPT !.name = IF named THEN text[second] ELSE ""]
  IN IF words = {} \/ text[first] # "namespace" THEN before
     ELSE [stack |-> Append(before.stack, block),
           line |-> Drop(text, IF block.seen THEN Lowest(At(text, "{")) ELSE IF named THEN second ELSE first)]

\* All the namespaces that begin the line, and the text behind the last.
PushNamespaces(stack, line, n) ==
  LET push[k \in 0..Len(line)] ==
        IF k = 0 THEN [stack |-> stack, line |-> line] ELSE PushNamespace(push[k - 1], n)
  IN push[Len(line)]

\* Where the name of a class is that is declared at the start of the line: a set of at most one.
ClassName(line) ==
  LET template(p) ==
        /\ FirstToken(line) = "template" /\ LastToken(Take(line, p)) = ">"
        /\ \A i \in 1..p : line[i] \in {Space, "<", ">", ",", ":", "::"} \/ IsWord(line[i])
      heads == {p \in At(line, "class") \cup At(line, "struct") :
                  /\ IsBlankLine(Take(line, p - 1)) \/ template(p - 1)
                  /\ \E i \in p + 1..Len(line) : line[i] # Space
                  /\ IsWord(FirstToken(Drop(line, p)))}
      p == Highest(heads)
  IN IF heads = {} THEN {} ELSE {Lowest({i \in p + 1..Len(line) : line[i] # Space})}

\* _ClassInfo: the line the class ends on is guessed from the braces.
ClassBlock(clean, line, n, nameAt) ==
  LET depth[i \in n - 1..Highest(DOMAIN clean.elided)] ==
        IF i < n THEN 0
        ELSE depth[i - 1] + Count(clean.elided[i], "{") - Count(clean.elided[i], "}")
      ends == {i \in n..Highest(DOMAIN clean.elided) : depth[i] = 0}
  IN [Block("class", n, FALSE) EXCEPT
        !.name = line[nameAt],
        !.indent = IndentLevel(clean.raw[n]),
        !.access = IF Has(Take(line, nameAt), "struct") THEN "public:" ELSE "private:",
        !.lastLine = IF ends = {} THEN 0 ELSE Lowest(ends)]

PushClass(stack, line, clean, n) ==
  LET nameAt == Lowest(ClassName(line))
  IN IF ClassName(line) = {} \/ (stack # <<>> /\ Top(stack).parens # 0)
        \/ InTemplateArgumentList(clean, n, nameAt)
     THEN [stack |-> stack, line |-> line]
     ELSE [stack |-> Append(stack, ClassBlock(clean, line, n, nameAt)),
           line |-> Drop(line, nameAt)]

\* The last access specifier of the line, in a class.
Accesses(stack, line) ==
  IF Innermost(stack, "class") THEN {i \in DOMAIN line : line[i] \in AccessTokens} ELSE {}
SetAccess(stack, line) ==
  IF Accesses(stack, line) = {} THEN stack
  ELSE [stack EXCEPT ![Len(stack)].access = line[Highest(Accesses(stack, line))]]
AccessErrors(stack, line, n) ==
  LET before == Take(line, Highest(Accesses(stack, line)) - 1)
  IN When(Accesses(stack, line) # {} /\ IsBlankLine(before) /\ Len(before) # Top(stack).indent + 1,
          <<Found(n, Indent, 3)>>)

\* Mutant of ConsumeStep: a semicolon closes the block whose brace was seen.
ConsumeStepPops(stack, segment, token, n) ==
  CASE token = "{" -> IF ~SeenOpenBrace(stack) THEN [stack EXCEPT ![Len(stack)].seen = TRUE]
                      ELSE Append(stack, Block("block", n, TRUE))
    [] token \in {";", ")", "}"} -> IF stack = <<>> THEN stack ELSE Pop(stack)
    [] OTHER -> stack

\* Braces, semicolons and closing parentheses of what is left, from the left.
ConsumeStep(stack, segment, token, n) ==
  LET extern == Words(segment) = <<"extern", DQ, DQ, "{">> /\ segment[1] = "extern"
      block == Block("block", n, TRUE)
  IN CASE token = "{" ->
            IF ~SeenOpenBrace(stack) THEN [stack EXCEPT ![Len(stack)].seen = TRUE]
            ELSE IF extern THEN Append(stack, Block("extern", n, TRUE))
            ELSE Append(stack, IF MatchAsm(segment) THEN [block EXCEPT !.asm = "block"] ELSE block)
       [] token \in {";", ")"} -> IF SeenOpenBrace(stack) THEN stack ELSE Pop(stack)
       [] token = "}" -> IF stack = <<>> THEN stack ELSE Pop(stack)
       [] OTHER -> stack

\* The token at i: a brace, a semicolon or a parenthesis ends the text looked at before.
ConsumeToken(before, line, i, n) ==
  LET segment == SubSeq(line, before.upTo + 1, i)
  IN IF line[i] \notin {"{", "}", ";", ")"} THEN before
     ELSE [stack |-> ConsumeStep(before.stack, segment, line[i], n),
           upTo |-> i,
           ended |-> IF line[i] = "}" /\ before.stack # <<>>
                     THEN Append(before.ended, Top(before.stack)) ELSE before.ended]

\* The stack after the line, and the blocks whose end was in it.
Consume(stack, line, n) ==
  LET consumed[i \in 0..Len(line)] ==
        IF i = 0 THEN [stack |-> stack, upTo |-> 0, ended |-> <<>>]
        ELSE ConsumeToken(consumed[i - 1], line, i, n)
  IN consumed[Len(line)]

-----------------------------------------------------------------------------
(* CheckEnd: a class or a namespace has ended on line n                    *)

DisallowLines(block, clean, n) ==
  {i \in block.line + 1..n - 1 :
     \E j \in DOMAIN clean.elided[i] :
        TextAt(clean.elided[i], j, <<"DISALLOW", "(", block.name, ")">>)}
ClassEndErrors(block, clean, n) ==
  LET at == Highest(DisallowLines(block, clean, n))
  IN When(DisallowLines(block, clean, n) # {}
          /\ \E i \in at + 1..n - 1 : ~IsBlankLine(clean.elided[i]), <<Found(at, Constructors, 3)>>)
     \o When(FirstToken(clean.elided[n]) = "}" /\ IndentLevel(clean.elided[n]) # block.indent,
             <<Found(n, Indent, 3)>>)

\* The words of the comment after a closing brace.
EndComment(line) ==
  LET w == SelectSeq(Words(line), LAMBDA t : t \notin {";", "*/"})
  IN IF Len(w) > 1 /\ w[1] = "}" /\ w[2] \in {"//", "/*"} THEN Drop(w, 2) ELSE <<>>
NamespaceEndErrors(block, clean, n) ==
  LET comment == EndComment(clean.raw[n])
      expected == IF block.name = "" THEN <<"namespace">> ELSE <<"namespace", block.name>>
  IN When((n - block.line >= MinNamespaceLines \/ Has(comment, "namespace"))
          /\ ~IsSuffix(expected, comment), <<Found(n, NamespaceEnd, 5)>>)

EndErrors(blocks, clean, n) ==
  FlattenSeq([i \in DOMAIN blocks |->
                CASE blocks[i].kind = "class" -> ClassEndErrors(blocks[i], clean, n)
                  [] blocks[i].kind = "namespace" -> NamespaceEndErrors(blocks[i], clean, n)
                  [] OTHER -> <<>>])

-----------------------------------------------------------------------------
(* NestingState.Update                                                     *)

\* What Update has when it comes to consume the braces of the line.
BeforeConsume(stack, clean, n) ==
  LET line == clean.elided[n]
      namespaces == PushNamespaces(CountParentheses(stack, line), line, n)
  IN PushClass(namespaces.stack, namespaces.line, clean, n)

\* Update but for the preprocessor: the stack after the line, and the blocks it ended.
ConsumeRest(before, n) == Consume(SetAccess(before.stack, before.line), before.line, n)
UpdateStack(stack, clean, n) == ConsumeRest(BeforeConsume(stack, clean, n), n)

Update(state, clean, n) ==
  LET selected == UpdatePreprocessor(state, FirstToken(clean.elided[n]))
  IN [stack |-> UpdateStack(selected.stack, clean, n).stack,
      pp |-> selected.pp,
      previous |-> IF state.stack = <<>> THEN <<>>       \* which block, not its contents
                   ELSE <<Len(state.stack), Top(state.stack).line, Top(state.stack).kind>>]

UpdateErrors(state, clean, n) ==
  LET stack == UpdatePreprocessor(state, FirstToken(clean.elided[n])).stack
      before == BeforeConsume(stack, clean, n)
  IN AccessErrors(before.stack, before.line, n)
     \o EndErrors(UpdateStack(stack, clean, n).ended, clean, n)

\* CheckCompletedBlocks: what is still open after the last line.
CompletedBlocksErrors(state) ==
  FlattenSeq([i \in DOMAIN state.stack |->
    LET block == state.stack[i]
    IN CASE block.kind = "class" -> <<Found(block.line, BuildClass, 5)>>
         [] block.kind = "namespace" -> <<Found(block.line, BuildNamespaces, 5)>>
         [] OTHER -> <<>>])

-----------------------------------------------------------------------------
(* Checks that read the stack                                              *)

IsForwardClassDeclaration(line) ==
  LET w == Words(line)
  IN Len(w) > 2 /\ w[Len(w)] = ";" /\ w[Len(w) - 2] = "class" /\ IsWord(w[Len(w) - 1])

IsMacroDefinition(lines, n) ==
  \/ lines[n] # <<>> /\ lines[n][1] = "#define"
  \/ n > 0 /\ lines[n - 1] # <<>> /\ Top(lines[n - 1]) = BS

\* The block on top was opened on this line, directly in the namespace that was on top.
IsNamespaceIndentItem(state) ==
  LET stack == state.stack
      outer == stack[Len(stack) - 1]
  IN Len(stack) > 1 /\ Top(stack).kind \in {"class", "namespace"}
     /\ outer.kind = "namespace"
     /\ state.previous = <<Len(stack) - 1, outer.line, outer.kind>>

IsBlockInNameSpace(state, forward) ==
  IF forward THEN Innermost(state.stack, "namespace")
  ELSE Len(state.stack) > 1 /\ Top(state.stack).kind \in {"class", "namespace"}
       /\ state.stack[Len(state.stack) - 1].kind = "namespace"

NamespaceIndentationErrors(state, clean, n) ==
  LET line == clean.elided[n]
      forward == IsForwardClassDeclaration(line)
  IN When((IsNamespaceIndentItem(state) \/ forward) /\ ~IsMacroDefinition(clean.elided, n)
          /\ IsBlockInNameSpace(state, forward) /\ line # <<>> /\ line[1] = Space,
          <<Found(n, IndentationNamespace, 4)>>)

\* CheckAccess.
AccessOfDisallowErrors(state, clean, n) ==
  When(FirstToken(clean.elided[n]) = "DISALLOW" /\ Innermost(state.stack, "class")
       /\ Top(state.stack).access # "private:", <<Found(n, Constructors, 3)>>)

\* CheckSectionSpacing, in the innermost class.
SectionSpacingErrors(state, clean, n) ==
  FlattenSeq(SetToSeq({
    LET previous == clean.lines[n - 1]
        heads == {i \in class.line..n - 1 : LastToken(clean.lines[i]) = "{"}
        headEnd == IF heads = {} THEN class.line ELSE Lowest(heads)
    IN When(/\ class.lastLine - class.line > MinClassLines /\ n > class.line
            /\ FirstToken(clean.lines[n]) \in AccessTokens
            /\ ~IsBlankLine(previous) /\ ~Has(previous, "class") /\ ~Has(previous, "struct")
            /\ LastToken(previous) # BS /\ headEnd < n - 1,
            <<Found(n, BlankLine, 3)>>)
    : class \in InnermostClass(state.stack)}))
=============================================================================
