----------------------------- MODULE ProcessFile -----------------------------
(***************************************************************************)
(* cpplint over one file, ProcessFileData: the text is prepared, the lines *)
(* are read one after the other, each by all the checks, and what can only *)
(* be said of the whole file is checked at the end.                        *)
(*                                                                         *)
(* Of the checks of a single line, only those are modelled that read what  *)
(* other lines left behind, and some of the plainest.                      *)
(***************************************************************************)
EXTENDS IncludeState, LintBodies

CONSTANT Files   \* the files that may be checked, each [path, lines, guard, hasHeader,
                 \* readable, exists, crlf]

ASSUME FilesAssumption ==
  \A f \in Files : /\ f.lines \in Seq(Seq(STRING)) /\ f.path.dir \in Seq(STRING)
                   /\ f.crlf \subseteq DOMAIN f.lines

VARIABLES file,       \* the file that is checked
          settings,   \* the state of cpplint that outlives a file: [verbose, filters, backup,
                      \* counting, lineLength, extensions]
          next,       \* the next line to read, or one of Idle and Unread
          clean,      \* its CleansedLines
          nesting, include, function,     \* the three states ProcessFileData makes
          reports     \* [suppressions, found, counts]: found holds every error with
                      \* when it was found and whether it was printed

vars == <<file, settings, next, clean, nesting, include, function, reports>>

Idle == -2      \* no file is processed
Unread == -1    \* a file is about to be
CopyrightLines == 10

Marker == <<"//", Space, "marker", Space, "x">>
Marked(lines) ==
  [n \in 0..Len(lines) + 1 |-> IF n \in DOMAIN lines THEN lines[n] ELSE Marker]

NoReports == [suppressions |-> NoSuppressions, found |-> <<>>, counts |-> NoCounts]

\* The error function given to every check: Error.  An error is counted if it is printed.
Report(rep, errors, when) ==
  LET reported == [i \in DOMAIN errors |->
                     [error |-> errors[i], when |-> when,
                      printed |-> ShouldPrintError(settings, rep.suppressions, errors[i])]]
      counts[i \in 0..Len(errors)] ==
        IF i = 0 THEN rep.counts
        ELSE IF reported[i].printed
          THEN IncrementErrorCount(counts[i - 1], settings.counting, errors[i].category)
        ELSE counts[i - 1]
  IN [rep EXCEPT !.found = @ \o reported, !.counts = counts[Len(errors)]]

\* Mutant of ParseNolintSuppressions: it is called for the line before.
ParseNolintSuppressionsLate(rep, lines, n, when) ==
  IF n = 0 THEN rep
  ELSE Report([rep EXCEPT !.suppressions = ParseNolint(@, lines[n - 1], n - 1)],
              NolintErrors(lines[n], n), when)

ParseNolintSuppressions(rep, lines, n, when) ==
  Report([rep EXCEPT !.suppressions = ParseNolint(@, lines[n], n)],
         NolintErrors(lines[n], n), when)

-----------------------------------------------------------------------------
(* Before the first line                                                   *)

CopyrightErrors(lines) ==
  When(\A n \in 1..CopyrightLines : n \in DOMAIN lines => ~Has(lines[n], "Copyright"),
       <<Found(0, Copyright, 5)>>)

\* RemoveMultiLineComments reports one line too far: the marker line is counted twice.
MultiLineCommentErrors(lines) ==
  When(UnendedComment(lines) # -1, <<Found(UnendedComment(lines) + 1, MultilineComment, 5)>>)

\* The first line that begins with the directive and has an argument, or none.
DirectiveLines(lines, directive) ==
  {n \in DOMAIN lines : LET w == Words(lines[n]) IN Len(w) > 1 /\ w[1] = directive}
ArgumentOf(lines, n) == Words(lines[n])[2]

\* The comment of the last #endif names the guard.
EndifNames(line, guard, marks) ==
  LET w == Words(line) IN Len(w) > 2 /\ w[2] \in marks /\ w[3] = guard

\* CheckForHeaderGuard.  guard.old is the guard with a second underscore at its end.
CheckForHeaderGuard(rep, lines, guard) ==
  LET ifndefs == DirectiveLines(lines, "#ifndef")
      defines == DirectiveLines(lines, "#define")
      endifs == {n \in DOMAIN lines : lines[n] # <<>> /\ lines[n][1] = "#endif"}
      ifndef == Lowest(ifndefs)
      endif == IF endifs = {} THEN 0 ELSE Highest(endifs)
      named == ArgumentOf(lines, ifndef)
      style == IF named = guard.name THEN rep
               ELSE Report(ParseNolintSuppressions(rep, lines, ifndef, Unread),
                           <<Found(ifndef, BuildHeaderGuard, IF named = guard.old THEN 0 ELSE 5)>>,
                           Unread)
      marks == IF \A n \in DOMAIN lines : n \in {0, Highest(DOMAIN lines)} \/ ~HasLineComment(lines[n])
               THEN {"//", "/*"} ELSE {"//"}
      errors == IF EndifNames(lines[endif], guard.name, marks) THEN <<>>
                ELSE <<Found(endif, BuildHeaderGuard,
                             IF EndifNames(lines[endif], guard.old, marks) THEN 0 ELSE 5)>>
  IN IF \E n \in DOMAIN lines : \E i \in DOMAIN lines[n] :
          TextAt(Words(lines[n]), i, <<"//", "NOLINT(build/header_guard)">>) THEN rep
     ELSE IF ifndefs = {} \/ defines = {} \/ named # ArgumentOf(lines, Lowest(defines))
       THEN Report(rep, <<Found(0, BuildHeaderGuard, 5)>>, Unread)
     ELSE Report(ParseNolintSuppressions(style, lines, endif, Unread), errors, Unread)

\* Everything ProcessFileData does up to the loop over the lines.
Prepare ==
  /\ next = Unread
  /\ LET raw == Marked(file.lines)
         lines == RemoveMultiLineComments(raw)
         fresh == Report([reports EXCEPT !.suppressions = NoSuppressions, !.found = <<>>],
                         CopyrightErrors(raw), Unread)
         marked == [fresh EXCEPT !.suppressions = ProcessGlobalSuppressions(raw, @)]
         removed == Report(marked, MultiLineCommentErrors(raw), Unread)
         cleansed == CleansedLines(lines)
     IN /\ clean' = cleansed
        /\ reports' = IF file.path.ext = "h"
                      THEN CheckForHeaderGuard(removed, cleansed.noRaw, file.guard) ELSE removed
  /\ nesting' = InitNestingState /\ include' = InitIncludeState /\ function' = InitFunctionState
  /\ next' = 0
  /\ UNCHANGED <<file, settings>>

-----------------------------------------------------------------------------
(* One line                                                                *)

MultilineErrors(line, n) ==
  When(OpensComment(line), <<Found(n, MultilineComment, 5)>>)
  \o When(OpensString(line), <<Found(n, MultilineString, 5)>>)

\* A label, or an access specifier, alone on its line.
IsLabel(words) ==
  \/ \E w \in AccessTokens : words \in {<<w>>, <<w, BS>>}
  \/ \E i \in DOMAIN words : IsWord(words[i]) /\ words \in {<<words[i], ":">>, <<words[i], ":", BS>>}

\* A line of the header guard, which may be long.
IsGuardLine(line) ==
  /\ file.path.ext = "h"
  /\ \E guard \in {file.guard.name, file.guard.old} :
       IsPrefix(<<"#ifndef", Space, guard>>, line) \/ IsPrefix(<<"#define", Space, guard>>, line)
       \/ IsPrefix(<<"#endif", Space, Space, "//", Space, guard>>, line)

\* The plain checks of CheckStyle; a token counts as one column.
PlainStyleErrors(n) ==
  LET line == clean.noRaw[n]
      elided == clean.elided[n]
      before == PreviousNonBlankLine(clean, n)
  IN When(Has(line, "tab"), <<Found(n, Tab, 1)>>)
     \o When(n > 0 /\ LastToken(clean.noRaw[n - 1]) \notin {DQ, ",", "=", ">", "<"}
             /\ LeadingSpaces(line) \in {1, 3} /\ ~IsLabel(Words(elided))
             /\ ~(clean.raw[n] # line /\ TextAt(Words(line), 1, <<DQ, DQ>>)), <<Found(n, Indent, 3)>>)
     \o When(line # <<>> /\ Top(line) = Space, <<Found(n, EndOfLine, 4)>>)
     \o When(~IsPrefix(<<"#include">>, line) /\ ~IsGuardLine(line)
             /\ ~(FirstToken(line) = "//" /\ Len(Words(line)) = 2)
             /\ Len(line) > settings.lineLength, <<Found(n, LineLength, 2)>>)
     \o When(Count(elided, ";") > 1 /\ ~Has(elided, "for")
             /\ (~Has(before, "for") \/ Has(before, ";"))
             /\ ~((Has(elided, "case") \/ Has(elided, "default")) /\ \E i \in DOMAIN elided : TextAt(elided, i, <<"break", ";">>)),
             <<Found(n, Newline, 0)>>)

StyleErrors(state, n) ==
  PlainStyleErrors(n) \o BracesErrors(clean, n) \o TrailingSemicolonErrors(clean, n)
  \o EmptyBodyErrors(clean, n) \o AccessOfDisallowErrors(state, clean, n)
  \o BlankLineErrors(state, clean, n) \o SectionSpacingErrors(state, clean, n)

\* CheckLanguage of a line that is not an include.
LanguageErrors(n) ==
  LET line == clean.elided[n]
      has(words) == \E i \in DOMAIN line : TextAt(Words(line), i, words)
  IN When(has(<<"}", "if", "(">>), <<Found(n, Braces, 4)>>)
     \o When(has(<<"using", "namespace">>), <<Found(n, BuildNamespaces, 5)>>)
     \o When(file.path.ext = "h" /\ has(<<"namespace", "{">>) /\ Top(line) # BS,
             <<Found(n, BuildNamespaces, 4)>>)

\* The include state after the line, and the errors of CheckLanguage.
IncludeStateAfter(n) ==
  LET line == clean.elided[n]
  IN IF IsInclude(line) THEN IncludeAfter(include, file, clean.lines[n], n)
     ELSE IF FirstToken(line) \in Directives THEN ResetSection(include, FirstToken(line))
     ELSE include
CheckLanguageErrors(n) ==
  LET line == clean.elided[n]
  IN IF IsInclude(line)
     THEN IncludeErrors(include, file, clean.lines[n], clean.elided[n - 1], n)
     ELSE When(line # <<>>, LanguageErrors(n))

\* FlagCxx11Features, of include lines.
Cxx11Headers == {"cfenv", "condition_variable", "fenv.h", "future", "mutex", "thread",
                 "chrono", "ratio", "regex", "system_error"}
Cxx11Errors(n) ==
  LET line == clean.elided[n]
  IN When(IsInclude(line) /\ Included(line) \in Cxx11Headers, <<Found(n, Cxx11, 5)>>)

\* Inside a block of assembly the line is not looked at by the other checks.
ProcessLine ==
  /\ next \in DOMAIN clean.raw
  /\ LET n == next
         updated == Update(nesting, clean, n)
         parsed == ParseNolintSuppressions(reports, clean.raw, n, n)
         nested == UpdateErrors(nesting, clean, n)
                   \o NamespaceIndentationErrors(updated, clean, n)
         checked == FunctionLengthErrors(function, clean, settings.verbose, n)
                    \o MultilineErrors(clean.elided[n], n) \o StyleErrors(updated, n)
                    \o CheckLanguageErrors(n)
         skipped == InAsmBlock(updated)
     IN /\ nesting' = updated
        /\ reports' = Report(parsed, nested \o When(~skipped, checked) \o Cxx11Errors(n), n)
        /\ function' = IF skipped THEN function ELSE FunctionState(function, clean, n)
        /\ include' = IF skipped THEN include ELSE IncludeStateAfter(n)
  /\ next' = next + 1
  /\ UNCHANGED <<file, settings, clean>>

-----------------------------------------------------------------------------
(* After the last line                                                     *)

EndOfFile == Len(file.lines) + 2
Done == EndOfFile + 1

\* Mutant of BadCharacterErrors: it reads the lines without their comments.
BadCharacterErrorsCleansed(lines) ==
  FlattenSeq([n \in 1..Highest(DOMAIN lines) |->
                When(Has(clean.lines[n], "bad"), <<Found(n, Utf8, 5)>>)])

\* The lines are those that RemoveMultiLineComments has cleared; the first is a marker.
BadCharacterErrors(lines) ==
  FlattenSeq([n \in 1..Highest(DOMAIN lines) |-> When(Has(lines[n], "bad"), <<Found(n, Utf8, 5)>>)])

NewlineAtEOFErrors(lines) ==
  LET last == Highest(DOMAIN lines)
  IN When(last < 2 \/ lines[last - 1] # <<>>, <<Found(last - 1, EndingNewline, 5)>>)

Finish ==
  /\ next = EndOfFile
  /\ reports' = Report(reports,
       CompletedBlocksErrors(nesting) \o IncludeWhatYouUseErrors(include, file, clean)
       \o HeaderIncludedErrors(include, file) \o BadCharacterErrors(clean.raw)
       \o NewlineAtEOFErrors(clean.raw), EndOfFile)
  /\ next' = Done
  /\ UNCHANGED <<file, settings, clean, nesting, include, function>>

NotCleansed == [raw |-> <<>>, noRaw |-> <<>>, lines |-> <<>>, elided |-> <<>>]

\* Before any file has been read.
ProcessFileInit ==
  /\ next = Idle /\ clean = NotCleansed
  /\ nesting = InitNestingState /\ include = InitIncludeState /\ function = InitFunctionState
  /\ reports = NoReports

ProcessFileData == Prepare \/ ProcessLine \/ Finish
=============================================================================
