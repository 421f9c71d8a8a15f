----------------------------- MODULE LintReports -----------------------------
(***************************************************************************)
(* Which of the errors found are printed and how they are counted: NOLINT  *)
(* comments, the verbosity, and the filters.                               *)
(*                                                                         *)
(* A category is the sequence of the parts of its name, so that the text   *)
(* of a filter begins the name if it is a prefix of the sequence:          *)
(* build/include begins build/include_alpha.  A filter is                  *)
(* [sign |-> "+", "-" or none, prefix |-> Seq(STRING)].                    *)
(***************************************************************************)
EXTENDS Integers, Sequences, FiniteSets, SequencesExt

CONSTANTS NolintComments   \* the NOLINT comments of the files, each with what it says:
                           \* [token -> [next: BOOLEAN, category: Seq(STRING)]]

ASSUME NolintAssumption ==
  \A t \in DOMAIN NolintComments :
     NolintComments[t].next \in BOOLEAN /\ NolintComments[t].category \in Seq(STRING)

AllCategories == <<>>      \* of NOLINT and NOLINT(*)

Include == <<"build", "include">>
IncludeAlpha == <<"build", "include", "alpha">>
IncludeOrder == <<"build", "include", "order">>
IncludeWhatYouUse == <<"build", "include", "what_you_use">>
BuildClass == <<"build", "class">>
BuildNamespaces == <<"build", "namespaces">>
BuildHeaderGuard == <<"build", "header_guard">>
Cxx11 == <<"build", "c++11">>
Copyright == <<"legal", "copyright">>
Braces == <<"readability", "braces">>
Casting == <<"readability", "casting">>
Constructors == <<"readability", "constructors">>
FnSize == <<"readability", "fn_size">>
MultilineComment == <<"readability", "multiline", "comment">>
MultilineString == <<"readability", "multiline", "string">>
NamespaceEnd == <<"readability", "namespace">>
NolintCategory == <<"readability", "nolint">>
Utf8 == <<"readability", "utf8">>
IndentationNamespace == <<"runtime", "indentation_namespace">>
BlankLine == <<"whitespace", "blank_line">>
WhitespaceBraces == <<"whitespace", "braces">>
EmptyConditionalBody == <<"whitespace", "empty", "conditional_body">>
EmptyIfBody == <<"whitespace", "empty", "if_body">>
EmptyLoopBody == <<"whitespace", "empty", "loop_body">>
EndOfLine == <<"whitespace", "end_of_line">>
EndingNewline == <<"whitespace", "ending_newline">>
Indent == <<"whitespace", "indent">>
LineLength == <<"whitespace", "line_length">>
Newline == <<"whitespace", "newline">>
Tab == <<"whitespace", "tab">>

\* Those of _ERROR_CATEGORIES that the modelled checks report.
ErrorCategories ==
  {Include, IncludeAlpha, IncludeOrder, IncludeWhatYouUse, BuildClass, BuildNamespaces,
   BuildHeaderGuard, Cxx11, Copyright, Braces, Casting, Constructors, FnSize, MultilineComment,
   MultilineString, NamespaceEnd, NolintCategory, Utf8, IndentationNamespace, BlankLine,
   WhitespaceBraces, EmptyConditionalBody, EmptyIfBody, EmptyLoopBody, EndOfLine, EndingNewline, Indent,
   LineLength, Newline, Tab}
LegacyCategories == {<<"readability", "streams">>, <<"readability", "function">>}

Found(n, category, confidence) == [line |-> n, category |-> category, confidence |-> confidence]
When(condition, errors) == IF condition THEN errors ELSE <<>>

-----------------------------------------------------------------------------
(* _error_suppressions and _global_error_suppressions                      *)

NoSuppressions == [lines |-> {}, global |-> {}]

\* Marks that name a file as C or as part of the kernel suppress categories in all of it.
ProcessGlobalSuppressions(lines, suppressions) ==
  LET marked(mark) == \E n \in DOMAIN lines : mark \in ToSet(lines[n])
  IN [suppressions EXCEPT !.global =
        @ \cup (IF marked("LINT_C_FILE") THEN {Casting} ELSE {})
          \cup (IF marked("LINT_KERNEL_FILE") THEN {Tab} ELSE {})]

\* The first NOLINT of a line, as a sequence of at most one.
NolintsOf(line) == SelectSeq(line, LAMBDA t : t \in DOMAIN NolintComments)
FirstNolint(line) == NolintComments[NolintsOf(line)[1]]

SuppressedLine(line, n) == IF FirstNolint(line).next THEN n + 1 ELSE n

\* What ParseNolintSuppressions adds, and the error it reports.
ParseNolint(suppressions, line, n) ==
  IF NolintsOf(line) # <<>> /\ FirstNolint(line).category \in ErrorCategories \cup {AllCategories}
  THEN [suppressions EXCEPT !.lines =
          @ \cup {<<FirstNolint(line).category, SuppressedLine(line, n)>>}]
  ELSE suppressions
NolintErrors(line, n) ==
  When(NolintsOf(line) # <<>>
       /\ FirstNolint(line).category \notin ErrorCategories \cup LegacyCategories \cup {AllCategories},
       <<Found(n, NolintCategory, 5)>>)

\* Mutant of SuppressedByNolint: a NOLINT of all categories is forgotten.
SuppressedByItsCategory(suppressions, category, n) ==
  category \in suppressions.global \/ <<category, n>> \in suppressions.lines

SuppressedByNolint(suppressions, category, n) ==
  \/ category \in suppressions.global
  \/ <<category, n>> \in suppressions.lines
  \/ <<AllCategories, n>> \in suppressions.lines

-----------------------------------------------------------------------------
(* _CppLintState                                                           *)

FilterRecord == [sign : STRING, prefix : Seq(STRING)]
DefaultFilters == <<[sign |-> "-", prefix |-> IncludeAlpha]>>

Matching(filters, category) == {i \in DOMAIN filters : IsPrefix(filters[i].prefix, category)}

\* Filters are read from the left: the last that matches decides.
Filtered(filters, category) ==
  LET matching == Matching(filters, category)
  IN matching # {} /\ filters[CHOOSE i \in matching : \A j \in matching : j <= i].sign = "-"

\* AddFilters raises an error if a filter has no sign.
AreValid(filters) == \A i \in DOMAIN filters : filters[i].sign \in {"+", "-"}

ShouldPrintError(settings, suppressions, error) ==
  /\ ~SuppressedByNolint(suppressions, error.category, error.line)
  /\ error.confidence >= settings.verbose
  /\ ~Filtered(settings.filters, error.category)

\* The count a category is added to.
CountedAs(counting, category) == IF counting = "toplevel" THEN <<category[1]>> ELSE category

NoCounts == [total |-> 0, by |-> <<>>]

\* Mutant of IncrementErrorCount: the first error of a category is not counted.
IncrementKnownCategories(counts, counting, category) ==
  LET name == CountedAs(counting, category)
  IN [total |-> counts.total + 1,
      by |-> IF counting = "total" THEN counts.by
             ELSE IF name \in DOMAIN counts.by THEN [counts.by EXCEPT ![name] = @ + 1]
             ELSE [c \in DOMAIN counts.by \cup {name} |-> IF c = name THEN 0 ELSE counts.by[c]]]

IncrementErrorCount(counts, counting, category) ==
  LET name == CountedAs(counting, category)
  IN [total |-> counts.total + 1,
      by |-> IF counting = "total" THEN counts.by
             ELSE [c \in DOMAIN counts.by \cup {name} |->
                     (IF c \in DOMAIN counts.by THEN counts.by[c] ELSE 0)
                     + (IF c = name THEN 1 ELSE 0)]]
=============================================================================
