---------------------------- MODULE IncludeState ----------------------------
(***************************************************************************)
(* What cpplint says of the #include lines of a file: headers included     *)
(* twice, out of order, or missing for what the file uses.                 *)
(*                                                                         *)
(* A path is [dir: Seq(STRING), base, suffix, ext: STRING]: suffix is the  *)
(* common suffix of the file's name, _test or -inl, that is not part of    *)
(* the name of its module, and part the first component of base.  Only     *)
(* whole components of paths are told apart.                               *)
(***************************************************************************)
EXTENDS LintText, LintReports

CONSTANTS Headers,   \* what an include line may name, each with
                     \* [path, cpp: in _CPP_HEADERS, thirdParty: BOOLEAN,
                     \*  order: its place in the canonical alphabetical order, from 1]
          Required   \* what needs a header: [token -> [header, kind]], where kind says
                     \* how the token is recognised: template, string or maybe

ASSUME HeadersAssumption ==
  \A h \in DOMAIN Headers :
     /\ Headers[h].cpp \in BOOLEAN /\ Headers[h].thirdParty \in BOOLEAN
     /\ Headers[h].order \in Nat \ {0}

ASSUME RequiredAssumption == IsFiniteSet(DOMAIN Required)

CSysHeader == "C system header"
CppSysHeader == "C++ system header"
LikelyMyHeader == "header this file implements"
PossibleMyHeader == "header this file may implement"
OtherHeader == "other header"

InitialSection == 0
MyHSection == 1
CSection == 2
CppSection == 3
OtherHSection == 4

TestSuffixes == {"_test", "_unittest", "_regtest"}
SourceExtensions == {"c", "cc", "cpp", "cxx"}

InitIncludeState == [section |-> InitialSection, last |-> 0, lists |-> << <<>> >>]

\* The line where a header was included, or -1.
FindHeader(state, header) ==
  LET all == FlattenSeq(state.lists)
      hits == {i \in DOMAIN all : all[i].header = header}
  IN IF hits = {} THEN -1 ELSE all[Lowest(hits)].line

\* Mutant of ResetSection: #endif drops the list of the section.
ResetSectionPops(state, directive) ==
  [section |-> InitialSection, last |-> 0,
   lists |-> IF directive \in {"#if", "#ifdef", "#ifndef"} THEN Append(state.lists, <<>>)
             ELSE IF directive = "#endif" THEN Front(state.lists)
             ELSE [state.lists EXCEPT ![Len(state.lists)] = <<>>]]

\* Mutant of ResetSection: #else drops the lists of all sections.
ResetSectionDropsAll(state, directive) ==
  [section |-> InitialSection, last |-> 0,
   lists |-> IF directive \in {"#if", "#ifdef", "#ifndef"} THEN Append(state.lists, <<>>)
             ELSE IF directive \in {"#else", "#elif"} THEN << <<>> >> ELSE state.lists]

ResetSection(state, directive) ==
  [section |-> InitialSection, last |-> 0,
   lists |-> IF directive \in {"#if", "#ifdef", "#ifndef"} THEN Append(state.lists, <<>>)
             ELSE IF directive \in {"#else", "#elif"}
               THEN [state.lists EXCEPT ![Len(state.lists)] = <<>>]
             ELSE state.lists]

\* The header is before the last one, and no other line is between them.
OutOfAlphabeticalOrder(state, header, previousLine) ==
  state.last > Headers[header].order /\ FirstToken(previousLine) = "#include"

\* Mutant of NextSection: C headers may follow those of C++.
NextSectionLate(section, type) ==
  CASE type \in {CSysHeader, CppSysHeader} -> IF section <= CppSection THEN {CppSection} ELSE {}
    [] type \in {LikelyMyHeader, PossibleMyHeader} ->
         {IF section <= MyHSection THEN MyHSection ELSE OtherHSection}
    [] OTHER -> {OtherHSection}

\* CheckNextIncludeOrder: the section a header of the type moves to, or none: an error.
NextSection(section, type) ==
  CASE type = CSysHeader -> IF section <= CSection THEN {CSection} ELSE {}
    [] type = CppSysHeader -> IF section <= CppSection THEN {CppSection} ELSE {}
    [] type \in {LikelyMyHeader, PossibleMyHeader} ->
         {IF section <= MyHSection THEN MyHSection ELSE OtherHSection}
    [] OTHER -> {OtherHSection}

CheckNextIncludeOrder(state, type) ==
  LET next == NextSection(state.section, type)
  IN IF next = {} THEN [state EXCEPT !.last = 0]
     ELSE [state EXCEPT !.section = CHOOSE s \in next : TRUE,
                        !.last = IF next = {state.section} THEN @ ELSE 0]

ClassifyInclude(file, header, system) ==
  LET mine == file.path
      its == Headers[header].path
      public == IF mine.dir = <<>> THEN <<"/", "public">> ELSE Append(Front(mine.dir), "public")
  IN IF system THEN (IF Headers[header].cpp THEN CppSysHeader ELSE CSysHeader)
     ELSE IF mine.base = its.base /\ its.dir \in {mine.dir, public} THEN LikelyMyHeader
     ELSE IF mine.part = its.part THEN PossibleMyHeader
     ELSE OtherHeader

-----------------------------------------------------------------------------
(* CheckIncludeLine                                                        *)

Included(line) == Words(line)[3]
IsSystem(line) == Words(line)[2] = "<"

\* "foo.h" without its directory.
BareHeader(header) ==
  LET h == Headers[header]
  IN h.path.dir = <<>> /\ h.path.ext = "h" /\ ~h.thirdParty

OtherPackagesSource(file, header) ==
  Headers[header].path.ext = "cc" /\ Headers[header].path.dir # file.path.dir

\* The includes that are entered in include_list and checked for their order.
IsOrdered(state, file, header) ==
  /\ FindHeader(state, header) < 0
  /\ ~OtherPackagesSource(file, header)
  /\ ~Headers[header].thirdParty

IncludeAfter(state, file, line, n) ==
  LET header == Included(line)
      listed == [state EXCEPT !.lists[Len(state.lists)] = Append(@, [header |-> header, line |-> n])]
      checked == CheckNextIncludeOrder(listed, ClassifyInclude(file, header, IsSystem(line)))
  IN IF IsOrdered(state, file, header)
     THEN [checked EXCEPT !.last = Headers[header].order]       \* SetLastHeader
     ELSE state

IncludeErrors(state, file, line, previousLine, n) ==
  LET header == Included(line)
      type == ClassifyInclude(file, header, IsSystem(line))
      checked == CheckNextIncludeOrder(state, type)
  IN When(~IsSystem(line) /\ BareHeader(header), <<Found(n, Include, 4)>>)
     \o When(FindHeader(state, header) >= 0 \/ OtherPackagesSource(file, header),
             <<Found(n, Include, 4)>>)
     \o When(IsOrdered(state, file, header) /\ NextSection(state.section, type) = {},
             <<Found(n, IncludeOrder, 4)>>)
     \o When(IsOrdered(state, file, header)
             /\ OutOfAlphabeticalOrder(checked, header, previousLine),
             <<Found(n, IncludeAlpha, 4)>>)

-----------------------------------------------------------------------------
(* After the last line                                                     *)

AllIncluded(state) == {f.header : f \in ToSet(FlattenSeq(state.lists))}

IsSource(file) == file.path.ext \in SourceExtensions

PartOf(p, q) ==
  /\ p.base = q.base /\ p.suffix = q.suffix /\ p.ext = q.ext
  /\ IsSuffix(p.dir, q.dir)

\* CheckHeaderFileIncluded, which wants dir/foo.h in dir/foo.cc where it exists.
HeaderIncludedErrors(state, file) ==
  LET own == [file.path EXCEPT !.ext = "h"]
      all == FlattenSeq(state.lists)
      found == \E h \in AllIncluded(state) :
                  PartOf(own, Headers[h].path) \/ PartOf(Headers[h].path, own)
  IN When(IsSource(file) /\ file.path.suffix \notin TestSuffixes /\ file.hasHeader /\ ~found,
          <<Found(IF all = <<>> THEN 0 ELSE all[1].line, Include, 5)>>)

WithoutPublic(dir) == SelectSeq(dir, LAMBDA d : d \notin {"public", "internal"})

FilesBelongToSameModule(file, header) ==
  LET its == Headers[header].path
      mySuffix == IF file.path.suffix \in TestSuffixes THEN "" ELSE file.path.suffix
      itsSuffix == IF its.suffix = "-inl" THEN "" ELSE its.suffix
  IN /\ IsSource(file) /\ its.ext = "h"
     /\ file.path.base = its.base /\ mySuffix = itsSuffix
     /\ IsSuffix(WithoutPublic(its.dir), WithoutPublic(file.path.dir))

\* The headers of the file's module that can be read, and what they include.
OwnHeaders(state, file) ==
  {h \in AllIncluded(state) \cap DOMAIN file.readable : FilesBelongToSameModule(file, h)}
VisibleHeaders(state, file) ==
  AllIncluded(state) \cup UNION {file.readable[h] : h \in OwnHeaders(state, file)}

\* The line uses what the token at i stands for.
UsesAt(line, i) ==
  LET next == Words(Drop(line, i))
  IN CASE Required[line[i]].kind = "template" -> next # <<>> /\ next[1] = "<"
       [] Required[line[i]].kind = "string" ->          \* only the first of a line
            /\ i = Lowest(At(line, line[i]))
            /\ i > 1 /\ line[i - 1] = "::" => i > 2 /\ line[i - 2] = "std"
       [] OTHER -> /\ i > 1 /\ line[i - 1] \notin {">", "."}
                   /\ \E j \in i + 1..Len(line) - 1 :
                        /\ line[j] = "(" /\ line[j + 1] # ")"
                        /\ j = i + 1 \/ (line[i + 1] = "<" /\ line[j - 1] = ">")
UsesHeader(line, header) ==
  \E i \in DOMAIN line :
     line[i] \in DOMAIN Required /\ Required[line[i]].header = header /\ UsesAt(line, i)

UseLines(clean, header) ==
  {n \in DOMAIN clean.elided :
     LET line == clean.elided[n]
     IN line # <<>> /\ line[1] \notin Directives \cup {"#include", "#define"}
        /\ UsesHeader(line, header)}

\* CheckForIncludeWhatYouUse: one error at the last use of each missing header.
IncludeWhatYouUseErrors(state, file, clean) ==
  LET needed == {Required[t].header : t \in DOMAIN Required}
      missing == SetToSeq({h \in needed : UseLines(clean, h) # {} /\ h \notin VisibleHeaders(state, file)})
  IN When(~(file.path.ext = "cc" /\ OwnHeaders(state, file) = {}),
          [i \in DOMAIN missing |-> Found(Highest(UseLines(clean, missing[i])), IncludeWhatYouUse, 4)])
=============================================================================
