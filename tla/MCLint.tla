------------------------------- MODULE MCLint -------------------------------
(***************************************************************************)
(* Files, command lines and configurations for TLC: small families of      *)
(* files, each of the lines that one part of cpplint tells apart, and a    *)
(* few runs over several files.                                            *)
(***************************************************************************)
EXTENDS LintClaims, TLC

Upto(S, n) == UNION {[1..k -> S] : k \in 0..n}
S == Space

Path(dir, base, ext) == [dir |-> dir, base |-> base, suffix |-> "", part |-> base, ext |-> ext]
File(lines) ==
  [path |-> Path(<<"u">>, "foo", "cc"), lines |-> lines, guard |-> [name |-> "G_", old |-> "G__"],
   hasHeader |-> FALSE, readable |-> <<>>, exists |-> TRUE, crlf |-> {}]

\* Quotes, escapes, comments and raw strings.  Two marks of comments are not next to each
\* other: their characters would be read in other pairs.
Marks == {"//", "/*", "*/"}
TextTokens == Marks \cup {DQ, SQ, BS, "x"}
TextLines ==
  {<<"x", "/*">>, <<"/*">>, <<"*/">>, <<"*/", "x">>, <<"R", DQ, "(">>, <<"x", ")", DQ, "x">>,
   <<"R", DQ, "x", "(", "/*">>, <<"R", DQ, "(", "//", ")", DQ, "R", DQ, "(">>,
   <<"//", "R", DQ, "(">>, <<")", DQ, "R", DQ, "x", "(", ")", DQ>>, <<DQ, "/*", DQ, "bad">>,
   <<"x", S, "//", "bad">>, <<"*/", "bad", "/*", "x", "*/">>, <<SQ, "R", DQ, SQ, "(">>}
TextFiles ==
  {<<l>> : l \in {m \in Upto(TextTokens, 4) :
                    \A i \in 1..Len(m) - 1 : ~(m[i] \in Marks /\ m[i + 1] \in Marks)}}
    \cup Upto(TextLines, 3)

BracketFiles ==
  {<<l>> : l \in Upto({"(", ")", "{", "<", ">", ";", "x"}, 4)}
    \cup Upto({<<"(">>, <<")">>, <<"<">>, <<">">>, <<"-", ">">>, <<"{", ";">>, <<"}">>}, 3)

\* Preprocessor conditionals around beginnings and ends of blocks.
BranchLines == {<<"#elif">>, <<"x", "{">>, <<"}">>, <<"class", S, "x">>}
ConditionalFiles ==
  Upto({<<"#if">>, <<"#else">>, <<"#endif">>, <<"namespace", S, "{">>, <<"x", "{">>, <<"}">>,
        <<"class", S, "x", ";">>, <<"class", S, "x">>}, 3)
    \cup {<< <<"#if">> >> \o lines \o << <<"#endif">> >> : lines \in [1..3 -> BranchLines]}
    \cup Upto({<<"#if", S, "x", "(", ")">>, <<"#else">>, <<"#elif", "(", "x", ")">>, <<"class", S, "x">>, <<"{">>}, 3)

BlockLines ==
  {<<"namespace", S, "x", S, "{">>, <<"namespace", S, "{", "namespace", S, "x", "{">>,
   <<"class", S, "x", S, "{">>, <<S, "class", S, "x">>, <<"{">>, <<"}", ";">>, <<"}">>,
   <<"class", S, "x", ";">>, <<"x", "(", S, "struct", S, "x", S, "x", ")", "{">>,
   <<"template", S, "<", "class", S, "x", ">", S, "class", S, "x", "{">>,
   <<"template", S, "<", "class", S, "x", ",">>, <<"asm", S, "{">>,
   <<"extern", S, DQ, "x", DQ, S, "{">>, <<"x", "(", ")", ")">>, <<S, "public:">>,
   <<"enum", S, "class", S, "x">>, <<"DISALLOW", "(", "x", ")">>, <<"x", ";">>, <<>>}
BlockFiles ==
  Upto(BlockLines, 2)
    \cup [1..3 -> {<<"class", S, "x", S, "{">>, <<"{">>, <<"}", ";">>, <<"}">>, <<"x", ";">>,
                   <<S, "public:">>, <<>>}]

Header(path, cpp, third, order) == [path |-> path, cpp |-> cpp, thirdParty |-> third, order |-> order]
MCHeaders ==
  [h \in {"vector", "mutex", "stdio.h", "foo.h", "u/foo.h", "u/bar.h", "Python.h", "v/x.cc"} |->
     CASE h = "mutex" -> Header(Path(<<>>, "mutex", ""), TRUE, FALSE, 2)
       [] h = "Python.h" -> Header(Path(<<>>, "Python", "h"), FALSE, TRUE, 3)
       [] h = "stdio.h" -> Header(Path(<<>>, "stdio", "h"), FALSE, FALSE, 4)
       [] h = "vector" -> Header(Path(<<>>, "vector", ""), TRUE, FALSE, 8)
       [] h = "foo.h" -> Header(Path(<<>>, "foo", "h"), FALSE, FALSE, 1)
       [] h = "u/bar.h" -> Header(Path(<<"u">>, "bar", "h"), FALSE, FALSE, 5)
       [] h = "u/foo.h" -> Header(Path(<<"u">>, "foo", "h"), FALSE, FALSE, 6)
       [] OTHER -> Header(Path(<<"v">>, "x", "cc"), FALSE, FALSE, 7)]
MCRequired == [t \in {"vector"} |-> [header |-> "vector", kind |-> "template"]]
Sys(h) == <<"#include", S, "<", h, ">">>
Own(h) == <<"#include", S, DQ, h, DQ>>
IncludeFiles ==
  Upto({Sys("vector"), Sys("mutex"), Sys("stdio.h"), Own("u/foo.h"), Own("u/bar.h"),
        Own("foo.h"), Sys("Python.h"), Own("v/x.cc"), <<"vector", "<", "x", ">">>, <<>>}, 3)
    \cup Upto({Sys("vector"), <<"#if">>, <<"#else">>, <<"#endif">>, <<"vector", "<", "x", ">">>}, 4)
    \cup Upto({<<"asm", S, "{">>, Sys("mutex"), Sys("stdio.h"), <<"}">>}, 3)

Nolint(category, ahead) == [category |-> category, next |-> ahead]
MCNolint ==
  [t \in {"NOLINT", "NOLINT(newline)", "NOLINT(braces)", "NOLINTNEXTLINE", "NOLINT(foo)"} |->
     CASE t = "NOLINT" -> Nolint(AllCategories, FALSE)
       [] t = "NOLINT(newline)" -> Nolint(Newline, FALSE)
       [] t = "NOLINT(braces)" -> Nolint(Braces, FALSE)
       [] t = "NOLINTNEXTLINE" -> Nolint(AllCategories, TRUE)
       [] OTHER -> Nolint(<<"foo">>, FALSE)]
Comment(t) == <<S, "//", S, t>>
NolintFiles ==
  Upto({<<"x", "(", ")", S, "{">>, <<"else", S, "x", ";">>,
        <<"else", S, "x", ";">> \o Comment("NOLINT"), <<"}", ";">>,
        <<"}", ";">> \o Comment("NOLINT(braces)"), Comment("NOLINTNEXTLINE"),
        <<"else", S, "x", ";">> \o Comment("NOLINT(newline)"), <<"tab", "x">> \o Comment("NOLINT(foo)"),
        <<"}">>, <<"x">>, <<"namespace", S, "{">> \o Comment("NOLINT"), <<"x", "(", ")">>, <<>>}, 2)
    \cup [1..3 -> {<<"x", "(", ")", S, "{">>, <<"else", S, "x", ";">> \o Comment("NOLINT"),
                   <<"}", ";">>, <<"}">>, <<"x">>}]

-----------------------------------------------------------------------------
(* Runs over several files                                                 *)

Filter(sign, prefix) == [sign |-> sign, prefix |-> prefix]
MCConfig ==
  [d \in {<<"c">>, <<"c", "v">>, <<"w">>, <<"w", "v">>, <<"bad">>, <<"closed">>} |->
     [open |-> d # <<"closed">>,
      options |->
        CASE d = <<"c">> -> << [name |-> "filter", filters |-> <<Filter("-", <<"whitespace">>)>>],
                               [name |-> "exclude_files", names |-> {"out"}],
                               [name |-> "linelength", number |-> {2}] >>
          [] d = <<"c", "v">> -> << [name |-> "filter", filters |-> <<Filter("+", Newline)>>],
                                    [name |-> "linelength", number |-> {}] >>
          [] d = <<"w">> -> << [name |-> "filter", filters |-> <<Filter("-", Newline)>>],
                                    [name |-> "filter", filters |-> <<Filter("+", <<"whitespace">>), Filter("-", Indent)>>] >>
          [] d = <<"w", "v">> -> << [name |-> "other"], [name |-> "noparent"] >>
          [] d = <<"bad">> -> << [name |-> "filter", filters |-> <<Filter("", Newline)>>] >>
          [] OTHER -> <<>>]]

In(dir, base) == [File(<< <<"else", S, "x", ";">>, <<"x", S>> >>) EXCEPT !.path = Path(dir, base, "cc")]
SeveralFiles ==
  {In(<<"c", "v">>, "foo"), In(<<"w">>, "foo"), In(<<"w", "v">>, "foo"), In(<<"bad">>, "foo"),
   In(<<"closed">>, "foo"),
   [In(<<"c">>, "out") EXCEPT !.path.ext = "h"], [In(<<"w">>, "foo") EXCEPT !.exists = FALSE],
   [In(<<"w">>, "foo") EXCEPT !.path.ext = "txt"], [In(<<"c">>, "foo") EXCEPT !.crlf = {1}],
   [In(<<"w">>, "foo") EXCEPT !.path.ext = "h",
      !.lines = << <<"#ifndef", S, "G_">>, <<"#define", S, "G_">>, <<"#endif", S, S, "//", S, "G__">>, <<>> >>]}

Options(files) ==
  [valid |-> TRUE, verbose |-> 1, filters |-> <<>>, counting |-> "detailed", lineLength |-> 80,
   extensions |-> {"cc", "h"}, files |-> files]

SingleFiles ==
  {File(lines) : lines \in TextFiles \cup BracketFiles \cup ConditionalFiles \cup BlockFiles \cup IncludeFiles \cup NolintFiles}
MCFiles == SingleFiles \cup SeveralFiles
MCCommands ==
  {[Options(<<f>>) EXCEPT !.verbose = 0] : f \in SingleFiles}
    \cup {[Options(files) EXCEPT !.filters = filters, !.counting = counting] :
            files \in Upto(SeveralFiles, 2), filters \in {<<>>, <<Filter("-", <<>>)>>, <<Filter("-", <<"build">>), Filter("+", Include)>>},
            counting \in {"toplevel"}}
    \cup {[Options(<<In(<<"w">>, "foo")>>) EXCEPT !.valid = FALSE],
          [Options(<<In(<<"w">>, "foo")>>) EXCEPT !.filters = <<Filter("", Newline)>>],
          [Options(<<In(<<"w">>, "foo")>>) EXCEPT !.counting = "total"]}
=============================================================================
