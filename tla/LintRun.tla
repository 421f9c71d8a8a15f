------------------------------- MODULE LintRun -------------------------------
(***************************************************************************)
(* A run of cpplint: the command line is parsed, and the files it names    *)
(* are processed one after the other.  The CPPLINT.cfg files of the        *)
(* directories a file is in override the settings for it.                  *)
(***************************************************************************)
EXTENDS ProcessFile

CONSTANTS Commands,   \* the command lines: [valid, verbose, filters, counting, lineLength,
                      \* extensions, files: Seq(Files)]
          Config      \* the CPPLINT.cfg files, by directory: each [open: BOOLEAN, options],
                      \* options being a sequence of [name, ...]

VARIABLES command,
          status,     \* "new", "running", or how the run ended
          queue,      \* the files still to process
          done        \* of every file processed: what was found in it

runVars == <<vars, command, status, queue, done>>

\* An option is invalid if it names none of the options there are: it is passed over.
OptionNames == {"noparent", "filter", "exclude_files", "linelength"}

ASSUME CommandsAssumption ==
  \A c \in Commands : c.files \in Seq(Files) /\ c.filters \in Seq(FilterRecord)
ASSUME ConfigAssumption ==
  \A dir \in DOMAIN Config :
    LET options == Config[dir].options
    IN /\ Len(options) \in Nat /\ DOMAIN options = 1..Len(options)
       /\ \A i \in DOMAIN options :
            options[i].name = "filter" => options[i].filters \in Seq(FilterRecord)

-----------------------------------------------------------------------------
(* ParseArguments                                                          *)

ParseArguments ==
  /\ status = "new"
  /\ status' = IF ~command.valid \/ command.files = <<>> THEN "usage"
               ELSE IF ~AreValid(command.filters) THEN "raised" ELSE "running"
  /\ settings' = [settings EXCEPT
                    !.verbose = command.verbose, !.counting = command.counting,
                    !.filters = DefaultFilters \o command.filters,
                    !.lineLength = command.lineLength, !.extensions = command.extensions]
  /\ queue' = command.files
  /\ UNCHANGED <<file, next, clean, nesting, include, function, reports, command, done>>

-----------------------------------------------------------------------------
(* ProcessConfigOverrides                                                  *)

\* What the options of the configuration of a directory make of the overrides so far;
\* name is the component of the path below the directory.
NoOverrides(lineLength) ==
  [look |-> TRUE, filters |-> <<>>, lineLength |-> lineLength, excluded |-> FALSE]

Override(overrides, option, name) ==
  IF overrides.excluded THEN overrides
  ELSE CASE option.name = "noparent" -> [overrides EXCEPT !.look = FALSE]
         [] option.name = "filter" -> [overrides EXCEPT !.filters = <<option.filters>> \o @]
         [] option.name = "exclude_files" -> [overrides EXCEPT !.excluded = name \in option.names]
         [] option.name = "linelength" /\ option.number # {} ->
              [overrides EXCEPT !.lineLength = CHOOSE n \in option.number : TRUE]
         [] OTHER -> overrides

\* What the options of a configuration make of them, one after the other.
OptionsApplied(overrides, options, name) ==
  LET after[i \in 0..Len(options)] ==
        IF i = 0 THEN overrides ELSE Override(after[i - 1], options[i], name)
  IN after[Len(options)]

\* What the configuration k directories above the one of the file makes of them.
Components(f) == Append(f.path.dir, f.path.base)
DirectoryAbove(f, k) == Take(f.path.dir, Len(f.path.dir) - k)
ReadConfig(overrides, f, k) ==
  LET dir == DirectoryAbove(f, k)
  IN IF ~overrides.look \/ overrides.excluded \/ dir \notin DOMAIN Config THEN overrides
     ELSE IF ~Config[dir].open THEN [overrides EXCEPT !.look = FALSE]
     ELSE OptionsApplied(overrides, Config[dir].options, Components(f)[Len(f.path.dir) - k + 1])

\* Every directory from that of the file up to the root, while cpplint keeps looking.
Overrides(f, lineLength) ==
  LET below[k \in 0..Len(f.path.dir) + 1] ==
        IF k = 0 THEN NoOverrides(lineLength) ELSE ReadConfig(below[k - 1], f, k - 1)
  IN below[Len(f.path.dir) + 1]

\* Mutant of FiltersWith: the filters of the nearest directory come first.
FiltersWithNearestFirst(filters, overrides) == filters \o FlattenSeq(Reverse(overrides.filters))

\* The filters of outer directories come first, so that they have the least priority.
FiltersWith(filters, overrides) == filters \o FlattenSeq(overrides.filters)

-----------------------------------------------------------------------------
(* ProcessFile                                                             *)

Current == Head(queue)
Overridden == Overrides(Current, settings.lineLength)

CanRead(f, overrides) == ~overrides.excluded /\ f.exists
HasValidExtension(f) == f.path.ext \in settings.extensions

\* Mutant of SkipFile: the filters of the file that is skipped stay.
SkipFileKeepsFilters ==
  settings' = [settings EXCEPT !.backup = settings.filters, !.lineLength = Overridden.lineLength,
                               !.filters = IF Overridden.excluded THEN @
                                           ELSE FiltersWith(@, Overridden)]

\* The filters are saved, and restored where the file is not checked; the line length is not.
SkipFile ==
  settings' = [settings EXCEPT !.backup = settings.filters, !.lineLength = Overridden.lineLength]

StartFile ==
  /\ status = "running" /\ next = Idle /\ queue # <<>>
  /\ LET filters == FiltersWith(settings.filters, Overridden)
         raises == ~Overridden.excluded /\ ~AreValid(filters)
     IN IF raises
        THEN /\ status' = "raised"
             /\ UNCHANGED <<settings, queue, file, next>>
        ELSE IF CanRead(Current, Overridden) /\ HasValidExtension(Current)
        THEN /\ settings' = [settings EXCEPT !.backup = settings.filters, !.filters = filters,
                                             !.lineLength = Overridden.lineLength]
             /\ file' = Current /\ next' = Unread
             /\ UNCHANGED <<status, queue>>
        ELSE /\ SkipFile
             /\ queue' = Tail(queue)
             /\ UNCHANGED <<status, file, next>>
  /\ UNCHANGED <<clean, nesting, include, function, reports, command, done>>

\* Lines that end in CR are reported where others do not.
LineEndErrors(f) ==
  When(f.crlf # {} /\ f.crlf # 1..Len(f.lines) - 1,
       FlattenSeq([n \in DOMAIN f.lines |-> When(n \in f.crlf, <<Found(n, Newline, 1)>>)]))

\* After ProcessFileData.
EndFile ==
  /\ status = "running" /\ next = Done
  /\ LET ended == Report(reports, LineEndErrors(file), Done)
     IN /\ reports' = ended
        /\ done' = Append(done, [file |-> file, settings |-> settings, found |-> ended.found])
  /\ settings' = [settings EXCEPT !.filters = settings.backup]          \* _RestoreFilters
  /\ queue' = Tail(queue)
  /\ next' = Idle
  /\ UNCHANGED <<file, clean, nesting, include, function, command, status>>

\* The end of main: the exit status says whether an error was counted.
Exit ==
  /\ status = "running" /\ next = Idle /\ queue = <<>>
  /\ status' = IF reports.counts.total > 0 THEN "failed" ELSE "clean"
  /\ UNCHANGED <<vars, command, queue, done>>

Init ==
  /\ ProcessFileInit
  /\ command \in Commands /\ status = "new" /\ queue = <<>> /\ done = <<>>
  /\ file \in {IF command.files = <<>> THEN CHOOSE f \in Files : TRUE ELSE command.files[1]}
  /\ settings = [verbose |-> 1, filters |-> DefaultFilters, backup |-> DefaultFilters,
                 counting |-> "total", lineLength |-> 80, extensions |-> {}]

Next ==
  \/ ParseArguments
  \/ StartFile
  \/ ProcessFileData /\ UNCHANGED <<command, status, queue, done>>
  \/ EndFile
  \/ Exit

Spec == Init /\ [][Next]_runVars
=============================================================================
