# Ursa: models, checks and proofs

Ursa (namespace `axe`) is a distributed dataflow system.  A *driver* program
describes a job through a dataset API; the calls build a *task graph*, which is
handed to a job manager, expanded into shards and run by job processes on a
cluster.  The repository holds the client side: the headers under
`src/ursa`, seven example jobs, the scripts that start and stop a cluster, and
static libraries and binaries (`Master`, `Scheduler`, `Worker`, `apps/*`) without
their sources.  There is no prose documentation; the code, its comments and
its assertions are the reference.

Run a check with `tlc -workers 4 -config exec.cfg MCJobExecution.tla` (the
module of every configuration is in the table of runs below) and a proof
with `tlapm JobProofs.tla`.

## 1. The system

| Component | State | Operations | Talks to |
|---|---|---|---|
| Driver API (`dataset.h`, `abstract_dataset.h`, `source_dataset.h`, `task.h`, `task_graph.h`) | tasks, typed dependencies, what a task produces, reads and writes; per dataset its parallelism, `write_precedence_` and `read_precedence_` | FlatMap, ApplyRead, MapPartition(With), SharedDataMapPartitionWith, UpdatePartition(With), PartitionBy, ReduceBy, RangeReduceBy, Broadcast, AddTask | hands the graph and the closures to the job manager |
| Job execution (`data_store.h`, `task_context.h`, the closures in `dataset.h`) | pointers to partitions in the data store of each process, one slot per dataset and shard, or slot 0 at process level; shards running and done | get, get mutable, insert, at process level or not, remove; closures | shards share partitions without locks; the order of the graph is all that protects them |
| Shuffle and reduce (`dataset.h` 131-433) | buffers per destination, messages, message partitions, groups being combined | serialize, network transfer, deserialize | sender closures, network tasks, reducer closures |
| Partitions (`partition.h`, `dataset_partition.h`, `string_partition.h`) | buffer, size, capacity; offsets and characters; null flags | the calls of `std::vector`, Slice, Filter, ApplyFilter, ApplyPermutation, AppendPartition | closures call it |
| Line input (`line_inputformat.h`) | current block, position of the last end of line, the unfinished line | ReadData | block splitter (closed library), the executor of FlatMap |
| Iterative jobs (`pr.cc`, `connected_component.cc`, `lr.cc`, `kmeans.cc`) | graph, ranks, answers, models | one round per iteration | the driver API |
| Timer (`timer.h`) | thread, mutex, condition variable, `is_running_` | Start, destructor, handler | the owner's thread |
| Cluster scripts (`pstart.py`, `pstop.py`, `scheduler.py`) | pid files, scratch directories, processes | start, stop | remote shells over ssh |
| Style checker (`scripts/cpplint.py`, run over all sources by `lint.py`) | settings, filters, NOLINT suppressions and counts of a run; per file its cleansed lines, the stack of blocks, the include lists and section, the lines of the open function | ParseArguments, ProcessConfigOverrides, ProcessFile, ProcessFileData, ProcessLine and the checks it calls | the files, the `CPPLINT.cfg` files of their directories; `lint.py` by its exit status |
| Submission, simulator, resource records, serialisation, loggers, ORC and HDFS input | see section 7 | | |

What is hard about it:

- *Ordering that nobody enforces.*  Partitions have no locks.  Whether two
  closures may run at the same time follows from two fields of each
  dataset handle that every call must read and update in the right order.
- *Asynchrony.*  Shards of different tasks run ahead of each other; messages of
  a shuffle arrive in any order; iterations overlap.
- *Tables walked in step.*  The graph jobs pair two sorted partitions by position.
- *In-place algorithms.*  Reducers, filters and inserts move elements
  within the array they still read.
- *Boundaries.*  Lines cross blocks; vectors keep what was cut off.
- *Failure.*  Processes die while scripts decide by pid files what is running, and scripts go on
  after ten seconds whether the remote shells they started are done or not.
- *State carried from line to line.*  cpplint has no parser: what a line means
  follows from a stack, lists and counters that earlier lines left, that comments, raw
  strings and `#else` disturb, and from settings that earlier files left.
- *Threads.*  The timer's destructor races with a sleeping thread.

`PROJECT.json` lists all components and, under `hazards`, the places in the code
where each of these bites, with the property that would notice.

## 2. The modules

### TaskGraph (with MCTaskGraph; proofs in JobProofs)

One variable, `graph`: the record of everything the driver has built.  Each C++
method that touches it is an operator from graphs to graphs (`CreateTask`, `Then`,
`SetProducer`, `ReadBy`, `WriteBy`, `ReadData`, ...), and each API call is an
action that composes them in the order of the source: `WriteBy` before
`ReadBy` in `UpdatePartitionWith`, `SetProducer` with its parallelism before
the reads in a shuffle.  `PartitionBy` stands for `ReduceBy` and `RangeReduceBy`
too, which build the same graph with other closures.  Ids start at 1, 0 being the
null pointer.  `handles` are the datasets the driver holds an object of,
`untracked` the reads declared to the task but not to the dataset.

`Calls` says which calls the driver uses, `Disciplined` whether it keeps to five rules
that no code enforces and all examples keep to: shared reads only of data
the other argument depends on; no in-place update of shared data after that, nor ever of the result of a broadcast;
only datasets of equal parallelism are zipped; no dataset is updated with itself.
`alias` says of the result of a broadcast whose objects its partitions are.
Datasets have one handle: the precedence fields are members of the handle,
and a copy that is written through would not share them.

### JobExecution and CellLocks (with MCJobExecution; proofs in JobProofs)

`JobExecution` extends `TaskGraph`: the driver builds, submits, and the shards
of all tasks start and finish in any order the dependencies allow.  A shard of a
network task is one instance per sender.  Which instance waits for which is read
off the comments on `TaskDependencyType` (`constants.h` 87-94), since the job
manager is closed; nothing else is assumed about its order.

What a closure makes of a partition is an *object*; the store of each process has *cells*, `store_[dataset][shard]`,
that point to objects.  `Home` says which process runs the shards of a number.  A closure takes pointers when
it starts (`Found`, `Updated`) and puts those of what it made into cells when it returns (`Puts`); between the two it reads
and changes the objects it has, whatever the cells point to by then.  `last` remembers for every cell which task wrote it last.

A broadcast is kept at process level: each of the receiving shards of a process makes an object, and all put theirs into the
same cell, that of slot 0 (`Slot`, `CellOf`; `InsertProcessLevelData`).  The task that fetches takes what it finds there and puts it, the same object, into the
shard's own cell of the result (`Passed`).  So shards of all numbers may hold one object, and a shard that is late replaces one
that others hold.  Taken for granted: the receiving shards of a broadcast get the same messages, since the network task is closed, so that it does not matter
whose object is left.  Left out: the branch for a broadcast of no records (`dataset.h:240`), which does not use the
process level, while the fetch does (section 4).

`CellLocks` is the abstract specification: a readers-writer lock per object that is granted at once, always.

### ShuffleReduce and GroupByKey (with MCShuffleReduce; proofs in ShuffleReduceProofs)

The closures of the three shuffles, record by record: hashing into buffers (`Routed`),
combining on the sender's side (ReduceBy only, `Combined`), messages, message partitions in the order
of arrival, sorting, and the loop that combines a sorted array in
place (`Reduced`; `CompactStep` is one turn, with the read position ahead of the write position and the
last group written after the loop).  `std::sort` is not stable, so `Sortings` has every order of
the records in which the keys do not descend, and the shards take any of them.  The value of a record is the bag of the ids of
the records it was made of, the combiner bag union.  `GroupByKey` is the abstract
specification: the partitions of the result appear one after the other, each with one
record per key it owns, merged over all senders.  `Occurrences` are all the records there are, each with its place.

### GraphJobs (with MCGraphJobs; proofs in GraphJobsProofs)

PageRank and ConnectedComponent, per partition and iteration, for any graph.
A rank is the set of vertices whose share it contains, an answer an id and a flag.  Every
walk over two tables stops where the code's loop stops, and takes what it finds
there, right or wrong.  ReduceBy is taken at what `ShuffleReduce` establishes.
An input has at most one line for an id.

### DatasetPartition, StringPartition, Partition and Vector (with MCPartition; proofs in PartitionProofs)

`DatasetPartition` has the buffer, size and capacity, and the growth rule of each
call (`+5`, `* 2`, `* 2 + 5`); a fundamental type finds unset cells in a new
buffer, a class type default ones.  `StringPartition` has the offsets and
characters.  `Filter` and the two `ApplyFilter` are the loops they are, turn by turn (`Pushed`, `MovedDown`,
`FilterStep`), and so is the appending of several strings.  `Partition` is either
of the two, and `Vector` what both promise: every call leaves the elements
`std::vector` would leave; what a filter keeps is said without a loop, as the elements at the `Ascending`
sequence of the places to keep.  Moves and copies by index that the C++ loops do without overlap are
one assignment; the two that overlap (`MoveInternal`, `FilterStep`) read the old array as the loops'
directions make them.  A caller that takes a slice goes on with the slice.

### LineInputFormat (proofs in ReaderAndTimerProofs)

Any number of readers take blocks in any order.  A file is its size and where it has
ends of line, a line the interval of its characters.  The splitter and
`HandleNextBlock` are in the closed library: blocks are consecutive pieces of one
size, and `HandleNextBlock` completes a line from the blocks that follow.

### Timer (proofs in ReaderAndTimerProofs)

The owner (`Start`, destructor) and the thread, at the granularity of the mutex and the condition
variable.  `wait_for` tests, sleeps, may wake spuriously, reacquires and
tests again.  Time is the action `IntervalPasses`.  The specification of the timer is named
`TimerSpec`, its parts likewise: its proofs share a module with those of the lines.

### ClusterScripts (proofs in ClusterScriptsProofs)

Each script step that is one remote command is one action.  Every ssh is a remote shell, a process of its own: one that
starts a program launches it (`Launch`) and writes its pid (`WritePid`), one that stops a worker reads the pid, kills and removes the
directory, in three steps.  The shells of the workers, of `pstart` and of `pstop`, are run by `pssh -t 10`: at any moment it may
give up waiting for a host (`TimeOut`), and the script goes on.  The shell works on to its end, or was never begun if it has not done anything yet.  No more than
`MaxLeft` such shells are at work on hosts at a time.  The ssh for the master has no such limit and is waited for; the scheduler's
is detached.  Processes that are told to terminate go on for a while (`ending`); those of the services in `Crashing` may die by themselves.
Which file or directory a command removes, and whether `&&` or `;` lets it run, follows the shell text of the scripts.  On the host in `Shared` the
workers' directory is the master's, so that the stop of either removes the files of both.

Two variables are history.  `late` are the hosts that the script at work gave up waiting for.  `mixed` are the services of which nothing
is claimed any more: those for which a script was run while a shell left behind was still at work on them, and those that lost
a pid file, or are about to write one, when the directory was removed on behalf of another service.  Both really go wrong: said of all services, `OnlyOneEach` and
`PidFilesNameProcesses` are violated after two or three scripts.  A `pstart` whose worker's shell is left behind before it launches, and another `pstart` that finds no pid, start
two workers; a shell that a `pstop` left behind before it read the pid kills the worker that the next `pstart` started,
or removes the directory under it; `stop_master` removes the pid file of a worker of the same directory, and `stop_workers` then has
no pid to kill.  The properties say that nothing else does.

Left out: two operators at a time (two masters are then easily started, since every script reads a pid file in one command and acts in
the next); an ssh of pssh that fails or hangs while `pstart` reads the pid files (`pstart.py:91`, which has no `-t`); an ssh to the master that fails; a shell that is cut off half-way
(it is left to its end, since pssh does not give it a terminal and no signal reaches it).

### cpplint: LintText, LintExpressions, LintReports, IncludeState, NestingState, LintBodies, ProcessFile, LintRun, LintClaims, MCLint (proofs in LintReportProofs and LintProofs)

A file is a sequence of lines and a line a sequence of *tokens*: words, spaces, quotes,
brackets and marks of comments.  A token stands for one column, so that positions
and lengths are counted in tokens; regular expressions become conditions on neighbouring tokens.

- `LintText`: from raw lines to what the checks read: `CleanseRawStrings`,
  `RemoveMultiLineComments`, `CleanseComments`, `CollapseStrings`, gathered by `CleansedLines`.
- `LintExpressions`: `CloseExpression` and `ReverseCloseExpression`, which look for the
  matching bracket over lines and must decide whether `<` is one.
- `LintReports`: NOLINT suppressions, filters, what is printed, how it is counted.
- `IncludeState`: the include lists and sections, `CheckIncludeLine`, the header of a `.cc` file, and
  which headers are missing for what a file uses.
- `NestingState`: the stack of blocks, its copies at `#if` and `#else`, and the checks that read it.
- `LintBodies`: lengths of functions, blank lines, braces, semicolons after blocks, empty bodies.
- `ProcessFile`: one file: `Prepare` (everything up to the loop), `ProcessLine` (one turn: all checks
  of a line in their order), `Finish` (what is checked of the whole file).
- `LintRun`: `ParseArguments`, `StartFile` with `ProcessConfigOverrides` and the early returns,
  `EndFile`, `Exit`.
- `LintClaims` states what this should come to from the text alone: a lexer with modes for
  code, comments, strings and raw strings; open braces; lines of functions; nearest directory first.

Paths and headers are records, of which only whole components are told apart; `Headers` gives their alphabetical
order; `NolintComments` what a NOLINT token says.  A check that reports is an operator that returns
a sequence of errors, in the order of the code, since the suppressions in force when an error is
found decide whether it is printed.  The thresholds (`MinNamespaceLines`, `NormalTrigger`, ...) are constants,
smaller than in the code for the runs.

## 3. The runs

| Run | Module | Question | Bounds and why they are enough |
|---|---|---|---|
| `graph` | MCTaskGraph | Are conflicting tasks ordered, the graph acyclic, untracked reads ordered, shard counts equal? | disciplined drivers of 5 tasks and 6 datasets, 1 source, 2 loads, 1 or 2 partitions: a reader, a writer and a reader and writer of one dataset, or a broadcast (4 tasks) with a call before or after.  What drivers may do that do not keep to the rules is proved, not run |
| `exec` | MCJobExecution | Do all schedules give each closure the inputs of a sequential run, without lock contention, and does the job end? | jobs of 4 tasks, 5 with a shuffle, or 6 with a broadcast (4 tasks, so that one loads what it broadcasts and one reads, or shares, what it left), 2 partitions in one process, which share its store; all interleavings of start and finish |
| `shuffle_reduce` | MCShuffleReduce | Is nothing lost, repeated or misrouted? | 2 senders, 2 partitions, 4 records over 4 keys of which 3 share a partition, so that groups move over the remains of others |
| `graph_jobs` | MCGraphJobs | Are the tables aligned, ranks complete, labels passed on, all rounds done? | every directed graph of 3 vertices with any lines missing, 2 partitions, 3 rounds, with partitions a round apart |
| `partition` | MCPartition | Is a partition a vector, in its memory? | up to 3 elements, 3 values, 3 string lengths; all calls with all arguments of that size, so that every rule of growth meets buffers with and without room |
| `line_input` | LineInputFormat | Is every line read once? | files of 0 to 7 characters with any ends of line, blocks of 3: three blocks, a line across all of them, ends of line first and last in a block |
| `timer` | Timer | Is the handler never called early or after the stop, and is the destructor prompt? | 4 calls counted, the counter stays at its bound |
| `scripts` | ClusterScripts | But for hosts given up and services mixed up: one master and one worker per host, named by its file; does stop clean up; does start leave none without a process or a pid? | 3 scripts after each other (start, stop, start), 2 hosts, one of them with the master's directory, crashes of the master and the other worker, one shell left behind at a time, at any moment |
| `scripts_restart` | ClusterScripts | Does a pid in `Scheduler.pid` mean a running scheduler? **No** | 4 scripts, no crashes |
| `components_separate` | MCGraphJobs | Do vertices with one label belong together? **No** | undirected graphs of 4 vertices |
| `lint` | MCLint | Do the checks read the code of a file, keep blocks, includes and functions as the lines have them, and print, filter and count what they should? | about 10600 command lines: single files of every up to 4 tokens or 3 to 4 lines, in one family for each part (quotes and raw strings, brackets, conditionals, blocks, includes, NOLINT), so that a state that one line leaves, another changes and a third reads occurs; runs over up to 2 of 10 files in directories with nested, unreadable and invalid configurations; thresholds of 1 to 3 lines, so that small files exceed them |
| `string_resize` | MCPartition | Does `resize` append empty strings? **No** | as `partition`, without the caller's rule |

`CHECK_DEADLOCK FALSE` is given where the system stops by itself: a driver at
its bound, a job at its end, a file that has been read, scripts that have
been run, a destroyed timer, a run of cpplint.

The properties that say most:

- `ConflictsOrdered` (any driver): two tasks of which one mutates what the other mutates
  or reads with ReadBy are ordered, in program order.  `UntrackedReadsOrdered`:
  so are the reads the dataset is not told of, in a disciplined driver.
- `InputsInProgramOrder`: whatever runs in parallel, what a closure takes out of
  the store is what a run of one call after the other would find, whole and
  not yet overwritten.  `LocksSpec`: refinement of `CellLocks`, for objects that cells and shards share too.
- `GroupsSpec`: refinement of `GroupByKey` for all orders of arrival and all sorted orders;
  `NothingLostOrRepeated` follows each record through the steps between.
- `VectorSpec`: refinement of `Vector` for both kinds of partition.
- `LinesReadOnce`: though readers never talk, the lines they hand out are a
  partition of the file.
- `NoCallAfterStop`, `HandlerPaced`, `DestructorReturns` of the timer.
- `PidFilesNameProcesses`, `StopCleansUp`, `StartStartsOrFindsPid` of the scripts, whatever pssh gives up waiting for.  They speak of processes that
  were not told to terminate; one that was may be alive a while longer.  A pid left by a crash passes for a process, as it does in `pstart`: hence the name of the last.
- `ElidedIsCode`: unless cpplint itself warns, what its checks read is the code that a lexer finds;
  `Opaque` names the four kinds of line where this is not so.
- `FirstBranchesCount`, `BlocksAreOpenBraces`: where directives open and close nothing, the stack of blocks is that of the file
  without the later branches of its conditionals; and where braces and heads of blocks are where they should be (`IsWellBraced`),
  the blocks on it whose brace was seen are as many as the braces that are open.
- `ClosesBack`: where a bracket closes, the search back from there finds it again.
- `UnconditionalIncludesKept`, `OrderWhenSilent`, `FunctionLinesCounted`, `BadCharactersSeen`: silence means what a reader
  of the output takes it to mean.  No small file of the run uses a name whose header it lacks, so that the part of the first about
  missing headers rests on the theorem (`UnconditionalIncludesAreKept`).
- `NolintSilences`, `CountsAgree`, `FiltersAreOwn`: what is printed is what NOLINT and the directories of the file let
  through, whatever files came before, and it is what is counted.

Each property of a passing run has a plausible bug (a definition named "Mutant of ..."
beside the one it replaces) under which it fails.

### Fairness

- `exec`: some ready shard is started and some running closure finishes (weak
  fairness of "any start" and "any finish", not of each): the least a cluster that
  works does.  Shards are finite in number, so that all are reached.
- `shuffle_reduce`, `graph_jobs`: weak fairness of the next step, which is finite work.
- `timer`: both threads run and the handler returns.  Locking by the owner is strongly fair:
  the thread releases the mutex for an interval in each round and the system's
  mutex is taken to be granted eventually.  The interval itself is *not* fair, so that
  `DestructorReturns` says the destructor does not wait for it.
- The other runs check safety only and have no fairness.

## 4. What the checks found

- **`scheduler.py:65`** never removes `Scheduler.pid`: `res=$(ps ...) && if ...` takes the exit
  status of `ps`, which fails exactly when it prints nothing, and the `rm` is under the `if`.
  The next start answers "Scheduler already started".
- **`connected_component.cc:137`** applies the update of the next vertex that has one when a
  vertex has none: the key is not compared.  Vertices that are not connected get one label.
- **`string_partition.h:118`**: `resize` to fewer strings leaves the offsets; what is appended
  afterwards shows the strings cut off before, in part or whole.

Seen while modelling, without a run of their own:

- `dataset_partition.h:493`: `resize(size)` on a class type sets nothing, though its comment
  says "append size - size_ entries with 0"; after a smaller size the old elements come back.
  `Vector` lets such a resize append any value.
- ConnectedComponent sends labels only to larger ids (`:111`).  On the path 2 - 4 - 3 vertex 3
  keeps its label, so one component ends with two labels.
- `pstart.py` followed at once by `scheduler.py --start=1` can start two schedulers,
  since the first is launched in the background and its pid is written later.
- `UpdatePartitionWith(&self)` makes a task that waits for itself.
- `dataset.h:240`: a broadcast of no records puts an empty partition into each shard's own cell, and the fetch (`:254`) looks into slot 0.  On a
  process that does not run shard 0, or has not run it yet, it gets a null pointer, which is dropped with a warning; the next closure to read the result
  dereferences null.
- `pstart.py:116`, `pstop.py:45`: what `pssh -t 10` leaves behind can start a second worker or undo a later start, and a worker
  whose directory is the master's is not stopped by `pstop` (section 2, ClusterScripts).
- `pstart.py:60`, `:97`: a service that crashed is not started again as long as its pid file is there.
- `kmeans.cc:175` divides by the number of the cluster, not by its count.
- cpplint, about NOLINT, filters and counts: an error about a line ahead of the one that is read is printed whatever
  NOLINT that line has; an unknown category of a NOLINT on the `#ifndef` or `#endif` of a header guard is reported
  twice (`:1779`, `:1784` and again `:5478`); `linelength` of one `CPPLINT.cfg` stays in force for the files
  after it, and that of an outer directory overrides the inner one (`:5671`, while filters go the other way,
  `:5681`); of several `filter=` lines of one `CPPLINT.cfg` the first has priority (`:5682`);
  a filter without a sign raises an error instead of the message about usage (`:859`).
- cpplint, about text: an unterminated comment is reported one line too far (`:1320`, the lines already have their
  marker); bad characters in `/* */` are not seen though the comment at `:5610` says raw lines are
  checked; quotes in a comment of the form `/* */`, code behind the end of a comment over several lines, and `/*` at the
  start of a line of a raw string mislead it.
- cpplint, about structure: `#else` empties the list of the last `#if`, not of its own, so that with nested conditionals a header
  may be reported as included twice (`:711`); third-party headers are never entered, so that
  their duplicates are not; `InTemplateArgumentList` is called with a position in the whole line where some of the
  line has been cut off (`:2489`); lines of assembly are not counted in functions (`:5481`); `last_line` of
  a class is a guess by counting braces (`:2110`).

## 5. What is proved

Machine-checked, for every value of the constants under the assumptions named in the modules
(`TaskGraphAssumption`, `TimerAssumption`, `ScriptsAssumption`, `FilesAssumption`, `CommandsAssumption`,
`ConfigAssumption`, `RequiredAssumption`, `NestingAssumption`, `PartitionAssumption`, `StringAssumption`, `GraphJobsAssumption`, `ShuffleAssumption`: bounds are
natural numbers, parallelisms are positive, hosts are finite in number and not called Master, files are lines of tokens, their paths sequences of directories,
filters are records of a sign and a prefix, what may be required of headers is finite in number, the unset value is no value, strings are sequences of characters, senders are finite in number, keys and hashes are natural numbers, and the ids of an input are finitely many natural numbers).

**TaskGraph.**  `GraphInvariant`: `Spec => []Inv(graph)`.  `ConflictsOrdered` alone is not
inductive: the call that adds a writer relies on what the fields remember of calls
long before.  `Inv` adds: the graph is well typed; ids not yet given out have no
edges, accesses or precedences; every mutator of a dataset reaches its `write_precedence_`;
every tracked reader is in `read_precedence_` or reaches the write precedence; readers
in the field, and the untracked readers of a disciplined driver, are reached from it.
Reachability is stated without recursion (b is in every edge-closed set that contains a) so
that the provers can use it; `ReachesTrans`, `ReachesEdge` and `ReachesMono` are the three
facts about it.  The proof has one lemma per C++ method (`LinkInv`,
`SetProducerInv`, `ReadViaInv`, `WriteByInv`, `ReadDataInv`, ...), one per API call that
composes them, and one for `Next`.  Corollaries: `GraphTypeOK`, `GraphPrecedence`,
`GraphOrdersConflicts`, `GraphOrdersUntrackedReads`: TypeOK, PrecedenceInv, ConflictsOrdered and
UntrackedReadsOrdered for all drivers and all sizes.  The run `graph` has disciplined drivers only; that
the first three hold for drivers that do anything is what these theorems add to it.

The second part of `JobProofs` has an invariant of its own, `GraphLayout`: `Disciplined` implies `Spec => []Layout(graph)`.
Calls link tasks through what a dataset names, so it is about that.  `Old`, `Forward`: datasets name only tasks that
exist, so that the task a call links to them is newer.  In a shuffle, which creates its tasks first and its datasets
afterwards, this is an argument about each intermediate graph, and in `UpdatePartitionWith` it needs the discipline.
`WritersAlign`, `ReadersAlign`: the producer or last writer of a dataset has its parallelism, and so have the readers of a
dataset the driver holds; zipping two datasets is the call that needs the discipline here.  Of the messages of
a shuffle, which the driver never holds (`Hidden`), only the writer has: the network task that reads them
need not.  `NetworkEdges`, `NetworkData`: one task on the CPU sends to a network task, through dependencies of
the two communicating types, which no other task has.  Corollaries: `GraphEdgesForward` and `GraphShardsAlign`, the
properties EdgesForward and ShardsAlign.

**JobExecution.**  Under `Disciplined`, for every driver, number of partitions and order of execution:
`JobInputsInProgramOrder`, `JobImplementsLocks` (the refinement `LocksSpec`), `JobNeverClashes` and `JobNeverStuck`.
The invariant is `Built`, what the invariants above say of the graph, with `Waited` (what has started has seen
all it waits for done), `LastWriter` (the last writer of a cell is done, and no writer that is done comes after it), and
`Stored` and `Held`, which say what objects a cell may point to and a closure may have.
The graph orders *tasks*; closures run by *shard*, and `Async` dependencies order only the shards of one number.
`PathWaits` bridges the two, without induction over paths: the set of tasks of which everything that starts
waits for all shards of t (`BehindAll`) or for the shard of its own number (`BehindOne`) is closed under the edges, so that it
contains whatever t reaches.  From it, `Conflicting`: of two closures of which one writes a partition that the other names, the one of
the earlier task is done when the other starts.  `ProgramOrder` then follows with `LastWriter`, since
nothing between can have written the cell.

A broadcast is where this does not suffice: its shards of different numbers, which nothing orders, write one cell and use one object.
`GraphLevels` says of every graph of a disciplined driver that nobody but the fetching task reads what is at process level, and nobody
updates it or what the broadcast returned.  From it, `CellsApart` (only cells at process level are shared by partitions), `EarlierWriter` (whichever shard
wrote such a cell last was of the one task that makes it), and with `Stored` and `Held`, that an object at process level was made by a closure that
is done before any other has it: a shard that is late replaces the pointer, never the object.  So `JobNeverClashes`: no object is held by two closures of which one changes it.
The refinement follows, because a closure that starts finds no
lock it needs taken (`LockStep`, one step per action); and `JobNeverStuck`, because the closures of the
least task that is not done (`EdgesForward`) have nothing left to wait for.

**ShuffleReduce.**  `NothingLost` (NothingLostOrRepeated) and `ShuffleImplementsGroups` (GroupsSpec, the refinement of `GroupByKey`),
for any senders, partitions, keys, hashes and records, any order of arrival and any order of records with equal keys.
Neither property is inductive: that a result is right depends on what the closures do with sequences whose
origin it does not mention.  `ShuffleInvariant` says of every sequence of records which ids it `Carries`: each id of a set in exactly one of the records, whose key is
that of the id, each record made of ids of that set, each once.  The partition of a sender carries its own ids
(`InputCarries`), a message those that go to its destination (`MessagesCarry`), a message that was received the same until it is read and nothing afterwards
(`ReceivedOnce`, which also has that no sender's message is received twice), a result all ids that go there, in single records or one per key
(`ResultsCarry`).  Each closure has a lemma of that form: `RoutedCarries`, `SortingCarries`, `CombinedCarries`, `FlattenCarries`, `ReducedCarries`.
The two loops that merge in place have invariants of their own.  At the start of turn i the sender's has written the finished groups
and holds the open one at `cur`; the reducer's has them in front, up to `count`, which is below `cur`, so that no turn
overwrites what is still to be read (`CompactTurn`).  Runs of the loops are treated by `LoopRuns` and `LoopKeeps`, described under Partitions.
`NothingLost` then is that every id has one home (`HomeExists`), by whether its sender has run, its message was received and its
destination has read it; the refinement, that a sequence which carries the ids of a partition, in single records or in ascending ones, can be nothing but the
content that `GroupByKey` states (`ContentIs`).

**Timer.**  `TimerInvariant`: the mutex is held exactly at the places of the code that hold it;
the flag is false exactly from the owner's store on, and a thread past its test
while the flag is false cannot be at the handler, because the store needs the mutex;
the intervals passed match the phase of the thread.  Corollaries:
`TimerNoCallAfterStop` and `TimerPaced`, for every bound on the calls.

**ClusterScripts.**  `ScriptsInvariant`, under `OneOperator` (one terminal), for any hosts, scripts,
crashes and shells left behind.  `OnlyOneEach` is not inductive: the scripts see pid files, not processes, and shells act on what they read
when the script that sent them is long gone.  `AllInHand` says of each service that is not mixed up that it has one shell at
most, what that shell, at its step, can rely on (`Knows`: one that is to launch, that there is neither file nor process; one that is to write
a pid, that the only process is its own; one that is to kill, that the file still has the pid it read), and if there is
none, that the only process that may be running is the one in the file.  `Awaited`: a script waits for its own shells only, and none
of the master is ever left behind.  `MasterStopped` and `WorkersInTurn` say what `pstop` has done away with at each label, on the hosts it did not give up.  `ScriptsApart` is what the label says of the script.
The step that takes most work is `RemoveDir`, which may remove the file of another service: that one is mixed up from then on.
The scheduler's shell is detached, and nothing is claimed of its file.  Corollaries:
`ScriptsTypeOK`, `ScriptsOnlyOneEach`, `ScriptsPidFilesNameProcesses` and, of the step in which pstop returns,
`ScriptsStopCleansUp`.

**LineInputFormat.**  `LineInputInvariant`, for files and blocks of any size and any number of readers.  The line
that starts at s > 0 belongs to the block that holds the end of line before it, and the first line to the first block: to one block
each, because blocks are multiples of the block size (`BlocksApart`, `BlockOf`) and no two readers take the same.
A line is pending while its block is not taken or its reader stands before it; `Read` says that the
lines that are not pending are those that were executed, once each, and nothing else was.  `LinesReadOnce` alone is not inductive: it
does not know which lines are still to come.  Corollaries: `LineInputReadsLinesOnce` and `LineInputTypeOK`.

**cpplint.**  For all command lines, files of any text and configurations of directories.  `FiltersAreThoseOfTheFile`: the filters in force
while a file is read are `FiltersWith` of those of the command line and of the file's own overrides; `FiltersAreRestored`:
outside of files they are those of the command line.  The invariant of both, `Inv`, says which list is kept for the end of the file,
on every path (no configuration, an excluded file, one that cannot be read, a filter that raises an error).  The length of lines is not
restored (section 4), which is why it quantifies over it.  `FiltersAreTheFilesOwn` (FiltersAreOwn) then is about what these filters do:
`SaidBy` relates the lists collected from the options of some directories to the nearest of their options
that speaks of a category, and is an invariant of the loop over the options of a directory (`AfterOptions`) and of that over directories
(`AfterDirectories`, with `HeardBelow` the options consulted so far); `ConcatDecides` says which of two lists behind each other decides.

`NolintsSilence` (NolintSilences) and `CountsAgreeWithPrinted` (CountsAgree) are about what `Error` does while a file is read, with
the invariant `ReportsInv`.  Neither property is inductive.  NolintSilences speaks of errors printed, and not of the suppressions that stop the next:
`NolintInv` adds that the NOLINT of each line read so far is `Noted` in them, and each error a check reports must have one of the
categories that NOLINT knows, since of others it takes no note.  So all checks are gone through, to `IsErrors` of what they return;
their operators take positions in lines and the stack of blocks apart, which is defined only if these are what they should be.  Therefore
`TextIs`: from any lines, with quotes, comments and raw strings closed or not, `CleansedLines` makes as many lines of tokens;
`UpdateIs`: after any line the stack and its copies at `#if` and `#else` are sequences of blocks (`NestingStates`).
Both go through the loops of the code turn by turn; that of `CollapseStrings` jumps ahead (`JumpsRun`).
`CountsInv` says that the counts `Agree` with the errors of the files done and of the one being read, in the way to count that
the command line chose; `CountedNext` is the step for one error, `ReportIs` the loop over the errors of a check, and `FoundNext` the end of a file.

`FunctionLinesAreCounted` (FunctionLinesCounted), `SilenceMeansOrder` (OrderWhenSilent) and `UnconditionalIncludesAreKept`
(UnconditionalIncludesKept) compare what cpplint carries from line to line with the lines read.  Inside a block of assembly most checks and
both states pass a line over, so that all three are about texts without the word (`NoAssembly`, of the lines read); the first thing to
prove is then that the stack never says assembly without it, whatever blocks `#if` and `#else` copy back (`NotPassedOver`).
`FunctionInv` is the count itself, `IsAsLong`, with the fact that no line of the body is a lone brace: a function that has
ended is one whose brace was seen, or its count would go on.  The look ahead for the body (`JoinedIs`) is a loop over lines.
OrderWhenSilent is not inductive: it does not know the section.  `OrderInv` adds `SectionReached`: the
section is not before that of any header entered since the last directive, and at the line behind a header it is the one that a second
header of that type stays in, with the header's place in the alphabet kept as the last.  A header that moves
the section back would have been reported (`InSection`, `IncludeRead`).
UnconditionalIncludesKept is not inductive either: that a header is found says nothing of which list has it, and `#else` empties the last.
`KeptInv` says that the header of an include outside of all conditionals is held in a list that is *not* the last one while a
conditional is open (`IsHeld`).  `ListsGrowOn` is what a line does to the lists, `OpenConditionalsAre` what it does to the
conditionals; between them only a directive that closes what was never opened could reach the list (`IsBalanced`,
`StaysOpen`), and a header that is held is not entered again.  `UsesInv` follows what is said of missing headers
to the uses it is said of, at the end of the file.

`BadCharactersAreSeen` (BadCharactersSeen) is about the text and not about the run: what cpplint takes for a comment over several lines,
by the ends of lines only, must be inside one for a compiler that reads every token.  `ClearedAreComments` goes through the lines: while
cpplint has a comment open, the next line begins in the mode `block` (`LineStart`); inside a line, `CommentGoesOn` and `CommentBegins` go through the
modes of `Lex` token by token.  The proof showed an error in the claim: in a line like `*/ x /* y */`, from inside a comment, cpplint clears the
`x` as well, which `Opaque` did not say; such a line is in the run now.  `BadInv` is what remains to be said of the run.

`FirstBranchesAreCounted` (FirstBranchesCount), for texts without assembly too, compares the stack of blocks with the one that the lines
`Taken` make, of which there is a set for each line reached.  What is taken of a conditional that is still open changes at `#else`, so the stack alone says too
little: in `BranchInv` the stacks saved for each open conditional are those of the lines taken up to its `#if` and, once it has an
alternative, up to the first one (`AreSaved`).  The lemmas say of each directive which lines are taken from then on
(of `#else` those before its `#if`, of `#endif` those before the first alternative), that nothing between changes, and what `Update` does to the stacks
saved.  A directive's own line goes through `Update` as well, after its conditional was dealt with.  Hence the premise that directives leave the stack
alone (`IsQuiet`), and without it the property is false: in `#if defined(X)` between the head of a class and
its brace, the `)` takes the head off the stack, as the end of a template's parameters would.  In a block of assembly the line would change the block's
own state, which is why there must be none.

`BlocksAreTheBraces` (BlocksAreOpenBraces) needs no such premise on assembly.  It counts blocks, and to be inductive it must also say where
the block without a brace can be: `AreBraced` says of a place in the text that only the innermost block may lack its brace, that it does so only behind a
head with nothing after it that ends one (`IsPending`), and that the others are the braces open there.  It is carried through a line
in the order of `Update`, from the begin of the line over what `PushNamespaces` and `PushClass` take off it (`AreReady`, `BracedNamespaces`,
`BracedClass`) to the tokens that are consumed (`BracedConsume`).  A class that is the parameter of a template is no head, and that
cpplint takes none for one is part of `ClassNameHas`.  The proof showed that the claim as it stood, which asked
only for the next end behind a head to be a brace or a semicolon, was false: of `class A` / `namespace B {` / `}` within a block, where nothing opens the class,
A is what the end of the block around it takes off the stack; and of `namespace A; } {` on one line the `}` is lost, since a namespace goes to the next
brace of its line whatever is between.  `IsWellBraced` now says both.

**Partitions.**  `PartitionStaysInside` (ElementsInside) and `PartitionIsVector` (VectorSpec), for any values, strings, sizes and
sequences of calls.  The inductive invariant is `Inv`: `Holds(This, Elements)`, that the elements were set and lie inside
the capacity and the buffer, for a partition of values, and `Packed(S!Elements)` for one of strings.  `Packed` says more than ElementsInside: each string lies between
its offset and the next, and the list of offsets has no more than `size + 1` of them unless the last call was a resize.  Without
that, `push_back` would write behind offsets that nobody reads any more: ElementsInside is not inductive, and with
a caller that appends then (`AppendsToShrunk`) neither theorem is true, as `string_resize` shows on one string.  Both
theorems therefore have the hypothesis `~AppendsToShrunk`, the rule of the careful caller, which the run `partition` has too.
There is one lemma per call (`InsertLeaves`, `StringSliceLeaves`, ...), from the fields before to fields
that hold the elements `Vector` allows.  Loops are treated by `LoopRuns` and `LoopKeeps`: the set of turns up to which the invariant of
the loop holds has no least number missing (`Steps`), which is induction without an operator parameter.  The invariants of the loops
are `FilteredTo` (the elements kept so far are in front, those not looked at yet where they were) and, for strings that are moved within their
own characters, `FilteredStrings`, with the write position never beyond the read position.

**GraphJobs.**  `EntriesStayAligned`, `RanksAddUp` and `LabelsSettle` (the properties EntriesAligned, RanksComplete and Settled), for
any graph, number of partitions and of iterations.  The invariant `Inv` has six parts.  `Shaped` and `InStep`: a partition
sends once in an iteration, not before its own table is ready, and whatever has been reduced was received from all.  `Summed`:
in PageRank every partition sends the same `Shares` in each iteration, since the walk finds for a vertex its own rank; a table has an entry for
each id of the partition that has a line, and after the first reducer for each that has a share too (`Indexed`, `RankIds`).
`Labelled` says so of ConnectedComponent, with what reducers have delivered and closures have yet to apply.  None of the
three properties is inductive: RanksComplete is about tables only, and what a reducer makes of an iteration depends on what was sent by
partitions that were in an earlier one than others are now; Settled does not say why a
neighbour's label is as low.  `Spread` and `Lowered` do, from the records: the label of a vertex that is not new was sent in an
iteration that is done, and no label is above one that came for it.  That one label may be lowered
by an update of *another* vertex (section 4) harms neither: they say that labels are low enough, not why.
The lemmas about data are `EntryFound` (in an ascending table that has an entry for an id, the walk finds it),
`AscendingSorted` (a finite set of numbers has an ascending sequence, by `Steps` over its size) and `ReducedIs`.
`NotAllWait`: until all iterations are done, some partition may send, reduce or apply, namely one that is least far, or one whose
message it waits for.

**Model-checked only.**  Liveness (`JobFinishes`, `AllIterations`, `AllPartitionsAppear`,
`DestructorReturns`), which the prover does not treat under fairness; `JobNeverStuck` and `NotAllWait` are the parts of `JobFinishes`
and `AllIterations` that need none.
`StartStartsOrFindsPid`.  Of cpplint: `ElidedIsCode` and `ClosesBack`, which
compare what it makes of a text with a second definition by recursion over the same text, so that what the two compute would have to be
proved equal by an induction of its own for each regular expression: the proofs say of these parts only that what they
compute has the form that the next part relies on.  And `TypeOK` of `LintClaims`, since no prover here knows that a given
string is in STRING.

## 6. Plan

1. (done) task graph, its invariant proved; execution on top of it; shuffle; timer; scripts;
   graph jobs; line input; partitions; cpplint.
2. Extend: null flags (`partition.h`) and shared slices of partitions; broadcasts of
   no records and message partitions in the data store, with `RemoveData`; copies of dataset handles;
   the drivers of `lr.cc`, `kmeans.cc`, `word_count.cc` and `read.cc` as programs over
   `TaskGraph` with what their closures exchange; the submission script with its reports;
   `InputBlockInfoCache`.
3. Prove: (done) the task graph's order and its shards, the execution of jobs and its refinement of
   `CellLocks`, the timer, the scripts, the lines of a file, the filters, the NOLINT comments and the counts of cpplint, that partitions stay
   inside their memory and refine `Vector` call by call, the tables of the graph jobs, the shuffle and its refinement of
   `GroupByKey`, the lengths of functions the include lists and sections of cpplint, and its stack of blocks
   against the first branches of the conditionals.  What is left is under *Model-checked only*.

New runs replace or join existing ones where they ask one question: two kinds of partition share
`partition`, both graph jobs `graph_jobs`, all single-operator histories `scripts`.

## 7. Not modelled

- `Dataset::LocalAggregate` (`dataset.h` 176-195): does not compile when instantiated; no caller.
- The job simulator, the job driver and the sharding classes: glue around classes whose
  headers or bodies are in the closed libraries.
- Resource packs and requests, worker information, task descriptions, loggers, `BinStream`:
  value types, serialisation and output without a protocol of their own.
- ORC, HDFS and NFS input beyond the line reader: declarations and I/O.
- Of cpplint the checks that read one line and keep no state (spacing of operators, parentheses and commas, casts,
  references, printf, CHECK macros, redundant `virtual`, make_pair and the like), the output formats and `--root`.
- Of the checks that are modelled three branches: the digit separators of `CollapseStrings` (`cpplint.py:1411`), the exemption of a call with a
  lambda from the warning about bodies without braces (`:3594`), that of a brace below a line of 79 columns with `[]` (`:3524`).  No token, and no property,
  tells them apart.
- `lint.py` and `clang-format.py` run a program over the files that `find` lists and do not look at its status; `check_stat.py` prints a
  process listing; CMake files: no state.
- The lifetimes of C++ objects (closures that capture by reference at `dataset.h:108` and `:356`,
  pointers into a reallocated vector) and the data race on `SetHandler` (`timer.h:57`): undefined
  behaviour, about which no property could hold.
- Two operators who run scripts at the same time.
