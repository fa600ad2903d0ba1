# infra.lua in TLA+

infra.lua is a C library for Lua programs: it starts programs and exchanges
data with them, keeps ordered maps, parses arguments, and has a number of small
functions for files, paths and strings. This directory models the parts in which
something can go wrong that a test would hardly reach, checks them with TLC and
proves the most important results with TLAPS. Line numbers are those of the
repository; `PROJECT.json` maps every definition to its lines.

## Inventory

| Component | State | Operations | Talks to | What is hard |
|---|---|---|---|---|
| `function/execute.c` | userdata: six pipe handles, process id, input left, output so far | `infra.execute`, `__gc` | exec, pipe | a program that runs on its own; partial writes; the drain after its end; release of everything on every error path |
| `utils/exec.c` | none between calls | `infra_exec`, `infra_waitpid` | pipe, kernel | fork and exec with a status pipe; the failure of a child; timeouts |
| `utils/pipe.c` | descriptors | open, close, read, write | kernel | nonblocking ends, inheritance, end of file, SIGPIPE |
| `utils/compat_sys.c` | none | error numbers to codes and texts | all | `abort()` for whatever is in no table |
| `utils/map.c` | root, size; the tree is in the nodes | insert, erase, find, lower, upper, iteration | a comparison callback | rebalancing after long histories |
| `function/map.c` | userdata: tree; nodes on the heap; references in the Lua registry | `make_map`, insert, replace, erase, find, size, pairs, `__gc` | utils/map, compare, Lua | a comparison that raises; changes under a loop; exact release |
| `function/compare.c` | none | `infra.compare` | metamethods | an order over all Lua values |
| `function/argparser.c` | a list of options, their references; the parse under way | `add_argument`, `parse_args`, help | list, Lua callbacks | options half defined after an error; state from call to call |
| `utils/list.c` | head, tail, size, links | push, pop, insert, erase, migrate | argparser | links at both ends; migrate |
| `function/range.c` | start, stop, step | index, iteration | Lua | step 0 and overflow |
| `function/split_line.c`, `merge_line.c` | none | scan and concatenate | Lua | three line ends mixed |
| `pairs.c`, `dump_*.c`, `basename.c`, `dirname.c`, `cwd.c`, `exepath.c`, `readdir.c`, `readfile.c`, `writefile.c`, `man.c`, `strcasecmp.c` | none | one call each | system, Lua | error numbers; recursion |
| `infra.lua.c`, `function/__init__.c`, `utils/compat_lua.c` | none | registration, stand-ins for old Lua versions | all | little |

How they interact: `execute` owns the pipes and the process and calls `exec` and
`pipe`; the program at the other end acts concurrently with every line of it. The
map object calls the tree, the tree calls the comparison back, the comparison
calls Lua, and Lua may raise: a longjmp out of all of them. The collector calls
`__gc` of either userdata at any time after its last use.

The hazards this leads to are listed, each at its line with the properties that
watch it, in `PROJECT.json`.

## Modules

    Pipe <- Exec <- Program <- Execute <- MCExecute
                                  |    <- ExecuteProofs <- ExecuteFlowProofs
                     ProgramRun <-+
                     (implements)
    RbTree    <- MCRbTree                    RbTree implements OrderedMap
              <- RbTreeShape <- RbTreeProofs
    LuaMap    <- MCLuaMap, LuaMapProofs      LuaMap implements LuaDict
    List      <- MCList, ListProofs          the calls of List are those of ListSeq
    Argparser <- MCArgparser, ArgparserProofs
    Binary    <- Compare, IntegerRange
    Compare, IntegerRange, Lines, CommandLine, EnvBlock, SearchPath, TimedWait
              <- Utilities <- MCUtilities, UtilitiesProofs

### Running a program

**Pipe** is the POSIX half of `utils/pipe.c` over a model of kernel pipes: `open`
is the set of descriptors (process, pipe, end), `flags` what is set on them, `buf`
what the pipes hold. Data moves in blocks; a write moves as many as fit.

**Exec** is `infra_exec` and `infra_waitpid`, one action per system call: the pipe
with CLOEXEC ends, the fork, the close of the writer, the blocking read that tells
success (end of file) from failure (an errno), the wait for a child that failed.
Parent and child interleave. `Abort` is `abort()`: a pc of its own, with the
reason in `cause`, which also says why a call was given up before it began. The timeouts of `infra_waitpid` are nondeterministic here: a poll
finds the program ended or not. The clock is in **TimedWait**.

**Program** is the other side, external to the repository: a program that reads,
writes, exits, is killed, leaves a descendant with its descriptors behind; or one
of the echo servers of the test program. `written`, `consumed` and `atEnd` are
history variables that properties speak about.

**Execute** is `infra.execute`: the options, the three pipes, the start, the loop of
waiting, feeding and draining, the last drain, and the collector (`Gc`, `GcWait`). A lack
of memory may be raised in the copying of the options (`Options`) and wherever the code asks
Lua for memory during the exchange. **ProgramRun** is what it promises: one step that returns, after the
program's end, at least all that the program had written by then.

### The map

**RbTree** is `utils/map.c`. The pointers of the nodes are the state; an action is
one iteration of a loop, so that the loop invariants written in the comments of the
code are invariants of the model (`RedRule`, `BlackRule` state how far each loop may
break the rules, and where; `IsRedBlack` is all the rules together). The code writes each case twice, mirrored; here the
side is a parameter. **OrderedMap** is what `map.h` promises: a set of nodes, no two
with one key.

**LuaMap** is `function/map.c` over that promise: `tree` is a set of nodes, its order
that of the keys the nodes' references lead to in the registry. Each Lua call is
one action, since no Lua code but metamethods runs inside it, but the steps of a loop
`for k, v in map:pairs()` are actions between which the program may do anything with
the map. A comparison may raise on the way to a key; it must if a neighbour of a key
that is not there is not comparable with it, since every search comes by both.
**LuaDict** is the help text of `make_map`: a dictionary. References, nodes and
registry do not show in it, nor does what an error has lost.

### The list

**List** is `utils/list.c`. A call is a function from one memory (the headers of the
lists, the links of the nodes) to the next; the actions are the calls a program may
make, since the nodes and the rule that each is in one list at most belong to the
caller. **ListSeq** is `list.h`: a sequence for each list. `CallsAreExact` relates them
call by call, which says more than a refinement of `ListSeq!Spec` would: no call does
what another promises.

### The argument parser

**Argparser** is `function/argparser.c`. `opts` is the list of options, `refs` the set of
the references they hold, each named by the option's position and the field. `add_argument` is one action: the option is appended first,
then its fields are read in the order of the code, and the first that is refused
(`refused`) leaves it half defined. `parse_args` is one action per word; `opt` and `narg`
are the two fields of its helper, `ret` the table it fills. When the action or the type
of an option is a Lua function, `pc` is "callback" after the word: the function may add
options, and may raise. How a word is cut into a name and a value attached to it
(`-xVALUE`, `--x=VALUE`) is the constant `Split`. `format_help` is modelled by what is in
the text, not by its wording.

What a parse means is stated a second time without `opt` and `narg`: `HeadOf` groups the
words, each with the one that names its option, `Values` and `Collected` say what the
options get from their groups. `ReturnsWhatWasSaid` and `RaisesForAReason` compare the two.

### Calls without state

**Utilities** makes one call of one of these, for every input it is given:

- **Compare**, `infra.compare` as a function of two abstract values and of what their
  metamethods answer. Integers are rounded to the mantissa of `lua_Number` before they
  are compared, as `lua_tonumber` does.
- **IntegerRange**, `function/range.c` with integers of `Width` bits that wrap around. (Both
  take powers of two from **Binary**, a function where the prover has no facts about `^`.)
- **Lines**, `split_line` and the part of `merge_line` for tables.
- **CommandLine**, **EnvBlock** and **SearchPath**, what `utils/exec.c` computes to start a
  program on Windows: the arguments in one string, which the C library of the program
  reads again (`ParsedArguments`, external); the environment block, for which the host's
  variables are read twice and may change in between, and which may fail (`Failures`); the
  search in PATH, over tokens instead of characters.
- **TimedWait**, `_infra_waitpid_timed` with its clock. It is a call of many steps: time
  passes (`Tick`) and the program ends between any two of them. Errors of the clock and of
  waitpid abort (`Fail`): where SIGCHLD is ignored there is no child to wait for.

## Runs

| Run | Instance | What it shows |
|---|---|---|
| `echo` | echo servers, and free programs with orphans; 5 blocks, pipes of 2, reads of 1 | `InputIsFaithful`, `FilterIsEchoed`, `ExecTellsTheTruth`, and the liveness properties `CallEnds`, `CollectorEnds` |
| `free` | any program, 2 blocks of output, 1 of input, pipes of 1, orphans, interrupts | `HandlesAreOpen`, `OutputIsFaithful`, `EofAfterInput`, `ReturnsAllOutput`, `WaitsOnce`, `NothingLeft`, `ImplementsProgramRun` |
| `start`, `sigpipe`, `killed` | one block | three violations: see Findings |
| `rbtree` | 9 nodes, two with the same key, in any order; 31 keys, filled upwards or downwards, then erased from either end | `IsRedBlack`, `SearchesAnswer`, `CallsEnd`, and the refinement of `OrderedMap` |
| `maps` | plan "loops": 4 keys, two of them equal, 4 nodes; plan "errors": 3 keys, two not comparable, one error, 3 nodes | loops under change (`LoopsAreExact`), registry and heap exact after an error, the refinement of `LuaDict` |
| `list` | 2 lists, 4 nodes, every sequence of calls | `LinksAgree` in both directions, `CallsAreExact` |
| `argparser` | 2 options out of a set with every kind of action, type, `nargs` and refused field, 4 words | what a parse returns is what the words say; every error has a reason; the registry is exact |
| `gather` | the same, smaller | a violation: see Findings |
| `utils` | see `MCUtilities`: 3 values out of 17, all ranges over 4-bit integers, texts of 5 bytes, arguments of 4 characters, 2 given and 2 required variables, PATH of 2 elements | `OrderIsRight`, `RangeIsRight`, `LinesAreRight`, `ArgumentsComeBack`, `EnvironmentIsComplete`, `SearchFinds`, and of the wait `TimeoutIsTrue` and `CallReturns` |
| `equal` | the same | a violation: see Findings |

Why the bounds are enough. `echo`: five blocks are more than the two pipes and the
filter between them hold, so the host meets full pipes on both sides and must go
round its loop. A free program writes one block there, and its orphan may be the one
that does. `free`: one block in each pipe and two of output make every read and
write both succeed and fail. `MaxOut` bounds what a free program writes, `Cap` the
pipes. `rbtree`: with nine nodes of eight keys every case of both loops and
every mirror image of it is taken at the leaves, after every history, but the erase
loop never climbs. That is what the second plan is for: 31 keys filled upwards or downwards and
drained from both ends take each of its cases above the leaves as well, on both
sides, and recurse through three levels. The nodes are a bound of the model only.
`maps`: with three ranks there are keys
before, at and behind the loop; one error (`MaxRaises`, which only the plan "errors" has)
leaves a node, a reference or a node with one reference only (`LosesHalf`) behind, and all
calls go on from there. The nodes and the registry are
bounds as well: `Room` and `FreeRefs` guard the calls that allocate, and a call that
gets no memory before anything has happened is `OutOfMemory`. One value is enough, since `LuaDict`
tells the keys apart that are equal (2 and 4). `list`: of four nodes one is the
first, one the last, and two are between them; each can be in either list. `argparser`: with two options one can be added by a callback while
the other is parsed, be half defined, or shadow the other; four words are the name
of an option with `nargs` 2, its values and one word more. `utils`: the integers, clock and
mantissa are scaled to a few bits or units so that every boundary is near (`Width`,
`Mantissa`, `MSEC_PER_SEC`, `NSEC_PER_MSEC`); the deadlines lie within, at and over the carry
to the next second. `LastTime` bounds the clock, and is later than every deadline
(`LastTimeAssumption`). Five bytes hold every pair of line ends with text between;
four characters every order of blank, quote and backslashes at the end of an argument.

Deadlock is checked in every run; `Stopped` and `Gone` are the states in which
nothing is left to do.

### Fairness

`Execute!Fairness` gives the host and the program the processor, each as a whole
(`WF`): the host is one thread that sleeps only in blocking calls, and those are
not enabled in the model while they block. Nothing is assumed of signals, orphans
or programs that stop reading. `CallEnds` has a premise, `OutputIsFinite`: that the program
and its orphan do not write for ever. The code needs it, for the loops that drain a pipe end
only when there is no data, and somebody who always has more to write keeps one going even
after the program has ended. Given that, the call does not wait for an orphan that merely
holds the pipes. In the run `MaxOut` makes the premise true. A free program under this
fairness does something while it can, and ends when it has nothing left to write: the code
waits for a program without a limit, so without this nothing could be said. `RbTree!FairSpec` only says that a call that has
begun goes on. `TimedWait!TimeFairness` says that time passes and that the thread which
waits is scheduled; the program need not end, so `CallReturns` rests on the deadline.

### Findings

- `start`: with options, a program that cannot be started takes the calling process down
  (`abort()` in `infra_strerror`, which has no text for the system's error codes), where
  `infra_push_error` is to push a text for such a code.
- `sigpipe`: a write to a program that has just ended is fatal (SIGPIPE or `abort()`),
  where `pipe.h` promises a negative result.
- `killed`: the exit code -1 of a killed program is overwritten with 0, and
  `infra.execute` returns true.
- `equal`: two integers above 2^53 that differ are reported equal, where the help
  says that 0 means equal values.
- `gather`: several values of one option (`nargs` N, '+' or '*') are not gathered into a
  list, as the help says; each replaces the one before it, unless the action is "append".

The models show more that has no run of its own:

- `infra.execute(file)` without options, which its synopsis allows (execute.c:466), always
  raises: the options are looked for in the userdata of the call (`Options`, execute.c:164).
  The test of a path that does not exist (`test/case/execute.c`) makes such a call, and sees
  the error it expects for this reason.
- The help of `choices` speaks of an array of values (argparser.c:1141). Only a value that
  the table maps to false is refused, so an array limits nothing (`Chosen`).
- An interrupted wait of the collector aborts (`GcWait`), and `map:replace` can lose the
  old pair when its second insertion raises (`LuaDict!RaiseInReplace`).
- An option whose definition was refused stays in the parser and hides one of the same
  name that is added later (`_infra_argp_add_argument`, `Named`). `format_help` raises if a
  default is a boolean or a table (`HelpRaises`).
- An empty range yields its start in a loop, though not to an index
  (`_infra_range_next`); a step of 0 ends the process at an index in the range (`TRAP`).
- On Windows a program that is not found is reported as ERROR_OUTOFMEMORY: the code
  copies the missing result and takes that for a lack of memory
  (`_search_path`, exec.c:344). Every comparison of two variables of an environment
  frees pointers that were moved (`Compares`, exec.c:590), and a PATH with a lone quote is
  read before its beginning (`LoneQuote`). The PATH of a given environment is not used:
  it is looked for before the block is made (exec.c:878 and 927).

## Proofs

The theorems hold for every value of the constants under the named assumptions in the
modules that declare them, and nothing else. Most of these say only what type a constant
has. The ones that say more: pipes and reads have a size (`CapAssumption`,
`ReadSzAssumption`), errno is positive, `Nil`, `NULL`, `FREE` and `NONE` are none of the
values they are told apart from, there are finitely many nodes of lists and trees, a number
that is compared is a natural number or NaN (`ValueAssumption`), a program has a name and no
null in its arguments (`ArgumentsAssumption`), and the clock of `TimedWait` runs past every
deadline. Each proof has the usual three parts: the
initial states, one step per action, and the temporal conclusion.

### infra.execute

`ExecuteProofs` has the types, the data on its way and the life of the process;
`ExecuteFlowProofs`, which builds on it, the end of the data and the refinement. Together
they state all the safety properties of the runs `echo` and `free` for every input, buffer size, pipe capacity, kind of program and set of error numbers.

- `TypeCorrect`: every variable keeps its type, and no pipe ever holds more than it
  can. The invariant needs a conjunct of its own for the time before the fork
  (`Untouched`: the program has done nothing) and for the status pipe, to which a
  child writes at most once, so that the write always fits.
- `HandlesCorrect`: the handles that are not INVALID are exactly the host's open
  descriptors, so no path closes a number twice or leaks one. Inductive given the
  types: the program's actions never touch descriptors of the host (`RunsKeepsHost`),
  and the host's open and close both sides together (`CloseHandlesKeeps`).
- `OutputCorrect`, `InputCorrect`: data is neither lost, doubled nor reordered. The
  two streams and the input are invariants together; both need that an error that
  was raised stays raised (`Unwound`), since only then is data given up. The steps
  rest on two lemmas about sequences (`Cut`, `CutHead`): a sequence is its prefix
  and its rest.
- `ExecCorrect`, `WaitCorrect`, `CollectorCorrect`: a start that is reported has happened,
  no process is waited for twice, nothing is left behind. All three are read off `Life`,
  which says for each stretch of the host's way what the child may be doing and
  whether its identifier is still known, or that there has been none (`NotYet`). The properties alone are not inductive: that a
  success is no lie depends on who still holds the writer of the status pipe.
- `EofCorrect`, `ReturnCorrect`, `EchoCorrect`: `InFlow` (the host holds the writer of stdin
  until all is written), `OutFlow` (the host closes a stream's reader only when it is dry
  and the program at its end, so the prefix it owes has arrived) and `FilterFlow`
  (a filter has written a prefix of what it read, and all of it when it exits).
- `Refinement`: every step is a step of `ProgramRun` or a stutter. `Answer` is what the
  invariants lacked: the boolean in the result is that of the program's end.

The last proof found that the CASE which maps the state to an outcome had two
guards that overlap after an error followed by an abort. Of such a CASE TLC takes the
first arm, and so it had not mattered to the runs; the guards of `Outcome` exclude each
other now.

### Calls without state

`UtilitiesProofs`, about every call of `Utilities`. The invariant says that a call which has
answered has answered what its definition says, and the rest is about the definitions.

- `TimeoutCorrect`, for every scale of the clock, every limit and schedule. `WaitInv` ties the
  time that was read to the moment at which the program was last seen running: the clock is
  read first, so a program found running had not ended at that time. `TimeTypeCorrect` needs
  the carry of the nanoseconds, and with it a few facts about div and mod. (`TimeoutAlone` is
  the same of `TimeSpec`, the wait without the other calls.)
- `OrderCorrect`, for all values, strings of any length, mantissas of any size and both kinds
  of char. Without metamethods the answer is that of an order on each type (`WithoutIs`);
  for strings it is `Precedes`, which reads a string on beyond its end, so that "the first
  position that differs, else the length" becomes one case (`StringOrder`). Numbers are
  compared by what `lua_tonumber` makes of them, and any number it made would do; that is why
  the order survives the rounding and equality does not. With metamethods, each of the
  twelve rules that applies tells the truth if they do (`RulesTell`).
- `RangeCorrect`, for integers of every width. `GotSoFar` says what a loop has after so many
  rounds; it cannot have one number for each of 2^Width rounds, so it is over by then
  (`LoopIsOver`). That an index agrees with it is `NoRest`: a multiple of the step is what
  leaves no rest.

- `ArgumentsCorrect`, for any number of arguments of any length and any characters.
  Backslashes count only before a quote, and the code writes an argument from its end to know
  which are before one; the C library of the program reads from the beginning. The
  invariant of the reader is therefore told from what is still to come: `EscapeRead` says that after
  the first i characters of an argument the reader has them all, with as many backslashes
  pending as those characters end with, or twice as many if a quote or the end comes next
  (`EscapeGoesOn`). From
  this each of the three ways to write an argument is read back as that argument
  (`ArgumentRead`), and the line as the list (`LineRead`). That the line fits is `LineFits`:
  an argument at most doubles, and has two quotes.

`Pow2`, the list a loop fills, the line and the states of its reader are recursive functions: that there are such functions is
itself proved (`StepsExist`), since a definition by recursion says nothing otherwise.

### The map

`LuaMapProofs`, for any keys, ranks, pairs that are not comparable, amounts of
memory and numbers of errors: `TypeCorrect`, `SearchCorrect`, `RegistryCorrect`,
`LossCorrect`, `LoopsCorrect` and `Refinement` of `LuaDict`: every property of the run
`maps`. `MemInv` is the core: references are owned by one field of one node of the heap
or lost, and keys and values are where they are looked for (`Mem`); no two keys of the tree
have the same rank, though they may be incomparable; and as many nodes and references are
outside the tree as errors have lost something (`Counted`). Each call's effect on this is a lemma about sets of
nodes (`MemOK`), and the calls are put together from these. `GcInv` says that the
iterator of the collector is the first node left, `LoopInv` that what a loop still
owes is before it, `CopyInv` that `make_map` has copied what it is through with.

### The red-black tree

`RbTreeShape` has what is true of any tree, `RbTreeProofs` what is true of the calls. For any
finite set of nodes and any keys: `TypeCorrect`, `RedBlackCorrect`, `SearchCorrect` and
`Refinement` of `OrderedMap`, every property of the run `rbtree` but `CallsEnd`. Finiteness
(`NodeAssumption`) is what a heap has; with infinitely many nodes a tree need not have leaves.

The invariant is `IInv`: there are a D and a B such that `Inv(D, B)`. D gives the nodes below
each node and B the black nodes on each way down from it. The code has neither and the model
defines neither but by recursion; as variables of the invariant each is described by an
equation at every node (`Shape`, `Counts`), and a step is shown to keep it by naming the new D
and B. The rest of the invariant says in which phase a call is: `Resting`, `Descending` (the
new node belongs below the place reached, and so does every node with its key), `Inserting`
(at most the loop's node is a red child of a red node) and `Erasing` (the ways through the
loop's node are short by one). These are the comments of the two loops in the code, made exact.

The steps come in two layers. What the assignments do to the fields (`SetKid` to
`RotateSetParents`, `Unlinks`, `Replaces`) says how the new tree looks at each node; what that
means for D and B is said of four changes only: a rotation (`RotatedShape`, `RotatedCounts`), a
node linked in (`LinkedShape`), spliced out (`SplicedShape`) or put in the place of another
(`ReplacedShape`). Every iteration of either loop is one or two of these with the colours of
its case; the erase of an inner node is a splice of its successor followed by a replacement.

That the recursive definitions of the model (`Below`, `BlackRule`, `Utmost`, `Neighbour`,
`Search`) are what D, B and the keys say is an induction over the tree. It is done by a least
counterexample: `UpFromLeaves` takes a set of nodes to which each node belongs if its children
do, `DownFromRoot` one to which each belongs if its parent does, and both rest on the
finiteness of D. That a recursive function satisfies its equation at all is proved by giving a
function that does.

The refinement rests on one conjunct more than the shape of the tree: the key compared on the
way down is found wherever in the tree it is, so that a conflict is reported exactly when the map has
the key (the last conjunct of `Descending`).

### The argument parser

`ArgparserProofs`, for every set of options, words and bounds: `TypeCorrect`,
`WaitingCorrect` and `RegistryCorrect`. `Waits` is the invariant: `opt` and `narg` agree, and
a negative `narg`, which stands for any number of values, is that of the option itself;
without this the decrement could make the two disagree later. That the required options
are looked for in the order of the list is a recursion over `opts` (`CheckedExists`,
`CheckedNames`).

### The list

`ListProofs`, for any number of lists and nodes: `LinksCorrect` and `CallsCorrect`, the whole
of the run `list`. `Rep(m, S)` says that the memory m represents the sequences S:
each list's header and the links of its nodes are those of its sequence, no sequence has
a node twice, no two share one, and a node in none has no links. The argument
has four parts. A walk over a memory that represents S finds S (`WalkIs`, `Represented`).
If a memory changes as an insertion, a removal or a move should change it, it represents
the changed sequences (`InsertRep`, `EraseRep`, `MigrateRep`). Each call changes
it that way, in each of the cases its code tells apart (`PushBackFits` to `MigrateFits`).
And the changed sequences are those in the words of `ListSeq` (`InsertAtIs`, `RemoveAtIs`).
`LinksAgree` as it stands is not inductive in any usable sense: it speaks of walks, and
what a walk finds after a link has changed follows only from where every link leads.

### What stays with TLC

Liveness and fairness: `CallEnds`, `CollectorEnds`, `CallsEnd`, `CallReturns`.
`ReturnsWhatWasSaid` and `RaisesForAReason` compare two parsers of the same words, the second
by folds over all of them; and `LinesAreRight`, `EnvironmentIsComplete` and `SearchFinds`
compare folds and recursive functions over sequences with reference definitions, over bounded
inputs. Induction over data with operators as
parameters is beyond the prover; where it is over one given function, as in `WalkIs`,
`CheckedExists` and `UpFromLeaves`, it is done through the least counterexample (`WFMin`).

## Not modelled

- A host that ignores SIGCHLD, but for `TimedWait`: in `Execute` a child that has ended can
  be waited for.
- The Windows half of `pipe.c`, and of `exec.c` what is around the computations above:
  CreateProcessW, the wait by WaitForSingleObject, conversions between UTF-8 and UTF-16.
- `make_map` of an object with `__pairs` (its loop has no way out but an error), nil keys,
  and metamethods that change the map that is calling them; `merge_line` of an object
  with `__pairs` (luaL_callmeta leaves one of its three results).
- In `argparser.c` a lack of memory, a list of names that is empty, the word "-" alone,
  two options that share some of their names, a parse begun by a callback of another.
- The functions that only wrap one call of the system or format a value (`pairs`,
  `dump_*`, paths, files, `man`) have no state and next to no control.

## Plan

The modules of the plan are written, and every safety property of `Execute`, `RbTree`, `LuaMap`
and `List` is proved, with those of `Utilities` whose definitions are no folds. What is left
is to prove more, in this order: the two properties of `Argparser` that speak of all words, by
an invariant that says what the words so far mean; of `Utilities` the lines, the environment and
the search.
