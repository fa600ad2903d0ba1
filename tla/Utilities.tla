----------------------------- MODULE Utilities -----------------------------
(***************************************************************************)
(* The parts of the library that keep no state between two calls: the      *)
(* order of values, ranges, lines, and what utils/exec.c needs to start a  *)
(* program on Windows and to wait for one with a deadline.  One call is    *)
(* made, of any of them; the wait is a call of many steps (TimedWait),     *)
(* the others answer at once.                                              *)
(***************************************************************************)
EXTENDS Compare, IntegerRange, Lines, CommandLine, EnvBlock, SearchPath, TimedWait

CONSTANTS Value,          \* values that are compared
          Text,           \* texts that are split
          ArgumentList,   \* of a program
          Environment,    \* given to a program
          Host,           \* environments of the host
          Element,        \* elements of PATH: text is written, dir is meant
          FileName,       \* programs looked for
          cwd             \* the working directory

\* A string is a sequence of bytes; a boolean is 0 or 1, an address an integer.
ASSUME ValueAssumption ==
    \A w \in Value : /\ w.type \in DOMAIN Type
                     /\ w.type = "number" => w.at \in Nat \cup {NaN}
                     /\ w.type = "string" => w.at \in Seq(0..255)
                     /\ w.type \notin {"number", "string"} => w.at \in Int

\* The first argument is the program's name; a null is not in any.
ASSUME ArgumentsAssumption == ArgumentList \subseteq Seq(Seq(Nat \ {0})) \ {<<>>}

VARIABLES call,     \* f is called, with arg
          told,     \* whether it has returned
          answer    \* what it has answered

vars == <<call, told, answer, timeVars>>

-----------------------------------------------------------------------------
\* What the metamethods in answered say of two values, if they see the order o.
Says(o, answered) == [c \in MetaCall |->
    IF c \notin answered THEN "none"
    ELSE IF \/ c \in {"eq12", "eq21"} /\ o = 0
            \/ c = "lt12" /\ o < 0
            \/ c = "le12" /\ o <= 0
            \/ c = "lt21" /\ o > 0
            \/ c = "le21" /\ o >= 0 THEN "yes" ELSE "no"]

Light(v) == v.type = "lightuserdata"
Pair == (1..3) \X (1..3)

\* Three values; order is how metamethods see a value and one with a greater
\* address.  Only two light userdata get to their metamethods.
Comparison ==
    \E value \in [1..3 -> Value], order \in {-1, 0, 1}, answered \in SUBSET MetaCall :
        /\ \/ Light(value[1]) /\ Light(value[2]) /\ value[3] = value[1]
           \/ order = 0 /\ answered = {}
        /\ call = [f |-> "compare", value |-> value, order |-> order, answered |-> answered]

\* PATH, written: its elements with a ';' between them.
Written(elements) ==
    FoldLeftDomain(LAMBDA path, i : path \o (IF i # 1 THEN <<";">> ELSE <<>>) \o elements[i].text,
                   <<>>, elements)

\* Everything a program may be, in the order that is meant: in the working
\* directory, then in the directories of PATH, each with every extension.
Parts(name) == SelectSeq(name, LAMBDA t : t = ".")
HasExtension(name) == Parts(name) # <<>> /\ Last(name) # "."
Candidates(name, elements) ==
    LET dirs == << <<>> >> \o SelectSeq([i \in DOMAIN elements |-> elements[i].dir],
                                        LAMBDA d : d # <<>>)
    IN  FlattenSeq([d \in DOMAIN dirs |->
            [e \in DOMAIN Extensions(HasExtension(name)) |->
                Joined(dirs[d], name, Extensions(HasExtension(name))[e], cwd)]])

Init ==
    /\ told = FALSE /\ answer = <<>>
    /\ \/ call = [f |-> "waitpid"] /\ TimeInit
       \/ /\ now = 0 /\ ms \in Timeout /\ ms = 0 /\ program = "running" /\ began = 0 /\ ended = -1
          /\ at = "done" /\ t_cur = Second(0, 0) /\ t_dst = Second(0, 0) /\ wake = 0
          /\ result = "none"
          /\ \/ Comparison
             \/ \E start, stop, step \in lua_Integer :
                   call = [f |-> "range", self |-> _infra_range(start, stop, step)]
             \/ \E text \in Text : call = [f |-> "split_line", data |-> text]
             \/ \E args \in ArgumentList : call = [f |-> "make_program_args", args |-> args]
             \/ \E env \in Environment, then, later \in Host :
                   call = [f |-> "make_program_env", env |-> env, then |-> then, later |-> later]
             \/ \E elements \in UNION {[1..n -> Element] : n \in 0..2}, name \in FileName :
                  \E x, y \in ToSet(Candidates(name, elements)) :
                    \E files \in {{}, {x, y}} :
                      call = [f |-> "search_path", elements |-> elements, name |-> name,
                              files |-> files]

Answers(f, a) == /\ call.f = f /\ ~told
                 /\ told' = TRUE /\ answer' = a
                 /\ UNCHANGED <<call, timeVars>>

\* The nine results for three values.
compare ==
    LET value == call.value
        Sees(p) == IF value[p[1]].at <= value[p[2]].at THEN call.order ELSE -call.order
    IN  Answers("compare", [p \in Pair |->
            _internal_compare(value[p[1]], value[p[2]], Says(Sees(p), call.answered))])

\* A loop through a range, and what it answers to every index.
range ==
    LET self == call.self
    IN  Answers("range", [loop |-> _infra_range_pairs(self, Pow2[Width]),
                          index |-> [n \in lua_Integer |-> _infra_range_index(self, n)]])

\* A text is split, and its lines are merged again.
split_line ==
    LET lines == _split_line(call.data)
    IN  Answers("split_line", [lines |-> lines, text |-> _merge_line_by_table(lines, <<LF>>)])

program_args == Answers("make_program_args", make_program_args(call.args))
program_env ==
    /\ call.f = "make_program_env"
    /\ \E outcome \in make_program_env(call.env, call.then, call.later) :
          Answers("make_program_env", outcome)
search_path == Answers("search_path", _search_path(call.name, cwd, Written(call.elements), call.files))

\* The wait with a deadline, step by step.
waitpid == TimeNext /\ UNCHANGED <<call, told, answer>>

Next == \/ compare \/ range \/ split_line \/ program_args \/ program_env \/ search_path
        \/ waitpid

Spec == Init /\ [][Next]_vars /\ TimeFairness

-----------------------------------------------------------------------------
\* Properties.

TypeOK == /\ TimeTypeOK
          /\ told \in BOOLEAN
          /\ told => at = "done" /\ call.f # "waitpid"

Told(f) == told /\ call.f = f

\* The order of values is one a search tree can be built on, over values of
\* whatever types, large integers among them.  Turned round, a comparison
\* answers the opposite (test/case/compare.c:38 tries it on eleven pairs); it is
\* transitive, NaN left out; and whatever metamethods there are, one or all: if
\* they tell the truth, then the answer does, or there is none.
TurnsRound ==
    \A i, j \in 1..3 : answer[<<i, j>>] # RAISED /\ answer[<<j, i>>] # RAISED =>
                          answer[<<i, j>>] = -answer[<<j, i>>]
IsTransitive ==
    \A i, j, k \in 1..3 :
        /\ \A p \in {<<i, j>>, <<j, k>>, <<i, k>>} : answer[p] # RAISED
        /\ answer[<<i, j>>] <= 0 /\ answer[<<j, k>>] <= 0
        => answer[<<i, k>>] <= 0
MetaIsRight ==
    LET v == call.value
    IN  Light(v[1]) /\ Light(v[2]) /\ v[1].at < v[2].at /\ answer[<<1, 2>>] # RAISED =>
            answer[<<1, 2>>] = call.order
OrderIsRight ==
    Told("compare") =>
        /\ TurnsRound /\ MetaIsRight
        /\ (\A i \in 1..3 : ~IsNaN(call.value[i])) => IsTransitive

\* "0: v1 and v2 are equal" (function/compare.c:311).  They need not be:
\* integers are compared as numbers, and two of them may have one number.
ZeroMeansEqual ==
    Told("compare") /\ (\A i \in 1..3 : ~IsNaN(call.value[i])) =>
        \A i, j \in 1..3 : ~Light(call.value[i]) /\ answer[<<i, j>>] = 0 =>
                              Same(call.value[i], call.value[j])

\* s has the elements of S, each once, the smallest first.
IsAscending(s, S) == /\ ToSet(s) = S
                     /\ \A i, j \in DOMAIN s : i < j => s[i] < s[j]

\* A range that goes up and is not at the limits of an integer has exactly the
\* numbers start, start + step, ... below stop, whether it is walked through or
\* asked.
RangeIsRight ==
    Told("range") =>
        LET self    == call.self
            numbers == {n \in self.start..(self.stop - 1) :
                           \E k \in 0..(Pow2[Width]) : n = self.start + k * self.step}
            step_fits == self.step > 0 /\ self.stop - 1 + self.step <= MaxInteger
        IN  self.start < self.stop /\ step_fits /\ self.stop - self.start <= MaxInteger =>
                /\ IsAscending(Front(answer.loop), numbers) /\ Last(answer.loop) = nil
                /\ \A n \in lua_Integer : answer.index[n] = (n \in numbers)

\* The lines of a text are what stands between its line ends, of whatever
\* style: none has a line end in it, there are as many as line ends and one more
\* if the text does not end with one, and merged they are the text with every
\* line end in one style and without the last.
LinesAreRight ==
    Told("split_line") =>
        LET text  == InOneStyle(call.data)
            rest  == IF text # <<>> /\ Last(text) # LF THEN 1 ELSE 0
        IN  /\ \A i \in DOMAIN answer.lines : ToSet(answer.lines[i]) \intersect {CR, LF} = {}
            /\ Len(answer.lines) = Cardinality(LineEnds(text)) + rest
            /\ answer.text = WithoutLast(text)

\* The program gets the arguments it was given, whatever blanks, quotes and
\* backslashes are in them (the first, its name, is not read in this way), and
\* the line with its null fits into what is allocated.
ArgumentsComeBack ==
    Told("make_program_args") =>
        LET name == Len(quote_cmd_arg(Head(call.args)))
        IN  /\ ParsedArguments(SubSeq(answer.line, name + 1, Len(answer.line))) = Tail(call.args)
            /\ Len(answer.line) + 1 <= answer.space

\* A block that is returned has exactly the variables that were given and those
\* of the host, as it was at first, that are required and were not given, in
\* the order of their names; it fills what was allocated, and no variable of the
\* host has a value it had at no time.  The program aborts only if the host has
\* changed in between.  (Where a conversion or malloc fails, and where the
\* comparison is undefined, there is no block, and nothing is said.)
EnvironmentIsComplete ==
    Told("make_program_env") =>
        LET given    == SelectSeq(call.env, LAMBDA entry : entry.name # NoName)
            names    == {given[i].name : i \in DOMAIN given}
            added    == (ToSet(required_vars) \intersect DOMAIN call.then) \ names
            block    == answer.block
            of_given == SelectSeq(block, LAMBDA entry : entry.name \in names)
            of_host  == SelectSeq(block, LAMBDA entry : entry.name \notin names)
        IN  /\ answer.why = "returned" =>
                  /\ \A i, j \in DOMAIN block : i < j => block[i].name <= block[j].name
                  /\ ToBag(of_given) = ToBag(given)
                  /\ {of_host[i].name : i \in DOMAIN of_host} = added
                  /\ Len(of_host) = Cardinality(added)
                  /\ answer.counted = SpaceOf(block) + 1
                  /\ \A i \in DOMAIN of_host :
                        of_host[i].value \in {ValueNow(call.then, of_host[i].name),
                                              ValueNow(call.later, of_host[i].name)}
            /\ answer.why = "abort" => \E r \in added : ValueNow(call.then, r) # ValueNow(call.later, r)

\* The program found is the first of all that may be meant, for every PATH that
\* is written down properly: a directory with a ';' in quotes.
SearchFinds ==
    Told("search_path") =>
        LET candidates == Candidates(call.name, call.elements)
            first      == SelectInSeq(candidates, LAMBDA c : c \in call.files)
        IN  answer = IF first = 0 THEN <<"ERROR_OUTOFMEMORY">> ELSE candidates[first]
=============================================================================
