----------------------------- MODULE Argparser -----------------------------
(***************************************************************************)
(* function/argparser.c: the parser object behind infra.argparser().       *)
(*                                                                         *)
(* add_argument reads the fields of a table one after the other and raises *)
(* an error at one it does not know; the option is in the list by then.    *)
(* parse_args goes through the words once.  The action or the type of an   *)
(* option may be a Lua function, which may add options in its turn.        *)
(*                                                                         *)
(* A word is cut into the name of an option and a value attached to it by  *)
(* Split; a word that an option waits for is its value, taken whole.       *)
(***************************************************************************)
EXTENDS Integers, FiniteSets, Sequences, SequencesExt

CONSTANTS Name,       \* names of options,
          Dashed,     \* those that begin with a dash
          Word,       \* strings on the command line
          Split,      \* the name and the value in -x, -xVALUE, --x, --x=VALUE
          ToNumber,   \* what lua_tonumberx makes of the words that are numbers
          ToObject,   \* what a Lua function given as type makes of a word, or of NIL
          Option,     \* the options a program may add
          NOREF, NIL, NONE,
          MaxOpts, MaxWords      \* bounds: options of a parser, words of a call

\* refused: the first field of the table that raises, or NONE.
ASSUME OptionAssumption ==
    \A o \in Option :
        /\ o.names \in Seq(Name) /\ o.names # <<>>
        /\ o.action \in {"store", "append", "count", "help", "function", NOREF}
        /\ o.type \in {"string", "number", "function", NOREF}
        /\ o.required \in BOOLEAN /\ o.narg \in Int
        /\ o.refused \in {"action", "type", "choices", "nargs", NONE}
ASSUME SplitAssumption == \A w \in Word : Split[w].value \in Word \cup {NONE}
ASSUME NoneAssumption == NONE \notin Nat
ASSUME BoundAssumption == MaxOpts \in Nat /\ MaxWords \in Nat

VARIABLES opts,       \* arg_table
          refs,       \* slots of the registry in use: the option and its field
          pc,         \* "idle", "parsing", "callback" in a Lua function, "aborted",
                      \* "exited", or "gone" once collected
          given,      \* the words read so far by the call of parse_args
          opt, narg,  \* helper.opt, as a position in opts or NONE, and helper.narg
          ret,        \* the table parse_args fills
          out         \* what the last call has come to

parseVars == <<given, opt, narg, ret>>
vars == <<opts, refs, pc, parseVars, out>>

OneAtMost == -63      \* -'?'
AnyNumber == -42      \* -'*'
OneOrMore == -43      \* -'+'

EmptyRet == [n \in Name |-> NIL]

Init == /\ opts = <<>> /\ refs = {}
        /\ pc = "idle"
        /\ given = <<>> /\ opt = NONE /\ narg = 0 /\ ret = EmptyRet
        /\ out = <<"nothing">>

-----------------------------------------------------------------------------
\* add_argument

\* The fields in the order they are read, and those that are read before one
\* is refused.
Field == <<"action", "type", "choices", "default", "required", "nargs">>
Read(o) == {Field[i] : i \in {j \in DOMAIN Field : \A k \in 1..j : Field[k] # o.refused}}

\* The option as the handler leaves it: action and type get their defaults
\* last, and a negative number is stored as nargs before it is refused.
Define(o) ==
    LET read == Read(o)
        Given(f)        == IF f \in read THEN o[f] ELSE NOREF
        Filled(f, else) == IF o.refused = NONE /\ o[f] = NOREF THEN else ELSE Given(f)
    IN  [names    |-> o.names,
         action   |-> Filled("action", "store"),
         type     |-> Filled("type", "string"),
         choices  |-> Given("choices"),
         default  |-> Given("default"),
         required |-> "required" \in read /\ o.required,
         narg     |-> IF o.refused \in {"nargs", NONE} THEN o.narg ELSE 0]

\* The references an option holds; those _infra_argp_clear_arg_table releases.
\* (A slip: the default is forgotten.)
Held(o) == {f \in {"action", "type", "choices", "default"} : o[f] # NOREF}
ReleasedButDefault(o) == Held(o) \ {"default"}
Released(o) == Held(o)
AllOf(F(_)) == UNION {{i} \X F(opts[i]) : i \in DOMAIN opts}

Raise(why) == /\ pc' = "idle"
              /\ out' = <<why>>
              /\ opt' = NONE /\ narg' = 0 /\ ret' = EmptyRet

\* Called by the program, or by a function that parse_args has called: there
\* an error goes on through parse_args, unless the function catches it.
_infra_argp_add_argument(o) ==
    /\ pc \in {"idle", "callback"} /\ Len(opts) < MaxOpts
    /\ opts' = Append(opts, Define(o))
    /\ refs' = refs \cup ({Len(opts) + 1} \X Held(Define(o)))
    /\ \/ /\ pc = "idle"
          /\ out' = IF o.refused = NONE THEN <<"added">> ELSE <<"refused">>
          /\ given' = <<>> /\ ret' = EmptyRet
          /\ UNCHANGED <<pc, opt, narg>>
       \/ /\ pc = "callback"
          /\ UNCHANGED <<pc, parseVars, out>>
       \/ /\ pc = "callback" /\ o.refused # NONE
          /\ Raise("callback") /\ UNCHANGED given

-----------------------------------------------------------------------------
\* format_help: the names of all options, then those that are positional and
\* those that are not, with notes.  A default that is neither a string nor a
\* number cannot be concatenated.

Positional(o) == o.names[1] \notin Dashed
Notes(o) == (IF o.narg # 0 /\ o.type # NOREF THEN {"type"} ELSE {})
            \cup (IF o.required THEN {"required"} ELSE {})
            \cup (IF o.default # NOREF THEN {"default"} ELSE {})
Described(s) == [i \in DOMAIN s |-> [names |-> s[i].names, notes |-> Notes(s[i])]]
HelpText == [usage      |-> [i \in DOMAIN opts |-> opts[i].names[1]],
             positional |-> Described(SelectSeq(opts, Positional)),
             options    |-> Described(SelectSeq(opts, LAMBDA o : ~Positional(o)))]
HelpRaises == \E i \in DOMAIN opts :
                 opts[i].default # NOREF /\ DOMAIN opts[i].default \subseteq {"boolean", "table"}

_infra_argp_format_help ==
    /\ pc = "idle"
    /\ out' = IF HelpRaises THEN <<"help raised">> ELSE <<"help", HelpText>>
    /\ given' = <<>> /\ ret' = EmptyRet
    /\ UNCHANGED <<opts, refs, pc, opt, narg>>

-----------------------------------------------------------------------------
\* parse_args: a value of an option.

\* The type is called with the value, NIL for an option that takes none.
Converts(o, v) == \/ o.type \in {"string", "function"}
                  \/ o.type = "number" /\ v \in DOMAIN ToNumber
Converted(o, v) ==
    CASE o.type = "number"   -> [number |-> ToNumber[v]]
      [] o.type = "function" -> IF ToObject[v] = NIL THEN NIL ELSE [object |-> ToObject[v]]
      [] OTHER               -> IF v = NIL THEN NIL ELSE [string |-> v]

\* The choices refuse a value they map to false.
Chosen(o, c) == o.choices # NOREF /\ c \in DOMAIN o.choices => o.choices[c]

Accepts(o, v) == Converts(o, v) /\ Chosen(o, Converted(o, v)) /\ o.action # NOREF

\* The action is called with the old value and the new one.  A Lua function
\* is any function of the two: here one that keeps the first.
Act(action, old, new) ==
    CASE action = "store"    -> new
      [] action = "append"   -> LET list == IF old = NIL THEN <<>> ELSE old.list
                                IN  [list |-> IF new = NIL THEN list ELSE Append(list, new)]
      [] action = "count"    -> [number |-> IF old = NIL THEN 1 ELSE old.number + 1]
      [] action = "function" -> IF old = NIL THEN new ELSE old

\* The old value is read under the first name, the new one stored under all.
\* (A slip: it is stored under the first.)
StoredFirst(r, o, v) == [r EXCEPT ![o.names[1]] = v]
Stored(r, o, v) == [n \in Name |-> IF n \in Range(o.names) THEN v ELSE r[n]]

\* helper.opt once due more values are to come.  (A slip: it is not reset.)
OptKept(i, due) == i
OptAfter(i, due) == IF due = 0 THEN NONE ELSE i

\* _infra_argp_handle_option, with the number of values due afterwards.
_infra_argp_handle_option(i, v, due) ==
    LET o == opts[i] IN
    \/ /\ ~Accepts(o, v)
       /\ Raise("raised")
    \/ /\ Accepts(o, v) /\ o.action = "help"
       /\ IF HelpRaises THEN Raise("help raised")
                        ELSE pc' = "exited" /\ UNCHANGED <<opt, narg, ret, out>>
    \/ /\ Accepts(o, v) /\ o.action # "help"
       /\ ret' = Stored(ret, o, Act(o.action, ret[o.names[1]], Converted(o, v)))
       /\ narg' = due
       /\ opt' = OptAfter(i, due)
       /\ pc' = IF "function" \in {o.action, o.type} THEN "callback" ELSE "parsing"
       /\ UNCHANGED out

\* What is due after one more value of n.  (A slip: all are counted down.)
DueLess(n) == n - 1
Due(n) == IF n > 0 THEN n - 1 ELSE IF n = OneAtMost THEN 0 ELSE n

\* _infra_argp_parse_args_remain: of no value due, the code says it "should not
\* happen".
_infra_argp_parse_args_remain(i, n, v) ==
    IF n > 0 \/ n \in {OneAtMost, AnyNumber, OneOrMore}
    THEN _infra_argp_handle_option(i, v, Due(n))
    ELSE IF n = 0 THEN pc' = "aborted" /\ UNCHANGED <<opt, narg, ret, out>>
    ELSE Raise("raised")

-----------------------------------------------------------------------------
\* parse_args: a word.

\* _infra_argp_find_option: the first of that name.
Named(s, name) == {i \in DOMAIN s : name \in Range(s[i].names)}
Least(S) == CHOOSE i \in S : \A j \in S : i <= j

\* The word is the name of an option, with or without a value.
_infra_argp_parse_args_onpass_multi(name, value) ==
    LET i == Least(Named(opts, name))
        n == opts[i].narg
    IN  \/ /\ Named(opts, name) = {}
           /\ Raise("raised")
        \/ /\ Named(opts, name) # {} /\ n = 0
           /\ _infra_argp_handle_option(i, NIL, 0)
        \/ /\ Named(opts, name) # {} /\ n # 0 /\ value # NONE
           /\ _infra_argp_parse_args_remain(i, n, value)
        \/ /\ Named(opts, name) # {} /\ n # 0 /\ value = NONE
           /\ opt' = i /\ narg' = n
           /\ pc' = "parsing" /\ UNCHANGED <<ret, out>>

\* The program calls parse_args.
ParseArgs ==
    /\ pc = "idle"
    /\ pc' = "parsing"
    /\ given' = <<>> /\ ret' = EmptyRet /\ out' = <<"nothing">>
    /\ UNCHANGED <<opts, refs, opt, narg>>

_infra_argp_parse_args_onepass(w) ==
    /\ pc \in {"parsing", "callback"} /\ Len(given) < MaxWords
    /\ given' = Append(given, w)
    /\ \/ opt # NONE /\ _infra_argp_parse_args_remain(opt, narg, w)
       \/ opt = NONE /\ _infra_argp_parse_args_onpass_multi(Split[w].name, Split[w].value)
    /\ UNCHANGED <<opts, refs>>

\* A Lua function called for the last word raises an error.
CallbackRaises ==
    /\ pc = "callback"
    /\ Raise("callback")
    /\ UNCHANGED <<opts, refs, given>>

\* An option still waits for values.  (A slip: for values it can do without.)
WantsMore == narg # 0
LacksArgument == narg > 0

\* _infra_argp_check_args_valid: option by option, NIL for an error.
Check(r, o) ==
    IF r = NIL \/ r[o.names[1]] # NIL THEN r
    ELSE IF o.required \/ o.narg = OneOrMore THEN NIL
    ELSE Stored(r, o, IF o.default = NOREF THEN NIL ELSE o.default)
_infra_argp_check_args_valid ==
    LET checked[i \in 0..Len(opts)] == IF i = 0 THEN ret ELSE Check(checked[i - 1], opts[i])
    IN  checked[Len(opts)]

\* There are no more words.
WordsEnd ==
    /\ pc \in {"parsing", "callback"}
    /\ \/ /\ LacksArgument \/ _infra_argp_check_args_valid = NIL
          /\ Raise("raised at end")
       \/ /\ ~LacksArgument /\ _infra_argp_check_args_valid # NIL
          /\ pc' = "idle" /\ out' = <<"returned">>
          /\ ret' = _infra_argp_check_args_valid
          /\ opt' = NONE /\ narg' = 0
    /\ UNCHANGED <<opts, refs, given>>

\* _infra_argp_meta_gc, and the exit of the program.
_infra_argp_meta_gc ==
    /\ pc = "idle"
    /\ pc' = "gone"
    /\ refs' = refs \ AllOf(Released)
    /\ opts' = <<>>
    /\ given' = <<>> /\ ret' = EmptyRet /\ out' = <<"nothing">>
    /\ UNCHANGED <<opt, narg>>

Over == pc \in {"gone", "exited"} /\ UNCHANGED vars

Next == \/ \E o \in Option : _infra_argp_add_argument(o)
        \/ _infra_argp_format_help
        \/ ParseArgs
        \/ \E w \in Word : _infra_argp_parse_args_onepass(w)
        \/ CallbackRaises
        \/ WordsEnd
        \/ _infra_argp_meta_gc
        \/ Over

Spec == Init /\ [][Next]_vars

-----------------------------------------------------------------------------
\* What a call of parse_args means, without going through the words.

\* The option the word at i names, the values it has to itself, and how many
\* of the words that follow are its own too.
At(i) == Least(Named(opts, Split[given[i]].name))
Known(i) == Named(opts, Split[given[i]].name) # {}
Own(i) == IF opts[At(i)].narg = 0 THEN <<NIL>>
          ELSE IF Split[given[i]].value # NONE THEN <<Split[given[i]].value>> ELSE <<>>
Follow(i) == LET n == opts[At(i)].narg IN
             CASE ~Known(i)                      -> 0
               [] n \in {AnyNumber, OneOrMore}   -> Len(given)
               [] n < 0                          -> 1 - Len(Own(i))
               [] OTHER                          -> IF n = 0 THEN 0 ELSE n - Len(Own(i))

\* The word that names the option to which the word at i belongs.
HeadOf[i \in Nat] ==
    IF i = 1 THEN 1
    ELSE LET h == HeadOf[i - 1] IN IF i <= h + Follow(h) THEN h ELSE i

\* The values of the word at i, and all values of the option k, in order.
ValuesAt(i) == IF i = HeadOf[i] THEN Own(i) ELSE <<given[i]>>
Values(k) == FlattenSeq([i \in DOMAIN given |->
                IF Known(HeadOf[i]) /\ At(HeadOf[i]) = k
                THEN [j \in DOMAIN ValuesAt(i) |-> Converted(opts[k], ValuesAt(i)[j])]
                ELSE <<>>])
Said(k) == SelectSeq(Values(k), LAMBDA v : v # NIL)

\* What the action makes of them: "store" keeps the last value, also of an
\* option that takes many (see ValuesAreGathered).
Collected(k) ==
    IF Values(k) = <<>> THEN NIL
    ELSE CASE opts[k].action = "store"    -> Values(k)[Len(Values(k))]
           [] opts[k].action = "append"   -> [list |-> Said(k)]
           [] opts[k].action = "count"    -> [number |-> Len(Values(k))]
           [] opts[k].action = "function" -> IF Said(k) = <<>> THEN NIL ELSE Said(k)[1]

\* The words go wrong at i: no such option, or a value it does not accept.
Sensible(n) == n >= 0 \/ n \in {OneAtMost, AnyNumber, OneOrMore}
WrongAt(i) ==
    \/ ~Known(HeadOf[i])
    \/ \E v \in Range(ValuesAt(i)) :
          LET o == opts[At(HeadOf[i])] IN ~Accepts(o, v) \/ ~Sensible(o.narg)
\* The program stops there: help is asked for.
StopsAt(i) == Known(HeadOf[i]) /\ opts[At(HeadOf[i])].action = "help" /\ ValuesAt(i) # <<>>

\* Something is missing at the end.  Options added twice share their values.
Missing ==
    \/ given # <<>> /\ LET i == HeadOf[Len(given)] IN
          Known(i) /\ opts[At(i)].narg > 0 /\ i + Follow(i) > Len(given)
    \/ \E k \in DOMAIN opts :
          /\ opts[k].required \/ opts[k].narg = OneOrMore
          /\ Collected(Least(Named(opts, opts[k].names[1]))) = NIL
          /\ \A j \in 1..(k - 1) : opts[j].names = opts[k].names => opts[j].default = NOREF

\* The value of a name in the table that is returned.
Meaning(name) ==
    LET all    == Named(opts, name)
        dflt   == {k \in all : opts[k].default # NOREF}
    IN  IF all = {} THEN NIL
        ELSE IF Collected(Least(all)) # NIL THEN Collected(Least(all))
        ELSE IF dflt # {} THEN opts[Least(dflt)].default ELSE NIL

-----------------------------------------------------------------------------
\* Properties.

TypeOK == /\ Len(opts) <= MaxOpts
          /\ refs \subseteq (1..MaxOpts) \X {"action", "type", "choices", "default"}
          /\ pc \in {"idle", "parsing", "callback", "aborted", "exited", "gone"}
          /\ given \in Seq(Word) /\ Len(given) <= MaxWords
          /\ opt \in DOMAIN opts \cup {NONE}
          /\ narg \in Int /\ (narg < 0 => narg = opts[opt].narg)
          /\ DOMAIN ret = Name

\* An option waits for values exactly while some are due: the branch that
\* "should not happen" (function/argparser.c:872) does not, and the message
\* about a missing argument has an option to name.
OptIffNarg == (opt = NONE <=> narg = 0) /\ pc # "aborted"

\* A call that returns has understood the words as their grouping into options
\* and values says, and nothing was wrong with them.  What it makes of several
\* values is up to the action: the code, unlike its help, has no other list
\* than that of "append".
ReturnsWhatWasSaid ==
    out[1] = "returned" =>
        /\ \A i \in DOMAIN given : ~WrongAt(i) /\ ~StopsAt(i)
        /\ ~Missing
        /\ \A name \in Name : ret[name] = Meaning(name)

\* A call that raises an error has a reason, the first thing that is wrong.
RaisesForAReason ==
    /\ out[1] = "raised" => /\ WrongAt(Len(given))
                           /\ \A i \in 1..(Len(given) - 1) : ~WrongAt(i) /\ ~StopsAt(i)
    /\ out[1] = "raised at end" => Missing /\ \A i \in DOMAIN given : ~WrongAt(i)
    /\ pc = "exited" => StopsAt(Len(given))

\* The registry holds what the options refer to, the half-defined ones left by
\* an error included, and nothing once the parser is collected.
RegistryIsExact == refs = AllOf(Held)

\* "N (an integer): N arguments from the command line will be gathered
\* together into a list", and '*' and '+' likewise
\* (function/argparser.c:1147-1155).  So the values of an option that is named
\* once should come back as a list.  They do not under the default action.
TakesMany(o) == o.narg > 1 \/ o.narg \in {AnyNumber, OneOrMore}
ValuesAreGathered ==
    out[1] = "returned" /\ (\A i \in DOMAIN given : HeadOf[i] = 1) =>
        \A k \in DOMAIN opts :
            opts[k].action = "store" /\ TakesMany(opts[k]) /\ Len(Said(k)) > 1 =>
                ret[opts[k].names[1]] = [list |-> Said(k)]
=============================================================================
