-------------------------- MODULE ArgparserProofs --------------------------
(***************************************************************************)
(* Proofs about the parser object, for all options, words and bounds.      *)
(***************************************************************************)
EXTENDS Argparser, NaturalsInduction, WellFoundedInduction, TLAPS

Defined == {Define(o) : o \in Option}

\* The option that waits for values and their number say the same; a number
\* that stands for "any" is the option's own.
Waits ==
    /\ pc \in {"idle", "parsing", "callback", "exited", "gone"}
    /\ opt \in DOMAIN opts \cup {NONE} /\ narg \in Int
    /\ opt = NONE <=> narg = 0
    /\ narg < 0 => narg = opts[opt].narg
    /\ pc \in {"idle", "gone"} => opt = NONE
    /\ DOMAIN ret = Name

ArgInv == /\ opts \in Seq(Defined) /\ Len(opts) <= MaxOpts
          /\ given \in Seq(Word) /\ Len(given) <= MaxWords
          /\ RegistryIsExact
          /\ Waits

-----------------------------------------------------------------------------
\* The first of some positions.
LEMMA LeastExists ==
  ASSUME NEW S \in SUBSET Nat, S # {}
  PROVE  Least(S) \in S
<1>1. PICK i \in S : \A j \in S : ~(<<j, i>> \in OpToRel(<, Nat))
  BY NatLessThanWellFounded, WFMin
<1>2. ASSUME NEW j \in S
      PROVE  i <= j
  <2>1. i \in Nat /\ j \in Nat /\ ~(j < i)
    BY <1>1 DEF OpToRel
  <2>2. QED
    BY <2>1
<1>3. QED
  BY <1>1, <1>2 DEF Least

LEMMA FirstNamed ==
  ASSUME opts \in Seq(Defined), NEW name, Named(opts, name) # {}
  PROVE  Least(Named(opts, name)) \in DOMAIN opts
<1>1. Named(opts, name) \in SUBSET Nat /\ Named(opts, name) \subseteq DOMAIN opts
  BY DEF Named
<1>. HIDE DEF Named
<1>2. QED
  BY <1>1, LeastExists

LEMMA NargOfOption ==
  ASSUME opts \in Seq(Defined), NEW i \in DOMAIN opts
  PROVE  opts[i].narg \in Int
<1>1. PICK o \in Option : opts[i] = Define(o)
  BY DEF Defined
<1>2. o.narg \in Int
  BY OptionAssumption
<1>3. QED
  BY <1>1, <1>2 DEF Define

LEMMA NoneIsNoPosition == opts \in Seq(Defined) => NONE \notin DOMAIN opts
BY NoneAssumption

-----------------------------------------------------------------------------
\* The check at the end goes through the options one by one.

IsChecked(f, r, s) ==
    f = [i \in 0..Len(s) |-> IF i = 0 THEN r ELSE Check(f[i - 1], s[i])]

\* A function with this recursion exists: its beginnings do, by induction.
LEMMA CheckedExists ==
  ASSUME NEW r, NEW s \in Seq(Defined)
  PROVE  \E f : IsChecked(f, r, s)
<1>. DEFINE Upto(f, n) == f = [i \in 0..n |-> IF i = 0 THEN r ELSE Check(f[i - 1], s[i])]
            Bad == {n \in Nat : ~\E f : Upto(f, n)}
<1>1. ASSUME Bad # {}
      PROVE  FALSE
  <2>1. PICK n \in Bad : \A m \in Bad : ~(<<m, n>> \in OpToRel(<, Nat))
    <3>. HIDE DEF Bad
    <3>1. Bad \subseteq Nat
      BY DEF Bad
    <3>2. QED
      BY <1>1, <3>1, NatLessThanWellFounded, WFMin
  <2>2. n \in Nat /\ \A m \in Nat : m < n => \E f : Upto(f, m)
    <3>. HIDE DEF Upto
    <3>1. QED
      BY <2>1 DEF OpToRel
  <2>3. CASE n = 0
    <3>1. Upto([i \in 0..0 |-> r], 0)
      OBVIOUS
    <3>2. QED
      BY <2>3, <3>1
  <2>4. CASE n # 0
    <3>1. PICK f : Upto(f, n - 1)
      <4>1. n - 1 \in Nat /\ n - 1 < n
        BY <2>2, <2>4
      <4>. HIDE DEF Upto
      <4>2. QED
        BY <2>2, <4>1
    <3>. DEFINE g == [i \in 0..n |-> IF i = n THEN Check(f[n - 1], s[n]) ELSE f[i]]
    <3>2. \A i \in 0..n : g[i] = IF i = 0 THEN r ELSE Check(g[i - 1], s[i])
      <4>1. ASSUME NEW i \in 0..n
            PROVE  g[i] = IF i = 0 THEN r ELSE Check(g[i - 1], s[i])
        <5>1. CASE i = n
          <6>1. g[i] = Check(f[n - 1], s[n]) /\ g[n - 1] = f[n - 1]
            BY <2>2, <2>4, <5>1
          <6>. HIDE DEF g
          <6>2. QED
            BY <2>4, <5>1, <6>1
        <5>2. CASE i # n
          <6>1. i \in 0..(n - 1) /\ g[i] = f[i]
            BY <2>2, <5>2
          <6>2. i # 0 => g[i - 1] = f[i - 1]
            BY <2>2, <5>2
          <6>. HIDE DEF g
          <6>3. f[i] = IF i = 0 THEN r ELSE Check(f[i - 1], s[i])
            BY <3>1, <6>1
          <6>4. QED
            BY <6>1, <6>2, <6>3
        <5>3. QED
          BY <5>1, <5>2
      <4>2. QED
        BY <4>1
    <3>3. g = [i \in 0..n |-> g[i]]
      OBVIOUS
    <3>. HIDE DEF g
    <3>4. Upto(g, n)
      BY <3>2, <3>3
    <3>5. QED
      BY <2>1, <3>4
  <2>5. QED
    BY <2>3, <2>4
<1>2. Len(s) \in Nat
  OBVIOUS
<1>3. \E f : Upto(f, Len(s))
  BY <1>1, <1>2
<1>4. QED
  BY <1>3 DEF IsChecked

\* So the table keeps its names, unless something is missing.
LEMMA CheckedNames ==
  ASSUME NEW r, NEW s \in Seq(Defined), NEW f, IsChecked(f, r, s), DOMAIN r = Name
  PROVE  f[Len(s)] = NIL \/ DOMAIN f[Len(s)] = Name
<1>. DEFINE Bad == {n \in 0..Len(s) : ~(f[n] = NIL \/ DOMAIN f[n] = Name)}
<1>0. Len(s) \in Nat /\ \A i \in 0..Len(s) : f[i] = IF i = 0 THEN r ELSE Check(f[i - 1], s[i])
  BY DEF IsChecked
<1>1. ASSUME Bad # {}
      PROVE  FALSE
  <2>1. PICK n \in Bad : \A m \in Bad : ~(<<m, n>> \in OpToRel(<, Nat))
    <3>1. Bad \subseteq Nat
      BY <1>0
    <3>. HIDE DEF Bad
    <3>2. QED
      BY <1>1, <3>1, NatLessThanWellFounded, WFMin
  <2>2. n \in 0..Len(s) /\ n # 0
    BY <1>0
  <2>3. n - 1 \in 0..Len(s) /\ n - 1 < n /\ n - 1 \in Nat /\ n \in Nat
    BY <1>0, <2>2
  <2>4. n - 1 \notin Bad
    BY <2>1, <2>3 DEF OpToRel
  <2>5. f[n - 1] = NIL \/ DOMAIN f[n - 1] = Name
    BY <2>3, <2>4
  <2>6. f[n] = Check(f[n - 1], s[n])
    BY <1>0, <2>2
  <2>7. f[n] = NIL \/ DOMAIN f[n] = Name
    BY <2>5, <2>6 DEF Check, Stored
  <2>8. QED
    BY <2>1, <2>7
<1>2. QED
  BY <1>0, <1>1

LEMMA CheckKeepsNames ==
  ASSUME opts \in Seq(Defined), DOMAIN ret = Name, _infra_argp_check_args_valid # NIL
  PROVE  DOMAIN _infra_argp_check_args_valid = Name
<1>. DEFINE c == CHOOSE f : IsChecked(f, ret, opts)
<1>1. _infra_argp_check_args_valid = c[Len(opts)]
  BY DEF _infra_argp_check_args_valid, IsChecked
<1>2. IsChecked(c, ret, opts)
  BY CheckedExists
<1>. HIDE DEF c
<1>3. QED
  BY <1>1, <1>2, CheckedNames

-----------------------------------------------------------------------------
\* What a word does.

\* The options stay, and only the parser's state moves.
WordOK == Waits' /\ pc' # "gone" /\ pc' # "aborted"

LEMMA RaiseStep ==
  ASSUME opts' = opts, NEW why, Raise(why)
  PROVE  WordOK
BY DEF Raise, WordOK, Waits, EmptyRet

LEMMA HandleStep ==
  ASSUME opts \in Seq(Defined), opts' = opts, Waits, opt = NONE \/ opt \in DOMAIN opts,
         pc \in {"parsing", "callback"},
         NEW i \in DOMAIN opts, NEW v, NEW due \in Int, due < 0 => due = opts[i].narg,
         _infra_argp_handle_option(i, v, due)
  PROVE  WordOK
<1>1. CASE \E why : Raise(why)
  BY <1>1, RaiseStep
<1>2. CASE pc' = "exited" /\ UNCHANGED <<opt, narg, ret, out>>
  BY <1>2 DEF WordOK, Waits
<1>3. CASE /\ ret' = Stored(ret, opts[i], Act(opts[i].action, ret[opts[i].names[1]],
                                              Converted(opts[i], v)))
           /\ narg' = due /\ opt' = OptAfter(i, due)
           /\ pc' = IF "function" \in {opts[i].action, opts[i].type} THEN "callback" ELSE "parsing"
  <2>1. DOMAIN ret' = Name
    BY <1>3 DEF Stored
  <2>2. opt' = (IF due = 0 THEN NONE ELSE i) /\ narg' = due /\ pc' \in {"parsing", "callback"}
    BY <1>3 DEF OptAfter
  <2>3. i # NONE
    BY NoneIsNoPosition
  <2>4. QED
    BY <2>1, <2>2, <2>3 DEF WordOK, Waits
<1>4. QED
  BY <1>1, <1>2, <1>3 DEF _infra_argp_handle_option

LEMMA RemainStep ==
  ASSUME opts \in Seq(Defined), opts' = opts, Waits, pc \in {"parsing", "callback"},
         NEW i \in DOMAIN opts, NEW n \in Int, n # 0, n < 0 => n = opts[i].narg, NEW v,
         _infra_argp_parse_args_remain(i, n, v)
  PROVE  WordOK
<1>1. CASE n > 0 \/ n \in {OneAtMost, AnyNumber, OneOrMore}
  <2>1. _infra_argp_handle_option(i, v, Due(n))
    BY <1>1 DEF _infra_argp_parse_args_remain
  <2>2. Due(n) \in Int /\ (Due(n) < 0 => Due(n) = opts[i].narg)
    BY <1>1 DEF Due, OneAtMost, AnyNumber, OneOrMore
  <2>3. QED
    BY <2>1, <2>2, HandleStep DEF Waits
<1>2. CASE ~(n > 0 \/ n \in {OneAtMost, AnyNumber, OneOrMore})
  BY <1>2, RaiseStep DEF _infra_argp_parse_args_remain
<1>3. QED
  BY <1>1, <1>2

LEMMA NameStep ==
  ASSUME opts \in Seq(Defined), opts' = opts, Waits, pc \in {"parsing", "callback"},
         opt = NONE, NEW name, NEW value,
         _infra_argp_parse_args_onpass_multi(name, value)
  PROVE  WordOK
<1>. DEFINE i == Least(Named(opts, name))
            n == opts[i].narg
<1>1. CASE Named(opts, name) = {}
  BY <1>1, RaiseStep DEF _infra_argp_parse_args_onpass_multi
<1>2. CASE Named(opts, name) # {}
  <2>1. i \in DOMAIN opts /\ n \in Int
    BY <1>2, FirstNamed, NargOfOption
  <2>2. \/ n = 0 /\ _infra_argp_handle_option(i, NIL, 0)
        \/ n # 0 /\ _infra_argp_parse_args_remain(i, n, value)
        \/ n # 0 /\ opt' = i /\ narg' = n /\ pc' = "parsing" /\ UNCHANGED <<ret, out>>
    BY <1>2 DEF _infra_argp_parse_args_onpass_multi
  <2>. HIDE DEF i
  <2>3. CASE n = 0 /\ _infra_argp_handle_option(i, NIL, 0)
    BY <2>1, <2>3, HandleStep DEF Waits
  <2>4. CASE n # 0 /\ _infra_argp_parse_args_remain(i, n, value)
    BY <2>1, <2>4, RemainStep
  <2>5. CASE n # 0 /\ opt' = i /\ narg' = n /\ pc' = "parsing" /\ UNCHANGED <<ret, out>>
    BY <2>1, <2>5, NoneIsNoPosition DEF WordOK, Waits
  <2>6. QED
    BY <2>2, <2>3, <2>4, <2>5
<1>3. QED
  BY <1>1, <1>2

LEMMA WordStep ==
  ASSUME ArgInv, NEW w \in Word, _infra_argp_parse_args_onepass(w)
  PROVE  ArgInv'
<1>. USE DEF _infra_argp_parse_args_onepass
<1>0. /\ opts \in Seq(Defined) /\ opts' = opts /\ refs' = refs
      /\ Waits /\ pc \in {"parsing", "callback"}
  BY DEF ArgInv
<1>1. WordOK
  <2>1. CASE opt # NONE /\ _infra_argp_parse_args_remain(opt, narg, w)
    <3>1. opt \in DOMAIN opts /\ narg \in Int /\ narg # 0 /\ (narg < 0 => narg = opts[opt].narg)
      BY <1>0, <2>1 DEF Waits
    <3>2. QED
      BY <1>0, <2>1, <3>1, RemainStep
  <2>2. CASE opt = NONE /\ _infra_argp_parse_args_onpass_multi(Split[w].name, Split[w].value)
    BY <1>0, <2>2, NameStep
  <2>3. QED
    BY <2>1, <2>2
<1>2. given' \in Seq(Word) /\ Len(given') <= MaxWords
  BY BoundAssumption DEF ArgInv
<1>3. RegistryIsExact'
  BY <1>0 DEF ArgInv, RegistryIsExact, AllOf
<1>4. QED
  BY <1>0, <1>1, <1>2, <1>3 DEF ArgInv, WordOK

-----------------------------------------------------------------------------
\* The other calls.

LEMMA UnionAdd == ASSUME NEW A, NEW B PROVE UNION (A \cup {B}) = (UNION A) \cup B
OBVIOUS

LEMMA GivenKept ==
  ASSUME ArgInv, given' = given \/ given' = <<>>
  PROVE  given' \in Seq(Word) /\ Len(given') <= MaxWords
<1>1. CASE given' = given
  BY <1>1 DEF ArgInv
<1>2. CASE given' = <<>>
  <2>1. <<>> \in Seq(Word) /\ Len(<<>>) = 0
    OBVIOUS
  <2>2. QED
    BY <1>2, <2>1, BoundAssumption
<1>3. QED
  BY <1>1, <1>2

LEMMA AddStep ==
  ASSUME ArgInv, NEW o \in Option, _infra_argp_add_argument(o)
  PROVE  ArgInv'
<1>. USE DEF _infra_argp_add_argument
<1>. DEFINE d == Define(o)
            n == Len(opts)
<1>0. opts \in Seq(Defined) /\ n \in Nat /\ n < MaxOpts /\ d \in Defined
  BY DEF ArgInv, Defined
<1>. HIDE DEF d
<1>1. opts' = Append(opts, d) /\ refs' = refs \cup ({n + 1} \X Held(d))
  BY DEF d
<1>2. /\ opts' \in Seq(Defined) /\ Len(opts') = n + 1
      /\ DOMAIN opts' = DOMAIN opts \cup {n + 1} /\ n + 1 \notin DOMAIN opts
      /\ \A i \in DOMAIN opts : opts'[i] = opts[i]
      /\ opts'[n + 1] = d
  BY <1>0, <1>1
<1>3. RegistryIsExact'
  <2>. DEFINE S == {{i} \X Held(opts[i]) : i \in DOMAIN opts}
              T == {{i} \X Held(opts'[i]) : i \in DOMAIN opts'}
              B == {n + 1} \X Held(d)
  <2>1. T = S \cup {B}
    BY <1>2
  <2>2. refs = UNION S
    BY DEF ArgInv, RegistryIsExact, AllOf
  <2>3. refs' = refs \cup B
    BY <1>1
  <2>4. RegistryIsExact' <=> refs' = UNION T
    BY DEF RegistryIsExact, AllOf
  <2>. HIDE DEF S, T, B
  <2>5. QED
    BY <2>1, <2>2, <2>3, <2>4, UnionAdd
<1>4. Waits'
  <2>1. CASE UNCHANGED <<pc, opt, narg, ret>>
    BY <1>2, <2>1, NoneIsNoPosition DEF ArgInv, Waits
  <2>2. CASE pc = "idle" /\ ret' = EmptyRet /\ UNCHANGED <<pc, opt, narg>>
    BY <1>2, <2>2, NoneIsNoPosition DEF ArgInv, Waits, EmptyRet
  <2>3. CASE Raise("callback")
    BY <2>3 DEF Raise, Waits, EmptyRet
  <2>4. QED
    BY <2>1, <2>2, <2>3 DEF parseVars
<1>5. given' = given \/ given' = <<>>
  BY DEF parseVars
<1>6. Len(opts') <= MaxOpts
  BY <1>0, <1>2, BoundAssumption
<1>7. QED
  BY <1>2, <1>3, <1>4, <1>5, <1>6, GivenKept DEF ArgInv

LEMMA EndStep ==
  ASSUME ArgInv, WordsEnd
  PROVE  ArgInv'
<1>1. UNCHANGED <<opts, refs, given>>
  BY DEF WordsEnd
<1>2. CASE Raise("raised at end")
  <2>1. WordOK
    BY <1>1, <1>2, RaiseStep
  <2>2. QED
    BY <1>1, <2>1 DEF ArgInv, WordOK, RegistryIsExact, AllOf
<1>3. CASE /\ _infra_argp_check_args_valid # NIL
           /\ pc' = "idle" /\ ret' = _infra_argp_check_args_valid /\ opt' = NONE /\ narg' = 0
  <2>1. DOMAIN ret' = Name
    BY <1>3, CheckKeepsNames DEF ArgInv, Waits
  <2>2. pc' = "idle" /\ opt' = NONE /\ narg' = 0
    BY <1>3
  <2>3. Waits'
    BY <2>1, <2>2 DEF Waits
  <2>4. QED
    BY <1>1, <2>3 DEF ArgInv, RegistryIsExact, AllOf
<1>4. QED
  BY <1>2, <1>3 DEF WordsEnd

LEMMA GcStep ==
  ASSUME ArgInv, _infra_argp_meta_gc
  PROVE  ArgInv'
<1>. USE DEF _infra_argp_meta_gc
<1>1. refs' = {}
  BY DEF ArgInv, RegistryIsExact, AllOf, Released
<1>2. opts' = <<>> /\ opts' \in Seq(Defined) /\ Len(opts') = 0 /\ DOMAIN opts' = {}
  OBVIOUS
<1>3. RegistryIsExact'
  BY <1>1, <1>2 DEF RegistryIsExact, AllOf
<1>4. given' \in Seq(Word) /\ Len(given') <= MaxWords
  BY BoundAssumption
<1>5. Waits'
  BY DEF ArgInv, Waits, EmptyRet
<1>6. QED
  BY <1>2, <1>3, <1>4, <1>5, BoundAssumption DEF ArgInv

LEMMA OtherStep ==
  ASSUME ArgInv, _infra_argp_format_help \/ ParseArgs \/ CallbackRaises \/ Over \/ UNCHANGED vars
  PROVE  ArgInv'
<1>1. opts' = opts /\ refs' = refs
  BY DEF _infra_argp_format_help, ParseArgs, CallbackRaises, Over, vars
<1>2. RegistryIsExact'
  BY <1>1 DEF ArgInv, RegistryIsExact, AllOf
<1>3. given' = given \/ given' = <<>>
  BY DEF _infra_argp_format_help, ParseArgs, CallbackRaises, Over, vars, parseVars
<1>4. Waits'
  <2>1. CASE CallbackRaises
    BY <1>1, <2>1, RaiseStep DEF CallbackRaises, WordOK
  <2>2. CASE _infra_argp_format_help \/ ParseArgs
    BY <1>1, <2>2 DEF ArgInv, Waits, EmptyRet, _infra_argp_format_help, ParseArgs
  <2>3. CASE Over \/ UNCHANGED vars
    BY <2>3 DEF ArgInv, Waits, Over, vars, parseVars
  <2>4. QED
    BY <2>1, <2>2, <2>3
<1>5. QED
  BY <1>1, <1>2, <1>3, <1>4, GivenKept DEF ArgInv

LEMMA Start == Init => ArgInv
<1>. SUFFICES ASSUME Init PROVE ArgInv
  OBVIOUS
<1>1. opts = <<>> /\ DOMAIN opts = {} /\ opts \in Seq(Defined) /\ Len(opts) = 0
  BY DEF Init
<1>2. RegistryIsExact
  BY <1>1 DEF Init, RegistryIsExact, AllOf
<1>3. Waits
  BY DEF Init, Waits, EmptyRet
<1>4. QED
  BY <1>1, <1>2, <1>3, BoundAssumption DEF Init, ArgInv

LEMMA Invariance == Spec => []ArgInv
<1>1. ArgInv /\ [Next]_vars => ArgInv'
  <2>. SUFFICES ASSUME ArgInv, [Next]_vars PROVE ArgInv'
    OBVIOUS
  <2>1. QED
    BY AddStep, WordStep, EndStep, GcStep, OtherStep DEF Next
<1>2. QED
  BY Start, <1>1, PTL DEF Spec

-----------------------------------------------------------------------------
\* What is promised of the parser.

\* The options are a list within its bounds, the option that waits is one of
\* them, and the table that is filled has a place for every name.
THEOREM TypeCorrect == Spec => []TypeOK
<1>1. ArgInv => TypeOK
  <2>. SUFFICES ASSUME ArgInv PROVE TypeOK
    OBVIOUS
  <2>1. refs \subseteq (1..MaxOpts) \X {"action", "type", "choices", "default"}
    <3>1. \A i \in DOMAIN opts : i \in 1..MaxOpts
      BY BoundAssumption DEF ArgInv
    <3>2. QED
      BY <3>1 DEF ArgInv, RegistryIsExact, AllOf, Held
  <2>2. QED
    BY <2>1 DEF ArgInv, Waits, TypeOK
<1>2. QED
  BY <1>1, Invariance, PTL

\* An option waits for values exactly while some are due, whatever the words,
\* and the functions a program may have called in between; so the branch that
\* aborts is never reached.
THEOREM WaitingCorrect == Spec => []OptIffNarg
<1>1. ArgInv => OptIffNarg
  BY DEF ArgInv, Waits, OptIffNarg
<1>2. QED
  BY <1>1, Invariance, PTL

\* The registry holds a reference for each field of an option that has one, those
\* read before an error included, and the collector releases them all.
THEOREM RegistryCorrect == Spec => []RegistryIsExact
<1>1. ArgInv => RegistryIsExact
  BY DEF ArgInv
<1>2. QED
  BY <1>1, Invariance, PTL
=============================================================================
