------------------------------ MODULE EnvBlock ------------------------------
(***************************************************************************)
(* utils/exec.c for Windows: make_program_env, which makes the environment *)
(* of a program: the variables that are given, and those of the host that  *)
(* no program should be without, in the order of their names.              *)
(*                                                                         *)
(* A name is a number, the place of the name among all names when case is  *)
(* ignored, as LCMapStringW does; it is as long as one character.  A value *)
(* is a sequence of characters.                                            *)
(* The host's variables are read twice, and may change in between.         *)
(***************************************************************************)
EXTENDS Integers, Sequences, SequencesExt, TLC

CONSTANT required_vars     \* their names, sorted

ASSUME RequiredAssumption ==
    \A i, j \in DOMAIN required_vars : i < j => required_vars[i] < required_vars[j]

NoName == -1     \* of an entry without a '='

Entry(name, value) == [name |-> name, value |-> value]

\* With the '=' and the null.
Space(entry) == 1 + 1 + Len(entry.value) + 1
SpaceOf(entries) == FoldLeft(LAMBDA n, entry : n + Space(entry), 0, entries)

\* The host's: a function from the names that are set.
GetEnvironmentVariableSize(host, name) == IF name \in DOMAIN host THEN Len(host[name]) + 1 ELSE 0

-----------------------------------------------------------------------------
\* qsort: entries with the same name come in any order.
Sorted(entries) ==
    {s \in {[i \in DOMAIN entries |-> entries[p[i]]] : p \in Permutations(DOMAIN entries)} :
        \A i, j \in DOMAIN s : i < j => s[i].name <= s[j].name}

\* Both passes go through the required variables and the given ones together,
\* whose next ones are the i-th and the j-th: the smaller name is taken, and of
\* two that are equal both are, for one variable.  (A slip: the required one is
\* not.)
TakenOnce(given, i, j) ==
    CASE i > Len(required_vars) -> "given"
      [] j > Len(given)         -> "required"
      [] OTHER                  -> IF required_vars[i] < given[j].name THEN "required" ELSE "given"
Taken(given, i, j) ==
    CASE i > Len(required_vars) -> "given"
      [] j > Len(given)         -> "required"
      [] OTHER                  -> IF required_vars[i] < given[j].name THEN "required"
                                   ELSE IF required_vars[i] = given[j].name THEN "both" ELSE "given"

\* The steps of a pass, each the required variable and the given one it is at.
Walk(given) ==
    LET rounds == Len(required_vars) + Len(given)
        step(s, round) ==
            IF s.i > Len(required_vars) /\ s.j > Len(given) THEN s
            ELSE LET n == Taken(given, s.i, s.j)
                 IN  [i |-> IF n = "given" THEN s.i ELSE s.i + 1,
                      j |-> IF n = "required" THEN s.j ELSE s.j + 1,
                      steps |-> Append(s.steps, [taken |-> n, i |-> s.i, j |-> s.j])]
    IN  FoldLeft(step, [i |-> 1, j |-> 1, steps |-> <<>>], [round \in 1..rounds |-> round]).steps

Missing(step) == step.taken = "required"

\* required_vars_value_len, as the host is at the third pass.
required_vars_value_len(host, step) == GetEnvironmentVariableSize(host, required_vars[step.i])

Counted(given, host) ==
    FoldLeft(LAMBDA n, step : LET len == required_vars_value_len(host, step)
                              IN  IF Missing(step) /\ len # 0 THEN n + 1 + 1 + len ELSE n,
             SpaceOf(given), Walk(given)) + 1

\* The final pass reads the host again: it must find a value of that length.
\* Nothing is an empty value.
ValueNow(host, name) == IF name \in DOMAIN host THEN host[name] ELSE <<>>
Copied(given, then, now, step) ==
    LET name == required_vars[step.i]
    IN  IF ~Missing(step) THEN <<given[step.j]>>
        ELSE IF required_vars_value_len(then, step) = 0 THEN <<>>
        ELSE <<Entry(name, ValueNow(now, name))>>
Changed(then, now, step) ==
    /\ Missing(step) /\ required_vars_value_len(then, step) # 0
    /\ Len(ValueNow(now, required_vars[step.i])) # required_vars_value_len(then, step) - 1

\* Every comparison of two names frees two pointers that malloc did not return
\* (env_strncmp has moved them).  That is undefined: the program may end there.
Compares(given) == given # <<>> /\ (Len(given) > 1 \/ required_vars # <<>>)

Ended(why) == [why |-> why, block |-> <<>>, counted |-> 0]

\* MultiByteToWideChar fails for a variable, or one of the two calls to malloc:
\* their error is the answer.  (An empty block needs no copy.)
Failures(entries) ==
    {Ended("ERROR_OUTOFMEMORY")} \union (IF entries # <<>> THEN {Ended("GetLastError")} ELSE {})

\* What may come of a call.
make_program_env(env, then, now) ==
    LET entries == SelectSeq(env, LAMBDA entry : entry.name # NoName)
        made(given) ==
            IF \E i \in DOMAIN Walk(given) : Changed(then, now, Walk(given)[i]) THEN Ended("abort")
            ELSE [why |-> "returned", counted |-> Counted(given, then),
                  block |-> FlattenSeq([i \in DOMAIN Walk(given) |->
                                           Copied(given, then, now, Walk(given)[i])])]
    IN  {made(given) : given \in Sorted(entries)}
        \union Failures(entries)
        \union (IF Compares(entries) THEN {Ended("undefined")} ELSE {})
=============================================================================
