---------------------------- MODULE IntegerRange ----------------------------
(***************************************************************************)
(* function/range.c: infra.range(start, stop, step), an object that a loop *)
(* walks through and that is indexed with an integer.                      *)
(*                                                                         *)
(* A lua_Integer has Width bits.  Where the C code overflows, which it     *)
(* leaves undefined, the machine's wrap-around is taken.                   *)
(***************************************************************************)
EXTENDS Binary, Sequences, SequencesExt

CONSTANT Width

ASSUME WidthAssumption == Width \in Nat \ {0, 1}

MinInteger == -(Pow2[Width - 1])
MaxInteger == Pow2[Width - 1] - 1
lua_Integer == MinInteger..MaxInteger
Wrap(n) == ((n - MinInteger) % (Pow2[Width])) + MinInteger

nil == Pow2[Width]     \* no integer
TRAP == "SIGFPE"     \* what x86 does on a quotient it cannot represent

AbsoluteOf(n) == IF n < 0 THEN -n ELSE n

_infra_range(start, stop, step) == [start |-> start, stop |-> stop, step |-> step]

_infra_range_index(self, n) ==
    LET distance == Wrap(n - self.start)
    IN  IF n < self.start \/ n >= self.stop THEN FALSE
        ELSE IF self.step = 0 \/ (self.step = -1 /\ distance = MinInteger) THEN TRAP
        ELSE distance % AbsoluteOf(self.step) = 0

\* (A slip: a loop that gets to stop.)
next_to_stop(self, n) ==
    IF n = nil THEN self.start
    ELSE IF Wrap(n + self.step) > self.stop THEN nil ELSE Wrap(n + self.step)
_infra_range_next(self, n) ==
    IF n = nil THEN self.start
    ELSE IF Wrap(n + self.step) >= self.stop THEN nil ELSE Wrap(n + self.step)

\* What `for n in pairs(self)` gets, a nil at the end, if it takes no more than
\* rounds rounds.
_infra_range_pairs(self, rounds) ==
    LET seen[round \in 0..rounds] ==
            IF round = 0 THEN <<_infra_range_next(self, nil)>>
            ELSE LET before == seen[round - 1]
                 IN  IF Last(before) = nil THEN before
                     ELSE Append(before, _infra_range_next(self, Last(before)))
    IN  seen[rounds]
=============================================================================
