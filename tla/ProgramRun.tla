----------------------------- MODULE ProgramRun -----------------------------
(***************************************************************************)
(* What infra.execute promises, with no pipe in sight.                     *)
(*                                                                         *)
(* A program writes blocks to its streams and ends; a descendant it leaves *)
(* behind may go on writing to them.  The call returns once, after the     *)
(* program has ended, with everything the program wrote, in order, and     *)
(* possibly something of what came after.  Or it raises a Lua error, or    *)
(* the whole process is lost.                                              *)
(***************************************************************************)
EXTENDS Naturals, SequencesExt

CONSTANTS Stream, Block, Status, Succeeded(_)

VARIABLES wrote,    \* per stream, what has been written to it
          status,   \* "running", or how the program ended
          atEnd,    \* wrote when it ended
          outcome   \* what the caller has got

runVars == <<wrote, status, atEnd, outcome>>

Nothing == [s \in Stream |-> <<>>]
Outcome(is, ok, out) == [is |-> is, ok |-> ok, out |-> out]

Init == /\ wrote = Nothing
        /\ status = "running"
        /\ atEnd = Nothing
        /\ outcome = Outcome("none", FALSE, Nothing)

Write(s, b) == /\ wrote' = [wrote EXCEPT ![s] = Append(@, b)]
               /\ UNCHANGED <<status, atEnd, outcome>>

End(st) == /\ status = "running"
           /\ status' = st
           /\ atEnd' = wrote
           /\ UNCHANGED <<wrote, outcome>>

\* The outputs the call may return: at least atEnd, at most wrote.
Acceptable == {o \in [Stream -> UNION {Prefixes(wrote[s]) : s \in Stream}] :
                 \A s \in Stream : IsPrefix(atEnd[s], o[s]) /\ IsPrefix(o[s], wrote[s])}

Return == /\ outcome.is = "none"
          /\ status # "running"
          /\ \E o \in Acceptable : outcome' = Outcome("returned", Succeeded(status), o)
          /\ UNCHANGED <<wrote, status, atEnd>>

Raise == /\ outcome.is = "none"
         /\ outcome' = Outcome("raised", FALSE, Nothing)
         /\ UNCHANGED <<wrote, status, atEnd>>

Die == /\ outcome.is \in {"none", "raised"}
       /\ outcome' = Outcome("dead", FALSE, Nothing)
       /\ UNCHANGED <<wrote, status, atEnd>>

Next == \/ \E s \in Stream, b \in Block : Write(s, b)
        \/ \E st \in Status : End(st)
        \/ Return \/ Raise \/ Die

Spec == Init /\ [][Next]_runVars
=============================================================================
