------------------------------ MODULE MCRbTree ------------------------------
(* Nodes 1..N have their number as key; node 0 has the key of node Twin.     *)
EXTENDS RbTree

CONSTANTS N, Twin, Small

VARIABLE plan     \* what the caller does, chosen once

MCNode == 0..N
MCKey  == [n \in 0..N |-> IF n = 0 THEN Twin ELSE n]

\* "any": every history of the nodes up to Small.  "deep": histories that reach
\* deep trees: fill upwards or downwards, then erase from either end.
AtAnEnd(n) == (\A m \in InTree : m <= n) \/ (\A m \in InTree : m >= n)
FillThenDrain ==
    /\ pc = "idle" /\ pc' = "descend" => InTree \in {1..(node' - 1), (node' + 1)..N}
    /\ pc = "idle" /\ size' < size => \A n \in InTree \ InTree' : AtAnEnd(n)

MCInit == Init /\ plan \in {"any", "deep"}
MCNext == /\ \/ plan = "any" /\ (Loops \/ \E n \in 0..Small : ev_map_insert(n) \/ ev_map_erase(n))
             \/ plan = "deep" /\ Next /\ FillThenDrain
          /\ UNCHANGED plan
MCSpec == MCInit /\ [][MCNext]_<<vars, plan>> /\ WF_vars(Loops)
=============================================================================
