------------------------------ MODULE MCLuaMap ------------------------------
(* "errors": keys 1 to 3, of which 1 and 3 cannot be compared, three nodes,   *)
(* and luaL_ref may run out of memory.                                        *)
(* "loops": keys that can be compared, 4 equal to 2, in four nodes.           *)
EXTENDS LuaMap

VARIABLE plan     \* what the program does, chosen once

MCRank   == [k \in Key |-> IF k = 4 THEN 2 ELSE k]
MCSource == [k \in Key |-> 11]
MCRef    == 1..(2 * Cardinality(Node) + 1)

Keys(p) == IF p = "errors" THEN {1, 2, 3} ELSE {2, 4, 5, 6}
MCInit == Init /\ plan \in {"errors", "loops"} /\ src = Keys(plan)
MCNext == /\ Calls(Keys(plan)) \/ Others
          /\ plan = "loops" => half' = {}
          /\ plan = "errors" => Cardinality(Used') <= 3 /\ \A r \in 8..9 : reg'[r] = FREE
          /\ UNCHANGED <<src, plan>>
MCSpec == MCInit /\ [][MCNext]_<<vars, plan>>
=============================================================================
