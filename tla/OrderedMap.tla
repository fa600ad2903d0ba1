----------------------------- MODULE OrderedMap -----------------------------
(***************************************************************************)
(* What utils/map.h promises: a set of nodes, no two with the same key,    *)
(* and the searches over it.  A node is the caller's; two nodes may have   *)
(* the same key, but not both be in the map.                               *)
(***************************************************************************)
EXTENDS Integers

CONSTANTS Node, Nil,
          Key         \* the key of each node, ordered by the compare function


VARIABLES nodes,      \* the nodes in the map
          answer      \* what the last ev_map_insert has returned

mapVars == <<nodes, answer>>

\* The nodes of s with a given key, the least and the greatest node of s.
WithKey(s, k) == {n \in s : Key[n] = k}
One(s)   == IF s = {} THEN Nil ELSE CHOOSE n \in s : TRUE
First(s) == One({n \in s : \A m \in s : Key[n] <= Key[m]})
Last(s)  == One({n \in s : \A m \in s : Key[n] >= Key[m]})

\* "Finds element with specific key", "the first element not less than" and
\* "the first element greater than the given key".
Find(k)      == One(WithKey(nodes, k))
FindLower(k) == First({n \in nodes : Key[n] >= k})
FindUpper(k) == First({n \in nodes : Key[n] > k})
Before(k)    == Last({n \in nodes : Key[n] < k})

Init == nodes = {} /\ answer = Nil

\* "NULL if success, otherwise return the conflict node address."
Insert(n) == /\ n \notin nodes
             /\ answer' = Find(Key[n])
             /\ nodes' = IF answer' = Nil THEN nodes \cup {n} ELSE nodes

Erase(n) == /\ n \in nodes
            /\ nodes' = nodes \ {n}
            /\ UNCHANGED answer

Next == \E n \in Node : Insert(n) \/ Erase(n)
Spec == Init /\ [][Next]_mapVars

\* No two nodes of the map have the same key.
KeysAreUnique == \A m, n \in nodes : Key[m] = Key[n] => m = n
=============================================================================
