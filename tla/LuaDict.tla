------------------------------ MODULE LuaDict ------------------------------
(***************************************************************************)
(* What the help of make_map (function/map.c:364-392) promises to a Lua    *)
(* program: a dictionary whose keys are ordered by infra.compare.          *)
(***************************************************************************)
EXTENDS Integers, FiniteSets

CONSTANTS Key,      \* Lua values that may be keys
          Rank,     \* their order: equal ranks are equal keys
          Val,      \* Lua values
          Source    \* pairs of the table given to make_map

VARIABLES src,      \* keys of that table
          dict,     \* a function from the keys that are there to their values
          ret       \* the last call, and what it has returned

dictVars == <<src, dict, ret>>

Empty == [h \in {} |-> 0]

\* The keys of the dictionary that equal k: one or none.
Equal(k) == {h \in DOMAIN dict : Rank[h] = Rank[k]}

With(d, k, v) == [h \in DOMAIN d \cup {k} |-> IF h = k THEN v ELSE d[h]]
Without(d, S) == [h \in DOMAIN d \ S |-> d[h]]

Init == src \in SUBSET DOMAIN Source /\ dict = Empty /\ ret = <<"nothing">>

\* Of equal keys of the table, one gets into the map.
Make == /\ ret' = <<"map">>
        /\ ret = <<"nothing">> /\ dict = Empty
        /\ \E S \in SUBSET src :
              /\ \A k \in src : \E h \in S : Rank[h] = Rank[k]
              /\ \A h, k \in S : Rank[h] = Rank[k] => h = k
              /\ dict' = [h \in S |-> Source[h]]

\* "Insert key and value into map. If a key is exist, return false."
Insert(k, v) == \/ /\ ret' = <<"insert", k, v, TRUE>>
                   /\ Equal(k) = {}
                   /\ dict' = With(dict, k, v)
                \/ /\ ret' = <<"insert", k, v, FALSE>>
                   /\ Equal(k) # {}
                   /\ UNCHANGED dict

\* "Insert key and value into map, replace any existing key and value."
Replace(k, v) == /\ ret' = <<"replace", k, v>>
                 /\ dict' = With(Without(dict, Equal(k)), k, v)

\* "Erase key-value pair from map. If the key is not exist, return false."
Erase(k) == /\ ret' \in {<<"erase", k, b>> : b \in BOOLEAN}
            /\ ret'[3] = (Equal(k) # {})
            /\ dict' = Without(dict, Equal(k))

\* "If found, the first return value is true, the second is the associated
\* value. If not found, return false and nil."
Find(k) == /\ \/ ret' = <<"find", k>> /\ Equal(k) = {}
              \/ \E h \in Equal(k) : ret' = <<"find", k, dict[h]>>
           /\ UNCHANGED dict

\* A step of "for k,v in map:pairs() do", with a pair or at the end.
Pairs == /\ \/ ret' = <<"iterator">>
            \/ ret' = <<"nil">>
            \/ \E h \in DOMAIN dict : ret' = <<"pair", h, dict[h]>>
         /\ UNCHANGED dict

\* "Return the number of elements."
Size == ret' = <<"size", Cardinality(DOMAIN dict)>> /\ UNCHANGED dict

\* A call that raises an error changes nothing, but replace may have erased the
\* key when its error comes.
Raise == ret' = <<"raised">> /\ UNCHANGED dict
RaiseInReplace(k) == ret' = <<"replace raised">> /\ dict' = Without(dict, Equal(k))

Collect == ret' = <<"nothing">> /\ dict' = Empty

Next == /\ \/ Make
           \/ \E k \in Key : \/ \E v \in Val : Insert(k, v) \/ Replace(k, v)
                             \/ Erase(k) \/ Find(k) \/ RaiseInReplace(k)
           \/ Pairs \/ Size \/ Raise \/ Collect
        /\ UNCHANGED src

Spec == Init /\ [][Next]_dictVars
=============================================================================
