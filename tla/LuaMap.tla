------------------------------- MODULE LuaMap -------------------------------
(***************************************************************************)
(* function/map.c: the map object of Lua programs, on top of the tree of   *)
(* utils/map.c (here the set of its nodes, see OrderedMap).                *)
(*                                                                         *)
(* Lua values live in the registry; a node holds two references to it, and *)
(* the order of the tree is the order of the keys in the registry.  Every  *)
(* call is one action: no Lua code runs in the middle of it.  Between the  *)
(* steps of a "for ... in map:pairs()" the program does what it likes with *)
(* the map.                                                                *)
(***************************************************************************)
EXTENDS Integers, FiniteSets

CONSTANTS Key,        \* Lua values that may be keys
          Rank,       \* the order infra.compare gives them
          Odd,        \* keys infra.compare cannot compare with each other
          Val,        \* Lua values
          Source,     \* pairs that the table given to make_map may have
          Node,       \* addresses malloc returns
          Ref,        \* references luaL_ref returns
          FREE,       \* what a slot of the registry holds that is not in use
          NULL,
          MaxRaises   \* bound: calls that raise an error and lose something

ASSUME RankAssumption == Rank \in [Key -> Int]
ASSUME OddAssumption == Odd \subseteq Key
ASSUME SourceAssumption == DOMAIN Source \subseteq Key /\ \A k \in DOMAIN Source : Source[k] \in Val
ASSUME FreeAssumption == FREE \notin Key \cup Val
ASSUME NullAssumption == NULL \notin Node \cup Ref \cup Key
ASSUME MaxRaisesAssumption == MaxRaises \in Nat

VARIABLES pc,         \* "copy" in make_map, "ready", "gc" in the collector, "gone"
          heap,       \* the nodes allocated
          tree,       \* the nodes in self->root
          refk, refv, \* the references of each node
          reg,        \* the registry
          half,       \* nodes lost before they had both references
          lost,       \* temporary references nobody will release
          raises,     \* errors raised so far that have lost something
          src,        \* keys of the table given to make_map,
          todo,       \* and those it has still to copy
          it,         \* the collector's iterator
          loop,       \* whether a loop over the map is "on"
          ctl,        \* its control variable: NULL before the first step
          due,        \* ranks in the map since the loop began, not come by yet
          ret         \* the last call, and what it has returned

memVars  == <<heap, tree, refk, refv, reg, half, lost, raises>>
loopVars == <<loop, ctl, due>>
vars == <<pc, memVars, src, todo, it, loopVars, ret>>

TypeOK == /\ pc \in {"copy", "ready", "gc", "gone"}
          /\ heap \subseteq Node /\ tree \subseteq heap
          /\ refk \in [Node -> Ref \cup {NULL}] /\ refv \in [Node -> Ref \cup {NULL}]
          /\ reg \in [Ref -> Key \cup Val \cup {FREE}]
          /\ half \subseteq [node : Node, refk : Ref \cup {NULL}]
          /\ lost \subseteq Ref
          /\ raises \in 0..MaxRaises
          /\ src \subseteq DOMAIN Source /\ todo \subseteq src
          /\ it \in Node \cup {NULL}
          /\ loop \in {"off", "on"} /\ ctl \in Key \cup {NULL}
          /\ due \subseteq Int

Init == /\ pc = "copy"
        /\ heap = {} /\ tree = {}
        /\ refk = [n \in Node |-> NULL] /\ refv = [n \in Node |-> NULL]
        /\ reg = [r \in Ref |-> FREE]
        /\ half = {} /\ lost = {} /\ raises = 0
        /\ src \in SUBSET DOMAIN Source /\ todo = src
        /\ it = NULL
        /\ loop = "off" /\ ctl = NULL /\ due = {}
        /\ ret = <<"nothing">>

-----------------------------------------------------------------------------
\* The tree, as the comparison function sees it.

KeyOf(n)  == reg[refk[n]]
RankOf(n) == Rank[KeyOf(n)]
Ranks     == {RankOf(n) : n \in tree}

\* ev_map_find, ev_map_begin, ev_map_find_upper and ev_map_next: the set of
\* the one node that is the answer, or {}.  (Slips: the same value instead of
\* an equal one, another order.)
FindSame(k) == {n \in tree : KeyOf(n) = k}
Find(k)  == {n \in tree : RankOf(n) = Rank[k]}
Least(S) == {n \in S : \A m \in S : RankOf(n) <= RankOf(m)}
FindOther(k)    == Least({n \in tree : RankOf(n) # Rank[k]})
FindUpper(k)    == Least({n \in tree : RankOf(n) > Rank[k]})
NextOf(n)  == Least({m \in tree : RankOf(m) > RankOf(n)})
OneOf(S) == IF S = {} THEN NULL ELSE CHOOSE n \in S : TRUE

\* _infra_map_cmp may raise an error on the way to k in the nodes T, if one of
\* them cannot be compared with k.  A search for a key that is not there comes
\* by its neighbours whatever the shape of the tree: then it must.
OddFor(k, T) == {n \in T : k \in Odd /\ KeyOf(n) \in Odd /\ RankOf(n) # Rank[k]}
Beside(k, T) == {n \in T : \A m \in T : /\ ~(Rank[k] <= RankOf(m) /\ RankOf(m) < RankOf(n))
                                       /\ ~(RankOf(n) < RankOf(m) /\ RankOf(m) <= Rank[k])}
MayRaise(k)  == OddFor(k, tree) # {} /\ raises < MaxRaises
MustRaise(k, T) == (\A n \in T : RankOf(n) # Rank[k]) /\ OddFor(k, T) \cap Beside(k, T) # {}
Answers(k)   == ~MustRaise(k, tree)

\* malloc and luaL_ref: something not in use.
Used        == heap \cup {h.node : h \in half}
malloc      == CHOOSE n \in Node : n \notin Used
luaL_ref(g) == CHOOSE r \in Ref : g[r] = FREE
FreeRefs    == Cardinality({r \in Ref : reg[r] = FREE})
Room        == Used # Node /\ FreeRefs >= 2

-----------------------------------------------------------------------------
\* What a call does to the memory.

\* _infra_map_erase_node: the node is unlinked and freed, its references
\* released.  (Slips: one of the three is forgotten.)
UnlinkNot(n) == tree
Unlink(n)    == tree \ {n}
UnrefKeyOnly(g, n) == [g EXCEPT ![refk[n]] = FREE]
Unref(g, n)        == [g EXCEPT ![refk[n]] = FREE, ![refv[n]] = FREE]

EraseNode(n) ==
    /\ tree' = Unlink(n)
    /\ heap' = heap \ {n}
    /\ reg' = Unref(reg, n)
    /\ refk' = [refk EXCEPT ![n] = NULL] /\ refv' = [refv EXCEPT ![n] = NULL]
    /\ UNCHANGED <<half, lost, raises>>

\* A new node with references to k and v, and whether it is in the tree.
NewNode(k, v, linked) ==
    LET n  == malloc
        rk == luaL_ref(reg)
        g  == [reg EXCEPT ![rk] = k]
        rv == luaL_ref(g)
    IN  /\ heap' = heap \cup {n}
        /\ tree' = IF linked THEN tree \cup {n} ELSE tree
        /\ refk' = [refk EXCEPT ![n] = rk] /\ refv' = [refv EXCEPT ![n] = rv]
        /\ reg' = [g EXCEPT ![rv] = v]
        /\ UNCHANGED <<half, lost>>

\* The node m goes and a new node comes, into the tree or not.
Swap(k, v, m, linked) ==
    LET n  == malloc
        rk == luaL_ref(reg)
        g  == [reg EXCEPT ![rk] = k]
        rv == luaL_ref(g)
    IN  /\ heap' = (heap \ {m}) \cup {n}
        /\ tree' = IF linked THEN Unlink(m) \cup {n} ELSE Unlink(m)
        /\ refk' = [refk EXCEPT ![m] = NULL, ![n] = rk]
        /\ refv' = [refv EXCEPT ![m] = NULL, ![n] = rv]
        /\ reg' = Unref([g EXCEPT ![rv] = v], m)
        /\ UNCHANGED <<half, lost>>
Exchanged(k, v, m)    == Swap(k, v, m, TRUE) /\ UNCHANGED raises
ExchangedNot(k, v, m) == Swap(k, v, m, FALSE)

\* A node whose key is there already is freed with its references.  (A slip:
\* it is not.)
DroppedNot(k, v) == NewNode(k, v, FALSE) /\ UNCHANGED raises
Dropped(k, v)    == UNCHANGED memVars

\* The comparison raises: the new node and its references are lost.
RaisesWithNode(k, v) ==
    MayRaise(k) /\ raises' = raises + 1 /\ NewNode(k, v, FALSE)

\* The same if luaL_ref raises "not enough memory" for its key, or for its value
\* when it has the key's reference.
LosesHalf(k) ==
    /\ raises < MaxRaises /\ raises' = raises + 1
    /\ \/ /\ half' = half \cup {[node |-> malloc, refk |-> NULL]}
          /\ UNCHANGED reg
       \/ /\ half' = half \cup {[node |-> malloc, refk |-> luaL_ref(reg)]}
          /\ reg' = [reg EXCEPT ![luaL_ref(reg)] = k]
    /\ UNCHANGED <<heap, tree, refk, refv, lost>>

\* The same with the temporary reference of a search.
RaisesWithTmp(k) ==
    /\ MayRaise(k) /\ raises' = raises + 1
    /\ lost' = lost \cup {luaL_ref(reg)}
    /\ reg' = [reg EXCEPT ![luaL_ref(reg)] = k]
    /\ UNCHANGED <<heap, tree, refk, refv, half>>

\* The loop, if any, goes on; the ranks S have been away.
Away(S) == due' = due \ S /\ UNCHANGED <<loop, ctl>>

-----------------------------------------------------------------------------
\* make_map: _infra_map_copy_from_table inserts pair by pair, in the
\* order lua_next happens to have.  An error leaves the map to the collector.

CopyPair(k) ==
    /\ pc = "copy" /\ k \in todo /\ Room
    /\ \/ /\ RaisesWithNode(k, Source[k]) \/ LosesHalf(k) \/ UNCHANGED memVars
          /\ pc' = "gc" /\ it' = OneOf(Least(tree))
          /\ ret' = <<"raised">>
          /\ UNCHANGED todo
       \/ /\ Answers(k)
          /\ IF Find(k) = {} THEN NewNode(k, Source[k], TRUE) /\ UNCHANGED raises
                             ELSE Dropped(k, Source[k])
          /\ todo' = todo \ {k}
          /\ UNCHANGED <<pc, it, ret>>
    /\ UNCHANGED loopVars

CopyEnds ==
    /\ pc = "copy" /\ todo = {}
    /\ pc' = "ready"
    /\ ret' = <<"map">>
    /\ UNCHANGED <<memVars, todo, it, loopVars>>

\* map:insert(k, v)
_infra_map_insert(k, v) ==
    /\ pc = "ready" /\ Room
    /\ \/ /\ RaisesWithNode(k, v) \/ LosesHalf(k)
          /\ ret' = <<"raised">>
       \/ /\ Answers(k) /\ Find(k) = {}
          /\ NewNode(k, v, TRUE) /\ UNCHANGED raises
          /\ ret' = <<"insert", k, v, TRUE>>
       \/ /\ Answers(k) /\ Find(k) # {}
          /\ Dropped(k, v)
          /\ ret' = <<"insert", k, v, FALSE>>
    /\ UNCHANGED <<pc, todo, it, loopVars>>

\* malloc for a node, or luaL_ref for a search, raises before anything has
\* happened; the search may be the loop's own, which ends then.
OutOfMemory ==
    /\ pc = "ready"
    /\ ret' = <<"raised">>
    /\ UNCHANGED loopVars \/ (loop' = "off" /\ ctl' = NULL /\ due' = {})
    /\ UNCHANGED <<pc, memVars, todo, it>>

\* map:replace(k, v): insert; if that fails erase the other node and insert
\* again, over a tree of another shape: that may raise where the first did not,
\* and the old pair is gone.  (A slip: the other node is left there.)
InPlace(k, v)    == UNCHANGED memVars
Replaced(k, v)   == Exchanged(k, v, OneOf(Find(k)))
_infra_map_replace(k, v) ==
    /\ pc = "ready" /\ Room
    /\ \/ /\ RaisesWithNode(k, v) \/ LosesHalf(k)
          /\ ret' = <<"raised">>
          /\ UNCHANGED loopVars
       \/ /\ Answers(k) /\ Find(k) = {}
          /\ NewNode(k, v, TRUE) /\ UNCHANGED raises
          /\ ret' = <<"replace", k, v>>
          /\ UNCHANGED loopVars
       \/ /\ Answers(k) /\ Find(k) # {}
          /\ ~MustRaise(k, tree \ Find(k))
          /\ Replaced(k, v)
          /\ ret' = <<"replace", k, v>>
          /\ UNCHANGED loopVars
       \/ /\ Answers(k) /\ Find(k) # {}
          /\ MayRaise(k) /\ raises' = raises + 1
          /\ ExchangedNot(k, v, OneOf(Find(k)))
          /\ Away({Rank[k]})
          /\ ret' = <<"replace raised">>
    /\ UNCHANGED <<pc, todo, it>>

\* map:erase(k)
_infra_map_erase(k) ==
    /\ pc = "ready" /\ FreeRefs >= 1
    /\ \/ RaisesWithTmp(k) /\ ret' = <<"raised">> /\ UNCHANGED loopVars
       \/ /\ Answers(k) /\ Find(k) = {}
          /\ ret' = <<"erase", k, FALSE>>
          /\ UNCHANGED <<memVars, loopVars>>
       \/ /\ Answers(k) /\ Find(k) # {}
          /\ EraseNode(OneOf(Find(k)))
          /\ Away({Rank[k]})
          /\ ret' = <<"erase", k, TRUE>>
    /\ UNCHANGED <<pc, todo, it>>

\* map:find(k)
_infra_map_find(k) ==
    /\ pc = "ready" /\ FreeRefs >= 1
    /\ \/ RaisesWithTmp(k) /\ ret' = <<"raised">>
       \/ /\ Answers(k)
          /\ ret' = IF Find(k) = {} THEN <<"find", k>>
                    ELSE <<"find", k, reg[refv[OneOf(Find(k))]]>>
          /\ UNCHANGED memVars
    /\ UNCHANGED <<pc, todo, it, loopVars>>

\* map:size()
_infra_map_size ==
    /\ pc = "ready"
    /\ ret' = <<"size", Cardinality(tree)>>
    /\ UNCHANGED <<pc, memVars, todo, it, loopVars>>

-----------------------------------------------------------------------------
\* for k,v in map:pairs() do ... end

_infra_map_pairs ==
    /\ pc = "ready" /\ loop = "off"
    /\ loop' = "on" /\ ctl' = NULL /\ due' = Ranks
    /\ ret' = <<"iterator">>
    /\ UNCHANGED <<pc, memVars, todo, it>>

LoopOff == loop' = "off" /\ ctl' = NULL /\ due' = {}

\* The next pair is found from the key alone, whatever has become of its node.
NextPair == IF ctl = NULL THEN Least(tree) ELSE FindUpper(ctl)
_infra_map_pairs_next ==
    /\ pc = "ready" /\ loop = "on" /\ FreeRefs >= 1
    /\ \/ /\ ctl # NULL /\ RaisesWithTmp(ctl)
          /\ LoopOff
          /\ ret' = <<"raised">>
       \/ /\ ctl # NULL => Answers(ctl)
          /\ NextPair = {}
          /\ LoopOff
          /\ ret' = <<"nil">>
          /\ UNCHANGED memVars
       \/ /\ ctl # NULL => Answers(ctl)
          /\ \E n \in NextPair :
                /\ ctl' = KeyOf(n)
                /\ due' = due \ {RankOf(n)}
                /\ ret' = <<"pair", KeyOf(n), reg[refv[n]]>>
          /\ UNCHANGED <<loop, memVars>>
    /\ UNCHANGED <<pc, todo, it>>

\* The body of the loop breaks out of it.
Break == /\ pc = "ready" /\ loop = "on"
         /\ LoopOff
         /\ UNCHANGED <<pc, memVars, todo, it, ret>>

-----------------------------------------------------------------------------
\* _infra_map_gc: the iterator is advanced before its node is erased.

GcBegins ==
    /\ pc = "ready"
    /\ pc' = "gc"
    /\ it' = OneOf(Least(tree))
    /\ LoopOff
    /\ ret' = <<"nothing">>
    /\ UNCHANGED <<memVars, todo>>

GcNode ==
    /\ pc = "gc" /\ it # NULL
    /\ it' = OneOf(NextOf(it))
    /\ EraseNode(it)
    /\ UNCHANGED <<pc, todo, loopVars, ret>>

GcEnds ==
    /\ pc = "gc" /\ it = NULL
    /\ pc' = "gone"
    /\ UNCHANGED <<memVars, todo, it, loopVars, ret>>

Gone == pc = "gone" /\ UNCHANGED <<pc, memVars, todo, it, loopVars, ret>>

-----------------------------------------------------------------------------
\* The calls with a key of the program's.
Calls(keys) ==
    \E k \in keys : \/ \E v \in Val : _infra_map_insert(k, v) \/ _infra_map_replace(k, v)
                   \/ _infra_map_erase(k)
                   \/ _infra_map_find(k)
Others == \/ \E k \in DOMAIN Source : CopyPair(k)
          \/ CopyEnds
          \/ _infra_map_size \/ OutOfMemory
          \/ _infra_map_pairs \/ _infra_map_pairs_next \/ Break
          \/ GcBegins \/ GcNode \/ GcEnds \/ Gone

Next == (Calls(Key) \/ Others) /\ UNCHANGED src
Spec == Init /\ [][Next]_vars

-----------------------------------------------------------------------------
\* Properties.

\* The order the search relies on: the references of the tree's nodes lead to
\* keys, and no two of them are equal.
TreeIsSearchable ==
    \A m, n \in tree : KeyOf(m) \in Key /\ (RankOf(m) = RankOf(n) => m = n)

\* Every reference in use belongs to one node, as its key or its value, or
\* was lost with an error: none is released twice, shared or forgotten.
Lost == lost \cup ({h.refk : h \in half} \ {NULL})
RegistryIsExact ==
    /\ \A r \in Ref : reg[r] # FREE <=> r \in Lost \/ \E n \in heap : r \in {refk[n], refv[n]}
    /\ \A n \in heap : refk[n] # refv[n]
    /\ \A m, n \in heap : m # n => {refk[m], refv[m]} \cap {refk[n], refv[n]} = {}
    /\ \A n \in heap : {refk[n], refv[n]} \cap Lost = {}

\* Memory is only lost with an error, a node with what it has or a temporary
\* reference each time: every other node is in the tree, and after the
\* collector there is none.
NothingLostSilently ==
    /\ Cardinality(heap \ tree) + Cardinality(half) + Cardinality(lost) = raises
    /\ pc = "gone" => tree = {}

\* A loop over a map that is changed under it goes through the keys upwards,
\* so it comes by none twice, and when it ends it has come by every key that
\* was there all the time.
PairsAscend   == ctl # NULL /\ ctl' # NULL /\ ctl' # ctl => Rank[ctl'] > Rank[ctl]
PairsComplete == loop = "on" /\ loop' = "off" /\ ret' = <<"nil">> => due = {}
LoopsAreExact == [][PairsAscend /\ PairsComplete]_vars

\* To a Lua program the map is a dictionary: registry, nodes and references
\* do not show.
Dict == [k \in {KeyOf(n) : n \in tree} |-> reg[refv[CHOOSE n \in tree : KeyOf(n) = k]]]
D == INSTANCE LuaDict WITH dict <- IF pc = "ready" THEN Dict ELSE [h \in {} |-> 0]
ImplementsLuaDict == D!Spec
=============================================================================
