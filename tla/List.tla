-------------------------------- MODULE List --------------------------------
(***************************************************************************)
(* utils/list.c: the doubly linked list.                                   *)
(*                                                                         *)
(* Nodes belong to the caller, and so does the rule that a node is pushed  *)
(* or inserted when it is in no list, and erased from the list it is in.   *)
(* mem is the memory the calls work on: the headers of the lists and the   *)
(* links in the nodes.  A call is a function from one memory to the next.  *)
(***************************************************************************)
EXTENDS Integers, FiniteSets, SequencesExt

CONSTANTS List, Node, Nil

ASSUME NilAssumption == Nil \notin Node
ASSUME NodeAssumption == IsFiniteSet(Node)

VARIABLES mem,
          popped    \* what the last pop has returned

vars == <<mem, popped>>

Ptr == Node \cup {Nil}

TypeOK == /\ mem \in [head : [List -> Ptr], tail : [List -> Ptr],
                      size : [List -> 0..Cardinality(Node)],
                      p_after : [Node -> Ptr], p_before : [Node -> Ptr]]
          /\ popped \in Ptr

\* ev_list_init; a node that is in no list has no neighbours.
Init == /\ mem = [head |-> [l \in List |-> Nil], tail |-> [l \in List |-> Nil],
                  size |-> [l \in List |-> 0],
                  p_after |-> [n \in Node |-> Nil], p_before |-> [n \in Node |-> Nil]]
        /\ popped = Nil

-----------------------------------------------------------------------------
\* The calls, in the memory m.

_list_lite_set_once(m, l, n) ==
    [m EXCEPT !.head[l] = n, !.tail[l] = n, !.p_after[n] = Nil, !.p_before[n] = Nil,
              !.size[l] = 1]

ev_list_push_back(m, l, n) ==
    IF m.head[l] = Nil THEN _list_lite_set_once(m, l, n)
    ELSE [m EXCEPT !.p_after[n] = Nil, !.p_before[n] = m.tail[l],
                   !.p_after[m.tail[l]] = n, !.tail[l] = n, !.size[l] = @ + 1]

ev_list_push_front(m, l, n) ==
    IF m.head[l] = Nil THEN _list_lite_set_once(m, l, n)
    ELSE [m EXCEPT !.p_before[n] = Nil, !.p_after[n] = m.head[l],
                   !.p_before[m.head[l]] = n, !.head[l] = n, !.size[l] = @ + 1]

ev_list_insert_before(m, l, pos, n) ==
    IF m.head[l] = pos THEN ev_list_push_front(m, l, n)
    ELSE [m EXCEPT !.p_before[n] = m.p_before[pos], !.p_after[n] = pos,
                   !.p_after[m.p_before[pos]] = n, !.p_before[pos] = n, !.size[l] = @ + 1]

\* (A slip: the node behind pos is not told.)
insert_after_one_way(m, l, pos, n) ==
    IF m.tail[l] = pos THEN ev_list_push_back(m, l, n)
    ELSE [m EXCEPT !.p_before[n] = pos, !.p_after[n] = m.p_after[pos],
                   !.p_after[pos] = n, !.size[l] = @ + 1]
ev_list_insert_after(m, l, pos, n) ==
    IF m.tail[l] = pos THEN ev_list_push_back(m, l, n)
    ELSE [m EXCEPT !.p_before[n] = pos, !.p_after[n] = m.p_after[pos],
                   !.p_before[m.p_after[pos]] = n, !.p_after[pos] = n, !.size[l] = @ + 1]

\* n leaves l: only node, first, last, or one in the middle.
Bypassed(m, l, n) ==
    CASE m.head[l] = n /\ m.tail[l] = n -> [m EXCEPT !.head[l] = Nil, !.tail[l] = Nil]
      [] m.head[l] = n /\ m.tail[l] # n -> [m EXCEPT !.p_before[m.p_after[n]] = Nil,
                                                     !.head[l] = m.p_after[n]]
      [] m.head[l] # n /\ m.tail[l] = n -> [m EXCEPT !.p_after[m.p_before[n]] = Nil,
                                                     !.tail[l] = m.p_before[n]]
      [] OTHER -> [m EXCEPT !.p_after[m.p_before[n]] = m.p_after[n],
                            !.p_before[m.p_after[n]] = m.p_before[n]]

ev_list_erase(m, l, n) ==
    [Bypassed(m, l, n) EXCEPT !.size[l] = @ - 1, !.p_after[n] = Nil, !.p_before[n] = Nil]

\* (A slip: the new last node is that of dst.)
migrate_keeps_tail(m, dst, src) ==
    LET empty == [m EXCEPT !.head[src] = Nil, !.tail[src] = Nil, !.size[src] = 0]
    IN  CASE m.head[src] = Nil -> m
          [] m.head[src] # Nil /\ m.tail[dst] = Nil ->
               [empty EXCEPT !.head[dst] = m.head[src], !.tail[dst] = m.tail[src],
                             !.size[dst] = m.size[src]]
          [] OTHER ->
               [empty EXCEPT !.p_after[m.tail[dst]] = m.head[src],
                             !.p_before[m.head[src]] = m.tail[dst],
                             !.size[dst] = @ + m.size[src]]
ev_list_migrate(m, dst, src) ==
    LET empty == [m EXCEPT !.head[src] = Nil, !.tail[src] = Nil, !.size[src] = 0]
    IN  CASE m.head[src] = Nil -> m
          [] m.head[src] # Nil /\ m.tail[dst] = Nil ->
               [empty EXCEPT !.head[dst] = m.head[src], !.tail[dst] = m.tail[src],
                             !.size[dst] = m.size[src]]
          [] OTHER ->
               [empty EXCEPT !.p_after[m.tail[dst]] = m.head[src],
                             !.p_before[m.head[src]] = m.tail[dst],
                             !.tail[dst] = m.tail[src],
                             !.size[dst] = @ + m.size[src]]

ev_list_begin(l) == mem.head[l]
ev_list_end(l)   == mem.tail[l]
ev_list_next(n)  == mem.p_after[n]
ev_list_prev(n)  == mem.p_before[n]
ev_list_size(l)  == mem.size[l]

-----------------------------------------------------------------------------
\* A walk over a list in either direction, as far as there are nodes.
Walk(first, step) ==
    LET at[i \in 1..Cardinality(Node)] ==
            IF i = 1 THEN first ELSE IF at[i - 1] = Nil THEN Nil ELSE step[at[i - 1]]
    IN  SubSeq(at, 1, Cardinality({i \in DOMAIN at : at[i] # Nil}))
Forward(l)  == Walk(ev_list_begin(l), [n \in Node |-> ev_list_next(n)])
Backward(l) == Walk(ev_list_end(l), [n \in Node |-> ev_list_prev(n)])
In(l)       == ToSet(Forward(l))
Unlisted    == Node \ UNION {In(l) : l \in List}

\* The calls a program may make.
PushBack(l, n)  == n \in Unlisted /\ mem' = ev_list_push_back(mem, l, n) /\ UNCHANGED popped
PushFront(l, n) == n \in Unlisted /\ mem' = ev_list_push_front(mem, l, n) /\ UNCHANGED popped
InsertBefore(l, pos, n) == /\ n \in Unlisted /\ pos \in In(l)
                           /\ mem' = ev_list_insert_before(mem, l, pos, n)
                           /\ UNCHANGED popped
InsertAfter(l, pos, n)  == /\ n \in Unlisted /\ pos \in In(l)
                           /\ mem' = ev_list_insert_after(mem, l, pos, n)
                           /\ UNCHANGED popped
Erase(l, n) == n \in In(l) /\ mem' = ev_list_erase(mem, l, n) /\ UNCHANGED popped

\* What a pop does with the node n it has found.
Pop(l, n) == /\ popped' = n
             /\ mem' = IF n = Nil THEN mem ELSE ev_list_erase(mem, l, n)
ev_list_pop_front(l) == Pop(l, ev_list_begin(l))
ev_list_pop_back(l)  == Pop(l, ev_list_end(l))

Migrate(dst, src) == dst # src /\ mem' = ev_list_migrate(mem, dst, src) /\ UNCHANGED popped

Next == \E l \in List :
          \/ \E n \in Node : \/ PushBack(l, n) \/ PushFront(l, n) \/ Erase(l, n)
                             \/ \E pos \in Node : InsertBefore(l, pos, n) \/ InsertAfter(l, pos, n)
          \/ ev_list_pop_front(l) \/ ev_list_pop_back(l)
          \/ \E src \in List : Migrate(l, src)

Spec == Init /\ [][Next]_vars

-----------------------------------------------------------------------------
\* Properties.

\* Both directions of every list go through the same nodes, as many as its
\* size says; all pointers are to nodes; no node is in two lists; and a node in
\* none has no neighbours, so an erased node leads nowhere.
LinksAgree ==
    /\ TypeOK
    /\ \A l \in List : /\ Backward(l) = Reverse(Forward(l))
                       /\ ev_list_size(l) = Len(Forward(l))
    /\ \A k, l \in List : k # l => In(k) \cap In(l) = {}
    /\ \A n \in Unlisted : ev_list_next(n) = Nil /\ ev_list_prev(n) = Nil

\* Each call does to the sequence what list.h says of it.
Seqs == INSTANCE ListSeq WITH seq <- [l \in List |-> Forward(l)]
CallsAreExact ==
    /\ Seqs!Init
    /\ [][\A l \in List :
            /\ \A n \in Node :
                 /\ PushBack(l, n)  => Seqs!PushBack(l, n)
                 /\ PushFront(l, n) => Seqs!PushFront(l, n)
                 /\ Erase(l, n)     => Seqs!Erase(l, n)
                 /\ \A pos \in Node : /\ InsertBefore(l, pos, n) => Seqs!InsertBefore(l, pos, n)
                                      /\ InsertAfter(l, pos, n)  => Seqs!InsertAfter(l, pos, n)
            /\ ev_list_pop_front(l) => Seqs!PopFront(l)
            /\ ev_list_pop_back(l)  => Seqs!PopBack(l)
            /\ \A src \in List : Migrate(l, src) => Seqs!Migrate(l, src)]_vars
=============================================================================
