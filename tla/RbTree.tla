------------------------------- MODULE RbTree -------------------------------
(***************************************************************************)
(* utils/map.c: the red-black tree behind the ordered map.                 *)
(*                                                                         *)
(* Nodes belong to the caller.  The tree is the pointers in them: root,    *)
(* kid[s][n] (rb_left and rb_right), parent and color (the two halves of   *)
(* __rb_parent_color).  Every branch of the code on the left has a mirror  *)
(* image on the right; s is the side, and one definition stands for both.  *)
(*                                                                         *)
(* The loops run one iteration to an action, so the loop invariants the    *)
(* comments of the code state are invariants here.  An erased node is      *)
(* freed at once, as function/map.c does.                                  *)
(***************************************************************************)
EXTENDS Integers, FiniteSets

CONSTANTS Node, Nil,
          Key         \* the key of each node: what handler->cmp compares

ASSUME NilAssumption == Nil \notin Node
ASSUME NodeAssumption == IsFiniteSet(Node)
ASSUME KeyAssumption == Key \in [Node -> Int]

VARIABLES tree,       \* rb_root and what the nodes hold
          size,
          pc,         \* the loop that is running, or "idle"
          node,       \* locals of that loop
          parent,
          link,       \* new_node in ev_map_insert: a field of parent, or the root
          answer      \* what the last ev_map_insert returns

vars == <<tree, size, pc, node, parent, link, answer>>

RED   == "red"
BLACK == "black"
Side  == {"rb_left", "rb_right"}
Other(s) == IF s = "rb_left" THEN "rb_right" ELSE "rb_left"
Ptr   == Node \cup {Nil}

Tree == [root : Ptr, kid : [Side -> [Node -> Ptr]], parent : [Node -> Ptr],
         color : [Node -> {RED, BLACK}]]

TypeOK == /\ tree \in Tree
          /\ size \in 0..Cardinality(Node)
          /\ pc \in {"idle", "descend", "rb_insert", "erase_color"}
          /\ node \in Ptr /\ parent \in Ptr
          /\ link \in Side \cup {"rb_root"}
          /\ answer \in Ptr

Init == /\ tree = [root |-> Nil, kid |-> [s \in Side |-> [n \in Node |-> Nil]],
                   parent |-> [n \in Node |-> Nil], color |-> [n \in Node |-> RED]]
        /\ size = 0
        /\ pc = "idle"
        /\ node = Nil /\ parent = Nil /\ link = "rb_root"
        /\ answer = Nil

-----------------------------------------------------------------------------
\* Operations on the pointers of a tree t.

IsRed(t, n)   == n # Nil /\ t.color[n] = RED
IsBlack(t, n) == ~IsRed(t, n)

rb_set_kid(t, s, n, c)             == [t EXCEPT !.kid[s][n] = c]
rb_set_parent_color(t, n, p, c)    == [t EXCEPT !.parent[n] = p, !.color[n] = c]
rb_set_parent_color_if(t, n, p, c) == IF n = Nil THEN t ELSE rb_set_parent_color(t, n, p, c)
rb_set_parent(t, n, p)             == IF n = Nil THEN t ELSE [t EXCEPT !.parent[n] = p]

__rb_change_child(t, old, new, p) ==
    IF p = Nil THEN [t EXCEPT !.root = new]
    ELSE rb_set_kid(t, IF t.kid["rb_left"][p] = old THEN "rb_left" ELSE "rb_right", p, new)

\* new takes the place and the colour of old; old becomes its child.
__rb_rotate_set_parents(t, old, new, c) ==
    LET p == t.parent[old]
    IN  __rb_change_child(rb_set_parent_color(rb_set_parent_color(t, new, p, t.color[old]),
                                              old, new, c),
                          old, new, p)

\* The node that is furthest to the side s below n.
Utmost(s, n) == LET far[m \in Ptr] == IF m = Nil \/ tree.kid[s][m] = Nil
                                      THEN m ELSE far[tree.kid[s][m]]
                IN  far[n]

Return == pc' = "idle" /\ node' = Nil /\ parent' = Nil /\ link' = "rb_root"
Continue(n, p) == node' = n /\ parent' = p /\ UNCHANGED <<pc, link>>

\* The nodes of t from each node downwards, and those in the tree.
Below(t) == LET below[n \in Ptr] == IF n = Nil THEN {} ELSE
                  {n} \cup below[t.kid["rb_left"][n]] \cup below[t.kid["rb_right"][n]]
            IN  below
InTree == Below(tree)[tree.root]

-----------------------------------------------------------------------------
\* ev_map_insert.

ev_map_insert(n) ==
    /\ pc = "idle"
    /\ n \notin InTree
    /\ pc' = "descend"
    /\ node' = n /\ parent' = Nil /\ link' = "rb_root"
    /\ UNCHANGED <<tree, size, answer>>

\* *new_node
There == IF link = "rb_root" THEN tree.root ELSE tree.kid[link][parent]

Descend ==
    /\ pc = "descend"
    /\ There # Nil
    /\ Key[node] # Key[There]
    /\ parent' = There
    /\ link' = IF Key[node] < Key[There] THEN "rb_left" ELSE "rb_right"
    /\ UNCHANGED <<tree, size, pc, node, answer>>

\* The key is there already.  (Slips: counted all the same; the caller gets
\* its own node back.)
ConflictCounted ==
    /\ pc = "descend"
    /\ There # Nil
    /\ Key[node] = Key[There]
    /\ answer' = There
    /\ size' = size + 1
    /\ Return
    /\ UNCHANGED tree
ConflictOwn ==
    /\ pc = "descend"
    /\ There # Nil
    /\ Key[node] = Key[There]
    /\ answer' = node
    /\ Return
    /\ UNCHANGED <<tree, size>>
Conflict ==
    /\ pc = "descend"
    /\ There # Nil
    /\ Key[node] = Key[There]
    /\ answer' = There
    /\ Return
    /\ UNCHANGED <<tree, size>>

\* _ev_map_low_link_node: a red leaf.
_ev_map_low_link_node ==
    LET leaf == rb_set_parent_color([tree EXCEPT !.kid = [s \in Side |-> [@[s] EXCEPT ![node] = Nil]]],
                                    node, parent, RED)
    IN  IF link = "rb_root" THEN [leaf EXCEPT !.root = node]
                            ELSE rb_set_kid(leaf, link, parent, node)

Link ==
    /\ pc = "descend"
    /\ There = Nil
    /\ size' = size + 1
    /\ tree' = _ev_map_low_link_node
    /\ answer' = Nil
    /\ pc' = "rb_insert"
    /\ link' = "rb_root"
    /\ UNCHANGED <<node, parent>>

-----------------------------------------------------------------------------
\* __rb_insert, the loop.

InsertRoot ==
    /\ pc = "rb_insert"
    /\ parent = Nil
    /\ tree' = rb_set_parent_color(tree, node, Nil, BLACK)
    /\ Return
    /\ UNCHANGED <<size, answer>>

\* (A slip: the loop is not left.)
InsertUnderBlackStays ==
    pc = "rb_insert" /\ parent # Nil /\ tree.color[parent] = BLACK /\ UNCHANGED vars
InsertUnderBlack ==
    /\ pc = "rb_insert"
    /\ parent # Nil
    /\ tree.color[parent] = BLACK
    /\ Return
    /\ UNCHANGED <<tree, size, answer>>

gparent == tree.parent[parent]
ParentSide == IF parent # tree.kid["rb_right"][gparent] THEN "rb_left" ELSE "rb_right"
uncle == tree.kid[Other(ParentSide)][gparent]

\* Case 1.
Case1 == rb_set_parent_color(
             rb_set_parent_color(rb_set_parent_color(tree, uncle, gparent, BLACK),
                                 parent, gparent, BLACK),
             gparent, tree.parent[gparent], RED)

InsertFlip ==
    /\ pc = "rb_insert"
    /\ IsRed(tree, parent)
    /\ IsRed(tree, uncle)
    /\ tree' = Case1
    /\ Continue(gparent, tree.parent[gparent])
    /\ UNCHANGED <<size, answer>>

\* Case 2: rotation at the parent, towards its side s.  Case 3: rotation at
\* the grandparent g, away from it.
Case2(s) ==
    LET tmp == tree.kid[s][node]
        t   == rb_set_kid(rb_set_kid(tree, Other(s), parent, tmp), s, node, parent)
    IN  rb_set_parent_color(rb_set_parent_color_if(t, tmp, parent, BLACK), parent, node, RED)

Case3(t, s, g, p) ==
    LET tmp == t.kid[Other(s)][p]
        u   == rb_set_kid(rb_set_kid(t, s, g, tmp), Other(s), p, g)
    IN  __rb_rotate_set_parents(rb_set_parent_color_if(u, tmp, g, BLACK), g, p, RED)

Case23 == IF node = tree.kid[Other(ParentSide)][parent]
          THEN Case3(Case2(ParentSide), ParentSide, gparent, node)
          ELSE Case3(tree, ParentSide, gparent, parent)

InsertRotate ==
    /\ pc = "rb_insert"
    /\ IsRed(tree, parent)
    /\ IsBlack(tree, uncle)
    /\ tree' = Case23
    /\ Return
    /\ UNCHANGED <<size, answer>>

-----------------------------------------------------------------------------
\* ev_map_erase.

Freed(t, n) == [t EXCEPT !.kid = [s \in Side |-> [@[s] EXCEPT ![n] = Nil]],
                         !.parent[n] = Nil, !.color[n] = RED]

\* Case 1: n has at most one child c, which takes its place and colour.
EraseUpToOne(n, c) ==
    LET p == tree.parent[n]
    IN  [tree      |-> rb_set_parent_color_if(__rb_change_child(tree, n, c, p), c, p, tree.color[n]),
         rebalance |-> IF c = Nil /\ tree.color[n] = BLACK THEN p ELSE Nil]

\* Cases 2 and 3: the successor takes the place and colour of n, and its
\* right child takes the successor's place.
EraseTwo(n) ==
    LET child     == tree.kid["rb_right"][n]
        successor == Utmost("rb_left", child)
        child2    == tree.kid["rb_right"][successor]
        p         == IF successor = child THEN successor ELSE tree.parent[successor]
        unlinked  == IF successor = child THEN tree
                     ELSE rb_set_parent(rb_set_kid(rb_set_kid(tree, "rb_left", p, child2),
                                                   "rb_right", successor, child),
                                        child, successor)
        left      == tree.kid["rb_left"][n]
        adopted   == rb_set_parent(rb_set_kid(unlinked, "rb_left", successor, left), left, successor)
        replaced  == rb_set_parent_color(__rb_change_child(adopted, n, successor, tree.parent[n]),
                                         successor, tree.parent[n], tree.color[n])
    IN  [tree      |-> rb_set_parent_color_if(replaced, child2, p, BLACK),
         rebalance |-> IF child2 = Nil /\ tree.color[successor] = BLACK THEN p ELSE Nil]

__rb_erase_augmented(n) ==
    IF tree.kid["rb_left"][n] = Nil THEN EraseUpToOne(n, tree.kid["rb_right"][n])
    ELSE IF tree.kid["rb_right"][n] = Nil THEN EraseUpToOne(n, tree.kid["rb_left"][n])
    ELSE EraseTwo(n)

ev_map_erase(n) ==
    /\ pc = "idle"
    /\ n \in InTree
    /\ size' = size - 1
    /\ LET e == __rb_erase_augmented(n)
       IN  /\ tree' = Freed(e.tree, n)
           /\ parent' = e.rebalance
           /\ pc' = IF e.rebalance = Nil THEN "idle" ELSE "erase_color"
    /\ UNCHANGED <<node, link, answer>>

-----------------------------------------------------------------------------
\* ____rb_erase_color, the loop.

Near    == IF node # tree.kid["rb_right"][parent] THEN "rb_left" ELSE "rb_right"
Far     == Other(Near)
sibling == tree.kid[Far][parent]

\* Case 1: the code goes on with the new sibling in the same iteration.
EraseRedSibling ==
    /\ pc = "erase_color"
    /\ IsRed(tree, sibling)
    /\ LET tmp1 == tree.kid[Near][sibling]
           t    == rb_set_kid(rb_set_kid(tree, Far, parent, tmp1), Near, sibling, parent)
       IN  tree' = __rb_rotate_set_parents(rb_set_parent_color(t, tmp1, parent, BLACK),
                                           parent, sibling, RED)
    /\ UNCHANGED <<size, pc, node, parent, link, answer>>

BlackNephews == /\ IsBlack(tree, tree.kid["rb_left"][sibling])
                /\ IsBlack(tree, tree.kid["rb_right"][sibling])

\* Case 2: recurse at a black parent that is not the root.  (A slip: only up to
\* the first one.)
RecursesOnce == node = Nil /\ ~IsRed(tree, parent) /\ tree.parent[parent] # Nil
Recurses == ~IsRed(tree, parent) /\ tree.parent[parent] # Nil
EraseFlip ==
    /\ pc = "erase_color"
    /\ ~IsRed(tree, sibling)
    /\ BlackNephews
    /\ LET t == rb_set_parent_color(tree, sibling, parent, RED)
       IN  tree' = IF IsRed(tree, parent) THEN [t EXCEPT !.color[parent] = BLACK] ELSE t
    /\ IF Recurses THEN Continue(parent, tree.parent[parent]) ELSE Return
    /\ UNCHANGED <<size, answer>>

\* Case 3: rotation at the sibling, away from node, makes tmp2 the sibling.
EraseCase3 ==
    LET tmp2 == tree.kid[Near][sibling]
        tmp1 == tree.kid[Far][tmp2]
        t    == rb_set_kid(rb_set_kid(rb_set_kid(tree, Near, sibling, tmp1), Far, tmp2, sibling),
                           Far, parent, tmp2)
    IN  rb_set_parent_color_if(t, tmp1, sibling, BLACK)

\* Case 4: rotation at the parent; sib is the sibling in t.
EraseCase4(t, sib) ==
    LET tmp1 == t.kid[Far][sib]
        tmp2 == t.kid[Near][sib]
        u    == rb_set_kid(rb_set_kid(t, Far, parent, tmp2), Near, sib, parent)
    IN  __rb_rotate_set_parents(rb_set_parent(rb_set_parent_color(u, tmp1, sib, BLACK),
                                              tmp2, parent),
                                parent, sib, BLACK)

EraseRotate ==
    /\ pc = "erase_color"
    /\ ~IsRed(tree, sibling)
    /\ ~BlackNephews
    /\ tree' = IF IsBlack(tree, tree.kid[Far][sibling])
               THEN EraseCase4(EraseCase3, tree.kid[Near][sibling])
               ELSE EraseCase4(tree, sibling)
    /\ Return
    /\ UNCHANGED <<size, answer>>

-----------------------------------------------------------------------------
\* The searches: pure functions of the tree.

ev_map_begin == Utmost("rb_left", tree.root)
ev_map_end   == Utmost("rb_right", tree.root)

\* From node n, towards the side d: down that way if there is one, else up
\* to the first ancestor on that side.
Neighbour(d, n) ==
    LET up[m \in Node] == LET p == tree.parent[m]
                          IN  IF p # Nil /\ m = tree.kid[d][p] THEN up[p] ELSE p
    IN  IF tree.kid[d][n] # Nil THEN Utmost(Other(d), tree.kid[d][n]) ELSE up[n]
ev_map_next(n) == Neighbour("rb_right", n)
ev_map_prev(n) == Neighbour("rb_left", n)

\* The loop ev_map_find, _lower and _upper share: at is the node with the key,
\* if there is one, best the last node the search has left on its greater side.
Search(k) ==
    LET down[n \in Ptr] == [best \in Ptr |->
            IF n = Nil \/ Key[n] = k THEN [at |-> n, best |-> best]
            ELSE IF k < Key[n] THEN down[tree.kid["rb_left"][n]][n]
            ELSE down[tree.kid["rb_right"][n]][best]]
    IN  down[tree.root][Nil]

\* The least node greater than n.  (A slip: those below n are forgotten.)
UpperBest(n, best) == best
Upper(n, best) == IF tree.kid["rb_right"][n] = Nil THEN best
                  ELSE Utmost("rb_left", tree.kid["rb_right"][n])

ev_map_find(k)       == Search(k).at
ev_map_find_lower(k) == LET s == Search(k) IN IF s.at # Nil THEN s.at ELSE s.best
ev_map_find_upper(k) == LET s == Search(k) IN IF s.at # Nil THEN Upper(s.at, s.best) ELSE s.best

-----------------------------------------------------------------------------
Calls == \E n \in Node : ev_map_insert(n) \/ ev_map_erase(n)
Loops == \/ Descend \/ Conflict \/ Link
         \/ InsertRoot \/ InsertUnderBlack \/ InsertFlip \/ InsertRotate
         \/ EraseRedSibling \/ EraseFlip \/ EraseRotate

Next == Calls \/ Loops
Spec == Init /\ [][Next]_vars

\* A call that has begun goes on: the code is one thread.
FairSpec == Spec /\ WF_vars(Loops)

-----------------------------------------------------------------------------
\* Properties.

\* Through every rotation: the pointers form a tree in which parent and
\* child agree, and the keys stay in order.
ParentsAgree ==
    /\ tree.root # Nil => tree.parent[tree.root] = Nil
    /\ \A n \in InTree, d \in Side :
          tree.kid[d][n] # Nil => tree.parent[tree.kid[d][n]] = n

KeysInOrder ==
    \A n \in InTree :
        /\ \A m \in Below(tree)[tree.kid["rb_left"][n]] : Key[m] < Key[n]
        /\ \A m \in Below(tree)[tree.kid["rb_right"][n]] : Key[n] < Key[m]

\* "Both children of every red node are black" and "the root is black",
\* except, in the loop of __rb_insert, for the node it is working at.
RedRule ==
    /\ pc # "rb_insert" => IsBlack(tree, tree.root)
    /\ \A n \in InTree, d \in Side :
          IsRed(tree, n) /\ IsRed(tree, tree.kid[d][n]) =>
             pc = "rb_insert" /\ node = tree.kid[d][n] /\ parent = n

\* "Every simple path from root to leaves contains the same number of black
\* nodes"; in the loop of ____rb_erase_color, "all leaf paths going through
\* parent and node have a black node count that is 1 lower".
BlackRule ==
    LET Lowered(n, d) == IF pc = "erase_color" /\ n = parent /\ d = Near THEN 1 ELSE 0
        counts[n \in Ptr] == IF n = Nil THEN {0}
            ELSE {c + (IF tree.color[n] = BLACK THEN 1 ELSE 0) :
                    c \in UNION {{b + Lowered(n, d) : b \in counts[tree.kid[d][n]]} : d \in Side}}
    IN  Cardinality(counts[tree.root]) = 1

\* All of it: what the loops keep up on the way to the root of a deep tree.
IsRedBlack == ParentsAgree /\ KeysInOrder /\ RedRule /\ BlackRule

Map == INSTANCE OrderedMap WITH nodes <- InTree

\* Every search of a map at rest answers what map.h says.
SearchesAnswer ==
    pc = "idle" =>
      /\ size = Cardinality(InTree)
      /\ ev_map_begin = Map!First(InTree) /\ ev_map_end = Map!Last(InTree)
      /\ \A n \in InTree : ev_map_next(n) = Map!FindUpper(Key[n])
                        /\ ev_map_prev(n) = Map!Before(Key[n])
      /\ \A n \in Node : /\ ev_map_find(Key[n]) = Map!Find(Key[n])
                         /\ ev_map_find_lower(Key[n]) = Map!FindLower(Key[n])
                         /\ ev_map_find_upper(Key[n]) = Map!FindUpper(Key[n])

\* Every call ends.
CallsEnd == pc # "idle" ~> pc = "idle"

\* Rotations and recolourings are no steps of the map: a call changes the
\* set of nodes at most once, as OrderedMap does.
ImplementsOrderedMap == Map!Spec
=============================================================================
