---------------------------- MODULE RbTreeProofs ----------------------------
(***************************************************************************)
(* Proofs about utils/map.c, for all nodes and keys: every step keeps the  *)
(* invariant, so that the tree is a red-black tree through every call, the *)
(* searches of a map at rest are right, and the whole is an OrderedMap.    *)
(***************************************************************************)
EXTENDS RbTreeShape

\* Each phase of a call, and what holds in it.  B has the black nodes below each node,
\* D the nodes.  The rules about the colours:
Balanced(B) == Counts(tree, B, Nil, "rb_left") /\ RedsApart(tree, Nil, Nil) /\ IsBlack(tree, tree.root)

\* between two calls;
Resting(B) ==
    /\ pc = "idle" /\ node = Nil /\ parent = Nil /\ link = "rb_root"
    /\ Balanced(B)

\* on the way down: node belongs below the place reached, and so does any node that
\* has its key;
Descending(D, B) ==
    /\ pc = "descend"
    /\ Balanced(B)
    /\ node \in Node \ D[tree.root]
    /\ \/ link = "rb_root" /\ parent = Nil
       \/ link \in Side /\ parent \in D[tree.root] /\ Before(link, node, parent)
    /\ \A a \in Node, d \in Side : parent \in D[tree.kid[d][a]] => Before(d, node, a)
    /\ \A m \in D[tree.root] : Key[m] = Key[node] => m \in D[There]

\* in the loop of __rb_insert: node is red, and may be the one red child of a red node;
Inserting(D, B) ==
    /\ pc = "rb_insert" /\ link = "rb_root"
    /\ node \in D[tree.root] /\ tree.color[node] = RED /\ parent = tree.parent[node]
    /\ Counts(tree, B, Nil, "rb_left") /\ RedsApart(tree, parent, node)
    /\ parent = Nil \/ IsBlack(tree, tree.root)

\* in the loop of ____rb_erase_color: the paths through node are short by one.
Erasing(D, B) ==
    /\ pc = "erase_color" /\ link = "rb_root"
    /\ parent \in D[tree.root] /\ node = tree.kid[Near][parent] /\ IsBlack(tree, node)
    /\ Counts(tree, B, parent, Near) /\ RedsApart(tree, Nil, Nil) /\ IsBlack(tree, tree.root)

\* The inductive invariant.
Inv(D, B) ==
    /\ answer \in Ptr
    /\ Shape(tree, D) /\ size = Cardinality(D[tree.root])
    /\ Resting(B) \/ Descending(D, B) \/ Inserting(D, B) \/ Erasing(D, B)

IInv == \E D, B : Inv(D, B)

-----------------------------------------------------------------------------
\* The nodes in the tree are those below its root.
LEMMA InTreeIs ==
  ASSUME NEW D, Shape(tree, D)
  PROVE  InTree = D[tree.root]
BY BelowIs DEF InTree

\* They are finitely many.
LEMMA SizeFits ==
  ASSUME NEW t, NEW D, Shape(t, D)
  PROVE  IsFiniteSet(D[t.root]) /\ Cardinality(D[t.root]) \in 0..Cardinality(Node)
BY Parents, NodeAssumption, FS_Subset, FS_CardinalityType

-----------------------------------------------------------------------------
\* An empty tree has all of this.
LEMMA InitKeeps == Init => IInv
<1>. SUFFICES ASSUME Init
              PROVE  IInv
  OBVIOUS
<1>. DEFINE D == [n \in Ptr |-> IF n = Nil THEN {} ELSE {n}]
            B == [n \in Ptr |-> 0]
<1>1. /\ tree \in Tree /\ tree.root = Nil
      /\ \A n \in Node : tree.parent[n] = Nil /\ tree.color[n] = RED
      /\ \A n \in Node, d \in Side : tree.kid[d][n] = Nil
  BY DEF Init, Tree, Ptr
<1>2. Nil \in Ptr /\ Nil \notin Node /\ Node \subseteq Ptr
  BY NilAssumption DEF Ptr
<1>3. Shape(tree, D)
  <2>1. D \in [Ptr -> SUBSET Node] /\ D[Nil] = {} /\ \A n \in Node : D[n] = {n}
    BY <1>2 DEF Ptr
  <2>. HIDE DEF D
  <2>2. \A n \in Node : D[n] = {n} \cup D[tree.kid["rb_left"][n]] \cup D[tree.kid["rb_right"][n]]
    BY <1>1, <2>1 DEF Side
  <2>3. \A n \in Node, d \in Side : \A m \in D[tree.kid[d][n]] : Before(d, m, n)
    BY <1>1, <2>1
  <2>4. QED
    BY <1>1, <2>1, <2>2, <2>3 DEF Shape, Blank
<1>4. Balanced(B)
  <2>1. B \in [Ptr -> Nat] /\ \A n \in Ptr : B[n] = 0
    OBVIOUS
  <2>. HIDE DEF B
  <2>2. Counts(tree, B, Nil, "rb_left")
    BY <1>1, <1>2, <2>1 DEF Counts, Weight, Lack, RED, BLACK
  <2>3. QED
    BY <1>1, <2>2 DEF Balanced, RedsApart, IsBlack, IsRed
<1>5. size = Cardinality(D[tree.root])
  BY <1>1, <1>2, FS_EmptySet DEF Init
<1>. HIDE DEF D, B
<1>6. Inv(D, B)
  BY <1>2, <1>3, <1>4, <1>5 DEF Init, Inv, Resting
<1>7. QED
  BY <1>6 DEF IInv

\* The call starts at the root.
LEMMA InsertKeeps ==
  ASSUME NEW D, NEW B, Inv(D, B), NEW n \in Node, ev_map_insert(n)
  PROVE  Inv(D, B)'
<1>1. Shape(tree, D) /\ Balanced(B) /\ tree' = tree /\ answer' = answer /\ size' = size
  BY DEF Inv, ev_map_insert, Resting, Descending, Inserting, Erasing
<1>2. node' = n /\ parent' = Nil /\ link' = "rb_root" /\ pc' = "descend" /\ n \notin D[tree.root]
  BY <1>1, InTreeIs DEF ev_map_insert
<1>3. \A a \in Node, d \in Side : Nil \notin D[tree.kid[d][a]]
  BY <1>1, BelowNode, NilAssumption
<1>4. There' = tree.root
  BY <1>1, <1>2 DEF There
<1>5. Balanced(B)'
  BY <1>1 DEF Balanced
<1>6. Descending(D, B)'
  BY <1>1, <1>2, <1>3, <1>4, <1>5 DEF Descending
<1>7. QED
  BY <1>1, <1>6 DEF Inv

\* One step down: the key still belongs below the place reached.
LEMMA DescendKeeps ==
  ASSUME NEW D, NEW B, Inv(D, B), Descend
  PROVE  Inv(D, B)'
<1>. DEFINE h == There
            S == D[tree.root]
<1>1. /\ Shape(tree, D) /\ Descending(D, B) /\ Balanced(B)
      /\ tree' = tree /\ answer' = answer /\ size' = size /\ node' = node /\ pc' = pc
      /\ h # Nil /\ Key[node] # Key[h] /\ parent' = h
      /\ link' = IF Key[node] < Key[h] THEN "rb_left" ELSE "rb_right"
  BY DEF Inv, Descend, Resting, Descending, Inserting, Erasing
<1>2. node \in Node /\ S \in SUBSET Node /\ Nil \notin Node
  BY <1>1, Parents, NilAssumption DEF Descending
<1>3. h \in S
  <2>1. CASE link = "rb_root"
    BY <1>1, <2>1, Parents DEF There
  <2>2. CASE link \in Side /\ parent \in S
    BY <1>1, <2>2, Parents DEF There, Side
  <2>3. QED
    BY <1>1, <2>1, <2>2 DEF Descending
<1>4. Before(link', node, h) /\ link' \in Side
  BY <1>1, <1>2, <1>3, KeyTypes DEF Before, Side
<1>5. There' = tree.kid[link'][h]
  BY <1>1 DEF There
<1>6. ASSUME NEW a \in Node, NEW d \in Side, h \in D[tree.kid[d][a]]
      PROVE  Before(d, node, a)
  <2>0. tree.kid[d][a] \in Ptr /\ tree.kid[d][a] # Nil
    BY <1>1, <1>6, BelowNode DEF Shape
  <2>1. CASE link = "rb_root"
    <3>1. h = tree.root
      BY <2>1 DEF There
    <3>2. h # tree.kid[d][a]
      BY <1>1, <2>0, <3>1, OneParent
    <3>3. PICK q \in D[tree.kid[d][a]], c \in Side : tree.kid[c][q] = h
      BY <1>1, <1>6, <2>0, <3>2, EveryNodeIsAKid
    <3>4. q \in Node
      BY <1>1, <2>0, BelowBelow
    <3>5. QED
      BY <1>1, <3>1, <3>3, <3>4, OneParent
  <2>2. CASE link \in Side /\ parent \in S
    <3>1. h = tree.kid[link][parent] /\ parent \in Node
      BY <1>2, <2>2 DEF There, Side
    <3>2. CASE h = tree.kid[d][a]
      <4>0. link \in Side /\ tree.kid[link][parent] # Nil /\ tree.kid[d][a] = tree.kid[link][parent]
        BY <1>1, <2>2, <3>1, <3>2
      <4>1. a = parent /\ d = link
        BY <1>1, <3>1, <4>0, OneParent
      <4>2. Before(link, node, parent)
        BY <1>1, <2>2 DEF Descending, Side
      <4>3. QED
        BY <4>1, <4>2
    <3>3. CASE h # tree.kid[d][a]
      <4>1. PICK q \in D[tree.kid[d][a]], c \in Side : tree.kid[c][q] = h
        BY <1>1, <1>6, <2>0, <3>3, EveryNodeIsAKid
      <4>2. q \in Node
        BY <1>1, <2>0, BelowBelow
      <4>3. q = parent
        BY <1>1, <2>2, <3>1, <4>1, <4>2, OneParent
      <4>4. QED
        BY <1>1, <4>1, <4>3 DEF Descending
    <3>4. QED
      BY <3>2, <3>3
  <2>3. QED
    BY <1>1, <2>1, <2>2 DEF Descending
<1>7. ASSUME NEW m \in S, Key[m] = Key[node]
      PROVE  m \in D[tree.kid[link'][h]]
  <2>1. m \in D[h] /\ m # h
    BY <1>1, <1>7 DEF Descending
  <2>2. PICK d \in Side : m \in D[tree.kid[d][h]]
    BY <1>1, <1>2, <1>3, <2>1, BelowNode
  <2>3. Before(d, m, h)
    BY <1>1, <1>2, <1>3, <2>2 DEF Shape
  <2>4. d = link'
    BY <1>2, <1>3, <1>4, <1>7, <2>3, KeyTypes DEF Before, Side
  <2>5. QED
    BY <2>2, <2>4
<1>8. Balanced(B)'
  BY <1>1 DEF Balanced
<1>. HIDE DEF h
<1>9. Descending(D, B)'
  <2>1. node' \in Node \ D[tree'.root] /\ pc' = "descend"
    BY <1>1 DEF Descending
  <2>2. link' \in Side /\ parent' \in D[tree'.root] /\ Before(link', node', parent')
    BY <1>1, <1>3, <1>4
  <2>3. \A a \in Node, d \in Side : parent' \in D[tree'.kid[d][a]] => Before(d, node', a)
    BY <1>1, <1>6
  <2>4. \A m \in D[tree'.root] : Key[m] = Key[node'] => m \in D[There']
    BY <1>1, <1>5, <1>7
  <2>5. QED
    BY <1>8, <2>1, <2>2, <2>3, <2>4 DEF Descending
<1>10. QED
  BY <1>1, <1>9 DEF Inv

\* The tree stays as it is.
LEMMA ConflictKeeps ==
  ASSUME NEW D, NEW B, Inv(D, B), Conflict
  PROVE  Inv(D, B)'
<1>1. /\ Shape(tree, D) /\ Descending(D, B) /\ Balanced(B)
      /\ tree' = tree /\ size' = size /\ answer' = There /\ Return /\ There # Nil
  BY DEF Inv, Conflict, Resting, Descending, Inserting, Erasing
<1>2. There \in Ptr
  <2>1. CASE link = "rb_root"
    BY <1>1, <2>1, TreeTypes DEF There, Shape
  <2>2. CASE link \in Side /\ parent \in D[tree.root]
    BY <1>1, <2>2, Parents, TreeTypes DEF There, Side, Shape
  <2>3. QED
    BY <1>1, <2>1, <2>2 DEF Descending
<1>3. Balanced(B)'
  BY <1>1 DEF Balanced
<1>4. QED
  BY <1>1, <1>2, <1>3 DEF Inv, Resting, Return

-----------------------------------------------------------------------------
\* _ev_map_low_link_node does this.
LEMMA LinkNode ==
  ASSUME tree \in Tree, node \in Node, parent \in Ptr, parent # node,
         \/ link = "rb_root" /\ parent = Nil
         \/ link \in Side /\ parent \in Node
  PROVE  IsLinked(tree, _ev_map_low_link_node, node, parent, link)
<1>. DEFINE t0 == [tree EXCEPT !.kid = [s \in Side |-> [@[s] EXCEPT ![node] = Nil]]]
            t1 == rb_set_parent_color(t0, node, parent, RED)
            t2 == _ev_map_low_link_node
<1>1. /\ t0 \in Tree /\ t0.root = tree.root /\ t0.parent = tree.parent /\ t0.color = tree.color
      /\ \A d \in Side, m \in Node : t0.kid[d][m] = IF m = node THEN Nil ELSE tree.kid[d][m]
  <2>1. Nil \in Ptr
    BY DEF Ptr
  <2>2. QED
    BY <2>1 DEF Tree
<1>2. t2 = IF link = "rb_root" THEN [t1 EXCEPT !.root = node] ELSE rb_set_kid(t1, link, parent, node)
  BY DEF _ev_map_low_link_node
<1>. HIDE DEF t0
<1>3. ParentColorSet(tree, t1, node, parent, RED) \/ ParentColorSet(t0, t1, node, parent, RED)
  BY <1>1, SetParentColor
<1>. HIDE DEF t1
<1>4. /\ t1 \in Tree /\ t1.root = tree.root
      /\ \A d \in Side, m \in Node : t1.kid[d][m] = IF m = node THEN Nil ELSE tree.kid[d][m]
      /\ \A m \in Node : t1.parent[m] = IF m = node THEN parent ELSE tree.parent[m]
      /\ \A m \in Node : t1.color[m] = IF m = node THEN RED ELSE tree.color[m]
  <2>1. ParentColorSet(t0, t1, node, parent, RED)
    BY <1>1, SetParentColor DEF t1
  <2>2. QED
    BY <1>1, <2>1 DEF ParentColorSet
<1>5. CASE link = "rb_root" /\ parent = Nil
  <2>1. t2 = [t1 EXCEPT !.root = node]
    BY <1>2, <1>5
  <2>2. t2 \in Tree /\ t2.root = node /\ t2.kid = t1.kid /\ t2.parent = t1.parent /\ t2.color = t1.color
    BY <1>4, <2>1 DEF Tree, Ptr
  <2>3. QED
    BY <1>4, <1>5, <2>2, NilAssumption DEF IsLinked
<1>6. CASE link \in Side /\ parent \in Node
  <2>1. link # "rb_root" /\ parent # Nil /\ node \in Ptr
    BY <1>6, NilAssumption DEF Side, Ptr
  <2>2. t2 = rb_set_kid(t1, link, parent, node)
    BY <1>2, <2>1
  <2>3. KidSet(t1, t2, link, parent, node)
    BY <1>4, <1>6, <2>1, <2>2, SetKid
  <2>. HIDE DEF t2
  <2>4. IsLinked(tree, t2, node, parent, link)
    BY <1>4, <2>1, <2>3 DEF KidSet, IsLinked
  <2>5. QED
    BY <2>4 DEF t2
<1>7. QED
  BY <1>5, <1>6

\* The new leaf is red, so that no path gets longer; the loop begins at it.
LEMMA LinkKeeps ==
  ASSUME NEW D, NEW B, Inv(D, B), Link
  PROVE  /\ \E D2, B2 : Inv(D2, B2)' /\ D2[tree'.root] = D[tree.root] \cup {node}
         /\ node \in Node \ D[tree.root] /\ \A m \in D[tree.root] : Key[m] # Key[node]
<1>. DEFINE S == D[tree.root]
<1>1. /\ Shape(tree, D) /\ Descending(D, B) /\ size = Cardinality(S)
      /\ There = Nil /\ size' = size + 1 /\ tree' = _ev_map_low_link_node
      /\ answer' = Nil /\ pc' = "rb_insert" /\ link' = "rb_root" /\ node' = node /\ parent' = parent
  BY DEF Inv, Link, Resting, Descending, Inserting, Erasing
<1>2. /\ node \in Node \ S /\ S \in SUBSET Node /\ Nil \notin Node /\ D[Nil] = {} /\ tree \in Tree
      /\ Balanced(B)
  BY <1>1, Parents, NilAssumption DEF Descending, Shape
<1>3. \A m \in S : Key[m] # Key[node]
  BY <1>1, <1>2 DEF Descending
<1>4. \/ link = "rb_root" /\ parent = Nil /\ tree.root = Nil
      \/ link \in Side /\ parent \in S /\ Before(link, node, parent) /\ tree.kid[link][parent] = Nil
  BY <1>1 DEF Descending, There, Side
<1>5. IsLinked(tree, tree', node, parent, link)
  <2>1. parent \in Ptr /\ parent # node
    BY <1>2, <1>4 DEF Ptr
  <2>2. QED
    BY <1>1, <1>2, <1>4, <2>1, LinkNode
<1>6. PICK D2 : D2 = BelowLinked(D, node, parent)
  OBVIOUS
<1>7. \A a \in Node, d \in Side : parent \in D[tree.kid[d][a]] => Before(d, node, a)
  BY <1>1 DEF Descending
<1>8. Shape(tree', D2) /\ D2[tree'.root] = S \cup {node}
  <2>1. Fits(tree, D, node, parent, link)
    BY <1>4, <1>7 DEF Fits
  <2>2. QED
    BY <1>1, <1>2, <1>5, <1>6, <2>1, LinkedShape
<1>9. size' = Cardinality(D2[tree'.root])
  BY <1>1, <1>2, <1>8, SizeFits, FS_AddElement
<1>10. /\ tree'.root = IF parent = Nil THEN node ELSE tree.root
       /\ \A d \in Side, m \in Node :
            tree'.kid[d][m] = IF m = parent /\ d = link THEN node ELSE IF m = node THEN Nil ELSE tree.kid[d][m]
       /\ \A m \in Node : tree'.parent[m] = IF m = node THEN parent ELSE tree.parent[m]
       /\ \A m \in Node : tree'.color[m] = IF m = node THEN RED ELSE tree.color[m]
  BY <1>5 DEF IsLinked
<1>11. /\ Blank(tree, node) /\ B \in [Ptr -> Nat] /\ B[Nil] = 0 /\ B[node] = 0
       /\ \A n \in Node, d \in Side : B[n] = Weight(tree, n) + B[tree.kid[d][n]] + Lack(Nil, "rb_left", n, d)
  <2>1. Blank(tree, node)
    BY <1>1, <1>2 DEF Shape
  <2>2. /\ B \in [Ptr -> Nat] /\ B[Nil] = 0
        /\ \A n \in Node, d \in Side : B[n] = Weight(tree, n) + B[tree.kid[d][n]] + Lack(Nil, "rb_left", n, d)
    BY <1>2 DEF Balanced, Counts
  <2>3. B[node] = 0
    <3>1. B[node] = Weight(tree, node) + B[tree.kid["rb_left"][node]] + Lack(Nil, "rb_left", node, "rb_left")
      BY <1>2, <2>2 DEF Side
    <3>2. Weight(tree, node) = 0 /\ B[tree.kid["rb_left"][node]] = 0 /\ Lack(Nil, "rb_left", node, "rb_left") = 0
      BY <1>2, <2>1, <2>2 DEF Blank, Weight, Lack, Side, RED, BLACK
    <3>3. QED
      BY <3>1, <3>2
  <2>4. QED
    BY <2>1, <2>2, <2>3
<1>12. Counts(tree', B, Nil, "rb_left")
  <2>1. ASSUME NEW n \in Node, NEW d \in Side
        PROVE  B[n] = Weight(tree', n) + B[tree'.kid[d][n]] + Lack(Nil, "rb_left", n, d)
    <3>1. B[tree'.kid[d][n]] = B[tree.kid[d][n]]
      <4>1. CASE n = parent /\ d = link
        <5>1. tree.kid[d][n] = Nil
          BY <1>2, <1>4, <4>1
        <5>2. QED
          BY <1>10, <1>11, <4>1, <5>1
      <4>2. CASE ~(n = parent /\ d = link)
        BY <1>10, <1>11, <4>2 DEF Blank
      <4>3. QED
        BY <4>1, <4>2
    <3>2. Weight(tree', n) = Weight(tree, n)
      BY <1>10, <1>11 DEF Weight, Blank
    <3>3. QED
      BY <1>11, <3>1, <3>2
  <2>2. QED
    BY <1>11, <2>1 DEF Counts
<1>13. RedsApart(tree', parent, node)
  <2>1. ASSUME NEW n \in Node, NEW d \in Side, IsRed(tree', n), IsRed(tree', tree'.kid[d][n])
        PROVE  n = parent /\ tree'.kid[d][n] = node
    <3>1. CASE n = parent /\ d = link
      BY <1>10, <3>1
    <3>2. CASE ~(n = parent /\ d = link)
      <4>1. n # node /\ tree'.kid[d][n] = tree.kid[d][n] /\ tree.kid[d][n] # Nil
        BY <1>10, <2>1, <3>2 DEF IsRed
      <4>2. tree.kid[d][n] \in S /\ tree.kid[d][n] # node
        BY <1>1, <1>2, <4>1, OneParent
      <4>3. IsRed(tree, n) /\ IsRed(tree, tree.kid[d][n])
        BY <1>2, <1>10, <2>1, <4>1, <4>2 DEF IsRed
      <4>4. QED
        BY <1>2, <4>3, NilAssumption DEF Balanced, RedsApart
    <3>3. QED
      BY <3>1, <3>2
  <2>2. QED
    BY <2>1 DEF RedsApart
<1>14. parent = Nil \/ IsBlack(tree', tree'.root)
  <2>1. ASSUME parent # Nil
        PROVE  IsBlack(tree', tree'.root)
    <3>1. tree'.root = tree.root /\ tree.root \in Node /\ tree.root # node
      BY <1>1, <1>2, <1>4, <1>10, <2>1, Parents
    <3>2. QED
      BY <1>2, <1>10, <3>1 DEF Balanced, IsBlack, IsRed
  <2>2. QED
    BY <2>1
<1>15. Inserting(D2, B)'
  <2>1. node' \in D2[tree'.root] /\ tree'.color[node'] = RED /\ parent' = tree'.parent[node']
    BY <1>1, <1>2, <1>8, <1>10
  <2>2. QED
    BY <1>1, <1>12, <1>13, <1>14, <2>1 DEF Inserting
<1>16. Inv(D2, B)'
  BY <1>1, <1>8, <1>9, <1>15 DEF Inv, Ptr
<1>17. QED
  BY <1>2, <1>3, <1>8, <1>16

-----------------------------------------------------------------------------
\* A red root becomes black: every path gets longer.
LEMMA InsertRootKeeps ==
  ASSUME NEW D, NEW B, Inv(D, B), InsertRoot
  PROVE  \E D2, B2 : Inv(D2, B2)' /\ D2[tree'.root] = D[tree.root]
<1>. DEFINE S == D[tree.root]
<1>1. /\ Shape(tree, D) /\ Inserting(D, B) /\ size = Cardinality(S) /\ answer \in Ptr
      /\ parent = Nil /\ tree' = rb_set_parent_color(tree, node, Nil, BLACK)
      /\ Return /\ size' = size /\ answer' = answer
  BY DEF Inv, InsertRoot, Resting, Descending, Inserting, Erasing
<1>2. /\ node \in Node /\ node = tree.root /\ tree.color[node] = RED /\ tree.parent[node] = Nil
      /\ Nil \notin Node /\ tree \in Tree
  <2>1. node \in S /\ tree.color[node] = RED /\ tree.parent[node] = Nil
    BY <1>1 DEF Inserting
  <2>2. node \in Node /\ node = tree.root
    BY <1>1, <2>1, Parents
  <2>3. QED
    BY <1>1, <2>1, <2>2, NilAssumption DEF Shape
<1>3. ParentColorSet(tree, tree', node, Nil, BLACK)
  BY <1>1, <1>2, SetParentColor DEF Ptr
<1>4. /\ tree' \in Tree /\ tree'.root = tree.root /\ tree'.kid = tree.kid
      /\ \A m \in Node : tree'.parent[m] = IF m = node THEN Nil ELSE tree.parent[m]
      /\ \A m \in Node : tree'.color[m] = IF m = node THEN BLACK ELSE tree.color[m]
  BY <1>3 DEF ParentColorSet
<1>5. Shape(tree', D)
  BY <1>1, <1>2, <1>4, Recoloured DEF Inserting
<1>6. PICK B2 : B2 = [B EXCEPT ![node] = @ + 1]
  OBVIOUS
<1>7. \A n \in Node, d \in Side : tree.kid[d][n] # node /\ tree.kid[d][n] \in Ptr
  BY <1>1, <1>2, OneParent, TreeTypes
<1>8. Counts(tree', B2, Nil, "rb_left")
  <2>1. /\ B \in [Ptr -> Nat] /\ B[Nil] = 0
        /\ \A n \in Node, d \in Side : B[n] = Weight(tree, n) + B[tree.kid[d][n]] + Lack(Nil, "rb_left", n, d)
    BY <1>1 DEF Inserting, Counts
  <2>2. /\ B2 \in [Ptr -> Nat] /\ \A m \in Ptr \ {node} : B2[m] = B[m]
        /\ B2[node] = B[node] + 1
    BY <1>2, <1>6, <2>1 DEF Ptr
  <2>3. ASSUME NEW n \in Node, NEW d \in Side
        PROVE  B2[n] = Weight(tree', n) + B2[tree'.kid[d][n]] + Lack(Nil, "rb_left", n, d)
    <3>1. B2[tree'.kid[d][n]] = B[tree.kid[d][n]]
      BY <1>4, <1>7, <2>2
    <3>2. B2[n] = B[n] + (IF n = node THEN 1 ELSE 0)
      BY <2>2 DEF Ptr
    <3>3. Weight(tree', n) = Weight(tree, n) + (IF n = node THEN 1 ELSE 0) /\ Weight(tree, n) \in {0, 1}
      BY <1>2, <1>4 DEF Weight, RED, BLACK
    <3>4. B[tree.kid[d][n]] \in Nat /\ Lack(Nil, "rb_left", n, d) \in {0, 1}
      BY <1>7, <2>1 DEF Lack
    <3>5. B[n] = Weight(tree, n) + B[tree.kid[d][n]] + Lack(Nil, "rb_left", n, d)
      BY <2>1
    <3>6. CASE n = node
      BY <3>1, <3>2, <3>3, <3>4, <3>5, <3>6
    <3>7. CASE n # node
      BY <3>1, <3>2, <3>3, <3>4, <3>5, <3>7
    <3>8. QED
      BY <3>6, <3>7
  <2>4. B2[Nil] = 0
    BY <1>2, <2>1, <2>2 DEF Ptr
  <2>5. QED
    BY <2>2, <2>3, <2>4 DEF Counts
<1>9. RedsApart(tree', Nil, Nil)
  <2>1. ASSUME NEW n \in Node, NEW d \in Side, IsRed(tree', n), IsRed(tree', tree'.kid[d][n])
        PROVE  FALSE
    <3>1. IsRed(tree, n) /\ IsRed(tree, tree.kid[d][n])
      BY <1>2, <1>4, <1>7, <2>1 DEF IsRed, RED, BLACK, Ptr
    <3>2. n = Nil
      BY <1>1, <3>1 DEF Inserting, RedsApart
    <3>3. QED
      BY <1>2, <3>2
  <2>2. QED
    BY <2>1 DEF RedsApart
<1>10. IsBlack(tree', tree'.root)
  BY <1>2, <1>4 DEF IsBlack, IsRed, RED, BLACK
<1>11. Inv(D, B2)'
  BY <1>1, <1>4, <1>5, <1>8, <1>9, <1>10 DEF Inv, Resting, Balanced, Return
<1>12. QED
  BY <1>4, <1>11

\* Under a black parent nothing is wrong.
LEMMA InsertUnderBlackKeeps ==
  ASSUME NEW D, NEW B, Inv(D, B), InsertUnderBlack
  PROVE  Inv(D, B)'
<1>1. /\ Shape(tree, D) /\ Inserting(D, B) /\ size = Cardinality(D[tree.root]) /\ answer \in Ptr
      /\ parent # Nil /\ tree.color[parent] = BLACK
      /\ Return /\ tree' = tree /\ size' = size /\ answer' = answer
  BY DEF Inv, InsertUnderBlack, Resting, Descending, Inserting, Erasing
<1>2. RedsApart(tree, Nil, Nil)
  BY <1>1 DEF Inserting, RedsApart, IsRed, RED, BLACK
<1>3. Balanced(B)'
  BY <1>1, <1>2 DEF Inserting, Balanced
<1>4. QED
  BY <1>1, <1>3 DEF Inv, Resting, Return

\* Above a red parent: its black parent, and the two sides of that.
LEMMA UnderRed ==
  ASSUME NEW D, NEW B, Shape(tree, D), Inserting(D, B), IsRed(tree, parent)
  PROVE  /\ node \in Node /\ parent \in Node /\ gparent \in Node
         /\ node \in D[tree.root] /\ parent \in D[tree.root] /\ gparent \in D[tree.root]
         /\ tree.color[node] = RED /\ tree.color[parent] = RED /\ tree.color[gparent] = BLACK
         /\ parent # gparent /\ node # parent /\ node # gparent /\ parent # tree.root
         /\ ParentSide \in Side /\ tree.kid[ParentSide][gparent] = parent
         /\ \E d \in Side : tree.kid[d][parent] = node
         /\ IsBlack(tree, tree.root)
<1>. DEFINE S == D[tree.root]
<1>1. /\ node \in S /\ tree.color[node] = RED /\ parent = tree.parent[node] /\ parent # Nil
      /\ tree.color[parent] = RED /\ S \in SUBSET Node /\ IsBlack(tree, tree.root)
      /\ RedsApart(tree, parent, node)
  BY Parents DEF Inserting, IsRed
<1>2. parent \in S /\ \E d \in Side : tree.kid[d][parent] = node
  BY <1>1, Parents
<1>3. parent # tree.root
  BY <1>1 DEF IsBlack, IsRed
<1>4. gparent \in S /\ gparent # parent /\ \E d \in Side : tree.kid[d][gparent] = parent
  BY <1>2, <1>3, Parents, NilAssumption DEF gparent
<1>5. ParentSide \in Side /\ tree.kid[ParentSide][gparent] = parent
  BY <1>4 DEF ParentSide, Side
<1>6. tree.color[gparent] = BLACK
  <2>1. ASSUME tree.color[gparent] = RED
        PROVE  FALSE
    <3>1. IsRed(tree, gparent) /\ IsRed(tree, tree.kid[ParentSide][gparent])
      BY <1>1, <1>4, <1>5, <2>1, NilAssumption DEF IsRed
    <3>2. QED
      BY <1>1, <1>4, <1>5, <3>1 DEF RedsApart
  <2>2. QED
    BY <1>1, <1>4, <2>1, TreeTypes DEF Shape
<1>7. node # parent
  BY <1>1, <1>2, Parents
<1>8. node # gparent
  BY <1>1, <1>6 DEF RED, BLACK
<1>9. QED
  BY <1>1, <1>2, <1>3, <1>4, <1>5, <1>6, <1>7, <1>8

\* Case 1: the colours of two generations change places, and the loop goes on above.
LEMMA InsertFlipKeeps ==
  ASSUME NEW D, NEW B, Inv(D, B), InsertFlip
  PROVE  \E D2, B2 : Inv(D2, B2)' /\ D2[tree'.root] = D[tree.root]
<1>. DEFINE S == D[tree.root]
            s == ParentSide
            g == gparent
            p == parent
            c == uncle
            q == tree.parent[gparent]
<1>1. /\ Shape(tree, D) /\ Inserting(D, B) /\ size = Cardinality(S) /\ answer \in Ptr
      /\ IsRed(tree, p) /\ IsRed(tree, c) /\ tree' = Case1
      /\ node' = g /\ parent' = q /\ pc' = pc /\ link' = link /\ size' = size /\ answer' = answer
  BY DEF Inv, InsertFlip, Resting, Descending, Inserting, Erasing, Continue
<1>2. /\ p \in Node /\ g \in Node /\ p \in S /\ g \in S
      /\ tree.color[p] = RED /\ tree.color[g] = BLACK
      /\ p # g /\ p # tree.root /\ s \in Side /\ tree.kid[s][g] = p /\ IsBlack(tree, tree.root)
  BY <1>1, UnderRed
<1>3. /\ c = tree.kid[Other(s)][g] /\ c # Nil /\ tree.color[c] = RED /\ Nil \notin Node /\ p # Nil
      /\ tree \in Tree /\ Other(s) \in Side /\ Other(s) # s /\ \A d \in Side : d = s \/ d = Other(s)
  BY <1>1, <1>2, Sides, NilAssumption DEF uncle, IsRed, Shape
<1>4. /\ c \in Node /\ c \in S /\ c # g /\ c # p /\ c # tree.root /\ tree.parent[c] = g /\ tree.parent[p] = g
      /\ \A n \in Node, d \in Side : (tree.kid[d][n] = c => n = g /\ d = Other(s))
                                     /\ (tree.kid[d][n] = p => n = g /\ d = s)
  <2>1. c \in Node /\ c # g
    BY <1>1, <1>2, <1>3, KidSelf
  <2>2. /\ c \in S /\ c # tree.root /\ tree.parent[c] = g
        /\ \A n \in Node, d \in Side : tree.kid[d][n] = c => n = g /\ d = Other(s)
    BY <1>1, <1>2, <1>3, OneParent
  <2>3. /\ tree.parent[p] = g
        /\ \A n \in Node, d \in Side : tree.kid[d][n] = p => n = g /\ d = s
    BY <1>1, <1>2, <1>3, OneParent
  <2>4. QED
    BY <1>2, <1>3, <2>1, <2>2, <2>3
<1>5. q \in Ptr /\ g \in Ptr /\ RED \in {RED, BLACK} /\ BLACK \in {RED, BLACK}
  BY <1>2, <1>3, TreeTypes DEF Ptr
<1>. DEFINE t0 == rb_set_parent_color(tree, c, g, BLACK)
            t1 == rb_set_parent_color(t0, p, g, BLACK)
            t2 == rb_set_parent_color(t1, g, q, RED)
<1>6. tree' = t2
  BY <1>1 DEF Case1
<1>. HIDE DEF g, p, c, s, q
<1>7. ParentColorSet(tree, t0, c, g, BLACK)
  BY <1>3, <1>4, <1>5, SetParentColor
<1>. HIDE DEF t0
<1>8. ParentColorSet(t0, t1, p, g, BLACK)
  <2>1. t0 \in Tree
    BY <1>7 DEF ParentColorSet
  <2>2. QED
    BY <1>2, <1>5, <2>1, SetParentColor
<1>. HIDE DEF t1
<1>9. ParentColorSet(t1, t2, g, q, RED)
  <2>1. t1 \in Tree
    BY <1>8 DEF ParentColorSet
  <2>2. QED
    BY <1>2, <1>5, <2>1, SetParentColor
<1>. HIDE DEF t2
<1>10. /\ t2 \in Tree /\ t2.root = tree.root /\ t2.kid = tree.kid
       /\ \A m \in Node : t2.parent[m] = tree.parent[m]
       /\ \A m \in Node : t2.color[m] = IF m = g THEN RED ELSE IF m = p \/ m = c THEN BLACK ELSE tree.color[m]
  <2>1. t2 \in Tree /\ t2.root = tree.root /\ t2.kid = tree.kid
    BY <1>7, <1>8, <1>9 DEF ParentColorSet
  <2>2. ASSUME NEW m \in Node
        PROVE  t2.parent[m] = IF m = g THEN q ELSE IF m = p \/ m = c THEN g ELSE tree.parent[m]
    BY <1>2, <1>4, <1>7, <1>8, <1>9 DEF ParentColorSet
  <2>3. ASSUME NEW m \in Node
        PROVE  t2.color[m] = IF m = g THEN RED ELSE IF m = p \/ m = c THEN BLACK ELSE tree.color[m]
    BY <1>2, <1>4, <1>7, <1>8, <1>9 DEF ParentColorSet
  <2>4. \A m \in Node : t2.parent[m] = tree.parent[m]
    BY <1>4, <2>2 DEF q, g
  <2>5. QED
    BY <2>1, <2>3, <2>4
<1>11. Shape(t2, D)
  BY <1>1, <1>2, <1>4, <1>10, Recoloured
<1>12. PICK B2 : B2 = [B EXCEPT ![c] = @ + 1, ![p] = @ + 1]
  OBVIOUS
<1>13. Counts(t2, B2, Nil, "rb_left")
  <2>1. /\ B \in [Ptr -> Nat] /\ B[Nil] = 0
        /\ \A n \in Node, d \in Side : B[n] = Weight(tree, n) + B[tree.kid[d][n]] + Lack(Nil, "rb_left", n, d)
    BY <1>1 DEF Inserting, Counts
  <2>2. /\ B2 \in [Ptr -> Nat] /\ \A m \in Ptr \ {c, p} : B2[m] = B[m]
        /\ B2[c] = B[c] + 1 /\ B2[p] = B[p] + 1
    BY <1>2, <1>4, <1>12, <2>1 DEF Ptr
  <2>3. ASSUME NEW n \in Node, NEW d \in Side
        PROVE  B2[n] = Weight(t2, n) + B2[t2.kid[d][n]] + Lack(Nil, "rb_left", n, d)
    <3>1. /\ B[n] = Weight(tree, n) + B[tree.kid[d][n]] + Lack(Nil, "rb_left", n, d)
          /\ t2.kid[d][n] = tree.kid[d][n] /\ tree.kid[d][n] \in Ptr
          /\ B[tree.kid[d][n]] \in Nat /\ Lack(Nil, "rb_left", n, d) \in {0, 1}
      BY <1>3, <1>10, <2>1, TreeTypes DEF Lack
    <3>2. CASE n = g
      <4>1. tree.kid[d][n] = p \/ tree.kid[d][n] = c
        BY <1>2, <1>3, <3>2
      <4>2. B2[tree.kid[d][n]] = B[tree.kid[d][n]] + 1
        BY <2>2, <4>1
      <4>3. B2[n] = B[n] /\ Weight(t2, n) = 0 /\ Weight(tree, n) = 1
        BY <1>2, <1>4, <1>10, <2>2, <3>2 DEF Weight, RED, BLACK, Ptr
      <4>4. QED
        BY <3>1, <4>2, <4>3
    <3>3. CASE n # g
      <4>1. B2[tree.kid[d][n]] = B[tree.kid[d][n]]
        BY <1>4, <2>2, <3>1, <3>3
      <4>2. CASE n \in {p, c}
        <5>1. B2[n] = B[n] + 1 /\ Weight(t2, n) = 1 /\ Weight(tree, n) = 0
          BY <1>2, <1>3, <1>10, <2>2, <3>3, <4>2 DEF Weight, RED, BLACK
        <5>2. QED
          BY <3>1, <4>1, <5>1
      <4>3. CASE n \notin {p, c}
        <5>1. B2[n] = B[n] /\ Weight(t2, n) = Weight(tree, n)
          BY <1>10, <2>2, <3>3, <4>3 DEF Weight, Ptr
        <5>2. QED
          BY <3>1, <4>1, <5>1
      <4>4. QED
        BY <4>2, <4>3
    <3>4. QED
      BY <3>2, <3>3
  <2>4. B2[Nil] = 0
    BY <1>2, <1>3, <1>4, <2>1, <2>2 DEF Ptr
  <2>5. QED
    BY <2>2, <2>3, <2>4 DEF Counts
<1>14. RedsApart(t2, q, g)
  <2>1. ASSUME NEW n \in Node, NEW d \in Side, IsRed(t2, n), IsRed(t2, t2.kid[d][n])
        PROVE  n = q /\ t2.kid[d][n] = g
    <3>1. t2.kid[d][n] = tree.kid[d][n] /\ tree.kid[d][n] \in Node
      BY <1>3, <1>10, <2>1, TreeTypes DEF IsRed, Ptr
    <3>2. n # p /\ n # c /\ tree.kid[d][n] # p /\ tree.kid[d][n] # c
      BY <1>2, <1>4, <1>10, <2>1, <3>1 DEF IsRed, RED, BLACK
    <3>3. n # g
      BY <1>2, <1>3, <3>2
    <3>4. CASE tree.kid[d][n] = g
      <4>1. tree.kid[d][n] # Nil
        BY <1>3, <3>1
      <4>2. tree.parent[g] = n
        BY <1>1, <3>4, <4>1, OneParent
      <4>3. QED
        BY <3>1, <3>4, <4>2 DEF q, g
    <3>5. CASE tree.kid[d][n] # g
      <4>1. IsRed(tree, n) /\ IsRed(tree, tree.kid[d][n])
        BY <1>10, <2>1, <3>1, <3>2, <3>3, <3>5 DEF IsRed
      <4>2. n = p
        BY <1>1, <4>1 DEF Inserting, RedsApart, p
      <4>3. QED
        BY <3>2, <4>2
    <3>6. QED
      BY <3>4, <3>5
  <2>2. QED
    BY <2>1 DEF RedsApart
<1>15. q = Nil \/ IsBlack(t2, t2.root)
  <2>1. ASSUME q # Nil
        PROVE  IsBlack(t2, t2.root)
    <3>1. g # tree.root
      BY <1>1, <1>2, <2>1, Parents DEF q, g
    <3>2. tree.root \in Node
      BY <1>1, <1>2, Parents, TreeTypes DEF Shape, Ptr
    <3>3. QED
      BY <1>2, <1>10, <3>1, <3>2 DEF IsBlack, IsRed, RED, BLACK
  <2>2. QED
    BY <2>1
<1>16. Inserting(D, B2)'
  <2>1. g \in D[t2.root] /\ t2.color[g] = RED /\ q = t2.parent[g]
    BY <1>2, <1>10 DEF q, g
  <2>2. pc' = "rb_insert" /\ link' = "rb_root"
    BY <1>1 DEF Inserting
  <2>3. QED
    BY <1>1, <1>6, <1>13, <1>14, <1>15, <2>1, <2>2 DEF Inserting
<1>17. Inv(D, B2)'
  BY <1>1, <1>6, <1>10, <1>11, <1>16 DEF Inv
<1>18. QED
  BY <1>6, <1>10, <1>17

-----------------------------------------------------------------------------
\* Case 3, up to __rb_rotate_set_parents.
Case3Turned(t, u, s, g, p) ==
    /\ u \in Tree /\ u.root = t.root
    /\ \A d \in Side, n \in Node :
          u.kid[d][n] = IF n = p /\ d = Other(s) THEN g ELSE IF n = g /\ d = s THEN t.kid[Other(s)][p]
                        ELSE t.kid[d][n]
    /\ \A n \in Node \ {p} : u.parent[n] = IF n = t.kid[Other(s)][p] THEN g ELSE t.parent[n]
    /\ \A n \in Node : u.color[n] = IF n = t.kid[Other(s)][p] THEN BLACK ELSE t.color[n]

\* Case3 does this.
LEMMA Case3Turns ==
  ASSUME NEW t \in Tree, NEW s \in Side, NEW g \in Node, NEW p \in Node, g # p
  PROVE  \E u : Case3Turned(t, u, s, g, p) /\ ParentsRotated(u, Case3(t, s, g, p), g, p, RED)
<1>. DEFINE tmp == t.kid[Other(s)][p]
            t0  == rb_set_kid(t, s, g, tmp)
            t1  == rb_set_kid(t0, Other(s), p, g)
            u   == rb_set_parent_color_if(t1, tmp, g, BLACK)
            t2  == __rb_rotate_set_parents(u, g, p, RED)
<1>1. t2 = Case3(t, s, g, p)
  BY DEF Case3
<1>2. /\ tmp \in Ptr /\ g \in Ptr /\ Other(s) \in Side /\ Other(s) # s
      /\ RED \in {RED, BLACK} /\ BLACK \in {RED, BLACK}
  BY TreeTypes, Sides DEF Ptr
<1>3. KidSet(t, t0, s, g, tmp)
  BY <1>2, SetKid
<1>. HIDE DEF t0, tmp
<1>4. t0 \in Tree
  BY <1>3 DEF KidSet
<1>5. KidSet(t0, t1, Other(s), p, g)
  BY <1>2, <1>4, SetKid
<1>. HIDE DEF t1
<1>6. t1 \in Tree
  BY <1>5 DEF KidSet
<1>7. ParentColorSet(t1, u, tmp, g, BLACK)
  BY <1>2, <1>6, SetParentColorIf
<1>. HIDE DEF u
<1>8. u \in Tree
  BY <1>7 DEF ParentColorSet
<1>9. ParentsRotated(u, t2, g, p, RED)
  BY <1>2, <1>8, RotateSetParents
<1>. HIDE DEF t2
<1>10. Case3Turned(t, u, s, g, p)
  <2>1. u.root = t.root
    BY <1>3, <1>5, <1>7 DEF KidSet, ParentColorSet
  <2>2. ASSUME NEW d \in Side, NEW n \in Node
        PROVE  u.kid[d][n] = IF n = p /\ d = Other(s) THEN g ELSE IF n = g /\ d = s THEN tmp
                             ELSE t.kid[d][n]
    BY <1>3, <1>5, <1>7 DEF KidSet, ParentColorSet
  <2>3. ASSUME NEW n \in Node
        PROVE  /\ u.parent[n] = IF n = tmp THEN g ELSE t.parent[n]
               /\ u.color[n] = IF n = tmp THEN BLACK ELSE t.color[n]
    BY <1>3, <1>5, <1>7 DEF KidSet, ParentColorSet
  <2>4. QED
    BY <1>8, <2>1, <2>2, <2>3 DEF Case3Turned, tmp
<1>11. QED
  BY <1>1, <1>9, <1>10

\* Case 2 leaves the child of g and the parent of n to Case 3.
Case2Turned(t, s, n) ==
    /\ t \in Tree /\ t.root = tree.root
    /\ \A d \in Side, m \in Node :
          t.kid[d][m] = IF m = n /\ d = s THEN parent
                        ELSE IF m = parent /\ d = Other(s) THEN tree.kid[s][n] ELSE tree.kid[d][m]
    /\ \A m \in Node : t.parent[m] = IF m = parent THEN n ELSE IF m = tree.kid[s][n] THEN parent
                                     ELSE tree.parent[m]
    /\ \A m \in Node : t.color[m] = IF m = parent THEN RED ELSE IF m = tree.kid[s][n] THEN BLACK
                                    ELSE tree.color[m]

\* Case2 does this.
LEMMA Case2Turns ==
  ASSUME tree \in Tree, NEW s \in Side, node \in Node, parent \in Node, node # parent
  PROVE  Case2Turned(Case2(s), s, node)
<1>. DEFINE tmp == tree.kid[s][node]
            t0  == rb_set_kid(tree, Other(s), parent, tmp)
            t1  == rb_set_kid(t0, s, node, parent)
            u   == rb_set_parent_color_if(t1, tmp, parent, BLACK)
            t2  == rb_set_parent_color(u, parent, node, RED)
<1>1. t2 = Case2(s)
  BY DEF Case2
<1>2. /\ tmp \in Ptr /\ node \in Ptr /\ parent \in Ptr /\ Other(s) \in Side /\ Other(s) # s
      /\ RED \in {RED, BLACK} /\ BLACK \in {RED, BLACK}
  BY TreeTypes, Sides DEF Ptr
<1>3. KidSet(tree, t0, Other(s), parent, tmp)
  BY <1>2, SetKid
<1>. HIDE DEF t0, tmp
<1>4. t0 \in Tree
  BY <1>3 DEF KidSet
<1>5. KidSet(t0, t1, s, node, parent)
  BY <1>2, <1>4, SetKid
<1>. HIDE DEF t1
<1>6. t1 \in Tree
  BY <1>5 DEF KidSet
<1>7. ParentColorSet(t1, u, tmp, parent, BLACK)
  BY <1>2, <1>6, SetParentColorIf
<1>. HIDE DEF u
<1>8. u \in Tree
  BY <1>7 DEF ParentColorSet
<1>9. ParentColorSet(u, t2, parent, node, RED)
  BY <1>2, <1>8, SetParentColor
<1>. HIDE DEF t2
<1>10. Case2Turned(t2, s, node)
  <2>1. t2 \in Tree /\ t2.root = tree.root
    BY <1>3, <1>5, <1>7, <1>9 DEF KidSet, ParentColorSet
  <2>2. ASSUME NEW d \in Side, NEW m \in Node
        PROVE  t2.kid[d][m] = IF m = node /\ d = s THEN parent
                              ELSE IF m = parent /\ d = Other(s) THEN tmp ELSE tree.kid[d][m]
    BY <1>3, <1>5, <1>7, <1>9 DEF KidSet, ParentColorSet
  <2>3. ASSUME NEW m \in Node
        PROVE  /\ t2.parent[m] = IF m = parent THEN node ELSE IF m = tmp THEN parent ELSE tree.parent[m]
               /\ t2.color[m] = IF m = parent THEN RED ELSE IF m = tmp THEN BLACK ELSE tree.color[m]
    BY <1>3, <1>5, <1>7, <1>9 DEF KidSet, ParentColorSet
  <2>4. QED
    BY <2>1, <2>2, <2>3 DEF Case2Turned, tmp
<1>11. QED
  BY <1>1, <1>10

\* All the rules hold in t2, a tree of the nodes N.
Settled(t2, N) ==
    \E D, B : /\ Shape(t2, D) /\ D[t2.root] = N
              /\ Counts(t2, B, Nil, "rb_left") /\ RedsApart(t2, Nil, Nil) /\ IsBlack(t2, t2.root)

\* What Case 3 starts from: n is the outer red child of the red p.
OuterRed(t, B, s, g, p, n) ==
    /\ g \in Node /\ p \in Node /\ n \in Node /\ s \in Side
    /\ p = t.kid[s][g] /\ n = t.kid[s][p]
    /\ t.color[g] = BLACK /\ t.color[p] = RED /\ t.color[n] = RED
    /\ IsBlack(t, t.kid[Other(s)][g]) /\ IsBlack(t, t.kid[Other(s)][p]) /\ IsBlack(t, t.root)
    /\ Counts(t, B, Nil, "rb_left") /\ RedsApart(t, p, n)

\* After it nothing is wrong.
LEMMA Case3Settles ==
  ASSUME NEW t, NEW D, Shape(t, D), NEW B, NEW s, NEW g, NEW p, NEW n,
         OuterRed(t, B, s, g, p, n),
         NEW u, Case3Turned(t, u, s, g, p), NEW t2, ParentsRotated(u, t2, g, p, RED)
  PROVE  Settled(t2, D[t.root])
<1>. DEFINE o == Other(s)
            b == t.kid[o][p]
<1>1. /\ g \in Node /\ p \in Node /\ n \in Node /\ s \in Side
      /\ p = t.kid[s][g] /\ n = t.kid[s][p]
      /\ t.color[g] = BLACK /\ t.color[p] = RED /\ t.color[n] = RED
      /\ IsBlack(t, t.kid[o][g]) /\ IsBlack(t, b) /\ IsBlack(t, t.root)
      /\ Counts(t, B, Nil, "rb_left") /\ RedsApart(t, p, n)
  BY DEF OuterRed
<1>2. /\ o \in Side /\ o # s /\ Other(o) = s /\ (\A d \in Side : d = s \/ d = o)
      /\ t \in Tree /\ Nil \notin Node /\ p # Nil /\ g # Nil
  BY <1>1, Sides, NilAssumption DEF Shape
<1>3. p # g /\ b # p /\ b # g /\ b \in Ptr /\ g \in D[t.root]
  <2>1. p # g /\ b # p /\ b \in Ptr
    BY <1>1, <1>2, KidSelf, TreeTypes
  <2>2. g \notin D[p]
    BY <1>1, <1>2, BelowNode
  <2>3. b # g
    BY <1>1, <1>2, <2>2, KidSelf
  <2>4. QED
    BY <1>1, <1>2, <2>1, <2>3, OneParent
<1>4. Turned(t, u, o, g, p)
  <2>1. u \in Tree /\ u.root = t.root
    BY DEF Case3Turned
  <2>2. ASSUME NEW d \in Side, NEW m \in Node
        PROVE  u.kid[d][m] = IF m = g /\ d # o THEN t.kid[o][p] ELSE IF m = p /\ d = o THEN g
                             ELSE t.kid[d][m]
    BY <1>2, <1>3 DEF Case3Turned
  <2>3. ASSUME NEW m \in Node \ {p}
        PROVE  u.parent[m] = IF m = t.kid[o][p] THEN g ELSE t.parent[m]
    BY DEF Case3Turned
  <2>4. QED
    BY <2>1, <2>2, <2>3 DEF Turned
<1>5. IsRotated(t, t2, o, g, p)
  BY <1>1, <1>2, <1>4, TurnedRotates
<1>6. \A m \in Node : t2.color[m] = IF m = g THEN RED ELSE IF m = p THEN BLACK ELSE t.color[m]
  <2>1. u.color[g] = BLACK
    BY <1>1, <1>3 DEF Case3Turned
  <2>2. ASSUME NEW m \in Node
        PROVE  u.color[m] = t.color[m]
    <3>1. b # Nil => t.color[b] = BLACK
      BY <1>1, <1>2, <1>3, TreeTypes DEF IsBlack, IsRed, Ptr
    <3>2. QED
      BY <1>2, <3>1 DEF Case3Turned
  <2>3. QED
    BY <2>1, <2>2 DEF ParentsRotated
<1>. HIDE DEF o, b
<1>7. PICK D2 : D2 = BelowRotated(t, D, o, g, p)
  OBVIOUS
<1>8. Shape(t2, D2) /\ D2[t2.root] = D[t.root]
  <2>1. \A m \in Node \ D[t.root] : t2.color[m] = t.color[m]
    <3>1. p \in D[t.root]
      BY <1>1, <1>2, OneParent
    <3>2. QED
      BY <1>3, <1>6, <3>1
  <2>2. QED
    BY <1>1, <1>2, <1>5, <1>7, <2>1, RotatedShape
<1>9. \E B2 : Counts(t2, B2, Nil, "rb_left")
  <2>1. /\ B \in [Ptr -> Nat] /\ \A m \in Node, d \in Side :
               B[m] = Weight(t, m) + B[t.kid[d][m]] + Lack(Nil, "rb_left", m, d)
    BY <1>1 DEF Counts
  <2>2. \A m \in Node, d \in Side : Lack(Nil, "rb_left", m, d) = 0
    BY <1>2 DEF Lack
  <2>3. Weight(t, g) = 1 /\ Weight(t, p) = 0 /\ Weight(t2, g) = 0 /\ Weight(t2, p) = 1
    BY <1>1, <1>3, <1>6 DEF Weight, RED, BLACK
  <2>4. /\ B[p] \in Nat /\ B[t.kid[o][g]] \in Nat /\ B[b] \in Nat /\ B[n] \in Nat
    BY <1>1, <1>2, <1>3, <2>1, TreeTypes DEF Ptr
  <2>5. B[g] = 1 + B[p] /\ B[g] = 1 + B[t.kid[o][g]] /\ B[p] = B[n] /\ B[p] = B[t.kid[o][p]]
    <3>1. /\ B[g] = Weight(t, g) + B[t.kid[s][g]] + Lack(Nil, "rb_left", g, s)
          /\ B[g] = Weight(t, g) + B[t.kid[o][g]] + Lack(Nil, "rb_left", g, o)
          /\ B[p] = Weight(t, p) + B[t.kid[s][p]] + Lack(Nil, "rb_left", p, s)
          /\ B[p] = Weight(t, p) + B[t.kid[o][p]] + Lack(Nil, "rb_left", p, o)
      BY <1>1, <1>2, <2>1
    <3>2. /\ Lack(Nil, "rb_left", g, s) = 0 /\ Lack(Nil, "rb_left", g, o) = 0
          /\ Lack(Nil, "rb_left", p, s) = 0 /\ Lack(Nil, "rb_left", p, o) = 0
      BY <1>1, <1>2, <2>2
    <3>3. B[g] = 1 + B[t.kid[s][g]] /\ B[g] = 1 + B[t.kid[o][g]]
      BY <1>1, <2>3, <2>4, <3>1, <3>2, SMTT(20)
    <3>4. B[p] = B[t.kid[s][p]]
      <4>1. t.kid[s][p] = n
        BY <1>1
      <4>2. B[p] = Weight(t, p) + B[n] + Lack(Nil, "rb_left", p, s)
        BY <3>1, <4>1
      <4>3. QED
        BY <2>3, <2>4, <3>2, <4>1, <4>2
    <3>6. B[p] = B[b]
      <4>2. B[p] = Weight(t, p) + B[b] + Lack(Nil, "rb_left", p, o)
        BY <3>1 DEF b
      <4>3. QED
        BY <2>3, <2>4, <3>2, <4>2
    <3>5. QED
      BY <1>1, <3>3, <3>4, <3>6 DEF b
  <2>6. /\ B[p] = Weight(t2, g) + B[t.kid[o][g]] + Lack(Nil, "rb_left", g, o)
        /\ B[p] = Weight(t2, g) + B[t.kid[o][p]] + Lack(Nil, "rb_left", g, Other(o))
        /\ B[g] = Weight(t2, p) + B[p] + Lack(Nil, "rb_left", p, o)
        /\ B[g] = Weight(t2, p) + B[n] + 0 + Lack(Nil, "rb_left", p, Other(o))
    <3>1. /\ Lack(Nil, "rb_left", g, s) = 0 /\ Lack(Nil, "rb_left", g, o) = 0
          /\ Lack(Nil, "rb_left", p, s) = 0 /\ Lack(Nil, "rb_left", p, o) = 0 /\ Other(o) = s
      BY <1>1, <1>2, <2>2
    <3>2. B[t.kid[o][g]] = B[p] /\ B[t.kid[o][p]] = B[p] /\ B[n] = B[p]
      BY <2>4, <2>5
    <3>3. QED
      BY <2>3, <2>4, <2>5, <3>1, <3>2
  <2>7. n # p /\ n # g /\ Weight(t2, n) = Weight(t, n) + 0
    <3>1. n # p /\ n # g
      BY <1>1 , <1>2, KidSelf, BelowNode DEF RED, BLACK
    <3>2. Weight(t2, n) = Weight(t, n) /\ Weight(t, n) = 0
      BY <1>1, <1>6, <3>1 DEF Weight, RED, BLACK
    <3>3. QED
      BY <3>1, <3>2
  <2>8. /\ p = t.kid[Other(o)][g] /\ n = t.kid[Other(o)][p] /\ 0 \in {0, 1} /\ n # Nil
        /\ \A m \in Node \ {g, p, n} : t2.color[m] = t.color[m]
    BY <1>1, <1>2, <1>6
  <2>9. CountsFit(t, t2, B, o, g, p, n, B[p], 0, Nil, "rb_left", Nil, "rb_left")
    BY <2>4, <2>6, <2>7, <2>8 DEF CountsFit
  <2>10. Counts(t2, CountsRotated(B, g, p, n, B[p], 0), Nil, "rb_left")
    BY <1>1, <1>2, <1>5, <2>8, <2>9, RotatedCounts
  <2>11. QED
    BY <2>10
<1>10. RedsApart(t2, Nil, Nil)
  <2>1. ASSUME NEW m \in Node, NEW d \in Side, IsRed(t2, m), IsRed(t2, t2.kid[d][m])
        PROVE  FALSE
    <3>0. t2.kid[d][m] = IF m = g THEN IF d = o THEN t.kid[o][g] ELSE t.kid[o][p]
                         ELSE IF m = p THEN IF d = o THEN g ELSE t.kid[d][p]
                         ELSE IF t.kid[d][m] = g THEN p ELSE t.kid[d][m]
      BY <1>5 DEF IsRotated
    <3>1. t2.kid[d][m] \in Node /\ t2.kid[d][m] # p /\ m # p
      <4>1. t2.kid[d][m] \in Ptr /\ t2.kid[d][m] # Nil
        BY <1>5, <2>1, TreeTypes DEF IsRotated, IsRed
      <4>2. QED
        BY <1>1, <1>2, <1>6, <2>1, <4>1 DEF IsRed, RED, BLACK, Ptr
    <3>2. CASE m = g
      <4>1. t2.kid[d][m] = t.kid[o][g] \/ t2.kid[d][m] = b
        BY <3>0, <3>2 DEF b
      <4>2. IsBlack(t, t2.kid[d][m])
        BY <1>1, <4>1
      <4>3. t2.kid[d][m] # g
        BY <1>2, <1>3, <1>1, <4>1, KidSelf
      <4>4. t2.color[t2.kid[d][m]] = t.color[t2.kid[d][m]]
        BY <1>6, <3>1, <4>3
      <4>5. QED
        BY <2>1, <4>2, <4>4 DEF IsBlack, IsRed
    <3>3. CASE m # g
      <4>1. t2.kid[d][m] = t.kid[d][m] /\ t.kid[d][m] # g
        BY <3>0, <3>1, <3>3
      <4>2. IsRed(t, m) /\ IsRed(t, t.kid[d][m])
        BY <1>6, <2>1, <3>1, <3>3, <4>1 DEF IsRed
      <4>3. m = p
        BY <1>1, <4>2 DEF RedsApart
      <4>4. QED
        BY <3>1, <4>3
    <3>4. QED
      BY <3>2, <3>3
  <2>2. QED
    BY <2>1 DEF RedsApart
<1>11. IsBlack(t2, t2.root)
  <2>1. t2.root = IF t.root = g THEN p ELSE t.root
    BY <1>5 DEF IsRotated
  <2>2. t.root \in Ptr
    BY <1>2, TreeTypes
  <2>3. QED
    BY <1>1, <1>6, <2>1, <2>2 DEF IsBlack, IsRed, RED, BLACK, Ptr
<1>12. QED
  BY <1>8, <1>9, <1>10, <1>11 DEF Settled

\* A node that is the inner child of its red parent: the rotation at the parent
\* leaves what Case 3 starts from.
LEMMA Case2Turned3 ==
  ASSUME NEW D, NEW B, Shape(tree, D), Inserting(D, B), IsRed(tree, parent), IsBlack(tree, uncle),
         NEW s, s = ParentSide, NEW g, g = gparent, node = tree.kid[Other(s)][parent],
         NEW u, Case3Turned(Case2(s), u, s, g, node)
  PROVE  \E t, D1, B1 : /\ Shape(t, D1) /\ D1[t.root] = D[tree.root]
                        /\ OuterRed(t, B1, s, g, node, parent) /\ Case3Turned(t, u, s, g, node)
<1>. DEFINE o == Other(s)
            p == parent
            n == node
            b == tree.kid[s][n]
            c == tree.kid[o][n]
            a == tree.kid[s][p]
<1>1. /\ n \in Node /\ p \in Node /\ g \in Node /\ p \in D[tree.root] /\ n \in D[tree.root]
      /\ tree.color[n] = RED /\ tree.color[p] = RED /\ tree.color[g] = BLACK
      /\ p # g /\ n # p /\ n # g /\ p # tree.root /\ s \in Side /\ tree.kid[s][g] = p
      /\ IsBlack(tree, tree.root) /\ n = tree.kid[o][p]
  BY UnderRed
<1>2. /\ o \in Side /\ o # s /\ Other(o) = s /\ (\A d \in Side : d = s \/ d = o)
      /\ tree \in Tree /\ Nil \notin Node /\ p # Nil /\ g # Nil /\ n # Nil
  BY <1>1, Sides, NilAssumption DEF Shape
<1>3. /\ Counts(tree, B, Nil, "rb_left") /\ RedsApart(tree, p, n)
      /\ IsBlack(tree, tree.kid[o][g]) /\ tree.parent[p] = g
  <2>1. Counts(tree, B, Nil, "rb_left") /\ RedsApart(tree, p, n)
    BY DEF Inserting
  <2>2. IsBlack(tree, tree.kid[o][g])
    BY DEF uncle
  <2>3. tree.kid[s][g] # Nil
    BY <1>1, <1>2
  <2>4. QED
    BY <1>1, <2>1, <2>2, <2>3, OneParent
<1>4. /\ b \in Ptr /\ c \in Ptr /\ a \in Ptr /\ b # n /\ c # n /\ b # p /\ c # p /\ a # n /\ a # p
  <2>1. b \in Ptr /\ c \in Ptr /\ a \in Ptr
    BY <1>1, <1>2, TreeTypes
  <2>2. p \notin D[n]
    BY <1>1, <1>2, BelowNode
  <2>3. b # n /\ c # n /\ b # p /\ c # p /\ a # p
    BY <1>1, <1>2, <2>2, KidSelf
  <2>4. a # n
    <3>1. tree.kid[o][p] # Nil
      BY <1>1, <1>2
    <3>2. QED
      BY <1>1, <1>2, <3>1, OneParent
  <2>5. QED
    BY <2>1, <2>3, <2>4
<1>5. IsBlack(tree, b) /\ IsBlack(tree, c) /\ IsBlack(tree, a)
  <2>1. IsRed(tree, n) /\ IsRed(tree, p)
    BY <1>1, <1>2 DEF IsRed
  <2>2. QED
    BY <1>1, <1>2, <1>3, <1>4, <2>1 DEF RedsApart, IsBlack
<1>6. PICK t : IsRotated(tree, t, s, p, n) /\ t.color = tree.color
  <2>1. tree.color \in [Node -> {RED, BLACK}]
    BY <1>2 DEF Tree
  <2>2. Rotatable(tree, s, p, n, tree.color)
    BY <1>1, <1>2, <2>1, RotatedExists
  <2>3. QED
    BY <2>2 DEF Rotatable
<1>7. PICK D1 : D1 = BelowRotated(tree, D, s, p, n)
  OBVIOUS
<1>8. Shape(t, D1) /\ D1[t.root] = D[tree.root]
  BY <1>1, <1>6, <1>7, RotatedShape
<1>. HIDE DEF o, p, n, b, c, a
<1>9. /\ t \in Tree /\ t.root = tree.root
      /\ \A d \in Side, m \in Node :
            t.kid[d][m] = IF m = p THEN IF d = s THEN a ELSE b
                          ELSE IF m = n THEN IF d = s THEN p ELSE tree.kid[d][n]
                          ELSE IF tree.kid[d][m] = p THEN n ELSE tree.kid[d][m]
      /\ \A m \in Node : t.parent[m] = IF m = n THEN tree.parent[p] ELSE IF m = p THEN n
                                       ELSE IF m = b THEN p ELSE tree.parent[m]
  BY <1>1, <1>6 DEF IsRotated, a, b, p, n
<1>10. /\ t.kid[s][g] = n /\ t.kid[s][n] = p /\ t.kid[o][g] = tree.kid[o][g] /\ t.kid[o][n] = c
  <2>1. tree.kid[o][g] # p
    BY <1>1, <1>2, OneParent
  <2>2. QED
    BY <1>1, <1>2, <1>9, <2>1 DEF c
<1>11. PICK B1 : B1 = CountsRotated(B, p, n, c, B[p], 0)
  OBVIOUS
<1>12. Counts(t, B1, Nil, "rb_left")
  <2>1. /\ B \in [Ptr -> Nat] /\ \A m \in Node, d \in Side :
               B[m] = Weight(tree, m) + B[tree.kid[d][m]] + Lack(Nil, "rb_left", m, d)
    BY <1>3 DEF Counts
  <2>2. /\ Lack(Nil, "rb_left", n, s) = 0 /\ Lack(Nil, "rb_left", n, o) = 0
        /\ Lack(Nil, "rb_left", p, s) = 0 /\ Lack(Nil, "rb_left", p, o) = 0
    BY <1>2 DEF Lack
  <2>3. Weight(tree, n) = 0 /\ Weight(tree, p) = 0 /\ Weight(t, n) = 0 /\ Weight(t, p) = 0
    BY <1>1, <1>6 DEF Weight, RED, BLACK
  <2>4. B[p] \in Nat /\ B[n] \in Nat /\ B[a] \in Nat /\ B[b] \in Nat /\ B[c] \in Nat
    BY <1>1, <1>4, <2>1 DEF Ptr
  <2>5. B[p] = B[a] /\ B[p] = B[n]
    <3>1. /\ B[p] = Weight(tree, p) + B[a] + Lack(Nil, "rb_left", p, s)
          /\ B[p] = Weight(tree, p) + B[n] + Lack(Nil, "rb_left", p, o)
      BY <1>1, <1>2, <2>1 DEF a
    <3>2. QED
      BY <2>2, <2>3, <2>4, <3>1
  <2>6. B[n] = B[b] /\ B[n] = B[c]
    <3>1. /\ B[n] = Weight(tree, n) + B[b] + Lack(Nil, "rb_left", n, s)
          /\ B[n] = Weight(tree, n) + B[c] + Lack(Nil, "rb_left", n, o)
      BY <1>1, <1>2, <2>1 DEF b, c
    <3>2. QED
      BY <2>2, <2>3, <2>4, <3>1
  <2>7. /\ B[p] = Weight(t, p) + B[a] + Lack(Nil, "rb_left", p, s)
        /\ B[p] = Weight(t, p) + B[b] + Lack(Nil, "rb_left", p, o)
        /\ B[p] = Weight(t, n) + B[p] + Lack(Nil, "rb_left", n, s)
        /\ B[p] = Weight(t, n) + B[c] + 0 + Lack(Nil, "rb_left", n, o)
    BY <2>2, <2>3, <2>4, <2>5, <2>6
  <2>8. c # Nil => Weight(t, c) = Weight(tree, c) + 0
    BY <1>6 DEF Weight
  <2>9. CountsFit(tree, t, B, s, p, n, c, B[p], 0, Nil, "rb_left", Nil, "rb_left")
    BY <1>1, <1>6, <2>4, <2>7, <2>8 DEF CountsFit, a, b, c, o
  <2>10. n = tree.kid[Other(s)][p]
    BY <1>1 DEF o
  <2>11. QED
    BY <1>1, <1>3, <1>6, <1>11, <2>9, <2>10, RotatedCounts
<1>13. RedsApart(t, n, p)
  <2>1. ASSUME NEW m \in Node, NEW d \in Side, IsRed(t, m), IsRed(t, t.kid[d][m])
        PROVE  m = n /\ t.kid[d][m] = p
    <3>1. IsRed(tree, m) /\ IsRed(tree, t.kid[d][m])
      BY <1>6, <2>1 DEF IsRed
    <3>2. CASE m = p
      BY <1>5, <1>9, <3>1, <3>2 DEF IsBlack
    <3>3. CASE m = n
      BY <1>2, <1>5, <1>9, <1>1, <3>1, <3>3 DEF IsBlack, c
    <3>4. CASE m # p /\ m # n
      <4>1. tree.kid[d][m] # p
        <5>1. ASSUME tree.kid[d][m] = p
              PROVE  FALSE
          <6>1. IsRed(tree, tree.kid[d][m])
            BY <1>1, <1>2, <5>1 DEF IsRed
          <6>2. QED
            BY <1>3, <3>1, <3>4, <6>1 DEF RedsApart
        <5>2. QED
          BY <5>1
      <4>2. QED
        BY <1>3, <1>9, <3>1, <3>4, <4>1 DEF RedsApart
    <3>5. QED
      BY <3>2, <3>3, <3>4
  <2>2. QED
    BY <2>1 DEF RedsApart
<1>14. OuterRed(t, B1, s, g, n, p)
  <2>1. IsBlack(t, t.root) /\ IsBlack(t, t.kid[o][g]) /\ IsBlack(t, t.kid[o][n])
    BY <1>1, <1>3, <1>5, <1>6, <1>9, <1>10 DEF IsBlack, IsRed
  <2>2. QED
    BY <1>1, <1>6, <1>10, <1>12, <1>13, <2>1 DEF OuterRed, o
<1>15. Case3Turned(t, u, s, g, n)
  <2>1. Case2Turned(Case2(s), s, n)
    BY <1>1, <1>2, Case2Turns DEF n, p
  <2>. DEFINE w == Case2(s)
  <2>. HIDE DEF w
  <2>2. /\ w \in Tree /\ w.root = tree.root
        /\ \A d \in Side, m \in Node :
              w.kid[d][m] = IF m = n /\ d = s THEN p ELSE IF m = p /\ d = o THEN b ELSE tree.kid[d][m]
        /\ \A m \in Node : w.parent[m] = IF m = p THEN n ELSE IF m = b THEN p ELSE tree.parent[m]
        /\ \A m \in Node : w.color[m] = IF m = p THEN RED ELSE IF m = b THEN BLACK ELSE tree.color[m]
    BY <2>1 DEF Case2Turned, w, n, p, b, o
  <2>3. /\ u \in Tree /\ u.root = w.root
        /\ \A d \in Side, m \in Node :
              u.kid[d][m] = IF m = n /\ d = o THEN g ELSE IF m = g /\ d = s THEN w.kid[o][n]
                            ELSE w.kid[d][m]
        /\ \A m \in Node \ {n} : u.parent[m] = IF m = w.kid[o][n] THEN g ELSE w.parent[m]
        /\ \A m \in Node : u.color[m] = IF m = w.kid[o][n] THEN BLACK ELSE w.color[m]
    BY DEF Case3Turned, w, n, o
  <2>4. w.kid[o][n] = c /\ t.kid[o][n] = c
    BY <1>1, <1>2, <1>10, <2>2 DEF c
  <2>5. ASSUME NEW d \in Side, NEW m \in Node
        PROVE  u.kid[d][m] = IF m = n /\ d = o THEN g ELSE IF m = g /\ d = s THEN t.kid[o][n]
                             ELSE t.kid[d][m]
    <3>1. u.kid[d][m] = IF m = n /\ d = o THEN g ELSE IF m = g /\ d = s THEN c
                        ELSE IF m = n /\ d = s THEN p ELSE IF m = p /\ d = o THEN b ELSE tree.kid[d][m]
      BY <2>2, <2>3, <2>4
    <3>2. CASE m = p
      BY <1>1, <1>2, <1>9, <3>1, <3>2 DEF a
    <3>3. CASE m = n
      BY <1>1, <1>2, <1>9, <3>1, <3>3
    <3>4. CASE m # p /\ m # n
      <4>1. tree.kid[d][m] = p => m = g /\ d = s
        <5>1. tree.kid[s][g] # Nil
          BY <1>1, <1>2
        <5>2. QED
          BY <1>1, <5>1, OneParent
      <4>2. QED
        BY <1>9, <2>4, <3>1, <3>4, <4>1
    <3>5. QED
      BY <3>2, <3>3, <3>4
  <2>6. ASSUME NEW m \in Node \ {n}
        PROVE  u.parent[m] = IF m = t.kid[o][n] THEN g ELSE t.parent[m]
    BY <1>9, <2>2, <2>3, <2>4
  <2>7. ASSUME NEW m \in Node
        PROVE  u.color[m] = IF m = t.kid[o][n] THEN BLACK ELSE t.color[m]
    <3>1. b # Nil => tree.color[b] = BLACK
      BY <1>2, <1>4, <1>5, TreeTypes DEF IsBlack, IsRed, Ptr
    <3>2. QED
      BY <1>1, <1>2, <1>6, <2>2, <2>3, <2>4, <3>1
  <2>8. QED
    BY <1>9, <2>2, <2>3, <2>5, <2>6, <2>7 DEF Case3Turned, o
<1>16. QED
  BY <1>8, <1>14, <1>15 DEF n, p

\* Cases 2 and 3 end the loop.
LEMMA InsertRotateKeeps ==
  ASSUME NEW D, NEW B, Inv(D, B), InsertRotate
  PROVE  \E D2, B2 : Inv(D2, B2)' /\ D2[tree'.root] = D[tree.root]
<1>. DEFINE s == ParentSide
            g == gparent
            p == parent
            n == node
            o == Other(s)
<1>1. /\ Shape(tree, D) /\ Inserting(D, B) /\ size = Cardinality(D[tree.root]) /\ answer \in Ptr
      /\ IsRed(tree, p) /\ IsBlack(tree, uncle) /\ tree' = Case23
      /\ Return /\ size' = size /\ answer' = answer
  BY DEF Inv, InsertRotate, Resting, Descending, Inserting, Erasing
<1>2. /\ n \in Node /\ p \in Node /\ g \in Node /\ tree.color[n] = RED /\ tree.color[p] = RED
      /\ tree.color[g] = BLACK /\ p # g /\ n # p /\ n # g /\ s \in Side /\ tree.kid[s][g] = p
      /\ (\E d \in Side : tree.kid[d][p] = n) /\ IsBlack(tree, tree.root)
  BY <1>1, UnderRed
<1>3. o \in Side /\ o # s /\ (\A d \in Side : d = s \/ d = o) /\ tree \in Tree /\ Nil \notin Node
  BY <1>1, <1>2, Sides, NilAssumption DEF Shape
<1>4. Settled(tree', D[tree.root])
  <2>1. CASE n = tree.kid[o][p]
    <3>1. tree' = Case3(Case2(s), s, g, n)
      BY <1>1, <2>1 DEF Case23
    <3>2. Case2(s) \in Tree
      <4>1. Case2Turned(Case2(s), s, n)
        BY <1>2, <1>3, Case2Turns
      <4>2. QED
        BY <4>1 DEF Case2Turned
    <3>3. PICK u : Case3Turned(Case2(s), u, s, g, n) /\ ParentsRotated(u, Case3(Case2(s), s, g, n), g, n, RED)
      BY <1>2, <3>2, Case3Turns
    <3>4. PICK t, D1, B1 : /\ Shape(t, D1) /\ D1[t.root] = D[tree.root]
                           /\ OuterRed(t, B1, s, g, n, p) /\ Case3Turned(t, u, s, g, n)
      BY <1>1, <2>1, <3>3, Case2Turned3
    <3>5. Settled(tree', D1[t.root])
      BY <3>1, <3>3, <3>4, Case3Settles
    <3>6. QED
      BY <3>4, <3>5
  <2>2. CASE n # tree.kid[o][p]
    <3>1. tree' = Case3(tree, s, g, p)
      BY <1>1, <2>2 DEF Case23
    <3>2. PICK u : Case3Turned(tree, u, s, g, p) /\ ParentsRotated(u, Case3(tree, s, g, p), g, p, RED)
      BY <1>2, <1>3, Case3Turns
    <3>3. n = tree.kid[s][p]
      BY <1>2, <1>3, <2>2
    <3>4. OuterRed(tree, B, s, g, p, n)
      <4>1. Counts(tree, B, Nil, "rb_left") /\ RedsApart(tree, p, n)
        BY <1>1 DEF Inserting
      <4>2. IsBlack(tree, tree.kid[o][g])
        BY <1>1 DEF uncle
      <4>3. IsBlack(tree, tree.kid[o][p])
        <5>1. ASSUME IsRed(tree, tree.kid[o][p])
              PROVE  FALSE
          <6>1. IsRed(tree, p)
            BY <1>1
          <6>2. n = tree.kid[o][p]
            BY <1>2, <1>3, <4>1, <5>1, <6>1 DEF RedsApart
          <6>3. QED
            BY <2>2, <6>2
        <5>2. QED
          BY <5>1 DEF IsBlack
      <4>4. QED
        BY <1>2, <3>3, <4>1, <4>2, <4>3 DEF OuterRed
    <3>5. Settled(tree', D[tree.root])
      BY <1>1, <3>1, <3>2, <3>4, Case3Settles
    <3>6. QED
      BY <3>5
  <2>3. QED
    BY <2>1, <2>2
<1>5. PICK D2, B2 : /\ Shape(tree', D2) /\ D2[tree'.root] = D[tree.root]
                    /\ Counts(tree', B2, Nil, "rb_left") /\ RedsApart(tree', Nil, Nil)
                    /\ IsBlack(tree', tree'.root)
  BY <1>4 DEF Settled
<1>6. Inv(D2, B2)'
  BY <1>1, <1>5 DEF Inv, Resting, Balanced, Return
<1>7. QED
  BY <1>5, <1>6

-----------------------------------------------------------------------------
\* What erasing n leaves: the nodes but n, and the rules or one place to rebalance.
Erased(t2, N, x) ==
    \E D, B, f : /\ Shape(t2, D) /\ D[t2.root] = N /\ Coloured(t2, B, x, f)
                 /\ x # Nil => x \in N /\ f \in Side /\ t2.kid[f][x] = Nil

IsFreed(t, t2, n) ==
    /\ t2 \in Tree /\ t2.root = t.root
    /\ \A d \in Side, m \in Node : t2.kid[d][m] = IF m = n THEN Nil ELSE t.kid[d][m]
    /\ \A m \in Node : t2.parent[m] = IF m = n THEN Nil ELSE t.parent[m]
    /\ \A m \in Node : t2.color[m] = IF m = n THEN RED ELSE t.color[m]

\* Freed does this.
LEMMA FreeNode ==
  ASSUME NEW t \in Tree, NEW n \in Node
  PROVE  IsFreed(t, Freed(t, n), n)
<1>1. Nil \in Ptr
  BY DEF Ptr
<1>2. QED
  BY <1>1 DEF Freed, Tree, IsFreed

\* EraseUpToOne does this.
LEMMA EraseUpToOneSplices ==
  ASSUME NEW D, Shape(tree, D), NEW n \in D[tree.root], NEW c, OneChild(tree, n, c)
  PROVE  IsSpliced(tree, Freed(EraseUpToOne(n, c).tree, n), n, c)
<1>. DEFINE p  == tree.parent[n]
            t0 == __rb_change_child(tree, n, c, p)
            t1 == rb_set_parent_color_if(t0, c, p, tree.color[n])
            t2 == Freed(t1, n)
<1>1. EraseUpToOne(n, c).tree = t1
  BY DEF EraseUpToOne
<1>2. /\ tree \in Tree /\ n \in Node /\ c \in Ptr /\ c # n /\ tree.color[n] \in {RED, BLACK}
  <2>1. tree \in Tree /\ n \in Node
    BY Parents DEF Shape
  <2>2. PICK s \in Side : tree.kid[s][n] = c
    BY DEF OneChild
  <2>3. QED
    BY <2>1, <2>2, TreeTypes, KidSelf, NilAssumption
<1>3. /\ p \in Ptr \ {n} /\ (p = Nil <=> tree.root = n)
      /\ \A d \in Side, m \in Node : tree.kid[d][m] = n <=> m = p /\ d = SideOf(tree, n, p)
  BY Place
<1>. HIDE DEF p
<1>4. ChildChanged(tree, t0, n, c, p)
  BY <1>2, <1>3, ChangeChild
<1>. HIDE DEF t0
<1>5. t0 \in Tree
  BY <1>4 DEF ChildChanged
<1>6. ParentColorSet(t0, t1, c, p, tree.color[n])
  BY <1>2, <1>3, <1>5, SetParentColorIf
<1>. HIDE DEF t1
<1>7. t1 \in Tree
  BY <1>6 DEF ParentColorSet
<1>8. /\ t2 \in Tree /\ t2.root = t1.root
      /\ \A d \in Side, m \in Node : t2.kid[d][m] = IF m = n THEN Nil ELSE t1.kid[d][m]
      /\ \A m \in Node : t2.parent[m] = IF m = n THEN Nil ELSE t1.parent[m]
      /\ \A m \in Node : t2.color[m] = IF m = n THEN RED ELSE t1.color[m]
  <2>1. IsFreed(t1, t2, n)
    BY <1>2, <1>7, FreeNode
  <2>. HIDE DEF t2
  <2>2. QED
    BY <2>1 DEF IsFreed
<1>. HIDE DEF t2
<1>9. t2.root = IF tree.root = n THEN c ELSE tree.root
  BY <1>3, <1>4, <1>6, <1>8 DEF ChildChanged, ParentColorSet
<1>10. ASSUME NEW d \in Side, NEW m \in Node
       PROVE  t2.kid[d][m] = IF m = n THEN Nil ELSE IF tree.kid[d][m] = n THEN c ELSE tree.kid[d][m]
  BY <1>3, <1>4, <1>6, <1>8 DEF ChildChanged, ParentColorSet
<1>11. ASSUME NEW m \in Node
       PROVE  /\ t2.parent[m] = IF m = n THEN Nil ELSE IF m = c THEN p ELSE tree.parent[m]
              /\ t2.color[m] = IF m = n THEN RED ELSE IF m = c THEN tree.color[n] ELSE tree.color[m]
  BY <1>4, <1>6, <1>8 DEF ChildChanged, ParentColorSet
<1>12. IsSpliced(tree, t2, n, c)
  BY <1>8, <1>9, <1>10, <1>11 DEF IsSpliced, p
<1>13. QED
  BY <1>1, <1>12 DEF t2

\* So it leaves a tree in which no path is short, or the loop knows which are.
LEMMA EraseUpToOneErases ==
  ASSUME NEW D, NEW B, NEW f, Shape(tree, D), Coloured(tree, B, Nil, f),
         NEW n \in D[tree.root], NEW c, OneChild(tree, n, c)
  PROVE  Erased(Freed(EraseUpToOne(n, c).tree, n), D[tree.root] \ {n}, EraseUpToOne(n, c).rebalance)
<1>. DEFINE t2 == Freed(EraseUpToOne(n, c).tree, n)
            x  == EraseUpToOne(n, c).rebalance
            h  == SideOf(tree, n, tree.parent[n])
<1>1. x = ShortAt(tree, n, c)
  BY DEF EraseUpToOne, ShortAt
<1>2. IsSpliced(tree, t2, n, c)
  BY EraseUpToOneSplices
<1>. HIDE DEF t2, x
<1>3. PICK D2 : D2 = BelowSpliced(D, n)
  OBVIOUS
<1>4. Shape(t2, D2) /\ D2[t2.root] = D[tree.root] \ {n}
  BY <1>2, <1>3, SplicedShape
<1>5. PICK B2 : Coloured(t2, B2, x, h)
  BY <1>1, <1>2, SplicedColours
<1>6. ASSUME x # Nil
      PROVE  x \in D[tree.root] \ {n} /\ h \in Side /\ t2.kid[h][x] = Nil
  <2>1. x = tree.parent[n] /\ c = Nil
    BY <1>1, <1>6 DEF ShortAt
  <2>2. h \in Side
    BY DEF SideOf, Side
  <2>3. x \in D[tree.root] \ {n} /\ x \in Node
    BY <1>6, <2>1, Parents
  <2>4. tree.kid[h][x] = n
    BY <2>1, <2>2, <2>3, Place
  <2>5. QED
    BY <1>2, <2>1, <2>2, <2>3, <2>4 DEF IsSpliced
<1>7. QED
  BY <1>4, <1>5, <1>6 DEF Erased, t2, x

-----------------------------------------------------------------------------
\* The recursion of Utmost ends.
LEMMA UtmostUnfolds ==
  ASSUME NEW D, Shape(tree, D), NEW s \in Side
  PROVE  \A m \in Ptr : Utmost(s, m) = IF m = Nil \/ tree.kid[s][m] = Nil
                                      THEN m ELSE Utmost(s, tree.kid[s][m])
<1>. DEFINE Q == {x \in Ptr : x = Nil \/ \E u : Outermost(s, D[x], u)}
<1>1. Nil \in Q
  BY DEF Ptr
<1>2. ASSUME NEW x \in Node, \A d \in Side : tree.kid[d][x] \in Q
      PROVE  x \in Q
  BY <1>2, OutermostBelow DEF Ptr
<1>. HIDE DEF Q
<1>3. \A x \in Ptr : x \in Q
  BY <1>1, <1>2, UpFromLeaves
<1>4. \A x \in Node : \E u : Outermost(s, D[x], u)
  BY <1>3, NilAssumption DEF Q, Ptr
<1>. DEFINE Rec(f) == f = [m \in Ptr |-> IF m = Nil \/ tree.kid[s][m] = Nil THEN m ELSE f[tree.kid[s][m]]]
            e == [m \in Ptr |-> IF m = Nil THEN Nil ELSE CHOOSE u : Outermost(s, D[m], u)]
            far == CHOOSE f : Rec(f)
<1>5. Nil \notin Node /\ Nil \in Ptr /\ Node \subseteq Ptr /\ \A m \in Node : tree.kid[s][m] \in Ptr /\ D[m] \in SUBSET Node
  BY NilAssumption, BelowNode DEF Ptr
<1>6. e[Nil] = Nil /\ \A m \in Node : Outermost(s, D[m], e[m])
  <2>1. \A m \in Node : e[m] = CHOOSE u : Outermost(s, D[m], u)
    BY <1>5
  <2>2. \A m \in Node : Outermost(s, D[m], CHOOSE u : Outermost(s, D[m], u))
    BY <1>4
  <2>3. QED
    BY <1>5, <2>1, <2>2
<1>7. Rec(e)
  <2>1. e = [m \in Ptr |-> e[m]]
    OBVIOUS
  <2>. HIDE DEF e
  <2>2. ASSUME NEW m \in Ptr
        PROVE  e[m] = IF m = Nil \/ tree.kid[s][m] = Nil THEN m ELSE e[tree.kid[s][m]]
    <3>1. CASE m = Nil
      BY <1>6, <3>1
    <3>2. CASE m \in Node /\ tree.kid[s][m] = Nil
      <4>1. Outermost(s, D[m], m) /\ Outermost(s, D[m], e[m])
        BY <1>6, <3>2, OutermostBelow
      <4>2. e[m] = m
        BY <1>5, <3>2, <4>1, OneOutermost
      <4>3. QED
        BY <3>2, <4>2
    <3>3. CASE m \in Node /\ tree.kid[s][m] # Nil
      <4>1. Outermost(s, D[m], e[m])
        BY <1>6, <3>3
      <4>2. Outermost(s, D[m], e[tree.kid[s][m]])
        <5>1. tree.kid[s][m] \in Node
          BY <1>5, <3>3 DEF Ptr
        <5>2. QED
          BY <1>6, <3>3, <5>1, OutermostBelow
      <4>3. e[m] = e[tree.kid[s][m]]
        BY <1>5, <3>3, <4>1, <4>2, OneOutermost
      <4>4. QED
        BY <1>5, <3>3, <4>3
    <3>4. QED
      BY <3>1, <3>2, <3>3 DEF Ptr
  <2>3. QED
    BY <2>1, <2>2
<1>8. Rec(far)
  <2>. HIDE DEF Rec
  <2>1. QED
    BY <1>7
<1>9. \A m \in Ptr : Utmost(s, m) = far[m]
  BY DEF Utmost
<1>. HIDE DEF far, e
<1>10. \A m \in Ptr : far[m] = IF m = Nil \/ tree.kid[s][m] = Nil THEN m ELSE far[tree.kid[s][m]]
  BY <1>8
<1>11. QED
  BY <1>5, <1>9, <1>10 DEF Ptr

\* Utmost finds it.
LEMMA UtmostIs ==
  ASSUME NEW D, Shape(tree, D), NEW s \in Side, NEW n \in Node
  PROVE  Outermost(s, D[n], Utmost(s, n)) /\ tree.kid[s][Utmost(s, n)] = Nil
<1>. DEFINE P == {m \in Ptr : m = Nil \/ (Outermost(s, D[m], Utmost(s, m)) /\ tree.kid[s][Utmost(s, m)] = Nil)}
<1>1. Nil \in P /\ Nil \notin Node /\ Node \subseteq Ptr
  BY NilAssumption DEF Ptr
<1>2. ASSUME NEW x \in Node, \A d \in Side : tree.kid[d][x] \in P
      PROVE  x \in P
  <2>1. CASE tree.kid[s][x] = Nil
    <3>1. Utmost(s, x) = x
      BY <1>1, <2>1, UtmostUnfolds
    <3>2. QED
      BY <1>1, <2>1, <3>1, OutermostBelow
  <2>2. CASE tree.kid[s][x] # Nil
    <3>1. Utmost(s, x) = Utmost(s, tree.kid[s][x])
      BY <1>1, <2>2, UtmostUnfolds
    <3>2. Outermost(s, D[tree.kid[s][x]], Utmost(s, x)) /\ tree.kid[s][Utmost(s, x)] = Nil
      BY <1>2, <2>2, <3>1
    <3>3. QED
      BY <1>1, <2>2, <3>2, OutermostBelow
  <2>3. QED
    BY <2>1, <2>2
<1>. HIDE DEF P
<1>3. n \in P
  BY <1>1, <1>2, UpFromLeaves
<1>4. QED
  BY <1>1, <1>3 DEF P

-----------------------------------------------------------------------------
\* The successor of a node with two children, where it hangs and what hangs from it.
Successor(D, n, child, succ, q) ==
    /\ n \in Node /\ child \in Node /\ succ \in Node /\ q \in Node
    /\ n \in D[tree.root] /\ succ \in D[tree.root]
    /\ child = tree.kid["rb_right"][n] /\ tree.kid["rb_left"][n] \in Node
    /\ succ # n /\ n # child /\ tree.kid["rb_left"][n] # n
    /\ tree.kid["rb_left"][n] # succ /\ tree.kid["rb_left"][n] # child
    /\ Outermost("rb_left", D[child], succ) /\ tree.kid["rb_left"][succ] = Nil
    /\ tree.kid["rb_right"][succ] \in Ptr /\ tree.kid["rb_right"][succ] \notin {n, succ, child, q, tree.kid["rb_left"][n]}
    /\ q = tree.parent[succ] /\ (q = n <=> succ = child)
    /\ succ # child => q # succ /\ q # n /\ tree.kid["rb_left"][q] = succ /\ q # tree.parent[n]
    /\ tree.parent[n] # succ /\ tree.parent[n] # n
    /\ \A d \in Side, m \in Node : tree.kid[d][m] = succ <=> m = q /\ d = SideOf(tree, succ, q)
    /\ \A d \in Side, m \in Node : tree.kid[d][m] = n <=> m = tree.parent[n] /\ d = SideOf(tree, n, tree.parent[n])
    /\ \A m \in Node : tree.parent[m] = n <=> m = child \/ m = tree.kid["rb_left"][n]

\* It is the next node, has no left child, and has the place the code takes it to have.
LEMMA SuccessorIs ==
  ASSUME NEW D, Shape(tree, D), NEW n \in D[tree.root],
         tree.kid["rb_left"][n] # Nil, tree.kid["rb_right"][n] # Nil,
         NEW child, child = tree.kid["rb_right"][n], NEW succ, succ = Utmost("rb_left", child)
  PROVE  Successor(D, n, child, succ, tree.parent[succ])
<1>. DEFINE q    == tree.parent[succ]
            left == tree.kid["rb_left"][n]
            c    == tree.kid["rb_right"][succ]
<1>1. /\ "rb_left" \in Side /\ "rb_right" \in Side /\ tree \in Tree /\ Nil \notin Node
      /\ n \in Node /\ D[tree.root] \in SUBSET Node /\ n # Nil
  BY Parents, NilAssumption DEF Side, Shape
<1>2. /\ child \in Node /\ child # n /\ left \in Node /\ left # n /\ child \in D[child] /\ D[child] \subseteq D[n]
      /\ n \notin D[child] /\ Before("rb_left", left, n) /\ Before("rb_right", child, n)
      /\ left \in D[left]
  BY <1>1, KidSelf, BelowNode
<1>3. Outermost("rb_left", D[child], succ) /\ tree.kid["rb_left"][succ] = Nil
  BY <1>1, <1>2, UtmostIs
<1>4. succ \in D[child] /\ succ \in Node /\ D[succ] \subseteq D[child]
  BY <1>1, <1>2, <1>3, BelowBelow DEF Outermost, Ptr
<1>5. \A m \in D[child] : Before("rb_right", m, n)
  BY <1>1, <1>2 DEF Shape
<1>6. D[tree.root] \in SUBSET Node /\ D[n] \subseteq D[tree.root] /\ succ \in D[tree.root] /\ succ # n
  <2>1. tree.root \in Ptr
    BY <1>1, TreeTypes
  <2>2. D[n] \subseteq D[tree.root]
    BY <2>1, BelowBelow
  <2>3. QED
    BY <1>1, <1>2, <1>4, <2>2
<1>7. left \notin D[child] /\ left # succ /\ left # child
  <2>1. ASSUME left \in D[child]
        PROVE  FALSE
    <3>1. Before("rb_right", left, n) /\ Before("rb_left", left, n)
      BY <1>2, <1>5, <2>1
    <3>2. QED
      BY <1>1, <1>2, <3>1, KeyTypes DEF Before
  <2>2. QED
    BY <1>2, <1>4, <2>1
<1>8. /\ q \in Ptr \ {succ}
      /\ \A d \in Side, m \in Node : tree.kid[d][m] = succ <=> m = q /\ d = SideOf(tree, succ, q)
  BY <1>6, Place
<1>9. /\ tree.parent[n] # n
      /\ \A d \in Side, m \in Node : tree.kid[d][m] = n <=> m = tree.parent[n] /\ d = SideOf(tree, n, tree.parent[n])
  BY Place
<1>10. succ = child => q = n
  BY <1>1, <1>2, OneParent
<1>11. ASSUME succ # child
       PROVE  q \in D[child] /\ q \in Node /\ q # n /\ tree.kid["rb_left"][q] = succ
  <2>1. PICK r \in D[child], d \in Side : tree.kid[d][r] = succ
    BY <1>2, <1>4, <1>11, EveryNodeIsAKid DEF Ptr
  <2>2. r \in Node
    BY <1>2, <2>1, BelowBelow DEF Ptr
  <2>3. r = q
    BY <1>8, <2>1, <2>2
  <2>4. d = "rb_left"
    <3>1. ASSUME d = "rb_right"
          PROVE  FALSE
      <4>1. tree.kid[d][r] # Nil
        BY <1>1, <1>4, <2>1
      <4>2. Before(d, tree.kid[d][r], r) /\ tree.kid[d][r] # r
        BY <2>2, <4>1, KidSelf
      <4>3. Before("rb_right", succ, r) /\ succ # r
        BY <2>1, <3>1, <4>2
      <4>4. Before("rb_left", succ, r)
        BY <1>3, <2>1, <4>3 DEF Outermost
      <4>5. QED
        BY <1>4, <2>2, <4>3, <4>4, KeyTypes DEF Before
    <3>2. QED
      BY <3>1 DEF Side
  <2>5. QED
    BY <1>2, <2>1, <2>2, <2>3, <2>4
<1>12. q \in Node
  BY <1>1, <1>10, <1>11
<1>13. n \notin D[succ] /\ \A m \in D[child], d \in Side : tree.kid[d][m] # n
  <2>1. ASSUME NEW m \in D[child], NEW d \in Side, tree.kid[d][m] = n
        PROVE  FALSE
    <3>1. m \in Node /\ D[m] \subseteq D[child]
      BY <1>2, BelowBelow DEF Ptr
    <3>2. n \in D[m]
      BY <1>1, <2>1, <3>1, KidSelf
    <3>3. QED
      BY <1>2, <3>1, <3>2
  <2>2. QED
    BY <1>2, <1>4, <2>1
<1>14. \A m \in D[child] : tree.parent[n] # m
  <2>1. ASSUME NEW m \in D[child], tree.parent[n] = m
        PROVE  FALSE
    <3>1. m \in Node
      BY <1>2, BelowBelow DEF Ptr
    <3>2. SideOf(tree, n, tree.parent[n]) \in Side
      BY DEF SideOf, Side
    <3>3. tree.kid[SideOf(tree, n, tree.parent[n])][m] = n
      BY <1>9, <2>1, <3>1, <3>2
    <3>4. QED
      BY <1>13, <3>2, <3>3
  <2>2. QED
    BY <2>1
<1>15. c \in Ptr /\ c \notin {n, succ, child, q, left}
  <2>1. c \in Ptr
    BY <1>1, <1>4, TreeTypes
  <2>2. CASE c = Nil
    BY <1>1, <1>2, <1>4, <1>12, <2>1, <2>2
  <2>3. CASE c # Nil
    <3>1. c \in D[succ] /\ c # succ /\ c \in Node
      BY <1>1, <1>4, <2>3, KidSelf
    <3>2. c # n /\ c # left
      BY <1>4, <1>7, <1>13, <3>1
    <3>3. c # child
      <4>1. tree.kid["rb_right"][n] # Nil /\ tree.kid["rb_right"][succ] # Nil
        BY <2>3
      <4>2. QED
        BY <1>1, <1>4, <1>6, <4>1, OneParent
    <3>4. c # q
      <4>1. ASSUME c = q
            PROVE  FALSE
        <5>1. tree.kid[SideOf(tree, succ, q)][q] = succ /\ SideOf(tree, succ, q) \in Side
          BY <1>8, <1>12 DEF SideOf, Side
        <5>2. tree.kid[SideOf(tree, succ, q)][q] # Nil
          BY <1>1, <1>4, <5>1
        <5>3. succ \in D[q]
          BY <1>12, <5>1, <5>2, KidSelf, SMTT(20)
        <5>4. succ \notin D[c]
          BY <1>1, <1>4, BelowNode
        <5>5. QED
          BY <4>1, <5>3, <5>4
      <4>2. QED
        BY <4>1
    <3>5. QED
      BY <2>1, <3>1, <3>2, <3>3, <3>4
  <2>4. QED
    BY <2>2, <2>3
<1>16. \A m \in Node : tree.parent[m] = n <=> m = child \/ m = left
  <2>1. tree.parent[child] = n /\ tree.parent[left] = n
    BY <1>1, <1>2, OneParent
  <2>2. ASSUME NEW m \in Node, tree.parent[m] = n
        PROVE  m = child \/ m = left
    <3>1. m \in D[tree.root]
      BY <1>1, <2>2 DEF Shape, Blank
    <3>2. PICK d \in Side : tree.kid[d][n] = m
      BY <1>1, <2>2, <3>1, Parents
    <3>3. QED
      BY <3>2 DEF Side
  <2>3. QED
    BY <2>1, <2>2
<1>. HIDE DEF q, c, left
<1>17. q = n => succ = child
  BY <1>11
<1>18. succ # child => q # succ /\ q # n /\ tree.kid["rb_left"][q] = succ /\ q # tree.parent[n]
  BY <1>8, <1>11, <1>14
<1>19. tree.parent[n] # succ
  BY <1>4, <1>14
<1>20. QED
  BY <1>1, <1>2, <1>3, <1>4, <1>6, <1>7, <1>8, <1>9, <1>10, <1>12, <1>15, <1>16, <1>17, <1>18, <1>19 DEF Successor, q, c, left

\* The pointers of the child and of the old parent of the successor.
Unlinked(u, succ, child, q, c) ==
    /\ u \in Tree /\ u.root = tree.root /\ u.color = tree.color
    /\ \A d \in Side, m \in Node :
          u.kid[d][m] = IF succ # child /\ m = q /\ d = "rb_left" THEN c
                        ELSE IF succ # child /\ m = succ /\ d = "rb_right" THEN child
                        ELSE tree.kid[d][m]
    /\ \A m \in Node : u.parent[m] = IF succ # child /\ m = child THEN succ ELSE tree.parent[m]

\* The first assignments of EraseTwo do this.
LEMMA Unlinks ==
  ASSUME tree \in Tree, NEW succ \in Node, NEW child \in Node, NEW q \in Node, NEW c \in Ptr,
         q # succ, NEW u,
         u = IF succ = child THEN tree
             ELSE rb_set_parent(rb_set_kid(rb_set_kid(tree, "rb_left", q, c), "rb_right", succ, child),
                                child, succ)
  PROVE  Unlinked(u, succ, child, q, c)
<1>1. CASE succ = child
  BY <1>1 DEF Unlinked
<1>2. CASE succ # child
  <2>. DEFINE t0 == rb_set_kid(tree, "rb_left", q, c)
              t1 == rb_set_kid(t0, "rb_right", succ, child)
  <2>1. "rb_left" \in Side /\ "rb_right" \in Side /\ child \in Ptr /\ succ \in Ptr
    BY DEF Side, Ptr
  <2>2. u = rb_set_parent(t1, child, succ)
    BY <1>2
  <2>3. KidSet(tree, t0, "rb_left", q, c)
    BY <2>1, SetKid
  <2>. HIDE DEF t0
  <2>4. t0 \in Tree
    BY <2>3 DEF KidSet
  <2>5. KidSet(t0, t1, "rb_right", succ, child)
    BY <2>1, <2>4, SetKid
  <2>. HIDE DEF t1
  <2>6. t1 \in Tree
    BY <2>5 DEF KidSet
  <2>7. ParentSet(t1, u, child, succ)
    BY <2>1, <2>2, <2>6, SetParent
  <2>8. u \in Tree /\ u.root = tree.root /\ u.color = tree.color
    BY <2>3, <2>5, <2>7 DEF KidSet, ParentSet
  <2>9. ASSUME NEW d \in Side, NEW m \in Node
        PROVE  u.kid[d][m] = IF m = q /\ d = "rb_left" THEN c
                             ELSE IF m = succ /\ d = "rb_right" THEN child ELSE tree.kid[d][m]
    BY <2>3, <2>5, <2>7 DEF KidSet, ParentSet
  <2>10. ASSUME NEW m \in Node
         PROVE  u.parent[m] = IF m = child THEN succ ELSE tree.parent[m]
    BY <2>3, <2>5, <2>7 DEF KidSet, ParentSet
  <2>11. QED
    BY <1>2, <2>8, <2>9, <2>10 DEF Unlinked
<1>3. QED
  BY <1>1, <1>2

\* ... and the rest of EraseTwo: the children and the parent of n.
Replaced(u, t2, n, succ, left, c, p) ==
    /\ t2 \in Tree
    /\ t2.root = IF tree.parent[n] = Nil THEN succ ELSE u.root
    /\ \A d \in Side, m \in Node :
          t2.kid[d][m] = IF m = n THEN Nil
                         ELSE IF m = tree.parent[n] /\ d = SideOf(u, n, tree.parent[n]) THEN succ
                         ELSE IF m = succ /\ d = "rb_left" THEN left ELSE u.kid[d][m]
    /\ \A m \in Node : t2.parent[m] = IF m = n THEN Nil ELSE IF m = c THEN p
                                      ELSE IF m = succ THEN tree.parent[n]
                                      ELSE IF m = left THEN succ ELSE u.parent[m]
    /\ \A m \in Node : t2.color[m] = IF m = n THEN RED ELSE IF m = c THEN BLACK
                                     ELSE IF m = succ THEN tree.color[n] ELSE u.color[m]

Replacing(u, n, succ, left, c, p) ==
    rb_set_parent_color_if(
        rb_set_parent_color(
            __rb_change_child(rb_set_parent(rb_set_kid(u, "rb_left", succ, left), left, succ),
                              n, succ, tree.parent[n]),
            succ, tree.parent[n], tree.color[n]),
        c, p, BLACK)

\* They are what a removal of the successor and an exchange of the two nodes come to.
LEMMA Replaces ==
  ASSUME tree \in Tree, NEW u \in Tree, NEW n \in Node, NEW succ \in Node, NEW left \in Node,
         NEW c \in Ptr, NEW p \in Node, tree.parent[n] # succ, NEW t2,
         t2 = Freed(Replacing(u, n, succ, left, c, p), n)
  PROVE  Replaced(u, t2, n, succ, left, c, p)
<1>. DEFINE q  == tree.parent[n]
            k  == tree.color[n]
            t0 == rb_set_kid(u, "rb_left", succ, left)
            t1 == rb_set_parent(t0, left, succ)
            t3 == __rb_change_child(t1, n, succ, q)
            t4 == rb_set_parent_color(t3, succ, q, k)
            t5 == rb_set_parent_color_if(t4, c, p, BLACK)
<1>1. /\ "rb_left" \in Side /\ left \in Ptr /\ succ \in Ptr /\ p \in Ptr /\ q \in Ptr /\ q # succ
      /\ k \in {RED, BLACK} /\ BLACK \in {RED, BLACK}
  BY TreeTypes DEF Side, Ptr
<1>2. t2 = Freed(t5, n)
  BY DEF Replacing
<1>3. KidSet(u, t0, "rb_left", succ, left)
  BY <1>1, SetKid
<1>. HIDE DEF t0, q, k
<1>4. t0 \in Tree
  BY <1>3 DEF KidSet
<1>5. ParentSet(t0, t1, left, succ)
  BY <1>1, <1>4, SetParent
<1>. HIDE DEF t1
<1>6. t1 \in Tree
  BY <1>5 DEF ParentSet
<1>7. ChildChanged(t1, t3, n, succ, q)
  BY <1>1, <1>6, ChangeChild
<1>. HIDE DEF t3
<1>8. t3 \in Tree
  BY <1>7 DEF ChildChanged
<1>9. ParentColorSet(t3, t4, succ, q, k)
  BY <1>1, <1>8, SetParentColor
<1>. HIDE DEF t4
<1>10. t4 \in Tree
  BY <1>9 DEF ParentColorSet
<1>11. ParentColorSet(t4, t5, c, p, BLACK)
  BY <1>1, <1>10, SetParentColorIf
<1>. HIDE DEF t5
<1>12. t5 \in Tree
  BY <1>11 DEF ParentColorSet
<1>13. /\ t2 \in Tree /\ t2.root = t5.root
       /\ \A d \in Side, m \in Node : t2.kid[d][m] = IF m = n THEN Nil ELSE t5.kid[d][m]
       /\ \A m \in Node : t2.parent[m] = IF m = n THEN Nil ELSE t5.parent[m]
       /\ \A m \in Node : t2.color[m] = IF m = n THEN RED ELSE t5.color[m]
  <2>1. IsFreed(t5, t2, n)
    BY <1>2, <1>12, FreeNode
  <2>2. QED
    BY <2>1 DEF IsFreed
<1>14. q # Nil => SideOf(t1, n, q) = SideOf(u, n, q)
  BY <1>1, <1>3, <1>5 DEF SideOf, KidSet, ParentSet, Ptr
<1>15. t2.root = IF q = Nil THEN succ ELSE u.root
  BY <1>3, <1>5, <1>7, <1>9, <1>11, <1>13 DEF KidSet, ParentSet, ChildChanged, ParentColorSet
<1>16. ASSUME NEW d \in Side, NEW m \in Node
       PROVE  t2.kid[d][m] = IF m = n THEN Nil ELSE IF m = q /\ d = SideOf(u, n, q) THEN succ
                             ELSE IF m = succ /\ d = "rb_left" THEN left ELSE u.kid[d][m]
  <2>1. t5.kid[d][m] = t3.kid[d][m] /\ t1.kid[d][m] = IF m = succ /\ d = "rb_left" THEN left ELSE u.kid[d][m]
    BY <1>3, <1>5, <1>9, <1>11 DEF KidSet, ParentSet, ParentColorSet
  <2>2. t3.kid[d][m] = IF m = q /\ d = SideOf(t1, n, q) THEN succ ELSE t1.kid[d][m]
    BY <1>7 DEF ChildChanged
  <2>3. QED
    BY <1>13, <1>14, <2>1, <2>2, NilAssumption
<1>17. ASSUME NEW m \in Node
       PROVE  t2.parent[m] = IF m = n THEN Nil ELSE IF m = c THEN p ELSE IF m = succ THEN q
                             ELSE IF m = left THEN succ ELSE u.parent[m]
  BY <1>3, <1>5, <1>7, <1>9, <1>11, <1>13 DEF KidSet, ParentSet, ChildChanged, ParentColorSet
<1>18. ASSUME NEW m \in Node
       PROVE  t2.color[m] = IF m = n THEN RED ELSE IF m = c THEN BLACK ELSE IF m = succ THEN k
                            ELSE u.color[m]
  BY <1>3, <1>5, <1>7, <1>9, <1>11, <1>13 DEF KidSet, ParentSet, ChildChanged, ParentColorSet
<1>19. QED
  BY <1>13, <1>15, <1>16, <1>17, <1>18 DEF Replaced, q, k

\* Together they are the removal of the successor, which then replaces n.
LEMMA EraseTwoReplaces ==
  ASSUME NEW D, Shape(tree, D), NEW n \in D[tree.root], NEW child, NEW succ, NEW q, NEW c,
         Successor(D, n, child, succ, q), c = tree.kid["rb_right"][succ],
         c # Nil => tree.color[succ] = BLACK, succ = Utmost("rb_left", child),
         NEW t1, IsSpliced(tree, t1, succ, c)
  PROVE  IsReplaced(t1, Freed(EraseTwo(n).tree, n), n, succ)
<1>. DEFINE left == tree.kid["rb_left"][n]
            pn   == tree.parent[n]
            p    == IF succ = child THEN succ ELSE q
            u    == IF succ = child THEN tree
                    ELSE rb_set_parent(rb_set_kid(rb_set_kid(tree, "rb_left", q, c),
                                                  "rb_right", succ, child), child, succ)
            t2   == Freed(EraseTwo(n).tree, n)
<1>1. /\ n \in Node /\ child \in Node /\ succ \in Node /\ q \in Node
      /\ child = tree.kid["rb_right"][n] /\ left \in Node
      /\ succ # n /\ n # child /\ left # n /\ left # succ /\ left # child
      /\ tree.kid["rb_left"][succ] = Nil
      /\ c \in Ptr /\ c \notin {n, succ, child, q, left}
      /\ q = tree.parent[succ] /\ (q = n <=> succ = child)
      /\ succ # child => q # succ /\ q # n /\ tree.kid["rb_left"][q] = succ /\ q # pn
      /\ pn # succ /\ pn # n
      /\ \A d \in Side, m \in Node : tree.kid[d][m] = succ <=> m = q /\ d = SideOf(tree, succ, q)
      /\ \A d \in Side, m \in Node : tree.kid[d][m] = n <=> m = pn /\ d = SideOf(tree, n, pn)
      /\ \A m \in Node : tree.parent[m] = n <=> m = child \/ m = left
  BY DEF Successor
<1>2. /\ tree \in Tree /\ p \in Node /\ Nil \notin Node /\ "rb_left" \in Side /\ "rb_right" \in Side
      /\ (pn = Nil <=> tree.root = n) /\ tree.root # succ /\ q # succ
  <2>1. tree.root = succ => tree.parent[succ] = Nil
    BY <1>1, NilAssumption DEF Shape
  <2>2. pn = Nil <=> tree.root = n
    BY Place
  <2>3. QED
    BY <1>1, <2>1, <2>2, NilAssumption DEF Shape, Side
<1>3. EraseTwo(n).tree = Replacing(u, n, succ, left, c, p)
  <2>1. child = tree.kid["rb_right"][n] /\ q = tree.parent[succ] /\ c = tree.kid["rb_right"][succ]
    BY <1>1
  <2>2. QED
    BY <2>1 DEF EraseTwo, Replacing
<1>4. Unlinked(u, succ, child, q, c)
  BY <1>1, <1>2, Unlinks
<1>. HIDE DEF u
<1>5. u \in Tree
  BY <1>4 DEF Unlinked
<1>. HIDE DEF left, p
<1>6. Replaced(u, t2, n, succ, left, c, p)
  BY <1>1, <1>2, <1>3, <1>5, Replaces
<1>. HIDE DEF t2, pn
<1>7. /\ t1 \in Tree /\ t1.root = tree.root
      /\ \A d \in Side, m \in Node :
            t1.kid[d][m] = IF m = succ THEN Nil ELSE IF tree.kid[d][m] = succ THEN c ELSE tree.kid[d][m]
      /\ \A m \in Node : t1.parent[m] = IF m = succ THEN Nil ELSE IF m = c THEN q ELSE tree.parent[m]
      /\ \A m \in Node : t1.color[m] = IF m = succ THEN RED ELSE IF m = c THEN tree.color[succ] ELSE tree.color[m]
  BY <1>1, <1>2 DEF IsSpliced
<1>8. /\ t2 \in Tree /\ t2.root = IF t1.root = n THEN succ ELSE t1.root
  BY <1>2, <1>4, <1>6, <1>7 DEF Replaced, Unlinked, pn
<1>9. pn # Nil => SideOf(u, n, pn) = SideOf(tree, n, pn)
  <2>1. ASSUME pn # Nil
        PROVE  u.kid["rb_left"][pn] = tree.kid["rb_left"][pn]
    <3>1. pn \in Node
      BY <1>1, <1>2, <2>1, TreeTypes DEF Ptr, pn
    <3>2. QED
      BY <1>1, <1>2, <1>4, <3>1 DEF Unlinked
  <2>2. QED
    BY <2>1 DEF SideOf
<1>10. ASSUME NEW d \in Side, NEW m \in Node
       PROVE  t2.kid[d][m] = IF m = succ THEN t1.kid[d][n] ELSE IF m = n THEN Nil
                             ELSE IF t1.kid[d][m] = n THEN succ ELSE t1.kid[d][m]
  <2>1. t2.kid[d][m] = IF m = n THEN Nil
                       ELSE IF m = pn /\ d = SideOf(tree, n, pn) THEN succ
                       ELSE IF m = succ /\ d = "rb_left" THEN left ELSE u.kid[d][m]
    BY <1>2, <1>6, <1>9 DEF Replaced, pn
  <2>2. u.kid[d][m] = IF succ # child /\ m = q /\ d = "rb_left" THEN c
                      ELSE IF succ # child /\ m = succ /\ d = "rb_right" THEN child
                      ELSE tree.kid[d][m]
    BY <1>4 DEF Unlinked
  <2>3. /\ tree.kid[d][m] = succ <=> m = q /\ d = SideOf(tree, succ, q)
        /\ tree.kid[d][m] = n <=> m = pn /\ d = SideOf(tree, n, pn)
        /\ tree.kid[d][n] = succ <=> n = q /\ d = SideOf(tree, succ, q)
    BY <1>1
  <2>4. succ # child => SideOf(tree, succ, q) = "rb_left"
    BY <1>1 DEF SideOf
  <2>5. d = "rb_left" \/ d = "rb_right"
    BY DEF Side
  <2>6. CASE m = n
    BY <1>1, <2>1, <2>6
  <2>7. CASE m = succ
    <3>1. t1.kid[d][n] = IF tree.kid[d][n] = succ THEN c ELSE tree.kid[d][n]
      BY <1>1, <1>7, SMTT(20)
    <3>2. CASE d = "rb_left"
      <4>1. t2.kid[d][m] = left
        BY <1>1, <2>1, <2>7, <3>2
      <4>2. t1.kid[d][n] = left
        BY <1>1, <3>1, <3>2 DEF left
      <4>3. QED
        BY <2>7, <4>1, <4>2
    <3>3. CASE d = "rb_right"
      <4>1. t2.kid[d][m] = IF succ # child THEN child ELSE c
        BY <1>1, <2>1, <2>2, <2>7, <3>3
      <4>2. t1.kid[d][n] = IF succ # child THEN child ELSE c
        BY <1>1, <3>1, <3>3
      <4>3. QED
        BY <2>7, <4>1, <4>2
    <3>4. QED
      BY <2>5, <3>2, <3>3
  <2>8. CASE m # n /\ m # succ
    <3>1. t1.kid[d][m] = IF tree.kid[d][m] = succ THEN c ELSE tree.kid[d][m]
      BY <1>7, <2>8
    <3>2. t2.kid[d][m] = IF tree.kid[d][m] = n THEN succ
                         ELSE IF succ # child /\ m = q /\ d = "rb_left" THEN c ELSE tree.kid[d][m]
      BY <2>1, <2>2, <2>3, <2>8
    <3>3. tree.kid[d][m] = succ <=> succ # child /\ m = q /\ d = "rb_left"
      BY <1>1, <2>3, <2>4, <2>8
    <3>4. QED
      BY <1>1, <2>8, <3>1, <3>2, <3>3
  <2>9. QED
    BY <2>6, <2>7, <2>8
<1>11. ASSUME NEW m \in Node
       PROVE  t2.parent[m] = IF m = succ THEN t1.parent[n] ELSE IF m = n THEN Nil
                             ELSE IF t1.parent[m] = n THEN succ ELSE t1.parent[m]
  <2>1. t2.parent[m] = IF m = n THEN Nil ELSE IF m = c THEN p
                       ELSE IF m = succ THEN pn
                       ELSE IF m = left THEN succ ELSE u.parent[m]
    BY <1>6 DEF Replaced, pn
  <2>2. u.parent[m] = IF succ # child /\ m = child THEN succ ELSE tree.parent[m]
    BY <1>4 DEF Unlinked
  <2>3. t1.parent[m] = IF m = succ THEN Nil ELSE IF m = c THEN q ELSE tree.parent[m]
    BY <1>7
  <2>4. t1.parent[n] = pn
    BY <1>1, <1>7 DEF pn
  <2>5. tree.parent[m] = n <=> m = child \/ m = left
    BY <1>1
  <2>6. p = IF q = n THEN succ ELSE q
    BY <1>1 DEF p
  <2>7. CASE m = n \/ m = succ
    BY <1>1, <2>1, <2>4, <2>7
  <2>8. CASE m = c /\ m # n /\ m # succ
    BY <2>1, <2>3, <2>6, <2>8
  <2>9. CASE m # c /\ m # n /\ m # succ
    BY <1>1, <2>1, <2>2, <2>3, <2>5, <2>9
  <2>10. QED
    BY <2>7, <2>8, <2>9
<1>12. ASSUME NEW m \in Node
       PROVE  t2.color[m] = IF m = succ THEN t1.color[n] ELSE IF m = n THEN RED ELSE t1.color[m]
  <2>1. t2.color[m] = IF m = n THEN RED ELSE IF m = c THEN BLACK
                      ELSE IF m = succ THEN tree.color[n] ELSE tree.color[m]
    BY <1>4, <1>6 DEF Replaced, Unlinked
  <2>2. t1.color[n] = tree.color[n]
    BY <1>1, <1>7
  <2>3. t1.color[m] = IF m = succ THEN RED ELSE IF m = c THEN tree.color[succ] ELSE tree.color[m]
    BY <1>7
  <2>4. m = c => tree.color[succ] = BLACK
    BY <1>2
  <2>5. QED
    BY <1>1, <2>1, <2>2, <2>3, <2>4
<1>. QED
  BY <1>8, <1>10, <1>11, <1>12 DEF IsReplaced, t2

\* So it leaves a tree in which no path is short, or the loop knows which are.
LEMMA EraseTwoErases ==
  ASSUME NEW D, NEW B, NEW f, Shape(tree, D), Coloured(tree, B, Nil, f), NEW n \in D[tree.root],
         tree.kid["rb_left"][n] # Nil, tree.kid["rb_right"][n] # Nil
  PROVE  Erased(Freed(EraseTwo(n).tree, n), D[tree.root] \ {n}, EraseTwo(n).rebalance)
<1>. DEFINE child == tree.kid["rb_right"][n]
            succ  == Utmost("rb_left", child)
            q     == tree.parent[succ]
            c     == tree.kid["rb_right"][succ]
            left  == tree.kid["rb_left"][n]
            t2    == Freed(EraseTwo(n).tree, n)
            x     == EraseTwo(n).rebalance
            x1    == ShortAt(tree, succ, c)
            h     == SideOf(tree, succ, q)
            S     == D[tree.root]
<1>1. Successor(D, n, child, succ, q)
  BY SuccessorIs
<1>2. /\ n \in Node /\ child \in Node /\ succ \in Node /\ q \in Node
      /\ n \in S /\ succ \in S /\ succ # n /\ left \in Node
      /\ Outermost("rb_left", D[child], succ) /\ tree.kid["rb_left"][succ] = Nil
      /\ c \in Ptr /\ (q = n <=> succ = child) /\ q # succ
      /\ tree.kid[h][q] = succ /\ h \in Side
  <2>1. h \in Side
    BY DEF SideOf, Side
  <2>2. tree.kid[h][q] = succ
    BY <1>1, <2>1 DEF Successor
  <2>3. QED
    BY <1>1, <2>1, <2>2 DEF Successor
<1>3. tree \in Tree /\ Nil \notin Node /\ S \in SUBSET Node /\ q \in S
  <2>1. succ # Nil
    BY <1>2, NilAssumption
  <2>2. QED
    BY <1>2, <2>1, Parents, NilAssumption, OneParent DEF Shape
<1>4. x = IF x1 = n THEN succ ELSE x1
  <2>1. x1 = IF c = Nil /\ tree.color[succ] = BLACK THEN q ELSE Nil
    BY DEF ShortAt
  <2>2. x = IF c = Nil /\ tree.color[succ] = BLACK THEN (IF succ = child THEN succ ELSE q) ELSE Nil
    BY DEF EraseTwo
  <2>3. n # Nil
    BY <1>2, <1>3
  <2>4. QED
    BY <1>2, <2>1, <2>2, <2>3
<1>5. OneChild(tree, succ, c)
  BY <1>2 DEF OneChild, Side, Other
<1>6. c # Nil => tree.color[succ] = BLACK
  BY <1>2, <1>5, OneChildColours, SMTT(20)
<1>7. PICK t1 : IsSpliced(tree, t1, succ, c)
  <2>1. Spliceable(tree, succ, c)
    BY <1>2, <1>3, SplicedExists
  <2>2. QED
    BY <2>1 DEF Spliceable
<1>8. IsReplaced(t1, t2, n, succ)
  BY <1>1, <1>6, <1>7, EraseTwoReplaces
<1>. HIDE DEF t2, x
<1>9. PICK D1 : D1 = BelowSpliced(D, succ)
  OBVIOUS
<1>10. /\ Shape(t1, D1) /\ D1[t1.root] = S \ {succ}
       /\ \A m \in Node \ {succ}, d \in Side : D1[t1.kid[d][m]] = D[tree.kid[d][m]] \ {succ}
  <2>. HIDE DEF succ, c
  <2>1. QED
    BY <1>2, <1>5, <1>7, <1>9, SplicedShape, SMTT(20)
<1>11. PICK B1 : Coloured(t1, B1, x1, h)
  BY <1>2, <1>5, <1>7, SplicedColours
<1>. HIDE DEF succ, c, q, h, child, left
<1>12. FitsFor(t1, D1, n, succ)
  <2>1. ASSUME NEW d \in Side, NEW m \in D1[t1.kid[d][n]]
        PROVE  Before(d, m, succ)
    <3>1. m \in D[tree.kid[d][n]] /\ m # succ /\ m \in Node
      <4>1. D1[t1.kid[d][n]] = D[tree.kid[d][n]] \ {succ}
        BY <1>2, <1>10
      <4>2. D[tree.kid[d][n]] \in SUBSET Node
        BY <1>2, BelowNode
      <4>3. QED
        BY <4>1, <4>2
    <3>2. CASE d = "rb_right"
      <4>1. Before("rb_left", succ, m)
        BY <1>2, <3>1, <3>2 DEF Outermost, child
      <4>2. QED
        BY <3>2, <4>1 DEF Before
    <3>3. CASE d = "rb_left"
      <4>1. Before("rb_left", m, n)
        BY <1>2, <3>1, <3>3 DEF Shape
      <4>2. Before("rb_right", succ, n)
        BY <1>2 DEF Shape, Outermost, child, Side
      <4>3. QED
        BY <1>2, <3>1, <3>3, <4>1, <4>2, KeyTypes DEF Before
    <3>4. QED
      BY <3>2, <3>3 DEF Side
  <2>2. ASSUME NEW a \in Node, NEW d \in Side, n \in D1[t1.kid[d][a]]
        PROVE  Before(d, succ, a)
    <3>1. a # succ
      BY <1>7, <1>10, <2>2 DEF IsSpliced, Shape
    <3>2. n \in D[tree.kid[d][a]]
      BY <1>10, <2>2, <3>1
    <3>3. tree.kid[d][a] \in Ptr
      BY <1>3, TreeTypes
    <3>4. D[n] \subseteq D[tree.kid[d][a]]
      BY <3>2, <3>3, BelowBelow
    <3>5. succ \in D[n]
      BY <1>2, BelowNode DEF Outermost, child, Side
    <3>6. QED
      BY <3>4, <3>5 DEF Shape
  <2>3. QED
    BY <2>1, <2>2 DEF FitsFor
<1>13. n \in D1[t1.root] /\ succ \in Node \ D1[t1.root]
  BY <1>2, <1>10
<1>14. PICK D2 : D2 = BelowReplaced(D1, n, succ)
  OBVIOUS
<1>15. Shape(t2, D2) /\ D2[t2.root] = S \ {n}
  <2>1. Shape(t2, D2) /\ D2[t2.root] = (D1[t1.root] \ {n}) \cup {succ}
    <3>1. /\ Shape(t2, BelowReplaced(D1, n, succ))
          /\ BelowReplaced(D1, n, succ)[t2.root] = (D1[t1.root] \ {n}) \cup {succ}
      <4>1. Shape(t1, D1)
        BY <1>10
      <4>2. PICK u : u = succ
        OBVIOUS
      <4>3. FitsFor(t1, D1, n, u) /\ IsReplaced(t1, t2, n, u) /\ u \in Node \ D1[t1.root]
        BY <1>8, <1>12, <1>13, <4>2
      <4>4. /\ Shape(t2, BelowReplaced(D1, n, u))
            /\ BelowReplaced(D1, n, u)[t2.root] = (D1[t1.root] \ {n}) \cup {u}
        BY <1>13, <4>1, <4>3, ReplacedShape, SMTT(20)
      <4>5. QED
        BY <4>2, <4>4
    <3>2. QED
      BY <1>14, <3>1
  <2>2. QED
    BY <1>2, <1>10, <2>1
<1>16. x1 # succ
  BY <1>2, <1>3 DEF ShortAt, q
<1>. HIDE DEF x1
<1>17. PICK B2 : Coloured(t2, B2, x, h)
  <2>1. \E B2 : Coloured(t2, B2, IF x1 = n THEN succ ELSE x1, h)
    BY <1>8, <1>10, <1>11, <1>13, <1>16, ReplacedColours
  <2>2. QED
    BY <1>4, <2>1
<1>18. ASSUME x # Nil
       PROVE  x \in S \ {n} /\ h \in Side /\ t2.kid[h][x] = Nil
  <2>1. c = Nil /\ x = IF q = n THEN succ ELSE q
    BY <1>2, <1>3, <1>4, <1>18 DEF x1, ShortAt, q
  <2>2. t1.kid[h][q] = Nil
    BY <1>2, <1>7, <2>1 DEF IsSpliced
  <2>3. t2.kid[h][x] = Nil
    <3>1. CASE q = n
      BY <1>2, <1>8, <2>1, <2>2, <3>1 DEF IsReplaced
    <3>2. CASE q # n
      BY <1>2, <1>3, <1>8, <2>1, <2>2, <3>2 DEF IsReplaced
    <3>3. QED
      BY <3>1, <3>2
  <2>4. QED
    BY <1>2, <1>3, <2>1, <2>3
<1>19. QED
  BY <1>15, <1>17, <1>18 DEF Erased, t2, x

\* The node is out of the tree, with its pointers cleared.
LEMMA EraseKeeps ==
  ASSUME NEW D, NEW B, Inv(D, B), NEW n \in Node, ev_map_erase(n)
  PROVE  /\ n \in D[tree.root]
         /\ \E D2, B2 : Inv(D2, B2)' /\ D2[tree'.root] = D[tree.root] \ {n}
<1>. DEFINE S == D[tree.root]
            e == __rb_erase_augmented(n)
            x == parent'
<1>1. /\ Shape(tree, D) /\ Resting(B) /\ size = Cardinality(S) /\ answer \in Ptr
      /\ n \in S /\ size' = size - 1 /\ tree' = Freed(e.tree, n) /\ x = e.rebalance
      /\ pc' = (IF x = Nil THEN "idle" ELSE "erase_color")
      /\ node' = node /\ link' = link /\ answer' = answer
  <2>1. Shape(tree, D) /\ Resting(B) /\ size = Cardinality(S) /\ answer \in Ptr
    BY DEF Inv, ev_map_erase, Resting, Descending, Inserting, Erasing
  <2>. HIDE DEF e
  <2>2. n \in S
    BY <2>1, InTreeIs DEF ev_map_erase
  <2>3. QED
    BY <2>1, <2>2 DEF ev_map_erase, e
<1>2. S \in SUBSET Node /\ Nil \notin Node /\ node = Nil /\ link = "rb_root" /\ tree \in Tree
  BY <1>1, Parents, NilAssumption DEF Resting, Shape
<1>3. Coloured(tree, B, Nil, "rb_left")
  BY <1>1 DEF Resting, Balanced, Coloured
<1>4. Erased(tree', S \ {n}, x)
  <2>0. "rb_left" \in Side /\ "rb_right" \in Side /\ Other("rb_left") = "rb_right" /\ Other("rb_right") = "rb_left"
    BY DEF Side, Other
  <2>1. CASE tree.kid["rb_left"][n] = Nil
    <3>1. PICK c : c = tree.kid["rb_right"][n]
      OBVIOUS
    <3>2. OneChild(tree, n, c) /\ e = EraseUpToOne(n, c)
      BY <2>0, <2>1, <3>1 DEF OneChild, __rb_erase_augmented
    <3>. HIDE DEF e
    <3>3. Erased(Freed(EraseUpToOne(n, c).tree, n), S \ {n}, EraseUpToOne(n, c).rebalance)
      BY <1>1, <1>3, <3>2, EraseUpToOneErases
    <3>4. QED
      BY <1>1, <3>2, <3>3
  <2>2. CASE tree.kid["rb_left"][n] # Nil /\ tree.kid["rb_right"][n] = Nil
    <3>1. PICK c : c = tree.kid["rb_left"][n]
      OBVIOUS
    <3>2. OneChild(tree, n, c) /\ e = EraseUpToOne(n, c)
      BY <2>0, <2>2, <3>1 DEF OneChild, __rb_erase_augmented
    <3>. HIDE DEF e
    <3>3. Erased(Freed(EraseUpToOne(n, c).tree, n), S \ {n}, EraseUpToOne(n, c).rebalance)
      BY <1>1, <1>3, <3>2, EraseUpToOneErases
    <3>4. QED
      BY <1>1, <3>2, <3>3
  <2>3. CASE tree.kid["rb_left"][n] # Nil /\ tree.kid["rb_right"][n] # Nil
    <3>1. e = EraseTwo(n)
      BY <2>3 DEF __rb_erase_augmented
    <3>. HIDE DEF e
    <3>2. Erased(Freed(EraseTwo(n).tree, n), S \ {n}, EraseTwo(n).rebalance)
      BY <1>1, <1>3, <2>3, EraseTwoErases
    <3>3. QED
      BY <1>1, <3>1, <3>2
  <2>4. QED
    BY <2>1, <2>2, <2>3
<1>. HIDE DEF e
<1>5. PICK D2, B2, f : /\ Shape(tree', D2) /\ D2[tree'.root] = S \ {n} /\ Coloured(tree', B2, x, f)
                       /\ x # Nil => x \in S \ {n} /\ f \in Side /\ tree'.kid[f][x] = Nil
  BY <1>4 DEF Erased
<1>6. size' = Cardinality(D2[tree'.root])
  <2>1. IsFiniteSet(S)
    BY <1>1, SizeFits
  <2>2. Cardinality(S \ {n}) = Cardinality(S) - 1
    BY <1>1, <2>1, FS_RemoveElement
  <2>3. QED
    BY <1>1, <1>5, <2>2
<1>7. /\ Counts(tree', B2, x, f) /\ RedsApart(tree', Nil, Nil) /\ IsBlack(tree', tree'.root)
  BY <1>5 DEF Coloured
<1>8. Resting(B2)' \/ Erasing(D2, B2)'
  <2>1. CASE x = Nil
    <3>1. Counts(tree', B2, Nil, "rb_left")
      BY <1>7, <2>1, NoneShort
    <3>2. QED
      BY <1>1, <1>2, <1>7, <2>1, <3>1 DEF Resting, Balanced
  <2>2. CASE x # Nil
    <3>1. x \in D2[tree'.root] /\ x \in Node /\ f \in Side /\ tree'.kid[f][x] = Nil /\ tree' \in Tree
      BY <1>2, <1>5, <2>2 DEF Shape
    <3>2. tree'.kid[Other(f)][x] # Nil
      BY <1>7, <3>1, ShortSide
    <3>3. node' = Nil
      BY <1>1, <1>2
    <3>4. Near' = f
      BY <3>1, <3>2, <3>3 DEF Near, Side, Other
    <3>5. node' = tree'.kid[Near'][x] /\ IsBlack(tree', node')
      BY <3>1, <3>3, <3>4 DEF IsBlack, IsRed
    <3>6. QED
      BY <1>1, <1>2, <1>7, <2>2, <3>1, <3>4, <3>5 DEF Erasing
  <2>3. QED
    BY <2>1, <2>2
<1>9. Inv(D2, B2)'
  BY <1>1, <1>5, <1>6, <1>8 DEF Inv
<1>10. QED
  BY <1>1, <1>5, <1>9

-----------------------------------------------------------------------------
\* ____rb_erase_color.

\* The node the loop is at, and its sibling: not Nil, as the paths that go through it
\* have one black node more.
AtSibling(D, B) ==
    /\ parent \in Node /\ parent \in D[tree.root] /\ Nil \notin Node /\ parent # Nil
    /\ Near \in Side /\ Far \in Side /\ Far # Near /\ Other(Far) = Near /\ Other(Near) = Far
    /\ node = tree.kid[Near][parent] /\ node \in Ptr /\ IsBlack(tree, node)
    /\ sibling \in Node /\ sibling \in D[tree.root] /\ sibling = tree.kid[Far][parent]
    /\ sibling # parent /\ sibling # node /\ sibling # tree.root /\ tree.parent[sibling] = parent
    /\ tree \in Tree /\ RedsApart(tree, Nil, Nil) /\ IsBlack(tree, tree.root)
    /\ Counts(tree, B, parent, Near)
    /\ B[node] \in Nat /\ B[sibling] = B[node] + 1 /\ B[parent] = Weight(tree, parent) + B[sibling]
    /\ \A d \in Side : B[sibling] = Weight(tree, sibling) + B[tree.kid[d][sibling]]
    /\ \A d \in Side : tree.kid[d][sibling] \in Ptr /\ B[tree.kid[d][sibling]] \in Nat
    /\ \A n \in Node, d \in Side : tree.kid[d][n] = sibling <=> n = parent /\ d = Far

\* The loop finds it so: the sibling is there, for its side has paths at least as long.
LEMMA SiblingIs ==
  ASSUME NEW D, NEW B, Shape(tree, D), Erasing(D, B)
  PROVE  AtSibling(D, B)
<1>1. /\ parent \in D[tree.root] /\ node = tree.kid[Near][parent] /\ IsBlack(tree, node)
      /\ Counts(tree, B, parent, Near) /\ RedsApart(tree, Nil, Nil) /\ IsBlack(tree, tree.root)
  BY DEF Erasing
<1>2. /\ parent \in Node /\ Nil \notin Node /\ parent # Nil /\ tree \in Tree
      /\ Near \in Side
  BY <1>1, Parents, NilAssumption DEF Shape, Near, Side
<1>3. Far \in Side /\ Far # Near /\ Other(Far) = Near /\ Other(Near) = Far
  BY <1>2, Sides DEF Far
<1>4. /\ B \in [Ptr -> Nat] /\ B[Nil] = 0
      /\ \A n \in Node, d \in Side : B[n] = Weight(tree, n) + B[tree.kid[d][n]] + Lack(parent, Near, n, d)
  BY <1>1 DEF Counts
<1>5. sibling = tree.kid[Far][parent] /\ sibling \in Ptr /\ node \in Ptr /\ B[sibling] \in Nat /\ B[node] \in Nat
  <2>1. sibling = tree.kid[Far][parent]
    BY DEF sibling
  <2>2. sibling \in Ptr /\ node \in Ptr
    BY <1>1, <1>2, <1>3, <2>1, TreeTypes
  <2>3. QED
    BY <1>4, <2>1, <2>2
<1>6. B[sibling] = B[node] + 1 /\ B[parent] = Weight(tree, parent) + B[sibling]
  <2>1. /\ B[parent] = Weight(tree, parent) + B[node] + Lack(parent, Near, parent, Near)
        /\ B[parent] = Weight(tree, parent) + B[sibling] + Lack(parent, Near, parent, Far)
    BY <1>1, <1>2, <1>3, <1>4, <1>5
  <2>2. Lack(parent, Near, parent, Near) = 1 /\ Lack(parent, Near, parent, Far) = 0
        /\ Weight(tree, parent) \in {0, 1}
    BY <1>3 DEF Lack, Weight
  <2>3. QED
    BY <1>5, <2>1, <2>2
<1>7. sibling \in Node /\ sibling # Nil
  <2>1. sibling # Nil
    BY <1>4, <1>5, <1>6
  <2>2. QED
    BY <1>5, <2>1 DEF Ptr
<1>8. /\ sibling \in D[tree.root] /\ sibling # tree.root /\ tree.parent[sibling] = parent
      /\ \A n \in Node, d \in Side : tree.kid[d][n] = sibling => n = parent /\ d = Far
  BY <1>2, <1>3, <1>5, <1>7, OneParent
<1>9. sibling # parent
  BY <1>2, <1>3, <1>5, <1>7, KidSelf
<1>10. sibling # node
  BY <1>1, <1>2, <1>3, <1>8
<1>11. \A d \in Side : B[sibling] = Weight(tree, sibling) + B[tree.kid[d][sibling]]
                       /\ tree.kid[d][sibling] \in Ptr /\ B[tree.kid[d][sibling]] \in Nat
  <2>1. ASSUME NEW d \in Side
        PROVE  B[sibling] = Weight(tree, sibling) + B[tree.kid[d][sibling]]
               /\ tree.kid[d][sibling] \in Ptr /\ B[tree.kid[d][sibling]] \in Nat
    <3>1. B[sibling] = Weight(tree, sibling) + B[tree.kid[d][sibling]] + Lack(parent, Near, sibling, d)
      BY <1>4, <1>7
    <3>2. Lack(parent, Near, sibling, d) = 0 /\ Weight(tree, sibling) \in {0, 1}
      BY <1>9 DEF Lack, Weight
    <3>3. tree.kid[d][sibling] \in Ptr
      BY <1>2, <1>7, TreeTypes
    <3>4. B[tree.kid[d][sibling]] \in Nat
      BY <1>4, <3>3
    <3>5. QED
      BY <3>1, <3>2, <3>3, <3>4
  <2>2. QED
    BY <2>1
<1>12. \A n \in Node, d \in Side : tree.kid[d][n] = sibling <=> n = parent /\ d = Far
  BY <1>5, <1>8
<1>13. QED
  BY <1>1, <1>2, <1>3, <1>5, <1>6, <1>7, <1>8, <1>9, <1>10, <1>11, <1>12 DEF AtSibling

\* The sibling becomes red, the parent black.
LEMMA EraseFlipKeeps ==
  ASSUME NEW D, NEW B, Inv(D, B), EraseFlip
  PROVE  \E D2, B2 : Inv(D2, B2)' /\ D2[tree'.root] = D[tree.root]
<1>. DEFINE S == D[tree.root]
            w == sibling
            p == parent
            q == tree.parent[parent]
            t == rb_set_parent_color(tree, w, p, RED)
            t2 == IF IsRed(tree, p) THEN [t EXCEPT !.color[p] = BLACK] ELSE t
<1>1. /\ Shape(tree, D) /\ Erasing(D, B) /\ size = Cardinality(S) /\ answer \in Ptr
      /\ ~IsRed(tree, w) /\ BlackNephews /\ tree' = t2
      /\ IF Recurses THEN Continue(p, q) ELSE Return
      /\ size' = size /\ answer' = answer
  BY DEF Inv, EraseFlip, Resting, Descending, Inserting, Erasing
<1>2. AtSibling(D, B)
  BY <1>1, SiblingIs
<1>3. /\ p \in Node /\ p \in S /\ Nil \notin Node /\ p # Nil
      /\ Near \in Side /\ Far \in Side /\ Far # Near
      /\ node = tree.kid[Near][p] /\ node \in Ptr /\ IsBlack(tree, node)
      /\ w \in Node /\ w \in S /\ w = tree.kid[Far][p]
      /\ w # p /\ w # node /\ w # tree.root /\ tree.parent[w] = p
      /\ tree \in Tree /\ RedsApart(tree, Nil, Nil) /\ IsBlack(tree, tree.root)
      /\ Counts(tree, B, p, Near)
      /\ B[node] \in Nat /\ B[w] = B[node] + 1 /\ B[p] = Weight(tree, p) + B[w]
      /\ \A n \in Node, d \in Side : tree.kid[d][n] = w <=> n = p /\ d = Far
  BY <1>2 DEF AtSibling
<1>4. tree.color[w] = BLACK /\ p \in Ptr
  BY <1>1, <1>3, TreeTypes DEF IsRed, Ptr
<1>5. /\ q \in Ptr /\ q # p /\ (q = Nil <=> tree.root = p)
      /\ \A d \in Side, n \in Node : tree.kid[d][n] = p <=> n = q /\ d = SideOf(tree, p, q)
      /\ (q # Nil => q \in S /\ q \in Node)
  <2>1. /\ q \in Ptr /\ q # p /\ (q = Nil <=> tree.root = p)
        /\ \A d \in Side, n \in Node : tree.kid[d][n] = p <=> n = q /\ d = SideOf(tree, p, q)
    BY <1>1, <1>3, Place
  <2>2. q # Nil => q \in S
    BY <1>1, <1>3, Parents
  <2>3. QED
    BY <2>1, <2>2 DEF Ptr
<1>6. \A d \in Side : IsBlack(tree, tree.kid[d][w])
  BY <1>1 DEF BlackNephews, Side
<1>. HIDE DEF w, p, q
<1>7. /\ t2 \in Tree /\ t2.root = tree.root /\ t2.kid = tree.kid
      /\ \A m \in Node : t2.parent[m] = tree.parent[m]
      /\ \A m \in Node : t2.color[m] = IF m = w THEN RED ELSE IF m = p THEN BLACK ELSE tree.color[m]
  <2>1. ParentColorSet(tree, t, w, p, RED)
    BY <1>3, <1>4, SetParentColor
  <2>. HIDE DEF t
  <2>2. CASE IsRed(tree, p)
    <3>1. t2 = [t EXCEPT !.color[p] = BLACK]
      BY <2>2
    <3>2. t \in Tree
      BY <2>1 DEF ParentColorSet
    <3>3. /\ t2 \in Tree /\ t2.root = t.root /\ t2.kid = t.kid /\ t2.parent = t.parent
          /\ \A m \in Node : t2.color[m] = IF m = p THEN BLACK ELSE t.color[m]
      BY <3>1, <3>2 DEF Tree
    <3>. HIDE DEF t2
    <3>4. QED
      BY <1>3, <2>1, <3>3 DEF ParentColorSet
  <2>3. CASE ~IsRed(tree, p)
    <3>1. t2 = t
      BY <2>3
    <3>2. tree.color[p] = BLACK
      BY <1>3, <2>3, TreeTypes DEF IsRed
    <3>. HIDE DEF t2
    <3>3. QED
      BY <1>3, <2>1, <3>1, <3>2 DEF ParentColorSet
  <2>4. QED
    BY <2>2, <2>3
<1>. HIDE DEF t2, t
<1>8. Shape(t2, D)
  <2>1. \A m \in Node \ D[tree.root] : t2.color[m] = tree.color[m]
    BY <1>3, <1>7
  <2>2. QED
    BY <1>1, <1>7, <2>1, Recoloured
<1>9. RedsApart(t2, Nil, Nil)
  <2>1. ASSUME NEW n \in Node, NEW d \in Side, IsRed(t2, n), IsRed(t2, t2.kid[d][n])
        PROVE  FALSE
    <3>1. t2.kid[d][n] = tree.kid[d][n] /\ tree.kid[d][n] \in Node
      BY <1>3, <1>7, <2>1, TreeTypes DEF IsRed, Ptr
    <3>2. n # p /\ tree.kid[d][n] # p
      BY <1>3, <1>7, <2>1, <3>1 DEF IsRed, RED, BLACK
    <3>3. tree.kid[d][n] # w
      BY <1>3, <3>2
    <3>4. IsRed(tree, tree.kid[d][n])
      BY <1>7, <2>1, <3>1, <3>2, <3>3 DEF IsRed
    <3>5. CASE n = w
      BY <1>6, <3>4, <3>5 DEF IsBlack
    <3>6. CASE n # w
      <4>1. IsRed(tree, n)
        BY <1>7, <2>1, <3>2, <3>6 DEF IsRed
      <4>2. QED
        BY <1>3, <3>4, <4>1 DEF RedsApart
    <3>7. QED
      BY <3>5, <3>6
  <2>2. QED
    BY <2>1 DEF RedsApart
<1>10. IsBlack(t2, t2.root)
  BY <1>3, <1>7 DEF IsBlack, IsRed, RED, BLACK, Tree, Ptr
<1>11. Recurses <=> tree.color[p] = BLACK /\ q # Nil
  BY <1>3, TreeTypes DEF Recurses, IsRed, p, q, RED, BLACK
<1>12. PICK B2 : B2 = [B EXCEPT ![w] = @ - 1, ![p] = 1 + B[node]]
  OBVIOUS
<1>13. PICK x : x = IF tree.color[p] = BLACK THEN q ELSE Nil
  OBVIOUS
<1>14. Counts(t2, B2, x, SideOf(tree, p, q))
  <2>. DEFINE h == SideOf(tree, p, q)
  <2>. HIDE DEF h
  <2>1. /\ B \in [Ptr -> Nat] /\ B[Nil] = 0
        /\ \A n \in Node, d \in Side : B[n] = Weight(tree, n) + B[tree.kid[d][n]] + Lack(p, Near, n, d)
    BY <1>3 DEF Counts
  <2>2. /\ B2 \in [Ptr -> Nat] /\ \A m \in Ptr \ {w, p} : B2[m] = B[m]
        /\ B2[w] = B[node] /\ B2[p] = 1 + B[node] /\ B2[Nil] = 0
    <3>1. w \in Ptr /\ p \in Ptr /\ w # p /\ Nil # w /\ Nil # p /\ Nil \in Ptr
      BY <1>3 DEF Ptr
    <3>2. B[w] - 1 = B[node] /\ 1 + B[node] \in Nat
      BY <1>3
    <3>3. QED
      BY <1>3, <1>12, <2>1, <3>1, <3>2
  <2>3. ASSUME NEW n \in Node, NEW d \in Side
        PROVE  B2[n] = Weight(t2, n) + B2[t2.kid[d][n]] + Lack(x, h, n, d)
    <3>1. /\ B[n] = Weight(tree, n) + B[tree.kid[d][n]] + Lack(p, Near, n, d)
          /\ t2.kid[d][n] = tree.kid[d][n] /\ tree.kid[d][n] \in Ptr
          /\ B[tree.kid[d][n]] \in Nat /\ Weight(tree, n) \in {0, 1} /\ Lack(x, h, n, d) \in {0, 1}
      BY <1>3, <1>7, <2>1, TreeTypes DEF Lack, Weight
    <3>2. Lack(p, Near, n, d) = IF n = p /\ d = Near THEN 1 ELSE 0
      BY DEF Lack
    <3>3. tree.kid[d][n] = p <=> n = q /\ d = h
      BY <1>5 DEF h
    <3>4. Lack(x, h, n, d) = IF tree.kid[d][n] = p /\ tree.color[p] = BLACK THEN 1 ELSE 0
      BY <1>3, <1>13, <3>3 DEF Lack
    <3>5. tree.kid[d][n] = w <=> n = p /\ d = Far
      BY <1>3
    <3>6. CASE n = p
      <4>1. Weight(t2, n) = 1 /\ tree.kid[d][n] # p
        BY <1>1, <1>3, <1>5, <1>7, <3>6 DEF Weight
      <4>2. d = Near \/ d = Far
        BY <1>3 DEF Side
      <4>3. B2[tree.kid[d][n]] = B[node]
        <5>1. CASE d = Near
          BY <1>3, <2>2, <3>6, <4>1, <5>1
        <5>2. CASE d = Far
          BY <1>3, <2>2, <3>6, <5>2
        <5>3. QED
          BY <4>2, <5>1, <5>2
      <4>4. QED
        BY <1>3, <2>2, <3>1, <3>4, <3>6, <4>1, <4>3
    <3>7. CASE n = w
      <4>1. Weight(t2, n) = 0 /\ Weight(tree, n) = 1
        BY <1>4, <1>7, <3>7 DEF Weight, RED, BLACK
      <4>2. tree.kid[d][n] # w /\ n # p
        BY <1>3, <3>7
      <4>3. tree.kid[d][n] # p
        <5>1. ASSUME tree.kid[d][w] = p
              PROVE  FALSE
          <6>2. tree.kid[d][w] # Nil
            BY <1>3, <5>1
          <6>3. p \in D[w]
            BY <1>1, <1>3, <5>1, <6>2, KidSelf
          <6>4. p \notin D[tree.kid[Far][p]]
            BY <1>1, <1>3, BelowNode
          <6>5. QED
            BY <1>3, <6>3, <6>4
        <5>2. QED
          BY <3>7, <5>1
      <4>4. B2[tree.kid[d][n]] = B[tree.kid[d][n]]
        BY <2>2, <3>1, <4>2, <4>3
      <4>5. B[n] = 1 + B[tree.kid[d][n]]
        BY <3>1, <3>2, <4>1, <4>2
      <4>6. B2[n] = B[n] - 1
        BY <1>3, <2>2, <3>7
      <4>7. QED
        BY <3>1, <3>4, <4>1, <4>3, <4>4, <4>5, <4>6
    <3>8. CASE n # p /\ n # w
      <4>1. B2[n] = B[n] /\ Weight(t2, n) = Weight(tree, n) /\ tree.kid[d][n] # w
        BY <1>3, <1>7, <2>2, <3>8 DEF Weight, Ptr
      <4>2. CASE tree.kid[d][n] = p
        <5>1. B[p] = (IF tree.color[p] = BLACK THEN 1 ELSE 0) + B[node] + 1
          BY <1>3 DEF Weight
        <5>2. B[p] = B2[p] + Lack(x, h, n, d)
          BY <1>3, <2>2, <3>4, <4>2, <5>1
        <5>3. B[n] = Weight(tree, n) + B[p]
          BY <3>1, <3>2, <3>8, <4>2
        <5>4. B2[p] \in Nat
          BY <1>3, <2>2
        <5>5. QED
          BY <3>1, <4>1, <4>2, <5>2, <5>3, <5>4
      <4>3. CASE tree.kid[d][n] # p
        <5>1. B2[tree.kid[d][n]] = B[tree.kid[d][n]]
          BY <2>2, <3>1, <4>1, <4>3
        <5>2. QED
          BY <3>1, <3>2, <3>4, <3>8, <4>1, <4>3, <5>1
      <4>4. QED
        BY <4>2, <4>3
    <3>9. QED
      BY <3>6, <3>7, <3>8
  <2>4. QED
    BY <2>2, <2>3 DEF Counts, h
<1>15. CASE Recurses
  <2>1. x = q /\ q # Nil /\ q \in S /\ q \in Node
    BY <1>5, <1>11, <1>13, <1>15
  <2>2. node' = p /\ parent' = q /\ pc' = pc /\ link' = link /\ tree' = t2
    BY <1>1, <1>15 DEF Continue, p, q
  <2>3. Near' = SideOf(tree, p, q)
    <3>1. Near' = IF p # tree.kid["rb_right"][q] THEN "rb_left" ELSE "rb_right"
      BY <1>7, <2>2 DEF Near
    <3>2. \A d \in Side : tree.kid[d][q] = p <=> d = SideOf(tree, p, q)
      BY <1>5, <2>1
    <3>3. SideOf(tree, p, q) \in Side /\ "rb_right" \in Side
      BY DEF SideOf, Side
    <3>4. QED
      BY <3>1, <3>2, <3>3 DEF Side
  <2>4. tree'.kid[Near'][q] = p
    <3>1. SideOf(tree, p, q) \in Side
      BY DEF SideOf, Side
    <3>2. QED
      BY <1>5, <1>7, <2>1, <2>2, <2>3, <3>1
  <2>5. IsBlack(tree', node')
    BY <1>3, <1>7, <2>2 DEF IsBlack, IsRed, RED, BLACK
  <2>6. Erasing(D, B2)'
    <3>1. pc' = "erase_color" /\ link' = "rb_root"
      BY <1>1, <2>2 DEF Erasing
    <3>2. q \in D[t2.root]
      BY <1>7, <2>1
    <3>3. QED
      BY <1>9, <1>10, <1>14, <2>1, <2>2, <2>3, <2>4, <2>5, <3>1, <3>2 DEF Erasing
  <2>7. Inv(D, B2)'
    BY <1>1, <1>7, <1>8, <2>2, <2>6 DEF Inv
  <2>8. QED
    BY <1>7, <2>2, <2>7
<1>16. CASE ~Recurses
  <2>1. x = Nil
    BY <1>11, <1>13, <1>16
  <2>2. Counts(t2, B2, Nil, "rb_left")
    BY <1>14, <2>1, NoneShort
  <2>3. Return /\ tree' = t2
    BY <1>1, <1>16
  <2>4. Resting(B2)'
    BY <1>9, <1>10, <2>2, <2>3 DEF Resting, Balanced, Return
  <2>5. Inv(D, B2)'
    BY <1>1, <1>7, <1>8, <2>3, <2>4 DEF Inv
  <2>6. QED
    BY <1>7, <2>3, <2>5
<1>17. QED
  BY <1>15, <1>16

\* Cases 1 and 4, up to __rb_rotate_set_parents: only the colour of p is not that of t.
Sunk(t, u, s, g, p) ==
    /\ Turned(t, u, s, g, p)
    /\ \A n \in Node \ {p} : u.color[n] = t.color[n]

\* The red sibling goes up, and the inner nephew is the sibling now.
LEMMA RedSiblingSinks ==
  ASSUME NEW D, NEW B, Shape(tree, D), AtSibling(D, B), IsRed(tree, sibling),
         NEW u, u = rb_set_parent_color(
                        rb_set_kid(rb_set_kid(tree, Far, parent, tree.kid[Near][sibling]),
                                   Near, sibling, parent),
                        tree.kid[Near][sibling], parent, BLACK)
  PROVE  /\ tree.kid[Near][sibling] \in Node /\ tree.color[tree.kid[Near][sibling]] = BLACK
         /\ IsBlack(tree, tree.kid[Far][sibling])
         /\ Sunk(tree, u, Near, parent, sibling)
<1>. DEFINE s == Near
            g == parent
            p == sibling
            b == tree.kid[Near][sibling]
            t0 == rb_set_kid(tree, Far, g, b)
            t1 == rb_set_kid(t0, s, p, g)
<1>1. /\ g \in Node /\ Nil \notin Node /\ s \in Side /\ Far \in Side /\ Far # s
      /\ p \in Node /\ p = tree.kid[Far][g] /\ p # g /\ tree \in Tree /\ RedsApart(tree, Nil, Nil)
      /\ B[node] \in Nat /\ B[p] = B[node] + 1
      /\ B[p] = Weight(tree, p) + B[b] /\ b \in Ptr /\ B[b] \in Nat /\ B[Nil] = 0
      /\ \A d \in Side : d = s \/ d = Far
  BY DEF AtSibling, Counts, Side
<1>2. Weight(tree, p) = 0
  BY DEF Weight, IsRed, RED, BLACK
<1>3. b \in Node
  BY <1>1, <1>2 DEF Ptr
<1>4. \A d \in Side : IsBlack(tree, tree.kid[d][p])
  BY <1>1, NilAssumption DEF RedsApart, IsBlack, IsRed
<1>5. tree.color[b] = BLACK
  BY <1>1, <1>3, <1>4, TreeTypes DEF IsBlack, IsRed
<1>6. g \in Ptr
  BY <1>1 DEF Ptr
<1>. HIDE DEF s, g, p, b
<1>7. KidSet(tree, t0, Far, g, b)
  BY <1>1, SetKid
<1>. HIDE DEF t0
<1>8. KidSet(t0, t1, s, p, g)
  <2>1. t0 \in Tree
    BY <1>7 DEF KidSet
  <2>2. QED
    BY <1>1, <1>6, <2>1, SetKid
<1>. HIDE DEF t1
<1>9. ParentColorSet(t1, u, b, g, BLACK)
  <2>1. t1 \in Tree
    BY <1>8 DEF KidSet
  <2>2. u = rb_set_parent_color(t1, b, g, BLACK)
    BY DEF s, g, p, b, t1, t0
  <2>3. QED
    BY <1>3, <1>6, <2>1, <2>2, SetParentColor
<1>10. Turned(tree, u, s, g, p)
  <2>1. u \in Tree /\ u.root = tree.root
    BY <1>7, <1>8, <1>9 DEF KidSet, ParentColorSet
  <2>2. ASSUME NEW d \in Side, NEW n \in Node
        PROVE  u.kid[d][n] = IF n = g /\ d # s THEN b ELSE IF n = p /\ d = s THEN g ELSE tree.kid[d][n]
    BY <1>1, <1>7, <1>8, <1>9 DEF KidSet, ParentColorSet
  <2>3. ASSUME NEW n \in Node
        PROVE  u.parent[n] = IF n = b THEN g ELSE tree.parent[n]
    BY <1>7, <1>8, <1>9 DEF KidSet, ParentColorSet
  <2>4. b = tree.kid[s][p]
    BY DEF b, s, p
  <2>5. QED
    BY <2>1, <2>2, <2>3, <2>4 DEF Turned
<1>11. \A n \in Node : u.color[n] = tree.color[n]
  BY <1>5, <1>7, <1>8, <1>9 DEF KidSet, ParentColorSet
<1>12. QED
  BY <1>1, <1>3, <1>4, <1>5, <1>10, <1>11 DEF Sunk, s, g, p, b

\* Case 1: the loop goes on, with a black sibling.
LEMMA EraseRedSiblingKeeps ==
  ASSUME NEW D, NEW B, Inv(D, B), EraseRedSibling
  PROVE  \E D2, B2 : Inv(D2, B2)' /\ D2[tree'.root] = D[tree.root]
<1>. DEFINE S == D[tree.root]
            s == Near
            o == Far
            g == parent
            p == sibling
            b == tree.kid[Near][sibling]
            c == tree.kid[Far][sibling]
            u == rb_set_parent_color(rb_set_kid(rb_set_kid(tree, Far, parent, b), Near, sibling, parent),
                                     b, parent, BLACK)
            t2 == __rb_rotate_set_parents(u, parent, sibling, RED)
<1>1. /\ Shape(tree, D) /\ Erasing(D, B) /\ size = Cardinality(S) /\ answer \in Ptr
      /\ IsRed(tree, p) /\ tree' = t2
      /\ size' = size /\ pc' = pc /\ node' = node /\ parent' = g /\ link' = link /\ answer' = answer
  BY DEF Inv, EraseRedSibling, Resting, Descending, Inserting, Erasing
<1>2. AtSibling(D, B)
  BY <1>1, SiblingIs
<1>3. /\ b \in Node /\ tree.color[b] = BLACK /\ IsBlack(tree, c) /\ Sunk(tree, u, s, g, p)
  BY <1>1, <1>2, RedSiblingSinks
<1>4. /\ g \in Node /\ g \in S /\ Nil \notin Node /\ g # Nil
      /\ s \in Side /\ o \in Side /\ o # s /\ Other(o) = s /\ Other(s) = o /\ (\A d \in Side : d = s \/ d = o)
      /\ node = tree.kid[s][g] /\ node \in Ptr /\ IsBlack(tree, node)
      /\ p \in Node /\ p \in S /\ p = tree.kid[o][g] /\ p # g /\ p # tree.root
      /\ tree \in Tree /\ RedsApart(tree, Nil, Nil) /\ IsBlack(tree, tree.root)
      /\ Counts(tree, B, g, s)
      /\ B[node] \in Nat /\ B[p] = B[node] + 1 /\ B[g] = Weight(tree, g) + B[p]
      /\ B[p] = Weight(tree, p) + B[b] /\ B[p] = Weight(tree, p) + B[c] /\ c \in Ptr
      /\ B[b] \in Nat /\ B[c] \in Nat
      /\ \A n \in Node, d \in Side : tree.kid[d][n] = p <=> n = g /\ d = o
  BY <1>2 DEF AtSibling, Side
<1>5. ParentsRotated(u, t2, g, p, RED)
  <2>1. u \in Tree
    BY <1>3 DEF Sunk, Turned
  <2>. HIDE DEF u
  <2>2. QED
    BY <1>4, <2>1, RotateSetParents
<1>6. b = tree.kid[s][p] /\ c = tree.kid[o][p]
  OBVIOUS
<1>. HIDE DEF t2, u, s, g, p, b, c, o
<1>7. tree.color[p] = RED /\ tree.color[g] = BLACK
  <2>1. tree.color[p] = RED
    BY <1>1 DEF IsRed
  <2>2. ~IsRed(tree, g)
    <3>1. ASSUME IsRed(tree, g)
          PROVE  FALSE
      <4>1. IsRed(tree, tree.kid[o][g])
        BY <1>1, <1>4
      <4>2. g = Nil
        BY <1>4, <3>1, <4>1 DEF RedsApart
      <4>3. QED
        BY <1>4, <4>2
    <3>2. QED
      BY <3>1
  <2>3. QED
    BY <1>4, <2>1, <2>2, TreeTypes DEF IsRed
<1>8. IsRotated(tree, t2, s, g, p)
  <2>1. Turned(tree, u, s, g, p)
    BY <1>3 DEF Sunk
  <2>2. p = tree.kid[Other(s)][g]
    BY <1>4
  <2>3. QED
    BY <1>1, <1>4, <1>5, <2>1, <2>2, TurnedRotates
<1>9. \A m \in Node : t2.color[m] = IF m = g THEN RED ELSE IF m = p THEN BLACK ELSE tree.color[m]
  <2>1. \A m \in Node \ {p} : u.color[m] = tree.color[m]
    BY <1>3 DEF Sunk
  <2>2. u.color[g] = BLACK
    BY <1>4, <1>7, <2>1
  <2>3. QED
    BY <1>5, <2>1, <2>2 DEF ParentsRotated
<1>10. PICK D2 : D2 = BelowRotated(tree, D, s, g, p)
  OBVIOUS
<1>11. Shape(t2, D2) /\ D2[t2.root] = S
  <2>1. \A m \in Node \ D[tree.root] : t2.color[m] = tree.color[m]
    BY <1>4, <1>9
  <2>2. p = tree.kid[Other(s)][g]
    BY <1>4
  <2>3. QED
    BY <1>1, <1>4, <1>8, <1>10, <2>1, <2>2, RotatedShape
<1>12. PICK B2 : Counts(t2, B2, g, s)
  <2>1. Weight(tree, g) = 1 /\ Weight(tree, p) = 0 /\ Weight(t2, g) = 0 /\ Weight(t2, p) = 1
    BY <1>4, <1>7, <1>9 DEF Weight, RED, BLACK
  <2>2. /\ Lack(g, s, g, s) = 1 /\ Lack(g, s, g, o) = 0 /\ Lack(g, s, p, s) = 0 /\ Lack(g, s, p, o) = 0
    BY <1>4 DEF Lack
  <2>3. PICK v : v = B[p]
    OBVIOUS
  <2>4. v \in Nat /\ B[b] = v /\ B[c] = v /\ B[g] = 1 + v /\ v = B[node] + 1
    BY <1>4, <2>1, <2>3
  <2>5. /\ v = Weight(t2, g) + B[tree.kid[s][g]] + Lack(g, s, g, s)
        /\ v = Weight(t2, g) + B[tree.kid[s][p]] + Lack(g, s, g, Other(s))
    BY <1>4, <1>6, <2>1, <2>2, <2>4
  <2>6. /\ B[g] = Weight(t2, p) + v + Lack(g, s, p, s)
        /\ B[g] = Weight(t2, p) + B[c] + 0 + Lack(g, s, p, Other(s))
    BY <1>4, <1>6, <2>1, <2>2, <2>4
  <2>7. c # Nil => c # p /\ c # g /\ Weight(t2, c) = Weight(tree, c) + 0
    <3>1. ASSUME c # Nil
          PROVE  c # p /\ c # g /\ c \in Node
      <4>1. c \in Node
        BY <1>4, <3>1 DEF Ptr
      <4>2. c # p /\ c \in D[p]
        BY <1>1, <1>4, <1>6, <3>1, KidSelf
      <4>3. g \notin D[p]
        BY <1>1, <1>4, BelowNode
      <4>4. QED
        BY <4>1, <4>2, <4>3
    <3>2. ASSUME c # Nil
          PROVE  Weight(t2, c) = Weight(tree, c) /\ Weight(tree, c) \in {0, 1}
      BY <1>9, <3>1, <3>2 DEF Weight
    <3>3. QED
      BY <3>1, <3>2
  <2>8. \A m \in Node \ {g, p, c} : t2.color[m] = tree.color[m]
    BY <1>9
  <2>9. c = tree.kid[Other(s)][p] /\ p = tree.kid[Other(s)][g] /\ 0 \in {0, 1}
    BY <1>4, <1>6
  <2>10. CountsFit(tree, t2, B, s, g, p, c, v, 0, g, s, g, s)
    BY <2>4, <2>5, <2>6, <2>7, <2>8, <2>9 DEF CountsFit
  <2>11. Counts(t2, CountsRotated(B, g, p, c, v, 0), g, s)
    BY <1>1, <1>4, <1>8, <2>9, <2>10, RotatedCounts
  <2>12. QED
    BY <2>11
<1>13. /\ t2 \in Tree
       /\ \A d \in Side, n \in Node :
             t2.kid[d][n] = IF n = g THEN IF d = s THEN node ELSE b
                            ELSE IF n = p THEN IF d = s THEN g ELSE tree.kid[d][p]
                            ELSE IF tree.kid[d][n] = g THEN p ELSE tree.kid[d][n]
       /\ t2.root = IF tree.root = g THEN p ELSE tree.root
  <2>1. node = tree.kid[s][g] /\ b = tree.kid[s][p]
    BY <1>4, <1>6
  <2>2. QED
    BY <1>8, <2>1 DEF IsRotated
<1>14. RedsApart(t2, Nil, Nil)
  <2>1. ASSUME NEW m \in Node, NEW d \in Side, IsRed(t2, m), IsRed(t2, t2.kid[d][m])
        PROVE  FALSE
    <3>1. t2.kid[d][m] \in Node /\ t2.kid[d][m] # p /\ m # p
      <4>1. t2.kid[d][m] \in Ptr /\ t2.kid[d][m] # Nil
        BY <1>13, <2>1, TreeTypes DEF IsRed
      <4>2. QED
        BY <1>4, <1>9, <2>1, <4>1 DEF IsRed, RED, BLACK, Ptr
    <3>2. CASE m = g
      <4>1. t2.kid[d][m] = node \/ t2.kid[d][m] = b
        BY <1>13, <3>2
      <4>2. t2.kid[d][m] # g
        <5>1. node # g
          BY <1>1, <1>4, KidSelf
        <5>2. b \in D[p] /\ g \notin D[p]
          <6>1. b # Nil
            BY <1>3, <1>4
          <6>2. tree.kid[s][p] \in D[p]
            BY <1>1, <1>4, <1>6, <6>1, KidSelf
          <6>3. g \notin D[tree.kid[o][g]]
            BY <1>1, <1>4, <1>6, BelowNode
          <6>4. QED
            BY <1>4, <1>6, <6>2, <6>3
        <5>3. QED
          BY <4>1, <5>1, <5>2
      <4>3. t2.color[t2.kid[d][m]] = tree.color[t2.kid[d][m]]
        BY <1>9, <3>1, <4>2
      <4>4. QED
        BY <1>3, <1>4, <2>1, <3>1, <4>1, <4>3 DEF IsBlack, IsRed, RED, BLACK
    <3>3. CASE m # g
      <4>1. t2.kid[d][m] = tree.kid[d][m] /\ tree.kid[d][m] # g
        BY <1>13, <3>1, <3>3
      <4>2. IsRed(tree, m) /\ IsRed(tree, tree.kid[d][m])
        BY <1>9, <2>1, <3>1, <3>3, <4>1 DEF IsRed
      <4>3. m = Nil
        BY <1>4, <4>2 DEF RedsApart
      <4>4. QED
        BY <1>4, <4>3
    <3>4. QED
      BY <3>2, <3>3
  <2>2. QED
    BY <2>1 DEF RedsApart
<1>15. IsBlack(t2, t2.root)
  BY <1>4, <1>9, <1>13, TreeTypes DEF IsBlack, IsRed, RED, BLACK, Ptr
<1>16. Near' = s
  <2>1. Near' = IF node # t2.kid["rb_right"][g] THEN "rb_left" ELSE "rb_right"
    BY <1>1 DEF Near
  <2>2. node # b
    <3>1. b # Nil /\ p # Nil
      BY <1>3, <1>4
    <3>2. \A n \in Node, d \in Side : tree.kid[d][n] = tree.kid[s][p] => n = p /\ d = s
      <4>1. tree.kid[s][p] # Nil
        BY <1>6, <3>1
      <4>2. p \in Node /\ s \in Side /\ Shape(tree, D)
        BY <1>1, <1>4
      <4>3. QED
        BY <4>1, <4>2, OneParent
    <3>3. QED
      BY <1>4, <1>6, <3>2
  <2>3. t2.kid[s][g] = node /\ t2.kid[o][g] = b
    BY <1>4, <1>13
  <2>4. (s = "rb_left" /\ o = "rb_right") \/ (s = "rb_right" /\ o = "rb_left")
    <3>1. s \in Side /\ o \in Side /\ o # s
      BY <1>4
    <3>2. QED
      BY <3>1 DEF Side
  <2>5. QED
    BY <2>1, <2>2, <2>3, <2>4
<1>17. IsBlack(t2, node)
  <2>1. node # g
    BY <1>1, <1>4, KidSelf
  <2>2. QED
    BY <1>4, <1>9, <2>1 DEF IsBlack, IsRed, RED, BLACK, Ptr
<1>18. Erasing(D2, B2)'
  <2>1. pc' = "erase_color" /\ link' = "rb_root"
    BY <1>1 DEF Erasing
  <2>2. g \in D2[t2.root] /\ node = t2.kid[s][g]
    BY <1>4, <1>11, <1>13
  <2>3. QED
    BY <1>1, <1>12, <1>14, <1>15, <1>16, <1>17, <2>1, <2>2 DEF Erasing
<1>19. Inv(D2, B2)'
  BY <1>1, <1>11, <1>18 DEF Inv
<1>20. QED
  BY <1>1, <1>11, <1>19

\* What Case 4 starts from: c is the red outer child of the black sibling p.
FarRed(t, B, s, g, p, c) ==
    /\ g \in Node /\ p \in Node /\ c \in Node /\ s \in Side
    /\ p = t.kid[Other(s)][g] /\ c = t.kid[Other(s)][p]
    /\ t.color[p] = BLACK /\ t.color[c] = RED
    /\ Counts(t, B, g, s) /\ RedsApart(t, Nil, Nil) /\ IsBlack(t, t.root)

\* Case 4, up to __rb_rotate_set_parents.
Case4Turned(t, u, s, g, p) ==
    /\ Turned(t, u, s, g, p)
    /\ \A n \in Node \ {p} : u.color[n] = IF n = t.kid[Other(s)][p] THEN BLACK ELSE t.color[n]

\* After it no path is short.
LEMMA Case4Settles ==
  ASSUME NEW t, NEW D, Shape(t, D), NEW B, NEW s, NEW g, NEW p, NEW c, FarRed(t, B, s, g, p, c),
         NEW u, Case4Turned(t, u, s, g, p), NEW t2, ParentsRotated(u, t2, g, p, BLACK)
  PROVE  Settled(t2, D[t.root])
<1>. DEFINE o == Other(s)
            a == t.kid[s][g]
            b == t.kid[s][p]
<1>1. /\ g \in Node /\ p \in Node /\ c \in Node /\ s \in Side
      /\ p = t.kid[o][g] /\ c = t.kid[o][p] /\ t.color[p] = BLACK /\ t.color[c] = RED
      /\ Counts(t, B, g, s) /\ RedsApart(t, Nil, Nil) /\ IsBlack(t, t.root)
  BY DEF FarRed
<1>2. /\ o \in Side /\ o # s /\ Other(o) = s /\ (\A d \in Side : d = s \/ d = o)
      /\ t \in Tree /\ Nil \notin Node /\ p # Nil /\ g # Nil /\ c # Nil
  BY <1>1, Sides, NilAssumption DEF Shape
<1>3. p # g /\ c # p /\ c # g /\ g \in D[t.root] /\ p \in D[t.root] /\ c \in D[t.root] /\ c # t.root /\ p # t.root
      /\ a \in Ptr /\ b \in Ptr
  <2>1. p # g /\ c # p /\ g \in D[t.root] /\ p \in D[t.root] /\ c \in D[t.root] /\ c # t.root /\ p # t.root
    BY <1>1, <1>2, KidSelf, OneParent
  <2>2. c \in D[p] /\ g \notin D[p]
    BY <1>1, <1>2, KidSelf, BelowNode
  <2>3. a \in Ptr /\ b \in Ptr
    BY <1>1, <1>2, TreeTypes
  <2>4. QED
    BY <2>1, <2>2, <2>3
<1>4. IsRotated(t, t2, s, g, p)
  <2>1. Turned(t, u, s, g, p)
    BY DEF Case4Turned
  <2>2. QED
    BY <1>1, <2>1, TurnedRotates
<1>5. \A m \in Node : t2.color[m] = IF m = g THEN BLACK ELSE IF m = p THEN t.color[g]
                                     ELSE IF m = c THEN BLACK ELSE t.color[m]
  <2>1. \A m \in Node \ {p} : u.color[m] = IF m = c THEN BLACK ELSE t.color[m]
    BY <1>1 DEF Case4Turned
  <2>2. u.color[g] = t.color[g]
    BY <1>1, <1>3, <2>1
  <2>3. QED
    BY <1>3, <2>1, <2>2 DEF ParentsRotated
<1>. HIDE DEF o, a, b
<1>6. PICK D2 : D2 = BelowRotated(t, D, s, g, p)
  OBVIOUS
<1>7. Shape(t2, D2) /\ D2[t2.root] = D[t.root]
  <2>1. \A m \in Node \ D[t.root] : t2.color[m] = t.color[m]
    BY <1>3, <1>5
  <2>2. p = t.kid[Other(s)][g]
    BY <1>1 DEF o
  <2>3. QED
    BY <1>1, <1>4, <1>6, <2>1, <2>2, RotatedShape, SMTT(20)
<1>8. \E B2 : Counts(t2, B2, Nil, "rb_left")
  <2>1. /\ B \in [Ptr -> Nat] /\ \A m \in Node, d \in Side :
               B[m] = Weight(t, m) + B[t.kid[d][m]] + Lack(g, s, m, d)
    BY <1>1 DEF Counts
  <2>2. B[a] \in Nat /\ B[b] \in Nat /\ B[c] \in Nat /\ B[p] \in Nat
    BY <1>1, <1>3, <2>1 DEF Ptr
  <2>3. /\ B[g] = Weight(t, g) + B[a] + Lack(g, s, g, s) /\ B[g] = Weight(t, g) + B[p] + Lack(g, s, g, o)
        /\ B[p] = Weight(t, p) + B[b] + Lack(g, s, p, s) /\ B[p] = Weight(t, p) + B[c] + Lack(g, s, p, o)
    BY <1>1, <1>2, <2>1 DEF a, b
  <2>4. /\ Lack(g, s, g, s) = 1 /\ Lack(g, s, g, o) = 0 /\ Lack(g, s, p, s) = 0 /\ Lack(g, s, p, o) = 0
    BY <1>2, <1>3 DEF Lack
  <2>5. \A m \in Node, d \in Side : Lack(Nil, "rb_left", m, d) = 0
    BY <1>2 DEF Lack
  <2>6. /\ Weight(t, p) = 1 /\ Weight(t2, g) = 1 /\ Weight(t2, p) = Weight(t, g) /\ Weight(t, g) \in {0, 1}
        /\ Weight(t2, c) = Weight(t, c) + 1
    BY <1>1, <1>3, <1>5 DEF Weight, RED, BLACK
  <2>7. PICK v : v = 1 + B[a]
    OBVIOUS
  <2>8. B[a] = B[b] /\ B[a] = B[c] /\ B[g] = Weight(t, g) + v
    BY <2>2, <2>3, <2>4, <2>6, <2>7
  <2>9. /\ v \in Nat
        /\ v = Weight(t2, g) + B[t.kid[s][g]] + Lack(Nil, "rb_left", g, s)
        /\ v = Weight(t2, g) + B[t.kid[s][p]] + Lack(Nil, "rb_left", g, Other(s))
    <3>1. Lack(Nil, "rb_left", g, s) = 0 /\ Lack(Nil, "rb_left", g, Other(s)) = 0
      BY <1>1, <1>2, <2>5 DEF o
    <3>2. v = 1 + B[a] + 0 /\ v = 1 + B[b] + 0 /\ v \in Nat
      BY <2>2, <2>7, <2>8
    <3>3. QED
      BY <2>6, <3>1, <3>2 DEF a, b
  <2>10. /\ B[g] = Weight(t2, p) + v + Lack(Nil, "rb_left", p, s)
         /\ B[g] = Weight(t2, p) + B[c] + 1 + Lack(Nil, "rb_left", p, Other(s))
    <3>1. Lack(Nil, "rb_left", p, s) = 0 /\ Lack(Nil, "rb_left", p, Other(s)) = 0
      BY <1>1, <1>2, <2>5 DEF o
    <3>2. QED
      BY <2>2, <2>6, <2>7, <2>8, <3>1
  <2>11. \A m \in Node \ {g, p}, d \in Side : Lack(Nil, "rb_left", m, d) = Lack(g, s, m, d)
    BY <1>2 DEF Lack
  <2>12. /\ p = t.kid[Other(s)][g] /\ c = t.kid[Other(s)][p] /\ 1 \in {0, 1}
         /\ \A m \in Node \ {g, p, c} : t2.color[m] = t.color[m]
    BY <1>1, <1>5 DEF o
  <2>13. CountsFit(t, t2, B, s, g, p, c, v, 1, g, s, Nil, "rb_left")
    BY <1>2, <2>6, <2>9, <2>10, <2>11, <2>12 DEF CountsFit
  <2>14. Counts(t2, CountsRotated(B, g, p, c, v, 1), Nil, "rb_left")
    BY <1>1, <1>4, <2>12, <2>13, RotatedCounts
  <2>15. QED
    BY <2>14
<1>9. RedsApart(t2, Nil, Nil)
  <2>1. ASSUME NEW m \in Node, NEW d \in Side, IsRed(t2, m), IsRed(t2, t2.kid[d][m])
        PROVE  FALSE
    <3>0. t2.kid[d][m] = IF m = g THEN IF d = s THEN a ELSE b
                         ELSE IF m = p THEN IF d = s THEN g ELSE t.kid[d][p]
                         ELSE IF t.kid[d][m] = g THEN p ELSE t.kid[d][m]
      BY <1>4 DEF IsRotated, a, b
    <3>1. t2.kid[d][m] \in Node /\ t2.kid[d][m] \notin {g, c} /\ m \notin {g, c}
      <4>1. t2.kid[d][m] \in Ptr /\ t2.kid[d][m] # Nil
        BY <1>4, <2>1, TreeTypes DEF IsRotated, IsRed
      <4>2. QED
        BY <1>1, <1>3, <1>5, <2>1, <4>1 DEF IsRed, RED, BLACK, Ptr
    <3>2. m # p
      <4>1. ASSUME m = p
            PROVE  FALSE
        <5>1. CASE d = s
          BY <1>3, <3>0, <3>1, <4>1, <5>1
        <5>2. CASE d = o
          BY <1>1, <1>2, <1>3, <3>0, <3>1, <4>1, <5>2
        <5>3. QED
          BY <1>2, <5>1, <5>2
      <4>2. QED
        BY <4>1
    <3>3. IsRed(t, m) /\ IsRed(t, t.kid[d][m])
      <4>1. IsRed(t, m)
        BY <1>5, <2>1, <3>1, <3>2 DEF IsRed
      <4>2. CASE t.kid[d][m] = g
        BY <1>1, <1>2, <1>5, <2>1, <3>0, <3>1, <3>2, <4>1, <4>2 DEF IsRed
      <4>3. CASE t.kid[d][m] # g
        <5>1. t2.kid[d][m] = t.kid[d][m]
          BY <3>0, <3>1, <3>2, <4>3
        <5>2. t.kid[d][m] # p
          <6>1. \A k \in Node, e \in Side : t.kid[e][k] = p => k = g
            <7>1. o \in Side /\ t.kid[o][g] = p /\ p # Nil /\ g \in Node
              BY <1>1, <1>2
            <7>2. QED
              BY <7>1, OneParent
          <6>2. QED
            BY <3>1, <6>1
        <5>3. QED
          BY <1>5, <2>1, <3>1, <4>1, <5>1, <5>2 DEF IsRed
      <4>4. QED
        BY <4>2, <4>3
    <3>4. QED
      BY <1>1, <1>2, <3>3 DEF RedsApart
  <2>2. QED
    BY <2>1 DEF RedsApart
<1>10. IsBlack(t2, t2.root)
  <2>1. t2.root = IF t.root = g THEN p ELSE t.root
    BY <1>4 DEF IsRotated
  <2>2. t.root \in Node /\ t.color[t.root] = BLACK
    <3>1. t.root # Nil
      BY <1>3 DEF Shape
    <3>2. QED
      BY <1>1, <1>2, <3>1, TreeTypes DEF IsBlack, IsRed, Ptr
  <2>3. t2.color[t2.root] = BLACK
    BY <1>1, <1>3, <1>5, <2>1, <2>2
  <2>4. QED
    BY <2>3 DEF IsBlack, IsRed, RED, BLACK
<1>11. QED
  BY <1>7, <1>8, <1>9, <1>10 DEF Settled

\* What the code of Case 4 does before __rb_rotate_set_parents.
Case4Set(w, u, p) ==
    /\ u \in Tree /\ u.root = w.root
    /\ \A d \in Side, n \in Node :
          u.kid[d][n] = IF n = parent /\ d = Far THEN w.kid[Near][p]
                        ELSE IF n = p /\ d = Near THEN parent ELSE w.kid[d][n]
    /\ \A n \in Node : u.parent[n] = IF n = w.kid[Near][p] THEN parent
                                     ELSE IF n = w.kid[Far][p] THEN p ELSE w.parent[n]
    /\ \A n \in Node : u.color[n] = IF n = w.kid[Far][p] THEN BLACK ELSE w.color[n]

\* EraseCase4 does this.
LEMMA Case4Turns ==
  ASSUME NEW w \in Tree, NEW p \in Node, parent \in Node, p # parent, Near \in Side, Far \in Side,
         w.kid[Far][p] \in Node
  PROVE  \E u : Case4Set(w, u, p) /\ ParentsRotated(u, EraseCase4(w, p), parent, p, BLACK)
<1>. DEFINE g  == parent
            s  == Near
            o  == Far
            c  == w.kid[Far][p]
            b  == w.kid[Near][p]
            t0 == rb_set_kid(w, o, g, b)
            t1 == rb_set_kid(t0, s, p, g)
            t3 == rb_set_parent_color(t1, c, p, BLACK)
            u  == rb_set_parent(t3, b, g)
            t2 == __rb_rotate_set_parents(u, g, p, BLACK)
<1>1. t2 = EraseCase4(w, p)
  BY DEF EraseCase4
<1>2. /\ b \in Ptr /\ g \in Ptr /\ p \in Ptr /\ s \in Side /\ o \in Side /\ s # o
      /\ BLACK \in {RED, BLACK} /\ c \in Node /\ g \in Node
  BY TreeTypes, Sides DEF Ptr, Far
<1>3. KidSet(w, t0, o, g, b)
  BY <1>2, SetKid
<1>. HIDE DEF t0, b, c, g, s, o
<1>4. t0 \in Tree
  BY <1>3 DEF KidSet
<1>5. KidSet(t0, t1, s, p, g)
  BY <1>2, <1>4, SetKid
<1>. HIDE DEF t1
<1>6. t1 \in Tree
  BY <1>5 DEF KidSet
<1>7. ParentColorSet(t1, t3, c, p, BLACK)
  BY <1>2, <1>6, SetParentColor
<1>. HIDE DEF t3
<1>8. t3 \in Tree
  BY <1>7 DEF ParentColorSet
<1>9. ParentSet(t3, u, b, g)
  BY <1>2, <1>8, SetParent
<1>. HIDE DEF u
<1>10. u \in Tree
  BY <1>9 DEF ParentSet
<1>11. ParentsRotated(u, t2, g, p, BLACK)
  <2>1. g # p
    BY DEF g
  <2>2. QED
    BY <1>2, <1>10, <2>1, RotateSetParents
<1>. HIDE DEF t2
<1>12. Case4Set(w, u, p)
  <2>1. u.root = w.root
    BY <1>3, <1>5, <1>7, <1>9 DEF KidSet, ParentColorSet, ParentSet
  <2>2. ASSUME NEW d \in Side, NEW n \in Node
        PROVE  u.kid[d][n] = IF n = g /\ d = o THEN b ELSE IF n = p /\ d = s THEN g ELSE w.kid[d][n]
    BY <1>2, <1>3, <1>5, <1>7, <1>9 DEF KidSet, ParentColorSet, ParentSet
  <2>3. ASSUME NEW n \in Node
        PROVE  /\ u.parent[n] = IF n = b THEN g ELSE IF n = c THEN p ELSE w.parent[n]
               /\ u.color[n] = IF n = c THEN BLACK ELSE w.color[n]
    BY <1>3, <1>5, <1>7, <1>9 DEF KidSet, ParentColorSet, ParentSet
  <2>4. QED
    BY <1>10, <2>1, <2>2, <2>3 DEF Case4Set, b, c, g, s, o
<1>13. QED
  BY <1>1, <1>11, <1>12 DEF g

\* The outer nephew is red.
LEMMA OuterNephewRed ==
  ASSUME NEW D, NEW B, Shape(tree, D), AtSibling(D, B), ~IsRed(tree, sibling),
         IsRed(tree, tree.kid[Far][sibling]), NEW u, Case4Set(tree, u, sibling)
  PROVE  /\ FarRed(tree, B, Near, parent, sibling, tree.kid[Far][sibling])
         /\ Case4Turned(tree, u, Near, parent, sibling)
<1>. DEFINE c == tree.kid[Far][sibling]
<1>1. /\ parent \in Node /\ Nil \notin Node /\ Near \in Side /\ Far \in Side /\ Far # Near
      /\ Other(Near) = Far /\ (\A d \in Side : d # Near <=> d = Far)
      /\ sibling \in Node /\ sibling = tree.kid[Far][parent] /\ sibling # parent
      /\ tree \in Tree /\ RedsApart(tree, Nil, Nil) /\ IsBlack(tree, tree.root)
      /\ Counts(tree, B, parent, Near) /\ c \in Ptr
  BY DEF AtSibling, Side
<1>2. c \in Node /\ tree.color[c] = RED /\ tree.color[sibling] = BLACK
  BY <1>1, TreeTypes DEF IsRed, Ptr
<1>3. FarRed(tree, B, Near, parent, sibling, c)
  BY <1>1, <1>2 DEF FarRed
<1>4. tree.parent[c] = sibling
  <2>1. c # Nil
    BY <1>1, <1>2
  <2>2. QED
    BY <1>1, <2>1, OneParent
<1>5. Turned(tree, u, Near, parent, sibling)
  <2>1. ASSUME NEW d \in Side, NEW n \in Node
        PROVE  u.kid[d][n] = IF n = parent /\ d # Near THEN tree.kid[Near][sibling]
                             ELSE IF n = sibling /\ d = Near THEN parent ELSE tree.kid[d][n]
    BY <1>1 DEF Case4Set
  <2>2. ASSUME NEW n \in Node
        PROVE  u.parent[n] = IF n = tree.kid[Near][sibling] THEN parent ELSE tree.parent[n]
    BY <1>4 DEF Case4Set
  <2>3. u \in Tree /\ u.root = tree.root
    BY DEF Case4Set
  <2>4. QED
    BY <2>1, <2>2, <2>3 DEF Turned
<1>6. \A n \in Node : u.color[n] = IF n = tree.kid[Other(Near)][sibling] THEN BLACK ELSE tree.color[n]
  BY <1>1 DEF Case4Set
<1>7. QED
  BY <1>3, <1>5, <1>6 DEF Case4Turned

\* What the code of Case 3 does.
Case3Set(w, n) ==
    /\ w \in Tree /\ w.root = tree.root
    /\ \A d \in Side, m \in Node :
          w.kid[d][m] = IF m = sibling /\ d = Near THEN tree.kid[Far][n]
                        ELSE IF m = n /\ d = Far THEN sibling
                        ELSE IF m = parent /\ d = Far THEN n ELSE tree.kid[d][m]
    /\ \A m \in Node : w.parent[m] = IF m = tree.kid[Far][n] THEN sibling ELSE tree.parent[m]
    /\ \A m \in Node : w.color[m] = IF m = tree.kid[Far][n] THEN BLACK ELSE tree.color[m]

\* EraseCase3 does this.
LEMMA EraseCase3Sets ==
  ASSUME tree \in Tree, parent \in Node, sibling \in Node, NEW n \in Node, n = tree.kid[Near][sibling],
         n # sibling, n # parent, sibling # parent, Near \in Side
  PROVE  Case3Set(EraseCase3, n)
<1>. DEFINE g  == parent
            p  == sibling
            s  == Near
            o  == Far
            b  == tree.kid[Far][n]
            t0 == rb_set_kid(tree, s, p, b)
            t1 == rb_set_kid(t0, o, n, p)
            t3 == rb_set_kid(t1, o, g, n)
            w  == rb_set_parent_color_if(t3, b, p, BLACK)
<1>1. w = EraseCase3
  BY DEF EraseCase3
<1>2. /\ b \in Ptr /\ p \in Ptr /\ n \in Ptr /\ s \in Side /\ o \in Side /\ s # o
      /\ BLACK \in {RED, BLACK} /\ g \in Node /\ p \in Node /\ g # p /\ n # p /\ n # g
  BY TreeTypes, Sides DEF Ptr, Far
<1>3. KidSet(tree, t0, s, p, b)
  BY <1>2, SetKid
<1>. HIDE DEF t0, b, g, p, s, o
<1>4. t0 \in Tree
  BY <1>3 DEF KidSet
<1>5. KidSet(t0, t1, o, n, p)
  BY <1>2, <1>4, SetKid
<1>. HIDE DEF t1
<1>6. t1 \in Tree
  BY <1>5 DEF KidSet
<1>7. KidSet(t1, t3, o, g, n)
  BY <1>2, <1>6, SetKid
<1>. HIDE DEF t3
<1>8. t3 \in Tree
  BY <1>7 DEF KidSet
<1>9. ParentColorSet(t3, w, b, p, BLACK)
  BY <1>2, <1>8, SetParentColorIf
<1>. HIDE DEF w
<1>10. Case3Set(w, n)
  <2>1. w \in Tree /\ w.root = tree.root
    BY <1>3, <1>5, <1>7, <1>9 DEF KidSet, ParentColorSet
  <2>2. ASSUME NEW d \in Side, NEW m \in Node
        PROVE  w.kid[d][m] = IF m = p /\ d = s THEN b ELSE IF m = n /\ d = o THEN p
                             ELSE IF m = g /\ d = o THEN n ELSE tree.kid[d][m]
    BY <1>2, <1>3, <1>5, <1>7, <1>9 DEF KidSet, ParentColorSet
  <2>3. ASSUME NEW m \in Node
        PROVE  /\ w.parent[m] = IF m = b THEN p ELSE tree.parent[m]
               /\ w.color[m] = IF m = b THEN BLACK ELSE tree.color[m]
    BY <1>3, <1>5, <1>7, <1>9 DEF KidSet, ParentColorSet
  <2>4. QED
    BY <2>1, <2>2, <2>3 DEF Case3Set, b, g, p, s, o
<1>11. QED
  BY <1>1, <1>10

\* The inner nephew n is red and the outer one black: the rotation at the sibling leaves
\* what Case 4 starts from, with n as the sibling.
LEMMA InnerNephewRed ==
  ASSUME NEW D, NEW B, Shape(tree, D), AtSibling(D, B), ~IsRed(tree, sibling),
         NEW n, n = tree.kid[Near][sibling], IsRed(tree, n), IsBlack(tree, tree.kid[Far][sibling]),
         NEW w, Case3Set(w, n), NEW u, Case4Set(w, u, n)
  PROVE  \E t, D1, B1 : /\ Shape(t, D1) /\ D1[t.root] = D[tree.root]
                        /\ FarRed(t, B1, Near, parent, n, sibling) /\ Case4Turned(t, u, Near, parent, n)
<1>. DEFINE g == parent
            p == sibling
            s == Near
            o == Far
            b == tree.kid[Far][n]
            c == tree.kid[Near][n]
            e == tree.kid[Far][sibling]
<1>1. /\ g \in Node /\ g \in D[tree.root] /\ Nil \notin Node /\ s \in Side /\ o \in Side /\ o # s
      /\ Other(s) = o /\ Other(o) = s /\ (\A d \in Side : d = s \/ d = o)
      /\ p \in Node /\ p \in D[tree.root] /\ p = tree.kid[o][g] /\ p # g /\ p # tree.root /\ tree.parent[p] = g
      /\ tree \in Tree /\ RedsApart(tree, Nil, Nil) /\ IsBlack(tree, tree.root)
      /\ Counts(tree, B, g, s) /\ n \in Ptr /\ e \in Ptr
      /\ B[n] \in Nat /\ B[e] \in Nat /\ B[p] = Weight(tree, p) + B[n] /\ B[p] = Weight(tree, p) + B[e]
      /\ \A m \in Node, d \in Side : tree.kid[d][m] = p <=> m = g /\ d = o
  BY DEF AtSibling, Side
<1>2. n \in Node /\ n # Nil /\ tree.color[n] = RED /\ tree.color[p] = BLACK
  BY <1>1, TreeTypes DEF IsRed, Ptr
<1>3. n # p /\ n # g /\ n \in D[tree.root] /\ n # tree.root /\ tree.parent[n] = p
      /\ \A m \in Node, d \in Side : tree.kid[d][m] = n => m = p /\ d = s
  <2>1. tree.kid[s][p] # Nil /\ p \in Node /\ s \in Side /\ n = tree.kid[s][p]
    BY <1>1, <1>2
  <2>2. n # p /\ n \in D[p] /\ g \notin D[p]
    <3>1. o \in Side /\ g \in Node /\ p = tree.kid[o][g]
      BY <1>1
    <3>. HIDE DEF p, s, g, o
    <3>2. n # p /\ n \in D[p]
      BY <2>1, KidSelf
    <3>3. g \notin D[p]
      BY <3>1, BelowNode
    <3>4. QED
      BY <3>2, <3>3
  <2>3. /\ n \in D[tree.root] /\ n # tree.root /\ tree.parent[n] = p
        /\ \A m \in Node, d \in Side : tree.kid[d][m] = n => m = p /\ d = s
    <3>. HIDE DEF p, s
    <3>1. QED
      BY <2>1, OneParent
  <2>4. QED
    BY <2>2, <2>3
<1>4. b \in Ptr /\ c \in Ptr /\ IsBlack(tree, b) /\ IsBlack(tree, c)
  <2>1. b \in Ptr /\ c \in Ptr
    BY <1>1, <1>2, TreeTypes
  <2>2. \A d \in Side : IsBlack(tree, tree.kid[d][n])
    BY <1>1, <1>2 DEF RedsApart, IsBlack, IsRed
  <2>3. QED
    BY <1>1, <2>1, <2>2
<1>5. b # p /\ b # n /\ b # g /\ (b # Nil => tree.parent[b] = n)
  <2>0. o \in Side /\ b = tree.kid[o][n] /\ s \in Side /\ n = tree.kid[s][p] /\ p \in Node
        /\ g \in Node /\ p = tree.kid[o][g]
    BY <1>1
  <2>. HIDE DEF g, p, s, o, b, c, e
  <2>1. ASSUME b # Nil
        PROVE  b # n /\ b \in D[n] /\ tree.parent[b] = n
    <3>1. n \in Node /\ o \in Side /\ tree.kid[o][n] # Nil
      BY <1>2, <2>0, <2>1
    <3>2. tree.kid[o][n] # n /\ tree.kid[o][n] \in D[n] /\ tree.parent[tree.kid[o][n]] = n
      BY <3>1, KidSelf, OneParent
    <3>3. QED
      BY <2>0, <3>2
  <2>2. p \notin D[n] /\ g \notin D[p] /\ D[n] \subseteq D[p]
    <3>0. s \in Side /\ o \in Side /\ p \in Node /\ g \in Node
      BY <2>0
    <3>1. p \notin D[tree.kid[s][p]] /\ D[tree.kid[s][p]] \subseteq D[p]
      <4>1. \A d \in Side : p \notin D[tree.kid[d][p]] /\ D[tree.kid[d][p]] \subseteq D[p]
        BY <3>0, BelowNode
      <4>2. QED
        BY <3>0, <4>1
    <3>2. g \notin D[tree.kid[o][g]]
      BY <3>0, BelowNode
    <3>3. QED
      BY <2>0, <3>1, <3>2
  <2>3. QED
    BY <1>1, <1>2, <2>1, <2>2
<1>. HIDE DEF g, p, s, o, b, c, e
<1>6. PICK k : k = [tree.color EXCEPT ![n] = BLACK, ![p] = RED]
  OBVIOUS
<1>7. /\ k \in [Node -> {RED, BLACK}]
      /\ \A m \in Node : k[m] = IF m = p THEN RED ELSE IF m = n THEN BLACK ELSE tree.color[m]
  BY <1>1, <1>2, <1>6 DEF Tree
<1>8. PICK t : IsRotated(tree, t, o, p, n) /\ t.color = k
  <2>1. Rotatable(tree, o, p, n, k)
    BY <1>1, <1>2, <1>7, RotatedExists
  <2>2. QED
    BY <2>1 DEF Rotatable
<1>9. n = tree.kid[Other(o)][p]
  BY <1>1 DEF p, s
<1>10. PICK D1 : D1 = BelowRotated(tree, D, o, p, n)
  OBVIOUS
<1>11. Shape(t, D1) /\ D1[t.root] = D[tree.root]
  <2>1. \A m \in Node \ D[tree.root] : t.color[m] = tree.color[m]
    BY <1>1, <1>3, <1>7, <1>8
  <2>2. QED
    <3>1. o \in Side /\ p \in Node /\ n \in Node /\ IsRotated(tree, t, o, p, n)
      BY <1>1, <1>2, <1>8
    <3>2. Shape(t, BelowRotated(tree, D, o, p, n)) /\ BelowRotated(tree, D, o, p, n)[t.root] = D[tree.root]
      BY <1>9, <2>1, <3>1, RotatedShape
    <3>3. QED
      BY <1>10, <3>2
<1>12. /\ t \in Tree /\ t.root = tree.root
       /\ \A d \in Side, m \in Node :
             t.kid[d][m] = IF m = p THEN IF d = o THEN e ELSE b
                           ELSE IF m = n THEN IF d = o THEN p ELSE c
                           ELSE IF m = g /\ d = o THEN n ELSE tree.kid[d][m]
       /\ \A m \in Node : t.parent[m] = IF m = n THEN g ELSE IF m = p THEN n
                                         ELSE IF m = b THEN p ELSE tree.parent[m]
  <2>1. t \in Tree /\ t.root = tree.root
    BY <1>1, <1>8 DEF IsRotated
  <2>2. ASSUME NEW d \in Side, NEW m \in Node
        PROVE  t.kid[d][m] = IF m = p THEN IF d = o THEN e ELSE b
                             ELSE IF m = n THEN IF d = o THEN p ELSE c
                             ELSE IF m = g /\ d = o THEN n ELSE tree.kid[d][m]
    <3>1. t.kid[d][m] = IF m = p THEN IF d = o THEN tree.kid[o][p] ELSE tree.kid[o][n]
                        ELSE IF m = n THEN IF d = o THEN p ELSE tree.kid[d][n]
                        ELSE IF tree.kid[d][m] = p THEN n ELSE tree.kid[d][m]
      BY <1>8 DEF IsRotated
    <3>2. tree.kid[o][p] = e /\ tree.kid[o][n] = b /\ tree.kid[s][n] = c /\ (d = s \/ d = o)
      BY <1>1 DEF e, b, c, o, p, s
    <3>3. tree.kid[d][m] = p <=> m = g /\ d = o
      BY <1>1
    <3>4. QED
      BY <3>1, <3>2, <3>3
  <2>3. \A m \in Node : t.parent[m] = IF m = n THEN g ELSE IF m = p THEN n
                                      ELSE IF m = b THEN p ELSE tree.parent[m]
    BY <1>1, <1>8 DEF IsRotated, b, o
  <2>4. QED
    BY <2>1, <2>2, <2>3
<1>13. PICK B1 : Counts(t, B1, g, s)
  <2>1. /\ \A m \in Node, d \in Side : B[m] = Weight(tree, m) + B[tree.kid[d][m]] + Lack(g, s, m, d)
        /\ B[b] \in Nat /\ B[c] \in Nat
    BY <1>1, <1>4 DEF Counts
  <2>2. /\ Lack(g, s, p, s) = 0 /\ Lack(g, s, p, o) = 0 /\ Lack(g, s, n, s) = 0 /\ Lack(g, s, n, o) = 0
    BY <1>1, <1>3 DEF Lack
  <2>3. Weight(tree, p) = 1 /\ Weight(tree, n) = 0 /\ Weight(t, p) = 0 /\ Weight(t, n) = 1
    BY <1>1, <1>2, <1>3, <1>7, <1>8 DEF Weight, RED, BLACK
  <2>4. B[n] = B[b] /\ B[n] = B[c] /\ B[n] = B[e] /\ B[p] = 1 + B[n]
    <3>1. /\ B[n] = Weight(tree, n) + B[tree.kid[o][n]] + Lack(g, s, n, o)
          /\ B[n] = Weight(tree, n) + B[tree.kid[s][n]] + Lack(g, s, n, s)
      BY <1>1, <1>2, <2>1
    <3>2. B[tree.kid[o][n]] = B[b] /\ B[tree.kid[s][n]] = B[c]
      BY DEF b, c, o, s
    <3>3. QED
      BY <1>1, <2>1, <2>2, <2>3, <3>1, <3>2
  <2>5. PICK v : v = B[n]
    OBVIOUS
  <2>6. /\ v \in Nat
        /\ v = Weight(t, p) + B[tree.kid[o][p]] + Lack(g, s, p, o)
        /\ v = Weight(t, p) + B[tree.kid[o][n]] + Lack(g, s, p, Other(o))
    <3>1. B[tree.kid[o][p]] = B[e] /\ B[tree.kid[o][n]] = B[b] /\ Lack(g, s, p, Other(o)) = 0
      BY <1>1, <2>2 DEF b, e, o, p
    <3>2. v \in Nat /\ v = B[e] /\ v = B[b]
      BY <1>1, <2>4, <2>5
    <3>3. QED
      BY <2>2, <2>3, <3>1, <3>2
  <2>7. /\ B[p] = Weight(t, n) + v + Lack(g, s, n, o)
        /\ B[p] = Weight(t, n) + B[c] + 0 + Lack(g, s, n, Other(o))
    BY <1>1, <2>2, <2>3, <2>4, <2>5
  <2>8. c # Nil => Weight(t, c) = Weight(tree, c) + 0
    <3>1. ASSUME c # Nil
          PROVE  c \in Node /\ c # n /\ c # p
      <4>1. c \in Node
        BY <1>4, <3>1 DEF Ptr
      <4>2. c # n /\ c \in D[n]
        BY <1>1, <1>2, <3>1, KidSelf DEF c, s
      <4>3. p \notin D[n]
        <5>1. p \in Node /\ s \in Side /\ n = tree.kid[s][p]
          BY <1>1 DEF p, s
        <5>2. QED
          BY <5>1, BelowNode
      <4>4. QED
        BY <4>1, <4>2, <4>3
    <3>2. ASSUME c # Nil
          PROVE  Weight(t, c) = Weight(tree, c) /\ Weight(tree, c) \in {0, 1}
      BY <1>7, <1>8, <3>1, <3>2 DEF Weight
    <3>3. QED
      BY <3>2
  <2>9. /\ c = tree.kid[Other(o)][n] /\ 0 \in {0, 1}
        /\ \A m \in Node \ {p, n, c} : t.color[m] = tree.color[m]
    BY <1>1, <1>7, <1>8 DEF c, s
  <2>10. CountsFit(tree, t, B, o, p, n, c, v, 0, g, s, g, s)
    BY <2>6, <2>7, <2>8, <2>9 DEF CountsFit
  <2>11. Counts(t, CountsRotated(B, p, n, c, v, 0), g, s)
    BY <1>1, <1>2, <1>8, <1>9, <2>10, RotatedCounts
  <2>12. QED
    BY <2>11
<1>14. RedsApart(t, Nil, Nil)
  <2>1. ASSUME NEW m \in Node, NEW d \in Side, IsRed(t, m), IsRed(t, t.kid[d][m])
        PROVE  FALSE
    <3>1. t.kid[d][m] \in Node /\ t.kid[d][m] # n /\ m # n
      <4>1. t.kid[d][m] \in Ptr /\ t.kid[d][m] # Nil
        BY <1>12, <2>1, TreeTypes DEF IsRed
      <4>2. QED
        BY <1>2, <1>3, <1>7, <1>8, <2>1, <4>1 DEF IsRed, RED, BLACK, Ptr
    <3>2. CASE m = p
      <4>1. t.kid[d][m] = e \/ t.kid[d][m] = b
        BY <1>12, <3>2
      <4>2. e # p
        <5>1. e # Nil => e # p
          BY <1>1, KidSelf DEF e, o, p
        <5>2. QED
          BY <1>1, <5>1
      <4>3. IsBlack(tree, e)
        BY DEF e
      <4>4. t.color[t.kid[d][m]] = tree.color[t.kid[d][m]]
        BY <1>5, <1>7, <1>8, <3>1, <4>1, <4>2
      <4>5. QED
        BY <1>4, <2>1, <3>1, <4>1, <4>3, <4>4 DEF IsBlack, IsRed
    <3>3. CASE m # p
      <4>1. t.kid[d][m] = tree.kid[d][m]
        BY <1>12, <3>1, <3>3
      <4>2. t.kid[d][m] # p
        <5>1. ASSUME t.kid[d][m] = p
              PROVE  FALSE
          <6>1. m = g /\ d = o
            BY <1>1, <4>1, <5>1
          <6>2. t.kid[d][m] = n
            BY <1>1, <1>3, <1>12, <3>3, <6>1
          <6>3. QED
            BY <3>1, <6>2
        <5>2. QED
          BY <5>1
      <4>3. IsRed(tree, m) /\ IsRed(tree, tree.kid[d][m])
        BY <1>7, <1>8, <2>1, <3>1, <3>3, <4>1, <4>2 DEF IsRed
      <4>4. QED
        BY <1>1, <4>3 DEF RedsApart
    <3>4. QED
      BY <3>2, <3>3
  <2>2. QED
    BY <2>1 DEF RedsApart
<1>15. IsBlack(t, t.root)
  BY <1>1, <1>3, <1>7, <1>8, <1>12, TreeTypes, SMTT(20) DEF IsBlack, IsRed, RED, BLACK, Ptr
<1>16. FarRed(t, B1, s, g, n, p)
  <2>1. n = t.kid[o][g] /\ p = t.kid[o][n]
    BY <1>1, <1>2, <1>3, <1>12
  <2>2. t.color[n] = BLACK /\ t.color[p] = RED
    BY <1>1, <1>2, <1>3, <1>7, <1>8
  <2>3. QED
    BY <1>1, <1>2, <1>13, <1>14, <1>15, <2>1, <2>2 DEF FarRed
<1>17. \A d \in Side, m \in Node : w.kid[d][m] = t.kid[d][m]
  <2>1. ASSUME NEW d \in Side, NEW m \in Node
        PROVE  w.kid[d][m] = t.kid[d][m]
    <3>1. w.kid[d][m] = IF m = p /\ d = s THEN b ELSE IF m = n /\ d = o THEN p
                        ELSE IF m = g /\ d = o THEN n ELSE tree.kid[d][m]
      BY DEF Case3Set, b, p, s, o, g
    <3>2. tree.kid[o][p] = e /\ tree.kid[s][n] = c /\ (d = s \/ d = o) /\ o # s /\ n # p /\ p # g /\ n # g
      BY <1>1, <1>3 DEF e, c, o, p, s
    <3>3. QED
      BY <1>12, <3>1, <3>2
  <2>2. QED
    BY <2>1
<1>18. t.kid[s][n] = w.kid[s][n] /\ t.kid[o][n] = p /\ w.kid[o][n] = p
  BY <1>1, <1>2, <1>3, <1>12, <1>17, SMTT(20)
<1>19. Turned(t, u, s, g, n)
  <2>1. u \in Tree /\ u.root = t.root
    BY <1>12 DEF Case4Set, Case3Set
  <2>2. ASSUME NEW d \in Side, NEW m \in Node
        PROVE  u.kid[d][m] = IF m = g /\ d # s THEN t.kid[s][n] ELSE IF m = n /\ d = s THEN g
                             ELSE t.kid[d][m]
    <3>1. u.kid[d][m] = IF m = g /\ d = o THEN w.kid[s][n] ELSE IF m = n /\ d = s THEN g ELSE w.kid[d][m]
      BY DEF Case4Set, g, o, s
    <3>2. d # s <=> d = o
      BY <1>1
    <3>3. QED
      BY <1>17, <1>18, <3>1, <3>2
  <2>3. ASSUME NEW m \in Node \ {n}
        PROVE  u.parent[m] = IF m = t.kid[s][n] THEN g ELSE t.parent[m]
    <3>1. u.parent[m] = IF m = w.kid[s][n] THEN g ELSE IF m = p THEN n ELSE w.parent[m]
      BY <1>18 DEF Case4Set, g, o, s
    <3>2. w.parent[m] = IF m = b THEN p ELSE tree.parent[m]
      BY DEF Case3Set, b, p
    <3>3. QED
      BY <1>12, <1>18, <3>1, <3>2
  <2>4. QED
    BY <2>1, <2>2, <2>3 DEF Turned
<1>20. ASSUME NEW m \in Node \ {n}
       PROVE  u.color[m] = IF m = t.kid[Other(s)][n] THEN BLACK ELSE t.color[m]
  <2>1. u.color[m] = IF m = p THEN BLACK ELSE w.color[m]
    BY <1>18 DEF Case4Set, o
  <2>2. w.color[m] = IF m = b THEN BLACK ELSE tree.color[m]
    BY DEF Case3Set, b
  <2>3. m = b => tree.color[m] = BLACK
    BY <1>1, <1>4, TreeTypes DEF IsBlack, IsRed
  <2>4. t.kid[Other(s)][n] = p
    BY <1>1, <1>18
  <2>5. QED
    BY <1>7, <1>8, <2>1, <2>2, <2>3, <2>4
<1>21. Case4Turned(t, u, s, g, n)
  BY <1>19, <1>20 DEF Case4Turned
<1>22. QED
  BY <1>11, <1>16, <1>21 DEF g, p, s

\* Cases 3 and 4 end the loop.
LEMMA EraseRotateKeeps ==
  ASSUME NEW D, NEW B, Inv(D, B), EraseRotate
  PROVE  \E D2, B2 : Inv(D2, B2)' /\ D2[tree'.root] = D[tree.root]
<1>. DEFINE n == tree.kid[Near][sibling]
            c == tree.kid[Far][sibling]
<1>1. /\ Shape(tree, D) /\ Erasing(D, B) /\ size = Cardinality(D[tree.root]) /\ answer \in Ptr
      /\ ~IsRed(tree, sibling) /\ ~BlackNephews
      /\ tree' = IF IsBlack(tree, c) THEN EraseCase4(EraseCase3, n) ELSE EraseCase4(tree, sibling)
      /\ Return /\ size' = size /\ answer' = answer
  BY DEF Inv, EraseRotate, Resting, Descending, Inserting, Erasing
<1>2. AtSibling(D, B)
  BY <1>1, SiblingIs
<1>3. /\ parent \in Node /\ Near \in Side /\ Far \in Side /\ Far # Near /\ tree \in Tree /\ Nil \notin Node
      /\ sibling \in Node /\ sibling # parent /\ c \in Ptr /\ n \in Ptr /\ sibling = tree.kid[Far][parent]
  BY <1>2 DEF AtSibling
<1>4. Settled(tree', D[tree.root])
  <2>1. CASE IsBlack(tree, c)
    <3>1. IsRed(tree, n)
      BY <1>1, <1>3, <2>1 DEF BlackNephews, IsBlack, Side
    <3>2. n \in Node /\ n # sibling /\ n # parent
      <4>1. n \in Node /\ n # Nil
        BY <1>3, <3>1 DEF IsRed, Ptr
      <4>2. n # sibling /\ n \in D[sibling]
        BY <1>1, <1>3, <4>1, KidSelf
      <4>3. parent \notin D[sibling]
        BY <1>1, <1>3, BelowNode
      <4>4. QED
        BY <4>1, <4>2, <4>3
    <3>3. PICK w : w = EraseCase3
      OBVIOUS
    <3>4. Case3Set(w, n)
      BY <1>3, <3>2, <3>3, EraseCase3Sets
    <3>5. w \in Tree /\ w.kid[Far][n] = sibling
      BY <1>3, <3>2, <3>4 DEF Case3Set
    <3>6. PICK u : Case4Set(w, u, n) /\ ParentsRotated(u, EraseCase4(w, n), parent, n, BLACK)
      BY <1>3, <3>2, <3>5, Case4Turns
    <3>7. PICK t, D1, B1 : /\ Shape(t, D1) /\ D1[t.root] = D[tree.root]
                           /\ FarRed(t, B1, Near, parent, n, sibling) /\ Case4Turned(t, u, Near, parent, n)
      BY <1>1, <1>2, <2>1, <3>1, <3>4, <3>6, InnerNephewRed
    <3>8. Settled(EraseCase4(w, n), D1[t.root])
      BY <3>6, <3>7, Case4Settles
    <3>9. QED
      BY <1>1, <2>1, <3>3, <3>7, <3>8
  <2>2. CASE ~IsBlack(tree, c)
    <3>1. IsRed(tree, c) /\ c \in Node
      BY <1>3, <2>2 DEF IsBlack, IsRed, Ptr
    <3>2. PICK u : Case4Set(tree, u, sibling) /\ ParentsRotated(u, EraseCase4(tree, sibling), parent, sibling, BLACK)
      BY <1>3, <3>1, Case4Turns
    <3>3. FarRed(tree, B, Near, parent, sibling, c) /\ Case4Turned(tree, u, Near, parent, sibling)
      BY <1>1, <1>2, <3>1, <3>2, OuterNephewRed
    <3>4. Settled(EraseCase4(tree, sibling), D[tree.root])
      BY <1>1, <3>2, <3>3, Case4Settles
    <3>5. QED
      BY <1>1, <2>2, <3>4
  <2>3. QED
    BY <2>1, <2>2
<1>5. PICK D2, B2 : /\ Shape(tree', D2) /\ D2[tree'.root] = D[tree.root]
                    /\ Counts(tree', B2, Nil, "rb_left") /\ RedsApart(tree', Nil, Nil)
                    /\ IsBlack(tree', tree'.root)
  BY <1>4 DEF Settled
<1>6. Inv(D2, B2)'
  BY <1>1, <1>5 DEF Inv, Resting, Balanced, Return
<1>7. QED
  BY <1>5, <1>6

-----------------------------------------------------------------------------
\* What a step does to the set S of the nodes in the tree, and to the answer.
Conflicts(S, S2) == /\ S2 = S /\ node \in Node \ S
                    /\ answer' \in S /\ Key[answer'] = Key[node]
Links(S, S2)     == /\ S2 = S \cup {node} /\ node \in Node \ S /\ answer' = Nil
                    /\ \A m \in S : Key[m] # Key[node]
Erases(S, S2)    == \E n \in S : S2 = S \ {n} /\ answer' = answer
Moves(S, S2)     == \/ S2 = S /\ answer' = answer
                    \/ Conflicts(S, S2) \/ Links(S, S2) \/ Erases(S, S2)
Kept(D) == \E D2, B2 : Inv(D2, B2)' /\ Moves(D[tree.root], D2[tree'.root])

\* A conflict is one with the node found.
LEMMA ConflictMoves ==
  ASSUME NEW D, NEW B, Inv(D, B), Conflict
  PROVE  Conflicts(D[tree.root], D[tree.root])
<1>1. /\ Shape(tree, D) /\ Descending(D, B) /\ answer' = There /\ There # Nil
      /\ Key[node] = Key[There]
  BY DEF Inv, Conflict, Resting, Descending, Inserting, Erasing
<1>2. There \in D[tree.root]
  <2>1. CASE link = "rb_root"
    BY <1>1, <2>1, Parents DEF There
  <2>2. CASE link \in Side /\ parent \in D[tree.root]
    BY <1>1, <2>2, Parents DEF There, Side
  <2>3. QED
    BY <1>1, <2>1, <2>2 DEF Descending
<1>3. QED
  BY <1>1, <1>2 DEF Conflicts, Descending

\* Every step keeps the invariant, for the nodes it leaves in the tree.
LEMMA StepKeeps ==
  ASSUME NEW D, NEW B, Inv(D, B), [Next]_vars
  PROVE  Kept(D)
<1>1. ASSUME NEW n \in Node, ev_map_insert(n)
      PROVE  Kept(D)
  <2>1. Inv(D, B)'
    BY <1>1, InsertKeeps
  <2>2. tree' = tree /\ answer' = answer
    BY <1>1 DEF ev_map_insert
  <2>3. QED
    BY <2>1, <2>2 DEF Kept, Moves
<1>2. ASSUME NEW n \in Node, ev_map_erase(n)
      PROVE  Kept(D)
  <2>1. answer' = answer
    BY <1>2 DEF ev_map_erase
  <2>2. /\ n \in D[tree.root]
        /\ \E D2, B2 : Inv(D2, B2)' /\ D2[tree'.root] = D[tree.root] \ {n}
    BY <1>2, EraseKeeps
  <2>3. QED
    BY <2>1, <2>2 DEF Kept, Moves, Erases
<1>3. CASE Descend
  <2>1. Inv(D, B)'
    BY <1>3, DescendKeeps
  <2>2. tree' = tree /\ answer' = answer
    BY <1>3 DEF Descend
  <2>3. QED
    BY <2>1, <2>2 DEF Kept, Moves
<1>4. CASE Conflict
  <2>1. Inv(D, B)' /\ Conflicts(D[tree.root], D[tree.root])
    BY <1>4, ConflictKeeps, ConflictMoves
  <2>2. tree' = tree
    BY <1>4 DEF Conflict
  <2>3. QED
    BY <2>1, <2>2 DEF Kept, Moves
<1>5. CASE Link
  <2>1. /\ \E D2, B2 : Inv(D2, B2)' /\ D2[tree'.root] = D[tree.root] \cup {node}
        /\ node \in Node \ D[tree.root] /\ \A m \in D[tree.root] : Key[m] # Key[node]
    BY <1>5, LinkKeeps
  <2>2. answer' = Nil
    BY <1>5 DEF Link
  <2>3. QED
    BY <2>1, <2>2 DEF Kept, Moves, Links
<1>6. CASE InsertUnderBlack
  <2>1. Inv(D, B)'
    BY <1>6, InsertUnderBlackKeeps
  <2>2. tree' = tree /\ answer' = answer
    BY <1>6 DEF InsertUnderBlack
  <2>3. QED
    BY <2>1, <2>2 DEF Kept, Moves
<1>7. ASSUME InsertRoot \/ InsertFlip \/ InsertRotate \/ EraseRedSibling \/ EraseFlip \/ EraseRotate
      PROVE  Kept(D)
  <2>1. \E D2, B2 : Inv(D2, B2)' /\ D2[tree'.root] = D[tree.root]
    BY <1>7, InsertRootKeeps, InsertFlipKeeps, InsertRotateKeeps,
       EraseRedSiblingKeeps, EraseFlipKeeps, EraseRotateKeeps
  <2>2. answer' = answer
    BY <1>7 DEF InsertRoot, InsertFlip, InsertRotate, EraseRedSibling, EraseFlip, EraseRotate
  <2>3. QED
    BY <2>1, <2>2 DEF Kept, Moves
<1>8. CASE UNCHANGED vars
  <2>1. /\ tree' = tree /\ size' = size /\ pc' = pc /\ node' = node /\ parent' = parent
        /\ link' = link /\ answer' = answer
    BY <1>8 DEF vars
  <2>2. Resting(B)' = Resting(B) /\ Inserting(D, B)' = Inserting(D, B)
    BY <2>1 DEF Resting, Inserting, Balanced
  <2>3. There' = There /\ Near' = Near
    BY <2>1 DEF There, Near
  <2>4. Descending(D, B)' = Descending(D, B) /\ Erasing(D, B)' = Erasing(D, B)
    BY <2>1, <2>3 DEF Descending, Erasing, Balanced
  <2>5. Inv(D, B)'
    BY <2>1, <2>2, <2>4 DEF Inv
  <2>6. QED
    BY <2>1, <2>5 DEF Kept, Moves
<1>9. QED
  BY <1>1, <1>2, <1>3, <1>4, <1>5, <1>6, <1>7, <1>8 DEF Next, Calls, Loops

-----------------------------------------------------------------------------
\* The inductive invariant: the phase a call is in, the nodes below each node
\* and the number of black nodes below each node fit together.
THEOREM Invariance == Spec => []IInv
<1>1. IInv /\ [Next]_vars => IInv'
  BY StepKeeps DEF IInv, Kept
<1>2. QED
  BY <1>1, InitKeeps, PTL DEF Spec

\* Every field has its type; size is at most the number of nodes.
LEMMA TypesFollow == IInv => TypeOK
<1>. SUFFICES ASSUME NEW D, NEW B, Inv(D, B)
              PROVE  TypeOK
  BY DEF IInv
<1>1. /\ Shape(tree, D) /\ size = Cardinality(D[tree.root]) /\ answer \in Ptr
      /\ Resting(B) \/ Descending(D, B) \/ Inserting(D, B) \/ Erasing(D, B)
  BY DEF Inv
<1>2. /\ tree \in Tree /\ D[tree.root] \in SUBSET Node /\ size \in 0..Cardinality(Node)
      /\ \A n \in D[tree.root] : tree.parent[n] \in Ptr
      /\ \A n \in Node, d \in Side : tree.kid[d][n] \in Ptr
      /\ Nil \in Ptr /\ Node \subseteq Ptr /\ Near \in Side
  BY <1>1, Parents, SizeFits, TreeTypes DEF Shape, Ptr, Near, Side
<1>3. /\ pc \in {"idle", "descend", "rb_insert", "erase_color"}
      /\ node \in Ptr /\ parent \in Ptr /\ link \in Side \cup {"rb_root"}
  <2>1. CASE Resting(B)
    BY <1>2, <2>1 DEF Resting
  <2>2. CASE Descending(D, B)
    BY <1>2, <2>2 DEF Descending
  <2>3. CASE Inserting(D, B)
    BY <1>2, <2>3 DEF Inserting
  <2>4. CASE Erasing(D, B)
    BY <1>2, <2>4 DEF Erasing
  <2>5. QED
    BY <1>1, <2>1, <2>2, <2>3, <2>4
<1>4. QED
  BY <1>1, <1>2, <1>3 DEF TypeOK

\* Types, for all nodes and keys: size never leaves its range.
THEOREM TypeCorrect == Spec => []TypeOK
BY Invariance, TypesFollow, PTL

-----------------------------------------------------------------------------
\* The counts of the paths that go through a node to its leaves, as BlackRule
\* forms them: one number if both sides have one and they differ as they should.
Lowered(n, d) == IF pc = "erase_color" /\ n = parent /\ d = Near THEN 1 ELSE 0
Paths(g, n)   == {c + (IF tree.color[n] = BLACK THEN 1 ELSE 0) :
                    c \in UNION {{b + Lowered(n, d) : b \in g[tree.kid[d][n]]} : d \in Side}}

\* Below a node of the invariant they are one number.
LEMMA OnePath ==
  ASSUME NEW D, NEW B, Inv(D, B), NEW n \in Node, NEW g,
         \A d \in Side : g[tree.kid[d][n]] = {B[tree.kid[d][n]]}
  PROVE  Paths(g, n) = {B[n]}
<1>1. PICK w : w = IF tree.color[n] = BLACK THEN 1 ELSE 0
  OBVIOUS
<1>2. /\ \A d \in Side : B[n] = w + B[tree.kid[d][n]] + Lowered(n, d)
      /\ \A d \in Side : B[tree.kid[d][n]] \in Nat /\ Lowered(n, d) \in Nat
      /\ w \in Nat
  <2>1. PICK x : Counts(tree, B, x, Near) /\ \A d \in Side : Lack(x, Near, n, d) = Lowered(n, d)
    <3>1. CASE pc = "erase_color"
      <4>1. Counts(tree, B, parent, Near)
        BY <3>1 DEF Inv, Resting, Descending, Inserting, Erasing
      <4>2. QED
        BY <3>1, <4>1 DEF Lack, Lowered
    <3>2. CASE pc # "erase_color"
      <4>1. Counts(tree, B, Nil, "rb_left")
        BY <3>2 DEF Inv, Resting, Descending, Inserting, Erasing, Balanced
      <4>2. Counts(tree, B, Nil, Near)
        BY <4>1, NoneShort
      <4>3. n # Nil
        BY NilAssumption
      <4>4. QED
        BY <3>2, <4>2, <4>3 DEF Lack, Lowered
    <3>3. QED
      BY <3>1, <3>2
  <2>2. B \in [Ptr -> Nat] /\ \A d \in Side : B[n] = w + B[tree.kid[d][n]] + Lowered(n, d)
    BY <1>1, <2>1 DEF Counts, Weight
  <2>3. \A d \in Side : tree.kid[d][n] \in Ptr
    BY TreeTypes DEF Inv, Shape
  <2>4. QED
    BY <1>1, <2>2, <2>3 DEF Lowered
<1>. DEFINE Sums(d) == {b + Lowered(n, d) : b \in g[tree.kid[d][n]]}
<1>3. \A d \in Side : Sums(d) = {B[tree.kid[d][n]] + Lowered(n, d)}
  OBVIOUS
<1>. HIDE DEF Sums
<1>4. {c + w : c \in UNION {Sums(d) : d \in Side}} = {B[n]}
  <2>1. \A d \in Side : \A c \in Sums(d) : c + w = B[n]
    BY <1>2, <1>3
  <2>2. "rb_left" \in Side
    BY DEF Side
  <2>3. \E d \in Side : \E c \in Sums(d) : TRUE
    BY <1>3, <2>2
  <2>4. QED
    BY <2>1, <2>3
<1>5. QED
  BY <1>1, <1>4 DEF Paths, Sums

\* So every path from the root has the same number.
LEMMA BlackRuleFollows ==
  ASSUME NEW D, NEW B, Inv(D, B)
  PROVE  BlackRule
<1>. DEFINE Rec(f) == f = [n \in Ptr |-> IF n = Nil THEN {0} ELSE Paths(f, n)]
            counts == CHOOSE f : Rec(f)
            e == [n \in Ptr |-> {B[n]}]
<1>1. /\ Shape(tree, D) /\ B[Nil] = 0 /\ Nil \in Ptr /\ Nil \notin Node /\ Node \subseteq Ptr
      /\ tree.root \in Ptr
      /\ \A n \in Node, d \in Side : tree.kid[d][n] \in Ptr
  BY TreeTypes, NilAssumption DEF Inv, Resting, Descending, Inserting, Erasing, Balanced, Counts, Shape, Ptr
<1>2. Rec(e)
  <2>1. e = [n \in Ptr |-> e[n]] /\ e[Nil] = {0} /\ \A n \in Ptr : e[n] = {B[n]}
    BY <1>1
  <2>. HIDE DEF e
  <2>2. ASSUME NEW n \in Node
        PROVE  Paths(e, n) = e[n]
    <3>1. \A d \in Side : e[tree.kid[d][n]] = {B[tree.kid[d][n]]}
      BY <1>1, <2>1
    <3>2. Paths(e, n) = {B[n]}
      BY <3>1, OnePath
    <3>3. QED
      BY <1>1, <2>1, <3>2
  <2>3. QED
    BY <2>1, <2>2 DEF Ptr
<1>3. Rec(counts)
  <2>. HIDE DEF Rec
  <2>1. QED
    BY <1>2
<1>4. BlackRule <=> Cardinality(counts[tree.root]) = 1
  BY DEF BlackRule, Paths, Lowered
<1>. HIDE DEF counts, e
<1>5. \A n \in Ptr : counts[n] = IF n = Nil THEN {0} ELSE Paths(counts, n)
  BY <1>3
<1>. DEFINE Q == {n \in Ptr : counts[n] = {B[n]}}
<1>6. Nil \in Q
  BY <1>1, <1>5
<1>7. ASSUME NEW n \in Node, \A d \in Side : tree.kid[d][n] \in Q
      PROVE  n \in Q
  <2>1. Paths(counts, n) = {B[n]}
    BY <1>7, OnePath
  <2>2. QED
    BY <1>1, <1>5, <2>1
<1>. HIDE DEF Q
<1>8. tree.root \in Q
  BY <1>1, <1>6, <1>7, UpFromLeaves
<1>9. QED
  BY <1>4, <1>8, FS_Singleton DEF Q

\* The invariant says more than that the tree is a red-black tree.
LEMMA RedBlackFollows == IInv => IsRedBlack
<1>. SUFFICES ASSUME NEW D, NEW B, Inv(D, B)
              PROVE  IsRedBlack
  BY DEF IInv
<1>1. /\ Shape(tree, D) /\ InTree = D[tree.root] /\ Below(tree) = D
      /\ D[tree.root] \in SUBSET Node
  BY InTreeIs, BelowIs, Parents DEF Inv
<1>2. ParentsAgree
  BY <1>1 DEF ParentsAgree, Shape
<1>3. KeysInOrder
  <2>1. \A n \in InTree, d \in Side : \A m \in D[tree.kid[d][n]] : Before(d, m, n)
    BY <1>1 DEF Shape
  <2>2. QED
    BY <1>1, <2>1 DEF KeysInOrder, Before, Side
<1>4. RedRule
  <2>1. CASE pc = "rb_insert"
    <3>1. RedsApart(tree, parent, node)
      BY <2>1 DEF Inv, Resting, Descending, Inserting, Erasing
    <3>2. QED
      BY <1>1, <2>1, <3>1 DEF RedRule, RedsApart
  <2>2. CASE pc # "rb_insert"
    <3>1. RedsApart(tree, Nil, Nil) /\ IsBlack(tree, tree.root)
      BY <2>2 DEF Inv, Resting, Descending, Inserting, Erasing, Balanced
    <3>2. \A n \in InTree, d \in Side : ~(IsRed(tree, n) /\ IsRed(tree, tree.kid[d][n]))
      BY <1>1, <3>1, NilAssumption DEF RedsApart
    <3>3. QED
      BY <3>1, <3>2 DEF RedRule
  <2>3. QED
    BY <2>1, <2>2
<1>5. QED
  BY <1>2, <1>3, <1>4, BlackRuleFollows DEF IsRedBlack

\* The tree is a red-black tree through every loop of every call.
THEOREM RedBlackCorrect == Spec => []IsRedBlack
BY Invariance, RedBlackFollows, PTL

-----------------------------------------------------------------------------
\* One of a set that has but one element.
LEMMA TheOne ==
  ASSUME NEW s, NEW n, s = {n}
  PROVE  Map!One(s) = n
BY DEF Map!One

\* What a step does to the nodes is what OrderedMap does, or nothing.
LEMMA StepMaps ==
  ASSUME IInv, [Next]_vars
  PROVE  [Map!Next]_Map!mapVars
<1>1. PICK D, B : Inv(D, B)
  BY DEF IInv
<1>2. PICK D2, B2 : Inv(D2, B2)' /\ Moves(D[tree.root], D2[tree'.root])
  BY <1>1, StepKeeps DEF Kept
<1>. DEFINE S  == D[tree.root]
            S2 == D2[tree'.root]
<1>3. InTree = S /\ S \in SUBSET Node /\ Shape(tree, D)
  BY <1>1, InTreeIs, Parents DEF Inv
<1>4. InTree' = S2
  <2>1. Shape(tree', D2)
    BY <1>2 DEF Inv
  <2>2. Below(tree') = D2
    BY <2>1, BelowIs
  <2>3. QED
    BY <2>2 DEF InTree
<1>5. CASE S2 = S /\ answer' = answer
  BY <1>3, <1>4, <1>5 DEF Map!mapVars
<1>6. CASE Conflicts(S, S2)
  <2>1. /\ S2 = S /\ node \in Node \ S /\ answer' \in S /\ Key[answer'] = Key[node] /\ answer' # Nil
    BY <1>3, <1>6, NilAssumption DEF Conflicts
  <2>2. tree.root \in Ptr
    BY <1>3, TreeTypes DEF Shape
  <2>3. {m \in S : Key[m] = Key[node]} = {answer'}
    BY <1>3, <2>1, <2>2, KeysDiffer
  <2>4. answer' = Map!Find(Key[node])
    BY <1>3, <2>3, TheOne DEF Map!Find, Map!WithKey
  <2>5. Map!Insert(node)
    BY <1>3, <1>4, <2>1, <2>4 DEF Map!Insert
  <2>6. QED
    BY <2>1, <2>5 DEF Map!Next
<1>7. CASE Links(S, S2)
  <2>1. /\ S2 = S \cup {node} /\ node \in Node \ S /\ answer' = Nil
        /\ {m \in S : Key[m] = Key[node]} = {}
    BY <1>7 DEF Links
  <2>2. answer' = Map!Find(Key[node])
    BY <1>3, <2>1 DEF Map!Find, Map!WithKey, Map!One
  <2>3. Map!Insert(node)
    BY <1>3, <1>4, <2>1, <2>2 DEF Map!Insert
  <2>4. QED
    BY <2>1, <2>3 DEF Map!Next
<1>8. CASE Erases(S, S2)
  <2>1. PICK n \in S : S2 = S \ {n} /\ answer' = answer
    BY <1>8 DEF Erases
  <2>2. Map!Erase(n)
    BY <1>3, <1>4, <2>1 DEF Map!Erase
  <2>3. QED
    BY <1>3, <2>1, <2>2 DEF Map!Next
<1>9. QED
  BY <1>2, <1>5, <1>6, <1>7, <1>8 DEF Moves

\* An empty tree is an empty map.
LEMMA InitMaps == Init => Map!Init
<1>. SUFFICES ASSUME Init
              PROVE  Map!Init
  OBVIOUS
<1>1. PICK D, B : Inv(D, B)
  BY InitKeeps DEF IInv
<1>2. InTree = D[tree.root] /\ Shape(tree, D) /\ tree.root = Nil
  BY <1>1, InTreeIs DEF Inv, Init
<1>3. QED
  BY <1>2 DEF Map!Init, Init, Shape

\* The tree with its rotations implements the map that map.h promises.
THEOREM Refinement == Spec => ImplementsOrderedMap
BY InitMaps, StepMaps, Invariance, PTL DEF Spec, ImplementsOrderedMap, Map!Spec

-----------------------------------------------------------------------------
\* u is the first node of T from the side s, or Nil.
EndOf(s, T, u) == IF T = {} THEN u = Nil ELSE Outermost(s, T, u)

\* The first from the left is the least,
LEMMA FirstIs ==
  ASSUME NEW T \in SUBSET Node, NEW u, EndOf("rb_left", T, u)
  PROVE  u = Map!First(T)
<1>. DEFINE Least == {n \in T : \A m \in T : Key[n] <= Key[m]}
<1>1. CASE T = {}
  BY <1>1 DEF EndOf, Map!First, Map!One
<1>2. CASE T # {}
  <2>1. u \in T /\ \A m \in T : m = u \/ Key[u] < Key[m]
    BY <1>2 DEF EndOf, Outermost, Before
  <2>2. Least = {u}
    BY <2>1, KeyTypes
  <2>3. QED
    BY <2>2, TheOne DEF Map!First
<1>3. QED
  BY <1>1, <1>2

\* the first from the right the greatest.
LEMMA LastIs ==
  ASSUME NEW T \in SUBSET Node, NEW u, EndOf("rb_right", T, u)
  PROVE  u = Map!Last(T)
<1>. DEFINE Most == {n \in T : \A m \in T : Key[n] >= Key[m]}
<1>1. CASE T = {}
  BY <1>1 DEF EndOf, Map!Last, Map!One
<1>2. CASE T # {}
  <2>1. u \in T /\ \A m \in T : m = u \/ Key[m] < Key[u]
    BY <1>2 DEF EndOf, Outermost, Before
  <2>2. Most = {u}
    BY <2>1, KeyTypes
  <2>3. QED
    BY <2>2, TheOne DEF Map!Last
<1>3. QED
  BY <1>1, <1>2

\* The nodes of the tree on the side d of n; those of them that are not below n,
\* and the first of these from n.
Beyond(D, d, n) == {x \in D[tree.root] : Before(d, x, n)}
Above(D, d, n)  == {x \in Beyond(D, d, n) : x \notin D[n]}
Rises(D, d, n, u) == EndOf(Other(d), Above(D, d, n), u)

\* There is one such node.
LEMMA OneEnd ==
  ASSUME NEW s \in Side, NEW T \in SUBSET Node, NEW u, NEW w, EndOf(s, T, u), EndOf(s, T, w)
  PROVE  u = w
BY OneOutermost DEF EndOf

\* Upwards from a child on the side d nothing is passed; on the other side the
\* parent is the first.
LEMMA RisesStep ==
  ASSUME NEW D, Shape(tree, D), NEW d \in Side, NEW m \in D[tree.root]
  PROVE  /\ m = tree.root => Rises(D, d, m, Nil)
         /\ m # tree.root /\ m = tree.kid[d][tree.parent[m]]
              => Above(D, d, m) = Above(D, d, tree.parent[m])
         /\ m # tree.root /\ m # tree.kid[d][tree.parent[m]] => Rises(D, d, m, tree.parent[m])
<1>. DEFINE S == D[tree.root]
            p == tree.parent[m]
            o == Other(d)
<1>0. /\ S \in SUBSET Node /\ m \in Node /\ tree.root \in Ptr
      /\ o \in Side /\ o # d /\ \A c \in Side : c = d \/ c = o
  BY Parents, Sides, TreeTypes DEF Shape
<1>1. ASSUME m = tree.root
      PROVE  Rises(D, d, m, Nil)
  BY <1>1 DEF Rises, EndOf, Above, Beyond
<1>2. ASSUME m # tree.root
      PROVE  /\ p \in S /\ p \in Node /\ \E c \in Side : tree.kid[c][p] = m
             /\ \A x \in S : x \notin D[p] => (Before(d, x, p) <=> Before(d, x, m))
  <2>1. p \in S /\ p \in Node /\ \E c \in Side : tree.kid[c][p] = m
    BY <1>0, <1>2, Parents
  <2>2. m \in D[p]
    BY <1>0, <2>1, KidSelf, NilAssumption
  <2>3. QED
    BY <1>0, <2>1, <2>2, Outside
<1>3. ASSUME m # tree.root, m = tree.kid[d][p]
      PROVE  Above(D, d, m) = Above(D, d, p)
  <2>1. /\ Before(d, m, p) /\ m \in D[p] /\ D[m] \subseteq D[p]
        /\ D[p] = {p} \cup D[m] \cup D[tree.kid[o][p]]
        /\ \A x \in D[tree.kid[o][p]] : Before(o, x, p)
    <3>1. p \in Node /\ m # Nil
      BY <1>0, <1>2, <1>3, NilAssumption
    <3>2. m \in D[p] /\ Before(d, m, p)
      BY <1>3, <3>1, KidSelf
    <3>3. D[m] \subseteq D[p]
      BY <1>3, <3>1, BelowNode
    <3>4. D[p] = {p} \cup D[m] \cup D[tree.kid[o][p]]
      BY <1>3, <3>1, BothSides
    <3>5. QED
      BY <1>0, <3>1, <3>2, <3>3, <3>4 DEF Shape
  <2>2. ASSUME NEW x \in S, x \in D[p], x \notin D[m]
        PROVE  ~Before(d, x, m)
    <3>1. x \in Node /\ (x = p \/ Before(o, x, p))
      BY <1>0, <2>1, <2>2
    <3>2. QED
      BY <1>0, <1>2, <1>3, <2>1, <3>1, KeyTypes, SMTT(20) DEF Before, Side
  <2>3. \A x \in S : x \in Above(D, d, m) <=> x \in Above(D, d, p)
    BY <1>2, <1>3, <2>1, <2>2 DEF Above, Beyond
  <2>4. QED
    BY <2>3 DEF Above, Beyond
<1>4. ASSUME m # tree.root, m # tree.kid[d][p]
      PROVE  Rises(D, d, m, p)
  <2>1. p \in Node /\ m # Nil /\ m = tree.kid[o][p]
    BY <1>0, <1>2, <1>4, NilAssumption
  <2>2. /\ Before(o, m, p) /\ p \notin D[m]
        /\ \A x \in D[p] : x = p \/ x \in D[m] \/ Before(d, x, p)
    <3>1. Before(o, m, p)
      BY <1>0, <2>1, KidSelf
    <3>2. p \notin D[m]
      BY <1>0, <2>1, BelowNode
    <3>3. \A x \in D[p] : x = p \/ \E c \in Side : x \in D[tree.kid[c][p]]
      BY <2>1, BelowNode
    <3>4. \A c \in Side : \A x \in D[tree.kid[c][p]] : Before(c, x, p)
      BY <2>1 DEF Shape
    <3>5. QED
      BY <1>0, <2>1, <3>1, <3>2, <3>3, <3>4
  <2>3. Before(d, p, m)
    BY <1>0, <2>1, <2>2, KeyTypes DEF Before, Side, Other
  <2>4. p \in Above(D, d, m)
    BY <1>2, <1>4, <2>2, <2>3 DEF Above, Beyond
  <2>5. ASSUME NEW x \in Above(D, d, m), x # p
        PROVE  Before(o, p, x)
    <3>1. x \in S /\ x \in Node /\ Before(d, x, m) /\ x \notin D[m]
      BY <1>0, <2>5 DEF Above, Beyond
    <3>2. Before(d, x, p)
      BY <1>2, <1>4, <2>2, <2>5, <3>1
    <3>3. QED
      BY <2>1, <3>1, <3>2, KeyTypes DEF Before, Side, Other
  <2>6. QED
    BY <2>4, <2>5 DEF Rises, EndOf, Outermost
<1>5. QED
  BY <1>1, <1>3, <1>4

\* Towards d: the node found is the first of those beyond n.
LEMMA NeighbourIs ==
  ASSUME NEW D, Shape(tree, D), NEW d \in Side, NEW n \in D[tree.root]
  PROVE  EndOf(Other(d), Beyond(D, d, n), Neighbour(d, n))
<1>. DEFINE S == D[tree.root]
            o == Other(d)
            Q == {m \in S : \E u : Rises(D, d, m, u)}
<1>0. /\ S \in SUBSET Node /\ n \in Node /\ o \in Side /\ Nil \notin Node
      /\ \A m \in S : Above(D, d, m) \in SUBSET Node
      /\ \A m \in S : \A u, w : Rises(D, d, m, u) /\ Rises(D, d, m, w) => u = w
  <2>1. S \in SUBSET Node /\ n \in Node /\ o \in Side /\ Nil \notin Node
    BY Parents, Sides, NilAssumption
  <2>2. \A m \in S : Above(D, d, m) \in SUBSET Node
    BY <2>1 DEF Above, Beyond
  <2>3. QED
    BY <2>1, <2>2, OneEnd DEF Rises
<1>1. ASSUME NEW m \in S, m # tree.root => tree.parent[m] \in Q
      PROVE  m \in Q
  <2>1. CASE m # tree.root /\ m = tree.kid[d][tree.parent[m]]
    <3>1. Above(D, d, m) = Above(D, d, tree.parent[m])
      BY <2>1, RisesStep
    <3>2. PICK u : Rises(D, d, tree.parent[m], u)
      BY <1>1, <2>1
    <3>3. Rises(D, d, m, u)
      BY <3>1, <3>2 DEF Rises
    <3>4. QED
      BY <3>3
  <2>2. QED
    BY <2>1, RisesStep
<1>. HIDE DEF Q
<1>2. \A m \in S : m \in Q
  BY <1>1, DownFromRoot
<1>3. \A m \in S : \E u : Rises(D, d, m, u)
  BY <1>2 DEF Q
<1>. DEFINE Up(f, m) == IF tree.parent[m] # Nil /\ m = tree.kid[d][tree.parent[m]]
                        THEN f[tree.parent[m]] ELSE tree.parent[m]
            Rec(f) == f = [m \in Node |-> Up(f, m)]
            e  == [m \in Node |-> IF m \in S THEN CHOOSE u : Rises(D, d, m, u) ELSE Nil]
            up == CHOOSE f : Rec(f)
<1>4. \A m \in S : Rises(D, d, m, e[m])
  <2>1. \A m \in S : e[m] = CHOOSE u : Rises(D, d, m, u)
    BY <1>0
  <2>2. \A m \in S : Rises(D, d, m, CHOOSE u : Rises(D, d, m, u))
    BY <1>3
  <2>3. QED
    BY <2>1, <2>2
<1>5. \A m \in Node \ S : e[m] = Nil
  BY <1>0
<1>6. /\ \A m \in S : m = tree.root <=> tree.parent[m] = Nil
      /\ \A m \in S : m # tree.root => tree.parent[m] \in S
      /\ \A m \in Node \ S : tree.parent[m] = Nil
  BY Parents DEF Shape, Blank
<1>7. Rec(e)
  <2>1. e = [m \in Node |-> e[m]]
    OBVIOUS
  <2>. HIDE DEF e
  <2>2. ASSUME NEW m \in S
        PROVE  e[m] = Up(e, m)
    <3>1. CASE m = tree.root
      BY <1>0, <1>4, <1>6, <3>1, RisesStep
    <3>2. CASE m # tree.root /\ m = tree.kid[d][tree.parent[m]]
      <4>1. Above(D, d, m) = Above(D, d, tree.parent[m]) /\ tree.parent[m] \in S
        BY <1>6, <3>2, RisesStep
      <4>2. Rises(D, d, m, e[tree.parent[m]])
        BY <1>4, <4>1 DEF Rises
      <4>3. e[m] = e[tree.parent[m]]
        BY <1>0, <1>4, <4>2
      <4>4. QED
        BY <1>6, <3>2, <4>3
    <3>3. CASE m # tree.root /\ m # tree.kid[d][tree.parent[m]]
      BY <1>0, <1>4, <1>6, <3>3, RisesStep
    <3>4. QED
      BY <3>1, <3>2, <3>3
  <2>3. \A m \in Node : e[m] = Up(e, m)
    BY <1>5, <1>6, <2>2
  <2>4. QED
    BY <2>1, <2>3
<1>8. Rec(up)
  <2>. HIDE DEF Rec
  <2>1. QED
    BY <1>7
<1>9. Neighbour(d, n) = IF tree.kid[d][n] # Nil THEN Utmost(o, tree.kid[d][n]) ELSE up[n]
  BY DEF Neighbour
<1>. HIDE DEF up, e
<1>10. \A m \in Node : up[m] = Up(up, m)
  BY <1>8
<1>. DEFINE P == {m \in S : Rises(D, d, m, up[m])}
<1>11. ASSUME NEW m \in S, m # tree.root => tree.parent[m] \in P
       PROVE  m \in P
  <2>1. CASE m = tree.root
    <3>1. up[m] = Nil
      BY <1>0, <1>6, <1>10, <2>1
    <3>2. QED
      BY <2>1, <3>1, RisesStep
  <2>2. CASE m # tree.root /\ m = tree.kid[d][tree.parent[m]]
    <3>1. up[m] = up[tree.parent[m]]
      BY <1>0, <1>6, <1>10, <2>2
    <3>2. Above(D, d, m) = Above(D, d, tree.parent[m])
      BY <2>2, RisesStep
    <3>3. QED
      BY <1>11, <2>2, <3>1, <3>2 DEF Rises
  <2>3. CASE m # tree.root /\ m # tree.kid[d][tree.parent[m]]
    <3>1. up[m] = tree.parent[m]
      BY <1>0, <1>6, <1>10, <2>3
    <3>2. QED
      BY <2>3, <3>1, RisesStep
  <2>4. QED
    BY <2>1, <2>2, <2>3
<1>. HIDE DEF P
<1>12. \A m \in S : m \in P
  BY <1>11, DownFromRoot
<1>13. Rises(D, d, n, up[n])
  BY <1>12 DEF P
<1>14. CASE tree.kid[d][n] = Nil
  <2>1. ASSUME NEW x \in Beyond(D, d, n)
        PROVE  x \notin D[n]
    <3>1. x \in Node /\ Before(d, x, n)
      BY <1>0, <2>1 DEF Beyond
    <3>2. x \notin D[tree.kid[d][n]] /\ D[Nil] = {}
      BY <1>14 DEF Shape
    <3>3. \A y \in D[tree.kid[o][n]] : Before(o, y, n)
      BY <1>0 DEF Shape
    <3>4. ~Before(o, x, n) /\ x # n
      BY <1>0, <3>1, BeforeOrder
    <3>5. D[n] = {n} \cup D[tree.kid[d][n]] \cup D[tree.kid[o][n]]
      BY <1>0, BothSides
    <3>6. QED
      BY <3>2, <3>3, <3>4, <3>5
  <2>2. Above(D, d, n) = Beyond(D, d, n)
    BY <2>1 DEF Above
  <2>3. QED
    BY <1>9, <1>13, <1>14, <2>2 DEF Rises
<1>15. CASE tree.kid[d][n] # Nil
  <2>. DEFINE k == tree.kid[d][n]
              u == Utmost(o, k)
  <2>1. k \in Node /\ D[k] \subseteq D[n] /\ D[n] \subseteq S
    <3>1. k \in Node
      BY <1>0, <1>15, KidSelf
    <3>2. D[k] \subseteq D[n]
      BY <1>0, BelowNode
    <3>3. tree.root \in Ptr
      BY TreeTypes DEF Shape
    <3>4. QED
      BY <3>1, <3>2, <3>3, BelowBelow
  <2>2. Outermost(o, D[k], u)
    BY <1>0, <2>1, UtmostIs
  <2>3. u \in Beyond(D, d, n) /\ u \in D[n] /\ u \in Node
    <3>1. u \in D[k] /\ Before(d, u, n)
      BY <1>0, <2>2 DEF Outermost, Shape
    <3>2. QED
      BY <1>0, <2>1, <3>1 DEF Beyond
  <2>4. ASSUME NEW x \in Beyond(D, d, n), x # u
        PROVE  Before(o, u, x)
    <3>0. x \in S /\ x \in Node /\ Before(d, x, n)
      BY <1>0, <2>4 DEF Beyond
    <3>1. CASE x \in D[k]
      BY <2>2, <2>4, <3>1 DEF Outermost
    <3>2. CASE x \notin D[n]
      <4>1. tree.root \in Ptr
        BY TreeTypes DEF Shape
      <4>2. Before(d, x, u)
        BY <2>3, <3>0, <3>2, <4>1, Outside
      <4>3. QED
        BY <2>3, <3>0, <4>2, BeforeOrder
    <3>3. CASE x \in D[n] /\ x \notin D[k]
      <4>1. D[n] = {n} \cup D[k] \cup D[tree.kid[o][n]] /\ \A y \in D[tree.kid[o][n]] : Before(o, y, n)
        BY <1>0, BothSides DEF Shape
      <4>2. ~Before(o, x, n) /\ x # n
        BY <1>0, <3>0, BeforeOrder
      <4>3. QED
        BY <3>3, <4>1, <4>2
    <3>4. QED
      BY <3>1, <3>2, <3>3
  <2>5. Outermost(o, Beyond(D, d, n), u)
    BY <2>3, <2>4 DEF Outermost
  <2>6. QED
    BY <1>9, <1>15, <2>3, <2>5 DEF EndOf
<1>16. QED
  BY <1>14, <1>15

\* What the search for k below n finds: the node r.at that has the key, or Nil, and
\* the first node greater than k that it leaves behind on the way, or b.
Passed(D, k, n, a) == {x \in D[n] : k < Key[x] /\ x \notin D[a]}

Found(D, k, n, b, r) ==
    /\ r \in [at : Ptr, best : Ptr]
    /\ r.at \in D[n] \cup {Nil}
    /\ \A m \in D[n] : Key[m] = k <=> m = r.at
    /\ IF Passed(D, k, n, r.at) = {} THEN r.best = b
       ELSE Outermost("rb_left", Passed(D, k, n, r.at), r.best)

\* There is one such record.
LEMMA OneFound ==
  ASSUME NEW D, Shape(tree, D), NEW k, NEW n \in Ptr, NEW b, NEW r, NEW q,
         Found(D, k, n, b, r), Found(D, k, n, b, q)
  PROVE  r = q
<1>1. D[n] \in SUBSET Node /\ Nil \notin Node
  BY NilAssumption DEF Shape
<1>2. r \in [at : Ptr, best : Ptr] /\ q \in [at : Ptr, best : Ptr]
  BY DEF Found
<1>3. r.at = q.at
  BY <1>1 DEF Found
<1>4. r.best = q.best
  <2>1. Passed(D, k, n, r.at) \in SUBSET Node /\ "rb_left" \in Side
    BY <1>1 DEF Passed, Side
  <2>2. QED
    BY <1>3, <2>1, OneOutermost DEF Found
<1>5. QED
  BY <1>2, <1>3, <1>4

\* One iteration of the search.
LEMMA FoundStep ==
  ASSUME NEW D, Shape(tree, D), NEW k \in Int, NEW n \in Node, NEW b \in Ptr
  PROVE  /\ Key[n] = k => Found(D, k, n, b, [at |-> n, best |-> b])
         /\ \A r : k < Key[n] /\ Found(D, k, tree.kid["rb_left"][n], n, r) => Found(D, k, n, b, r)
         /\ \A r : k > Key[n] /\ Found(D, k, tree.kid["rb_right"][n], b, r) => Found(D, k, n, b, r)
<1>. DEFINE l == tree.kid["rb_left"][n]
            g == tree.kid["rb_right"][n]
<1>0. /\ D[n] = {n} \cup D[l] \cup D[g] /\ D[n] \in SUBSET Node /\ n \notin D[l] /\ n \notin D[g]
      /\ \A x \in D[l] : Key[x] < Key[n]
      /\ \A x \in D[g] : Key[n] < Key[x]
      /\ l \in Ptr /\ g \in Ptr /\ Nil \notin Node /\ n \in Ptr /\ D[Nil] = {}
      /\ \A x \in D[n] : Key[x] \in Int
      /\ Key[n] \in Int
  <2>1. "rb_left" \in Side /\ "rb_right" \in Side
    BY DEF Side
  <2>2. D[n] = {n} \cup D[l] \cup D[g] /\ D[Nil] = {}
    BY DEF Shape
  <2>3. /\ D[n] \in SUBSET Node /\ n \notin D[l] /\ n \notin D[g] /\ l \in Ptr /\ g \in Ptr
    BY <2>1, BelowNode
  <2>4. \A d \in Side : \A x \in D[tree.kid[d][n]] : Before(d, x, n)
    BY DEF Shape
  <2>5. (\A x \in D[l] : Key[x] < Key[n]) /\ \A x \in D[g] : Key[n] < Key[x]
    BY <2>1, <2>4 DEF Before
  <2>6. QED
    BY <2>2, <2>3, <2>5, KeyTypes, NilAssumption DEF Ptr
<1>1. ASSUME Key[n] = k
      PROVE  Found(D, k, n, b, [at |-> n, best |-> b])
  <2>1. \A m \in D[n] : Key[m] = k <=> m = n
    BY <1>0, <1>1
  <2>2. Passed(D, k, n, n) = {}
    BY DEF Passed
  <2>3. QED
    BY <1>0, <2>1, <2>2 DEF Found
<1>2. ASSUME NEW r, k < Key[n], Found(D, k, l, n, r)
      PROVE  Found(D, k, n, b, r)
  <2>1. /\ r \in [at : Ptr, best : Ptr] /\ r.at \in D[l] \cup {Nil}
        /\ \A m \in D[l] : Key[m] = k <=> m = r.at
        /\ IF Passed(D, k, l, r.at) = {} THEN r.best = n
           ELSE Outermost("rb_left", Passed(D, k, l, r.at), r.best)
    BY <1>2 DEF Found
  <2>2. \A m \in D[n] : Key[m] = k <=> m = r.at
    BY <1>0, <1>2, <2>1
  <2>3. D[r.at] \subseteq D[l]
    BY <1>0, <2>1, BelowBelow
  <2>4. D[g] \cap D[l] = {}
    BY <1>0
  <2>5. Passed(D, k, n, r.at) = Passed(D, k, l, r.at) \cup {n} \cup D[g]
    <3>1. \A x \in D[g] : k < Key[x] /\ x \notin D[r.at]
      BY <1>0, <1>2, <2>3, <2>4
    <3>2. QED
      BY <1>0, <1>2, <2>3, <3>1 DEF Passed
  <2>6. Outermost("rb_left", Passed(D, k, n, r.at), r.best)
    <3>1. CASE Passed(D, k, l, r.at) = {}
      <4>1. r.best = n
        BY <2>1, <3>1
      <4>2. QED
        BY <1>0, <2>5, <3>1, <4>1 DEF Outermost, Before
    <3>2. CASE Passed(D, k, l, r.at) # {}
      <4>1. Outermost("rb_left", Passed(D, k, l, r.at), r.best)
        BY <2>1, <3>2
      <4>2. r.best \in D[l] /\ r.best \in Passed(D, k, n, r.at)
        BY <2>5, <4>1 DEF Outermost, Passed
      <4>3. \A x \in {n} \cup D[g] : Key[r.best] < Key[x]
        BY <1>0, <4>2
      <4>4. QED
        BY <2>5, <4>1, <4>2, <4>3 DEF Outermost, Before
    <3>3. QED
      BY <3>1, <3>2
  <2>7. QED
    BY <1>0, <2>1, <2>2, <2>5, <2>6 DEF Found
<1>3. ASSUME NEW r, k > Key[n], Found(D, k, g, b, r)
      PROVE  Found(D, k, n, b, r)
  <2>1. /\ r \in [at : Ptr, best : Ptr] /\ r.at \in D[g] \cup {Nil}
        /\ \A m \in D[g] : Key[m] = k <=> m = r.at
        /\ IF Passed(D, k, g, r.at) = {} THEN r.best = b
           ELSE Outermost("rb_left", Passed(D, k, g, r.at), r.best)
    BY <1>3 DEF Found
  <2>2. \A m \in D[n] : Key[m] = k <=> m = r.at
    BY <1>0, <1>3, <2>1
  <2>3. \A x \in D[n] : k < Key[x] => x \in D[g]
    BY <1>0, <1>3
  <2>4. Passed(D, k, n, r.at) = Passed(D, k, g, r.at)
    BY <1>0, <2>3 DEF Passed
  <2>5. QED
    BY <1>0, <2>1, <2>2, <2>4 DEF Found
<1>4. QED
  BY <1>1, <1>2, <1>3

\* Below Nil nothing is found.
LEMMA FoundNone ==
  ASSUME NEW D, Shape(tree, D), NEW k, NEW b \in Ptr
  PROVE  Found(D, k, Nil, b, [at |-> Nil, best |-> b])
BY DEF Found, Shape, Passed, Ptr

\* The search finds it.
LEMMA SearchIs ==
  ASSUME NEW D, Shape(tree, D), NEW k \in Int
  PROVE  Found(D, k, tree.root, Nil, Search(k))
<1>0. /\ Nil \in Ptr /\ Nil \notin Node /\ Node \subseteq Ptr /\ tree.root \in Ptr
      /\ \A n \in Node : /\ tree.kid["rb_left"][n] \in Ptr /\ tree.kid["rb_right"][n] \in Ptr
                         /\ Key[n] \in Int
      /\ "rb_left" \in Side /\ "rb_right" \in Side
  BY NilAssumption, TreeTypes, KeyTypes DEF Ptr, Shape, Side
<1>. DEFINE Step(f, n, best) == IF n = Nil \/ Key[n] = k THEN [at |-> n, best |-> best]
                                ELSE IF k < Key[n] THEN f[tree.kid["rb_left"][n]][n]
                                ELSE f[tree.kid["rb_right"][n]][best]
            Rec(f) == f = [n \in Ptr |-> [best \in Ptr |-> Step(f, n, best)]]
            e    == [n \in Ptr |-> [best \in Ptr |-> CHOOSE r : Found(D, k, n, best, r)]]
            down == CHOOSE f : Rec(f)
            Q == {n \in Ptr : \A b \in Ptr : \E r : Found(D, k, n, b, r)}
<1>1. Nil \in Q
  BY <1>0, FoundNone
<1>2. ASSUME NEW n \in Node, \A d \in Side : tree.kid[d][n] \in Q
      PROVE  n \in Q
  <2>1. ASSUME NEW b \in Ptr
        PROVE  \E r : Found(D, k, n, b, r)
    <3>1. CASE Key[n] = k
      BY <3>1, FoundStep
    <3>2. CASE k < Key[n]
      <4>1. PICK r : Found(D, k, tree.kid["rb_left"][n], n, r)
        BY <1>0, <1>2
      <4>2. QED
        BY <3>2, <4>1, FoundStep
    <3>3. CASE k > Key[n]
      <4>1. PICK r : Found(D, k, tree.kid["rb_right"][n], b, r)
        BY <1>0, <1>2
      <4>2. QED
        BY <3>3, <4>1, FoundStep
    <3>4. QED
      BY <1>0, <3>1, <3>2, <3>3
  <2>2. QED
    BY <1>0, <2>1
<1>. HIDE DEF Q
<1>3. \A n \in Ptr : n \in Q
  BY <1>1, <1>2, UpFromLeaves
<1>4. \A n \in Ptr, b \in Ptr : Found(D, k, n, b, e[n][b])
  <2>1. \A n \in Ptr, b \in Ptr : e[n][b] = CHOOSE r : Found(D, k, n, b, r)
    OBVIOUS
  <2>2. \A n \in Ptr, b \in Ptr : Found(D, k, n, b, CHOOSE r : Found(D, k, n, b, r))
    BY <1>3 DEF Q
  <2>3. QED
    BY <2>1, <2>2
<1>5. Rec(e)
  <2>1. e = [n \in Ptr |-> [best \in Ptr |-> e[n][best]]]
    OBVIOUS
  <2>. HIDE DEF e
  <2>2. ASSUME NEW n \in Ptr, NEW b \in Ptr
        PROVE  e[n][b] = Step(e, n, b)
    <3>1. Found(D, k, n, b, e[n][b])
      BY <1>4
    <3>2. Found(D, k, n, b, Step(e, n, b))
      <4>1. CASE n = Nil
        BY <4>1, FoundNone
      <4>2. CASE n \in Node /\ Key[n] = k
        BY <4>2, FoundStep
      <4>3. CASE n \in Node /\ k < Key[n]
        <5>1. Step(e, n, b) = e[tree.kid["rb_left"][n]][n]
          BY <1>0, <4>3
        <5>2. Found(D, k, tree.kid["rb_left"][n], n, e[tree.kid["rb_left"][n]][n])
          BY <1>0, <1>4, <4>3
        <5>3. QED
          BY <4>3, <5>1, <5>2, FoundStep
      <4>4. CASE n \in Node /\ k > Key[n]
        <5>1. Step(e, n, b) = e[tree.kid["rb_right"][n]][b]
          BY <1>0, <4>4
        <5>2. Found(D, k, tree.kid["rb_right"][n], b, e[tree.kid["rb_right"][n]][b])
          BY <1>0, <1>4, <4>4
        <5>3. QED
          BY <4>4, <5>1, <5>2, FoundStep
      <4>5. QED
        BY <1>0, <4>1, <4>2, <4>3, <4>4 DEF Ptr
    <3>. HIDE DEF Step
    <3>3. QED
      BY <3>1, <3>2, OneFound
  <2>. HIDE DEF Step
  <2>3. QED
    BY <2>1, <2>2
<1>6. Rec(down)
  <2>. HIDE DEF Rec
  <2>1. QED
    BY <1>5
<1>7. Search(k) = down[tree.root][Nil]
  BY DEF Search
<1>. HIDE DEF down, e
<1>8. \A n \in Ptr, b \in Ptr : down[n][b] = Step(down, n, b)
  <2>. HIDE DEF Step
  <2>1. QED
    BY <1>6
<1>. DEFINE P == {n \in Ptr : \A b \in Ptr : Found(D, k, n, b, down[n][b])}
<1>9. Nil \in P
  <2>1. \A b \in Ptr : down[Nil][b] = [at |-> Nil, best |-> b]
    BY <1>0, <1>8
  <2>2. QED
    BY <1>0, <2>1, FoundNone
<1>10. ASSUME NEW n \in Node, \A d \in Side : tree.kid[d][n] \in P
       PROVE  n \in P
  <2>1. ASSUME NEW b \in Ptr
        PROVE  Found(D, k, n, b, down[n][b])
    <3>1. CASE Key[n] = k
      <4>1. down[n][b] = [at |-> n, best |-> b]
        BY <1>0, <1>8, <3>1
      <4>2. QED
        BY <3>1, <4>1, FoundStep
    <3>2. CASE k < Key[n]
      <4>0. n \in Ptr /\ n # Nil /\ Key[n] # k /\ k < Key[n]
        BY <1>0, <3>2
      <4>1. down[n][b] = down[tree.kid["rb_left"][n]][n]
        BY <1>8, <4>0
      <4>2. Found(D, k, tree.kid["rb_left"][n], n, down[tree.kid["rb_left"][n]][n])
        BY <1>0, <1>10
      <4>3. QED
        BY <3>2, <4>1, <4>2, FoundStep
    <3>3. CASE k > Key[n]
      <4>0. n \in Ptr /\ n # Nil /\ Key[n] # k /\ ~(k < Key[n])
        BY <1>0, <3>3
      <4>1. down[n][b] = down[tree.kid["rb_right"][n]][b]
        BY <1>8, <4>0
      <4>2. Found(D, k, tree.kid["rb_right"][n], b, down[tree.kid["rb_right"][n]][b])
        BY <1>0, <1>10
      <4>3. QED
        BY <3>3, <4>1, <4>2, FoundStep
    <3>4. QED
      BY <1>0, <3>1, <3>2, <3>3
  <2>2. QED
    BY <1>0, <2>1
<1>. HIDE DEF P
<1>11. tree.root \in P
  BY <1>0, <1>9, <1>10, UpFromLeaves
<1>12. QED
  BY <1>0, <1>7, <1>11 DEF P

\* The three searches, whether or not the key is in the map.
LEMMA FindsAnswer ==
  ASSUME NEW D, Shape(tree, D), NEW k \in Int
  PROVE  /\ ev_map_find(k) = Map!Find(k)
         /\ ev_map_find_lower(k) = Map!FindLower(k)
         /\ ev_map_find_upper(k) = Map!FindUpper(k)
<1>. DEFINE S == D[tree.root]
            r == Search(k)
            a == r.at
            T == {x \in S : Key[x] > k}
<1>1. PICK q : q = r
  OBVIOUS
<1>2. /\ InTree = S /\ S \in SUBSET Node /\ Nil \notin Node /\ T \in SUBSET Node
      /\ \A m \in S : Key[m] \in Int
  BY InTreeIs, Parents, NilAssumption, KeyTypes
<1>3. /\ a \in S \cup {Nil} /\ \A m \in S : Key[m] = k <=> m = a
      /\ EndOf("rb_left", Passed(D, k, tree.root, a), r.best)
  BY SearchIs DEF Found, EndOf
<1>4. Passed(D, k, tree.root, a) = {x \in T : x \notin D[a]} /\ D[Nil] = {}
  BY <1>2 DEF Passed, Shape
<1>5. /\ ev_map_find(k) = a /\ ev_map_find_lower(k) = (IF a # Nil THEN a ELSE r.best)
      /\ ev_map_find_upper(k) = IF a # Nil THEN Upper(a, r.best) ELSE r.best
  BY DEF ev_map_find, ev_map_find_lower, ev_map_find_upper
<1>. HIDE DEF r
<1>6. CASE a = Nil
  <2>1. /\ {m \in S : Key[m] = k} = {} /\ {n \in S : Key[n] >= k} = T
        /\ Passed(D, k, tree.root, a) = T
    BY <1>2, <1>3, <1>4, <1>6
  <2>2. Map!Find(k) = Nil
    BY <1>2, <2>1 DEF Map!Find, Map!WithKey, Map!One
  <2>3. r.best = Map!First(T)
    BY <1>2, <1>3, <2>1, FirstIs
  <2>4. Map!FindLower(k) = Map!First(T) /\ Map!FindUpper(k) = Map!First(T)
    BY <1>2, <2>1 DEF Map!FindLower, Map!FindUpper
  <2>5. QED
    BY <1>5, <1>6, <2>2, <2>3, <2>4
<1>7. CASE a # Nil
  <2>1. a \in S /\ a \in Node /\ Key[a] = k
    BY <1>2, <1>3, <1>7
  <2>2. Map!Find(k) = a
    <3>1. {m \in S : Key[m] = k} = {a}
      BY <1>3, <2>1
    <3>2. QED
      BY <1>2, <3>1, TheOne DEF Map!Find, Map!WithKey
  <2>3. Map!FindLower(k) = a
    <3>1. EndOf("rb_left", {n \in S : Key[n] >= k}, a)
      <4>1. \A n \in S : Key[n] >= k => n = a \/ Key[a] < Key[n]
        BY <1>2, <1>3, <2>1
      <4>2. QED
        BY <1>2, <2>1, <4>1 DEF EndOf, Outermost, Before
    <3>2. QED
      BY <1>2, <3>1, FirstIs DEF Map!FindLower
  <2>4. T = Beyond(D, "rb_right", a) /\ "rb_right" \in Side /\ Other("rb_right") = "rb_left"
    BY <1>2, <2>1 DEF Beyond, Before, Side, Other
  <2>5. EndOf("rb_left", T, Upper(a, r.best))
    <3>1. CASE tree.kid["rb_right"][a] # Nil
      <4>1. Upper(a, r.best) = Neighbour("rb_right", a)
        BY <2>4, <3>1 DEF Upper, Neighbour
      <4>2. QED
        BY <2>1, <2>4, <4>1, NeighbourIs
    <3>2. CASE tree.kid["rb_right"][a] = Nil
      <4>1. ASSUME NEW x \in T
            PROVE  x \notin D[a]
        <5>1. D[a] = {a} \cup D[tree.kid["rb_left"][a]]
          BY <1>4, <2>1, <3>2 DEF Shape
        <5>2. \A y \in D[tree.kid["rb_left"][a]] : Key[y] < Key[a]
          BY <2>1 DEF Shape, Before, Side
        <5>3. x \in Node /\ Key[x] > Key[a]
          BY <1>2, <2>1
        <5>4. QED
          BY <2>1, <5>1, <5>2, <5>3, KeyTypes
      <4>2. Passed(D, k, tree.root, a) = T /\ Upper(a, r.best) = r.best
        BY <1>4, <3>2, <4>1 DEF Upper
      <4>3. QED
        BY <1>3, <4>2
    <3>3. QED
      BY <3>1, <3>2
  <2>6. Map!FindUpper(k) = Upper(a, r.best)
    BY <1>2, <2>5, FirstIs DEF Map!FindUpper
  <2>7. QED
    BY <1>5, <1>7, <2>2, <2>3, <2>6
<1>8. QED
  BY <1>6, <1>7

\* ev_map_begin and ev_map_end.
LEMMA EndsAnswer ==
  ASSUME NEW D, Shape(tree, D)
  PROVE  ev_map_begin = Map!First(InTree) /\ ev_map_end = Map!Last(InTree)
<1>1. /\ InTree = D[tree.root] /\ D[tree.root] \in SUBSET Node /\ tree.root \in Ptr
      /\ "rb_left" \in Side /\ "rb_right" \in Side /\ D[Nil] = {} /\ Nil \in Ptr
  BY InTreeIs, Parents, TreeTypes DEF Shape, Side, Ptr
<1>2. ASSUME NEW s \in Side
      PROVE  EndOf(s, D[tree.root], Utmost(s, tree.root))
  <2>1. CASE tree.root = Nil
    <3>1. Utmost(s, tree.root) = Nil
      BY <1>1, <2>1, UtmostUnfolds
    <3>2. QED
      BY <1>1, <2>1, <3>1 DEF EndOf
  <2>2. CASE tree.root # Nil
    <3>1. tree.root \in Node
      BY <1>1, <2>2 DEF Ptr
    <3>2. Outermost(s, D[tree.root], Utmost(s, tree.root))
      BY <3>1, UtmostIs
    <3>3. QED
      BY <3>2 DEF EndOf, Outermost
  <2>3. QED
    BY <2>1, <2>2
<1>3. QED
  BY <1>1, <1>2, FirstIs, LastIs DEF ev_map_begin, ev_map_end

\* ev_map_next and ev_map_prev.
LEMMA NeighboursAnswer ==
  ASSUME NEW D, Shape(tree, D), NEW n \in InTree
  PROVE  ev_map_next(n) = Map!FindUpper(Key[n]) /\ ev_map_prev(n) = Map!Before(Key[n])
<1>1. /\ InTree = D[tree.root] /\ D[tree.root] \in SUBSET Node /\ n \in D[tree.root]
      /\ "rb_left" \in Side /\ "rb_right" \in Side
      /\ Other("rb_right") = "rb_left" /\ Other("rb_left") = "rb_right"
  BY InTreeIs, Parents DEF Side, Other
<1>2. /\ EndOf("rb_left", Beyond(D, "rb_right", n), ev_map_next(n))
      /\ EndOf("rb_right", Beyond(D, "rb_left", n), ev_map_prev(n))
  BY <1>1, NeighbourIs DEF ev_map_next, ev_map_prev
<1>3. /\ Beyond(D, "rb_right", n) = {m \in InTree : Key[m] > Key[n]}
      /\ Beyond(D, "rb_left", n) = {m \in InTree : Key[m] < Key[n]}
  BY <1>1, KeyTypes DEF Beyond, Before
<1>4. QED
  BY <1>1, <1>2, <1>3, FirstIs, LastIs DEF Map!FindUpper, Map!Before

\* All searches.
LEMMA SearchesFollow == IInv => SearchesAnswer
<1>. SUFFICES ASSUME NEW D, NEW B, Inv(D, B)
              PROVE  SearchesAnswer
  BY DEF IInv
<1>1. Shape(tree, D) /\ size = Cardinality(InTree)
  BY InTreeIs DEF Inv
<1>2. QED
  BY <1>1, EndsAnswer, NeighboursAnswer, FindsAnswer, KeyTypes DEF SearchesAnswer

\* Every search of a map at rest answers what map.h says.
THEOREM SearchCorrect == Spec => []SearchesAnswer
BY Invariance, SearchesFollow, PTL
=============================================================================
