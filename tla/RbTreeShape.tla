---------------------------- MODULE RbTreeShape -----------------------------
(***************************************************************************)
(* Lemmas about any tree of utils/map.c, for all nodes and keys: what lies *)
(* below a node, what a rotation, a node that is linked in, spliced out or *)
(* replaced changes, and what becomes of the colours.                      *)
(***************************************************************************)
EXTENDS RbTree, FiniteSetTheorems, NaturalsInduction, WellFoundedInduction, TLAPS

\* m belongs on the side d of n.
Before(d, m, n) == IF d = "rb_left" THEN Key[m] < Key[n] ELSE Key[n] < Key[m]

\* A node that is not in a tree.
Blank(t, n) == t.parent[n] = Nil /\ t.color[n] = RED /\ \A d \in Side : t.kid[d][n] = Nil

\* The pointers of t form a tree, D has the nodes from each node downwards, and
\* the keys are in order.
Shape(t, D) ==
    /\ t \in Tree /\ D \in [Ptr -> SUBSET Node] /\ D[Nil] = {}
    /\ \A n \in Node : D[n] = {n} \cup D[t.kid["rb_left"][n]] \cup D[t.kid["rb_right"][n]]
    /\ \A n \in Node, d \in Side : \A m \in D[t.kid[d][n]] : Before(d, m, n)
    /\ t.root # Nil => t.parent[t.root] = Nil
    /\ \A n \in D[t.root], d \in Side : t.kid[d][n] # Nil => t.parent[t.kid[d][n]] = n
    /\ \A n \in Node \ D[t.root] : Blank(t, n)

-----------------------------------------------------------------------------
\* Facts about the nodes below a node.

LEMMA TreeTypes ==
  ASSUME NEW t \in Tree
  PROVE  /\ t.root \in Ptr
         /\ \A d \in Side, n \in Node : t.kid[d][n] \in Ptr
         /\ \A n \in Node : t.parent[n] \in Ptr /\ t.color[n] \in {RED, BLACK}
BY DEF Tree

\* There are two sides.
LEMMA Sides ==
  ASSUME NEW d \in Side
  PROVE  Other(d) \in Side /\ Other(d) # d /\ Other(Other(d)) = d
         /\ \A c \in Side : c = d \/ c = Other(d)
BY DEF Side, Other

\* Keys are integers.
LEMMA KeyTypes == \A n \in Node : Key[n] \in Int
BY KeyAssumption

\* Each side's order is a strict one, and the reverse of the other's.
LEMMA BeforeOrder ==
  ASSUME NEW d \in Side, NEW a \in Node, NEW b \in Node
  PROVE  /\ Before(d, a, b) => ~Before(Other(d), a, b) /\ Before(Other(d), b, a) /\ a # b
         /\ ~Before(d, a, a)
         /\ Before(d, a, b) => Key[a] # Key[b]
         /\ \A c \in Node : Before(d, a, b) /\ Before(d, b, c) => Before(d, a, c)
BY KeyTypes DEF Before, Side, Other

\* A node is below n if it is n or below one of its children.
LEMMA BelowNode ==
  ASSUME NEW t, NEW D, Shape(t, D), NEW n \in Node
  PROVE  /\ D[n] \in SUBSET Node /\ n \in D[n]
         /\ \A d \in Side : t.kid[d][n] \in Ptr /\ D[t.kid[d][n]] \subseteq D[n] /\ n \notin D[t.kid[d][n]]
         /\ \A m \in D[n] : m = n \/ \E d \in Side : m \in D[t.kid[d][n]]
<1>1. /\ t \in Tree /\ D \in [Ptr -> SUBSET Node]
      /\ D[n] = {n} \cup D[t.kid["rb_left"][n]] \cup D[t.kid["rb_right"][n]]
      /\ \A d \in Side : \A m \in D[t.kid[d][n]] : Before(d, m, n)
  BY DEF Shape
<1>2. D[n] \in SUBSET Node /\ n \in D[n]
  BY <1>1 DEF Ptr
<1>3. \A m \in D[n] : m = n \/ \E d \in Side : m \in D[t.kid[d][n]]
  BY <1>1 DEF Side
<1>4. ASSUME NEW d \in Side
      PROVE  t.kid[d][n] \in Ptr /\ D[t.kid[d][n]] \subseteq D[n] /\ n \notin D[t.kid[d][n]]
  <2>1. t.kid[d][n] \in Ptr
    BY <1>1, TreeTypes
  <2>2. D[t.kid[d][n]] \subseteq D[n]
    BY <1>1 DEF Side
  <2>3. n \notin D[t.kid[d][n]]
    BY <1>1, BeforeOrder
  <2>4. QED
    BY <2>1, <2>2, <2>3
<1>5. QED
  BY <1>2, <1>3, <1>4

\* A child is below its parent, on its side.
LEMMA KidSelf ==
  ASSUME NEW t, NEW D, Shape(t, D), NEW n \in Node, NEW d \in Side, t.kid[d][n] # Nil
  PROVE  /\ t.kid[d][n] \in Node /\ t.kid[d][n] \in D[t.kid[d][n]] /\ t.kid[d][n] \in D[n]
         /\ t.kid[d][n] # n /\ Before(d, t.kid[d][n], n)
<1>1. t.kid[d][n] \in Node
  BY BelowNode DEF Ptr
<1>2. t.kid[d][n] \in D[t.kid[d][n]] /\ t.kid[d][n] \in D[n] /\ n \notin D[t.kid[d][n]]
  BY <1>1, BelowNode
<1>3. QED
  BY <1>1, <1>2 DEF Shape

\* Fewer nodes are below a child than below its parent.
LEMMA FewerBelow ==
  ASSUME NEW t, NEW D, Shape(t, D), NEW n \in Node, NEW d \in Side
  PROVE  /\ Cardinality(D[n]) \in Nat /\ Cardinality(D[t.kid[d][n]]) \in Nat
         /\ Cardinality(D[t.kid[d][n]]) < Cardinality(D[n])
<1>1. IsFiniteSet(D[n])
  BY BelowNode, NodeAssumption, FS_Subset
<1>2. D[t.kid[d][n]] \subseteq D[n] /\ n \in D[n] /\ n \notin D[t.kid[d][n]]
  BY BelowNode
<1>3. QED
  BY <1>1, <1>2, FS_Subset, FS_CardinalityType

\* Induction from the leaves upwards.
LEMMA UpFromLeaves ==
  ASSUME NEW t, NEW D, Shape(t, D), NEW Q, Nil \in Q,
         \A n \in Node : (\A d \in Side : t.kid[d][n] \in Q) => n \in Q
  PROVE  \A n \in Ptr : n \in Q
<1>. DEFINE Bad == {n \in Node : n \notin Q}
            Sizes == {Cardinality(D[n]) : n \in Bad}
<1>1. ASSUME Bad # {}
      PROVE  FALSE
  <2>1. Sizes \subseteq Nat /\ Sizes # {}
    <3>1. "rb_left" \in Side
      BY DEF Side
    <3>2. \A n \in Bad : Cardinality(D[n]) \in Nat
      BY <3>1, FewerBelow
    <3>3. QED
      BY <1>1, <3>2
  <2>2. PICK i \in Sizes : \A j \in Sizes : ~(<<j, i>> \in OpToRel(<, Nat))
    <3>. HIDE DEF Sizes
    <3>1. QED
      BY <2>1, NatLessThanWellFounded, WFMin
  <2>3. PICK n \in Bad : Cardinality(D[n]) = i
    OBVIOUS
  <2>4. PICK d \in Side : t.kid[d][n] \notin Q
    BY <2>3
  <2>5. t.kid[d][n] \in Bad
    BY <2>3, <2>4, BelowNode DEF Ptr
  <2>6. /\ Cardinality(D[t.kid[d][n]]) \in Sizes /\ i \in Nat
        /\ Cardinality(D[t.kid[d][n]]) \in Nat /\ Cardinality(D[t.kid[d][n]]) < i
    BY <2>1, <2>3, <2>5, FewerBelow
  <2>7. QED
    BY <2>2, <2>6 DEF OpToRel
<1>2. QED
  BY <1>1 DEF Ptr

\* To be below is transitive.
LEMMA BelowBelow ==
  ASSUME NEW t, NEW D, Shape(t, D), NEW n \in Ptr, NEW m \in D[n]
  PROVE  m \in Node /\ D[m] \subseteq D[n]
<1>. DEFINE Q == {x \in Ptr : \A y \in D[x] : y \in Node /\ D[y] \subseteq D[x]}
<1>1. Nil \in Q
  BY DEF Shape, Ptr
<1>2. ASSUME NEW x \in Node, \A d \in Side : t.kid[d][x] \in Q
      PROVE  x \in Q
  <2>1. ASSUME NEW y \in D[x]
        PROVE  y \in Node /\ D[y] \subseteq D[x]
    <3>1. CASE y = x
      BY <3>1
    <3>2. ASSUME NEW d \in Side, y \in D[t.kid[d][x]]
          PROVE  y \in Node /\ D[y] \subseteq D[x]
      BY <1>2, <3>2, BelowNode
    <3>3. QED
      BY <3>1, <3>2, BelowNode
  <2>2. QED
    BY <2>1 DEF Ptr
<1>. HIDE DEF Q
<1>3. n \in Q
  BY <1>1, <1>2, UpFromLeaves
<1>4. QED
  BY <1>3 DEF Q

\* Below r, every node but r is a child.
LEMMA EveryNodeIsAKid ==
  ASSUME NEW t, NEW D, Shape(t, D), NEW r \in Ptr, NEW m \in D[r], m # r
  PROVE  \E q \in D[r], d \in Side : t.kid[d][q] = m
<1>. DEFINE Q == {x \in Ptr : \A y \in D[x] : y # x => \E q \in D[x], d \in Side : t.kid[d][q] = y}
<1>1. Nil \in Q
  BY DEF Shape, Ptr
<1>2. ASSUME NEW x \in Node, \A d \in Side : t.kid[d][x] \in Q
      PROVE  x \in Q
  <2>1. ASSUME NEW y \in D[x], y # x
        PROVE  \E q \in D[x], d \in Side : t.kid[d][q] = y
    <3>1. PICK d \in Side : y \in D[t.kid[d][x]]
      BY <2>1, BelowNode
    <3>2. CASE y = t.kid[d][x]
      BY <3>2, BelowNode
    <3>3. CASE y # t.kid[d][x]
      <4>1. PICK q \in D[t.kid[d][x]], c \in Side : t.kid[c][q] = y
        BY <1>2, <3>1, <3>3
      <4>2. q \in D[x]
        BY BelowNode
      <4>3. QED
        BY <4>1, <4>2
    <3>4. QED
      BY <3>2, <3>3
  <2>2. QED
    BY <2>1 DEF Ptr
<1>. HIDE DEF Q
<1>3. r \in Q
  BY <1>1, <1>2, UpFromLeaves
<1>4. QED
  BY <1>3 DEF Q

\* No two nodes of a tree have the same key.
LEMMA KeysDiffer ==
  ASSUME NEW t, NEW D, Shape(t, D), NEW r \in Ptr, NEW m \in D[r], NEW n \in D[r], Key[m] = Key[n]
  PROVE  m = n
<1>. DEFINE Q == {x \in Ptr : \A y, z \in D[x] : Key[y] = Key[z] => y = z}
<1>1. Nil \in Q
  BY DEF Shape, Ptr
<1>2. ASSUME NEW x \in Node, \A d \in Side : t.kid[d][x] \in Q
      PROVE  x \in Q
  <2>1. ASSUME NEW y \in D[x], NEW z \in D[x], Key[y] = Key[z]
        PROVE  y = z
    <3>1. x \in Node /\ y \in Node /\ z \in Node
      BY BelowNode
    <3>2. \A d \in Side : \A w \in D[t.kid[d][x]] : Before(d, w, x)
      BY DEF Shape
    <3>3. \A w \in D[x] : w = x \/ \E d \in Side : w \in D[t.kid[d][x]]
      BY BelowNode
    <3>4. y = x <=> z = x
      BY <2>1, <3>1, <3>2, <3>3, BeforeOrder
    <3>5. ASSUME NEW d \in Side, y \in D[t.kid[d][x]], NEW c \in Side, z \in D[t.kid[c][x]]
          PROVE  y = z
      <4>1. Before(d, y, x) /\ Before(c, z, x)
        BY <3>2, <3>5
      <4>2. c = d
        BY <2>1, <3>1, <4>1, KeyTypes DEF Before, Side
      <4>3. QED
        BY <1>2, <2>1, <3>5, <4>2
    <3>6. QED
      BY <3>3, <3>4, <3>5
  <2>2. QED
    BY <2>1 DEF Ptr
<1>. HIDE DEF Q
<1>3. r \in Q
  BY <1>1, <1>2, UpFromLeaves
<1>4. QED
  BY <1>3 DEF Q

\* The nodes the model counts as below a node are these.
LEMMA BelowIs ==
  ASSUME NEW t, NEW D, Shape(t, D)
  PROVE  Below(t) = D
<1>. DEFINE Rec(f) == f = [n \in Ptr |-> IF n = Nil THEN {} ELSE
                             {n} \cup f[t.kid["rb_left"][n]] \cup f[t.kid["rb_right"][n]]]
            b == CHOOSE f : Rec(f)
<1>1. Rec(D)
  <2>1. \A n \in Ptr : D[n] = IF n = Nil THEN {} ELSE
                           {n} \cup D[t.kid["rb_left"][n]] \cup D[t.kid["rb_right"][n]]
    BY DEF Shape, Ptr
  <2>2. D = [n \in Ptr |-> D[n]]
    BY DEF Shape
  <2>3. QED
    BY <2>1, <2>2
<1>2. Rec(b)
  <2>. HIDE DEF Rec
  <2>1. QED
    BY <1>1
<1>3. Below(t) = b
  BY DEF Below
<1>. HIDE DEF b
<1>. DEFINE Q == {n \in Ptr : b[n] = D[n]}
<1>4. Nil \in Q
  BY <1>2 DEF Shape, Ptr
<1>5. ASSUME NEW n \in Node, \A d \in Side : t.kid[d][n] \in Q
      PROVE  n \in Q
  <2>1. n \in Ptr /\ n # Nil
    BY NilAssumption DEF Ptr
  <2>2. b[n] = {n} \cup b[t.kid["rb_left"][n]] \cup b[t.kid["rb_right"][n]]
    BY <1>2, <2>1
  <2>3. b[t.kid["rb_left"][n]] = D[t.kid["rb_left"][n]] /\ b[t.kid["rb_right"][n]] = D[t.kid["rb_right"][n]]
    BY <1>5 DEF Side
  <2>4. D[n] = {n} \cup D[t.kid["rb_left"][n]] \cup D[t.kid["rb_right"][n]]
    BY DEF Shape
  <2>5. QED
    BY <2>1, <2>2, <2>3, <2>4
<1>. HIDE DEF Q
<1>6. \A n \in Ptr : n \in Q
  BY <1>4, <1>5, UpFromLeaves
<1>7. \A n \in Ptr : b[n] = D[n]
  BY <1>6 DEF Q
<1>8. b = [n \in Ptr |-> b[n]] /\ D = [n \in Ptr |-> D[n]]
  BY <1>2 DEF Shape
<1>9. QED
  BY <1>3, <1>7, <1>8

\* The nodes of the tree, their parents and their children.
LEMMA Parents ==
  ASSUME NEW t, NEW D, Shape(t, D)
  PROVE  /\ D[t.root] \in SUBSET Node /\ (t.root # Nil => t.root \in D[t.root])
         /\ \A n \in D[t.root], d \in Side : t.kid[d][n] # Nil => t.kid[d][n] \in D[t.root]
         /\ \A n \in D[t.root] : n = t.root <=> t.parent[n] = Nil
         /\ \A n \in D[t.root] : n # t.root => /\ t.parent[n] \in D[t.root]
                                               /\ \E d \in Side : t.kid[d][t.parent[n]] = n
         /\ \A n \in Node, d \in Side : t.kid[d][n] # Nil => n \in D[t.root]
         /\ \A n \in D[t.root] : t.parent[n] \in D[t.root] \cup {Nil} /\ t.parent[n] # n
<1>1. D[t.root] \in SUBSET Node /\ (t.root # Nil => t.root \in D[t.root])
  BY BelowNode, TreeTypes DEF Shape, Ptr
<1>2. ASSUME NEW n \in D[t.root], NEW d \in Side, t.kid[d][n] # Nil
      PROVE  t.kid[d][n] \in D[t.root]
  <2>1. t.root \in Ptr /\ n \in Node
    BY <1>1, TreeTypes DEF Shape
  <2>2. QED
    BY <1>2, <2>1, KidSelf, BelowBelow
<1>3. ASSUME NEW n \in D[t.root], n # t.root
      PROVE  /\ t.parent[n] \in D[t.root] /\ t.parent[n] # Nil
             /\ \E d \in Side : t.kid[d][t.parent[n]] = n
  <2>1. n \in Node /\ n # Nil /\ t.root \in Ptr
    BY <1>1, NilAssumption, TreeTypes DEF Shape
  <2>2. PICK q \in D[t.root], d \in Side : t.kid[d][q] = n
    BY <1>3, <2>1, EveryNodeIsAKid
  <2>3. t.parent[n] = q /\ q # Nil
    BY <1>1, <2>1, <2>2, NilAssumption DEF Shape
  <2>4. QED
    BY <2>2, <2>3
<1>4. \A n \in D[t.root] : n = t.root => t.parent[n] = Nil
  BY <1>1, NilAssumption DEF Shape
<1>5. \A n \in Node, d \in Side : t.kid[d][n] # Nil => n \in D[t.root]
  BY DEF Shape, Blank
<1>6. ASSUME NEW n \in D[t.root]
      PROVE  t.parent[n] \in D[t.root] \cup {Nil} /\ t.parent[n] # n
  <2>1. CASE n = t.root
    BY <1>1, <1>4, <2>1, NilAssumption
  <2>2. CASE n # t.root
    BY <1>1, <1>3, <2>2, KidSelf, NilAssumption
  <2>3. QED
    BY <2>1, <2>2
<1>7. QED
  BY <1>1, <1>2, <1>3, <1>4, <1>5, <1>6

\* A node has one parent, and is its child on one side only.
LEMMA OneParent ==
  ASSUME NEW t, NEW D, Shape(t, D), NEW p \in Node, NEW d \in Side, t.kid[d][p] # Nil
  PROVE  /\ p \in D[t.root] /\ t.kid[d][p] \in D[t.root] /\ t.kid[d][p] # t.root
         /\ t.parent[t.kid[d][p]] = p
         /\ \A n \in Node, c \in Side : t.kid[c][n] = t.kid[d][p] => n = p /\ c = d
<1>1. p \in D[t.root] /\ t.kid[d][p] \in D[t.root] /\ t.parent[t.kid[d][p]] = p
  BY Parents DEF Shape
<1>2. t.kid[d][p] # t.root
  BY <1>1, Parents, NilAssumption
<1>3. ASSUME NEW n \in Node, NEW c \in Side, t.kid[c][n] = t.kid[d][p]
      PROVE  n = p /\ c = d
  <2>1. n = p
    <3>1. t.kid[c][n] # Nil
      BY <1>3
    <3>2. n \in D[t.root]
      BY <3>1, Parents
    <3>3. t.parent[t.kid[c][n]] = n
      BY <3>1, <3>2 DEF Shape
    <3>4. QED
      BY <1>1, <1>3, <3>3
  <2>2. Before(d, t.kid[d][p], p) /\ Before(c, t.kid[d][p], p)
    BY <1>3, <2>1, KidSelf
  <2>3. t.kid[d][p] \in Node
    BY KidSelf
  <2>4. QED
    BY <2>1, <2>2, <2>3, KeyTypes DEF Before, Side
<1>4. QED
  BY <1>1, <1>2, <1>3

\* Induction from the root downwards.
LEMMA DownFromRoot ==
  ASSUME NEW t, NEW D, Shape(t, D), NEW Q,
         \A n \in D[t.root] : (n # t.root => t.parent[n] \in Q) => n \in Q
  PROVE  \A n \in D[t.root] : n \in Q
<1>. DEFINE P == {r \in Ptr : r \in D[t.root] /\ r \in Q => \A y \in D[r] : y \in Q}
<1>1. Nil \in P
  BY DEF Shape, Ptr
<1>2. ASSUME NEW x \in Node, \A d \in Side : t.kid[d][x] \in P
      PROVE  x \in P
  <2>1. ASSUME x \in D[t.root], x \in Q, NEW y \in D[x]
        PROVE  y \in Q
    <3>1. CASE y = x
      BY <2>1, <3>1
    <3>2. ASSUME NEW d \in Side, y \in D[t.kid[d][x]]
          PROVE  y \in Q
      <4>1. t.kid[d][x] # Nil
        BY <3>2 DEF Shape
      <4>2. /\ t.kid[d][x] \in D[t.root] /\ t.kid[d][x] # t.root
            /\ t.parent[t.kid[d][x]] = x
        BY <4>1, OneParent
      <4>3. t.kid[d][x] \in Q
        BY <2>1, <4>2
      <4>4. QED
        BY <1>2, <3>2, <4>2, <4>3
    <3>3. QED
      BY <2>1, <3>1, <3>2, BelowNode
  <2>2. QED
    BY <2>1 DEF Ptr
<1>. HIDE DEF P
<1>3. t.root \in Ptr
  BY TreeTypes DEF Shape
<1>4. t.root \in P
  BY <1>1, <1>2, <1>3, UpFromLeaves
<1>5. CASE t.root = Nil
  BY <1>5 DEF Shape
<1>6. CASE t.root # Nil
  <2>1. t.root \in D[t.root]
    BY <1>6, Parents
  <2>2. t.root \in Q
    BY <2>1
  <2>3. QED
    BY <1>4, <2>1, <2>2 DEF P
<1>7. QED
  BY <1>5, <1>6

\* What is not below n lies on the same side of all that is.
LEMMA Outside ==
  ASSUME NEW t, NEW D, Shape(t, D), NEW r \in Ptr, NEW n \in D[r], NEW m \in D[r], m \notin D[n],
         NEW x \in D[n], NEW c \in Side
  PROVE  Before(c, m, n) <=> Before(c, m, x)
<1>. DEFINE Same(a, b, y) == b \notin D[a] /\ y \in D[a] =>
                               \A d \in Side : Before(d, b, a) <=> Before(d, b, y)
            Q == {q \in Ptr : \A a, b \in D[q] : \A y \in D[a] : Same(a, b, y)}
<1>1. Nil \in Q
  BY DEF Shape, Ptr
<1>2. ASSUME NEW q \in Node, \A d \in Side : t.kid[d][q] \in Q
      PROVE  q \in Q
  <2>1. ASSUME NEW a \in D[q], NEW b \in D[q], NEW y \in D[a], b \notin D[a], NEW d \in Side
        PROVE  Before(d, b, a) <=> Before(d, b, y)
    <3>0. q \in Ptr
      BY DEF Ptr
    <3>1. /\ a \in Node /\ b \in Node /\ y \in Node
          /\ \A e \in Side : \A w \in D[t.kid[e][q]] : Before(e, w, q)
      <4>1. a \in Node /\ b \in Node /\ D[a] \subseteq D[q]
        BY <3>0, BelowBelow
      <4>2. y \in Node
        BY <2>1, <3>0, <4>1, BelowBelow
      <4>3. QED
        BY <4>1, <4>2 DEF Shape
    <3>2. PICK e \in Side : a \in D[t.kid[e][q]]
      BY <2>1, BelowNode
    <3>3. t.kid[e][q] \in Ptr /\ y \in D[t.kid[e][q]]
      BY <3>2, BelowNode, BelowBelow
    <3>4. Before(e, a, q) /\ Before(e, y, q)
      BY <3>1, <3>2, <3>3
    <3>5. CASE b = q
      BY <3>1, <3>4, <3>5, KeyTypes DEF Before, Side
    <3>6. ASSUME NEW f \in Side, b \in D[t.kid[f][q]]
          PROVE  Before(d, b, a) <=> Before(d, b, y)
      <4>1. CASE f = e
        BY <1>2, <2>1, <3>2, <3>6, <4>1
      <4>2. CASE f # e
        <5>1. Before(f, b, q)
          BY <3>1, <3>6
        <5>2. QED
          BY <3>1, <3>4, <4>2, <5>1, KeyTypes DEF Before, Side
      <4>3. QED
        BY <4>1, <4>2
    <3>7. QED
      BY <3>5, <3>6, BelowNode
  <2>2. QED
    BY <2>1 DEF Ptr
<1>. HIDE DEF Q
<1>3. r \in Q
  BY <1>1, <1>2, UpFromLeaves
<1>4. QED
  BY <1>3 DEF Q

\* Colours are no part of the shape.
LEMMA Recoloured ==
  ASSUME NEW t, NEW D, Shape(t, D), NEW t2 \in Tree, t2.root = t.root, t2.kid = t.kid,
         \A m \in Node : t2.parent[m] = t.parent[m],
         \A m \in Node \ D[t.root] : t2.color[m] = t.color[m]
  PROVE  Shape(t2, D)
<1>1. D[t.root] \in SUBSET Node
  BY Parents
<1>2. \A n \in Node \ D[t2.root] : Blank(t2, n)
  BY DEF Shape, Blank
<1>3. t2.root # Nil => t2.parent[t2.root] = Nil
  BY TreeTypes DEF Shape, Ptr
<1>4. \A n \in D[t2.root], d \in Side : t2.kid[d][n] # Nil => t2.parent[t2.kid[d][n]] = n
  <2>1. ASSUME NEW n \in D[t2.root], NEW d \in Side, t2.kid[d][n] # Nil
        PROVE  t2.parent[t2.kid[d][n]] = n
    <3>1. t.kid[d][n] \in Node /\ n \in Node
      BY <1>1, <2>1, KidSelf
    <3>2. QED
      BY <2>1, <3>1 DEF Shape
  <2>2. QED
    BY <2>1
<1>5. /\ D \in [Ptr -> SUBSET Node] /\ D[Nil] = {}
      /\ \A n \in Node : D[n] = {n} \cup D[t2.kid["rb_left"][n]] \cup D[t2.kid["rb_right"][n]]
      /\ \A n \in Node, d \in Side : \A m \in D[t2.kid[d][n]] : Before(d, m, n)
  BY DEF Shape
<1>6. QED
  BY <1>2, <1>3, <1>4, <1>5 DEF Shape

-----------------------------------------------------------------------------
\* A part X of the tree below g is rebuilt, with q on top.
IsRebuilt(t, D, t2, D2, X, g, q) ==
    /\ t2 \in Tree /\ D2 \in [Ptr -> SUBSET Node]
    /\ X \in SUBSET D[t.root] /\ g \in X /\ q \in X
    /\ D2[q] = D[g] /\ \A m \in Ptr \ X : D2[m] = D[m]
    /\ t2.root = IF t.root = g THEN q ELSE t.root
    /\ \A n \in Node \ X, d \in Side : t2.kid[d][n] = IF t.kid[d][n] = g THEN q ELSE t.kid[d][n]
    /\ \A x \in X : D2[x] = {x} \cup D2[t2.kid["rb_left"][x]] \cup D2[t2.kid["rb_right"][x]]
    /\ \A x \in X, d \in Side : \A m \in D2[t2.kid[d][x]] : Before(d, m, x)
    /\ \A x \in X, d \in Side : t2.kid[d][x] # Nil => t2.parent[t2.kid[d][x]] = x
    /\ t2.parent[q] = t.parent[g]
    /\ \A m \in Node \ X : t.parent[m] \notin X => t2.parent[m] = t.parent[m]
    /\ \A x \in X : x # g => t.parent[x] \in X
    /\ \A m \in Node \ D[t.root] : t2.color[m] = t.color[m]

\* Then it is a tree again, of the same nodes.
LEMMA Rebuilt ==
  ASSUME NEW t, NEW D, Shape(t, D), NEW t2, NEW D2, NEW X, NEW g, NEW q,
         IsRebuilt(t, D, t2, D2, X, g, q)
  PROVE  Shape(t2, D2) /\ D2[t2.root] = D[t.root]
<1>. DEFINE S == D[t.root]
<1>. USE DEF IsRebuilt
<1>0. /\ S \in SUBSET Node /\ X \subseteq Node /\ Nil \notin Node /\ t.root \in Ptr /\ t \in Tree
      /\ g \in Node /\ q \in Node /\ g # Nil /\ q # Nil
  BY Parents, NilAssumption, TreeTypes DEF Shape
<1>1. ASSUME NEW n \in Node \ X, NEW d \in Side
      PROVE  /\ t.kid[d][n] # g => t.kid[d][n] \notin X
             /\ D2[t2.kid[d][n]] = D[t.kid[d][n]]
  <2>1. ASSUME t.kid[d][n] # g, t.kid[d][n] \in X
        PROVE  FALSE
    <3>1. t.kid[d][n] # Nil
      BY <1>0, <2>1
    <3>2. t.parent[t.kid[d][n]] = n
      BY <1>0, <3>1, OneParent
    <3>3. QED
      BY <2>1, <3>2
  <2>2. t.kid[d][n] \in Ptr
    BY <1>0, TreeTypes
  <2>3. QED
    BY <2>1, <2>2
<1>2. D2[Nil] = {}
  BY <1>0 DEF Shape, Ptr
<1>3. D2[t2.root] = S
  <2>1. CASE t.root = g
    BY <2>1
  <2>2. CASE t.root # g
    <3>1. t.root \notin X
      <4>1. ASSUME t.root \in X
            PROVE  FALSE
        <5>1. t.parent[t.root] \in X
          BY <2>2, <4>1
        <5>2. t.parent[t.root] = Nil
          BY <1>0, <4>1 DEF Shape
        <5>3. QED
          BY <1>0, <5>1, <5>2
      <4>2. QED
        BY <4>1
    <3>2. QED
      BY <1>0, <2>2, <3>1
  <2>3. QED
    BY <2>1, <2>2
<1>4. ASSUME NEW n \in Node
      PROVE  D2[n] = {n} \cup D2[t2.kid["rb_left"][n]] \cup D2[t2.kid["rb_right"][n]]
  <2>1. CASE n \notin X
    <3>1. D2[n] = D[n]
      BY <2>1 DEF Ptr
    <3>2. D2[t2.kid["rb_left"][n]] = D[t.kid["rb_left"][n]] /\ D2[t2.kid["rb_right"][n]] = D[t.kid["rb_right"][n]]
      BY <1>1, <2>1 DEF Side
    <3>3. D[n] = {n} \cup D[t.kid["rb_left"][n]] \cup D[t.kid["rb_right"][n]]
      BY DEF Shape
    <3>4. QED
      BY <3>1, <3>2, <3>3
  <2>2. QED
    BY <2>1
<1>5. ASSUME NEW n \in Node, NEW d \in Side, NEW m \in D2[t2.kid[d][n]]
      PROVE  Before(d, m, n)
  <2>1. CASE n \notin X
    <3>1. m \in D[t.kid[d][n]]
      BY <1>1, <2>1
    <3>2. QED
      BY <3>1 DEF Shape
  <2>2. QED
    BY <2>1
<1>6. ASSUME t2.root # Nil
      PROVE  t2.parent[t2.root] = Nil
  <2>1. CASE t.root = g
    BY <1>0, <2>1 DEF Shape
  <2>2. CASE t.root # g
    <3>1. t.root \in Node /\ t.parent[t.root] = Nil /\ t.root \in S
      BY <1>0, <1>6, <2>2, Parents DEF Ptr, Shape
    <3>2. t.root \notin X
      BY <1>0, <2>2, <3>1
    <3>3. QED
      BY <1>0, <2>2, <3>1, <3>2
  <2>3. QED
    BY <2>1, <2>2
<1>7. ASSUME NEW n \in S, NEW d \in Side, t2.kid[d][n] # Nil
      PROVE  t2.parent[t2.kid[d][n]] = n
  <2>1. CASE n \notin X
    <3>1. CASE t.kid[d][n] = g
      <4>1. t.parent[g] = n
        BY <1>0, <3>1 DEF Shape
      <4>2. QED
        BY <1>0, <2>1, <3>1, <4>1
    <3>2. CASE t.kid[d][n] # g
      <4>1. t2.kid[d][n] = t.kid[d][n] /\ t.kid[d][n] \in Node \ X
        BY <1>0, <1>1, <1>7, <2>1, <3>2, TreeTypes DEF Ptr
      <4>2. t.parent[t.kid[d][n]] = n
        BY <1>7, <4>1 DEF Shape
      <4>3. QED
        BY <2>1, <4>1, <4>2
    <3>3. QED
      BY <3>1, <3>2
  <2>2. QED
    BY <1>7, <2>1
<1>8. ASSUME NEW n \in Node \ S
      PROVE  Blank(t2, n)
  <2>1. Blank(t, n) /\ n \notin X
    BY DEF Shape
  <2>2. \A d \in Side : t2.kid[d][n] = Nil
    BY <1>0, <2>1 DEF Blank
  <2>3. t2.parent[n] = Nil
    BY <1>0, <2>1 DEF Blank
  <2>4. QED
    BY <2>1, <2>2, <2>3 DEF Blank
<1>9. QED
  BY <1>2, <1>3, <1>4, <1>5, <1>6, <1>7, <1>8 DEF Shape

\* In t2, p, a child of g, has gone up, and g down to the side s of p.
IsRotated(t, t2, s, g, p) ==
    /\ t2 \in Tree
    /\ t2.root = IF t.root = g THEN p ELSE t.root
    /\ \A d \in Side, n \in Node :
          t2.kid[d][n] = IF n = g THEN IF d = s THEN t.kid[s][g] ELSE t.kid[s][p]
                         ELSE IF n = p THEN IF d = s THEN g ELSE t.kid[d][p]
                         ELSE IF t.kid[d][n] = g THEN p ELSE t.kid[d][n]
    /\ \A n \in Node : t2.parent[n] = IF n = p THEN t.parent[g] ELSE IF n = g THEN p
                                      ELSE IF n = t.kid[s][p] THEN g ELSE t.parent[n]

\* The nodes below each node after a rotation at g.
BelowRotated(t, D, s, g, p) ==
    [D EXCEPT ![p] = D[g], ![g] = {g} \cup D[t.kid[s][g]] \cup D[t.kid[s][p]]]

\* A node has its two children below it, whichever is called the first.
LEMMA BothSides ==
  ASSUME NEW t, NEW D, Shape(t, D), NEW n \in Node, NEW s \in Side
  PROVE  D[n] = {n} \cup D[t.kid[s][n]] \cup D[t.kid[Other(s)][n]]
BY DEF Shape, Side, Other

\* A rotation keeps the shape: the keys stay in order.
LEMMA RotatedShape ==
  ASSUME NEW t, NEW D, Shape(t, D), NEW s \in Side, NEW g \in Node, NEW p \in Node,
         p = t.kid[Other(s)][g], NEW t2, IsRotated(t, t2, s, g, p),
         \A n \in Node \ D[t.root] : t2.color[n] = t.color[n]
  PROVE  /\ Shape(t2, BelowRotated(t, D, s, g, p))
         /\ BelowRotated(t, D, s, g, p)[t2.root] = D[t.root]
<1>. DEFINE o == Other(s)
            D2 == BelowRotated(t, D, s, g, p)
            X == {g, p}
            a == t.kid[s][g]
            b == t.kid[s][p]
            c == t.kid[o][p]
<1>1. /\ o \in Side /\ o # s /\ Other(o) = s /\ \A d \in Side : d = s \/ d = o
      /\ t \in Tree /\ p # Nil /\ g # Nil
      /\ g \in D[t.root] /\ p \in D[t.root] /\ p # g /\ p # t.root /\ t.parent[p] = g
  BY Sides, NilAssumption, OneParent, KidSelf DEF Shape
<1>2. /\ a \in Ptr /\ b \in Ptr /\ c \in Ptr
      /\ D[a] \in SUBSET Node /\ D[b] \in SUBSET Node /\ D[c] \in SUBSET Node
      /\ D[g] = {g} \cup D[a] \cup D[p] /\ D[p] = {p} \cup D[b] \cup D[c]
  <2>1. /\ a \in Ptr /\ b \in Ptr /\ c \in Ptr
    BY <1>1, TreeTypes
  <2>2. D[g] = {g} \cup D[a] \cup D[p] /\ D[p] = {p} \cup D[b] \cup D[c]
    BY BothSides
  <2>3. QED
    BY <2>1, <2>2 DEF Shape
<1>3. a \notin X /\ b \notin X /\ c \notin X
  <2>1. a # g /\ b # p /\ c # p
    BY <1>1, KidSelf, NilAssumption
  <2>2. a # p
    BY <1>1, OneParent
  <2>3. g \notin D[p]
    BY <1>1, BelowNode
  <2>4. b # g /\ c # g
    BY <1>1, <2>3, KidSelf
  <2>5. QED
    BY <2>1, <2>2, <2>4
<1>4. /\ D2 \in [Ptr -> SUBSET Node]
      /\ D2[p] = D[g] /\ D2[g] = {g} \cup D[a] \cup D[b]
      /\ \A m \in Ptr \ X : D2[m] = D[m]
  <2>1. g \in Ptr /\ p \in Ptr /\ D \in [Ptr -> SUBSET Node] /\ p # g
    BY <1>1 DEF Ptr, Shape
  <2>2. D[g] \in SUBSET Node /\ {g} \cup D[a] \cup D[b] \in SUBSET Node
    BY <1>2, BelowNode
  <2>3. QED
    BY <2>1, <2>2 DEF BelowRotated
<1>5. /\ t2 \in Tree /\ t2.root = IF t.root = g THEN p ELSE t.root
      /\ t2.kid[s][g] = a /\ t2.kid[o][g] = b /\ t2.kid[s][p] = g /\ t2.kid[o][p] = c
      /\ \A n \in Node \ X, d \in Side : t2.kid[d][n] = IF t.kid[d][n] = g THEN p ELSE t.kid[d][n]
      /\ t2.parent[p] = t.parent[g] /\ t2.parent[g] = p
      /\ \A n \in Node \ X : t2.parent[n] = IF n = b THEN g ELSE t.parent[n]
  <2>1. g \in Node /\ p \in Node /\ t \in Tree /\ o \in Side /\ o # s /\ p # g
    BY <1>1
  <2>. HIDE DEF o
  <2>2. QED
    BY <2>1 DEF IsRotated
<1>. HIDE DEF D2
<1>6. ASSUME NEW x \in X
      PROVE  /\ D2[x] = {x} \cup D2[t2.kid[s][x]] \cup D2[t2.kid[o][x]]
             /\ \A d \in Side : \A m \in D2[t2.kid[d][x]] : Before(d, m, x)
             /\ \A d \in Side : t2.kid[d][x] # Nil => t2.parent[t2.kid[d][x]] = x
  <2>1. D2[a] = D[a] /\ D2[b] = D[b] /\ D2[c] = D[c]
    BY <1>2, <1>3, <1>4
  <2>2. /\ \A m \in D[a] : Before(s, m, g)
        /\ \A m \in D[b] : Before(s, m, p)
        /\ \A m \in D[c] : Before(o, m, p)
        /\ \A m \in D[p] : Before(o, m, g)
    BY <1>1 DEF Shape
  <2>3. Before(s, g, p)
    BY <1>1, <1>2, <2>2, BeforeOrder, SMTT(20)
  <2>4. CASE x = g
    <3>1. D2[x] = {x} \cup D2[t2.kid[s][x]] \cup D2[t2.kid[o][x]]
      BY <1>4, <1>5, <2>1, <2>4
    <3>2. ASSUME NEW d \in Side, NEW m \in D2[t2.kid[d][x]]
          PROVE  Before(d, m, x)
      <4>1. CASE d = s
        BY <1>5, <2>1, <2>2, <2>4, <3>2, <4>1
      <4>2. CASE d = o
        <5>1. m \in D[b] /\ D[b] \subseteq D[p]
          BY <1>2, <1>5, <2>1, <2>4, <3>2, <4>2
        <5>2. QED
          BY <2>2, <2>4, <4>2, <5>1
      <4>3. QED
        BY <1>1, <4>1, <4>2
    <3>3. ASSUME NEW d \in Side, t2.kid[d][x] # Nil
          PROVE  t2.parent[t2.kid[d][x]] = x
      <4>1. CASE d = s
        <5>0. a # Nil
          BY <1>5, <2>4, <3>3, <4>1
        <5>1. a \in Node \ X /\ t.parent[a] = g
          BY <1>2, <1>3, <5>0, OneParent, SMTT(20) DEF Ptr
        <5>2. a # b
          <6>1. ASSUME a = b
                PROVE  FALSE
            <7>1. t.parent[b] = p
              BY <5>0, <6>1, OneParent
            <7>2. QED
              BY <1>1, <5>1, <6>1, <7>1
          <6>2. QED
            BY <6>1
        <5>3. QED
          BY <1>5, <2>4, <4>1, <5>1, <5>2
      <4>2. CASE d = o
        <5>1. b \in Node \ X
          BY <1>2, <1>3, <1>5, <2>4, <3>3, <4>2 DEF Ptr
        <5>2. QED
          BY <1>5, <2>4, <4>2, <5>1
      <4>3. QED
        BY <1>1, <4>1, <4>2
    <3>4. QED
      BY <3>1, <3>2, <3>3
  <2>5. CASE x = p
    <3>1. D2[x] = {x} \cup D2[t2.kid[s][x]] \cup D2[t2.kid[o][x]]
      <4>1. D2[x] = {g, p} \cup D[a] \cup D[b] \cup D[c]
        BY <1>2, <1>4, <2>5
      <4>2. D2[t2.kid[s][x]] = {g} \cup D[a] \cup D[b] /\ D2[t2.kid[o][x]] = D[c]
        BY <1>4, <1>5, <2>1, <2>5
      <4>3. QED
        BY <2>5, <4>1, <4>2
    <3>2. ASSUME NEW m \in D2[g]
          PROVE  Before(s, m, p)
      <4>1. m \in Node
        BY <1>2, <1>4
      <4>2. CASE m \in D[a]
        BY <1>1, <2>2, <2>3, <4>1, <4>2, BeforeOrder
      <4>3. QED
        BY <1>4, <2>2, <2>3, <4>2
    <3>3. ASSUME NEW d \in Side, NEW m \in D2[t2.kid[d][x]]
          PROVE  Before(d, m, x)
      <4>1. CASE d = s
        BY <1>5, <2>5, <3>2, <3>3, <4>1
      <4>2. CASE d = o
        BY <1>5, <2>1, <2>2, <2>5, <3>3, <4>2
      <4>3. QED
        BY <1>1, <4>1, <4>2
    <3>4. ASSUME NEW d \in Side, t2.kid[d][x] # Nil
          PROVE  t2.parent[t2.kid[d][x]] = x
      <4>1. CASE d = s
        BY <1>5, <2>5, <4>1
      <4>2. CASE d = o
        <5>0. c # Nil
          BY <1>5, <2>5, <3>4, <4>2
        <5>1. c \in Node \ X /\ t.parent[c] = p
          BY <1>1, <1>2, <1>3, <5>0, OneParent, SMTT(20) DEF Ptr
        <5>2. c # b
          BY <1>1, <5>0, OneParent
        <5>3. QED
          BY <1>5, <2>5, <4>2, <5>1, <5>2
      <4>3. QED
        BY <1>1, <4>1, <4>2
    <3>5. QED
      BY <3>1, <3>3, <3>4
  <2>6. QED
    BY <2>4, <2>5
<1>7. \A x \in X : D2[x] = {x} \cup D2[t2.kid["rb_left"][x]] \cup D2[t2.kid["rb_right"][x]]
  BY <1>6 DEF Side, Other
<1>8. \A m \in Node \ X : t.parent[m] \notin X => t2.parent[m] = t.parent[m]
  <2>1. b # Nil => t.parent[b] = p
    BY OneParent
  <2>2. QED
    BY <1>5, <2>1, NilAssumption
<1>9. X \in SUBSET D[t.root] /\ g \in X /\ p \in X
  BY <1>1
<1>10. \A x \in X : x # g => t.parent[x] \in X
  BY <1>1
<1>11. \A m \in Node \ D[t.root] : t2.color[m] = t.color[m]
  OBVIOUS
<1>12. \A x \in X, d \in Side : \A m \in D2[t2.kid[d][x]] : Before(d, m, x)
  BY <1>6
<1>13. \A x \in X, d \in Side : t2.kid[d][x] # Nil => t2.parent[t2.kid[d][x]] = x
  BY <1>6
<1>. HIDE DEF X
<1>14. IsRebuilt(t, D, t2, D2, X, g, p)
  <2>1. \A n \in Node \ X, d \in Side : t2.kid[d][n] = IF t.kid[d][n] = g THEN p ELSE t.kid[d][n]
    BY <1>5
  <2>2. t2 \in Tree /\ t2.root = (IF t.root = g THEN p ELSE t.root) /\ t2.parent[p] = t.parent[g]
    BY <1>5
  <2>3. QED
    BY <1>4, <1>7, <1>8, <1>9, <1>10, <1>11, <1>12, <1>13, <2>1, <2>2 DEF IsRebuilt
<1>15. Shape(t2, D2) /\ D2[t2.root] = D[t.root]
  BY <1>14, Rebuilt
<1>16. QED
  BY <1>15 DEF D2

\* There is a tree that is t with p rotated up and the colours k.
Rotatable(t, s, g, p, k) == \E t2 : IsRotated(t, t2, s, g, p) /\ t2.color = k

\* There is one, with any colours.
LEMMA RotatedExists ==
  ASSUME NEW t \in Tree, NEW s \in Side, NEW g \in Node, NEW p \in Node,
         NEW k \in [Node -> {RED, BLACK}]
  PROVE  Rotatable(t, s, g, p, k)
<1>. DEFINE t2 == [root   |-> IF t.root = g THEN p ELSE t.root,
                   kid    |-> [d \in Side |-> [n \in Node |->
                                  IF n = g THEN IF d = s THEN t.kid[s][g] ELSE t.kid[s][p]
                                  ELSE IF n = p THEN IF d = s THEN g ELSE t.kid[d][p]
                                  ELSE IF t.kid[d][n] = g THEN p ELSE t.kid[d][n]]],
                   parent |-> [n \in Node |-> IF n = p THEN t.parent[g] ELSE IF n = g THEN p
                                              ELSE IF n = t.kid[s][p] THEN g ELSE t.parent[n]],
                   color  |-> k]
<1>1. /\ t.root \in Ptr /\ p \in Ptr /\ g \in Ptr /\ \A n \in Node : t.parent[n] \in Ptr
      /\ \A d \in Side, n \in Node : t.kid[d][n] \in Ptr
  BY TreeTypes DEF Ptr
<1>2. t2 \in Tree
  BY <1>1 DEF Tree
<1>3. IsRotated(t, t2, s, g, p)
  BY <1>2 DEF IsRotated
<1>4. t2.color = k
  OBVIOUS
<1>. HIDE DEF t2
<1>5. QED
  BY <1>3, <1>4 DEF Rotatable

-----------------------------------------------------------------------------
\* The side of p on which __rb_change_child finds old.
SideOf(t, old, p) == IF t.kid["rb_left"][p] = old THEN "rb_left" ELSE "rb_right"

\* What the operations on the pointers leave in each field: t2 is t after them.

KidSet(t, t2, s, n, c) ==
    /\ t2 \in Tree /\ t2.root = t.root /\ t2.parent = t.parent /\ t2.color = t.color
    /\ \A d \in Side, m \in Node : t2.kid[d][m] = IF d = s /\ m = n THEN c ELSE t.kid[d][m]

ParentColorSet(t, t2, n, p, c) ==
    /\ t2 \in Tree /\ t2.root = t.root /\ t2.kid = t.kid
    /\ \A m \in Node : t2.parent[m] = IF m = n THEN p ELSE t.parent[m]
    /\ \A m \in Node : t2.color[m] = IF m = n THEN c ELSE t.color[m]

ParentSet(t, t2, n, p) ==
    /\ t2 \in Tree /\ t2.root = t.root /\ t2.kid = t.kid /\ t2.color = t.color
    /\ \A m \in Node : t2.parent[m] = IF m = n THEN p ELSE t.parent[m]

ChildChanged(t, t2, old, new, p) ==
    /\ t2 \in Tree /\ t2.parent = t.parent /\ t2.color = t.color
    /\ t2.root = IF p = Nil THEN new ELSE t.root
    /\ \A d \in Side, m \in Node :
          t2.kid[d][m] = IF m = p /\ d = SideOf(t, old, p) THEN new ELSE t.kid[d][m]

ParentsRotated(t, t2, old, new, c) ==
    /\ t2 \in Tree
    /\ t2.root = IF t.parent[old] = Nil THEN new ELSE t.root
    /\ \A d \in Side, m \in Node :
          t2.kid[d][m] = IF m = t.parent[old] /\ d = SideOf(t, old, t.parent[old])
                         THEN new ELSE t.kid[d][m]
    /\ \A m \in Node : t2.parent[m] = IF m = old THEN new ELSE IF m = new THEN t.parent[old]
                                      ELSE t.parent[m]
    /\ \A m \in Node : t2.color[m] = IF m = old THEN c ELSE IF m = new THEN t.color[old]
                                     ELSE t.color[m]

\* The operations do this.
LEMMA SetKid ==
  ASSUME NEW t \in Tree, NEW s \in Side, NEW n \in Node, NEW c \in Ptr
  PROVE  KidSet(t, rb_set_kid(t, s, n, c), s, n, c)
BY DEF rb_set_kid, Tree, KidSet

\* rb_set_parent_color does this,
LEMMA SetParentColor ==
  ASSUME NEW t \in Tree, NEW n \in Node, NEW p \in Ptr, NEW c \in {RED, BLACK}
  PROVE  ParentColorSet(t, rb_set_parent_color(t, n, p, c), n, p, c)
BY DEF rb_set_parent_color, Tree, ParentColorSet

\* rb_set_parent_color_if,
LEMMA SetParentColorIf ==
  ASSUME NEW t \in Tree, NEW n \in Ptr, NEW p \in Ptr, NEW c \in {RED, BLACK}
  PROVE  ParentColorSet(t, rb_set_parent_color_if(t, n, p, c), n, p, c)
<1>1. CASE n = Nil
  BY <1>1, NilAssumption DEF rb_set_parent_color_if, ParentColorSet
<1>2. CASE n \in Node
  BY <1>2, SetParentColor, NilAssumption DEF rb_set_parent_color_if
<1>3. QED
  BY <1>1, <1>2 DEF Ptr

\* rb_set_parent,
LEMMA SetParent ==
  ASSUME NEW t \in Tree, NEW n \in Ptr, NEW p \in Ptr
  PROVE  ParentSet(t, rb_set_parent(t, n, p), n, p)
<1>1. CASE n = Nil
  BY <1>1, NilAssumption DEF rb_set_parent, ParentSet
<1>2. CASE n \in Node
  BY <1>2, NilAssumption DEF rb_set_parent, Tree, ParentSet
<1>3. QED
  BY <1>1, <1>2 DEF Ptr

\* __rb_change_child,
LEMMA ChangeChild ==
  ASSUME NEW t \in Tree, NEW old \in Node, NEW new \in Ptr, NEW p \in Ptr
  PROVE  ChildChanged(t, __rb_change_child(t, old, new, p), old, new, p)
<1>1. CASE p = Nil
  BY <1>1, NilAssumption DEF __rb_change_child, Tree, ChildChanged
<1>2. CASE p \in Node
  <2>1. __rb_change_child(t, old, new, p) = rb_set_kid(t, SideOf(t, old, p), p, new) /\ p # Nil
    BY <1>2, NilAssumption DEF __rb_change_child, SideOf
  <2>2. SideOf(t, old, p) \in Side
    BY DEF SideOf, Side
  <2>3. KidSet(t, __rb_change_child(t, old, new, p), SideOf(t, old, p), p, new)
    BY <1>2, <2>1, <2>2, SetKid
  <2>. DEFINE t2 == __rb_change_child(t, old, new, p)
  <2>. HIDE DEF t2
  <2>4. KidSet(t, t2, SideOf(t, old, p), p, new)
    BY <2>3 DEF t2
  <2>5. ChildChanged(t, t2, old, new, p)
    BY <2>1, <2>4 DEF KidSet, ChildChanged
  <2>6. QED
    BY <2>5 DEF t2
<1>3. QED
  BY <1>1, <1>2 DEF Ptr

\* and __rb_rotate_set_parents.
LEMMA RotateSetParents ==
  ASSUME NEW t \in Tree, NEW old \in Node, NEW new \in Node, old # new, NEW c \in {RED, BLACK}
  PROVE  ParentsRotated(t, __rb_rotate_set_parents(t, old, new, c), old, new, c)
<1>. DEFINE p  == t.parent[old]
            t0 == rb_set_parent_color(t, new, p, t.color[old])
            t1 == rb_set_parent_color(t0, old, new, c)
            t2 == __rb_change_child(t1, old, new, p)
<1>1. p \in Ptr /\ new \in Ptr /\ t.color[old] \in {RED, BLACK}
  BY TreeTypes DEF Ptr
<1>2. ParentColorSet(t, t0, new, p, t.color[old])
  BY <1>1, SetParentColor
<1>3. t2 = __rb_rotate_set_parents(t, old, new, c)
  BY DEF __rb_rotate_set_parents
<1>. HIDE DEF t0, p
<1>4. t0 \in Tree
  BY <1>2 DEF ParentColorSet
<1>5. ParentColorSet(t0, t1, old, new, c)
  BY <1>1, <1>4, SetParentColor
<1>. HIDE DEF t1
<1>6. t1 \in Tree
  BY <1>5 DEF ParentColorSet
<1>7. ChildChanged(t1, t2, old, new, p)
  BY <1>1, <1>6, ChangeChild
<1>. HIDE DEF t2
<1>8. SideOf(t1, old, p) = SideOf(t, old, p)
  BY <1>2, <1>5 DEF SideOf, ParentColorSet
<1>9. ParentsRotated(t, t2, old, new, c)
  <2>1. t2 \in Tree /\ t2.root = IF p = Nil THEN new ELSE t.root
    BY <1>2, <1>5, <1>7 DEF ParentColorSet, ChildChanged
  <2>2. ASSUME NEW d \in Side, NEW m \in Node
        PROVE  t2.kid[d][m] = IF m = p /\ d = SideOf(t, old, p) THEN new ELSE t.kid[d][m]
    BY <1>2, <1>5, <1>7, <1>8 DEF ParentColorSet, ChildChanged
  <2>3. ASSUME NEW m \in Node
        PROVE  /\ t2.parent[m] = IF m = old THEN new ELSE IF m = new THEN p ELSE t.parent[m]
               /\ t2.color[m] = IF m = old THEN c ELSE IF m = new THEN t.color[old] ELSE t.color[m]
    BY <1>2, <1>5, <1>7 DEF ParentColorSet, ChildChanged
  <2>4. QED
    BY <2>1, <2>2, <2>3 DEF ParentsRotated, p
<1>10. QED
  BY <1>3, <1>9

\* Where a node hangs.
LEMMA Place ==
  ASSUME NEW t, NEW D, Shape(t, D), NEW g \in D[t.root]
  PROVE  /\ g \in Node /\ t.parent[g] \in Ptr \ {g} /\ (t.parent[g] = Nil <=> t.root = g)
         /\ \A d \in Side, n \in Node :
               t.kid[d][n] = g <=> n = t.parent[g] /\ d = SideOf(t, g, t.parent[g])
<1>1. /\ g \in Node /\ g # Nil /\ t.parent[g] \in Ptr \ {g} /\ (t.parent[g] = Nil <=> t.root = g)
  BY Parents, NilAssumption DEF Ptr
<1>2. ASSUME NEW d \in Side, NEW n \in Node, t.kid[d][n] = g
      PROVE  n = t.parent[g] /\ d = SideOf(t, g, t.parent[g])
  <2>1. n = t.parent[g] /\ \A c \in Side : t.kid[c][n] = g => c = d
    BY <1>1, <1>2, OneParent
  <2>2. QED
    BY <1>2, <2>1 DEF SideOf, Side
<1>3. ASSUME NEW d \in Side, NEW n \in Node, n = t.parent[g], d = SideOf(t, g, t.parent[g])
      PROVE  t.kid[d][n] = g
  <2>1. g # t.root
    BY <1>1, <1>3, NilAssumption
  <2>2. PICK c \in Side : t.kid[c][n] = g
    BY <1>3, <2>1, Parents
  <2>3. QED
    BY <1>3, <2>2 DEF SideOf, Side
<1>4. QED
  BY <1>1, <1>2, <1>3

\* What a rotation has done when only the parents of g and p and the child of the
\* old parent of g are left to set: __rb_rotate_set_parents does the rest.
Turned(t, u, s, g, p) ==
    /\ u \in Tree /\ u.root = t.root
    /\ \A d \in Side, n \in Node :
          u.kid[d][n] = IF n = g /\ d # s THEN t.kid[s][p] ELSE IF n = p /\ d = s THEN g
                        ELSE t.kid[d][n]
    /\ \A n \in Node \ {p} : u.parent[n] = IF n = t.kid[s][p] THEN g ELSE t.parent[n]

\* It is a rotation.
LEMMA TurnedRotates ==
  ASSUME NEW t, NEW D, Shape(t, D), NEW s \in Side, NEW g \in Node, NEW p \in Node,
         p = t.kid[Other(s)][g], NEW u, Turned(t, u, s, g, p), NEW c,
         NEW t2, ParentsRotated(u, t2, g, p, c)
  PROVE  IsRotated(t, t2, s, g, p)
<1>. DEFINE q == t.parent[g]
            b == t.kid[s][p]
<1>1. /\ Other(s) \in Side /\ Other(s) # s /\ \A d \in Side : d = s \/ d = Other(s)
      /\ t \in Tree /\ p # Nil /\ g # Nil
      /\ g \in D[t.root] /\ p \in D[t.root] /\ p # g /\ t.parent[p] = g
  <2>1. /\ Other(s) \in Side /\ Other(s) # s /\ (\A d \in Side : d = s \/ d = Other(s))
        /\ t \in Tree /\ p # Nil /\ g # Nil
    BY Sides, NilAssumption DEF Shape
  <2>2. g \in D[t.root] /\ p \in D[t.root] /\ p # g /\ t.parent[p] = g
    BY <2>1, OneParent, KidSelf
  <2>3. QED
    BY <2>1, <2>2
<1>2. /\ q \in Ptr /\ q # g /\ (q = Nil <=> t.root = g)
      /\ \A d \in Side, n \in Node : t.kid[d][n] = g <=> n = q /\ d = SideOf(t, g, q)
  BY <1>1, Place
<1>3. g \notin D[p] /\ b # g /\ t.kid[Other(s)][p] # g
  <2>1. g \notin D[p]
    BY <1>1, BelowNode
  <2>2. QED
    BY <1>1, <2>1, KidSelf
<1>4. q # p
  <2>1. \A d \in Side : t.kid[d][p] # g
    BY <1>1, <1>3
  <2>2. SideOf(t, g, q) \in Side
    BY DEF SideOf, Side
  <2>3. QED
    BY <1>2, <2>1, <2>2
<1>5. u.parent[g] = q
  BY <1>1, <1>3 DEF Turned
<1>6. q # Nil => SideOf(u, g, q) = SideOf(t, g, q)
  <2>1. ASSUME q # Nil
        PROVE  u.kid["rb_left"][q] = t.kid["rb_left"][q]
    BY <1>2, <1>4, <2>1 DEF Turned, Side, Ptr
  <2>2. QED
    BY <2>1 DEF SideOf
<1>. HIDE DEF q, b
<1>7. t2 \in Tree /\ t2.root = IF t.root = g THEN p ELSE t.root
  BY <1>2, <1>5 DEF ParentsRotated, Turned
<1>8. ASSUME NEW d \in Side, NEW n \in Node
      PROVE  t2.kid[d][n] = IF n = g THEN IF d = s THEN t.kid[s][g] ELSE t.kid[s][p]
                            ELSE IF n = p THEN IF d = s THEN g ELSE t.kid[d][p]
                            ELSE IF t.kid[d][n] = g THEN p ELSE t.kid[d][n]
  <2>1. t2.kid[d][n] = IF n = q /\ d = SideOf(t, g, q) THEN p ELSE u.kid[d][n]
    BY <1>1, <1>5, <1>6, NilAssumption DEF ParentsRotated
  <2>2. u.kid[d][n] = IF n = g /\ d # s THEN t.kid[s][p] ELSE IF n = p /\ d = s THEN g
                      ELSE t.kid[d][n]
    BY DEF Turned
  <2>3. t.kid[d][n] = g <=> n = q /\ d = SideOf(t, g, q)
    BY <1>2
  <2>4. CASE n = g
    <3>1. t2.kid[d][n] = IF d # s THEN t.kid[s][p] ELSE t.kid[d][n]
      BY <1>1, <1>2, <2>1, <2>2, <2>4
    <3>2. QED
      BY <2>4, <3>1
  <2>5. CASE n = p
    BY <1>1, <1>4, <2>1, <2>2, <2>5
  <2>6. CASE n # g /\ n # p
    BY <2>1, <2>2, <2>3, <2>6
  <2>7. QED
    BY <2>4, <2>5, <2>6
<1>9. ASSUME NEW n \in Node
      PROVE  t2.parent[n] = IF n = p THEN t.parent[g] ELSE IF n = g THEN p
                            ELSE IF n = t.kid[s][p] THEN g ELSE t.parent[n]
  BY <1>1, <1>5 DEF ParentsRotated, Turned, q
<1>10. QED
  BY <1>7, <1>8, <1>9 DEF IsRotated

-----------------------------------------------------------------------------
\* The rules about the colours.  B has the number of black nodes on every path
\* downwards from a node; below x, on the side f, it is one lower than it should be.
Weight(t, n)     == IF t.color[n] = BLACK THEN 1 ELSE 0
Lack(x, f, n, d) == IF n = x /\ d = f THEN 1 ELSE 0
Counts(t, B, x, f) ==
    /\ B \in [Ptr -> Nat] /\ B[Nil] = 0
    /\ \A n \in Node, d \in Side : B[n] = Weight(t, n) + B[t.kid[d][n]] + Lack(x, f, n, d)

\* No red node has a red child, but for x with its child y.
RedsApart(t, x, y) ==
    \A n \in Node, d \in Side :
        IsRed(t, n) /\ IsRed(t, t.kid[d][n]) => n = x /\ t.kid[d][n] = y

\* A rotation keeps the counts if they are right at the nodes it turns; the other
\* child c of p may become black (e = 1).
CountsRotated(B, g, p, c, v, e) == [B EXCEPT ![c] = @ + e, ![p] = B[g], ![g] = v]

\* What the colours of the turned nodes must be for that.
CountsFit(t, t2, B, s, g, p, c, v, e, x, f, y, h) ==
    /\ c = t.kid[Other(s)][p] /\ v \in Nat /\ e \in {0, 1}
    /\ c = Nil => e = 0
    /\ c # Nil => Weight(t2, c) = Weight(t, c) + e
    /\ \A n \in Node \ {g, p, c} : t2.color[n] = t.color[n]
    /\ \A n \in Node \ {g, p}, d \in Side : Lack(y, h, n, d) = Lack(x, f, n, d)
    /\ v = Weight(t2, g) + B[t.kid[s][g]] + Lack(y, h, g, s)
    /\ v = Weight(t2, g) + B[t.kid[s][p]] + Lack(y, h, g, Other(s))
    /\ B[g] = Weight(t2, p) + v + Lack(y, h, p, s)
    /\ B[g] = Weight(t2, p) + B[c] + e + Lack(y, h, p, Other(s))

\* Then they are.
LEMMA RotatedCounts ==
  ASSUME NEW t, NEW D, Shape(t, D), NEW s \in Side, NEW g \in Node, NEW p \in Node,
         p = t.kid[Other(s)][g], NEW t2, IsRotated(t, t2, s, g, p),
         NEW B, NEW x, NEW f, Counts(t, B, x, f),
         NEW c, NEW v, NEW e, NEW y, NEW h, CountsFit(t, t2, B, s, g, p, c, v, e, x, f, y, h)
  PROVE  Counts(t2, CountsRotated(B, g, p, c, v, e), y, h)
<1>0. /\ c = t.kid[Other(s)][p] /\ v \in Nat /\ e \in {0, 1}
      /\ c = Nil => e = 0
      /\ c # Nil => Weight(t2, c) = Weight(t, c) + e
      /\ \A n \in Node \ {g, p, c} : t2.color[n] = t.color[n]
      /\ \A n \in Node \ {g, p}, d \in Side : Lack(y, h, n, d) = Lack(x, f, n, d)
      /\ v = Weight(t2, g) + B[t.kid[s][g]] + Lack(y, h, g, s)
      /\ v = Weight(t2, g) + B[t.kid[s][p]] + Lack(y, h, g, Other(s))
      /\ B[g] = Weight(t2, p) + v + Lack(y, h, p, s)
      /\ B[g] = Weight(t2, p) + B[c] + e + Lack(y, h, p, Other(s))
  BY DEF CountsFit
<1>. DEFINE B2 == CountsRotated(B, g, p, c, v, e)
            o  == Other(s)
            a  == t.kid[s][g]
            b  == t.kid[s][p]
<1>1. /\ o \in Side /\ o # s /\ \A d \in Side : d = s \/ d = o
      /\ t \in Tree /\ p # Nil /\ g # Nil /\ Nil \notin Node /\ c = t.kid[o][p]
  BY <1>0, Sides, NilAssumption DEF Shape
<1>2. p # g /\ a # g /\ a # p /\ b # p /\ c # p /\ b # g /\ c # g /\ (c # Nil => a # c /\ b # c)
  <2>1. p # g /\ a # g /\ b # p /\ c # p
    BY <1>1, KidSelf
  <2>2. a # p
    BY <1>1, OneParent
  <2>3. g \notin D[p]
    BY <1>1, BelowNode
  <2>4. b # g /\ c # g
    BY <1>1, <2>3, KidSelf
  <2>5. c # Nil => a # c /\ b # c
    BY <1>1, <2>1, OneParent
  <2>6. QED
    BY <2>1, <2>2, <2>4, <2>5
<1>3. a \in Ptr /\ b \in Ptr /\ c \in Ptr /\ g \in Ptr /\ p \in Ptr /\ Nil \in Ptr
  BY <1>0, <1>1, TreeTypes DEF Ptr
<1>4. B \in [Ptr -> Nat] /\ B[Nil] = 0
  BY DEF Counts
<1>5. /\ B2 \in [Ptr -> Nat] /\ B2[Nil] = 0
      /\ B2[p] = B[g] /\ B2[g] = v /\ B2[c] = B[c] + e
      /\ \A m \in Ptr \ {g, p, c} : B2[m] = B[m]
  <2>1. /\ B[c] + e \in Nat /\ B[g] \in Nat
        /\ c = Nil => B[c] + e = 0
    <3>0. e \in Nat
      BY <1>0
    <3>1. B[c] \in Nat /\ B[g] \in Nat
      BY <1>0, <1>3, <1>4
    <3>2. c = Nil => B[c] = 0 /\ e = 0
      BY <1>0, <1>4
    <3>3. B[c] + e \in Nat
      BY <3>0, <3>1
    <3>4. c = Nil => B[c] + e = 0
      BY <3>2
    <3>5. QED
      BY <3>1, <3>3, <3>4
  <2>2. \A m \in Ptr : B2[m] = IF m = g THEN v ELSE IF m = p THEN B[g]
                               ELSE IF m = c THEN B[c] + e ELSE B[m]
    BY <1>0, <1>2, <1>3, <1>4 DEF CountsRotated
  <2>3. B2 \in [Ptr -> Nat]
    <3>. DEFINE B0 == [B EXCEPT ![c] = @ + e]
    <3>1. B0 \in [Ptr -> Nat]
      BY <1>0, <1>3, <1>4, <2>1
    <3>2. B2 = [B0 EXCEPT ![p] = B[g], ![g] = v]
      BY DEF CountsRotated
    <3>. HIDE DEF B0
    <3>3. QED
      BY <1>0, <2>1, <3>1, <3>2
  <2>. HIDE DEF B2
  <2>4. QED
    BY <1>0, <1>1, <1>2, <1>3, <1>4, <2>1, <2>2, <2>3
<1>6. ASSUME NEW m \in {a, b}
      PROVE  B2[m] = B[m]
  <2>1. CASE m = Nil
    BY <1>0, <1>4, <1>5, <2>1
  <2>2. CASE m # Nil
    <3>1. m \in Ptr \ {g, p, c}
      BY <1>0, <1>2, <1>3, <2>2
    <3>2. QED
      BY <1>0, <1>5, <3>1
  <2>3. QED
    BY <1>0, <2>1, <2>2
<1>. HIDE DEF B2
<1>7. ASSUME NEW n \in Node, NEW d \in Side
      PROVE  B2[n] = Weight(t2, n) + B2[t2.kid[d][n]] + Lack(y, h, n, d)
  <2>0. t2.kid[d][n] = IF n = g THEN IF d = s THEN a ELSE b
                       ELSE IF n = p THEN IF d = s THEN g ELSE t.kid[d][p]
                       ELSE IF t.kid[d][n] = g THEN p ELSE t.kid[d][n]
    BY DEF IsRotated
  <2>1. CASE n = g
    <3>1. CASE d = s
      BY <1>0, <1>5, <1>6, <2>0, <2>1, <3>1
    <3>2. CASE d = o
      BY <1>0, <1>1, <1>5, <1>6, <2>0, <2>1, <3>2
    <3>3. QED
      BY <1>0, <1>1, <3>1, <3>2
  <2>2. CASE n = p
    <3>1. CASE d = s
      BY <1>0, <1>2, <1>5, <2>0, <2>2, <3>1
    <3>2. CASE d = o
      <4>1. t2.kid[d][n] = c
        BY <1>0, <1>1, <1>2, <2>0, <2>2, <3>2
      <4>2. B2[n] = B[g] /\ B2[c] = B[c] + e
        BY <1>0, <1>5, <2>2
      <4>3. Weight(t2, p) \in {0, 1} /\ Lack(y, h, p, o) \in {0, 1} /\ B[c] \in Nat
        BY <1>0, <1>3, <1>4 DEF Weight, Lack
      <4>. HIDE DEF o
      <4>4. Weight(t2, n) = Weight(t2, p) /\ Lack(y, h, n, d) = Lack(y, h, p, o)
        BY <1>0, <2>2, <3>2
      <4>5. B[g] = Weight(t2, p) + B[c] + e + Lack(y, h, p, o) /\ e \in {0, 1}
        BY <1>0 DEF o
      <4>6. QED
        BY <4>1, <4>2, <4>3, <4>4, <4>5
    <3>3. QED
      BY <1>0, <1>1, <3>1, <3>2
  <2>3. CASE n \notin {g, p}
    <3>1. B[n] = Weight(t, n) + B[t.kid[d][n]] + Lack(x, f, n, d)
      BY DEF Counts
    <3>2. Lack(y, h, n, d) = Lack(x, f, n, d)
      BY <1>0, <2>3
    <3>3. B2[t2.kid[d][n]] = B[t.kid[d][n]]
      <4>1. CASE t.kid[d][n] = g
        BY <1>0, <1>5, <2>0, <2>3, <4>1
      <4>2. CASE t.kid[d][n] # g
        <5>1. t.kid[d][n] # p /\ (t.kid[d][n] # Nil => t.kid[d][n] # c)
          BY <1>1, <2>3, OneParent
        <5>2. t2.kid[d][n] = t.kid[d][n] /\ t.kid[d][n] \in Ptr
          BY <1>0, <1>1, <2>0, <2>3, <4>2, TreeTypes
        <5>3. QED
          BY <1>0, <1>4, <1>5, <4>2, <5>1, <5>2
      <4>3. QED
        BY <1>0, <4>1, <4>2
    <3>4. B[t.kid[d][n]] \in Nat /\ Lack(x, f, n, d) \in {0, 1} /\ Weight(t, n) \in {0, 1}
      BY <1>0, <1>1, <1>4, TreeTypes DEF Lack, Weight
    <3>5. CASE n = c
      <4>1. B2[n] = B[n] + e /\ Weight(t2, n) = Weight(t, n) + e
        BY <1>0, <1>1, <1>5, <3>5
      <4>2. QED
        BY <1>0, <3>1, <3>2, <3>3, <3>4, <4>1
    <3>6. CASE n # c
      <4>1. B2[n] = B[n] /\ Weight(t2, n) = Weight(t, n)
        BY <1>0, <1>5, <2>3, <3>6 DEF Ptr, Weight
      <4>2. QED
        BY <1>0, <3>1, <3>2, <3>3, <3>4, <4>1
    <3>7. QED
      BY <1>0, <3>5, <3>6
  <2>4. QED
    BY <1>0, <2>1, <2>2, <2>3
<1>8. QED
  BY <1>0, <1>5, <1>7 DEF Counts, B2

\* When no path is short, it does not matter on which side none is.
LEMMA NoneShort ==
  ASSUME NEW t, NEW B, NEW f, Counts(t, B, Nil, f), NEW h
  PROVE  Counts(t, B, Nil, h)
BY NilAssumption DEF Counts, Lack

-----------------------------------------------------------------------------
\* A node is linked in where the descent has ended.
IsLinked(t, t2, n, p, s) ==
    /\ t2 \in Tree
    /\ t2.root = IF p = Nil THEN n ELSE t.root
    /\ \A d \in Side, m \in Node :
          t2.kid[d][m] = IF m = p /\ d = s THEN n ELSE IF m = n THEN Nil ELSE t.kid[d][m]
    /\ \A m \in Node : t2.parent[m] = IF m = n THEN p ELSE t.parent[m]
    /\ \A m \in Node : t2.color[m] = IF m = n THEN RED ELSE t.color[m]

\* n belongs at the side s of p, or at the root of an empty tree.
Fits(t, D, n, p, s) ==
    /\ \/ p = Nil /\ t.root = Nil
       \/ s \in Side /\ p \in D[t.root] /\ Before(s, n, p) /\ t.kid[s][p] = Nil
    /\ \A a \in Node, d \in Side : p \in D[t.kid[d][a]] => Before(d, n, a)

\* The nodes below each node then.
BelowLinked(D, n, p) == [m \in Ptr |-> IF p \in D[m] THEN D[m] \cup {n} ELSE D[m]]

\* The tree has one node more.
LEMMA LinkedShape ==
  ASSUME NEW t, NEW D, Shape(t, D), NEW n \in Node \ D[t.root], NEW p, NEW s, Fits(t, D, n, p, s),
         NEW t2, IsLinked(t, t2, n, p, s)
  PROVE  /\ Shape(t2, BelowLinked(D, n, p))
         /\ BelowLinked(D, n, p)[t2.root] = D[t.root] \cup {n}
<1>0. /\ \/ p = Nil /\ t.root = Nil
         \/ s \in Side /\ p \in D[t.root] /\ Before(s, n, p) /\ t.kid[s][p] = Nil
      /\ \A a \in Node, d \in Side : p \in D[t.kid[d][a]] => Before(d, n, a)
  BY DEF Fits
<1>. DEFINE D2 == BelowLinked(D, n, p)
            S  == D[t.root]
<1>1. /\ t \in Tree /\ D \in [Ptr -> SUBSET Node] /\ D[Nil] = {} /\ Nil \in Ptr /\ Nil \notin Node
      /\ n \in Ptr /\ S \in SUBSET Node /\ Node \subseteq Ptr /\ t.root \in Ptr
  BY Parents, NilAssumption, TreeTypes DEF Shape, Ptr
<1>2. Blank(t, n) /\ D[n] = {n} /\ p # n
  <2>1. Blank(t, n)
    BY DEF Shape
  <2>2. D[n] = {n}
    BY <1>1, <2>1 DEF Shape, Blank, Side
  <2>3. QED
    BY <1>0, <1>1, <2>1, <2>2
<1>3. \A d \in Side, m \in Node : t.kid[d][m] # n
  <2>1. ASSUME NEW d \in Side, NEW m \in Node, t.kid[d][m] = n
        PROVE  FALSE
    <3>1. t.kid[d][m] # Nil
      BY <1>1, <2>1
    <3>2. QED
      BY <2>1, <3>1, OneParent
  <2>2. QED
    BY <2>1
<1>4. /\ D2 \in [Ptr -> SUBSET Node] /\ D2[Nil] = {} /\ D2[n] = {n}
      /\ \A m \in Ptr : D2[m] = IF p \in D[m] THEN D[m] \cup {n} ELSE D[m]
  <2>1. \A m \in Ptr : D2[m] = IF p \in D[m] THEN D[m] \cup {n} ELSE D[m]
    BY DEF BelowLinked
  <2>2. D2 \in [Ptr -> SUBSET Node]
    BY <1>1 DEF BelowLinked
  <2>3. QED
    BY <1>1, <1>2, <2>1, <2>2
<1>. HIDE DEF D2
<1>5. /\ t2 \in Tree /\ t2.root = IF p = Nil THEN n ELSE t.root
      /\ \A d \in Side, m \in Node :
            t2.kid[d][m] = IF m = p /\ d = s THEN n ELSE IF m = n THEN Nil ELSE t.kid[d][m]
      /\ \A m \in Node : t2.parent[m] = IF m = n THEN p ELSE t.parent[m]
      /\ \A m \in Node : t2.color[m] = IF m = n THEN RED ELSE t.color[m]
  BY DEF IsLinked
<1>6. D2[t2.root] = S \cup {n}
  <2>1. CASE p = Nil /\ t.root = Nil
    BY <1>1, <1>4, <1>5, <2>1
  <2>2. CASE p \in S
    BY <1>1, <1>4, <1>5, <2>2
  <2>3. QED
    BY <1>0, <2>1, <2>2
<1>7. ASSUME NEW m \in Node
      PROVE  D2[m] = {m} \cup D2[t2.kid["rb_left"][m]] \cup D2[t2.kid["rb_right"][m]]
  <2>1. D[m] = {m} \cup D[t.kid["rb_left"][m]] \cup D[t.kid["rb_right"][m]]
    BY DEF Shape
  <2>2. t.kid["rb_left"][m] \in Ptr /\ t.kid["rb_right"][m] \in Ptr
    BY <1>1, TreeTypes DEF Side
  <2>3. CASE m = n
    BY <1>2, <1>4, <1>5, <2>3 DEF Side
  <2>4. CASE m = p
    <3>1. s \in Side /\ t.kid[s][p] = Nil
      BY <1>0, <1>1, <2>4
    <3>2. t2.kid[s][m] = n /\ t2.kid[Other(s)][m] = t.kid[Other(s)][m]
      BY <1>2, <1>5, <2>4, <3>1, Sides
    <3>3. p \in D[m] /\ p \notin D[t.kid[Other(s)][m]]
      BY <2>4, <3>1, BelowNode, Sides
    <3>4. D2[m] = D[m] \cup {n} /\ D2[t2.kid[Other(s)][m]] = D[t.kid[Other(s)][m]]
      BY <1>1, <1>4, <2>2, <3>1, <3>2, <3>3, Sides DEF Side, Other
    <3>5. D[m] = {m} \cup D[t.kid[Other(s)][m]]
      BY <1>1, <2>4, <3>1, BothSides
    <3>6. D2[m] = {m} \cup D2[t2.kid[s][m]] \cup D2[t2.kid[Other(s)][m]]
      BY <1>4, <3>2, <3>4, <3>5
    <3>7. QED
      BY <3>1, <3>6 DEF Side, Other
  <2>5. CASE m # n /\ m # p
    <3>1. \A d \in Side : t2.kid[d][m] = t.kid[d][m]
      BY <1>5, <2>5
    <3>2. QED
      BY <1>1, <1>4, <2>1, <2>2, <2>5, <3>1 DEF Side
  <2>6. QED
    BY <2>3, <2>4, <2>5
<1>8. ASSUME NEW m \in Node, NEW d \in Side, NEW x \in D2[t2.kid[d][m]]
      PROVE  Before(d, x, m)
  <2>1. t.kid[d][m] \in Ptr
    BY <1>1, TreeTypes
  <2>2. CASE m = p /\ d = s
    <3>1. x = n
      BY <1>4, <1>5, <1>8, <2>2
    <3>2. QED
      BY <1>0, <1>1, <2>2, <3>1
  <2>3. CASE m = n /\ ~(m = p /\ d = s)
    BY <1>4, <1>5, <1>8, <2>3
  <2>4. CASE m # n /\ ~(m = p /\ d = s)
    <3>1. t2.kid[d][m] = t.kid[d][m]
      BY <1>5, <2>4
    <3>2. CASE x \in D[t.kid[d][m]]
      BY <3>2 DEF Shape
    <3>3. CASE x \notin D[t.kid[d][m]]
      BY <1>0, <1>4, <1>8, <2>1, <3>1, <3>3
    <3>4. QED
      BY <3>2, <3>3
  <2>5. QED
    BY <2>2, <2>3, <2>4
<1>9. t2.root # Nil => t2.parent[t2.root] = Nil
  <2>1. CASE p = Nil
    BY <1>5, <2>1
  <2>2. CASE p \in S
    <3>1. t.root # Nil /\ t.root # n
      BY <1>1, <2>2, Parents
    <3>2. t.parent[t.root] = Nil /\ t.root \in Node
      BY <1>1, <3>1 DEF Shape, Ptr
    <3>3. QED
      BY <1>1, <1>5, <2>2, <3>1, <3>2
  <2>3. QED
    BY <1>0, <2>1, <2>2
<1>10. ASSUME NEW m \in Node, NEW d \in Side, t2.kid[d][m] # Nil
       PROVE  t2.parent[t2.kid[d][m]] = m
  <2>1. CASE m = p /\ d = s
    BY <1>5, <2>1
  <2>2. CASE ~(m = p /\ d = s)
    <3>1. m # n /\ t2.kid[d][m] = t.kid[d][m]
      BY <1>5, <1>10, <2>2
    <3>2. t.kid[d][m] \in Node /\ t.kid[d][m] # n /\ t.parent[t.kid[d][m]] = m
      BY <1>3, <1>10, <3>1, OneParent, KidSelf
    <3>3. QED
      BY <1>5, <3>1, <3>2
  <2>3. QED
    BY <2>1, <2>2
<1>11. ASSUME NEW m \in Node, m \notin S \cup {n}
       PROVE  Blank(t2, m)
  <2>1. Blank(t, m)
    BY <1>11 DEF Shape
  <2>2. m # p
    BY <1>0, <1>1, <1>11
  <2>3. QED
    BY <1>5, <1>11, <2>1, <2>2 DEF Blank
<1>12. Shape(t2, D2)
  <2>1. \A m \in Node, d \in Side : \A x \in D2[t2.kid[d][m]] : Before(d, x, m)
    BY <1>8
  <2>2. \A m \in D2[t2.root], d \in Side : t2.kid[d][m] # Nil => t2.parent[t2.kid[d][m]] = m
    BY <1>1, <1>6, <1>10
  <2>3. \A m \in Node \ D2[t2.root] : Blank(t2, m)
    BY <1>6, <1>11
  <2>4. QED
    BY <1>4, <1>5, <1>7, <1>9, <2>1, <2>2, <2>3 DEF Shape
<1>13. QED
  BY <1>6, <1>12 DEF D2

-----------------------------------------------------------------------------
\* ev_map_erase.

\* In t2, n is gone from t and its one child c, or Nil, in its place.
IsSpliced(t, t2, n, c) ==
    /\ t2 \in Tree
    /\ t2.root = IF t.root = n THEN c ELSE t.root
    /\ \A d \in Side, m \in Node :
          t2.kid[d][m] = IF m = n THEN Nil ELSE IF t.kid[d][m] = n THEN c ELSE t.kid[d][m]
    /\ \A m \in Node : t2.parent[m] = IF m = n THEN Nil ELSE IF m = c THEN t.parent[n] ELSE t.parent[m]
    /\ \A m \in Node : t2.color[m] = IF m = n THEN RED ELSE IF m = c THEN t.color[n] ELSE t.color[m]

\* n has no child but c.
OneChild(t, n, c) == \E s \in Side : t.kid[s][n] = c /\ t.kid[Other(s)][n] = Nil

\* The nodes below each node then.
BelowSpliced(D, n) == [m \in Ptr |-> IF m = n THEN {n} ELSE D[m] \ {n}]

\* The tree has one node less.
LEMMA SplicedShape ==
  ASSUME NEW t, NEW D, Shape(t, D), NEW n \in D[t.root], NEW c, OneChild(t, n, c),
         NEW t2, IsSpliced(t, t2, n, c)
  PROVE  /\ Shape(t2, BelowSpliced(D, n))
         /\ BelowSpliced(D, n)[t2.root] = D[t.root] \ {n}
         /\ \A m \in Node \ {n}, d \in Side : BelowSpliced(D, n)[t2.kid[d][m]] = D[t.kid[d][m]] \ {n}
<1>. DEFINE D2 == BelowSpliced(D, n)
            S  == D[t.root]
<1>1. PICK s \in Side : t.kid[s][n] = c /\ t.kid[Other(s)][n] = Nil
  BY DEF OneChild
<1>2. /\ t \in Tree /\ D \in [Ptr -> SUBSET Node] /\ D[Nil] = {} /\ Nil \in Ptr /\ Nil \notin Node
      /\ n \in Ptr /\ n \in Node /\ S \in SUBSET Node /\ Node \subseteq Ptr /\ t.root \in Ptr /\ n # Nil
  BY Parents, NilAssumption, TreeTypes DEF Shape, Ptr
<1>3. /\ c \in Ptr /\ c # n /\ n \notin D[c] /\ D[n] = {n} \cup D[c]
  <2>1. c \in Ptr /\ n \notin D[c]
    BY <1>1, <1>2, BelowNode
  <2>2. D[n] = {n} \cup D[c]
    BY <1>1, <1>2, BothSides
  <2>3. c # n
    BY <1>1, <1>2, KidSelf
  <2>4. QED
    BY <2>1, <2>2, <2>3
<1>4. /\ D2 \in [Ptr -> SUBSET Node] /\ D2[n] = {n}
      /\ \A m \in Ptr \ {n} : D2[m] = D[m] \ {n}
  BY <1>2 DEF BelowSpliced
<1>. HIDE DEF D2
<1>5. /\ t2 \in Tree /\ t2.root = IF t.root = n THEN c ELSE t.root
      /\ \A d \in Side, m \in Node :
            t2.kid[d][m] = IF m = n THEN Nil ELSE IF t.kid[d][m] = n THEN c ELSE t.kid[d][m]
      /\ \A m \in Node : t2.parent[m] = IF m = n THEN Nil ELSE IF m = c THEN t.parent[n] ELSE t.parent[m]
      /\ \A m \in Node : t2.color[m] = IF m = n THEN RED ELSE IF m = c THEN t.color[n] ELSE t.color[m]
  BY DEF IsSpliced
<1>6. D2[Nil] = {}
  BY <1>2, <1>4
<1>7. ASSUME NEW m \in Node \ {n}, NEW d \in Side
      PROVE  D2[t2.kid[d][m]] = D[t.kid[d][m]] \ {n}
  <2>1. t.kid[d][m] \in Ptr
    BY <1>2, TreeTypes
  <2>2. CASE t.kid[d][m] = n
    BY <1>3, <1>4, <1>5, <2>2
  <2>3. CASE t.kid[d][m] # n
    BY <1>4, <1>5, <2>1, <2>3
  <2>4. QED
    BY <2>2, <2>3
<1>8. D2[t2.root] = S \ {n}
  <2>1. CASE t.root = n
    BY <1>3, <1>4, <1>5, <2>1
  <2>2. CASE t.root # n
    BY <1>2, <1>4, <1>5, <2>2
  <2>3. QED
    BY <2>1, <2>2
<1>9. ASSUME NEW m \in Node
      PROVE  D2[m] = {m} \cup D2[t2.kid["rb_left"][m]] \cup D2[t2.kid["rb_right"][m]]
  <2>1. CASE m = n
    BY <1>4, <1>5, <1>6, <2>1 DEF Side
  <2>2. CASE m # n
    <3>1. D[m] = {m} \cup D[t.kid["rb_left"][m]] \cup D[t.kid["rb_right"][m]]
      BY DEF Shape
    <3>2. /\ D2[t2.kid["rb_left"][m]] = D[t.kid["rb_left"][m]] \ {n}
          /\ D2[t2.kid["rb_right"][m]] = D[t.kid["rb_right"][m]] \ {n}
      BY <1>7, <2>2 DEF Side
    <3>3. D2[m] = D[m] \ {n}
      BY <1>2, <1>4, <2>2
    <3>4. QED
      BY <2>2, <3>1, <3>2, <3>3
  <2>3. QED
    BY <2>1, <2>2
<1>10. ASSUME NEW m \in Node, NEW d \in Side, NEW x \in D2[t2.kid[d][m]]
       PROVE  Before(d, x, m)
  <2>1. m # n
    BY <1>5, <1>6, <1>10
  <2>2. x \in D[t.kid[d][m]]
    BY <1>7, <1>10, <2>1
  <2>3. QED
    BY <2>2 DEF Shape
<1>11. t2.root # Nil => t2.parent[t2.root] = Nil
  <2>1. CASE t.root = n
    <3>1. t.parent[n] = Nil
      BY <1>2, <2>1 DEF Shape
    <3>2. QED
      BY <1>3, <1>5, <2>1, <3>1 DEF Ptr
  <2>2. CASE t.root # n
    <3>1. c # Nil => c # t.root
      BY <1>1, <1>2, OneParent
    <3>2. t.root # Nil => t.parent[t.root] = Nil
      BY DEF Shape
    <3>3. QED
      BY <1>2, <1>5, <2>2, <3>1, <3>2 DEF Ptr
  <2>3. QED
    BY <2>1, <2>2
<1>12. ASSUME NEW m \in Node, NEW d \in Side, t2.kid[d][m] # Nil
       PROVE  t2.parent[t2.kid[d][m]] = m
  <2>1. m # n
    BY <1>5, <1>12
  <2>2. CASE t.kid[d][m] = n
    <3>1. t.parent[n] = m
      <4>1. t.kid[d][m] # Nil
        BY <1>2, <2>2
      <4>2. QED
        BY <2>2, <4>1, OneParent
    <3>2. t2.kid[d][m] = c /\ c \in Node
      BY <1>3, <1>5, <1>12, <2>1, <2>2 DEF Ptr
    <3>3. QED
      BY <1>3, <1>5, <3>1, <3>2
  <2>3. CASE t.kid[d][m] # n
    <3>1. t2.kid[d][m] = t.kid[d][m] /\ t.kid[d][m] # Nil
      BY <1>5, <1>12, <2>1, <2>3
    <3>2. t.parent[t.kid[d][m]] = m /\ t.kid[d][m] \in Node
      BY <3>1, OneParent, KidSelf
    <3>3. t.kid[d][m] # c
      BY <1>1, <1>2, <2>1, <3>1, OneParent
    <3>4. QED
      BY <1>5, <2>3, <3>1, <3>2, <3>3
  <2>4. QED
    BY <2>2, <2>3
<1>13. ASSUME NEW m \in Node, m \notin S \ {n}
       PROVE  Blank(t2, m)
  <2>1. CASE m = n
    BY <1>5, <2>1 DEF Blank
  <2>2. CASE m # n
    <3>1. Blank(t, m)
      BY <1>13, <2>2 DEF Shape
    <3>2. m # c
      <4>1. ASSUME m = c
            PROVE  FALSE
        <5>1. c # Nil
          BY <1>2, <4>1
        <5>2. c \in S
          BY <1>1, <1>2, <5>1, OneParent
        <5>3. QED
          BY <1>13, <2>2, <4>1, <5>2
      <4>2. QED
        BY <4>1
    <3>3. QED
      BY <1>2, <1>5, <2>2, <3>1, <3>2 DEF Blank
  <2>3. QED
    BY <2>1, <2>2
<1>14. Shape(t2, D2)
  <2>1. \A m \in Node, d \in Side : \A x \in D2[t2.kid[d][m]] : Before(d, x, m)
    BY <1>10
  <2>2. \A m \in D2[t2.root], d \in Side : t2.kid[d][m] # Nil => t2.parent[t2.kid[d][m]] = m
    BY <1>2, <1>8, <1>12
  <2>3. \A m \in Node \ D2[t2.root] : Blank(t2, m)
    BY <1>8, <1>13
  <2>4. QED
    BY <1>4, <1>5, <1>6, <1>9, <1>11, <2>1, <2>2, <2>3 DEF Shape
<1>15. QED
  BY <1>7, <1>8, <1>14 DEF D2

\* The paths that are one black node short when n is gone: those of its parent.
ShortAt(t, n, c) == IF c = Nil /\ t.color[n] = BLACK THEN t.parent[n] ELSE Nil

\* All the rules hold in t, but for the paths of x on the side f.
Coloured(t, B, x, f) ==
    Counts(t, B, x, f) /\ RedsApart(t, Nil, Nil) /\ IsBlack(t, t.root)

\* A node with one child is black, and the child is red.
LEMMA OneChildColours ==
  ASSUME NEW t, NEW D, Shape(t, D), NEW B, NEW f, Coloured(t, B, Nil, f),
         NEW n \in D[t.root], NEW c, OneChild(t, n, c)
  PROVE  B[c] = 0 /\ B[n] = Weight(t, n) /\ (c # Nil => t.color[c] = RED /\ t.color[n] = BLACK)
<1>1. PICK s \in Side : t.kid[s][n] = c /\ t.kid[Other(s)][n] = Nil
  BY DEF OneChild
<1>2. /\ t \in Tree /\ Nil \notin Node /\ n \in Node /\ Other(s) \in Side /\ c \in Ptr /\ n # Nil
  BY <1>1, Parents, NilAssumption, TreeTypes, Sides DEF Shape
<1>3. /\ B \in [Ptr -> Nat] /\ B[Nil] = 0
      /\ \A m \in Node, d \in Side : B[m] = Weight(t, m) + B[t.kid[d][m]] + Lack(Nil, f, m, d)
  BY DEF Coloured, Counts
<1>4. \A m \in Node, d \in Side : Lack(Nil, f, m, d) = 0 /\ Weight(t, m) \in {0, 1}
  BY <1>2 DEF Lack, Weight
<1>5. B[n] = Weight(t, n) + B[c] + Lack(Nil, f, n, s) /\ B[n] = Weight(t, n) + B[Nil] + Lack(Nil, f, n, Other(s))
  BY <1>1, <1>2, <1>3
<1>6. B[c] = 0 /\ B[n] = Weight(t, n)
  <2>1. B[c] \in Nat /\ Weight(t, n) \in {0, 1} /\ Lack(Nil, f, n, s) = 0 /\ Lack(Nil, f, n, Other(s)) = 0
    BY <1>2, <1>3, <1>4
  <2>2. QED
    BY <1>3, <1>5, <2>1
<1>7. ASSUME c # Nil
      PROVE  t.color[c] = RED /\ t.color[n] = BLACK
  <2>1. c \in Node
    BY <1>2, <1>7 DEF Ptr
  <2>2. B[c] = Weight(t, c) + B[t.kid[s][c]] + Lack(Nil, f, c, s) /\ B[t.kid[s][c]] \in Nat
    BY <1>2, <1>3, <2>1, TreeTypes
  <2>3. Weight(t, c) = 0
    BY <1>4, <1>6, <2>1, <2>2
  <2>4. t.color[c] = RED
    BY <1>2, <2>1, <2>3, TreeTypes DEF Weight
  <2>5. t.color[n] # RED
    <3>1. ASSUME t.color[n] = RED
          PROVE  FALSE
      <4>1. IsRed(t, n) /\ IsRed(t, t.kid[s][n])
        BY <1>1, <1>2, <1>7, <2>4, <3>1 DEF IsRed
      <4>2. QED
        BY <1>2, <4>1 DEF Coloured, RedsApart
    <3>2. QED
      BY <3>1
  <2>6. QED
    BY <1>2, <2>4, <2>5, TreeTypes
<1>8. QED
  BY <1>6, <1>7

\* The paths through the child are as long as before, or short by the node that is gone.
LEMMA SplicedColours ==
  ASSUME NEW t, NEW D, Shape(t, D), NEW B, NEW f, Coloured(t, B, Nil, f),
         NEW n \in D[t.root], NEW c, OneChild(t, n, c),
         NEW t2, IsSpliced(t, t2, n, c)
  PROVE  \E B2 : Coloured(t2, B2, ShortAt(t, n, c), SideOf(t, n, t.parent[n]))
<1>. DEFINE q == t.parent[n]
            x == ShortAt(t, n, c)
            h == SideOf(t, n, q)
<1>1. PICK s \in Side : t.kid[s][n] = c /\ t.kid[Other(s)][n] = Nil
  BY DEF OneChild
<1>2. /\ t \in Tree /\ Nil \notin Node /\ n \in Node /\ n # Nil /\ Nil \in Ptr /\ Other(s) \in Side
      /\ c \in Ptr /\ c # n
      /\ \A d \in Side, m \in Node : t.kid[d][m] = n <=> m = q /\ d = h
      /\ q \in Ptr
  <2>1. /\ t \in Tree /\ Nil \notin Node /\ n \in Node /\ n # Nil /\ Nil \in Ptr /\ Other(s) \in Side
    BY Parents, NilAssumption, Sides, SMTT(20) DEF Shape, Ptr
  <2>2. c \in Ptr /\ c # n
    BY <1>1, <2>1, TreeTypes, KidSelf
  <2>3. q \in Ptr /\ \A d \in Side, m \in Node : t.kid[d][m] = n <=> m = q /\ d = h
    BY Place
  <2>4. QED
    BY <2>1, <2>2, <2>3
<1>3. B[c] = 0 /\ B[n] = Weight(t, n) /\ (c # Nil => t.color[c] = RED /\ t.color[n] = BLACK)
  BY OneChildColours
<1>4. /\ B \in [Ptr -> Nat] /\ B[Nil] = 0
      /\ \A m \in Node, d \in Side : B[m] = Weight(t, m) + B[t.kid[d][m]] + Lack(Nil, f, m, d)
      /\ RedsApart(t, Nil, Nil) /\ IsBlack(t, t.root)
  BY DEF Coloured, Counts
<1>5. \A m \in Node, d \in Side : Lack(Nil, f, m, d) = 0 /\ Weight(t, m) \in {0, 1} /\ B[t.kid[d][m]] \in Nat
  BY <1>2, <1>4, TreeTypes DEF Lack, Weight
<1>. DEFINE b == IF c = Nil THEN 0 ELSE B[n]
<1>6. PICK B2 : B2 = [B EXCEPT ![n] = 0, ![c] = b]
  OBVIOUS
<1>7. /\ B2 \in [Ptr -> Nat] /\ B2[Nil] = 0 /\ B2[n] = 0 /\ B2[c] = b
      /\ \A m \in Ptr \ {n, c} : B2[m] = B[m]
  <2>1. b \in Nat /\ n \in Ptr /\ (c = Nil => b = 0)
    BY <1>2, <1>4 DEF Ptr
  <2>. HIDE DEF b
  <2>2. QED
    BY <1>2, <1>4, <1>6, <2>1
<1>8. /\ t2 \in Tree /\ t2.root = IF t.root = n THEN c ELSE t.root
      /\ \A d \in Side, m \in Node :
            t2.kid[d][m] = IF m = n THEN Nil ELSE IF t.kid[d][m] = n THEN c ELSE t.kid[d][m]
      /\ \A m \in Node : t2.color[m] = IF m = n THEN RED ELSE IF m = c THEN t.color[n] ELSE t.color[m]
  BY DEF IsSpliced
<1>9. \A m \in Node, d \in Side : m # n /\ t.kid[d][m] # Nil => t.kid[d][m] # c
  <2>1. ASSUME NEW m \in Node, NEW d \in Side, t.kid[d][m] # Nil, t.kid[d][m] = c
        PROVE  m = n
    <3>1. t.kid[s][n] # Nil /\ t.kid[d][m] = t.kid[s][n]
      BY <1>1, <2>1
    <3>2. QED
      BY <1>2, <3>1, OneParent
  <2>2. QED
    BY <2>1
<1>10. Weight(t, n) = IF t.color[n] = BLACK THEN 1 ELSE 0
  BY DEF Weight
<1>11. \A d \in Side : c # Nil => t.kid[d][c] # n
  <2>1. n \notin D[c]
    BY <1>1, <1>2, BelowNode
  <2>2. c # Nil => c \in Node
    BY <1>2 DEF Ptr
  <2>3. QED
    BY <1>2, <2>1, <2>2, KidSelf
<1>12. ASSUME NEW m \in Node, NEW d \in Side
       PROVE  B2[m] = Weight(t2, m) + B2[t2.kid[d][m]] + Lack(x, h, m, d)
  <2>0. /\ B[m] = Weight(t, m) + B[t.kid[d][m]] /\ Weight(t, m) \in {0, 1} /\ B[t.kid[d][m]] \in Nat
    BY <1>4, <1>5
  <2>1. CASE m = n
    <3>1. B2[m] = 0 /\ t2.kid[d][m] = Nil /\ B2[Nil] = 0 /\ Weight(t2, m) = 0
      BY <1>7, <1>8, <2>1 DEF Weight, RED, BLACK
    <3>2. Lack(x, h, m, d) = 0
      <4>1. q # n
        BY Place
      <4>2. QED
        BY <1>2, <2>1, <4>1 DEF Lack, ShortAt
    <3>3. QED
      BY <3>1, <3>2
  <2>2. CASE m # n /\ t.kid[d][m] = n
    <3>1. m = q /\ d = h /\ t2.kid[d][m] = c /\ m # c
      BY <1>2, <1>8, <1>11, <2>2
    <3>2. B2[m] = B[m] /\ Weight(t2, m) = Weight(t, m)
      BY <1>7, <1>8, <2>2, <3>1 DEF Weight, Ptr
    <3>3. Lack(x, h, m, d) = IF c = Nil /\ t.color[n] = BLACK THEN 1 ELSE 0
      BY <1>2, <3>1 DEF Lack, ShortAt
    <3>4. B[n] = B2[c] + Lack(x, h, m, d)
      BY <1>3, <1>7, <1>10, <3>3
    <3>5. QED
      <4>1. B2[c] \in Nat /\ Lack(x, h, m, d) \in {0, 1}
        BY <1>2, <1>7, <3>3
      <4>2. B[m] = Weight(t, m) + B[n]
        BY <2>0, <2>2
      <4>3. QED
        BY <2>0, <3>1, <3>2, <3>4, <4>1, <4>2
  <2>3. CASE m # n /\ t.kid[d][m] # n
    <3>1. t2.kid[d][m] = t.kid[d][m]
      BY <1>8, <2>3
    <3>2. B2[t.kid[d][m]] = B[t.kid[d][m]]
      <4>1. t.kid[d][m] \in Ptr
        BY <1>2, TreeTypes
      <4>2. QED
        BY <1>4, <1>7, <1>9, <2>3, <4>1
    <3>3. Lack(x, h, m, d) = 0
      BY <1>2, <2>3 DEF Lack, ShortAt
    <3>4. CASE m = c
      <4>1. Weight(t, m) = 0 /\ Weight(t2, m) = 1 /\ B2[m] = B[n] /\ B[n] = 1 /\ B[m] = 0
        BY <1>2, <1>3, <1>7, <1>8, <2>3, <3>4 DEF Weight, RED, BLACK
      <4>2. QED
        BY <2>0, <3>1, <3>2, <3>3, <4>1
    <3>5. CASE m # c
      <4>1. Weight(t2, m) = Weight(t, m) /\ B2[m] = B[m]
        BY <1>7, <1>8, <2>3, <3>5 DEF Weight, Ptr
      <4>2. QED
        BY <2>0, <3>1, <3>2, <3>3, <4>1
    <3>6. QED
      BY <3>4, <3>5
  <2>4. QED
    BY <2>1, <2>2, <2>3
<1>13. RedsApart(t2, Nil, Nil)
  <2>1. ASSUME NEW m \in Node, NEW d \in Side, IsRed(t2, m), IsRed(t2, t2.kid[d][m])
        PROVE  FALSE
    <3>1. m # n /\ m # c /\ IsRed(t, m)
      BY <1>2, <1>3, <1>8, <2>1 DEF IsRed, RED, BLACK
    <3>2. CASE t.kid[d][m] = n
      <4>1. c # Nil /\ t2.color[c] = RED /\ c \in Node
        BY <1>2, <1>8, <2>1, <3>1, <3>2 DEF IsRed, Ptr
      <4>2. QED
        BY <1>2, <1>3, <1>8, <4>1 DEF RED, BLACK
    <3>3. CASE t.kid[d][m] # n
      <4>1. t2.kid[d][m] = t.kid[d][m] /\ t.kid[d][m] # Nil /\ t.kid[d][m] # c /\ t.kid[d][m] \in Node
        BY <1>2, <1>8, <1>9, <2>1, <3>1, <3>3, TreeTypes DEF IsRed, Ptr
      <4>2. IsRed(t, t.kid[d][m])
        BY <1>8, <2>1, <3>3, <4>1 DEF IsRed
      <4>3. QED
        BY <1>2, <1>4, <3>1, <4>2 DEF RedsApart
    <3>4. QED
      BY <3>2, <3>3
  <2>2. QED
    BY <2>1 DEF RedsApart
<1>14. IsBlack(t2, t2.root)
  <2>1. t.root \in Ptr
    BY <1>2, TreeTypes
  <2>2. t.root # n => t.root # c \/ c = Nil
    BY <1>1, <1>2, OneParent
  <2>3. QED
    BY <1>2, <1>3, <1>4, <1>8, <2>1, <2>2 DEF IsBlack, IsRed, Ptr, RED, BLACK
<1>. HIDE DEF x, h
<1>15. Coloured(t2, B2, x, h)
  BY <1>7, <1>12, <1>13, <1>14 DEF Coloured, Counts
<1>16. QED
  BY <1>15 DEF x, h

\* One child of the parent of n is now Nil, and that side is short: the other is not Nil.
LEMMA ShortSide ==
  ASSUME NEW t \in Tree, NEW B, NEW x \in Node, NEW f \in Side, Counts(t, B, x, f), t.kid[f][x] = Nil
  PROVE  t.kid[Other(f)][x] # Nil
<1>1. Other(f) \in Side /\ Other(f) # f
  BY Sides
<1>2. /\ B[Nil] = 0 /\ B[x] = Weight(t, x) + B[t.kid[f][x]] + Lack(x, f, x, f)
      /\ B[x] = Weight(t, x) + B[t.kid[Other(f)][x]] + Lack(x, f, x, Other(f))
      /\ Weight(t, x) \in {0, 1} /\ Lack(x, f, x, f) = 1 /\ Lack(x, f, x, Other(f)) = 0
  BY <1>1 DEF Counts, Weight, Lack
<1>3. ASSUME t.kid[Other(f)][x] = Nil
      PROVE  FALSE
  <2>1. /\ B[x] = Weight(t, x) + 0 + 1
        /\ B[x] = Weight(t, x) + 0 + 0
    BY <1>2, <1>3
  <2>2. QED
    BY <1>2, <2>1
<1>4. QED
  BY <1>3

\* There is a tree that is t without n.
Spliceable(t, n, c) == \E t2 : IsSpliced(t, t2, n, c)

\* There is such a tree.
LEMMA SplicedExists ==
  ASSUME NEW t \in Tree, NEW n \in Node, NEW c \in Ptr
  PROVE  Spliceable(t, n, c)
<1>. DEFINE t2 == [root   |-> IF t.root = n THEN c ELSE t.root,
                   kid    |-> [d \in Side |-> [m \in Node |->
                                  IF m = n THEN Nil ELSE IF t.kid[d][m] = n THEN c ELSE t.kid[d][m]]],
                   parent |-> [m \in Node |-> IF m = n THEN Nil ELSE IF m = c THEN t.parent[n]
                                              ELSE t.parent[m]],
                   color  |-> [m \in Node |-> IF m = n THEN RED ELSE IF m = c THEN t.color[n]
                                              ELSE t.color[m]]]
<1>1. /\ t.root \in Ptr /\ Nil \in Ptr
      /\ \A m \in Node : t.parent[m] \in Ptr /\ t.color[m] \in {RED, BLACK}
      /\ \A d \in Side, m \in Node : t.kid[d][m] \in Ptr
  BY TreeTypes DEF Ptr
<1>2. t2 \in Tree
  BY <1>1 DEF Tree
<1>3. IsSpliced(t, t2, n, c)
  BY <1>2 DEF IsSpliced
<1>. HIDE DEF t2
<1>4. QED
  BY <1>3 DEF Spliceable

-----------------------------------------------------------------------------
\* u is the node of N that is furthest to the side s.
Outermost(s, N, u) == u \in N /\ \A m \in N : m = u \/ Before(s, u, m)

\* There is one such node at most.
LEMMA OneOutermost ==
  ASSUME NEW s \in Side, NEW N \in SUBSET Node, NEW u, NEW w, Outermost(s, N, u), Outermost(s, N, w)
  PROVE  u = w
<1>1. u \in Node /\ w \in Node /\ (u = w \/ Before(s, u, w)) /\ (w = u \/ Before(s, w, u))
  BY DEF Outermost
<1>2. QED
  BY <1>1, KeyTypes DEF Before

\* Below n it is the one below the child on that side, or n.
LEMMA OutermostBelow ==
  ASSUME NEW t, NEW D, Shape(t, D), NEW s \in Side, NEW n \in Node
  PROVE  /\ t.kid[s][n] = Nil => Outermost(s, D[n], n)
         /\ \A u : t.kid[s][n] # Nil /\ Outermost(s, D[t.kid[s][n]], u) => Outermost(s, D[n], u)
<1>1. /\ Other(s) \in Side /\ D[n] = {n} \cup D[t.kid[s][n]] \cup D[t.kid[Other(s)][n]]
      /\ \A d \in Side : \A m \in D[t.kid[d][n]] : Before(d, m, n)
      /\ D[n] \in SUBSET Node /\ D[Nil] = {}
  BY Sides, BothSides, BelowNode DEF Shape
<1>2. \A m \in D[t.kid[Other(s)][n]] : Before(s, n, m)
  BY <1>1, KeyTypes DEF Before, Side, Other
<1>3. CASE t.kid[s][n] = Nil
  BY <1>1, <1>2, <1>3 DEF Outermost
<1>4. ASSUME NEW u, t.kid[s][n] # Nil, Outermost(s, D[t.kid[s][n]], u)
      PROVE  Outermost(s, D[n], u)
  <2>1. u \in D[t.kid[s][n]] /\ Before(s, u, n) /\ u \in D[n] /\ u \in Node
    BY <1>1, <1>4 DEF Outermost
  <2>2. ASSUME NEW m \in D[n]
        PROVE  m = u \/ Before(s, u, m)
    <3>1. CASE m = n
      BY <2>1, <3>1
    <3>2. CASE m \in D[t.kid[s][n]]
      BY <1>4, <3>2 DEF Outermost
    <3>3. CASE m \in D[t.kid[Other(s)][n]]
      <4>1. m \in Node /\ Before(s, n, m)
        BY <1>1, <1>2, <3>3
      <4>2. QED
        BY <2>1, <4>1, BeforeOrder
    <3>4. QED
      BY <1>1, <3>1, <3>2, <3>3
  <2>3. QED
    BY <2>1, <2>2 DEF Outermost
<1>5. QED
  BY <1>3, <1>4

-----------------------------------------------------------------------------
\* In t2, s has taken the place and the colour of n, and n is gone.
IsReplaced(t, t2, n, s) ==
    /\ t2 \in Tree
    /\ t2.root = IF t.root = n THEN s ELSE t.root
    /\ \A d \in Side, m \in Node :
          t2.kid[d][m] = IF m = s THEN t.kid[d][n] ELSE IF m = n THEN Nil
                         ELSE IF t.kid[d][m] = n THEN s ELSE t.kid[d][m]
    /\ \A m \in Node : t2.parent[m] = IF m = s THEN t.parent[n] ELSE IF m = n THEN Nil
                                      ELSE IF t.parent[m] = n THEN s ELSE t.parent[m]
    /\ \A m \in Node : t2.color[m] = IF m = s THEN t.color[n] ELSE IF m = n THEN RED ELSE t.color[m]

\* The nodes below each node then.
Exchange(N, n, s) == IF n \in N THEN (N \ {n}) \cup {s} ELSE N
BelowReplaced(D, n, s) == [m \in Ptr |-> IF m = n THEN {n} ELSE IF m = s THEN Exchange(D[n], n, s)
                                         ELSE Exchange(D[m], n, s)]

\* s is in order where n is.
FitsFor(t, D, n, s) ==
    /\ \A d \in Side : \A m \in D[t.kid[d][n]] : Before(d, m, s)
    /\ \A a \in Node, d \in Side : n \in D[t.kid[d][a]] => Before(d, s, a)

\* The tree has one node less: the order survives, for no key is between the two.
LEMMA ReplacedShape ==
  ASSUME NEW t, NEW D, Shape(t, D), NEW n \in D[t.root], NEW s \in Node \ D[t.root], FitsFor(t, D, n, s),
         NEW t2, IsReplaced(t, t2, n, s)
  PROVE  /\ Shape(t2, BelowReplaced(D, n, s))
         /\ BelowReplaced(D, n, s)[t2.root] = (D[t.root] \ {n}) \cup {s}
<1>. DEFINE D2 == BelowReplaced(D, n, s)
            S  == D[t.root]
            E(N) == Exchange(N, n, s)
<1>1. /\ t \in Tree /\ D \in [Ptr -> SUBSET Node] /\ D[Nil] = {} /\ Nil \in Ptr /\ Nil \notin Node
      /\ n \in Ptr /\ n \in Node /\ s \in Ptr /\ s \in Node /\ s # n /\ S \in SUBSET Node
      /\ Node \subseteq Ptr /\ t.root \in Ptr /\ n # Nil /\ s # Nil
  BY Parents, NilAssumption, TreeTypes DEF Shape, Ptr
<1>2. Blank(t, s) /\ D[s] = {s} /\ n \in D[n] /\ D[n] \in SUBSET Node
  <2>1. Blank(t, s)
    BY DEF Shape
  <2>2. D[s] = {s}
    BY <1>1, <2>1 DEF Shape, Blank, Side
  <2>3. QED
    BY <1>1, <2>1, <2>2, BelowNode
<1>3. \A d \in Side, m \in Node : t.kid[d][m] \in Ptr /\ t.kid[d][m] # s
  <2>1. ASSUME NEW d \in Side, NEW m \in Node, t.kid[d][m] = s
        PROVE  FALSE
    <3>1. t.kid[d][m] # Nil
      BY <1>1, <2>1
    <3>2. QED
      BY <2>1, <3>1, OneParent
  <2>2. QED
    BY <1>1, <2>1, TreeTypes
<1>4. /\ D2 \in [Ptr -> SUBSET Node] /\ D2[n] = {n} /\ D2[s] = E(D[n])
      /\ \A m \in Ptr \ {n, s} : D2[m] = E(D[m])
  <2>1. \A m \in Ptr : E(D[m]) \in SUBSET Node
    BY <1>1 DEF Exchange
  <2>2. QED
    BY <1>1, <2>1 DEF BelowReplaced
<1>. HIDE DEF D2
<1>5. /\ t2 \in Tree /\ t2.root = IF t.root = n THEN s ELSE t.root
      /\ \A d \in Side, m \in Node :
            t2.kid[d][m] = IF m = s THEN t.kid[d][n] ELSE IF m = n THEN Nil
                           ELSE IF t.kid[d][m] = n THEN s ELSE t.kid[d][m]
      /\ \A m \in Node : t2.parent[m] = IF m = s THEN t.parent[n] ELSE IF m = n THEN Nil
                                        ELSE IF t.parent[m] = n THEN s ELSE t.parent[m]
  BY DEF IsReplaced
<1>6. D2[Nil] = {} /\ E({}) = {}
  BY <1>1, <1>4 DEF Exchange
<1>7. ASSUME NEW m \in Node \ {n, s}, NEW d \in Side
      PROVE  D2[t2.kid[d][m]] = E(D[t.kid[d][m]])
  <2>1. CASE t.kid[d][m] = n
    BY <1>4, <1>5, <2>1
  <2>2. CASE t.kid[d][m] # n
    BY <1>3, <1>4, <1>5, <2>2
  <2>3. QED
    BY <2>1, <2>2
<1>8. ASSUME NEW d \in Side
      PROVE  D2[t.kid[d][n]] = D[t.kid[d][n]] /\ n \notin D[t.kid[d][n]] /\ t.kid[d][n] # n
  <2>1. n \notin D[t.kid[d][n]] /\ t.kid[d][n] # n
    BY <1>1, BelowNode, KidSelf
  <2>2. QED
    BY <1>1, <1>3, <1>4, <2>1 DEF Exchange
<1>9. D2[t2.root] = (S \ {n}) \cup {s}
  <2>1. CASE t.root = n
    BY <1>1, <1>4, <1>5, <2>1 DEF Exchange
  <2>2. CASE t.root # n
    <3>1. t.root # s
      BY <1>1, Parents
    <3>2. QED
      BY <1>1, <1>4, <1>5, <2>2, <3>1 DEF Exchange
  <2>3. QED
    BY <2>1, <2>2
<1>10. ASSUME NEW m \in Node
       PROVE  D2[m] = {m} \cup D2[t2.kid["rb_left"][m]] \cup D2[t2.kid["rb_right"][m]]
  <2>0. "rb_left" \in Side /\ "rb_right" \in Side
    BY DEF Side
  <2>1. CASE m = n
    BY <1>1, <1>4, <1>5, <1>6, <2>0, <2>1
  <2>2. CASE m = s
    <3>1. /\ D2[t2.kid["rb_left"][m]] = D[t.kid["rb_left"][n]]
          /\ D2[t2.kid["rb_right"][m]] = D[t.kid["rb_right"][n]]
      BY <1>5, <1>8, <2>0, <2>2
    <3>2. D[n] = {n} \cup D[t.kid["rb_left"][n]] \cup D[t.kid["rb_right"][n]]
      BY <1>1 DEF Shape
    <3>3. n \notin D[t.kid["rb_left"][n]] /\ n \notin D[t.kid["rb_right"][n]]
      BY <1>8, <2>0
    <3>4. D2[m] = (D[n] \ {n}) \cup {s}
      BY <1>2, <1>4, <2>2 DEF Exchange
    <3>5. QED
      BY <2>2, <3>1, <3>2, <3>3, <3>4
  <2>3. CASE m \notin {n, s}
    <3>1. /\ D2[t2.kid["rb_left"][m]] = E(D[t.kid["rb_left"][m]])
          /\ D2[t2.kid["rb_right"][m]] = E(D[t.kid["rb_right"][m]])
      BY <1>7, <2>0, <2>3
    <3>2. D[m] = {m} \cup D[t.kid["rb_left"][m]] \cup D[t.kid["rb_right"][m]]
      BY DEF Shape
    <3>3. D2[m] = E(D[m])
      BY <1>1, <1>4, <2>3
    <3>4. QED
      BY <2>3, <3>1, <3>2, <3>3 DEF Exchange
  <2>4. QED
    BY <2>1, <2>2, <2>3
<1>11. ASSUME NEW m \in Node, NEW d \in Side, NEW x \in D2[t2.kid[d][m]]
       PROVE  Before(d, x, m)
  <2>1. CASE m = n
    BY <1>1, <1>5, <1>6, <1>11, <2>1
  <2>2. CASE m = s
    <3>1. x \in D[t.kid[d][n]]
      BY <1>5, <1>8, <1>11, <2>2
    <3>2. QED
      BY <2>2, <3>1 DEF FitsFor
  <2>3. CASE m \notin {n, s}
    <3>1. x \in E(D[t.kid[d][m]])
      BY <1>7, <1>11, <2>3
    <3>2. x \in D[t.kid[d][m]] \/ (x = s /\ n \in D[t.kid[d][m]])
      BY <3>1 DEF Exchange
    <3>3. QED
      BY <3>2 DEF Shape, FitsFor
  <2>4. QED
    BY <2>1, <2>2, <2>3
<1>12. t2.root # Nil => t2.parent[t2.root] = Nil
  <2>1. CASE t.root = n
    <3>1. t.parent[n] = Nil
      BY <1>1, <2>1 DEF Shape
    <3>2. QED
      BY <1>1, <1>5, <2>1, <3>1
  <2>2. CASE t.root # n
    <3>1. t.root # s
      BY <1>1, Parents
    <3>2. t.root # Nil => t.parent[t.root] = Nil
      BY DEF Shape
    <3>3. QED
      BY <1>1, <1>5, <2>2, <3>1, <3>2 DEF Ptr
  <2>3. QED
    BY <2>1, <2>2
<1>13. ASSUME NEW m \in Node, NEW d \in Side, t2.kid[d][m] # Nil
       PROVE  t2.parent[t2.kid[d][m]] = m
  <2>0. m # n
    BY <1>1, <1>5, <1>13
  <2>1. CASE m = s
    <3>1. t2.kid[d][m] = t.kid[d][n] /\ t.kid[d][n] # Nil
      BY <1>5, <1>13, <2>1
    <3>2. t.parent[t.kid[d][n]] = n /\ t.kid[d][n] \in Node
      BY <1>1, <3>1, OneParent, KidSelf
    <3>3. t.kid[d][n] # n /\ t.kid[d][n] # s
      BY <1>1, <1>3, <1>8
    <3>4. QED
      BY <1>5, <2>1, <3>1, <3>2, <3>3
  <2>2. CASE m # s /\ t.kid[d][m] = n
    <3>1. t.parent[n] = m
      <4>1. t.kid[d][m] # Nil
        BY <1>1, <2>2
      <4>2. QED
        BY <2>2, <4>1, OneParent
    <3>2. t2.kid[d][m] = s
      BY <1>5, <2>0, <2>2
    <3>3. QED
      BY <1>1, <1>5, <3>1, <3>2
  <2>3. CASE m # s /\ t.kid[d][m] # n
    <3>1. t2.kid[d][m] = t.kid[d][m] /\ t.kid[d][m] # Nil /\ t.kid[d][m] # s
      BY <1>3, <1>5, <1>13, <2>0, <2>3
    <3>2. t.parent[t.kid[d][m]] = m /\ t.kid[d][m] \in Node
      BY <3>1, OneParent, KidSelf
    <3>3. QED
      BY <1>5, <2>0, <2>3, <3>1, <3>2
  <2>4. QED
    BY <2>1, <2>2, <2>3
<1>14. ASSUME NEW m \in Node, m \notin (S \ {n}) \cup {s}, \A k \in Node \ {s} : t2.color[k] = IF k = n THEN RED ELSE t.color[k]
       PROVE  Blank(t2, m)
  <2>1. CASE m = n
    BY <1>1, <1>5, <1>14, <2>1 DEF Blank
  <2>2. CASE m # n
    <3>1. Blank(t, m) /\ m # s
      BY <1>14, <2>2 DEF Shape
    <3>2. QED
      BY <1>1, <1>5, <1>14, <2>2, <3>1 DEF Blank
  <2>3. QED
    BY <2>1, <2>2
<1>15. Shape(t2, D2)
  <2>1. \A m \in Node, d \in Side : \A x \in D2[t2.kid[d][m]] : Before(d, x, m)
    BY <1>11
  <2>2. \A m \in D2[t2.root], d \in Side : t2.kid[d][m] # Nil => t2.parent[t2.kid[d][m]] = m
    BY <1>1, <1>9, <1>13
  <2>3. \A k \in Node \ {s} : t2.color[k] = IF k = n THEN RED ELSE t.color[k]
    BY DEF IsReplaced
  <2>4. \A m \in Node \ D2[t2.root] : Blank(t2, m)
    BY <1>9, <1>14, <2>3
  <2>5. QED
    BY <1>4, <1>5, <1>6, <1>10, <1>12, <2>1, <2>2, <2>4 DEF Shape
<1>16. QED
  BY <1>9, <1>15 DEF D2

\* The colours stay in their places.
LEMMA ReplacedColours ==
  ASSUME NEW t, NEW D, Shape(t, D), NEW n \in D[t.root], NEW s \in Node \ D[t.root],
         NEW B, NEW x, NEW f, Coloured(t, B, x, f), x # s,
         NEW t2, IsReplaced(t, t2, n, s)
  PROVE  \E B2 : Coloured(t2, B2, IF x = n THEN s ELSE x, f)
<1>. DEFINE y == IF x = n THEN s ELSE x
<1>1. /\ t \in Tree /\ Nil \in Ptr /\ Nil \notin Node /\ n \in Ptr /\ n \in Node /\ s \in Ptr
      /\ s \in Node /\ s # n /\ Node \subseteq Ptr /\ t.root \in Ptr /\ n # Nil /\ s # Nil
  BY Parents, NilAssumption, TreeTypes DEF Shape, Ptr
<1>2. \A d \in Side, m \in Node : t.kid[d][m] \in Ptr /\ t.kid[d][m] # s
  <2>1. ASSUME NEW d \in Side, NEW m \in Node, t.kid[d][m] = s
        PROVE  FALSE
    <3>1. t.kid[d][m] # Nil
      BY <1>1, <2>1
    <3>2. QED
      BY <2>1, <3>1, OneParent
  <2>2. QED
    BY <1>1, <2>1, TreeTypes
<1>3. \A d \in Side : t.kid[d][n] # n
  BY <1>1, KidSelf
<1>4. /\ B \in [Ptr -> Nat] /\ B[Nil] = 0
      /\ \A m \in Node, d \in Side : B[m] = Weight(t, m) + B[t.kid[d][m]] + Lack(x, f, m, d)
      /\ RedsApart(t, Nil, Nil) /\ IsBlack(t, t.root)
  BY DEF Coloured, Counts
<1>5. PICK B2 : B2 = [B EXCEPT ![s] = B[n], ![n] = 0]
  OBVIOUS
<1>6. /\ B2 \in [Ptr -> Nat] /\ B2[Nil] = 0 /\ B2[s] = B[n] /\ B2[n] = 0
      /\ \A m \in Ptr \ {n, s} : B2[m] = B[m]
  BY <1>1, <1>4, <1>5
<1>7. /\ t2 \in Tree /\ t2.root = IF t.root = n THEN s ELSE t.root
      /\ \A d \in Side, m \in Node :
            t2.kid[d][m] = IF m = s THEN t.kid[d][n] ELSE IF m = n THEN Nil
                           ELSE IF t.kid[d][m] = n THEN s ELSE t.kid[d][m]
      /\ \A m \in Node : t2.color[m] = IF m = s THEN t.color[n] ELSE IF m = n THEN RED ELSE t.color[m]
  BY DEF IsReplaced
<1>8. ASSUME NEW m \in Node, NEW d \in Side
      PROVE  B2[m] = Weight(t2, m) + B2[t2.kid[d][m]] + Lack(y, f, m, d)
  <2>1. CASE m = n
    BY <1>1, <1>6, <1>7, <2>1 DEF Weight, Lack, RED, BLACK
  <2>2. CASE m = s
    <3>1. B2[t2.kid[d][m]] = B[t.kid[d][n]]
      BY <1>2, <1>3, <1>1, <1>6, <1>7, <2>2
    <3>2. Weight(t2, m) = Weight(t, n) /\ Lack(y, f, m, d) = Lack(x, f, n, d)
      BY <1>7, <2>2 DEF Weight, Lack
    <3>3. B[n] = Weight(t, n) + B[t.kid[d][n]] + Lack(x, f, n, d)
      BY <1>1, <1>4
    <3>4. QED
      BY <1>6, <2>2, <3>1, <3>2, <3>3
  <2>3. CASE m \notin {n, s}
    <3>1. B2[t2.kid[d][m]] = B[t.kid[d][m]]
      BY <1>2, <1>1, <1>6, <1>7, <2>3
    <3>2. Weight(t2, m) = Weight(t, m) /\ Lack(y, f, m, d) = Lack(x, f, m, d)
      BY <1>7, <2>3 DEF Weight, Lack
    <3>3. B[m] = Weight(t, m) + B[t.kid[d][m]] + Lack(x, f, m, d) /\ B2[m] = B[m]
      BY <1>1, <1>4, <1>6, <2>3
    <3>4. QED
      BY <3>1, <3>2, <3>3
  <2>4. QED
    BY <2>1, <2>2, <2>3
<1>9. RedsApart(t2, Nil, Nil)
  <2>0. \A m \in Node, d \in Side : ~(IsRed(t, m) /\ IsRed(t, t.kid[d][m]))
    BY <1>1, <1>4 DEF RedsApart
  <2>1. ASSUME NEW m \in Node, NEW d \in Side, IsRed(t2, m), IsRed(t2, t2.kid[d][m])
        PROVE  FALSE
    <3>1. m # n
      BY <1>1, <1>7, <2>1 DEF IsRed
    <3>2. CASE m = s
      <4>1. t2.kid[d][m] = t.kid[d][n] /\ t.kid[d][n] \in Node
        BY <1>2, <1>1, <1>7, <2>1, <3>2 DEF IsRed, Ptr
      <4>2. IsRed(t, n) /\ IsRed(t, t.kid[d][n])
        BY <1>1, <1>2, <1>3, <1>7, <2>1, <3>2, <4>1 DEF IsRed
      <4>3. QED
        BY <1>1, <2>0, <4>2
    <3>3. CASE m # s
      <4>1. IsRed(t, m)
        BY <1>1, <1>7, <2>1, <3>1, <3>3 DEF IsRed
      <4>2. IsRed(t, t.kid[d][m])
        <5>1. CASE t.kid[d][m] = n
          BY <1>1, <1>7, <2>1, <3>1, <3>3, <5>1 DEF IsRed
        <5>2. CASE t.kid[d][m] # n
          <6>1. t2.kid[d][m] = t.kid[d][m] /\ t.kid[d][m] \in Node /\ t.kid[d][m] # s
            BY <1>2, <1>1, <1>7, <2>1, <3>1, <3>3, <5>2 DEF IsRed, Ptr
          <6>2. QED
            BY <1>1, <1>7, <2>1, <5>2, <6>1 DEF IsRed
        <5>3. QED
          BY <5>1, <5>2
      <4>3. QED
        BY <2>0, <4>1, <4>2
    <3>4. QED
      BY <3>2, <3>3
  <2>2. QED
    BY <2>1 DEF RedsApart
<1>10. IsBlack(t2, t2.root)
  <2>1. t.root # s
    BY <1>1, Parents
  <2>2. QED
    BY <1>1, <1>4, <1>7, <2>1 DEF IsBlack, IsRed, Ptr
<1>. HIDE DEF y
<1>11. Coloured(t2, B2, y, f)
  BY <1>6, <1>8, <1>9, <1>10 DEF Coloured, Counts
<1>12. QED
  BY <1>11 DEF y
=============================================================================
