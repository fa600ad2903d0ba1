----------------------------- MODULE ListProofs -----------------------------
(***************************************************************************)
(* Proofs about the doubly linked list, for every number of lists and      *)
(* nodes.                                                                  *)
(***************************************************************************)
EXTENDS List, SequenceTheorems, FiniteSetTheorems, NaturalsInduction, WellFoundedInduction, TLAPS

\* What a pointer past either end of the sequence s is.
At(s, i) == IF i \in 1..Len(s) THEN s[i] ELSE Nil

Distinct(s) == \A i, j \in 1..Len(s) : s[i] = s[j] => i = j

\* The sequences the calls make.
Ins(s, p, n) == [i \in 1..(Len(s) + 1) |-> IF i < p THEN s[i] ELSE IF i = p THEN n ELSE s[i - 1]]
Del(s, p)    == [i \in 1..(Len(s) - 1) |-> IF i < p THEN s[i] ELSE s[i + 1]]

LEMMA IsSeq ==
  ASSUME NEW S, NEW n \in Nat, NEW f \in [1..n -> S]
  PROVE  f \in Seq(S) /\ Len(f) = n
<1>1. f \in Seq(S)
  BY SeqDef
<1>2. QED
  BY <1>1

\* What a longer and a shorter sequence are, place by place.
IsIns(t, s, p, n) ==
  /\ t \in Seq(Node) /\ Len(t) = Len(s) + 1
  /\ \A i \in 1..(Len(s) + 1) : t[i] = IF i < p THEN s[i] ELSE IF i = p THEN n ELSE s[i - 1]
IsDel(t, s, p) ==
  /\ t \in Seq(Node) /\ Len(t) = Len(s) - 1
  /\ \A i \in 1..(Len(s) - 1) : t[i] = IF i < p THEN s[i] ELSE s[i + 1]

LEMMA InsIsSeq ==
  ASSUME NEW s \in Seq(Node), NEW p \in 1..(Len(s) + 1), NEW n \in Node
  PROVE  IsIns(Ins(s, p, n), s, p, n)
<1>1. Ins(s, p, n) \in [1..(Len(s) + 1) -> Node]
  BY DEF Ins
<1>2. Len(s) + 1 \in Nat
  OBVIOUS
<1>3. QED
  BY <1>1, <1>2, IsSeq DEF Ins, IsIns

LEMMA DelIsSeq ==
  ASSUME NEW s \in Seq(Node), NEW p \in 1..Len(s)
  PROVE  IsDel(Del(s, p), s, p)
<1>1. Del(s, p) \in [1..(Len(s) - 1) -> Node]
  BY DEF Del
<1>2. Len(s) - 1 \in Nat
  OBVIOUS
<1>3. QED
  BY <1>1, <1>2, IsSeq DEF Del, IsDel

LEMMA ReverseIsSeq ==
  ASSUME NEW s \in Seq(Node)
  PROVE  /\ Reverse(s) \in Seq(Node) /\ Len(Reverse(s)) = Len(s)
         /\ \A i \in 1..Len(s) : Reverse(s)[i] = s[(Len(s) - i) + 1]
<1>1. Reverse(s) \in [1..Len(s) -> Node]
  BY DEF Reverse
<1>2. Len(s) \in Nat
  OBVIOUS
<1>3. QED
  BY <1>1, <1>2, IsSeq DEF Reverse

-----------------------------------------------------------------------------
\* A walk finds the sequence that is linked.

LEMMA CountTo == ASSUME NEW n \in Nat PROVE Cardinality(1..n) = n
<1>1. 1 \in Int /\ n \in Int
  OBVIOUS
<1>2. Cardinality(1..n) = IF 1 > n THEN 0 ELSE n - 1 + 1
  BY <1>1, FS_Interval
<1>3. QED
  BY <1>2

LEMMA ShortEnough ==
  ASSUME NEW s \in Seq(Node), Distinct(s)
  PROVE  Len(s) <= Cardinality(Node)
<1>1. s \in Injection(1..Len(s), Node)
  BY DEF Distinct, Injection, IsInjective
<1>2. Cardinality(1..Len(s)) <= Cardinality(Node)
  BY <1>1, NodeAssumption, FS_Injection
<1>3. Cardinality(1..Len(s)) = Len(s)
  BY CountTo
<1>4. QED
  BY <1>2, <1>3

IsWalk(f, first, step) ==
    f = [i \in 1..Cardinality(Node) |->
            IF i = 1 THEN first ELSE IF f[i - 1] = Nil THEN Nil ELSE step[f[i - 1]]]

LEMMA WalkIs ==
  ASSUME NEW s \in Seq(Node), Distinct(s), NEW first, NEW step, first = At(s, 1),
         \A i \in 1..Len(s) : step[s[i]] = At(s, i + 1)
  PROVE  Walk(first, step) = s
<1>. DEFINE N == Cardinality(Node)
            a == [i \in 1..N |-> At(s, i)]
            w == CHOOSE f : IsWalk(f, first, step)
<1>0. N \in Nat /\ Len(s) \in 0..N
  BY NodeAssumption, FS_CardinalityType, ShortEnough
<1>1. \A i \in 1..N : At(s, i) = IF i = 1 THEN first
                                 ELSE IF At(s, i - 1) = Nil THEN Nil ELSE step[At(s, i - 1)]
  BY <1>0, NilAssumption DEF At
<1>. HIDE DEF N
<1>2. IsWalk(a, first, step)
  <2>1. \A i \in 1..N : i # 1 => a[i - 1] = At(s, i - 1)
    BY <1>0
  <2>2. a = [i \in 1..N |-> IF i = 1 THEN first ELSE IF a[i - 1] = Nil THEN Nil ELSE step[a[i - 1]]]
    BY <1>1, <2>1
  <2>3. QED
    BY <2>2 DEF IsWalk, N
<1>3. IsWalk(w, first, step)
  BY <1>2
<1>4. DOMAIN w = 1..N /\ \A i \in 1..N :
         w[i] = IF i = 1 THEN first ELSE IF w[i - 1] = Nil THEN Nil ELSE step[w[i - 1]]
  <2>. HIDE DEF w
  <2>1. QED
    BY <1>3 DEF IsWalk, N
<1>. HIDE DEF w, a
<1>5. \A i \in 1..N : w[i] = At(s, i)
  <2>. DEFINE Bad == {n \in 1..N : w[n] # At(s, n)}
  <2>1. ASSUME Bad # {}
        PROVE  FALSE
    <3>1. PICK n \in Bad : \A m \in Bad : ~(<<m, n>> \in OpToRel(<, Nat))
      <4>1. Bad \subseteq Nat
        BY <1>0
      <4>. HIDE DEF Bad
      <4>2. QED
        BY <2>1, <4>1, NatLessThanWellFounded, WFMin
    <3>2. n \in 1..N /\ w[n] # At(s, n)
      OBVIOUS
    <3>3. n # 1
      BY <1>0, <1>4, <3>2, NilAssumption DEF At
    <3>4. n - 1 \in 1..N /\ n - 1 < n /\ n - 1 \in Nat /\ n \in Nat
      BY <1>0, <3>2, <3>3
    <3>5. n - 1 \notin Bad
      BY <3>1, <3>4 DEF OpToRel
    <3>6. w[n - 1] = At(s, n - 1)
      BY <3>4, <3>5
    <3>7. w[n] = At(s, n)
      BY <1>1, <1>4, <3>2, <3>3, <3>6
    <3>8. QED
      BY <3>2, <3>7
  <2>2. QED
    BY <2>1
<1>6. {i \in DOMAIN w : w[i] # Nil} = 1..Len(s)
  <2>1. \A i \in 1..N : w[i] # Nil <=> i \in 1..Len(s)
    BY <1>5, NilAssumption DEF At
  <2>2. QED
    BY <1>0, <1>4, <2>1
<1>7. Cardinality({i \in DOMAIN w : w[i] # Nil}) = Len(s)
  <2>1. Cardinality(1..Len(s)) = Len(s)
    BY CountTo
  <2>2. QED
    BY <1>6, <2>1, Zenon
<1>8. SubSeq(w, 1, Len(s)) = s
  <2>1. \A i \in 1..Len(s) : w[i] = s[i] /\ w[i] \in Node
    BY <1>0, <1>5 DEF At
  <2>2. /\ SubSeq(w, 1, Len(s)) \in Seq(Node)
        /\ Len(SubSeq(w, 1, Len(s))) = Len(s)
        /\ \A i \in 1..Len(s) : SubSeq(w, 1, Len(s))[i] = w[i]
    BY <1>0, <2>1, SubSeqProperties
  <2>3. QED
    BY <2>1, <2>2, SeqEqual
<1>9. Walk(first, step) = SubSeq(w, 1, Cardinality({i \in DOMAIN w : w[i] # Nil}))
  BY DEF Walk, w, IsWalk
<1>10. QED
  BY <1>7, <1>8, <1>9

-----------------------------------------------------------------------------
\* The memory m represents the sequences S of the lists.

MemType == [head : [List -> Ptr], tail : [List -> Ptr], size : [List -> Nat],
            p_after : [Node -> Ptr], p_before : [Node -> Ptr]]

Linked(m, l, s) ==
    /\ m.head[l] = At(s, 1) /\ m.tail[l] = At(s, Len(s)) /\ m.size[l] = Len(s)
    /\ \A i \in 1..Len(s) : m.p_after[s[i]] = At(s, i + 1) /\ m.p_before[s[i]] = At(s, i - 1)

\* The node n is in none of the lists.
Free(S, n) == \A l \in List : \A i \in 1..Len(S[l]) : S[l][i] # n

Separate(S) == \A k, l \in List : k # l =>
                  \A i \in 1..Len(S[k]), j \in 1..Len(S[l]) : S[k][i] # S[l][j]

Rep(m, S) ==
    /\ m \in MemType /\ S \in [List -> Seq(Node)]
    /\ \A l \in List : Distinct(S[l]) /\ Linked(m, l, S[l])
    /\ Separate(S)
    /\ \A n \in Node : Free(S, n) => m.p_after[n] = Nil /\ m.p_before[n] = Nil

\* The node n has come into l at p.
IsInserted(m, m2, l, s, n, p) ==
    /\ m2 \in MemType
    /\ \A k \in List : /\ m2.head[k] = IF k = l /\ p = 1 THEN n ELSE m.head[k]
                       /\ m2.tail[k] = IF k = l /\ p = Len(s) + 1 THEN n ELSE m.tail[k]
                       /\ m2.size[k] = IF k = l THEN m.size[k] + 1 ELSE m.size[k]
    /\ \A x \in Node : /\ m2.p_after[x]  = IF x = n THEN At(s, p)
                                           ELSE IF x = At(s, p - 1) THEN n ELSE m.p_after[x]
                       /\ m2.p_before[x] = IF x = n THEN At(s, p - 1)
                                           ELSE IF x = At(s, p) THEN n ELSE m.p_before[x]

\* Where the nodes of the new sequence come from.
LEMMA InsNodes ==
  ASSUME NEW s \in Seq(Node), NEW p \in 1..(Len(s) + 1), NEW n \in Node,
         NEW t, IsIns(t, s, p, n)
  PROVE  /\ t \in Seq(Node) /\ Len(t) = Len(s) + 1 /\ Len(s) \in Nat /\ t[p] = n
         /\ \A i \in 1..Len(t) : i < p => i \in 1..Len(s) /\ t[i] = s[i]
         /\ \A i \in 1..Len(t) : i > p => i - 1 \in 1..Len(s) /\ t[i] = s[i - 1]
<1>1. Len(s) \in Nat
  OBVIOUS
<1>2. /\ t \in Seq(Node) /\ Len(t) = Len(s) + 1
      /\ \A i \in 1..(Len(s) + 1) : t[i] = IF i < p THEN s[i] ELSE IF i = p THEN n ELSE s[i - 1]
  BY DEF IsIns
<1>3. t[p] = n
  BY <1>1, <1>2
<1>4. ASSUME NEW i \in 1..Len(t), i < p
      PROVE  i \in 1..Len(s) /\ t[i] = s[i]
  BY <1>1, <1>2, <1>4
<1>5. ASSUME NEW i \in 1..Len(t), i > p
      PROVE  i - 1 \in 1..Len(s) /\ t[i] = s[i - 1]
  BY <1>1, <1>2, <1>5
<1>6. QED
  BY <1>1, <1>2, <1>3, <1>4, <1>5

LEMMA AtIs ==
  ASSUME NEW s \in Seq(Node), Distinct(s), NEW i \in 1..Len(s), NEW q \in Int
  PROVE  s[i] = At(s, q) <=> i = q
<1>1. s[i] \in Node
  OBVIOUS
<1>2. QED
  BY <1>1, NilAssumption DEF At, Distinct

LEMMA InsertLinked ==
  ASSUME NEW m, NEW m2, NEW l \in List, NEW s \in Seq(Node), Distinct(s), Linked(m, l, s),
         NEW n \in Node, \A i \in 1..Len(s) : s[i] # n, NEW p \in 1..(Len(s) + 1),
         IsInserted(m, m2, l, s, n, p)
  PROVE  Distinct(Ins(s, p, n)) /\ Linked(m2, l, Ins(s, p, n))
<1>. DEFINE t == Ins(s, p, n)
<1>0. IsIns(t, s, p, n)
  BY InsIsSeq
<1>. HIDE DEF t
<1>1. /\ t \in Seq(Node) /\ Len(t) = Len(s) + 1 /\ Len(s) \in Nat
      /\ \A i \in 1..(Len(s) + 1) : t[i] = IF i < p THEN s[i] ELSE IF i = p THEN n ELSE s[i - 1]
  BY <1>0 DEF IsIns
<1>2. Distinct(t)
  <2>0. /\ t[p] = n
        /\ \A i \in 1..Len(t) : i < p => i \in 1..Len(s) /\ t[i] = s[i]
        /\ \A i \in 1..Len(t) : i > p => i - 1 \in 1..Len(s) /\ t[i] = s[i - 1]
    BY <1>0, InsNodes
  <2>1. ASSUME NEW i \in 1..Len(t), NEW j \in 1..Len(t), t[i] = t[j], i < j
        PROVE  FALSE
    <3>1. i < p => i \in 1..Len(s) /\ t[i] = s[i]
      BY <2>0
    <3>2. j < p => j \in 1..Len(s) /\ t[j] = s[j]
      BY <2>0
    <3>3. i > p => i - 1 \in 1..Len(s) /\ t[i] = s[i - 1]
      BY <2>0
    <3>4. j > p => j - 1 \in 1..Len(s) /\ t[j] = s[j - 1]
      BY <2>0
    <3>5. t[p] = n
      BY <2>0
    <3>6. i \in Nat /\ j \in Nat /\ p \in Nat
      BY <1>1
    <3>7. CASE j < p
      BY <2>1, <3>1, <3>2, <3>6, <3>7 DEF Distinct
    <3>8. CASE i > p
      BY <2>1, <3>3, <3>4, <3>6, <3>8 DEF Distinct
    <3>9. CASE i = p
      BY <2>1, <3>4, <3>5, <3>6, <3>9
    <3>10. CASE j = p
      BY <2>1, <3>1, <3>5, <3>6, <3>10
    <3>11. CASE i < p /\ p < j
      BY <2>1, <3>1, <3>4, <3>6, <3>11 DEF Distinct
    <3>12. QED
      BY <3>6, <3>7, <3>8, <3>9, <3>10, <3>11
  <2>2. ASSUME NEW i \in 1..Len(t), NEW j \in 1..Len(t), t[i] = t[j]
        PROVE  i = j
    <3>1. i \in Int /\ j \in Int
      BY <1>1
    <3>2. ~(i < j) /\ ~(j < i)
      BY <2>1, <2>2
    <3>3. QED
      BY <3>1, <3>2
  <2>3. QED
    BY <2>2 DEF Distinct
<1>3. m2.head[l] = At(t, 1) /\ m2.tail[l] = At(t, Len(t)) /\ m2.size[l] = Len(t)
  BY <1>1 DEF IsInserted, Linked, At
<1>4. ASSUME NEW i \in 1..Len(t)
      PROVE  m2.p_after[t[i]] = At(t, i + 1) /\ m2.p_before[t[i]] = At(t, i - 1)
  <2>1. t[i] \in Node
    BY <1>1
  <2>2. /\ m2.p_after[t[i]]  = IF t[i] = n THEN At(s, p)
                               ELSE IF t[i] = At(s, p - 1) THEN n ELSE m.p_after[t[i]]
        /\ m2.p_before[t[i]] = IF t[i] = n THEN At(s, p - 1)
                               ELSE IF t[i] = At(s, p) THEN n ELSE m.p_before[t[i]]
    BY <2>1 DEF IsInserted
  <2>3. CASE i = p
    BY <1>1, <2>2, <2>3 DEF At
  <2>4. CASE i < p
    <3>1. i \in 1..Len(s) /\ t[i] = s[i] /\ s[i] # n
      BY <1>1, <2>4
    <3>2. m.p_after[s[i]] = At(s, i + 1) /\ m.p_before[s[i]] = At(s, i - 1)
      BY <3>1 DEF Linked
    <3>3. s[i] = At(s, p - 1) <=> i = p - 1
      BY <1>1, <2>4, <3>1, AtIs
    <3>4. s[i] # At(s, p)
      BY <1>1, <2>4, <3>1, AtIs
    <3>5. m2.p_after[t[i]] = IF i = p - 1 THEN n ELSE At(s, i + 1)
      BY <2>2, <3>1, <3>2, <3>3
    <3>6. m2.p_before[t[i]] = At(s, i - 1)
      BY <2>2, <3>1, <3>2, <3>4
    <3>7. At(t, i + 1) = IF i = p - 1 THEN n ELSE At(s, i + 1)
      BY <1>1, <2>4, <3>1 DEF At
    <3>8. At(t, i - 1) = At(s, i - 1)
      BY <1>1, <2>4, <3>1 DEF At
    <3>9. QED
      BY <3>5, <3>6, <3>7, <3>8
  <2>5. CASE i > p
    <3>1. i - 1 \in 1..Len(s) /\ t[i] = s[i - 1] /\ s[i - 1] # n
      BY <1>1, <2>5
    <3>2. m.p_after[s[i - 1]] = At(s, i) /\ m.p_before[s[i - 1]] = At(s, i - 2)
      BY <3>1 DEF Linked
    <3>3. s[i - 1] # At(s, p - 1)
      BY <1>1, <2>5, <3>1, AtIs
    <3>4. s[i - 1] = At(s, p) <=> i - 1 = p
      <4>1. i - 1 \in 1..Len(s) /\ p \in Int
        BY <3>1
      <4>2. QED
        BY <4>1, AtIs
    <3>5. m2.p_after[t[i]] = At(s, i)
      BY <2>2, <3>1, <3>2, <3>3
    <3>6. m2.p_before[t[i]] = IF i - 1 = p THEN n ELSE At(s, i - 2)
      BY <2>2, <3>1, <3>2, <3>4
    <3>7. At(t, i + 1) = At(s, i)
      BY <1>1, <2>5, <3>1 DEF At
    <3>8. At(t, i - 1) = IF i - 1 = p THEN n ELSE At(s, i - 2)
      BY <1>1, <2>5, <3>1 DEF At
    <3>9. QED
      BY <3>5, <3>6, <3>7, <3>8
  <2>6. QED
    BY <1>1, <2>3, <2>4, <2>5
<1>5. QED
  BY <1>2, <1>3, <1>4 DEF Linked, t

LEMMA InsertRep ==
  ASSUME NEW m, NEW S, Rep(m, S), NEW l \in List, NEW n \in Node, Free(S, n),
         NEW p \in 1..(Len(S[l]) + 1), NEW m2, IsInserted(m, m2, l, S[l], n, p)
  PROVE  Rep(m2, [S EXCEPT ![l] = Ins(S[l], p, n)])
<1>. DEFINE s == S[l]
            t == Ins(s, p, n)
            T == [S EXCEPT ![l] = t]
<1>0. /\ s \in Seq(Node) /\ Distinct(s) /\ Linked(m, l, s) /\ \A i \in 1..Len(s) : s[i] # n
      /\ p \in 1..(Len(s) + 1) /\ IsInserted(m, m2, l, s, n, p)
  BY DEF Rep, Free
<1>. HIDE DEF s
<1>1. /\ t \in Seq(Node) /\ Len(t) = Len(s) + 1 /\ Len(s) \in Nat
      /\ \A i \in 1..(Len(s) + 1) : t[i] = IF i < p THEN s[i] ELSE IF i = p THEN n ELSE s[i - 1]
  <2>1. IsIns(t, s, p, n)
    BY <1>0, InsIsSeq
  <2>2. QED
    BY <1>0, <2>1 DEF IsIns
<1>2. Distinct(t) /\ Linked(m2, l, t)
  BY <1>0, InsertLinked
<1>. HIDE DEF t
<1>3. T \in [List -> Seq(Node)] /\ T[l] = t /\ \A k \in List \ {l} : T[k] = S[k]
  BY <1>1 DEF Rep
<1>. HIDE DEF T
<1>4. \A i \in 1..Len(t) : t[i] = n \/ \E j \in 1..Len(s) : t[i] = s[j]
  <2>1. ASSUME NEW i \in 1..Len(t)
        PROVE  t[i] = n \/ \E j \in 1..Len(s) : t[i] = s[j]
    <3>1. p \in Nat /\ i \in Nat /\ t[p] = n
      BY <1>0, <1>1
    <3>2. CASE i < p
      BY <1>0, <1>1, <3>2
    <3>3. CASE i > p
      <4>1. i - 1 \in 1..Len(s) /\ t[i] = s[i - 1]
        BY <1>0, <1>1, <3>3
      <4>2. QED
        BY <4>1
    <3>4. QED
      BY <3>1, <3>2, <3>3
  <2>2. QED
    BY <2>1
<1>5. \A j \in 1..Len(s) : \E i \in 1..Len(t) : t[i] = s[j]
  <2>1. ASSUME NEW j \in 1..Len(s)
        PROVE  \E i \in 1..Len(t) : t[i] = s[j]
    <3>1. CASE j < p
      <4>1. j \in 1..Len(t) /\ t[j] = s[j]
        BY <1>1, <3>1
      <4>2. QED
        BY <4>1
    <3>2. CASE j >= p
      <4>1. j + 1 \in 1..Len(t) /\ t[j + 1] = s[j]
        BY <1>1, <3>2
      <4>2. QED
        BY <4>1
    <3>3. QED
      BY <3>1, <3>2
  <2>2. QED
    BY <2>1
<1>6. ASSUME NEW k \in List \ {l}
      PROVE  Distinct(T[k]) /\ Linked(m2, k, T[k])
  <2>1. Distinct(S[k]) /\ Linked(m, k, S[k]) /\ T[k] = S[k] /\ S[k] \in Seq(Node)
    BY <1>3 DEF Rep
  <2>2. ASSUME NEW i \in 1..Len(S[k])
        PROVE  /\ S[k][i] \in Node /\ S[k][i] # n
               /\ S[k][i] # At(s, p) /\ S[k][i] # At(s, p - 1)
    BY <2>1, NilAssumption DEF Rep, Separate, Free, At, s
  <2>3. m2.head[k] = m.head[k] /\ m2.tail[k] = m.tail[k] /\ m2.size[k] = m.size[k]
    BY <1>0 DEF IsInserted
  <2>4. ASSUME NEW i \in 1..Len(S[k])
        PROVE  /\ m2.p_after[S[k][i]] = m.p_after[S[k][i]]
               /\ m2.p_before[S[k][i]] = m.p_before[S[k][i]]
    BY <1>0, <2>2 DEF IsInserted
  <2>5. Linked(m2, k, S[k])
    BY <2>1, <2>3, <2>4 DEF Linked
  <2>6. QED
    BY <2>1, <2>5
<1>7. Separate(T)
  <2>1. ASSUME NEW k \in List, NEW q \in List, k # q, NEW i \in 1..Len(T[k]), NEW j \in 1..Len(T[q])
        PROVE  T[k][i] # T[q][j]
    <3>1. \A o \in List \ {l} : \A h \in 1..Len(T[o]) :
             T[o][h] # n /\ \A g \in 1..Len(s) : T[o][h] # s[g]
      BY <1>3 DEF Rep, Separate, Free, s
    <3>2. CASE k = l
      BY <1>3, <1>4, <2>1, <3>1, <3>2
    <3>3. CASE q = l
      BY <1>3, <1>4, <2>1, <3>1, <3>3
    <3>4. CASE k # l /\ q # l
      BY <1>3, <2>1, <3>4 DEF Rep, Separate
    <3>5. QED
      BY <3>2, <3>3, <3>4
  <2>2. QED
    BY <2>1 DEF Separate
<1>8. ASSUME NEW x \in Node, Free(T, x)
      PROVE  m2.p_after[x] = Nil /\ m2.p_before[x] = Nil
  <2>1. x # n
    <3>1. p \in 1..Len(t) /\ t[p] = n
      BY <1>0, <1>1
    <3>2. QED
      BY <1>3, <1>8, <3>1 DEF Free
  <2>2. \A j \in 1..Len(s) : x # s[j]
    BY <1>3, <1>5, <1>8 DEF Free
  <2>3. Free(S, x)
    BY <1>3, <1>8, <2>2 DEF Free, s
  <2>4. x # At(s, p) /\ x # At(s, p - 1)
    BY <2>2, NilAssumption DEF At
  <2>5. QED
    BY <1>0, <2>1, <2>3, <2>4 DEF IsInserted, Rep
<1>9. \A k \in List : Distinct(T[k]) /\ Linked(m2, k, T[k])
  BY <1>2, <1>3, <1>6
<1>10. QED
  BY <1>0, <1>3, <1>7, <1>8, <1>9 DEF Rep, IsInserted, T, t, s

\* The node at p has left l.
IsErased(m, m2, l, s, p) ==
    /\ m2 \in MemType
    /\ \A k \in List : /\ m2.head[k] = IF k = l /\ p = 1 THEN At(s, 2) ELSE m.head[k]
                       /\ m2.tail[k] = IF k = l /\ p = Len(s) THEN At(s, Len(s) - 1) ELSE m.tail[k]
                       /\ m2.size[k] = IF k = l THEN m.size[k] - 1 ELSE m.size[k]
    /\ \A x \in Node : /\ m2.p_after[x]  = IF x = s[p] THEN Nil
                                           ELSE IF x = At(s, p - 1) THEN At(s, p + 1)
                                           ELSE m.p_after[x]
                       /\ m2.p_before[x] = IF x = s[p] THEN Nil
                                           ELSE IF x = At(s, p + 1) THEN At(s, p - 1)
                                           ELSE m.p_before[x]

\* Where the nodes of the shorter sequence come from.
LEMMA DelNodes ==
  ASSUME NEW s \in Seq(Node), NEW p \in 1..Len(s), NEW t, t = Del(s, p)
  PROVE  /\ t \in Seq(Node) /\ Len(t) = Len(s) - 1 /\ Len(s) \in Nat
         /\ \A i \in 1..Len(t) : i < p => i \in 1..Len(s) /\ t[i] = s[i]
         /\ \A i \in 1..Len(t) : i >= p => i + 1 \in 1..Len(s) /\ t[i] = s[i + 1]
<1>1. /\ t \in Seq(Node) /\ Len(t) = Len(s) - 1 /\ Len(s) \in Nat
      /\ \A i \in 1..(Len(s) - 1) : t[i] = IF i < p THEN s[i] ELSE s[i + 1]
  <2>1. IsDel(t, s, p)
    BY DelIsSeq
  <2>2. QED
    BY <2>1 DEF IsDel
<1>2. QED
  BY <1>1

LEMMA DelAt ==
  ASSUME NEW s \in Seq(Node), NEW p \in 1..Len(s), NEW q \in Int
  PROVE  At(Del(s, p), q) = IF q < p THEN At(s, q) ELSE At(s, q + 1)
<1>. DEFINE t == Del(s, p)
<1>. HIDE DEF t
<1>1. /\ t \in Seq(Node) /\ Len(t) = Len(s) - 1 /\ Len(s) \in Nat
      /\ \A i \in 1..Len(t) : i < p => i \in 1..Len(s) /\ t[i] = s[i]
      /\ \A i \in 1..Len(t) : i >= p => i + 1 \in 1..Len(s) /\ t[i] = s[i + 1]
  BY DelNodes DEF t
<1>2. At(t, q) = IF q < p THEN At(s, q) ELSE At(s, q + 1)
  <2>1. CASE q \in 1..Len(t)
    BY <1>1, <2>1 DEF At
  <2>2. CASE q \notin 1..Len(t)
    BY <1>1, <2>2 DEF At
  <2>3. QED
    BY <2>1, <2>2
<1>3. QED
  BY <1>2 DEF t

LEMMA EraseLinked ==
  ASSUME NEW m, NEW m2, NEW l \in List, NEW s \in Seq(Node), Distinct(s), Linked(m, l, s),
         NEW p \in 1..Len(s), IsErased(m, m2, l, s, p)
  PROVE  /\ Distinct(Del(s, p)) /\ Linked(m2, l, Del(s, p))
         /\ \A i \in 1..Len(Del(s, p)) : Del(s, p)[i] # s[p]
<1>. DEFINE t == Del(s, p)
<1>1. /\ t \in Seq(Node) /\ Len(t) = Len(s) - 1 /\ Len(s) \in Nat
      /\ \A i \in 1..Len(t) : i < p => i \in 1..Len(s) /\ t[i] = s[i]
      /\ \A i \in 1..Len(t) : i >= p => i + 1 \in 1..Len(s) /\ t[i] = s[i + 1]
  BY DelNodes
<1>0. \A q \in Int : At(t, q) = IF q < p THEN At(s, q) ELSE At(s, q + 1)
  BY DelAt
<1>. HIDE DEF t
<1>2. ASSUME NEW i \in 1..Len(t), NEW j \in 1..Len(t), t[i] = t[j], i < j
      PROVE  FALSE
  <2>1. i \in Nat /\ j \in Nat /\ p \in Nat
    BY <1>1
  <2>2. CASE j < p
    BY <1>1, <1>2, <2>1, <2>2 DEF Distinct
  <2>3. CASE i >= p
    <3>1. i + 1 \in 1..Len(s) /\ t[i] = s[i + 1] /\ j + 1 \in 1..Len(s) /\ t[j] = s[j + 1]
      BY <1>1, <1>2, <2>1, <2>3
    <3>2. i + 1 = j + 1
      BY <1>2, <3>1 DEF Distinct
    <3>3. QED
      BY <1>2, <2>1, <3>2
  <2>4. CASE i < p /\ j >= p
    <3>1. i \in 1..Len(s) /\ t[i] = s[i] /\ j + 1 \in 1..Len(s) /\ t[j] = s[j + 1]
      BY <1>1, <2>4
    <3>2. i = j + 1
      BY <1>2, <3>1 DEF Distinct
    <3>3. QED
      BY <1>2, <2>1, <3>2
  <2>5. QED
    BY <2>1, <2>2, <2>3, <2>4
<1>3. Distinct(t)
  BY <1>1, <1>2 DEF Distinct
<1>4. ASSUME NEW i \in 1..Len(t)
      PROVE  t[i] # s[p] /\ t[i] \in Node
  <2>1. i \in Nat /\ p \in Nat
    BY <1>1
  <2>2. CASE i < p
    BY <1>1, <2>1, <2>2 DEF Distinct
  <2>3. CASE i >= p
    <3>1. i + 1 \in 1..Len(s) /\ t[i] = s[i + 1]
      BY <1>1, <2>3
    <3>2. i + 1 # p
      BY <2>1, <2>3
    <3>3. QED
      BY <3>1, <3>2 DEF Distinct
  <2>4. QED
    BY <2>1, <2>2, <2>3
<1>5. m2.head[l] = At(t, 1) /\ m2.tail[l] = At(t, Len(t)) /\ m2.size[l] = Len(t)
  <2>1. m2.size[l] = Len(t)
    BY <1>1 DEF IsErased, Linked
  <2>2. m2.head[l] = IF p = 1 THEN At(s, 2) ELSE At(s, 1)
    BY DEF IsErased, Linked
  <2>3. m2.tail[l] = IF p = Len(s) THEN At(s, Len(s) - 1) ELSE At(s, Len(s))
    BY DEF IsErased, Linked
  <2>4. At(t, 1) = IF p = 1 THEN At(s, 2) ELSE At(s, 1)
    BY <1>0
  <2>5. At(t, Len(t)) = IF p = Len(s) THEN At(s, Len(s) - 1) ELSE At(s, Len(s))
    <3>1. Len(t) \in Int /\ (Len(t) < p <=> p = Len(s)) /\ Len(t) + 1 = Len(s)
      BY <1>1
    <3>2. At(t, Len(t)) = IF Len(t) < p THEN At(s, Len(t)) ELSE At(s, Len(t) + 1)
      BY <1>0, <3>1
    <3>3. QED
      BY <1>1, <3>1, <3>2
  <2>6. QED
    BY <2>1, <2>2, <2>3, <2>4, <2>5
<1>6. ASSUME NEW i \in 1..Len(t)
      PROVE  m2.p_after[t[i]] = At(t, i + 1) /\ m2.p_before[t[i]] = At(t, i - 1)
  <2>1. /\ m2.p_after[t[i]]  = IF t[i] = At(s, p - 1) THEN At(s, p + 1) ELSE m.p_after[t[i]]
        /\ m2.p_before[t[i]] = IF t[i] = At(s, p + 1) THEN At(s, p - 1) ELSE m.p_before[t[i]]
    BY <1>4 DEF IsErased
  <2>2. CASE i < p
    <3>1. i \in 1..Len(s) /\ t[i] = s[i] /\ p - 1 \in Int /\ p + 1 \in Int
      BY <1>1, <2>2
    <3>2. m.p_after[s[i]] = At(s, i + 1) /\ m.p_before[s[i]] = At(s, i - 1)
      BY <3>1 DEF Linked
    <3>3. s[i] = At(s, p - 1) <=> i = p - 1
      BY <3>1, AtIs
    <3>4. s[i] # At(s, p + 1)
      BY <1>1, <2>2, <3>1, AtIs
    <3>5. m2.p_after[t[i]] = IF i = p - 1 THEN At(s, p + 1) ELSE At(s, i + 1)
      BY <2>1, <3>1, <3>2, <3>3
    <3>6. m2.p_before[t[i]] = At(s, i - 1)
      BY <2>1, <3>1, <3>2, <3>4
    <3>7. At(t, i + 1) = IF i = p - 1 THEN At(s, p + 1) ELSE At(s, i + 1)
      BY <1>0, <1>1, <2>2, SMTT(30)
    <3>8. At(t, i - 1) = At(s, i - 1)
      BY <1>0, <1>1, <2>2
    <3>9. QED
      BY <3>5, <3>6, <3>7, <3>8
  <2>3. CASE i >= p
    <3>1. i + 1 \in 1..Len(s) /\ t[i] = s[i + 1] /\ p - 1 \in Int /\ p + 1 \in Int
      BY <1>1, <2>3
    <3>2. m.p_after[s[i + 1]] = At(s, i + 2) /\ m.p_before[s[i + 1]] = At(s, i)
      BY <3>1 DEF Linked
    <3>3. s[i + 1] # At(s, p - 1)
      BY <1>1, <2>3, <3>1, AtIs
    <3>4. s[i + 1] = At(s, p + 1) <=> i = p
      BY <1>1, <2>3, <3>1, AtIs
    <3>5. m2.p_after[t[i]] = At(s, i + 2)
      BY <2>1, <3>1, <3>2, <3>3
    <3>6. m2.p_before[t[i]] = IF i = p THEN At(s, p - 1) ELSE At(s, i)
      BY <2>1, <3>1, <3>2, <3>4
    <3>7. At(t, i + 1) = At(s, i + 2)
      BY <1>0, <1>1, <2>3
    <3>8. At(t, i - 1) = IF i = p THEN At(s, p - 1) ELSE At(s, i)
      <4>1. i - 1 \in Int /\ (i - 1 < p <=> i = p) /\ (i - 1) + 1 = i
        BY <1>1, <2>3
      <4>2. At(t, i - 1) = IF i - 1 < p THEN At(s, i - 1) ELSE At(s, (i - 1) + 1)
        BY <1>0, <4>1
      <4>3. QED
        BY <4>1, <4>2
    <3>9. QED
      BY <3>5, <3>6, <3>7, <3>8
  <2>4. QED
    BY <1>1, <2>2, <2>3
<1>7. QED
  BY <1>3, <1>4, <1>5, <1>6 DEF Linked, t

LEMMA EraseRep ==
  ASSUME NEW m, NEW S, Rep(m, S), NEW l \in List, NEW p \in 1..Len(S[l]),
         NEW m2, IsErased(m, m2, l, S[l], p)
  PROVE  Rep(m2, [S EXCEPT ![l] = Del(S[l], p)])
<1>. DEFINE s == S[l]
            t == Del(s, p)
            T == [S EXCEPT ![l] = t]
<1>0. /\ s \in Seq(Node) /\ Distinct(s) /\ Linked(m, l, s)
      /\ p \in 1..Len(s) /\ IsErased(m, m2, l, s, p)
  BY DEF Rep
<1>1. /\ t \in Seq(Node) /\ Len(t) = Len(s) - 1 /\ Len(s) \in Nat
      /\ \A i \in 1..Len(t) : i < p => i \in 1..Len(s) /\ t[i] = s[i]
      /\ \A i \in 1..Len(t) : i >= p => i + 1 \in 1..Len(s) /\ t[i] = s[i + 1]
  <2>. HIDE DEF s
  <2>1. QED
    BY <1>0, DelNodes
<1>2. Distinct(t) /\ Linked(m2, l, t) /\ \A i \in 1..Len(t) : t[i] # s[p]
  <2>. HIDE DEF s
  <2>1. QED
    BY <1>0, EraseLinked
<1>. HIDE DEF t
<1>3. T \in [List -> Seq(Node)] /\ T[l] = t /\ \A k \in List \ {l} : T[k] = S[k]
  BY <1>1 DEF Rep
<1>. HIDE DEF T, s
<1>4. \A i \in 1..Len(t) : \E j \in 1..Len(s) : t[i] = s[j]
  <2>1. ASSUME NEW i \in 1..Len(t)
        PROVE  \E j \in 1..Len(s) : t[i] = s[j]
    <3>1. CASE i < p
      BY <1>1, <3>1
    <3>2. CASE i >= p
      <4>1. i + 1 \in 1..Len(s) /\ t[i] = s[i + 1]
        BY <1>1, <3>2
      <4>2. QED
        BY <4>1
    <3>3. QED
      BY <1>0, <1>1, <3>1, <3>2
  <2>2. QED
    BY <2>1
<1>5. \A j \in 1..Len(s) : j # p => \E i \in 1..Len(t) : t[i] = s[j]
  <2>1. ASSUME NEW j \in 1..Len(s), j # p
        PROVE  \E i \in 1..Len(t) : t[i] = s[j]
    <3>1. CASE j < p
      <4>1. j \in 1..Len(t) /\ t[j] = s[j]
        BY <1>0, <1>1, <3>1
      <4>2. QED
        BY <4>1
    <3>2. CASE j > p
      <4>1. j - 1 \in 1..Len(t) /\ j - 1 >= p /\ (j - 1) + 1 = j
        BY <1>0, <1>1, <3>2
      <4>2. t[j - 1] = s[j]
        BY <1>1, <4>1
      <4>3. QED
        BY <4>1, <4>2
    <3>3. QED
      BY <1>0, <1>1, <2>1, <3>1, <3>2
  <2>2. QED
    BY <2>1
<1>6. ASSUME NEW k \in List \ {l}
      PROVE  Distinct(T[k]) /\ Linked(m2, k, T[k])
  <2>1. Distinct(S[k]) /\ Linked(m, k, S[k]) /\ T[k] = S[k] /\ S[k] \in Seq(Node)
    BY <1>3 DEF Rep
  <2>2. ASSUME NEW i \in 1..Len(S[k])
        PROVE  /\ S[k][i] \in Node /\ S[k][i] # s[p]
               /\ S[k][i] # At(s, p - 1) /\ S[k][i] # At(s, p + 1)
    <3>1. \A j \in 1..Len(s) : S[k][i] # s[j]
      BY DEF Rep, Separate, s
    <3>2. S[k][i] \in Node
      BY <2>1
    <3>3. QED
      BY <1>0, <3>1, <3>2, NilAssumption DEF At
  <2>3. m2.head[k] = m.head[k] /\ m2.tail[k] = m.tail[k] /\ m2.size[k] = m.size[k]
    BY <1>0 DEF IsErased
  <2>4. ASSUME NEW i \in 1..Len(S[k])
        PROVE  /\ m2.p_after[S[k][i]] = m.p_after[S[k][i]]
               /\ m2.p_before[S[k][i]] = m.p_before[S[k][i]]
    BY <1>0, <2>2 DEF IsErased
  <2>5. Linked(m2, k, S[k])
    BY <2>1, <2>3, <2>4 DEF Linked
  <2>6. QED
    BY <2>1, <2>5
<1>7. Separate(T)
  <2>1. ASSUME NEW k \in List, NEW q \in List, k # q, NEW i \in 1..Len(T[k]), NEW j \in 1..Len(T[q])
        PROVE  T[k][i] # T[q][j]
    <3>1. \A o \in List \ {l} : \A h \in 1..Len(T[o]) : \A g \in 1..Len(s) : T[o][h] # s[g]
      BY <1>3 DEF Rep, Separate, s
    <3>2. CASE k = l
      BY <1>3, <1>4, <2>1, <3>1, <3>2
    <3>3. CASE q = l
      BY <1>3, <1>4, <2>1, <3>1, <3>3
    <3>4. CASE k # l /\ q # l
      BY <1>3, <2>1, <3>4 DEF Rep, Separate
    <3>5. QED
      BY <3>2, <3>3, <3>4
  <2>2. QED
    BY <2>1 DEF Separate
<1>8. ASSUME NEW x \in Node, Free(T, x)
      PROVE  m2.p_after[x] = Nil /\ m2.p_before[x] = Nil
  <2>1. CASE x = s[p]
    BY <1>0, <2>1 DEF IsErased
  <2>2. CASE x # s[p]
    <3>1. \A j \in 1..Len(s) : x # s[j]
      BY <1>3, <1>5, <1>8, <2>2 DEF Free
    <3>2. Free(S, x)
      BY <1>3, <1>8, <3>1 DEF Free, s
    <3>3. x # At(s, p - 1) /\ x # At(s, p + 1)
      BY <3>1, NilAssumption DEF At
    <3>4. QED
      BY <1>0, <2>2, <3>2, <3>3 DEF IsErased, Rep
  <2>3. QED
    BY <2>1, <2>2
<1>9. \A k \in List : Distinct(T[k]) /\ Linked(m2, k, T[k])
  BY <1>2, <1>3, <1>6
<1>10. QED
  BY <1>0, <1>3, <1>7, <1>8, <1>9 DEF Rep, IsErased, T, t, s

\* The nodes of src have come behind those of dst.
IsMigrated(m, m2, dst, src, s, u) ==
    /\ m2 \in MemType
    /\ \A k \in List : /\ m2.head[k] = IF k = src THEN Nil
                                       ELSE IF k = dst /\ Len(s) = 0 THEN At(u, 1) ELSE m.head[k]
                       /\ m2.tail[k] = IF k = src THEN Nil
                                       ELSE IF k = dst THEN At(u, Len(u)) ELSE m.tail[k]
                       /\ m2.size[k] = IF k = src THEN 0
                                       ELSE IF k = dst THEN Len(s) + Len(u) ELSE m.size[k]
    /\ \A x \in Node : /\ m2.p_after[x]  = IF x = At(s, Len(s)) THEN At(u, 1) ELSE m.p_after[x]
                       /\ m2.p_before[x] = IF x = At(u, 1) THEN At(s, Len(s)) ELSE m.p_before[x]

LEMMA ConcatNodes ==
  ASSUME NEW s \in Seq(Node), NEW u \in Seq(Node), NEW t, t = s \o u
  PROVE  /\ t \in Seq(Node) /\ Len(t) = Len(s) + Len(u) /\ Len(s) \in Nat /\ Len(u) \in Nat
         /\ \A i \in 1..Len(t) : i <= Len(s) => i \in 1..Len(s) /\ t[i] = s[i]
         /\ \A i \in 1..Len(t) : i > Len(s) => i - Len(s) \in 1..Len(u) /\ t[i] = u[i - Len(s)]
<1>1. /\ s \o u \in Seq(Node) /\ Len(s \o u) = Len(s) + Len(u)
      /\ \A i \in 1..(Len(s) + Len(u)) :
           (s \o u)[i] = IF i <= Len(s) THEN s[i] ELSE u[i - Len(s)]
  BY ConcatProperties
<1>2. Len(s) \in Nat /\ Len(u) \in Nat
  OBVIOUS
<1>3. QED
  BY <1>1, <1>2

LEMMA ConcatAt ==
  ASSUME NEW s \in Seq(Node), NEW u \in Seq(Node), NEW q \in Int
  PROVE  At(s \o u, q) = IF q <= Len(s) THEN At(s, q) ELSE At(u, q - Len(s))
<1>. DEFINE t == s \o u
<1>. HIDE DEF t
<1>1. /\ t \in Seq(Node) /\ Len(t) = Len(s) + Len(u) /\ Len(s) \in Nat /\ Len(u) \in Nat
      /\ \A i \in 1..Len(t) : i <= Len(s) => i \in 1..Len(s) /\ t[i] = s[i]
      /\ \A i \in 1..Len(t) : i > Len(s) => i - Len(s) \in 1..Len(u) /\ t[i] = u[i - Len(s)]
  BY ConcatNodes DEF t
<1>2. At(t, q) = IF q <= Len(s) THEN At(s, q) ELSE At(u, q - Len(s))
  <2>1. CASE q \in 1..Len(t)
    BY <1>1, <2>1 DEF At
  <2>2. CASE q \notin 1..Len(t)
    BY <1>1, <2>2 DEF At
  <2>3. QED
    BY <2>1, <2>2
<1>3. QED
  BY <1>2 DEF t

LEMMA MigrateLinked ==
  ASSUME NEW m, NEW m2, NEW dst \in List, NEW src \in List, dst # src,
         NEW s \in Seq(Node), Distinct(s), Linked(m, dst, s),
         NEW u \in Seq(Node), Distinct(u), Linked(m, src, u), Len(u) # 0,
         \A i \in 1..Len(s), j \in 1..Len(u) : s[i] # u[j],
         IsMigrated(m, m2, dst, src, s, u)
  PROVE  Distinct(s \o u) /\ Linked(m2, dst, s \o u)
<1>. DEFINE t == s \o u
<1>1. /\ t \in Seq(Node) /\ Len(t) = Len(s) + Len(u) /\ Len(s) \in Nat /\ Len(u) \in Nat
      /\ \A i \in 1..Len(t) : i <= Len(s) => i \in 1..Len(s) /\ t[i] = s[i]
      /\ \A i \in 1..Len(t) : i > Len(s) => i - Len(s) \in 1..Len(u) /\ t[i] = u[i - Len(s)]
  BY ConcatNodes
<1>2. \A q \in Int : At(t, q) = IF q <= Len(s) THEN At(s, q) ELSE At(u, q - Len(s))
  BY ConcatAt
<1>. HIDE DEF t
<1>3. ASSUME NEW i \in 1..Len(t), NEW j \in 1..Len(t), t[i] = t[j], i < j
      PROVE  FALSE
  <2>1. CASE j <= Len(s)
    <3>1. i \in 1..Len(s) /\ j \in 1..Len(s) /\ s[i] = s[j]
      BY <1>1, <1>3, <2>1
    <3>2. i = j
      BY <3>1 DEF Distinct
    <3>3. QED
      BY <1>3, <3>1, <3>2
  <2>2. CASE i > Len(s)
    <3>1. /\ i - Len(s) \in 1..Len(u) /\ j - Len(s) \in 1..Len(u)
          /\ u[i - Len(s)] = u[j - Len(s)]
      BY <1>1, <1>3, <2>2
    <3>2. i - Len(s) = j - Len(s)
      BY <3>1 DEF Distinct
    <3>3. QED
      BY <1>1, <1>3, <3>2
  <2>3. CASE i <= Len(s) /\ j > Len(s)
    BY <1>1, <1>3, <2>3
  <2>4. QED
    BY <1>1, <2>1, <2>2, <2>3
<1>4. Distinct(t)
  BY <1>1, <1>3 DEF Distinct
<1>5. m2.head[dst] = At(t, 1) /\ m2.tail[dst] = At(t, Len(t)) /\ m2.size[dst] = Len(t)
  <2>1. m2.size[dst] = Len(t) /\ m2.tail[dst] = At(u, Len(u))
    BY <1>1 DEF IsMigrated
  <2>2. m2.head[dst] = IF Len(s) = 0 THEN At(u, 1) ELSE At(s, 1)
    BY DEF IsMigrated, Linked
  <2>3. At(t, 1) = IF Len(s) = 0 THEN At(u, 1) ELSE At(s, 1)
    BY <1>1, <1>2
  <2>4. At(t, Len(t)) = At(u, Len(u))
    <3>1. Len(t) \in Int /\ ~(Len(t) <= Len(s)) /\ Len(t) - Len(s) = Len(u)
      BY <1>1
    <3>2. QED
      BY <1>2, <3>1
  <2>5. QED
    BY <2>1, <2>2, <2>3, <2>4
<1>6. ASSUME NEW i \in 1..Len(t)
      PROVE  m2.p_after[t[i]] = At(t, i + 1) /\ m2.p_before[t[i]] = At(t, i - 1)
  <2>1. /\ m2.p_after[t[i]]  = IF t[i] = At(s, Len(s)) THEN At(u, 1) ELSE m.p_after[t[i]]
        /\ m2.p_before[t[i]] = IF t[i] = At(u, 1) THEN At(s, Len(s)) ELSE m.p_before[t[i]]
    <3>1. t[i] \in Node
      BY <1>1
    <3>2. QED
      BY <3>1 DEF IsMigrated
  <2>2. CASE i <= Len(s)
    <3>1. i \in 1..Len(s) /\ t[i] = s[i]
      BY <1>1, <2>2
    <3>2. m.p_after[s[i]] = At(s, i + 1) /\ m.p_before[s[i]] = At(s, i - 1)
      BY <3>1 DEF Linked
    <3>3. Len(s) \in Int /\ (s[i] = At(s, Len(s)) <=> i = Len(s))
      BY <1>1, <3>1, AtIs
    <3>4. s[i] # At(u, 1)
      BY <1>1, <3>1 DEF At
    <3>5. m2.p_after[t[i]] = IF i = Len(s) THEN At(u, 1) ELSE At(s, i + 1)
      BY <2>1, <3>1, <3>2, <3>3
    <3>6. m2.p_before[t[i]] = At(s, i - 1)
      BY <2>1, <3>1, <3>2, <3>4
    <3>7. At(t, i + 1) = IF i = Len(s) THEN At(u, 1) ELSE At(s, i + 1)
      <4>1. /\ i + 1 \in Int /\ (i + 1 <= Len(s) <=> i # Len(s))
            /\ (i = Len(s) => (i + 1) - Len(s) = 1)
        BY <1>1, <3>1
      <4>2. QED
        BY <1>2, <4>1
    <3>8. At(t, i - 1) = At(s, i - 1)
      <4>1. i - 1 \in Int /\ i - 1 <= Len(s)
        BY <1>1, <3>1
      <4>2. QED
        BY <1>2, <4>1
    <3>9. QED
      BY <3>5, <3>6, <3>7, <3>8
  <2>3. CASE i > Len(s)
    <3>. DEFINE j == i - Len(s)
    <3>1. j \in 1..Len(u) /\ t[i] = u[j] /\ j \in Int
      BY <1>1, <2>3
    <3>a. i + 1 \in Int /\ ~(i + 1 <= Len(s)) /\ (i + 1) - Len(s) = j + 1
      BY <1>1, <2>3
    <3>b. /\ i - 1 \in Int /\ (i - 1 <= Len(s) <=> j = 1) /\ (i - 1) - Len(s) = j - 1
          /\ (j = 1 => i - 1 = Len(s))
      BY <1>1, <2>3
    <3>. HIDE DEF j
    <3>2. m.p_after[u[j]] = At(u, j + 1) /\ m.p_before[u[j]] = At(u, j - 1)
      BY <3>1 DEF Linked
    <3>3. u[j] # At(s, Len(s))
      <4>1. u[j] \in Node
        BY <3>1
      <4>2. QED
        BY <3>1, <4>1, NilAssumption DEF At
    <3>4. u[j] = At(u, 1) <=> j = 1
      BY <3>1, AtIs
    <3>5. m2.p_after[t[i]] = At(u, j + 1)
      BY <2>1, <3>1, <3>2, <3>3
    <3>6. m2.p_before[t[i]] = IF j = 1 THEN At(s, Len(s)) ELSE At(u, j - 1)
      BY <2>1, <3>1, <3>2, <3>4
    <3>7. At(t, i + 1) = At(u, j + 1)
      BY <1>2, <3>a
    <3>8. At(t, i - 1) = IF j = 1 THEN At(s, Len(s)) ELSE At(u, j - 1)
      BY <1>2, <3>b
    <3>9. QED
      BY <3>5, <3>6, <3>7, <3>8
  <2>4. QED
    BY <1>1, <2>2, <2>3
<1>7. QED
  BY <1>4, <1>5, <1>6 DEF Linked, t

LEMMA MigrateRep ==
  ASSUME NEW m, NEW S, Rep(m, S), NEW dst \in List, NEW src \in List, dst # src,
         Len(S[src]) # 0, NEW m2, IsMigrated(m, m2, dst, src, S[dst], S[src])
  PROVE  Rep(m2, [S EXCEPT ![dst] = S[dst] \o S[src], ![src] = <<>>])
<1>. DEFINE s == S[dst]
            u == S[src]
            t == s \o u
            T == [S EXCEPT ![dst] = t, ![src] = <<>>]
<1>0. /\ s \in Seq(Node) /\ Distinct(s) /\ Linked(m, dst, s)
      /\ u \in Seq(Node) /\ Distinct(u) /\ Linked(m, src, u) /\ Len(u) # 0
      /\ \A i \in 1..Len(s), j \in 1..Len(u) : s[i] # u[j]
      /\ IsMigrated(m, m2, dst, src, s, u)
  BY DEF Rep, Separate
<1>. HIDE DEF s, u
<1>1. /\ t \in Seq(Node) /\ Len(t) = Len(s) + Len(u) /\ Len(s) \in Nat /\ Len(u) \in Nat
      /\ \A i \in 1..Len(t) : i <= Len(s) => i \in 1..Len(s) /\ t[i] = s[i]
      /\ \A i \in 1..Len(t) : i > Len(s) => i - Len(s) \in 1..Len(u) /\ t[i] = u[i - Len(s)]
  BY <1>0, ConcatNodes
<1>2. Distinct(t) /\ Linked(m2, dst, t)
  BY <1>0, MigrateLinked
<1>. HIDE DEF t
<1>3. /\ T \in [List -> Seq(Node)] /\ T[dst] = t /\ T[src] = <<>>
      /\ \A k \in List \ {dst, src} : T[k] = S[k]
  <2>1. <<>> \in Seq(Node)
    OBVIOUS
  <2>2. S \in [List -> Seq(Node)]
    BY DEF Rep
  <2>3. QED
    BY <1>1, <2>1, <2>2
<1>. HIDE DEF T
<1>4. \A i \in 1..Len(t) : \/ \E j \in 1..Len(s) : t[i] = s[j]
                           \/ \E j \in 1..Len(u) : t[i] = u[j]
  <2>1. ASSUME NEW i \in 1..Len(t)
        PROVE  \/ \E j \in 1..Len(s) : t[i] = s[j]
               \/ \E j \in 1..Len(u) : t[i] = u[j]
    <3>1. CASE i <= Len(s)
      BY <1>1, <3>1
    <3>2. CASE i > Len(s)
      <4>1. i - Len(s) \in 1..Len(u) /\ t[i] = u[i - Len(s)]
        BY <1>1, <3>2
      <4>2. QED
        BY <4>1
    <3>3. QED
      BY <1>1, <3>1, <3>2
  <2>2. QED
    BY <2>1
<1>5. /\ \A j \in 1..Len(s) : \E i \in 1..Len(t) : t[i] = s[j]
      /\ \A j \in 1..Len(u) : \E i \in 1..Len(t) : t[i] = u[j]
  <2>1. ASSUME NEW j \in 1..Len(s)
        PROVE  \E i \in 1..Len(t) : t[i] = s[j]
    <3>1. j \in 1..Len(t) /\ j <= Len(s)
      BY <1>1
    <3>2. QED
      BY <1>1, <3>1
  <2>2. ASSUME NEW j \in 1..Len(u)
        PROVE  \E i \in 1..Len(t) : t[i] = u[j]
    <3>. DEFINE i == j + Len(s)
    <3>1. i \in 1..Len(t) /\ i > Len(s) /\ i - Len(s) = j
      BY <1>1
    <3>. HIDE DEF i
    <3>2. QED
      BY <1>1, <3>1
  <2>3. QED
    BY <2>1, <2>2
<1>6. ASSUME NEW k \in List \ {dst, src}
      PROVE  Distinct(T[k]) /\ Linked(m2, k, T[k])
  <2>1. Distinct(S[k]) /\ Linked(m, k, S[k]) /\ T[k] = S[k] /\ S[k] \in Seq(Node)
    BY <1>3 DEF Rep
  <2>2. ASSUME NEW i \in 1..Len(S[k])
        PROVE  S[k][i] \in Node /\ S[k][i] # At(s, Len(s)) /\ S[k][i] # At(u, 1)
    <3>1. /\ \A j \in 1..Len(s) : S[k][i] # s[j]
          /\ \A j \in 1..Len(u) : S[k][i] # u[j]
      BY DEF Rep, Separate, s, u
    <3>2. S[k][i] \in Node
      BY <2>1
    <3>3. QED
      BY <3>1, <3>2, NilAssumption DEF At
  <2>3. m2.head[k] = m.head[k] /\ m2.tail[k] = m.tail[k] /\ m2.size[k] = m.size[k]
    BY <1>0 DEF IsMigrated
  <2>4. ASSUME NEW i \in 1..Len(S[k])
        PROVE  /\ m2.p_after[S[k][i]] = m.p_after[S[k][i]]
               /\ m2.p_before[S[k][i]] = m.p_before[S[k][i]]
    BY <1>0, <2>2 DEF IsMigrated
  <2>5. Linked(m2, k, S[k])
    BY <2>1, <2>3, <2>4 DEF Linked
  <2>6. QED
    BY <2>1, <2>5
<1>7. Separate(T)
  <2>1. ASSUME NEW k \in List, NEW q \in List, k # q, NEW i \in 1..Len(T[k]), NEW j \in 1..Len(T[q])
        PROVE  T[k][i] # T[q][j]
    <3>1. \A o \in List \ {dst, src} : \A h \in 1..Len(T[o]) :
             /\ \A g \in 1..Len(s) : T[o][h] # s[g]
             /\ \A g \in 1..Len(s) : s[g] # T[o][h]
             /\ \A g \in 1..Len(u) : T[o][h] # u[g]
             /\ \A g \in 1..Len(u) : u[g] # T[o][h]
      <4>1. ASSUME NEW o \in List \ {dst, src}, NEW h \in 1..Len(T[o])
            PROVE  /\ \A g \in 1..Len(s) : T[o][h] # s[g]
                   /\ \A g \in 1..Len(u) : T[o][h] # u[g]
        <5>1. T[o] = S[o] /\ o # dst /\ o # src
          BY <1>3
        <5>2. QED
          BY <5>1 DEF Rep, Separate, s, u
      <4>2. QED
        BY <4>1
    <3>2. k # src /\ q # src
      BY <1>3, <2>1
    <3>3. CASE k = dst
      BY <1>3, <1>4, <2>1, <3>1, <3>2, <3>3, SMTT(30)
    <3>4. CASE q = dst
      <4>1. k \in List \ {dst, src} /\ j \in 1..Len(t) /\ T[q][j] = t[j]
        BY <1>3, <2>1, <3>2, <3>4
      <4>2. \/ \E g \in 1..Len(s) : t[j] = s[g]
            \/ \E g \in 1..Len(u) : t[j] = u[g]
        BY <1>4, <4>1
      <4>3. QED
        BY <3>1, <4>1, <4>2
    <3>5. CASE k # dst /\ q # dst
      BY <1>3, <2>1, <3>2, <3>5 DEF Rep, Separate
    <3>6. QED
      BY <3>3, <3>4, <3>5
  <2>2. QED
    BY <2>1 DEF Separate
<1>8. ASSUME NEW x \in Node, Free(T, x)
      PROVE  m2.p_after[x] = Nil /\ m2.p_before[x] = Nil
  <2>1. (\A j \in 1..Len(s) : x # s[j]) /\ \A j \in 1..Len(u) : x # u[j]
    <3>1. \A i \in 1..Len(t) : t[i] # x
      BY <1>3, <1>8 DEF Free
    <3>2. QED
      BY <1>5, <3>1
  <2>2. Free(S, x)
    BY <1>3, <1>8, <2>1 DEF Free, s, u
  <2>3. x # At(s, Len(s)) /\ x # At(u, 1)
    BY <2>1, NilAssumption DEF At
  <2>4. QED
    BY <1>0, <2>2, <2>3 DEF IsMigrated, Rep
<1>9. Distinct(T[src]) /\ Linked(m2, src, T[src])
  <2>1. Len(<<>>) = 0 /\ At(<<>>, 0) = Nil /\ At(<<>>, 1) = Nil
    BY DEF At
  <2>2. m2.head[src] = Nil /\ m2.tail[src] = Nil /\ m2.size[src] = 0
    BY <1>0 DEF IsMigrated
  <2>3. QED
    BY <1>3, <2>1, <2>2 DEF Distinct, Linked
<1>10. \A k \in List : Distinct(T[k]) /\ Linked(m2, k, T[k])
  BY <1>2, <1>3, <1>6, <1>9
<1>11. QED
  BY <1>0, <1>3, <1>7, <1>8, <1>10 DEF Rep, IsMigrated, T, t, s, u

-----------------------------------------------------------------------------
\* What the calls do to the memory.

LEMMA Ends ==
  ASSUME NEW m, NEW S, Rep(m, S), NEW l \in List, NEW s, s = S[l]
  PROVE  /\ s \in Seq(Node) /\ Len(s) \in Nat /\ Distinct(s)
         /\ m.head[l] = At(s, 1) /\ m.tail[l] = At(s, Len(s)) /\ m.size[l] = Len(s)
         /\ Len(s) = 0 => At(s, 1) = Nil /\ At(s, 0) = Nil
         /\ Len(s) # 0 => /\ At(s, 1) = s[1] /\ At(s, 1) \in Node /\ At(s, 1) # Nil
                          /\ At(s, Len(s)) = s[Len(s)] /\ At(s, Len(s)) \in Node
<1>1. s \in Seq(Node) /\ Distinct(s) /\ Linked(m, l, s) /\ Len(s) \in Nat
  BY DEF Rep
<1>2. Len(s) # 0 => 1 \in 1..Len(s) /\ Len(s) \in 1..Len(s)
  BY <1>1
<1>3. QED
  BY <1>1, <1>2, NilAssumption DEF Linked, At

\* The calls write the header of l and at most two links in each direction.
Written(m, m2, l, h, t, z, a, b) ==
    m2 = [head |-> [m.head EXCEPT ![l] = h], tail |-> [m.tail EXCEPT ![l] = t],
          size |-> [m.size EXCEPT ![l] = z], p_after |-> a, p_before |-> b]

LEMMA Put ==
  ASSUME NEW f \in [Node -> Ptr], NEW x \in Node, NEW v \in Ptr
  PROVE  /\ [f EXCEPT ![x] = v] \in [Node -> Ptr]
         /\ \A q \in Node : [f EXCEPT ![x] = v][q] = IF q = x THEN v ELSE f[q]
  OBVIOUS

LEMMA PutTwo ==
  ASSUME NEW f \in [Node -> Ptr], NEW x \in Node, NEW v \in Ptr, NEW y \in Node, NEW w \in Ptr
  PROVE  /\ [f EXCEPT ![x] = v, ![y] = w] \in [Node -> Ptr]
         /\ \A q \in Node : [f EXCEPT ![x] = v, ![y] = w][q] =
                               IF q = y THEN w ELSE IF q = x THEN v ELSE f[q]
  OBVIOUS

Reads(m, m2, l, h, t, z, a, b) ==
    /\ m2 \in MemType /\ m2.p_after = a /\ m2.p_before = b
    /\ \A k \in List : m2.head[k] = IF k = l THEN h ELSE m.head[k]
    /\ \A k \in List : m2.tail[k] = IF k = l THEN t ELSE m.tail[k]
    /\ \A k \in List : m2.size[k] = IF k = l THEN z ELSE m.size[k]

LEMMA WrittenReads ==
  ASSUME NEW m \in MemType, NEW m2, NEW l \in List, NEW h \in Ptr, NEW t \in Ptr, NEW z \in Nat,
         NEW a \in [Node -> Ptr], NEW b \in [Node -> Ptr], Written(m, m2, l, h, t, z, a, b)
  PROVE  Reads(m, m2, l, h, t, z, a, b)
<1>1. m.head \in [List -> Ptr] /\ m.tail \in [List -> Ptr] /\ m.size \in [List -> Nat]
  BY DEF MemType
<1>2. /\ m2.head = [m.head EXCEPT ![l] = h] /\ m2.tail = [m.tail EXCEPT ![l] = t]
      /\ m2.size = [m.size EXCEPT ![l] = z] /\ m2.p_after = a /\ m2.p_before = b
  BY DEF Written
<1>3. m2.head \in [List -> Ptr] /\ m2.tail \in [List -> Ptr] /\ m2.size \in [List -> Nat]
  BY <1>1, <1>2
<1>4. m2 \in MemType
  <2>1. m2 = [head |-> m2.head, tail |-> m2.tail, size |-> m2.size,
              p_after |-> a, p_before |-> b]
    BY <1>2 DEF Written
  <2>2. QED
    BY <1>3, <2>1 DEF MemType
<1>5. QED
  BY <1>1, <1>2, <1>4 DEF Reads

LEMMA LinkTypes ==
  ASSUME NEW m \in MemType, NEW l \in List
  PROVE  /\ m.p_after \in [Node -> Ptr] /\ m.p_before \in [Node -> Ptr] /\ Nil \in Ptr
         /\ Node \subseteq Ptr /\ m.head[l] \in Ptr /\ m.tail[l] \in Ptr /\ m.size[l] \in Nat
  BY DEF MemType, Ptr

\* n becomes the only node.
LEMMA SetOnceFits ==
  ASSUME NEW m, NEW S, Rep(m, S), NEW l \in List, NEW n \in Node, Len(S[l]) = 0
  PROVE  IsInserted(m, _list_lite_set_once(m, l, n), l, S[l], n, 1)
<1>. DEFINE s == S[l]
            m2 == _list_lite_set_once(m, l, n)
            a == [m.p_after EXCEPT ![n] = Nil]
            b == [m.p_before EXCEPT ![n] = Nil]
<1>1. m \in MemType /\ m.size[l] = 0 /\ At(s, 1) = Nil /\ At(s, 0) = Nil /\ Len(s) = 0
  BY Ends DEF Rep
<1>. HIDE DEF s
<1>2. Written(m, m2, l, n, n, 1, a, b)
  <2>1. m \in MemType
    BY <1>1
  <2>2. m2 = [m EXCEPT !.head = [m.head EXCEPT ![l] = n], !.tail = [m.tail EXCEPT ![l] = n],
                       !.p_after = a, !.p_before = b, !.size = [m.size EXCEPT ![l] = 1]]
    BY <2>1 DEF _list_lite_set_once, MemType
  <2>3. QED
    BY <2>1, <2>2 DEF MemType, Written
<1>. HIDE DEF m2
<1>3. /\ a \in [Node -> Ptr] /\ \A q \in Node : a[q] = IF q = n THEN Nil ELSE m.p_after[q]
      /\ b \in [Node -> Ptr] /\ \A q \in Node : b[q] = IF q = n THEN Nil ELSE m.p_before[q]
  BY <1>1, LinkTypes, Put
<1>. HIDE DEF a, b
<1>4. /\ m2 \in MemType /\ m2.p_after = a /\ m2.p_before = b
      /\ \A k \in List : m2.head[k] = IF k = l THEN n ELSE m.head[k]
      /\ \A k \in List : m2.tail[k] = IF k = l THEN n ELSE m.tail[k]
      /\ \A k \in List : m2.size[k] = IF k = l THEN 1 ELSE m.size[k]
  <2>1. n \in Ptr /\ 1 \in Nat
    BY DEF Ptr
  <2>2. Reads(m, m2, l, n, n, 1, a, b)
    BY <1>1, <1>2, <1>3, <2>1, WrittenReads
  <2>3. QED
    BY <2>2 DEF Reads
<1>5. \A x \in Node : x # Nil
  BY NilAssumption
<1>6. IsInserted(m, m2, l, s, n, 1)
  BY <1>1, <1>3, <1>4, <1>5 DEF IsInserted
<1>7. QED
  BY <1>6 DEF m2, s

LEMMA PushBackFits ==
  ASSUME NEW m, NEW S, Rep(m, S), NEW l \in List, NEW n \in Node, Free(S, n)
  PROVE  IsInserted(m, ev_list_push_back(m, l, n), l, S[l], n, Len(S[l]) + 1)
<1>. DEFINE s == S[l]
            m2 == ev_list_push_back(m, l, n)
<1>1. /\ s \in Seq(Node) /\ Len(s) \in Nat /\ m \in MemType
      /\ m.head[l] = At(s, 1) /\ m.tail[l] = At(s, Len(s)) /\ m.size[l] = Len(s)
      /\ Len(s) = 0 => At(s, 1) = Nil /\ At(s, 0) = Nil
      /\ Len(s) # 0 => /\ At(s, 1) \in Node /\ At(s, 1) # Nil
                       /\ At(s, Len(s)) \in Node /\ At(s, Len(s)) = s[Len(s)]
  BY Ends DEF Rep
<1>2. \A i \in 1..Len(s) : s[i] # n
  BY DEF Free
<1>3. CASE Len(s) = 0
  <2>1. m2 = _list_lite_set_once(m, l, n) /\ Len(s) + 1 = 1
    BY <1>1, <1>3 DEF ev_list_push_back
  <2>2. QED
    BY <1>3, <2>1, SetOnceFits
<1>4. CASE Len(s) # 0
  <2>. DEFINE e == At(s, Len(s))
              a == [m.p_after EXCEPT ![n] = Nil, ![e] = n]
              b == [m.p_before EXCEPT ![n] = e]
              p == Len(s) + 1
  <2>. HIDE DEF s
  <2>1. /\ e \in Node /\ e # n /\ m.tail[l] = e /\ m.head[l] # Nil
        /\ At(s, p) = Nil /\ At(s, p - 1) = e /\ p # 1 /\ m.size[l] + 1 \in Nat
    BY <1>1, <1>2, <1>4 DEF At
  <2>. HIDE DEF e
  <2>2. Written(m, m2, l, m.head[l], n, m.size[l] + 1, a, b)
    BY <1>1, <2>1 DEF ev_list_push_back, MemType, Written
  <2>. HIDE DEF m2
  <2>3. /\ a \in [Node -> Ptr]
        /\ \A q \in Node : a[q] = IF q = e THEN n ELSE IF q = n THEN Nil ELSE m.p_after[q]
    BY <1>1, <2>1, LinkTypes, PutTwo
  <2>4. /\ b \in [Node -> Ptr]
        /\ \A q \in Node : b[q] = IF q = n THEN e ELSE m.p_before[q]
    BY <1>1, <2>1, LinkTypes, Put
  <2>. HIDE DEF a, b
  <2>5. /\ m2 \in MemType /\ m2.p_after = a /\ m2.p_before = b
        /\ \A k \in List : m2.head[k] = IF k = l THEN m.head[l] ELSE m.head[k]
        /\ \A k \in List : m2.tail[k] = IF k = l THEN n ELSE m.tail[k]
        /\ \A k \in List : m2.size[k] = IF k = l THEN m.size[l] + 1 ELSE m.size[k]
    <3>1. n \in Ptr /\ m.head[l] \in Ptr
      BY <1>1, LinkTypes
    <3>2. m \in MemType /\ m.size[l] + 1 \in Nat
      BY <1>1, <2>1
    <3>3. a \in [Node -> Ptr] /\ b \in [Node -> Ptr]
      BY <2>3, <2>4
    <3>4. Reads(m, m2, l, m.head[l], n, m.size[l] + 1, a, b)
      BY <2>2, <3>1, <3>2, <3>3, WrittenReads
    <3>5. QED
      BY <3>4 DEF Reads
  <2>6. \A x \in Node : x # Nil
    BY NilAssumption
  <2>7. IsInserted(m, m2, l, s, n, p)
    BY <2>1, <2>3, <2>4, <2>5, <2>6 DEF IsInserted
  <2>8. QED
    BY <2>7 DEF m2, s
<1>5. QED
  BY <1>3, <1>4

LEMMA PushFrontFits ==
  ASSUME NEW m, NEW S, Rep(m, S), NEW l \in List, NEW n \in Node, Free(S, n)
  PROVE  IsInserted(m, ev_list_push_front(m, l, n), l, S[l], n, 1)
<1>. DEFINE s == S[l]
            m2 == ev_list_push_front(m, l, n)
<1>1. /\ s \in Seq(Node) /\ Len(s) \in Nat /\ m \in MemType
      /\ m.head[l] = At(s, 1) /\ m.size[l] = Len(s)
      /\ Len(s) = 0 => At(s, 1) = Nil
      /\ Len(s) # 0 => At(s, 1) \in Node /\ At(s, 1) # Nil /\ At(s, 1) = s[1]
  BY Ends DEF Rep
<1>2. \A i \in 1..Len(s) : s[i] # n
  BY DEF Free
<1>3. CASE Len(s) = 0
  <2>1. m2 = _list_lite_set_once(m, l, n)
    BY <1>1, <1>3 DEF ev_list_push_front
  <2>2. QED
    BY <1>3, <2>1, SetOnceFits
<1>4. CASE Len(s) # 0
  <2>. DEFINE e == At(s, 1)
              a == [m.p_after EXCEPT ![n] = e]
              b == [m.p_before EXCEPT ![n] = Nil, ![e] = n]
  <2>. HIDE DEF s
  <2>1. /\ e \in Node /\ e # n /\ m.head[l] = e /\ e # Nil
        /\ At(s, 1 - 1) = Nil /\ 1 # Len(s) + 1 /\ m.size[l] + 1 \in Nat
    BY <1>1, <1>2, <1>4 DEF At
  <2>a. At(s, 1) = e
    OBVIOUS
  <2>. HIDE DEF e
  <2>2. Written(m, m2, l, n, m.tail[l], m.size[l] + 1, a, b)
    BY <1>1, <2>1 DEF ev_list_push_front, MemType, Written
  <2>. HIDE DEF m2
  <2>3. /\ a \in [Node -> Ptr]
        /\ \A q \in Node : a[q] = IF q = n THEN e ELSE m.p_after[q]
    BY <1>1, <2>1, LinkTypes, Put
  <2>4. /\ b \in [Node -> Ptr]
        /\ \A q \in Node : b[q] = IF q = e THEN n ELSE IF q = n THEN Nil ELSE m.p_before[q]
    BY <1>1, <2>1, LinkTypes, PutTwo
  <2>. HIDE DEF a, b
  <2>5. /\ m2 \in MemType /\ m2.p_after = a /\ m2.p_before = b
        /\ \A k \in List : m2.head[k] = IF k = l THEN n ELSE m.head[k]
        /\ \A k \in List : m2.tail[k] = IF k = l THEN m.tail[l] ELSE m.tail[k]
        /\ \A k \in List : m2.size[k] = IF k = l THEN m.size[l] + 1 ELSE m.size[k]
    <3>1. n \in Ptr /\ m.tail[l] \in Ptr
      BY <1>1, LinkTypes
    <3>2. m \in MemType /\ m.size[l] + 1 \in Nat
      BY <1>1, <2>1
    <3>3. a \in [Node -> Ptr] /\ b \in [Node -> Ptr]
      BY <2>3, <2>4
    <3>4. Reads(m, m2, l, n, m.tail[l], m.size[l] + 1, a, b)
      BY <2>2, <3>1, <3>2, <3>3, WrittenReads
    <3>5. QED
      BY <3>4 DEF Reads
  <2>6. \A x \in Node : x # Nil
    BY NilAssumption
  <2>7. IsInserted(m, m2, l, s, n, 1)
    BY <2>1, <2>a, <2>3, <2>4, <2>5, <2>6 DEF IsInserted
  <2>8. QED
    BY <2>7 DEF m2, s
<1>5. QED
  BY <1>3, <1>4

LEMMA InsertBeforeFits ==
  ASSUME NEW m, NEW S, Rep(m, S), NEW l \in List, NEW n \in Node, Free(S, n),
         NEW p \in 1..Len(S[l])
  PROVE  IsInserted(m, ev_list_insert_before(m, l, S[l][p], n), l, S[l], n, p)
<1>. DEFINE s == S[l]
            pos == s[p]
            m2 == ev_list_insert_before(m, l, pos, n)
<1>1. /\ s \in Seq(Node) /\ Len(s) \in Nat /\ m \in MemType /\ Distinct(s)
      /\ m.head[l] = At(s, 1) /\ m.size[l] = Len(s)
  BY Ends DEF Rep
<1>2. (\A i \in 1..Len(s) : s[i] # n) /\ m.p_before[pos] = At(s, p - 1) /\ pos = At(s, p)
  BY DEF Free, Rep, Linked, At
<1>3. 1 \in Int /\ (pos = At(s, 1) <=> p = 1) /\ pos \in Node /\ p \in 1..Len(s)
  <2>1. p \in 1..Len(s)
    OBVIOUS
  <2>. HIDE DEF s
  <2>2. QED
    BY <1>1, <2>1, AtIs
<1>4. CASE p = 1
  <2>1. m2 = ev_list_push_front(m, l, n)
    BY <1>1, <1>3, <1>4 DEF ev_list_insert_before
  <2>2. QED
    BY <1>4, <2>1, PushFrontFits
<1>5. CASE p # 1
  <2>. DEFINE e == At(s, p - 1)
              a == [m.p_after EXCEPT ![n] = pos, ![e] = n]
              b == [m.p_before EXCEPT ![n] = e, ![pos] = n]
  <2>. HIDE DEF s
  <2>1. /\ e \in Node /\ e # n /\ pos # n /\ m.p_before[pos] = e /\ m.head[l] # pos
        /\ p # Len(s) + 1 /\ m.size[l] + 1 \in Nat
    <3>1. p - 1 \in 1..Len(s)
      BY <1>3, <1>5
    <3>2. e = s[p - 1]
      BY <3>1 DEF At
    <3>3. QED
      BY <1>1, <1>2, <1>3, <1>5, <3>1, <3>2
  <2>2. At(s, p - 1) = e /\ At(s, p) = pos
    BY <1>2
  <2>. HIDE DEF e, pos
  <2>3. Written(m, m2, l, m.head[l], m.tail[l], m.size[l] + 1, a, b)
    BY <1>1, <1>3, <2>1 DEF ev_list_insert_before, MemType, Written
  <2>. HIDE DEF m2
  <2>4. /\ a \in [Node -> Ptr]
        /\ \A q \in Node : a[q] = IF q = e THEN n ELSE IF q = n THEN pos ELSE m.p_after[q]
    <3>1. m.p_after \in [Node -> Ptr] /\ e \in Ptr /\ pos \in Ptr /\ n \in Ptr
      BY <1>1, <1>3, <2>1, LinkTypes
    <3>2. e \in Node /\ pos \in Node
      BY <1>3, <2>1
    <3>3. QED
      BY <3>1, <3>2, PutTwo
  <2>5. /\ b \in [Node -> Ptr]
        /\ \A q \in Node : b[q] = IF q = pos THEN n ELSE IF q = n THEN e ELSE m.p_before[q]
    <3>1. m.p_before \in [Node -> Ptr] /\ e \in Ptr /\ pos \in Ptr /\ n \in Ptr
      BY <1>1, <1>3, <2>1, LinkTypes
    <3>2. e \in Node /\ pos \in Node
      BY <1>3, <2>1
    <3>3. QED
      BY <3>1, <3>2, PutTwo
  <2>. HIDE DEF a, b
  <2>6. /\ m2 \in MemType /\ m2.p_after = a /\ m2.p_before = b
        /\ \A k \in List : m2.head[k] = IF k = l THEN m.head[l] ELSE m.head[k]
        /\ \A k \in List : m2.tail[k] = IF k = l THEN m.tail[l] ELSE m.tail[k]
        /\ \A k \in List : m2.size[k] = IF k = l THEN m.size[l] + 1 ELSE m.size[k]
    <3>1. m.head[l] \in Ptr /\ m.tail[l] \in Ptr
      BY <1>1, LinkTypes
    <3>2. m \in MemType /\ m.size[l] + 1 \in Nat
      BY <1>1, <2>1
    <3>3. a \in [Node -> Ptr] /\ b \in [Node -> Ptr]
      BY <2>4, <2>5
    <3>4. Reads(m, m2, l, m.head[l], m.tail[l], m.size[l] + 1, a, b)
      BY <2>3, <3>1, <3>2, <3>3, WrittenReads
    <3>5. QED
      BY <3>4 DEF Reads
  <2>7. IsInserted(m, m2, l, s, n, p)
    BY <1>5, <2>1, <2>2, <2>4, <2>5, <2>6 DEF IsInserted
  <2>8. QED
    BY <2>7 DEF m2, s, pos
<1>6. QED
  BY <1>4, <1>5

LEMMA InsertAfterFits ==
  ASSUME NEW m, NEW S, Rep(m, S), NEW l \in List, NEW n \in Node, Free(S, n),
         NEW p \in 1..Len(S[l])
  PROVE  IsInserted(m, ev_list_insert_after(m, l, S[l][p], n), l, S[l], n, p + 1)
<1>. DEFINE s == S[l]
            pos == s[p]
            m2 == ev_list_insert_after(m, l, pos, n)
<1>1. /\ s \in Seq(Node) /\ Len(s) \in Nat /\ m \in MemType /\ Distinct(s)
      /\ m.tail[l] = At(s, Len(s)) /\ m.size[l] = Len(s)
  BY Ends DEF Rep
<1>2. (\A i \in 1..Len(s) : s[i] # n) /\ m.p_after[pos] = At(s, p + 1) /\ pos = At(s, p)
  BY DEF Free, Rep, Linked, At
<1>3. /\ Len(s) \in Int /\ (pos = At(s, Len(s)) <=> p = Len(s)) /\ pos \in Node
      /\ p \in 1..Len(s)
  <2>1. p \in 1..Len(s)
    OBVIOUS
  <2>. HIDE DEF s
  <2>2. QED
    BY <1>1, <2>1, AtIs
<1>4. CASE p = Len(s)
  <2>1. m2 = ev_list_push_back(m, l, n)
    BY <1>1, <1>3, <1>4 DEF ev_list_insert_after
  <2>2. QED
    BY <1>4, <2>1, PushBackFits
<1>5. CASE p # Len(s)
  <2>. DEFINE e == At(s, p + 1)
              a == [m.p_after EXCEPT ![n] = e, ![pos] = n]
              b == [m.p_before EXCEPT ![n] = pos, ![e] = n]
  <2>. HIDE DEF s
  <2>1. /\ e \in Node /\ e # n /\ pos # n /\ m.p_after[pos] = e /\ m.tail[l] # pos
        /\ p + 1 # Len(s) + 1 /\ p + 1 # 1 /\ (p + 1) - 1 = p /\ m.size[l] + 1 \in Nat
    <3>1. p + 1 \in 1..Len(s)
      BY <1>3, <1>5
    <3>2. e = s[p + 1]
      BY <3>1 DEF At
    <3>3. QED
      BY <1>1, <1>2, <1>3, <1>5, <3>1, <3>2
  <2>2. At(s, p + 1) = e /\ At(s, (p + 1) - 1) = pos
    BY <1>2, <2>1
  <2>. HIDE DEF e, pos
  <2>3. Written(m, m2, l, m.head[l], m.tail[l], m.size[l] + 1, a, b)
    BY <1>1, <1>3, <2>1 DEF ev_list_insert_after, MemType, Written
  <2>. HIDE DEF m2
  <2>4. /\ a \in [Node -> Ptr]
        /\ \A q \in Node : a[q] = IF q = pos THEN n ELSE IF q = n THEN e ELSE m.p_after[q]
    <3>1. m.p_after \in [Node -> Ptr] /\ e \in Ptr /\ pos \in Ptr /\ n \in Ptr
      BY <1>1, <1>3, <2>1, LinkTypes
    <3>2. e \in Node /\ pos \in Node
      BY <1>3, <2>1
    <3>3. QED
      BY <3>1, <3>2, PutTwo
  <2>5. /\ b \in [Node -> Ptr]
        /\ \A q \in Node : b[q] = IF q = e THEN n ELSE IF q = n THEN pos ELSE m.p_before[q]
    <3>1. m.p_before \in [Node -> Ptr] /\ e \in Ptr /\ pos \in Ptr /\ n \in Ptr
      BY <1>1, <1>3, <2>1, LinkTypes
    <3>2. e \in Node /\ pos \in Node
      BY <1>3, <2>1
    <3>3. QED
      BY <3>1, <3>2, PutTwo
  <2>. HIDE DEF a, b
  <2>6. /\ m2 \in MemType /\ m2.p_after = a /\ m2.p_before = b
        /\ \A k \in List : m2.head[k] = IF k = l THEN m.head[l] ELSE m.head[k]
        /\ \A k \in List : m2.tail[k] = IF k = l THEN m.tail[l] ELSE m.tail[k]
        /\ \A k \in List : m2.size[k] = IF k = l THEN m.size[l] + 1 ELSE m.size[k]
    <3>1. m.head[l] \in Ptr /\ m.tail[l] \in Ptr
      BY <1>1, LinkTypes
    <3>2. m \in MemType /\ m.size[l] + 1 \in Nat
      BY <1>1, <2>1
    <3>3. a \in [Node -> Ptr] /\ b \in [Node -> Ptr]
      BY <2>4, <2>5
    <3>4. Reads(m, m2, l, m.head[l], m.tail[l], m.size[l] + 1, a, b)
      BY <2>3, <3>1, <3>2, <3>3, WrittenReads
    <3>5. QED
      BY <3>4 DEF Reads
  <2>7. IsInserted(m, m2, l, s, n, p + 1)
    BY <2>1, <2>2, <2>4, <2>5, <2>6 DEF IsInserted
  <2>8. QED
    BY <2>7 DEF m2, s, pos
<1>6. QED
  BY <1>4, <1>5

LEMMA EraseFits ==
  ASSUME NEW m, NEW S, Rep(m, S), NEW l \in List, NEW p \in 1..Len(S[l])
  PROVE  IsErased(m, ev_list_erase(m, l, S[l][p]), l, S[l], p)
<1>. DEFINE s == S[l]
            n == s[p]
            m1 == Bypassed(m, l, n)
            m2 == ev_list_erase(m, l, n)
            e == At(s, p - 1)
            f == At(s, p + 1)
<1>1. /\ s \in Seq(Node) /\ Len(s) \in Nat /\ m \in MemType /\ Distinct(s) /\ p \in 1..Len(s)
      /\ m.head[l] = At(s, 1) /\ m.tail[l] = At(s, Len(s)) /\ m.size[l] = Len(s)
  BY Ends DEF Rep
<1>2. m.p_before[n] = e /\ m.p_after[n] = f /\ m.head[l] = At(s, 1) /\ m.tail[l] = At(s, Len(s))
  BY DEF Rep, Linked
<1>. HIDE DEF s
<1>3. /\ n \in Node /\ (n = m.head[l] <=> p = 1) /\ (n = m.tail[l] <=> p = Len(s))
      /\ m.size[l] - 1 \in Nat
  <2>1. 1 \in Int /\ Len(s) \in Int /\ m.size[l] - 1 \in Nat /\ n \in Node
    BY <1>1
  <2>2. (n = At(s, 1) <=> p = 1) /\ (n = At(s, Len(s)) <=> p = Len(s))
    BY <1>1, <2>1, AtIs
  <2>3. QED
    BY <1>1, <2>1, <2>2
<1>4. p # 1 => e \in Node /\ e # n
  <2>1. p # 1 => p - 1 \in 1..Len(s) /\ p - 1 # p
    BY <1>1
  <2>2. QED
    BY <1>1, <2>1 DEF At, Distinct
<1>5. p # Len(s) => f \in Node /\ f # n
  <2>1. p # Len(s) => p + 1 \in 1..Len(s) /\ p + 1 # p
    BY <1>1
  <2>2. QED
    BY <1>1, <2>1 DEF At, Distinct
<1>6. (p = 1 => e = Nil) /\ (p = Len(s) => f = Nil)
  BY <1>1 DEF At
<1>7. (p = 1 => At(s, 2) = f) /\ (p = Len(s) => At(s, Len(s) - 1) = e)
  OBVIOUS
<1>8. Nil \in Ptr /\ e \in Ptr /\ f \in Ptr /\ m.head[l] \in Ptr /\ m.tail[l] \in Ptr
  BY <1>1, <1>4, <1>5, <1>6, LinkTypes DEF Ptr
<1>9. \A x \in Node : x # Nil
  BY NilAssumption
<1>. DEFINE h == IF p = 1 THEN f ELSE m.head[l]
            t == IF p = Len(s) THEN e ELSE m.tail[l]
            a == IF p = 1 THEN [m.p_after EXCEPT ![n] = Nil]
                          ELSE [m.p_after EXCEPT ![e] = f, ![n] = Nil]
            b == IF p = Len(s) THEN [m.p_before EXCEPT ![n] = Nil]
                               ELSE [m.p_before EXCEPT ![f] = e, ![n] = Nil]
<1>. HIDE DEF n, e, f
<1>10. Written(m, m2, l, h, t, m.size[l] - 1, a, b)
  <2>1. m \in MemType
    BY <1>1
  <2>2. /\ m = [head |-> m.head, tail |-> m.tail, size |-> m.size,
                p_after |-> m.p_after, p_before |-> m.p_before]
        /\ m.head \in [List -> Ptr] /\ m.tail \in [List -> Ptr] /\ m.size \in [List -> Nat]
    BY <2>1 DEF MemType
  <2>a. ASSUME NEW H, NEW T, NEW A, NEW B,
               m1 = [head |-> H, tail |-> T, size |-> m.size, p_after |-> A, p_before |-> B]
        PROVE  m2 = [head |-> H, tail |-> T, size |-> [m.size EXCEPT ![l] = m.size[l] - 1],
                     p_after |-> [A EXCEPT ![n] = Nil], p_before |-> [B EXCEPT ![n] = Nil]]
    <3>. HIDE DEF m1
    <3>1. m2 = [m1 EXCEPT !.size[l] = m1.size[l] - 1, !.p_after[n] = Nil, !.p_before[n] = Nil]
      BY DEF ev_list_erase, m1
    <3>2. QED
      BY <2>a, <3>1
  <2>3. CASE p = 1 /\ p = Len(s)
    <3>1. m1 = [head |-> [m.head EXCEPT ![l] = Nil], tail |-> [m.tail EXCEPT ![l] = Nil],
                size |-> m.size,
                p_after |-> m.p_after,
                p_before |-> m.p_before]
      BY <1>2, <1>3, <1>6, <2>2, <2>3 DEF Bypassed
    <3>. HIDE DEF m1, m2
    <3>2. m2 = [head |-> [m.head EXCEPT ![l] = Nil], tail |-> [m.tail EXCEPT ![l] = Nil],
                size |-> [m.size EXCEPT ![l] = m.size[l] - 1],
                p_after |-> [m.p_after EXCEPT ![n] = Nil],
                p_before |-> [m.p_before EXCEPT ![n] = Nil]]
      BY <2>a, <3>1
    <3>3. QED
      BY <1>6, <2>2, <2>3, <3>2 DEF Written
  <2>4. CASE p = 1 /\ p # Len(s)
    <3>1. m1 = [head |-> [m.head EXCEPT ![l] = f], tail |-> m.tail, size |-> m.size,
                p_after |-> m.p_after,
                p_before |-> [m.p_before EXCEPT ![f] = Nil]]
      BY <1>2, <1>3, <1>6, <2>2, <2>4 DEF Bypassed
    <3>. HIDE DEF m1, m2
    <3>2. m2 = [head |-> [m.head EXCEPT ![l] = f], tail |-> m.tail,
                size |-> [m.size EXCEPT ![l] = m.size[l] - 1],
                p_after |-> [m.p_after EXCEPT ![n] = Nil],
                p_before |-> [[m.p_before EXCEPT ![f] = Nil] EXCEPT ![n] = Nil]]
      BY <2>a, <3>1
    <3>3. QED
      BY <1>6, <2>2, <2>4, <3>2 DEF Written
  <2>5. CASE p # 1 /\ p = Len(s)
    <3>1. m1 = [head |-> m.head, tail |-> [m.tail EXCEPT ![l] = e], size |-> m.size,
                p_after |-> [m.p_after EXCEPT ![e] = Nil],
                p_before |-> m.p_before]
      BY <1>2, <1>3, <1>6, <2>2, <2>5 DEF Bypassed
    <3>. HIDE DEF m1, m2
    <3>2. m2 = [head |-> m.head, tail |-> [m.tail EXCEPT ![l] = e],
                size |-> [m.size EXCEPT ![l] = m.size[l] - 1],
                p_after |-> [[m.p_after EXCEPT ![e] = Nil] EXCEPT ![n] = Nil],
                p_before |-> [m.p_before EXCEPT ![n] = Nil]]
      BY <2>a, <3>1
    <3>3. QED
      BY <1>6, <2>2, <2>5, <3>2 DEF Written
  <2>6. CASE p # 1 /\ p # Len(s)
    <3>1. m1 = [head |-> m.head, tail |-> m.tail, size |-> m.size,
                p_after |-> [m.p_after EXCEPT ![e] = f],
                p_before |-> [m.p_before EXCEPT ![f] = e]]
      BY <1>2, <1>3, <1>6, <2>2, <2>6 DEF Bypassed
    <3>. HIDE DEF m1, m2
    <3>2. m2 = [head |-> m.head, tail |-> m.tail,
                size |-> [m.size EXCEPT ![l] = m.size[l] - 1],
                p_after |-> [[m.p_after EXCEPT ![e] = f] EXCEPT ![n] = Nil],
                p_before |-> [[m.p_before EXCEPT ![f] = e] EXCEPT ![n] = Nil]]
      BY <2>a, <3>1
    <3>3. QED
      BY <1>6, <2>2, <2>6, <3>2 DEF Written
  <2>7. QED
    BY <2>3, <2>4, <2>5, <2>6
<1>. HIDE DEF m2
<1>11. /\ a \in [Node -> Ptr]
       /\ \A q \in Node : a[q] = IF q = n THEN Nil ELSE IF q = e THEN f ELSE m.p_after[q]
  <2>1. m.p_after \in [Node -> Ptr]
    BY <1>1, LinkTypes
  <2>2. CASE p = 1
    <3>1. a = [m.p_after EXCEPT ![n] = Nil]
      BY <2>2
    <3>. HIDE DEF a
    <3>2. QED
      BY <1>3, <1>6, <1>8, <1>9, <2>1, <2>2, <3>1, Put
  <2>3. CASE p # 1
    <3>1. a = [m.p_after EXCEPT ![e] = f, ![n] = Nil]
      BY <2>3
    <3>. HIDE DEF a
    <3>2. QED
      BY <1>3, <1>4, <1>8, <2>1, <2>3, <3>1, PutTwo
  <2>4. QED
    BY <2>2, <2>3
<1>12. /\ b \in [Node -> Ptr]
       /\ \A q \in Node : b[q] = IF q = n THEN Nil ELSE IF q = f THEN e ELSE m.p_before[q]
  <2>1. m.p_before \in [Node -> Ptr]
    BY <1>1, LinkTypes
  <2>2. CASE p = Len(s)
    <3>1. b = [m.p_before EXCEPT ![n] = Nil]
      BY <2>2
    <3>. HIDE DEF b
    <3>2. QED
      BY <1>3, <1>6, <1>8, <1>9, <2>1, <2>2, <3>1, Put
  <2>3. CASE p # Len(s)
    <3>1. b = [m.p_before EXCEPT ![f] = e, ![n] = Nil]
      BY <2>3
    <3>. HIDE DEF b
    <3>2. QED
      BY <1>3, <1>5, <1>8, <2>1, <2>3, <3>1, PutTwo
  <2>4. QED
    BY <2>2, <2>3
<1>13. h \in Ptr /\ t \in Ptr
  BY <1>8
<1>. HIDE DEF a, b, h, t
<1>14. Reads(m, m2, l, h, t, m.size[l] - 1, a, b)
  <2>1. m \in MemType /\ m.size[l] - 1 \in Nat /\ a \in [Node -> Ptr] /\ b \in [Node -> Ptr]
    BY <1>1, <1>3, <1>11, <1>12
  <2>2. QED
    BY <1>10, <1>13, <2>1, WrittenReads
<1>15. \A k \in List : /\ m2.head[k] = IF k = l /\ p = 1 THEN At(s, 2) ELSE m.head[k]
                       /\ m2.tail[k] = IF k = l /\ p = Len(s) THEN At(s, Len(s) - 1) ELSE m.tail[k]
                       /\ m2.size[k] = IF k = l THEN m.size[k] - 1 ELSE m.size[k]
  BY <1>7, <1>14 DEF Reads, h, t
<1>16. \A x \in Node : /\ m2.p_after[x]  = IF x = s[p] THEN Nil
                                           ELSE IF x = At(s, p - 1) THEN At(s, p + 1)
                                           ELSE m.p_after[x]
                       /\ m2.p_before[x] = IF x = s[p] THEN Nil
                                           ELSE IF x = At(s, p + 1) THEN At(s, p - 1)
                                           ELSE m.p_before[x]
  BY <1>11, <1>12, <1>14 DEF Reads, n, e, f
<1>17. IsErased(m, m2, l, s, p)
  BY <1>14, <1>15, <1>16 DEF IsErased, Reads
<1>18. QED
  BY <1>17 DEF m2, s, n

LEMMA MigrateFits ==
  ASSUME NEW m, NEW S, Rep(m, S), NEW dst \in List, NEW src \in List, dst # src,
         Len(S[src]) # 0
  PROVE  IsMigrated(m, ev_list_migrate(m, dst, src), dst, src, S[dst], S[src])
<1>. DEFINE s == S[dst]
            u == S[src]
            e == At(s, Len(s))
            b == At(u, 1)
            m2 == ev_list_migrate(m, dst, src)
            h2 == [m.head EXCEPT ![src] = Nil, ![dst] = b]
            t2 == [m.tail EXCEPT ![src] = Nil, ![dst] = At(u, Len(u))]
            z2 == [m.size EXCEPT ![src] = 0, ![dst] = Len(s) + Len(u)]
<1>1. /\ m \in MemType /\ Len(s) \in Nat /\ m.tail[dst] = e /\ m.size[dst] = Len(s)
      /\ Len(s) = 0 => e = Nil
      /\ Len(s) # 0 => e \in Node
  BY Ends DEF Rep
<1>2. /\ Len(u) \in Nat /\ Len(u) # 0 /\ m.head[src] = b /\ m.size[src] = Len(u)
      /\ m.tail[src] = At(u, Len(u)) /\ b \in Node /\ b = u[1] /\ At(u, Len(u)) \in Node
  BY Ends
<1>3. m.p_before[b] = Nil
  <2>1. Linked(m, src, u) /\ u \in Seq(Node)
    BY DEF Rep
  <2>2. 1 \in 1..Len(u)
    BY <1>2
  <2>3. m.p_before[u[1]] = At(u, 1 - 1)
    BY <2>1, <2>2 DEF Linked
  <2>4. At(u, 1 - 1) = Nil
    BY <2>1 DEF At
  <2>5. QED
    BY <1>2, <2>3, <2>4
<1>4. /\ m = [head |-> m.head, tail |-> m.tail, size |-> m.size,
              p_after |-> m.p_after, p_before |-> m.p_before]
      /\ m.head \in [List -> Ptr] /\ m.tail \in [List -> Ptr] /\ m.size \in [List -> Nat]
      /\ m.p_after \in [Node -> Ptr] /\ m.p_before \in [Node -> Ptr]
  BY <1>1 DEF MemType
<1>5. b # Nil /\ \A x \in Node : x # Nil
  BY <1>2, NilAssumption
<1>. DEFINE tl == At(u, Len(u))
            z == Len(s) + Len(u)
<1>6. tl \in Ptr /\ b \in Ptr /\ Nil \in Ptr /\ z \in Nat /\ 0 \in Nat /\ e \in Ptr
  <2>1. Nil \in Ptr /\ Node \subseteq Ptr
    BY DEF Ptr
  <2>. HIDE DEF s, u, e, b
  <2>2. e \in Ptr
    BY <1>1, <2>1
  <2>3. QED
    BY <1>1, <1>2, <2>1, <2>2
<1>7. CASE Len(s) = 0
  <2>. HIDE DEF s, u, e, b
  <2>1. m2 = [head |-> h2, tail |-> t2, size |-> z2, p_after |-> m.p_after,
              p_before |-> m.p_before]
    <3>. DEFINE empty == [m EXCEPT !.head[src] = Nil, !.tail[src] = Nil, !.size[src] = 0]
    <3>1. m2 = [empty EXCEPT !.head[dst] = m.head[src], !.tail[dst] = m.tail[src],
                             !.size[dst] = m.size[src]]
      BY <1>1, <1>2, <1>5, <1>7 DEF ev_list_migrate
    <3>2. empty = [head |-> [m.head EXCEPT ![src] = Nil], tail |-> [m.tail EXCEPT ![src] = Nil],
                   size |-> [m.size EXCEPT ![src] = 0], p_after |-> m.p_after,
                   p_before |-> m.p_before]
      <4>1. m \in MemType
        BY <1>1
      <4>2. empty = [m EXCEPT !.head = [m.head EXCEPT ![src] = Nil],
                              !.tail = [m.tail EXCEPT ![src] = Nil],
                              !.size = [m.size EXCEPT ![src] = 0]]
        BY <4>1 DEF MemType
      <4>. HIDE DEF empty
      <4>3. QED
        BY <4>1, <4>2 DEF MemType
    <3>. HIDE DEF empty, m2
    <3>3. m2 = [head |-> [m.head EXCEPT ![src] = Nil, ![dst] = m.head[src]],
                tail |-> [m.tail EXCEPT ![src] = Nil, ![dst] = m.tail[src]],
                size |-> [m.size EXCEPT ![src] = 0, ![dst] = m.size[src]],
                p_after |-> m.p_after, p_before |-> m.p_before]
      BY <3>1, <3>2
    <3>4. Len(s) + Len(u) = m.size[src]
      BY <1>2, <1>7
    <3>5. QED
      BY <1>2, <3>3, <3>4
  <2>. HIDE DEF m2, tl, z
  <2>2. h2 \in [List -> Ptr] /\ t2 \in [List -> Ptr] /\ z2 \in [List -> Nat]
    BY <1>4, <1>6 DEF tl, z
  <2>3. m2 \in MemType
    <3>. HIDE DEF h2, t2, z2
    <3>1. QED
      BY <1>4, <2>1, <2>2 DEF MemType
  <2>4. \A k \in List : /\ m2.head[k] = IF k = src THEN Nil ELSE IF k = dst THEN b ELSE m.head[k]
                        /\ m2.tail[k] = IF k = src THEN Nil ELSE IF k = dst THEN tl ELSE m.tail[k]
                        /\ m2.size[k] = IF k = src THEN 0 ELSE IF k = dst THEN z ELSE m.size[k]
    BY <1>4, <2>1 DEF tl, z
  <2>5. m2.p_after = m.p_after /\ m2.p_before = m.p_before
    BY <2>1
  <2>6. IsMigrated(m, m2, dst, src, s, u)
    BY <1>1, <1>3, <1>5, <1>7, <2>3, <2>4, <2>5 DEF IsMigrated, e, b, tl, z
  <2>7. QED
    BY <2>6 DEF m2, s, u
<1>8. CASE Len(s) # 0
  <2>. DEFINE h3 == [m.head EXCEPT ![src] = Nil]
              a3 == [m.p_after EXCEPT ![e] = b]
              b3 == [m.p_before EXCEPT ![b] = e]
  <2>a. e # Nil /\ e \in Node
    BY <1>1, <1>5, <1>8
  <2>. HIDE DEF s, u, e, b
  <2>1. m2 = [head |-> h3, tail |-> t2, size |-> z2, p_after |-> a3, p_before |-> b3]
    BY <1>1, <1>2, <1>4, <1>5, <2>a DEF ev_list_migrate
  <2>. HIDE DEF m2, tl, z
  <2>2. h3 \in [List -> Ptr] /\ t2 \in [List -> Ptr] /\ z2 \in [List -> Nat]
    BY <1>4, <1>6 DEF tl, z
  <2>3. /\ a3 \in [Node -> Ptr] /\ \A q \in Node : a3[q] = IF q = e THEN b ELSE m.p_after[q]
        /\ b3 \in [Node -> Ptr] /\ \A q \in Node : b3[q] = IF q = b THEN e ELSE m.p_before[q]
    BY <1>2, <1>4, <1>6, <2>a, Put
  <2>4. \A k \in List : /\ m2.head[k] = IF k = src THEN Nil ELSE m.head[k]
                        /\ m2.tail[k] = IF k = src THEN Nil ELSE IF k = dst THEN tl ELSE m.tail[k]
                        /\ m2.size[k] = IF k = src THEN 0 ELSE IF k = dst THEN z ELSE m.size[k]
    BY <1>4, <2>1 DEF tl, z
  <2>. HIDE DEF h3, t2, z2, a3, b3
  <2>5. m2 \in MemType /\ m2.p_after = a3 /\ m2.p_before = b3
    BY <2>1, <2>2, <2>3 DEF MemType
  <2>6. IsMigrated(m, m2, dst, src, s, u)
    BY <1>8, <2>3, <2>4, <2>5 DEF IsMigrated, e, b, tl, z
  <2>7. QED
    BY <2>6 DEF m2, s, u
<1>9. QED
  BY <1>7, <1>8

-----------------------------------------------------------------------------
\* The sequences in the words of ListSeq.

LEMMA SeqEq ==
  ASSUME NEW s \in Seq(Node), NEW t \in Seq(Node), Len(s) = Len(t),
         \A i \in 1..Len(s) : s[i] = t[i]
  PROVE  s = t
  BY SeqEqual

LEMMA AppendIs ==
  ASSUME NEW s \in Seq(Node), NEW n \in Node
  PROVE  Append(s, n) = Ins(s, Len(s) + 1, n)
<1>. DEFINE t == Ins(s, Len(s) + 1, n)
            a == Append(s, n)
<1>1. Len(s) + 1 \in 1..(Len(s) + 1) /\ Len(s) \in Nat
  OBVIOUS
<1>2. /\ t \in Seq(Node) /\ Len(t) = Len(s) + 1 /\ t[Len(s) + 1] = n
      /\ \A i \in 1..Len(s) : t[i] = s[i]
  <2>1. /\ t \in Seq(Node) /\ Len(t) = Len(s) + 1
        /\ \A i \in 1..(Len(s) + 1) :
             t[i] = IF i < Len(s) + 1 THEN s[i] ELSE IF i = Len(s) + 1 THEN n ELSE s[i - 1]
    <3>1. IsIns(t, s, Len(s) + 1, n)
      BY <1>1, InsIsSeq
    <3>2. QED
      BY <1>1, <3>1 DEF IsIns
  <2>. HIDE DEF t
  <2>2. QED
    BY <1>1, <2>1
<1>3. /\ a \in Seq(Node) /\ Len(a) = Len(s) + 1 /\ a[Len(s) + 1] = n
      /\ \A i \in 1..Len(s) : a[i] = s[i]
  BY AppendProperties
<1>. HIDE DEF a, t
<1>4. \A i \in 1..Len(a) : i = Len(s) + 1 \/ i \in 1..Len(s)
  BY <1>1, <1>3
<1>5. a = t
  BY <1>2, <1>3, <1>4, SeqEq
<1>6. QED
  BY <1>5 DEF a, t

LEMMA PrependIs ==
  ASSUME NEW s \in Seq(Node), NEW n \in Node
  PROVE  <<n>> \o s = Ins(s, 1, n)
<1>. DEFINE o == <<n>>
            t == Ins(s, 1, n)
            a == o \o s
<1>1. o \in Seq(Node) /\ Len(o) = 1 /\ o[1] = n /\ Len(s) \in Nat /\ 1 \in 1..(Len(s) + 1)
  OBVIOUS
<1>2. /\ t \in Seq(Node) /\ Len(t) = Len(s) + 1
      /\ \A i \in 1..(Len(s) + 1) : t[i] = IF i < 1 THEN s[i] ELSE IF i = 1 THEN n ELSE s[i - 1]
  <2>1. IsIns(t, s, 1, n)
    BY <1>1, InsIsSeq
  <2>2. QED
    BY <1>1, <2>1 DEF IsIns
<1>. HIDE DEF o
<1>3. /\ a \in Seq(Node) /\ Len(a) = 1 + Len(s)
      /\ \A i \in 1..(1 + Len(s)) : a[i] = IF i <= 1 THEN o[i] ELSE s[i - 1]
  <2>1. o \in Seq(Node)
    BY <1>1
  <2>2. /\ a \in Seq(Node) /\ Len(a) = Len(o) + Len(s)
        /\ \A i \in 1..(Len(o) + Len(s)) : a[i] = IF i <= Len(o) THEN o[i] ELSE s[i - Len(o)]
    BY <2>1, ConcatProperties
  <2>. HIDE DEF a
  <2>3. QED
    BY <1>1, <2>2
<1>. HIDE DEF a, t
<1>4. ASSUME NEW i \in 1..Len(a)
      PROVE  a[i] = t[i]
  <2>1. i \in 1..(1 + Len(s)) /\ i \in 1..(Len(s) + 1) /\ i \in Int
    BY <1>1, <1>3
  <2>2. a[i] = IF i <= 1 THEN o[i] ELSE s[i - 1]
    BY <1>3, <2>1
  <2>3. t[i] = IF i < 1 THEN s[i] ELSE IF i = 1 THEN n ELSE s[i - 1]
    BY <1>2, <2>1
  <2>4. CASE i = 1
    BY <1>1, <2>2, <2>3, <2>4
  <2>5. CASE i # 1
    BY <2>1, <2>2, <2>3, <2>5
  <2>6. QED
    BY <2>4, <2>5
<1>5. Len(a) = Len(t) /\ a \in Seq(Node) /\ t \in Seq(Node)
  BY <1>1, <1>2, <1>3
<1>6. a = t
  BY <1>4, <1>5, SeqEq
<1>7. QED
  BY <1>6 DEF a, t, o

\* The part of s from i to j.
LEMMA Part ==
  ASSUME NEW s \in Seq(Node), NEW i \in 1..(Len(s) + 1), NEW j \in 0..Len(s), i <= j + 1
  PROVE  /\ SubSeq(s, i, j) \in Seq(Node) /\ Len(SubSeq(s, i, j)) = j - i + 1
         /\ \A k \in 1..(j - i + 1) : SubSeq(s, i, j)[k] = s[i + k - 1]
<1>1. i \in Int /\ j \in Int /\ Len(s) \in Nat
  OBVIOUS
<1>2. \A k \in i..j : s[k] \in Node
  BY <1>1
<1>3. /\ SubSeq(s, i, j) \in Seq(Node)
      /\ Len(SubSeq(s, i, j)) = IF i <= j THEN j - i + 1 ELSE 0
      /\ \A k \in 1..(j - i + 1) : SubSeq(s, i, j)[k] = s[i + k - 1]
  BY <1>1, <1>2, SubSeqProperties
<1>4. QED
  BY <1>1, <1>3

LEMMA RemoveAtIs ==
  ASSUME NEW s \in Seq(Node), NEW p \in 1..Len(s)
  PROVE  RemoveAt(s, p) = Del(s, p)
<1>. DEFINE x == SubSeq(s, 1, p - 1)
            y == SubSeq(s, p + 1, Len(s))
            a == x \o y
            t == Del(s, p)
<1>1. Len(s) \in Nat /\ p \in Nat /\ p >= 1 /\ p <= Len(s)
  OBVIOUS
<1>2. x \in Seq(Node) /\ Len(x) = p - 1 /\ \A k \in 1..(p - 1) : x[k] = s[k]
  <2>1. 1 \in 1..(Len(s) + 1) /\ p - 1 \in 0..Len(s) /\ 1 <= (p - 1) + 1
    BY <1>1
  <2>2. /\ x \in Seq(Node) /\ Len(x) = (p - 1) - 1 + 1
        /\ \A k \in 1..((p - 1) - 1 + 1) : x[k] = s[1 + k - 1]
    BY <2>1, Part
  <2>. HIDE DEF x
  <2>3. QED
    BY <1>1, <2>2
<1>3. /\ y \in Seq(Node) /\ Len(y) = Len(s) - p
      /\ \A k \in 1..(Len(s) - p) : y[k] = s[p + k]
  <2>1. p + 1 \in 1..(Len(s) + 1) /\ Len(s) \in 0..Len(s) /\ p + 1 <= Len(s) + 1
    BY <1>1
  <2>2. /\ y \in Seq(Node) /\ Len(y) = Len(s) - (p + 1) + 1
        /\ \A k \in 1..(Len(s) - (p + 1) + 1) : y[k] = s[(p + 1) + k - 1]
    BY <2>1, Part
  <2>. HIDE DEF y
  <2>3. Len(s) - (p + 1) + 1 = Len(s) - p
    BY <1>1
  <2>4. ASSUME NEW k \in 1..(Len(s) - p)
        PROVE  y[k] = s[p + k]
    <3>1. (p + 1) + k - 1 = p + k
      BY <1>1
    <3>2. y[k] = s[(p + 1) + k - 1]
      BY <2>2, <2>3
    <3>3. QED
      BY <3>1, <3>2
  <2>5. QED
    BY <2>2, <2>3, <2>4
<1>. HIDE DEF x, y
<1>4. /\ a \in Seq(Node) /\ Len(a) = Len(x) + Len(y)
      /\ \A i \in 1..(Len(x) + Len(y)) : a[i] = IF i <= Len(x) THEN x[i] ELSE y[i - Len(x)]
  BY <1>2, <1>3, ConcatProperties
<1>5. /\ t \in Seq(Node) /\ Len(t) = Len(s) - 1
      /\ \A i \in 1..(Len(s) - 1) : t[i] = IF i < p THEN s[i] ELSE s[i + 1]
  <2>1. IsDel(t, s, p)
    BY <1>1, DelIsSeq
  <2>2. QED
    BY <1>1, <2>1 DEF IsDel
<1>. HIDE DEF a, t
<1>6. ASSUME NEW i \in 1..(Len(s) - 1)
      PROVE  a[i] = t[i]
  <2>1. i \in 1..(Len(x) + Len(y)) /\ i \in Nat
    BY <1>1, <1>2, <1>3
  <2>2. CASE i < p
    <3>1. i \in 1..(p - 1) /\ i <= Len(x)
      BY <1>1, <1>2, <2>1, <2>2
    <3>2. QED
      BY <1>2, <1>4, <1>5, <2>1, <2>2, <3>1
  <2>3. CASE i >= p
    <3>1. i - Len(x) \in 1..(Len(s) - p) /\ ~(i <= Len(x)) /\ p + (i - Len(x)) = i + 1 /\ ~(i < p)
      BY <1>1, <1>2, <2>1, <2>3
    <3>2. a[i] = y[i - Len(x)] /\ t[i] = s[i + 1]
      BY <1>4, <1>5, <2>1, <3>1
    <3>3. QED
      BY <1>3, <3>1, <3>2
  <2>4. QED
    BY <1>1, <2>1, <2>2, <2>3
<1>7. Len(a) = Len(s) - 1
  BY <1>1, <1>2, <1>3, <1>4
<1>8. a = t
  BY <1>4, <1>5, <1>6, <1>7, SeqEq
<1>9. QED
  BY <1>8 DEF RemoveAt, a, t, x, y

LEMMA InsertAtIs ==
  ASSUME NEW s \in Seq(Node), NEW p \in 1..(Len(s) + 1), NEW n \in Node
  PROVE  InsertAt(s, p, n) = Ins(s, p, n)
<1>. DEFINE x == SubSeq(s, 1, p - 1)
            y == SubSeq(s, p, Len(s))
            o == <<n>>
            z == x \o o
            a == z \o y
            t == Ins(s, p, n)
<1>1. Len(s) \in Nat /\ p \in Nat /\ p >= 1 /\ p <= Len(s) + 1
  OBVIOUS
<1>2. x \in Seq(Node) /\ Len(x) = p - 1 /\ \A k \in 1..(p - 1) : x[k] = s[k]
  <2>1. 1 \in 1..(Len(s) + 1) /\ p - 1 \in 0..Len(s) /\ 1 <= (p - 1) + 1
    BY <1>1
  <2>2. /\ x \in Seq(Node) /\ Len(x) = (p - 1) - 1 + 1
        /\ \A k \in 1..((p - 1) - 1 + 1) : x[k] = s[1 + k - 1]
    BY <2>1, Part
  <2>. HIDE DEF x
  <2>3. QED
    BY <1>1, <2>2
<1>3. /\ y \in Seq(Node) /\ Len(y) = Len(s) - p + 1
      /\ \A k \in 1..(Len(s) - p + 1) : y[k] = s[p + k - 1]
  <2>1. p \in 1..(Len(s) + 1) /\ Len(s) \in 0..Len(s) /\ p <= Len(s) + 1
    BY <1>1
  <2>2. QED
    BY <2>1, Part
<1>4. o \in Seq(Node) /\ Len(o) = 1 /\ o[1] = n
  OBVIOUS
<1>. HIDE DEF x, y, o
<1>5. /\ z \in Seq(Node) /\ Len(z) = Len(x) + Len(o)
      /\ \A i \in 1..(Len(x) + Len(o)) : z[i] = IF i <= Len(x) THEN x[i] ELSE o[i - Len(x)]
  BY <1>2, <1>4, ConcatProperties
<1>. HIDE DEF z
<1>6. Len(z) = p /\ z[p] = n /\ \A i \in 1..(p - 1) : z[i] = s[i]
  <2>1. Len(z) = p /\ p \in 1..(Len(x) + Len(o)) /\ ~(p <= Len(x)) /\ p - Len(x) = 1
    BY <1>1, <1>2, <1>4, <1>5
  <2>2. \A i \in 1..(p - 1) : i \in 1..(Len(x) + Len(o)) /\ i <= Len(x)
    BY <1>1, <1>2, <1>4
  <2>3. QED
    BY <1>2, <1>4, <1>5, <2>1, <2>2
<1>7. /\ a \in Seq(Node) /\ Len(a) = Len(z) + Len(y)
      /\ \A i \in 1..(Len(z) + Len(y)) : a[i] = IF i <= Len(z) THEN z[i] ELSE y[i - Len(z)]
  <2>1. z \in Seq(Node) /\ y \in Seq(Node)
    BY <1>3, <1>5
  <2>2. QED
    BY <2>1, ConcatProperties
<1>8. /\ t \in Seq(Node) /\ Len(t) = Len(s) + 1
      /\ \A i \in 1..(Len(s) + 1) : t[i] = IF i < p THEN s[i] ELSE IF i = p THEN n ELSE s[i - 1]
  <2>1. IsIns(t, s, p, n)
    BY <1>1, InsIsSeq
  <2>2. QED
    BY <1>1, <2>1 DEF IsIns
<1>. HIDE DEF a, t
<1>9. ASSUME NEW i \in 1..(Len(s) + 1)
      PROVE  a[i] = t[i]
  <2>1. i \in 1..(Len(z) + Len(y)) /\ i \in Nat
    BY <1>1, <1>3, <1>6
  <2>2. CASE i < p
    <3>1. i \in 1..(p - 1) /\ i <= Len(z)
      BY <1>1, <1>6, <2>1, <2>2
    <3>2. QED
      BY <1>6, <1>7, <1>8, <2>1, <2>2, <3>1
  <2>3. CASE i = p
    BY <1>1, <1>6, <1>7, <1>8, <2>1, <2>3
  <2>4. CASE i > p
    <3>1. /\ i - Len(z) \in 1..(Len(s) - p + 1) /\ ~(i <= Len(z)) /\ p + (i - Len(z)) - 1 = i - 1
          /\ ~(i < p) /\ i # p
      BY <1>1, <1>6, <2>1, <2>4
    <3>2. a[i] = y[i - Len(z)] /\ t[i] = s[i - 1]
      BY <1>7, <1>8, <2>1, <3>1
    <3>3. QED
      BY <1>3, <3>1, <3>2
  <2>5. QED
    BY <1>1, <2>1, <2>2, <2>3, <2>4
<1>10. Len(a) = Len(s) + 1
  BY <1>1, <1>3, <1>6, <1>7
<1>11. a = t
  BY <1>7, <1>8, <1>9, <1>10, SeqEq
<1>12. QED
  BY <1>11 DEF InsertAt, a, t, x, y, z, o

LEMMA EndsAre ==
  ASSUME NEW s \in Seq(Node), Len(s) # 0
  PROVE  /\ Head(s) = s[1] /\ Tail(s) = Del(s, 1)
         /\ Last(s) = s[Len(s)] /\ Front(s) = Del(s, Len(s))
<1>1. Len(s) \in Nat /\ 1 \in 1..Len(s) /\ Len(s) \in 1..Len(s) /\ s # <<>>
  OBVIOUS
<1>. DEFINE a == Tail(s)
            t == Del(s, 1)
            b == Front(s)
            v == Del(s, Len(s))
<1>2. a \in Seq(Node) /\ Len(a) = Len(s) - 1 /\ \A i \in 1..Len(a) : a[i] = s[i + 1]
  BY <1>1, HeadTailProperties
<1>3. /\ t \in Seq(Node) /\ Len(t) = Len(s) - 1
      /\ \A i \in 1..(Len(s) - 1) : t[i] = IF i < 1 THEN s[i] ELSE s[i + 1]
  <2>1. IsDel(t, s, 1)
    BY <1>1, DelIsSeq
  <2>2. QED
    BY <1>1, <2>1 DEF IsDel
<1>4. /\ v \in Seq(Node) /\ Len(v) = Len(s) - 1
      /\ \A i \in 1..(Len(s) - 1) : v[i] = IF i < Len(s) THEN s[i] ELSE s[i + 1]
  <2>1. IsDel(v, s, Len(s))
    BY <1>1, DelIsSeq
  <2>2. QED
    BY <1>1, <2>1 DEF IsDel
<1>5. b \in Seq(Node) /\ Len(b) = Len(s) - 1 /\ \A k \in 1..(Len(s) - 1) : b[k] = s[k]
  <2>1. 1 \in 1..(Len(s) + 1) /\ Len(s) - 1 \in 0..Len(s) /\ 1 <= (Len(s) - 1) + 1
    BY <1>1
  <2>2. /\ b \in Seq(Node) /\ Len(b) = (Len(s) - 1) - 1 + 1
        /\ \A k \in 1..((Len(s) - 1) - 1 + 1) : b[k] = s[1 + k - 1]
    BY <2>1, Part DEF Front
  <2>. HIDE DEF b
  <2>3. QED
    BY <1>1, <2>2
<1>. HIDE DEF a, t, b, v
<1>6. a = t
  <2>1. \A i \in 1..Len(a) : a[i] = t[i]
    BY <1>1, <1>2, <1>3
  <2>2. QED
    BY <1>2, <1>3, <2>1, SeqEq
<1>7. b = v
  <2>1. \A i \in 1..Len(b) : b[i] = v[i]
    BY <1>1, <1>4, <1>5
  <2>2. QED
    BY <1>4, <1>5, <2>1, SeqEq
<1>8. Head(s) = s[1]
  OBVIOUS
<1>9. QED
  BY <1>6, <1>7, <1>8 DEF Last, a, t, b, v

-----------------------------------------------------------------------------
\* What the walks see of the memory.

LEMMA ReverseIs ==
  ASSUME NEW s \in Seq(Node), Distinct(s), NEW r, r = Reverse(s)
  PROVE  /\ r \in Seq(Node) /\ Len(r) = Len(s) /\ Distinct(r)
         /\ \A q \in Int : At(r, q) = At(s, Len(s) - q + 1)
<1>1. /\ r \in Seq(Node) /\ Len(r) = Len(s) /\ Len(s) \in Nat
      /\ \A i \in 1..Len(s) : r[i] = s[(Len(s) - i) + 1]
  BY ReverseIsSeq
<1>2. ASSUME NEW i \in 1..Len(r), NEW j \in 1..Len(r), r[i] = r[j]
      PROVE  i = j
  <2>1. (Len(s) - i) + 1 \in 1..Len(s) /\ (Len(s) - j) + 1 \in 1..Len(s)
    BY <1>1
  <2>2. (Len(s) - i) + 1 = (Len(s) - j) + 1
    BY <1>1, <1>2, <2>1 DEF Distinct
  <2>3. QED
    BY <1>1, <2>2
<1>3. ASSUME NEW q \in Int
      PROVE  At(r, q) = At(s, Len(s) - q + 1)
  BY <1>1 DEF At
<1>4. QED
  BY <1>1, <1>2, <1>3 DEF Distinct

ForwardIn(m, l)  == Walk(m.head[l], [n \in Node |-> m.p_after[n]])
BackwardIn(m, l) == Walk(m.tail[l], [n \in Node |-> m.p_before[n]])

LEMMA Represented ==
  ASSUME NEW m, NEW S, Rep(m, S), NEW l \in List
  PROVE  ForwardIn(m, l) = S[l] /\ BackwardIn(m, l) = Reverse(S[l])
<1>. DEFINE s == S[l]
            r == Reverse(s)
            fw == [n \in Node |-> m.p_after[n]]
            bw == [n \in Node |-> m.p_before[n]]
<1>1. s \in Seq(Node) /\ Distinct(s) /\ Linked(m, l, s) /\ Len(s) \in Nat
  BY DEF Rep
<1>. HIDE DEF s
<1>2. Walk(m.head[l], fw) = s
  <2>1. m.head[l] = At(s, 1)
    BY <1>1 DEF Linked
  <2>2. \A i \in 1..Len(s) : fw[s[i]] = At(s, i + 1)
    <3>1. \A i \in 1..Len(s) : s[i] \in Node
      BY <1>1
    <3>2. QED
      BY <1>1, <3>1 DEF Linked
  <2>. HIDE DEF fw
  <2>3. QED
    BY <1>1, <2>1, <2>2, WalkIs
<1>3. /\ r \in Seq(Node) /\ Len(r) = Len(s) /\ Distinct(r)
      /\ \A q \in Int : At(r, q) = At(s, Len(s) - q + 1)
  BY <1>1, ReverseIs
<1>. HIDE DEF r
<1>4. Walk(m.tail[l], bw) = r
  <2>1. m.tail[l] = At(r, 1)
    <3>1. Len(s) - 1 + 1 = Len(s)
      BY <1>1
    <3>2. QED
      BY <1>1, <1>3, <3>1 DEF Linked
  <2>2. ASSUME NEW i \in 1..Len(r)
        PROVE  bw[r[i]] = At(r, i + 1)
    <3>. DEFINE j == Len(s) - i + 1
    <3>1. j \in 1..Len(s) /\ i \in Int /\ i + 1 \in Int /\ Len(s) - (i + 1) + 1 = j - 1
      BY <1>1, <1>3
    <3>2. At(r, i) = At(s, j) /\ At(r, i + 1) = At(s, j - 1)
      BY <1>3, <3>1
    <3>. HIDE DEF j
    <3>3. r[i] = s[j] /\ s[j] \in Node
      BY <1>1, <3>1, <3>2 DEF At
    <3>4. m.p_before[s[j]] = At(s, j - 1)
      BY <1>1, <3>1 DEF Linked
    <3>5. QED
      BY <3>2, <3>3, <3>4
  <2>. HIDE DEF bw
  <2>3. QED
    BY <1>3, <2>1, <2>2, WalkIs
<1>5. QED
  BY <1>2, <1>4 DEF ForwardIn, BackwardIn, s, r

\* The inductive invariant: the memory represents the sequences of the walks.
Sq      == [l \in List |-> Forward(l)]
ListInv == popped \in Ptr /\ Rep(mem, Sq)

LEMMA WalksAre ==
  ASSUME NEW S, Rep(mem, S)
  PROVE  Sq = S /\ \A l \in List : Forward(l) = S[l] /\ Backward(l) = Reverse(S[l])
<1>1. \A l \in List : Forward(l) = S[l] /\ Backward(l) = Reverse(S[l])
  <2>1. ASSUME NEW l \in List
        PROVE  Forward(l) = S[l] /\ Backward(l) = Reverse(S[l])
    BY Represented DEF Forward, Backward, ForwardIn, BackwardIn, ev_list_begin, ev_list_end,
                       ev_list_next, ev_list_prev
  <2>2. QED
    BY <2>1
<1>2. S \in [List -> Seq(Node)]
  BY DEF Rep
<1>3. QED
  BY <1>1, <1>2 DEF Sq

LEMMA WalksAreNext ==
  ASSUME NEW S, Rep(mem', S)
  PROVE  Sq' = S
<1>1. \A l \in List : Forward(l)' = S[l]
  <2>1. ASSUME NEW l \in List
        PROVE  Forward(l)' = S[l]
    BY Represented DEF Forward, ForwardIn, ev_list_begin, ev_list_next
  <2>2. QED
    BY <2>1
<1>2. S \in [List -> Seq(Node)]
  BY DEF Rep
<1>3. QED
  BY <1>1, <1>2 DEF Sq

LEMMA Nodes ==
  ASSUME ListInv
  PROVE  /\ \A l \in List : Sq[l] = Forward(l) /\ Sq[l] \in Seq(Node)
         /\ \A l \in List : In(l) = {Sq[l][i] : i \in 1..Len(Sq[l])}
         /\ \A n \in Node : n \in Unlisted <=> Free(Sq, n)
<1>1. \A l \in List : Sq[l] = Forward(l) /\ Sq[l] \in Seq(Node)
  BY DEF ListInv, Rep, Sq
<1>2. \A l \in List : In(l) = {Sq[l][i] : i \in 1..Len(Sq[l])}
  BY <1>1 DEF In, ToSet
<1>3. ASSUME NEW n \in Node
      PROVE  n \in Unlisted <=> Free(Sq, n)
  <2>1. n \in Unlisted <=> \A l \in List : n \notin In(l)
    BY DEF Unlisted
  <2>2. \A l \in List : n \notin In(l) <=> \A i \in 1..Len(Sq[l]) : Sq[l][i] # n
    BY <1>2
  <2>3. QED
    BY <2>1, <2>2 DEF Free
<1>4. QED
  BY <1>1, <1>2, <1>3

-----------------------------------------------------------------------------
\* Each call keeps the invariant and does what ListSeq says of it.

LEMMA RepNext ==
  ASSUME NEW S, Rep(mem', S), popped' \in Ptr
  PROVE  ListInv' /\ Sq' = S
<1>1. Sq' = S
  BY WalksAreNext
<1>2. QED
  BY <1>1 DEF ListInv

LEMMA BecomesIs ==
  ASSUME ListInv, NEW l \in List, NEW t, Rep(mem', [Sq EXCEPT ![l] = t]), popped' = popped
  PROVE  ListInv' /\ Seqs!Becomes(l, t)
<1>1. ListInv' /\ Sq' = [Sq EXCEPT ![l] = t]
  BY RepNext DEF ListInv
<1>2. QED
  BY <1>1 DEF Sq, Seqs!Becomes

LEMMA PlaceIs ==
  ASSUME ListInv, NEW l \in List, NEW p \in 1..Len(Sq[l])
  PROVE  Seqs!Place(l, Sq[l][p]) = p
<1>1. Sq[l] \in Seq(Node) /\ Distinct(Sq[l])
  BY DEF ListInv, Rep
<1>2. Seqs!Place(l, Sq[l][p]) = CHOOSE i \in 1..Len(Sq[l]) : Sq[l][i] = Sq[l][p]
  BY DEF Seqs!Place, Sq
<1>3. \A i \in 1..Len(Sq[l]) : Sq[l][i] = Sq[l][p] <=> i = p
  BY <1>1 DEF Distinct
<1>4. QED
  BY <1>2, <1>3

LEMMA SameInsertAt ==
  ASSUME NEW s, NEW p, NEW n
  PROVE  Seqs!InsertAt(s, p, n) = InsertAt(s, p, n)
  BY DEF InsertAt, Seqs!InsertAt

LEMMA SameRemoveAt ==
  ASSUME NEW s, NEW p
  PROVE  Seqs!RemoveAt(s, p) = RemoveAt(s, p)
  BY DEF RemoveAt, Seqs!RemoveAt

LEMMA SameEnds ==
  ASSUME NEW s
  PROVE  Seqs!Last(s) = Last(s) /\ Seqs!Front(s) = Front(s)
  BY DEF Last, Front, Seqs!Last, Seqs!Front

LEMMA PushBackStep ==
  ASSUME ListInv, NEW l \in List, NEW n \in Node, PushBack(l, n)
  PROVE  ListInv' /\ Seqs!PushBack(l, n)
<1>. DEFINE s == Sq[l]
<1>1. Rep(mem, Sq) /\ s \in Seq(Node) /\ Free(Sq, n) /\ Len(s) + 1 \in 1..(Len(s) + 1)
  BY Nodes DEF ListInv, PushBack
<1>2. mem' = ev_list_push_back(mem, l, n) /\ popped' = popped
  BY DEF PushBack
<1>3. IsInserted(mem, mem', l, s, n, Len(s) + 1)
  BY <1>1, <1>2, PushBackFits
<1>4. Rep(mem', [Sq EXCEPT ![l] = Ins(s, Len(s) + 1, n)])
  BY <1>1, <1>3, InsertRep
<1>5. Ins(s, Len(s) + 1, n) = Append(s, n)
  <2>. HIDE DEF s
  <2>1. QED
    BY <1>1, AppendIs
<1>6. ListInv' /\ Seqs!Becomes(l, Append(s, n))
  BY <1>2, <1>4, <1>5, BecomesIs
<1>7. QED
  BY <1>6 DEF Seqs!PushBack, Sq

LEMMA PushFrontStep ==
  ASSUME ListInv, NEW l \in List, NEW n \in Node, PushFront(l, n)
  PROVE  ListInv' /\ Seqs!PushFront(l, n)
<1>. DEFINE s == Sq[l]
<1>1. Rep(mem, Sq) /\ s \in Seq(Node) /\ Free(Sq, n) /\ 1 \in 1..(Len(s) + 1)
  BY Nodes DEF ListInv, PushFront
<1>2. mem' = ev_list_push_front(mem, l, n) /\ popped' = popped
  BY DEF PushFront
<1>3. IsInserted(mem, mem', l, s, n, 1)
  BY <1>1, <1>2, PushFrontFits
<1>4. Rep(mem', [Sq EXCEPT ![l] = Ins(s, 1, n)])
  BY <1>1, <1>3, InsertRep
<1>5. Ins(s, 1, n) = <<n>> \o s
  <2>. HIDE DEF s
  <2>1. QED
    BY <1>1, PrependIs
<1>6. ListInv' /\ Seqs!Becomes(l, <<n>> \o s)
  BY <1>2, <1>4, <1>5, BecomesIs
<1>7. QED
  BY <1>6 DEF Seqs!PushFront, Sq

LEMMA InsertBeforeStep ==
  ASSUME ListInv, NEW l \in List, NEW pos \in Node, NEW n \in Node, InsertBefore(l, pos, n)
  PROVE  ListInv' /\ Seqs!InsertBefore(l, pos, n)
<1>. DEFINE s == Sq[l]
<1>1. Rep(mem, Sq) /\ s \in Seq(Node) /\ Free(Sq, n)
  BY Nodes DEF ListInv, InsertBefore
<1>2. mem' = ev_list_insert_before(mem, l, pos, n) /\ popped' = popped
  BY DEF InsertBefore
<1>3. PICK p \in 1..Len(s) : pos = s[p]
  BY Nodes DEF InsertBefore
<1>4. IsInserted(mem, mem', l, s, n, p)
  BY <1>1, <1>2, <1>3, InsertBeforeFits
<1>5. p \in 1..(Len(s) + 1)
  <2>. HIDE DEF s
  <2>1. QED
    BY <1>1
<1>6. Rep(mem', [Sq EXCEPT ![l] = Ins(s, p, n)])
  BY <1>1, <1>4, <1>5, InsertRep
<1>7. Ins(s, p, n) = Seqs!InsertAt(s, Seqs!Place(l, pos), n)
  <2>1. Seqs!Place(l, pos) = p
    BY <1>3, PlaceIs
  <2>. HIDE DEF s
  <2>2. Ins(s, p, n) = InsertAt(s, p, n)
    BY <1>1, <1>5, InsertAtIs
  <2>3. QED
    BY <2>1, <2>2, SameInsertAt
<1>8. ListInv' /\ Seqs!Becomes(l, Seqs!InsertAt(s, Seqs!Place(l, pos), n))
  BY <1>2, <1>6, <1>7, BecomesIs
<1>9. QED
  BY <1>8 DEF Seqs!InsertBefore, Sq

LEMMA InsertAfterStep ==
  ASSUME ListInv, NEW l \in List, NEW pos \in Node, NEW n \in Node, InsertAfter(l, pos, n)
  PROVE  ListInv' /\ Seqs!InsertAfter(l, pos, n)
<1>. DEFINE s == Sq[l]
<1>1. Rep(mem, Sq) /\ s \in Seq(Node) /\ Free(Sq, n)
  BY Nodes DEF ListInv, InsertAfter
<1>2. mem' = ev_list_insert_after(mem, l, pos, n) /\ popped' = popped
  BY DEF InsertAfter
<1>3. PICK p \in 1..Len(s) : pos = s[p]
  BY Nodes DEF InsertAfter
<1>4. IsInserted(mem, mem', l, s, n, p + 1)
  BY <1>1, <1>2, <1>3, InsertAfterFits
<1>5. p + 1 \in 1..(Len(s) + 1)
  <2>. HIDE DEF s
  <2>1. QED
    BY <1>1
<1>6. Rep(mem', [Sq EXCEPT ![l] = Ins(s, p + 1, n)])
  BY <1>1, <1>4, <1>5, InsertRep
<1>7. Ins(s, p + 1, n) = Seqs!InsertAt(s, Seqs!Place(l, pos) + 1, n)
  <2>1. Seqs!Place(l, pos) = p
    BY <1>3, PlaceIs
  <2>. HIDE DEF s
  <2>2. Ins(s, p + 1, n) = InsertAt(s, p + 1, n)
    BY <1>1, <1>5, InsertAtIs
  <2>3. QED
    BY <2>1, <2>2, SameInsertAt
<1>8. ListInv' /\ Seqs!Becomes(l, Seqs!InsertAt(s, Seqs!Place(l, pos) + 1, n))
  BY <1>2, <1>6, <1>7, BecomesIs
<1>9. QED
  BY <1>8 DEF Seqs!InsertAfter, Sq

LEMMA EraseStep ==
  ASSUME ListInv, NEW l \in List, NEW n \in Node, Erase(l, n)
  PROVE  ListInv' /\ Seqs!Erase(l, n)
<1>. DEFINE s == Sq[l]
<1>1. Rep(mem, Sq) /\ s \in Seq(Node)
  BY Nodes DEF ListInv
<1>2. mem' = ev_list_erase(mem, l, n) /\ popped' = popped
  BY DEF Erase
<1>3. PICK p \in 1..Len(s) : n = s[p]
  BY Nodes DEF Erase
<1>4. IsErased(mem, mem', l, s, p)
  BY <1>1, <1>2, <1>3, EraseFits
<1>5. Rep(mem', [Sq EXCEPT ![l] = Del(s, p)])
  BY <1>1, <1>4, EraseRep
<1>6. Del(s, p) = Seqs!RemoveAt(s, Seqs!Place(l, n))
  <2>1. Seqs!Place(l, n) = p
    BY <1>3, PlaceIs
  <2>. HIDE DEF s
  <2>2. Del(s, p) = RemoveAt(s, p)
    BY <1>1, RemoveAtIs
  <2>3. QED
    BY <2>1, <2>2, SameRemoveAt
<1>7. ListInv' /\ Seqs!Becomes(l, Seqs!RemoveAt(s, Seqs!Place(l, n)))
  BY <1>2, <1>5, <1>6, BecomesIs
<1>8. QED
  BY <1>7 DEF Seqs!Erase, Sq

LEMMA PopFrontStep ==
  ASSUME ListInv, NEW l \in List, ev_list_pop_front(l)
  PROVE  ListInv' /\ Seqs!PopFront(l)
<1>. DEFINE s == Sq[l]
<1>1. Rep(mem, Sq) /\ s \in Seq(Node) /\ Len(s) \in Nat
  BY Nodes DEF ListInv
<1>2. /\ mem.head[l] = At(s, 1)
      /\ Len(s) = 0 => At(s, 1) = Nil
      /\ Len(s) # 0 => At(s, 1) = s[1] /\ At(s, 1) \in Node
  BY <1>1, Ends
<1>3. /\ popped' = mem.head[l]
      /\ mem' = IF mem.head[l] = Nil THEN mem ELSE ev_list_erase(mem, l, mem.head[l])
  BY DEF ev_list_pop_front, ev_list_begin, Pop
<1>4. CASE Len(s) = 0
  <2>1. popped' = Nil /\ mem' = mem /\ s = <<>>
    BY <1>1, <1>2, <1>3, <1>4
  <2>2. Rep(mem', Sq) /\ popped' \in Ptr
    BY <1>1, <2>1 DEF Ptr
  <2>3. ListInv' /\ Sq' = Sq
    BY <2>2, RepNext
  <2>4. QED
    BY <2>1, <2>3 DEF Seqs!PopFront, Sq
<1>5. CASE Len(s) # 0
  <2>1. popped' = s[1] /\ mem' = ev_list_erase(mem, l, s[1]) /\ s[1] \in Node /\ s # <<>>
    BY <1>1, <1>2, <1>3, <1>5, NilAssumption
  <2>2. 1 \in 1..Len(s)
    BY <1>1, <1>5
  <2>3. IsErased(mem, mem', l, s, 1)
    BY <1>1, <2>1, <2>2, EraseFits
  <2>4. Rep(mem', [Sq EXCEPT ![l] = Del(s, 1)])
    BY <1>1, <2>2, <2>3, EraseRep
  <2>5. Head(s) = s[1] /\ Tail(s) = Del(s, 1)
    <3>. HIDE DEF s
    <3>1. QED
      BY <1>1, <1>5, EndsAre
  <2>6. ListInv' /\ Sq' = [Sq EXCEPT ![l] = Tail(Sq[l])]
    BY <2>1, <2>4, <2>5, RepNext DEF Ptr
  <2>7. QED
    BY <2>1, <2>5, <2>6 DEF Seqs!PopFront, Sq
<1>6. QED
  BY <1>4, <1>5

LEMMA PopBackStep ==
  ASSUME ListInv, NEW l \in List, ev_list_pop_back(l)
  PROVE  ListInv' /\ Seqs!PopBack(l)
<1>. DEFINE s == Sq[l]
<1>1. Rep(mem, Sq) /\ s \in Seq(Node) /\ Len(s) \in Nat
  BY Nodes DEF ListInv
<1>2. /\ mem.tail[l] = At(s, Len(s))
      /\ Len(s) = 0 => At(s, Len(s)) = Nil
      /\ Len(s) # 0 => At(s, Len(s)) = s[Len(s)] /\ At(s, Len(s)) \in Node
  BY <1>1, Ends
<1>3. /\ popped' = mem.tail[l]
      /\ mem' = IF mem.tail[l] = Nil THEN mem ELSE ev_list_erase(mem, l, mem.tail[l])
  BY DEF ev_list_pop_back, ev_list_end, Pop
<1>4. CASE Len(s) = 0
  <2>1. popped' = Nil /\ mem' = mem /\ s = <<>>
    BY <1>1, <1>2, <1>3, <1>4
  <2>2. Rep(mem', Sq) /\ popped' \in Ptr
    BY <1>1, <2>1 DEF Ptr
  <2>3. ListInv' /\ Sq' = Sq
    BY <2>2, RepNext
  <2>4. QED
    BY <2>1, <2>3 DEF Seqs!PopBack, Sq
<1>5. CASE Len(s) # 0
  <2>. DEFINE p == Len(s)
  <2>1. popped' = s[p] /\ mem' = ev_list_erase(mem, l, s[p]) /\ s[p] \in Node /\ s # <<>>
    BY <1>1, <1>2, <1>3, <1>5, NilAssumption
  <2>2. p \in 1..Len(s)
    BY <1>1, <1>5
  <2>3. IsErased(mem, mem', l, s, p)
    BY <1>1, <2>1, <2>2, EraseFits
  <2>4. Rep(mem', [Sq EXCEPT ![l] = Del(s, p)])
    BY <1>1, <2>2, <2>3, EraseRep
  <2>5. Seqs!Last(s) = s[p] /\ Seqs!Front(s) = Del(s, p)
    <3>1. Last(s) = s[p] /\ Front(s) = Del(s, p)
      <4>. HIDE DEF s
      <4>1. QED
        BY <1>1, <1>5, EndsAre
    <3>2. QED
      BY <3>1, SameEnds
  <2>6. ListInv' /\ Sq' = [Sq EXCEPT ![l] = Seqs!Front(Sq[l])]
    BY <2>1, <2>4, <2>5, RepNext DEF Ptr
  <2>7. QED
    BY <2>1, <2>5, <2>6 DEF Seqs!PopBack, Sq
<1>6. QED
  BY <1>4, <1>5

LEMMA MigrateStep ==
  ASSUME ListInv, NEW dst \in List, NEW src \in List, Migrate(dst, src)
  PROVE  ListInv' /\ Seqs!Migrate(dst, src)
<1>. DEFINE s == Sq[dst]
            u == Sq[src]
            T == [Sq EXCEPT ![dst] = s \o u, ![src] = <<>>]
<1>1. /\ Rep(mem, Sq) /\ s \in Seq(Node) /\ u \in Seq(Node) /\ Len(u) \in Nat
      /\ dst # src /\ mem' = ev_list_migrate(mem, dst, src) /\ popped' = popped
      /\ popped \in Ptr /\ Sq \in [List -> Seq(Node)]
  BY Nodes DEF ListInv, Migrate, Rep
<1>2. Rep(mem', T)
  <2>1. CASE Len(u) = 0
    <3>1. mem.head[src] = Nil
      BY <1>1, <2>1, Ends
    <3>2. mem' = mem
      BY <1>1, <3>1 DEF ev_list_migrate
    <3>3. u = <<>> /\ s \o <<>> = s
      BY <1>1, <2>1, ConcatEmptySeq
    <3>4. T = Sq
      BY <1>1, <3>3
    <3>5. QED
      BY <1>1, <3>2, <3>4
  <2>2. CASE Len(u) # 0
    <3>1. IsMigrated(mem, mem', dst, src, s, u)
      BY <1>1, <2>2, MigrateFits
    <3>2. QED
      BY <1>1, <2>2, <3>1, MigrateRep
  <2>3. QED
    BY <2>1, <2>2
<1>3. ListInv' /\ Sq' = T
  BY <1>1, <1>2, RepNext
<1>4. QED
  BY <1>1, <1>3 DEF Seqs!Migrate, Sq

-----------------------------------------------------------------------------

LEMMA InitInv == Init => ListInv
<1>. SUFFICES ASSUME Init PROVE ListInv
  OBVIOUS
<1>. DEFINE S == [l \in List |-> <<>>]
<1>1. popped \in Ptr /\ Nil \in Ptr
  BY DEF Init, Ptr
<1>2. mem \in MemType /\ S \in [List -> Seq(Node)]
  <2>1. <<>> \in Seq(Node)
    OBVIOUS
  <2>2. QED
    BY <1>1, <2>1 DEF Init, MemType
<1>3. \A l \in List : Distinct(S[l]) /\ Linked(mem, l, S[l])
  <2>1. Len(<<>>) = 0 /\ At(<<>>, 0) = Nil /\ At(<<>>, 1) = Nil
    BY DEF At
  <2>2. QED
    BY <2>1 DEF Init, Distinct, Linked
<1>4. Separate(S)
  BY DEF Separate
<1>5. \A n \in Node : mem.p_after[n] = Nil /\ mem.p_before[n] = Nil
  BY DEF Init
<1>6. Rep(mem, S)
  BY <1>2, <1>3, <1>4, <1>5 DEF Rep
<1>7. QED
  BY <1>1, <1>6, WalksAre DEF ListInv

LEMMA StepInv == ListInv /\ [Next]_vars => ListInv'
<1>. SUFFICES ASSUME ListInv, [Next]_vars PROVE ListInv'
  OBVIOUS
<1>1. CASE UNCHANGED vars
  <2>1. mem' = mem /\ popped' = popped
    BY <1>1 DEF vars
  <2>2. Rep(mem', Sq) /\ popped' \in Ptr
    BY <2>1 DEF ListInv
  <2>3. QED
    BY <2>2, RepNext
<1>2. CASE Next
  <2>1. PICK l \in List :
          \/ \E n \in Node : \/ PushBack(l, n) \/ PushFront(l, n) \/ Erase(l, n)
                             \/ \E pos \in Node : InsertBefore(l, pos, n) \/ InsertAfter(l, pos, n)
          \/ ev_list_pop_front(l) \/ ev_list_pop_back(l)
          \/ \E src \in List : Migrate(l, src)
    BY <1>2 DEF Next
  <2>2. ASSUME NEW n \in Node, PushBack(l, n)
        PROVE  ListInv'
    BY <2>2, PushBackStep
  <2>3. ASSUME NEW n \in Node, PushFront(l, n)
        PROVE  ListInv'
    BY <2>3, PushFrontStep
  <2>4. ASSUME NEW n \in Node, Erase(l, n)
        PROVE  ListInv'
    BY <2>4, EraseStep
  <2>5. ASSUME NEW n \in Node, NEW pos \in Node, InsertBefore(l, pos, n)
        PROVE  ListInv'
    BY <2>5, InsertBeforeStep
  <2>6. ASSUME NEW n \in Node, NEW pos \in Node, InsertAfter(l, pos, n)
        PROVE  ListInv'
    BY <2>6, InsertAfterStep
  <2>7. CASE ev_list_pop_front(l)
    BY <2>7, PopFrontStep
  <2>8. CASE ev_list_pop_back(l)
    BY <2>8, PopBackStep
  <2>9. ASSUME NEW src \in List, Migrate(l, src)
        PROVE  ListInv'
    BY <2>9, MigrateStep
  <2>10. QED
    BY <2>1, <2>2, <2>3, <2>4, <2>5, <2>6, <2>7, <2>8, <2>9
<1>3. QED
  BY <1>1, <1>2

LEMMA InvAgrees == ListInv => LinksAgree
<1>. SUFFICES ASSUME ListInv PROVE LinksAgree
  OBVIOUS
<1>1. /\ mem \in MemType /\ popped \in Ptr
      /\ \A l \in List : Sq[l] \in Seq(Node) /\ Distinct(Sq[l]) /\ Linked(mem, l, Sq[l])
      /\ Separate(Sq)
      /\ \A n \in Node : Free(Sq, n) => mem.p_after[n] = Nil /\ mem.p_before[n] = Nil
  BY DEF ListInv, Rep
<1>2. \A l \in List : mem.size[l] \in 0..Cardinality(Node)
  <2>1. ASSUME NEW l \in List
        PROVE  mem.size[l] \in 0..Cardinality(Node)
    <3>1. Len(Sq[l]) <= Cardinality(Node)
      BY <1>1, ShortEnough
    <3>2. mem.size[l] = Len(Sq[l]) /\ Len(Sq[l]) \in Nat
      BY <1>1 DEF Linked
    <3>3. Cardinality(Node) \in Nat
      BY NodeAssumption, FS_CardinalityType
    <3>4. QED
      BY <3>1, <3>2, <3>3
  <2>2. QED
    BY <2>1
<1>3. TypeOK
  <2>. DEFINE Z == 0..Cardinality(Node)
  <2>1. mem.size \in [List -> Z]
    <3>1. mem.size \in [List -> Nat]
      BY <1>1 DEF MemType
    <3>. HIDE DEF Z
    <3>2. \A l \in List : mem.size[l] \in Z
      BY <1>2 DEF Z
    <3>3. QED
      BY <3>1, <3>2
  <2>2. mem \in [head : [List -> Ptr], tail : [List -> Ptr], size : [List -> Z],
                 p_after : [Node -> Ptr], p_before : [Node -> Ptr]]
    <3>. HIDE DEF Z
    <3>1. QED
      BY <1>1, <2>1 DEF MemType
  <2>3. QED
    BY <1>1, <2>2 DEF TypeOK
<1>4. ASSUME NEW l \in List
      PROVE  Backward(l) = Reverse(Forward(l)) /\ ev_list_size(l) = Len(Forward(l))
  <2>1. Forward(l) = Sq[l] /\ Backward(l) = Reverse(Sq[l])
    BY WalksAre DEF ListInv
  <2>2. QED
    BY <1>1, <2>1 DEF Linked, ev_list_size
<1>5. ASSUME NEW k \in List, NEW l \in List, k # l
      PROVE  In(k) \cap In(l) = {}
  <2>1. /\ In(k) = {Sq[k][i] : i \in 1..Len(Sq[k])}
        /\ In(l) = {Sq[l][i] : i \in 1..Len(Sq[l])}
    BY Nodes
  <2>2. \A i \in 1..Len(Sq[k]), j \in 1..Len(Sq[l]) : Sq[k][i] # Sq[l][j]
    BY <1>1, <1>5 DEF Separate
  <2>3. QED
    BY <2>1, <2>2
<1>6. ASSUME NEW n \in Unlisted
      PROVE  ev_list_next(n) = Nil /\ ev_list_prev(n) = Nil
  <2>1. n \in Node
    BY DEF Unlisted
  <2>2. Free(Sq, n)
    BY <2>1, Nodes
  <2>3. QED
    BY <1>1, <2>1, <2>2 DEF ev_list_next, ev_list_prev
<1>7. QED
  BY <1>3, <1>4, <1>5, <1>6 DEF LinksAgree

LEMMA AlwaysInv == Spec => []ListInv
  BY InitInv, StepInv, PTL DEF Spec

\* Whatever calls a program makes, by the rule that a node is pushed or inserted when it is in
\* no list and erased from the list it is in, both directions of every list of utils/list.c go
\* through the same nodes, as many as its size says, no node is in two lists, and a node in
\* none of them has no neighbours.
THEOREM LinksCorrect == Spec => []LinksAgree
  BY AlwaysInv, InvAgrees, PTL

\* Each call of utils/list.c does to the sequence of the list's nodes what list.h says of it:
\* the four ways to link a node put it at their place, erase and the pops take out that one
\* node, and migrate moves all the nodes of one list behind those of another.
THEOREM CallsCorrect == Spec => CallsAreExact
<1>. DEFINE Exact ==
        \A l \in List :
            /\ \A n \in Node :
                 /\ PushBack(l, n)  => Seqs!PushBack(l, n)
                 /\ PushFront(l, n) => Seqs!PushFront(l, n)
                 /\ Erase(l, n)     => Seqs!Erase(l, n)
                 /\ \A pos \in Node : /\ InsertBefore(l, pos, n) => Seqs!InsertBefore(l, pos, n)
                                      /\ InsertAfter(l, pos, n)  => Seqs!InsertAfter(l, pos, n)
            /\ ev_list_pop_front(l) => Seqs!PopFront(l)
            /\ ev_list_pop_back(l)  => Seqs!PopBack(l)
            /\ \A src \in List : Migrate(l, src) => Seqs!Migrate(l, src)
<1>1. Init => Seqs!Init
  <2>. SUFFICES ASSUME Init PROVE Seqs!Init
    OBVIOUS
  <2>2. Rep(mem, Sq) /\ popped = Nil
    BY InitInv DEF ListInv, Init
  <2>3. ASSUME NEW l \in List
        PROVE  Sq[l] = <<>>
    <3>1. Sq[l] \in Seq(Node) /\ mem.size[l] = Len(Sq[l])
      BY <2>2 DEF Rep, Linked
    <3>2. mem.size[l] = 0
      BY DEF Init
    <3>3. Len(Sq[l]) = 0
      BY <3>1, <3>2
    <3>4. QED
      BY <3>1, <3>3, EmptySeq
  <2>4. QED
    BY <2>2, <2>3 DEF Seqs!Init, Sq
<1>2. ListInv => Exact
  <2>1. SUFFICES ASSUME ListInv, NEW l \in List
                 PROVE  /\ \A n \in Node :
                           /\ PushBack(l, n)  => Seqs!PushBack(l, n)
                           /\ PushFront(l, n) => Seqs!PushFront(l, n)
                           /\ Erase(l, n)     => Seqs!Erase(l, n)
                           /\ \A pos \in Node :
                                /\ InsertBefore(l, pos, n) => Seqs!InsertBefore(l, pos, n)
                                /\ InsertAfter(l, pos, n)  => Seqs!InsertAfter(l, pos, n)
                        /\ ev_list_pop_front(l) => Seqs!PopFront(l)
                        /\ ev_list_pop_back(l)  => Seqs!PopBack(l)
                        /\ \A src \in List : Migrate(l, src) => Seqs!Migrate(l, src)
    OBVIOUS
  <2>2. ASSUME NEW n \in Node
        PROVE  /\ PushBack(l, n)  => Seqs!PushBack(l, n)
               /\ PushFront(l, n) => Seqs!PushFront(l, n)
               /\ Erase(l, n)     => Seqs!Erase(l, n)
    BY <2>1, PushBackStep, PushFrontStep, EraseStep
  <2>3. ASSUME NEW n \in Node, NEW pos \in Node
        PROVE  /\ InsertBefore(l, pos, n) => Seqs!InsertBefore(l, pos, n)
               /\ InsertAfter(l, pos, n)  => Seqs!InsertAfter(l, pos, n)
    BY <2>1, InsertBeforeStep, InsertAfterStep
  <2>4. /\ ev_list_pop_front(l) => Seqs!PopFront(l)
        /\ ev_list_pop_back(l)  => Seqs!PopBack(l)
    BY <2>1, PopFrontStep, PopBackStep
  <2>5. \A src \in List : Migrate(l, src) => Seqs!Migrate(l, src)
    BY <2>1, MigrateStep
  <2>6. QED
    BY <2>2, <2>3, <2>4, <2>5
<1>3. Spec => [][Exact]_vars
  <2>. HIDE DEF Exact
  <2>1. ListInv => [Exact]_vars
    BY <1>2
  <2>2. QED
    BY <2>1, AlwaysInv, PTL
<1>4. Spec => Seqs!Init
  BY <1>1 DEF Spec
<1>5. CallsAreExact <=> Seqs!Init /\ [][Exact]_vars
  BY DEF CallsAreExact
<1>. HIDE DEF Exact
<1>6. QED
  BY <1>3, <1>4, <1>5, PTL
=============================================================================
