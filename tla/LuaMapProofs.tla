---------------------------- MODULE LuaMapProofs ----------------------------
(***************************************************************************)
(* Proofs about the map object, for every set of keys and values, every    *)
(* order of the keys and every amount of memory.                           *)
(***************************************************************************)
EXTENDS LuaMap, FiniteSetTheorems, WellFoundedInduction, TLAPS

\* The nodes h with the references fk and fv to their keys and values in the
\* registry g; l are the references that are lost.
MemOK(h, fk, fv, g, l) ==
    /\ h \subseteq Node /\ IsFiniteSet(h)
    /\ l \subseteq Ref /\ IsFiniteSet(l)
    /\ fk \in [Node -> Ref \cup {NULL}] /\ fv \in [Node -> Ref \cup {NULL}]
    /\ g \in [Ref -> Key \cup Val \cup {FREE}]
    /\ \A n \in h : /\ fk[n] \in Ref \ l /\ fv[n] \in Ref \ l /\ fk[n] # fv[n]
                    /\ g[fk[n]] \in Key /\ g[fv[n]] \in Val
    /\ \A m, n \in h : m # n => fk[m] # fk[n] /\ fk[m] # fv[n] /\ fv[m] # fv[n]
    /\ \A r \in Ref : g[r] # FREE <=> r \in l \/ \E n \in h : r = fk[n] \/ r = fv[n]

\* A node n with references rk and rv is added to it.
WithKey(fk, n, rk)  == [fk EXCEPT ![n] = rk]
WithPair(g, rk, rv, k, v) == [[g EXCEPT ![rk] = k] EXCEPT ![rv] = v]

IsAdded(h, fk, fv, g, l, n, rk, rv, k, v) ==
    LET fk2 == WithKey(fk, n, rk)
        fv2 == WithKey(fv, n, rv)
        g2  == WithPair(g, rk, rv, k, v)
    IN  /\ MemOK(h \cup {n}, fk2, fv2, g2, l)
        /\ g2[fk2[n]] = k /\ g2[fv2[n]] = v
        /\ \A m \in h : /\ fk2[m] = fk[m] /\ fv2[m] = fv[m]
                        /\ g2[fk[m]] = g[fk[m]] /\ g2[fv[m]] = g[fv[m]]

LEMMA NodeAdded ==
  ASSUME NEW h, NEW fk, NEW fv, NEW g, NEW l, MemOK(h, fk, fv, g, l),
         NEW n \in Node \ h, NEW rk \in Ref, NEW rv \in Ref \ {rk},
         g[rk] = FREE, g[rv] = FREE, NEW k \in Key, NEW v \in Val
  PROVE  IsAdded(h, fk, fv, g, l, n, rk, rv, k, v)
<1>. DEFINE fk2 == WithKey(fk, n, rk)
            fv2 == WithKey(fv, n, rv)
            g2  == WithPair(g, rk, rv, k, v)
            h2  == h \cup {n}
<1>. USE DEF MemOK
<1>1. /\ fk2 \in [Node -> Ref \cup {NULL}] /\ fk2[n] = rk /\ \A m \in Node \ {n} : fk2[m] = fk[m]
      /\ fv2 \in [Node -> Ref \cup {NULL}] /\ fv2[n] = rv /\ \A m \in Node \ {n} : fv2[m] = fv[m]
  BY DEF WithKey
<1>2. /\ g2 \in [Ref -> Key \cup Val \cup {FREE}] /\ g2[rk] = k /\ g2[rv] = v
      /\ \A r \in Ref \ {rk, rv} : g2[r] = g[r]
  BY DEF WithPair
<1>3. k # FREE /\ v # FREE
  BY FreeAssumption
<1>. HIDE DEF fk2, fv2, g2
<1>4. \A m \in h : {fk[m], fv[m]} \cap {rk, rv} = {}
  OBVIOUS
<1>5. rk \notin l /\ rv \notin l
  OBVIOUS
<1>6. h2 \subseteq Node /\ IsFiniteSet(h2)
  BY FS_AddElement
<1>7. \A m \in h : fk2[m] = fk[m] /\ fv2[m] = fv[m] /\ g2[fk[m]] = g[fk[m]] /\ g2[fv[m]] = g[fv[m]]
  BY <1>1, <1>2, <1>4
<1>8. \A m \in h2 : /\ fk2[m] \in Ref \ l /\ fv2[m] \in Ref \ l /\ fk2[m] # fv2[m]
                    /\ g2[fk2[m]] \in Key /\ g2[fv2[m]] \in Val
  BY <1>1, <1>2, <1>5, <1>7
<1>9. \A m, o \in h2 : m # o => fk2[m] # fk2[o] /\ fk2[m] # fv2[o] /\ fv2[m] # fv2[o]
  BY <1>1, <1>4, <1>7
<1>10. ASSUME NEW r \in Ref
       PROVE  g2[r] # FREE <=> r \in l \/ \E m \in h2 : r = fk2[m] \/ r = fv2[m]
  <2>1. CASE r \in {rk, rv}
    BY <1>1, <1>2, <1>3, <2>1
  <2>2. CASE r \notin {rk, rv}
    BY <1>1, <1>2, <1>7, <2>2
  <2>3. QED
    BY <2>1, <2>2
<1>11. MemOK(h2, fk2, fv2, g2, l)
  BY <1>1, <1>2, <1>6, <1>8, <1>9, <1>10
<1>12. QED
  BY <1>1, <1>2, <1>7, <1>11 DEF IsAdded, fk2, fv2, g2

\* A node m is erased from it.
IsErased(h, fk, fv, g, l, m) ==
    LET fk2 == [fk EXCEPT ![m] = NULL]
        fv2 == [fv EXCEPT ![m] = NULL]
        g2  == [g EXCEPT ![fk[m]] = FREE, ![fv[m]] = FREE]
    IN  /\ MemOK(h \ {m}, fk2, fv2, g2, l)
        /\ \A n \in h \ {m} : /\ fk2[n] = fk[n] /\ fv2[n] = fv[n]
                              /\ g2[fk[n]] = g[fk[n]] /\ g2[fv[n]] = g[fv[n]]

LEMMA NodeErased ==
  ASSUME NEW h, NEW fk, NEW fv, NEW g, NEW l, MemOK(h, fk, fv, g, l), NEW m \in h
  PROVE  IsErased(h, fk, fv, g, l, m)
<1>. DEFINE fk2 == [fk EXCEPT ![m] = NULL]
            fv2 == [fv EXCEPT ![m] = NULL]
            g2  == [g EXCEPT ![fk[m]] = FREE, ![fv[m]] = FREE]
            h2  == h \ {m}
<1>. USE DEF MemOK
<1>1. /\ fk2 \in [Node -> Ref \cup {NULL}] /\ \A n \in Node \ {m} : fk2[n] = fk[n]
      /\ fv2 \in [Node -> Ref \cup {NULL}] /\ \A n \in Node \ {m} : fv2[n] = fv[n]
  OBVIOUS
<1>2. /\ g2 \in [Ref -> Key \cup Val \cup {FREE}] /\ g2[fk[m]] = FREE /\ g2[fv[m]] = FREE
      /\ \A r \in Ref \ {fk[m], fv[m]} : g2[r] = g[r]
  OBVIOUS
<1>. HIDE DEF fk2, fv2, g2
<1>3. \A n \in h2 : {fk[n], fv[n]} \cap {fk[m], fv[m]} = {}
  OBVIOUS
<1>4. h2 \subseteq Node /\ IsFiniteSet(h2)
  BY FS_RemoveElement
<1>5. \A n \in h2 : fk2[n] = fk[n] /\ fv2[n] = fv[n] /\ g2[fk[n]] = g[fk[n]] /\ g2[fv[n]] = g[fv[n]]
  BY <1>1, <1>2, <1>3
<1>6. \A n \in h2 : /\ fk2[n] \in Ref \ l /\ fv2[n] \in Ref \ l /\ fk2[n] # fv2[n]
                    /\ g2[fk2[n]] \in Key /\ g2[fv2[n]] \in Val
  BY <1>5
<1>7. \A n, o \in h2 : n # o => fk2[n] # fk2[o] /\ fk2[n] # fv2[o] /\ fv2[n] # fv2[o]
  BY <1>5
<1>8. ASSUME NEW r \in Ref
      PROVE  g2[r] # FREE <=> r \in l \/ \E n \in h2 : r = fk2[n] \/ r = fv2[n]
  <2>1. CASE r \in {fk[m], fv[m]}
    BY <1>2, <1>3, <1>5, <2>1
  <2>2. CASE r \notin {fk[m], fv[m]}
    BY <1>2, <1>5, <2>2
  <2>3. QED
    BY <2>1, <2>2
<1>9. MemOK(h2, fk2, fv2, g2, l)
  BY <1>1, <1>2, <1>4, <1>6, <1>7, <1>8
<1>10. QED
  BY <1>5, <1>9 DEF IsErased, fk2, fv2, g2

\* A reference is lost.
IsLost(h, fk, fv, g, l, r, k) ==
    LET g2 == [g EXCEPT ![r] = k]
    IN  /\ MemOK(h, fk, fv, g2, l \cup {r})
        /\ r \notin l
        /\ \A n \in h : g2[fk[n]] = g[fk[n]] /\ g2[fv[n]] = g[fv[n]]

LEMMA ReferenceLost ==
  ASSUME NEW h, NEW fk, NEW fv, NEW g, NEW l, MemOK(h, fk, fv, g, l),
         NEW r \in Ref, g[r] = FREE, NEW k \in Key
  PROVE  IsLost(h, fk, fv, g, l, r, k)
<1>. DEFINE g2 == [g EXCEPT ![r] = k]
            l2 == l \cup {r}
<1>. USE DEF MemOK
<1>1. g2 \in [Ref -> Key \cup Val \cup {FREE}] /\ g2[r] = k /\ \A s \in Ref \ {r} : g2[s] = g[s]
  OBVIOUS
<1>. HIDE DEF g2
<1>2. k # FREE /\ r \notin l
  BY FreeAssumption
<1>3. \A n \in h : r # fk[n] /\ r # fv[n]
  OBVIOUS
<1>4. l2 \subseteq Ref /\ IsFiniteSet(l2)
  BY FS_AddElement
<1>5. \A s \in Ref : g2[s] # FREE <=> s \in l2 \/ \E n \in h : s = fk[n] \/ s = fv[n]
  BY <1>1, <1>2
<1>6. MemOK(h, fk, fv, g2, l2)
  BY <1>1, <1>3, <1>4, <1>5
<1>7. QED
  BY <1>1, <1>2, <1>3, <1>6 DEF IsLost, g2

-----------------------------------------------------------------------------
\* What malloc and luaL_ref return.

LEMMA RefIsFree ==
  ASSUME NEW g, \E r \in Ref : g[r] = FREE
  PROVE  luaL_ref(g) \in Ref /\ g[luaL_ref(g)] = FREE
BY DEF luaL_ref

LEMMA OneRef ==
  ASSUME FreeRefs >= 1
  PROVE  luaL_ref(reg) \in Ref /\ reg[luaL_ref(reg)] = FREE
<1>1. {r \in Ref : reg[r] = FREE} # {}
  BY FS_EmptySet DEF FreeRefs
<1>2. QED
  BY <1>1, RefIsFree

LEMMA RoomForNode ==
  ASSUME heap \subseteq Node, half \subseteq [node : Node, refk : Ref \cup {NULL}],
         reg \in [Ref -> Key \cup Val \cup {FREE}], Room, NEW k \in Key
  PROVE  LET rk == luaL_ref(reg)
             rv == luaL_ref([reg EXCEPT ![rk] = k])
         IN  /\ malloc \in Node \ Used /\ malloc \notin heap
             /\ rk \in Ref /\ reg[rk] = FREE
             /\ rv \in Ref \ {rk} /\ reg[rv] = FREE
<1>. DEFINE rk == luaL_ref(reg)
            g  == [reg EXCEPT ![rk] = k]
            rv == luaL_ref(g)
            F  == {r \in Ref : reg[r] = FREE}
<1>1. malloc \in Node \ Used /\ malloc \notin heap
  BY DEF Room, malloc, Used
<1>2. F # {} /\ \A x : F # {x}
  <2>1. Cardinality(F) >= 2
    BY DEF Room, FreeRefs
  <2>. HIDE DEF F
  <2>2. F # {}
    BY <2>1, FS_EmptySet
  <2>3. ASSUME NEW x, F = {x}
        PROVE  FALSE
    <3>1. Cardinality(F) = 1
      BY <2>3, FS_Singleton
    <3>2. QED
      BY <2>1, <3>1
  <2>4. QED
    BY <2>2, <2>3
<1>3. rk \in Ref /\ reg[rk] = FREE
  BY <1>2, RefIsFree
<1>4. PICK r \in F : r # rk
  BY <1>2
<1>5. g[r] = FREE /\ g[rk] = k /\ k # FREE
  BY <1>3, <1>4, FreeAssumption
<1>. HIDE DEF rk, g
<1>6. rv \in Ref /\ g[rv] = FREE
  BY <1>4, <1>5, RefIsFree
<1>7. rv # rk /\ reg[rv] = FREE
  BY <1>5, <1>6 DEF g
<1>8. QED
  BY <1>1, <1>3, <1>6, <1>7 DEF rk, g

-----------------------------------------------------------------------------
\* What a call does to the memory and what the tree sees of it.

ValOf(n) == reg[refv[n]]

\* The keys and values of the nodes S stay.
Kept(S) == \A m \in S : KeyOf(m)' = KeyOf(m) /\ ValOf(m)' = ValOf(m)

HalfOK == /\ half \subseteq [node : Node, refk : Ref \cup {NULL}]
          /\ IsFiniteSet(half) /\ IsFiniteSet(lost)
Mem == MemOK(heap, refk, refv, reg, Lost) /\ tree \subseteq heap /\ HalfOK

LEMMA LostKept == UNCHANGED <<half, lost>> => Lost' = Lost /\ (HalfOK => HalfOK')
BY DEF Lost, HalfOK

LEMMA NewNodeMem ==
  ASSUME Mem, Room, NEW k \in Key, NEW v \in Val, NEW linked \in BOOLEAN, NewNode(k, v, linked)
  PROVE  /\ Mem' /\ Kept(heap) /\ UNCHANGED <<half, lost>>
         /\ \E n \in Node \ heap : /\ heap' = heap \cup {n} /\ KeyOf(n)' = k /\ ValOf(n)' = v
                                   /\ tree' = IF linked THEN tree \cup {n} ELSE tree
<1>. DEFINE n  == malloc
            rk == luaL_ref(reg)
            rv == luaL_ref([reg EXCEPT ![rk] = k])
<1>1. /\ n \in Node \ heap /\ rk \in Ref /\ reg[rk] = FREE
      /\ rv \in Ref \ {rk} /\ reg[rv] = FREE
  BY RoomForNode DEF Mem, MemOK, HalfOK
<1>2. /\ heap' = heap \cup {n} /\ UNCHANGED <<half, lost>>
      /\ tree' = IF linked THEN tree \cup {n} ELSE tree
      /\ refk' = WithKey(refk, n, rk) /\ refv' = WithKey(refv, n, rv)
      /\ reg' = WithPair(reg, rk, rv, k, v)
  BY DEF NewNode, WithKey, WithPair
<1>. HIDE DEF n, rk, rv
<1>3. /\ MemOK(heap', refk', refv', reg', Lost')
      /\ reg'[refk'[n]] = k /\ reg'[refv'[n]] = v
      /\ \A m \in heap : /\ refk'[m] = refk[m] /\ refv'[m] = refv[m]
                         /\ reg'[refk[m]] = reg[refk[m]] /\ reg'[refv[m]] = reg[refv[m]]
  <2>1. MemOK(heap, refk, refv, reg, Lost)
    BY DEF Mem
  <2>2. IsAdded(heap, refk, refv, reg, Lost, n, rk, rv, k, v)
    BY <1>1, <2>1, NodeAdded
  <2>3. QED
    BY <1>2, <2>2, LostKept DEF IsAdded
<1>4. Kept(heap)
  BY <1>3 DEF Kept, KeyOf, ValOf
<1>5. Mem'
  BY <1>2, <1>3, LostKept DEF Mem
<1>6. QED
  BY <1>1, <1>2, <1>3, <1>4, <1>5 DEF KeyOf, ValOf

LEMMA EraseNodeMem ==
  ASSUME Mem, NEW m \in tree, EraseNode(m)
  PROVE  /\ Mem' /\ Kept(heap \ {m}) /\ UNCHANGED <<half, lost, raises>>
         /\ heap' = heap \ {m} /\ tree' = tree \ {m}
<1>1. m \in heap
  BY DEF Mem
<1>2. /\ heap' = heap \ {m} /\ tree' = tree \ {m} /\ UNCHANGED <<half, lost, raises>>
      /\ refk' = [refk EXCEPT ![m] = NULL] /\ refv' = [refv EXCEPT ![m] = NULL]
      /\ reg' = [reg EXCEPT ![refk[m]] = FREE, ![refv[m]] = FREE]
  BY DEF EraseNode, Unlink, Unref
<1>3. /\ MemOK(heap', refk', refv', reg', Lost')
      /\ \A n \in heap \ {m} : /\ refk'[n] = refk[n] /\ refv'[n] = refv[n]
                               /\ reg'[refk[n]] = reg[refk[n]] /\ reg'[refv[n]] = reg[refv[n]]
  <2>1. IsErased(heap, refk, refv, reg, Lost, m)
    BY <1>1, NodeErased DEF Mem
  <2>2. QED
    BY <1>2, <2>1, LostKept DEF IsErased
<1>4. QED
  BY <1>2, <1>3, LostKept DEF Mem, Kept, KeyOf, ValOf

LEMMA SwapMem ==
  ASSUME Mem, Room, NEW k \in Key, NEW v \in Val, NEW m \in tree, NEW linked \in BOOLEAN,
         Swap(k, v, m, linked)
  PROVE  /\ Mem' /\ Kept(heap \ {m}) /\ UNCHANGED <<half, lost>>
         /\ \E n \in Node \ heap :
              /\ heap' = (heap \ {m}) \cup {n} /\ KeyOf(n)' = k /\ ValOf(n)' = v
              /\ tree' = IF linked THEN (tree \ {m}) \cup {n} ELSE tree \ {m}
<1>. DEFINE n   == malloc
            rk  == luaL_ref(reg)
            rv  == luaL_ref([reg EXCEPT ![rk] = k])
            fk1 == WithKey(refk, n, rk)
            fv1 == WithKey(refv, n, rv)
            g1  == WithPair(reg, rk, rv, k, v)
<1>0. m \in heap /\ heap \subseteq Node /\ m \in Node
  BY DEF Mem, MemOK
<1>1. /\ n \in Node \ heap /\ rk \in Ref /\ reg[rk] = FREE
      /\ rv \in Ref \ {rk} /\ reg[rv] = FREE
  BY RoomForNode DEF Mem, MemOK, HalfOK
<1>2. /\ heap' = (heap \ {m}) \cup {n} /\ UNCHANGED <<half, lost>>
      /\ tree' = IF linked THEN (tree \ {m}) \cup {n} ELSE tree \ {m}
      /\ refk' = [refk EXCEPT ![m] = NULL, ![n] = rk]
      /\ refv' = [refv EXCEPT ![m] = NULL, ![n] = rv]
      /\ reg' = [g1 EXCEPT ![refk[m]] = FREE, ![refv[m]] = FREE]
  BY DEF Swap, Unlink, Unref, WithPair
<1>. HIDE DEF n, rk, rv
<1>3. /\ MemOK(heap \cup {n}, fk1, fv1, g1, Lost)
      /\ g1[fk1[n]] = k /\ g1[fv1[n]] = v
      /\ \A o \in heap : /\ fk1[o] = refk[o] /\ fv1[o] = refv[o]
                         /\ g1[refk[o]] = reg[refk[o]] /\ g1[refv[o]] = reg[refv[o]]
  <2>1. IsAdded(heap, refk, refv, reg, Lost, n, rk, rv, k, v)
    BY <1>1, NodeAdded DEF Mem
  <2>2. QED
    BY <2>1 DEF IsAdded
<1>4. /\ refk' = [fk1 EXCEPT ![m] = NULL] /\ refv' = [fv1 EXCEPT ![m] = NULL]
  <2>1. /\ refk \in [Node -> Ref \cup {NULL}] /\ refv \in [Node -> Ref \cup {NULL}]
        /\ m # n /\ n \in Node
    BY <1>0, <1>1 DEF Mem, MemOK
  <2>2. /\ refk' = [refk EXCEPT ![m] = NULL, ![n] = rk]
        /\ refv' = [refv EXCEPT ![m] = NULL, ![n] = rv]
    BY <1>2
  <2>3. [refk EXCEPT ![m] = NULL, ![n] = rk] = [fk1 EXCEPT ![m] = NULL]
    BY <1>0, <2>1 DEF WithKey
  <2>4. [refv EXCEPT ![m] = NULL, ![n] = rv] = [fv1 EXCEPT ![m] = NULL]
    BY <1>0, <2>1 DEF WithKey
  <2>5. QED
    BY <2>2, <2>3, <2>4
<1>5. fk1[m] = refk[m] /\ fv1[m] = refv[m]
  BY <1>0, <1>3
<1>. HIDE DEF fk1, fv1, g1
<1>6. heap' = (heap \cup {n}) \ {m} /\ m \in heap \cup {n} /\ m # n
  BY <1>0, <1>1, <1>2
<1>7. /\ MemOK(heap', refk', refv', reg', Lost')
      /\ \A o \in (heap \cup {n}) \ {m} :
           /\ refk'[o] = fk1[o] /\ refv'[o] = fv1[o]
           /\ reg'[fk1[o]] = g1[fk1[o]] /\ reg'[fv1[o]] = g1[fv1[o]]
  <2>1. IsErased(heap \cup {n}, fk1, fv1, g1, Lost, m)
    BY <1>3, <1>6, NodeErased
  <2>2. reg' = [g1 EXCEPT ![fk1[m]] = FREE, ![fv1[m]] = FREE] /\ Lost' = Lost
    BY <1>2, <1>5, LostKept
  <2>3. QED
    BY <1>4, <1>6, <2>1, <2>2 DEF IsErased
<1>8. Kept(heap \ {m})
  BY <1>3, <1>7 DEF Kept, KeyOf, ValOf
<1>9. reg'[refk'[n]] = k /\ reg'[refv'[n]] = v
  BY <1>3, <1>6, <1>7
<1>10. Mem'
  BY <1>0, <1>2, <1>7, LostKept DEF Mem
<1>11. /\ heap' = (heap \ {m}) \cup {n} /\ UNCHANGED <<half, lost>>
       /\ tree' = IF linked THEN (tree \ {m}) \cup {n} ELSE tree \ {m}
       /\ n \in Node \ heap
  BY <1>1, <1>2
<1>12. QED
  BY <1>8, <1>9, <1>10, <1>11 DEF KeyOf, ValOf

LEMMA TmpMem ==
  ASSUME Mem, FreeRefs >= 1, NEW k \in Key, RaisesWithTmp(k)
  PROVE  /\ Mem' /\ Kept(heap) /\ UNCHANGED <<heap, tree, half>>
         /\ \E r \in Ref \ lost : lost' = lost \cup {r}
<1>. DEFINE r == luaL_ref(reg)
<1>1. r \in Ref /\ reg[r] = FREE
  BY OneRef
<1>2. /\ lost' = lost \cup {r} /\ reg' = [reg EXCEPT ![r] = k]
      /\ UNCHANGED <<heap, tree, refk, refv, half>>
  BY DEF RaisesWithTmp
<1>. HIDE DEF r
<1>3. /\ MemOK(heap', refk', refv', reg', Lost') /\ r \notin lost
      /\ \A n \in heap : reg'[refk[n]] = reg[refk[n]] /\ reg'[refv[n]] = reg[refv[n]]
  <2>1. IsLost(heap, refk, refv, reg, Lost, r, k)
    BY <1>1, ReferenceLost DEF Mem
  <2>2. QED
    BY <1>2, <2>1 DEF IsLost, Lost
<1>4. HalfOK'
  BY <1>2, FS_AddElement DEF Mem, HalfOK
<1>5. QED
  BY <1>1, <1>2, <1>3, <1>4 DEF Mem, Kept, KeyOf, ValOf

LEMMA HalfMem ==
  ASSUME Mem, Room, NEW k \in Key, LosesHalf(k)
  PROVE  /\ Mem' /\ Kept(heap) /\ UNCHANGED <<heap, tree, lost>>
         /\ \E h : h \notin half /\ half' = half \cup {h}
<1>. DEFINE n == malloc
            r == luaL_ref(reg)
<1>1. n \in Node \ Used /\ r \in Ref /\ reg[r] = FREE
  BY RoomForNode DEF Mem, MemOK, HalfOK
<1>2. UNCHANGED <<heap, tree, refk, refv, lost>>
  BY DEF LosesHalf
<1>. HIDE DEF n, r
<1>3. ASSUME NEW h \in [node : Node, refk : Ref \cup {NULL}], h.node = n,
             half' = half \cup {h}
      PROVE  HalfOK' /\ h \notin half
  <2>1. h \notin half
    BY <1>1, <1>3 DEF Used
  <2>2. HalfOK'
    BY <1>2, <1>3, FS_AddElement DEF Mem, HalfOK
  <2>3. QED
    BY <2>1, <2>2
<1>4. CASE half' = half \cup {[node |-> n, refk |-> NULL]} /\ UNCHANGED reg
  <2>. DEFINE h == [node |-> n, refk |-> NULL]
  <2>1. h \in [node : Node, refk : Ref \cup {NULL}] /\ h.node = n /\ h.refk = NULL
    BY <1>1
  <2>2. half' = half \cup {h}
    BY <1>4
  <2>. HIDE DEF h
  <2>3. Lost' = Lost
    BY <1>2, <2>1, <2>2 DEF Lost
  <2>4. QED
    BY <1>2, <1>3, <1>4, <2>1, <2>2, <2>3 DEF Mem, Kept, KeyOf, ValOf
<1>5. CASE /\ half' = half \cup {[node |-> n, refk |-> r]}
           /\ reg' = [reg EXCEPT ![r] = k]
  <2>. DEFINE h == [node |-> n, refk |-> r]
  <2>1. h \in [node : Node, refk : Ref \cup {NULL}] /\ h.node = n /\ h.refk = r
    BY <1>1
  <2>2. half' = half \cup {h}
    BY <1>5
  <2>. HIDE DEF h
  <2>3. Lost' = Lost \cup {r}
    BY <1>1, <1>2, <2>1, <2>2, NullAssumption DEF Lost
  <2>4. IsLost(heap, refk, refv, reg, Lost, r, k)
    BY <1>1, ReferenceLost DEF Mem
  <2>5. /\ MemOK(heap', refk', refv', reg', Lost')
        /\ \A m \in heap : reg'[refk[m]] = reg[refk[m]] /\ reg'[refv[m]] = reg[refv[m]]
    BY <1>2, <1>5, <2>3, <2>4 DEF IsLost
  <2>6. QED
    BY <1>2, <1>3, <2>1, <2>2, <2>5 DEF Mem, Kept, KeyOf, ValOf
<1>6. QED
  BY <1>4, <1>5 DEF LosesHalf, n, r

-----------------------------------------------------------------------------
\* The memory and the order together.

Counted == Cardinality(heap \ tree) + Cardinality(half) + Cardinality(lost) = raises
MemInv  == Mem /\ TreeIsSearchable /\ raises \in 0..MaxRaises /\ Counted

\* What becomes of the tree.
Same         == tree' = tree /\ Kept(tree)
Adds(k, v)   == \E n \in Node \ tree : /\ tree' = tree \cup {n} /\ Kept(tree)
                                       /\ KeyOf(n)' = k /\ ValOf(n)' = v
Drops(m)     == tree' = tree \ {m} /\ Kept(tree \ {m})
Swaps(m, k, v) == \E n \in Node \ tree : /\ tree' = (tree \ {m}) \cup {n} /\ Kept(tree \ {m})
                                         /\ KeyOf(n)' = k /\ ValOf(n)' = v

LEMMA KeysOfNodes ==
  ASSUME Mem, NEW n \in tree
  PROVE  KeyOf(n) \in Key /\ ValOf(n) \in Val /\ RankOf(n) \in Int /\ n \in heap /\ n \in Node
BY RankAssumption DEF Mem, MemOK, KeyOf, ValOf, RankOf

LEMMA FindOne ==
  ASSUME TreeIsSearchable, NEW k \in Key, Find(k) # {}
  PROVE  /\ OneOf(Find(k)) \in tree /\ RankOf(OneOf(Find(k))) = Rank[k]
         /\ Find(k) = {OneOf(Find(k))}
         /\ \A n \in tree \ {OneOf(Find(k))} : RankOf(n) # Rank[k]
<1>. DEFINE m == OneOf(Find(k))
<1>1. m \in Find(k)
  BY DEF OneOf
<1>. HIDE DEF m
<1>2. m \in tree /\ RankOf(m) = Rank[k]
  BY <1>1 DEF Find
<1>3. \A n \in tree \ {m} : RankOf(n) # Rank[k]
  BY <1>2 DEF TreeIsSearchable
<1>4. Find(k) = {m}
  BY <1>1, <1>2, <1>3 DEF Find
<1>5. QED
  BY <1>2, <1>3, <1>4 DEF m

\* A tree keeps its order as long as a key comes that is not there.
LEMMA OrderKept ==
  ASSUME TreeIsSearchable, Mem',
         \/ Same
         \/ \E m \in tree : Drops(m)
         \/ \E k \in Key, v \in Val : Adds(k, v) /\ \A n \in tree : RankOf(n) # Rank[k]
         \/ \E m \in tree, k \in Key, v \in Val :
               Swaps(m, k, v) /\ \A n \in tree \ {m} : RankOf(n) # Rank[k]
  PROVE  TreeIsSearchable'
<1>1. \A n \in tree' : KeyOf(n)' \in Key
  BY DEF Mem, MemOK, KeyOf
<1>2. CASE Same
  BY <1>1, <1>2 DEF Same, Kept, TreeIsSearchable, RankOf
<1>3. ASSUME NEW m \in tree, Drops(m)
      PROVE  TreeIsSearchable'
  BY <1>1, <1>3 DEF Drops, Kept, TreeIsSearchable, RankOf
<1>4. ASSUME NEW k \in Key, NEW v \in Val, Adds(k, v), \A n \in tree : RankOf(n) # Rank[k]
      PROVE  TreeIsSearchable'
  BY <1>1, <1>4 DEF Adds, Kept, TreeIsSearchable, RankOf
<1>5. ASSUME NEW m \in tree, NEW k \in Key, NEW v \in Val, Swaps(m, k, v),
             \A n \in tree \ {m} : RankOf(n) # Rank[k]
      PROVE  TreeIsSearchable'
  BY <1>1, <1>5 DEF Swaps, Kept, TreeIsSearchable, RankOf
<1>6. QED
  BY <1>2, <1>3, <1>4, <1>5

LEMMA FiniteMem ==
  ASSUME Mem
  PROVE  /\ IsFiniteSet(heap \ tree) /\ IsFiniteSet(half) /\ IsFiniteSet(lost) /\ IsFiniteSet(tree)
         /\ Cardinality(heap \ tree) \in Nat /\ Cardinality(half) \in Nat
         /\ Cardinality(lost) \in Nat
<1>1. IsFiniteSet(heap) /\ IsFiniteSet(half) /\ IsFiniteSet(lost)
  BY DEF Mem, MemOK, HalfOK
<1>2. IsFiniteSet(heap \ tree) /\ IsFiniteSet(tree)
  BY <1>1, FS_Subset DEF Mem
<1>3. QED
  BY <1>1, <1>2, FS_CardinalityType

LEMMA Unmoved == MemInv /\ UNCHANGED memVars => MemInv' /\ Same
BY LostKept DEF memVars, MemInv, Mem, Counted, TreeIsSearchable, RankOf, KeyOf, ValOf, Same, Kept

LEMMA Inserted ==
  ASSUME MemInv, Room, NEW k \in Key, NEW v \in Val, Find(k) = {},
         NewNode(k, v, TRUE), UNCHANGED raises
  PROVE  MemInv' /\ Adds(k, v)
<1>. USE DEF MemInv
<1>1. PICK n \in Node \ heap : /\ heap' = heap \cup {n} /\ KeyOf(n)' = k /\ ValOf(n)' = v
                               /\ tree' = tree \cup {n}
  BY NewNodeMem
<1>2. Mem' /\ Kept(heap) /\ UNCHANGED <<half, lost>>
  BY NewNodeMem
<1>3. Adds(k, v)
  BY <1>1, <1>2 DEF Adds, Kept, Mem
<1>4. TreeIsSearchable'
  BY <1>2, <1>3, OrderKept DEF Find
<1>5. heap' \ tree' = heap \ tree
  BY <1>1 DEF Mem
<1>6. Counted'
  BY <1>2, <1>5 DEF Counted
<1>7. QED
  BY <1>2, <1>3, <1>4, <1>6

LEMMA NodeLost ==
  ASSUME MemInv, Room, NEW k \in Key, NEW v \in Val, RaisesWithNode(k, v)
  PROVE  MemInv' /\ Same
<1>. USE DEF MemInv
<1>0. NewNode(k, v, FALSE) /\ raises' = raises + 1 /\ raises < MaxRaises
  BY DEF RaisesWithNode, MayRaise
<1>1. PICK n \in Node \ heap : heap' = heap \cup {n} /\ tree' = tree
  BY <1>0, NewNodeMem
<1>2. Mem' /\ Kept(heap) /\ UNCHANGED <<half, lost>>
  BY <1>0, NewNodeMem
<1>3. Same
  BY <1>1, <1>2 DEF Same, Kept, Mem
<1>4. TreeIsSearchable'
  BY <1>2, <1>3, OrderKept
<1>5. heap' \ tree' = (heap \ tree) \cup {n} /\ n \notin heap \ tree
  BY <1>1 DEF Mem
<1>6. Cardinality(heap' \ tree') = Cardinality(heap \ tree) + 1
  BY <1>5, FiniteMem, FS_AddElement
<1>7. Counted'
  BY <1>0, <1>2, <1>6, FiniteMem DEF Counted
<1>8. raises' \in 0..MaxRaises
  BY <1>0, MaxRaisesAssumption
<1>9. QED
  BY <1>2, <1>3, <1>4, <1>7, <1>8

LEMMA Erased ==
  ASSUME MemInv, NEW m \in tree, EraseNode(m)
  PROVE  MemInv' /\ Drops(m)
<1>. USE DEF MemInv
<1>1. /\ Mem' /\ Kept(heap \ {m}) /\ UNCHANGED <<half, lost, raises>>
      /\ heap' = heap \ {m} /\ tree' = tree \ {m}
  BY EraseNodeMem
<1>2. Drops(m)
  BY <1>1 DEF Drops, Kept, Mem
<1>3. TreeIsSearchable'
  BY <1>1, <1>2, OrderKept
<1>4. heap' \ tree' = heap \ tree
  BY <1>1 DEF Mem
<1>5. QED
  BY <1>1, <1>2, <1>3, <1>4 DEF Counted

LEMMA Swapped ==
  ASSUME MemInv, Room, NEW k \in Key, NEW v \in Val, Find(k) # {}, Replaced(k, v)
  PROVE  MemInv' /\ Swaps(OneOf(Find(k)), k, v)
<1>. USE DEF MemInv
<1>0. PICK m \in tree : m = OneOf(Find(k)) /\ \A n \in tree \ {m} : RankOf(n) # Rank[k]
  BY FindOne
<1>1. Swap(k, v, m, TRUE) /\ UNCHANGED raises
  BY <1>0 DEF Replaced, Exchanged
<1>2. PICK n \in Node \ heap : /\ heap' = (heap \ {m}) \cup {n} /\ KeyOf(n)' = k /\ ValOf(n)' = v
                               /\ tree' = (tree \ {m}) \cup {n}
  <2>1. \E n \in Node \ heap :
           /\ heap' = (heap \ {m}) \cup {n} /\ KeyOf(n)' = k /\ ValOf(n)' = v
           /\ tree' = IF TRUE THEN (tree \ {m}) \cup {n} ELSE tree \ {m}
    BY <1>1, SwapMem, ZenonT(40)
  <2>2. QED
    BY <2>1
<1>3. Mem' /\ Kept(heap \ {m}) /\ UNCHANGED <<half, lost>>
  BY <1>1, SwapMem
<1>4. Swaps(m, k, v)
  BY <1>2, <1>3 DEF Swaps, Kept, Mem
<1>5. TreeIsSearchable'
  BY <1>0, <1>3, <1>4, OrderKept
<1>6. heap' \ tree' = heap \ tree
  BY <1>0, <1>2 DEF Mem
<1>7. QED
  BY <1>0, <1>1, <1>3, <1>4, <1>5, <1>6 DEF Counted

LEMMA SwapFailed ==
  ASSUME MemInv, Room, NEW k \in Key, NEW v \in Val, Find(k) # {}, MayRaise(k),
         raises' = raises + 1, ExchangedNot(k, v, OneOf(Find(k)))
  PROVE  MemInv' /\ Drops(OneOf(Find(k)))
<1>. USE DEF MemInv
<1>0. PICK m \in tree : m = OneOf(Find(k))
  BY FindOne
<1>1. Swap(k, v, m, FALSE) /\ raises < MaxRaises
  BY <1>0 DEF ExchangedNot, MayRaise
<1>2. PICK n \in Node \ heap : heap' = (heap \ {m}) \cup {n} /\ tree' = tree \ {m}
  BY <1>1, SwapMem
<1>3. Mem' /\ Kept(heap \ {m}) /\ UNCHANGED <<half, lost>>
  BY <1>1, SwapMem
<1>4. Drops(m)
  BY <1>2, <1>3 DEF Drops, Kept, Mem
<1>5. TreeIsSearchable'
  BY <1>0, <1>3, <1>4, OrderKept
<1>6. heap' \ tree' = (heap \ tree) \cup {n} /\ n \notin heap \ tree
  BY <1>0, <1>2 DEF Mem
<1>7. Cardinality(heap' \ tree') = Cardinality(heap \ tree) + 1
  BY <1>6, FiniteMem, FS_AddElement
<1>8. Counted'
  BY <1>3, <1>7, FiniteMem DEF Counted
<1>9. raises' \in 0..MaxRaises
  BY <1>1, MaxRaisesAssumption
<1>10. QED
  BY <1>0, <1>3, <1>4, <1>5, <1>8, <1>9

LEMMA TmpLost ==
  ASSUME MemInv, FreeRefs >= 1, NEW k \in Key, RaisesWithTmp(k)
  PROVE  MemInv' /\ Same
<1>. USE DEF MemInv
<1>0. raises' = raises + 1 /\ raises < MaxRaises
  BY DEF RaisesWithTmp, MayRaise
<1>1. Mem' /\ Kept(heap) /\ UNCHANGED <<heap, tree, half>>
  BY TmpMem
<1>2. PICK r \in Ref \ lost : lost' = lost \cup {r}
  BY TmpMem
<1>3. Same
  BY <1>1 DEF Same, Kept, Mem
<1>4. TreeIsSearchable'
  BY <1>1, <1>3, OrderKept
<1>5. Cardinality(lost') = Cardinality(lost) + 1
  BY <1>2, FiniteMem, FS_AddElement
<1>6. Counted'
  BY <1>0, <1>1, <1>5, FiniteMem DEF Counted
<1>7. raises' \in 0..MaxRaises
  BY <1>0, MaxRaisesAssumption
<1>8. QED
  BY <1>1, <1>3, <1>4, <1>6, <1>7

LEMMA HalfLost ==
  ASSUME MemInv, Room, NEW k \in Key, LosesHalf(k)
  PROVE  MemInv' /\ Same
<1>. USE DEF MemInv
<1>0. raises' = raises + 1 /\ raises < MaxRaises
  BY DEF LosesHalf
<1>1. Mem' /\ Kept(heap) /\ UNCHANGED <<heap, tree, lost>>
  BY HalfMem
<1>2. PICK h : h \notin half /\ half' = half \cup {h}
  BY HalfMem
<1>3. Same
  BY <1>1 DEF Same, Kept, Mem
<1>4. TreeIsSearchable'
  BY <1>1, <1>3, OrderKept
<1>5. Cardinality(half') = Cardinality(half) + 1
  BY <1>2, FiniteMem, FS_AddElement
<1>6. Counted'
  BY <1>0, <1>1, <1>5, FiniteMem DEF Counted
<1>7. raises' \in 0..MaxRaises
  BY <1>0, MaxRaisesAssumption
<1>8. QED
  BY <1>1, <1>3, <1>4, <1>6, <1>7

\* The errors on the way to a new node.
LEMMA NodeOrHalfLost ==
  ASSUME MemInv, Room, NEW k \in Key, NEW v \in Val, RaisesWithNode(k, v) \/ LosesHalf(k)
  PROVE  MemInv' /\ Same
BY NodeLost, HalfLost

-----------------------------------------------------------------------------
\* The least of a set.

LEMMA HasLeast ==
  ASSUME NEW S, IsFiniteSet(S), S # {}, NEW f \in [S -> Int]
  PROVE  \E n \in S : \A m \in S : f[n] <= f[m]
<1>. DEFINE Below(n) == {m \in S : f[m] < f[n]}
            T == {Below(n) : n \in S}
            R == StrictSubsetOrdering(S)
<1>1. T \subseteq FiniteSubsetsOf(S) /\ T # {}
  <2>1. ASSUME NEW n \in S
        PROVE  Below(n) \in FiniteSubsetsOf(S)
    <3>1. Below(n) \in SUBSET S
      OBVIOUS
    <3>. HIDE DEF Below
    <3>2. QED
      BY <3>1, FS_Subset DEF FiniteSubsetsOf
  <2>. HIDE DEF Below
  <2>2. PICK n \in S : TRUE
    OBVIOUS
  <2>3. Below(n) \in T
    OBVIOUS
  <2>4. QED
    BY <2>1, <2>3
<1>2. PICK B \in T : \A C \in T : <<C, B>> \notin R
  <2>. HIDE DEF T, R
  <2>1. IsWellFoundedOn(R, FiniteSubsetsOf(S))
    BY FS_StrictSubsetOrderingWellFounded DEF R
  <2>2. QED
    BY <1>1, <2>1, WFMin
<1>3. PICK n \in S : B = Below(n)
  BY <1>2
<1>4. ASSUME NEW m \in S, ~(f[n] <= f[m])
      PROVE  FALSE
  <2>1. f[m] < f[n] /\ f[m] \in Int /\ f[n] \in Int
    BY <1>4
  <2>2. Below(m) \subseteq Below(n) /\ m \in Below(n) /\ m \notin Below(m)
    BY <2>1
  <2>3. <<Below(m), Below(n)>> \in R
    BY <2>2 DEF StrictSubsetOrdering
  <2>4. QED
    BY <1>2, <1>3, <2>3
<1>5. QED
  BY <1>4

LEMMA LeastExists ==
  ASSUME Mem, NEW S \in SUBSET tree, S # {}
  PROVE  \E n \in S : n \in Least(S)
<1>. DEFINE f == [n \in S |-> RankOf(n)]
<1>1. f \in [S -> Int]
  BY KeysOfNodes
<1>2. IsFiniteSet(S)
  BY FiniteMem, FS_Subset
<1>. HIDE DEF f
<1>3. \E n \in S : \A m \in S : f[n] <= f[m]
  BY <1>1, <1>2, HasLeast
<1>4. QED
  BY <1>3 DEF f, Least

LEMMA FirstOrNull ==
  ASSUME Mem, NEW S \in SUBSET tree
  PROVE  IF OneOf(Least(S)) = NULL THEN S = {} ELSE OneOf(Least(S)) \in Least(S)
<1>1. Least(S) # {} => OneOf(Least(S)) \in Least(S) /\ OneOf(Least(S)) # NULL
  <2>1. NULL \notin tree
    BY NullAssumption DEF Mem, MemOK
  <2>2. QED
    BY <2>1 DEF OneOf, Least
<1>2. Least(S) = {} => S = {}
  BY LeastExists
<1>3. S = {} => OneOf(Least(S)) = NULL
  BY DEF OneOf, Least
<1>4. QED
  BY <1>1, <1>2, <1>3

-----------------------------------------------------------------------------
\* The invariant.

CtlOK == /\ pc \in {"copy", "ready", "gc", "gone"}
         /\ src \subseteq DOMAIN Source /\ todo \subseteq src
         /\ it \in Node \cup {NULL}
         /\ loop \in {"off", "on"} /\ ctl \in Key \cup {NULL}
         /\ due \subseteq Int

\* The collector's iterator is the first node of what is left.
GcInv == /\ pc = "gc" => IF it = NULL THEN tree = {} ELSE it \in Least(tree)
         /\ pc = "gone" => tree = {}

\* What a loop has not come by yet is in the tree, and is still to come.
LoopInv == loop = "on" =>
    /\ pc = "ready" /\ ret # <<"nil">>
    /\ \A d \in due : /\ \E n \in tree : RankOf(n) = d
                      /\ ctl # NULL => d > Rank[ctl]

\* make_map: the pairs are the table's, and each key copied so far is there.
CopyInv == pc = "copy" =>
    /\ ret = <<"nothing">>
    /\ \A k \in src \ todo : \E n \in tree : RankOf(n) = Rank[k]
    /\ \A n \in tree : KeyOf(n) \in src /\ ValOf(n) = Source[KeyOf(n)]

Inv == MemInv /\ CtlOK /\ GcInv /\ LoopInv /\ CopyInv

LEMMA KeyIsNotNull == NULL \notin Key /\ NULL \notin Node
BY NullAssumption

LEMMA KeysOfSource == \A k \in DOMAIN Source : k \in Key /\ Source[k] \in Val
BY SourceAssumption

LEMMA Start == Init => Inv
<1>. SUFFICES ASSUME Init PROVE Inv
  OBVIOUS
<1>. USE DEF Init
<1>1. Mem
  BY FS_EmptySet DEF Mem, MemOK, HalfOK, Lost
<1>2. TreeIsSearchable
  BY DEF TreeIsSearchable
<1>3. Counted /\ raises \in 0..MaxRaises
  BY FS_EmptySet, MaxRaisesAssumption DEF Counted
<1>4. CtlOK /\ GcInv /\ LoopInv /\ CopyInv
  BY DEF CtlOK, GcInv, LoopInv, CopyInv
<1>5. QED
  BY <1>1, <1>2, <1>3, <1>4 DEF Inv, MemInv

\* The calls, by what they do to the tree and to a loop.
CallKeeps ==
    \/ due' = due /\ (Same \/ \E k \in Key, v \in Val : Adds(k, v))
    \/ \E m \in tree : due' = due \ {RankOf(m)} /\ Drops(m)
    \/ due' = due /\ \E m \in tree, k \in Key, v \in Val : RankOf(m) = Rank[k] /\ Swaps(m, k, v)

LEMMA CallStep ==
  ASSUME Inv, pc = "ready", UNCHANGED <<pc, src, todo, it, loop, ctl>>, MemInv',
         ret' # <<"nil">>, CallKeeps
  PROVE  Inv'
<1>1. CtlOK' /\ GcInv' /\ CopyInv'
  BY DEF Inv, CtlOK, GcInv, CopyInv, CallKeeps
<1>2. ASSUME loop = "on"
      PROVE  \A d \in due' : /\ d \in due
                             /\ \E n \in tree' : RankOf(n)' = d
  <2>1. \A d \in due : \E n \in tree : RankOf(n) = d
    BY <1>2 DEF Inv, LoopInv
  <2>2. CASE due' = due /\ Same
    BY <2>1, <2>2 DEF Same, Kept, RankOf
  <2>3. ASSUME NEW k \in Key, NEW v \in Val, due' = due, Adds(k, v)
        PROVE  \A d \in due' : d \in due /\ \E n \in tree' : RankOf(n)' = d
    BY <2>1, <2>3 DEF Adds, Kept, RankOf
  <2>4. ASSUME NEW m \in tree, due' = due \ {RankOf(m)}, Drops(m)
        PROVE  \A d \in due' : d \in due /\ \E n \in tree' : RankOf(n)' = d
    BY <2>1, <2>4 DEF Drops, Kept, RankOf
  <2>5. ASSUME NEW m \in tree, NEW k \in Key, NEW v \in Val, due' = due,
               RankOf(m) = Rank[k], Swaps(m, k, v)
        PROVE  \A d \in due' : d \in due /\ \E n \in tree' : RankOf(n)' = d
    <3>1. PICK n : /\ tree' = (tree \ {m}) \cup {n} /\ Kept(tree \ {m})
                   /\ KeyOf(n)' = k
      BY <2>5 DEF Swaps
    <3>2. n \in tree' /\ RankOf(n)' = RankOf(m)
      BY <2>5, <3>1 DEF RankOf
    <3>3. \A o \in tree \ {m} : o \in tree' /\ RankOf(o)' = RankOf(o)
      BY <3>1 DEF Kept, RankOf
    <3>4. QED
      BY <2>1, <2>5, <3>2, <3>3
  <2>6. QED
    BY <2>2, <2>3, <2>4, <2>5 DEF CallKeeps
<1>3. LoopInv'
  BY <1>2 DEF Inv, LoopInv
<1>4. QED
  BY <1>1, <1>3 DEF Inv

\* None of the calls answers as a loop does at its end.
LEMMA NotNil ==
  ASSUME NEW k, NEW v, NEW b
  PROVE  /\ <<"raised">> # <<"nil">> /\ <<"replace raised">> # <<"nil">>
         /\ <<"insert", k, v, b>> # <<"nil">> /\ <<"replace", k, v>> # <<"nil">>
         /\ <<"erase", k, b>> # <<"nil">>
         /\ <<"find", k>> # <<"nil">> /\ <<"find", k, v>> # <<"nil">>
OBVIOUS

\* What the calls do.
InsertDoes(k, v) ==
    \/ Same /\ ret' = <<"raised">>
    \/ Find(k) = {} /\ Adds(k, v) /\ ret' = <<"insert", k, v, TRUE>>
    \/ Find(k) # {} /\ Same /\ ret' = <<"insert", k, v, FALSE>>

ReplaceDoes(k, v) ==
    \/ due' = due /\ Same /\ ret' = <<"raised">>
    \/ due' = due /\ Find(k) = {} /\ Adds(k, v) /\ ret' = <<"replace", k, v>>
    \/ \E m \in tree : /\ Find(k) = {m}
                       /\ \/ due' = due /\ Swaps(m, k, v) /\ ret' = <<"replace", k, v>>
                          \/ due' = due \ {Rank[k]} /\ Drops(m) /\ ret' = <<"replace raised">>

EraseDoes(k) ==
    \/ due' = due /\ Same /\ ret' = <<"raised">>
    \/ due' = due /\ Find(k) = {} /\ Same /\ ret' = <<"erase", k, FALSE>>
    \/ \E m \in tree : /\ Find(k) = {m} /\ due' = due \ {Rank[k]} /\ Drops(m)
                       /\ ret' = <<"erase", k, TRUE>>

FindDoes(k) ==
    /\ Same
    /\ \/ ret' = <<"raised">>
       \/ Find(k) = {} /\ ret' = <<"find", k>>
       \/ \E m \in tree : Find(k) = {m} /\ ret' = <<"find", k, ValOf(m)>>

LEMMA InsertStep ==
  ASSUME Inv, NEW k \in Key, NEW v \in Val, _infra_map_insert(k, v), UNCHANGED src
  PROVE  Inv' /\ InsertDoes(k, v)
<1>. USE DEF _infra_map_insert
<1>1. MemInv' /\ InsertDoes(k, v)
  <2>0. MemInv
    BY DEF Inv
  <2>1. CASE (RaisesWithNode(k, v) \/ LosesHalf(k)) /\ ret' = <<"raised">>
    BY <2>0, <2>1, NodeOrHalfLost DEF InsertDoes
  <2>2. CASE Find(k) = {} /\ NewNode(k, v, TRUE) /\ UNCHANGED raises
             /\ ret' = <<"insert", k, v, TRUE>>
    BY <2>0, <2>2, Inserted DEF InsertDoes
  <2>3. CASE Find(k) # {} /\ Dropped(k, v) /\ ret' = <<"insert", k, v, FALSE>>
    BY <2>0, <2>3, Unmoved DEF InsertDoes, Dropped
  <2>4. QED
    BY <2>1, <2>2, <2>3
<1>2. CallKeeps /\ ret' # <<"nil">>
  <2>1. CallKeeps
    BY <1>1 DEF CallKeeps, InsertDoes, loopVars
  <2>2. ret' # <<"nil">>
    BY <1>1, NotNil, Zenon DEF InsertDoes
  <2>3. QED
    BY <2>1, <2>2
<1>3. QED
  BY <1>1, <1>2, CallStep DEF loopVars

LEMMA ReplaceStep ==
  ASSUME Inv, NEW k \in Key, NEW v \in Val, _infra_map_replace(k, v), UNCHANGED src
  PROVE  Inv' /\ ReplaceDoes(k, v)
<1>. USE DEF _infra_map_replace
<1>1. MemInv' /\ ReplaceDoes(k, v) /\ UNCHANGED <<loop, ctl>>
  <2>0. MemInv /\ TreeIsSearchable
    BY DEF Inv, MemInv
  <2>1. CASE /\ RaisesWithNode(k, v) \/ LosesHalf(k)
             /\ ret' = <<"raised">> /\ UNCHANGED loopVars
    BY <2>0, <2>1, NodeOrHalfLost DEF ReplaceDoes, loopVars
  <2>2. CASE /\ Find(k) = {} /\ NewNode(k, v, TRUE) /\ UNCHANGED raises
             /\ ret' = <<"replace", k, v>> /\ UNCHANGED loopVars
    BY <2>0, <2>2, Inserted DEF ReplaceDoes, loopVars
  <2>3. CASE /\ Find(k) # {} /\ Replaced(k, v)
             /\ ret' = <<"replace", k, v>> /\ UNCHANGED loopVars
    BY <2>0, <2>3, Swapped, FindOne DEF ReplaceDoes, loopVars
  <2>4. CASE /\ Find(k) # {} /\ MayRaise(k) /\ raises' = raises + 1
             /\ ExchangedNot(k, v, OneOf(Find(k)))
             /\ Away({Rank[k]}) /\ ret' = <<"replace raised">>
    BY <2>0, <2>4, SwapFailed, FindOne DEF ReplaceDoes, Away
  <2>5. QED
    BY <2>1, <2>2, <2>3, <2>4
<1>2. \A m : Find(k) = {m} => m \in tree /\ RankOf(m) = Rank[k]
  BY DEF Find
<1>3. CallKeeps /\ ret' # <<"nil">>
  <2>1. CallKeeps
    BY <1>1, <1>2 DEF CallKeeps, ReplaceDoes
  <2>2. ret' # <<"nil">>
    BY <1>1, NotNil, Zenon DEF ReplaceDoes
  <2>3. QED
    BY <2>1, <2>2
<1>4. QED
  BY <1>1, <1>3, CallStep

LEMMA EraseStep ==
  ASSUME Inv, NEW k \in Key, _infra_map_erase(k), UNCHANGED src
  PROVE  Inv' /\ EraseDoes(k)
<1>. USE DEF _infra_map_erase
<1>1. MemInv' /\ EraseDoes(k) /\ UNCHANGED <<loop, ctl>>
  <2>0. MemInv /\ TreeIsSearchable
    BY DEF Inv, MemInv
  <2>1. CASE RaisesWithTmp(k) /\ ret' = <<"raised">> /\ UNCHANGED loopVars
    BY <2>0, <2>1, TmpLost DEF EraseDoes, loopVars
  <2>2. CASE Find(k) = {} /\ ret' = <<"erase", k, FALSE>> /\ UNCHANGED <<memVars, loopVars>>
    BY <2>0, <2>2, Unmoved DEF EraseDoes, loopVars
  <2>3. CASE /\ Find(k) # {} /\ EraseNode(OneOf(Find(k))) /\ Away({Rank[k]})
             /\ ret' = <<"erase", k, TRUE>>
    BY <2>0, <2>3, Erased, FindOne DEF EraseDoes, Away
  <2>4. QED
    BY <2>1, <2>2, <2>3
<1>2. \A m : Find(k) = {m} => m \in tree /\ RankOf(m) = Rank[k]
  BY DEF Find
<1>3. CallKeeps /\ ret' # <<"nil">>
  <2>1. CallKeeps
    BY <1>1, <1>2 DEF CallKeeps, EraseDoes
  <2>2. ret' # <<"nil">>
    BY <1>1, NotNil, Zenon DEF EraseDoes
  <2>3. QED
    BY <2>1, <2>2
<1>4. QED
  BY <1>1, <1>3, CallStep

LEMMA FindStep ==
  ASSUME Inv, NEW k \in Key, _infra_map_find(k), UNCHANGED src
  PROVE  Inv' /\ FindDoes(k)
<1>. USE DEF _infra_map_find
<1>1. MemInv' /\ FindDoes(k)
  <2>0. MemInv /\ TreeIsSearchable
    BY DEF Inv, MemInv
  <2>1. CASE RaisesWithTmp(k) /\ ret' = <<"raised">>
    BY <2>0, <2>1, TmpLost DEF FindDoes
  <2>2. CASE Find(k) = {} /\ ret' = <<"find", k>> /\ UNCHANGED memVars
    BY <2>0, <2>2, Unmoved DEF FindDoes
  <2>3. CASE Find(k) # {} /\ ret' = <<"find", k, reg[refv[OneOf(Find(k))]]>> /\ UNCHANGED memVars
    BY <2>0, <2>3, Unmoved, FindOne DEF FindDoes, ValOf
  <2>4. QED
    BY <2>1, <2>2, <2>3
<1>2. CallKeeps /\ ret' # <<"nil">>
  BY <1>1 DEF CallKeeps, FindDoes, loopVars
<1>3. QED
  BY <1>1, <1>2, CallStep DEF loopVars

\* make_map copies a pair, finds its key there, or raises.
CopyDoes(k) ==
    \/ pc' = "gc" /\ Same /\ ret' = <<"raised">>
    \/ pc' = pc /\ ret' = ret

LEMMA CopyStep ==
  ASSUME Inv, NEW k \in DOMAIN Source, CopyPair(k), UNCHANGED src
  PROVE  Inv' /\ CopyDoes(k)
<1>. USE DEF CopyPair
<1>0. MemInv /\ Mem /\ pc = "copy" /\ k \in Key /\ Source[k] \in Val /\ loop # "on"
  BY KeysOfSource DEF Inv, MemInv, LoopInv, CtlOK
<1>1. LoopInv'
  BY <1>0 DEF LoopInv, loopVars
<1>2. CASE /\ RaisesWithNode(k, Source[k]) \/ LosesHalf(k) \/ UNCHANGED memVars
           /\ pc' = "gc" /\ it' = OneOf(Least(tree))
           /\ ret' = <<"raised">> /\ UNCHANGED todo
  <2>1. MemInv' /\ Same
    BY <1>0, <1>2, NodeOrHalfLost, Unmoved
  <2>2. Least(tree)' = Least(tree)
    BY <2>1 DEF Least, Same, Kept, RankOf
  <2>3. IF it' = NULL THEN tree = {} ELSE it' \in Least(tree)
    BY <1>0, <1>2, FirstOrNull
  <2>4. GcInv'
    BY <1>2, <2>1, <2>2, <2>3 DEF GcInv, Same
  <2>5. it' \in Node \cup {NULL}
    BY <1>0, <2>3 DEF Least, Mem, MemOK
  <2>6. CtlOK' /\ CopyInv'
    BY <1>2, <2>5 DEF Inv, CtlOK, CopyInv, loopVars
  <2>7. QED
    BY <1>1, <1>2, <2>1, <2>4, <2>6 DEF Inv, CopyDoes
<1>3. CASE /\ IF Find(k) = {} THEN NewNode(k, Source[k], TRUE) /\ UNCHANGED raises
                              ELSE Dropped(k, Source[k])
           /\ todo' = todo \ {k}
           /\ UNCHANGED <<pc, it, ret>>
  <2>1. MemInv' /\ IF Find(k) = {} THEN Adds(k, Source[k]) ELSE Same
    <3>1. CASE Find(k) = {}
      BY <1>0, <1>3, <3>1, Inserted
    <3>2. CASE Find(k) # {}
      BY <1>0, <1>3, <3>2, Unmoved DEF Dropped
    <3>3. QED
      BY <3>1, <3>2
  <2>2. CtlOK' /\ GcInv'
    BY <1>0, <1>3 DEF Inv, CtlOK, GcInv, loopVars
  <2>3. /\ \A h \in src' \ todo' : \E n \in tree' : RankOf(n)' = Rank[h]
        /\ \A n \in tree' : KeyOf(n)' \in src' /\ ValOf(n)' = Source[KeyOf(n)']
    <3>1. /\ \A h \in src \ todo : \E n \in tree : RankOf(n) = Rank[h]
          /\ \A n \in tree : KeyOf(n) \in src /\ ValOf(n) = Source[KeyOf(n)]
          /\ k \in src
      BY <1>0 DEF Inv, CopyInv, CtlOK
    <3>2. src' \ todo' \subseteq (src \ todo) \cup {k}
      BY <1>3
    <3>3. CASE Find(k) = {}
      <4>1. PICK n \in Node \ tree : /\ tree' = tree \cup {n} /\ Kept(tree)
                                     /\ KeyOf(n)' = k /\ ValOf(n)' = Source[k]
        BY <2>1, <3>3 DEF Adds
      <4>2. n \in tree' /\ RankOf(n)' = Rank[k]
        BY <4>1 DEF RankOf
      <4>3. \A m \in tree : /\ m \in tree' /\ RankOf(m)' = RankOf(m)
                            /\ KeyOf(m)' = KeyOf(m) /\ ValOf(m)' = ValOf(m)
        BY <4>1 DEF RankOf, Kept
      <4>4. QED
        BY <3>1, <3>2, <4>1, <4>2, <4>3
    <3>4. CASE Find(k) # {}
      <4>1. tree' = tree /\ \A m \in tree : /\ RankOf(m)' = RankOf(m)
                                            /\ KeyOf(m)' = KeyOf(m) /\ ValOf(m)' = ValOf(m)
        BY <2>1, <3>4 DEF Same, Kept, RankOf
      <4>2. \E m \in tree : RankOf(m) = Rank[k]
        BY <3>4 DEF Find
      <4>3. QED
        BY <3>1, <3>2, <4>1, <4>2
    <3>5. QED
      BY <3>3, <3>4
  <2>4. CopyInv'
    BY <1>3, <2>3 DEF Inv, CopyInv
  <2>5. QED
    BY <1>1, <1>3, <2>1, <2>2, <2>4 DEF Inv, CopyDoes
<1>4. QED
  BY <1>2, <1>3

LEMMA QuietStep ==
  ASSUME Inv, \/ CopyEnds \/ _infra_map_size \/ OutOfMemory \/ Break \/ GcEnds \/ Gone
              \/ UNCHANGED vars,
         UNCHANGED src
  PROVE  Inv' /\ Same
<1>1. UNCHANGED memVars
  BY DEF CopyEnds, _infra_map_size, OutOfMemory, Break, GcEnds, Gone, vars
<1>2. MemInv' /\ Same
  BY <1>1, Unmoved DEF Inv
<1>3. Least(tree)' = Least(tree)
  BY <1>2 DEF Least, Same, Kept, RankOf
<1>4. \A n \in tree : RankOf(n)' = RankOf(n) /\ KeyOf(n)' = KeyOf(n) /\ ValOf(n)' = ValOf(n)
  BY <1>2 DEF Same, Kept, RankOf
<1>. USE <1>1, <1>2, <1>3, <1>4 DEF Inv, CtlOK, GcInv, LoopInv, CopyInv, Same, loopVars
<1>5. CASE CopyEnds
  BY <1>5 DEF CopyEnds
<1>6. CASE _infra_map_size
  BY <1>6 DEF _infra_map_size
<1>7. CASE OutOfMemory
  BY <1>7 DEF OutOfMemory
<1>8. CASE Break
  BY <1>8 DEF Break, LoopOff
<1>9. CASE GcEnds
  BY <1>9 DEF GcEnds
<1>10. CASE Gone
  BY <1>10 DEF Gone
<1>11. CASE UNCHANGED vars
  BY <1>11 DEF vars
<1>12. QED
  BY <1>5, <1>6, <1>7, <1>8, <1>9, <1>10, <1>11

-----------------------------------------------------------------------------
\* The loop and the collector.

LEMMA PairsStep ==
  ASSUME Inv, _infra_map_pairs, UNCHANGED src
  PROVE  Inv' /\ Same
<1>. USE DEF _infra_map_pairs
<1>1. MemInv' /\ Same
  BY Unmoved DEF Inv
<1>2. \A d \in due' : \E n \in tree' : RankOf(n)' = d
  BY <1>1 DEF Ranks, Same, Kept, RankOf
<1>3. LoopInv'
  BY <1>2 DEF LoopInv
<1>4. due' \subseteq Int
  BY KeysOfNodes DEF Ranks, Inv, MemInv
<1>5. CtlOK' /\ GcInv' /\ CopyInv'
  BY <1>4 DEF Inv, CtlOK, GcInv, CopyInv
<1>6. QED
  BY <1>1, <1>3, <1>5 DEF Inv

\* A step of a loop: an error, the end, after all that was due, or the next pair.
NextDoes ==
    /\ Same
    /\ \/ ret' = <<"raised">> /\ LoopOff
       \/ ret' = <<"nil">> /\ LoopOff /\ due = {}
       \/ /\ \E n \in tree : ctl' = KeyOf(n) /\ ret' = <<"pair", KeyOf(n), ValOf(n)>>
          /\ ctl # NULL => Rank[ctl'] > Rank[ctl]

LEMMA NextStep ==
  ASSUME Inv, _infra_map_pairs_next, UNCHANGED src
  PROVE  Inv' /\ NextDoes
<1>. USE DEF _infra_map_pairs_next
<1>0. /\ MemInv /\ Mem /\ TreeIsSearchable /\ pc = "ready" /\ pc' = pc /\ loop = "on"
      /\ ctl \in Key \cup {NULL} /\ due \subseteq Int
      /\ \A d \in due : (\E n \in tree : RankOf(n) = d) /\ (ctl # NULL => d > Rank[ctl])
  BY DEF Inv, MemInv, CtlOK, LoopInv
<1>. DEFINE S == {n \in tree : ctl # NULL => RankOf(n) > Rank[ctl]}
<1>1. NextPair = Least(S)
  BY DEF NextPair, FindUpper
<1>2. CASE ctl # NULL /\ RaisesWithTmp(ctl) /\ LoopOff /\ ret' = <<"raised">>
  <2>1. MemInv' /\ Same
    BY <1>0, <1>2, TmpLost
  <2>2. CtlOK' /\ GcInv' /\ CopyInv' /\ LoopInv'
    BY <1>0, <1>2 DEF Inv, CtlOK, GcInv, CopyInv, LoopInv, LoopOff
  <2>3. QED
    BY <1>2, <2>1, <2>2 DEF Inv, NextDoes
<1>3. CASE NextPair = {} /\ LoopOff /\ ret' = <<"nil">> /\ UNCHANGED memVars
  <2>1. MemInv' /\ Same
    BY <1>0, <1>3, Unmoved
  <2>2. CtlOK' /\ GcInv' /\ CopyInv' /\ LoopInv'
    BY <1>0, <1>3 DEF Inv, CtlOK, GcInv, CopyInv, LoopInv, LoopOff
  <2>3. S = {}
    BY <1>0, <1>1, <1>3, LeastExists
  <2>4. due = {}
    BY <1>0, <2>3
  <2>5. QED
    BY <1>3, <2>1, <2>2, <2>4 DEF Inv, NextDoes
<1>4. ASSUME NEW n \in NextPair, ctl' = KeyOf(n), due' = due \ {RankOf(n)},
             ret' = <<"pair", KeyOf(n), reg[refv[n]]>>, UNCHANGED <<loop, memVars>>
      PROVE  Inv' /\ NextDoes
  <2>1. MemInv' /\ Same
    BY <1>0, <1>4, Unmoved
  <2>2. n \in S /\ \A m \in S : RankOf(n) <= RankOf(m)
    BY <1>1, <1>4 DEF Least
  <2>3. ctl' \in Key /\ ctl' # NULL /\ Rank[ctl'] = RankOf(n) /\ RankOf(n) \in Int
    BY <1>0, <1>4, <2>2, KeysOfNodes, KeyIsNotNull DEF RankOf
  <2>4. ASSUME NEW d \in due'
        PROVE  d > Rank[ctl'] /\ \E m \in tree' : RankOf(m)' = d
    <3>1. PICK m \in tree : RankOf(m) = d
      BY <1>0, <1>4
    <3>2. m \in S /\ d \in Int /\ d # RankOf(n)
      BY <1>0, <1>4, <3>1
    <3>3. d > RankOf(n)
      BY <2>2, <2>3, <3>1, <3>2
    <3>4. m \in tree' /\ RankOf(m)' = d
      BY <2>1, <3>1 DEF Same, Kept, RankOf
    <3>5. QED
      BY <2>3, <3>3, <3>4
  <2>5. LoopInv'
    BY <1>0, <1>4, <2>4 DEF LoopInv
  <2>6. CtlOK' /\ GcInv' /\ CopyInv'
    BY <1>0, <1>4, <2>3 DEF Inv, CtlOK, GcInv, CopyInv
  <2>7. ctl # NULL => Rank[ctl'] > Rank[ctl]
    BY <2>2, <2>3
  <2>8. QED
    BY <1>4, <2>1, <2>2, <2>5, <2>6, <2>7 DEF Inv, NextDoes, ValOf
<1>5. QED
  BY <1>2, <1>3, <1>4

LEMMA GcBeginsStep ==
  ASSUME Inv, GcBegins, UNCHANGED src
  PROVE  Inv'
<1>. USE DEF GcBegins
<1>1. MemInv' /\ Same
  BY Unmoved DEF Inv
<1>2. Least(tree)' = Least(tree)
  BY <1>1 DEF Least, Same, Kept, RankOf
<1>3. IF it' = NULL THEN tree = {} ELSE it' \in Least(tree)
  BY FirstOrNull DEF Inv, MemInv
<1>4. GcInv'
  BY <1>1, <1>2, <1>3 DEF GcInv, Same
<1>5. it' \in Node \cup {NULL}
  BY <1>3 DEF Least, Inv, MemInv, Mem, MemOK
<1>6. CtlOK' /\ CopyInv' /\ LoopInv'
  BY <1>5 DEF Inv, CtlOK, CopyInv, LoopInv, LoopOff
<1>7. QED
  BY <1>1, <1>4, <1>6 DEF Inv

LEMMA GcNodeStep ==
  ASSUME Inv, GcNode, UNCHANGED src
  PROVE  Inv'
<1>. USE DEF GcNode
<1>0. /\ it \in tree /\ \A m \in tree : RankOf(it) <= RankOf(m)
      /\ MemInv /\ Mem /\ TreeIsSearchable
  BY DEF Inv, MemInv, GcInv, Least
<1>1. MemInv' /\ Drops(it)
  BY <1>0, Erased
<1>2. tree' = tree \ {it} /\ \A m \in tree' : RankOf(m)' = RankOf(m)
  BY <1>1 DEF Drops, Kept, RankOf
<1>3. {m \in tree : RankOf(m) > RankOf(it)} = tree \ {it}
  <2>1. \A m \in tree : RankOf(m) \in Int
    BY <1>0, KeysOfNodes
  <2>2. ASSUME NEW m \in tree
        PROVE  RankOf(m) > RankOf(it) <=> m # it
    BY <1>0, <2>1 DEF TreeIsSearchable
  <2>3. QED
    BY <2>2
<1>4. NextOf(it) = Least(tree \ {it})
  BY <1>3 DEF NextOf
<1>5. IF it' = NULL THEN tree \ {it} = {} ELSE it' \in Least(tree \ {it})
  BY <1>0, <1>4, FirstOrNull
<1>6. Least(tree)' = Least(tree \ {it})
  BY <1>2 DEF Least
<1>7. GcInv'
  BY <1>2, <1>5, <1>6 DEF GcInv
<1>8. it' \in Node \cup {NULL}
  BY <1>0, <1>5 DEF Least, Mem, MemOK
<1>9. CtlOK' /\ CopyInv' /\ LoopInv'
  BY <1>8 DEF Inv, CtlOK, CopyInv, LoopInv, loopVars
<1>10. QED
  BY <1>1, <1>7, <1>9 DEF Inv

-----------------------------------------------------------------------------
LEMMA Step == Inv /\ [Next]_vars => Inv'
<1>. SUFFICES ASSUME Inv, [Next]_vars PROVE Inv'
  OBVIOUS
<1>1. CASE UNCHANGED vars
  BY <1>1, QuietStep DEF vars
<1>2. CASE Next
  <2>. USE <1>2 DEF Next
  <2>1. ASSUME NEW k \in Key, NEW v \in Val, _infra_map_insert(k, v) \/ _infra_map_replace(k, v)
        PROVE  Inv'
    BY <2>1, InsertStep, ReplaceStep
  <2>2. ASSUME NEW k \in Key, _infra_map_erase(k) \/ _infra_map_find(k)
        PROVE  Inv'
    BY <2>2, EraseStep, FindStep
  <2>3. ASSUME NEW k \in DOMAIN Source, CopyPair(k)
        PROVE  Inv'
    BY <2>3, CopyStep
  <2>4. CASE _infra_map_pairs \/ _infra_map_pairs_next
    BY <2>4, PairsStep, NextStep
  <2>5. CASE GcBegins \/ GcNode
    BY <2>5, GcBeginsStep, GcNodeStep
  <2>6. CASE CopyEnds \/ _infra_map_size \/ OutOfMemory \/ Break \/ GcEnds \/ Gone
    BY <2>6, QuietStep
  <2>7. QED
    BY <2>1, <2>2, <2>3, <2>4, <2>5, <2>6 DEF Calls, Others
<1>3. QED
  BY <1>1, <1>2

LEMMA Invariance == Spec => []Inv
<1>1. Inv /\ [Next]_vars => Inv'
  BY Step
<1>2. QED
  BY Start, <1>1, PTL DEF Spec

-----------------------------------------------------------------------------
\* What is promised of the map.

\* Nodes, references and registry have their types; the nodes of the tree are
\* allocated.
THEOREM TypeCorrect == Spec => []TypeOK
<1>1. Inv => TypeOK
  <2>1. Inv => lost \subseteq Ref
    BY DEF Inv, MemInv, Mem, MemOK, Lost
  <2>2. QED
    BY <2>1 DEF Inv, MemInv, Mem, MemOK, HalfOK, CtlOK, TypeOK
<1>2. QED
  BY <1>1, Invariance, PTL

\* The nodes of the tree have keys, and no two of its keys have the same rank, so
\* a search finds one node at most.  (Two keys of the tree may still be such that
\* comparing them raises: they have never been compared.)
THEOREM SearchCorrect == Spec => []TreeIsSearchable
<1>1. Inv => TreeIsSearchable
  BY DEF Inv, MemInv
<1>2. QED
  BY <1>1, Invariance, PTL

\* No reference is released twice, shared or forgotten, whatever the order of
\* the calls and whichever of them raise.
THEOREM RegistryCorrect == Spec => []RegistryIsExact
<1>1. Inv => RegistryIsExact
  BY DEF Inv, MemInv, Mem, MemOK, RegistryIsExact
<1>2. QED
  BY <1>1, Invariance, PTL

\* Every node and every reference outside the tree is there because of an error,
\* of the comparison function or of memory, one for each; the collector leaves no
\* node.
THEOREM LossCorrect == Spec => []NothingLostSilently
<1>1. Inv => NothingLostSilently
  BY DEF Inv, MemInv, Counted, GcInv, NothingLostSilently
<1>2. QED
  BY <1>1, Invariance, PTL

\* A loop over a map that changes under it ascends, and ends only after every
\* key that was there from its beginning.
THEOREM LoopsCorrect == Spec => LoopsAreExact
<1>1. ASSUME Inv, [Next]_vars
      PROVE  [PairsAscend /\ PairsComplete]_vars
  <2>. SUFFICES ASSUME Next, ctl' # ctl \/ loop' # loop \/ ret' # ret
                PROVE  PairsAscend /\ PairsComplete
    <3>1. ctl' = ctl /\ loop' = loop /\ ret' = ret => PairsAscend /\ PairsComplete
      BY DEF PairsAscend, PairsComplete
    <3>2. QED
      BY <1>1, <3>1
  <2>. USE <1>1 DEF PairsAscend, PairsComplete
  <2>0. src' = src
    BY DEF Next
  <2>1. CASE _infra_map_pairs_next
    <3>1. NextDoes
      BY <2>0, <2>1, NextStep
    <3>2. <<"raised">> # <<"nil">> /\ \A n : <<"pair", KeyOf(n), ValOf(n)>> # <<"nil">>
      OBVIOUS
    <3>3. QED
      BY <3>1, <3>2 DEF NextDoes, LoopOff
  <2>2. CASE Break
    BY <2>2 DEF Break, LoopOff, Inv, LoopInv
  <2>3. CASE GcBegins
    BY <2>3 DEF GcBegins, LoopOff
  <2>4. CASE _infra_map_pairs
    BY <2>4 DEF _infra_map_pairs
  <2>5. ASSUME UNCHANGED <<loop, ctl>>
        PROVE  PairsAscend /\ PairsComplete
    BY <2>5
  <2>6. CASE Calls(Key)
    BY <2>5, <2>6 DEF Calls, _infra_map_insert, _infra_map_replace, _infra_map_erase,
                      _infra_map_find, loopVars, Away
  <2>7. CASE \/ \E k \in DOMAIN Source : CopyPair(k)
             \/ CopyEnds \/ _infra_map_size \/ GcNode \/ GcEnds \/ Gone
    BY <2>5, <2>7 DEF CopyPair, CopyEnds, _infra_map_size, GcNode, GcEnds, Gone, loopVars
  <2>8. CASE OutOfMemory
    <3>1. ret' # <<"nil">>
      BY <2>8 DEF OutOfMemory
    <3>2. QED
      BY <2>5, <2>8, <3>1 DEF OutOfMemory, loopVars
  <2>9. QED
    BY <2>1, <2>2, <2>3, <2>4, <2>6, <2>7, <2>8 DEF Next, Others
<1>2. QED
  BY <1>1, Invariance, PTL DEF Spec, LoopsAreExact

-----------------------------------------------------------------------------
\* The refinement: what a Lua program sees of a step.

Seen == IF pc = "ready" THEN Dict ELSE [h \in {} |-> 0]
Keys == {KeyOf(n) : n \in tree}

\* The pairs of the nodes t.
DictOf(t, fk, fv, g) ==
    [k \in {g[fk[n]] : n \in t} |-> g[fv[CHOOSE n \in t : g[fk[n]] = k]]]

HasPairs(d, t, fk, fv, g) ==
    /\ DOMAIN d = {g[fk[n]] : n \in t}
    /\ \A n \in t : d[g[fk[n]]] = g[fv[n]]

LEMMA PairsOf ==
  ASSUME NEW t, NEW fk, NEW fv, NEW g, \A m, n \in t : g[fk[m]] = g[fk[n]] => m = n
  PROVE  HasPairs(DictOf(t, fk, fv, g), t, fk, fv, g)
<1>1. ASSUME NEW n \in t
      PROVE  (CHOOSE m \in t : g[fk[m]] = g[fk[n]]) = n
  OBVIOUS
<1>2. QED
  BY <1>1 DEF DictOf, HasPairs

DictFits == /\ DOMAIN Dict = Keys
            /\ \A n \in tree : KeyOf(n) \in Keys /\ Dict[KeyOf(n)] = ValOf(n)
            /\ Dict = [h \in Keys |-> Dict[h]]

LEMMA DictIsExact == TreeIsSearchable => DictFits
<1>. SUFFICES ASSUME TreeIsSearchable PROVE DictFits
  OBVIOUS
<1>1. \A m, n \in tree : reg[refk[m]] = reg[refk[n]] => m = n
  BY DEF TreeIsSearchable, KeyOf, RankOf
<1>2. Dict = DictOf(tree, refk, refv, reg)
  BY DEF Dict, DictOf, KeyOf
<1>3. Dict = [h \in Keys |-> Dict[h]]
  BY DEF Dict, Keys
<1>4. HasPairs(Dict, tree, refk, refv, reg)
  BY <1>1, <1>2, PairsOf
<1>5. QED
  BY <1>3, <1>4 DEF HasPairs, DictFits, Keys, KeyOf, ValOf

LEMMA DictIsExactNext == TreeIsSearchable' => DictFits'
<1>. SUFFICES ASSUME TreeIsSearchable' PROVE DictFits'
  OBVIOUS
<1>1. \A m, n \in tree' : reg'[refk'[m]] = reg'[refk'[n]] => m = n
  BY DEF TreeIsSearchable, KeyOf, RankOf
<1>2. Dict' = DictOf(tree', refk', refv', reg')
  BY DEF Dict, DictOf, KeyOf
<1>3. Dict' = [h \in Keys' |-> Dict'[h]]
  BY DEF Dict, Keys
<1>4. HasPairs(Dict', tree', refk', refv', reg')
  BY <1>1, <1>2, PairsOf
<1>5. QED
  BY <1>3, <1>4 DEF HasPairs, DictFits, Keys, KeyOf, ValOf

\* What the changes of the tree are to the dictionary.
LEMMA DictSame ==
  ASSUME TreeIsSearchable, TreeIsSearchable', Same
  PROVE  Dict' = Dict
<1>1. DictFits /\ DictFits'
  BY DictIsExact, DictIsExactNext
<1>2. Keys' = Keys
  BY DEF Same, Kept, Keys
<1>3. \A h \in Keys : Dict'[h] = Dict[h]
  <2>1. ASSUME NEW n \in tree
        PROVE  Dict'[KeyOf(n)] = Dict[KeyOf(n)]
    BY <1>1 DEF DictFits, Same, Kept
  <2>2. QED
    BY <2>1 DEF Keys
<1>4. QED
  BY <1>1, <1>2, <1>3 DEF DictFits

LEMMA DictAdds ==
  ASSUME TreeIsSearchable, TreeIsSearchable', NEW k \in Key, NEW v \in Val, Adds(k, v)
  PROVE  Dict' = D!With(Dict, k, v)
<1>1. DictFits /\ DictFits'
  BY DictIsExact, DictIsExactNext
<1>2. PICK n \in Node \ tree : /\ tree' = tree \cup {n} /\ Kept(tree)
                               /\ KeyOf(n)' = k /\ ValOf(n)' = v
  BY DEF Adds
<1>3. Keys' = Keys \cup {k}
  BY <1>2 DEF Kept, Keys
<1>4. Dict'[k] = v
  BY <1>1, <1>2 DEF DictFits
<1>5. \A h \in Keys : h # k => Dict'[h] = Dict[h]
  <2>1. ASSUME NEW m \in tree
        PROVE  Dict'[KeyOf(m)] = Dict[KeyOf(m)]
    BY <1>1, <1>2 DEF DictFits, Kept
  <2>2. QED
    BY <2>1 DEF Keys
<1>6. QED
  BY <1>1, <1>3, <1>4, <1>5 DEF DictFits, D!With

LEMMA KeysWithout ==
  ASSUME TreeIsSearchable, NEW m \in tree
  PROVE  {KeyOf(n) : n \in tree \ {m}} = Keys \ {KeyOf(m)}
BY DEF TreeIsSearchable, RankOf, Keys

LEMMA DictDrops ==
  ASSUME TreeIsSearchable, TreeIsSearchable', NEW m \in tree, Drops(m)
  PROVE  Dict' = D!Without(Dict, {KeyOf(m)})
<1>1. DictFits /\ DictFits'
  BY DictIsExact, DictIsExactNext
<1>2. Keys' = Keys \ {KeyOf(m)}
  <2>1. Keys' = {KeyOf(n) : n \in tree \ {m}}
    BY DEF Drops, Kept, Keys
  <2>2. QED
    BY <2>1, KeysWithout
<1>3. \A h \in Keys' : Dict'[h] = Dict[h]
  <2>1. ASSUME NEW n \in tree \ {m}
        PROVE  Dict'[KeyOf(n)] = Dict[KeyOf(n)]
    BY <1>1 DEF DictFits, Drops, Kept
  <2>2. Keys' = {KeyOf(n) : n \in tree \ {m}}
    BY DEF Drops, Kept, Keys
  <2>3. QED
    BY <2>1, <2>2
<1>4. QED
  BY <1>1, <1>2, <1>3 DEF DictFits, D!Without

LEMMA DictSwaps ==
  ASSUME TreeIsSearchable, TreeIsSearchable', NEW m \in tree, NEW k \in Key, NEW v \in Val,
         Swaps(m, k, v)
  PROVE  Dict' = D!With(D!Without(Dict, {KeyOf(m)}), k, v)
<1>1. DictFits /\ DictFits'
  BY DictIsExact, DictIsExactNext
<1>2. PICK n \in Node \ tree : /\ tree' = (tree \ {m}) \cup {n} /\ Kept(tree \ {m})
                               /\ KeyOf(n)' = k /\ ValOf(n)' = v
  BY DEF Swaps
<1>3. Keys' = (Keys \ {KeyOf(m)}) \cup {k}
  <2>1. Keys' = {KeyOf(o) : o \in tree \ {m}} \cup {k}
    BY <1>2 DEF Kept, Keys
  <2>2. QED
    BY <2>1, KeysWithout
<1>4. Dict'[k] = v
  BY <1>1, <1>2 DEF DictFits
<1>5. \A h \in Keys \ {KeyOf(m)} : h # k => Dict'[h] = Dict[h]
  <2>1. ASSUME NEW o \in tree \ {m}
        PROVE  Dict'[KeyOf(o)] = Dict[KeyOf(o)]
    BY <1>1, <1>2 DEF DictFits, Kept
  <2>2. QED
    BY <2>1, KeysWithout
<1>6. QED
  BY <1>1, <1>3, <1>4, <1>5 DEF DictFits, D!With, D!Without

-----------------------------------------------------------------------------
\* Every step of the map is a step of the dictionary, or is not seen.

LEMMA EqualKeys ==
  ASSUME TreeIsSearchable, pc = "ready", NEW k \in Key
  PROVE  /\ Find(k) = {} => D!Equal(k) = {}
         /\ \A m : Find(k) = {m} => m \in tree /\ D!Equal(k) = {KeyOf(m)}
<1>1. D!Equal(k) = {h \in Keys : Rank[h] = Rank[k]}
  BY DictIsExact DEF D!Equal, DictFits
<1>2. Find(k) = {n \in tree : Rank[KeyOf(n)] = Rank[k]}
  BY DEF Find, RankOf
<1>3. Find(k) = {} => D!Equal(k) = {}
  BY <1>1, <1>2 DEF Keys
<1>4. ASSUME NEW m, Find(k) = {m}
      PROVE  m \in tree /\ D!Equal(k) = {KeyOf(m)}
  <2>1. m \in tree /\ Rank[KeyOf(m)] = Rank[k]
    BY <1>2, <1>4
  <2>2. \A n \in tree : Rank[KeyOf(n)] = Rank[k] => n = m
    BY <1>2, <1>4
  <2>3. QED
    BY <1>1, <2>1, <2>2 DEF Keys
<1>5. QED
  BY <1>3, <1>4

\* While the map is ready its pairs are the dictionary's.
SeenReady == Seen = Dict /\ Seen' = Dict' /\ TreeIsSearchable /\ TreeIsSearchable'

LEMMA ReadyIsSeen == Inv /\ Inv' /\ pc = "ready" /\ pc' = "ready" => SeenReady
BY DEF SeenReady, Seen, Inv, MemInv

LEMMA InsertRefines ==
  ASSUME SeenReady, pc = "ready", NEW k \in Key, NEW v \in Val, InsertDoes(k, v)
  PROVE  D!Insert(k, v) \/ D!Raise
<1>. USE DEF SeenReady, Seen
<1>1. CASE Same /\ ret' = <<"raised">>
  BY <1>1, DictSame DEF D!Raise
<1>2. CASE Find(k) = {} /\ Adds(k, v) /\ ret' = <<"insert", k, v, TRUE>>
  BY <1>2, DictAdds, EqualKeys DEF D!Insert
<1>3. CASE Find(k) # {} /\ Same /\ ret' = <<"insert", k, v, FALSE>>
  <2>1. D!Equal(k) # {}
    BY <1>3, FindOne, EqualKeys
  <2>2. QED
    BY <1>3, <2>1, DictSame DEF D!Insert
<1>4. QED
  BY <1>1, <1>2, <1>3 DEF InsertDoes

LEMMA ReplaceRefines ==
  ASSUME SeenReady, pc = "ready", NEW k \in Key, NEW v \in Val, ReplaceDoes(k, v)
  PROVE  D!Replace(k, v) \/ D!Raise \/ D!RaiseInReplace(k)
<1>. USE DEF SeenReady, Seen
<1>1. CASE Same /\ ret' = <<"raised">>
  BY <1>1, DictSame DEF D!Raise
<1>2. CASE Find(k) = {} /\ Adds(k, v) /\ ret' = <<"replace", k, v>>
  <2>1. D!Equal(k) = {}
    BY <1>2, EqualKeys
  <2>2. D!Without(Dict, {}) = Dict
    BY DictIsExact DEF D!Without, DictFits
  <2>3. QED
    BY <1>2, <2>1, <2>2, DictAdds DEF D!Replace
<1>3. ASSUME NEW m \in tree, Find(k) = {m}, Swaps(m, k, v), ret' = <<"replace", k, v>>
      PROVE  D!Replace(k, v)
  BY <1>3, EqualKeys, DictSwaps DEF D!Replace
<1>4. ASSUME NEW m \in tree, Find(k) = {m}, Drops(m), ret' = <<"replace raised">>
      PROVE  D!RaiseInReplace(k)
  BY <1>4, EqualKeys, DictDrops DEF D!RaiseInReplace
<1>5. QED
  BY <1>1, <1>2, <1>3, <1>4 DEF ReplaceDoes

LEMMA EraseRefines ==
  ASSUME SeenReady, pc = "ready", NEW k \in Key, EraseDoes(k)
  PROVE  D!Erase(k) \/ D!Raise
<1>. USE DEF SeenReady, Seen
<1>1. CASE Same /\ ret' = <<"raised">>
  BY <1>1, DictSame DEF D!Raise
<1>2. CASE Find(k) = {} /\ Same /\ ret' = <<"erase", k, FALSE>>
  <2>1. D!Equal(k) = {} /\ Dict' = Dict
    BY <1>2, EqualKeys, DictSame
  <2>2. D!Without(Dict, {}) = Dict
    BY DictIsExact DEF D!Without, DictFits
  <2>3. QED
    BY <1>2, <2>1, <2>2 DEF D!Erase
<1>3. ASSUME NEW m \in tree, Find(k) = {m}, Drops(m), ret' = <<"erase", k, TRUE>>
      PROVE  D!Erase(k)
  <2>1. D!Equal(k) = {KeyOf(m)} /\ Dict' = D!Without(Dict, {KeyOf(m)})
    BY <1>3, EqualKeys, DictDrops
  <2>2. QED
    BY <1>3, <2>1 DEF D!Erase
<1>4. QED
  BY <1>1, <1>2, <1>3 DEF EraseDoes

LEMMA FindRefines ==
  ASSUME SeenReady, pc = "ready", NEW k \in Key, FindDoes(k)
  PROVE  D!Find(k) \/ D!Raise
<1>. USE DEF SeenReady, Seen
<1>0. Dict' = Dict
  BY DictSame DEF FindDoes
<1>1. CASE ret' = <<"raised">>
  BY <1>0, <1>1 DEF D!Raise
<1>2. CASE Find(k) = {} /\ ret' = <<"find", k>>
  BY <1>0, <1>2, EqualKeys DEF D!Find
<1>3. ASSUME NEW m \in tree, Find(k) = {m}, ret' = <<"find", k, ValOf(m)>>
      PROVE  D!Find(k)
  <2>1. D!Equal(k) = {KeyOf(m)} /\ Dict[KeyOf(m)] = ValOf(m)
    BY <1>3, EqualKeys, DictIsExact DEF DictFits
  <2>2. QED
    BY <1>0, <1>3, <2>1 DEF D!Find
<1>4. QED
  BY <1>1, <1>2, <1>3 DEF FindDoes

LEMMA NextRefines ==
  ASSUME SeenReady, pc = "ready", NextDoes
  PROVE  D!Pairs \/ D!Raise
<1>. USE DEF SeenReady, Seen
<1>0. Dict' = Dict
  BY DictSame DEF NextDoes
<1>1. ASSUME NEW n \in tree, ret' = <<"pair", KeyOf(n), ValOf(n)>>
      PROVE  D!Pairs
  <2>1. KeyOf(n) \in DOMAIN Dict /\ Dict[KeyOf(n)] = ValOf(n)
    BY DictIsExact DEF DictFits
  <2>2. QED
    BY <1>0, <1>1, <2>1 DEF D!Pairs
<1>2. CASE ret' = <<"raised">>
  BY <1>0, <1>2 DEF D!Raise
<1>3. CASE ret' = <<"nil">>
  BY <1>0, <1>3 DEF D!Pairs
<1>4. QED
  BY <1>1, <1>2, <1>3 DEF NextDoes

LEMMA SizeIsExact ==
  ASSUME Mem, TreeIsSearchable
  PROVE  Cardinality(tree) = Cardinality(DOMAIN Dict)
<1>. DEFINE f == [n \in tree |-> KeyOf(n)]
<1>1. f \in Bijection(tree, Keys)
  <2>1. \A m, n \in tree : KeyOf(m) = KeyOf(n) => m = n
    BY DEF TreeIsSearchable, RankOf
  <2>2. QED
    BY <2>1 DEF Keys, Bijection, Injection, Surjection, IsInjective
<1>2. ExistsBijection(tree, Keys)
  BY <1>1 DEF ExistsBijection
<1>3. QED
  BY <1>2, FiniteMem, FS_Bijection, DictIsExact DEF DictFits

\* The dictionary's module has a Cardinality of its own, which is the same.
LEMMA SameCardinality == ASSUME NEW S PROVE D!Cardinality(S) = Cardinality(S)
BY DEF Cardinality, D!Cardinality

LEMMA MakeRefines ==
  ASSUME Inv, CopyEnds, UNCHANGED src
  PROVE  D!Make
<1>1. /\ pc = "copy" /\ pc' = "ready" /\ todo = {} /\ ret = <<"nothing">> /\ ret' = <<"map">>
      /\ Seen = D!Empty /\ Seen' = Dict'
  BY DEF CopyEnds, Seen, D!Empty, Inv, CopyInv
<1>2. /\ \A k \in src : \E n \in tree : RankOf(n) = Rank[k]
      /\ \A n \in tree : KeyOf(n) \in src /\ ValOf(n) = Source[KeyOf(n)]
  BY <1>1 DEF Inv, CopyInv
<1>3. Dict' = Dict /\ DictFits
  <2>1. Same /\ TreeIsSearchable /\ TreeIsSearchable'
    BY QuietStep DEF Inv, MemInv
  <2>2. QED
    BY <2>1, DictSame, DictIsExact
<1>4. /\ Keys \in SUBSET src
      /\ \A k \in src : \E h \in Keys : Rank[h] = Rank[k]
      /\ \A h, k \in Keys : Rank[h] = Rank[k] => h = k
  BY <1>2 DEF Keys, RankOf, Inv, MemInv, TreeIsSearchable
<1>5. Dict = [h \in Keys |-> Source[h]]
  <2>1. ASSUME NEW n \in tree
        PROVE  Dict[KeyOf(n)] = Source[KeyOf(n)]
    BY <1>2, <1>3 DEF DictFits
  <2>2. \A h \in Keys : Dict[h] = Source[h]
    BY <2>1 DEF Keys
  <2>3. QED
    BY <1>3, <2>2 DEF DictFits
<1>6. QED
  BY <1>1, <1>3, <1>4, <1>5 DEF D!Make, Seen

LEMMA StartRefines == Init => D!Init
BY DEF Init, D!Init, D!Empty

LEMMA StepRefines ==
  ASSUME Inv, [Next]_vars
  PROVE  [D!Next]_(D!dictVars)
<1>0. Inv'
  BY Step
<1>1. CASE UNCHANGED vars
  <2>1. Dict' = Dict
    BY <1>0, <1>1, QuietStep, DictSame DEF Inv, MemInv, vars
  <2>2. QED
    BY <1>1, <2>1 DEF vars, D!dictVars
<1>2. CASE Next
  <2>0. src' = src
    BY <1>2 DEF Next
  <2>1. ASSUME NEW k \in Key, NEW v \in Val, _infra_map_insert(k, v)
        PROVE  D!Next
    <3>1. pc = "ready" /\ pc' = "ready" /\ SeenReady
      BY <1>0, <2>1, ReadyIsSeen DEF _infra_map_insert
    <3>2. D!Insert(k, v) \/ D!Raise
      BY <2>0, <2>1, <3>1, InsertStep, InsertRefines
    <3>3. QED
      BY <2>0, <3>2 DEF D!Next
  <2>2. ASSUME NEW k \in Key, NEW v \in Val, _infra_map_replace(k, v)
        PROVE  D!Next
    <3>1. pc = "ready" /\ pc' = "ready" /\ SeenReady
      BY <1>0, <2>2, ReadyIsSeen DEF _infra_map_replace
    <3>2. D!Replace(k, v) \/ D!Raise \/ D!RaiseInReplace(k)
      BY <2>0, <2>2, <3>1, ReplaceStep, ReplaceRefines
    <3>3. QED
      BY <2>0, <3>2 DEF D!Next
  <2>3. ASSUME NEW k \in Key, _infra_map_erase(k)
        PROVE  D!Next
    <3>1. pc = "ready" /\ pc' = "ready" /\ SeenReady
      BY <1>0, <2>3, ReadyIsSeen DEF _infra_map_erase
    <3>2. D!Erase(k) \/ D!Raise
      BY <2>0, <2>3, <3>1, EraseStep, EraseRefines
    <3>3. QED
      BY <2>0, <3>2 DEF D!Next
  <2>4. ASSUME NEW k \in Key, _infra_map_find(k)
        PROVE  D!Next
    <3>1. pc = "ready" /\ pc' = "ready" /\ SeenReady
      BY <1>0, <2>4, ReadyIsSeen DEF _infra_map_find
    <3>2. D!Find(k) \/ D!Raise
      BY <2>0, <2>4, <3>1, FindStep, FindRefines
    <3>3. QED
      BY <2>0, <3>2 DEF D!Next
  <2>5. CASE _infra_map_pairs_next
    <3>1. pc = "ready" /\ pc' = "ready" /\ SeenReady
      BY <1>0, <2>5, ReadyIsSeen DEF _infra_map_pairs_next
    <3>2. D!Pairs \/ D!Raise
      BY <2>0, <2>5, <3>1, NextStep, NextRefines
    <3>3. QED
      BY <2>0, <3>2 DEF D!Next
  <2>6. CASE _infra_map_pairs
    <3>1. pc = "ready" /\ pc' = "ready" /\ SeenReady /\ ret' = <<"iterator">>
      BY <1>0, <2>6, ReadyIsSeen DEF _infra_map_pairs
    <3>2. Dict' = Dict
      BY <2>0, <2>6, <3>1, PairsStep, DictSame DEF SeenReady
    <3>3. D!Pairs
      BY <3>1, <3>2 DEF D!Pairs
    <3>4. QED
      BY <2>0, <3>3 DEF D!Next
  <2>7. ASSUME _infra_map_size \/ OutOfMemory \/ Break
        PROVE  [D!Next]_(D!dictVars)
    <3>1. pc = "ready" /\ pc' = "ready" /\ SeenReady
      BY <1>0, <2>7, ReadyIsSeen DEF _infra_map_size, OutOfMemory, Break
    <3>2. Dict' = Dict
      BY <2>0, <2>7, <3>1, QuietStep, DictSame DEF SeenReady
    <3>3. CASE _infra_map_size
      <4>1. ret' = <<"size", Cardinality(DOMAIN Dict)>>
        BY <3>3, SizeIsExact DEF _infra_map_size, Inv, MemInv
      <4>2. D!Size
        <5>1. (IF pc = "ready" THEN Dict ELSE [h \in {} |-> 0]) = Dict
          BY <3>1
        <5>2. UNCHANGED IF pc = "ready" THEN Dict ELSE [h \in {} |-> 0]
          BY <3>1, <3>2
        <5>3. QED
          BY <4>1, <5>1, <5>2, SameCardinality DEF D!Size
      <4>3. QED
        BY <2>0, <4>2 DEF D!Next
    <3>4. CASE OutOfMemory
      <4>1. D!Raise
        BY <3>1, <3>2, <3>4 DEF OutOfMemory, D!Raise
      <4>2. QED
        BY <2>0, <4>1 DEF D!Next
    <3>5. CASE Break
      BY <2>0, <3>1, <3>2, <3>5 DEF Break, D!dictVars
    <3>6. QED
      BY <2>7, <3>3, <3>4, <3>5
  <2>8. ASSUME NEW k \in DOMAIN Source, CopyPair(k)
        PROVE  [D!Next]_(D!dictVars)
    <3>1. CopyDoes(k) /\ pc = "copy"
      BY <2>0, <2>8, CopyStep DEF CopyPair
    <3>2. CASE pc' = "gc" /\ ret' = <<"raised">>
      <4>1. D!Raise
        BY <3>1, <3>2 DEF D!Raise
      <4>2. QED
        BY <2>0, <4>1 DEF D!Next
    <3>3. CASE pc' = pc /\ ret' = ret
      BY <2>0, <3>1, <3>3 DEF D!dictVars
    <3>4. QED
      BY <3>1, <3>2, <3>3 DEF CopyDoes
  <2>9. CASE CopyEnds
    BY <2>0, <2>9, MakeRefines DEF D!Next
  <2>10. CASE GcBegins
    <3>1. D!Collect
      BY <2>10 DEF GcBegins, D!Collect, D!Empty
    <3>2. QED
      BY <2>0, <3>1 DEF D!Next
  <2>11. CASE GcNode \/ GcEnds \/ Gone
    BY <2>0, <2>11 DEF GcNode, GcEnds, Gone, D!dictVars
  <2>12. QED
    BY <1>2, <2>1, <2>2, <2>3, <2>4, <2>5, <2>6, <2>7, <2>8, <2>9, <2>10, <2>11
       DEF Next, Calls, Others
<1>3. QED
  BY <1>1, <1>2

\* To a Lua program the map is a dictionary, whatever happens to nodes and
\* references, and a call that raises an error leaves it as it was, except for
\* replace.
THEOREM Refinement == Spec => ImplementsLuaDict
<1>1. Init => D!Init
  BY StartRefines
<1>2. Inv /\ [Next]_vars => [D!Next]_(D!dictVars)
  BY StepRefines
<1>3. QED
  BY <1>1, <1>2, Invariance, PTL DEF Spec, ImplementsLuaDict, D!Spec
=============================================================================
