------------------------------ MODULE ListSeq ------------------------------
(***************************************************************************)
(* What utils/list.h promises: a list is a sequence of nodes, and every    *)
(* call does to it what its name says.                                     *)
(***************************************************************************)
EXTENDS Integers, SequencesExt

CONSTANTS List, Node, Nil

VARIABLES seq,      \* the sequence of each list
          popped    \* what the last pop has returned

seqVars == <<seq, popped>>

Init == seq = [l \in List |-> <<>>] /\ popped = Nil

Becomes(l, s) == seq' = [seq EXCEPT ![l] = s] /\ UNCHANGED popped
Place(l, pos) == CHOOSE i \in 1..Len(seq[l]) : seq[l][i] = pos

PushBack(l, n)          == Becomes(l, Append(seq[l], n))
PushFront(l, n)         == Becomes(l, <<n>> \o seq[l])
InsertBefore(l, pos, n) == Becomes(l, InsertAt(seq[l], Place(l, pos), n))
InsertAfter(l, pos, n)  == Becomes(l, InsertAt(seq[l], Place(l, pos) + 1, n))
Erase(l, n)             == Becomes(l, RemoveAt(seq[l], Place(l, n)))

\* "Delete the node from the list and return it", or NULL.
PopFront(l) == IF seq[l] = <<>> THEN popped' = Nil /\ UNCHANGED seq
               ELSE popped' = Head(seq[l]) /\ seq' = [seq EXCEPT ![l] = Tail(@)]
PopBack(l)  == IF seq[l] = <<>> THEN popped' = Nil /\ UNCHANGED seq
               ELSE popped' = Last(seq[l]) /\ seq' = [seq EXCEPT ![l] = Front(@)]

\* "Move all elements from src into the end of dst."
Migrate(dst, src) == /\ seq' = [seq EXCEPT ![dst] = seq[dst] \o seq[src], ![src] = <<>>]
                     /\ UNCHANGED popped

\* A node is pushed or inserted when it is in no list.
Unlisted == Node \ UNION {ToSet(seq[l]) : l \in List}

Next == \E l \in List :
          \/ \E n \in Unlisted : \/ PushBack(l, n) \/ PushFront(l, n)
                                 \/ \E pos \in ToSet(seq[l]) : \/ InsertBefore(l, pos, n)
                                                               \/ InsertAfter(l, pos, n)
          \/ \E n \in ToSet(seq[l]) : Erase(l, n)
          \/ PopFront(l) \/ PopBack(l)
          \/ \E src \in List \ {l} : Migrate(l, src)

Spec == Init /\ [][Next]_seqVars
=============================================================================
