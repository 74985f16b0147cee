----------------------------- MODULE Selections -----------------------------
(* The part of a sequence at some of its places, in order: SelectSeq by the *)
(* places of what is kept, without a recursion, so that it can be reasoned  *)
(* about.  SelectionProofs says what it is.                                 *)
EXTENDS Naturals, Sequences, FiniteSets

\* The i-th place of K.
Place(K, i) == CHOOSE k \in K : Cardinality({j \in K : j <= k}) = i

Only(s, K) == [i \in 1 .. Cardinality(K) |-> s[Place(K, i)]]
=============================================================================
