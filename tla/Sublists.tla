------------------------------ MODULE Sublists ------------------------------
(***************************************************************************)
(* Some of the elements of a sequence, in their order: those at the places *)
(* of a set.  It is what SelectSeq gives, with the place of each of them.  *)
(***************************************************************************)
EXTENDS Integers, FiniteSets

\* How many places of S there are up to i.
Rank(S, i) == Cardinality({j \in S : j <= i})

\* The k-th place of S.
Place(S, k) == CHOOSE i \in S : Rank(S, i) = k

Sublist(s, S) == [k \in 1 .. Cardinality(S) |-> s[Place(S, k)]]
=============================================================================
