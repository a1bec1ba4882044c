------------------------------ MODULE Selection ------------------------------
(***************************************************************************)
(* SelectSeq in a form that the provers can reason about: the positions to *)
(* keep are a set, and the n-th element kept is the one at the position    *)
(* with n of them up to it.                                                *)
(***************************************************************************)
EXTENDS Naturals, FiniteSets

Rank(K, i) == Cardinality({j \in K : j <= i})

\* The elements of s at the positions in K, in their order.
Selected(s, K) == [n \in 1..Cardinality(K) |-> s[CHOOSE i \in K : Rank(K, i) = n]]
=============================================================================
