------------------------------ MODULE Sublist ------------------------------
(***************************************************************************)
(* Loops of the code that go through a slice and keep some of its elements *)
(* in their order: the kept elements are given by their positions.         *)
(***************************************************************************)
EXTENDS Integers, Sequences, FiniteSets

\* The m-th smallest of a set of numbers.
Nth(K, m) == CHOOSE n \in K : Cardinality({j \in K : j <= n}) = m

\* The elements of s at the positions K.
Sublist(s, K) == [m \in 1..Cardinality(K) |-> s[Nth(K, m)]]
=============================================================================
