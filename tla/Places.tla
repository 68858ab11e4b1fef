------------------------------- MODULE Places -------------------------------
(***************************************************************************)
(* Sequences by places: parts of one, and a set in order.                   *)
(***************************************************************************)
EXTENDS Naturals, Sequences, SequencesExt, FiniteSets, FiniteSetsExt

\* The n-th least of the numbers I.
Nth(I, n) == CHOOSE i \in I : Cardinality({j \in I : j <= i}) = n

\* The entries of s at the places I, in order.
Picked(s, I) == [n \in 1..Cardinality(I) |-> s[Nth(I, n)]]

\* The members of S in the order R, a set of pairs.
Sorted(S, R) ==
  [n \in 1..Cardinality(S) |->
     CHOOSE x \in S : Cardinality({y \in S : <<y, x>> \in R}) = n - 1]
=============================================================================
