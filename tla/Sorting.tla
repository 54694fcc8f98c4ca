------------------------------ MODULE Sorting ------------------------------
(***************************************************************************)
(* Sets of numbers as ascending sequences: what a sort with deduplication  *)
(* leaves, and what a loop that counts upwards collects.                   *)
(***************************************************************************)
EXTENDS Integers, FiniteSets

\* The elements of a set of numbers in ascending order.
Sorted(S) ==
  [i \in 1 .. Cardinality(S) |-> CHOOSE x \in S : Cardinality({y \in S : y < x}) = i - 1]
=============================================================================
