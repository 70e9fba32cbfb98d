------------------------------ MODULE Ordering ------------------------------
(***************************************************************************)
(* The members of a finite set of numbers in ascending order. Each number  *)
(* is found by its place, so that the order can be reasoned about without  *)
(* a sorting function (SortSeq has no definition a prover can expand).     *)
(***************************************************************************)
EXTENDS Integers, FiniteSets

Place(x, S) == Cardinality({y \in S : y <= x})
Ascending(S) == [i \in 1..Cardinality(S) |-> CHOOSE x \in S : Place(x, S) = i]
=============================================================================
