-------------------------------- MODULE Ranking -------------------------------
(* A finite set in the order of a sort, std::sort or Python's sorted().       *)
EXTENDS Integers, FiniteSets

(* A finite set sorted by an order, as pairs, that is strict and total on it. *)
Sorted(set, order) ==
  [i \in 1 .. Cardinality(set) |->
     CHOOSE x \in set : Cardinality({y \in set : << y, x >> \in order}) = i - 1]
===============================================================================
