------------------------------- MODULE Optional -------------------------------
(* The value of a std::optional number that holds none.                       *)
EXTENDS Integers

CONSTANT None

ASSUME NoneAssumption == None \notin Int
===============================================================================
