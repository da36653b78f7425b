----------------------------- MODULE BoundedBook ------------------------------
(***************************************************************************)
(* What an order book promises, with no array, no scan and no shift.  Each *)
(* side maps every price to its quantity, 0 where there is none.  full is  *)
(* the book it was told, of any depth; held is what it keeps: the best     *)
(* Depth prices among those it kept before and the one just set.  It       *)
(* changes only by the next update of its sequence, by a snapshot or by a  *)
(* reset.  OrderBook implements it.                                        *)
(***************************************************************************)
EXTENDS Integers, FiniteSets

CONSTANTS Depth, Ticks, Quantities, MaxSequence, None

VARIABLES
  full,  (* [Side -> [Ticks -> Quantities]], everything told so far.       *)
  held,  (* [Side -> [Ticks -> Quantities]], what is kept of it.           *)
  last   (* The sequence number the book stands at, or None.               *)

Sides == {"Bid", "Ask"}
Better(side, p, q) == IF side = "Bid" THEN p > q ELSE p < q
Maps == [Ticks -> Quantities]
Empty == [price \in Ticks |-> 0]

(* The best Depth prices of a map. *)
Top(side, map) ==
  [p \in Ticks |->
     IF Cardinality({q \in Ticks : map[q] # 0 /\ Better(side, q, p)}) < Depth
     THEN map[p] ELSE 0]

Init ==
  /\ full = [side \in Sides |-> Empty]
  /\ held = [side \in Sides |-> Empty]
  /\ last = None

(* The first update is taken whatever its number, then only the next one. *)
Update(side, price, quantity) ==
  /\ last' \in IF last = None THEN 0 .. MaxSequence
               ELSE {last + 1} \cap (0 .. MaxSequence)
  /\ full' = [full EXCEPT ![side][price] = quantity]
  /\ held' = [held EXCEPT ![side] = Top(side, [@ EXCEPT ![price] = quantity])]

(* A snapshot leaves the best Depth levels of each of its sides. *)
Snapshot ==
  /\ last' \in 0 .. MaxSequence
  /\ full' \in [Sides -> Maps]
  /\ held' = [side \in Sides |-> Top(side, full'[side])]

Reset ==
  /\ last' = None
  /\ full' = [side \in Sides |-> Empty]
  /\ held' = [side \in Sides |-> Empty]

Next ==
  \/ \E side \in Sides, price \in Ticks, quantity \in Quantities :
       Update(side, price, quantity)
  \/ Snapshot
  \/ Reset

Spec == Init /\ [][Next]_<<full, held, last>>
===============================================================================
