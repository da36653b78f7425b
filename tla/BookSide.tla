------------------------------- MODULE BookSide -------------------------------
(***************************************************************************)
(* One side of the limit order book, BookSide of cpp/src/order_book.cpp: a *)
(* fixed array of at most Depth price levels kept best price first.  The   *)
(* side is a sequence of levels and apply() is an operator on it, so that  *)
(* OrderBook can hold two of them.                                         *)
(***************************************************************************)
EXTENDS Integers, Sequences, SequencesExt

CONSTANTS
  Depth,      (* depth_, the capacity of a side; 64 in the pipeline.       *)
  Ticks,      (* The prices, in ticks: a part of int64.                    *)
  Quantities  (* The quantities, in scaled units: a part of uint64.        *)

ASSUME DepthAssumption == Depth \in Nat \ {0}
ASSUME TicksAssumption == Ticks \subseteq Int
ASSUME QuantitiesAssumption == Quantities \subseteq Nat /\ 0 \in Quantities

Sides == {"Bid", "Ask"}

(* A PriceLevel, and one a side may hold. *)
PriceLevel == [price : Ticks, quantity : Quantities]
LiveLevel == {lv \in PriceLevel : lv.quantity # 0}

IsBetter(side, lhs, rhs) == IF side = "Bid" THEN lhs > rhs ELSE lhs < rhs

(***************************************************************************)
(* The scan `index = 0; while (index < size && !stop(index)) ++index;` of  *)
(* apply(): the first index where stop holds, or the one past the end.     *)
(***************************************************************************)
ScanUntil(levels, stop(_)) ==
  CHOOSE i \in 1 .. Len(levels) + 1 :
    /\ i <= Len(levels) => stop(levels[i])
    /\ \A j \in 1 .. i - 1 : ~ stop(levels[j])

Existing(levels, price) == ScanUntil(levels, LAMBDA lv : lv.price = price)

(* Mutant: the insertion point is always the end of the array. *)
InsertionAtEnd(side, levels, price) == Len(levels) + 1

Insertion(side, levels, price) ==
  ScanUntil(levels, LAMBDA lv : ~ IsBetter(side, lv.price, price))

(* Mutant: a level that is held is updated whatever the quantity. *)
ChangeKeepingEmptied(side, levels, price, quantity) ==
  LET held == Existing(levels, price) <= Len(levels)
      full == Len(levels) = Depth
  IN  CASE held                    -> "Updated"
        [] ~ held /\ quantity = 0 -> "NotFound"
        [] ~ held /\ quantity # 0 ->
             IF full /\ Insertion(side, levels, price) = Len(levels) + 1
             THEN "Discarded" ELSE "Inserted"

(* The LevelChange that apply() returns. *)
Change(side, levels, price, quantity) ==
  LET held == Existing(levels, price) <= Len(levels)
      full == Len(levels) = Depth
  IN  CASE held /\ quantity # 0   -> "Updated"
        [] held /\ quantity = 0   -> "Removed"
        [] ~ held /\ quantity = 0 -> "NotFound"
        [] ~ held /\ quantity # 0 ->
             IF full /\ Insertion(side, levels, price) = Len(levels) + 1
             THEN "Discarded" ELSE "Inserted"

(* Mutant: a full side drops its best level instead of its worst. *)
AppliedEvictingBest(side, levels, price, quantity) ==
  LET change == Change(side, levels, price, quantity)
      kept   == IF Len(levels) = Depth THEN Tail(levels) ELSE levels
  IN  CASE change = "Updated"  -> [levels EXCEPT ![Existing(levels, price)].quantity = quantity]
        [] change = "Removed"  -> RemoveAt(levels, Existing(levels, price))
        [] change = "Inserted" -> InsertAt(kept, Insertion(side, kept, price),
                                           [price |-> price, quantity |-> quantity])
        [] OTHER               -> levels

(* The array apply() leaves: a full side loses its last level to the new one. *)
Applied(side, levels, price, quantity) ==
  LET change == Change(side, levels, price, quantity)
      kept   == IF Len(levels) = Depth THEN Front(levels) ELSE levels
  IN  CASE change = "Updated"  -> [levels EXCEPT ![Existing(levels, price)].quantity = quantity]
        [] change = "Removed"  -> RemoveAt(levels, Existing(levels, price))
        [] change = "Inserted" -> InsertAt(kept, Insertion(side, levels, price),
                                           [price |-> price, quantity |-> quantity])
        [] OTHER               -> levels

(* clear() followed by an apply() of each level of a list. *)
Loaded(side, list) ==
  LET after[n \in 0 .. Len(list)] ==
        IF n = 0 THEN << >>
        ELSE Applied(side, after[n - 1], list[n].price, list[n].quantity)
  IN  after[Len(list)]

(* The prices a side holds. *)
Prices(levels) == {levels[i].price : i \in DOMAIN levels}

(***************************************************************************)
(* What the array promises: within its capacity, no empty level, and       *)
(* strictly best first, hence no price twice.                              *)
(***************************************************************************)
WellFormed(side, levels) ==
  /\ levels \in Seq(LiveLevel)
  /\ Len(levels) <= Depth
  /\ \A i, j \in DOMAIN levels :
       i < j => IsBetter(side, levels[i].price, levels[j].price)
===============================================================================
