------------------------------ MODULE OrderBook -------------------------------
(***************************************************************************)
(* OrderBook of cpp/src/order_book.cpp: a bid side, an ask side and the    *)
(* sequence number of the last update it accepted.  Callers may apply any  *)
(* update, with any sequence number, and may at any time load a snapshot   *)
(* or reset the book.                                                      *)
(*                                                                         *)
(* full and losses are history variables that the code does not have:      *)
(* they record what the book was told, so that what it holds can be        *)
(* compared with it.                                                       *)
(***************************************************************************)
EXTENDS BookSide, BookSequence

CONSTANTS
  MaxTick,      (* numeric_limits<PriceTicks>::max()                       *)
  Snapshots     (* The lists of levels a snapshot may give for a side.     *)

ASSUME MaxTickAssumption == MaxTick \in Nat /\ Ticks \subseteq -MaxTick - 1 .. MaxTick
ASSUME SnapshotsAssumption ==
  Snapshots \subseteq {list \in Seq(PriceLevel) :
    \A i, j \in DOMAIN list : list[i].price = list[j].price => i = j}

VARIABLES
  levels,                (* bids_ and asks_: [Sides -> sequence of levels] *)
  last_sequence_number,  (* last_sequence_number_, or None                 *)
  full,    (* history: every level told and not removed, 0 where none      *)
  losses   (* history, per side: None while held = full; since they first  *)
           (* differed, how many updates removed a level that was held     *)

vars == << levels, last_sequence_number, full, losses >>

(* A side as a map from its prices to their quantities, 0 where none. *)
HeldMap(side) ==
  [p \in Ticks |->
     IF p \in Prices(levels[side])
     THEN levels[side][Existing(levels[side], p)].quantity ELSE 0]

ListMap(list) ==
  [p \in Ticks |->
     IF p \in Prices(list) THEN list[Existing(list, p)].quantity ELSE 0]

Best(side) == levels[side][1]

(* Mutant: the overflow test leaves out the negative bids. *)
SpreadOneTest(bid, ask) ==
  IF bid > 0 /\ ask < -MaxTick - 1 + bid THEN None ELSE ask - bid

(* OrderBook::spread of two best prices: None where ask - bid overflows. *)
Spread(bid, ask) ==
  IF \/ bid > 0 /\ ask < -MaxTick - 1 + bid
     \/ bid < 0 /\ ask > MaxTick + bid
  THEN None ELSE ask - bid

Init ==
  /\ levels = [side \in Sides |-> << >>]
  /\ last_sequence_number = None
  /\ full = [side \in Sides |-> [p \in Ticks |-> 0]]
  /\ losses = [side \in Sides |-> None]

(* losses of a side after a step that leaves it holding heldNow of fullNow. *)
LossesAfter(before, removes, heldNow, fullNow) ==
  CASE heldNow = fullNow                   -> None
    [] heldNow # fullNow /\ before = None  -> 0
    [] heldNow # fullNow /\ before # None  -> IF removes THEN before + 1 ELSE before

(* OrderBook::apply: InvalidSide or a refused sequence changes nothing. *)
Apply(side, price, quantity, sequence) ==
  /\ side \in Sides
  /\ Verdict(last_sequence_number, sequence) = "Accepted"
  /\ levels' = [levels EXCEPT ![side] = Applied(side, @, price, quantity)]
  /\ last_sequence_number' = sequence
  /\ full' = [full EXCEPT ![side][price] = quantity]
  /\ losses' = [losses EXCEPT ![side] =
                  LossesAfter(@, quantity = 0 /\ price \in Prices(levels[side]),
                              HeldMap(side)', full'[side])]

Refuse(side, sequence) ==
  /\ side \notin Sides \/ Verdict(last_sequence_number, sequence) # "Accepted"
  /\ UNCHANGED vars

(* Mutant: the sides are not cleared before the snapshot is loaded. *)
ApplySnapshotWithoutClear(bids, asks, sequence) ==
  LET list == [side \in Sides |-> IF side = "Bid" THEN bids ELSE asks]
  IN  /\ levels' = [side \in Sides |->
                      IF list[side] = << >> THEN levels[side] ELSE Loaded(side, list[side])]
      /\ last_sequence_number' = sequence
      /\ full' = [side \in Sides |-> ListMap(list[side])]
      /\ losses' = [side \in Sides |->
                      LossesAfter(None, FALSE, HeldMap(side)', full'[side])]

ApplySnapshot(bids, asks, sequence) ==
  LET list == [side \in Sides |-> IF side = "Bid" THEN bids ELSE asks]
  IN  /\ levels' = [side \in Sides |-> Loaded(side, list[side])]
      /\ last_sequence_number' = sequence
      /\ full' = [side \in Sides |-> ListMap(list[side])]
      /\ losses' = [side \in Sides |->
                      LossesAfter(None, FALSE, HeldMap(side)', full'[side])]

Reset ==
  /\ levels' = [side \in Sides |-> << >>]
  /\ last_sequence_number' = None
  /\ full' = [side \in Sides |-> [p \in Ticks |-> 0]]
  /\ losses' = [side \in Sides |-> None]

Next ==
  \/ \E side \in Sides, price \in Ticks, quantity \in Quantities,
        sequence \in SequenceNumbers : Apply(side, price, quantity, sequence)
  \/ \E side \in Sides \cup {"Other"}, sequence \in SequenceNumbers : Refuse(side, sequence)
  \/ \E bids, asks \in Snapshots, sequence \in SequenceNumbers :
        ApplySnapshot(bids, asks, sequence)
  \/ Reset

Spec == Init /\ [][Next]_vars

-------------------------------------------------------------------------------
(* Every variable has its type. *)
TypeOK ==
  /\ levels \in [Sides -> Seq(LiveLevel)]
  /\ last_sequence_number \in SequenceNumbers \cup {None}
  /\ full \in [Sides -> [Ticks -> Quantities]]
  /\ losses \in [Sides -> Nat \cup {None}]

(***************************************************************************)
(* The scans, shifts and evictions of BookSide::apply keep each side       *)
(* within its capacity, free of empty levels and strictly best first: no   *)
(* price is ever held twice, and the front is the best of what is held.    *)
(***************************************************************************)
SidesWellFormed == \A side \in Sides : WellFormed(side, levels[side])

(***************************************************************************)
(* A level the book holds has the quantity it was last told: neither an    *)
(* eviction, nor a removal, nor a refused update leaves a level behind     *)
(* that the accepted updates have replaced or removed.                     *)
(***************************************************************************)
HeldLevelsAreCurrent ==
  \A side \in Sides : \A i \in DOMAIN levels[side] :
    full[side][levels[side][i].price] = levels[side][i].quantity

(***************************************************************************)
(* A level that apply() evicts or discards is forgotten, so the best price *)
(* may later be wrong.  Not before Depth levels have been removed since    *)
(* the side first forgot one: until then the front of the array is the     *)
(* best of everything the book was told.                                   *)
(***************************************************************************)
TopOfBookSurvivesEviction ==
  \A side \in Sides :
    (losses[side] = None \/ losses[side] < Depth) =>
      \A p \in Ticks : full[side][p] # 0 =>
        levels[side] # << >> /\ ~ IsBetter(side, p, Best(side).price)

(***************************************************************************)
(* spread() answers exactly when ask - bid is an int64, and then with that *)
(* value, for every best bid and ask the book reaches, crossed or not.     *)
(***************************************************************************)
SpreadIsExact ==
  (levels["Bid"] # << >> /\ levels["Ask"] # << >>) =>
    LET bid == Best("Bid").price
        ask == Best("Ask").price
    IN  Spread(bid, ask) = IF ask - bid \in -MaxTick - 1 .. MaxTick
                           THEN ask - bid ELSE None

(***************************************************************************)
(* The book implements BoundedBook: the array with its scans and shifts is *)
(* a map that keeps the best Depth prices, and a snapshot loaded level by  *)
(* level leaves the best Depth of its levels whatever their order.         *)
(***************************************************************************)
Promise == INSTANCE BoundedBook
             WITH held <- [side \in Sides |-> HeldMap(side)],
                  last <- last_sequence_number

ImplementsBoundedBook == Promise!Spec
===============================================================================
