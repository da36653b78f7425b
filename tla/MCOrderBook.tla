----------------------------- MODULE MCOrderBook ------------------------------
(* Values for OrderBook's constants: prices of two bits, so that ask - bid    *)
(* can overflow, and snapshots longer than a side, in any order.              *)
EXTENDS OrderBook

MCTicks == -2 .. 1
MCQuantities == 0 .. 2

At(price, quantity) == [price |-> price, quantity |-> quantity]

MCSnapshots ==
  { << >>,
    << At(1, 1), At(-1, 0), At(-2, 2) >>,
    << At(-2, 1), At(1, 2), At(0, 1) >> }
===============================================================================
