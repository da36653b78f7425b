-------------------------- MODULE MCTargetAlignment ---------------------------
(* Values for TargetAlignment's constants: up to three samples in order, over *)
(* every timestamp, and a pair out of order; references without a price, with *)
(* a midpoint only and with both; horizons valid, zero and repeated.          *)
EXTENDS TargetAlignment, SequencesExt

MCNoReference == [venues |-> 0, price |-> [kind \in PriceKinds |-> None]]
MCMidOnly == [venues |-> 1, price |-> [mid |-> 2, microprice |-> None]]
MCBoth == [venues |-> 1, price |-> [kind \in PriceKinds |-> 1]]

MCReferences == {MCNoReference, MCMidOnly, MCBoth}

MCRows == [time : Timestamps, reference : MCReferences, targets : {<< >>}]

MCSampleLists ==
  {rows \in UNION {[1 .. n -> MCRows] : n \in 0 .. 3} : Ordered(rows)}
    \cup {rows \in [1 .. 2 -> MCRows] : rows[1].time = 2}

MCHorizonLists == { << >>, << 1 >>, << 3, 1 >>, << 1, 0 >>, << 2, 2 >> }

MCDelays == {1, MaxTimestamp}
===============================================================================
