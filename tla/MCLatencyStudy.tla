---------------------------- MODULE MCLatencyStudy ----------------------------
(* Values for LatencyStudy's constants: five samples in order over every      *)
(* timestamp, of which up to two have no price; the others have each its own, *)
(* by which a return tells the rows it is between.                            *)
EXTENDS LatencyStudy

MCReference(price) == [venues |-> 1, price |-> [kind \in PriceKinds |-> price]]
MCNoReference == [venues |-> 0, price |-> [kind \in PriceKinds |-> None]]
MCReferences == {MCNoReference} \cup {MCReference(2 ^ i) : i \in 1 .. 5}

MCTimes == {times \in [1 .. 5 -> Timestamps] : \A i \in 2 .. 5 : times[i - 1] <= times[i]}
MCMissing == {missing \in SUBSET (1 .. 5) : Cardinality(missing) <= 2}

MCSampleLists ==
  {[i \in 1 .. 5 |->
      [time |-> times[i], targets |-> << >>,
       reference |-> IF i \in missing THEN MCNoReference ELSE MCReference(2 ^ i)]] :
   times \in MCTimes, missing \in MCMissing}

MCHorizonLists == { << 1 >>, << 2, 1 >> }
MCDelays == {1, MaxTimestamp}
MCFractions == { << 70, 15 >>, << 40, 30 >> }
MCDecisionDelays == {0, 1, 2}
MCObservationDelays == {1, MaxTimestamp}
===============================================================================
