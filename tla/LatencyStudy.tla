----------------------------- MODULE LatencyStudy -----------------------------
(***************************************************************************)
(* evaluate_latency() of src/fairvaluelab/latency.py: the split dataset is *)
(* evaluated for decisions made some time after a row's sample.  Its       *)
(* targets do not serve any more: align_delayed_returns() searches the     *)
(* rows anew, from the last price known at the decision to the first one   *)
(* known a horizon later, and the rows to fit are masked once more.        *)
(*                                                                         *)
(* The pairs of a horizon and a delay are evaluated one by one and have    *)
(* nothing to do with each other; any of them may be the one looked at.    *)
(***************************************************************************)
EXTENDS ChronologicalSplit, FiniteSetsExt

CONSTANTS
  DecisionDelays,     (* delays_ns                                         *)
  ObservationDelays   (* The values of max_observation_delay_ns.           *)

ASSUME DecisionDelaysAssumption == DecisionDelays \subseteq Nat
ASSUME ObservationDelaysAssumption == ObservationDelays \subseteq Nat

(***************************************************************************)
(* consolidated_reference() counts a mid for the very venues that it       *)
(* counts a microprice for: a book with both sides has both prices, since  *)
(* no level has quantity zero.                                             *)
(***************************************************************************)
ASSUME MidsAssumption ==
  \A reference \in References :
    reference.price["mid"] # None <=>
      /\ reference.venues # 0
      /\ \E kind \in PriceKinds : reference.price[kind] # None

(* The return that a row has not is none that a row has. *)
ASSUME NoReturnAssumption == None \notin [anchor : Nat, target : Nat]

VARIABLES
  horizon, decision_delay, max_observation,  (* of the pair evaluated      *)
  returns,        (* each row's return: the rows it is between, or None    *)
  fitted, tested  (* train_mask and test_mask                              *)

latency_vars == << horizon, decision_delay, max_observation, returns, fitted, tested >>

LatencyInit ==
  /\ SplitInit
  /\ horizon = None /\ decision_delay = None /\ max_observation = None
  /\ returns = << >>
  /\ fitted = {} /\ tested = {}

-------------------------------------------------------------------------------
Mid(i) == samples[i].reference.price["mid"]
ValidPositions == {i \in DOMAIN samples : Mid(i) # None}

(* Mutant: the search for the last price known leaves out those of the very time. *)
KnownBefore(time) == {i \in ValidPositions : samples[i].time < time}

(* The rows with a price known at a time, and those with one from then on. *)
KnownAt(time) == {i \in ValidPositions : samples[i].time <= time}
KnownFrom(time) == {i \in ValidPositions : samples[i].time >= time}

(* align_delayed_returns() of a row *)
DelayedReturn(i, ahead, delay, most) ==
  LET decision == samples[i].time + delay
      known == KnownAt(decision)
      later == KnownFrom(decision + ahead)
  IN  IF \/ known = {} \/ later = {}
         \/ decision - samples[Max(known)].time > most
         \/ samples[Min(later)].time - (decision + ahead) > most
      THEN None
      ELSE [anchor |-> Max(known), target |-> Min(later)]

(* Mutant: the split is relied on, whose targets are others. *)
FittedAsSplit(found) == {i \in train \cup validation : found[i] # None}

(* train_mask *)
Fitted(found) ==
  {i \in train \cup validation : found[i] # None /\ samples[found[i].target].time < test_start}

(* test_mask *)
Tested(found) == {i \in test : found[i] # None}

(* An evaluation of a pair; one that leaves no rows is an error. *)
Evaluate ==
  /\ study = "split"
  /\ \E h \in DOMAIN horizons, delay \in DecisionDelays, most \in ObservationDelays :
       LET found == [i \in DOMAIN samples |-> DelayedReturn(i, horizons[h], delay, most)]
           usable == Fitted(found) # {} /\ Tested(found) # {}
       IN  /\ horizon' = h /\ decision_delay' = delay /\ max_observation' = most
           /\ returns' = found
           /\ fitted' = IF usable THEN Fitted(found) ELSE {}
           /\ tested' = IF usable THEN Tested(found) ELSE {}
           /\ study' = IF usable THEN "evaluated" ELSE "refused"
  /\ UNCHANGED << fractions, train, validation, test, validation_start, test_start >>

LatencyNext ==
  \/ Next /\ UNCHANGED << split_vars, latency_vars >>
  \/ (Load \/ Split \/ RefuseSplit) /\ UNCHANGED << vars, latency_vars >>
  \/ Evaluate /\ UNCHANGED vars

LatencySpec == LatencyInit /\ [][LatencyNext]_<< vars, split_vars, latency_vars >>

-------------------------------------------------------------------------------
(* Every variable has its type. *)
LatencyTypeOK ==
  /\ SplitTypeOK
  /\ horizon \in Nat \cup {None}
  /\ decision_delay \in DecisionDelays \cup {None}
  /\ max_observation \in ObservationDelays \cup {None}
  /\ \A i \in DOMAIN returns : returns[i] # None =>
       {returns[i].anchor, returns[i].target} \subseteq DOMAIN samples
  /\ fitted \subseteq train \cup validation /\ tested \subseteq test

(***************************************************************************)
(* With the targets moved by the delay, a model still is fitted to nothing *)
(* that is seen in the test: the two prices of a return that is fitted are *)
(* of rows earlier than every row tested, whatever the delay, the horizon  *)
(* and the rows without a price.                                           *)
(***************************************************************************)
DelayedReturnsDoNotLeak ==
  \A i \in fitted, j \in test :
    /\ samples[returns[i].anchor].time < samples[j].time
    /\ samples[returns[i].target].time < samples[j].time

(***************************************************************************)
(* With no delay and the same bound, the search in Python finds the        *)
(* targets that the C++ aligner has found with its two indices: for the    *)
(* same rows, at the same times, and from the same price to the same       *)
(* price.  Only where a later row of the sample's own time has a price is  *)
(* the return reckoned from that.                                          *)
(***************************************************************************)
UndelayedTargetsAgree ==
  (returns # << >> /\ decision_delay = 0 /\ max_observation = max_delay
     /\ policy = "KeepUndefined") =>
    \A i \in ValidPositions :
      LET target == samples[i].targets[horizon]
      IN  IF returns[i] = None THEN target.timestamp = None
          ELSE /\ target.timestamp = samples[returns[i].target].time
               /\ \/ target.return["mid"] = Mid(returns[i].target) - Mid(returns[i].anchor)
                  \/ returns[i].anchor > i /\ samples[returns[i].anchor].time = samples[i].time
===============================================================================
