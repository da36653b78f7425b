--------------------------- MODULE TargetAlignment ----------------------------
(***************************************************************************)
(* align_future_targets of cpp/src/research_sampler.cpp: each sample gets, *)
(* for each horizon, the first later sample that is at least the horizon   *)
(* away and has a reference price.  Two indices walk the samples, the      *)
(* second never back, so the search for one sample begins where that for   *)
(* the one before it ended.  validate_temporal_invariants then checks the  *)
(* rows that are left.                                                     *)
(*                                                                         *)
(* A sample is its timestamp, its reference prices, of any venues that are *)
(* valid, and its targets.  Prices are integers here and doubles in the    *)
(* code, whose rounding is left out.                                       *)
(***************************************************************************)
EXTENDS Optional, Sequences, FiniteSets

CONSTANTS
  MaxTimestamp,   (* numeric_limits<TimestampNs>::max()                    *)
  References,     (* The references a sample may have.                     *)
  SampleLists,    (* The lists of samples to align: of any order.          *)
  HorizonLists,   (* The lists of horizons_ns.                             *)
  Delays          (* The values of max_target_delay_ns.                    *)

Timestamps == 0 .. MaxTimestamp
PriceKinds == {"mid", "microprice"}
Policies == {"KeepUndefined", "DiscardRow"}

(* ConsolidatedReference: valid_venue_count, and the prices or None. *)
Reference == [venues : Nat, price : [PriceKinds -> Int \cup {None}]]

(* FutureFairValueTarget; a direction is the sign of its return. *)
Target ==
  [timestamp : Timestamps \cup {None}, delay : Timestamps \cup {None},
   future : [PriceKinds -> Int \cup {None}], return : [PriceKinds -> Int \cup {None}]]

Undefined == [timestamp |-> None, delay |-> None,
              future |-> [kind \in PriceKinds |-> None], return |-> [kind \in PriceKinds |-> None]]

Row == [time : Timestamps, reference : References, targets : Seq(Target)]

ASSUME MaxTimestampAssumption == MaxTimestamp \in Nat
ASSUME ReferencesAssumption == References \subseteq Reference
ASSUME SampleListsAssumption ==
  SampleLists \subseteq Seq([time : Timestamps, reference : References, targets : {<< >>}])
ASSUME HorizonListsAssumption == HorizonLists \subseteq Seq(Timestamps)
ASSUME DelaysAssumption == Delays \subseteq Timestamps

VARIABLES
  samples,        (* the rows                                              *)
  horizons,       (* horizons_ns                                           *)
  max_delay,      (* max_target_delay_ns                                   *)
  policy,         (* missing_target_policy                                 *)
  horizon_index, sample_index, target_index,  (* of the loops, from 1      *)
  phase,          (* how far the call is: see the actions                  *)
  given           (* history: the samples as they were handed in           *)

vars == << samples, horizons, max_delay, policy,
           horizon_index, sample_index, target_index, phase, given >>

Init ==
  /\ samples \in SampleLists
  /\ horizons \in HorizonLists
  /\ max_delay \in Delays
  /\ policy \in Policies
  /\ horizon_index = 1 /\ sample_index = 1 /\ target_index = 1
  /\ phase = "called"
  /\ given = samples

-------------------------------------------------------------------------------
Ordered(rows) == \A i \in 2 .. Len(rows) : rows[i - 1].time <= rows[i].time

ValidHorizons(list) ==
  /\ \A i \in DOMAIN list : list[i] # 0
  /\ \A i, j \in DOMAIN list : list[i] = list[j] => i = j

(* invalid_argument is thrown before any row is touched. *)
Reject ==
  /\ phase = "called"
  /\ ~ (Ordered(samples) /\ ValidHorizons(horizons))
  /\ phase' = "rejected"
  /\ UNCHANGED << samples, horizons, max_delay, policy, horizon_index, sample_index,
                  target_index, given >>

(* Every row gets an undefined target for each horizon. *)
Begin ==
  /\ phase = "called"
  /\ Ordered(samples) /\ ValidHorizons(horizons)
  /\ samples' = [i \in DOMAIN samples |->
                   [samples[i] EXCEPT !.targets = [h \in DOMAIN horizons |-> Undefined]]]
  /\ phase' = "aligning"
  /\ UNCHANGED << horizons, max_delay, policy, horizon_index, sample_index, target_index, given >>

(* The samples the inner loop does not pass over. *)
Usable(row) ==
  /\ row.reference.venues # 0
  /\ \E kind \in PriceKinds : row.reference.price[kind] # None

Meets(row, threshold) == row.time >= threshold /\ Usable(row)

(* The index the inner loop stops at, one past the last if nowhere. *)
SearchFrom(first, threshold) ==
  CHOOSE j \in first .. Len(samples) + 1 :
    /\ j <= Len(samples) => Meets(samples[j], threshold)
    /\ \A k \in first .. j - 1 : ~ Meets(samples[k], threshold)

(* Where the search for this sample begins: never at itself or before. *)
First == IF target_index <= sample_index THEN sample_index + 1 ELSE target_index

Difference(future, current) ==
  [kind \in PriceKinds |-> IF future[kind] # None /\ current[kind] # None
                           THEN future[kind] - current[kind] ELSE None]

(* Mutant: the delay is subtracted the wrong way round. *)
TargetSubtractedBackwards(row, future, threshold) ==
  [timestamp |-> future.time, delay |-> threshold - future.time,
   future |-> future.reference.price,
   return |-> Difference(future.reference.price, row.reference.price)]

(* The target that a row gets of a future row. *)
TargetOf(row, future, threshold) ==
  [timestamp |-> future.time, delay |-> future.time - threshold,
   future |-> future.reference.price,
   return |-> Difference(future.reference.price, row.reference.price)]

(* Mutant: the threshold is not tested for overflow, and wraps. *)
OverflowsNever(time, horizon) == FALSE

Overflows(time, horizon) == time > MaxTimestamp - horizon

Aligning == phase = "aligning" /\ horizon_index <= Len(horizons) /\ sample_index <= Len(samples)

Horizon == horizons[horizon_index]

(* The sum of two uint64. *)
Threshold ==
  LET sum == samples[sample_index].time + Horizon
  IN  IF sum > MaxTimestamp THEN sum - (MaxTimestamp + 1) ELSE sum

(* An iteration over a sample whose threshold is past the end of time. *)
SkipOverflow ==
  /\ Aligning
  /\ Overflows(samples[sample_index].time, Horizon)
  /\ sample_index' = sample_index + 1
  /\ UNCHANGED << samples, horizons, max_delay, policy, horizon_index, target_index, phase, given >>

(* One that finds no target, or one that comes too late. *)
FindNone ==
  LET found == SearchFrom(First, Threshold)
  IN  /\ Aligning
      /\ ~ Overflows(samples[sample_index].time, Horizon)
      /\ found <= Len(samples) => samples[found].time - Threshold > max_delay
      /\ target_index' = found
      /\ sample_index' = sample_index + 1
      /\ UNCHANGED << samples, horizons, max_delay, policy, horizon_index, phase, given >>

(* One that finds a target. *)
FindTarget ==
  LET found == SearchFrom(First, Threshold)
  IN  /\ Aligning
      /\ ~ Overflows(samples[sample_index].time, Horizon)
      /\ found <= Len(samples)
      /\ samples[found].time - Threshold <= max_delay
      /\ samples' = [samples EXCEPT ![sample_index].targets[horizon_index] =
                       TargetOf(samples[sample_index], samples[found], Threshold)]
      /\ target_index' = found
      /\ sample_index' = sample_index + 1
      /\ UNCHANGED << horizons, max_delay, policy, horizon_index, phase, given >>

(* Mutant: the second index is not set back for the next horizon. *)
NextHorizonWithoutRestart ==
  /\ phase = "aligning" /\ horizon_index <= Len(horizons) /\ sample_index > Len(samples)
  /\ horizon_index' = horizon_index + 1
  /\ sample_index' = 1
  /\ UNCHANGED << samples, horizons, max_delay, policy, target_index, phase, given >>

NextHorizon ==
  /\ phase = "aligning" /\ horizon_index <= Len(horizons) /\ sample_index > Len(samples)
  /\ horizon_index' = horizon_index + 1
  /\ sample_index' = 1
  /\ target_index' = 1
  /\ UNCHANGED << samples, horizons, max_delay, policy, phase, given >>

(* Mutant: a row is kept for one target that it has. *)
CompleteAtAnyHorizon(row) ==
  row.targets # << >> => \E h \in DOMAIN row.targets : row.targets[h].timestamp # None

(* The rows that DiscardRow leaves. *)
Complete(row) == \A h \in DOMAIN row.targets : row.targets[h].timestamp # None

Kept(missing, rows) ==
  LET kept[n \in 0 .. Len(rows)] ==
        IF n = 0 THEN << >>
        ELSE IF missing = "KeepUndefined" \/ Complete(rows[n]) THEN Append(kept[n - 1], rows[n])
        ELSE kept[n - 1]
  IN  kept[Len(rows)]

Finish ==
  /\ phase = "aligning" /\ horizon_index > Len(horizons)
  /\ samples' = Kept(policy, samples)
  /\ phase' = "aligned"
  /\ UNCHANGED << horizons, max_delay, policy, horizon_index, sample_index, target_index, given >>

(* What validate_temporal_invariants asks of a target. *)
ValidTarget(row, horizon, target) ==
  IF target.timestamp = None THEN target = Undefined
  ELSE /\ row.time <= MaxTimestamp - horizon
       /\ target.timestamp >= row.time + horizon
       /\ target.delay = target.timestamp - (row.time + horizon)
       /\ \E kind \in PriceKinds : target.future[kind] # None
       /\ target.return = Difference(target.future, row.reference.price)

(* Of the rows, their order and their targets; the receipt times of the venues it  *)
(* asks for as well are SamplesAreValid of ResearchSampler.                         *)
Valid(rows) ==
  /\ Ordered(rows)
  /\ \A i \in DOMAIN rows : \A h \in DOMAIN rows[i].targets :
       horizons[h] # 0 /\ ValidTarget(rows[i], horizons[h], rows[i].targets[h])

(* generate_research_dataset_csv throws if the rows are not valid. *)
Validate ==
  /\ phase = "aligned"
  /\ phase' = IF Valid(samples) THEN "written" ELSE "invalid"
  /\ UNCHANGED << samples, horizons, max_delay, policy, horizon_index, sample_index,
                  target_index, given >>

Next ==
  \/ Reject \/ Begin
  \/ SkipOverflow \/ FindNone \/ FindTarget \/ NextHorizon
  \/ Finish \/ Validate

Spec == Init /\ [][Next]_vars

-------------------------------------------------------------------------------
(* Every variable has its type. *)
TypeOK ==
  /\ samples \in Seq(Row)
  /\ horizons \in Seq(Timestamps)
  /\ max_delay \in Timestamps
  /\ policy \in Policies
  /\ horizon_index \in 1 .. Len(horizons) + 1
  /\ sample_index \in 1 .. Len(given) + 1
  /\ target_index \in 1 .. Len(given) + 1
  /\ phase \in {"called", "aligning", "aligned", "written", "invalid", "rejected"}
  /\ given \in SampleLists

(* By definition, with no second index: the target of row i at a horizon. *)
Candidates(rows, i, horizon) ==
  {j \in i + 1 .. Len(rows) : Meets(rows[j], rows[i].time + horizon)}

TargetByDefinition(rows, i, horizon, most) ==
  LET candidates == Candidates(rows, i, horizon)
      first == CHOOSE j \in candidates : \A k \in candidates : j <= k
  IN  IF candidates = {} \/ rows[first].time - (rows[i].time + horizon) > most
      THEN Undefined
      ELSE TargetOf(rows[i], rows[first], rows[i].time + horizon)

AlignedByDefinition(rows, list, most) ==
  [i \in DOMAIN rows |->
     [rows[i] EXCEPT !.targets = [h \in DOMAIN list |->
                                    TargetByDefinition(rows, i, list[h], most)]]]

(***************************************************************************)
(* Though the second index only moves forward and skips the samples that   *)
(* have no reference, each row ends with the target that a search of all   *)
(* later samples gives it, at each horizon.                                *)
(***************************************************************************)
TargetsAreExact ==
  (phase = "aligning" /\ horizon_index > Len(horizons)) =>
    samples = AlignedByDefinition(given, horizons, max_delay)

(***************************************************************************)
(* DiscardRow drops the rows that miss a target at some horizon, and no    *)
(* other: each row that stays comes right after those before it that stay. *)
(***************************************************************************)
RowsAreDiscardedExactly ==
  phase \in {"aligned", "written", "invalid"} =>
    LET aligned == AlignedByDefinition(given, horizons, max_delay)
        stays == {i \in DOMAIN aligned :
                    \/ policy = "KeepUndefined"
                    \/ \A h \in DOMAIN horizons : aligned[i].targets[h] # Undefined}
    IN  /\ Len(samples) = Cardinality(stays)
        /\ \A i \in stays : samples[Cardinality({j \in stays : j <= i})] = aligned[i]

(***************************************************************************)
(* The check at the end of generate_research_dataset_csv never fails on    *)
(* rows that were aligned, up to the last representable timestamp.         *)
(***************************************************************************)
AlignedRowsAreValid == phase # "invalid"
===============================================================================
