-------------------------- MODULE ChronologicalSplit --------------------------
(***************************************************************************)
(* The rows that align_future_targets leaves are written as a dataset,     *)
(* which src/fairvaluelab/dataset.py loads and validates and               *)
(* chronological_split() of src/fairvaluelab/baseline.py divides in time:  *)
(* rows to train on, to validate with and to test on, less those whose     *)
(* targets reach into the next part.                                       *)
(*                                                                         *)
(* A part is the set of its rows' positions.  A column of targets is a     *)
(* horizon of TargetAlignment.  The venues' receipt times, which           *)
(* validate_dataset() checks too, are left out with the features.          *)
(***************************************************************************)
EXTENDS TargetAlignment, FiniteSets

CONSTANT Fractions  (* Pairs of train_fraction and validation_fraction, in percent. *)

ASSUME FractionsAssumption == \A f \in Fractions : f \in (1 .. 99) \X (1 .. 99) /\ f[1] + f[2] < 100

VARIABLES
  fractions,          (* the pair of the call                              *)
  study,              (* "waiting", "loaded", "split", "evaluated", "refused" *)
  train, validation, test,       (* the parts, once split                  *)
  validation_start, test_start   (* their boundaries                       *)

split_vars == << fractions, study, train, validation, test, validation_start, test_start >>

SplitInit ==
  /\ Init
  /\ fractions \in Fractions
  /\ study = "waiting"
  /\ train = {} /\ validation = {} /\ test = {}
  /\ validation_start = None /\ test_start = None

-------------------------------------------------------------------------------
(* Mutant: two rows of one time are out of order. *)
LoadableIncreasing(rows) ==
  /\ rows # << >>
  /\ \A i \in 2 .. Len(rows) : rows[i - 1].time < rows[i].time

(* validate_dataset() passes: integers do not overflow here. *)
Loadable(rows) ==
  /\ rows # << >>
  /\ Ordered(rows)
  /\ \A i \in DOMAIN rows : \A h \in DOMAIN rows[i].targets :
       LET target == rows[i].targets[h]
           threshold == rows[i].time + horizons[h]
       IN  IF target.timestamp = None THEN target.delay = None
           ELSE target.timestamp >= threshold /\ target.delay = target.timestamp - threshold

(* load_dataset() of the file that was written *)
Load ==
  /\ phase = "written" /\ study = "waiting"
  /\ study' = IF Loadable(samples) THEN "loaded" ELSE "refused"
  /\ UNCHANGED << fractions, train, validation, test, validation_start, test_start >>

(* Positions in the dataset, from 1 and not from 0 as train_index and test_index. *)
AtLeast(bound, n) == IF n < bound THEN bound ELSE n
AtMost(bound, n) == IF n > bound THEN bound ELSE n

TrainIndex ==
  LET rows == Len(samples) IN AtLeast(1, AtMost(rows - 2, (rows * fractions[1]) \div 100)) + 1
TestIndex ==
  LET rows == Len(samples)
  IN  AtLeast(TrainIndex, AtMost(rows - 1, (rows * (fractions[1] + fractions[2])) \div 100)) + 1

ValidationStart == samples[TrainIndex].time
TestStart == samples[TestIndex].time

(* The rows from one time until another. *)
RowsIn(from, until) == {i \in DOMAIN samples : from <= samples[i].time /\ samples[i].time < until}

(* Mutant: a target may be the very first of the next part. *)
UntilTargetBoundary(rows, boundary) ==
  {i \in rows : \A h \in DOMAIN horizons :
     samples[i].targets[h].timestamp # None => samples[i].targets[h].timestamp <= boundary}

(* _before_target_boundary() *)
BeforeTargetBoundary(rows, boundary) ==
  {i \in rows : \A h \in DOMAIN horizons :
     samples[i].targets[h].timestamp # None => samples[i].targets[h].timestamp < boundary}

Train == BeforeTargetBoundary(RowsIn(0, ValidationStart), ValidationStart)
Validation == BeforeTargetBoundary(RowsIn(ValidationStart, TestStart), TestStart)
Test == RowsIn(TestStart, MaxTimestamp + 1)

(* Mutant: that purging empties a part is not noticed. *)
DividesUnchecked ==
  /\ Len(samples) >= 3
  /\ horizons # << >>
  /\ ValidationStart < TestStart

(* None of the errors is raised. *)
Divides ==
  /\ Len(samples) >= 3
  /\ horizons # << >>
  /\ ValidationStart < TestStart
  /\ Train # {} /\ Validation # {} /\ Test # {}

(* chronological_split() *)
Split ==
  /\ study = "loaded" /\ Divides
  /\ study' = "split"
  /\ train' = Train /\ validation' = Validation /\ test' = Test
  /\ validation_start' = ValidationStart /\ test_start' = TestStart
  /\ UNCHANGED fractions

RefuseSplit ==
  /\ study = "loaded" /\ ~ Divides
  /\ study' = "refused"
  /\ UNCHANGED << fractions, train, validation, test, validation_start, test_start >>

-------------------------------------------------------------------------------
Divided == study \in {"split", "evaluated"}

(* Every variable has its type; once split, every part has rows. *)
SplitTypeOK ==
  /\ fractions \in Fractions
  /\ study \in {"waiting", "loaded", "split", "evaluated", "refused"}
  /\ {train, validation, test} \subseteq SUBSET DOMAIN samples
  /\ validation_start \in Timestamps \cup {None} /\ test_start \in Timestamps \cup {None}
  /\ Divided => {} \notin {train, validation, test}

(***************************************************************************)
(* What the C++ writer lets pass, its own checks having been made in       *)
(* 64-bit numbers, the Python loader accepts: it refuses no dataset but    *)
(* one whose rows were all discarded, and splitting is tried on the rest.  *)
(***************************************************************************)
WrittenDatasetsLoad ==
  (phase = "written" /\ study # "waiting" /\ ~ Loadable(samples)) => samples = << >>

(***************************************************************************)
(* Nothing that a model is fitted to happens when it is tested, or later:  *)
(* every row of a part is earlier than every row of the next, rows of one  *)
(* time being in one part, and so are its targets at every horizon.        *)
(***************************************************************************)
NoTargetCrossesTheSplit ==
  /\ \A i \in train, j \in validation :
       /\ samples[i].time < samples[j].time
       /\ \A h \in DOMAIN horizons : samples[i].targets[h].timestamp # None =>
            samples[i].targets[h].timestamp < samples[j].time
  /\ \A i \in train \cup validation, j \in test :
       /\ samples[i].time < samples[j].time
       /\ \A h \in DOMAIN horizons : samples[i].targets[h].timestamp # None =>
            samples[i].targets[h].timestamp < samples[j].time
===============================================================================
