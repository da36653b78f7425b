-------------------------- MODULE LatencyStudyProofs --------------------------
(***************************************************************************)
(* Proofs about ChronologicalSplit and LatencyStudy, for datasets of any   *)
(* length and any fractions, horizons and delays: what the C++ writer lets *)
(* pass the Python loader accepts, and nothing a model is fitted to is of  *)
(* the time it is tested in, neither by the dataset's targets nor by those *)
(* of the latency study.                                                   *)
(*                                                                         *)
(* The alignment's invariant gives the rows, which do not change once they *)
(* are written.  The split's invariant is that its parts keep to their     *)
(* boundaries and stay empty until then.                                   *)
(***************************************************************************)
EXTENDS LatencyStudy, TargetAlignmentProofs

study_vars == << vars, split_vars, latency_vars >>

(* The study looks on at the alignment and takes no part in it. *)
LEMMA StudyAligns == LatencySpec => Spec
<1>1. LatencyInit => Init
  BY DEF LatencyInit, SplitInit
<1>2. [LatencyNext]_study_vars => [Next]_vars
  BY DEF LatencyNext, study_vars, Evaluate
<1> QED BY <1>1, <1>2, PTL DEF LatencySpec, Spec, study_vars

(* A nonempty set of positions has a first and a last. *)
LEMMA FirstAndLast ==
  ASSUME NEW n \in Nat, NEW S \in SUBSET (1 .. n), S # {}
  PROVE  /\ Max(S) \in S /\ \A x \in S : x <= Max(S)
         /\ Min(S) \in S /\ \A x \in S : Min(S) <= x
<1>1. \E x \in S : \A y \in S : x <= y
  <2>1. S \in SUBSET Nat
    OBVIOUS
  <2> QED BY <2>1, LeastNatural
<1>2. \E x \in S : \A y \in S : x >= y
  <2> DEFINE T == {n - x : x \in S}
  <2>1. T \in SUBSET Nat /\ T # {}
    <3>1. \A x \in S : n - x \in Nat
      OBVIOUS
    <3>2. PICK x \in S : TRUE
      OBVIOUS
    <3> QED BY <3>1, <3>2
  <2> HIDE DEF T
  <2>2. PICK t \in T : \A u \in T : t <= u
    BY <2>1, LeastNatural
  <2>3. PICK x \in S : t = n - x
    BY DEF T
  <2>4. \A y \in S : n - x <= n - y
    BY <2>2, <2>3 DEF T
  <2> QED BY <2>4
<1> QED BY <1>1, <1>2 DEF Max, Min

-------------------------------------------------------------------------------
(* The rows as they are written. *)
DatasetRow ==
  {row \in Row : /\ DOMAIN row.targets = DOMAIN horizons
                 /\ \A h \in DOMAIN horizons :
                      horizons[h] # 0 /\ ValidTarget(row, horizons[h], row.targets[h])}

Dataset ==
  /\ samples \in Seq(DatasetRow) /\ Ordered(samples)
  /\ horizons \in Seq(Timestamps)

LEMMA WrittenRows == Inv /\ phase = "written" => Dataset
<1> SUFFICES ASSUME Inv, phase = "written"
             PROVE  Dataset
  OBVIOUS
<1> DEFINE rows == AlignedByDefinition(given, horizons, max_delay)
<1>1. /\ Shape /\ Ordered(given) /\ ValidHorizons(horizons)
      /\ samples = Kept(policy, rows)
  BY DEF Inv, Phases
<1>2. rows \in Seq(DatasetRow) /\ Ordered(rows)
  <2> HIDE DEF rows
  <2> QED BY <1>1, DefinedRows DEF rows, DatasetRow
<1>3. \A row \in DatasetRow : row.time \in Nat
  BY MaxTimestampAssumption DEF DatasetRow, Row, Timestamps
<1>4. Kept(policy, rows) \in Seq(DatasetRow) /\ Ordered(Kept(policy, rows))
  <2> HIDE DEF rows
  <2> QED BY <1>2, <1>3, KeptRows
<1>5. horizons \in Seq(Timestamps)
  BY <1>1, GivenRows
<1> QED BY <1>1, <1>4, <1>5 DEF Dataset

(* What there is to know of them: times are numbers, and so are targets. *)
LEMMA DatasetNumbers ==
  ASSUME Dataset
  PROVE  /\ Len(samples) \in Nat /\ DOMAIN samples = 1 .. Len(samples)
         /\ \A i \in DOMAIN samples :
              /\ samples[i].time \in Nat /\ samples[i].time <= MaxTimestamp
              /\ \A h \in DOMAIN horizons :
                   samples[i].targets[h].timestamp \in Nat \cup {None}
         /\ \A h \in DOMAIN horizons : horizons[h] \in Nat
<1>1. Len(samples) \in Nat /\ DOMAIN samples = 1 .. Len(samples)
  BY DEF Dataset
<1>2. Timestamps \subseteq Nat /\ \A t \in Timestamps : t <= MaxTimestamp
  BY MaxTimestampAssumption DEF Timestamps
<1>3. ASSUME NEW i \in DOMAIN samples
      PROVE  /\ samples[i].time \in Timestamps
             /\ \A h \in DOMAIN horizons : samples[i].targets[h].timestamp \in Timestamps \cup {None}
  <2>1. samples[i] \in DatasetRow
    BY <1>3 DEF Dataset
  <2>2. /\ samples[i].time \in Timestamps /\ samples[i].targets \in Seq(Target)
        /\ DOMAIN samples[i].targets = DOMAIN horizons
    BY <2>1 DEF DatasetRow, Row
  <2>3. \A h \in DOMAIN horizons : samples[i].targets[h] \in Target
    BY <2>2
  <2> QED BY <2>2, <2>3 DEF Target
<1>4. \A h \in DOMAIN horizons : horizons[h] \in Timestamps
  BY DEF Dataset
<1> QED BY <1>1, <1>2, <1>3, <1>4

(* The loader's checks, in numbers without a bound, pass. *)
LEMMA DatasetLoads ==
  ASSUME Dataset, samples # << >>
  PROVE  Loadable(samples)
<1> SUFFICES ASSUME NEW i \in DOMAIN samples, NEW h \in DOMAIN samples[i].targets
             PROVE  LET target == samples[i].targets[h]
                        threshold == samples[i].time + horizons[h]
                    IN  IF target.timestamp = None THEN target.delay = None
                        ELSE target.timestamp >= threshold /\ target.delay = target.timestamp - threshold
  BY DEF Loadable, Dataset
<1>1. samples[i] \in DatasetRow
  BY DEF Dataset
<1>2. ValidTarget(samples[i], horizons[h], samples[i].targets[h])
  BY <1>1 DEF DatasetRow
<1> QED BY <1>2 DEF ValidTarget, Undefined

-------------------------------------------------------------------------------
(* The boundaries are times of rows, in any dataset of three rows or more. *)
LEMMA BoundariesAreTimes ==
  ASSUME Dataset, fractions \in Fractions, Len(samples) >= 3
  PROVE  ValidationStart \in Timestamps /\ TestStart \in Timestamps
<1>1. /\ Len(samples) \in Nat /\ DOMAIN samples = 1 .. Len(samples)
      /\ \A i \in DOMAIN samples : samples[i].time \in Timestamps
  BY DatasetNumbers, MaxTimestampAssumption DEF Timestamps
<1>2. fractions[1] \in 1 .. 99 /\ fractions[2] \in 1 .. 99
  BY FractionsAssumption
<1> DEFINE a == (Len(samples) * fractions[1]) \div 100
           b == (Len(samples) * (fractions[1] + fractions[2])) \div 100
<1>3. a \in Int /\ b \in Int
  <2>1. \A n \in Nat, f \in Nat : (n * f) \div 100 \in Int
    <3>1. \A n \in Nat, f \in Nat : n * f \in Nat
      OBVIOUS
    <3>2. \A x \in Nat : x \div 100 \in Int
      OBVIOUS
    <3> QED BY <3>1, <3>2
  <2>2. fractions[1] \in Nat /\ fractions[1] + fractions[2] \in Nat
    <3>1. \A x, y \in 1 .. 99 : x \in Nat /\ x + y \in Nat
      OBVIOUS
    <3> QED BY <1>2, <3>1, Zenon
  <2> QED BY <1>1, <2>1, <2>2, Zenon
<1>4. TrainIndex = AtLeast(1, AtMost(Len(samples) - 2, a)) + 1
      /\ TestIndex = AtLeast(TrainIndex, AtMost(Len(samples) - 1, b)) + 1
  BY DEF TrainIndex, TestIndex
<1> HIDE DEF a, b
<1>5. \A n, x \in Int : AtMost(n, x) \in Int /\ AtMost(n, x) <= n
  BY DEF AtMost
<1>6. \A n, x \in Int : AtLeast(n, x) \in Int /\ n <= AtLeast(n, x)
                      /\ (AtLeast(n, x) = n \/ AtLeast(n, x) = x)
  BY DEF AtLeast
<1>7. TrainIndex \in 2 .. Len(samples) - 1
  <2> DEFINE m == AtMost(Len(samples) - 2, a)
  <2>1. m \in Int /\ m <= Len(samples) - 2
    <3>1. Len(samples) - 2 \in Int
      BY <1>1
    <3> QED BY <1>3, <1>5, <3>1, Zenon
  <2> HIDE DEF m
  <2>2. /\ AtLeast(1, m) \in Int /\ 1 <= AtLeast(1, m)
        /\ (AtLeast(1, m) = 1 \/ AtLeast(1, m) = m)
    <3>1. 1 \in Int
      OBVIOUS
    <3> QED BY <2>1, <3>1, <1>6, Zenon
  <2>3. AtLeast(1, m) \in 1 .. Len(samples) - 2
    BY <1>1, <2>1, <2>2
  <2>4. TrainIndex = AtLeast(1, m) + 1
    BY <1>4 DEF m
  <2> QED BY <1>1, <2>3, <2>4
<1>8. TestIndex \in 3 .. Len(samples)
  <2> DEFINE m == AtMost(Len(samples) - 1, b)
  <2>1. m \in Int /\ m <= Len(samples) - 1
    <3>1. Len(samples) - 1 \in Int
      BY <1>1
    <3> QED BY <1>3, <1>5, <3>1, Zenon
  <2> HIDE DEF m
  <2>2. /\ AtLeast(TrainIndex, m) \in Int /\ TrainIndex <= AtLeast(TrainIndex, m)
        /\ (AtLeast(TrainIndex, m) = TrainIndex \/ AtLeast(TrainIndex, m) = m)
    <3>1. TrainIndex \in Int
      BY <1>7
    <3> QED BY <2>1, <3>1, <1>6, Zenon
  <2>3. AtLeast(TrainIndex, m) \in 2 .. Len(samples) - 1
    BY <1>1, <1>7, <2>1, <2>2
  <2>4. TestIndex = AtLeast(TrainIndex, m) + 1
    BY <1>4 DEF m
  <2> QED BY <1>1, <2>3, <2>4
<1> QED BY <1>1, <1>7, <1>8 DEF ValidationStart, TestStart

(***************************************************************************)
(* The invariant: what keeps the parts apart, with the boundary of the     *)
(* test that the later masks compare with.                                 *)
(***************************************************************************)
PartsKeepToTheirBoundaries ==
  /\ train \subseteq DOMAIN samples /\ validation \subseteq DOMAIN samples
  /\ test \subseteq DOMAIN samples
  /\ test # {} => test_start \in Nat
  /\ \A j \in test : test_start <= samples[j].time

StudyInv ==
  /\ fractions \in Fractions
  /\ study # "waiting" => phase = "written"
  /\ study \in {"waiting", "loaded"} => train = {} /\ validation = {} /\ test = {}
  /\ study \in {"waiting", "loaded", "split"} => fitted = {}
  /\ (phase = "written" /\ study # "waiting" /\ ~ Loadable(samples)) => samples = << >>
  /\ PartsKeepToTheirBoundaries
  /\ NoTargetCrossesTheSplit
  /\ DelayedReturnsDoNotLeak

LEMMA StudyInit == LatencyInit => StudyInv
<1> SUFFICES ASSUME LatencyInit
             PROVE  StudyInv
  OBVIOUS
<1>1. /\ fractions \in Fractions /\ study = "waiting"
      /\ train = {} /\ validation = {} /\ test = {} /\ fitted = {}
  BY DEF LatencyInit, SplitInit
<1> QED BY <1>1 DEF StudyInv, PartsKeepToTheirBoundaries, NoTargetCrossesTheSplit,
                    DelayedReturnsDoNotLeak

(* The alignment's steps end before the study begins. *)
LEMMA AlignmentStep ==
  ASSUME StudyInv, Next, UNCHANGED << split_vars, latency_vars >>
  PROVE  StudyInv'
<1>1. phase # "written"
  BY DEF Next, Reject, Begin, SkipOverflow, FindNone, FindTarget, NextHorizon, Finish, Validate,
         Aligning
<1>2. study = "waiting" /\ train = {} /\ validation = {} /\ test = {} /\ fitted = {}
  BY <1>1 DEF StudyInv
<1>3. UNCHANGED << fractions, study, train, validation, test, validation_start, test_start,
                   horizon, decision_delay, max_observation, returns, fitted, tested >>
  BY DEF split_vars, latency_vars
<1> QED BY <1>2, <1>3 DEF StudyInv, PartsKeepToTheirBoundaries, NoTargetCrossesTheSplit,
                          DelayedReturnsDoNotLeak

LEMMA LoadStep ==
  ASSUME StudyInv, Inv, Load, UNCHANGED << vars, latency_vars >>
  PROVE  StudyInv'
<1>1. /\ phase = "written" /\ study = "waiting"
      /\ study' \in {"loaded", "refused"}
      /\ UNCHANGED << fractions, train, validation, test, validation_start, test_start >>
      /\ train = {} /\ validation = {} /\ test = {} /\ fitted = {}
  BY DEF Load, StudyInv
<1>2. UNCHANGED << phase, samples, horizons, horizon, returns, fitted >>
  BY DEF vars, latency_vars
<1>3. ~ Loadable(samples) => samples = << >>
  BY <1>1, WrittenRows, DatasetLoads
<1>4. Loadable(samples)' = Loadable(samples)
  BY <1>2 DEF Loadable, Ordered
<1> QED BY <1>1, <1>2, <1>3, <1>4 DEF StudyInv, PartsKeepToTheirBoundaries,
                                     NoTargetCrossesTheSplit, DelayedReturnsDoNotLeak

LEMMA SplitStep ==
  ASSUME StudyInv, Inv, Split \/ RefuseSplit, UNCHANGED << vars, latency_vars >>
  PROVE  StudyInv'
<1>1. /\ study = "loaded" /\ phase = "written" /\ fractions \in Fractions
      /\ fitted = {} /\ train = {} /\ validation = {} /\ test = {}
      /\ study' \in {"split", "refused"}
      /\ UNCHANGED fractions
      /\ (phase = "written" /\ study # "waiting" /\ ~ Loadable(samples)) => samples = << >>
  BY DEF StudyInv, Split, RefuseSplit
<1>2. UNCHANGED << phase, samples, horizons, returns, fitted >>
  BY DEF vars, latency_vars
<1>3. Loadable(samples)' = Loadable(samples)
  BY <1>2 DEF Loadable, Ordered
<1>4. DelayedReturnsDoNotLeak'
  BY <1>1, <1>2 DEF DelayedReturnsDoNotLeak
<1>5. CASE RefuseSplit
  <2>1. UNCHANGED << train, validation, test, test_start >>
    BY <1>5 DEF RefuseSplit
  <2> QED BY <1>1, <1>2, <1>3, <1>4, <2>1 DEF StudyInv, PartsKeepToTheirBoundaries,
                                             NoTargetCrossesTheSplit
<1>6. CASE Split
  <2>1. /\ train' = Train /\ validation' = Validation /\ test' = Test /\ test_start' = TestStart
        /\ Len(samples) >= 3 /\ ValidationStart < TestStart
    BY <1>6 DEF Split, Divides
  <2>2. Dataset
    BY <1>1, WrittenRows
  <2>3. ValidationStart \in Nat /\ TestStart \in Nat
    BY <1>1, <2>1, <2>2, BoundariesAreTimes, MaxTimestampAssumption DEF Timestamps
  <2>4. /\ \A i \in DOMAIN samples :
             /\ samples[i].time \in Nat
             /\ \A h \in DOMAIN horizons : samples[i].targets[h].timestamp \in Nat \cup {None}
    BY <2>2, DatasetNumbers
  <2>5. /\ Train \subseteq DOMAIN samples /\ Validation \subseteq DOMAIN samples
        /\ Test \subseteq DOMAIN samples
        /\ \A j \in Test : TestStart <= samples[j].time
        /\ \A j \in Validation : ValidationStart <= samples[j].time /\ samples[j].time < TestStart
        /\ \A i \in Train : samples[i].time < ValidationStart
        /\ \A i \in Train, h \in DOMAIN horizons : samples[i].targets[h].timestamp # None =>
              samples[i].targets[h].timestamp < ValidationStart
        /\ \A i \in Validation, h \in DOMAIN horizons : samples[i].targets[h].timestamp # None =>
              samples[i].targets[h].timestamp < TestStart
    BY DEF Train, Validation, Test, RowsIn, BeforeTargetBoundary
  <2>6. \A x, y, v, t \in Nat : (x < v /\ v <= y => x < y) /\ (x < v /\ v < t => x < t)
    OBVIOUS
  <2>7. ASSUME NEW i \in Train, NEW j \in Validation
        PROVE  /\ samples[i].time < samples[j].time
               /\ \A h \in DOMAIN horizons : samples[i].targets[h].timestamp # None =>
                    samples[i].targets[h].timestamp < samples[j].time
    BY <2>3, <2>4, <2>5, <2>6
  <2>8. ASSUME NEW i \in Train \cup Validation, NEW j \in Test
        PROVE  /\ samples[i].time < samples[j].time
               /\ \A h \in DOMAIN horizons : samples[i].targets[h].timestamp # None =>
                    samples[i].targets[h].timestamp < samples[j].time
    <3>1. /\ samples[i].time < TestStart
          /\ \A h \in DOMAIN horizons : samples[i].targets[h].timestamp # None =>
                    samples[i].targets[h].timestamp < TestStart
      BY <2>1, <2>3, <2>4, <2>5, <2>6
    <3> QED BY <2>3, <2>4, <2>5, <2>6, <3>1
  <2>9. NoTargetCrossesTheSplit'
    BY <1>2, <2>1, <2>7, <2>8 DEF NoTargetCrossesTheSplit
  <2>10. PartsKeepToTheirBoundaries'
    BY <1>2, <2>1, <2>3, <2>5 DEF PartsKeepToTheirBoundaries
  <2> QED BY <1>1, <1>2, <1>3, <1>4, <2>9, <2>10 DEF StudyInv
<1> QED BY <1>5, <1>6

-------------------------------------------------------------------------------
(* Both prices of a return are of rows no later than its target. *)
LEMMA ReturnIsOfThePast ==
  ASSUME Dataset, NEW i \in DOMAIN samples, NEW ahead \in Nat, NEW delay \in Nat, NEW most,
         DelayedReturn(i, ahead, delay, most) # None
  PROVE  LET found == DelayedReturn(i, ahead, delay, most)
         IN  /\ found.anchor \in DOMAIN samples /\ found.target \in DOMAIN samples
             /\ samples[found.anchor].time <= samples[found.target].time
<1> DEFINE decision == samples[i].time + delay
           known == KnownAt(decision)
           later == KnownFrom(decision + ahead)
<1>1. /\ Len(samples) \in Nat /\ DOMAIN samples = 1 .. Len(samples)
      /\ \A j \in DOMAIN samples : samples[j].time \in Nat
  BY DatasetNumbers
<1>2. known # {} /\ later # {}
      /\ DelayedReturn(i, ahead, delay, most) = [anchor |-> Max(known), target |-> Min(later)]
  BY DEF DelayedReturn
<1>3. known \in SUBSET DOMAIN samples /\ later \in SUBSET DOMAIN samples
  BY DEF KnownAt, KnownFrom, ValidPositions
<1>4. Max(known) \in known /\ Min(later) \in later
  <2> HIDE DEF known, later
  <2> QED BY <1>1, <1>2, <1>3, FirstAndLast
<1>5. samples[Max(known)].time <= decision /\ decision + ahead <= samples[Min(later)].time
  BY <1>4 DEF KnownAt, KnownFrom
<1>6. decision \in Nat
  BY <1>1
<1> HIDE DEF decision, known, later
<1>7. samples[Max(known)].time <= samples[Min(later)].time
  <2>1. samples[Max(known)].time \in Nat /\ samples[Min(later)].time \in Nat
    BY <1>1, <1>3, <1>4
  <2> QED BY <1>5, <1>6, <2>1
<1> QED BY <1>2, <1>3, <1>4, <1>7

LEMMA EvaluateStep ==
  ASSUME StudyInv, Inv, Evaluate, UNCHANGED vars
  PROVE  StudyInv'
<1>1. /\ study = "split" /\ phase = "written" /\ study' \in {"evaluated", "refused"}
      /\ UNCHANGED << fractions, train, validation, test, validation_start, test_start >>
  BY DEF StudyInv, Evaluate
<1>2. UNCHANGED << phase, samples, horizons >>
  BY DEF vars
<1>3. Loadable(samples)' = Loadable(samples)
  BY <1>2 DEF Loadable, Ordered
<1>4. Dataset
  BY <1>1, WrittenRows
<1>5. PICK h \in DOMAIN horizons, delay \in DecisionDelays, most \in ObservationDelays :
        /\ returns' = [i \in DOMAIN samples |-> DelayedReturn(i, horizons[h], delay, most)]
        /\ fitted' \subseteq Fitted(returns')
  BY DEF Evaluate
<1>6. /\ \A i \in DOMAIN samples : samples[i].time \in Nat
      /\ horizons[h] \in Nat /\ delay \in Nat
  BY <1>4, DatasetNumbers, DecisionDelaysAssumption
<1>7. ASSUME NEW i \in fitted', NEW j \in test
      PROVE  /\ samples[returns'[i].anchor].time < samples[j].time
             /\ samples[returns'[i].target].time < samples[j].time
  <2>1. /\ i \in train \cup validation /\ returns'[i] # None
        /\ samples[returns'[i].target].time < test_start
    BY <1>5 DEF Fitted
  <2>2. i \in DOMAIN samples /\ j \in DOMAIN samples
        /\ test_start \in Nat /\ test_start <= samples[j].time
    BY <2>1 DEF StudyInv, PartsKeepToTheirBoundaries
  <2>3. returns'[i] = DelayedReturn(i, horizons[h], delay, most)
    BY <1>5, <2>2
  <2>4. /\ returns'[i].anchor \in DOMAIN samples /\ returns'[i].target \in DOMAIN samples
        /\ samples[returns'[i].anchor].time <= samples[returns'[i].target].time
    BY <1>4, <1>6, <2>1, <2>2, <2>3, ReturnIsOfThePast
  <2>5. \A a, t, s, y \in Nat : a <= t /\ t < s /\ s <= y => a < y /\ t < y
    OBVIOUS
  <2>6. /\ samples[returns'[i].anchor].time \in Nat /\ samples[returns'[i].target].time \in Nat
        /\ samples[j].time \in Nat
    BY <1>6, <2>2, <2>4
  <2> QED BY <2>1, <2>2, <2>4, <2>5, <2>6
<1>8. DelayedReturnsDoNotLeak'
  BY <1>1, <1>2, <1>7 DEF DelayedReturnsDoNotLeak
<1> QED BY <1>1, <1>2, <1>3, <1>8 DEF StudyInv, PartsKeepToTheirBoundaries,
                                     NoTargetCrossesTheSplit

-------------------------------------------------------------------------------
(* The invariant holds of every study of every dataset. *)
THEOREM StudyInvariant == LatencySpec => []StudyInv
<1>1. StudyInv /\ Inv /\ [LatencyNext]_study_vars => StudyInv'
  <2> SUFFICES ASSUME StudyInv, Inv, [LatencyNext]_study_vars
               PROVE  StudyInv'
    OBVIOUS
  <2>1. CASE UNCHANGED study_vars
    <3>1. UNCHANGED << phase, samples, horizons, fractions, study, train, validation, test,
                       test_start, returns, fitted >>
      BY <2>1 DEF study_vars, vars, split_vars, latency_vars
    <3>2. Loadable(samples)' = Loadable(samples)
      BY <3>1 DEF Loadable, Ordered
    <3> QED BY <3>1, <3>2 DEF StudyInv, PartsKeepToTheirBoundaries, NoTargetCrossesTheSplit,
                             DelayedReturnsDoNotLeak
  <2> QED BY <2>1, AlignmentStep, LoadStep, SplitStep, EvaluateStep DEF LatencyNext
<1> QED BY StudyInit, StudyAligns, AlignmentInvariant, <1>1, PTL DEF LatencySpec, study_vars

(***************************************************************************)
(* validate_dataset() refuses nothing that the C++ writer has let pass but *)
(* a dataset without rows.                                                 *)
(***************************************************************************)
THEOREM WrittenDatasetsAlwaysLoad == LatencySpec => []WrittenDatasetsLoad
<1>1. StudyInv => WrittenDatasetsLoad
  BY DEF StudyInv, WrittenDatasetsLoad
<1> QED BY StudyInvariant, <1>1, PTL

(***************************************************************************)
(* chronological_split() keeps every row and every target of a part        *)
(* earlier than all rows of the next, for any fractions and horizons.      *)
(***************************************************************************)
THEOREM NoTargetEverCrosses == LatencySpec => []NoTargetCrossesTheSplit
<1>1. StudyInv => NoTargetCrossesTheSplit
  BY DEF StudyInv
<1> QED BY StudyInvariant, <1>1, PTL

(***************************************************************************)
(* evaluate_latency() fits its model to returns of which both prices are   *)
(* of rows before the test, for any delays and horizons.                   *)
(***************************************************************************)
THEOREM DelayedReturnsNeverLeak == LatencySpec => []DelayedReturnsDoNotLeak
<1>1. StudyInv => DelayedReturnsDoNotLeak
  BY DEF StudyInv
<1> QED BY StudyInvariant, <1>1, PTL
-------------------------------------------------------------------------------
(* The returns are those of a pair that was evaluated, of rows that are written. *)
Evaluation ==
  /\ horizon \in DOMAIN horizons /\ decision_delay \in DecisionDelays
  /\ max_observation \in ObservationDelays
  /\ returns = [i \in DOMAIN samples |->
                  DelayedReturn(i, horizons[horizon], decision_delay, max_observation)]

EvaluationInv ==
  /\ SplitTypeOK
  /\ fitted \subseteq train \cup validation /\ tested \subseteq test
  /\ \/ /\ study \in {"waiting", "loaded", "split", "refused"}
        /\ horizon = None /\ decision_delay = None /\ max_observation = None
        /\ returns = << >>
     \/ /\ study \in {"evaluated", "refused"}
        /\ phase = "written" /\ Evaluation

LEMMA EvaluationInit == LatencyInit => EvaluationInv
BY DEF LatencyInit, SplitInit, EvaluationInv, SplitTypeOK, Divided

(* What no step before the evaluation changes. *)
LEMMA NotEvaluatedYet ==
  ASSUME EvaluationInv, study \in {"waiting", "loaded"}, UNCHANGED latency_vars
  PROVE  /\ fitted' \subseteq train \cup validation /\ tested' \subseteq test
         /\ horizon' = None /\ decision_delay' = None /\ max_observation' = None
         /\ returns' = << >>
<1>1. UNCHANGED << horizon, decision_delay, max_observation, returns, fitted, tested >>
  BY DEF latency_vars
<1> QED BY <1>1 DEF EvaluationInv

LEMMA AlignmentKeepsEvaluation ==
  ASSUME StudyInv, EvaluationInv, Next, UNCHANGED << split_vars, latency_vars >>
  PROVE  EvaluationInv'
<1>1. phase # "written"
  BY DEF Next, Reject, Begin, SkipOverflow, FindNone, FindTarget, NextHorizon, Finish, Validate,
         Aligning
<1>2. study = "waiting" /\ train = {} /\ validation = {} /\ test = {}
  BY <1>1 DEF StudyInv
<1>3. UNCHANGED << fractions, study, train, validation, test, validation_start, test_start >>
  BY DEF split_vars
<1>4. /\ fitted' \subseteq train \cup validation /\ tested' \subseteq test
      /\ horizon' = None /\ decision_delay' = None /\ max_observation' = None
      /\ returns' = << >>
  BY <1>2, NotEvaluatedYet
<1>5. SplitTypeOK'
  BY <1>2, <1>3 DEF EvaluationInv, SplitTypeOK, Divided
<1> QED BY <1>2, <1>3, <1>4, <1>5 DEF EvaluationInv

LEMMA LoadKeepsEvaluation ==
  ASSUME StudyInv, EvaluationInv, Load, UNCHANGED << vars, latency_vars >>
  PROVE  EvaluationInv'
<1>1. /\ study = "waiting" /\ study' \in {"loaded", "refused"}
      /\ UNCHANGED << fractions, train, validation, test, validation_start, test_start >>
      /\ UNCHANGED samples
  BY DEF Load, vars
<1>2. /\ fitted' \subseteq train \cup validation /\ tested' \subseteq test
      /\ horizon' = None /\ decision_delay' = None /\ max_observation' = None
      /\ returns' = << >>
  BY <1>1, NotEvaluatedYet
<1>3. SplitTypeOK'
  BY <1>1 DEF EvaluationInv, SplitTypeOK, Divided
<1> QED BY <1>1, <1>2, <1>3 DEF EvaluationInv

LEMMA SplitKeepsEvaluation ==
  ASSUME StudyInv, Inv, EvaluationInv, Split \/ RefuseSplit, UNCHANGED << vars, latency_vars >>
  PROVE  EvaluationInv'
<1>1. /\ study = "loaded" /\ phase = "written" /\ study' \in {"split", "refused"}
      /\ fractions \in Fractions /\ fractions' = fractions
      /\ train = {} /\ validation = {} /\ test = {} /\ UNCHANGED samples
  BY DEF StudyInv, Split, RefuseSplit, vars
<1>2. /\ fitted' \subseteq train \cup validation /\ tested' \subseteq test
      /\ horizon' = None /\ decision_delay' = None /\ max_observation' = None
      /\ returns' = << >>
  BY <1>1, NotEvaluatedYet
<1>3. CASE RefuseSplit
  <2>1. study' = "refused"
        /\ UNCHANGED << train, validation, test, validation_start, test_start >>
    BY <1>3 DEF RefuseSplit
  <2>2. SplitTypeOK'
    BY <1>1, <2>1 DEF EvaluationInv, SplitTypeOK, Divided
  <2> QED BY <1>1, <1>2, <2>1, <2>2 DEF EvaluationInv
<1>4. CASE Split
  <2>1. /\ study' = "split" /\ train' = Train /\ validation' = Validation /\ test' = Test
        /\ validation_start' = ValidationStart /\ test_start' = TestStart
        /\ Len(samples) >= 3 /\ Train # {} /\ Validation # {} /\ Test # {}
    BY <1>4 DEF Split, Divides
  <2>2. ValidationStart \in Timestamps /\ TestStart \in Timestamps
    BY <1>1, <2>1, WrittenRows, BoundariesAreTimes
  <2>3. /\ Train \subseteq DOMAIN samples /\ Validation \subseteq DOMAIN samples
        /\ Test \subseteq DOMAIN samples
    BY DEF Train, Validation, Test, RowsIn, BeforeTargetBoundary
  <2>4. SplitTypeOK'
    BY <1>1, <2>1, <2>2, <2>3 DEF SplitTypeOK, Divided
  <2>5. fitted' = {} /\ tested' = {}
    BY <1>1, <1>2
  <2> QED BY <1>2, <2>1, <2>4, <2>5 DEF EvaluationInv
<1> QED BY <1>3, <1>4

LEMMA EvaluateKeepsEvaluation ==
  ASSUME StudyInv, EvaluationInv, Evaluate, UNCHANGED vars
  PROVE  EvaluationInv'
<1>1. /\ study = "split" /\ phase = "written" /\ study' \in {"evaluated", "refused"}
      /\ UNCHANGED << fractions, train, validation, test, validation_start, test_start >>
  BY DEF StudyInv, Evaluate
<1>2. UNCHANGED << phase, samples, horizons >>
  BY DEF vars
<1>3. PICK h \in DOMAIN horizons, delay \in DecisionDelays, most \in ObservationDelays :
        /\ horizon' = h /\ decision_delay' = delay /\ max_observation' = most
        /\ returns' = [i \in DOMAIN samples |-> DelayedReturn(i, horizons[h], delay, most)]
        /\ fitted' \subseteq Fitted(returns') /\ tested' \subseteq Tested(returns')
  BY DEF Evaluate
<1>4. fitted' \subseteq train \cup validation /\ tested' \subseteq test
  BY <1>3 DEF Fitted, Tested
<1>5. SplitTypeOK'
  BY <1>1, <1>2 DEF EvaluationInv, SplitTypeOK, Divided
<1>6. \A i, ahead, after, bound :
        DelayedReturn(i, ahead, after, bound)' = DelayedReturn(i, ahead, after, bound)
  BY <1>2 DEF DelayedReturn, KnownAt, KnownFrom, ValidPositions, Mid
<1>7. Evaluation'
  BY <1>2, <1>3, <1>6 DEF Evaluation
<1> QED BY <1>1, <1>2, <1>4, <1>5, <1>7 DEF EvaluationInv

LEMMA EvaluationInvariant == LatencySpec => []EvaluationInv
<1>1. StudyInv /\ Inv /\ EvaluationInv /\ [LatencyNext]_study_vars => EvaluationInv'
  <2> SUFFICES ASSUME StudyInv, Inv, EvaluationInv, [LatencyNext]_study_vars
               PROVE  EvaluationInv'
    OBVIOUS
  <2>1. CASE UNCHANGED study_vars
    <3>1. UNCHANGED << phase, samples, horizons, fractions, study, train, validation, test,
                       validation_start, test_start >>
      BY <2>1 DEF study_vars, vars, split_vars
    <3>2. UNCHANGED << horizon, decision_delay, max_observation, returns, fitted, tested >>
      BY <2>1 DEF study_vars, latency_vars
    <3>3. SplitTypeOK'
      BY <3>1 DEF EvaluationInv, SplitTypeOK, Divided
    <3>4. Evaluation => Evaluation'
      <4>1. \A i, ahead, after, bound :
              DelayedReturn(i, ahead, after, bound)' = DelayedReturn(i, ahead, after, bound)
        BY <3>1 DEF DelayedReturn, KnownAt, KnownFrom, ValidPositions, Mid
      <4> QED BY <3>1, <3>2, <4>1 DEF Evaluation
    <3> QED BY <3>1, <3>2, <3>3, <3>4 DEF EvaluationInv
  <2> QED BY <2>1, AlignmentKeepsEvaluation, LoadKeepsEvaluation, SplitKeepsEvaluation,
             EvaluateKeepsEvaluation DEF LatencyNext
<1> QED BY EvaluationInit, StudyInvariant, StudyAligns, AlignmentInvariant, <1>1, PTL
        DEF LatencySpec, study_vars

(* Every variable of the study keeps its type. *)
THEOREM LatencyTypes == LatencySpec => []LatencyTypeOK
<1>1. ASSUME StudyInv, Inv, EvaluationInv
      PROVE  LatencyTypeOK
  <2>1. CASE returns = << >> /\ horizon = None /\ decision_delay = None /\ max_observation = None
    BY <1>1, <2>1 DEF EvaluationInv, LatencyTypeOK
  <2>2. CASE phase = "written" /\ Evaluation
    <3>1. Dataset
      BY <1>1, <2>2, WrittenRows
    <3>2. /\ horizon \in Nat /\ horizons[horizon] \in Nat /\ decision_delay \in Nat
      <4>1. DOMAIN horizons \subseteq Nat
        BY <3>1 DEF Dataset
      <4> QED BY <2>2, <3>1, <4>1, DatasetNumbers, DecisionDelaysAssumption DEF Evaluation
    <3>3. ASSUME NEW i \in DOMAIN returns, returns[i] # None
          PROVE  {returns[i].anchor, returns[i].target} \subseteq DOMAIN samples
      <4>1. /\ i \in DOMAIN samples
            /\ returns[i] = DelayedReturn(i, horizons[horizon], decision_delay, max_observation)
        BY <2>2 DEF Evaluation
      <4> QED BY <3>1, <3>2, <3>3, <4>1, ReturnIsOfThePast
    <3> QED BY <1>1, <2>2, <3>2, <3>3 DEF Evaluation, EvaluationInv, LatencyTypeOK
  <2> QED BY <1>1, <2>1, <2>2 DEF EvaluationInv
<1> QED BY EvaluationInvariant, StudyInvariant, StudyAligns, AlignmentInvariant, <1>1, PTL
-------------------------------------------------------------------------------
(* The policy that keeps the undefined keeps all. *)
LEMMA AllRowsKept ==
  ASSUME NEW B, \A b \in B : b.time \in Nat, NEW rows \in Seq(B), Ordered(rows)
  PROVE  Kept("KeepUndefined", rows) = rows
<1> DEFINE kept == Kept("KeepUndefined", rows)
           stays == {i \in DOMAIN rows : "KeepUndefined" = "KeepUndefined" \/ Complete(rows[i])}
<1>1. Len(rows) \in Nat /\ DOMAIN rows = 1 .. Len(rows) /\ rows = [i \in 1 .. Len(rows) |-> rows[i]]
  OBVIOUS
<1>2. kept \in Seq(B)
  BY KeptRows
<1>3. stays = 1 .. Len(rows)
  BY <1>1
<1>4. /\ Len(kept) = Cardinality(stays)
      /\ \A i \in stays : kept[Cardinality({j \in stays : j <= i})] = rows[i]
  BY KeptExactly
<1> HIDE DEF kept, stays
<1>5. \A n \in Nat : Cardinality(1 .. n) = n
  BY FS_Interval
<1>6. Len(kept) = Len(rows)
  BY <1>1, <1>3, <1>4, <1>5
<1>7. ASSUME NEW i \in 1 .. Len(rows)
      PROVE  kept[i] = rows[i]
  <2>1. {j \in stays : j <= i} = 1 .. i
    BY <1>1, <1>3
  <2>2. i \in Nat /\ Cardinality(1 .. i) = i
    BY <1>1, <1>5
  <2> QED BY <1>3, <1>4, <2>1, <2>2
<1>8. kept = [i \in 1 .. Len(kept) |-> kept[i]]
  BY <1>2
<1> QED BY <1>1, <1>6, <1>7, <1>8 DEF kept

(* What the aligner has given the rows, all of them being kept. *)
Aligned(n, h) ==
  /\ Len(samples) = n /\ Len(given) = n
  /\ \A j \in 1 .. n : /\ given[j].time = samples[j].time
                       /\ given[j].reference = samples[j].reference
                       /\ samples[j].targets[h] = TargetByDefinition(given, j, horizons[h], max_delay)
                       /\ Usable(given[j]) <=> Mid(j) # None
  /\ \A j, k \in 1 .. n : j <= k => samples[j].time <= samples[k].time

LEMMA AlignedSamples ==
  ASSUME Inv, phase = "written", policy = "KeepUndefined", NEW h \in DOMAIN horizons
  PROVE  Aligned(Len(samples), h)
<1> DEFINE rows == AlignedByDefinition(given, horizons, max_delay)
           n == Len(given)
           targets(i) == [k \in 1 .. Len(horizons) |->
                            TargetByDefinition(given, i, horizons[k], max_delay)]
<1>1. /\ Shape /\ Ordered(given) /\ ValidHorizons(horizons)
      /\ samples = Kept("KeepUndefined", rows)
  BY DEF Inv, Phases
<1>2. /\ n \in Nat /\ DOMAIN given = 1 .. n
      /\ \A j \in 1 .. n : given[j] \in Given /\ given[j].time \in Nat
      /\ Len(horizons) \in Nat /\ DOMAIN horizons = 1 .. Len(horizons)
  BY <1>1, GivenRows, MaxTimestampAssumption
<1>3. rows = [i \in 1 .. n |->
                [time |-> given[i].time, reference |-> given[i].reference,
                 targets |-> targets(i)]]
  BY <1>2, RowIs DEF AlignedByDefinition
<1>4. samples = rows
  <2>1. rows \in Seq(DatasetRow) /\ Ordered(rows)
    <3> HIDE DEF rows
    <3> QED BY <1>1, DefinedRows DEF rows, DatasetRow
  <2>2. \A row \in DatasetRow : row.time \in Nat
    BY MaxTimestampAssumption DEF DatasetRow, Row, Timestamps
  <2> HIDE DEF rows
  <2> QED BY <1>1, <2>1, <2>2, AllRowsKept
<1>5. /\ Len(samples) = n
      /\ \A j \in 1 .. n : /\ samples[j].time = given[j].time
                           /\ samples[j].reference = given[j].reference
                           /\ samples[j].targets = targets(j)
  <2> HIDE DEF targets
  <2>1. samples = [i \in 1 .. n |->
                     [time |-> given[i].time, reference |-> given[i].reference,
                      targets |-> targets(i)]]
    BY <1>3, <1>4
  <2> HIDE DEF rows
  <2>2. Len(samples) = n
    BY <1>2, <2>1
  <2> QED BY <2>1, <2>2
<1>6. ASSUME NEW j \in 1 .. n
      PROVE  Usable(given[j]) <=> Mid(j) # None
  <2>1. given[j].reference \in References
    BY <1>2 DEF Given
  <2>2. samples[j].reference = given[j].reference
    BY <1>5
  <2> QED BY <2>1, <2>2, MidsAssumption DEF Usable, Mid
<1>7. ASSUME NEW j \in 1 .. n, NEW k \in 1 .. n, j <= k
      PROVE  samples[j].time <= samples[k].time
  <2> DEFINE time == [i \in 1 .. n |-> given[i].time]
  <2>1. \A i \in 1 .. n : time[i] \in Nat
    BY <1>2
  <2>2. \A i \in 2 .. n : time[i - 1] <= time[i]
    <3>1. \A i \in 2 .. n : i \in 1 .. n /\ i - 1 \in 1 .. n
      BY <1>2
    <3>2. \A i \in 2 .. n : given[i - 1].time <= given[i].time
      BY <1>1 DEF Ordered
    <3> QED BY <3>1, <3>2
  <2>3. time[j] = samples[j].time /\ time[k] = samples[k].time
    BY <1>5
  <2> HIDE DEF time, n
  <2>4. time[j] <= time[k]
    BY <1>2, <1>7, <2>1, <2>2, OrderedFar
  <2> QED BY <2>3, <2>4
<1>8. \A j \in 1 .. n : targets(j)[h] = TargetByDefinition(given, j, horizons[h], max_delay)
  BY <1>2
<1> HIDE DEF rows, targets
<1> QED BY <1>5, <1>6, <1>7, <1>8 DEF Aligned

(* A search with no delay, by the two definitions. *)
LEMMA UndelayedSearch ==
  ASSUME Dataset, NEW h \in DOMAIN horizons, horizons[h] # 0,
         Aligned(Len(samples), h), NEW i \in ValidPositions, NEW most \in Nat
  PROVE  LET later == KnownFrom(samples[i].time + 0 + horizons[h])
             anchor == Max(KnownAt(samples[i].time + 0))
         IN  /\ later = Candidates(given, i, horizons[h])
             /\ anchor \in DOMAIN samples /\ anchor >= i
             /\ samples[anchor].time = samples[i].time
             /\ ~ ((samples[i].time + 0) - samples[anchor].time > most)
             /\ KnownAt(samples[i].time + 0) # {}
<1> DEFINE n == Len(samples)
           time == samples[i].time
           known == KnownAt(time)
<1>1. /\ n \in Nat /\ DOMAIN samples = 1 .. n
      /\ \A j \in 1 .. n : samples[j].time \in Nat
      /\ horizons[h] \in Nat
  BY DatasetNumbers
<1>2. /\ Len(given) = n
      /\ \A j \in 1 .. n : /\ given[j].time = samples[j].time
                           /\ Usable(given[j]) <=> Mid(j) # None
      /\ \A j, k \in 1 .. n : j <= k => samples[j].time <= samples[k].time
  BY DEF Aligned
<1>3. i \in 1 .. n /\ Mid(i) # None /\ time \in Nat /\ time + 0 = time
  BY <1>1 DEF ValidPositions
<1>4. KnownFrom(time + horizons[h]) = Candidates(given, i, horizons[h])
  <2>1. ASSUME NEW j \in 1 .. n, samples[j].time >= time + horizons[h]
        PROVE  j > i
    <3>1. samples[j].time > time
      BY <1>1, <1>3, <2>1
    <3>2. j <= i => samples[j].time <= time
      BY <1>2, <1>3
    <3> QED BY <1>1, <1>3, <3>1, <3>2
  <2>2. \A j \in 1 .. n : j > i <=> j \in i + 1 .. n
    BY <1>1, <1>3
  <2>3. i + 1 .. n \subseteq 1 .. n
    BY <1>1, <1>3
  <2>4. given[i].time = time
    BY <1>2, <1>3
  <2> HIDE DEF n, time
  <2> QED BY <1>1, <1>2, <2>1, <2>2, <2>3, <2>4 DEF KnownFrom, ValidPositions, Candidates, Meets
<1>5. i \in known /\ known \in SUBSET (1 .. n)
  BY <1>1, <1>3 DEF KnownAt, ValidPositions
<1>6. Max(known) \in known /\ \A x \in known : x <= Max(known)
  <2> HIDE DEF known, n
  <2> QED BY <1>1, <1>5, FirstAndLast
<1>7. samples[Max(known)].time <= time
  BY <1>6 DEF KnownAt
<1> HIDE DEF known, n, time
<1>8. Max(known) \in 1 .. n /\ i <= Max(known)
  BY <1>5, <1>6
<1>9. samples[Max(known)].time = time
  <2>1. time <= samples[Max(known)].time
    BY <1>2, <1>3, <1>8 DEF time
  <2>2. samples[Max(known)].time \in Nat
    BY <1>1, <1>8
  <2> QED BY <1>3, <1>7, <2>1, <2>2
<1>10. Max(known) >= i
  BY <1>1, <1>3, <1>8
<1>11. ~ (time - samples[Max(known)].time > most)
  BY <1>3, <1>9
<1>12. known # {} /\ KnownAt(time + 0) = known /\ time + 0 + horizons[h] = time + horizons[h]
  BY <1>3, <1>5 DEF known
<1> QED BY <1>1, <1>3, <1>4, <1>8, <1>9, <1>10, <1>11, <1>12 DEF time

LEMMA UndelayedReturn ==
  ASSUME Dataset, NEW h \in DOMAIN horizons, horizons[h] # 0,
         Aligned(Len(samples), h), NEW i \in ValidPositions, max_delay \in Nat
  PROVE  LET target == samples[i].targets[h]
             found == DelayedReturn(i, horizons[h], 0, max_delay)
         IN  IF found = None THEN target.timestamp = None
             ELSE /\ target.timestamp = samples[found.target].time
                  /\ \/ target.return["mid"] = Mid(found.target) - Mid(found.anchor)
                     \/ found.anchor > i /\ samples[found.anchor].time = samples[i].time
<1> DEFINE n == Len(samples)
           target == samples[i].targets[h]
           found == DelayedReturn(i, horizons[h], 0, max_delay)
           threshold == samples[i].time + 0 + horizons[h]
           later == KnownFrom(threshold)
           known == KnownAt(samples[i].time + 0)
           first == Min(later)
           anchor == Max(known)
           late == samples[first].time - threshold > max_delay
<1>1. /\ n \in Nat /\ DOMAIN samples = 1 .. n
      /\ \A j \in 1 .. n : samples[j].time \in Nat
      /\ horizons[h] \in Nat
  BY DatasetNumbers
<1>2. /\ later = Candidates(given, i, horizons[h])
      /\ anchor \in 1 .. n /\ anchor >= i
      /\ samples[anchor].time = samples[i].time
      /\ ~ ((samples[i].time + 0) - samples[anchor].time > max_delay)
      /\ known # {}
  BY <1>1, UndelayedSearch
<1>3. i \in 1 .. n /\ Mid(i) # None
  BY <1>1 DEF ValidPositions
<1>4. /\ given[i].time = samples[i].time
      /\ \A j \in 1 .. n : given[j].time = samples[j].time /\ given[j].reference = samples[j].reference
      /\ target = TargetByDefinition(given, i, horizons[h], max_delay)
  BY <1>3 DEF Aligned
<1>5. found = IF later = {} \/ late THEN None ELSE [anchor |-> anchor, target |-> first]
  <2> DEFINE early == (samples[i].time + 0) - samples[anchor].time > max_delay
  <2>1. found = IF \/ known = {} \/ later = {}
                   \/ early
                   \/ late
                THEN None ELSE [anchor |-> anchor, target |-> first]
    BY DEF DelayedReturn
  <2> HIDE DEF found, later, known, first, late, anchor
  <2>2. known # {} /\ ~ early
    BY <1>2
  <2> HIDE DEF early
  <2> QED BY <2>1, <2>2
<1>6. threshold = given[i].time + horizons[h]
  BY <1>1, <1>3, <1>4
<1>7. first = CHOOSE j \in Candidates(given, i, horizons[h]) :
                \A k \in Candidates(given, i, horizons[h]) : j <= k
  BY <1>2 DEF Min
<1>8. later # {} => first \in later
  <2>1. later \in SUBSET (1 .. n)
    BY <1>1 DEF KnownFrom, ValidPositions
  <2> HIDE DEF later, n
  <2> QED BY <1>1, <2>1, FirstAndLast
<1>9. later # {} => first \in 1 .. n /\ Mid(first) # None
  BY <1>1, <1>8 DEF KnownFrom, ValidPositions
<1> HIDE DEF n, threshold, later, known, first, anchor, found, target
<1>10. CASE later = {} \/ late
  <2>1. later # {} => given[first].time = samples[first].time
    BY <1>4, <1>9
  <2>2. target = Undefined
    BY <1>2, <1>4, <1>6, <1>7, <1>10, <2>1 DEF TargetByDefinition
  <2>3. target.timestamp = None
    BY <2>2 DEF Undefined
  <2>4. found = None
    BY <1>5, <1>10
  <2> QED BY <2>3, <2>4 DEF found, target
<1>11. CASE later # {} /\ ~ late
  <2>1. first \in 1 .. n /\ Mid(first) # None /\ given[first].time = samples[first].time
    BY <1>4, <1>9, <1>11
  <2>2. target = TargetOf(given[i], given[first], threshold)
    BY <1>2, <1>4, <1>6, <1>7, <1>11, <2>1 DEF TargetByDefinition
  <2>3. found = [anchor |-> anchor, target |-> first]
    BY <1>5, <1>11
  <2>4. found # None
    <3>1. anchor \in Nat /\ first \in Nat
      BY <1>1, <1>2, <2>1
    <3> QED BY <2>3, <3>1, NoReturnAssumption
  <2>5. found.anchor = anchor /\ found.target = first
    BY <2>3
  <2>6. target.timestamp = samples[first].time
    BY <2>1, <2>2 DEF TargetOf
  <2>7. target.return["mid"] = Mid(first) - Mid(i)
    <3>1. Mid(first) = given[first].reference.price["mid"] /\ Mid(i) = given[i].reference.price["mid"]
      BY <1>3, <1>4, <2>1 DEF Mid
    <3>2. target.return = Difference(given[first].reference.price, given[i].reference.price)
      BY <2>2 DEF TargetOf
    <3>3. "mid" \in PriceKinds
      BY DEF PriceKinds
    <3> QED BY <1>3, <2>1, <3>1, <3>2, <3>3 DEF Difference
  <2>8. anchor = i \/ anchor > i
    BY <1>1, <1>2, <1>3
  <2>9. \/ target.return["mid"] = Mid(found.target) - Mid(found.anchor)
        \/ found.anchor > i /\ samples[found.anchor].time = samples[i].time
    BY <1>2, <2>5, <2>7, <2>8
  <2> QED BY <2>4, <2>5, <2>6, <2>9 DEF found, target
<1> QED BY <1>10, <1>11

(***************************************************************************)
(* Without a delay align_delayed_returns() agrees with the two indices of  *)
(* align_future_targets, on which rows have a target, at what time and     *)
(* with what return, wherever the prices and the rows without any.         *)
(***************************************************************************)
THEOREM UndelayedAlwaysAgree == LatencySpec => []UndelayedTargetsAgree
<1>1. ASSUME Inv, EvaluationInv, returns # << >>, decision_delay = 0,
             max_observation = max_delay, policy = "KeepUndefined", NEW i \in ValidPositions
      PROVE  LET target == samples[i].targets[horizon]
             IN  IF returns[i] = None THEN target.timestamp = None
                 ELSE /\ target.timestamp = samples[returns[i].target].time
                      /\ \/ target.return["mid"] = Mid(returns[i].target) - Mid(returns[i].anchor)
                         \/ returns[i].anchor > i /\ samples[returns[i].anchor].time = samples[i].time
  <2>1. phase = "written" /\ Evaluation
    BY <1>1 DEF EvaluationInv
  <2>2. Dataset
    BY <1>1, <2>1, WrittenRows
  <2>3. horizon \in DOMAIN horizons /\ Aligned(Len(samples), horizon)
    BY <1>1, <2>1, AlignedSamples DEF Evaluation
  <2>4. horizons[horizon] # 0
    BY <1>1, <2>1, <2>3 DEF Inv, Phases, ValidHorizons
  <2>5. max_delay \in Nat
    BY <1>1, <2>1, ObservationDelaysAssumption DEF Evaluation
  <2>6. returns[i] = DelayedReturn(i, horizons[horizon], 0, max_delay)
    BY <1>1, <2>1 DEF Evaluation, ValidPositions
  <2> HIDE DEF Evaluation
  <2> QED BY <1>1, <2>2, <2>3, <2>4, <2>5, <2>6, UndelayedReturn
<1>2. Inv /\ EvaluationInv => UndelayedTargetsAgree
  BY <1>1 DEF UndelayedTargetsAgree
<1> QED BY EvaluationInvariant, StudyAligns, AlignmentInvariant, <1>2, PTL
===============================================================================
