------------------------ MODULE TargetAlignmentProofs -------------------------
(***************************************************************************)
(* Proofs about TargetAlignment: whatever the samples, the horizons and    *)
(* the greatest delay, the two indices give every row the target that the  *)
(* definition gives it, and the rows that leave the call are valid.        *)
(*                                                                         *)
(* The inductive invariant says which targets are in place by the loop     *)
(* indices, and that no sample the second index has passed could be the    *)
(* target of the next row: it was too early for a row before, whose        *)
(* threshold was no later, or it has no reference.                         *)
(***************************************************************************)
EXTENDS TargetAlignment, DataInduction

(* The rows as they are when the loops have come to a horizon and a sample. *)
DoneBefore(h, i) == h < horizon_index \/ (h = horizon_index /\ i < sample_index)

PartlyAligned(rows) ==
  [i \in DOMAIN rows |->
     [rows[i] EXCEPT !.targets =
        [h \in DOMAIN horizons |->
           IF DoneBefore(h, i) THEN TargetByDefinition(rows, i, horizons[h], max_delay)
           ELSE Undefined]]]

(* No sample between the two indices is a target of the next row. *)
NonePassedOver ==
  (horizon_index <= Len(horizons) /\ sample_index <= Len(given)) =>
    \A j \in sample_index + 1 .. target_index - 1 :
      ~ Meets(given[j], given[sample_index].time + horizons[horizon_index])

Shape ==
  /\ given \in SampleLists /\ horizons \in HorizonLists
  /\ max_delay \in Delays /\ policy \in Policies
  /\ horizon_index \in 1 .. Len(horizons) + 1
  /\ sample_index \in 1 .. Len(given) + 1
  /\ target_index \in 1 .. Len(given) + 1
  /\ phase \in {"called", "aligning", "aligned", "written", "invalid", "rejected"}

Phases ==
  /\ phase \in {"called", "rejected"} => samples = given
  /\ phase = "called" => horizon_index = 1 /\ sample_index = 1 /\ target_index = 1
  /\ phase \notin {"called", "rejected"} => Ordered(given) /\ ValidHorizons(horizons)
  /\ phase = "aligning" => samples = PartlyAligned(given) /\ NonePassedOver
  /\ phase \in {"aligned", "written", "invalid"} =>
       samples = Kept(policy, AlignedByDefinition(given, horizons, max_delay))
  /\ phase # "invalid"

Inv == Shape /\ Phases

-------------------------------------------------------------------------------
(* The samples handed in, of a call. *)
Given == [time : Timestamps, reference : References, targets : {<< >>}]

LEMMA GivenRows ==
  ASSUME Shape
  PROVE  /\ given \in Seq(Given) /\ horizons \in Seq(Timestamps) /\ max_delay \in Timestamps
         /\ DOMAIN given = 1 .. Len(given) /\ DOMAIN horizons = 1 .. Len(horizons)
         /\ Len(given) \in Nat /\ Len(horizons) \in Nat
         /\ \A i \in 1 .. Len(given) : given[i] \in Given /\ given[i].time \in Timestamps
         /\ \A h \in 1 .. Len(horizons) : horizons[h] \in Timestamps
         /\ Timestamps = 0 .. MaxTimestamp
<1>1. given \in Seq(Given) /\ horizons \in Seq(Timestamps) /\ max_delay \in Timestamps
  BY SampleListsAssumption, HorizonListsAssumption, DelaysAssumption DEF Shape, Given
<1>2. \A i \in 1 .. Len(given) : given[i] \in Given
  BY <1>1
<1>3. \A i \in 1 .. Len(given) : given[i].time \in Timestamps
  BY <1>2 DEF Given
<1>4. \A h \in 1 .. Len(horizons) : horizons[h] \in Timestamps
  BY <1>1
<1> QED BY <1>1, <1>2, <1>3, <1>4 DEF Timestamps

(* Rows in order are in order at any distance. *)
LEMMA OrderedFar ==
  ASSUME NEW n \in Nat, NEW time, \A i \in 1 .. n : time[i] \in Nat,
         \A i \in 2 .. n : time[i - 1] <= time[i],
         NEW i \in 1 .. n, NEW j \in 1 .. n, i <= j
  PROVE  time[i] <= time[j]
<1> DEFINE T == {d \in Nat : i + d <= n => time[i] <= time[i + d]}
<1>1. T \in SUBSET Nat /\ 0 \in T
  OBVIOUS
<1>2. ASSUME NEW d \in T
      PROVE  d + 1 \in T
  <2> SUFFICES ASSUME i + (d + 1) <= n
               PROVE  time[i] <= time[i + (d + 1)]
    OBVIOUS
  <2>1. time[i] <= time[i + d]
    BY <1>2
  <2>2. i + (d + 1) \in 2 .. n /\ (i + (d + 1)) - 1 = i + d
    OBVIOUS
  <2>3. time[i + d] <= time[i + (d + 1)]
    BY <2>2
  <2>4. time[i] \in Nat /\ time[i + d] \in Nat /\ time[i + (d + 1)] \in Nat
    BY <2>2
  <2> QED BY <2>1, <2>3, <2>4
<1>3. T = Nat
  <2> HIDE DEF T
  <2> QED BY <1>1, <1>2, NaturalsBySuccessor
<1>4. j - i \in Nat /\ i + (j - i) = j
  OBVIOUS
<1>5. j - i \in T
  <2> HIDE DEF T
  <2> QED BY <1>3, <1>4
<1> QED BY <1>4, <1>5

(* The inner loop stops, at a row that meets the threshold or past the last. *)
LEMMA SearchStops ==
  ASSUME NEW rows, NEW n \in Nat, NEW threshold, NEW first \in 1 .. n + 1
  PROVE  \E j \in first .. n + 1 :
           /\ j <= n => Meets(rows[j], threshold)
           /\ \A k \in first .. j - 1 : ~ Meets(rows[k], threshold)
<1> DEFINE T == {j \in Nat : j >= first /\ (j <= n => Meets(rows[j], threshold))}
<1>1. T \in SUBSET Nat /\ n + 1 \in T
  OBVIOUS
<1>2. PICK x \in T : \A y \in T : x <= y
  <2> HIDE DEF T
  <2> QED BY <1>1, LeastNatural
<1> QED BY <1>1, <1>2

(***************************************************************************)
(* If nothing before the place where the search begins meets the threshold *)
(* then it finds the first candidate, or the place past the last row.      *)
(***************************************************************************)
LEMMA SearchFindsFirst ==
  ASSUME NEW rows, NEW n \in Nat, NEW i \in 1 .. n, NEW threshold,
         NEW first \in i + 1 .. n + 1, NEW found \in first .. n + 1,
         \A k \in i + 1 .. first - 1 : ~ Meets(rows[k], threshold),
         found <= n => Meets(rows[found], threshold),
         \A k \in first .. found - 1 : ~ Meets(rows[k], threshold),
         NEW candidates, candidates = {j \in i + 1 .. n : Meets(rows[j], threshold)}
  PROVE  /\ \A k \in i + 1 .. found - 1 : ~ Meets(rows[k], threshold)
         /\ candidates = {} <=> found = n + 1
         /\ candidates # {} => /\ found \in candidates
                               /\ found = CHOOSE j \in candidates : \A k \in candidates : j <= k
<1>1. \A k \in i + 1 .. found - 1 : ~ Meets(rows[k], threshold)
  OBVIOUS
<1>2. \A j \in candidates : j \in i + 1 .. n /\ Meets(rows[j], threshold)
  OBVIOUS
<1>3. \A j \in candidates : found <= j
  BY <1>1, <1>2
<1>4. found <= n => found \in candidates
  OBVIOUS
<1>5. candidates = {} <=> found = n + 1
  BY <1>2, <1>3, <1>4
<1>6. ASSUME candidates # {}
      PROVE  found = CHOOSE j \in candidates : \A k \in candidates : j <= k
  <2>1. found \in candidates
    BY <1>4, <1>5, <1>6
  <2>2. \A j, k \in candidates : j <= k /\ k <= j => j = k
    BY <1>2
  <2> QED BY <1>3, <2>1, <2>2
<1> QED BY <1>1, <1>4, <1>5, <1>6

-------------------------------------------------------------------------------
(* While the loops run, the rows are those handed in but for their targets. *)
LEMMA SameRows ==
  ASSUME Shape, samples = PartlyAligned(given)
  PROVE  /\ DOMAIN samples = 1 .. Len(given) /\ Len(samples) = Len(given)
         /\ \A i \in 1 .. Len(given) :
              /\ samples[i].time = given[i].time
              /\ samples[i].reference = given[i].reference
              /\ \A threshold : Meets(samples[i], threshold) <=> Meets(given[i], threshold)
<1>1. DOMAIN given = 1 .. Len(given) /\ Len(given) \in Nat
      /\ \A i \in 1 .. Len(given) : given[i] \in Given
  BY GivenRows
<1>2. DOMAIN samples = 1 .. Len(given)
  BY <1>1 DEF PartlyAligned
<1>3. samples \in [1 .. Len(given) -> {samples[i] : i \in 1 .. Len(given)}]
  BY <1>2 DEF PartlyAligned
<1>4. Len(samples) = Len(given)
  <2>1. samples \in Seq({samples[i] : i \in 1 .. Len(given)})
    BY <1>1, <1>3
  <2> QED BY <1>1, <1>2, <2>1
<1>5. ASSUME NEW i \in 1 .. Len(given)
      PROVE  samples[i].time = given[i].time /\ samples[i].reference = given[i].reference
  BY <1>1 DEF PartlyAligned, Given
<1> QED BY <1>2, <1>4, <1>5 DEF Meets, Usable

LEMMA LeastCandidate ==
  ASSUME NEW C \in SUBSET Nat, C # {}
  PROVE  (CHOOSE j \in C : \A k \in C : j <= k) \in C
BY LeastNatural

(* The target of the definition is a target, and one that the validation accepts. *)
LEMMA DefinedTargets ==
  ASSUME Shape, NEW i \in 1 .. Len(given), NEW h \in 1 .. Len(horizons)
  PROVE  /\ TargetByDefinition(given, i, horizons[h], max_delay) \in Target
         /\ ValidTarget(given[i], horizons[h],
                        TargetByDefinition(given, i, horizons[h], max_delay))
<1> DEFINE threshold == given[i].time + horizons[h]
           C == Candidates(given, i, horizons[h])
           first == CHOOSE j \in C : \A k \in C : j <= k
           target == TargetOf(given[i], given[first], threshold)
<1>1. /\ \A j \in 1 .. Len(given) : given[j] \in Given /\ given[j].time \in 0 .. MaxTimestamp
      /\ Len(given) \in Nat /\ horizons[h] \in 0 .. MaxTimestamp
  BY GivenRows
<1>2. Undefined \in Target /\ ValidTarget(given[i], horizons[h], Undefined)
  BY DEF Undefined, Target, ValidTarget
<1>3. ASSUME C # {}
      PROVE  target \in Target /\ ValidTarget(given[i], horizons[h], target)
  <2>1. C \in SUBSET Nat
    BY <1>1 DEF Candidates
  <2>2. first \in C
    <3> HIDE DEF C
    <3> QED BY <1>3, <2>1, LeastCandidate
  <2>3. first \in 1 .. Len(given) /\ Meets(given[first], threshold)
    <3> HIDE DEF first
    <3> QED BY <1>1, <2>2 DEF Candidates
  <2> HIDE DEF first
  <2>4. given[first] \in Given /\ given[i] \in Given
    BY <1>1, <2>3
  <2>5. /\ given[first].time \in 0 .. MaxTimestamp /\ given[i].time \in 0 .. MaxTimestamp
        /\ given[first].time >= threshold /\ horizons[h] \in 0 .. MaxTimestamp
    BY <1>1, <2>3 DEF Meets
  <2>6. /\ given[first].reference.price \in [PriceKinds -> Int \cup {None}]
        /\ given[i].reference.price \in [PriceKinds -> Int \cup {None}]
    BY <2>4, ReferencesAssumption DEF Given, Reference
  <2>7. Difference(given[first].reference.price, given[i].reference.price)
          \in [PriceKinds -> Int \cup {None}]
    BY <2>6 DEF Difference
  <2>8. given[first].time - threshold \in 0 .. MaxTimestamp
    <3>1. \A x, y, z \in 0 .. MaxTimestamp : x >= y + z => x - (y + z) \in 0 .. MaxTimestamp
      BY MaxTimestampAssumption
    <3> QED BY <2>5, <3>1
  <2>9. target \in Target
    BY <2>5, <2>6, <2>7, <2>8 DEF TargetOf, Target, Timestamps
  <2>10. \E kind \in PriceKinds : given[first].reference.price[kind] # None
    BY <2>3 DEF Meets, Usable
  <2>11. given[first].time # None /\ given[i].time <= MaxTimestamp - horizons[h]
    BY <1>1, <2>5, NoneAssumption, MaxTimestampAssumption
  <2>12. ValidTarget(given[i], horizons[h], target)
    BY <2>5, <2>10, <2>11 DEF ValidTarget, TargetOf
  <2> QED BY <2>9, <2>12
<1>4. TargetByDefinition(given, i, horizons[h], max_delay) \in {Undefined, target}
      /\ (C = {} => TargetByDefinition(given, i, horizons[h], max_delay) = Undefined)
  BY DEF TargetByDefinition
<1> HIDE DEF C, target
<1> QED BY <1>2, <1>3, <1>4

(* What an iteration that is not skipped finds. *)
LEMMA FoundIsTarget ==
  ASSUME Inv, Aligning, ~ Overflows(samples[sample_index].time, Horizon),
         NEW found, found = SearchFrom(First, Threshold)
  PROVE  /\ Threshold = given[sample_index].time + Horizon
         /\ found \in 1 .. Len(given) + 1
         /\ \A k \in sample_index + 1 .. found - 1 : ~ Meets(given[k], Threshold)
         /\ TargetByDefinition(given, sample_index, Horizon, max_delay) =
              IF found > Len(samples) \/ samples[found].time - Threshold > max_delay
              THEN Undefined ELSE TargetOf(samples[sample_index], samples[found], Threshold)
<1> DEFINE i == sample_index
           n == Len(given)
           C == Candidates(given, i, Horizon)
<1>1. Shape /\ samples = PartlyAligned(given) /\ NonePassedOver
  BY DEF Inv, Phases, Aligning
<1>2. /\ DOMAIN samples = 1 .. n /\ Len(samples) = n /\ n \in Nat
      /\ \A j \in 1 .. n : /\ samples[j].time = given[j].time
                           /\ samples[j].reference = given[j].reference
                           /\ \A threshold : Meets(samples[j], threshold) <=> Meets(given[j], threshold)
  BY <1>1, SameRows, GivenRows
<1>3. i \in 1 .. n /\ horizon_index \in 1 .. Len(horizons) /\ target_index \in 1 .. n + 1
  BY <1>1, <1>2, GivenRows DEF Aligning, Shape
<1>4. given[i].time \in 0 .. MaxTimestamp /\ Horizon \in 0 .. MaxTimestamp
  BY <1>1, <1>3, GivenRows DEF Horizon
<1>5. Threshold = given[i].time + Horizon
  BY <1>2, <1>3, <1>4, MaxTimestampAssumption DEF Threshold, Overflows
<1>6. First \in i + 1 .. n + 1
  BY <1>2, <1>3 DEF First
<1>7. \A k \in i + 1 .. First - 1 : ~ Meets(given[k], Threshold)
  BY <1>1, <1>3, <1>5 DEF First, NonePassedOver, Horizon
<1> HIDE DEF n
<1>8. /\ found \in First .. n + 1
      /\ found <= n => Meets(samples[found], Threshold)
      /\ \A k \in First .. found - 1 : ~ Meets(samples[k], Threshold)
  <2>1. \E j \in First .. n + 1 :
           /\ j <= n => Meets(samples[j], Threshold)
           /\ \A k \in First .. j - 1 : ~ Meets(samples[k], Threshold)
    <3>1. First \in 1 .. n + 1
      BY <1>2, <1>3, <1>6
    <3>2. n \in Nat
      BY <1>2
    <3> QED BY <3>1, <3>2, SearchStops, Zenon
  <2> QED BY <1>2, <2>1 DEF SearchFrom
<1>9. /\ found <= n => Meets(given[found], Threshold)
      /\ \A k \in First .. found - 1 : ~ Meets(given[k], Threshold)
  BY <1>2, <1>3, <1>6, <1>8
<1>10. C = {j \in i + 1 .. n : Meets(given[j], Threshold)}
  BY <1>5 DEF Candidates, n
<1> HIDE DEF C
<1>11. /\ \A k \in i + 1 .. found - 1 : ~ Meets(given[k], Threshold)
       /\ C = {} <=> found = n + 1
       /\ C # {} => found \in C /\ found = CHOOSE j \in C : \A k \in C : j <= k
  <2>1. n \in Nat /\ i \in 1 .. n /\ First \in i + 1 .. n + 1 /\ found \in First .. n + 1
    BY <1>2, <1>3, <1>6, <1>8
  <2> HIDE DEF i
  <2> QED BY <1>7, <1>9, <1>10, <2>1, SearchFindsFirst, SMTT(30)
<1>12. found \in 1 .. n + 1
  BY <1>2, <1>3, <1>6, <1>8
<1>13. TargetOf(samples[i], given[i], Threshold) = TargetOf(given[i], given[i], Threshold)
       /\ \A j \in 1 .. n : TargetOf(samples[i], samples[j], Threshold)
                              = TargetOf(given[i], given[j], Threshold)
  BY <1>2, <1>3 DEF TargetOf
<1>14. TargetByDefinition(given, i, Horizon, max_delay) =
         IF C = {} \/ given[found].time - Threshold > max_delay
         THEN Undefined ELSE TargetOf(given[i], given[found], Threshold)
  <2> DEFINE first == CHOOSE j \in C : \A k \in C : j <= k
  <2>1. TargetByDefinition(given, i, Horizon, max_delay) =
          IF C = {} \/ given[first].time - Threshold > max_delay
          THEN Undefined ELSE TargetOf(given[i], given[first], Threshold)
    BY <1>5 DEF TargetByDefinition, C
  <2>2. C # {} => found = first
    BY <1>11
  <2> HIDE DEF first
  <2> QED BY <2>1, <2>2
<1>15. (C = {} <=> found > n) /\ (found <= n => samples[found].time = given[found].time)
  BY <1>2, <1>11, <1>12
<1> QED BY <1>2, <1>5, <1>11, <1>12, <1>13, <1>14, <1>15 DEF n

-------------------------------------------------------------------------------
LEMMA InitInv == Init => Inv
<1> SUFFICES ASSUME Init
             PROVE  Inv
  OBVIOUS
<1>1. samples \in Seq(Given) /\ horizons \in Seq(Timestamps)
  BY SampleListsAssumption, HorizonListsAssumption DEF Init, Given
<1>2. Len(samples) \in Nat /\ Len(horizons) \in Nat
  BY <1>1
<1> QED BY <1>2 DEF Init, Inv, Shape, Phases

LEMMA RejectInv == Inv /\ Reject => Inv'
BY DEF Inv, Shape, Phases, Reject

LEMMA RowIs ==
  ASSUME NEW row \in Given, NEW targets
  PROVE  [row EXCEPT !.targets = targets] =
           [time |-> row.time, reference |-> row.reference, targets |-> targets]
BY DEF Given

(* The rows of the invariant, written out. *)
LEMMA PartlyAlignedIs ==
  ASSUME Shape
  PROVE  PartlyAligned(given) =
           [i \in 1 .. Len(given) |->
              [time |-> given[i].time, reference |-> given[i].reference,
               targets |-> [h \in 1 .. Len(horizons) |->
                              IF DoneBefore(h, i)
                              THEN TargetByDefinition(given, i, horizons[h], max_delay)
                              ELSE Undefined]]]
<1>1. /\ DOMAIN given = 1 .. Len(given) /\ DOMAIN horizons = 1 .. Len(horizons)
      /\ \A i \in 1 .. Len(given) : given[i] \in Given
  BY GivenRows
<1> QED BY <1>1, RowIs DEF PartlyAligned

LEMMA BeginInv == Inv /\ Begin => Inv'
<1> SUFFICES ASSUME Inv, Begin
             PROVE  Inv'
  OBVIOUS
<1>1. /\ Shape /\ samples = given /\ phase' = "aligning"
      /\ horizon_index = 1 /\ sample_index = 1 /\ target_index = 1
      /\ UNCHANGED << horizons, max_delay, policy, horizon_index, sample_index,
                      target_index, given >>
  BY DEF Inv, Phases, Begin
<1>2. Shape'
  BY <1>1 DEF Shape
<1>3. \A h \in DOMAIN horizons, i \in DOMAIN given : ~ DoneBefore(h, i)
  BY <1>1, GivenRows DEF DoneBefore
<1>4. samples' = PartlyAligned(given)'
  BY <1>1, <1>3 DEF Begin, PartlyAligned, DoneBefore
<1>5. NonePassedOver'
  BY <1>1, GivenRows DEF NonePassedOver
<1> QED BY <1>1, <1>2, <1>4, <1>5 DEF Begin, Inv, Phases

(* What was passed over for a row need not be looked at for the next: its threshold is no lower. *)
LEMMA NotPassedByNext ==
  ASSUME Shape, Ordered(given), NEW i \in 1 .. Len(given), i + 1 <= Len(given),
         NEW t \in 1 .. Len(given) + 1, NEW h \in 1 .. Len(horizons),
         \A k \in i + 1 .. t - 1 : ~ Meets(given[k], given[i].time + horizons[h])
  PROVE  \A j \in i + 2 .. t - 1 : ~ Meets(given[j], given[i + 1].time + horizons[h])
<1>1. /\ Len(given) \in Nat
      /\ \A k \in 1 .. Len(given) : given[k].time \in 0 .. MaxTimestamp
      /\ horizons[h] \in 0 .. MaxTimestamp
  BY GivenRows
<1>2. i + 1 \in 2 .. Len(given) /\ (i + 1) - 1 = i
  BY <1>1
<1>3. given[i].time <= given[i + 1].time
  BY <1>2 DEF Ordered
<1> SUFFICES ASSUME NEW j \in i + 2 .. t - 1
             PROVE  ~ Meets(given[j], given[i + 1].time + horizons[h])
  OBVIOUS
<1>4. j \in 1 .. Len(given) /\ j \in i + 1 .. t - 1
  <2>1. \A n, x \in Nat : \A y \in 1 .. n + 1 : \A z \in x + 2 .. y - 1 :
          x >= 1 => z \in 1 .. n /\ z \in x + 1 .. y - 1
    OBVIOUS
  <2> QED BY <1>1, <2>1
<1>5. /\ given[j].time \in Int /\ horizons[h] \in Int
      /\ given[i].time \in Int /\ given[i + 1].time \in Int
  BY <1>1, <1>2, <1>4
<1>6. given[j].time >= given[i + 1].time + horizons[h]
        => given[j].time >= given[i].time + horizons[h]
  <2>1. \A a, b, c, d \in Int : a <= b => (d >= b + c => d >= a + c)
    OBVIOUS
  <2> QED BY <1>3, <1>5, <2>1, Zenon
<1> QED BY <1>4, <1>6 DEF Meets

(* Past the last horizon every target is in place. *)
LEMMA AllAligned ==
  ASSUME Shape, horizon_index > Len(horizons)
  PROVE  PartlyAligned(given) = AlignedByDefinition(given, horizons, max_delay)
<1>1. \A h \in DOMAIN horizons, i \in DOMAIN given : DoneBefore(h, i)
  BY GivenRows DEF Shape, DoneBefore
<1> QED BY <1>1 DEF PartlyAligned, AlignedByDefinition

(***************************************************************************)
(* An iteration preserves the invariant if it gives the row its target,    *)
(* leaves the second index where nothing before it could have been that    *)
(* target, and goes on to the next row.                                    *)
(***************************************************************************)
LEMMA IterationInv ==
  ASSUME Inv, Aligning,
         UNCHANGED << horizons, max_delay, policy, horizon_index, phase, given >>,
         sample_index' = sample_index + 1,
         target_index' \in 1 .. Len(given) + 1,
         \A k \in sample_index + 1 .. target_index' - 1 :
           ~ Meets(given[k], given[sample_index].time + Horizon),
         samples' = [samples EXCEPT ![sample_index].targets[horizon_index] =
                       TargetByDefinition(given, sample_index, Horizon, max_delay)]
  PROVE  Inv'
<1>1. /\ Shape /\ samples = PartlyAligned(given) /\ NonePassedOver
      /\ Ordered(given) /\ ValidHorizons(horizons) /\ phase = "aligning"
  BY DEF Inv, Phases, Aligning
<1>2. /\ Len(given) \in Nat /\ Len(horizons) \in Nat
      /\ DOMAIN given = 1 .. Len(given)
      /\ \A i \in 1 .. Len(given) : given[i].time \in 0 .. MaxTimestamp
      /\ \A h \in 1 .. Len(horizons) : horizons[h] \in 0 .. MaxTimestamp
  BY <1>1, GivenRows
<1>3. Len(samples) = Len(given)
  BY <1>1, SameRows
<1>4. sample_index \in 1 .. Len(given) /\ horizon_index \in 1 .. Len(horizons)
  BY <1>1, <1>2, <1>3 DEF Shape, Aligning
<1>5. Shape'
  BY <1>1, <1>2, <1>4 DEF Shape
<1>6. samples' = PartlyAligned(given)'
  <2> DEFINE n == Len(given)
             m == Len(horizons)
             si == sample_index
             hi == horizon_index
             T == [h \in 1 .. m |-> [i \in 1 .. n |->
                     TargetByDefinition(given, i, horizons[h], max_delay)]]
             rowsTo(s) ==
               [i \in 1 .. n |->
                  [time |-> given[i].time, reference |-> given[i].reference,
                   targets |-> [h \in 1 .. m |->
                                  IF h < hi \/ (h = hi /\ i < s) THEN T[h][i] ELSE Undefined]]]
  <2>1. samples = rowsTo(si)
    BY <1>1, PartlyAlignedIs DEF DoneBefore
  <2>2. PartlyAligned(given)' = rowsTo(si + 1)
    <3>1. /\ \A i \in 1 .. n : given[i] \in Given
          /\ DOMAIN horizons = 1 .. m
      BY <1>1, GivenRows
    <3>2. \A i \in 1 .. n : \A x : [given[i] EXCEPT !.targets = x] =
             [time |-> given[i].time, reference |-> given[i].reference, targets |-> x]
      BY <3>1, RowIs
    <3>3. PartlyAligned(given)' =
            [i \in 1 .. n |->
               [given[i] EXCEPT !.targets =
                  [h \in 1 .. m |->
                     IF h < hi \/ (h = hi /\ i < si + 1)
                     THEN TargetByDefinition(given, i, horizons[h], max_delay) ELSE Undefined]]]
      BY <1>2, <3>1 DEF PartlyAligned, DoneBefore
    <3>4. \A i \in 1 .. n, h \in 1 .. m :
            TargetByDefinition(given, i, horizons[h], max_delay) = T[h][i]
      OBVIOUS
    <3> HIDE DEF T, n, m
    <3>5. \A i \in 1 .. n :
            [h \in 1 .. m |->
               IF h < hi \/ (h = hi /\ i < si + 1)
               THEN TargetByDefinition(given, i, horizons[h], max_delay) ELSE Undefined]
            = [h \in 1 .. m |->
                 IF h < hi \/ (h = hi /\ i < si + 1) THEN T[h][i] ELSE Undefined]
      BY <3>4
    <3>6. PartlyAligned(given)' =
            [i \in 1 .. n |->
               [given[i] EXCEPT !.targets =
                  [h \in 1 .. m |->
                     IF h < hi \/ (h = hi /\ i < si + 1) THEN T[h][i] ELSE Undefined]]]
      BY <3>3, <3>5
    <3> QED BY <3>2, <3>6, Zenon
  <2>3. TargetByDefinition(given, si, Horizon, max_delay) = T[hi][si]
    BY <1>4 DEF Horizon
  <2>4. samples' = [samples EXCEPT ![si] = [samples[si] EXCEPT !.targets =
                      [samples[si].targets EXCEPT ![hi] = T[hi][si]]]]
    BY <2>3
  <2>5. n \in Nat /\ m \in Nat /\ si \in 1 .. n /\ hi \in 1 .. m
    BY <1>2, <1>4
  <2> HIDE DEF T, n, m, si, hi
  <2>6. [samples[si].targets EXCEPT ![hi] = T[hi][si]] = rowsTo(si + 1)[si].targets
    <3>1. samples[si].targets =
            [h \in 1 .. m |-> IF h < hi \/ (h = hi /\ si < si) THEN T[h][si] ELSE Undefined]
      BY <2>1, <2>5
    <3>2. rowsTo(si + 1)[si].targets =
            [h \in 1 .. m |-> IF h < hi \/ (h = hi /\ si < si + 1) THEN T[h][si] ELSE Undefined]
      BY <2>5
    <3>3. \A h \in 1 .. m :
            h # hi => ((h < hi \/ (h = hi /\ si < si)) <=> (h < hi \/ (h = hi /\ si < si + 1)))
      BY <2>5
    <3>4. si < si + 1
      BY <2>5
    <3> HIDE DEF rowsTo
    <3> QED BY <2>5, <3>1, <3>2, <3>3, <3>4
  <2>7. \A i \in 1 .. n : i # si => rowsTo(si)[i] = rowsTo(si + 1)[i]
    <3> SUFFICES ASSUME NEW i \in 1 .. n, i # si
                 PROVE  rowsTo(si)[i] = rowsTo(si + 1)[i]
      OBVIOUS
    <3>1. i < si <=> i < si + 1
      BY <2>5
    <3> QED BY <3>1
  <2>8. samples'[si] = rowsTo(si + 1)[si]
    BY <2>1, <2>4, <2>5, <2>6
  <2>9. \A i \in 1 .. n : samples'[i] = rowsTo(si + 1)[i]
    BY <2>1, <2>4, <2>5, <2>7, <2>8
  <2>10. samples' = [i \in 1 .. n |-> samples'[i]]
    BY <2>1, <2>4
  <2> QED BY <2>2, <2>9, <2>10
<1>7. NonePassedOver'
  <2> DEFINE t == target_index'
  <2>1. ASSUME sample_index + 1 <= Len(given)
        PROVE  \A j \in sample_index + 2 .. t - 1 :
                 ~ Meets(given[j], given[sample_index + 1].time + horizons[horizon_index])
    <3>1. t \in 1 .. Len(given) + 1
      OBVIOUS
    <3>2. \A k \in sample_index + 1 .. t - 1 :
            ~ Meets(given[k], given[sample_index].time + horizons[horizon_index])
      BY DEF Horizon
    <3> HIDE DEF t
    <3> QED BY <1>1, <1>4, <2>1, <3>1, <3>2, NotPassedByNext
  <2>2. sample_index + 1 + 1 = sample_index + 2
    BY <1>2, <1>4
  <2> QED BY <2>1, <2>2 DEF NonePassedOver
<1> QED BY <1>1, <1>5, <1>6, <1>7 DEF Inv, Phases

(* The next row has no target yet. *)
LEMMA StillUndefined ==
  ASSUME Inv, Aligning
  PROVE  samples = [samples EXCEPT ![sample_index].targets[horizon_index] = Undefined]
<1>1. Shape /\ samples = PartlyAligned(given)
  BY DEF Inv, Phases, Aligning
<1>2. /\ DOMAIN samples = 1 .. Len(given) /\ Len(samples) = Len(given)
      /\ Len(given) \in Nat /\ Len(horizons) \in Nat
  BY <1>1, SameRows, GivenRows
<1>3. sample_index \in 1 .. Len(given) /\ horizon_index \in 1 .. Len(horizons)
  BY <1>1, <1>2 DEF Shape, Aligning
<1>4. ~ DoneBefore(horizon_index, sample_index)
  BY <1>3 DEF DoneBefore
<1> DEFINE row == samples[sample_index]
<1>5. row = [time |-> given[sample_index].time, reference |-> given[sample_index].reference,
             targets |-> [h \in 1 .. Len(horizons) |->
                            IF DoneBefore(h, sample_index)
                            THEN TargetByDefinition(given, sample_index, horizons[h], max_delay)
                            ELSE Undefined]]
  BY <1>1, <1>3, PartlyAlignedIs
<1>6. row.targets = [row.targets EXCEPT ![horizon_index] = Undefined]
  BY <1>3, <1>4, <1>5
<1>7. row = [row EXCEPT !.targets = [row.targets EXCEPT ![horizon_index] = Undefined]]
  BY <1>5, <1>6
<1>8. samples = [i \in 1 .. Len(given) |-> samples[i]]
  BY <1>1, PartlyAlignedIs
<1> QED BY <1>3, <1>7, <1>8

LEMMA SkipOverflowInv == Inv /\ SkipOverflow => Inv'
<1> SUFFICES ASSUME Inv, SkipOverflow
             PROVE  Inv'
  OBVIOUS
<1>1. /\ Aligning /\ Shape /\ samples = PartlyAligned(given) /\ NonePassedOver
      /\ Overflows(samples[sample_index].time, Horizon)
  BY DEF Inv, Phases, Aligning, SkipOverflow
<1>2. /\ Len(samples) = Len(given) /\ Len(given) \in Nat /\ Len(horizons) \in Nat
      /\ \A j \in 1 .. Len(given) : samples[j].time = given[j].time
      /\ \A j \in 1 .. Len(given) : given[j].time \in 0 .. MaxTimestamp
      /\ \A h \in 1 .. Len(horizons) : horizons[h] \in 0 .. MaxTimestamp
  BY <1>1, SameRows, GivenRows
<1>3. /\ sample_index \in 1 .. Len(given) /\ horizon_index \in 1 .. Len(horizons)
      /\ target_index \in 1 .. Len(given) + 1
  BY <1>1, <1>2 DEF Shape, Aligning
<1>4. given[sample_index].time + Horizon > MaxTimestamp
  BY <1>1, <1>2, <1>3, MaxTimestampAssumption DEF Overflows, Horizon
<1>5. Candidates(given, sample_index, Horizon) = {}
  <2>1. \A j \in sample_index + 1 .. Len(given) : j \in 1 .. Len(given)
    BY <1>2, <1>3
  <2>2. Horizon \in 0 .. MaxTimestamp
    BY <1>2, <1>3 DEF Horizon
  <2>3. \A j \in 1 .. Len(given) : ~ (given[j].time >= given[sample_index].time + Horizon)
    BY <1>2, <1>3, <1>4, <2>2, MaxTimestampAssumption
  <2> QED BY <2>1, <2>3 DEF Candidates, Meets
<1>6. TargetByDefinition(given, sample_index, Horizon, max_delay) = Undefined
  BY <1>5 DEF TargetByDefinition
<1>7. samples' = [samples EXCEPT ![sample_index].targets[horizon_index] =
                    TargetByDefinition(given, sample_index, Horizon, max_delay)]
  BY <1>1, <1>6, StillUndefined DEF SkipOverflow
<1>8. \A k \in sample_index + 1 .. target_index' - 1 :
        ~ Meets(given[k], given[sample_index].time + Horizon)
  BY <1>1, <1>2, <1>3 DEF NonePassedOver, SkipOverflow, Horizon
<1>9. /\ UNCHANGED << horizons, max_delay, policy, horizon_index, phase, given >>
      /\ sample_index' = sample_index + 1
      /\ target_index' \in 1 .. Len(given) + 1
  BY <1>3 DEF SkipOverflow
<1> QED BY <1>1, <1>7, <1>8, <1>9, IterationInv

LEMMA FindNoneInv == Inv /\ FindNone => Inv'
<1> SUFFICES ASSUME Inv, FindNone
             PROVE  Inv'
  OBVIOUS
<1> DEFINE found == SearchFrom(First, Threshold)
<1>1. /\ Aligning /\ ~ Overflows(samples[sample_index].time, Horizon)
      /\ found <= Len(samples) => samples[found].time - Threshold > max_delay
      /\ UNCHANGED << samples, horizons, max_delay, policy, horizon_index, phase, given >>
      /\ sample_index' = sample_index + 1 /\ target_index' = found
  BY DEF FindNone
<1> HIDE DEF found
<1>2. /\ Threshold = given[sample_index].time + Horizon
      /\ found \in 1 .. Len(given) + 1
      /\ \A k \in sample_index + 1 .. found - 1 : ~ Meets(given[k], Threshold)
      /\ TargetByDefinition(given, sample_index, Horizon, max_delay) =
           IF found > Len(samples) \/ samples[found].time - Threshold > max_delay
           THEN Undefined ELSE TargetOf(samples[sample_index], samples[found], Threshold)
  BY <1>1, FoundIsTarget DEF found
<1>3. Len(samples) \in Nat /\ Len(given) \in Nat
  BY SameRows, GivenRows, <1>1 DEF Inv, Phases, Aligning
<1>4. TargetByDefinition(given, sample_index, Horizon, max_delay) = Undefined
  BY <1>1, <1>2, <1>3
<1>5. samples' = [samples EXCEPT ![sample_index].targets[horizon_index] =
                    TargetByDefinition(given, sample_index, Horizon, max_delay)]
  BY <1>1, <1>4, StillUndefined
<1> QED BY <1>1, <1>2, <1>5, IterationInv

LEMMA FindTargetInv == Inv /\ FindTarget => Inv'
<1> SUFFICES ASSUME Inv, FindTarget
             PROVE  Inv'
  OBVIOUS
<1> DEFINE found == SearchFrom(First, Threshold)
           target == TargetOf(samples[sample_index], samples[found], Threshold)
<1>1. /\ Aligning /\ ~ Overflows(samples[sample_index].time, Horizon)
      /\ found <= Len(samples) /\ samples[found].time - Threshold <= max_delay
      /\ samples' = [samples EXCEPT ![sample_index].targets[horizon_index] = target]
      /\ UNCHANGED << horizons, max_delay, policy, horizon_index, phase, given >>
      /\ sample_index' = sample_index + 1 /\ target_index' = found
  BY DEF FindTarget
<1> HIDE DEF found
<1>2. /\ Threshold = given[sample_index].time + Horizon
      /\ found \in 1 .. Len(given) + 1
      /\ \A k \in sample_index + 1 .. found - 1 : ~ Meets(given[k], Threshold)
      /\ TargetByDefinition(given, sample_index, Horizon, max_delay) =
           IF found > Len(samples) \/ samples[found].time - Threshold > max_delay
           THEN Undefined ELSE target
  BY <1>1, FoundIsTarget DEF found
<1> HIDE DEF target
<1>3. Shape /\ samples = PartlyAligned(given)
  BY <1>1 DEF Inv, Phases, Aligning
<1>4. /\ Len(samples) = Len(given) /\ Len(given) \in Nat
      /\ \A j \in 1 .. Len(given) : samples[j].time = given[j].time
      /\ \A j \in 1 .. Len(given) : given[j].time \in 0 .. MaxTimestamp
      /\ \A h \in 1 .. Len(horizons) : horizons[h] \in 0 .. MaxTimestamp
      /\ max_delay \in 0 .. MaxTimestamp /\ Len(horizons) \in Nat
  BY <1>3, SameRows, GivenRows
<1>5. found \in 1 .. Len(given) /\ sample_index \in 1 .. Len(given)
      /\ horizon_index \in 1 .. Len(horizons)
  BY <1>1, <1>2, <1>3, <1>4 DEF Shape, Aligning
<1>6. ~ (found > Len(samples)) /\ ~ (samples[found].time - Threshold > max_delay)
  <2>1. samples[found].time \in Int /\ max_delay \in Int
    BY <1>4, <1>5, MaxTimestampAssumption
  <2>2. Threshold \in Int
    BY <1>2, <1>4, <1>5, MaxTimestampAssumption DEF Horizon
  <2> QED BY <1>1, <1>4, <1>5, <2>1, <2>2
<1>7. TargetByDefinition(given, sample_index, Horizon, max_delay) = target
  BY <1>2, <1>6
<1> QED BY <1>1, <1>2, <1>7, IterationInv

LEMMA NextHorizonInv == Inv /\ NextHorizon => Inv'
<1> SUFFICES ASSUME Inv, NextHorizon
             PROVE  Inv'
  OBVIOUS
<1>1. /\ Shape /\ samples = PartlyAligned(given) /\ phase = "aligning"
      /\ Ordered(given) /\ ValidHorizons(horizons)
      /\ horizon_index <= Len(horizons) /\ sample_index > Len(samples)
      /\ horizon_index' = horizon_index + 1 /\ sample_index' = 1 /\ target_index' = 1
      /\ UNCHANGED << samples, horizons, max_delay, policy, phase, given >>
  BY DEF Inv, Phases, NextHorizon
<1>2. /\ Len(samples) = Len(given) /\ Len(given) \in Nat /\ Len(horizons) \in Nat
      /\ DOMAIN given = 1 .. Len(given) /\ DOMAIN horizons = 1 .. Len(horizons)
  BY <1>1, SameRows, GivenRows
<1>3. Shape'
  BY <1>1, <1>2 DEF Shape
<1>4. \A h \in DOMAIN horizons, i \in DOMAIN given : DoneBefore(h, i)' <=> DoneBefore(h, i)
  BY <1>1, <1>2 DEF Shape, DoneBefore
<1>5. PartlyAligned(given)' = PartlyAligned(given)
  <2>1. \A i \in DOMAIN given :
          [h \in DOMAIN horizons |->
             IF h < horizon_index' \/ (h = horizon_index' /\ i < sample_index')
             THEN TargetByDefinition(given, i, horizons[h], max_delay) ELSE Undefined]
          = [h \in DOMAIN horizons |->
               IF h < horizon_index \/ (h = horizon_index /\ i < sample_index)
               THEN TargetByDefinition(given, i, horizons[h], max_delay) ELSE Undefined]
    BY <1>4 DEF DoneBefore
  <2> QED BY <1>1, <2>1 DEF PartlyAligned, DoneBefore
<1>6. NonePassedOver'
  BY <1>1, <1>2 DEF NonePassedOver
<1> QED BY <1>1, <1>3, <1>5, <1>6 DEF Inv, Phases

LEMMA FinishInv == Inv /\ Finish => Inv'
<1> SUFFICES ASSUME Inv, Finish
             PROVE  Inv'
  OBVIOUS
<1>1. /\ Shape /\ samples = PartlyAligned(given) /\ phase' = "aligned"
      /\ Ordered(given) /\ ValidHorizons(horizons) /\ horizon_index > Len(horizons)
      /\ samples' = Kept(policy, samples)
      /\ UNCHANGED << horizons, max_delay, policy, horizon_index, sample_index,
                      target_index, given >>
  BY DEF Inv, Phases, Finish
<1>2. samples = AlignedByDefinition(given, horizons, max_delay)
  BY <1>1, AllAligned
<1> QED BY <1>1, <1>2 DEF Inv, Phases, Shape

-------------------------------------------------------------------------------
(* Discarding takes the rows in turn, and appends those that stay. *)
LEMMA KeptInTurn ==
  ASSUME NEW B, NEW rows \in Seq(B), NEW missing
  PROVE  \E kept :
           /\ kept[0] = << >>
           /\ \A n \in 1 .. Len(rows) :
                kept[n] = IF missing = "KeepUndefined" \/ Complete(rows[n])
                          THEN Append(kept[n - 1], rows[n]) ELSE kept[n - 1]
           /\ Kept(missing, rows) = kept[Len(rows)]
<1> DEFINE A == Seq(B)
           Stays(row) == missing = "KeepUndefined" \/ Complete(row)
           step == [x \in A \X B |-> IF Stays(x[2]) THEN Append(x[1], x[2]) ELSE x[1]]
           Def(f) == [n \in 0 .. Len(rows) |->
                        IF n = 0 THEN << >>
                        ELSE IF missing = "KeepUndefined" \/ Complete(rows[n])
                             THEN Append(f[n - 1], rows[n])
                        ELSE f[n - 1]]
           kept == CHOOSE f : f = Def(f)
<1>1. step \in [A \X B -> A] /\ << >> \in A
  OBVIOUS
<1>2. \A s \in A, b \in B :
        step[<< s, b >>] = IF missing = "KeepUndefined" \/ Complete(b) THEN Append(s, b) ELSE s
  OBVIOUS
<1>3. Len(rows) \in Nat /\ \A n \in 1 .. Len(rows) : rows[n] \in B
  OBVIOUS
<1> HIDE DEF step
<1>4. PICK g : IsFold(g, A, step, << >>, rows)
  BY <1>1, FoldExists
<1>5. /\ g \in [0 .. Len(rows) -> A]
      /\ g[0] = << >>
      /\ \A n \in 1 .. Len(rows) : g[n] = step[<< g[n - 1], rows[n] >>]
  BY <1>4 DEF IsFold
<1>6. g = Def(g)
  <2>1. \A n \in 0 .. Len(rows) : n # 0 =>
          g[n] = IF missing = "KeepUndefined" \/ Complete(rows[n])
                 THEN Append(g[n - 1], rows[n]) ELSE g[n - 1]
    <3> SUFFICES ASSUME NEW n \in 1 .. Len(rows)
                 PROVE  g[n] = IF missing = "KeepUndefined" \/ Complete(rows[n])
                               THEN Append(g[n - 1], rows[n]) ELSE g[n - 1]
      BY <1>3
    <3> HIDE DEF A
    <3>1. g[n - 1] \in A /\ rows[n] \in B
      BY <1>3, <1>5
    <3> QED BY <3>1, <1>2, <1>5
  <2> HIDE DEF A
  <2> QED BY <2>1, <1>5
<1>7. kept = Def(kept)
  <2> HIDE DEF Def
  <2> QED BY <1>6
<1>8. Kept(missing, rows) = kept[Len(rows)]
  BY DEF Kept
<1> HIDE DEF kept
<1>9. \A n \in 0 .. Len(rows) : n # 0 =>
        kept[n] = IF missing = "KeepUndefined" \/ Complete(rows[n])
                  THEN Append(kept[n - 1], rows[n]) ELSE kept[n - 1]
  BY <1>7
<1>10. kept[0] = << >>
  BY <1>3, <1>7
<1> HIDE DEF Def, A
<1>11. \A n \in 1 .. Len(rows) : n \in 0 .. Len(rows) /\ n # 0
  BY <1>3
<1> QED BY <1>8, <1>9, <1>10, <1>11

(* Discarding leaves rows of the list, in their order. *)
LEMMA KeptRows ==
  ASSUME NEW B, \A b \in B : b.time \in Nat,
         NEW rows \in Seq(B), Ordered(rows), NEW missing
  PROVE  Kept(missing, rows) \in Seq(B) /\ Ordered(Kept(missing, rows))
<1>1. PICK kept :
        /\ kept[0] = << >>
        /\ \A n \in 1 .. Len(rows) :
             kept[n] = IF missing = "KeepUndefined" \/ Complete(rows[n])
                       THEN Append(kept[n - 1], rows[n]) ELSE kept[n - 1]
        /\ Kept(missing, rows) = kept[Len(rows)]
  BY KeptInTurn
<1>3. Len(rows) \in Nat /\ \A n \in 1 .. Len(rows) : rows[n] \in B
  OBVIOUS
<1> DEFINE P(n) == /\ kept[n] \in Seq(B)
                   /\ Ordered(kept[n])
                   /\ n > 0 => \A k \in 1 .. Len(kept[n]) : kept[n][k].time <= rows[n].time
           T == {n \in Nat : n <= Len(rows) => P(n)}
<1>9. T \in SUBSET Nat /\ 0 \in T
  <2>1. kept[0] = << >>
    BY <1>1
  <2>2. << >> \in Seq(B) /\ Len(<< >>) = 0
    OBVIOUS
  <2>3. Ordered(<< >>)
    BY <2>2 DEF Ordered
  <2>4. P(0)
    BY <2>1, <2>2, <2>3
  <2> HIDE DEF P
  <2> QED BY <2>4
<1>10. ASSUME NEW n \in T, n + 1 <= Len(rows)
       PROVE  P(n + 1)
  <2> DEFINE before == kept[n]
             row == rows[n + 1]
  <2>1. n \in Nat /\ n + 1 \in 1 .. Len(rows) /\ (n + 1) - 1 = n /\ n <= Len(rows)
    BY <1>3, <1>10
  <2>2. /\ before \in Seq(B) /\ Ordered(before)
        /\ n > 0 => \A k \in 1 .. Len(before) : before[k].time <= rows[n].time
    BY <1>10, <2>1
  <2>3. row \in B /\ row.time \in Nat
    BY <1>3, <2>1
  <2>4. \A k \in 1 .. Len(before) : before[k].time <= row.time
    <3>1. CASE n = 0
      <4>1. before = << >>
        BY <1>1, <3>1
      <4> QED BY <4>1
    <3>2. CASE n > 0
      <4>1. n + 1 \in 2 .. Len(rows) /\ n \in 1 .. Len(rows)
        BY <2>1, <3>2
      <4>2. rows[n].time <= row.time
        BY <2>1, <4>1 DEF Ordered
      <4>3. rows[n].time \in Nat /\ \A k \in 1 .. Len(before) : before[k].time \in Nat
        BY <1>3, <2>2, <4>1
      <4>4. \A x, y, z \in Nat : x <= y /\ y <= z => x <= z
        OBVIOUS
      <4> QED BY <2>2, <2>3, <3>2, <4>2, <4>3, <4>4
    <3> QED BY <2>1, <3>1, <3>2
  <2>5. kept[n + 1] = IF missing = "KeepUndefined" \/ Complete(row)
                      THEN Append(before, row) ELSE before
    BY <1>1, <2>1
  <2>6. /\ Append(before, row) \in Seq(B)
        /\ Len(Append(before, row)) = Len(before) + 1 /\ Len(before) \in Nat
        /\ \A k \in 1 .. Len(before) : Append(before, row)[k] = before[k]
        /\ Append(before, row)[Len(before) + 1] = row
    BY <2>2, <2>3
  <2>7. \A k \in 1 .. Len(before) + 1 : Append(before, row)[k].time <= row.time
    BY <2>3, <2>4, <2>6
  <2>8. Ordered(Append(before, row))
    <3> SUFFICES ASSUME NEW i \in 2 .. Len(before) + 1
                 PROVE  Append(before, row)[i - 1].time <= Append(before, row)[i].time
      BY <2>6 DEF Ordered
    <3>1. CASE i = Len(before) + 1
      <4>1. i - 1 \in 1 .. Len(before) + 1
        BY <2>6
      <4>2. Append(before, row)[i - 1].time <= row.time
        BY <2>7, <4>1
      <4>3. Append(before, row)[i] = row
        BY <2>6, <3>1
      <4> QED BY <4>2, <4>3
    <3>2. CASE i # Len(before) + 1
      <4>1. i \in 2 .. Len(before) /\ i \in 1 .. Len(before) /\ i - 1 \in 1 .. Len(before)
        BY <2>6, <3>2
      <4>2. before[i - 1].time <= before[i].time
        BY <2>2, <4>1 DEF Ordered
      <4>3. Append(before, row)[i - 1] = before[i - 1] /\ Append(before, row)[i] = before[i]
        BY <2>6, <4>1
      <4> QED BY <4>2, <4>3
    <3> QED BY <3>1, <3>2
  <2> HIDE DEF before, row
  <2>9. CASE missing = "KeepUndefined" \/ Complete(row)
    <3>1. kept[n + 1] = Append(before, row)
      BY <2>5, <2>9
    <3> QED BY <2>6, <2>7, <2>8, <3>1 DEF row
  <2>10. CASE ~ (missing = "KeepUndefined" \/ Complete(row))
    <3>1. kept[n + 1] = before
      BY <2>5, <2>10
    <3> QED BY <2>2, <2>4, <3>1 DEF row
  <2> QED BY <2>9, <2>10
<1>11. T = Nat
  <2> HIDE DEF P
  <2>1. \A n \in T : n + 1 \in T
    BY <1>9, <1>10
  <2> HIDE DEF T
  <2> QED BY <1>9, <2>1, NaturalsBySuccessor
<1>12. P(Len(rows))
  <2> HIDE DEF P
  <2> QED BY <1>3, <1>11
<1> QED BY <1>1, <1>12

(* A row that stays is at its rank among those that stay. *)
LEMMA KeptExactly ==
  ASSUME NEW B, NEW rows \in Seq(B), NEW missing
  PROVE  LET stays == {i \in DOMAIN rows : missing = "KeepUndefined" \/ Complete(rows[i])}
         IN  /\ Len(Kept(missing, rows)) = Cardinality(stays)
             /\ \A i \in stays :
                  Kept(missing, rows)[Cardinality({j \in stays : j <= i})] = rows[i]
<1> DEFINE Stays(i) == missing = "KeepUndefined" \/ Complete(rows[i])
           S(n) == {i \in 1 .. n : Stays(i)}
<1>1. PICK kept :
        /\ kept[0] = << >>
        /\ \A n \in 1 .. Len(rows) :
             kept[n] = IF Stays(n) THEN Append(kept[n - 1], rows[n]) ELSE kept[n - 1]
        /\ Kept(missing, rows) = kept[Len(rows)]
  BY KeptInTurn
<1>2. Len(rows) \in Nat /\ DOMAIN rows = 1 .. Len(rows) /\ \A n \in 1 .. Len(rows) : rows[n] \in B
  OBVIOUS
<1> HIDE DEF Stays
<1>3. S(0) = {}
  OBVIOUS
<1>4. \A n \in Nat : S(n + 1) = IF Stays(n + 1) THEN S(n) \cup {n + 1} ELSE S(n)
  <2> SUFFICES ASSUME NEW n \in Nat
               PROVE  S(n + 1) = IF Stays(n + 1) THEN S(n) \cup {n + 1} ELSE S(n)
    OBVIOUS
  <2>1. 1 .. n + 1 = (1 .. n) \cup {n + 1}
    OBVIOUS
  <2> QED BY <2>1
<1>5. \A n \in Nat : \A i \in S(n) : i \in 1 .. n
  OBVIOUS
<1>6. \A n \in Nat : IsFiniteSet(S(n)) /\ Cardinality(S(n)) \in Nat /\ n + 1 \notin S(n)
  <2> SUFFICES ASSUME NEW n \in Nat
               PROVE  IsFiniteSet(S(n)) /\ Cardinality(S(n)) \in Nat /\ n + 1 \notin S(n)
    OBVIOUS
  <2>1. IsFiniteSet(1 .. n)
    BY FS_Interval
  <2>2. S(n) \in SUBSET (1 .. n) /\ n + 1 \notin S(n)
    OBVIOUS
  <2> HIDE DEF S
  <2>3. IsFiniteSet(S(n))
    BY <2>1, <2>2, FS_Subset
  <2> QED BY <2>2, <2>3, FS_CardinalityType
<1> DEFINE P(n) == /\ kept[n] \in Seq(B)
                   /\ Len(kept[n]) = Cardinality(S(n))
                   /\ \A i \in S(n) : /\ Cardinality(S(i)) \in 1 .. Len(kept[n])
                                      /\ kept[n][Cardinality(S(i))] = rows[i]
           T == {n \in Nat : n <= Len(rows) => P(n)}
<1>7. T \in SUBSET Nat /\ 0 \in T
  <2>1. << >> \in Seq(B) /\ Len(<< >>) = 0 /\ Cardinality({}) = 0
    BY FS_EmptySet
  <2> HIDE DEF S
  <2>2. P(0)
    BY <2>1, <1>1, <1>3
  <2> HIDE DEF P
  <2> QED BY <2>2
<1>8. ASSUME NEW n \in T, n + 1 <= Len(rows)
      PROVE  P(n + 1)
  <2> DEFINE before == kept[n]
             row == rows[n + 1]
  <2> HIDE DEF S
  <2>1. n \in Nat /\ n + 1 \in 1 .. Len(rows) /\ (n + 1) - 1 = n /\ n <= Len(rows)
    BY <1>2, <1>8
  <2>2. /\ before \in Seq(B) /\ Len(before) = Cardinality(S(n))
        /\ \A i \in S(n) : /\ Cardinality(S(i)) \in 1 .. Len(before)
                           /\ before[Cardinality(S(i))] = rows[i]
    BY <1>8, <2>1
  <2>3. row \in B
    BY <1>2, <2>1
  <2>4. kept[n + 1] = IF Stays(n + 1) THEN Append(before, row) ELSE before
    BY <1>1, <2>1
  <2>5. /\ Append(before, row) \in Seq(B)
        /\ Len(Append(before, row)) = Len(before) + 1 /\ Len(before) \in Nat
        /\ \A k \in 1 .. Len(before) : Append(before, row)[k] = before[k]
        /\ Append(before, row)[Len(before) + 1] = row
    BY <2>2, <2>3
  <2> HIDE DEF before
  <2>6. CASE Stays(n + 1)
    <3>1. S(n + 1) = S(n) \cup {n + 1} /\ kept[n + 1] = Append(before, row)
      BY <1>4, <2>1, <2>4, <2>6
    <3>2. Cardinality(S(n) \cup {n + 1}) = Cardinality(S(n)) + 1
      BY <1>6, <2>1, FS_AddElement
    <3>3. Cardinality(S(n + 1)) = Len(before) + 1
      BY <2>2, <3>1, <3>2
    <3>4. ASSUME NEW i \in S(n + 1)
          PROVE  /\ Cardinality(S(i)) \in 1 .. Len(before) + 1
                 /\ Append(before, row)[Cardinality(S(i))] = rows[i]
      <4>1. CASE i \in S(n)
        <5>1. Cardinality(S(i)) \in 1 .. Len(before) /\ before[Cardinality(S(i))] = rows[i]
          BY <2>2, <4>1
        <5> QED BY <2>5, <5>1
      <4>2. CASE i = n + 1
        <5>1. Cardinality(S(i)) = Len(before) + 1
          BY <3>3, <4>2
        <5>2. Append(before, row)[Cardinality(S(i))] = rows[i]
          BY <2>5, <4>2, <5>1
        <5>3. Cardinality(S(i)) \in 1 .. Len(before) + 1
          BY <2>5, <5>1
        <5> QED BY <5>2, <5>3
      <4> QED BY <3>1, <3>4, <4>1, <4>2
    <3> QED BY <2>5, <3>1, <3>3, <3>4
  <2>7. CASE ~ Stays(n + 1)
    <3>1. S(n + 1) = S(n) /\ kept[n + 1] = before
      BY <1>4, <2>1, <2>4, <2>7
    <3> QED BY <2>2, <3>1
  <2> QED BY <2>6, <2>7
<1>9. T = Nat
  <2> HIDE DEF P
  <2>1. \A n \in T : n + 1 \in T
    BY <1>7, <1>8
  <2> HIDE DEF T
  <2> QED BY <1>7, <2>1, NaturalsBySuccessor
<1>10. P(Len(rows))
  <2> HIDE DEF P
  <2> QED BY <1>2, <1>9
<1>11. {i \in DOMAIN rows : Stays(i)} = S(Len(rows))
  BY <1>2
<1>12. \A i \in S(Len(rows)) : {j \in S(Len(rows)) : j <= i} = S(i)
  BY <1>2
<1> HIDE DEF S
<1>13. /\ Len(kept[Len(rows)]) = Cardinality({i \in DOMAIN rows : Stays(i)})
       /\ \A i \in {i \in DOMAIN rows : Stays(i)} :
            kept[Len(rows)][Cardinality({j \in {k \in DOMAIN rows : Stays(k)} : j <= i})] = rows[i]
  BY <1>10, <1>11, <1>12
<1> QED BY <1>1, <1>13 DEF Stays

-------------------------------------------------------------------------------
(* The rows of the definition are rows, in order, and each of them is valid. *)
LEMMA DefinedRows ==
  ASSUME Shape, Ordered(given), ValidHorizons(horizons),
         NEW B, B = {row \in Row : /\ DOMAIN row.targets = DOMAIN horizons
                                   /\ \A h \in DOMAIN horizons :
                                        horizons[h] # 0 /\ ValidTarget(row, horizons[h], row.targets[h])}
  PROVE  /\ AlignedByDefinition(given, horizons, max_delay) \in Seq(B)
         /\ Ordered(AlignedByDefinition(given, horizons, max_delay))
<1> DEFINE rows == AlignedByDefinition(given, horizons, max_delay)
           targets(i) == [h \in 1 .. Len(horizons) |->
                            TargetByDefinition(given, i, horizons[h], max_delay)]
<1>1. /\ Len(given) \in Nat /\ Len(horizons) \in Nat
      /\ DOMAIN given = 1 .. Len(given) /\ DOMAIN horizons = 1 .. Len(horizons)
      /\ \A i \in 1 .. Len(given) : given[i] \in Given
  BY GivenRows
<1>2. rows = [i \in 1 .. Len(given) |->
                [time |-> given[i].time, reference |-> given[i].reference,
                 targets |-> targets(i)]]
  BY <1>1, RowIs DEF AlignedByDefinition
<1>3. ASSUME NEW i \in 1 .. Len(given)
      PROVE  rows[i] \in B
  <2>1. /\ rows[i].time = given[i].time /\ rows[i].reference = given[i].reference
        /\ rows[i].targets = targets(i)
        /\ rows[i] = [time |-> given[i].time, reference |-> given[i].reference,
                       targets |-> targets(i)]
    BY <1>2
  <2>2. \A h \in 1 .. Len(horizons) :
          /\ targets(i)[h] = TargetByDefinition(given, i, horizons[h], max_delay)
          /\ targets(i)[h] \in Target
          /\ ValidTarget(given[i], horizons[h], targets(i)[h])
    BY DefinedTargets
  <2>3. targets(i) \in [1 .. Len(horizons) -> Target] /\ DOMAIN targets(i) = 1 .. Len(horizons)
    BY <2>2
  <2> HIDE DEF targets, rows
  <2>4. targets(i) \in Seq(Target)
    BY <1>1, <2>3
  <2>5. rows[i] \in Row
    BY <1>1, <2>1, <2>4 DEF Row, Given
  <2>6. \A h \in 1 .. Len(horizons) : ValidTarget(rows[i], horizons[h], rows[i].targets[h])
    BY <2>1, <2>2 DEF ValidTarget
  <2>7. \A h \in 1 .. Len(horizons) : horizons[h] # 0
    BY <1>1 DEF ValidHorizons
  <2> QED BY <1>1, <2>1, <2>3, <2>5, <2>6, <2>7
<1>4. rows \in Seq(B) /\ Len(rows) = Len(given)
  <2> HIDE DEF targets
  <2>1. rows \in [1 .. Len(given) -> B]
    BY <1>2, <1>3
  <2> HIDE DEF rows
  <2> QED BY <1>1, <2>1
<1>5. Ordered(rows)
  <2>1. \A i \in 1 .. Len(given) : rows[i].time = given[i].time
    BY <1>2
  <2>2. \A i \in 2 .. Len(given) : i \in 1 .. Len(given) /\ i - 1 \in 1 .. Len(given)
    BY <1>1
  <2>3. \A i \in 2 .. Len(given) : given[i - 1].time <= given[i].time
    BY DEF Ordered
  <2> HIDE DEF rows
  <2>4. \A i \in 2 .. Len(rows) : rows[i - 1].time <= rows[i].time
    BY <1>4, <2>1, <2>2, <2>3
  <2> QED BY <2>4 DEF Ordered
<1> QED BY <1>4, <1>5

(* The rows that leave the call are valid, so the validation does not fail. *)
LEMMA ValidateInv == Inv /\ Validate => Inv'
<1> SUFFICES ASSUME Inv, Validate
             PROVE  Inv'
  OBVIOUS
<1> DEFINE B == {row \in Row : /\ DOMAIN row.targets = DOMAIN horizons
                               /\ \A h \in DOMAIN horizons :
                                    horizons[h] # 0 /\ ValidTarget(row, horizons[h], row.targets[h])}
           rows == AlignedByDefinition(given, horizons, max_delay)
<1>1. /\ Shape /\ Ordered(given) /\ ValidHorizons(horizons)
      /\ samples = Kept(policy, rows)
      /\ UNCHANGED << samples, horizons, max_delay, policy, horizon_index, sample_index,
                      target_index, given >>
      /\ phase' = IF Valid(samples) THEN "written" ELSE "invalid"
  BY DEF Inv, Phases, Validate
<1>2. rows \in Seq(B) /\ Ordered(rows)
  <2> HIDE DEF rows
  <2> QED BY <1>1, DefinedRows DEF rows
<1>3. \A row \in B : row.time \in Nat
  BY MaxTimestampAssumption DEF Row, Timestamps
<1>4. Kept(policy, rows) \in Seq(B) /\ Ordered(Kept(policy, rows))
  <2> HIDE DEF rows, B
  <2> QED BY <1>2, <1>3, KeptRows
<1>5. Valid(samples)
  <2>1. \A i \in DOMAIN samples : samples[i] \in B
    <3> HIDE DEF rows, B
    <3> QED BY <1>1, <1>4
  <2> QED BY <1>1, <1>4, <2>1 DEF Valid
<1> QED BY <1>1, <1>5 DEF Inv, Phases, Shape

(* The rows between two iterations are rows. *)
LEMMA PartlyAlignedRows ==
  ASSUME Shape
  PROVE  PartlyAligned(given) \in Seq(Row)
<1> DEFINE targets(i) == [h \in 1 .. Len(horizons) |->
                            IF DoneBefore(h, i)
                            THEN TargetByDefinition(given, i, horizons[h], max_delay)
                            ELSE Undefined]
           rows == PartlyAligned(given)
<1>1. /\ Len(given) \in Nat /\ Len(horizons) \in Nat
      /\ \A i \in 1 .. Len(given) : given[i] \in Given
  BY GivenRows
<1>2. rows = [i \in 1 .. Len(given) |->
                [time |-> given[i].time, reference |-> given[i].reference,
                 targets |-> targets(i)]]
  BY PartlyAlignedIs
<1>3. ASSUME NEW i \in 1 .. Len(given)
      PROVE  rows[i] \in Row
  <2>1. Undefined \in Target
    BY DEF Undefined, Target
  <2>2. targets(i) \in [1 .. Len(horizons) -> Target]
    BY <2>1, DefinedTargets
  <2>3. rows[i] = [time |-> given[i].time, reference |-> given[i].reference,
                   targets |-> targets(i)]
    BY <1>2
  <2> HIDE DEF targets, rows
  <2>4. targets(i) \in Seq(Target)
    BY <1>1, <2>2
  <2> QED BY <1>1, <2>3, <2>4 DEF Row, Given
<1> HIDE DEF targets
<1>4. rows \in [1 .. Len(given) -> Row]
  BY <1>2, <1>3
<1> HIDE DEF rows
<1>5. rows \in Seq(Row)
  BY <1>1, <1>4
<1> QED BY <1>5 DEF rows

(* The invariant holds of every call, whatever it is given. *)
THEOREM AlignmentInvariant == Spec => []Inv
<1>1. Inv /\ [Next]_vars => Inv'
  <2> SUFFICES ASSUME Inv, [Next]_vars
               PROVE  Inv'
    OBVIOUS
  <2>1. CASE UNCHANGED vars
    <3>1. /\ UNCHANGED << samples, horizons, max_delay, policy, horizon_index >>
          /\ UNCHANGED << sample_index, target_index, phase, given >>
      BY <2>1 DEF vars
    <3> QED BY <3>1 DEF Inv, Shape, Phases, PartlyAligned, DoneBefore, NonePassedOver
  <2> QED BY <2>1, RejectInv, BeginInv, SkipOverflowInv, FindNoneInv, FindTargetInv,
             NextHorizonInv, FinishInv, ValidateInv DEF Next
<1> QED BY InitInv, <1>1, PTL DEF Spec

(***************************************************************************)
(* When the loops of align_future_targets end, every row has, at every     *)
(* horizon, the target that a search of all later rows would give it.      *)
(***************************************************************************)
THEOREM TargetsStayExact == Spec => []TargetsAreExact
<1>1. Inv => TargetsAreExact
  BY AllAligned DEF Inv, Phases, TargetsAreExact
<1> QED BY AlignmentInvariant, <1>1, PTL

(***************************************************************************)
(* The validation that generate_research_dataset_csv makes of the rows     *)
(* never fails after an alignment.                                         *)
(***************************************************************************)
THEOREM AlignedRowsStayValid == Spec => []AlignedRowsAreValid
<1>1. Inv => AlignedRowsAreValid
  BY DEF Inv, Phases, AlignedRowsAreValid
<1> QED BY AlignmentInvariant, <1>1, PTL

(* A target that counts as undefined is the undefined one, of rows that are valid. *)
LEMMA CompleteIsDefined ==
  ASSUME NEW row, DOMAIN row.targets = DOMAIN horizons,
         \A h \in DOMAIN horizons : ValidTarget(row, horizons[h], row.targets[h])
  PROVE  Complete(row) <=> \A h \in DOMAIN horizons : row.targets[h] # Undefined
<1>1. Undefined.timestamp = None
  BY DEF Undefined
<1>2. \A h \in DOMAIN horizons : row.targets[h].timestamp = None => row.targets[h] = Undefined
  BY DEF ValidTarget
<1> QED BY <1>1, <1>2 DEF Complete

(***************************************************************************)
(* The rows that leave align_future_targets are those of the definition    *)
(* that have a target at every horizon, or all of them if the policy keeps *)
(* the others, and each is at its place among them.                        *)
(***************************************************************************)
THEOREM DiscardIsExact == Spec => []RowsAreDiscardedExactly
<1>1. ASSUME Inv, phase \in {"aligned", "written", "invalid"}
      PROVE  RowsAreDiscardedExactly
  <2> DEFINE rows == AlignedByDefinition(given, horizons, max_delay)
             B == {row \in Row : /\ DOMAIN row.targets = DOMAIN horizons
                                /\ \A h \in DOMAIN horizons :
                                     horizons[h] # 0 /\ ValidTarget(row, horizons[h], row.targets[h])}
             stays == {i \in DOMAIN rows :
                         \/ policy = "KeepUndefined"
                         \/ \A h \in DOMAIN horizons : rows[i].targets[h] # Undefined}
             left == {i \in DOMAIN rows : policy = "KeepUndefined" \/ Complete(rows[i])}
  <2>1. samples = Kept(policy, rows) /\ Shape /\ Ordered(given) /\ ValidHorizons(horizons)
    BY <1>1 DEF Inv, Phases
  <2>2. rows \in Seq(B)
    <3> HIDE DEF rows
    <3> QED BY <2>1, DefinedRows DEF rows
  <2> HIDE DEF rows
  <2>3. \A i \in DOMAIN rows : rows[i] \in B
    <3> HIDE DEF B
    <3> QED BY <2>2
  <2>4. ASSUME NEW i \in DOMAIN rows
        PROVE  Complete(rows[i]) <=> \A h \in DOMAIN horizons : rows[i].targets[h] # Undefined
    <3> DEFINE row == rows[i]
    <3>1. /\ DOMAIN row.targets = DOMAIN horizons
          /\ \A h \in DOMAIN horizons : ValidTarget(row, horizons[h], row.targets[h])
      BY <2>3
    <3> HIDE DEF row
    <3>2. Complete(row) <=> \A h \in DOMAIN horizons : row.targets[h] # Undefined
      BY <3>1, CompleteIsDefined
    <3> QED BY <3>2 DEF row
  <2>5. stays = left
    BY <2>4
  <2>6. /\ Len(Kept(policy, rows)) = Cardinality(left)
        /\ \A i \in left : Kept(policy, rows)[Cardinality({j \in left : j <= i})] = rows[i]
    <3> HIDE DEF B
    <3> QED BY <2>2, KeptExactly
  <2> HIDE DEF left, stays
  <2>7. /\ Len(samples) = Cardinality(stays)
        /\ \A i \in stays : samples[Cardinality({j \in stays : j <= i})] = rows[i]
    BY <2>1, <2>5, <2>6
  <2> QED BY <2>7 DEF RowsAreDiscardedExactly, rows, stays
<1>2. Inv => RowsAreDiscardedExactly
  BY <1>1 DEF RowsAreDiscardedExactly
<1> QED BY AlignmentInvariant, <1>2, PTL

(* Every variable of the call keeps its type. *)
THEOREM AlignmentTypes == Spec => []TypeOK
<1>1. ASSUME Inv
      PROVE  TypeOK
  <2>1. Shape /\ given \in Seq(Given) /\ horizons \in Seq(Timestamps) /\ max_delay \in Timestamps
    BY <1>1, GivenRows DEF Inv
  <2>2. samples \in Seq(Row)
    <3>1. CASE phase \in {"called", "rejected"}
      <4>1. samples = given
        BY <1>1, <3>1 DEF Inv, Phases
      <4>2. << >> \in Seq(Target)
        OBVIOUS
      <4>3. Given \subseteq Row
        BY <4>2 DEF Given, Row
      <4> QED BY <2>1, <4>1, <4>3
    <3>2. CASE phase = "aligning"
      <4>1. samples = PartlyAligned(given)
        BY <1>1, <3>2 DEF Inv, Phases
      <4> QED BY <2>1, <4>1, PartlyAlignedRows
    <3>3. CASE phase \in {"aligned", "written", "invalid"}
      <4> DEFINE rows == AlignedByDefinition(given, horizons, max_delay)
      <4>1. /\ samples = Kept(policy, rows) /\ Ordered(given) /\ ValidHorizons(horizons)
        BY <1>1, <3>3 DEF Inv, Phases
      <4> DEFINE B == {row \in Row : /\ DOMAIN row.targets = DOMAIN horizons
                               /\ \A h \in DOMAIN horizons :
                                    horizons[h] # 0 /\ ValidTarget(row, horizons[h], row.targets[h])}
      <4>2. rows \in Seq(B) /\ Ordered(rows)
        <5> HIDE DEF rows
        <5> QED BY <2>1, <4>1, DefinedRows DEF rows
      <4>3. (\A row \in B : row.time \in Nat) /\ B \subseteq Row
        BY MaxTimestampAssumption DEF Row, Timestamps
      <4> HIDE DEF rows, B
      <4>4. samples \in Seq(B)
        BY <4>1, <4>2, <4>3, KeptRows
      <4> QED BY <4>3, <4>4
    <3> QED BY <2>1, <3>1, <3>2, <3>3 DEF Shape
  <2> QED BY <2>1, <2>2 DEF TypeOK, Shape
<1> QED BY AlignmentInvariant, <1>1, PTL
===============================================================================
