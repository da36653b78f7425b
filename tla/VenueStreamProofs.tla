--------------------------- MODULE VenueStreamProofs --------------------------
(***************************************************************************)
(* Proofs about VenueStream, for any widths of the two kinds of numbers,   *)
(* any adapters and messages of any size.                                  *)
(***************************************************************************)
EXTENDS VenueStream, DataInduction

(***************************************************************************)
(* How a book takes consecutive numbers.  From a number not more than one  *)
(* away from the one before the first of them, or from none, it follows    *)
(* them as soon as they are past where it stands.                          *)
(***************************************************************************)
Followed(last, next, i) ==
  IF i = 0 THEN last
  ELSE IF last = None THEN next + i - 1
  ELSE IF last < next + i - 1 THEN next + i - 1 ELSE last

Near(last, next) == last = None \/ last \in next - 1 .. next + 1

LEMMA TraceOfAccepted ==
  ASSUME NEW next \in Nat \ {0}, NEW size \in Nat, next + size <= MaxSequence,
         NEW last \in SequenceNumbers \cup {None}, Near(last, next)
  PROVE  LET numbers == [i \in 1 .. size |-> next + i - 1]
         IN  /\ Len(numbers) = size
             /\ \A i \in 0 .. size : BookTrace(last, numbers)[i] = Followed(last, next, i)
<1> DEFINE numbers == [i \in 1 .. size |-> next + i - 1]
           Def(f) == [i \in 0 .. Len(numbers) |->
                        IF i = 0 THEN last
                        ELSE IF Verdict(f[i - 1], numbers[i]) = "Accepted" THEN numbers[i]
                        ELSE f[i - 1]]
           g == [i \in 0 .. size |-> Followed(last, next, i)]
           trace == CHOOSE f : f = Def(f)
<1>1. Len(numbers) = size /\ \A i \in 1 .. size : numbers[i] = next + i - 1
  OBVIOUS
<1>2. \A i \in 1 .. size :
        Followed(last, next, i) =
          IF Verdict(Followed(last, next, i - 1), next + i - 1) = "Accepted"
          THEN next + i - 1 ELSE Followed(last, next, i - 1)
  BY MaxSequenceAssumption, NoneAssumption DEF Followed, Near, Verdict, SequenceNumbers
<1> HIDE DEF numbers
<1>3. g = Def(g)
  <2>1. \A i \in 0 .. size : g[i] = Followed(last, next, i)
    OBVIOUS
  <2>2. Followed(last, next, 0) = last
    BY DEF Followed
  <2> HIDE DEF g
  <2>3. \A i \in 0 .. size :
          Followed(last, next, i) =
            IF i = 0 THEN last
            ELSE IF Verdict(g[i - 1], numbers[i]) = "Accepted" THEN numbers[i] ELSE g[i - 1]
    BY <1>1, <1>2, <2>1, <2>2
  <2> QED BY <1>1, <2>3 DEF g
<1>4. trace = Def(trace)
  BY <1>3
<1> HIDE DEF trace
<1>5. BookTrace(last, numbers) = trace
  BY DEF BookTrace, trace
<1>6. \A i \in 0 .. size : trace[i] = Followed(last, next, i)
  <2> DEFINE T == {i \in Nat : i <= size => trace[i] = Followed(last, next, i)}
  <2>1. T \in SUBSET Nat /\ 0 \in T
    BY <1>1, <1>4 DEF Followed
  <2>2. ASSUME NEW i \in T
        PROVE  i + 1 \in T
    <3> SUFFICES ASSUME i + 1 <= size
                 PROVE  trace[i + 1] = Followed(last, next, i + 1)
      OBVIOUS
    <3>1. trace[i] = Followed(last, next, i) /\ i + 1 \in 1 .. size /\ i + 1 - 1 = i
      OBVIOUS
    <3>2. trace[i + 1] = IF Verdict(trace[i], numbers[i + 1]) = "Accepted"
                         THEN numbers[i + 1] ELSE trace[i]
      BY <1>1, <1>4, <3>1
    <3> QED BY <1>1, <1>2, <3>1, <3>2
  <2>3. T = Nat
    <3> HIDE DEF T
    <3> QED BY <2>1, <2>2, NaturalsBySuccessor
  <2> QED BY <2>3
<1> QED BY <1>1, <1>5, <1>6 DEF numbers

(* How a book takes a single number. *)
LEMMA TraceOfOne ==
  ASSUME NEW number, NEW last
  PROVE  /\ BookTrace(last, << number >>)[0] = last
         /\ BookTrace(last, << number >>)[1] =
              IF Verdict(last, number) = "Accepted" THEN number ELSE last
<1> DEFINE Def(f) == [i \in 0 .. Len(<< number >>) |->
                        IF i = 0 THEN last
                        ELSE IF Verdict(f[i - 1], << number >>[i]) = "Accepted"
                             THEN << number >>[i] ELSE f[i - 1]]
           after == IF Verdict(last, number) = "Accepted" THEN number ELSE last
           g == [i \in 0 .. 1 |-> IF i = 0 THEN last ELSE after]
           trace == CHOOSE f : f = Def(f)
<1>1. Len(<< number >>) = 1 /\ << number >>[1] = number
  OBVIOUS
<1>2. g = Def(g)
  <2>1. g[0] = last /\ g[1] = after
    OBVIOUS
  <2> HIDE DEF g
  <2>2. \A i \in 0 .. 1 :
          (IF i = 0 THEN last ELSE after) =
            IF i = 0 THEN last
            ELSE IF Verdict(g[i - 1], << number >>[i]) = "Accepted"
                 THEN << number >>[i] ELSE g[i - 1]
    BY <1>1, <2>1
  <2> QED BY <1>1, <2>2 DEF g
<1>3. trace = Def(trace)
  BY <1>2
<1> HIDE DEF trace
<1>4. trace[0] = last /\ trace[1] = after
  BY <1>1, <1>3
<1>5. BookTrace(last, << number >>) = trace
  BY DEF BookTrace, trace
<1> QED BY <1>4, <1>5

-------------------------------------------------------------------------------
(***************************************************************************)
(* Adapter and book.  From the first event on, if it was accepted, the     *)
(* book stands at the number before the next the adapter gives; otherwise  *)
(* it stands next to it.  That they agree is not inductive without this.   *)
(***************************************************************************)
NumbersOK ==
  /\ normalized_sequence \in 1 .. MaxSequence
  /\ book_last \in SequenceNumbers \cup {None}
  /\ agreement \in {"Unopened", "InStep", "OutOfStep", "Lossy"}

StepInv ==
  /\ NumbersOK
  /\ Near(book_last, normalized_sequence)
  /\ (agreement = "Unopened") <=> (book_last = None)
  /\ agreement = "Unopened" => normalized_sequence = 1
  /\ agreement = "InStep" => normalized_sequence > 1 /\ book_last = normalized_sequence - 1

(* An accepted message. *)
LEMMA PublishAccepted ==
  ASSUME StepInv, NEW size \in Nat, Publish("Accepted", size)
  PROVE  StepInv'
<1> DEFINE numbers == [i \in 1 .. size |-> normalized_sequence + i - 1]
           trace == BookTrace(book_last, numbers)
<1>1. AssignedSequences("Accepted", normalized_sequence, size) = numbers
  BY DEF AssignedSequences
<1>2. /\ normalized_sequence \in Nat \ {0}
      /\ normalized_sequence + size <= MaxSequence
      /\ book_last \in SequenceNumbers \cup {None}
      /\ Near(book_last, normalized_sequence)
  BY MaxSequenceAssumption DEF StepInv, NumbersOK, Publish
<1>3. /\ Len(numbers) = size
      /\ \A i \in 0 .. size : trace[i] = Followed(book_last, normalized_sequence, i)
  BY <1>2, TraceOfAccepted
<1>4. \A i \in 1 .. size : numbers[i] = normalized_sequence + i - 1
  OBVIOUS
<1>5. DOMAIN numbers = 1 .. size /\ (numbers = << >> <=> size = 0)
  BY <1>3
<1> HIDE DEF numbers, trace
<1>6. /\ normalized_sequence' = normalized_sequence + size
      /\ book_last' = trace[size]
      /\ agreement' =
           CASE agreement = "Unopened" /\ numbers # << >> -> "InStep"
             [] agreement = "InStep" /\ ~ SameVerdicts("Accepted", book_last, numbers) -> "Broken"
             [] agreement = "OutOfStep" /\ ~ SameVerdicts("Accepted", book_last, numbers) -> "Lossy"
             [] OTHER -> agreement
  BY <1>1, <1>3 DEF Publish, trace
<1>7. book_last' = Followed(book_last, normalized_sequence, size)
  BY <1>3, <1>6
<1>8. ASSUME agreement = "InStep"
      PROVE  SameVerdicts("Accepted", book_last, numbers)
  <2> SUFFICES ASSUME NEW i \in 1 .. size
               PROVE  Verdict(trace[i - 1], numbers[i]) = "Accepted"
    BY <1>5 DEF SameVerdicts, trace
  <2>1. trace[i - 1] = Followed(book_last, normalized_sequence, i - 1)
    BY <1>3
  <2>2. book_last = normalized_sequence - 1
    BY <1>8 DEF StepInv
  <2> QED BY <1>2, <1>4, <2>1, <2>2, NoneAssumption, MaxSequenceAssumption
          DEF Followed, Verdict
<1>9. /\ normalized_sequence' \in 1 .. MaxSequence
      /\ book_last' \in SequenceNumbers \cup {None}
      /\ Near(book_last', normalized_sequence')
  <2>1. normalized_sequence' \in 1 .. MaxSequence
    BY <1>2, <1>6
  <2> QED BY <1>2, <1>6, <1>7, <2>1, NoneAssumption, MaxSequenceAssumption, SMTT(30)
          DEF Followed, Near, SequenceNumbers
<1>10. agreement' \in {"Unopened", "InStep", "OutOfStep", "Lossy"}
  BY <1>6, <1>8 DEF StepInv, NumbersOK
<1>11. /\ (agreement' = "Unopened") <=> (book_last' = None)
       /\ agreement' = "Unopened" => normalized_sequence' = 1
  <2>1. CASE size = 0
    BY <1>2, <1>5, <1>6, <1>7, <1>8, <2>1 DEF StepInv, Followed, NumbersOK
  <2>2. CASE size # 0
    <3>1. agreement' # "Unopened"
      BY <1>5, <1>6, <2>2 DEF StepInv, NumbersOK
    <3>2. book_last' # None
      BY <1>2, <1>7, <2>2, NoneAssumption DEF Followed, SequenceNumbers
    <3> QED BY <3>1, <3>2
  <2> QED BY <2>1, <2>2
<1>12. ASSUME agreement' = "InStep"
       PROVE  normalized_sequence' > 1 /\ book_last' = normalized_sequence' - 1
  <2>1. CASE agreement = "InStep"
    BY <1>2, <1>6, <1>7, <2>1, NoneAssumption DEF StepInv, Followed
  <2>2. CASE agreement = "Unopened" /\ size # 0
    BY <1>2, <1>7, <2>2, <1>6 DEF StepInv, Followed
  <2> QED BY <1>5, <1>6, <1>8, <1>12, <2>1, <2>2
<1> QED BY <1>9, <1>10, <1>11, <1>12 DEF StepInv, NumbersOK

(* A message that is refused. *)
LEMMA PublishRefused ==
  ASSUME StepInv, NEW size \in Nat, size # 0,
         NEW status \in {"Duplicate", "Stale", "Gap"}, Publish(status, size)
  PROVE  StepInv'
<1> DEFINE number == NormalizedSequence(status, normalized_sequence)
           trace == BookTrace(book_last, << number >>)
<1>1. AssignedSequences(status, normalized_sequence, size) = << number >>
  BY DEF AssignedSequences
<1>2. Len(<< number >>) = 1 /\ << number >> # << >> /\ << number >>[1] = number
      /\ DOMAIN << number >> = {1}
  OBVIOUS
<1>3. /\ normalized_sequence \in 1 .. MaxSequence /\ normalized_sequence + 1 <= MaxSequence
      /\ book_last \in SequenceNumbers \cup {None}
      /\ Near(book_last, normalized_sequence)
  BY MaxSequenceAssumption DEF StepInv, NumbersOK, Publish
<1>4. /\ trace[0] = book_last
      /\ trace[1] = IF Verdict(book_last, number) = "Accepted" THEN number ELSE book_last
  BY TraceOfOne
<1>5. number \in SequenceNumbers /\ number \in normalized_sequence - 2 .. normalized_sequence + 1
      /\ (normalized_sequence = 1 => number # normalized_sequence - 2)
  BY <1>3, MaxSequenceAssumption DEF NormalizedSequence, SequenceNumbers
<1>6. ASSUME agreement = "InStep"
      PROVE  Verdict(book_last, number) = IF status = "Gap" THEN "SequenceGap" ELSE status
  <2>1. normalized_sequence > 1 /\ book_last = normalized_sequence - 1
    BY <1>6 DEF StepInv
  <2> QED BY <1>3, <2>1, NoneAssumption, MaxSequenceAssumption
          DEF NormalizedSequence, Verdict, SequenceNumbers
<1> HIDE DEF number, trace
<1>7. /\ normalized_sequence' = normalized_sequence
      /\ book_last' = trace[1]
      /\ agreement' =
           CASE agreement = "Unopened" -> "OutOfStep"
             [] agreement = "InStep" /\ ~ SameVerdicts(status, book_last, << number >>) -> "Broken"
             [] OTHER -> agreement
  BY <1>1, <1>2 DEF Publish, trace, number
<1>8. agreement = "InStep" => SameVerdicts(status, book_last, << number >>)
  BY <1>2, <1>4, <1>6 DEF SameVerdicts, trace
<1>9. agreement' \in {"InStep", "OutOfStep", "Lossy"}
  BY <1>7, <1>8 DEF StepInv, NumbersOK
<1>10. book_last' \in SequenceNumbers /\ Near(book_last', normalized_sequence')
  <2>1. CASE book_last = None
    BY <1>3, <1>4, <1>5, <1>7, <2>1, MaxSequenceAssumption
       DEF StepInv, Near, Verdict, SequenceNumbers
  <2>2. CASE book_last # None
    BY <1>3, <1>4, <1>5, <1>7, <2>2, MaxSequenceAssumption
       DEF Near, Verdict, SequenceNumbers
  <2> QED BY <2>1, <2>2
<1>11. ASSUME agreement' = "InStep"
       PROVE  normalized_sequence' > 1 /\ book_last' = normalized_sequence' - 1
  <2>1. agreement = "InStep"
    BY <1>7, <1>11
  <2>2. Verdict(book_last, number) # "Accepted"
    BY <1>6, <2>1
  <2> QED BY <1>4, <1>7, <2>1, <2>2 DEF StepInv
<1> QED BY <1>3, <1>7, <1>9, <1>10, <1>11, NoneAssumption DEF StepInv, NumbersOK, SequenceNumbers

-------------------------------------------------------------------------------
(***************************************************************************)
(* Adapter and validator.  Holes are reported because a pending gap is     *)
(* only ever cleared by reporting it, and only Coinbase has one; gaps are  *)
(* audited because a gap is pending only if the validator has reported it, *)
(* or if source_sequence_ is at its maximum, when nothing newer can come.  *)
(***************************************************************************)
HeardOK ==
  /\ venue \in Venues
  /\ source_sequence \in SourceNumbers \cup {None}
  /\ gap_pending \in BOOLEAN
  /\ last_sequence \in SourceNumbers \cup {None}
  /\ history \in [arrived : SUBSET SourceNumbers, unlinked : SUBSET SourceNumbers,
                  missed : SUBSET SourceNumbers, told : SourceNumbers \cup {None},
                  apart : BOOLEAN, audited : BOOLEAN, unaudited : BOOLEAN,
                  gap_at : SUBSET (SequenceNumbers \cup {None})]

HeardInv ==
  /\ HeardOK
  /\ source_sequence # None => history.told # None
  /\ gap_pending => venue = "Coinbase" /\ source_sequence # None
  /\ (gap_pending /\ ~ history.apart) => (history.audited \/ source_sequence = MaxSource)
  /\ HolesAreReported
  /\ ValidatorKeepsStep
  /\ GapsAreAudited

LEMMA StatusFacts ==
  ASSUME NEW source \in SourceNumbers \cup {None}, NEW final \in SourceNumbers, NEW gap
  PROVE  LET status == StatusAfter(source, final, gap)
             continuity == ContinuityAfter(source, final, gap)
         IN  /\ status \in SequenceStatus
             /\ status \in {"Accepted", "Gap"} <=> (source = None \/ final > source)
             /\ status = "Gap" => source # None /\ gap
             /\ (status = "Accepted" /\ source # None) => ~ gap
             /\ continuity \in {"Accepted", "Gap"} <=> (source = None \/ final > source)
             /\ continuity = "Gap" <=> (source # None /\ final > source /\ gap)
BY NoneAssumption DEF StatusAfter, ContinuityAfter, SequenceStatus, SourceNumbers

(* A numbered message, whatever the venue. *)
LEMMA SequencedHeardInv ==
  ASSUME HeardInv, NEW numbers \in SUBSET SourceNumbers, NEW unlinked \in SUBSET SourceNumbers,
         NEW final \in numbers,
         NEW size \in Nat, NEW status \in SequenceStatus, NEW continuity,
         Sequenced(numbers, unlinked, final, size, status, continuity),
         book_last' \in SequenceNumbers \cup {None},
         status \in {"Accepted", "Gap"} <=> (source_sequence = None \/ final > source_sequence),
         status = "Gap" => source_sequence # None,
         (status = "Accepted" /\ source_sequence # None) =>
           /\ ~ gap_pending
           /\ \A n \in source_sequence + 1 .. final :
                n \notin numbers =>
                  n \in unlinked /\ (last_sequence = source_sequence => continuity = "Gap"),
         continuity # "Malformed" =>
           (continuity \in {"Accepted", "Gap"} <=> (last_sequence = None \/ final > last_sequence)),
         continuity = "Gap" => last_sequence # None,
         (status = "Gap" /\ last_sequence = source_sequence) =>
           gap_pending \/ continuity \in {"Gap", "Malformed"}
  PROVE  HeardInv'
<1>1. HeardOK
  BY DEF HeardInv
<1>2. final \in SourceNumbers /\ numbers \subseteq SourceNumbers
  OBVIOUS
<1>3. /\ last_sequence' = IF continuity \in {"Accepted", "Gap"} THEN final ELSE last_sequence
      /\ venue' = venue
  BY DEF Sequenced, AuditedLast
<1>4. last_sequence' \in SourceNumbers \cup {None}
  BY <1>1, <1>2, <1>3 DEF HeardOK
<1> DEFINE missing == Missing(numbers, final, continuity)
           apart == history.apart \/ ~ (size = 0 <=> continuity = "Malformed")
           arrived == history.arrived \cup numbers
           missed == history.missed \cup missing
<1>5. missing \in SUBSET SourceNumbers
  <2>1. CASE continuity = "Gap"
    <3>1. last_sequence \in 0 .. MaxSource /\ final \in 0 .. MaxSource
      BY <1>1, <1>2, <2>1 DEF HeardOK, SourceNumbers
    <3> QED BY <2>1, <3>1, MaxSourceAssumption DEF Missing, SourceNumbers
  <2> QED BY <2>1 DEF Missing
<1>6. /\ arrived \in SUBSET SourceNumbers /\ missed \in SUBSET SourceNumbers
      /\ apart \in BOOLEAN
  BY <1>1, <1>5 DEF HeardOK
<1>7. CASE size = 0
  <2> DEFINE audited == history.audited \/ continuity = "Gap"
  <2>1. /\ history' = [history EXCEPT !.arrived = arrived, !.missed = missed,
                                     !.apart = apart, !.audited = audited]
        /\ UNCHANGED << source_sequence, gap_pending >>
    BY <1>1, <1>7 DEF Sequenced, HeardOK
  <2>2. audited \in BOOLEAN
    BY <1>1 DEF HeardOK
  <2>3. /\ history'.arrived = arrived /\ history'.missed = missed
        /\ history'.unlinked = history.unlinked /\ history'.told = history.told
        /\ history'.apart = apart /\ history'.audited = audited
        /\ history'.unaudited = history.unaudited
    BY <1>1, <2>1 DEF HeardOK
  <2>4. HeardOK'
    <3> HIDE DEF arrived, missed, apart, audited
    <3> QED BY <1>1, <1>3, <1>4, <1>6, <2>1, <2>2 DEF HeardOK
  <2>5. HolesAreReported'
    BY <2>1, <2>3 DEF HeardInv, HolesAreReported
  <2>6. ValidatorKeepsStep'
    BY <1>3, <1>7, <2>1, <2>3 DEF HeardInv, ValidatorKeepsStep
  <2>7. (gap_pending' /\ ~ apart) => (audited \/ source_sequence' = MaxSource)
    BY <2>1 DEF HeardInv
  <2> HIDE DEF audited, apart
  <2> QED BY <1>3, <2>1, <2>3, <2>4, <2>5, <2>6, <2>7 DEF HeardInv, GapsAreAudited
<1>8. CASE size # 0
  <2> DEFINE newer == status \in {"Accepted", "Gap"}
             jumped == history.unlinked \cup unlinked
             told == IF status = "Gap" \/ source_sequence = None THEN final ELSE history.told
             audited == continuity = "Gap" \/ (history.audited /\ ~ newer)
             unaudited == \/ history.unaudited
                          \/ /\ status = "Gap" /\ continuity # "Gap"
                             /\ ~ (apart \/ history.audited)
             gap_at == IF status = "Gap" THEN {book_last'} ELSE history.gap_at
  <2>1. /\ source_sequence' = IF newer THEN final ELSE source_sequence
        /\ gap_pending' = (gap_pending /\ ~ newer)
        /\ history' = [history EXCEPT
             !.arrived = arrived, !.missed = missed, !.apart = apart, !.unlinked = jumped,
             !.told = told, !.audited = audited, !.unaudited = unaudited, !.gap_at = gap_at]
    BY <1>1, <1>8 DEF Sequenced, HeardOK
  <2>2. /\ told \in SourceNumbers \cup {None} /\ jumped \in SUBSET SourceNumbers
        /\ audited \in BOOLEAN /\ unaudited \in BOOLEAN
        /\ gap_at \in SUBSET (SequenceNumbers \cup {None})
    BY <1>1, <1>2 DEF HeardOK
  <2>3. /\ history'.arrived = arrived /\ history'.missed = missed
        /\ history'.unlinked = jumped
        /\ history'.told = told
        /\ history'.apart = apart
        /\ history'.audited = audited
        /\ history'.unaudited = unaudited
    BY <1>1, <2>1 DEF HeardOK
  <2>4. HeardOK'
    <3> HIDE DEF told, jumped, audited, unaudited, gap_at, newer, arrived, missed, apart
    <3> QED BY <1>1, <1>3, <1>4, <1>6, <2>1, <2>2 DEF HeardOK
  <2>5. source_sequence' # None => told # None
    BY <1>2, <2>1, NoneAssumption DEF HeardInv, SourceNumbers
  <2>6. gap_pending' => venue' = "Coinbase" /\ source_sequence' # None
    BY <1>3, <2>1 DEF HeardInv
  <2>7. (gap_pending' /\ ~ apart) => (audited \/ source_sequence' = MaxSource)
    BY <2>1 DEF HeardInv
  <2>8. HolesAreReported'
    <3> SUFFICES ASSUME source_sequence' # None, ~ gap_pending',
                        NEW n \in told .. source_sequence', n \notin arrived
                 PROVE  n \in jumped /\ (apart \/ n \in missed)
      BY <2>3 DEF HolesAreReported
    <3>1. CASE ~ newer
      <4>1. source_sequence # None /\ ~ gap_pending /\ told = history.told
        BY <2>1, <3>1
      <4> QED BY <2>1, <3>1, <4>1 DEF HeardInv, HolesAreReported
    <3>2. CASE status = "Gap" \/ source_sequence = None
      <4>1. told = final /\ source_sequence' = final
        BY <2>1, <3>2
      <4> QED BY <1>2, <4>1 DEF SourceNumbers
    <3>3. CASE status = "Accepted" /\ source_sequence # None
      <4>1. /\ ~ gap_pending /\ told = history.told
            /\ source_sequence' = final
        BY <2>1, <3>3
      <4>2. source_sequence \in Int /\ final \in Int /\ told \in Int
        BY <1>1, <1>2, <2>2, <2>5, <3>3, <4>1 DEF HeardOK, SourceNumbers
      <4>3. CASE n \in history.told .. source_sequence
        BY <3>3, <4>1, <4>3 DEF HeardInv, HolesAreReported
      <4>4. CASE n \in source_sequence + 1 .. final
        <5>1. n \in unlinked /\ (last_sequence = source_sequence => continuity = "Gap")
          <6>1. n \notin numbers
            OBVIOUS
          <6>2. \A m \in source_sequence + 1 .. final :
                  m \notin numbers =>
                    m \in unlinked /\ (last_sequence = source_sequence => continuity = "Gap")
            BY <3>3, Zenon
          <6> QED BY <4>4, <6>1, <6>2, Zenon
        <5>2. CASE ~ apart
          <6>1. last_sequence = source_sequence
            BY <5>2 DEF HeardInv, ValidatorKeepsStep
          <6>2. n \in missing
            BY <4>4, <5>1, <6>1 DEF Missing
          <6> QED BY <5>1, <6>2
        <5> QED BY <5>1, <5>2
      <4>5. n \in history.told .. source_sequence \/ n \in source_sequence + 1 .. final
        BY <4>1, <4>2
      <4> QED BY <4>3, <4>4, <4>5
    <3> QED BY <3>1, <3>2, <3>3
  <2>9. ValidatorKeepsStep'
    BY <1>3, <1>8, <2>1, <2>3 DEF HeardInv, ValidatorKeepsStep
  <2>10. ~ unaudited
    <3> SUFFICES ASSUME status = "Gap", ~ apart, ~ history.audited
                 PROVE  continuity = "Gap"
      BY DEF HeardInv, GapsAreAudited
    <3>1. last_sequence = source_sequence /\ continuity # "Malformed" /\ ~ history.apart
      BY <1>8 DEF HeardInv, ValidatorKeepsStep
    <3>2. source_sequence # MaxSource
      BY <1>1, <1>2, MaxSourceAssumption, NoneAssumption DEF HeardOK, SourceNumbers
    <3> QED BY <3>1, <3>2 DEF HeardInv
  <2> HIDE DEF told, audited, unaudited, apart
  <2> QED BY <2>3, <2>4, <2>5, <2>6, <2>7, <2>8, <2>9, <2>10 DEF HeardInv, GapsAreAudited
<1> QED BY <1>7, <1>8

(* Sequenced() publishes or does nothing to adapter and book. *)
LEMMA SequencedStepInv ==
  ASSUME StepInv, NEW numbers, NEW unlinked, NEW final, NEW size \in Nat,
         NEW status \in SequenceStatus, NEW continuity,
         Sequenced(numbers, unlinked, final, size, status, continuity)
  PROVE  StepInv'
<1>1. CASE size = 0
  BY <1>1 DEF Sequenced, StepInv, NumbersOK, Near
<1>2. CASE size # 0 /\ status = "Accepted"
  BY <1>2, PublishAccepted DEF Sequenced
<1>3. CASE size # 0 /\ status # "Accepted"
  BY <1>3, PublishRefused DEF Sequenced, SequenceStatus
<1> QED BY <1>1, <1>2, <1>3

-------------------------------------------------------------------------------
Inv == StepInv /\ HeardInv

LEMMA InitInv == Init => Inv
<1> SUFFICES ASSUME Init
             PROVE  Inv
  OBVIOUS
<1>1. StepInv
  BY MaxSequenceAssumption, NoneAssumption DEF Init, StepInv, NumbersOK, Near, SequenceNumbers
<1>2. HeardInv
  BY DEF Init, HeardInv, HeardOK, HolesAreReported, ValidatorKeepsStep, GapsAreAudited
<1> QED BY <1>1, <1>2 DEF Inv

(* Both invariants, for a message whose status and continuity are as they should. *)
LEMMA SequencedInv ==
  ASSUME Inv, NEW numbers \in SUBSET SourceNumbers, NEW unlinked \in SUBSET SourceNumbers,
         NEW final \in numbers,
         NEW size \in Nat, NEW gap, NEW auditgap, NEW status, NEW continuity,
         status = StatusAfter(source_sequence, final, gap),
         continuity \in {"Malformed", ContinuityAfter(last_sequence, final, auditgap)},
         Sequenced(numbers, unlinked, final, size, status, continuity),
         (source_sequence # None /\ final > source_sequence /\ ~ gap) => ~ gap_pending,
         ASSUME source_sequence # None, final > source_sequence, ~ gap,
                NEW n \in source_sequence + 1 .. final, n \notin numbers
         PROVE  n \in unlinked /\ (last_sequence = source_sequence => auditgap)
                /\ continuity # "Malformed",
         (gap /\ source_sequence # None /\ last_sequence = source_sequence)
           => gap_pending \/ auditgap
  PROVE  Inv'
<1>1. StepInv /\ HeardInv /\ HeardOK
  BY DEF Inv, HeardInv
<1>2. final \in SourceNumbers
  OBVIOUS
<1>3. source_sequence \in SourceNumbers \cup {None} /\ last_sequence \in SourceNumbers \cup {None}
  BY <1>1 DEF HeardOK
<1>4. /\ status \in SequenceStatus
      /\ status \in {"Accepted", "Gap"} <=> (source_sequence = None \/ final > source_sequence)
      /\ status = "Gap" => source_sequence # None /\ gap
      /\ (status = "Accepted" /\ source_sequence # None) => ~ gap
  BY <1>2, <1>3, StatusFacts
<1>5. continuity # "Malformed" =>
        /\ continuity \in {"Accepted", "Gap"} <=> (last_sequence = None \/ final > last_sequence)
        /\ continuity = "Gap" <=> (last_sequence # None /\ final > last_sequence /\ auditgap)
  BY <1>2, <1>3, StatusFacts
<1>6. StepInv'
  BY <1>1, <1>4, SequencedStepInv
<1>7. book_last' \in SequenceNumbers \cup {None}
  BY <1>6 DEF StepInv, NumbersOK
<1>8. ASSUME status = "Accepted", source_sequence # None
      PROVE  /\ ~ gap_pending
             /\ \A n \in source_sequence + 1 .. final :
                  n \notin numbers =>
                    n \in unlinked /\ (last_sequence = source_sequence => continuity = "Gap")
  <2>1. final > source_sequence /\ ~ gap
    BY <1>4, <1>8
  <2>2. ~ gap_pending
    BY <1>8, <2>1
  <2>3. ASSUME NEW n \in source_sequence + 1 .. final, n \notin numbers
        PROVE  n \in unlinked /\ (last_sequence = source_sequence => continuity = "Gap")
    <3>1. /\ n \in unlinked /\ (last_sequence = source_sequence => auditgap)
          /\ continuity # "Malformed"
      BY <1>8, <2>1, <2>3
    <3> QED BY <1>5, <1>8, <2>1, <3>1
  <2> QED BY <2>2, <2>3
<1>9. (status = "Gap" /\ last_sequence = source_sequence) =>
        gap_pending \/ continuity \in {"Gap", "Malformed"}
  BY <1>4, <1>5
<1>10. continuity = "Gap" => last_sequence # None
  BY <1>5
<1>11. continuity # "Malformed" =>
         (continuity \in {"Accepted", "Gap"} <=> (last_sequence = None \/ final > last_sequence))
  BY <1>5
<1>12. HeardInv'
  BY <1>1, <1>4, <1>7, <1>8, <1>9, <1>10, <1>11, SequencedHeardInv
<1> QED BY <1>6, <1>12 DEF Inv

LEMMA BinanceDepthInv ==
  ASSUME Inv, NEW final \in SourceNumbers, NEW first \in SourceNumbers \cup {Absent},
         NEW previous \in SourceNumbers \cup {Absent}, NEW size \in 0 .. MaxSize,
         BinanceDepth(first, final, previous, size)
  PROVE  Inv'
<1>1. venue = "Binance" /\ HeardInv /\ HeardOK
  BY DEF BinanceDepth, Inv, HeardInv
<1> DEFINE from == IF first = Absent THEN final ELSE first
           numbers == {final} \cup {n \in SourceNumbers : first # Absent /\ n \in first .. final}
           gap == Skips(source_sequence, from)
           auditgap == Skips(last_sequence, from)
                       \/ (previous # Absent /\ previous # last_sequence)
           continuity == BinanceContinuity(last_sequence, first, final, previous)
<1>2. numbers \in SUBSET SourceNumbers /\ final \in numbers /\ size \in Nat
  BY MaxSizeAssumption
<1>3. from \in SourceNumbers /\ {} \in SUBSET SourceNumbers
  OBVIOUS
<1>4. continuity \in {"Malformed", ContinuityAfter(last_sequence, final, auditgap)}
  <2>1. CASE first = Absent
    BY <2>1 DEF BinanceContinuity
  <2>2. CASE first # Absent
    BY <2>2 DEF BinanceContinuity
  <2> QED BY <2>1, <2>2
<1>5. Sequenced(numbers, {}, final, size, StatusAfter(source_sequence, final, gap), continuity)
  BY DEF BinanceDepth, BinanceStatus
<1>6. ASSUME source_sequence # None, final > source_sequence, ~ gap,
             NEW n \in source_sequence + 1 .. final, n \notin numbers
      PROVE  FALSE
  <2>1. source_sequence \in 0 .. MaxSource /\ final \in 0 .. MaxSource /\ from \in 0 .. MaxSource
    BY <1>1, <1>3, <1>6 DEF HeardOK, SourceNumbers
  <2>2. from <= source_sequence + 1 /\ n \in source_sequence + 1 .. final
    BY <1>6, <2>1, MaxSourceAssumption DEF Skips
  <2>3. CASE first = Absent
    BY <1>6, <2>1, <2>2, <2>3, MaxSourceAssumption
  <2>4. CASE first # Absent
    <3>1. n \in first .. final /\ n \in SourceNumbers
      BY <2>1, <2>2, <2>4, MaxSourceAssumption DEF SourceNumbers
    <3> QED BY <1>6, <2>4, <3>1
  <2> QED BY <2>3, <2>4
<1>7. (source_sequence # None /\ final > source_sequence /\ ~ gap) => ~ gap_pending
  BY <1>1 DEF HeardInv
<1>8. (gap /\ source_sequence # None /\ last_sequence = source_sequence)
        => gap_pending \/ auditgap
  OBVIOUS
<1> HIDE DEF numbers, gap, auditgap, continuity
<1> QED BY <1>2, <1>3, <1>4, <1>5, <1>6, <1>7, <1>8, SequencedInv

LEMMA CoinbaseL2DataInv ==
  ASSUME Inv, NEW number \in SourceNumbers, NEW size \in 0 .. MaxSize,
         CoinbaseL2Data(number, size)
  PROVE  Inv'
<1>1. HeardInv /\ HeardOK
  BY DEF Inv, HeardInv
<1>2. {number} \in SUBSET SourceNumbers /\ number \in {number} /\ size \in Nat
  BY MaxSizeAssumption
<1> DEFINE gap == gap_pending \/ Skips(source_sequence, number)
<1>3. Sequenced({number}, {}, number, size, StatusAfter(source_sequence, number, gap),
        ContinuityAfter(last_sequence, number, Skips(last_sequence, number)))
  BY DEF CoinbaseL2Data, CoinbaseStatus, CoinbaseContinuity
<1>4. ASSUME source_sequence # None, number > source_sequence, ~ gap,
             NEW n \in source_sequence + 1 .. number, n \notin {number}
      PROVE  FALSE
  <2>1. source_sequence \in 0 .. MaxSource /\ number \in 0 .. MaxSource
    BY <1>1, <1>4 DEF HeardOK, SourceNumbers
  <2> QED BY <1>4, <2>1, MaxSourceAssumption DEF Skips
<1>5. (gap /\ source_sequence # None /\ last_sequence = source_sequence)
        => gap_pending \/ Skips(last_sequence, number)
  OBVIOUS
<1>6. (source_sequence # None /\ number > source_sequence /\ ~ gap) => ~ gap_pending
  OBVIOUS
<1>7. {} \in SUBSET SourceNumbers
  OBVIOUS
<1> HIDE DEF gap
<1> QED BY <1>2, <1>3, <1>4, <1>5, <1>6, <1>7, SequencedInv

LEMMA OkxBookInv ==
  ASSUME Inv, NEW number \in SourceNumbers, NEW previous \in SignedNumbers \cup {Absent},
         NEW size \in 0 .. MaxSize, OkxBook(number, previous, size)
  PROVE  Inv'
<1>1. venue = "Okx" /\ HeardInv /\ HeardOK
  BY DEF OkxBook, Inv, HeardInv
<1> DEFINE numbers == Following(previous, number)
           unlinked == Unlinked(previous, number)
           gap == previous # Absent /\ previous # Signed(source_sequence)
           auditgap == IF previous # Absent THEN previous # Signed(last_sequence)
                       ELSE Skips(last_sequence, number)
           continuity == ContinuityAfter(last_sequence, number, auditgap)
<1>2. /\ numbers \in SUBSET SourceNumbers /\ number \in numbers /\ size \in Nat
      /\ unlinked \in SUBSET SourceNumbers
  BY MaxSizeAssumption DEF Following, Unlinked, SourceNumbers
<1>3. Sequenced(numbers, unlinked, number, size, StatusAfter(source_sequence, number, gap),
                continuity)
  BY DEF OkxBook, OkxStatus, OkxContinuity
<1>4. ASSUME source_sequence # None, number > source_sequence, ~ gap,
             NEW n \in source_sequence + 1 .. number, n \notin numbers
      PROVE  n \in unlinked /\ (last_sequence = source_sequence => auditgap)
             /\ continuity # "Malformed"
  <2>1. source_sequence \in 0 .. MaxSource /\ number \in 0 .. MaxSource
    BY <1>1, <1>4 DEF HeardOK, SourceNumbers
  <2>2. n \in SourceNumbers /\ n <= number /\ n > source_sequence
    BY <2>1, MaxSourceAssumption DEF SourceNumbers
  <2>3. n # number
    BY <1>2, <1>4
  <2>4. CASE previous = Absent
    <3>1. n < number
      BY <2>1, <2>2, <2>3 DEF SourceNumbers
    <3>2. n \in unlinked
      BY <1>4, <2>2, <2>4, <3>1 DEF Unlinked
    <3>3. number > source_sequence + 1
      BY <2>1, <2>2, <3>1 DEF SourceNumbers
    <3>4. last_sequence = source_sequence => auditgap
      BY <2>4, <3>3 DEF Skips
    <3>5. continuity # "Malformed"
      <4>1. last_sequence \in SourceNumbers \cup {None}
        BY <1>1 DEF HeardOK
      <4>2. CASE last_sequence = None
        BY <4>2 DEF ContinuityAfter
      <4>3. CASE last_sequence # None
        BY <2>1, <4>1, <4>3 DEF ContinuityAfter, SourceNumbers
      <4> QED BY <4>2, <4>3
    <3> QED BY <3>2, <3>4, <3>5
  <2>5. CASE previous = Signed(source_sequence)
    BY <1>4, <2>1, <2>2, <2>5, AbsentAssumption DEF Following, SourceNumbers, Signed
  <2> QED BY <1>4, <2>4, <2>5
<1>5. (gap /\ source_sequence # None /\ last_sequence = source_sequence)
        => gap_pending \/ auditgap
  OBVIOUS
<1>6. (source_sequence # None /\ number > source_sequence /\ ~ gap) => ~ gap_pending
  BY <1>1 DEF HeardInv
<1>7. continuity \in {"Malformed", continuity}
  OBVIOUS
<1> HIDE DEF numbers, unlinked, gap, auditgap
<1> QED BY <1>2, <1>3, <1>4, <1>5, <1>6, <1>7, SequencedInv

(* A message of another Coinbase channel. *)
LEMMA CoinbaseOtherInv ==
  ASSUME Inv, NEW number \in SourceNumbers, CoinbaseOther(number)
  PROVE  Inv'
<1> DEFINE skips == Skips(source_sequence, number)
           continuity == CoinbaseContinuity(last_sequence, number)
           first == source_sequence = None
           told == IF first THEN number ELSE history.told
           missed == history.missed \cup Missing({number}, number, continuity)
           audited == history.audited \/ continuity = "Gap"
<1>1. StepInv /\ HeardInv /\ HeardOK
  BY DEF Inv, HeardInv
<1>2. /\ venue = "Coinbase" /\ venue' = venue
      /\ gap_pending' = (gap_pending \/ (~ first /\ skips))
      /\ source_sequence' = IF first \/ number > source_sequence
                            THEN number ELSE source_sequence
      /\ last_sequence' = AuditedLast(last_sequence, number, continuity)
      /\ history' = [history EXCEPT !.arrived = @ \cup {number}, !.missed = missed,
                                    !.told = told, !.audited = audited]
      /\ UNCHANGED << normalized_sequence, book_last, agreement >>
  BY <1>1 DEF CoinbaseOther, HeardOK
<1>3. StepInv'
  BY <1>1, <1>2 DEF StepInv, NumbersOK, Near
<1>4. source_sequence \in SourceNumbers \cup {None} /\ last_sequence \in SourceNumbers \cup {None}
  BY <1>1 DEF HeardOK
<1>5. /\ continuity \in {"Accepted", "Gap"} <=> (last_sequence = None \/ number > last_sequence)
      /\ continuity = "Gap" <=> (last_sequence # None /\ number > last_sequence
                                 /\ Skips(last_sequence, number))
  BY <1>4, StatusFacts DEF CoinbaseContinuity
<1>6. last_sequence' = IF last_sequence = None \/ number > last_sequence
                       THEN number ELSE last_sequence
  BY <1>2, <1>5 DEF AuditedLast
<1>7. /\ history'.arrived = history.arrived \cup {number}
      /\ history'.missed = missed
      /\ history'.unlinked = history.unlinked
      /\ history'.told = told
      /\ history'.apart = history.apart
      /\ history'.audited = audited
      /\ history'.unaudited = history.unaudited
  BY <1>1, <1>2 DEF HeardOK
<1>8. HeardOK'
  <2>1. told \in SourceNumbers \cup {None} /\ audited \in BOOLEAN
    BY <1>1 DEF HeardOK
  <2>2. gap_pending' \in BOOLEAN
    BY <1>1, <1>2 DEF HeardOK
  <2>3. source_sequence' \in SourceNumbers \cup {None} /\ last_sequence' \in SourceNumbers \cup {None}
    BY <1>2, <1>4, <1>6
  <2>4. missed \in SUBSET SourceNumbers
    <3>1. CASE continuity = "Gap"
      <4>1. last_sequence \in 0 .. MaxSource /\ number \in 0 .. MaxSource
        BY <1>4, <1>5, <3>1 DEF SourceNumbers
      <4> QED BY <1>1, <3>1, <4>1, MaxSourceAssumption DEF Missing, HeardOK, SourceNumbers
    <3> QED BY <1>1, <3>1 DEF Missing, HeardOK
  <2> HIDE DEF told, audited, missed
  <2> QED BY <1>1, <1>2, <2>1, <2>2, <2>3, <2>4 DEF HeardOK
<1>9. source_sequence' # None => told # None
  BY <1>1, <1>2, NoneAssumption DEF HeardInv, SourceNumbers
<1>10. gap_pending' => venue' = "Coinbase" /\ source_sequence' # None
  BY <1>1, <1>2, NoneAssumption DEF HeardInv, SourceNumbers
<1>11. ASSUME gap_pending', ~ history.apart
       PROVE  audited \/ source_sequence' = MaxSource
  <2>1. last_sequence = source_sequence
    BY <1>1, <1>11 DEF HeardInv, ValidatorKeepsStep
  <2>2. CASE gap_pending
    BY <1>1, <1>2, <1>4, <1>11, <2>2, MaxSourceAssumption
       DEF HeardInv, SourceNumbers
  <2>3. CASE ~ first /\ skips
    <3>1. source_sequence \in 0 .. MaxSource /\ number \in 0 .. MaxSource
      BY <1>4, <2>3 DEF SourceNumbers
    <3>2. CASE number > source_sequence
      BY <1>5, <2>1, <2>3, <3>2
    <3>3. CASE ~ number > source_sequence
      BY <1>2, <2>3, <3>1, <3>3, MaxSourceAssumption DEF Skips
    <3> QED BY <3>2, <3>3
  <2> QED BY <1>2, <1>11, <2>2, <2>3
<1>12. HolesAreReported'
  <2> SUFFICES ASSUME ~ gap_pending', source_sequence' # None,
                      NEW n \in told .. source_sequence', n \notin history.arrived \cup {number}
               PROVE  n \in history.unlinked /\ (history.apart \/ n \in missed)
    BY <1>7 DEF HolesAreReported
  <2>1. CASE first
    BY <1>2, <2>1 DEF SourceNumbers
  <2>2. CASE ~ first
    <3>1. ~ gap_pending /\ ~ skips /\ told = history.told
      BY <1>2, <2>2
    <3>2. /\ source_sequence \in 0 .. MaxSource /\ number \in 0 .. MaxSource
          /\ told \in 0 .. MaxSource
      BY <1>1, <1>4, <2>2, <3>1 DEF HeardInv, HeardOK, SourceNumbers
    <3>3. \A m \in told .. source_sequence :
            m \notin history.arrived =>
              m \in history.unlinked /\ (history.apart \/ m \in history.missed)
      BY <1>1, <2>2, <3>1 DEF HeardInv, HolesAreReported
    <3>4. n \in told .. source_sequence \/ n = number
      BY <1>2, <2>2, <3>1, <3>2, MaxSourceAssumption DEF Skips
    <3> QED BY <3>3, <3>4
  <2> QED BY <2>1, <2>2
<1>13. ValidatorKeepsStep'
  BY <1>1, <1>2, <1>6, <1>7 DEF HeardInv, ValidatorKeepsStep
<1> HIDE DEF told, audited
<1>14. HeardInv'
  BY <1>1, <1>7, <1>8, <1>9, <1>10, <1>11, <1>12, <1>13 DEF HeardInv, GapsAreAudited
<1> QED BY <1>3, <1>14 DEF Inv

LEMMA BinanceSnapshotInv ==
  ASSUME Inv, NEW id \in SourceNumbers, NEW size \in 0 .. MaxSize, BinanceSnapshot(id, size)
  PROVE  Inv'
<1>1. StepInv /\ HeardInv /\ HeardOK /\ size \in Nat
  BY MaxSizeAssumption DEF Inv, HeardInv
<1>2. StepInv'
  BY <1>1, PublishAccepted DEF BinanceSnapshot
<1>3. /\ venue = "Binance" /\ venue' = venue /\ gap_pending' = gap_pending
      /\ source_sequence' = id /\ last_sequence' = id
      /\ history' = [history EXCEPT !.arrived = {id}, !.missed = {}, !.told = id,
                                    !.apart = FALSE, !.audited = FALSE, !.gap_at = {}]
  BY DEF BinanceSnapshot
<1>4. /\ history'.arrived = {id} /\ history'.told = id
      /\ history'.unaudited = history.unaudited
  BY <1>1, <1>3 DEF HeardOK
<1>5. HeardOK'
  BY <1>1, <1>3 DEF HeardOK
<1>6. HolesAreReported'
  BY <1>3, <1>4 DEF HolesAreReported, SourceNumbers
<1>7. HeardInv'
  BY <1>1, <1>3, <1>4, <1>5, <1>6, NoneAssumption
     DEF HeardInv, ValidatorKeepsStep, GapsAreAudited, SourceNumbers
<1> QED BY <1>2, <1>7 DEF Inv

LEMMA BinanceSnapshotUnreadInv ==
  ASSUME Inv, NEW id \in SourceNumbers, BinanceSnapshotUnread(id)
  PROVE  Inv'
<1>1. StepInv /\ HeardInv /\ HeardOK
  BY DEF Inv, HeardInv
<1>2. StepInv'
  BY <1>1 DEF BinanceSnapshotUnread, StepInv, NumbersOK, Near
<1>3. /\ last_sequence' = id /\ history' = [history EXCEPT !.apart = TRUE]
      /\ UNCHANGED << venue, source_sequence, gap_pending >>
  BY DEF BinanceSnapshotUnread
<1>4. /\ history'.arrived = history.arrived /\ history'.told = history.told
      /\ history'.unlinked = history.unlinked /\ history'.missed = history.missed
      /\ history'.unaudited = history.unaudited /\ history'.apart
  BY <1>1, <1>3 DEF HeardOK
<1>5. HeardOK'
  BY <1>1, <1>3 DEF HeardOK
<1>6. HeardInv'
  BY <1>1, <1>3, <1>4, <1>5
     DEF HeardInv, HolesAreReported, ValidatorKeepsStep, GapsAreAudited
<1> QED BY <1>2, <1>6 DEF Inv

LEMMA UnsequencedInv ==
  ASSUME Inv, NEW size \in 0 .. MaxSize, Unsequenced(size)
  PROVE  Inv'
<1>1. StepInv /\ HeardInv /\ size \in Nat
  BY MaxSizeAssumption DEF Inv
<1>2. StepInv'
  BY <1>1, PublishAccepted DEF Unsequenced
<1>3. HeardInv'
  BY <1>1 DEF Unsequenced, HeardInv, HeardOK, HolesAreReported, ValidatorKeepsStep, GapsAreAudited
<1> QED BY <1>2, <1>3 DEF Inv

LEMMA NextInv == Inv /\ [Next]_vars => Inv'
<1> SUFFICES ASSUME Inv, [Next]_vars
             PROVE  Inv'
  OBVIOUS
<1>1. ASSUME NEW id \in SourceNumbers, NEW size \in 0 .. MaxSize, BinanceSnapshot(id, size)
      PROVE  Inv'
  BY <1>1, BinanceSnapshotInv
<1>2. ASSUME NEW final \in SourceNumbers, NEW size \in 0 .. MaxSize,
             NEW first \in SourceNumbers \cup {Absent},
             NEW previous \in SourceNumbers \cup {Absent},
             BinanceDepth(first, final, previous, size)
      PROVE  Inv'
  BY <1>2, BinanceDepthInv
<1>3. ASSUME NEW size \in 0 .. MaxSize, CoinbaseLevel2(size) \/ KrakenBook(size)
      PROVE  Inv'
  BY <1>3, UnsequencedInv DEF CoinbaseLevel2, KrakenBook
<1>4. ASSUME NEW number \in SourceNumbers, NEW size \in 0 .. MaxSize, CoinbaseL2Data(number, size)
      PROVE  Inv'
  BY <1>4, CoinbaseL2DataInv
<1>5. ASSUME NEW number \in SourceNumbers, CoinbaseOther(number)
      PROVE  Inv'
  BY <1>5, CoinbaseOtherInv
<1>6. ASSUME NEW number \in SourceNumbers, NEW previous \in SignedNumbers \cup {Absent},
             NEW size \in 0 .. MaxSize, OkxBook(number, previous, size)
      PROVE  Inv'
  BY <1>6, OkxBookInv
<1>7. ASSUME NEW id \in SourceNumbers, BinanceSnapshotUnread(id)
      PROVE  Inv'
  BY <1>7, BinanceSnapshotUnreadInv
<1>8. CASE UNCHANGED vars
  <2>1. StepInv'
    BY <1>8 DEF Inv, StepInv, NumbersOK, Near, vars
  <2>2. HeardInv'
    BY <1>8 DEF Inv, HeardInv, HeardOK, HolesAreReported, ValidatorKeepsStep, GapsAreAudited, vars
  <2> QED BY <2>1, <2>2 DEF Inv
<1> QED BY <1>1, <1>2, <1>3, <1>4, <1>5, <1>6, <1>7, <1>8 DEF Next

(* The inductive invariant holds in every state of a stream. *)
THEOREM StreamInvariant == Spec => []Inv
<1>1. Inv /\ [Next]_vars => Inv'
  BY NextInv
<1> QED BY <1>1, InitInv, PTL DEF Spec

(* Every variable of a stream keeps its type. *)
THEOREM StreamTypes == Spec => []TypeOK
<1>1. Inv => TypeOK
  BY DEF Inv, StepInv, NumbersOK, HeardInv, HeardOK, TypeOK
<1> QED BY <1>1, StreamInvariant, PTL

(***************************************************************************)
(* A stream that begins with an accepted message: the book's verdict on    *)
(* every event of every message is the adapter's on the message.           *)
(***************************************************************************)
THEOREM BookKeepsAgreeing == Spec => []BookAgreesWithAdapter
<1>1. Inv => BookAgreesWithAdapter
  BY DEF Inv, StepInv, NumbersOK, BookAgreesWithAdapter
<1> QED BY <1>1, StreamInvariant, PTL

(* Any stream: the book is never more than one number away from the adapter. *)
THEOREM BookKeepsNear == Spec => []BookStaysNear
<1>1. Inv => BookStaysNear
  BY DEF Inv, StepInv, Near, BookStaysNear
<1> QED BY <1>1, StreamInvariant, PTL

(* The adapters of numbered venues report every hole in the numbers. *)
THEOREM NoHoleIsSilent == Spec => []HolesAreReported
<1>1. Inv => HolesAreReported
  BY DEF Inv, HeardInv
<1> QED BY <1>1, StreamInvariant, PTL

(* The validator stands where the adapter stands, while both read everything. *)
THEOREM ValidatorStaysInStep == Spec => []ValidatorKeepsStep
<1>1. Inv => ValidatorKeepsStep
  BY DEF Inv, HeardInv
<1> QED BY <1>1, StreamInvariant, PTL

(* The validator has reported every gap the adapter reports, while both read everything. *)
THEOREM EveryGapIsAudited == Spec => []GapsAreAudited
<1>1. Inv => GapsAreAudited
  BY DEF Inv, HeardInv
<1> QED BY <1>1, StreamInvariant, PTL
===============================================================================
