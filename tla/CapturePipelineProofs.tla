------------------------- MODULE CapturePipelineProofs ------------------------
(***************************************************************************)
(* Proofs about the capture, the conversion, the replay and the quality    *)
(* report, for every finite set of prices and quantities, every scope of   *)
(* Kraken's book, every capacity of the replay's, and every number of      *)
(* updates and connections.                                                *)
(***************************************************************************)
EXTENDS CapturePipeline, DataInduction

Changes == [price : Prices, quantity : Quantities]
PricesIn(changes) == {changes[i].price : i \in DOMAIN changes}

(* Changes to the quantities of a book. *)
Sets(changes, b) == \A i \in DOMAIN changes : changes[i].quantity = b[changes[i].price]

(* What a record of the file is. *)
CaptureRecord ==
  {r \in [kind : {"snapshot", "depth"}, id : SourceNumbers, changes : Seq(Changes), time : Nat] :
     Len(r.changes) <= Cardinality(Prices)}

-------------------------------------------------------------------------------
(* Lists in the order of a sort. *)

LEMMA PricesAreNumbers ==
  /\ Prices \subseteq Nat /\ IsFiniteSet(Prices) /\ Cardinality(Prices) \in Nat
  /\ \A S \in SUBSET Prices : /\ IsFiniteSet(S) /\ Cardinality(S) \in Nat
                              /\ Cardinality(S) <= Cardinality(Prices)
<1>1. Prices \subseteq Nat /\ IsFiniteSet(Prices)
  BY PricesAssumption
<1>2. \A S \in SUBSET Prices : IsFiniteSet(S) /\ Cardinality(S) <= Cardinality(Prices)
  BY <1>1, FS_Subset
<1>3. \A S \in SUBSET Prices : Cardinality(S) \in Nat
  BY <1>2, FS_CardinalityType
<1> QED BY <1>1, <1>2, <1>3

(* A list of levels names each of their prices once, from the highest, with its quantity. *)
LEMMA ChangesOnIs ==
  ASSUME NEW b \in Books, NEW S \in SUBSET Prices
  PROVE  /\ ChangesOn(b, S) \in Seq(Changes)
         /\ Len(ChangesOn(b, S)) = Cardinality(S)
         /\ PricesIn(ChangesOn(b, S)) = S
         /\ Sets(ChangesOn(b, S), b)
<1> DEFINE R == {pair \in S \X S : pair[1] > pair[2]}
           n == Cardinality(S)
           listed == [i \in 1 .. n |-> CHOOSE x \in S : Cardinality({y \in S : << y, x >> \in R}) = i - 1]
<1>1. IsFiniteSet(S) /\ S \subseteq Nat
  BY PricesAreNumbers
<1>2. /\ \A x \in S : << x, x >> \notin R
      /\ \A x, y, z \in S : << x, y >> \in R /\ << y, z >> \in R => << x, z >> \in R
      /\ \A x, y \in S : x # y => << x, y >> \in R \/ << y, x >> \in R
  BY <1>1
<1> HIDE DEF R
<1>3. /\ n \in Nat
      /\ listed \in [1 .. n -> S]
      /\ \A x \in S : \E i \in 1 .. n : listed[i] = x
      /\ \A i, j \in 1 .. n : i < j => << listed[i], listed[j] >> \in R
  BY <1>1, <1>2, RankedList
<1>4. Sorted(S, R) = listed
  BY DEF Sorted
<1> HIDE DEF listed, n
<1>5. ChangesOn(b, S) = [i \in 1 .. n |-> Change(listed[i], b[listed[i]])]
  <2>1. DOMAIN listed = 1 .. n
    BY <1>3
  <2> QED BY <1>4, <2>1 DEF ChangesOn, R
<1>6. \A i \in 1 .. n : /\ Change(listed[i], b[listed[i]]) \in Changes
                        /\ Change(listed[i], b[listed[i]]).price = listed[i]
                        /\ Change(listed[i], b[listed[i]]).quantity = b[listed[i]]
  <2> TAKE i \in 1 .. n
  <2>1. listed[i] \in Prices
    BY <1>3
  <2>2. b[listed[i]] \in Quantities
    BY <2>1 DEF Books
  <2> QED BY <2>1, <2>2 DEF Change, Changes
<1> DEFINE list == [i \in 1 .. n |-> Change(listed[i], b[listed[i]])]
<1>7. list \in Seq(Changes) /\ Len(list) = n /\ DOMAIN list = 1 .. n
  BY <1>3, <1>6
<1>8. PricesIn(list) = S
  <2>1. \A i \in 1 .. n : list[i].price = listed[i]
    BY <1>6
  <2> HIDE DEF list
  <2> QED BY <1>3, <1>7, <2>1 DEF PricesIn
<1>9. Sets(list, b)
  BY <1>6, <1>7 DEF Sets
<1> QED BY <1>5, <1>7, <1>8, <1>9 DEF n

(***************************************************************************)
(* A list whose elements are each before the later ones, and never the     *)
(* other way round, is what sorting them yields.                           *)
(***************************************************************************)
LEMMA SortedIs ==
  ASSUME NEW B, NEW s \in Seq(B), NEW R,
         \A i, j \in DOMAIN s : i < j => << s[i], s[j] >> \in R,
         \A i, j \in DOMAIN s : i <= j => << s[j], s[i] >> \notin R
  PROVE  Sorted(Range(s), R) = s
<1> DEFINE S == Range(s)
           n == Len(s)
           below(x) == {y \in S : << y, x >> \in R}
<1>1. n \in Nat /\ DOMAIN s = 1 .. n /\ S = {s[i] : i \in 1 .. n} /\ s = [i \in 1 .. n |-> s[i]]
  BY DEF Range
<1> HIDE DEF n
<1>2. \A i, j \in 1 .. n : s[i] = s[j] => i = j
  <2> SUFFICES ASSUME NEW i \in 1 .. n, NEW j \in 1 .. n, s[i] = s[j], i < j
               PROVE  FALSE
    BY <1>1
  <2>1. << s[i], s[j] >> \in R /\ << s[j], s[i] >> \notin R
    BY <1>1
  <2> QED BY <2>1
<1> HIDE DEF S
<1>3. \A k \in 0 .. n : /\ IsFiniteSet({s[i] : i \in 1 .. k})
                        /\ Cardinality({s[i] : i \in 1 .. k}) = k
  <2> TAKE k \in 0 .. n
  <2> DEFINE T == {s[i] : i \in 1 .. k}
             f == [i \in 1 .. k |-> s[i]]
  <2>1. f \in Bijection(1 .. k, T)
    <3>0. \A i \in 1 .. k : i \in 1 .. n
      BY <1>1
    <3>1. \A i, j \in 1 .. k : f[i] = f[j] => i = j
      BY <1>2, <3>0
    <3>2. f \in Surjection(1 .. k, T)
      BY DEF Surjection
    <3> QED BY <3>1, <3>2 DEF Bijection, Injection, IsInjective, Surjection
  <2>2. IsFiniteSet(1 .. k) /\ Cardinality(1 .. k) = k
    BY FS_Interval
  <2> HIDE DEF T, f
  <2>3. ExistsBijection(1 .. k, T)
    BY <2>1 DEF ExistsBijection
  <2>4. IsFiniteSet(T) /\ Cardinality(T) = k
    BY <2>2, <2>3, FS_Bijection
  <2> QED BY <2>4 DEF T
<1>4. Cardinality(S) = n
  <2>1. n \in 0 .. n
    BY <1>1
  <2> QED BY <2>1, <1>1, <1>3
<1>5. \A k \in 1 .. n : Cardinality(below(s[k])) = k - 1
  <2> SUFFICES ASSUME NEW k \in 1 .. n
               PROVE  Cardinality(below(s[k])) = k - 1
    OBVIOUS
  <2>1. below(s[k]) = {s[i] : i \in 1 .. k - 1}
    <3>1. \A i \in 1 .. n : << s[i], s[k] >> \in R <=> i < k
      BY <1>1
    <3>2. \A y \in below(s[k]) : \E i \in 1 .. k - 1 : y = s[i]
      BY <1>1, <3>1
    <3>3. \A i \in 1 .. k - 1 : s[i] \in below(s[k])
      <4> TAKE i \in 1 .. k - 1
      <4>1. i \in 1 .. n /\ i < k
        BY <1>1
      <4>2. s[i] \in S
        BY <4>1, <1>1
      <4> QED BY <4>1, <4>2, <3>1
    <3> HIDE DEF below
    <3> QED BY <3>2, <3>3
  <2>2. k - 1 \in 0 .. n
    BY <1>1
  <2> HIDE DEF below
  <2> QED BY <2>1, <2>2, <1>3
<1>6. \A k \in 1 .. n : (CHOOSE x \in S : Cardinality(below(x)) = k - 1) = s[k]
  <2> SUFFICES ASSUME NEW k \in 1 .. n
               PROVE  (CHOOSE x \in S : Cardinality(below(x)) = k - 1) = s[k]
    OBVIOUS
  <2>1. s[k] \in S
    BY <1>1
  <2>2. \A x \in S : Cardinality(below(x)) = k - 1 => x = s[k]
    <3> SUFFICES ASSUME NEW x \in S, Cardinality(below(x)) = k - 1
                 PROVE  x = s[k]
      OBVIOUS
    <3>1. PICK i \in 1 .. n : x = s[i]
      BY <1>1
    <3>2. i - 1 = k - 1
      <4> HIDE DEF below
      <4> QED BY <3>1, <1>5
    <3> QED BY <3>1, <3>2
  <2> HIDE DEF below
  <2> QED BY <2>1, <2>2, <1>5
<1> HIDE DEF below
<1>7. Sorted(S, R) = [i \in 1 .. n |-> CHOOSE x \in S : Cardinality(below(x)) = i - 1]
  BY <1>4 DEF Sorted, below
<1>8. Sorted(S, R) = [i \in 1 .. n |-> s[i]]
  BY <1>6, <1>7
<1> QED BY <1>1, <1>8 DEF S

-------------------------------------------------------------------------------
(* What a message makes of a state, and its types. *)

(* The prices and quantities of the best levels of a book are its own. *)
LEMMA BestType ==
  ASSUME NEW b \in Books, NEW count
  PROVE  /\ Best(b, count) \in Books
         /\ \A p \in Prices : Best(b, count)[p] \in {b[p], 0}
<1> DEFINE few(p) == Cardinality({q \in Held(b) : q > p}) < count
<1>1. \A p \in Prices : b[p] \in Quantities /\ 0 \in Quantities
  BY QuantitiesAssumption DEF Books
<1>2. Best(b, count) = [p \in Prices |-> IF few(p) THEN b[p] ELSE 0]
  BY DEF Best
<1> HIDE DEF few
<1> QED BY <1>1, <1>2 DEF Books

LEMMA InScopeType ==
  ASSUME NEW of, NEW b \in Books
  PROVE  /\ InScope(of, b) \in Books
         /\ \A p \in Prices : InScope(of, b)[p] \in {b[p], 0}
         /\ of # "Kraken" => InScope(of, b) = b
BY BestType DEF InScope

LEMMA EmptyBookType == EmptyBook \in Books /\ \A p \in Prices : EmptyBook[p] = 0
BY QuantitiesAssumption DEF EmptyBook, Books

(***************************************************************************)
(* The status of a message, and the numbers of its events: all of them if  *)
(* it is accepted, and otherwise that of the first.  One that is not read  *)
(* has no events, as if it were accepted.                                  *)
(***************************************************************************)
StatusOf(of, state, record) ==
  IF of = "Kraken" \/ record.kind = "snapshot" \/ record.changes = << >> THEN "Accepted"
  ELSE BinanceStatus(state.source, record.id, record.id)

LEMMA StatusIs ==
  ASSUME NEW of, NEW state, state.source \in SourceNumbers \cup {None}, NEW record \in CaptureRecord
  PROVE  /\ StatusOf(of, state, record) \in SequenceStatus
         /\ StatusOf(of, state, record) = "Gap" <=>
              /\ of # "Kraken" /\ record.kind # "snapshot" /\ record.changes # << >>
              /\ state.source # None /\ record.id > state.source + 1
         /\ StatusOf(of, state, record) = "Accepted" <=>
              \/ of = "Kraken" \/ record.kind = "snapshot" \/ record.changes = << >>
              \/ state.source = None \/ record.id = state.source + 1
<1> DEFINE source == state.source
<1>1. record.id \in SourceNumbers /\ record.id \in Int /\ record.id <= MaxSource /\ MaxSource \in Nat
  BY MaxSourceAssumption DEF CaptureRecord, SourceNumbers
<1>2. CASE of = "Kraken" \/ record.kind = "snapshot" \/ record.changes = << >>
  BY <1>2 DEF StatusOf, SequenceStatus
<1>3. CASE ~ (of = "Kraken" \/ record.kind = "snapshot" \/ record.changes = << >>)
  <2>1. StatusOf(of, state, record) = BinanceStatus(source, record.id, record.id)
    BY <1>3 DEF StatusOf
  <2>2. CASE source = None
    BY <1>3, <2>1, <2>2 DEF BinanceStatus, StatusAfter, SequenceStatus
  <2>3. CASE source # None
    <3>1. source \in Int /\ source <= MaxSource
      BY <2>3, MaxSourceAssumption DEF SourceNumbers
    <3>2. CASE record.id = source
      BY <1>3, <2>1, <2>3, <3>1, <3>2 DEF BinanceStatus, StatusAfter, SequenceStatus
    <3>3. CASE record.id < source
      BY <1>1, <1>3, <2>1, <2>3, <3>1, <3>3 DEF BinanceStatus, StatusAfter, SequenceStatus
    <3>4. CASE record.id > source
      <4>1. BinanceStatus(source, record.id, record.id) =
              IF Skips(source, record.id) THEN "Gap" ELSE "Accepted"
        BY <1>1, <2>3, <3>1, <3>4 DEF BinanceStatus, StatusAfter
      <4>2. Skips(source, record.id) <=> record.id > source + 1
        BY <1>1, <3>1, <3>4 DEF Skips
      <4> QED BY <1>1, <1>3, <2>1, <2>3, <3>1, <3>4, <4>1, <4>2 DEF SequenceStatus
    <3> QED BY <1>1, <3>1, <3>2, <3>3, <3>4
  <2> QED BY <2>2, <2>3
<1> QED BY <1>2, <1>3

(* An event the adapter makes. *)
Event == [number : Nat, time : Nat, status : SequenceStatus, change : Changes, record : Nat,
          position : Nat]

Made(state, record, status) ==
  LET numbers == AssignedSequences(status, state.next, Len(record.changes))
  IN  [i \in DOMAIN numbers |->
         [number |-> numbers[i], time |-> record.time, status |-> status,
          change |-> record.changes[i], record |-> state.read + 1,
          position |-> Len(state.events) + i]]

Reading == [source : SourceNumbers \cup {None}, next : Nat \ {0}, read : Nat, events : Seq(Event)]

(* The events a message makes of it. *)
LEMMA MadeIs ==
  ASSUME NEW state \in Reading, NEW record \in CaptureRecord, NEW status \in SequenceStatus,
         status # "Accepted" => record.changes # << >>
  PROVE  /\ Made(state, record, status) \in Seq(Event)
         /\ status = "Accepted" =>
              /\ Len(Made(state, record, status)) = Len(record.changes)
              /\ Len(AssignedSequences(status, state.next, Len(record.changes))) = Len(record.changes)
              /\ \A i \in 1 .. Len(record.changes) :
                   Made(state, record, status)[i] =
                     [number |-> state.next + i - 1, time |-> record.time, status |-> status,
                      change |-> record.changes[i], record |-> state.read + 1,
                      position |-> Len(state.events) + i]
         /\ status # "Accepted" =>
              /\ Len(Made(state, record, status)) = 1
              /\ Made(state, record, status)[1] =
                     [number |-> NormalizedSequence(status, state.next), time |-> record.time,
                      status |-> status, change |-> record.changes[1], record |-> state.read + 1,
                      position |-> Len(state.events) + 1]
<1> DEFINE size == Len(record.changes)
           numbers == AssignedSequences(status, state.next, size)
<1>1. /\ record.changes \in Seq(Changes) /\ size \in Nat /\ record.time \in Nat
      /\ \A i \in 1 .. size : record.changes[i] \in Changes
      /\ status # "Accepted" => size >= 1
  BY DEF CaptureRecord
<1>2. /\ state.next \in Nat \ {0} /\ state.read \in Nat /\ state.events \in Seq(Event)
      /\ Len(state.events) \in Nat
  BY DEF Reading
<1> HIDE DEF size
<1>3. CASE status = "Accepted"
  <2>1. numbers = [i \in 1 .. size |-> state.next + i - 1]
    BY <1>3 DEF AssignedSequences
  <2> HIDE DEF numbers
  <2>2. DOMAIN numbers = 1 .. size /\ Len(numbers) = size
    BY <1>1, <2>1
  <2>3. \A i \in 1 .. size : numbers[i] = state.next + i - 1 /\ numbers[i] \in Nat
    BY <1>1, <1>2, <2>1
  <2> DEFINE made == [i \in 1 .. size |->
                        [number |-> numbers[i], time |-> record.time, status |-> status,
                         change |-> record.changes[i], record |-> state.read + 1,
                         position |-> Len(state.events) + i]]
  <2>4. Made(state, record, status) = made
    BY <2>2 DEF Made, numbers, size
  <2>5. \A i \in 1 .. size : made[i] \in Event
    <3> TAKE i \in 1 .. size
    <3>1. Len(state.events) + i \in Nat /\ state.read + 1 \in Nat
      BY <1>1, <1>2
    <3> QED BY <1>1, <2>3, <3>1 DEF Event
  <2>6. made \in Seq(Event) /\ Len(made) = size
    BY <1>1, <2>5
  <2>7. \A i \in 1 .. size : made[i] = [number |-> state.next + i - 1, time |-> record.time,
                      status |-> status, change |-> record.changes[i], record |-> state.read + 1,
                      position |-> Len(state.events) + i]
    BY <2>3
  <2> HIDE DEF made
  <2> QED BY <1>3, <2>2, <2>4, <2>6, <2>7 DEF size, numbers
<1>4. CASE status # "Accepted"
  <2>1. numbers = << NormalizedSequence(status, state.next) >>
    BY <1>4 DEF AssignedSequences
  <2>2. NormalizedSequence(status, state.next) \in Nat
    <3>1. status \in {"Duplicate", "Stale", "Gap"}
      BY <1>4 DEF SequenceStatus
    <3> QED BY <1>2, <3>1 DEF NormalizedSequence
  <2> HIDE DEF numbers
  <2>3. DOMAIN numbers = 1 .. 1 /\ numbers[1] = NormalizedSequence(status, state.next)
    BY <2>1
  <2> DEFINE made == [i \in 1 .. 1 |->
                        [number |-> numbers[i], time |-> record.time, status |-> status,
                         change |-> record.changes[i], record |-> state.read + 1,
                         position |-> Len(state.events) + i]]
  <2>4. Made(state, record, status) = made
    BY <2>3 DEF Made, numbers, size
  <2>5. \A i \in 1 .. 1 : made[i] \in Event
    <3> TAKE i \in 1 .. 1
    <3>1. i = 1 /\ i \in 1 .. size /\ Len(state.events) + i \in Nat /\ state.read + 1 \in Nat
      BY <1>1, <1>2, <1>4
    <3>2. record.changes[i] \in Changes /\ numbers[i] \in Nat
      BY <1>1, <2>2, <2>3, <3>1
    <3> QED BY <1>1, <3>1, <3>2 DEF Event
  <2>6. made \in Seq(Event) /\ Len(made) = 1
    BY <2>5
  <2>7. made[1] = [number |-> NormalizedSequence(status, state.next), time |-> record.time,
                      status |-> status, change |-> record.changes[1], record |-> state.read + 1,
                      position |-> Len(state.events) + 1]
    BY <2>3
  <2> HIDE DEF made
  <2> QED BY <1>4, <2>4, <2>6, <2>7 DEF size
<1> QED BY <1>3, <1>4

(* The adapter reads on from the number of a message. *)
ReadsTo(status, record) ==
  ~ Unread(record) /\ (record.kind = "snapshot" \/ status \in {"Accepted", "Gap"})

(* What reading a message makes of the state of the adapter. *)
LEMMA NumberedIs ==
  ASSUME NEW of, NEW state \in Reading, NEW record \in CaptureRecord
  PROVE  LET status == StatusOf(of, state, record)
             after == Numbered(of, state, record)
         IN  /\ after \in Reading
             /\ status \in SequenceStatus
             /\ status # "Accepted" => record.kind = "depth" /\ record.changes # << >>
             /\ after.source = IF ReadsTo(status, record) THEN record.id ELSE state.source
             /\ after.next = IF status = "Accepted" THEN state.next + Len(record.changes)
                             ELSE state.next
             /\ after.read = state.read + 1
             /\ after.events = state.events \o Made(state, record, status)
<1> DEFINE status == StatusOf(of, state, record)
           after == Numbered(of, state, record)
           numbers == AssignedSequences(status, state.next, Len(record.changes))
<1>1. state.source \in SourceNumbers \cup {None} /\ state.next \in Nat \ {0} /\ state.read \in Nat
      /\ state.events \in Seq(Event)
  BY DEF Reading
<1>2. record.id \in SourceNumbers /\ Len(record.changes) \in Nat /\ record.kind \in {"snapshot", "depth"}
  BY DEF CaptureRecord
<1>3. status \in SequenceStatus /\ (status # "Accepted" => record.kind = "depth" /\ record.changes # << >>)
  <2>1. status \in SequenceStatus
    BY <1>1, StatusIs
  <2>2. status # "Accepted" => record.kind # "snapshot" /\ record.changes # << >>
    BY DEF StatusOf
  <2> QED BY <1>2, <2>1, <2>2
<1>4. /\ Made(state, record, status) \in Seq(Event)
      /\ status = "Accepted" => Len(numbers) = Len(record.changes)
      /\ status = "Accepted" => Len(Made(state, record, status)) = Len(record.changes)
  <2> HIDE DEF status
  <2> QED BY <1>3, MadeIs
<1>5. state.events \o Made(state, record, status) \in Seq(Event)
  <2> HIDE DEF status
  <2> QED BY <1>1, <1>4
<1>6. after = [source |-> IF ReadsTo(status, record) THEN record.id ELSE state.source,
               next   |-> IF status = "Accepted" THEN state.next + Len(record.changes) ELSE state.next,
               read   |-> state.read + 1,
               events |-> state.events \o Made(state, record, status)]
  <2>1. CASE Unread(record)
    <3>1. after = [state EXCEPT !.read = state.read + 1]
      BY <2>1 DEF Numbered
    <3>2. status = "Accepted" /\ Len(record.changes) = 0 /\ record.changes = << >>
      BY <2>1 DEF Unread, StatusOf
    <3>3. ~ ReadsTo(status, record)
      BY <2>1 DEF ReadsTo
    <3> HIDE DEF status, after
    <3>4. state = [source |-> state.source, next |-> state.next, read |-> state.read,
                   events |-> state.events]
      BY DEF Reading
    <3>5. Made(state, record, status) = << >>
      <4>1. Made(state, record, status) \in Seq(Event) /\ Len(Made(state, record, status)) = 0
        BY <1>4, <3>2
      <4> QED BY <4>1
    <3>6. state.events \o Made(state, record, status) = state.events
      BY <1>1, <3>5
    <3>7. state.next + Len(record.changes) = state.next
      BY <1>1, <3>2
    <3>8. after = [source |-> state.source, next |-> state.next, read |-> state.read + 1,
                   events |-> state.events]
      BY <3>1, <3>4
    <3> QED BY <3>2, <3>3, <3>6, <3>7, <3>8
  <2>2. CASE ~ Unread(record)
    <3>1. StatusOf(of, state, record) = IF of = "Kraken" \/ record.kind = "snapshot" THEN "Accepted"
                                        ELSE BinanceStatus(state.source, record.id, record.id)
      BY <1>2, <2>2 DEF StatusOf, Unread
    <3>2. after =
            [source |-> IF record.kind = "snapshot" \/ status \in {"Accepted", "Gap"} THEN record.id
                        ELSE state.source,
             next   |-> IF status = "Accepted" THEN state.next + Len(numbers) ELSE state.next,
             read   |-> state.read + 1,
             events |-> state.events \o Made(state, record, status)]
      BY <2>2, <3>1 DEF Numbered, Made
    <3>3. ReadsTo(status, record) <=> record.kind = "snapshot" \/ status \in {"Accepted", "Gap"}
      BY <2>2 DEF ReadsTo
    <3> HIDE DEF status, after, numbers
    <3> QED BY <1>4, <3>2, <3>3
  <2> QED BY <2>1, <2>2
<1> HIDE DEF status, after, numbers
<1>7. after \in Reading
  BY <1>1, <1>2, <1>5, <1>6 DEF Reading
<1> QED BY <1>3, <1>6, <1>7 DEF status, after

-------------------------------------------------------------------------------
(* The runs of the model over lists. *)

(* A list of changes is applied one at a time. *)
LEMMA ApplyChangesStep ==
  ASSUME NEW b \in Books
  PROVE  /\ ApplyChanges(b, << >>) = b
         /\ \A s \in Seq(Changes) : ApplyChanges(b, s) \in Books
         /\ \A s \in Seq(Changes), e \in Changes :
              ApplyChanges(b, Append(s, e)) = ApplyChange(ApplyChanges(b, s), e)
<1> DEFINE step == [x \in Books \X Changes |-> ApplyChange(x[1], x[2])]
           value == [list \in Seq(Changes) |-> ApplyChanges(b, list)]
<1>1. b \in Books /\ \A a \in Books, e \in Changes : ApplyChange(a, e) \in Books
  BY DEF ApplyChange, Books, Changes
<1>2. step \in [Books \X Changes -> Books]
  BY <1>1
<1>3. \A a \in Books, e \in Changes : step[<< a, e >>] = ApplyChange(a, e)
  OBVIOUS
<1> HIDE DEF step
<1>4. ASSUME NEW list \in Seq(Changes)
      PROVE  \E after : /\ IsFold(after, Books, step, b, list)
                       /\ value[list] = after[Len(list)]
  <2> DEFINE Def(f) == [n \in 0 .. Len(list) |->
                          IF n = 0 THEN b ELSE ApplyChange(f[n - 1], list[n])]
             after == CHOOSE f : f = Def(f)
  <2>1. Len(list) \in Nat /\ \A n \in 1 .. Len(list) : list[n] \in Changes /\ n # 0 /\ n \in 0 .. Len(list)
    OBVIOUS
  <2>2. PICK g : IsFold(g, Books, step, b, list)
    BY <1>1, <1>2, FoldExists
  <2>3. g = Def(g)
    <3>0. /\ g \in [0 .. Len(list) -> Books]
          /\ \A n \in 1 .. Len(list) : n - 1 \in 0 .. Len(list)
          /\ \A n \in 1 .. Len(list) : g[n] = step[<< g[n - 1], list[n] >>]
      BY <2>1, <2>2 DEF IsFold
    <3>1. \A n \in 1 .. Len(list) : g[n - 1] \in Books /\ g[n] = step[<< g[n - 1], list[n] >>]
      BY <3>0
    <3>2. \A n \in 1 .. Len(list) : g[n] = ApplyChange(g[n - 1], list[n])
      BY <1>3, <2>1, <3>1
    <3>3. g = [n \in 0 .. Len(list) |-> g[n]] /\ g[0] = b
      BY <2>2 DEF IsFold
    <3>4. \A n \in 0 .. Len(list) : n # 0 => n \in 1 .. Len(list)
      BY <2>1
    <3> QED BY <3>2, <3>3, <3>4
  <2>4. after = Def(after)
    <3> HIDE DEF Def
    <3> QED BY <2>3
  <2>5. value[list] = after[Len(list)]
    BY DEF ApplyChanges
  <2> HIDE DEF after
  <2>6. after = [n \in 0 .. Len(list) |-> after[n]]
    BY <2>4
  <2>7. after[0] = b
    BY <2>1, <2>4
  <2>8. \A n \in 1 .. Len(list) : after[n] = ApplyChange(after[n - 1], list[n])
    BY <2>1, <2>4
  <2> HIDE DEF Def, value
  <2>9. \A n \in 1 .. Len(list) :
          after[n - 1] \in Books => after[n] = step[<< after[n - 1], list[n] >>]
    BY <1>3, <2>1, <2>8
  <2>10. IsFold(after, Books, step, b, list)
    BY <1>1, <1>2, <2>6, <2>7, <2>9, RunIsFold
  <2> QED BY <2>5, <2>10
<1> HIDE DEF value
<1>5. /\ value[<< >>] = b
      /\ \A s \in Seq(Changes) : value[s] \in Books
      /\ \A s \in Seq(Changes), e \in Changes : value[Append(s, e)] = step[<< value[s], e >>]
  <2>1. EndsRuns(value, Books, Changes, step, b)
    BY <1>4 DEF EndsRuns
  <2>2. Grows(value, Books, Changes, step, b)
    BY <1>1, <1>2, <2>1, FoldGrows
  <2> QED BY <2>2 DEF Grows
<1>6. << >> \in Seq(Changes) /\ \A s \in Seq(Changes), e \in Changes : Append(s, e) \in Seq(Changes)
  OBVIOUS
<1>7. \A s \in Seq(Changes) : value[s] = ApplyChanges(b, s)
  BY DEF value
<1> QED BY <1>3, <1>5, <1>6, <1>7

LEMMA UnreadType == [source |-> None, next |-> 1, read |-> 0, events |-> << >>] \in Reading
BY DEF Reading

(* What the replay has, and what the report has. *)
ReplayState == [book : Books, last : Nat \cup {None}, evicted : SUBSET Prices,
                dropped : SUBSET Event, disputed : SUBSET Event]
ReportState == [book : Books, sequence : SourceNumbers \cup {None}, gaps : Nat]

LEMMA ReplayedType ==
  /\ [book |-> EmptyBook, last |-> None, evicted |-> {}, dropped |-> {}, disputed |-> {}] \in ReplayState
  /\ \A state \in ReplayState, event \in Event : Replayed(state, event) \in ReplayState
<1>1. [book |-> EmptyBook, last |-> None, evicted |-> {}, dropped |-> {}, disputed |-> {}] \in ReplayState
  BY EmptyBookType DEF ReplayState
<1>2. ASSUME NEW state \in ReplayState, NEW event \in Event
      PROVE  Replayed(state, event) \in ReplayState
  <2> DEFINE accepted == Verdict(state.last, event.number) = "Accepted"
             changed == ApplyChange(state.book, event.change)
             cut == Cut(state.book, event.change)
  <2>1. /\ state.book \in Books /\ state.last \in Nat \cup {None} /\ state.evicted \in SUBSET Prices
        /\ state.dropped \in SUBSET Event /\ state.disputed \in SUBSET Event
        /\ event.number \in Nat /\ event.change \in Changes
    BY DEF ReplayState, Event
  <2>2. cut \in Books
    <3>1. changed \in Books
      BY <2>1 DEF ApplyChange, Books, Changes
    <3> HIDE DEF changed
    <3>2. Best(changed, Capacity) \in Books
      BY <3>1, BestType
    <3> QED BY <3>2 DEF Cut, changed
  <2>3. Replayed(state, event) =
          [book     |-> IF accepted THEN cut ELSE state.book,
           last     |-> IF accepted THEN event.number ELSE state.last,
           evicted  |-> IF accepted
                        THEN (state.evicted \ {event.change.price}) \cup
                             {p \in Prices : cut[p] # changed[p]}
                        ELSE state.evicted,
           dropped  |-> IF accepted THEN state.dropped ELSE state.dropped \cup {event},
           disputed |-> IF accepted = (event.status = "Accepted") THEN state.disputed
                        ELSE state.disputed \cup {event}]
    BY DEF Replayed
  <2> HIDE DEF accepted, changed, cut
  <2>4. (IF accepted = (event.status = "Accepted") THEN state.disputed
         ELSE state.disputed \cup {event}) \in SUBSET Event
    BY <2>1
  <2>5. (IF accepted THEN state.dropped ELSE state.dropped \cup {event}) \in SUBSET Event
    BY <2>1
  <2>6. (IF accepted THEN cut ELSE state.book) \in Books
    BY <2>1, <2>2
  <2>7. (IF accepted THEN event.number ELSE state.last) \in Nat \cup {None}
    BY <2>1
  <2>8. (IF accepted
         THEN (state.evicted \ {event.change.price}) \cup {p \in Prices : cut[p] # changed[p]}
         ELSE state.evicted) \in SUBSET Prices
    BY <2>1
  <2> QED BY <2>3, <2>4, <2>5, <2>6, <2>7, <2>8 DEF ReplayState
<1> QED BY <1>1, <1>2

(* A file is read one record at a time. *)
LEMMA NormalizedStep ==
  ASSUME NEW of
  PROVE  /\ Normalized(of, << >>) = [source |-> None, next |-> 1, read |-> 0, events |-> << >>]
         /\ \A s \in Seq(CaptureRecord) : Normalized(of, s) \in Reading
         /\ \A s \in Seq(CaptureRecord), e \in CaptureRecord :
              Normalized(of, Append(s, e)) = Numbered(of, Normalized(of, s), e)
<1> DEFINE step == [x \in Reading \X CaptureRecord |-> Numbered(of, x[1], x[2])]
           value == [list \in Seq(CaptureRecord) |-> Normalized(of, list)]
<1>1. [source |-> None, next |-> 1, read |-> 0, events |-> << >>] \in Reading
      /\ \A a \in Reading, e \in CaptureRecord : Numbered(of, a, e) \in Reading
  BY UnreadType, NumberedIs
<1>2. step \in [Reading \X CaptureRecord -> Reading]
  BY <1>1
<1>3. \A a \in Reading, e \in CaptureRecord : step[<< a, e >>] = Numbered(of, a, e)
  OBVIOUS
<1> HIDE DEF step
<1>4. ASSUME NEW list \in Seq(CaptureRecord)
      PROVE  \E after : /\ IsFold(after, Reading, step,
                                  [source |-> None, next |-> 1, read |-> 0, events |-> << >>], list)
                       /\ value[list] = after[Len(list)]
  <2> DEFINE Def(f) == [n \in 0 .. Len(list) |->
                          IF n = 0 THEN [source |-> None, next |-> 1, read |-> 0, events |-> << >>]
                          ELSE Numbered(of, f[n - 1], list[n])]
             after == CHOOSE f : f = Def(f)
  <2>1. Len(list) \in Nat
        /\ \A n \in 1 .. Len(list) : list[n] \in CaptureRecord /\ n # 0 /\ n \in 0 .. Len(list)
    OBVIOUS
  <2>2. PICK g : IsFold(g, Reading, step, [source |-> None, next |-> 1, read |-> 0, events |-> << >>], list)
    BY <1>1, <1>2, FoldExists
  <2>3. g = Def(g)
    <3>0. /\ g \in [0 .. Len(list) -> Reading]
          /\ \A n \in 1 .. Len(list) : n - 1 \in 0 .. Len(list)
          /\ \A n \in 1 .. Len(list) : g[n] = step[<< g[n - 1], list[n] >>]
      <4>1. \A n \in 1 .. Len(list) : n - 1 \in 0 .. Len(list)
        BY <2>1
      <4> QED BY <2>2, <4>1 DEF IsFold
    <3>1. \A n \in 1 .. Len(list) : g[n - 1] \in Reading /\ g[n] = step[<< g[n - 1], list[n] >>]
      BY <3>0
    <3>2. \A n \in 1 .. Len(list) : g[n] = Numbered(of, g[n - 1], list[n])
      BY <1>3, <2>1, <3>1
    <3>3. g = [n \in 0 .. Len(list) |-> g[n]]
          /\ g[0] = [source |-> None, next |-> 1, read |-> 0, events |-> << >>]
      BY <2>2 DEF IsFold
    <3>4. \A n \in 0 .. Len(list) : n # 0 => n \in 1 .. Len(list)
      BY <2>1
    <3> QED BY <3>2, <3>3, <3>4
  <2>4. after = Def(after)
    <3> HIDE DEF Def
    <3> QED BY <2>3
  <2>5. value[list] = after[Len(list)]
    BY DEF Normalized
  <2> HIDE DEF after
  <2>6. after = [n \in 0 .. Len(list) |-> after[n]]
    BY <2>4
  <2>7. after[0] = [source |-> None, next |-> 1, read |-> 0, events |-> << >>]
    BY <2>1, <2>4
  <2>8. \A n \in 1 .. Len(list) : after[n] = Numbered(of, after[n - 1], list[n])
    BY <2>1, <2>4
  <2> HIDE DEF Def, value
  <2>9. \A n \in 1 .. Len(list) :
          after[n - 1] \in Reading => after[n] = step[<< after[n - 1], list[n] >>]
    BY <1>3, <2>1, <2>8
  <2>10. IsFold(after, Reading, step, [source |-> None, next |-> 1, read |-> 0, events |-> << >>], list)
    BY <1>1, <1>2, <2>6, <2>7, <2>9, RunIsFold
  <2> QED BY <2>5, <2>10
<1> HIDE DEF value
<1>5. /\ value[<< >>] = [source |-> None, next |-> 1, read |-> 0, events |-> << >>]
      /\ \A s \in Seq(CaptureRecord) : value[s] \in Reading
      /\ \A s \in Seq(CaptureRecord), e \in CaptureRecord : value[Append(s, e)] = step[<< value[s], e >>]
  <2>1. EndsRuns(value, Reading, CaptureRecord, step,
                 [source |-> None, next |-> 1, read |-> 0, events |-> << >>])
    BY <1>4 DEF EndsRuns
  <2>2. Grows(value, Reading, CaptureRecord, step,
              [source |-> None, next |-> 1, read |-> 0, events |-> << >>])
    BY <1>1, <1>2, <2>1, FoldGrows
  <2> QED BY <2>2 DEF Grows
<1>6. << >> \in Seq(CaptureRecord)
      /\ \A s \in Seq(CaptureRecord), e \in CaptureRecord : Append(s, e) \in Seq(CaptureRecord)
  OBVIOUS
<1>7. \A s \in Seq(CaptureRecord) : value[s] = Normalized(of, s)
  BY DEF value
<1> QED BY <1>3, <1>5, <1>6, <1>7

(* A log is replayed one event at a time. *)
LEMMA ReplayStep ==
  /\ ReplayOf(<< >>) = [book |-> EmptyBook, last |-> None, evicted |-> {}, dropped |-> {}, disputed |-> {}]
  /\ \A s \in Seq(Event) : ReplayOf(s) \in ReplayState
  /\ \A s \in Seq(Event), e \in Event :
       ReplayOf(Append(s, e)) = Replayed(ReplayOf(s), e)
<1> DEFINE step == [x \in ReplayState \X Event |-> Replayed(x[1], x[2])]
           value == [list \in Seq(Event) |-> ReplayOf(list)]
<1>1. [book |-> EmptyBook, last |-> None, evicted |-> {}, dropped |-> {}, disputed |-> {}] \in ReplayState
      /\ \A a \in ReplayState, e \in Event : Replayed(a, e) \in ReplayState
  BY ReplayedType
<1>2. step \in [ReplayState \X Event -> ReplayState]
  BY <1>1
<1>3. \A a \in ReplayState, e \in Event : step[<< a, e >>] = Replayed(a, e)
  OBVIOUS
<1> HIDE DEF step
<1>4. ASSUME NEW list \in Seq(Event)
      PROVE  \E after : /\ IsFold(after, ReplayState, step,
                                  [book |-> EmptyBook, last |-> None, evicted |-> {}, dropped |-> {}, disputed |-> {}], list)
                       /\ value[list] = after[Len(list)]
  <2> DEFINE Def(f) == [n \in 0 .. Len(list) |->
                          IF n = 0 THEN [book |-> EmptyBook, last |-> None, evicted |-> {}, dropped |-> {}, disputed |-> {}]
                          ELSE Replayed(f[n - 1], list[n])]
             after == CHOOSE f : f = Def(f)
  <2>1. Len(list) \in Nat /\ \A n \in 1 .. Len(list) : list[n] \in Event /\ n # 0 /\ n \in 0 .. Len(list)
    OBVIOUS
  <2>2. PICK g : IsFold(g, ReplayState, step,
                        [book |-> EmptyBook, last |-> None, evicted |-> {}, dropped |-> {}, disputed |-> {}], list)
    BY <1>1, <1>2, FoldExists
  <2>3. g = Def(g)
    <3>0. /\ g \in [0 .. Len(list) -> ReplayState]
          /\ \A n \in 1 .. Len(list) : n - 1 \in 0 .. Len(list)
          /\ \A n \in 1 .. Len(list) : g[n] = step[<< g[n - 1], list[n] >>]
      BY <2>1, <2>2 DEF IsFold
    <3>1. \A n \in 1 .. Len(list) : g[n - 1] \in ReplayState /\ g[n] = step[<< g[n - 1], list[n] >>]
      BY <3>0
    <3>2. \A n \in 1 .. Len(list) : g[n] = Replayed(g[n - 1], list[n])
      BY <1>3, <2>1, <3>1
    <3>3. g = [n \in 0 .. Len(list) |-> g[n]]
          /\ g[0] = [book |-> EmptyBook, last |-> None, evicted |-> {}, dropped |-> {}, disputed |-> {}]
      BY <2>2 DEF IsFold
    <3>4. \A n \in 0 .. Len(list) : n # 0 => n \in 1 .. Len(list)
      BY <2>1
    <3> QED BY <3>2, <3>3, <3>4
  <2>4. after = Def(after)
    <3> HIDE DEF Def
    <3> QED BY <2>3
  <2>5. value[list] = after[Len(list)]
    BY DEF ReplayOf
  <2> HIDE DEF after
  <2>6. after = [n \in 0 .. Len(list) |-> after[n]]
    BY <2>4
  <2>7. after[0] = [book |-> EmptyBook, last |-> None, evicted |-> {}, dropped |-> {}, disputed |-> {}]
    BY <2>1, <2>4
  <2>8. \A n \in 1 .. Len(list) : after[n] = Replayed(after[n - 1], list[n])
    BY <2>1, <2>4
  <2> HIDE DEF Def, value
  <2>9. \A n \in 1 .. Len(list) :
          after[n - 1] \in ReplayState => after[n] = step[<< after[n - 1], list[n] >>]
    BY <1>3, <2>1, <2>8
  <2>10. IsFold(after, ReplayState, step,
                [book |-> EmptyBook, last |-> None, evicted |-> {}, dropped |-> {}, disputed |-> {}], list)
    BY <1>1, <1>2, <2>6, <2>7, <2>9, RunIsFold
  <2> QED BY <2>5, <2>10
<1> HIDE DEF value
<1>5. /\ value[<< >>] = [book |-> EmptyBook, last |-> None, evicted |-> {}, dropped |-> {}, disputed |-> {}]
      /\ \A s \in Seq(Event) : value[s] \in ReplayState
      /\ \A s \in Seq(Event), e \in Event : value[Append(s, e)] = step[<< value[s], e >>]
  <2>1. EndsRuns(value, ReplayState, Event, step,
                 [book |-> EmptyBook, last |-> None, evicted |-> {}, dropped |-> {}, disputed |-> {}])
    BY <1>4 DEF EndsRuns
  <2>2. Grows(value, ReplayState, Event, step,
              [book |-> EmptyBook, last |-> None, evicted |-> {}, dropped |-> {}, disputed |-> {}])
    BY <1>1, <1>2, <2>1, FoldGrows
  <2> QED BY <2>2 DEF Grows
<1>6. << >> \in Seq(Event) /\ \A s \in Seq(Event), e \in Event : Append(s, e) \in Seq(Event)
  OBVIOUS
<1>7. \A s \in Seq(Event) : value[s] = ReplayOf(s)
  BY DEF value
<1>8. \A s \in Seq(Event), e \in Event : ReplayOf(Append(s, e)) = Replayed(ReplayOf(s), e)
  <2> SUFFICES ASSUME NEW s \in Seq(Event), NEW e \in Event
               PROVE  ReplayOf(Append(s, e)) = Replayed(ReplayOf(s), e)
    OBVIOUS
  <2>1. Append(s, e) \in Seq(Event)
        /\ value[Append(s, e)] = step[<< value[s], e >>] /\ value[s] \in ReplayState
    BY <1>5, <1>6
  <2>2. value[Append(s, e)] = ReplayOf(Append(s, e)) /\ value[s] = ReplayOf(s)
    BY <1>7, <2>1
  <2>3. step[<< value[s], e >>] = Replayed(value[s], e)
    BY <1>3, <2>1
  <2> QED BY <2>1, <2>2, <2>3
<1> QED BY <1>5, <1>6, <1>7, <1>8

LEMMA ObservedType ==
  /\ [book |-> EmptyBook, sequence |-> None, gaps |-> 0] \in ReportState
  /\ \A of : \A state \in ReportState, record \in CaptureRecord :
       /\ Base(state.book, record) \in Books
       /\ ApplyChanges(Base(state.book, record), record.changes) \in Books
       /\ Observed(of, state, record) \in ReportState
<1>1. [book |-> EmptyBook, sequence |-> None, gaps |-> 0] \in ReportState
  BY EmptyBookType DEF ReportState
<1>2. ASSUME NEW of, NEW state \in ReportState, NEW record \in CaptureRecord
      PROVE  /\ Base(state.book, record) \in Books
             /\ ApplyChanges(Base(state.book, record), record.changes) \in Books
             /\ Observed(of, state, record) \in ReportState
  <2>1. /\ state.book \in Books /\ state.sequence \in SourceNumbers \cup {None} /\ state.gaps \in Nat
        /\ record.id \in SourceNumbers /\ record.changes \in Seq(Changes)
    BY DEF ReportState, CaptureRecord
  <2>2. Base(state.book, record) \in Books
    BY <2>1, EmptyBookType DEF Base
  <2>3. ApplyChanges(Base(state.book, record), record.changes) \in Books
    BY <2>1, <2>2, ApplyChangesStep
  <2>4. InScope(of, ApplyChanges(Base(state.book, record), record.changes)) \in Books
    BY <2>3, InScopeType
  <2>5. Seen(state.sequence, record) \in SourceNumbers \cup {None}
    BY <2>1 DEF Seen
  <2>6. Observed(of, state, record) \in ReportState
    BY <2>1, <2>4, <2>5 DEF Observed, ReportState
  <2> QED BY <2>2, <2>3, <2>6
<1> QED BY <1>1, <1>2

(* The book that the changes of some records make of one, never cleared nor cut. *)
BookAfter(b, records) ==
  LET after[n \in 0 .. Len(records)] ==
        IF n = 0 THEN b ELSE ApplyChanges(after[n - 1], records[n].changes)
  IN  after[Len(records)]

(* The report takes a file one record at a time. *)
LEMMA ReportStep ==
  ASSUME NEW of
  PROVE  /\ ReportOf(of, << >>) = [book |-> EmptyBook, sequence |-> None, gaps |-> 0]
         /\ \A s \in Seq(CaptureRecord) : ReportOf(of, s) \in ReportState
         /\ \A s \in Seq(CaptureRecord), e \in CaptureRecord :
              ReportOf(of, Append(s, e)) = Observed(of, ReportOf(of, s), e)
<1> DEFINE step == [x \in ReportState \X CaptureRecord |-> Observed(of, x[1], x[2])]
           value == [list \in Seq(CaptureRecord) |-> ReportOf(of, list)]
<1>1. [book |-> EmptyBook, sequence |-> None, gaps |-> 0] \in ReportState
      /\ \A a \in ReportState, e \in CaptureRecord : Observed(of, a, e) \in ReportState
  BY ObservedType
<1>2. step \in [ReportState \X CaptureRecord -> ReportState]
  BY <1>1
<1>3. \A a \in ReportState, e \in CaptureRecord : step[<< a, e >>] = Observed(of, a, e)
  OBVIOUS
<1> HIDE DEF step
<1>4. ASSUME NEW list \in Seq(CaptureRecord)
      PROVE  \E after : /\ IsFold(after, ReportState, step,
                                  [book |-> EmptyBook, sequence |-> None, gaps |-> 0], list)
                       /\ value[list] = after[Len(list)]
  <2> DEFINE Def(f) == [n \in 0 .. Len(list) |->
                          IF n = 0 THEN [book |-> EmptyBook, sequence |-> None, gaps |-> 0]
                          ELSE Observed(of, f[n - 1], list[n])]
             after == CHOOSE f : f = Def(f)
  <2>1. Len(list) \in Nat
        /\ \A n \in 1 .. Len(list) : list[n] \in CaptureRecord /\ n # 0 /\ n \in 0 .. Len(list)
    OBVIOUS
  <2>2. PICK g : IsFold(g, ReportState, step, [book |-> EmptyBook, sequence |-> None, gaps |-> 0], list)
    BY <1>1, <1>2, FoldExists
  <2>3. g = Def(g)
    <3>0. /\ g \in [0 .. Len(list) -> ReportState]
          /\ \A n \in 1 .. Len(list) : n - 1 \in 0 .. Len(list)
          /\ \A n \in 1 .. Len(list) : g[n] = step[<< g[n - 1], list[n] >>]
      BY <2>1, <2>2 DEF IsFold
    <3>1. \A n \in 1 .. Len(list) : g[n - 1] \in ReportState /\ g[n] = step[<< g[n - 1], list[n] >>]
      BY <3>0
    <3>2. \A n \in 1 .. Len(list) : g[n] = Observed(of, g[n - 1], list[n])
      BY <1>3, <2>1, <3>1
    <3>3. g = [n \in 0 .. Len(list) |-> g[n]] /\ g[0] = [book |-> EmptyBook, sequence |-> None, gaps |-> 0]
      BY <2>2 DEF IsFold
    <3>4. \A n \in 0 .. Len(list) : n # 0 => n \in 1 .. Len(list)
      BY <2>1
    <3> QED BY <3>2, <3>3, <3>4
  <2>4. after = Def(after)
    <3> HIDE DEF Def
    <3> QED BY <2>3
  <2>5. value[list] = after[Len(list)]
    BY DEF ReportOf
  <2> HIDE DEF after
  <2>6. after = [n \in 0 .. Len(list) |-> after[n]]
    BY <2>4
  <2>7. after[0] = [book |-> EmptyBook, sequence |-> None, gaps |-> 0]
    BY <2>1, <2>4
  <2>8. \A n \in 1 .. Len(list) : after[n] = Observed(of, after[n - 1], list[n])
    BY <2>1, <2>4
  <2> HIDE DEF Def, value
  <2>9. \A n \in 1 .. Len(list) :
          after[n - 1] \in ReportState => after[n] = step[<< after[n - 1], list[n] >>]
    BY <1>3, <2>1, <2>8
  <2>10. IsFold(after, ReportState, step, [book |-> EmptyBook, sequence |-> None, gaps |-> 0], list)
    BY <1>1, <1>2, <2>6, <2>7, <2>9, RunIsFold
  <2> QED BY <2>5, <2>10
<1> HIDE DEF value
<1>5. /\ value[<< >>] = [book |-> EmptyBook, sequence |-> None, gaps |-> 0]
      /\ \A s \in Seq(CaptureRecord) : value[s] \in ReportState
      /\ \A s \in Seq(CaptureRecord), e \in CaptureRecord : value[Append(s, e)] = step[<< value[s], e >>]
  <2>1. EndsRuns(value, ReportState, CaptureRecord, step, [book |-> EmptyBook, sequence |-> None, gaps |-> 0])
    BY <1>4 DEF EndsRuns
  <2>2. Grows(value, ReportState, CaptureRecord, step, [book |-> EmptyBook, sequence |-> None, gaps |-> 0])
    BY <1>1, <1>2, <2>1, FoldGrows
  <2> QED BY <2>2 DEF Grows
<1>6. << >> \in Seq(CaptureRecord)
      /\ \A s \in Seq(CaptureRecord), e \in CaptureRecord : Append(s, e) \in Seq(CaptureRecord)
  OBVIOUS
<1>7. \A s \in Seq(CaptureRecord) : value[s] = ReportOf(of, s)
  BY DEF value
<1> QED BY <1>3, <1>5, <1>6, <1>7

(* So are the changes of its records. *)
LEMMA BookAfterStep ==
  ASSUME NEW b \in Books
  PROVE  /\ BookAfter(b, << >>) = b
         /\ \A s \in Seq(CaptureRecord) : BookAfter(b, s) \in Books
         /\ \A s \in Seq(CaptureRecord), e \in CaptureRecord :
              BookAfter(b, Append(s, e)) = ApplyChanges(BookAfter(b, s), e.changes)
<1> DEFINE step == [x \in Books \X CaptureRecord |-> ApplyChanges(x[1], x[2].changes)]
           value == [list \in Seq(CaptureRecord) |-> BookAfter(b, list)]
<1>1. b \in Books /\ \A a \in Books, e \in CaptureRecord : ApplyChanges(a, e.changes) \in Books
  BY ApplyChangesStep DEF CaptureRecord
<1>2. step \in [Books \X CaptureRecord -> Books]
  BY <1>1
<1>3. \A a \in Books, e \in CaptureRecord : step[<< a, e >>] = ApplyChanges(a, e.changes)
  OBVIOUS
<1> HIDE DEF step
<1>4. ASSUME NEW list \in Seq(CaptureRecord)
      PROVE  \E after : /\ IsFold(after, Books, step, b, list)
                       /\ value[list] = after[Len(list)]
  <2> DEFINE Def(f) == [n \in 0 .. Len(list) |->
                          IF n = 0 THEN b ELSE ApplyChanges(f[n - 1], list[n].changes)]
             after == CHOOSE f : f = Def(f)
  <2>1. Len(list) \in Nat
        /\ \A n \in 1 .. Len(list) : list[n] \in CaptureRecord /\ n # 0 /\ n \in 0 .. Len(list)
    OBVIOUS
  <2>2. PICK g : IsFold(g, Books, step, b, list)
    BY <1>1, <1>2, FoldExists
  <2>3. g = Def(g)
    <3>0. /\ g \in [0 .. Len(list) -> Books]
          /\ \A n \in 1 .. Len(list) : n - 1 \in 0 .. Len(list)
          /\ \A n \in 1 .. Len(list) : g[n] = step[<< g[n - 1], list[n] >>]
      BY <2>1, <2>2 DEF IsFold
    <3>1. \A n \in 1 .. Len(list) : g[n - 1] \in Books /\ g[n] = step[<< g[n - 1], list[n] >>]
      BY <3>0
    <3>2. \A n \in 1 .. Len(list) : g[n] = ApplyChanges(g[n - 1], list[n].changes)
      BY <1>3, <2>1, <3>1
    <3>3. g = [n \in 0 .. Len(list) |-> g[n]] /\ g[0] = b
      BY <2>2 DEF IsFold
    <3>4. \A n \in 0 .. Len(list) : n # 0 => n \in 1 .. Len(list)
      BY <2>1
    <3> QED BY <3>2, <3>3, <3>4
  <2>4. after = Def(after)
    <3> HIDE DEF Def
    <3> QED BY <2>3
  <2>5. value[list] = after[Len(list)]
    BY DEF BookAfter
  <2> HIDE DEF after
  <2>6. after = [n \in 0 .. Len(list) |-> after[n]]
    BY <2>4
  <2>7. after[0] = b
    BY <2>1, <2>4
  <2>8. \A n \in 1 .. Len(list) : after[n] = ApplyChanges(after[n - 1], list[n].changes)
    BY <2>1, <2>4
  <2> HIDE DEF Def, value
  <2>9. \A n \in 1 .. Len(list) :
          after[n - 1] \in Books => after[n] = step[<< after[n - 1], list[n] >>]
    BY <1>3, <2>1, <2>8
  <2>10. IsFold(after, Books, step, b, list)
    BY <1>1, <1>2, <2>6, <2>7, <2>9, RunIsFold
  <2> QED BY <2>5, <2>10
<1> HIDE DEF value
<1>5. /\ value[<< >>] = b
      /\ \A s \in Seq(CaptureRecord) : value[s] \in Books
      /\ \A s \in Seq(CaptureRecord), e \in CaptureRecord : value[Append(s, e)] = step[<< value[s], e >>]
  <2>1. EndsRuns(value, Books, CaptureRecord, step, b)
    BY <1>4 DEF EndsRuns
  <2>2. Grows(value, Books, CaptureRecord, step, b)
    BY <1>1, <1>2, <2>1, FoldGrows
  <2> QED BY <2>2 DEF Grows
<1>6. << >> \in Seq(CaptureRecord)
      /\ \A s \in Seq(CaptureRecord), e \in CaptureRecord : Append(s, e) \in Seq(CaptureRecord)
  OBVIOUS
<1>7. \A s \in Seq(CaptureRecord) : value[s] = BookAfter(b, s)
  BY DEF value
<1> HIDE DEF step
<1>8. BookAfter(b, << >>) = b /\ \A s \in Seq(CaptureRecord) : BookAfter(b, s) \in Books
  BY <1>5, <1>6, <1>7, Zenon
<1>9. ASSUME NEW s \in Seq(CaptureRecord), NEW e \in CaptureRecord
      PROVE  BookAfter(b, Append(s, e)) = ApplyChanges(BookAfter(b, s), e.changes)
  <2>1. value[s] \in Books /\ value[s] = BookAfter(b, s)
    BY <1>5, <1>7, Zenon
  <2>2. value[Append(s, e)] = step[<< value[s], e >>]
        /\ value[Append(s, e)] = BookAfter(b, Append(s, e))
    BY <1>5, <1>6, <1>7, Zenon
  <2>3. step[<< value[s], e >>] = ApplyChanges(value[s], e.changes)
    BY <1>3, <2>1, Zenon
  <2> QED BY <2>1, <2>2, <2>3, Zenon
<1> QED BY <1>8, <1>9, Zenon

(* A message is kept if the snapshot does not cover it. *)
Kept(messages, message, id) == IF IsAfter(message, id) THEN Append(messages, message) ELSE messages

(* The messages that a snapshot does not cover, one at a time. *)
LEMMA KeptAfterStep ==
  ASSUME NEW id
  PROVE  /\ KeptAfter(<< >>, id) = << >>
         /\ \A s \in Seq(CaptureRecord) : KeptAfter(s, id) \in Seq(CaptureRecord)
         /\ \A s \in Seq(CaptureRecord), e \in CaptureRecord :
              KeptAfter(Append(s, e), id) = Kept(KeptAfter(s, id), e, id)
<1> DEFINE step == [x \in Seq(CaptureRecord) \X CaptureRecord |-> Kept(x[1], x[2], id)]
           value == [list \in Seq(CaptureRecord) |-> KeptAfter(list, id)]
<1>1. << >> \in Seq(CaptureRecord)
      /\ \A a \in Seq(CaptureRecord), e \in CaptureRecord : Kept(a, e, id) \in Seq(CaptureRecord)
  BY DEF Kept
<1>2. step \in [Seq(CaptureRecord) \X CaptureRecord -> Seq(CaptureRecord)]
  BY <1>1
<1>3. \A a \in Seq(CaptureRecord), e \in CaptureRecord : step[<< a, e >>] = Kept(a, e, id)
  OBVIOUS
<1> HIDE DEF step
<1>4. ASSUME NEW list \in Seq(CaptureRecord)
      PROVE  \E after : /\ IsFold(after, Seq(CaptureRecord), step, << >>, list)
                       /\ value[list] = after[Len(list)]
  <2> DEFINE Def(f) == [n \in 0 .. Len(list) |->
                          IF n = 0 THEN << >> ELSE Kept(f[n - 1], list[n], id)]
             after == CHOOSE f : f = Def(f)
  <2>1. Len(list) \in Nat
        /\ \A n \in 1 .. Len(list) : list[n] \in CaptureRecord /\ n # 0 /\ n \in 0 .. Len(list)
    OBVIOUS
  <2>2. PICK g : IsFold(g, Seq(CaptureRecord), step, << >>, list)
    BY <1>1, <1>2, FoldExists
  <2>3. g = Def(g)
    <3>0. /\ g \in [0 .. Len(list) -> Seq(CaptureRecord)]
          /\ \A n \in 1 .. Len(list) : n - 1 \in 0 .. Len(list)
          /\ \A n \in 1 .. Len(list) : g[n] = step[<< g[n - 1], list[n] >>]
      BY <2>1, <2>2 DEF IsFold
    <3>1. \A n \in 1 .. Len(list) : g[n - 1] \in Seq(CaptureRecord) /\ g[n] = step[<< g[n - 1], list[n] >>]
      BY <3>0
    <3>2. \A n \in 1 .. Len(list) : g[n] = Kept(g[n - 1], list[n], id)
      BY <1>3, <2>1, <3>1
    <3>3. g = [n \in 0 .. Len(list) |-> g[n]] /\ g[0] = << >>
      BY <2>2 DEF IsFold
    <3>4. \A n \in 0 .. Len(list) : n # 0 => n \in 1 .. Len(list)
      BY <2>1
    <3> QED BY <3>2, <3>3, <3>4
  <2>4. after = Def(after)
    <3> HIDE DEF Def
    <3> QED BY <2>3
  <2>5. value[list] = after[Len(list)]
    BY DEF KeptAfter, Kept
  <2> HIDE DEF after
  <2>6. after = [n \in 0 .. Len(list) |-> after[n]]
    BY <2>4
  <2>7. after[0] = << >>
    BY <2>1, <2>4
  <2>8. \A n \in 1 .. Len(list) : after[n] = Kept(after[n - 1], list[n], id)
    BY <2>1, <2>4
  <2> HIDE DEF Def, value
  <2>9. \A n \in 1 .. Len(list) :
          after[n - 1] \in Seq(CaptureRecord) => after[n] = step[<< after[n - 1], list[n] >>]
    BY <1>3, <2>1, <2>8
  <2>10. IsFold(after, Seq(CaptureRecord), step, << >>, list)
    BY <1>1, <1>2, <2>6, <2>7, <2>9, RunIsFold
  <2> QED BY <2>5, <2>10
<1> HIDE DEF value
<1>5. /\ value[<< >>] = << >>
      /\ \A s \in Seq(CaptureRecord) : value[s] \in Seq(CaptureRecord)
      /\ \A s \in Seq(CaptureRecord), e \in CaptureRecord : value[Append(s, e)] = step[<< value[s], e >>]
  <2>1. EndsRuns(value, Seq(CaptureRecord), CaptureRecord, step, << >>)
    BY <1>4 DEF EndsRuns
  <2>2. Grows(value, Seq(CaptureRecord), CaptureRecord, step, << >>)
    BY <1>1, <1>2, <2>1, FoldGrows
  <2> QED BY <2>2 DEF Grows
<1>6. << >> \in Seq(CaptureRecord)
      /\ \A s \in Seq(CaptureRecord), e \in CaptureRecord : Append(s, e) \in Seq(CaptureRecord)
  OBVIOUS
<1>7. \A s \in Seq(CaptureRecord) : value[s] = KeptAfter(s, id)
  BY DEF value
<1> QED BY <1>3, <1>5, <1>6, <1>7

-------------------------------------------------------------------------------
(* Lists of changes, and the scope of a book. *)

(* A finite set of natural numbers that is not empty has a greatest one. *)
LEMMA GreatestOfFinite ==
  ASSUME NEW S \in SUBSET Nat, IsFiniteSet(S), S # {}
  PROVE  \E x \in S : \A y \in S : y <= x
<1> DEFINE R == {pair \in S \X S : pair[1] < pair[2]}
           n == Cardinality(S)
           s == [i \in 1 .. n |-> CHOOSE x \in S : Cardinality({y \in S : << y, x >> \in R}) = i - 1]
<1>1. /\ \A x \in S : << x, x >> \notin R
      /\ \A x, y, z \in S : << x, y >> \in R /\ << y, z >> \in R => << x, z >> \in R
      /\ \A x, y \in S : x # y => << x, y >> \in R \/ << y, x >> \in R
  OBVIOUS
<1>2. \A x, y \in S : << x, y >> \in R => x < y
  OBVIOUS
<1> HIDE DEF R
<1>3. /\ n \in Nat
      /\ s \in [1 .. n -> S]
      /\ \A x \in S : \E i \in 1 .. n : s[i] = x
      /\ \A i, j \in 1 .. n : i < j => << s[i], s[j] >> \in R
  BY <1>1, RankedList
<1> HIDE DEF s, n
<1>4. n \in 1 .. n
  <2>1. PICK x \in S : TRUE
    OBVIOUS
  <2>2. PICK i \in 1 .. n : s[i] = x
    BY <1>3
  <2> QED BY <1>3, <2>2
<1>5. s[n] \in S
  BY <1>3, <1>4
<1>6. \A y \in S : y <= s[n]
  <2> SUFFICES ASSUME NEW y \in S
               PROVE  y <= s[n]
    OBVIOUS
  <2>1. PICK i \in 1 .. n : s[i] = y
    BY <1>3
  <2>2. CASE i = n
    BY <1>5, <2>1, <2>2
  <2>3. CASE i < n
    <3>1. << s[i], s[n] >> \in R
      BY <1>3, <1>4, <2>3
    <3>2. y < s[n]
      BY <1>2, <1>5, <2>1, <3>1
    <3>3. s[n] \in Nat /\ y \in Nat
      BY <1>5
    <3> QED BY <3>2, <3>3
  <2> QED BY <1>3, <2>2, <2>3
<1> QED BY <1>5, <1>6

LEMMA NoChanges == /\ << >> \in Seq(Changes) /\ PricesIn(<< >>) = {}
                   /\ \A b : Sets(<< >>, b)
                   /\ \A s \in Seq(Changes) : PricesIn(s) = {} => s = << >>
<1>1. \A s \in Seq(Changes) : PricesIn(s) = {} => s = << >>
  <2> SUFFICES ASSUME NEW s \in Seq(Changes), s # << >>
               PROVE  PricesIn(s) # {}
    OBVIOUS
  <2>1. 1 \in DOMAIN s
    OBVIOUS
  <2> QED BY <2>1 DEF PricesIn
<1>2. << >> \in Seq(Changes) /\ DOMAIN << >> = {}
  OBVIOUS
<1>3. PricesIn(<< >>) = {} /\ \A b : Sets(<< >>, b)
  BY <1>2 DEF PricesIn, Sets
<1> QED BY <1>1, <1>2, <1>3

LEMMA MoreChanges ==
  ASSUME NEW s \in Seq(Changes), NEW e \in Changes, NEW b
  PROVE  /\ PricesIn(Append(s, e)) = PricesIn(s) \cup {e.price}
         /\ Sets(Append(s, e), b) <=> Sets(s, b) /\ e.quantity = b[e.price]
<1> DEFINE t == Append(s, e)
<1>1. /\ DOMAIN t = DOMAIN s \cup {Len(s) + 1} /\ Len(s) + 1 \notin DOMAIN s
      /\ t[Len(s) + 1] = e /\ \A i \in DOMAIN s : t[i] = s[i]
  OBVIOUS
<1> HIDE DEF t
<1>2. PricesIn(t) = PricesIn(s) \cup {e.price}
  BY <1>1 DEF PricesIn
<1>3. Sets(t, b) <=> Sets(s, b) /\ e.quantity = b[e.price]
  BY <1>1 DEF Sets
<1> QED BY <1>2, <1>3 DEF t

LEMMA JoinedChanges ==
  ASSUME NEW s \in Seq(Changes), NEW t \in Seq(Changes), NEW b, Sets(s, b), Sets(t, b)
  PROVE  /\ s \o t \in Seq(Changes) /\ Len(s \o t) = Len(s) + Len(t)
         /\ PricesIn(s \o t) = PricesIn(s) \cup PricesIn(t)
         /\ Sets(s \o t, b)
<1> DEFINE u == s \o t
           m == Len(s)
           n == Len(t)
<1>1. /\ m \in Nat /\ n \in Nat /\ DOMAIN s = 1 .. m /\ DOMAIN t = 1 .. n
      /\ u \in Seq(Changes) /\ Len(u) = m + n /\ DOMAIN u = 1 .. m + n
      /\ \A i \in 1 .. m : u[i] = s[i]
      /\ \A i \in 1 .. n : u[m + i] = t[i]
  OBVIOUS
<1> HIDE DEF u, m, n
<1>2. \A i \in DOMAIN u : \/ i \in 1 .. m /\ u[i] = s[i]
                          \/ i - m \in 1 .. n /\ u[i] = t[i - m]
  <2> SUFFICES ASSUME NEW i \in DOMAIN u
               PROVE  \/ i \in 1 .. m /\ u[i] = s[i]
                      \/ i - m \in 1 .. n /\ u[i] = t[i - m]
    OBVIOUS
  <2>1. CASE i <= m
    BY <1>1, <2>1
  <2>2. CASE i > m
    <3>1. i - m \in 1 .. n /\ m + (i - m) = i
      BY <1>1, <2>2
    <3> QED BY <1>1, <3>1
  <2> QED BY <1>1, <2>1, <2>2
<1>3. \A i \in 1 .. m : i \in DOMAIN u
  BY <1>1
<1>4. \A i \in 1 .. n : m + i \in DOMAIN u
  BY <1>1
<1>5. PricesIn(u) = PricesIn(s) \cup PricesIn(t)
  <2>1. \A p \in PricesIn(u) : p \in PricesIn(s) \cup PricesIn(t)
    BY <1>1, <1>2 DEF PricesIn
  <2>2. \A p \in PricesIn(s) : p \in PricesIn(u)
    BY <1>1, <1>3 DEF PricesIn
  <2>3. \A p \in PricesIn(t) : p \in PricesIn(u)
    BY <1>1, <1>4 DEF PricesIn
  <2> QED BY <2>1, <2>2, <2>3
<1>6. Sets(u, b)
  BY <1>1, <1>2 DEF Sets
<1> QED BY <1>1, <1>5, <1>6 DEF u, m, n

(* Applying changes to the quantities of a book gives those, and keeps the rest. *)
LEMMA ChangesApplied ==
  ASSUME NEW b \in Books, NEW b0 \in Books, NEW s \in Seq(Changes), Sets(s, b0)
  PROVE  ApplyChanges(b, s) = [p \in Prices |-> IF p \in PricesIn(s) THEN b0[p] ELSE b[p]]
<1> DEFINE Result(t) == [p \in Prices |-> IF p \in PricesIn(t) THEN b0[p] ELSE b[p]]
           T == {t \in Seq(Changes) : Sets(t, b0) => ApplyChanges(b, t) = Result(t)}
<1>1. << >> \in T
  <2>1. Result(<< >>) = b
    BY NoChanges DEF Books
  <2>2. ApplyChanges(b, << >>) = b
    BY ApplyChangesStep
  <2> HIDE DEF Result
  <2> QED BY <2>1, <2>2, NoChanges
<1>2. ASSUME NEW t \in T, NEW e \in Changes
      PROVE  Append(t, e) \in T
  <2> SUFFICES ASSUME Sets(Append(t, e), b0)
               PROVE  ApplyChanges(b, Append(t, e)) = Result(Append(t, e))
    OBVIOUS
  <2>1. t \in Seq(Changes) /\ Sets(t, b0) /\ e.quantity = b0[e.price]
        /\ PricesIn(Append(t, e)) = PricesIn(t) \cup {e.price}
    BY MoreChanges
  <2>2. ApplyChanges(b, t) = Result(t)
    BY <2>1
  <2>3. ApplyChanges(b, Append(t, e)) = ApplyChange(Result(t), e)
    <3> HIDE DEF Result
    <3> QED BY <2>1, <2>2, ApplyChangesStep
  <2>4. e.price \in Prices
    BY DEF Changes
  <2>5. ApplyChange(Result(t), e) = [Result(t) EXCEPT ![e.price] = b0[e.price]]
    BY <2>1 DEF ApplyChange
  <2> QED BY <2>1, <2>3, <2>4, <2>5
<1>3. T = Seq(Changes)
  <2>1. T \in SUBSET Seq(Changes)
    OBVIOUS
  <2> HIDE DEF T
  <2> QED BY <2>1, <1>1, <1>2, ListsByAppend
<1> QED BY <1>3

(* The levels of a book, applied to an empty one, make it. *)
LEMMA SnapshotMakesBook ==
  ASSUME NEW b \in Books
  PROVE  /\ ChangesOf(b) \in Seq(Changes) /\ Len(ChangesOf(b)) <= Cardinality(Prices)
         /\ Sets(ChangesOf(b), b) /\ PricesIn(ChangesOf(b)) = Held(b)
         /\ ApplyChanges(EmptyBook, ChangesOf(b)) = b
<1>1. Held(b) \in SUBSET Prices
  BY DEF Held
<1>2. /\ ChangesOf(b) \in Seq(Changes) /\ Len(ChangesOf(b)) = Cardinality(Held(b))
      /\ Sets(ChangesOf(b), b) /\ PricesIn(ChangesOf(b)) = Held(b)
  BY <1>1, ChangesOnIs DEF ChangesOf
<1>3. ApplyChanges(EmptyBook, ChangesOf(b)) =
        [p \in Prices |-> IF p \in Held(b) THEN b[p] ELSE EmptyBook[p]]
  BY <1>2, EmptyBookType, ChangesApplied
<1>4. [p \in Prices |-> IF p \in Held(b) THEN b[p] ELSE EmptyBook[p]] = b
  BY EmptyBookType DEF Held, Books
<1> QED BY <1>1, <1>2, <1>3, <1>4, PricesAreNumbers

(***************************************************************************)
(* A book that has the best levels of another, and else none but those of  *)
(* the other, has the same best levels: were a better level of the other   *)
(* not in it, the highest such would be among the best, hence in it.       *)
(***************************************************************************)
LEMMA BestOfPart ==
  ASSUME NEW a \in Books, NEW b \in Books,
         \A p \in Prices : b[p] \in {0, a[p]},
         \A p \in Prices : Best(a, Scope)[p] # 0 => b[p] = a[p]
  PROVE  Best(b, Scope) = Best(a, Scope)
<1> DEFINE better(x, p) == {q \in Held(x) : q > p}
<1>1. \A x, p : Best(x, Scope) = [q \in Prices |-> IF Cardinality(better(x, q)) < Scope THEN x[q] ELSE 0]
  BY DEF Best
<1>2. \A p : better(b, p) \subseteq better(a, p) /\ better(a, p) \in SUBSET Prices
             /\ better(b, p) \in SUBSET Prices
  BY DEF Held
<1>3. \A p : \A q \in Prices : /\ q \in better(a, p) <=> a[q] # 0 /\ q > p
                               /\ q \in better(b, p) <=> b[q] # 0 /\ q > p
  BY DEF Held
<1> HIDE DEF better
<1>4. \A p : /\ IsFiniteSet(better(a, p)) /\ Cardinality(better(a, p)) \in Nat
             /\ IsFiniteSet(better(b, p)) /\ Cardinality(better(b, p)) \in Nat
             /\ Cardinality(better(b, p)) <= Cardinality(better(a, p))
  <2> TAKE p
  <2>1. /\ IsFiniteSet(better(a, p)) /\ Cardinality(better(a, p)) \in Nat
        /\ IsFiniteSet(better(b, p)) /\ Cardinality(better(b, p)) \in Nat
    BY <1>2, PricesAreNumbers
  <2> QED BY <2>1, <1>2, FS_Subset
<1>5. ASSUME NEW p \in Prices
      PROVE  (IF Cardinality(better(b, p)) < Scope THEN b[p] ELSE 0) =
             (IF Cardinality(better(a, p)) < Scope THEN a[p] ELSE 0)
  <2>1. CASE Cardinality(better(a, p)) < Scope
    <3>1. Cardinality(better(b, p)) < Scope
      BY <1>4, <2>1, ScopeAssumption
    <3>2. Best(a, Scope)[p] = a[p]
      BY <1>1, <2>1
    <3> QED BY <2>1, <3>1, <3>2
  <2>2. CASE ~ (Cardinality(better(a, p)) < Scope) /\ Cardinality(better(b, p)) < Scope
    <3> DEFINE D == better(a, p) \ better(b, p)
    <3>1. D # {}
      BY <1>2, <2>2
    <3>2. D \in SUBSET Nat /\ IsFiniteSet(D)
      <4>1. D \in SUBSET Prices
        BY <1>2
      <4> HIDE DEF D
      <4> QED BY <4>1, PricesAreNumbers
    <3> HIDE DEF D
    <3>3. PICK q \in D : \A r \in D : r <= q
      BY <3>1, <3>2, GreatestOfFinite
    <3>4. q \in Prices /\ a[q] # 0 /\ q > p /\ b[q] = 0 /\ q \in Nat /\ p \in Nat
      BY <1>2, <1>3, <3>3, PricesAreNumbers DEF D
    <3>5. better(a, q) \in SUBSET better(b, p)
      <4> SUFFICES ASSUME NEW r \in better(a, q)
                   PROVE  r \in better(b, p)
        OBVIOUS
      <4>1. r \in Prices /\ a[r] # 0 /\ r > q /\ r \in Nat
        BY <1>2, <1>3, PricesAreNumbers
      <4>2. r \in better(a, p)
        BY <1>3, <3>4, <4>1
      <4>3. r \notin D
        BY <3>3, <3>4, <4>1
      <4> QED BY <4>2, <4>3 DEF D
    <3>6. Cardinality(better(a, q)) < Scope
      <4>1. Cardinality(better(a, q)) <= Cardinality(better(b, p))
        BY <1>4, <3>5, FS_Subset
      <4> QED BY <1>4, <2>2, <4>1, ScopeAssumption
    <3>7. Best(a, Scope)[q] = a[q]
      BY <1>1, <3>4, <3>6
    <3> QED BY <3>4, <3>7
  <2>3. CASE ~ (Cardinality(better(a, p)) < Scope) /\ ~ (Cardinality(better(b, p)) < Scope)
    BY <2>3
  <2> QED BY <2>1, <2>2, <2>3
<1> QED BY <1>1, <1>5

(* What is in scope of what is in scope is that. *)
LEMMA ScopeOfScope ==
  ASSUME NEW of, NEW b \in Books
  PROVE  InScope(of, InScope(of, b)) = InScope(of, b)
<1>1. CASE of = "Kraken"
  <2>1. InScope(of, b) = Best(b, Scope) /\ \A x : InScope(of, x) = Best(x, Scope)
    BY <1>1 DEF InScope
  <2>2. Best(b, Scope) \in Books /\ \A p \in Prices : Best(b, Scope)[p] \in {b[p], 0}
    BY <2>1, InScopeType
  <2>3. Best(Best(b, Scope), Scope) = Best(b, Scope)
    BY <2>2, BestOfPart
  <2> QED BY <2>1, <2>3
<1>2. CASE of # "Kraken"
  BY <1>2 DEF InScope
<1> QED BY <1>1, <1>2

(* Prices that left the venue's book, or came into what is in scope. *)
ToldPrices(of, before, after) ==
  {p \in Prices :
     \/ InScope(of, before)[p] # 0 /\ after[p] = 0
     \/ InScope(of, after)[p] # 0 /\ InScope(of, before)[p] # InScope(of, after)[p]}

(* What the venue tells of an update is what is in scope at those prices. *)
LEMMA ToldIs ==
  ASSUME NEW of, NEW before \in Books, NEW after \in Books
  PROVE  /\ Told(of, before, after) \in Seq(Changes)
         /\ Len(Told(of, before, after)) <= Cardinality(Prices)
         /\ Sets(Told(of, before, after), InScope(of, after))
         /\ PricesIn(Told(of, before, after)) = ToldPrices(of, before, after)
<1> DEFINE was == InScope(of, before)
           now == InScope(of, after)
           R == {p \in Held(was) : after[p] = 0}
           C == {p \in Held(now) : was[p] # now[p]}
<1>1. was \in Books /\ now \in Books /\ \A p \in Prices : now[p] \in {after[p], 0}
  BY InScopeType
<1>2. R \in SUBSET Prices /\ C \in SUBSET Prices
      /\ \A p \in Prices : (p \in R <=> was[p] # 0 /\ after[p] = 0)
                           /\ (p \in C <=> now[p] # 0 /\ was[p] # now[p])
  BY DEF Held
<1>3. Told(of, before, after) = ChangesOn(after, R) \o ChangesOn(now, C)
  BY DEF Told
<1> HIDE DEF R, C, was, now
<1>4. /\ ChangesOn(after, R) \in Seq(Changes) /\ Len(ChangesOn(after, R)) = Cardinality(R)
      /\ PricesIn(ChangesOn(after, R)) = R /\ Sets(ChangesOn(after, R), after)
  BY <1>2, ChangesOnIs
<1>5. /\ ChangesOn(now, C) \in Seq(Changes) /\ Len(ChangesOn(now, C)) = Cardinality(C)
      /\ PricesIn(ChangesOn(now, C)) = C /\ Sets(ChangesOn(now, C), now)
  BY <1>1, <1>2, ChangesOnIs
<1>6. Sets(ChangesOn(after, R), now)
  <2> DEFINE list == ChangesOn(after, R)
  <2>1. \A p \in R : now[p] = after[p]
    BY <1>1, <1>2
  <2>2. \A i \in DOMAIN list : list[i].price \in R
    BY <1>4 DEF PricesIn
  <2> QED BY <1>4, <2>1, <2>2 DEF Sets
<1>7. Cardinality(R) + Cardinality(C) <= Cardinality(Prices)
  <2>1. IsFiniteSet(R) /\ IsFiniteSet(C) /\ R \cup C \in SUBSET Prices
    BY <1>2, PricesAreNumbers
  <2>2. R \cap C = {}
    BY <1>1, <1>2
  <2>3. Cardinality(R \cup C) = Cardinality(R) + Cardinality(C) - Cardinality(R \cap C)
    BY <2>1, FS_Union
  <2>4. Cardinality(R \cap C) = 0
    BY <2>2, FS_EmptySet
  <2>5. Cardinality(R) \in Nat /\ Cardinality(C) \in Nat /\ Cardinality(R \cup C) <= Cardinality(Prices)
        /\ Cardinality(Prices) \in Nat
    BY <1>2, <2>1, PricesAreNumbers
  <2> QED BY <2>3, <2>4, <2>5
<1>8. /\ ChangesOn(after, R) \o ChangesOn(now, C) \in Seq(Changes)
      /\ Len(ChangesOn(after, R) \o ChangesOn(now, C)) = Cardinality(R) + Cardinality(C)
      /\ PricesIn(ChangesOn(after, R) \o ChangesOn(now, C)) = R \cup C
      /\ Sets(ChangesOn(after, R) \o ChangesOn(now, C), now)
  BY <1>4, <1>5, <1>6, JoinedChanges
<1>9. R \cup C = ToldPrices(of, before, after)
  <2>1. \A p : p \in ToldPrices(of, before, after) <=>
          p \in Prices /\ ((was[p] # 0 /\ after[p] = 0) \/ (now[p] # 0 /\ was[p] # now[p]))
    BY DEF ToldPrices, was, now
  <2>2. \A p : p \in R \cup C <=> p \in ToldPrices(of, before, after)
    BY <1>2, <2>1
  <2> QED BY <2>2
<1> QED BY <1>3, <1>7, <1>8, <1>9 DEF now

(* A book of which one price has been set. *)
IsUpdated(after, before, price, quantity) == after = [before EXCEPT ![price] = quantity]

(***************************************************************************)
(* Applying what the venue tells of an update of one price to what was in  *)
(* scope, and cutting it to the scope, gives what is in scope.             *)
(***************************************************************************)
LEMMA ToldKeepsScope ==
  ASSUME NEW of, NEW before \in Books, NEW price \in Prices, NEW quantity \in Quantities,
         NEW after, IsUpdated(after, before, price, quantity)
  PROVE  /\ InScope(of, ApplyChanges(InScope(of, before), Told(of, before, after))) = InScope(of, after)
         /\ Told(of, before, after) = << >> => InScope(of, before) = InScope(of, after)
<1> DEFINE was == InScope(of, before)
           now == InScope(of, after)
           told == Told(of, before, after)
           b == ApplyChanges(was, told)
<1>1. after \in Books /\ after[price] = quantity
      /\ \A p \in Prices : p # price => after[p] = before[p]
  BY DEF Books, IsUpdated
<1>2. /\ was \in Books /\ \A p \in Prices : was[p] \in {before[p], 0}
      /\ now \in Books /\ \A p \in Prices : now[p] \in {after[p], 0}
  BY <1>1, InScopeType
<1>3. /\ told \in Seq(Changes) /\ Sets(told, now)
      /\ \A p \in Prices : p \in PricesIn(told) <=>
           (was[p] # 0 /\ after[p] = 0) \/ (now[p] # 0 /\ was[p] # now[p])
  <2>1. \A p \in Prices : p \in ToldPrices(of, before, after) <=>
          (was[p] # 0 /\ after[p] = 0) \/ (now[p] # 0 /\ was[p] # now[p])
    BY DEF ToldPrices
  <2>2. told \in Seq(Changes) /\ Sets(told, now) /\ PricesIn(told) = ToldPrices(of, before, after)
    BY <1>1, ToldIs
  <2> HIDE DEF told, was, now
  <2> QED BY <2>1, <2>2
<1>4. b = [p \in Prices |-> IF p \in PricesIn(told) THEN now[p] ELSE was[p]]
  BY <1>2, <1>3, ChangesApplied
<1>5. b \in Books
  BY <1>2, <1>3, ApplyChangesStep
<1>6. InScope(of, b) = now
  <2>1. CASE of # "Kraken"
    <3>1. was = before /\ now = after /\ InScope(of, b) = b
      BY <1>1, <1>5, <2>1, InScopeType
    <3>2. \A p \in Prices : b[p] = after[p]
      BY <1>3, <1>4, <3>1
    <3> QED BY <1>1, <1>5, <3>1, <3>2 DEF Books
  <2>2. CASE of = "Kraken"
    <3>1. now = Best(after, Scope) /\ was = Best(before, Scope) /\ InScope(of, b) = Best(b, Scope)
      BY <2>2 DEF InScope
    <3>2. was[price] # 0 /\ after[price] # 0 => now[price] = after[price]
      <4> SUFFICES ASSUME was[price] # 0, after[price] # 0
                   PROVE  now[price] = after[price]
        OBVIOUS
      <4>1. before[price] # 0
        BY <1>2
      <4>2. Held(before) = Held(after)
        BY <1>1, <4>1 DEF Held
      <4> DEFINE few == Cardinality({q \in Held(before) : q > price}) < Scope
      <4>3. was[price] = IF few THEN before[price] ELSE 0
        BY <3>1 DEF Best
      <4>4. now[price] = IF few THEN after[price] ELSE 0
        BY <3>1, <4>2 DEF Best
      <4> QED BY <4>3, <4>4
    <3>3. \A p \in Prices : b[p] \in {0, after[p]} /\ (now[p] # 0 => b[p] = after[p])
      <4> SUFFICES ASSUME NEW p \in Prices
                   PROVE  b[p] \in {0, after[p]} /\ (now[p] # 0 => b[p] = after[p])
        OBVIOUS
      <4>1. CASE p \in PricesIn(told)
        BY <1>2, <1>4, <4>1
      <4>2. CASE p \notin PricesIn(told)
        <5>1. b[p] = was[p] /\ ~ (was[p] # 0 /\ after[p] = 0) /\ ~ (now[p] # 0 /\ was[p] # now[p])
          <6> HIDE DEF told, was, now, b
          <6>1. b[p] = was[p]
            BY <1>4, <4>2
          <6> QED BY <1>3, <4>2, <6>1
        <5>0. was[p] \in {before[p], 0} /\ now[p] \in {after[p], 0}
          BY <1>2
        <5> HIDE DEF b, was, now
        <5>2. CASE p = price
          BY <3>2, <5>0, <5>1, <5>2
        <5>3. CASE p # price
          BY <1>1, <5>0, <5>1, <5>3
        <5> QED BY <5>2, <5>3
      <4> QED BY <4>1, <4>2
    <3>4. Best(b, Scope) = Best(after, Scope)
      BY <1>1, <1>5, <3>1, <3>3, BestOfPart
    <3> QED BY <3>1, <3>4
  <2> QED BY <2>1, <2>2
<1>7. told = << >> => was = now
  <2> SUFFICES ASSUME told = << >>
               PROVE  was = now
    OBVIOUS
  <2>1. b = was
    BY <1>2, ApplyChangesStep
  <2>2. InScope(of, was) = was
    BY ScopeOfScope
  <2> QED BY <1>6, <2>1, <2>2
<1> QED BY <1>6, <1>7

-------------------------------------------------------------------------------
(* The events of a file. *)

(* The status of a record that follows others, how many events it makes, and the ith of them. *)
StatusAt(of, s, r) == StatusOf(of, Normalized(of, s), r)
Added(of, s, r) == IF StatusAt(of, s, r) = "Accepted" THEN Len(r.changes) ELSE 1
EventAdded(of, s, r, i) ==
  [number |-> IF StatusAt(of, s, r) = "Accepted" THEN Normalized(of, s).next + i - 1
              ELSE NormalizedSequence(StatusAt(of, s, r), Normalized(of, s).next),
   time |-> r.time, status |-> StatusAt(of, s, r), change |-> r.changes[i],
   record |-> Normalized(of, s).read + 1, position |-> Len(Normalized(of, s).events) + i]

(* What one more record adds to the numbering and to the events. *)
LEMMA NextRecord ==
  ASSUME NEW of, NEW s \in Seq(CaptureRecord), NEW r \in CaptureRecord
  PROVE  /\ Normalized(of, s) \in Reading /\ Normalized(of, Append(s, r)) \in Reading
         /\ StatusAt(of, s, r) \in SequenceStatus
         /\ StatusAt(of, s, r) # "Accepted" => r.kind = "depth" /\ r.changes # << >>
         /\ Normalized(of, Append(s, r)).source =
              IF ReadsTo(StatusAt(of, s, r), r) THEN r.id ELSE Normalized(of, s).source
         /\ Normalized(of, Append(s, r)).next =
              IF StatusAt(of, s, r) = "Accepted" THEN Normalized(of, s).next + Len(r.changes)
              ELSE Normalized(of, s).next
         /\ Normalized(of, Append(s, r)).read = Normalized(of, s).read + 1
         /\ Normalized(of, Append(s, r)).events =
              Normalized(of, s).events \o Made(Normalized(of, s), r, StatusAt(of, s, r))
         /\ Made(Normalized(of, s), r, StatusAt(of, s, r)) \in Seq(Event)
         /\ Len(Made(Normalized(of, s), r, StatusAt(of, s, r))) = Added(of, s, r)
         /\ \A i \in 1 .. Added(of, s, r) :
              Made(Normalized(of, s), r, StatusAt(of, s, r))[i] = EventAdded(of, s, r, i)
<1> DEFINE state == Normalized(of, s)
           after == Normalized(of, Append(s, r))
           status == StatusOf(of, state, r)
<1>1. state \in Reading /\ after = Numbered(of, state, r)
  BY NormalizedStep
<1>2. StatusAt(of, s, r) = status
  BY DEF StatusAt
<1> HIDE DEF state, after
<1>3. /\ after \in Reading
      /\ status \in SequenceStatus
      /\ status # "Accepted" => r.kind = "depth" /\ r.changes # << >>
      /\ after.source = IF ReadsTo(status, r) THEN r.id ELSE state.source
      /\ after.next = IF status = "Accepted" THEN state.next + Len(r.changes) ELSE state.next
      /\ after.read = state.read + 1
      /\ after.events = state.events \o Made(state, r, status)
  BY <1>1, NumberedIs
<1> HIDE DEF status
<1> DEFINE made == Made(state, r, status)
<1>4. /\ made \in Seq(Event)
      /\ status = "Accepted" =>
           /\ Len(made) = Len(r.changes)
           /\ \A i \in 1 .. Len(r.changes) :
                made[i] = [number |-> state.next + i - 1, time |-> r.time, status |-> status,
                           change |-> r.changes[i], record |-> state.read + 1,
                           position |-> Len(state.events) + i]
      /\ status # "Accepted" =>
           /\ Len(made) = 1
           /\ made[1] = [number |-> NormalizedSequence(status, state.next), time |-> r.time,
                         status |-> status, change |-> r.changes[1], record |-> state.read + 1,
                         position |-> Len(state.events) + 1]
  BY <1>1, <1>3, MadeIs
<1> HIDE DEF made
<1>5. Len(made) = Added(of, s, r)
  BY <1>2, <1>4 DEF Added
<1>6. \A i : EventAdded(of, s, r, i) =
        [number |-> IF status = "Accepted" THEN state.next + i - 1
                    ELSE NormalizedSequence(status, state.next),
         time |-> r.time, status |-> status, change |-> r.changes[i],
         record |-> state.read + 1, position |-> Len(state.events) + i]
  BY <1>2 DEF EventAdded, state
<1>7. \A i \in 1 .. Added(of, s, r) : made[i] = EventAdded(of, s, r, i)
  <2>1. CASE status = "Accepted"
    <3> TAKE i \in 1 .. Added(of, s, r)
    <3>1. i \in 1 .. Len(r.changes)
      BY <2>1, <1>4, <1>5
    <3>2. made[i] = [number |-> state.next + i - 1, time |-> r.time, status |-> status,
                     change |-> r.changes[i], record |-> state.read + 1,
                     position |-> Len(state.events) + i]
      BY <2>1, <3>1, <1>4
    <3>3. EventAdded(of, s, r, i) =
            [number |-> state.next + i - 1, time |-> r.time, status |-> status,
             change |-> r.changes[i], record |-> state.read + 1,
             position |-> Len(state.events) + i]
      BY <2>1, <1>6
    <3> QED BY <3>2, <3>3
  <2>2. CASE status # "Accepted"
    <3>1. \A i \in 1 .. Added(of, s, r) : i = 1
      BY <2>2, <1>4, <1>5
    <3>2. made[1] = EventAdded(of, s, r, 1)
      BY <2>2, <1>4, <1>6
    <3> QED BY <3>1, <3>2
  <2> QED BY <2>1, <2>2
<1> QED BY <1>1, <1>2, <1>3, <1>4, <1>5, <1>7 DEF state, after, made

(* The events of one more record follow the others. *)
LEMMA NextEvents ==
  ASSUME NEW of, NEW s \in Seq(CaptureRecord), NEW r \in CaptureRecord,
         NEW i \in DOMAIN Normalized(of, Append(s, r)).events
  PROVE  \/ /\ i \in DOMAIN Normalized(of, s).events
            /\ Normalized(of, Append(s, r)).events[i] = Normalized(of, s).events[i]
         \/ /\ i > Len(Normalized(of, s).events)
            /\ i - Len(Normalized(of, s).events) \in 1 .. Added(of, s, r)
            /\ Normalized(of, Append(s, r)).events[i] =
                 EventAdded(of, s, r, i - Len(Normalized(of, s).events))
<1> DEFINE old == Normalized(of, s).events
           made == Made(Normalized(of, s), r, StatusAt(of, s, r))
           new == Normalized(of, Append(s, r)).events
           k == Len(old)
           m == Added(of, s, r)
<1>1. /\ old \in Seq(Event) /\ made \in Seq(Event) /\ new = old \o made /\ Len(made) = m
      /\ \A j \in 1 .. m : made[j] = EventAdded(of, s, r, j)
  <2>1. Normalized(of, s) \in Reading
    BY NextRecord
  <2>2. Normalized(of, s).events \in Seq(Event)
    BY <2>1 DEF Reading
  <2> QED BY <2>2, NextRecord
<1> HIDE DEF old, made, new, m
<1>2. k \in Nat /\ m \in Nat /\ DOMAIN old = 1 .. k /\ DOMAIN new = 1 .. k + m
  BY <1>1
<1>3. CASE i <= k
  <2>1. i \in 1 .. k /\ new[i] = old[i]
    BY <1>1, <1>2, <1>3 DEF new
  <2> QED BY <1>2, <2>1 DEF old, new
<1>4. CASE i > k
  <2>1. i - k \in 1 .. m /\ k + (i - k) = i
    BY <1>2, <1>4 DEF new
  <2>2. new[k + (i - k)] = made[i - k]
    BY <1>1, <1>2, <2>1
  <2>3. new[i] = EventAdded(of, s, r, i - k)
    BY <1>1, <2>1, <2>2
  <2> QED BY <1>4, <2>1, <2>3 DEF old, new, m
<1>5. i \in Int /\ k \in Int
  BY <1>2 DEF new
<1> QED BY <1>3, <1>4, <1>5

(* The events that are gaps. *)
GapsIn(events) == {event \in Range(events) : event.status = "Gap"}

(* A message comes after the one before it, if that is no snapshot. *)
Rising(s) ==
  \A i \in DOMAIN s :
    (i > 1 /\ s[i].kind = "depth" /\ s[i - 1].kind = "depth") => s[i - 1].id < s[i].id

(***************************************************************************)
(* Of a file so far: counted are the report's gaps, found the adapter's.   *)
(* The report is at the adapter's number, or farther at that of the last   *)
(* message, without changes; the adapter's next gap is then already        *)
(* allowed for.  Before it has read anything, so is the report's.          *)
(***************************************************************************)
Counts(source, sequence, last, counted, found, unread) ==
  /\ source # sequence => sequence # None /\ sequence = last
  /\ source # None /\ sequence # None => source <= sequence
  /\ counted + (IF source = None /\ sequence # None THEN 1 ELSE 0) <= found + unread
  /\ found + (IF source # sequence THEN 1 ELSE 0) <= counted + unread

(* The number of the last record, if it is a message. *)
LastOf(s) == IF s # << >> /\ s[Len(s)].kind = "depth" THEN s[Len(s)].id ELSE None

GapsCounted(s) ==
  /\ \A i \in DOMAIN Normalized("Binance", s).events :
       Normalized("Binance", s).events[i].position = i
  /\ IsFiniteSet(GapsIn(Normalized("Binance", s).events))
  /\ IsFiniteSet(UnreadIn(s))
  /\ Rising(s) =>
       Counts(Normalized("Binance", s).source, ReportOf("Binance", s).sequence, LastOf(s),
              ReportOf("Binance", s).gaps,
              Cardinality(GapsIn(Normalized("Binance", s).events)), Cardinality(UnreadIn(s)))

(* One more record that is read, or is not. *)
LEMMA UnreadStep ==
  ASSUME NEW s \in Seq(CaptureRecord), NEW r \in CaptureRecord
  PROVE  UnreadIn(Append(s, r)) = UnreadIn(s) \cup (IF Unread(r) THEN {Len(s) + 1} ELSE {})
<1> DEFINE n == Len(s)
<1>1. /\ n \in Nat /\ DOMAIN s = 1 .. n /\ DOMAIN Append(s, r) = 1 .. n + 1
      /\ \A i \in 1 .. n : Append(s, r)[i] = s[i]
      /\ Append(s, r)[n + 1] = r
  OBVIOUS
<1> HIDE DEF n
<1>2. \A i \in 1 .. n + 1 : i \in 1 .. n \/ i = n + 1
  BY <1>1
<1>3. \A i \in 1 .. n : i \in 1 .. n + 1
  BY <1>1
<1>4. n + 1 \in 1 .. n + 1
  BY <1>1
<1> HIDE DEF Unread
<1> QED BY <1>1, <1>2, <1>3, <1>4 DEF UnreadIn, n

(***************************************************************************)
(* The report's gaps and the adapter's differ by no more than the messages *)
(* that the adapter does not read: by induction over a file's records.     *)
(***************************************************************************)
LEMMA GapsAgree ==
  ASSUME NEW s \in Seq(CaptureRecord)
  PROVE  GapsCounted(s)
<1> DEFINE T == {t \in Seq(CaptureRecord) : GapsCounted(t)}
<1>1. << >> \in T
  <2>1. /\ Normalized("Binance", << >>).source = None
        /\ Normalized("Binance", << >>).events = << >>
        /\ ReportOf("Binance", << >>).sequence = None /\ ReportOf("Binance", << >>).gaps = 0
    BY NormalizedStep, ReportStep
  <2>2. GapsIn(<< >>) = {} /\ DOMAIN << >> = {} /\ UnreadIn(<< >>) = {}
    BY DEF GapsIn, Range, UnreadIn
  <2>3. \A i \in DOMAIN Normalized("Binance", << >>).events :
          Normalized("Binance", << >>).events[i].position = i
    BY <2>1, <2>2
  <2>4. GapsIn(Normalized("Binance", << >>).events) = {}
    BY <2>1, <2>2
  <2>5. << >> \in Seq(CaptureRecord)
    OBVIOUS
  <2>6. Cardinality({}) = 0 /\ IsFiniteSet({})
    BY FS_EmptySet
  <2>7. Counts(None, None, LastOf(<< >>), 0, 0, 0)
    BY DEF Counts
  <2> QED BY <2>1, <2>2, <2>3, <2>4, <2>5, <2>6, <2>7 DEF GapsCounted
<1>2. ASSUME NEW t \in T, NEW r \in CaptureRecord
      PROVE  Append(t, r) \in T
  <2> DEFINE state == Normalized("Binance", t)
             after == Normalized("Binance", Append(t, r))
             report == ReportOf("Binance", t)
             status == StatusAt("Binance", t, r)
             k == Len(state.events)
  <2>1. /\ t \in Seq(CaptureRecord)
        /\ \A i \in DOMAIN state.events : state.events[i].position = i
        /\ IsFiniteSet(GapsIn(state.events)) /\ IsFiniteSet(UnreadIn(t))
        /\ Rising(t) => Counts(state.source, report.sequence, LastOf(t), report.gaps,
                               Cardinality(GapsIn(state.events)), Cardinality(UnreadIn(t)))
    BY DEF GapsCounted
  <2>2. report \in ReportState /\ ReportOf("Binance", Append(t, r)) = Observed("Binance", report, r)
    BY <2>1, ReportStep
  <2>3. state \in Reading /\ after \in Reading /\ status \in SequenceStatus
    BY <2>1, NextRecord
  <2>4. /\ after.source = IF ReadsTo(status, r) THEN r.id ELSE state.source
        /\ after.events = state.events \o Made(state, r, status)
        /\ Made(state, r, status) \in Seq(Event)
        /\ Len(Made(state, r, status)) = Added("Binance", t, r)
        /\ \A i \in 1 .. Added("Binance", t, r) :
             Made(state, r, status)[i] = EventAdded("Binance", t, r, i)
    BY <2>1, NextRecord
  <2>5. /\ status = "Gap" <=> /\ r.kind # "snapshot" /\ r.changes # << >>
                              /\ state.source # None /\ r.id > state.source + 1
        /\ status = "Accepted" <=> \/ r.kind = "snapshot" \/ r.changes = << >>
                                   \/ state.source = None \/ r.id = state.source + 1
    <3>1. state.source \in SourceNumbers \cup {None} /\ status = StatusOf("Binance", state, r)
      BY <2>3 DEF StatusAt, Reading
    <3> HIDE DEF status, state
    <3> QED BY <3>1, StatusIs
  <2>6. \A i : /\ EventAdded("Binance", t, r, i).status = status
               /\ EventAdded("Binance", t, r, i).position = k + i
    BY DEF EventAdded
  <2>7. status # "Accepted" => Added("Binance", t, r) = 1
    BY DEF Added
  <2>8. /\ state.source \in SourceNumbers \cup {None} /\ state.events \in Seq(Event)
        /\ after.events \in Seq(Event)
        /\ r.id \in SourceNumbers /\ report.gaps \in Nat
    BY <2>2, <2>3 DEF Reading, CaptureRecord, ReportState
  <2>9. \A i \in DOMAIN after.events :
          \/ i \in DOMAIN state.events /\ after.events[i] = state.events[i]
          \/ i > k /\ i - k \in 1 .. Added("Binance", t, r)
             /\ after.events[i] = EventAdded("Binance", t, r, i - k)
    BY <2>1, NextEvents
  <2>10. /\ \A i \in DOMAIN state.events : i \in DOMAIN after.events /\ after.events[i] = state.events[i]
         /\ \A i \in 1 .. Added("Binance", t, r) : /\ k + i \in DOMAIN after.events
                                                   /\ after.events[k + i] = EventAdded("Binance", t, r, i)
         /\ k \in Nat /\ DOMAIN state.events = 1 .. k
    <3> DEFINE old == state.events
               made == Made(state, r, status)
    <3>1. old \in Seq(Event) /\ made \in Seq(Event) /\ after.events = old \o made
          /\ Len(made) = Added("Binance", t, r)
          /\ \A i \in 1 .. Added("Binance", t, r) : made[i] = EventAdded("Binance", t, r, i)
      BY <2>4, <2>8
    <3> HIDE DEF old, made
    <3>2. /\ \A i \in DOMAIN old : i \in DOMAIN (old \o made) /\ (old \o made)[i] = old[i]
          /\ \A i \in 1 .. Len(made) : /\ Len(old) + i \in DOMAIN (old \o made)
                                       /\ (old \o made)[Len(old) + i] = made[i]
          /\ Len(old) \in Nat /\ DOMAIN old = 1 .. Len(old)
      <4>1. /\ Len(old) \in Nat /\ DOMAIN old = 1 .. Len(old) /\ Len(made) \in Nat
            /\ DOMAIN (old \o made) = 1 .. Len(old) + Len(made)
        BY <3>1
      <4>2. \A i \in 1 .. Len(old) : (old \o made)[i] = old[i]
        BY <3>1
      <4>3. \A i \in 1 .. Len(made) : (old \o made)[Len(old) + i] = made[i]
        BY <3>1
      <4>4. \A i \in DOMAIN old : i \in DOMAIN (old \o made)
        BY <4>1
      <4>5. \A i \in 1 .. Len(made) : Len(old) + i \in DOMAIN (old \o made)
        BY <4>1
      <4> QED BY <4>1, <4>2, <4>3, <4>4, <4>5
    <3> QED BY <3>1, <3>2 DEF old
  <2> DEFINE e == EventAdded("Binance", t, r, 1)
  <2>11. GapsIn(after.events) = IF status = "Gap" THEN GapsIn(state.events) \cup {e} ELSE GapsIn(state.events)
    <3> HIDE DEF state, after, status, e
    <3>1. \A x \in GapsIn(state.events) : x \in GapsIn(after.events)
      BY <2>10 DEF GapsIn, Range
    <3>2. \A x \in GapsIn(after.events) : \/ x \in GapsIn(state.events)
                                          \/ \E i \in 1 .. Added("Binance", t, r) :
                                               x = EventAdded("Binance", t, r, i) /\ x.status = "Gap"
      BY <2>9 DEF GapsIn, Range
    <3>3. CASE status = "Gap"
      <4>1. e \in GapsIn(after.events)
        <5>1. Added("Binance", t, r) = 1 /\ 1 \in 1 .. Added("Binance", t, r)
          BY <2>7, <3>3
        <5>2. k + 1 \in DOMAIN after.events /\ after.events[k + 1] = e
          BY <2>10, <5>1 DEF e
        <5>3. e.status = "Gap"
          BY <2>6, <3>3 DEF e
        <5> HIDE DEF k
        <5> QED BY <5>2, <5>3 DEF GapsIn, Range
      <4>2. \A x \in GapsIn(after.events) : x \in GapsIn(state.events) \/ x = e
        BY <2>7, <3>2, <3>3 DEF e
      <4> QED BY <3>1, <3>3, <4>1, <4>2
    <3>4. CASE status # "Gap"
      <4>1. \A x \in GapsIn(after.events) : x \in GapsIn(state.events)
        BY <2>6, <3>2, <3>4
      <4> QED BY <3>1, <3>4, <4>1
    <3> QED BY <3>3, <3>4
  <2>12. e \notin GapsIn(state.events)
    <3> SUFFICES ASSUME e \in GapsIn(state.events)
                 PROVE  FALSE
      OBVIOUS
    <3>1. PICK i \in DOMAIN state.events : e = state.events[i]
      BY DEF GapsIn, Range
    <3>2. e.position = k + 1
      BY <2>6
    <3> QED BY <2>1, <2>10, <3>1, <3>2
  <2> DEFINE gap == status = "Gap"
             skips == r.kind # "snapshot" /\ report.sequence # None /\ r.id > report.sequence + 1
  <2>13. /\ IsFiniteSet(GapsIn(after.events))
         /\ Cardinality(GapsIn(state.events)) \in Nat
         /\ Cardinality(GapsIn(after.events)) =
              Cardinality(GapsIn(state.events)) + (IF gap THEN 1 ELSE 0)
    <3> HIDE DEF state, after, status, report, e
    <3>0. Cardinality(GapsIn(state.events)) \in Nat
      BY <2>1, FS_CardinalityType
    <3>1. CASE status = "Gap"
      <4>1. GapsIn(after.events) = GapsIn(state.events) \cup {e}
        BY <2>11, <3>1
      <4>2. /\ IsFiniteSet(GapsIn(state.events) \cup {e})
            /\ Cardinality(GapsIn(state.events) \cup {e}) = Cardinality(GapsIn(state.events)) + 1
        BY <2>1, <2>12, FS_AddElement
      <4> QED BY <3>0, <2>1, <3>1, <4>1, <4>2
    <3>2. CASE status # "Gap"
      <4>1. GapsIn(after.events) = GapsIn(state.events)
        BY <2>11, <3>2
      <4> QED BY <3>0, <2>1, <2>8, <3>2, <4>1
    <3> QED BY <3>1, <3>2
  <2>14. \A i \in DOMAIN after.events : after.events[i].position = i
    <3> HIDE DEF state, after
    <3> TAKE i \in DOMAIN after.events
    <3>1. CASE i \in DOMAIN state.events /\ after.events[i] = state.events[i]
      BY <2>1, <3>1
    <3>2. CASE i > k /\ i - k \in 1 .. Added("Binance", t, r)
               /\ after.events[i] = EventAdded("Binance", t, r, i - k)
      <4>1. after.events[i].position = k + (i - k)
        BY <2>6, <3>2
      <4>2. i \in Int
        BY <2>8
      <4> HIDE DEF k
      <4> QED BY <2>10, <4>1, <4>2
    <3> QED BY <2>9, <3>1, <3>2
  <2>15. /\ Observed("Binance", report, r).sequence = Seen(report.sequence, r)
         /\ Observed("Binance", report, r).gaps = report.gaps + (IF skips THEN 1 ELSE 0)
    BY DEF Observed
  <2>16. /\ IsFiniteSet(UnreadIn(Append(t, r))) /\ Cardinality(UnreadIn(t)) \in Nat
         /\ Cardinality(UnreadIn(Append(t, r))) =
              Cardinality(UnreadIn(t)) + (IF Unread(r) THEN 1 ELSE 0)
    <3>1. UnreadIn(Append(t, r)) = UnreadIn(t) \cup (IF Unread(r) THEN {Len(t) + 1} ELSE {})
      BY <2>1, UnreadStep
    <3>2. Cardinality(UnreadIn(t)) \in Nat
      BY <2>1, FS_CardinalityType
    <3>3. Len(t) + 1 \notin UnreadIn(t)
      BY <2>1 DEF UnreadIn
    <3>4. /\ IsFiniteSet(UnreadIn(t) \cup {Len(t) + 1})
          /\ Cardinality(UnreadIn(t) \cup {Len(t) + 1}) = Cardinality(UnreadIn(t)) + 1
      BY <2>1, <3>3, FS_AddElement
    <3>5. CASE Unread(r)
      BY <3>1, <3>2, <3>4, <3>5
    <3>6. CASE ~ Unread(r)
      <4>1. UnreadIn(Append(t, r)) = UnreadIn(t)
        BY <3>1, <3>6
      <4> QED BY <2>1, <3>2, <3>6, <4>1
    <3> QED BY <3>5, <3>6
  <2>17. Append(t, r) \in Seq(CaptureRecord)
    BY <2>1
  <2>18. ASSUME Rising(Append(t, r))
         PROVE  Counts(after.source, ReportOf("Binance", Append(t, r)).sequence,
                       LastOf(Append(t, r)), ReportOf("Binance", Append(t, r)).gaps,
                       Cardinality(GapsIn(after.events)), Cardinality(UnreadIn(Append(t, r))))
    <3>1. /\ Len(t) \in Nat /\ Append(t, r) # << >> /\ Len(Append(t, r)) = Len(t) + 1
          /\ Append(t, r)[Len(t) + 1] = r
          /\ \A i \in DOMAIN t : t[i] = Append(t, r)[i] /\ i \in DOMAIN Append(t, r) /\ i \in Nat
          /\ Len(t) + 1 \in DOMAIN Append(t, r)
          /\ t # << >> => Len(t) \in DOMAIN t /\ t[Len(t)] \in CaptureRecord
          /\ \A i \in DOMAIN t : i > 1 => i - 1 \in DOMAIN t
      <4>1. Len(t) \in Nat /\ DOMAIN t = 1 .. Len(t) /\ DOMAIN Append(t, r) = 1 .. Len(t) + 1
            /\ Len(Append(t, r)) = Len(t) + 1 /\ Append(t, r)[Len(t) + 1] = r
            /\ \A i \in 1 .. Len(t) : t[i] = Append(t, r)[i]
        BY <2>1
      <4>2. Append(t, r) # << >>
        BY <4>1
      <4>3. t # << >> => Len(t) \in 1 .. Len(t) /\ t[Len(t)] \in CaptureRecord
        BY <2>1
      <4>4. /\ \A i \in 1 .. Len(t) : i \in 1 .. Len(t) + 1 /\ i \in Nat /\ (i > 1 => i - 1 \in 1 .. Len(t))
            /\ Len(t) + 1 \in 1 .. Len(t) + 1
        BY <4>1
      <4> QED BY <4>1, <4>2, <4>3, <4>4
    <3>2. Rising(t)
      BY <2>18, <3>1 DEF Rising
    <3>3. Counts(state.source, report.sequence, LastOf(t), report.gaps,
                 Cardinality(GapsIn(state.events)), Cardinality(UnreadIn(t)))
      BY <2>1, <3>2
    <3>4. LastOf(t) \in SourceNumbers \cup {None} /\ (LastOf(t) # None => (r.kind = "depth" => LastOf(t) < r.id))
      <4>1. CASE t # << >> /\ t[Len(t)].kind = "depth"
        <5>1. LastOf(t) = t[Len(t)].id /\ t[Len(t)].id \in SourceNumbers
          BY <3>1, <4>1 DEF LastOf, CaptureRecord
        <5>2. Len(t) > 0 /\ Append(t, r)[(Len(t) + 1) - 1] = t[Len(t)] /\ Len(t) + 1 > 1
          BY <3>1, <4>1
        <5>3. r.kind = "depth" => t[Len(t)].id < r.id
          BY <2>18, <3>1, <4>1, <5>2 DEF Rising
        <5> QED BY <5>1, <5>3
      <4>2. CASE ~ (t # << >> /\ t[Len(t)].kind = "depth")
        BY <4>2 DEF LastOf
      <4> QED BY <4>1, <4>2
    <3>5. LastOf(Append(t, r)) = IF r.kind = "depth" THEN r.id ELSE None
      BY <3>1 DEF LastOf
    <3>6. /\ ReportOf("Binance", Append(t, r)).sequence = Seen(report.sequence, r)
          /\ ReportOf("Binance", Append(t, r)).gaps = report.gaps + (IF skips THEN 1 ELSE 0)
      BY <2>2, <2>15
    <3>7. report.sequence \in SourceNumbers \cup {None}
      BY <2>2 DEF ReportState
    <3>8. after.source = IF \/ r.kind = "snapshot"
                            \/ r.changes # << >> /\ (state.source = None \/ r.id = state.source + 1 \/ gap)
                         THEN r.id ELSE state.source
      <4>1. r.kind \in {"snapshot", "depth"}
        BY DEF CaptureRecord
      <4> HIDE DEF state, after, status
      <4> QED BY <2>4, <2>5, <4>1 DEF ReadsTo, Unread
    <3>9. /\ gap \in BOOLEAN /\ skips \in BOOLEAN
          /\ gap <=> /\ r.kind # "snapshot" /\ r.changes # << >>
                     /\ state.source # None /\ r.id > state.source + 1
          /\ skips <=> r.kind # "snapshot" /\ report.sequence # None /\ r.id > report.sequence + 1
      BY <2>5
    <3> DEFINE found == Cardinality(GapsIn(state.events))
               unread == Cardinality(UnreadIn(t))
               last == LastOf(t)
    <3>11. /\ state.source \in SourceNumbers \cup {None} /\ report.sequence \in SourceNumbers \cup {None}
           /\ last \in SourceNumbers \cup {None} /\ report.gaps \in Nat
           /\ found \in Nat /\ unread \in Nat
           /\ Counts(state.source, report.sequence, last, report.gaps, found, unread)
           /\ last # None => (r.kind = "depth" => last < r.id)
      BY <2>8, <2>13, <2>16, <3>3, <3>4, <3>7
    <3> HIDE DEF state, after, status, report, gap, skips, found, unread, last
    <3> DEFINE source == after.source
               lastAfter == LastOf(Append(t, r))
               countedAfter == ReportOf("Binance", Append(t, r)).gaps
               foundAfter == Cardinality(GapsIn(after.events))
               unreadAfter == Cardinality(UnreadIn(Append(t, r)))
    <3>10. /\ source = IF \/ r.kind = "snapshot"
                          \/ r.changes # << >> /\ (state.source = None \/ r.id = state.source + 1 \/ gap)
                       THEN r.id ELSE state.source
           /\ lastAfter = IF r.kind = "depth" THEN r.id ELSE None
           /\ countedAfter = report.gaps + (IF skips THEN 1 ELSE 0)
           /\ foundAfter = found + (IF gap THEN 1 ELSE 0)
           /\ unreadAfter = unread + (IF Unread(r) THEN 1 ELSE 0)
      BY <2>13, <2>16, <3>5, <3>6, <3>8 DEF found, unread
    <3> HIDE DEF source, lastAfter, countedAfter, foundAfter, unreadAfter
    <3>12. Counts(source, Seen(report.sequence, r), lastAfter, countedAfter, foundAfter, unreadAfter)
      <4> DEFINE before == state.source
                 sequence == report.sequence
                 counted == report.gaps
      <4>1. /\ r.id \in Nat /\ r.id # None /\ r.kind \in {"snapshot", "depth"}
            /\ (before # None => before \in Nat) /\ (sequence # None => sequence \in Nat)
            /\ (last # None => last \in Nat) /\ counted \in Nat /\ found \in Nat /\ unread \in Nat
        BY <3>11, MaxSourceAssumption, NoneAssumption DEF CaptureRecord, SourceNumbers
      <4>2. /\ before # sequence => sequence # None /\ sequence = last
            /\ before # None /\ sequence # None => before <= sequence
            /\ counted + (IF before = None /\ sequence # None THEN 1 ELSE 0) <= found + unread
            /\ found + (IF before # sequence THEN 1 ELSE 0) <= counted + unread
        BY <3>11 DEF Counts
      <4>3. CASE r.kind = "snapshot"
        <5>1. Seen(sequence, r) = r.id /\ ~ Unread(r) /\ ~ gap /\ ~ skips /\ source = r.id
          BY <3>9, <3>10, <4>3 DEF Seen, Unread
        <5>2. lastAfter = None /\ countedAfter = counted /\ foundAfter = found /\ unreadAfter = unread
          BY <3>10, <4>1, <4>3, <5>1
        <5> QED BY <4>1, <4>2, <5>1, <5>2 DEF Counts
      <4>4. CASE r.kind = "depth" /\ r.changes = << >>
        <5>1. /\ Unread(r) /\ ~ gap /\ source = before
              /\ Seen(sequence, r) = IF sequence = None \/ r.id > sequence THEN r.id ELSE sequence
          BY <3>9, <3>10, <4>4 DEF Seen, Unread
        <5>2. /\ lastAfter = r.id /\ foundAfter = found /\ unreadAfter = unread + 1
              /\ countedAfter = counted + (IF sequence # None /\ r.id > sequence + 1 THEN 1 ELSE 0)
          BY <3>9, <3>10, <4>1, <4>4, <5>1
        <5>3. last # None => last < r.id
          BY <3>11, <4>4
        <5> DEFINE seen == Seen(sequence, r)
        <5> HIDE DEF before, sequence, counted, seen
        <5>4. CASE sequence = None
          <6>1. before = None /\ seen = r.id /\ countedAfter = counted
            BY <4>1, <4>2, <5>1, <5>2, <5>4 DEF seen
          <6>2. Counts(source, seen, lastAfter, countedAfter, foundAfter, unreadAfter)
            BY <4>1, <4>2, <5>1, <5>2, <5>4, <6>1 DEF Counts
          <6> QED BY <6>2 DEF seen, sequence
        <5>5. CASE sequence # None /\ before = sequence
          <6>1. seen = IF r.id > sequence THEN r.id ELSE sequence
            BY <5>1, <5>5 DEF seen
          <6>2. countedAfter \in {counted, counted + 1} /\ (countedAfter # counted => seen # sequence)
            BY <4>1, <5>2, <6>1
          <6>3. Counts(source, seen, lastAfter, countedAfter, foundAfter, unreadAfter)
            BY <4>1, <4>2, <5>1, <5>2, <5>5, <6>1, <6>2 DEF Counts
          <6> QED BY <6>3 DEF seen, sequence
        <5>6. CASE sequence # None /\ before # sequence
          <6>1. sequence < r.id /\ seen = r.id
            BY <4>1, <4>2, <5>1, <5>3, <5>6 DEF seen
          <6>2. countedAfter \in {counted, counted + 1}
            BY <4>1, <5>2
          <6>3. Counts(source, seen, lastAfter, countedAfter, foundAfter, unreadAfter)
            BY <4>1, <4>2, <5>1, <5>2, <5>6, <6>1, <6>2 DEF Counts
          <6> QED BY <6>3 DEF seen, sequence
        <5> QED BY <5>4, <5>5, <5>6
      <4>5. CASE r.kind = "depth" /\ r.changes # << >>
        <5>1. /\ ~ Unread(r) /\ (gap <=> before # None /\ r.id > before + 1)
              /\ Seen(sequence, r) = IF sequence = None \/ r.id > sequence THEN r.id ELSE sequence
              /\ source = IF before = None \/ r.id >= before + 1 THEN r.id ELSE before
          BY <3>9, <3>10, <4>1, <4>5 DEF Seen, Unread
        <5>2. /\ lastAfter = r.id /\ unreadAfter = unread
              /\ foundAfter = found + (IF before # None /\ r.id > before + 1 THEN 1 ELSE 0)
              /\ countedAfter = counted + (IF sequence # None /\ r.id > sequence + 1 THEN 1 ELSE 0)
          BY <3>9, <3>10, <4>1, <4>5, <5>1
        <5>3. last # None => last < r.id
          BY <3>11, <4>5
        <5> HIDE DEF before, sequence, counted
        <5>4. CASE before = sequence
          <6>1. Seen(sequence, r) = source /\ source # None
            BY <4>1, <5>1, <5>4
          <6>2. countedAfter - counted = foundAfter - found /\ foundAfter - found \in {0, 1}
            BY <4>1, <5>2, <5>4
          <6>3. countedAfter <= foundAfter + unreadAfter /\ foundAfter <= countedAfter + unreadAfter
            BY <4>1, <4>2, <5>2, <5>4, <6>2
          <6>4. countedAfter \in Nat /\ foundAfter \in Nat /\ unreadAfter \in Nat
            BY <4>1, <5>2, <5>4
          <6>5. source \in Nat
            BY <4>1, <5>1
          <6>6. Counts(source, source, lastAfter, countedAfter, foundAfter, unreadAfter)
            BY <6>1, <6>3, <6>4, <6>5 DEF Counts
          <6> QED BY <6>1, <6>6 DEF sequence
        <5>5. CASE before # sequence
          <6>1. sequence = last /\ sequence < r.id /\ Seen(sequence, r) = r.id /\ source = r.id
            BY <4>1, <4>2, <5>1, <5>3, <5>5
          <6>2. before # None => before < sequence /\ r.id > before + 1
            BY <4>1, <4>2, <5>5, <6>1
          <6>3. sequence # None /\ countedAfter \in {counted, counted + 1}
            BY <4>1, <4>2, <5>2, <5>5
          <6>4. foundAfter = found + (IF before # None THEN 1 ELSE 0)
            BY <4>1, <5>2, <6>2
          <6> HIDE DEF before, sequence, counted
          <6>5. foundAfter <= countedAfter + unreadAfter /\ countedAfter <= foundAfter + unreadAfter
            BY <4>1, <4>2, <5>2, <5>5, <6>3, <6>4
          <6>6. /\ countedAfter \in Nat /\ foundAfter \in Nat /\ unreadAfter \in Nat
            BY <4>1, <5>2, <6>3, <6>4
          <6>7. Counts(r.id, r.id, lastAfter, countedAfter, foundAfter, unreadAfter)
            BY <4>1, <6>5, <6>6 DEF Counts
          <6> QED BY <6>1, <6>7 DEF sequence
        <5> QED BY <5>4, <5>5
      <4> QED BY <4>1, <4>3, <4>4, <4>5
    <3> QED BY <3>6, <3>12 DEF source, lastAfter, countedAfter, foundAfter, unreadAfter
  <2> HIDE DEF report, status, k
  <2> QED BY <2>13, <2>14, <2>16, <2>17, <2>18 DEF GapsCounted
<1>3. T = Seq(CaptureRecord)
  <2>1. T \in SUBSET Seq(CaptureRecord)
    OBVIOUS
  <2> HIDE DEF T
  <2> QED BY <2>1, <1>1, <1>2, ListsByAppend
<1> QED BY <1>3

(***************************************************************************)
(* The events of a file: each has its place, its record and its record's   *)
(* time; those of accepted messages are numbered below the next number to  *)
(* give, upwards, and a refused message has no other event.                *)
(***************************************************************************)
Placed(of, s) ==
  \A i \in DOMAIN Normalized(of, s).events :
    LET event == Normalized(of, s).events[i]
    IN  /\ event.position = i
        /\ event.record \in 1 .. Len(s) /\ event.time = s[event.record].time
        /\ event.status = "Accepted" => event.number >= 1 /\ event.number < Normalized(of, s).next

Ordered(a, b) ==
  /\ a.record <= b.record
  /\ a.record = b.record => a.status = "Accepted" /\ b.status = "Accepted"
  /\ a.status = "Accepted" /\ b.status = "Accepted" => a.number < b.number

InOrder(of, s) ==
  \A i, j \in DOMAIN Normalized(of, s).events :
    i < j => Ordered(Normalized(of, s).events[i], Normalized(of, s).events[j])

Arranged(of, s) ==
  /\ Normalized(of, s).read = Len(s)
  /\ Normalized(of, s).next - 1 <= Len(s) * Cardinality(Prices)
  /\ Placed(of, s) /\ InOrder(of, s)

(* By induction over the records. *)
LEMMA EventsAreArranged ==
  ASSUME NEW of, NEW s \in Seq(CaptureRecord)
  PROVE  Arranged(of, s)
<1> DEFINE T == {t \in Seq(CaptureRecord) : Arranged(of, t)}
           C == Cardinality(Prices)
<1>1. << >> \in T
  <2>1. /\ Normalized(of, << >>).read = 0 /\ Normalized(of, << >>).next = 1
        /\ Normalized(of, << >>).events = << >>
    BY NormalizedStep
  <2>2. << >> \in Seq(CaptureRecord) /\ Len(<< >>) = 0 /\ DOMAIN << >> = {}
    OBVIOUS
  <2>3. Placed(of, << >>) /\ InOrder(of, << >>)
    BY <2>1, <2>2 DEF Placed, InOrder
  <2>4. 0 * C = 0 /\ C \in Nat
    BY PricesAreNumbers
  <2> QED BY <2>1, <2>2, <2>3, <2>4 DEF Arranged
<1>2. ASSUME NEW t \in T, NEW r \in CaptureRecord
      PROVE  Append(t, r) \in T
  <2> DEFINE old == Normalized(of, t)
             new == Normalized(of, Append(t, r))
             status == StatusAt(of, t, r)
             k == Len(old.events)
             e(i) == EventAdded(of, t, r, i)
             u == Append(t, r)
  <2>1. t \in Seq(CaptureRecord) /\ Arranged(of, t)
    OBVIOUS
  <2>2. /\ old.read = Len(t) /\ old.next - 1 <= Len(t) * C
        /\ \A i \in DOMAIN old.events :
             /\ old.events[i].position = i
             /\ old.events[i].record \in 1 .. Len(t)
             /\ old.events[i].time = t[old.events[i].record].time
             /\ old.events[i].status = "Accepted" =>
                  old.events[i].number >= 1 /\ old.events[i].number < old.next
        /\ \A i, j \in DOMAIN old.events : i < j => Ordered(old.events[i], old.events[j])
    BY <2>1 DEF Arranged, Placed, InOrder
  <2>3. /\ old \in Reading /\ new \in Reading
        /\ new.next = IF status = "Accepted" THEN old.next + Len(r.changes) ELSE old.next
        /\ new.read = old.read + 1
    BY <2>1, NextRecord
  <2>4. /\ Len(t) \in Nat /\ u \in Seq(CaptureRecord) /\ Len(u) = Len(t) + 1 /\ u[Len(t) + 1] = r
        /\ \A n \in 1 .. Len(t) : u[n] = t[n]
    BY <2>1
  <2>5. /\ old.next \in Nat \ {0} /\ old.read \in Nat /\ k \in Nat
        /\ DOMAIN old.events = 1 .. k
        /\ \A i \in DOMAIN old.events : old.events[i].number \in Nat /\ old.events[i].record \in Nat
    <3>1. old.next \in Nat \ {0} /\ old.read \in Nat /\ old.events \in Seq(Event)
      BY <2>3 DEF Reading
    <3>2. \A i \in DOMAIN old.events : old.events[i] \in Event
      BY <3>1
    <3>3. k \in Nat /\ DOMAIN old.events = 1 .. k
      BY <3>1
    <3> QED BY <3>1, <3>2, <3>3 DEF Event
  <2>6. Len(r.changes) \in Nat /\ Len(r.changes) <= C /\ C \in Nat
    BY PricesAreNumbers DEF CaptureRecord
  <2>7. /\ \A i : /\ e(i).position = k + i /\ e(i).record = Len(t) + 1 /\ e(i).time = r.time
                  /\ e(i).status = status
                  /\ status = "Accepted" => e(i).number = old.next + i - 1
        /\ Added(of, t, r) = IF status = "Accepted" THEN Len(r.changes) ELSE 1
    BY <2>2 DEF EventAdded, Added
  <2>8. \A i \in DOMAIN new.events :
          \/ i \in DOMAIN old.events /\ new.events[i] = old.events[i]
          \/ i > k /\ i - k \in 1 .. Added(of, t, r) /\ new.events[i] = e(i - k)
    BY <2>1, NextEvents
  <2>9. \A i \in DOMAIN new.events : i \in Int
    <3>1. new.events \in Seq(Event)
      BY <2>3 DEF Reading
    <3> QED BY <3>1
  <2> HIDE DEF old, new, status, k, e, u, C
  <2>10. new.next - 1 <= Len(u) * C
    <3>1. Len(u) * C = Len(t) * C + C
      BY <2>4, <2>6
    <3>2. Len(t) * C \in Int
      BY <2>4, <2>6
    <3> QED BY <2>2, <2>3, <2>5, <2>6, <3>1, <3>2
  <2>11. ASSUME NEW i \in DOMAIN new.events
         PROVE  /\ new.events[i].position = i
                /\ new.events[i].record \in 1 .. Len(u)
                /\ new.events[i].time = u[new.events[i].record].time
                /\ new.events[i].status = "Accepted" =>
                     new.events[i].number >= 1 /\ new.events[i].number < new.next
    <3>1. CASE i \in DOMAIN old.events /\ new.events[i] = old.events[i]
      <4>1. old.next <= new.next
        BY <2>3, <2>5, <2>6
      <4>2. new.events[i].record \in 1 .. Len(t)
        BY <2>2, <3>1
      <4>3. new.events[i].record \in 1 .. Len(u)
        BY <2>4, <4>2
      <4>4. u[new.events[i].record] = t[new.events[i].record]
        BY <2>4, <4>2
      <4>5. new.events[i].status = "Accepted" =>
                     new.events[i].number >= 1 /\ new.events[i].number < new.next
        BY <2>2, <2>3, <2>5, <2>6, <3>1, <4>1
      <4> QED BY <2>2, <3>1, <4>3, <4>4, <4>5
    <3>2. CASE i > k /\ i - k \in 1 .. Added(of, t, r) /\ new.events[i] = e(i - k)
      <4>1. new.events[i].position = k + (i - k) /\ k + (i - k) = i
        BY <2>5, <2>7, <2>9, <3>2
      <4>2. new.events[i].record = Len(t) + 1 /\ Len(t) + 1 \in 1 .. Len(u)
        BY <2>4, <2>7, <3>2
      <4>3. u[new.events[i].record] = r /\ new.events[i].time = r.time
        BY <2>4, <2>7, <3>2, <4>2
      <4>4. new.events[i].status = "Accepted" =>
                     new.events[i].number >= 1 /\ new.events[i].number < new.next
        <5>1. status = "Accepted" => new.events[i].number = old.next + (i - k) - 1
                                     /\ i - k \in 1 .. Len(r.changes)
          BY <2>7, <3>2
        <5>2. new.events[i].status = status
          BY <2>7, <3>2
        <5>3. i \in Int /\ k \in Int /\ old.next \in Int /\ old.next >= 1
          BY <2>5, <2>9
        <5>4. CASE status = "Accepted"
          <6>1. i - k >= 1 /\ i - k <= Len(r.changes) /\ Len(r.changes) \in Int
            BY <2>6, <5>1, <5>4
          <6>2. new.events[i].number = old.next + (i - k) - 1 /\ new.next = old.next + Len(r.changes)
            BY <2>3, <5>1, <5>4
          <6>3. /\ old.next + (i - k) - 1 >= 1
                /\ old.next + (i - k) - 1 < old.next + Len(r.changes)
            <7>1. \A a, d, n \in Int : a >= 1 /\ d >= 1 /\ d <= n => a + d - 1 >= 1 /\ a + d - 1 < a + n
              OBVIOUS
            <7>2. i - k \in Int
              BY <5>3
            <7> QED BY <5>3, <6>1, <7>1, <7>2
          <6> QED BY <6>2, <6>3
        <5> QED BY <5>2, <5>4
      <4> QED BY <4>1, <4>2, <4>3, <4>4
    <3> QED BY <2>8, <3>1, <3>2
  <2>12. ASSUME NEW i \in DOMAIN new.events, NEW j \in DOMAIN new.events, i < j
         PROVE  Ordered(new.events[i], new.events[j])
    <3>1. CASE j \in DOMAIN old.events /\ new.events[j] = old.events[j]
      <4>1. i \in DOMAIN old.events /\ new.events[i] = old.events[i]
        BY <2>5, <2>8, <2>9, <2>12, <3>1
      <4> QED BY <2>2, <2>12, <3>1, <4>1
    <3>2. CASE /\ i \in DOMAIN old.events /\ new.events[i] = old.events[i]
               /\ j > k /\ j - k \in 1 .. Added(of, t, r) /\ new.events[j] = e(j - k)
      <4>1. new.events[j].record = Len(t) + 1 /\ new.events[j].status = status
            /\ (status = "Accepted" => new.events[j].number = old.next + (j - k) - 1)
        BY <2>7, <3>2
      <4>2. new.events[i].record \in 1 .. Len(t)
            /\ (new.events[i].status = "Accepted" => new.events[i].number < old.next)
            /\ new.events[i].number \in Nat
        BY <2>2, <2>5, <3>2
      <4>3. new.events[i].record < new.events[j].record
        BY <2>4, <4>1, <4>2
      <4>4. new.events[i].record \in Int /\ new.events[j].record \in Int
        BY <2>4, <4>1, <4>2
      <4>5. j - k >= 1 /\ j \in Int /\ k \in Int
        BY <2>5, <2>9, <3>2
      <4>6. new.events[i].status = "Accepted" /\ new.events[j].status = "Accepted" =>
              new.events[i].number < new.events[j].number
        <5> SUFFICES ASSUME new.events[i].status = "Accepted", new.events[j].status = "Accepted"
                     PROVE  new.events[i].number < new.events[j].number
          OBVIOUS
        <5>1. new.events[i].number < old.next /\ new.events[j].number = old.next + (j - k) - 1
          BY <4>1, <4>2
        <5>2. new.events[i].number \in Int /\ old.next \in Int
          BY <2>5, <4>2
        <5> QED BY <4>5, <5>1, <5>2
      <4> QED BY <4>3, <4>4, <4>6 DEF Ordered
    <3>3. CASE /\ i > k /\ i - k \in 1 .. Added(of, t, r) /\ new.events[i] = e(i - k)
               /\ j > k /\ j - k \in 1 .. Added(of, t, r) /\ new.events[j] = e(j - k)
      <4>1. /\ new.events[i].record = Len(t) + 1 /\ new.events[j].record = Len(t) + 1
            /\ new.events[i].status = status /\ new.events[j].status = status
            /\ (status = "Accepted" => new.events[j].number = old.next + (j - k) - 1)
            /\ (status = "Accepted" => new.events[i].number = old.next + (i - k) - 1)
        BY <2>7, <3>3
      <4>2. status = "Accepted"
        <5> SUFFICES ASSUME status # "Accepted"
                     PROVE  FALSE
          OBVIOUS
        <5>1. i - k \in 1 .. 1 /\ j - k \in 1 .. 1
          BY <2>7, <3>3
        <5> QED BY <2>5, <2>9, <2>12, <5>1
      <4>3. old.next + (i - k) - 1 < old.next + (j - k) - 1
        <5>1. i \in Int /\ j \in Int /\ k \in Int /\ old.next \in Int
          BY <2>5, <2>9
        <5> QED BY <2>12, <5>1
      <4>4. Len(t) + 1 <= Len(t) + 1
        BY <2>4
      <4> QED BY <4>1, <4>2, <4>3, <4>4 DEF Ordered
    <3> QED BY <2>5, <2>8, <2>9, <2>12, <3>1, <3>2, <3>3
  <2>13. Placed(of, u)
    BY <2>11 DEF Placed, new, u
  <2>14. InOrder(of, u)
    BY <2>12 DEF InOrder, new, u
  <2>15. new.read = Len(u)
    BY <2>2, <2>3, <2>4
  <2>16. Arranged(of, u)
    BY <2>10, <2>13, <2>14, <2>15 DEF Arranged, new, u, C
  <2> QED BY <2>4, <2>16 DEF u
<1>3. T = Seq(CaptureRecord)
  <2>1. T \in SUBSET Seq(CaptureRecord)
    OBVIOUS
  <2> HIDE DEF T
  <2> QED BY <2>1, <1>1, <1>2, ListsByAppend
<1> QED BY <1>3

(***************************************************************************)
(* If the file is in receipt order and no refused message shares its time  *)
(* with another, sorting the events leaves them as they are.               *)
(***************************************************************************)
LEMMA LogIsInOrder ==
  ASSUME file \in Seq(CaptureRecord), InReceiptOrder, ~ RefusedAtSameTime
  PROVE  Log = Normalized(venue, file).events
<1> DEFINE events == Normalized(venue, file).events
           R == {pair \in Events \X Events : Earlier(pair[1], pair[2])}
<1>1. events \in Seq(Event) /\ Events = Range(events)
  BY NormalizedStep DEF Reading, Events
<1>2. /\ \A i \in DOMAIN events :
           events[i].record \in 1 .. Len(file) /\ events[i].time = file[events[i].record].time
      /\ \A i, j \in DOMAIN events : i < j => Ordered(events[i], events[j])
  BY EventsAreArranged DEF Arranged, Placed, InOrder
<1> HIDE DEF events
<1>3. \A i \in DOMAIN events :
        /\ events[i] \in Event /\ events[i] \in Events /\ i \in Int
        /\ events[i].number \in Int /\ events[i].time \in Int /\ events[i].position \in Int
        /\ events[i].record \in Int
  <2> TAKE i \in DOMAIN events
  <2>1. events[i] \in Event /\ i \in Int
    BY <1>1
  <2>2. events[i] \in Events
    BY <1>1 DEF Range
  <2> QED BY <2>1, <2>2 DEF Event
<1>4. \A m, n \in 1 .. Len(file) : m <= n => file[m].time <= file[n].time
  <2> TAKE m, n \in 1 .. Len(file)
  <2> HAVE m <= n
  <2>1. m \in DOMAIN file /\ n \in DOMAIN file /\ file[m] \in CaptureRecord /\ file[n] \in CaptureRecord
    OBVIOUS
  <2>2. file[m].time \in Int
    BY <2>1 DEF CaptureRecord
  <2>3. CASE m = n
    BY <2>2, <2>3
  <2>4. CASE m < n
    BY <2>1, <2>4 DEF InReceiptOrder
  <2> QED BY <2>3, <2>4
<1>5. \A i, j \in DOMAIN events : i < j => Earlier(events[i], events[j])
  <2> SUFFICES ASSUME NEW i \in DOMAIN events, NEW j \in DOMAIN events, i < j
               PROVE  Earlier(events[i], events[j])
    OBVIOUS
  <2> DEFINE a == events[i]
             b == events[j]
  <2>1. Ordered(a, b)
    BY <1>2
  <2>2. a.time <= b.time
    BY <1>2, <1>4, <2>1 DEF Ordered
  <2>3. CASE a.time < b.time
    BY <2>3 DEF Earlier
  <2>4. CASE a.time = b.time
    <3>1. a \in Events /\ b \in Events
      BY <1>3
    <3>2. a.status = "Accepted" /\ b.status = "Accepted"
      <4>1. CASE a.record = b.record
        BY <2>1, <4>1 DEF Ordered
      <4>2. CASE a.record # b.record
        BY <2>4, <3>1, <4>2 DEF RefusedAtSameTime
      <4> QED BY <4>1, <4>2
    <3>3. a.number < b.number
      BY <2>1, <3>2 DEF Ordered
    <3> QED BY <2>4, <3>3 DEF Earlier
  <2>5. a.time \in Int /\ b.time \in Int
    BY <1>3
  <2>6. a.time < b.time \/ a.time = b.time
    <3> HIDE DEF a, b
    <3> QED BY <2>2, <2>5
  <2> QED BY <2>3, <2>4, <2>6
<1>6. \A i, j \in DOMAIN events : i < j => << events[i], events[j] >> \in R
  BY <1>3, <1>5
<1>7. \A i, j \in DOMAIN events : i <= j => << events[j], events[i] >> \notin R
  <2> SUFFICES ASSUME NEW i \in DOMAIN events, NEW j \in DOMAIN events, i <= j,
                      Earlier(events[j], events[i])
               PROVE  FALSE
    OBVIOUS
  <2>1. CASE i = j
    BY <1>3, <2>1 DEF Earlier
  <2>2. CASE i < j
    <3>1. Earlier(events[i], events[j])
      BY <1>5, <2>2
    <3> QED BY <1>3, <3>1 DEF Earlier
  <2> QED BY <1>3, <2>1, <2>2
<1> HIDE DEF R
<1>8. Sorted(Range(events), R) = events
  BY <1>1, <1>6, <1>7, SortedIs
<1> QED BY <1>1, <1>8 DEF Log, R, events

-------------------------------------------------------------------------------
(* The replay of a file's events. *)

(* Events of accepted messages, numbered from next. *)
Consecutive(events, next) ==
  \A i \in DOMAIN events : events[i].status = "Accepted" /\ events[i].number = next + i - 1

ChangesFrom(events) == [i \in DOMAIN events |-> events[i].change]

(* The number of the last update the replay has taken, if the next to come is next. *)
LastBefore(next) == IF next = 1 THEN None ELSE next - 1

(* The replay's book is one, but for the levels that it has let go. *)
Shows(state, b) == \A p \in Prices : state.book[p] = IF p \in state.evicted THEN 0 ELSE b[p]

(* The replay takes an event numbered next, if that is the next to come. *)
LEMMA ReplayTakes ==
  ASSUME NEW state \in ReplayState, NEW event \in Event, NEW next \in Nat \ {0},
         state.last = LastBefore(next), event.status = "Accepted", event.number = next,
         next <= MaxSequence
  PROVE  /\ \A b \in Books :
              Shows(state, b) => Shows(Replayed(state, event), ApplyChange(b, event.change))
         /\ Replayed(state, event).last = LastBefore(next + 1)
         /\ Replayed(state, event).dropped = state.dropped
         /\ Replayed(state, event).disputed = state.disputed
<1>1. MaxSequence \in Nat
  BY MaxSequenceAssumption
<1>2. Verdict(state.last, event.number) = "Accepted"
  <2>1. CASE next = 1
    BY <2>1 DEF LastBefore, Verdict
  <2>2. CASE next # 1
    <3>1. state.last = next - 1 /\ state.last \in Int /\ state.last # None
      BY <2>2, NoneAssumption DEF LastBefore
    <3>2. ~ (next = next - 1) /\ ~ (next < next - 1) /\ (next - 1) + 1 = next /\ next - 1 # MaxSequence
      BY <1>1
    <3> QED BY <3>1, <3>2 DEF Verdict
  <2> QED BY <2>1, <2>2
<1>3. LastBefore(next + 1) = next
  BY DEF LastBefore
<1> DEFINE changed == ApplyChange(state.book, event.change)
           cut == Cut(state.book, event.change)
           after == Replayed(state, event)
<1>4. /\ after.book = cut
      /\ after.evicted = (state.evicted \ {event.change.price}) \cup {p \in Prices : cut[p] # changed[p]}
      /\ after.last = event.number /\ after.dropped = state.dropped
      /\ after.disputed = state.disputed
  BY <1>2 DEF Replayed
<1>5. state.book \in Books /\ event.change.price \in Prices /\ event.change.quantity \in Quantities
  BY DEF ReplayState, Event, Changes
<1>6. changed \in Books /\ \A p \in Prices : cut[p] \in {changed[p], 0}
  <2>1. changed \in Books
    BY <1>5 DEF ApplyChange, Books
  <2> HIDE DEF changed
  <2> QED BY <2>1, BestType DEF Cut, changed
<1>7. \A b \in Books : \A p \in Prices :
        ApplyChange(b, event.change)[p] = IF p = event.change.price THEN event.change.quantity ELSE b[p]
  BY DEF ApplyChange, Books
<1>8. \A p \in Prices :
        changed[p] = IF p = event.change.price THEN event.change.quantity ELSE state.book[p]
  BY <1>5, <1>7
<1> HIDE DEF changed, cut, after
<1>9. ASSUME NEW b \in Books, Shows(state, b)
      PROVE  Shows(after, ApplyChange(b, event.change))
  <2> SUFFICES ASSUME NEW p \in Prices
               PROVE  after.book[p] = IF p \in after.evicted THEN 0 ELSE ApplyChange(b, event.change)[p]
    BY DEF Shows
  <2>1. CASE cut[p] # changed[p]
    BY <1>4, <1>6, <2>1
  <2>2. CASE cut[p] = changed[p] /\ p = event.change.price
    BY <1>4, <1>7, <1>8, <2>2
  <2>3. CASE cut[p] = changed[p] /\ p # event.change.price
    <3>1. state.book[p] = IF p \in state.evicted THEN 0 ELSE b[p]
      BY <1>9 DEF Shows
    <3> QED BY <1>4, <1>7, <1>8, <2>3, <3>1
  <2> QED BY <2>1, <2>2, <2>3
<1> QED BY <1>3, <1>4, <1>9 DEF after

(* It refuses an event of a refused message. *)
LEMMA ReplayRefuses ==
  ASSUME NEW state \in ReplayState, NEW event \in Event, NEW next \in Nat \ {0, 1},
         state.last = LastBefore(next), event.status # "Accepted",
         event.number = NormalizedSequence(event.status, next)
  PROVE  /\ Replayed(state, event).last = state.last
         /\ Replayed(state, event).disputed = state.disputed
<1>1. state.last = next - 1 /\ state.last \in Int /\ state.last # None
  BY NoneAssumption DEF LastBefore
<1>2. event.status \in {"Duplicate", "Stale", "Gap"}
  BY DEF Event, SequenceStatus
<1>3. Verdict(state.last, event.number) # "Accepted"
  <2>1. CASE event.status = "Duplicate"
    <3>1. event.number = next - 1
      BY <2>1 DEF NormalizedSequence
    <3> QED BY <1>1, <3>1 DEF Verdict
  <2>2. CASE event.status = "Stale"
    <3>1. event.number = next - 2
      BY <2>2 DEF NormalizedSequence
    <3>2. next - 2 < next - 1 /\ next - 2 # next - 1
      OBVIOUS
    <3> QED BY <1>1, <3>1, <3>2 DEF Verdict
  <2>3. CASE event.status = "Gap"
    <3>1. event.number = next + 1
      BY <2>3 DEF NormalizedSequence
    <3>2. ~ (next + 1 < next - 1) /\ next + 1 # next - 1 /\ next + 1 # (next - 1) + 1
      OBVIOUS
    <3> QED BY <1>1, <3>1, <3>2 DEF Verdict
  <2> QED BY <1>2, <2>1, <2>2, <2>3
<1> QED BY <1>3 DEF Replayed

(* What it makes of events of an accepted message. *)
Taken(before, after, made, next) ==
  /\ \A b \in Books : Shows(before, b) => Shows(after, ApplyChanges(b, ChangesFrom(made)))
  /\ after.last = LastBefore(next + Len(made))
  /\ after.disputed = before.disputed

(* It takes all of them, in a row. *)
LEMMA ReplayTakesAll ==
  ASSUME NEW events \in Seq(Event), NEW next \in Nat \ {0},
         ReplayOf(events).last = LastBefore(next),
         NEW made \in Seq(Event), Consecutive(made, next), next - 1 + Len(made) <= MaxSequence
  PROVE  /\ ChangesFrom(made) \in Seq(Changes)
         /\ Taken(ReplayOf(events), ReplayOf(events \o made), made, next)
<1> DEFINE Fits(list) == Consecutive(list, next) /\ next - 1 + Len(list) <= MaxSequence
           Result(list) == /\ ChangesFrom(list) \in Seq(Changes)
                           /\ Taken(ReplayOf(events), ReplayOf(events \o list), list, next)
           T == {list \in Seq(Event) : Fits(list) => Result(list)}
<1>1. << >> \in T
  <2>1. events \o << >> = events /\ Len(<< >>) = 0 /\ DOMAIN << >> = {} /\ << >> \in Seq(Event)
        /\ << >> \in Seq(Changes)
    OBVIOUS
  <2>2. ChangesFrom(<< >>) = << >>
    BY <2>1 DEF ChangesFrom
  <2>4. \A b \in Books : ApplyChanges(b, << >>) = b
    BY ApplyChangesStep
  <2>5. next + 0 = next
    OBVIOUS
  <2>6. Result(<< >>)
    BY <2>1, <2>2, <2>4, <2>5 DEF Taken
  <2> QED BY <2>1, <2>6
<1>2. ASSUME NEW list \in T, NEW e \in Event
      PROVE  Append(list, e) \in T
  <2> DEFINE n == Len(list)
             more == Append(list, e)
  <2>1. /\ list \in Seq(Event) /\ n \in Nat /\ more \in Seq(Event) /\ Len(more) = n + 1
        /\ DOMAIN list = 1 .. n /\ DOMAIN more = 1 .. n + 1
        /\ more[n + 1] = e /\ \A i \in 1 .. n : more[i] = list[i]
    OBVIOUS
  <2> SUFFICES ASSUME Fits(more)
               PROVE  Result(more)
    BY <2>1
  <2>2. Fits(list)
    <3>1. Consecutive(list, next)
      <4>1. \A i \in 1 .. n : i \in 1 .. n + 1
        BY <2>1
      <4> HIDE DEF more
      <4> QED BY <2>1, <4>1 DEF Consecutive
    <3>2. next - 1 + Len(list) <= MaxSequence
      BY <2>1, MaxSequenceAssumption
    <3> QED BY <3>1, <3>2
  <2>3. e.status = "Accepted" /\ e.number = next + n /\ e.change \in Changes
    <3>1. n + 1 \in DOMAIN more /\ next + (n + 1) - 1 = next + n
      BY <2>1
    <3>2. e.status = "Accepted" /\ e.number = next + (n + 1) - 1
      <4> HIDE DEF more
      <4> QED BY <2>1, <3>1 DEF Consecutive
    <3> QED BY <3>1, <3>2 DEF Event
  <2>4. Result(list)
    BY <2>2
  <2>5. ReplayOf(events) \in ReplayState /\ ReplayOf(events \o list) \in ReplayState
    <3>1. events \o list \in Seq(Event)
      BY <2>1
    <3> QED BY <3>1, ReplayStep
  <2>6. ReplayOf(events \o more) = Replayed(ReplayOf(events \o list), e)
    <3>1. events \o more = Append(events \o list, e) /\ events \o list \in Seq(Event)
      BY <2>1
    <3> QED BY <3>1, ReplayStep
  <2>7. next + n \in Nat \ {0} /\ next + n <= MaxSequence
    BY <2>1, MaxSequenceAssumption
  <2>8. /\ \A b \in Books : Shows(ReplayOf(events \o list), b) =>
             Shows(ReplayOf(events \o more), ApplyChange(b, e.change))
        /\ ReplayOf(events \o more).last = LastBefore(next + n + 1)
        /\ ReplayOf(events \o more).disputed = ReplayOf(events \o list).disputed
    BY <2>3, <2>4, <2>5, <2>6, <2>7, ReplayTakes DEF Taken
  <2>9. ChangesFrom(more) = Append(ChangesFrom(list), e.change)
    <3>1. ChangesFrom(more) = [i \in 1 .. n + 1 |-> more[i].change]
      BY <2>1 DEF ChangesFrom
    <3>2. ChangesFrom(list) = [i \in 1 .. n |-> list[i].change]
      BY <2>1 DEF ChangesFrom
    <3>3. /\ ChangesFrom(list) \in Seq(Changes) /\ Len(ChangesFrom(list)) = n
      BY <2>1, <2>4, <3>2
    <3>4. Append(ChangesFrom(list), e.change) = [i \in 1 .. n + 1 |-> IF i = n + 1 THEN e.change
                                                                      ELSE list[i].change]
      BY <2>1, <2>3, <3>2, <3>3
    <3>5. \A i \in 1 .. n + 1 : more[i].change = IF i = n + 1 THEN e.change ELSE list[i].change
      <4> TAKE i \in 1 .. n + 1
      <4>1. i = n + 1 \/ i \in 1 .. n
        BY <2>1
      <4> HIDE DEF more, n
      <4> QED BY <2>1, <4>1
    <3> HIDE DEF more
    <3> QED BY <3>1, <3>4, <3>5
  <2>10. ASSUME NEW b \in Books, Shows(ReplayOf(events), b)
         PROVE  Shows(ReplayOf(events \o more), ApplyChanges(b, ChangesFrom(more)))
    <3>1. /\ ApplyChanges(b, ChangesFrom(list)) \in Books
          /\ ApplyChanges(b, ChangesFrom(more)) = ApplyChange(ApplyChanges(b, ChangesFrom(list)), e.change)
      BY <2>3, <2>4, <2>9, ApplyChangesStep
    <3>2. Shows(ReplayOf(events \o list), ApplyChanges(b, ChangesFrom(list)))
      BY <2>4, <2>10 DEF Taken
    <3> HIDE DEF more
    <3> QED BY <2>8, <3>1, <3>2
  <2>11. ChangesFrom(more) \in Seq(Changes)
    BY <2>3, <2>4, <2>9
  <2>12. next + Len(more) = next + n + 1
    <3>1. Len(more) = n + 1 /\ n \in Nat
      BY <2>1
    <3> HIDE DEF more, n
    <3> QED BY <3>1
  <2> HIDE DEF more, n
  <2> QED BY <2>4, <2>8, <2>10, <2>11, <2>12 DEF Taken
<1>3. T = Seq(Event)
  <2>1. T \in SUBSET Seq(Event)
    OBVIOUS
  <2> HIDE DEF T
  <2> QED BY <2>1, <1>1, <1>2, ListsByAppend
<1>4. Fits(made) => Result(made)
  BY <1>3
<1> QED BY <1>4

(* A list of one element that follows another list. *)
LEMMA JoinedOne ==
  ASSUME NEW S, NEW a \in Seq(S), NEW b \in Seq(S), Len(b) = 1
  PROVE  b[1] \in S /\ a \o b = Append(a, b[1])
<1> DEFINE m == Len(a)
           n == Len(b)
<1>1. m \in Nat /\ n \in Nat /\ \A i \in 1 .. n : b[i] \in S
  OBVIOUS
<1>2. 1 \in 1 .. n
  OBVIOUS
<1>3. a \o b \in Seq(S) /\ Len(a \o b) = m + n /\ (\A i \in 1 .. m : (a \o b)[i] = a[i])
      /\ (\A i \in 1 .. n : (a \o b)[m + i] = b[i])
  <2>1. \A x, y \in Seq(S) : \A i \in 1 .. Len(y) : (x \o y)[Len(x) + i] = y[i]
    OBVIOUS
  <2>2. \A x, y \in Seq(S) : x \o y \in Seq(S) /\ Len(x \o y) = Len(x) + Len(y)
    OBVIOUS
  <2>3. \A x, y \in Seq(S) : \A i \in 1 .. Len(x) : (x \o y)[i] = x[i]
    OBVIOUS
  <2> QED BY <2>1, <2>2, <2>3
<1>4. b[1] \in S
  <2> HIDE DEF n
  <2> QED BY <1>1, <1>2
<1> DEFINE e == b[1]
<1>5. /\ Append(a, e) \in Seq(S) /\ Len(Append(a, e)) = m + 1 /\ Append(a, e)[m + 1] = e
      /\ \A i \in 1 .. m : Append(a, e)[i] = a[i]
  <2> HIDE DEF e
  <2> QED BY <1>4 DEF e
<1>6. n = 1
  OBVIOUS
<1> HIDE DEF m, n
<1>7. (a \o b)[m + 1] = e
  BY <1>2, <1>3
<1>8. \A i \in 1 .. m + 1 : i \in 1 .. m \/ i = m + 1
  BY <1>1
<1> HIDE DEF e
<1>9. \A i \in 1 .. m + 1 : (a \o b)[i] = Append(a, e)[i]
  BY <1>3, <1>5, <1>7, <1>8
<1>10. a \o b = Append(a, e)
  BY <1>3, <1>5, <1>6, <1>9
<1> QED BY <1>4, <1>10 DEF e

(* The first event is accepted, if there is one; all are. *)
AcceptedFirst(of, s) ==
  Normalized(of, s).events # << >> => Normalized(of, s).events[1].status = "Accepted"
AllAccepted(of, s) ==
  \A i \in DOMAIN Normalized(of, s).events : Normalized(of, s).events[i].status = "Accepted"

(***************************************************************************)
(* The replay of the events judges them as the adapter did and has the     *)
(* book of the changes, but for the levels it let go.                      *)
(***************************************************************************)
Followed(of, s) ==
  /\ ReplayOf(Normalized(of, s).events).disputed = {}
  /\ ReplayOf(Normalized(of, s).events).last = LastBefore(Normalized(of, s).next)
  /\ AllAccepted(of, s) => Shows(ReplayOf(Normalized(of, s).events), BookAfter(EmptyBook, s))

(* By induction over the records of a file whose first event is accepted. *)
LEMMA ReplayFollows ==
  ASSUME NEW of, NEW s \in Seq(CaptureRecord), AcceptedFirst(of, s),
         Normalized(of, s).next - 1 <= MaxSequence
  PROVE  Followed(of, s)
<1> DEFINE Fits(t) == AcceptedFirst(of, t) /\ Normalized(of, t).next - 1 <= MaxSequence
           T == {t \in Seq(CaptureRecord) : Fits(t) => Followed(of, t)}
<1>1. << >> \in T
  <2>1. Normalized(of, << >>).next = 1 /\ Normalized(of, << >>).events = << >>
    BY NormalizedStep
  <2>2. /\ ReplayOf(<< >>).disputed = {} /\ ReplayOf(<< >>).last = None
        /\ Shows(ReplayOf(<< >>), EmptyBook)
    BY ReplayStep DEF Shows
  <2>3. BookAfter(EmptyBook, << >>) = EmptyBook
    BY EmptyBookType, BookAfterStep
  <2>4. Followed(of, << >>)
    BY <2>1, <2>2, <2>3 DEF Followed, LastBefore
  <2>5. << >> \in Seq(CaptureRecord)
    OBVIOUS
  <2> QED BY <2>4, <2>5
<1>2. ASSUME NEW t \in T, NEW r \in CaptureRecord
      PROVE  Append(t, r) \in T
  <2> DEFINE old == Normalized(of, t)
             new == Normalized(of, Append(t, r))
             status == StatusAt(of, t, r)
             made == Made(old, r, status)
             u == Append(t, r)
  <2>1. t \in Seq(CaptureRecord) /\ u \in Seq(CaptureRecord)
    OBVIOUS
  <2>2. (Fits(t) => Followed(of, t))
    OBVIOUS
  <2> SUFFICES ASSUME Fits(u)
               PROVE  Followed(of, u)
    BY <2>1
  <2>3. /\ old \in Reading /\ new \in Reading /\ status \in SequenceStatus
        /\ new.next = IF status = "Accepted" THEN old.next + Len(r.changes) ELSE old.next
        /\ new.events = old.events \o made
        /\ made \in Seq(Event) /\ Len(made) = Added(of, t, r)
        /\ \A i \in 1 .. Added(of, t, r) : made[i] = EventAdded(of, t, r, i)
    BY <2>1, NextRecord
  <2>4. /\ old.next \in Nat \ {0} /\ old.events \in Seq(Event) /\ new.next \in Nat \ {0}
        /\ new.events \in Seq(Event)
        /\ r.changes \in Seq(Changes) /\ Len(r.changes) \in Nat
    BY <2>3 DEF Reading, CaptureRecord
  <2>5. /\ \A i : /\ EventAdded(of, t, r, i).status = status
                  /\ EventAdded(of, t, r, i).change = r.changes[i]
                  /\ EventAdded(of, t, r, i).number =
                       IF status = "Accepted" THEN old.next + i - 1
                       ELSE NormalizedSequence(status, old.next)
        /\ Added(of, t, r) = IF status = "Accepted" THEN Len(r.changes) ELSE 1
    BY DEF EventAdded, Added
  <2>6. Placed(of, t)
    BY <2>1, EventsAreArranged DEF Arranged
  <2>7. \A i \in DOMAIN old.events : i \in DOMAIN new.events /\ new.events[i] = old.events[i]
    <3>1. \A a, b \in Seq(Event) : \A i \in DOMAIN a : i \in DOMAIN (a \o b) /\ (a \o b)[i] = a[i]
      OBVIOUS
    <3> HIDE DEF old, new, made
    <3> QED BY <2>3, <2>4, <3>1
  <2>8. AcceptedFirst(of, t)
    <3> SUFFICES ASSUME old.events # << >>
                 PROVE  old.events[1].status = "Accepted"
      BY DEF AcceptedFirst
    <3>1. 1 \in DOMAIN old.events
      BY <2>4
    <3>2. new.events[1] = old.events[1] /\ 1 \in DOMAIN new.events
      BY <2>7, <3>1
    <3>3. new.events # << >>
      <4> HIDE DEF new
      <4> QED BY <2>4, <3>2
    <3>4. AcceptedFirst(of, u)
      OBVIOUS
    <3> QED BY <3>2, <3>3, <3>4 DEF AcceptedFirst
  <2>9. old.next - 1 <= MaxSequence /\ new.next - 1 <= MaxSequence
    <3>1. new.next - 1 <= MaxSequence /\ MaxSequence \in Int
      BY MaxSequenceAssumption
    <3> HIDE DEF old, new, status
    <3>2. new.next >= old.next
      <4>1. \A a, n \in Nat : a + n >= a /\ a >= a
        OBVIOUS
      <4>2. old.next \in Nat /\ Len(r.changes) \in Nat
        BY <2>4
      <4>3. CASE status = "Accepted"
        <5>1. new.next = old.next + Len(r.changes)
          BY <2>3, <4>3
        <5> QED BY <4>1, <4>2, <5>1
      <4>4. CASE status # "Accepted"
        <5>1. new.next = old.next
          BY <2>3, <4>4
        <5> QED BY <4>1, <4>2, <5>1
      <4> QED BY <4>3, <4>4
    <3> QED BY <2>4, <3>1, <3>2
  <2>10. Followed(of, t)
    BY <2>2, <2>8, <2>9
  <2>11. /\ ReplayOf(old.events).disputed = {} /\ ReplayOf(old.events).last = LastBefore(old.next)
         /\ AllAccepted(of, t) => Shows(ReplayOf(old.events), BookAfter(EmptyBook, t))
    BY <2>10 DEF Followed
  <2>12. /\ BookAfter(EmptyBook, u) = ApplyChanges(BookAfter(EmptyBook, t), r.changes)
         /\ BookAfter(EmptyBook, t) \in Books
    BY <2>1, EmptyBookType, BookAfterStep
  <2>13. AllAccepted(of, u) => AllAccepted(of, t)
    BY <2>7 DEF AllAccepted
  <2>14. CASE status = "Accepted"
    <3>1. Len(made) = Len(r.changes) /\ DOMAIN made = 1 .. Len(r.changes)
      BY <2>3, <2>5, <2>14
    <3>2. \A i \in DOMAIN made : /\ made[i].status = "Accepted" /\ made[i].number = old.next + i - 1
                                 /\ made[i].change = r.changes[i]
      <4> HIDE DEF old, status, made
      <4> QED BY <2>3, <2>5, <2>14, <3>1
    <3>3. Consecutive(made, old.next)
      BY <3>2 DEF Consecutive
    <3>4. ChangesFrom(made) = r.changes
      <4>1. ChangesFrom(made) = [i \in 1 .. Len(r.changes) |-> made[i].change]
        BY <3>1 DEF ChangesFrom
      <4>2. r.changes = [i \in 1 .. Len(r.changes) |-> r.changes[i]]
        <5>1. \A list \in Seq(Changes) : list = [i \in 1 .. Len(list) |-> list[i]]
          OBVIOUS
        <5> QED BY <2>4, <5>1
      <4> HIDE DEF made
      <4> QED BY <3>1, <3>2, <4>1, <4>2
    <3>5. new.next = old.next + Len(made)
      <4> HIDE DEF old, new, status, made
      <4> QED BY <2>3, <2>14, <3>1
    <3>6. old.next - 1 + Len(made) <= MaxSequence
      <4> HIDE DEF old, new, status, made
      <4>1. Len(made) \in Int
        BY <2>4, <3>1
      <4> QED BY <2>4, <2>9, <3>5, <4>1
    <3>7. Taken(ReplayOf(old.events), ReplayOf(old.events \o made), made, old.next)
      <4> HIDE DEF old, made
      <4> QED BY <2>3, <2>4, <2>11, <3>3, <3>6, ReplayTakesAll
    <3>8. /\ \A b \in Books : Shows(ReplayOf(old.events), b) =>
               Shows(ReplayOf(new.events), ApplyChanges(b, r.changes))
          /\ ReplayOf(new.events).last = LastBefore(new.next)
          /\ ReplayOf(new.events).disputed = ReplayOf(old.events).disputed
      <4> HIDE DEF old, new, made
      <4> QED BY <2>3, <3>4, <3>5, <3>7 DEF Taken
    <3> HIDE DEF u
    <3>9. AllAccepted(of, u) => Shows(ReplayOf(new.events), BookAfter(EmptyBook, u))
      BY <2>11, <2>12, <2>13, <3>8
    <3>10. ReplayOf(new.events).disputed = {}
      BY <2>11, <3>8
    <3> QED BY <3>8, <3>9, <3>10 DEF Followed, u
  <2>15. CASE status # "Accepted"
    <3> DEFINE e == EventAdded(of, t, r, 1)
    <3>1. Len(made) = 1 /\ made[1] = e
      <4>1. Added(of, t, r) = 1
        BY <2>5, <2>15
      <4> HIDE DEF made
      <4> QED BY <2>3, <4>1
    <3>2. /\ e.status = status /\ e.number = NormalizedSequence(e.status, old.next)
      BY <2>5, <2>15
    <3> HIDE DEF e
    <3>3. e \in Event /\ new.events = Append(old.events, e)
      <4> HIDE DEF made, old, new
      <4>1. made[1] \in Event
        <5>1. made \in Seq(Event) /\ 1 \in 1 .. Len(made)
          BY <2>3, <3>1
        <5> QED BY <5>1
      <4> QED BY <2>3, <2>4, <3>1, <4>1, JoinedOne
    <3>4. old.events # << >>
      <4> SUFFICES ASSUME old.events = << >>
                   PROVE  FALSE
        OBVIOUS
      <4>1. new.events = << e >>
        <5> HIDE DEF old, new
        <5> QED BY <3>3
      <4>2. new.events # << >> /\ new.events[1] = e
        <5> HIDE DEF new
        <5> QED BY <4>1
      <4>3. AcceptedFirst(of, u)
        OBVIOUS
      <4> QED BY <2>15, <3>2, <4>2, <4>3 DEF AcceptedFirst
    <3>5. old.next \in Nat \ {0, 1}
      <4>1. 1 \in DOMAIN old.events /\ old.events[1] \in Event
        <5> HIDE DEF old
        <5> QED BY <2>4, <3>4
      <4>2. old.events[1].status = "Accepted"
        BY <2>8, <3>4 DEF AcceptedFirst
      <4>3. old.events[1].number >= 1 /\ old.events[1].number < old.next
        BY <2>6, <4>1, <4>2 DEF Placed
      <4>4. old.events[1].number \in Int
        BY <4>1 DEF Event
      <4> HIDE DEF old
      <4> QED BY <2>4, <4>3, <4>4
    <3>6. ReplayOf(old.events) \in ReplayState /\ ReplayOf(new.events) = Replayed(ReplayOf(old.events), e)
      <4> HIDE DEF old, new
      <4> QED BY <2>4, <3>3, ReplayStep
    <3>7. /\ Replayed(ReplayOf(old.events), e).last = ReplayOf(old.events).last
          /\ Replayed(ReplayOf(old.events), e).disputed = ReplayOf(old.events).disputed
      <4> DEFINE state == ReplayOf(old.events)
      <4>1. state \in ReplayState /\ state.last = LastBefore(old.next)
        BY <2>11, <3>6
      <4> HIDE DEF old, state, status
      <4>2. e.status # "Accepted"
        BY <2>15, <3>2
      <4>3. Replayed(state, e).last = state.last /\ Replayed(state, e).disputed = state.disputed
        BY <3>2, <3>3, <3>5, <4>1, <4>2, ReplayRefuses
      <4> QED BY <4>3 DEF state
    <3>8. ~ AllAccepted(of, u)
      <4>1. Len(old.events) + 1 \in DOMAIN new.events /\ new.events[Len(old.events) + 1] = e
        <5> HIDE DEF old, new
        <5> QED BY <2>4, <3>3
      <4>2. e.status # "Accepted"
        BY <2>15, <3>2
      <4> QED BY <4>1, <4>2 DEF AllAccepted
    <3>9. new.next = old.next
      BY <2>3, <2>15
    <3> HIDE DEF old
    <3> QED BY <2>11, <3>6, <3>7, <3>8, <3>9 DEF Followed
  <2> QED BY <2>14, <2>15
<1>3. T = Seq(CaptureRecord)
  <2>1. T \in SUBSET Seq(CaptureRecord)
    OBVIOUS
  <2> HIDE DEF T
  <2> QED BY <2>1, <1>1, <1>2, ListsByAppend
<1>4. Fits(s) => Followed(of, s)
  BY <1>3
<1> QED BY <1>4

-------------------------------------------------------------------------------
(* Records that follow others. *)

LEMMA MoreOf == ASSUME NEW A, NEW B, A \subseteq B PROVE Seq(A) \subseteq Seq(B)
<1> SUFFICES ASSUME NEW s \in Seq(A)
             PROVE  s \in Seq(B)
  OBVIOUS
<1>1. Len(s) \in Nat /\ s = [i \in 1 .. Len(s) |-> s[i]] /\ \A i \in 1 .. Len(s) : s[i] \in A
  OBVIOUS
<1> QED BY <1>1

(* The prices of some records, and of one more. *)
LEMMA PricesOfRecords ==
  ASSUME NEW s \in Seq(CaptureRecord), NEW r \in CaptureRecord
  PROVE  /\ PricesOf(<< >>) = {}
         /\ PricesOf(<< r >>) = PricesIn(r.changes)
         /\ PricesOf(Append(s, r)) = PricesOf(s) \cup PricesIn(r.changes)
<1> DEFINE Named(p, t) == \E i \in DOMAIN t : \E j \in DOMAIN t[i].changes : p = t[i].changes[j].price
<1>1. \A t : \A p : p \in PricesOf(t) <=> Named(p, t)
  BY DEF PricesOf, Range
<1>2. \A p : p \in PricesIn(r.changes) <=> \E j \in DOMAIN r.changes : p = r.changes[j].price
  BY DEF PricesIn
<1>3. PricesOf(<< >>) = {}
  <2>1. DOMAIN << >> = {}
    OBVIOUS
  <2> QED BY <1>1, <2>1
<1>4. PricesOf(<< r >>) = PricesIn(r.changes)
  <2>1. DOMAIN << r >> = {1} /\ << r >>[1] = r
    OBVIOUS
  <2>2. \A p : Named(p, << r >>) <=> p \in PricesIn(r.changes)
    BY <1>2, <2>1
  <2> HIDE DEF Named
  <2> QED BY <1>1, <2>2
<1>5. PricesOf(Append(s, r)) = PricesOf(s) \cup PricesIn(r.changes)
  <2> DEFINE u == Append(s, r)
             n == Len(s)
  <2>1. /\ DOMAIN u = DOMAIN s \cup {n + 1} /\ u[n + 1] = r
        /\ \A i \in DOMAIN s : u[i] = s[i]
    OBVIOUS
  <2> HIDE DEF u, n
  <2>2. \A p : Named(p, u) <=> Named(p, s) \/ p \in PricesIn(r.changes)
    BY <1>2, <2>1
  <2> HIDE DEF Named
  <2>3. \A p : p \in PricesOf(u) <=> p \in PricesOf(s) \cup PricesIn(r.changes)
    BY <1>1, <2>2
  <2> QED BY <2>3 DEF u
<1> QED BY <1>3, <1>4, <1>5

(* Changes give their prices what they do of any book, and leave the other prices alone. *)
Gives(before, after, other, prices) ==
  \A p \in Prices : IF p \in prices THEN after[p] = other[p] ELSE after[p] = before[p]

LEMMA ChangesGive ==
  ASSUME NEW a \in Books, NEW b \in Books, NEW s \in Seq(Changes)
  PROVE  Gives(a, ApplyChanges(a, s), ApplyChanges(b, s), PricesIn(s))
<1> DEFINE Fits(t) == Gives(a, ApplyChanges(a, t), ApplyChanges(b, t), PricesIn(t))
           T == {t \in Seq(Changes) : Fits(t)}
<1>1. << >> \in T
  <2>1. ApplyChanges(a, << >>) = a
    BY ApplyChangesStep
  <2> QED BY <2>1, NoChanges DEF Gives
<1>2. ASSUME NEW t \in T, NEW e \in Changes
      PROVE  Append(t, e) \in T
  <2>1. t \in Seq(Changes) /\ Fits(t) /\ Append(t, e) \in Seq(Changes)
    OBVIOUS
  <2>2. ApplyChanges(a, t) \in Books /\ ApplyChanges(b, t) \in Books
    BY <2>1, ApplyChangesStep
  <2>3. /\ ApplyChanges(a, Append(t, e)) = ApplyChange(ApplyChanges(a, t), e)
        /\ ApplyChanges(b, Append(t, e)) = ApplyChange(ApplyChanges(b, t), e)
    BY <2>1, ApplyChangesStep
  <2>4. PricesIn(Append(t, e)) = PricesIn(t) \cup {e.price}
    BY <2>1, MoreChanges
  <2>5. \A c \in Books : \A p \in Prices :
          ApplyChange(c, e)[p] = IF p = e.price THEN e.quantity ELSE c[p]
    BY DEF ApplyChange, Books
  <2>6. Fits(Append(t, e))
    BY <2>1, <2>2, <2>3, <2>4, <2>5 DEF Gives
  <2> QED BY <2>1, <2>6
<1>3. T = Seq(Changes)
  <2>1. T \in SUBSET Seq(Changes)
    OBVIOUS
  <2> HIDE DEF T
  <2> QED BY <2>1, <1>1, <1>2, ListsByAppend
<1>4. Fits(s)
  BY <1>3
<1> QED BY <1>4

(* So do those of records. *)
LEMMA RecordsGive ==
  ASSUME NEW a \in Books, NEW b \in Books, NEW s \in Seq(CaptureRecord)
  PROVE  Gives(a, BookAfter(a, s), BookAfter(b, s), PricesOf(s))
<1> DEFINE Fits(t) == Gives(a, BookAfter(a, t), BookAfter(b, t), PricesOf(t))
           T == {t \in Seq(CaptureRecord) : Fits(t)}
<1>1. << >> \in T
  <2>1. BookAfter(a, << >>) = a
    BY BookAfterStep
  <2>2. PricesOf(<< >>) = {}
    <3>1. DOMAIN << >> = {}
      OBVIOUS
    <3> QED BY <3>1 DEF PricesOf, Range
  <2>3. << >> \in Seq(CaptureRecord)
    OBVIOUS
  <2> QED BY <2>1, <2>2, <2>3 DEF Gives
<1>2. ASSUME NEW t \in T, NEW r \in CaptureRecord
      PROVE  Append(t, r) \in T
  <2>1. t \in Seq(CaptureRecord) /\ Fits(t) /\ Append(t, r) \in Seq(CaptureRecord)
    OBVIOUS
  <2>2. BookAfter(a, t) \in Books /\ BookAfter(b, t) \in Books /\ r.changes \in Seq(Changes)
    BY <2>1, BookAfterStep DEF CaptureRecord
  <2>3. /\ BookAfter(a, Append(t, r)) = ApplyChanges(BookAfter(a, t), r.changes)
        /\ BookAfter(b, Append(t, r)) = ApplyChanges(BookAfter(b, t), r.changes)
    BY <2>1, BookAfterStep
  <2>4. PricesOf(Append(t, r)) = PricesOf(t) \cup PricesIn(r.changes)
    BY <2>1, PricesOfRecords
  <2>5. Gives(BookAfter(a, t), ApplyChanges(BookAfter(a, t), r.changes),
              ApplyChanges(BookAfter(b, t), r.changes), PricesIn(r.changes))
    BY <2>2, ChangesGive
  <2>6. Gives(BookAfter(b, t), ApplyChanges(BookAfter(b, t), r.changes),
              ApplyChanges(BookAfter(a, t), r.changes), PricesIn(r.changes))
    BY <2>2, ChangesGive
  <2>7. Fits(Append(t, r))
    BY <2>1, <2>3, <2>4, <2>5, <2>6 DEF Gives
  <2> QED BY <2>1, <2>7
<1>3. T = Seq(CaptureRecord)
  <2>1. T \in SUBSET Seq(CaptureRecord)
    OBVIOUS
  <2> HIDE DEF T
  <2> QED BY <2>1, <1>1, <1>2, ListsByAppend
<1>4. Fits(s)
  BY <1>3
<1> QED BY <1>4

LEMMA JoinedAppend ==
  ASSUME NEW S, NEW s \in Seq(S), NEW t \in Seq(S), NEW e \in S
  PROVE  /\ s \o << >> = s /\ s \o t \in Seq(S)
         /\ s \o Append(t, e) = Append(s \o t, e)
         /\ s \o << e >> = Append(s, e)
         /\ << e >> \o << >> = << e >> /\ << e >> = Append(<< >>, e) /\ << e >> \in Seq(S)
OBVIOUS

(* The changes of some records and then of others. *)
LEMMA JoinedBook ==
  ASSUME NEW b \in Books, NEW s \in Seq(CaptureRecord), NEW t \in Seq(CaptureRecord)
  PROVE  BookAfter(b, s \o t) = BookAfter(BookAfter(b, s), t)
<1> DEFINE Fits(u) == BookAfter(b, s \o u) = BookAfter(BookAfter(b, s), u)
           T == {u \in Seq(CaptureRecord) : Fits(u)}
<1>1. BookAfter(b, s) \in Books
  BY BookAfterStep
<1>2. << >> \in T
  <2>1. s \o << >> = s /\ << >> \in Seq(CaptureRecord)
    OBVIOUS
  <2>2. BookAfter(BookAfter(b, s), << >>) = BookAfter(b, s)
    BY <1>1, BookAfterStep
  <2> QED BY <2>1, <2>2
<1>3. ASSUME NEW u \in T, NEW r \in CaptureRecord
      PROVE  Append(u, r) \in T
  <2>1. u \in Seq(CaptureRecord) /\ Fits(u) /\ Append(u, r) \in Seq(CaptureRecord)
    OBVIOUS
  <2>2. s \o Append(u, r) = Append(s \o u, r) /\ s \o u \in Seq(CaptureRecord)
    BY <2>1, JoinedAppend
  <2>3. BookAfter(b, Append(s \o u, r)) = ApplyChanges(BookAfter(b, s \o u), r.changes)
    BY <2>2, BookAfterStep
  <2>4. BookAfter(BookAfter(b, s), Append(u, r)) = ApplyChanges(BookAfter(BookAfter(b, s), u), r.changes)
    BY <1>1, <2>1, BookAfterStep
  <2>5. Fits(Append(u, r))
    BY <2>1, <2>2, <2>3, <2>4
  <2> QED BY <2>1, <2>5
<1>4. T = Seq(CaptureRecord)
  <2>1. T \in SUBSET Seq(CaptureRecord)
    OBVIOUS
  <2> HIDE DEF T
  <2> QED BY <2>1, <1>2, <1>3, ListsByAppend
<1>5. Fits(t)
  BY <1>4
<1> QED BY <1>5

(* One more record that is accepted leaves all events accepted. *)
LEMMA OneMoreAccepted ==
  ASSUME NEW of, NEW s \in Seq(CaptureRecord), NEW r \in CaptureRecord,
         AllAccepted(of, s), StatusAt(of, s, r) = "Accepted"
  PROVE  /\ AllAccepted(of, Append(s, r))
         /\ ~ Unread(r) => Normalized(of, Append(s, r)).source = r.id
<1>1. ~ Unread(r) => Normalized(of, Append(s, r)).source = r.id
  BY NextRecord DEF ReadsTo
<1>2. ASSUME NEW i \in DOMAIN Normalized(of, Append(s, r)).events
      PROVE  Normalized(of, Append(s, r)).events[i].status = "Accepted"
  <2>1. CASE /\ i \in DOMAIN Normalized(of, s).events
             /\ Normalized(of, Append(s, r)).events[i] = Normalized(of, s).events[i]
    BY <2>1 DEF AllAccepted
  <2>2. CASE Normalized(of, Append(s, r)).events[i] =
               EventAdded(of, s, r, i - Len(Normalized(of, s).events))
    BY <2>2 DEF EventAdded
  <2> QED BY <2>1, <2>2, NextEvents
<1>3. AllAccepted(of, Append(s, r))
  BY <1>2 DEF AllAccepted
<1> QED BY <1>1, <1>3

(* Messages numbered from the one after id. *)
NumberedAfter(messages, id) ==
  \A i \in DOMAIN messages : messages[i].kind = "depth" /\ messages[i].id = id + i

(* What they leave of a file of Binance whose last update is id. *)
Continued(of, s, t, id) ==
  /\ (AllAccepted(of, s) /\ Normalized(of, s).source = id /\ UnreadIn(t) = {}) =>
       Normalized(of, s \o t).source = id + Len(t) /\ AllAccepted(of, s \o t)
  /\ ReportOf(of, s \o t).book = BookAfter(ReportOf(of, s).book, t)

(* They are accepted, if the adapter reads them all, and the report applies their changes. *)
LEMMA MessagesContinue ==
  ASSUME NEW of, of # "Kraken", NEW s \in Seq(CaptureRecord), NEW id \in SourceNumbers,
         NEW messages \in Seq(CaptureRecord), NumberedAfter(messages, id)
  PROVE  Continued(of, s, messages, id)
<1> DEFINE T == {t \in Seq(CaptureRecord) : NumberedAfter(t, id) => Continued(of, s, t, id)}
<1>0. id \in Nat /\ ReportOf(of, s) \in ReportState /\ ReportOf(of, s).book \in Books
  <2>1. ReportOf(of, s) \in ReportState
    BY ReportStep
  <2>2. id \in Nat
    BY MaxSourceAssumption DEF SourceNumbers
  <2> QED BY <2>1, <2>2 DEF ReportState
<1>1. << >> \in T
  <2>1. s \o << >> = s /\ Len(<< >>) = 0 /\ << >> \in Seq(CaptureRecord) /\ id + 0 = id
    BY <1>0
  <2>2. BookAfter(ReportOf(of, s).book, << >>) = ReportOf(of, s).book
    BY <1>0, BookAfterStep
  <2>3. Continued(of, s, << >>, id)
    <3>1. Normalized(of, s).source = id => Normalized(of, s \o << >>).source = id + Len(<< >>)
      BY <2>1
    <3>2. AllAccepted(of, s) => AllAccepted(of, s \o << >>)
      BY <2>1
    <3> QED BY <2>1, <2>2, <3>1, <3>2 DEF Continued
  <2> QED BY <2>1, <2>3
<1>2. ASSUME NEW t \in T, NEW r \in CaptureRecord
      PROVE  Append(t, r) \in T
  <2> DEFINE n == Len(t)
             u == Append(t, r)
  <2>1. /\ t \in Seq(CaptureRecord) /\ u \in Seq(CaptureRecord) /\ n \in Nat /\ Len(u) = n + 1
        /\ DOMAIN u = 1 .. n + 1 /\ DOMAIN t = 1 .. n
        /\ u[n + 1] = r /\ \A i \in 1 .. n : u[i] = t[i]
    OBVIOUS
  <2>2. NumberedAfter(t, id) => Continued(of, s, t, id)
    OBVIOUS
  <2> SUFFICES ASSUME NumberedAfter(u, id)
               PROVE  Continued(of, s, u, id)
    BY <2>1
  <2>3. r.kind = "depth" /\ r.id = id + (n + 1)
    <3>1. n + 1 \in DOMAIN u
      BY <2>1
    <3> HIDE DEF u, n
    <3> QED BY <2>1, <3>1 DEF NumberedAfter
  <2>4. NumberedAfter(t, id)
    <3>1. \A i \in 1 .. n : i \in 1 .. n + 1
      BY <2>1
    <3> HIDE DEF u, n
    <3> QED BY <2>1, <3>1 DEF NumberedAfter
  <2>5. Continued(of, s, t, id)
    BY <2>2, <2>4
  <2>6. s \o u = Append(s \o t, r) /\ s \o t \in Seq(CaptureRecord)
    BY <2>1, JoinedAppend
  <2> DEFINE before == s \o t
  <2>7. ReportOf(of, before).book = BookAfter(ReportOf(of, s).book, t)
    BY <2>5 DEF Continued
  <2>8. UnreadIn(u) = {} => UnreadIn(t) = {} /\ ~ Unread(r)
    BY <2>1, UnreadStep
  <2> HIDE DEF before, u, n
  <2>9. ASSUME AllAccepted(of, s), Normalized(of, s).source = id, UnreadIn(u) = {}
        PROVE  AllAccepted(of, Append(before, r)) /\ Normalized(of, Append(before, r)).source = r.id
    <3>0. Normalized(of, before).source = id + n /\ AllAccepted(of, before)
      BY <2>5, <2>8, <2>9 DEF Continued, before, n
    <3>1. Normalized(of, before) \in Reading /\ before \in Seq(CaptureRecord)
      BY <2>6, NormalizedStep DEF before
    <3>2. Normalized(of, before).source \in SourceNumbers \cup {None}
      BY <3>1 DEF Reading
    <3>3. r.id = Normalized(of, before).source + 1
      BY <1>0, <2>1, <2>3, <3>0
    <3>4. StatusOf(of, Normalized(of, before), r) = "Accepted"
      BY <3>2, <3>3, StatusIs
    <3>5. StatusAt(of, before, r) = "Accepted"
      BY <3>4 DEF StatusAt
    <3> QED BY <2>8, <2>9, <3>0, <3>1, <3>5, OneMoreAccepted
  <2>10. ReportOf(of, Append(before, r)).book = ApplyChanges(ReportOf(of, before).book, r.changes)
    <3>1. ReportOf(of, before) \in ReportState
          /\ ReportOf(of, Append(before, r)) = Observed(of, ReportOf(of, before), r)
      BY <2>6, ReportStep DEF before
    <3>2. Base(ReportOf(of, before).book, r) = ReportOf(of, before).book
      BY <2>3 DEF Base
    <3>3. ApplyChanges(ReportOf(of, before).book, r.changes) \in Books
      BY <3>1, <3>2, ObservedType
    <3>4. InScope(of, ApplyChanges(ReportOf(of, before).book, r.changes)) =
            ApplyChanges(ReportOf(of, before).book, r.changes)
      BY <3>3, InScopeType
    <3> QED BY <3>1, <3>2, <3>4 DEF Observed
  <2>11. BookAfter(ReportOf(of, s).book, u) = ApplyChanges(BookAfter(ReportOf(of, s).book, t), r.changes)
    BY <1>0, <2>1, BookAfterStep DEF u
  <2>12. id + Len(u) = r.id
    BY <2>1, <2>3
  <2> QED BY <2>6, <2>7, <2>9, <2>10, <2>11, <2>12 DEF Continued, before
<1>3. T = Seq(CaptureRecord)
  <2>1. T \in SUBSET Seq(CaptureRecord)
    OBVIOUS
  <2> HIDE DEF T
  <2> QED BY <2>1, <1>1, <1>2, ListsByAppend
<1>4. NumberedAfter(messages, id) => Continued(of, s, messages, id)
  BY <1>3
<1> QED BY <1>4

(* Lists that are read one after the other. *)
LEMMA UnreadJoined ==
  ASSUME NEW s \in Seq(CaptureRecord), NEW t \in Seq(CaptureRecord), UnreadIn(s \o t) = {}
  PROVE  UnreadIn(s) = {} /\ UnreadIn(t) = {}
<1>1. \A a, b \in Seq(CaptureRecord) :
        /\ \A i \in DOMAIN a : i \in DOMAIN (a \o b) /\ (a \o b)[i] = a[i]
        /\ \A i \in DOMAIN b : Len(a) + i \in DOMAIN (a \o b) /\ (a \o b)[Len(a) + i] = b[i]
  <2> TAKE a \in Seq(CaptureRecord), b \in Seq(CaptureRecord)
  <2>1. /\ Len(a) \in Nat /\ Len(b) \in Nat /\ DOMAIN a = 1 .. Len(a) /\ DOMAIN b = 1 .. Len(b)
        /\ DOMAIN (a \o b) = 1 .. Len(a) + Len(b)
    OBVIOUS
  <2>2. \A i \in 1 .. Len(a) : (a \o b)[i] = a[i]
    OBVIOUS
  <2>3. \A i \in 1 .. Len(b) : (a \o b)[Len(a) + i] = b[i]
    OBVIOUS
  <2>4. \A i \in 1 .. Len(a) : i \in 1 .. Len(a) + Len(b)
    BY <2>1
  <2>5. \A i \in 1 .. Len(b) : Len(a) + i \in 1 .. Len(a) + Len(b)
    BY <2>1
  <2> QED BY <2>1, <2>2, <2>3, <2>4, <2>5
<1> DEFINE joined == s \o t
<1>2. \A i \in DOMAIN joined : ~ Unread(joined[i])
  BY DEF UnreadIn
<1>3. /\ \A i \in DOMAIN s : i \in DOMAIN joined /\ joined[i] = s[i]
      /\ \A i \in DOMAIN t : Len(s) + i \in DOMAIN joined /\ joined[Len(s) + i] = t[i]
  BY <1>1
<1> HIDE DEF joined
<1>4. (\A i \in DOMAIN s : ~ Unread(s[i])) /\ (\A i \in DOMAIN t : ~ Unread(t[i]))
  BY <1>2, <1>3
<1> QED BY <1>4 DEF UnreadIn

(* Each message after all those before it. *)
Upward(s) == \A i, j \in DOMAIN s : i < j => s[i].id < s[j].id

(* One more record, that is a snapshot or after all. *)
LEMMA RisesByOne ==
  ASSUME NEW s \in Seq(CaptureRecord), NEW r \in CaptureRecord
  PROVE  /\ (Rising(s) /\ (r.kind = "snapshot" \/ \A i \in DOMAIN s : s[i].id < r.id)) =>
              Rising(Append(s, r))
         /\ (Upward(s) /\ \A i \in DOMAIN s : s[i].id < r.id) => Upward(Append(s, r))
<1> DEFINE n == Len(s)
           u == Append(s, r)
<1>1. /\ n \in Nat /\ DOMAIN s = 1 .. n /\ DOMAIN u = 1 .. n + 1
      /\ \A i \in 1 .. n : u[i] = s[i]
      /\ u[n + 1] = r
  OBVIOUS
<1> HIDE DEF n, u
<1>2. \A i \in 1 .. n + 1 : i \in 1 .. n \/ i = n + 1
  BY <1>1
<1>3. /\ \A i \in 1 .. n : i > 1 => i - 1 \in 1 .. n
      /\ n + 1 > 1 => (n + 1) - 1 \in 1 .. n
      /\ \A i, j \in 1 .. n + 1 : i < j => i \in 1 .. n
  BY <1>1
<1>4. ASSUME Rising(s), r.kind = "snapshot" \/ \A i \in DOMAIN s : s[i].id < r.id
      PROVE  Rising(u)
  <2> SUFFICES ASSUME NEW i \in DOMAIN u, i > 1, u[i].kind = "depth", u[i - 1].kind = "depth"
               PROVE  u[i - 1].id < u[i].id
    BY DEF Rising
  <2>1. CASE i \in 1 .. n
    BY <1>1, <1>3, <1>4, <2>1 DEF Rising
  <2>2. CASE i = n + 1
    <3>1. u[i] = r /\ i - 1 \in 1 .. n /\ u[i - 1] = s[i - 1]
      BY <1>1, <1>3, <2>2
    <3> QED BY <1>1, <1>4, <3>1
  <2> QED BY <1>1, <1>2, <2>1, <2>2
<1>5. ASSUME Upward(s), \A i \in DOMAIN s : s[i].id < r.id
      PROVE  Upward(u)
  <2> SUFFICES ASSUME NEW i \in DOMAIN u, NEW j \in DOMAIN u, i < j
               PROVE  u[i].id < u[j].id
    BY DEF Upward
  <2>1. i \in 1 .. n /\ (j \in 1 .. n \/ j = n + 1)
    BY <1>1, <1>2, <1>3
  <2> QED BY <1>1, <1>5, <2>1 DEF Upward
<1> QED BY <1>4, <1>5 DEF u

(* Messages in order that follow a snapshot. *)
LEMMA RisesOn ==
  ASSUME NEW s \in Seq(CaptureRecord), Rising(s), s # << >>, s[Len(s)].kind = "snapshot",
         NEW t \in Seq(CaptureRecord), Upward(t)
  PROVE  Rising(s \o t)
<1> DEFINE m == Len(s)
           n == Len(t)
           u == s \o t
<1>1. /\ m \in Nat /\ n \in Nat /\ DOMAIN s = 1 .. m /\ DOMAIN t = 1 .. n /\ DOMAIN u = 1 .. m + n
      /\ \A i \in 1 .. m : u[i] = s[i]
      /\ \A i \in 1 .. n : u[m + i] = t[i]
  <2>1. \A a, b \in Seq(CaptureRecord) : \A i \in 1 .. Len(b) : (a \o b)[Len(a) + i] = b[i]
    OBVIOUS
  <2>2. \A a, b \in Seq(CaptureRecord) : \A i \in 1 .. Len(a) : (a \o b)[i] = a[i]
    OBVIOUS
  <2>3. \A a, b \in Seq(CaptureRecord) :
          DOMAIN (a \o b) = 1 .. Len(a) + Len(b) /\ Len(a) \in Nat /\ DOMAIN a = 1 .. Len(a)
    OBVIOUS
  <2> QED BY <2>1, <2>2, <2>3
<1>2. s[m].kind # "depth"
  OBVIOUS
<1> HIDE DEF m, n, u
<1> SUFFICES ASSUME NEW i \in DOMAIN u, i > 1, u[i].kind = "depth", u[i - 1].kind = "depth"
             PROVE  u[i - 1].id < u[i].id
  BY DEF Rising, u
<1>3. CASE i <= m
  <2>1. i \in 1 .. m /\ i - 1 \in 1 .. m
    BY <1>1, <1>3
  <2> QED BY <1>1, <2>1 DEF Rising
<1>4. CASE i = m + 1
  <2>1. i - 1 = m /\ m \in 1 .. m
    BY <1>1, <1>4
  <2> QED BY <1>1, <1>2, <2>1
<1>5. CASE i > m + 1
  <2>1. /\ i - m \in 1 .. n /\ (i - m) - 1 \in 1 .. n /\ m + (i - m) = i
        /\ m + ((i - m) - 1) = i - 1 /\ (i - m) - 1 < i - m
    <3>1. i \in Int /\ i <= m + n /\ m \in Int /\ n \in Int
      BY <1>1
    <3>2. \A x, y, z \in Int : (x > y + 1 /\ x <= y + z) =>
            /\ x - y \in 1 .. z /\ (x - y) - 1 \in 1 .. z /\ y + (x - y) = x
            /\ y + ((x - y) - 1) = x - 1 /\ (x - y) - 1 < x - y
      OBVIOUS
    <3> QED BY <1>5, <3>1, <3>2
  <2>2. u[i] = t[i - m] /\ u[i - 1] = t[(i - m) - 1]
    BY <1>1, <2>1
  <2> QED BY <1>1, <2>1, <2>2 DEF Upward
<1>6. i \in Int /\ m \in Int
  BY <1>1
<1> QED BY <1>3, <1>4, <1>5, <1>6

(* The messages that are kept are among those there were, and after the snapshot. *)
LEMMA KeptAreBuffered ==
  ASSUME NEW s \in Seq(CaptureRecord), NEW id
  PROVE  /\ Len(KeptAfter(s, id)) <= Len(s)
         /\ \A i \in DOMAIN KeptAfter(s, id) :
              KeptAfter(s, id)[i] \in Range(s) /\ KeptAfter(s, id)[i].id > id
<1> DEFINE Fits(t) == /\ Len(KeptAfter(t, id)) <= Len(t)
                      /\ \A i \in DOMAIN KeptAfter(t, id) :
                           KeptAfter(t, id)[i] \in Range(t) /\ KeptAfter(t, id)[i].id > id
           T == {t \in Seq(CaptureRecord) : Fits(t)}
<1>1. << >> \in T
  <2>1. KeptAfter(<< >>, id) = << >> /\ << >> \in Seq(CaptureRecord) /\ DOMAIN << >> = {}
    BY KeptAfterStep
  <2> QED BY <2>1
<1>2. ASSUME NEW t \in T, NEW r \in CaptureRecord
      PROVE  Append(t, r) \in T
  <2> DEFINE old == KeptAfter(t, id)
             new == KeptAfter(Append(t, r), id)
             u == Append(t, r)
  <2>1. /\ t \in Seq(CaptureRecord) /\ u \in Seq(CaptureRecord) /\ Len(u) = Len(t) + 1 /\ Len(t) \in Nat
        /\ Len(old) <= Len(t)
        /\ \A i \in DOMAIN old : old[i] \in Range(t) /\ old[i].id > id
    OBVIOUS
  <2>2. Range(u) = Range(t) \cup {r}
    <3>1. DOMAIN u = DOMAIN t \cup {Len(t) + 1} /\ u[Len(t) + 1] = r /\ \A i \in DOMAIN t : u[i] = t[i]
      BY <2>1
    <3> HIDE DEF u
    <3> QED BY <3>1 DEF Range
  <2>3. old \in Seq(CaptureRecord) /\ new = IF r.id > id THEN Append(old, r) ELSE old
    BY <2>1, KeptAfterStep DEF Kept, IsAfter
  <2> HIDE DEF old, new, u
  <2>4. CASE r.id > id
    <3>1. /\ new = Append(old, r) /\ Len(new) = Len(old) + 1 /\ Len(old) \in Nat
          /\ DOMAIN new = DOMAIN old \cup {Len(old) + 1}
          /\ new[Len(old) + 1] = r /\ \A i \in DOMAIN old : new[i] = old[i]
      BY <2>3, <2>4
    <3>2. Len(new) <= Len(u)
      BY <2>1, <3>1
    <3>3. \A i \in DOMAIN new : new[i] \in Range(u) /\ new[i].id > id
      BY <2>1, <2>2, <2>4, <3>1
    <3> QED BY <2>1, <3>2, <3>3 DEF new, u
  <2>5. CASE ~ (r.id > id)
    <3>1. new = old /\ Len(old) \in Nat
      BY <2>3, <2>5
    <3>2. Len(new) <= Len(u)
      BY <2>1, <3>1
    <3>3. \A i \in DOMAIN new : new[i] \in Range(u) /\ new[i].id > id
      BY <2>1, <2>2, <3>1
    <3> QED BY <2>1, <3>2, <3>3 DEF new, u
  <2> QED BY <2>4, <2>5
<1>3. T = Seq(CaptureRecord)
  <2>1. T \in SUBSET Seq(CaptureRecord)
    OBVIOUS
  <2> HIDE DEF T
  <2> QED BY <2>1, <1>1, <1>2, ListsByAppend
<1>4. Fits(s)
  BY <1>3
<1> QED BY <1>4

(* They are in their order. *)
LEMMA KeptRise ==
  ASSUME NEW s \in Seq(CaptureRecord), NEW id, Upward(s)
  PROVE  Upward(KeptAfter(s, id))
<1> DEFINE T == {t \in Seq(CaptureRecord) : Upward(t) => Upward(KeptAfter(t, id))}
<1>1. << >> \in T
  <2>1. KeptAfter(<< >>, id) = << >> /\ << >> \in Seq(CaptureRecord) /\ DOMAIN << >> = {}
    BY KeptAfterStep
  <2> QED BY <2>1
<1>2. ASSUME NEW t \in T, NEW r \in CaptureRecord
      PROVE  Append(t, r) \in T
  <2> DEFINE u == Append(t, r)
             old == KeptAfter(t, id)
  <2>1. t \in Seq(CaptureRecord) /\ u \in Seq(CaptureRecord) /\ (Upward(t) => Upward(old))
    OBVIOUS
  <2> SUFFICES ASSUME Upward(u)
               PROVE  Upward(KeptAfter(u, id))
    BY <2>1
  <2>2. /\ Len(t) \in Nat /\ DOMAIN t = 1 .. Len(t) /\ DOMAIN u = 1 .. Len(t) + 1
        /\ u[Len(t) + 1] = r /\ \A i \in DOMAIN t : u[i] = t[i]
    BY <2>1
  <2>3. /\ Len(t) + 1 \in DOMAIN u
        /\ \A i \in DOMAIN t : i \in DOMAIN u /\ i < Len(t) + 1
    <3> HIDE DEF u
    <3> QED BY <2>2
  <2>4. Upward(t) /\ \A i \in DOMAIN t : t[i].id < r.id
    <3> HIDE DEF u
    <3> QED BY <2>2, <2>3 DEF Upward
  <2>5. old \in Seq(CaptureRecord) /\ KeptAfter(u, id) = Kept(old, r, id)
    BY <2>1, KeptAfterStep
  <2>6. \A i \in DOMAIN old : old[i].id < r.id
    <3>1. \A i \in DOMAIN old : old[i] \in Range(t)
      BY <2>1, KeptAreBuffered
    <3> HIDE DEF old
    <3> QED BY <2>4, <3>1 DEF Range
  <2> HIDE DEF old, u
  <2>7. Upward(Append(old, r))
    BY <2>1, <2>4, <2>5, <2>6, RisesByOne
  <2> QED BY <2>1, <2>4, <2>5, <2>7 DEF Kept
<1>3. T = Seq(CaptureRecord)
  <2>1. T \in SUBSET Seq(CaptureRecord)
    OBVIOUS
  <2> HIDE DEF T
  <2> QED BY <2>1, <1>1, <1>2, ListsByAppend
<1>4. Upward(s) => Upward(KeptAfter(s, id))
  BY <1>3
<1> QED BY <1>4

-------------------------------------------------------------------------------
(* The inductive invariant. *)

(* Records with the numbers and times there have been. *)
RecordUpTo(id, time) == {r \in CaptureRecord : r.id <= id /\ r.time <= time}
MessageUpTo(id, time) == {r \in RecordUpTo(id, time) : r.kind = "depth"}

Types ==
  /\ venue \in Venues /\ book \in Books
  /\ update \in 0 .. MaxUpdates /\ connections \in 0 .. MaxConnections
  /\ link \in {"Down", "Bootstrapping", "Up"}
  /\ clock \in Nat
  /\ history \in [lost : BOOLEAN, forgotten : SUBSET Prices]
  /\ file \in Seq(RecordUpTo(update, clock))
  /\ buffered \in Seq(MessageUpTo(update, clock))
  /\ requested # None => /\ requested.id \in 0 .. update
                         /\ requested.changes \in Seq(Changes)
                         /\ Len(requested.changes) <= Cardinality(Prices)

(* What goes with the state of the connection. *)
Links ==
  /\ link # "Bootstrapping" => requested = None /\ buffered = << >>
  /\ venue = "Kraken" => link # "Bootstrapping" /\ ~ history.lost
  /\ link = "Up" => file # << >>

(* The records: one for each update at most, and a snapshot for each connection. *)
Count ==
  Len(file) + Len(buffered) + (IF link = "Bootstrapping" THEN 1 ELSE 0) <= update + connections

(***************************************************************************)
(* While nothing was lost, the messages buffered that a snapshot does not  *)
(* cover are those that follow it, and with it they make the book.         *)
(***************************************************************************)
Bridges ==
  requested # None /\ ~ history.lost =>
    /\ Len(KeptAfter(buffered, requested.id)) = update - requested.id
    /\ NumberedAfter(KeptAfter(buffered, requested.id), requested.id)
    /\ BookAfter(ApplyChanges(EmptyBook, requested.changes), KeptAfter(buffered, requested.id)) = book

(* The report has the book, and the adapter the number of the last update if it reads all. *)
ReportHas == link = "Up" /\ ~ history.lost => ReportOf(venue, file).book = InScope(venue, book)
SourceIs ==
  (venue = "Binance" /\ link = "Up" /\ ~ history.lost /\ UnreadIn(file) = {}) =>
    Normalized(venue, file).source = update

(* The adapter has then accepted every record. *)
FileAccepted == ~ history.lost /\ UnreadIn(file) = {} => AllAccepted(venue, file)

(* The messages come in the order of their numbers. *)
Rises == Rising(file) /\ Upward(buffered)

(* The changes in the file make the book, but for prices whose last change is not in it. *)
FileHas ==
  ~ history.lost /\ file # << >> =>
    \A p \in Prices \ history.forgotten : BookAfter(EmptyBook, file)[p] = InScope(venue, book)[p]

Inv == /\ Types /\ Links /\ Count /\ Rises
       /\ Bridges /\ ReportHas /\ SourceIs /\ FileAccepted /\ FileHas

(* The constants, and what the types of the variables are made of. *)
LEMMA ConstantsAre ==
  /\ MaxUpdates \in Nat /\ MaxUpdates <= MaxSource /\ MaxSource \in Nat
  /\ MaxConnections \in Nat /\ MaxSequence \in Nat
  /\ \A of \in Venues : of = "Kraken" \/ of = "Binance"
  /\ "Kraken" # "Binance"
BY VenuesAssumption, MaxUpdatesAssumption, MaxConnectionsAssumption, MaxSourceAssumption,
   MaxSequenceAssumption

LEMMA RecordsUpTo ==
  ASSUME NEW id \in Nat, NEW time \in Nat
  PROVE  /\ Seq(RecordUpTo(id, time)) \subseteq Seq(CaptureRecord)
         /\ Seq(MessageUpTo(id, time)) \subseteq Seq(RecordUpTo(id, time))
         /\ \A more \in {id, id + 1}, later \in {time, time + 1} :
              /\ Seq(RecordUpTo(id, time)) \subseteq Seq(RecordUpTo(more, later))
              /\ Seq(MessageUpTo(id, time)) \subseteq Seq(MessageUpTo(more, later))
<1>1. RecordUpTo(id, time) \subseteq CaptureRecord /\ MessageUpTo(id, time) \subseteq RecordUpTo(id, time)
  BY DEF RecordUpTo, MessageUpTo
<1>2. ASSUME NEW more \in {id, id + 1}, NEW later \in {time, time + 1}
      PROVE  /\ RecordUpTo(id, time) \subseteq RecordUpTo(more, later)
             /\ MessageUpTo(id, time) \subseteq MessageUpTo(more, later)
  <2>1. \A r \in CaptureRecord : r.id \in Int /\ r.time \in Int
    BY ConstantsAre DEF CaptureRecord, SourceNumbers
  <2>2. \A r \in CaptureRecord : r.id <= id /\ r.time <= time => r.id <= more /\ r.time <= later
    BY <2>1
  <2> QED BY <2>2 DEF RecordUpTo, MessageUpTo
<1> QED BY <1>1, <1>2, MoreOf

(* A record made now. *)
LEMMA RecordIs ==
  ASSUME NEW kind \in {"snapshot", "depth"}, NEW id \in 0 .. MaxUpdates, NEW changes \in Seq(Changes),
         NEW time \in Nat, Len(changes) <= Cardinality(Prices)
  PROVE  /\ Record(kind, id, changes, time) \in RecordUpTo(id, time)
         /\ Record(kind, id, changes, time) \in CaptureRecord
         /\ kind = "depth" => Record(kind, id, changes, time) \in MessageUpTo(id, time)
         /\ Record(kind, id, changes, time).kind = kind
         /\ Record(kind, id, changes, time).id = id
         /\ Record(kind, id, changes, time).changes = changes
<1>1. id \in SourceNumbers /\ id <= id /\ time <= time
  BY ConstantsAre DEF SourceNumbers
<1> QED BY <1>1 DEF Record, RecordUpTo, MessageUpTo, CaptureRecord

LEMMA InitInv == Init => Inv
<1> SUFFICES ASSUME Init
             PROVE  Inv
  OBVIOUS
<1>1. /\ venue \in Venues /\ book = [price \in Prices |-> Max(Quantities)]
      /\ update = 0 /\ link = "Down" /\ connections = 0 /\ clock = 0
      /\ requested = None /\ buffered = << >> /\ file = << >>
      /\ history = [lost |-> FALSE, forgotten |-> {}]
  BY DEF Init
<1>2. book \in Books
  <2>1. Quantities \in SUBSET Nat /\ IsFiniteSet(Quantities) /\ Quantities # {}
    BY QuantitiesAssumption
  <2>2. \E x \in Quantities : \A y \in Quantities : y <= x
    BY <2>1, GreatestOfFinite
  <2>3. \E x \in Quantities : \A y \in Quantities : x >= y
    BY <2>1, <2>2
  <2>4. Max(Quantities) \in Quantities
    BY <2>3 DEF Max
  <2> QED BY <1>1, <2>4 DEF Books
<1>3. \A S : << >> \in Seq(S)
  OBVIOUS
<1>4. Types
  BY <1>1, <1>2, <1>3, ConstantsAre DEF Types
<1>5. Links /\ Count
  <2>1. Len(<< >>) = 0
    OBVIOUS
  <2> QED BY <1>1, <2>1 DEF Links, Count
<1>6. FileAccepted
  <2>1. Normalized(venue, << >>).events = << >> /\ DOMAIN << >> = {}
    BY NormalizedStep
  <2> QED BY <1>1, <2>1 DEF FileAccepted, AllAccepted
<1>7. Rises
  <2>1. DOMAIN << >> = {}
    OBVIOUS
  <2> QED BY <1>1, <2>1 DEF Rises, Rising, Upward
<1> QED BY <1>1, <1>4, <1>5, <1>6, <1>7 DEF Inv, Bridges, ReportHas, SourceIs, FileHas

(* A list of what a book is at some prices leaves the others alone. *)
LEMMA OneRecordGives ==
  ASSUME NEW s \in Seq(CaptureRecord), NEW r \in CaptureRecord, NEW b \in Books, Sets(r.changes, b)
  PROVE  \A p \in Prices :
           BookAfter(EmptyBook, Append(s, r))[p] =
             IF p \in PricesIn(r.changes) THEN b[p] ELSE BookAfter(EmptyBook, s)[p]
<1>1. BookAfter(EmptyBook, s) \in Books /\ r.changes \in Seq(Changes)
  BY EmptyBookType, BookAfterStep DEF CaptureRecord
<1>2. BookAfter(EmptyBook, Append(s, r)) = ApplyChanges(BookAfter(EmptyBook, s), r.changes)
  BY EmptyBookType, BookAfterStep
<1>3. ApplyChanges(BookAfter(EmptyBook, s), r.changes) =
        [p \in Prices |-> IF p \in PricesIn(r.changes) THEN b[p] ELSE BookAfter(EmptyBook, s)[p]]
  BY <1>1, ChangesApplied
<1> QED BY <1>2, <1>3

(***************************************************************************)
(* An update of the venue's book, delivered or lost, keeps the invariant.  *)
(***************************************************************************)
LEMMA UpdateBookKeeps ==
  ASSUME Inv, NEW price \in Prices, NEW quantity \in Quantities, NEW delivered \in BOOLEAN,
         UpdateBook(price, quantity, delivered)
  PROVE  Inv'
<1> DEFINE after == [book EXCEPT ![price] = quantity]
           changes == Told(venue, book, after)
           message == Record("depth", update + 1, changes, clock')
           heard == delivered /\ link # "Down" /\ (venue = "Binance" \/ changes # << >>)
           told == IF heard /\ link = "Up" THEN PricesOf(<< message >>) ELSE {}
           differ == {p \in Prices : InScope(venue, book)[p] # InScope(venue, after)[p]}
<1>1. /\ update < MaxUpdates
      /\ ~ delivered => venue = "Binance" /\ link # "Down"
      /\ book' = after /\ update' = update + 1
      /\ clock' = clock \/ clock' = clock + 1
      /\ file' = IF heard /\ link = "Up" THEN Append(file, message) ELSE file
      /\ buffered' = IF heard /\ link = "Bootstrapping" THEN Append(buffered, message) ELSE buffered
      /\ history' = [history EXCEPT !.lost = @ \/ ~ delivered,
                                    !.forgotten = (@ \cup differ) \ told]
      /\ venue' = venue /\ link' = link /\ connections' = connections /\ requested' = requested
  BY DEF UpdateBook, Tick
<1>2. /\ Types /\ Links /\ Count /\ Rises /\ Bridges /\ ReportHas /\ SourceIs /\ FileAccepted /\ FileHas
  BY DEF Inv
<1>3. /\ venue \in Venues /\ book \in Books /\ update \in Nat /\ update <= MaxUpdates
      /\ connections \in 0 .. MaxConnections /\ connections \in Nat
      /\ clock \in Nat /\ link \in {"Down", "Bootstrapping", "Up"}
      /\ history \in [lost : BOOLEAN, forgotten : SUBSET Prices]
      /\ file \in Seq(RecordUpTo(update, clock)) /\ buffered \in Seq(MessageUpTo(update, clock))
  BY <1>2, ConstantsAre DEF Types
<1>4. after \in Books
  BY <1>3 DEF Books
<1>5. /\ changes \in Seq(Changes) /\ Len(changes) <= Cardinality(Prices)
      /\ Sets(changes, InScope(venue, after))
      /\ PricesIn(changes) = ToldPrices(venue, book, after)
  BY <1>3, <1>4, ToldIs
<1>6. /\ InScope(venue, ApplyChanges(InScope(venue, book), changes)) = InScope(venue, after)
      /\ changes = << >> => InScope(venue, book) = InScope(venue, after)
  <2>1. IsUpdated(after, book, price, quantity)
    BY DEF IsUpdated
  <2> HIDE DEF after
  <2> QED BY <1>1, <1>3, <2>1, ToldKeepsScope
<1> HIDE DEF after, changes
<1>7. update + 1 \in 0 .. MaxUpdates /\ clock' \in Nat
  BY <1>1, <1>3, ConstantsAre
<1>8. /\ message \in RecordUpTo(update + 1, clock') /\ message \in CaptureRecord
      /\ message \in MessageUpTo(update + 1, clock')
      /\ message.kind = "depth" /\ message.id = update + 1 /\ message.changes = changes
  BY <1>5, <1>7, RecordIs
<1> HIDE DEF message
<1>9. /\ file \in Seq(RecordUpTo(update + 1, clock')) /\ buffered \in Seq(MessageUpTo(update + 1, clock'))
      /\ file \in Seq(CaptureRecord) /\ buffered \in Seq(CaptureRecord)
  BY <1>1, <1>3, RecordsUpTo
<1>10. told = IF heard /\ link = "Up" THEN PricesIn(changes) ELSE {}
  <2>1. heard => PricesOf(<< message >>) = PricesIn(changes)
    BY <1>8, <1>9, PricesOfRecords
  <2> QED BY <2>1
<1> HIDE DEF told
<1>11. /\ history' \in [lost : BOOLEAN, forgotten : SUBSET Prices]
       /\ history'.forgotten = (history.forgotten \cup differ) \ told
       /\ ~ history'.lost => ~ history.lost /\ delivered
       /\ ~ history.lost /\ delivered => ~ history'.lost
  <2>1. history'.forgotten = (history.forgotten \cup differ) \ told
        /\ history' \in [lost : BOOLEAN, forgotten : SUBSET Prices]
    <3>1. (history.lost \/ ~ delivered) \in BOOLEAN
      BY <1>3
    <3>2. (history.forgotten \cup differ) \ told \in SUBSET Prices
      BY <1>3
    <3> HIDE DEF differ
    <3> QED BY <1>1, <1>3, <3>1, <3>2
  <2>2. history'.lost = (history.lost \/ ~ delivered)
    <3> HIDE DEF differ
    <3> QED BY <1>1, <1>3
  <2> QED BY <2>1, <2>2
<1>12. Types'
  <2>1. file' \in Seq(RecordUpTo(update', clock')) /\ buffered' \in Seq(MessageUpTo(update', clock'))
    <3>1. update' = update + 1
      BY <1>1
    <3>2. file' \in Seq(RecordUpTo(update + 1, clock'))
      <4>1. CASE heard /\ link = "Up"
        <5>1. file' = Append(file, message)
          BY <1>1, <4>1
        <5> QED BY <1>8, <1>9, <5>1
      <4>2. CASE ~ (heard /\ link = "Up")
        BY <1>1, <1>9, <4>2
      <4> QED BY <4>1, <4>2
    <3>3. buffered' \in Seq(MessageUpTo(update + 1, clock'))
      <4>1. CASE heard /\ link = "Bootstrapping"
        <5>1. buffered' = Append(buffered, message)
          BY <1>1, <4>1
        <5> QED BY <1>8, <1>9, <5>1
      <4>2. CASE ~ (heard /\ link = "Bootstrapping")
        BY <1>1, <1>9, <4>2
      <4> QED BY <4>1, <4>2
    <3> QED BY <3>1, <3>2, <3>3
  <2>2. requested' # None => /\ requested'.id \in 0 .. update'
                             /\ requested'.changes \in Seq(Changes)
                             /\ Len(requested'.changes) <= Cardinality(Prices)
    BY <1>1, <1>2, <1>3 DEF Types
  <2>3. /\ venue' \in Venues /\ book' \in Books
        /\ update' \in 0 .. MaxUpdates /\ connections' \in 0 .. MaxConnections
        /\ link' \in {"Down", "Bootstrapping", "Up"}
        /\ clock' \in Nat
    BY <1>1, <1>3, <1>4, <1>7
  <2> QED BY <1>11, <2>1, <2>2, <2>3 DEF Types
<1>13. Links'
  <2>1. link # "Bootstrapping" => requested' = None /\ buffered' = << >>
    BY <1>1, <1>2 DEF Links
  <2>2. venue = "Kraken" => link # "Bootstrapping" /\ ~ history'.lost
    <3> SUFFICES ASSUME venue = "Kraken"
                 PROVE  link # "Bootstrapping" /\ ~ history'.lost
      OBVIOUS
    <3>1. delivered
      BY <1>1, ConstantsAre
    <3> QED BY <1>2, <1>11, <3>1 DEF Links
  <2>3. link = "Up" => file' # << >>
    BY <1>1, <1>2, <1>8, <1>9 DEF Links
  <2> QED BY <1>1, <2>1, <2>2, <2>3 DEF Links
<1>14. Count'
  <2>1. Len(file) \in Nat /\ Len(buffered) \in Nat
    BY <1>9
  <2>2. Len(file') + Len(buffered') <= Len(file) + Len(buffered) + 1
        /\ Len(file') \in Nat /\ Len(buffered') \in Nat
    <3>1. CASE heard /\ link = "Up"
      <4>1. Len(file') = Len(file) + 1 /\ buffered' = buffered
        BY <1>1, <1>8, <1>9, <3>1
      <4> QED BY <2>1, <4>1
    <3>2. CASE heard /\ link = "Bootstrapping"
      <4>1. Len(buffered') = Len(buffered) + 1 /\ file' = file
        BY <1>1, <1>8, <1>9, <3>2
      <4> QED BY <2>1, <4>1
    <3>3. CASE ~ (heard /\ link = "Up") /\ ~ (heard /\ link = "Bootstrapping")
      <4>1. file' = file /\ buffered' = buffered
        BY <1>1, <3>3
      <4> QED BY <2>1, <4>1
    <3> QED BY <3>1, <3>2, <3>3
  <2> DEFINE one == IF link = "Bootstrapping" THEN 1 ELSE 0
  <2>3. one \in Nat /\ Len(file) + Len(buffered) + one <= update + connections
    BY <1>2 DEF Count
  <2> HIDE DEF one
  <2>4. Len(file') + Len(buffered') + one <= (update + 1) + connections
    BY <1>3, <2>1, <2>2, <2>3
  <2> QED BY <1>1, <2>4 DEF Count, one
<1>15. Bridges'
  <2> SUFFICES ASSUME requested # None, ~ history'.lost
               PROVE  /\ Len(KeptAfter(buffered', requested.id)) = (update + 1) - requested.id
                      /\ NumberedAfter(KeptAfter(buffered', requested.id), requested.id)
                      /\ BookAfter(ApplyChanges(EmptyBook, requested.changes),
                                   KeptAfter(buffered', requested.id)) = after
    BY <1>1 DEF Bridges
  <2> DEFINE old == KeptAfter(buffered, requested.id)
             base == ApplyChanges(EmptyBook, requested.changes)
  <2>1. /\ ~ history.lost /\ delivered /\ link = "Bootstrapping" /\ venue # "Kraken"
        /\ requested.id \in 0 .. update /\ requested.changes \in Seq(Changes)
    BY <1>2, <1>11 DEF Links, Types
  <2>2. heard /\ buffered' = Append(buffered, message)
    <3>1. venue = "Binance"
      BY <1>3, <2>1, ConstantsAre
    <3> QED BY <1>1, <2>1, <3>1
  <2>3. Len(old) = update - requested.id /\ NumberedAfter(old, requested.id) /\ BookAfter(base, old) = book
    BY <1>2, <2>1 DEF Bridges
  <2>4. old \in Seq(CaptureRecord) /\ KeptAfter(buffered', requested.id) = Append(old, message)
    <3>1. message.id > requested.id
      BY <1>3, <1>8, <2>1, <2>2
    <3>2. KeptAfter(Append(buffered, message), requested.id) = Kept(old, message, requested.id)
          /\ old \in Seq(CaptureRecord)
      BY <1>8, <1>9, <2>2, KeptAfterStep
    <3> QED BY <2>2, <3>1, <3>2 DEF Kept, IsAfter
  <2> HIDE DEF old
  <2>5. Len(Append(old, message)) = (update + 1) - requested.id
    <3>1. Len(Append(old, message)) = Len(old) + 1
      BY <2>4
    <3>2. requested.id \in Int
      BY <2>1
    <3> QED BY <1>3, <2>3, <3>1, <3>2
  <2>6. NumberedAfter(Append(old, message), requested.id)
    <3> DEFINE n == Len(old)
               u == Append(old, message)
    <3>1. /\ n \in Nat /\ DOMAIN u = 1 .. n + 1 /\ u[n + 1] = message /\ DOMAIN old = 1 .. n
          /\ \A i \in 1 .. n : u[i] = old[i]
      BY <2>4
    <3>2. message.kind = "depth" /\ message.id = requested.id + (n + 1)
      <4>1. message.kind = "depth" /\ message.id = update + 1 /\ requested.id \in Int
        BY <1>8, <2>1, <2>2
      <4>2. n = update - requested.id
        BY <2>3
      <4> HIDE DEF n
      <4> QED BY <1>3, <4>1, <4>2
    <3> HIDE DEF u, n
    <3>3. \A i \in 1 .. n + 1 : i \in 1 .. n \/ i = n + 1
      BY <3>1
    <3>4. NumberedAfter(u, requested.id)
      BY <2>3, <3>1, <3>2, <3>3 DEF NumberedAfter
    <3> QED BY <3>4 DEF u
  <2>7. BookAfter(base, Append(old, message)) = after
    <3>1. base \in Books
      BY <2>1, EmptyBookType, ApplyChangesStep
    <3> HIDE DEF base
    <3>2. message \in CaptureRecord /\ message.changes = changes
      BY <1>8, <2>2
    <3>3. BookAfter(base, Append(old, message)) = ApplyChanges(book, changes)
      BY <2>3, <2>4, <3>1, <3>2, BookAfterStep
    <3>4. ApplyChanges(book, changes) \in Books
      BY <1>3, <1>5, ApplyChangesStep
    <3>5. InScope(venue, book) = book /\ InScope(venue, after) = after
          /\ InScope(venue, ApplyChanges(book, changes)) = ApplyChanges(book, changes)
      BY <1>3, <1>4, <2>1, <3>4, InScopeType
    <3> QED BY <1>6, <3>3, <3>5
  <2> QED BY <2>4, <2>5, <2>6, <2>7
<1>16. ReportHas'
  <2> SUFFICES ASSUME link = "Up", ~ history'.lost
               PROVE  ReportOf(venue, file').book = InScope(venue, after)
    BY <1>1 DEF ReportHas
  <2>1. delivered /\ ReportOf(venue, file).book = InScope(venue, book)
    BY <1>2, <1>11 DEF ReportHas
  <2>2. CASE ~ heard
    <3>1. changes = << >> /\ file' = file
      BY <1>1, <2>1, <2>2
    <3> QED BY <1>6, <2>1, <3>1
  <2>3. CASE heard
    <3>1. file' = Append(file, message) /\ message \in CaptureRecord /\ message.kind = "depth"
          /\ message.changes = changes
      BY <1>1, <1>8, <2>1, <2>3
    <3>2. ReportOf(venue, file') = Observed(venue, ReportOf(venue, file), message)
      BY <1>9, <3>1, ReportStep
    <3>3. Observed(venue, ReportOf(venue, file), message).book =
            InScope(venue, ApplyChanges(InScope(venue, book), changes))
      BY <2>1, <3>1 DEF Observed, Base
    <3> QED BY <1>6, <3>2, <3>3
  <2> QED BY <2>2, <2>3
<1>17. heard /\ link = "Up" /\ ~ history'.lost /\ UnreadIn(file') = {} =>
         /\ AllAccepted(venue, Append(file, message))
         /\ Normalized(venue, Append(file, message)).source = message.id
  <2> SUFFICES ASSUME heard, link = "Up", ~ history'.lost, UnreadIn(file') = {}
               PROVE  /\ AllAccepted(venue, Append(file, message))
                      /\ Normalized(venue, Append(file, message)).source = message.id
    OBVIOUS
  <2>0. file' = Append(file, message)
    BY <1>1
  <2>1. Normalized(venue, file) \in Reading
    BY <1>9, NormalizedStep
  <2>2. Normalized(venue, file).source \in SourceNumbers \cup {None}
    BY <2>1 DEF Reading
  <2>3. UnreadIn(file) = {} /\ ~ Unread(message)
    BY <1>8, <1>9, <2>0, UnreadStep
  <2>4. venue = "Kraken" \/ message.id = Normalized(venue, file).source + 1
    BY <1>2, <1>3, <1>8, <1>11, <2>3, ConstantsAre DEF SourceIs
  <2>5. StatusOf(venue, Normalized(venue, file), message) = "Accepted"
    BY <1>8, <2>2, <2>4, StatusIs
  <2>6. StatusAt(venue, file, message) = "Accepted"
    BY <2>5 DEF StatusAt
  <2>7. AllAccepted(venue, file)
    BY <1>2, <1>11, <2>3 DEF FileAccepted
  <2> QED BY <1>8, <1>9, <2>3, <2>6, <2>7, OneMoreAccepted
<1>18. FileAccepted' /\ SourceIs'
  <2>1. CASE heard /\ link = "Up"
    <3>1. file' = Append(file, message) /\ message.id = update + 1
      BY <1>1, <1>8, <2>1
    <3> QED BY <1>1, <1>17, <2>1, <3>1 DEF FileAccepted, SourceIs
  <2>2. CASE ~ (heard /\ link = "Up")
    <3>1. file' = file
      BY <1>1, <2>2
    <3>2. FileAccepted'
      <4>1. venue' = venue
        BY <1>1
      <4> SUFFICES ASSUME ~ history'.lost, UnreadIn(file) = {}
                   PROVE  AllAccepted(venue, file)
        BY <3>1, <4>1 DEF FileAccepted
      <4> QED BY <1>2, <1>11 DEF FileAccepted
    <3>3. ~ (venue = "Binance" /\ link = "Up" /\ ~ history'.lost)
      BY <1>11, <2>2
    <3> QED BY <1>1, <3>2, <3>3 DEF SourceIs
  <2> QED BY <2>1, <2>2
<1>19. FileHas'
  <2> SUFFICES ASSUME ~ history'.lost, file' # << >>, NEW p \in Prices, p \notin history'.forgotten
               PROVE  BookAfter(EmptyBook, file')[p] = InScope(venue, after)[p]
    BY <1>1 DEF FileHas
  <2>1. p \in told \/ (p \notin history.forgotten /\ InScope(venue, book)[p] = InScope(venue, after)[p])
    BY <1>11
  <2>2. ~ history.lost
    BY <1>11
  <2>3. CASE heard /\ link = "Up"
    <3>1. file' = Append(file, message) /\ message \in CaptureRecord /\ message.changes = changes
      BY <1>1, <1>8, <2>3
    <3>2. InScope(venue, after) \in Books
      BY <1>4, InScopeType
    <3>3. BookAfter(EmptyBook, file')[p] =
            IF p \in PricesIn(changes) THEN InScope(venue, after)[p] ELSE BookAfter(EmptyBook, file)[p]
      BY <1>5, <1>9, <3>1, <3>2, OneRecordGives
    <3>4. file # << >>
      BY <1>2, <2>3 DEF Links
    <3>5. p \notin history.forgotten => BookAfter(EmptyBook, file)[p] = InScope(venue, book)[p]
      BY <1>2, <2>2, <3>4 DEF FileHas
    <3> QED BY <1>10, <2>1, <2>3, <3>3, <3>5
  <2>4. CASE ~ (heard /\ link = "Up")
    <3>1. file' = file /\ p \notin told
      BY <1>1, <1>10, <2>4
    <3> QED BY <1>2, <2>1, <2>2, <3>1 DEF FileHas
  <2> QED BY <2>3, <2>4
<1>20. Rises'
  <2>1. \A s \in Seq(RecordUpTo(update, clock)) : \A i \in DOMAIN s : s[i].id < message.id
    <3> SUFFICES ASSUME NEW s \in Seq(RecordUpTo(update, clock)), NEW i \in DOMAIN s
                 PROVE  s[i].id < message.id
      OBVIOUS
    <3>1. s[i] \in RecordUpTo(update, clock)
      OBVIOUS
    <3>2. s[i].id \in Int /\ s[i].id <= update
      BY <3>1, ConstantsAre DEF RecordUpTo, CaptureRecord, SourceNumbers
    <3> QED BY <1>3, <1>8, <3>2
  <2>2. /\ \A i \in DOMAIN file : file[i].id < message.id
        /\ \A i \in DOMAIN buffered : buffered[i].id < message.id
    <3>1. buffered \in Seq(RecordUpTo(update, clock))
      BY <1>3, RecordsUpTo
    <3> QED BY <1>3, <2>1, <3>1
  <2>3. Rising(file) /\ Upward(buffered)
    BY <1>2 DEF Rises
  <2>4. Rising(Append(file, message)) /\ Upward(Append(buffered, message))
    BY <1>8, <1>9, <2>2, <2>3, RisesByOne
  <2> HIDE DEF heard
  <2> QED BY <1>1, <2>3, <2>4 DEF Rises
<1> QED BY <1>12, <1>13, <1>14, <1>15, <1>16, <1>18, <1>19, <1>20 DEF Inv

(* A connection keeps it: Kraken's snapshot makes the report's book. *)
LEMMA ConnectKeeps == Inv /\ Connect => Inv'
<1> SUFFICES ASSUME Inv, Connect
             PROVE  Inv'
  OBVIOUS
<1>1. /\ link = "Down" /\ connections < MaxConnections /\ connections' = connections + 1
      /\ venue' = venue /\ book' = book /\ update' = update /\ requested' = requested
      /\ buffered' = buffered
  BY DEF Connect
<1>2. /\ Types /\ Links /\ Count /\ Rises /\ Bridges /\ ReportHas /\ SourceIs /\ FileAccepted /\ FileHas
  BY DEF Inv
<1>3. /\ venue \in Venues /\ book \in Books /\ update \in 0 .. MaxUpdates /\ update \in Nat
      /\ connections \in Nat /\ connections + 1 \in 0 .. MaxConnections
      /\ clock \in Nat /\ history \in [lost : BOOLEAN, forgotten : SUBSET Prices]
      /\ file \in Seq(RecordUpTo(update, clock)) /\ buffered \in Seq(MessageUpTo(update, clock))
      /\ requested = None /\ buffered = << >>
      /\ Len(file) + 0 <= update + connections
  <2>1. connections \in 0 .. MaxConnections /\ update \in 0 .. MaxUpdates /\ link # "Bootstrapping"
    BY <1>1, <1>2 DEF Types
  <2>2. connections \in Nat /\ connections + 1 \in 0 .. MaxConnections /\ update \in Nat
    BY <1>1, <2>1, ConstantsAre
  <2>3. requested = None /\ buffered = << >> /\ Len(buffered) = 0
    <3>1. Len(<< >>) = 0
      OBVIOUS
    <3> QED BY <1>2, <2>1, <3>1 DEF Links
  <2>4. Len(file) + Len(buffered) + 0 <= update + connections
    BY <1>2, <2>1 DEF Count
  <2>5. file \in Seq(RecordUpTo(update, clock))
    BY <1>2 DEF Types
  <2>6. Len(file) + 0 <= update + connections
    <3>1. Len(file) \in Nat
      BY <2>5
    <3> QED BY <2>3, <2>4, <3>1
  <2> QED BY <1>2, <2>1, <2>2, <2>3, <2>6 DEF Types
<1>4. file \in Seq(CaptureRecord) /\ Len(file) \in Nat
  <2>1. file \in Seq(CaptureRecord)
    BY <1>3, RecordsUpTo
  <2> QED BY <2>1
<1>5. CASE venue = "Kraken"
  <2> DEFINE now == InScope(venue, book)
             changes == ChangesOf(now)
             snapshot == Record("snapshot", 0, changes, clock')
  <2>1. /\ clock' = clock \/ clock' = clock + 1
        /\ file' = Append(file, snapshot)
        /\ history' = [history EXCEPT !.forgotten = @ \ PricesOf(<< snapshot >>)]
        /\ link' = "Up"
    BY <1>5 DEF Connect, Tick, Recorded
  <2>2. now \in Books
    BY <1>3, InScopeType
  <2>3. /\ changes \in Seq(Changes) /\ Len(changes) <= Cardinality(Prices)
        /\ Sets(changes, now) /\ PricesIn(changes) = Held(now)
        /\ ApplyChanges(EmptyBook, changes) = now
    BY <2>2, SnapshotMakesBook
  <2>4. clock' \in Nat /\ 0 \in 0 .. MaxUpdates
    BY <1>3, <2>1, ConstantsAre
  <2> HIDE DEF changes
  <2>5. /\ snapshot \in RecordUpTo(0, clock') /\ snapshot \in CaptureRecord
        /\ snapshot.kind = "snapshot" /\ snapshot.changes = changes
    BY <2>3, <2>4, RecordIs
  <2> HIDE DEF snapshot
  <2>6. snapshot \in RecordUpTo(update, clock')
    <3>1. 0 <= update
      BY <1>3
    <3>2. \A i : i <= 0 /\ i \in Int => i <= update
      BY <1>3
    <3>3. snapshot.id \in Int
      BY <2>5, ConstantsAre DEF CaptureRecord, SourceNumbers
    <3> QED BY <2>5, <3>2, <3>3 DEF RecordUpTo
  <2>7. file \in Seq(RecordUpTo(update, clock')) /\ << >> \in Seq(MessageUpTo(update, clock'))
    BY <1>3, <2>1, RecordsUpTo
  <2>8. PricesOf(<< snapshot >>) = PricesIn(changes)
    BY <1>4, <2>5, PricesOfRecords
  <2>9. /\ history'.forgotten = history.forgotten \ PricesIn(changes)
        /\ history'.lost = history.lost
        /\ history' \in [lost : BOOLEAN, forgotten : SUBSET Prices]
    BY <1>3, <2>1, <2>8
  <2>10. Types'
    <3>1. file' \in Seq(RecordUpTo(update, clock'))
      BY <2>1, <2>6, <2>7
    <3> QED BY <1>1, <1>3, <2>1, <2>4, <2>7, <2>9, <3>1 DEF Types
  <2>11. Links'
    <3>1. file' # << >>
      BY <1>4, <2>1, <2>5
    <3> QED BY <1>1, <1>2, <1>3, <2>1, <2>9, <3>1 DEF Links
  <2>12. Count'
    <3>1. Len(file') = Len(file) + 1 /\ Len(buffered') = 0
      BY <1>1, <1>3, <1>4, <2>1, <2>5
    <3>2. (Len(file) + 1) + 0 + 0 <= update + (connections + 1)
      BY <1>3, <1>4
    <3> QED BY <1>1, <2>1, <3>1, <3>2 DEF Count
  <2>13. Bridges'
    BY <1>1, <1>3 DEF Bridges
  <2>14. ReportHas'
    <3>1. /\ ReportOf(venue, file') = Observed(venue, ReportOf(venue, file), snapshot)
      BY <1>4, <2>1, <2>5, ReportStep
    <3>2. Observed(venue, ReportOf(venue, file), snapshot).book =
            InScope(venue, ApplyChanges(EmptyBook, changes))
      BY <2>5 DEF Observed, Base
    <3>3. InScope(venue, now) = now
      BY <1>3, ScopeOfScope
    <3>4. ReportOf(venue, file').book = now
      BY <2>3, <3>1, <3>2, <3>3
    <3> QED BY <1>1, <3>4 DEF ReportHas
  <2>15. SourceIs'
    BY <1>1, <1>5, ConstantsAre DEF SourceIs
  <2>16. FileAccepted'
    <3> SUFFICES ASSUME ~ history.lost, UnreadIn(Append(file, snapshot)) = {}
                 PROVE  AllAccepted(venue, Append(file, snapshot))
      BY <1>1, <2>1, <2>9 DEF FileAccepted
    <3>0. UnreadIn(file) = {}
      BY <1>4, <2>5, UnreadStep
    <3>1. AllAccepted(venue, file)
      BY <1>2, <3>0 DEF FileAccepted
    <3>2. StatusAt(venue, file, snapshot) = "Accepted"
      BY <1>5 DEF StatusAt, StatusOf
    <3> QED BY <1>4, <2>5, <3>1, <3>2, OneMoreAccepted
  <2>17. FileHas'
    <3> SUFFICES ASSUME ~ history.lost, NEW p \in Prices, p \notin history'.forgotten
                 PROVE  BookAfter(EmptyBook, Append(file, snapshot))[p] = now[p]
      BY <1>1, <2>1, <2>9 DEF FileHas
    <3>1. BookAfter(EmptyBook, Append(file, snapshot))[p] =
            IF p \in PricesIn(changes) THEN now[p] ELSE BookAfter(EmptyBook, file)[p]
      BY <1>4, <2>2, <2>3, <2>5, OneRecordGives
    <3>2. CASE p \in PricesIn(changes)
      BY <3>1, <3>2
    <3>3. CASE p \notin PricesIn(changes) /\ file # << >>
      <4>1. p \notin history.forgotten
        BY <2>9, <3>3
      <4> QED BY <1>2, <3>1, <3>3, <4>1 DEF FileHas
    <3>4. CASE p \notin PricesIn(changes) /\ file = << >>
      <4>1. BookAfter(EmptyBook, file)[p] = 0
        BY <3>4, EmptyBookType, BookAfterStep
      <4>2. now[p] = 0
        BY <2>3, <3>4 DEF Held
      <4> QED BY <3>1, <3>4, <4>1, <4>2
    <3> QED BY <3>2, <3>3, <3>4
  <2>18. Rises'
    <3>1. Rising(Append(file, snapshot))
      BY <1>2, <1>4, <2>5, RisesByOne DEF Rises
    <3> QED BY <1>1, <1>2, <2>1, <3>1 DEF Rises
  <2> QED BY <2>10, <2>11, <2>12, <2>13, <2>14, <2>15, <2>16, <2>17, <2>18 DEF Inv
<1>6. CASE venue # "Kraken"
  <2>1. link' = "Bootstrapping" /\ clock' = clock /\ file' = file /\ history' = history
    BY <1>6 DEF Connect
  <2>2. Types'
    BY <1>1, <1>2, <1>3, <2>1 DEF Types
  <2>3. Links'
    BY <1>1, <1>6, <2>1 DEF Links
  <2>4. Count'
    <3>1. Len(buffered') = 0
      BY <1>1, <1>3
    <3>2. Len(file) + 0 + 1 <= update + (connections + 1)
      BY <1>3, <1>4
    <3> QED BY <1>1, <2>1, <3>1, <3>2 DEF Count
  <2>5. Bridges' /\ ReportHas' /\ SourceIs'
    BY <1>1, <1>3, <2>1 DEF Bridges, ReportHas, SourceIs
  <2>6. FileAccepted' /\ FileHas' /\ Rises'
    BY <1>1, <1>2, <2>1 DEF FileAccepted, FileHas, AllAccepted, Rises
  <2> QED BY <2>2, <2>3, <2>4, <2>5, <2>6 DEF Inv
<1> QED BY <1>5, <1>6

LEMMA DisconnectKeeps == Inv /\ Disconnect => Inv'
<1> SUFFICES ASSUME Inv, Disconnect
             PROVE  Inv'
  OBVIOUS
<1>1. /\ link' = "Down" /\ requested' = None /\ buffered' = << >>
      /\ venue' = venue /\ book' = book /\ update' = update /\ connections' = connections
      /\ clock' = clock /\ file' = file /\ history' = history
  BY DEF Disconnect
<1>2. Types /\ Links /\ Count /\ Rises /\ FileAccepted /\ FileHas
  BY DEF Inv
<1>3. Types'
  <2>1. << >> \in Seq(MessageUpTo(update, clock))
    OBVIOUS
  <2> QED BY <1>1, <1>2, <2>1 DEF Types
<1>4. Links'
  BY <1>1, <1>2 DEF Links
<1>5. Count'
  <2>1. /\ Len(file) \in Nat /\ Len(buffered) \in Nat /\ Len(buffered') = 0
        /\ update \in Int /\ connections \in Int
    BY <1>1, <1>2 DEF Types
  <2> DEFINE one == IF link = "Bootstrapping" THEN 1 ELSE 0
  <2>2. one \in Nat /\ Len(file) + Len(buffered) + one <= update + connections
    BY <1>2 DEF Count
  <2> HIDE DEF one
  <2>3. Len(file) + 0 + 0 <= update + connections
    BY <2>1, <2>2
  <2> QED BY <1>1, <2>1, <2>3 DEF Count
<1>6. Bridges' /\ ReportHas' /\ SourceIs'
  BY <1>1 DEF Bridges, ReportHas, SourceIs
<1>7. FileAccepted' /\ FileHas'
  BY <1>1, <1>2 DEF FileAccepted, FileHas, AllAccepted
<1>8. Rises'
  <2>1. DOMAIN << >> = {}
    OBVIOUS
  <2> QED BY <1>1, <1>2, <2>1 DEF Rises, Upward
<1> QED BY <1>3, <1>4, <1>5, <1>6, <1>7, <1>8 DEF Inv

(* A snapshot that has just been taken is the book, and covers every message buffered. *)
LEMMA AnswerSnapshotKeeps == Inv /\ AnswerSnapshot => Inv'
<1> SUFFICES ASSUME Inv, AnswerSnapshot
             PROVE  Inv'
  OBVIOUS
<1>1. /\ link = "Bootstrapping" /\ requested' = [id |-> update, changes |-> ChangesOf(book)]
      /\ venue' = venue /\ book' = book /\ update' = update /\ connections' = connections
      /\ link' = link /\ buffered' = buffered
      /\ clock' = clock /\ file' = file /\ history' = history
  BY DEF AnswerSnapshot
<1>2. /\ Types /\ Links /\ Count /\ Rises /\ ReportHas /\ SourceIs /\ FileAccepted /\ FileHas
  BY DEF Inv
<1>3. book \in Books /\ update \in Nat /\ clock \in Nat /\ buffered \in Seq(MessageUpTo(update, clock))
  BY <1>2, ConstantsAre DEF Types
<1>4. /\ ChangesOf(book) \in Seq(Changes) /\ Len(ChangesOf(book)) <= Cardinality(Prices)
      /\ ApplyChanges(EmptyBook, ChangesOf(book)) = book
  BY <1>3, SnapshotMakesBook
<1>5. requested'.id = update /\ requested'.changes = ChangesOf(book)
  BY <1>1
<1>6. Types'
  <2>1. update \in 0 .. update
    BY <1>3
  <2> QED BY <1>1, <1>2, <1>4, <1>5, <2>1 DEF Types
<1>7. Links' /\ Count'
  BY <1>1, <1>2 DEF Links, Count
<1>8. KeptAfter(buffered, update) = << >>
  <2>1. buffered \in Seq(CaptureRecord)
        /\ Seq(MessageUpTo(update, clock)) \subseteq Seq(RecordUpTo(update, clock))
    BY <1>3, RecordsUpTo
  <2>2. \A r \in Range(buffered) : r.id <= update /\ r.id \in Int
    <3> SUFFICES ASSUME NEW i \in DOMAIN buffered
                 PROVE  buffered[i].id <= update /\ buffered[i].id \in Int
      BY DEF Range
    <3>1. buffered[i] \in MessageUpTo(update, clock)
      BY <1>3
    <3> QED BY <3>1, ConstantsAre DEF MessageUpTo, RecordUpTo, CaptureRecord, SourceNumbers
  <2> DEFINE kept == KeptAfter(buffered, update)
  <2>3. /\ kept \in Seq(CaptureRecord)
        /\ \A i \in DOMAIN kept : kept[i] \in Range(buffered) /\ kept[i].id > update
    BY <2>1, KeptAfterStep, KeptAreBuffered
  <2> HIDE DEF kept
  <2>4. \A i \in DOMAIN kept : FALSE
    BY <1>3, <2>2, <2>3
  <2>5. kept = << >>
    BY <2>3, <2>4
  <2> QED BY <2>5 DEF kept
<1>9. Bridges'
  <2>1. Len(<< >>) = update - update /\ NumberedAfter(<< >>, update)
    BY <1>3 DEF NumberedAfter
  <2>2. BookAfter(book, << >>) = book
    BY <1>3, BookAfterStep
  <2> QED BY <1>1, <1>4, <1>5, <1>8, <2>1, <2>2 DEF Bridges
<1>10. ReportHas' /\ SourceIs' /\ FileAccepted' /\ FileHas' /\ Rises'
  BY <1>1, <1>2 DEF ReportHas, SourceIs, FileAccepted, FileHas, AllAccepted, Rises
<1> QED BY <1>6, <1>7, <1>9, <1>10 DEF Inv

(***************************************************************************)
(* The end of the bootstrap keeps it: the snapshot opens the adapter's     *)
(* numbers and clears the report's book, and the messages kept bridge to   *)
(* what the venue has sent.                                                *)
(***************************************************************************)
LEMMA FinishBootstrapKeeps == Inv /\ FinishBootstrap => Inv'
<1> SUFFICES ASSUME Inv, FinishBootstrap
             PROVE  Inv'
  OBVIOUS
<1> DEFINE kept == KeptAfter(buffered, requested.id)
           snapshot == Record("snapshot", requested.id, requested.changes, clock')
           more == << snapshot >> \o kept
<1>1. /\ link = "Bootstrapping" /\ requested # None
      /\ venue' = venue /\ book' = book /\ update' = update /\ connections' = connections
      /\ requested' = None
      /\ \/ link' = link /\ buffered' = buffered /\ clock' = clock /\ file' = file /\ history' = history
         \/ /\ link' = "Up" /\ buffered' = << >>
            /\ clock' \in {clock, clock + 1}
            /\ file' = file \o << snapshot >> \o kept
            /\ history' = [history EXCEPT !.forgotten = @ \ PricesOf(more)]
  BY DEF FinishBootstrap, Tick, Recorded
<1>2. /\ Types /\ Links /\ Count /\ Rises /\ Bridges /\ ReportHas /\ SourceIs /\ FileAccepted /\ FileHas
  BY DEF Inv
<1>3. CASE link' = link /\ buffered' = buffered /\ clock' = clock /\ file' = file /\ history' = history
  <2>1. Types' /\ Links' /\ Count'
    BY <1>1, <1>2, <1>3 DEF Types, Links, Count
  <2>2. Bridges' /\ ReportHas' /\ SourceIs'
    BY <1>1, <1>3 DEF Bridges, ReportHas, SourceIs
  <2>3. FileAccepted' /\ FileHas' /\ Rises'
    BY <1>1, <1>2, <1>3 DEF FileAccepted, FileHas, AllAccepted, Rises
  <2> QED BY <2>1, <2>2, <2>3 DEF Inv
<1>4. CASE /\ link' = "Up" /\ buffered' = << >>
           /\ clock' \in {clock, clock + 1}
           /\ file' = file \o << snapshot >> \o kept
           /\ history' = [history EXCEPT !.forgotten = @ \ PricesOf(more)]
  <2>1. /\ venue # "Kraken" /\ venue \in Venues /\ book \in Books /\ update \in Nat /\ update <= MaxUpdates
        /\ connections \in Nat /\ clock \in Nat /\ clock' \in Nat
        /\ history \in [lost : BOOLEAN, forgotten : SUBSET Prices]
        /\ file \in Seq(RecordUpTo(update, clock)) /\ buffered \in Seq(MessageUpTo(update, clock))
        /\ requested.id \in 0 .. update /\ requested.changes \in Seq(Changes)
        /\ Len(requested.changes) <= Cardinality(Prices)
    BY <1>1, <1>2, <1>4, ConstantsAre DEF Types, Links
  <2>2. /\ requested.id \in 0 .. MaxUpdates /\ requested.id \in SourceNumbers
        /\ requested.id <= update /\ requested.id \in Int
    BY <2>1, ConstantsAre DEF SourceNumbers
  <2>3. /\ snapshot \in RecordUpTo(requested.id, clock') /\ snapshot \in CaptureRecord
        /\ snapshot.kind = "snapshot" /\ snapshot.id = requested.id
        /\ snapshot.changes = requested.changes
    BY <2>1, <2>2, RecordIs
  <2> HIDE DEF snapshot
  <2>4. snapshot \in RecordUpTo(update, clock')
    BY <2>2, <2>3 DEF RecordUpTo
  <2>5. /\ file \in Seq(CaptureRecord) /\ file \in Seq(RecordUpTo(update, clock'))
        /\ buffered \in Seq(CaptureRecord) /\ buffered \in Seq(RecordUpTo(update, clock'))
    BY <1>4, <2>1, RecordsUpTo
  <2>6. /\ kept \in Seq(CaptureRecord) /\ Len(kept) <= Len(buffered)
        /\ \A i \in DOMAIN kept : kept[i] \in Range(buffered)
        /\ Upward(kept)
    BY <1>2, <2>5, KeptAfterStep, KeptAreBuffered, KeptRise DEF Rises
  <2>7. kept \in Seq(RecordUpTo(update, clock'))
    <3>1. \A r \in Range(buffered) : r \in RecordUpTo(update, clock')
      BY <2>5 DEF Range
    <3> HIDE DEF kept
    <3>2. /\ Len(kept) \in Nat /\ kept = [i \in 1 .. Len(kept) |-> kept[i]]
          /\ \A i \in 1 .. Len(kept) : kept[i] \in RecordUpTo(update, clock')
      BY <2>6, <3>1
    <3> QED BY <3>2
  <2> HIDE DEF kept
  <2> DEFINE opened == Append(file, snapshot)
  <2>8. /\ file' = opened \o kept /\ opened \in Seq(CaptureRecord)
        /\ more \in Seq(CaptureRecord) /\ file' # << >>
        /\ Len(file') = Len(file) + 1 + Len(kept)
        /\ file' \in Seq(RecordUpTo(update, clock'))
    <3>1. file \o << snapshot >> = opened /\ Len(opened) = Len(file) + 1
          /\ opened \in Seq(CaptureRecord) /\ opened \in Seq(RecordUpTo(update, clock'))
          /\ << snapshot >> \in Seq(CaptureRecord)
      BY <2>3, <2>4, <2>5, JoinedAppend
    <3> HIDE DEF opened
    <3>2. /\ opened \o kept \in Seq(RecordUpTo(update, clock'))
          /\ Len(opened \o kept) = Len(opened) + Len(kept)
          /\ Len(kept) \in Nat /\ Len(file) \in Nat
          /\ << snapshot >> \o kept \in Seq(CaptureRecord)
      <4>1. \A S : \A s, u \in Seq(S) : s \o u \in Seq(S) /\ Len(s \o u) = Len(s) + Len(u)
        OBVIOUS
      <4>2. Len(kept) \in Nat /\ Len(file) \in Nat
        BY <2>5, <2>6
      <4> QED BY <2>6, <2>7, <3>1, <4>1, <4>2
    <3>3. opened \o kept # << >>
      <4>1. Len(opened \o kept) # 0 /\ Len(<< >>) = 0
        BY <3>1, <3>2
      <4> QED BY <4>1
    <3> QED BY <1>4, <3>1, <3>2, <3>3
  <2>9. /\ history' \in [lost : BOOLEAN, forgotten : SUBSET Prices]
        /\ history'.lost = history.lost
        /\ history'.forgotten = history.forgotten \ PricesOf(more)
    <3> HIDE DEF more
    <3>1. history.forgotten \ PricesOf(more) \in SUBSET Prices
      BY <2>1
    <3> QED BY <1>4, <2>1, <3>1
  <2> HIDE DEF opened, more
  <2>10. Types'
    <3>1. << >> \in Seq(MessageUpTo(update, clock'))
      OBVIOUS
    <3> QED BY <1>1, <1>2, <1>4, <2>1, <2>8, <2>9, <3>1 DEF Types
  <2>11. Links'
    BY <1>1, <1>2, <1>4, <2>1, <2>8, <2>9 DEF Links
  <2>12. Count'
    <3>1. Len(file) + Len(buffered) + 1 <= update + connections
      BY <1>1, <1>2 DEF Count
    <3>2. Len(file) \in Nat /\ Len(buffered) \in Nat /\ Len(kept) \in Nat /\ Len(buffered') = 0
      BY <1>4, <2>5, <2>6
    <3>3. Len(file') + 0 + 0 <= update + connections
      BY <2>1, <2>6, <2>8, <3>1, <3>2
    <3> QED BY <1>1, <1>4, <3>2, <3>3 DEF Count
  <2>13. Bridges'
    BY <1>1 DEF Bridges
  <2>14. ~ history.lost =>
           /\ Len(kept) = update - requested.id /\ NumberedAfter(kept, requested.id)
           /\ BookAfter(ApplyChanges(EmptyBook, requested.changes), kept) = book
    BY <1>1, <1>2 DEF Bridges, kept
  <2>15. ~ history.lost => Continued(venue, opened, kept, requested.id)
    BY <2>1, <2>2, <2>6, <2>8, <2>14, MessagesContinue
  <2>16. ReportHas'
    <3> SUFFICES ASSUME ~ history.lost
                 PROVE  ReportOf(venue, file').book = InScope(venue, book)
      BY <1>1, <2>9 DEF ReportHas
    <3>1. ReportOf(venue, opened) = Observed(venue, ReportOf(venue, file), snapshot)
      BY <2>3, <2>5, ReportStep DEF opened
    <3>2. Observed(venue, ReportOf(venue, file), snapshot).book =
            InScope(venue, ApplyChanges(EmptyBook, requested.changes))
      BY <2>3 DEF Observed, Base
    <3>3. ApplyChanges(EmptyBook, requested.changes) \in Books
      BY <2>1, EmptyBookType, ApplyChangesStep
    <3>4. ReportOf(venue, opened).book = ApplyChanges(EmptyBook, requested.changes)
      BY <2>1, <3>1, <3>2, <3>3, InScopeType
    <3>5. ReportOf(venue, file').book = BookAfter(ReportOf(venue, opened).book, kept)
      BY <2>8, <2>15 DEF Continued
    <3>6. InScope(venue, book) = book
      BY <2>1, InScopeType
    <3> QED BY <2>14, <3>4, <3>5, <3>6
  <2>17. SourceIs' /\ FileAccepted'
    <3> SUFFICES ASSUME ~ history.lost, UnreadIn(file') = {}
                 PROVE  Normalized(venue, file').source = update /\ AllAccepted(venue, file')
      BY <1>1, <2>9 DEF SourceIs, FileAccepted
    <3>1. UnreadIn(opened) = {} /\ UnreadIn(kept) = {}
      BY <2>6, <2>8, UnreadJoined
    <3>2. UnreadIn(file) = {} /\ ~ Unread(snapshot)
      BY <2>3, <2>5, <3>1, UnreadStep DEF opened
    <3>3. AllAccepted(venue, file) /\ StatusAt(venue, file, snapshot) = "Accepted"
      BY <1>2, <2>3, <3>2 DEF FileAccepted, StatusAt, StatusOf
    <3>4. AllAccepted(venue, opened) /\ Normalized(venue, opened).source = requested.id
      BY <2>3, <2>5, <3>2, <3>3, OneMoreAccepted DEF opened
    <3>5. Normalized(venue, file').source = requested.id + Len(kept) /\ AllAccepted(venue, file')
      BY <2>8, <2>15, <3>1, <3>4 DEF Continued
    <3>6. requested.id + Len(kept) = update
      BY <2>1, <2>2, <2>14
    <3> QED BY <3>5, <3>6
  <2>18. FileHas'
    <3> SUFFICES ASSUME ~ history.lost, NEW p \in Prices, p \notin history'.forgotten
                 PROVE  BookAfter(EmptyBook, file')[p] = InScope(venue, book)[p]
      BY <1>1, <2>9 DEF FileHas
    <3> DEFINE before == BookAfter(EmptyBook, file)
    <3>1. before \in Books /\ EmptyBook \in Books
      BY <2>5, EmptyBookType, BookAfterStep
    <3>2. ASSUME NEW b \in Books
          PROVE  BookAfter(b, more) = BookAfter(ApplyChanges(b, snapshot.changes), kept)
      <4>1. << snapshot >> \in Seq(CaptureRecord) /\ << snapshot >> = Append(<< >>, snapshot)
            /\ << >> \in Seq(CaptureRecord)
        BY <2>3
      <4>2. BookAfter(b, << snapshot >>) = ApplyChanges(b, snapshot.changes)
        <5>1. BookAfter(b, << >>) = b
          BY BookAfterStep
        <5>2. BookAfter(b, Append(<< >>, snapshot)) = ApplyChanges(BookAfter(b, << >>), snapshot.changes)
          BY <2>3, <4>1, BookAfterStep
        <5> QED BY <4>1, <5>1, <5>2
      <4>3. BookAfter(b, << snapshot >> \o kept) = BookAfter(BookAfter(b, << snapshot >>), kept)
        BY <2>6, <4>1, JoinedBook
      <4> QED BY <4>2, <4>3 DEF more
    <3>3. BookAfter(EmptyBook, file') = BookAfter(before, more)
      <4>1. BookAfter(EmptyBook, opened \o kept) = BookAfter(BookAfter(EmptyBook, opened), kept)
        BY <2>6, <2>8, <3>1, JoinedBook
      <4>2. BookAfter(EmptyBook, opened) = ApplyChanges(before, snapshot.changes)
        BY <2>3, <2>5, <3>1, BookAfterStep DEF opened
      <4> HIDE DEF before
      <4> QED BY <2>8, <3>1, <3>2, <4>1, <4>2
    <3> HIDE DEF before
    <3>4. BookAfter(EmptyBook, more) = book /\ InScope(venue, book) = book
      BY <2>1, <2>3, <2>14, <3>1, <3>2, InScopeType
    <3>5. Gives(before, BookAfter(before, more), BookAfter(EmptyBook, more), PricesOf(more))
      BY <2>8, <3>1, RecordsGive
    <3>6. /\ p \in PricesOf(more) => BookAfter(before, more)[p] = book[p]
          /\ p \notin PricesOf(more) => BookAfter(before, more)[p] = before[p]
      BY <3>4, <3>5 DEF Gives
    <3>7. CASE p \in PricesOf(more)
      BY <3>3, <3>4, <3>6, <3>7
    <3>8. CASE p \notin PricesOf(more) /\ file # << >>
      <4>1. before[p] = InScope(venue, book)[p]
        BY <1>2, <2>9, <3>8 DEF FileHas, before
      <4> QED BY <3>3, <3>4, <3>6, <3>8, <4>1
    <3>9. CASE p \notin PricesOf(more) /\ file = << >>
      <4>1. before = EmptyBook
        BY <3>9, EmptyBookType, BookAfterStep DEF before
      <4> QED BY <3>3, <3>4, <3>6, <3>9, <4>1
    <3> QED BY <3>7, <3>8, <3>9
  <2>19. Rises'
    <3>1. Rising(opened)
      BY <1>2, <2>3, <2>5, RisesByOne DEF Rises, opened
    <3>2. opened # << >> /\ opened[Len(opened)] = snapshot
      BY <2>3, <2>5 DEF opened
    <3>3. Rising(opened \o kept)
      BY <2>3, <2>6, <2>8, <3>1, <3>2, RisesOn
    <3>4. DOMAIN << >> = {}
      OBVIOUS
    <3> QED BY <1>4, <2>8, <3>3, <3>4 DEF Rises, Upward
  <2> QED BY <2>10, <2>11, <2>12, <2>13, <2>16, <2>17, <2>18, <2>19 DEF Inv
<1> QED BY <1>1, <1>3, <1>4

(* Every step keeps the invariant. *)
LEMMA NextKeeps == Inv /\ [Next]_vars => Inv'
<1> SUFFICES ASSUME Inv, [Next]_vars
             PROVE  Inv'
  OBVIOUS
<1>1. CASE \E price \in Prices, quantity \in Quantities, delivered \in BOOLEAN :
             UpdateBook(price, quantity, delivered)
  BY <1>1, UpdateBookKeeps
<1>2. CASE Connect
  BY <1>2, ConnectKeeps
<1>3. CASE Disconnect
  BY <1>3, DisconnectKeeps
<1>4. CASE AnswerSnapshot
  BY <1>4, AnswerSnapshotKeeps
<1>5. CASE FinishBootstrap
  BY <1>5, FinishBootstrapKeeps
<1>6. CASE UNCHANGED vars
  BY <1>6 DEF vars, Inv, Types, Links, Count, Rises, Bridges, ReportHas, SourceIs, FileAccepted,
              FileHas, AllAccepted
<1> QED BY <1>1, <1>2, <1>3, <1>4, <1>5, <1>6 DEF Next

-------------------------------------------------------------------------------
(* The theorems. *)

(***************************************************************************)
(* Whatever the client records, loses and fetches again, the invariant of  *)
(* the pipeline holds: the messages buffered bridge to the snapshot, the   *)
(* adapter accepts every record while nothing was lost and none was        *)
(* without changes, and the changes in the file make the venue's book but  *)
(* for the levels it was not told of.                                      *)
(***************************************************************************)
THEOREM PipelineInvariant == Spec => []Inv
<1> QED BY InitInv, NextKeeps, PTL DEF Spec

(***************************************************************************)
(* Every variable has its type: among others, a record written by the      *)
(* client has a number that the venue has reached and a time its clock     *)
(* has, and changes of prices there are.                                   *)
(***************************************************************************)
THEOREM PipelineTypes == Spec => []TypeOK
<1>1. Inv => TypeOK
  <2> SUFFICES ASSUME Inv
               PROVE  TypeOK
    OBVIOUS
  <2>1. Types
    BY DEF Inv
  <2>2. update \in Nat /\ clock \in Nat
    BY <2>1, ConstantsAre DEF Types
  <2>3. \A record \in RecordUpTo(update, clock) :
          /\ record.kind \in {"snapshot", "depth"}
          /\ record.id \in 0 .. update /\ record.time \in 0 .. clock
          /\ Range(record.changes) \subseteq [price : Prices, quantity : Quantities]
    <3> SUFFICES ASSUME NEW record \in RecordUpTo(update, clock)
                 PROVE  /\ record.kind \in {"snapshot", "depth"}
                        /\ record.id \in 0 .. update /\ record.time \in 0 .. clock
                        /\ Range(record.changes) \subseteq [price : Prices, quantity : Quantities]
      OBVIOUS
    <3>1. /\ record.kind \in {"snapshot", "depth"} /\ record.id \in Nat /\ record.time \in Nat
          /\ record.id <= update /\ record.time <= clock
          /\ record.changes \in Seq(Changes)
      BY ConstantsAre DEF RecordUpTo, CaptureRecord, SourceNumbers
    <3>2. Range(record.changes) \subseteq [price : Prices, quantity : Quantities]
      <4>1. \A S : \A s \in Seq(S) : \A i \in DOMAIN s : s[i] \in S
        OBVIOUS
      <4>2. \A i \in DOMAIN record.changes : record.changes[i] \in Changes
        BY <3>1, <4>1
      <4> QED BY <4>2 DEF Range, Changes
    <3> QED BY <2>2, <3>1, <3>2
  <2>4. Range(file) \cup Range(buffered) \subseteq RecordUpTo(update, clock)
    <3>1. file \in Seq(RecordUpTo(update, clock)) /\ buffered \in Seq(RecordUpTo(update, clock))
      BY <2>1, <2>2, RecordsUpTo DEF Types
    <3> QED BY <3>1 DEF Range
  <2> QED BY <2>1, <2>3, <2>4 DEF Types, TypeOK
<1> QED BY <1>1, PipelineInvariant, PTL

(***************************************************************************)
(* The quality report (data_quality.py) has the venue's book, or of Kraken *)
(* the levels in scope, whenever a connection is up and no update was      *)
(* lost: after any number of reconnects, and whatever the receipt times.   *)
(***************************************************************************)
THEOREM ReportRebuildsTheBook == Spec => []ReportHasTheBook
<1>1. Inv => ReportHasTheBook
  BY DEF Inv, ReportHas, ReportHasTheBook, Report
<1> QED BY <1>1, PipelineInvariant, PTL

(***************************************************************************)
(* The gaps that the quality report counts in a file of Binance and those  *)
(* that the adapter finds differ by no more than the messages without      *)
(* changes, which move the report's number on and not the adapter's: over  *)
(* updates lost, snapshots and reconnects.  Where there are none of those, *)
(* two programs with different rules count the same.                       *)
(***************************************************************************)
THEOREM ReportAndAdapterAgreeOnGaps == Spec => []ReportCountsTheGaps
<1>1. Inv => ReportCountsTheGaps
  <2> SUFFICES ASSUME Inv, venue = "Binance"
               PROVE  /\ Report.gaps <= Cardinality({event \in Events : event.status = "Gap"}) +
                                        Cardinality(UnreadIn(file))
                      /\ Cardinality({event \in Events : event.status = "Gap"}) <=
                           Report.gaps + Cardinality(UnreadIn(file))
    BY DEF ReportCountsTheGaps
  <2>1. file \in Seq(CaptureRecord)
    <3>1. file \in Seq(RecordUpTo(update, clock)) /\ update \in Nat /\ clock \in Nat
      BY ConstantsAre DEF Inv, Types
    <3> QED BY <3>1, RecordsUpTo
  <2> DEFINE source == Normalized("Binance", file).source
             sequence == ReportOf("Binance", file).sequence
             counted == ReportOf("Binance", file).gaps
             found == Cardinality(GapsIn(Normalized("Binance", file).events))
             unread == Cardinality(UnreadIn(file))
  <2>2. /\ Counts(source, sequence, LastOf(file), counted, found, unread)
        /\ found \in Nat /\ unread \in Nat /\ counted \in Nat
    <3>1. Rising(file)
      BY DEF Inv, Rises
    <3>2. /\ IsFiniteSet(GapsIn(Normalized("Binance", file).events)) /\ IsFiniteSet(UnreadIn(file))
          /\ Counts(source, sequence, LastOf(file), counted, found, unread)
      BY <2>1, <3>1, GapsAgree DEF GapsCounted
    <3>3. counted \in Nat
      BY <2>1, ReportStep DEF ReportState
    <3> QED BY <3>2, <3>3, FS_CardinalityType
  <2>3. found = Cardinality({event \in Events : event.status = "Gap"}) /\ counted = Report.gaps
    BY DEF Report, Events, GapsIn
  <2> HIDE DEF source, sequence, counted, found, unread
  <2>4. counted <= found + unread /\ found <= counted + unread
    BY <2>2 DEF Counts
  <2> QED BY <2>3, <2>4 DEF unread
<1> QED BY <1>1, PipelineInvariant, PTL

(* What the numbers that the adapter gives may come to. *)
LEMMA NumbersFit ==
  ASSUME Inv
  PROVE  /\ file \in Seq(CaptureRecord)
         /\ Normalized(venue, file).next - 1 <= MaxSequence
<1> DEFINE n == Normalized(venue, file).next
           c == Cardinality(Prices)
<1>1. /\ file \in Seq(RecordUpTo(update, clock)) /\ buffered \in Seq(MessageUpTo(update, clock))
      /\ update \in Nat /\ clock \in Nat /\ update <= MaxUpdates
      /\ connections \in Nat /\ connections <= MaxConnections
  BY ConstantsAre DEF Inv, Types
<1>2. file \in Seq(CaptureRecord)
  BY <1>1, RecordsUpTo
<1>3. Len(file) <= MaxUpdates + MaxConnections /\ Len(file) \in Nat
  <2> DEFINE one == IF link = "Bootstrapping" THEN 1 ELSE 0
  <2>1. Len(file) + Len(buffered) + one <= update + connections /\ one \in Nat
    BY DEF Inv, Count
  <2> HIDE DEF one
  <2>2. Len(file) \in Nat /\ Len(buffered) \in Nat
    BY <1>1
  <2> QED BY <1>1, <2>1, <2>2, ConstantsAre
<1>4. n \in Int /\ n - 1 <= Len(file) * c
  <2>1. Normalized(venue, file) \in Reading
    BY <1>2, NormalizedStep
  <2> QED BY <1>2, <2>1, EventsAreArranged DEF Arranged, Reading
<1>5. c \in Nat
  BY PricesAreNumbers
<1>6. (MaxUpdates + MaxConnections) * c <= MaxSequence
  BY MaxConnectionsAssumption
<1> HIDE DEF n, c
<1>7. \A a, b, d \in Nat : a <= b => a * d <= b * d /\ a * d \in Int /\ b * d \in Int
  OBVIOUS
<1>8. MaxUpdates + MaxConnections \in Nat /\ MaxSequence \in Nat
  BY ConstantsAre
<1>9. n - 1 <= MaxSequence
  <2>1. /\ Len(file) * c <= (MaxUpdates + MaxConnections) * c
        /\ Len(file) * c \in Int /\ (MaxUpdates + MaxConnections) * c \in Int
    BY <1>3, <1>5, <1>7, <1>8
  <2>2. \A w, x, y, z \in Int : w <= x /\ x <= y /\ y <= z => w <= z
    OBVIOUS
  <2>3. n - 1 \in Int /\ MaxSequence \in Int
    BY <1>4, <1>8
  <2> QED BY <1>4, <1>6, <2>1, <2>2, <2>3
<1> QED BY <1>2, <1>9 DEF n

(***************************************************************************)
(* Where receipt times do not contradict the order of the file, and no     *)
(* refused message shares its time with another, the replay                *)
(* (multi_replay.cpp) judges every event of the sorted log as the adapter  *)
(* did, over several connections, gaps and snapshots between: the sort of  *)
(* the converter has not broken the numbers.                               *)
(***************************************************************************)
THEOREM ReplayJudgesAsTheAdapter == Spec => []AcceptedEventsAreApplied
<1>1. Inv => AcceptedEventsAreApplied
  <2> SUFFICES ASSUME Inv, InReceiptOrder, ~ RefusedAtSameTime, OpensAccepted
               PROVE  Replay.disputed = {}
    BY DEF AcceptedEventsAreApplied
  <2>1. file \in Seq(CaptureRecord) /\ Normalized(venue, file).next - 1 <= MaxSequence
    BY NumbersFit
  <2>2. Log = Normalized(venue, file).events
    BY <2>1, LogIsInOrder
  <2>3. AcceptedFirst(venue, file)
    BY <2>2 DEF OpensAccepted, AcceptedFirst
  <2>4. Followed(venue, file)
    BY <2>1, <2>3, ReplayFollows
  <2> QED BY <2>2, <2>4 DEF Followed, Replay
<1> QED BY <1>1, PipelineInvariant, PTL

(***************************************************************************)
(* If nothing was lost, and no message was without changes, the replay of  *)
(* the file has the venue's book but for the levels that its capacity made *)
(* it let go and that were not told since, which it lacks, and for levels  *)
(* whose removal no record told: those gone while the connection was down, *)
(* and those pushed out of Kraken's scope.  The capacity is any.           *)
(***************************************************************************)
THEOREM ReplayKeepsOnlyForgottenLevels == Spec => []OnlyForgottenLevelsDiffer
<1>1. Inv => OnlyForgottenLevelsDiffer
  <2> SUFFICES ASSUME Inv, InReceiptOrder, link = "Up", ~ history.lost, UnreadIn(file) = {},
                      NEW p \in Prices \ history.forgotten
               PROVE  Replay.book[p] = IF p \in Replay.evicted THEN 0 ELSE InScope(venue, book)[p]
    BY DEF OnlyForgottenLevelsDiffer
  <2>1. file \in Seq(CaptureRecord) /\ Normalized(venue, file).next - 1 <= MaxSequence
    BY NumbersFit
  <2>2. AllAccepted(venue, file) /\ file # << >>
    BY DEF Inv, FileAccepted, Links
  <2>3. ~ RefusedAtSameTime
    <3>1. \A event \in Events : event.status = "Accepted"
      BY <2>2 DEF Events, Range, AllAccepted
    <3> QED BY <3>1 DEF RefusedAtSameTime
  <2>4. Log = Normalized(venue, file).events
    BY <2>1, <2>3, LogIsInOrder
  <2>5. AcceptedFirst(venue, file)
    <3> DEFINE events == Normalized(venue, file).events
    <3>1. events \in Seq(Event)
      BY <2>1, NormalizedStep DEF Reading
    <3>2. \A i \in DOMAIN events : events[i].status = "Accepted"
      BY <2>2 DEF AllAccepted
    <3> HIDE DEF events
    <3>3. events # << >> => 1 \in DOMAIN events
      BY <3>1
    <3> QED BY <3>2, <3>3 DEF AcceptedFirst, events
  <2>6. Shows(Replay, BookAfter(EmptyBook, file))
    BY <2>1, <2>2, <2>4, <2>5, ReplayFollows DEF Followed, Replay
  <2>7. BookAfter(EmptyBook, file)[p] = InScope(venue, book)[p]
    BY <2>2 DEF Inv, FileHas
  <2> QED BY <2>6, <2>7 DEF Shows
<1> QED BY <1>1, PipelineInvariant, PTL
===============================================================================
