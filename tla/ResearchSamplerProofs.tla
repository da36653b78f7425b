------------------------- MODULE ResearchSamplerProofs -------------------------
(***************************************************************************)
(* Proofs about the research sampler, for every set of venues, clock       *)
(* interval, range of timestamps, staleness bound and set of books.        *)
(***************************************************************************)
EXTENDS ResearchSampler, DataInduction

-------------------------------------------------------------------------------
(* The grid of the clocks: the multiples of Interval. *)

LEMMA DivMod ==
  ASSUME NEW a \in Nat, NEW n \in Nat \ {0}
  PROVE  /\ a = n * (a \div n) + (a % n)
         /\ a % n \in 0 .. n - 1
         /\ a \div n \in Nat
OBVIOUS

LEMMA MultipleRemainder ==
  ASSUME NEW q \in Nat, NEW n \in Nat \ {0}
  PROVE  (n * q) % n = 0
OBVIOUS

LEMMA MultiplesApart ==
  ASSUME NEW n \in Nat \ {0}, NEW q \in Nat, NEW p \in Nat
  PROVE  /\ n * q \in Nat
         /\ n * q < n * p <=> q < p
         /\ q < p => n * q + n <= n * p
OBVIOUS

(* The first grid point after a time, were there no last timestamp. *)
After(c) == c + (Interval - (c % Interval))

LEMMA FirstAfter ==
  ASSUME NEW c \in Nat
  PROVE  /\ After(c) \in Nat /\ After(c) > c /\ After(c) % Interval = 0
         /\ \A g \in Nat : g % Interval = 0 /\ g > c => g >= After(c)
<1> DEFINE n == Interval
           q == c \div n
<1>1. n \in Nat \ {0}
  BY IntervalAssumption, MaxTimestampAssumption
<1> HIDE DEF n
<1>2. c = n * q + (c % n) /\ c % n \in 0 .. n - 1 /\ q \in Nat
  BY <1>1, DivMod
<1> HIDE DEF q
<1>3. n * q \in Nat /\ n * (q + 1) = n * q + n
  BY <1>1, <1>2, MultiplesApart
<1>4. c + (n - (c % n)) = n * (q + 1)
  BY <1>1, <1>2, <1>3
<1>5. (n * (q + 1)) % n = 0
  BY <1>1, <1>2, MultipleRemainder
<1>6. n * (q + 1) > c /\ n * (q + 1) \in Nat
  BY <1>1, <1>2, <1>3
<1>7. ASSUME NEW g \in Nat, g % n = 0, g > c
      PROVE  g >= n * (q + 1)
  <2> DEFINE p == g \div n
  <2>1. g = n * p + (g % n) /\ p \in Nat
    BY <1>1, DivMod
  <2> HIDE DEF p
  <2>2. g = n * p /\ n * p \in Nat
    <3>1. n * p \in Nat
      BY <2>1, <1>1, MultiplesApart
    <3> QED BY <2>1, <3>1, <1>7
  <2>3. n * q < n * p
    BY <2>2, <1>1, <1>2, <1>3, <1>7
  <2>4. n * q + n <= n * p
    BY <2>1, <2>3, <1>1, <1>2, MultiplesApart
  <2> QED BY <2>2, <2>4, <1>3
<1> QED BY <1>4, <1>5, <1>6, <1>7 DEF After, n

LEMMA GridShift ==
  ASSUME NEW a \in Nat, a % Interval = 0, NEW g \in Nat, g >= a
  PROVE  (g - a) % Interval = 0 <=> g % Interval = 0
<1> DEFINE n == Interval
<1>1. n \in Nat \ {0}
  BY IntervalAssumption, MaxTimestampAssumption
<1> HIDE DEF n
<1> DEFINE p == a \div n
           q == g \div n
           r == (g - a) \div n
<1>2. /\ a = n * p + (a % n) /\ p \in Nat
      /\ g = n * q + (g % n) /\ q \in Nat
      /\ g - a = n * r + ((g - a) % n) /\ r \in Nat
  <2>1. g - a \in Nat
    OBVIOUS
  <2> QED BY <2>1, <1>1, DivMod
<1>3. a = n * p
  BY <1>1, <1>2 DEF n
<1> HIDE DEF p, q, r
<1>4. n * p \in Nat /\ n * q \in Nat /\ n * r \in Nat
  BY <1>1, <1>2, MultiplesApart
<1>5. ASSUME (g - a) % n = 0
      PROVE  g % n = 0
  <2>1. g = n * p + n * r
    BY <1>2, <1>3, <1>4, <1>5
  <2>2. n * (p + r) = n * p + n * r /\ p + r \in Nat
    BY <1>1, <1>2
  <2> QED BY <2>1, <2>2, <1>1, MultipleRemainder
<1>6. ASSUME g % n = 0
      PROVE  (g - a) % n = 0
  <2>1. g = n * q
    BY <1>2, <1>4, <1>6
  <2>2. ~ (q < p)
    BY <2>1, <1>1, <1>2, <1>3, <1>4, MultiplesApart
  <2>3. q - p \in Nat /\ n * (q - p) = n * q - n * p
    BY <2>2, <1>1, <1>2
  <2> QED BY <2>1, <2>3, <1>1, <1>3, MultipleRemainder
<1> QED BY <1>5, <1>6 DEF n

(* A bounded set of natural numbers that is not empty has a greatest one. *)
LEMMA GreatestNatural ==
  ASSUME NEW T \in SUBSET Nat, T # {}, NEW b \in Nat, \A x \in T : x <= b
  PROVE  Max(T) \in T /\ \A x \in T : x <= Max(T)
<1> DEFINE U == {y \in Nat : \E x \in T : y = b - x}
<1>1. U # {}
  <2>1. PICK x \in T : TRUE
    OBVIOUS
  <2>2. b - x \in U
    BY <2>1
  <2> QED BY <2>2
<1>2. PICK y \in U : \A z \in U : y <= z
  <2>1. U \in SUBSET Nat
    OBVIOUS
  <2> HIDE DEF U
  <2> QED BY <2>1, <1>1, LeastNatural
<1>3. PICK m \in T : y = b - m
  BY <1>2
<1>4. \A x \in T : m >= x
  <2> TAKE x \in T
  <2>1. b - x \in U /\ x \in Nat /\ m \in Nat
    OBVIOUS
  <2>2. b - m <= b - x
    BY <2>1, <1>2, <1>3
  <2> QED BY <2>1, <2>2
<1>5. Max(T) \in T /\ \A x \in T : Max(T) >= x
  BY <1>4 DEF Max
<1> QED BY <1>5

(* next_clock_after() is the first grid point after a time, if there is one. *)
LEMMA NextClockIsFirst ==
  ASSUME NEW c \in Timestamps
  PROVE  NextClockAfter(c) = IF After(c) > MaxTimestamp THEN None ELSE After(c)
<1>1. c \in Nat /\ MaxTimestamp \in Nat /\ Interval \in Nat \ {0}
  BY IntervalAssumption, MaxTimestampAssumption DEF Timestamps
<1>2. c % Interval \in 0 .. Interval - 1
  BY <1>1, DivMod
<1> QED BY <1>1, <1>2 DEF NextClockAfter, Later, After

(***************************************************************************)
(* advance(): a clock that stands at the first grid point after one time   *)
(* passes the grid points up to another, and then stands at the first      *)
(* after that.                                                             *)
(***************************************************************************)
LEMMA ClockAdvances ==
  ASSUME NEW c \in Timestamps, NEW t \in Timestamps, c <= t,
         NEW state \in EmitterState, state.next_clock = NextClockAfter(c)
  PROVE  /\ Clocks(state, t) = Grid(c, t)
         /\ Advanced(state, t) = [state EXCEPT !.next_clock = NextClockAfter(t)]
<1>1. /\ c \in Nat /\ t \in Nat /\ MaxTimestamp \in Nat /\ t <= MaxTimestamp
      /\ Timestamps \subseteq Nat /\ Interval \in Nat \ {0} /\ None \notin Int
  BY IntervalAssumption, MaxTimestampAssumption, NoneAssumption DEF Timestamps
<1> DEFINE a == After(c)
<1>2. /\ a \in Nat /\ a > c /\ a % Interval = 0
      /\ \A g \in Nat : g % Interval = 0 /\ g > c => g >= a
  BY <1>1, FirstAfter
<1>3. state.next_clock = IF a > MaxTimestamp THEN None ELSE a
  BY NextClockIsFirst
<1> HIDE DEF a
<1>4. Clocks(state, t) = Grid(c, t)
  <2>1. CASE a > MaxTimestamp
    <3>1. Clocks(state, t) = {}
      BY <2>1, <1>3 DEF Clocks
    <3>2. \A g \in Timestamps : ~ (g % Interval = 0 /\ c < g)
      BY <2>1, <1>1, <1>2 DEF Timestamps
    <3>3. Grid(c, t) = {}
      BY <3>2 DEF Grid
    <3> QED BY <3>1, <3>3
  <2>2. CASE ~ (a > MaxTimestamp)
    <3>1. state.next_clock = a /\ a # None
      BY <2>2, <1>1, <1>2, <1>3
    <3>2. \A g \in Timestamps : a <= g /\ (g - a) % Interval = 0 <=>
                                g % Interval = 0 /\ g # 0 /\ c < g
      <4> TAKE g \in Timestamps
      <4>1. g \in Nat
        BY <1>1
      <4>2. a <= g => ((g - a) % Interval = 0 <=> g % Interval = 0)
        BY <4>1, <1>2, GridShift
      <4>3. a <= g => c < g /\ g # 0
        BY <4>1, <1>1, <1>2
      <4>4. g % Interval = 0 /\ c < g => a <= g
        BY <4>1, <1>1, <1>2
      <4> QED BY <4>2, <4>3, <4>4
    <3> QED BY <3>1, <3>2 DEF Clocks, Grid
  <2> QED BY <2>1, <2>2
<1> DEFINE b == After(t)
<1>5. /\ b \in Nat /\ b > t /\ b % Interval = 0
      /\ \A g \in Nat : g % Interval = 0 /\ g > t => g >= b
  BY <1>1, FirstAfter
<1>6. NextClockAfter(t) = IF b > MaxTimestamp THEN None ELSE b
  BY NextClockIsFirst
<1> HIDE DEF b
<1>7. CASE Grid(c, t) = {}
  <2>1. a > t
    <3> SUFFICES ASSUME a <= t
                 PROVE  FALSE
      BY <1>1, <1>2
    <3>1. a \in Timestamps /\ a # 0
      BY <1>1, <1>2 DEF Timestamps
    <3>2. a \in Grid(c, t)
      BY <3>1, <1>2 DEF Grid
    <3> QED BY <3>2, <1>7
  <2>2. a >= b /\ b >= a
    <3>1. b > c
      BY <1>1, <1>5
    <3> QED BY <3>1, <2>1, <1>2, <1>5
  <2>3. a = b
    BY <2>2, <1>2, <1>5
  <2>4. state.next_clock = NextClockAfter(t)
    BY <2>3, <1>3, <1>6
  <2>5. [state EXCEPT !.next_clock = NextClockAfter(t)] = state
    BY <2>4 DEF EmitterState
  <2> QED BY <2>5, <1>4, <1>7 DEF Advanced
<1>8. CASE Grid(c, t) # {}
  <2> DEFINE m == Max(Grid(c, t))
  <2>1. Grid(c, t) \in SUBSET Nat /\ \A g \in Grid(c, t) : g <= t
    BY <1>1 DEF Grid
  <2>2. m \in Grid(c, t) /\ \A g \in Grid(c, t) : g <= m
    <3> HIDE DEF m
    <3> QED BY <2>1, <1>1, <1>8, GreatestNatural DEF m
  <2>3. m \in Nat /\ m % Interval = 0 /\ c < m /\ m <= t
    BY <2>1, <2>2 DEF Grid
  <2> HIDE DEF m
  <2>4. After(m) = m + Interval
    BY <2>3, <1>1 DEF After
  <2>5. /\ m + Interval \in Nat /\ (m + Interval) % Interval = 0
        /\ \A g \in Nat : g % Interval = 0 /\ g > m => g >= m + Interval
    BY <2>3, <2>4, FirstAfter
  <2>6. m + Interval > t
    <3> SUFFICES ASSUME m + Interval <= t
                 PROVE  FALSE
      BY <2>5, <1>1
    <3>1. m + Interval \in Timestamps /\ m + Interval # 0 /\ c < m + Interval
      BY <2>3, <2>5, <1>1 DEF Timestamps
    <3>2. m + Interval \in Grid(c, t)
      BY <3>1, <2>5 DEF Grid
    <3>3. m + Interval <= m
      BY <3>2, <2>2
    <3> QED BY <3>3, <2>3, <1>1
  <2>7. m + Interval = b
    <3>1. m + Interval >= b
      BY <2>5, <2>6, <1>5
    <3>2. b > m
      BY <2>3, <1>1, <1>5
    <3>3. b >= m + Interval
      BY <3>2, <2>5, <1>5
    <3> QED BY <3>1, <3>3, <2>5, <1>5
  <2>8. Later(m, Interval) = NextClockAfter(t)
    <3>1. m > MaxTimestamp - Interval <=> b > MaxTimestamp
      BY <2>3, <2>7, <1>1
    <3> QED BY <3>1, <2>7, <1>6 DEF Later
  <2> QED BY <2>8, <1>4, <1>8 DEF Advanced, m
<1> QED BY <1>4, <1>7, <1>8

-------------------------------------------------------------------------------
(***************************************************************************)
(* The inductive invariant: the synchronizer has heard of each venue just  *)
(* what the emitter knows of it, no later than the last event, and every   *)
(* venue that has been heard of has its clock at the first grid point      *)
(* after the last event.                                                   *)
(***************************************************************************)
Heard(v, sync) ==
  /\ sync.venues[v].observed = states[v].initialized
  /\ sync.venues[v].receipt = states[v].receipt
  /\ sync.venues[v].book = states[v].book
  /\ sync.venues[v].move = move[v]

InStep(sync) ==
  \A v \in VenueIds :
    /\ Heard(v, sync)
    /\ sync.venues[v].observed => sync.latest # None /\ sync.venues[v].time <= sync.latest

Timely(v) ==
  IF states[v].initialized
  THEN /\ current_timestamp # None
       /\ states[v].receipt <= current_timestamp
       /\ states[v].next_clock = NextClockAfter(current_timestamp)
  ELSE states[v].next_clock = None

SamplerTypes ==
  /\ sample_kind \in SampleKind
  /\ current_timestamp \in Timestamps \cup {None}
  /\ states \in [VenueIds -> EmitterState]
  /\ synchronizer \in Synchronizer
  /\ move \in [VenueIds -> -1 .. 1]

SamplerInv ==
  /\ SamplerTypes
  /\ InStep(synchronizer)
  /\ \A v \in VenueIds : Timely(v)
  /\ synchronizer.latest # None =>
       current_timestamp # None /\ synchronizer.latest <= current_timestamp

LEMMA TimestampsAreNatural ==
  /\ Timestamps \subseteq Nat /\ MaxTimestamp \in Nat
  /\ \A t \in Timestamps : t # None /\ t <= MaxTimestamp
BY MaxTimestampAssumption, NoneAssumption DEF Timestamps

-------------------------------------------------------------------------------
(* The clock rows of a call: one of each venue heard of at each grid point *)
(* passed, by time.                                                        *)

IsClockRow(row, time) ==
  /\ row.venue \in VenueIds /\ states[row.venue].initialized
  /\ row.time \in Grid(current_timestamp, time)
  /\ row = Features("Clock", row.venue, states[row.venue], row.time)

LEMMA ClocksPassed ==
  ASSUME SamplerInv, NEW time \in Timestamps, InOrder(time), NEW v \in VenueIds
  PROVE  /\ Clocks(states[v], time) = IF states[v].initialized
                                      THEN Grid(current_timestamp, time) ELSE {}
         /\ Advanced(states[v], time) = IF states[v].initialized
              THEN [states[v] EXCEPT !.next_clock = NextClockAfter(time)] ELSE states[v]
<1>1. states[v] \in EmitterState /\ Timely(v) /\ current_timestamp \in Timestamps \cup {None}
  BY DEF SamplerInv, SamplerTypes
<1>2. CASE states[v].initialized
  <2>1. /\ current_timestamp \in Timestamps /\ current_timestamp <= time
        /\ states[v].next_clock = NextClockAfter(current_timestamp)
    <3>1. /\ current_timestamp # None
          /\ states[v].next_clock = NextClockAfter(current_timestamp)
      BY <1>1, <1>2 DEF Timely
    <3>2. current_timestamp \in Timestamps /\ time >= current_timestamp
      BY <3>1, <1>1 DEF InOrder
    <3> QED BY <3>1, <3>2, TimestampsAreNatural
  <2> QED BY <2>1, <1>1, <1>2, ClockAdvances
<1>3. CASE ~ states[v].initialized
  <2>1. Clocks(states[v], time) = {}
    BY <1>1, <1>3 DEF Timely, Clocks
  <2> QED BY <2>1, <1>3 DEF Advanced
<1> QED BY <1>2, <1>3

LEMMA ClockRowsAreSorted ==
  ASSUME SamplerInv, NEW time \in Timestamps, InOrder(time)
  PROVE  LET rows == ClockRows(time)
         IN  /\ rows \in Seq(FeatureSet)
             /\ \A i \in 1 .. Len(rows) : IsClockRow(rows[i], time)
             /\ \A v \in VenueIds : states[v].initialized =>
                  \A g \in Grid(current_timestamp, time) :
                    \E i \in 1 .. Len(rows) : rows[i].time = g
             /\ \A i, j \in 1 .. Len(rows) : i < j => rows[i].time <= rows[j].time
<1> DEFINE row(v, g) == Features("Clock", v, states[v], g)
           S == UNION {{row(v, g) : g \in Clocks(states[v], time)} : v \in VenueIds}
           R == {p \in S \X S : Precedes(p[1], p[2])}
           rows == ClockRows(time)
           n == Cardinality(S)
<1>1. /\ states \in [VenueIds -> EmitterState] /\ VenueIds \subseteq Nat /\ IsFiniteSet(VenueIds)
      /\ Timestamps \subseteq Nat
      /\ \A t : Grid(current_timestamp, t) \subseteq Timestamps
  BY VenueIdsAssumption, TimestampsAreNatural DEF SamplerInv, SamplerTypes, Grid
<1>2. \A v \in VenueIds : Clocks(states[v], time) =
        IF states[v].initialized THEN Grid(current_timestamp, time) ELSE {}
  BY ClocksPassed
<1>3. \A x \in S : IsClockRow(x, time) /\ x \in FeatureSet
  <2> SUFFICES ASSUME NEW v \in VenueIds, NEW g \in Clocks(states[v], time)
               PROVE  IsClockRow(row(v, g), time) /\ row(v, g) \in FeatureSet
    OBVIOUS
  <2>1. states[v].initialized /\ g \in Grid(current_timestamp, time) /\ g \in Timestamps
    BY <1>1, <1>2
  <2>2. row(v, g).venue = v /\ row(v, g).time = g
    BY DEF Features
  <2>3. states[v] \in EmitterState
    BY <1>1
  <2>4. row(v, g) \in FeatureSet
    BY <2>1, <2>3 DEF Features, FeatureSet, EmitterState, SampleKind
  <2> QED BY <2>1, <2>2, <2>4 DEF IsClockRow
<1>4. \A v \in VenueIds : states[v].initialized => \A g \in Grid(current_timestamp, time) :
        row(v, g) \in S /\ row(v, g).time = g
  <2> SUFFICES ASSUME NEW v \in VenueIds, states[v].initialized,
                      NEW g \in Grid(current_timestamp, time)
               PROVE  row(v, g) \in S /\ row(v, g).time = g
    OBVIOUS
  <2>1. g \in Clocks(states[v], time)
    BY <1>2
  <2>2. row(v, g).time = g
    BY DEF Features
  <2> QED BY <2>1, <2>2
<1>5. IsFiniteSet(S)
  <2> DEFINE D == VenueIds \X Timestamps
             f == [p \in D |-> row(p[1], p[2])]
             T == {row(p[1], p[2]) : p \in D}
  <2>1. IsFiniteSet(Timestamps)
    BY MaxTimestampAssumption, FS_Interval DEF Timestamps
  <2>2. IsFiniteSet(D)
    BY <2>1, <1>1, FS_Product
  <2>3. f \in Surjection(D, T)
    BY DEF Surjection
  <2>4. S \subseteq T
    <3> SUFFICES ASSUME NEW v \in VenueIds, NEW g \in Clocks(states[v], time)
                 PROVE  row(v, g) \in T
      OBVIOUS
    <3>1. << v, g >> \in D
      BY DEF Clocks
    <3> QED BY <3>1
  <2> HIDE DEF D, f, T, S
  <2> QED BY <2>2, <2>3, <2>4, FS_Surjection, FS_Subset
<1> HIDE DEF S
<1>6. \A x \in S : x.time \in Int /\ x.venue \in Int
  <2> TAKE x \in S
  <2>1. x.time \in Timestamps /\ x.venue \in VenueIds
    BY <1>3 DEF FeatureSet
  <2>2. Timestamps \subseteq Int /\ VenueIds \subseteq Int
    BY <1>1
  <2> QED BY <2>1, <2>2
<1>7. /\ \A x \in S : << x, x >> \notin R
      /\ \A x, y, z \in S : << x, y >> \in R /\ << y, z >> \in R => << x, z >> \in R
      /\ \A x, y \in S : x # y => << x, y >> \in R \/ << y, x >> \in R
  <2>1. \A x, y \in S : x.time = y.time /\ x.venue = y.venue => x = y
    BY <1>3 DEF IsClockRow
  <2>2. \A x, y \in S : << x, y >> \in R <=> Precedes(x, y)
    OBVIOUS
  <2> HIDE DEF R
  <2>3. \A x \in S : ~ Precedes(x, x)
    BY <1>6 DEF Precedes
  <2>4. \A x, y, z \in S : Precedes(x, y) /\ Precedes(y, z) => Precedes(x, z)
    BY <1>6 DEF Precedes
  <2>5. \A x, y \in S : x # y => Precedes(x, y) \/ Precedes(y, x)
    BY <1>6, <2>1 DEF Precedes
  <2> QED BY <2>2, <2>3, <2>4, <2>5
<1>10. rows = [i \in 1 .. n |-> CHOOSE x \in S : Cardinality({y \in S : << y, x >> \in R}) = i - 1]
  BY DEF ClockRows, Sorted, S
<1> HIDE DEF R, rows
<1>11. /\ n \in Nat /\ rows \in [1 .. n -> S]
       /\ \A x \in S : \E i \in 1 .. n : rows[i] = x
       /\ \A i, j \in 1 .. n : i < j => << rows[i], rows[j] >> \in R
  <2> DEFINE s == [i \in 1 .. Cardinality(S) |->
                     CHOOSE x \in S : Cardinality({y \in S : << y, x >> \in R}) = i - 1]
  <2>1. /\ Cardinality(S) \in Nat
        /\ s \in [1 .. Cardinality(S) -> S]
        /\ \A x \in S : \E i \in 1 .. Cardinality(S) : s[i] = x
        /\ \A i, j \in 1 .. Cardinality(S) : i < j => << s[i], s[j] >> \in R
    BY <1>5, <1>7, RankedList
  <2>2. rows = s
    BY <1>10
  <2> HIDE DEF s
  <2> QED BY <2>1, <2>2
<1> HIDE DEF n
<1>12. rows \in Seq(FeatureSet) /\ Len(rows) = n
  <2>1. rows \in [1 .. n -> FeatureSet] /\ n \in Nat
    BY <1>3, <1>11
  <2> QED BY <2>1
<1>13. \A i, j \in 1 .. n : i < j => rows[i].time <= rows[j].time
  <2> SUFFICES ASSUME NEW i \in 1 .. n, NEW j \in 1 .. n, i < j
               PROVE  rows[i].time <= rows[j].time
    OBVIOUS
  <2>1. Precedes(rows[i], rows[j]) /\ rows[i] \in S /\ rows[j] \in S
    BY <1>11 DEF R
  <2>2. rows[i].time \in Int /\ rows[j].time \in Int
    BY <2>1, <1>6
  <2> QED BY <2>1, <2>2 DEF Precedes
<1>14. \A v \in VenueIds : states[v].initialized => \A g \in Grid(current_timestamp, time) :
         \E i \in 1 .. n : rows[i].time = g
  BY <1>4, <1>11
<1>15. \A i \in 1 .. n : IsClockRow(rows[i], time)
  BY <1>3, <1>11
<1> QED BY <1>12, <1>13, <1>14, <1>15 DEF rows

-------------------------------------------------------------------------------
(* A sample says nothing of the synchronizer but what it has of the venues, *)
(* the times of their rows apart.                                           *)
LEMMA SameSamples ==
  ASSUME NEW s, NEW t, NEW time,
         \A v \in VenueIds :
           /\ s.venues[v].observed = t.venues[v].observed
           /\ s.venues[v].receipt = t.venues[v].receipt
           /\ s.venues[v].book = t.venues[v].book
           /\ s.venues[v].move = t.venues[v].move
  PROVE  SampleOf(s, time) = SampleOf(t, time)
<1>1. \A v \in VenueIds : Usable(s.venues[v], time) <=> Usable(t.venues[v], time)
  BY DEF Usable
<1>2. \A v \in VenueIds : VenueFeatures(s.venues[v], time) = VenueFeatures(t.venues[v], time)
  <2> TAKE v \in VenueIds
  <2> DEFINE a == s.venues[v]
             b == t.venues[v]
  <2>1. /\ a.observed = b.observed /\ a.receipt = b.receipt
        /\ a.book = b.book /\ a.move = b.move
    OBVIOUS
  <2> HIDE DEF a, b
  <2>2. VenueFeatures(a, time) = VenueFeatures(b, time)
    BY <2>1 DEF VenueFeatures, Usable
  <2> QED BY <2>2 DEF a, b
<1>3. \A v, w \in VenueIds : PairFeatures(s.venues[v], s.venues[w], time) =
                             PairFeatures(t.venues[v], t.venues[w], time)
  BY <1>1 DEF PairFeatures
<1>4. ConsolidatedReference(s, time) = ConsolidatedReference(t, time)
  <2> DEFINE valid(x) == {v \in VenueIds : Usable(x.venues[v], time) /\ Uncrossed(x.venues[v].book)}
             mids(x) == [v \in valid(x) |-> Mid(x.venues[v].book)]
  <2>1. valid(s) = valid(t)
    BY <1>1
  <2>2. mids(s) = mids(t)
    BY <2>1
  <2>3. \A x : ConsolidatedReference(x, time) =
          [time |-> time, venues |-> Cardinality(valid(x)),
           mid |-> IF valid(x) = {} THEN None ELSE SumFunction(mids(x))]
    BY DEF ConsolidatedReference
  <2> HIDE DEF valid, mids
  <2> QED BY <2>1, <2>2, <2>3
<1>5. \A p \in VenuePairs : p[1] \in VenueIds /\ p[2] \in VenueIds
  BY DEF VenuePairs
<1> HIDE DEF VenuePairs
<1> QED BY <1>2, <1>3, <1>4, <1>5 DEF SampleOf

LEMMA SamplesOfStates ==
  ASSUME NEW sync, \A v \in VenueIds : Heard(v, sync), NEW time
  PROVE  SampleOf(sync, time) = AsOf(time)
BY SameSamples DEF AsOf, Heard

-------------------------------------------------------------------------------
(* The loop of consume_emitted_features(). *)

Samples == {SampleOf(sync, time) : sync \in Synchronizer, time \in Timestamps}

Done == [sync : Synchronizer, pending : Timestamps \cup {None}, output : Seq(Samples),
         refused : BOOLEAN]

Start == [sync |-> synchronizer, pending |-> None, output |-> << >>, refused |-> FALSE]

(* What is left when the loop ends. *)
Flushed(done) ==
  IF done.pending = None \/ done.refused THEN done.output
  ELSE Append(done.output, SampleOf(done.sync, done.pending))

LEMMA UpdatedType ==
  ASSUME NEW sync \in Synchronizer, NEW row \in FeatureSet
  PROVE  /\ Updated(sync, row) \in Synchronizer
         /\ Updated(sync, row).latest = row.time
         /\ \A v \in VenueIds : v # row.venue => Updated(sync, row).venues[v] = sync.venues[v]
         /\ Updated(sync, row).venues[row.venue] =
              [observed |-> TRUE, receipt |-> row.receipt, time |-> row.time, book |-> row.book,
               move |-> IF row.kind = "Clock" THEN sync.venues[row.venue].move
                        ELSE IF ~ sync.venues[row.venue].observed THEN 0
                        ELSE Sign(Mid(sync.venues[row.venue].book), Mid(row.book))]
<1>1. \A from, to : Sign(from, to) \in -1 .. 1
  BY DEF Sign
<1>2. sync.venues \in [VenueIds -> VenueState] /\ row.venue \in VenueIds
  BY DEF Synchronizer, FeatureSet
<1>3. sync.venues[row.venue].move \in -1 .. 1
  BY <1>2 DEF VenueState
<1> DEFINE new == [observed |-> TRUE, receipt |-> row.receipt, time |-> row.time, book |-> row.book,
                   move |-> IF row.kind = "Clock" THEN sync.venues[row.venue].move
                            ELSE IF ~ sync.venues[row.venue].observed THEN 0
                            ELSE Sign(Mid(sync.venues[row.venue].book), Mid(row.book))]
<1>4. new \in VenueState
  <2>1. new.move \in -1 .. 1
    BY <1>1, <1>3
  <2> HIDE DEF Sign, Mid
  <2> QED BY <2>1 DEF VenueState, FeatureSet
<1>5. Updated(sync, row) = [venues |-> [sync.venues EXCEPT ![row.venue] = new], latest |-> row.time]
  BY DEF Updated
<1>6. row.time \in Timestamps
  BY DEF FeatureSet
<1> HIDE DEF new
<1>7. Updated(sync, row) \in Synchronizer
  BY <1>2, <1>4, <1>5, <1>6 DEF Synchronizer
<1>8. Updated(sync, row).venues[row.venue] = new
  BY <1>2, <1>5
<1> QED BY <1>2, <1>5, <1>7, <1>8 DEF new

LEMMA ConsumedType ==
  ASSUME NEW done \in Done, NEW row \in FeatureSet
  PROVE  Consumed(done, row) \in Done
<1> DEFINE flush == done.pending # None /\ (row.kind # "Clock" \/ row.time # done.pending)
           written == IF flush THEN Append(done.output, SampleOf(done.sync, done.pending))
                      ELSE done.output
           pending == IF flush THEN None ELSE done.pending
           sync == Updated(done.sync, row)
           outcome == IF sample_kind = "Event" /\ row.kind = "Event"
                     THEN Append(written, SampleOf(sync, row.time)) ELSE written
           later == IF sample_kind = "Clock" /\ row.kind = "Clock" THEN row.time ELSE pending
<1>1. /\ done.sync \in Synchronizer /\ done.pending \in Timestamps \cup {None}
      /\ done.output \in Seq(Samples) /\ done.refused \in BOOLEAN /\ row.time \in Timestamps
  BY DEF Done, FeatureSet
<1>2. sync \in Synchronizer
  BY <1>1, UpdatedType
<1>3. \A s \in Synchronizer, t \in Timestamps : SampleOf(s, t) \in Samples
  BY DEF Samples
<1> HIDE DEF sync
<1>4. written \in Seq(Samples)
  <2>1. CASE flush
    <3>1. SampleOf(done.sync, done.pending) \in Samples
      BY <2>1, <1>1, <1>3
    <3> QED BY <3>1, <2>1, <1>1
  <2>2. CASE ~ flush
    BY <2>2, <1>1
  <2> QED BY <2>1, <2>2
<1>5. outcome \in Seq(Samples)
  <2>1. SampleOf(sync, row.time) \in Samples
    BY <1>1, <1>2, <1>3
  <2> HIDE DEF written
  <2> QED BY <2>1, <1>4
<1>6. pending \in Timestamps \cup {None} /\ later \in Timestamps \cup {None}
  BY <1>1
<1>7. Consumed(done, row) =
        IF done.refused THEN done
        ELSE IF UpdateStatus(done.sync, row) # "Accepted"
        THEN [done EXCEPT !.output = written, !.pending = pending, !.refused = TRUE]
        ELSE [sync |-> sync, refused |-> FALSE, pending |-> later, output |-> outcome]
  BY DEF Consumed, sync
<1> HIDE DEF written, pending, later, outcome
<1>8. [done EXCEPT !.output = written, !.pending = pending, !.refused = TRUE] \in Done
  BY <1>4, <1>6 DEF Done
<1>9. [sync |-> sync, refused |-> FALSE, pending |-> later, output |-> outcome] \in Done
  BY <1>2, <1>5, <1>6 DEF Done
<1> HIDE DEF Done
<1> QED BY <1>7, <1>8, <1>9, Zenon

(* The loop runs over its rows one by one, and ends as it stands after the last. *)
LEMMA ConsumeRuns ==
  ASSUME SamplerTypes, NEW rows \in Seq(FeatureSet), Consume(rows)
  PROVE  \E after \in [0 .. Len(rows) -> Done] :
           /\ after[0] = Start
           /\ \A n \in 1 .. Len(rows) : after[n] = Consumed(after[n - 1], rows[n])
           /\ synchronizer' = after[Len(rows)].sync
           /\ output' = Flushed(after[Len(rows)])
           /\ failure' = IF after[Len(rows)].refused THEN "invalid synchronization order" ELSE "none"
<1> DEFINE Def(f) == [n \in 0 .. Len(rows) |->
                        IF n = 0 THEN Start ELSE Consumed(f[n - 1], rows[n])]
           after == CHOOSE f : f = Def(f)
           step == [x \in Done \X FeatureSet |-> Consumed(x[1], x[2])]
<1>1. Start \in Done
  <2>1. << >> \in Seq(Samples)
    OBVIOUS
  <2>2. synchronizer \in Synchronizer
    BY DEF SamplerTypes
  <2> QED BY <2>1, <2>2 DEF Start, Done
<1>2. step \in [Done \X FeatureSet -> Done]
  BY ConsumedType
<1>3. \A done \in Done, row \in FeatureSet : step[<< done, row >>] = Consumed(done, row)
  OBVIOUS
<1>4. \A n \in 1 .. Len(rows) : rows[n] \in FeatureSet
  OBVIOUS
<1> HIDE DEF step
<1>5. PICK g : IsFold(g, Done, step, Start, rows)
  BY <1>1, <1>2, FoldExists
<1>6. /\ g \in [0 .. Len(rows) -> Done]
      /\ g[0] = Start
      /\ \A n \in 1 .. Len(rows) : g[n] = step[<< g[n - 1], rows[n] >>]
  BY <1>5 DEF IsFold
<1>7. g = Def(g)
  <2>1. \A n \in 0 .. Len(rows) : n # 0 => g[n] = Consumed(g[n - 1], rows[n])
    <3> SUFFICES ASSUME NEW n \in 1 .. Len(rows)
                 PROVE  g[n] = Consumed(g[n - 1], rows[n])
      OBVIOUS
    <3>1. g[n - 1] \in Done /\ rows[n] \in FeatureSet
      BY <1>4, <1>6
    <3> QED BY <3>1, <1>3, <1>6
  <2> QED BY <2>1, <1>6
<1>8. after = Def(after)
  BY <1>7
<1>9. /\ synchronizer' = after[Len(rows)].sync
      /\ output' = Flushed(after[Len(rows)])
      /\ failure' = IF after[Len(rows)].refused THEN "invalid synchronization order" ELSE "none"
  BY DEF Consume, Flushed, Start
<1> HIDE DEF after
<1>10. \A n \in 0 .. Len(rows) : n # 0 => n - 1 \in 0 .. Len(rows)
  OBVIOUS
<1>11. /\ after[0] = Start
       /\ \A n \in 1 .. Len(rows) : after[n] = Consumed(after[n - 1], rows[n])
  BY <1>8
<1>12. after \in [0 .. Len(rows) -> Done]
  <2> DEFINE T == {n \in Nat : n <= Len(rows) => after[n] \in Done}
  <2>1. T \in SUBSET Nat /\ 0 \in T
    BY <1>1, <1>11
  <2>2. ASSUME NEW n \in T
        PROVE  n + 1 \in T
    <3> SUFFICES ASSUME n + 1 <= Len(rows)
                 PROVE  after[n + 1] \in Done
      OBVIOUS
    <3>1. n + 1 \in 1 .. Len(rows) /\ after[n] \in Done /\ n + 1 - 1 = n
      OBVIOUS
    <3> QED BY <3>1, <1>4, <1>11, ConsumedType
  <2>3. T = Nat
    <3> HIDE DEF T
    <3> QED BY <2>1, <2>2, NaturalsBySuccessor
  <2>4. \A n \in 0 .. Len(rows) : after[n] \in Done
    BY <2>3
  <2> QED BY <2>4, <1>8
<1> QED BY <1>9, <1>11, <1>12
-------------------------------------------------------------------------------
(* Lists of times: in order, in order without repetition, of the same times. *)
NeverFalls(t, n) == \A i, j \in 1 .. n : i < j => t[i] <= t[j]
AlwaysRises(p, m) == \A i, j \in 1 .. m : i < j => p[i] < p[j]
AllIn(t, n, p, m) == \A i \in 1 .. n : \E j \in 1 .. m : t[i] = p[j]

(* A list of times in order that may repeat, and the same times once each:  *)
(* the first is the first, the last is the last, and what follows a time is *)
(* the same or the next.                                                    *)
LEMMA SameOrder ==
  ASSUME NEW n \in Nat, NEW m \in Nat, NEW t \in [1 .. n -> Int], NEW p \in [1 .. m -> Int],
         NeverFalls(t, n), AlwaysRises(p, m), AllIn(t, n, p, m), AllIn(p, m, t, n)
  PROVE  /\ n = 0 <=> m = 0
         /\ n > 0 => t[1] = p[1]
         /\ \A k \in 1 .. m : n > 0 /\ t[n] = p[k] => k = m
         /\ \A i \in 1 .. n, k \in 1 .. m : i + 1 <= n /\ t[i] = p[k] /\ t[i + 1] # t[i] =>
              k + 1 <= m /\ t[i + 1] = p[k + 1]
<1>1. n = 0 <=> m = 0
  <2>1. ASSUME n = 0, m # 0
        PROVE  FALSE
    <3>1. 1 \in 1 .. m
      BY <2>1
    <3>2. PICK i \in 1 .. n : p[1] = t[i]
      BY <3>1 DEF AllIn
    <3> QED BY <3>2, <2>1
  <2>2. ASSUME m = 0, n # 0
        PROVE  FALSE
    <3>1. 1 \in 1 .. n
      BY <2>2
    <3>2. PICK j \in 1 .. m : t[1] = p[j]
      BY <3>1 DEF AllIn
    <3> QED BY <3>2, <2>2
  <2> QED BY <2>1, <2>2
<1>2. ASSUME n > 0
      PROVE  t[1] = p[1]
  <2>1. 1 \in 1 .. n /\ 1 \in 1 .. m
    BY <1>1, <1>2
  <2>2. PICK j \in 1 .. m : t[1] = p[j]
    BY <2>1 DEF AllIn
  <2>3. PICK i \in 1 .. n : p[1] = t[i]
    BY <2>1 DEF AllIn
  <2>6. t[1] \in Int /\ p[1] \in Int /\ t[i] \in Int /\ p[j] \in Int
    BY <2>1
  <2>4. p[1] <= p[j]
    <3>1. j = 1 \/ 1 < j
      OBVIOUS
    <3>2. 1 < j => p[1] < p[j]
      BY <2>1 DEF AlwaysRises
    <3> QED BY <3>1, <3>2, <2>6
  <2>5. t[1] <= t[i]
    <3>1. i = 1 \/ 1 < i
      OBVIOUS
    <3>2. 1 < i => t[1] <= t[i]
      BY <2>1 DEF NeverFalls
    <3> QED BY <3>1, <3>2, <2>6
  <2> QED BY <2>2, <2>3, <2>4, <2>5, <2>6
<1>3. ASSUME NEW k \in 1 .. m, n > 0, t[n] = p[k]
      PROVE  k = m
  <2> SUFFICES ASSUME k < m
               PROVE  FALSE
    OBVIOUS
  <2>1. m \in 1 .. m /\ n \in 1 .. n
    BY <1>3
  <2>2. PICK i \in 1 .. n : p[m] = t[i]
    BY <2>1 DEF AllIn
  <2>3. p[k] < p[m] /\ p[k] \in Int /\ p[m] \in Int /\ t[i] \in Int /\ t[n] \in Int
    BY <2>1 DEF AlwaysRises
  <2>4. t[i] <= t[n]
    <3>1. i < n => t[i] <= t[n]
      BY <2>1 DEF NeverFalls
    <3>2. i < n \/ i = n
      OBVIOUS
    <3> QED BY <3>1, <3>2, <2>3
  <2> QED BY <2>2, <2>3, <2>4, <1>3
<1>4. ASSUME NEW i \in 1 .. n, NEW k \in 1 .. m, i + 1 <= n, t[i] = p[k], t[i + 1] # t[i]
      PROVE  k + 1 <= m /\ t[i + 1] = p[k + 1]
  <2>1. i + 1 \in 1 .. n /\ t[i + 1] \in Int /\ t[i] \in Int
    BY <1>4
  <2>2. t[i] < t[i + 1]
    BY <2>1, <1>4 DEF NeverFalls
  <2>3. PICK j \in 1 .. m : t[i + 1] = p[j]
    BY <2>1 DEF AllIn
  <2>4. j > k
    <3>1. p[j] \in Int /\ p[k] \in Int /\ p[k] < p[j]
      BY <2>2, <2>3, <1>4
    <3>2. j < k => p[j] < p[k]
      BY DEF AlwaysRises
    <3>3. j # k /\ ~ (j < k)
      BY <3>1, <3>2
    <3> QED BY <3>3
  <2>5. k + 1 \in 1 .. m /\ p[k + 1] \in Int /\ p[k] < p[k + 1] /\ p[k] \in Int
    BY <2>4 DEF AlwaysRises
  <2>6. PICK h \in 1 .. n : p[k + 1] = t[h]
    BY <2>5 DEF AllIn
  <2>7. h >= i + 1
    <3> SUFFICES ASSUME h <= i
                 PROVE  FALSE
      OBVIOUS
    <3>1. h < i => t[h] <= t[i]
      BY <2>1 DEF NeverFalls
    <3>2. h < i \/ h = i
      OBVIOUS
    <3>3. t[h] <= t[i]
      BY <3>1, <3>2, <2>1
    <3> QED BY <3>3, <2>1, <2>5, <2>6, <1>4
  <2>8. t[i + 1] <= t[h]
    <3>1. i + 1 < h => t[i + 1] <= t[h]
      BY <2>1 DEF NeverFalls
    <3>2. i + 1 < h \/ i + 1 = h
      BY <2>7
    <3> QED BY <3>1, <3>2, <2>1
  <2>9. p[k + 1] <= p[j]
    <3>1. j = k + 1 \/ k + 1 < j
      BY <2>4
    <3>2. k + 1 < j => p[k + 1] < p[j]
      BY <2>5 DEF AlwaysRises
    <3>3. p[j] \in Int
      OBVIOUS
    <3> QED BY <3>1, <3>2, <3>3, <2>5
  <2> QED BY <2>3, <2>5, <2>6, <2>8, <2>9, <2>1
<1> QED BY <1>1, <1>2, <1>3, <1>4

(* The grid points that a call passes, once some venue has been heard of. *)
Points(time) ==
  IF \E v \in VenueIds : states[v].initialized THEN Grid(current_timestamp, time) ELSE {}

SortedTimes(set) == Sorted(set, {pair \in set \X set : pair[1] < pair[2]})

LEMMA PointsAreSorted ==
  ASSUME NEW time \in Timestamps
  PROVE  /\ Points(time) \in SUBSET Timestamps
         /\ Cardinality(Points(time)) \in Nat
         /\ SortedTimes(Points(time)) \in [1 .. Cardinality(Points(time)) -> Points(time)]
         /\ \A x \in Points(time) : \E i \in 1 .. Cardinality(Points(time)) :
              SortedTimes(Points(time))[i] = x
         /\ \A i, j \in 1 .. Cardinality(Points(time)) : i < j =>
              SortedTimes(Points(time))[i] < SortedTimes(Points(time))[j]
<1> DEFINE S == Points(time)
           R == {p \in S \X S : p[1] < p[2]}
           s == [i \in 1 .. Cardinality(S) |->
                   CHOOSE x \in S : Cardinality({y \in S : << y, x >> \in R}) = i - 1]
<1>1. S \in SUBSET Timestamps
  BY DEF Points, Grid
<1>2. IsFiniteSet(S)
  <2>1. IsFiniteSet(Timestamps)
    BY MaxTimestampAssumption, FS_Interval DEF Timestamps
  <2> HIDE DEF S
  <2> QED BY <2>1, <1>1, FS_Subset
<1> HIDE DEF S
<1>3. \A x \in S : x \in Int
  BY <1>1, MaxTimestampAssumption DEF Timestamps
<1>4. \A x, y \in S : << x, y >> \in R <=> x < y
  OBVIOUS
<1> HIDE DEF R
<1>6. /\ \A x \in S : << x, x >> \notin R
      /\ \A x, y, z \in S : << x, y >> \in R /\ << y, z >> \in R => << x, z >> \in R
      /\ \A x, y \in S : x # y => << x, y >> \in R \/ << y, x >> \in R
  BY <1>3, <1>4
<1>7. SortedTimes(S) = s
  BY DEF SortedTimes, Sorted, R
<1>8. /\ Cardinality(S) \in Nat
      /\ s \in [1 .. Cardinality(S) -> S]
      /\ \A x \in S : \E i \in 1 .. Cardinality(S) : s[i] = x
      /\ \A i, j \in 1 .. Cardinality(S) : i < j => << s[i], s[j] >> \in R
  BY <1>2, <1>6, RankedList
<1> HIDE DEF s
<1>9. \A i, j \in 1 .. Cardinality(S) : i < j => s[i] < s[j]
  BY <1>4, <1>8
<1> QED BY <1>1, <1>7, <1>8, <1>9 DEF S
-------------------------------------------------------------------------------
(* A clock row brings the synchronizer nothing that it has not heard of,    *)
(* and is not refused.                                                      *)
LEMMA ClockRowKeepsStep ==
  ASSUME SamplerInv, NEW time \in Timestamps, InOrder(time), NEW sync \in Synchronizer, InStep(sync),
         NEW row \in FeatureSet, IsClockRow(row, time), sync.latest # None => sync.latest <= row.time
  PROVE  UpdateStatus(sync, row) = "Accepted" /\ InStep(Updated(sync, row))
<1> DEFINE v == row.venue
           new == Updated(sync, row)
           old == sync.venues[v]
<1>1. /\ v \in VenueIds /\ states[v] \in EmitterState /\ states[v].initialized = TRUE
      /\ row.time \in Timestamps /\ row.kind = "Clock"
      /\ row.receipt = states[v].receipt /\ row.book = states[v].book
  <2>1. /\ v \in VenueIds /\ states[v].initialized
        /\ row = Features("Clock", v, states[v], row.time)
    BY DEF IsClockRow
  <2>2. states[v] \in EmitterState
    BY <2>1 DEF SamplerInv, SamplerTypes
  <2>3. row.time \in Timestamps
    BY DEF FeatureSet
  <2> QED BY <2>1, <2>2, <2>3 DEF Features, EmitterState
<1>2. /\ current_timestamp \in Timestamps
      /\ states[v].receipt <= current_timestamp /\ current_timestamp < row.time
  <2>1. Timely(v) /\ current_timestamp \in Timestamps \cup {None}
    BY <1>1 DEF SamplerInv, SamplerTypes
  <2>2. current_timestamp < row.time
    BY DEF IsClockRow, Grid
  <2> QED BY <2>1, <2>2, <1>1 DEF Timely
<1>3. /\ old.observed = TRUE /\ old.receipt = row.receipt /\ old.book = row.book
      /\ old.move = move[v] /\ sync.latest # None /\ old.time <= sync.latest
      /\ old \in VenueState /\ sync.latest \in Timestamps \cup {None}
  <2>1. Heard(v, sync)
    BY <1>1 DEF InStep
  <2>2. old.observed => sync.latest # None /\ old.time <= sync.latest
    BY <1>1 DEF InStep
  <2>3. sync.venues \in [VenueIds -> VenueState] /\ sync.latest \in Timestamps \cup {None}
    BY DEF Synchronizer
  <2> QED BY <2>1, <2>2, <2>3, <1>1 DEF Heard
<1>4. /\ states[v].receipt \in Nat /\ current_timestamp \in Nat /\ row.time \in Nat
      /\ sync.latest \in Nat /\ old.time \in Nat
  <2>1. states[v].receipt \in Timestamps /\ old.time \in Timestamps
    BY <1>1, <1>3 DEF EmitterState, VenueState
  <2> QED BY <2>1, <1>1, <1>2, <1>3, TimestampsAreNatural
<1>5. UpdateStatus(sync, row) = "Accepted"
  <2>1. ~ (row.receipt > row.time)
    BY <1>1, <1>2, <1>4
  <2>2. ~ (row.time < sync.latest) /\ ~ (row.time < old.time)
    BY <1>3, <1>4
  <2>3. ~ (row.receipt < old.receipt)
    BY <1>1, <1>3, <1>4
  <2> QED BY <2>1, <2>2, <2>3 DEF UpdateStatus
<1>6. /\ new.latest = row.time /\ row.time # None
      /\ \A w \in VenueIds : w # v => new.venues[w] = sync.venues[w]
      /\ new.venues[v].observed = TRUE /\ new.venues[v].receipt = row.receipt
      /\ new.venues[v].time = row.time /\ new.venues[v].book = row.book
      /\ new.venues[v].move = old.move
  <2>1. /\ new.latest = row.time
        /\ \A w \in VenueIds : w # v => new.venues[w] = sync.venues[w]
        /\ new.venues[v] =
              [observed |-> TRUE, receipt |-> row.receipt, time |-> row.time, book |-> row.book,
               move |-> IF row.kind = "Clock" THEN old.move
                        ELSE IF ~ old.observed THEN 0 ELSE Sign(Mid(old.book), Mid(row.book))]
    BY UpdatedType
  <2>2. row.time # None
    BY <1>1, TimestampsAreNatural
  <2> HIDE DEF new, Sign, Mid
  <2> QED BY <2>1, <2>2, <1>1
<1> HIDE DEF new
<1>7. ASSUME NEW w \in VenueIds
      PROVE  /\ Heard(w, new)
             /\ new.venues[w].observed => new.latest # None /\ new.venues[w].time <= new.latest
  <2>1. CASE w = v
    <3> HIDE DEF v, old
    <3>1. new.venues[v].observed = states[v].initialized
      BY <1>1, <1>6
    <3>2. new.venues[v].move = move[v]
      BY <1>3, <1>6
    <3>3. Heard(v, new)
      BY <3>1, <3>2, <1>1, <1>6 DEF Heard
    <3>4. new.latest # None /\ new.venues[v].time <= new.latest
      BY <1>4, <1>6
    <3> QED BY <3>3, <3>4, <2>1
  <2>2. CASE w # v
    <3>1. Heard(w, sync) /\ (sync.venues[w].observed =>
                               sync.latest # None /\ sync.venues[w].time <= sync.latest)
      BY DEF InStep
    <3>2. sync.venues[w].time \in Timestamps
      BY DEF Synchronizer, VenueState
    <3>3. sync.venues[w].time \in Nat
      BY <3>2, TimestampsAreNatural
    <3> QED BY <3>1, <3>3, <2>2, <1>3, <1>4, <1>6 DEF Heard
  <2> QED BY <2>1, <2>2
<1> QED BY <1>5, <1>7 DEF InStep, new

(***************************************************************************)
(* What the loop has done after n of the clock rows of a call: it has      *)
(* refused none, has sampled the grid points before that of the last row,  *)
(* if the clock is what is sampled, and holds that one as pending.         *)
(***************************************************************************)
AtRow(done, rows, n, time) ==
  /\ ~ done.refused
  /\ InStep(done.sync)
  /\ done.sync.latest = IF n = 0 THEN synchronizer.latest ELSE rows[n].time
  /\ done.pending = IF sample_kind = "Clock" /\ n > 0 THEN rows[n].time ELSE None
  /\ sample_kind = "Event" \/ n = 0 => done.output = << >>
  /\ sample_kind = "Clock" /\ n > 0 =>
       \E k \in 1 .. Cardinality(Points(time)) :
         /\ SortedTimes(Points(time))[k] = rows[n].time
         /\ done.output = [i \in 1 .. k - 1 |-> AsOf(SortedTimes(Points(time))[i])]

(* The clock rows come at the grid points passed. *)
LEMMA RowsAtPoints ==
  ASSUME SamplerInv, NEW time \in Timestamps, InOrder(time)
  PROVE  LET rows == ClockRows(time)
             times == [i \in 1 .. Len(rows) |-> rows[i].time]
             points == SortedTimes(Points(time))
             m == Cardinality(Points(time))
         IN  /\ Len(rows) \in Nat /\ times \in [1 .. Len(rows) -> Int] /\ points \in [1 .. m -> Int]
             /\ NeverFalls(times, Len(rows)) /\ AlwaysRises(points, m)
             /\ AllIn(times, Len(rows), points, m) /\ AllIn(points, m, times, Len(rows))
<1> DEFINE rows == ClockRows(time)
           n == Len(rows)
           times == [i \in 1 .. n |-> rows[i].time]
           S == Points(time)
           points == SortedTimes(S)
           m == Cardinality(S)
<1>1. /\ rows \in Seq(FeatureSet)
      /\ \A i \in 1 .. n : IsClockRow(rows[i], time)
      /\ \A v \in VenueIds : states[v].initialized =>
           \A g \in Grid(current_timestamp, time) : \E i \in 1 .. n : rows[i].time = g
      /\ \A i, j \in 1 .. n : i < j => rows[i].time <= rows[j].time
  BY ClockRowsAreSorted
<1>2. /\ S \in SUBSET Timestamps /\ m \in Nat /\ points \in [1 .. m -> S]
      /\ \A x \in S : \E i \in 1 .. m : points[i] = x
      /\ \A i, j \in 1 .. m : i < j => points[i] < points[j]
  BY PointsAreSorted
<1>3. /\ \A i \in 1 .. n : rows[i].time \in S
      /\ \A g \in S : \E i \in 1 .. n : rows[i].time = g
  <2>1. ASSUME NEW i \in 1 .. n
        PROVE  rows[i].time \in S
    BY <1>1 DEF IsClockRow, Points
  <2>2. ASSUME NEW g \in S
        PROVE  \E i \in 1 .. n : rows[i].time = g
    <3>1. PICK v \in VenueIds : states[v].initialized
      BY DEF Points
    <3>2. g \in Grid(current_timestamp, time)
      BY <3>1 DEF Points
    <3> QED BY <3>1, <3>2, <1>1
  <2> QED BY <2>1, <2>2
<1> HIDE DEF rows, S, points, m
<1>4. n \in Nat
  BY <1>1
<1>5. S \subseteq Int
  BY <1>2, TimestampsAreNatural
<1> HIDE DEF n
<1>6. times \in [1 .. n -> Int] /\ points \in [1 .. m -> Int]
  BY <1>2, <1>3, <1>5
<1>7. NeverFalls(times, n) /\ AlwaysRises(points, m)
  BY <1>1, <1>2 DEF NeverFalls, AlwaysRises
<1>8. AllIn(times, n, points, m)
  BY <1>2, <1>3 DEF AllIn
<1>9. AllIn(points, m, times, n)
  BY <1>2, <1>3 DEF AllIn
<1> QED BY <1>4, <1>6, <1>7, <1>8, <1>9 DEF rows, n, S, points, m
(* One more of the clock rows of a call. *)
LEMMA ClockRowConsumed ==
  ASSUME SamplerInv, NEW time \in Timestamps, InOrder(time), NEW done \in Done,
         NEW n \in Nat, n + 1 <= Len(ClockRows(time)), AtRow(done, ClockRows(time), n, time)
  PROVE  AtRow(Consumed(done, ClockRows(time)[n + 1]), ClockRows(time), n + 1, time)
<1> DEFINE rows == ClockRows(time)
           row == rows[n + 1]
           m == Cardinality(Points(time))
           points == SortedTimes(Points(time))
           times == [i \in 1 .. Len(rows) |-> rows[i].time]
           new == Consumed(done, row)
           flush == done.pending # None /\ row.time # done.pending
           written == IF flush THEN Append(done.output, SampleOf(done.sync, done.pending))
                      ELSE done.output
           sample(i) == AsOf(points[i])
<1>1. /\ rows \in Seq(FeatureSet) /\ Len(rows) \in Nat
      /\ \A i \in 1 .. Len(rows) : IsClockRow(rows[i], time)
      /\ \A i, j \in 1 .. Len(rows) : i < j => rows[i].time <= rows[j].time
  BY ClockRowsAreSorted
<1>2. /\ times \in [1 .. Len(rows) -> Int] /\ points \in [1 .. m -> Int] /\ m \in Nat
      /\ NeverFalls(times, Len(rows)) /\ AlwaysRises(points, m)
      /\ AllIn(times, Len(rows), points, m) /\ AllIn(points, m, times, Len(rows))
  <2>1. m \in Nat
    BY PointsAreSorted
  <2> QED BY <2>1, RowsAtPoints
<1>0. /\ Len(rows) = 0 <=> m = 0
      /\ Len(rows) > 0 => times[1] = points[1]
      /\ \A k \in 1 .. m : Len(rows) > 0 /\ times[Len(rows)] = points[k] => k = m
      /\ \A i \in 1 .. Len(rows), k \in 1 .. m :
           i + 1 <= Len(rows) /\ times[i] = points[k] /\ times[i + 1] # times[i] =>
             k + 1 <= m /\ times[i + 1] = points[k + 1]
  <2> HIDE DEF rows, m, times, points
  <2>1. Len(rows) \in Nat
    BY <1>1
  <2> QED BY <2>1, <1>2, SameOrder
<1>3. /\ ~ done.refused /\ InStep(done.sync)
      /\ done.sync.latest = IF n = 0 THEN synchronizer.latest ELSE rows[n].time
      /\ done.pending = IF sample_kind = "Clock" /\ n > 0 THEN rows[n].time ELSE None
      /\ sample_kind = "Event" \/ n = 0 => done.output = << >>
      /\ sample_kind = "Clock" /\ n > 0 =>
           \E k \in 1 .. m : points[k] = rows[n].time /\ done.output = [i \in 1 .. k - 1 |-> sample(i)]
  BY DEF AtRow
<1>4. n + 1 \in 1 .. Len(rows) /\ n + 1 > 0 /\ n + 1 - 1 = n /\ (n > 0 => n \in 1 .. Len(rows))
  BY <1>1
<1>5. row \in FeatureSet /\ IsClockRow(row, time)
  BY <1>1, <1>4
<1>6. row.time \in Timestamps /\ row.kind = "Clock"
  BY <1>5 DEF FeatureSet, IsClockRow, Features
<1>7. done.sync \in Synchronizer /\ done.output \in Seq(Samples)
  BY DEF Done
<1>8. done.sync.latest # None => done.sync.latest <= row.time
  <2>1. CASE n = 0
    <3>1. /\ current_timestamp \in Timestamps \cup {None} /\ synchronizer \in Synchronizer
          /\ synchronizer.latest # None =>
               current_timestamp # None /\ synchronizer.latest <= current_timestamp
      BY DEF SamplerInv, SamplerTypes
    <3>2. current_timestamp < row.time
      BY <1>5 DEF IsClockRow, Grid
    <3>3. synchronizer.latest \in Timestamps \cup {None}
      BY <3>1 DEF Synchronizer
    <3>4. done.sync.latest = synchronizer.latest
      BY <2>1, <1>3
    <3> QED BY <3>1, <3>2, <3>3, <3>4, <1>6, TimestampsAreNatural
  <2>2. CASE n # 0
    <3>1. n \in 1 .. Len(rows) /\ n < n + 1
      BY <2>2, <1>4
    <3> QED BY <3>1, <2>2, <1>1, <1>3, <1>4
  <2> QED BY <2>1, <2>2
<1>9. UpdateStatus(done.sync, row) = "Accepted" /\ InStep(Updated(done.sync, row))
  BY <1>3, <1>5, <1>7, <1>8, ClockRowKeepsStep
<1>10. Updated(done.sync, row).latest = row.time
  BY <1>5, <1>7, UpdatedType
<1>11. new = [sync |-> Updated(done.sync, row), refused |-> FALSE,
              pending |-> IF sample_kind = "Clock" THEN row.time
                          ELSE IF flush THEN None ELSE done.pending,
              output |-> written]
  <2> HIDE DEF rows, row
  <2> QED BY <1>3, <1>6, <1>9 DEF Consumed
<1>12. \A v \in VenueIds : Heard(v, done.sync)
  BY <1>3 DEF InStep
<1>13. sample_kind \in {"Clock", "Event"}
  BY DEF SamplerInv, SamplerTypes, SampleKind
<1>14. n > 0 => times[n] = rows[n].time
  BY <1>4
<1>15. times[n + 1] = row.time
  BY <1>4
<1> HIDE DEF rows, row, m, points, times, new, sample
<1>16. ASSUME sample_kind = "Event"
       PROVE  new.pending = None /\ new.output = << >>
  BY <1>16, <1>3, <1>11
<1>17. ASSUME sample_kind = "Clock"
       PROVE  /\ new.pending = row.time
              /\ \E k \in 1 .. m : points[k] = row.time /\ new.output = [i \in 1 .. k - 1 |-> sample(i)]
  <2>1. new.pending = row.time
    BY <1>11, <1>17
  <2>2. CASE n = 0
    <3>1. Len(rows) > 0 /\ times[1] = row.time
      BY <2>2, <1>1, <1>4, <1>15
    <3>2. points[1] = row.time /\ m # 0
      BY <3>1, <1>0, <1>1
    <3>3. 1 \in 1 .. m
      BY <3>2, <1>2
    <3>4. new.output = << >>
      BY <2>2, <1>3, <1>11
    <3>5. << >> = [i \in 1 .. 1 - 1 |-> sample(i)]
      <4>1. 1 .. 1 - 1 = {}
        OBVIOUS
      <4> QED BY <4>1
    <3> QED BY <3>2, <3>3, <3>4, <3>5, <2>1
  <2>3. CASE n # 0
    <3>1. n > 0 /\ n \in 1 .. Len(rows) /\ n + 1 <= Len(rows)
      BY <2>3, <1>4
    <3>2. PICK k \in 1 .. m : points[k] = rows[n].time /\ done.output = [i \in 1 .. k - 1 |-> sample(i)]
      BY <3>1, <1>3, <1>17
    <3>3. done.pending = rows[n].time
      BY <3>1, <1>3, <1>17
    <3>4. rows[n].time # None
      <4>1. rows[n] \in FeatureSet
        BY <3>1, <1>1
      <4> QED BY <4>1, TimestampsAreNatural DEF FeatureSet
    <3>5. CASE row.time = rows[n].time
      <4>1. new.output = done.output
        BY <3>3, <3>5, <1>11
      <4> QED BY <4>1, <3>2, <3>5, <2>1
    <3>6. CASE row.time # rows[n].time
      <4>1. times[n] = points[k] /\ times[n + 1] # times[n]
        BY <3>1, <3>2, <3>6, <1>14, <1>15
      <4>2. k + 1 <= m /\ times[n + 1] = points[k + 1]
        BY <4>1, <3>1, <1>0
      <4>3. SampleOf(done.sync, done.pending) = sample(k)
        <5>1. SampleOf(done.sync, done.pending) = AsOf(done.pending)
          BY <1>12, SamplesOfStates
        <5> QED BY <5>1, <3>2, <3>3 DEF sample
      <4>4. new.output = Append(done.output, sample(k))
        BY <4>3, <3>3, <3>4, <3>6, <1>11
      <4>5. Append([i \in 1 .. k - 1 |-> sample(i)], sample(k)) = [i \in 1 .. (k + 1) - 1 |-> sample(i)]
        <5>1. k \in Nat /\ k >= 1
          BY <1>2
        <5> QED BY <5>1
      <4>6. k + 1 \in 1 .. m
        BY <4>2, <1>2
      <4> QED BY <4>2, <4>4, <4>5, <4>6, <3>2, <2>1, <1>15
    <3> QED BY <3>5, <3>6
  <2> QED BY <2>2, <2>3
<1>18. new.refused = FALSE /\ InStep(new.sync) /\ new.sync.latest = row.time
  BY <1>9, <1>10, <1>11
<1>19. AtRow(new, rows, n + 1, time) <=>
         /\ ~ new.refused /\ InStep(new.sync)
         /\ new.sync.latest = IF n + 1 = 0 THEN synchronizer.latest ELSE row.time
         /\ new.pending = IF sample_kind = "Clock" /\ n + 1 > 0 THEN row.time ELSE None
         /\ sample_kind = "Event" \/ n + 1 = 0 => new.output = << >>
         /\ sample_kind = "Clock" /\ n + 1 > 0 =>
              \E k \in 1 .. m : points[k] = row.time /\ new.output = [i \in 1 .. k - 1 |-> sample(i)]
  BY DEF AtRow, row, m, points, sample
<1>20. n + 1 # 0 /\ n + 1 > 0
  OBVIOUS
<1>21. AtRow(new, rows, n + 1, time)
  BY <1>13, <1>16, <1>17, <1>18, <1>19, <1>20
<1> QED BY <1>21 DEF new, row, rows
LEMMA ClockRowsConsumed ==
  ASSUME SamplerInv, NEW time \in Timestamps, InOrder(time),
         NEW rows \in Seq(FeatureSet), Len(ClockRows(time)) <= Len(rows),
         \A i \in 1 .. Len(ClockRows(time)) : rows[i] = ClockRows(time)[i],
         NEW after \in [0 .. Len(rows) -> Done], after[0] = Start,
         \A n \in 1 .. Len(rows) : after[n] = Consumed(after[n - 1], rows[n])
  PROVE  AtRow(after[Len(ClockRows(time))], ClockRows(time), Len(ClockRows(time)), time)
<1> DEFINE clocks == ClockRows(time)
           At(n) == AtRow(after[n], clocks, n, time)
           T == {n \in Nat : n <= Len(clocks) => At(n)}
<1>1. Len(clocks) \in Nat /\ Len(rows) \in Nat
  <2>1. clocks \in Seq(FeatureSet)
    BY ClockRowsAreSorted
  <2> QED BY <2>1
<1>2. At(0)
  <2>1. InStep(synchronizer)
    BY DEF SamplerInv
  <2>2. ~ (0 > 0)
    OBVIOUS
  <2>3. AtRow(Start, clocks, 0, time)
    <3> HIDE DEF clocks
    <3> QED BY <2>1, <2>2 DEF AtRow, Start
  <2> QED BY <2>3
<1>3. ASSUME NEW n \in Nat, n + 1 <= Len(clocks), At(n)
      PROVE  At(n + 1)
  <2>1. n \in 0 .. Len(rows) /\ n + 1 \in 1 .. Len(clocks) /\ n + 1 \in 1 .. Len(rows) /\ n + 1 - 1 = n
    BY <1>1, <1>3
  <2>2. after[n] \in Done
    BY <2>1
  <2>3. AtRow(Consumed(after[n], clocks[n + 1]), clocks, n + 1, time)
    BY <2>2, <1>3, ClockRowConsumed
  <2>4. after[n + 1] = Consumed(after[n], clocks[n + 1])
    BY <2>1
  <2> QED BY <2>3, <2>4
<1> HIDE DEF At, clocks
<1>4. T \in SUBSET Nat /\ 0 \in T
  BY <1>2
<1>5. \A n \in T : n + 1 \in T
  <2> SUFFICES ASSUME NEW n \in T, n + 1 <= Len(clocks)
               PROVE  At(n + 1)
    BY <1>1
  <2>1. n \in Nat /\ n <= Len(clocks)
    BY <1>1
  <2> QED BY <2>1, <1>3
<1>6. T = Nat
  <2> HIDE DEF T
  <2> QED BY <1>4, <1>5, NaturalsBySuccessor
<1>7. Len(clocks) \in T
  BY <1>1, <1>6
<1>8. At(Len(clocks))
  BY <1>7, <1>1
<1> QED BY <1>8 DEF At, clocks

(* What the clock rows of a call come to: nothing is refused, and the grid  *)
(* points passed are sampled once each, in order, if the clock is sampled.  *)
LEMMA ClockRowsSampled ==
  ASSUME SamplerInv, NEW time \in Timestamps, InOrder(time), NEW done \in Done,
         AtRow(done, ClockRows(time), Len(ClockRows(time)), time)
  PROVE  /\ ~ done.refused /\ InStep(done.sync)
         /\ done.sync.latest # None => done.sync.latest <= time
         /\ sample_kind = "Event" => done.pending = None /\ done.output = << >>
         /\ sample_kind = "Clock" => Flushed(done) =
              [i \in 1 .. Cardinality(Points(time)) |-> AsOf(SortedTimes(Points(time))[i])]
<1> DEFINE rows == ClockRows(time)
           n == Len(rows)
           m == Cardinality(Points(time))
           points == SortedTimes(Points(time))
           times == [i \in 1 .. n |-> rows[i].time]
           sample(i) == AsOf(points[i])
<1>1. /\ n \in Nat /\ times \in [1 .. n -> Int] /\ points \in [1 .. m -> Int] /\ m \in Nat
      /\ NeverFalls(times, n) /\ AlwaysRises(points, m)
      /\ AllIn(times, n, points, m) /\ AllIn(points, m, times, n)
  <2>1. m \in Nat
    BY PointsAreSorted
  <2> QED BY <2>1, RowsAtPoints
<1>2. rows \in Seq(FeatureSet) /\ \A i \in 1 .. n : IsClockRow(rows[i], time)
  BY ClockRowsAreSorted
<1>3. /\ n = 0 <=> m = 0
      /\ \A k \in 1 .. m : n > 0 /\ times[n] = points[k] => k = m
  <2> HIDE DEF n, m, times, points
  <2> QED BY <1>1, SameOrder
<1>4. /\ ~ done.refused /\ InStep(done.sync)
      /\ done.sync.latest = IF n = 0 THEN synchronizer.latest ELSE rows[n].time
      /\ done.pending = IF sample_kind = "Clock" /\ n > 0 THEN rows[n].time ELSE None
      /\ sample_kind = "Event" \/ n = 0 => done.output = << >>
      /\ sample_kind = "Clock" /\ n > 0 =>
           \E k \in 1 .. m : points[k] = rows[n].time /\ done.output = [i \in 1 .. k - 1 |-> sample(i)]
  BY DEF AtRow
<1>5. n > 0 => n \in 1 .. n /\ times[n] = rows[n].time
  <2> HIDE DEF n, rows
  <2>1. n \in Nat
    BY <1>1
  <2>2. n > 0 => n \in 1 .. n
    BY <2>1
  <2> QED BY <2>2
<1>6. n > 0 => /\ rows[n].time \in Timestamps /\ rows[n].time # None
               /\ rows[n].time <= time
  <2> SUFFICES ASSUME n > 0
               PROVE  rows[n].time \in Timestamps /\ rows[n].time # None /\ rows[n].time <= time
    OBVIOUS
  <2>1. rows[n] \in FeatureSet /\ IsClockRow(rows[n], time)
    BY <1>2, <1>5
  <2>2. rows[n].time \in Timestamps
    BY <2>1 DEF FeatureSet
  <2>3. rows[n].time <= time
    BY <2>1 DEF IsClockRow, Grid
  <2> QED BY <2>2, <2>3, TimestampsAreNatural
<1> HIDE DEF rows, n, m, times, points, sample
<1>7. done.sync.latest # None => done.sync.latest <= time
  <2>1. CASE n = 0
    <3>1. /\ current_timestamp \in Timestamps \cup {None} /\ synchronizer \in Synchronizer
          /\ synchronizer.latest # None =>
               current_timestamp # None /\ synchronizer.latest <= current_timestamp
      BY DEF SamplerInv, SamplerTypes
    <3>2. synchronizer.latest \in Timestamps \cup {None}
      BY <3>1 DEF Synchronizer
    <3>3. current_timestamp # None => time >= current_timestamp
      BY DEF InOrder
    <3>4. done.sync.latest = synchronizer.latest
      BY <2>1, <1>4
    <3>5. ASSUME done.sync.latest # None
          PROVE  done.sync.latest <= time
      <4>1. /\ current_timestamp \in Timestamps /\ synchronizer.latest \in Timestamps
            /\ synchronizer.latest <= current_timestamp /\ time >= current_timestamp
        BY <3>1, <3>2, <3>3, <3>4, <3>5
      <4>2. current_timestamp \in Nat /\ synchronizer.latest \in Nat /\ time \in Nat
        BY <4>1, TimestampsAreNatural
      <4> QED BY <4>1, <4>2, <3>4
    <3> QED BY <3>5
  <2>2. CASE n # 0
    BY <2>2, <1>1, <1>4, <1>6
  <2> QED BY <2>1, <2>2
<1>8. ASSUME sample_kind = "Clock"
      PROVE  Flushed(done) = [i \in 1 .. m |-> sample(i)]
  <2>1. CASE n = 0
    <3>1. Flushed(done) = << >> /\ m = 0
      BY <2>1, <1>3, <1>4 DEF Flushed
    <3>2. 1 .. 0 = {}
      OBVIOUS
    <3> QED BY <3>1, <3>2
  <2>2. CASE n # 0
    <3>1. n > 0
      BY <2>2, <1>1
    <3>2. PICK k \in 1 .. m : points[k] = rows[n].time /\ done.output = [i \in 1 .. k - 1 |-> sample(i)]
      BY <3>1, <1>4, <1>8
    <3>3. k = m
      BY <3>1, <3>2, <1>3, <1>5
    <3>4. done.pending = points[m] /\ done.pending # None
      BY <3>1, <3>2, <3>3, <1>4, <1>6, <1>8
    <3>5. SampleOf(done.sync, done.pending) = sample(m)
      <4>1. \A v \in VenueIds : Heard(v, done.sync)
        BY <1>4 DEF InStep
      <4>2. SampleOf(done.sync, done.pending) = AsOf(done.pending)
        BY <4>1, SamplesOfStates
      <4> QED BY <4>2, <3>4 DEF sample
    <3>6. Flushed(done) = Append([i \in 1 .. m - 1 |-> sample(i)], sample(m))
      BY <3>2, <3>3, <3>4, <3>5, <1>4 DEF Flushed
    <3>7. Append([i \in 1 .. m - 1 |-> sample(i)], sample(m)) = [i \in 1 .. m |-> sample(i)]
      <4>1. m \in Nat /\ m >= 1
        BY <3>3, <1>1
      <4> HIDE <3>6
      <4> QED BY <4>1
    <3> QED BY <3>6, <3>7
  <2> QED BY <2>1, <2>2
<1>9. sample_kind = "Event" => done.pending = None /\ done.output = << >>
  BY <1>4
<1> QED BY <1>4, <1>7, <1>8, <1>9 DEF m, points, sample
-------------------------------------------------------------------------------
(* What the grid points that a call passes are sampled as. *)
ClockSamples(time) ==
  [i \in 1 .. Cardinality(Points(time)) |-> AsOf(SortedTimes(Points(time))[i])]

(* A call that refuses its event consumes its clock rows alone. *)
LEMMA ClocksConsumed ==
  ASSUME SamplerInv, NEW time \in Timestamps, InOrder(time), Consume(ClockRows(time))
  PROVE  /\ synchronizer' \in Synchronizer /\ InStep(synchronizer')
         /\ synchronizer'.latest # None => synchronizer'.latest <= time
         /\ failure' = "none"
         /\ sample_kind = "Event" => output' = << >>
         /\ sample_kind = "Clock" => output' = ClockSamples(time)
<1> DEFINE rows == ClockRows(time)
           n == Len(rows)
<1>1. rows \in Seq(FeatureSet) /\ n \in Nat
  BY ClockRowsAreSorted
<1>2. SamplerTypes
  BY DEF SamplerInv
<1>3. PICK after \in [0 .. n -> Done] :
        /\ after[0] = Start
        /\ \A i \in 1 .. n : after[i] = Consumed(after[i - 1], rows[i])
        /\ synchronizer' = after[n].sync
        /\ output' = Flushed(after[n])
        /\ failure' = IF after[n].refused THEN "invalid synchronization order" ELSE "none"
  <2> HIDE DEF rows
  <2>1. Consume(rows)
    BY DEF rows
  <2> QED BY <2>1, <1>1, <1>2, ConsumeRuns
<1>4. AtRow(after[n], rows, n, time)
  <2>1. n <= n
    BY <1>1
  <2>2. \A i \in 1 .. n : rows[i] = ClockRows(time)[i]
    OBVIOUS
  <2> QED BY <2>1, <2>2, <1>1, <1>3, ClockRowsConsumed
<1>5. after[n] \in Done
  BY <1>1
<1>6. /\ ~ after[n].refused /\ InStep(after[n].sync)
      /\ after[n].sync.latest # None => after[n].sync.latest <= time
      /\ sample_kind = "Event" => after[n].pending = None /\ after[n].output = << >>
      /\ sample_kind = "Clock" => Flushed(after[n]) = ClockSamples(time)
  BY <1>4, <1>5, ClockRowsSampled DEF ClockSamples
<1>7. after[n].sync \in Synchronizer
  BY <1>5 DEF Done
<1> HIDE DEF rows, n
<1>8. sample_kind = "Event" => output' = << >>
  BY <1>3, <1>6 DEF Flushed
<1>9. InStep(synchronizer')
  BY <1>3, <1>6
<1> QED BY <1>3, <1>6, <1>7, <1>8, <1>9

(* A call that takes its event consumes the row of the event last. *)
LEMMA EventConsumed ==
  ASSUME SamplerInv, NEW time \in Timestamps, InOrder(time), NEW event \in FeatureSet,
         event.kind = "Event", event.time = time, event.receipt = time,
         Consume(Append(ClockRows(time), event))
  PROVE  \E sync \in Synchronizer :
           /\ InStep(sync) /\ (sync.latest # None => sync.latest <= time)
           /\ synchronizer' = Updated(sync, event)
           /\ failure' = "none"
           /\ sample_kind = "Event" => output' = << SampleOf(Updated(sync, event), time) >>
           /\ sample_kind = "Clock" => output' = ClockSamples(time)
<1> DEFINE clocks == ClockRows(time)
           n == Len(clocks)
           rows == Append(clocks, event)
<1>1. clocks \in Seq(FeatureSet) /\ n \in Nat
  BY ClockRowsAreSorted
<1>2. /\ rows \in Seq(FeatureSet) /\ Len(rows) = n + 1 /\ rows[n + 1] = event
      /\ \A i \in 1 .. n : rows[i] = clocks[i]
  <2> HIDE DEF clocks
  <2> QED BY <1>1
<1>3. SamplerTypes
  BY DEF SamplerInv
<1> HIDE DEF rows
<1>4. PICK after \in [0 .. Len(rows) -> Done] :
        /\ after[0] = Start
        /\ \A i \in 1 .. Len(rows) : after[i] = Consumed(after[i - 1], rows[i])
        /\ synchronizer' = after[Len(rows)].sync
        /\ output' = Flushed(after[Len(rows)])
        /\ failure' = IF after[Len(rows)].refused THEN "invalid synchronization order" ELSE "none"
  <2>1. Consume(rows)
    BY DEF rows
  <2> QED BY <2>1, <1>2, <1>3, ConsumeRuns
<1> DEFINE done == after[n]
           sync == done.sync
           new == Updated(sync, event)
<1>5. n <= Len(rows) /\ n \in 0 .. Len(rows) /\ n + 1 \in 1 .. Len(rows) /\ n + 1 - 1 = n
  BY <1>1, <1>2
<1>6. AtRow(done, clocks, n, time)
  BY <1>2, <1>4, <1>5, ClockRowsConsumed
<1>7. done \in Done
  BY <1>5
<1>8. /\ ~ done.refused /\ InStep(sync)
      /\ sync.latest # None => sync.latest <= time
      /\ sample_kind = "Event" => done.pending = None /\ done.output = << >>
      /\ sample_kind = "Clock" => Flushed(done) = ClockSamples(time)
  BY <1>6, <1>7, ClockRowsSampled DEF ClockSamples
<1>9. sync \in Synchronizer
  <2> HIDE DEF done
  <2> QED BY <1>7 DEF Done
<1>10. after[Len(rows)] = Consumed(done, event)
  <2>1. after[n + 1] = Consumed(after[n + 1 - 1], rows[n + 1])
    <3>1. \A i \in 1 .. Len(rows) : after[i] = Consumed(after[i - 1], rows[i])
      BY <1>4
    <3> QED BY <3>1, <1>5
  <2> HIDE DEF n, clocks
  <2> QED BY <2>1, <1>2, <1>5
<1> HIDE DEF clocks, n, done, sync
<1>11. UpdateStatus(sync, event) = "Accepted"
  <2> DEFINE v == event.venue
             old == sync.venues[v]
  <2>1. v \in VenueIds
    BY DEF FeatureSet
  <2>2. old \in VenueState /\ sync.latest \in Timestamps \cup {None}
    BY <1>9, <2>1 DEF Synchronizer
  <2>3. old.time \in Nat /\ old.receipt \in Nat /\ time \in Nat
    <3>1. old.time \in Timestamps /\ old.receipt \in Timestamps
      BY <2>2 DEF VenueState
    <3> QED BY <3>1, TimestampsAreNatural
  <2>4. ASSUME old.observed
        PROVE  old.time <= time /\ old.receipt <= time
    <3>1. Heard(v, sync) /\ sync.latest # None /\ old.time <= sync.latest
      BY <2>1, <2>4, <1>8 DEF InStep
    <3>2. states[v].initialized /\ old.receipt = states[v].receipt
      BY <3>1, <2>4 DEF Heard
    <3>3. /\ current_timestamp # None /\ states[v].receipt <= current_timestamp
          /\ current_timestamp \in Timestamps \cup {None}
      BY <3>2, <2>1 DEF SamplerInv, SamplerTypes, Timely
    <3>4. time >= current_timestamp
      BY <3>3 DEF InOrder
    <3>5. sync.latest \in Nat /\ current_timestamp \in Nat
      BY <3>1, <3>3, <2>2, TimestampsAreNatural
    <3>6. sync.latest <= time
      BY <3>1, <1>8
    <3> HIDE DEF old
    <3>7. old.time <= time
      BY <3>1, <3>5, <3>6, <2>3
    <3>8. old.receipt <= time
      BY <3>2, <3>3, <3>4, <3>5, <2>3
    <3> QED BY <3>7, <3>8
  <2>5. ~ (event.receipt > event.time)
    BY <2>3
  <2>6. ~ (sync.latest # None /\ event.time < sync.latest)
    <3>1. sync.latest # None => sync.latest \in Nat /\ sync.latest <= time
      BY <1>8, <2>2, TimestampsAreNatural
    <3> QED BY <3>1, <2>3
  <2>7. ~ (old.observed /\ (event.time < old.time \/ event.receipt < old.receipt))
    BY <2>3, <2>4
  <2> QED BY <2>5, <2>6, <2>7 DEF UpdateStatus
<1> DEFINE ended == Consumed(done, event)
           written == IF done.pending # None
                      THEN Append(done.output, SampleOf(done.sync, done.pending)) ELSE done.output
<1>12. ended = [sync |-> new, refused |-> FALSE,
                pending |-> IF done.pending # None THEN None ELSE done.pending,
                output |-> IF sample_kind = "Event" THEN Append(written, SampleOf(new, time))
                           ELSE written]
  BY <1>8, <1>11 DEF Consumed, sync
<1> HIDE DEF ended, new
<1>13. ended.sync = new /\ ended.refused = FALSE /\ ended.pending = None /\ Flushed(ended) = ended.output
  BY <1>12 DEF Flushed
<1>14. ASSUME sample_kind = "Event"
       PROVE  ended.output = << SampleOf(new, time) >>
  <2>1. ended.output = Append(<< >>, SampleOf(new, time))
    BY <1>8, <1>12, <1>14
  <2> QED BY <2>1
<1>15. ASSUME sample_kind = "Clock"
       PROVE  ended.output = ClockSamples(time)
  <2>1. ended.output = Flushed(done)
    BY <1>8, <1>12, <1>15 DEF Flushed
  <2> QED BY <2>1, <1>8, <1>15
<1>16. synchronizer' = new /\ output' = ended.output /\ failure' = "none"
  BY <1>4, <1>10, <1>13 DEF ended
<1> QED BY <1>8, <1>9, <1>14, <1>15, <1>16 DEF new
-------------------------------------------------------------------------------
(* The invariant is inductive. *)

LEMMA NextClockIsTimestamp ==
  ASSUME NEW time \in Timestamps
  PROVE  NextClockAfter(time) \in Timestamps \cup {None}
<1>1. time \in Nat /\ MaxTimestamp \in Nat
  BY TimestampsAreNatural
<1>2. After(time) \in Nat
  BY <1>1, FirstAfter
<1> QED BY <1>1, <1>2, NextClockIsFirst DEF Timestamps

(* What a call does to a venue whose event it is not. *)
LEMMA AdvancedState ==
  ASSUME SamplerInv, NEW time \in Timestamps, InOrder(time), NEW v \in VenueIds
  PROVE  LET new == Advanced(states[v], time)
         IN  /\ new \in EmitterState
             /\ new.initialized = states[v].initialized /\ new.receipt = states[v].receipt
             /\ new.book = states[v].book
             /\ new.next_clock = IF states[v].initialized THEN NextClockAfter(time) ELSE None
             /\ states[v].initialized => states[v].receipt <= time
<1>1. states[v] \in EmitterState /\ Timely(v) /\ current_timestamp \in Timestamps \cup {None}
  BY DEF SamplerInv, SamplerTypes
<1>2. Advanced(states[v], time) = IF states[v].initialized
        THEN [states[v] EXCEPT !.next_clock = NextClockAfter(time)] ELSE states[v]
  BY ClocksPassed
<1>3. NextClockAfter(time) \in Timestamps \cup {None}
  BY NextClockIsTimestamp
<1>4. ~ states[v].initialized => states[v].next_clock = None
  BY <1>1 DEF Timely
<1>5. ASSUME states[v].initialized
      PROVE  states[v].receipt <= time
  <2>1. /\ current_timestamp # None /\ states[v].receipt <= current_timestamp
    BY <1>1, <1>5 DEF Timely
  <2>2. time >= current_timestamp /\ states[v].receipt \in Timestamps
    BY <2>1, <1>1 DEF InOrder, EmitterState
  <2>3. time \in Nat /\ current_timestamp \in Nat /\ states[v].receipt \in Nat
    BY <2>1, <2>2, <1>1, TimestampsAreNatural
  <2> QED BY <2>1, <2>2, <2>3
<1> DEFINE new == Advanced(states[v], time)
<1> HIDE DEF new
<1>6. new = IF states[v].initialized
      THEN [states[v] EXCEPT !.next_clock = NextClockAfter(time)] ELSE states[v]
  BY <1>2 DEF new
<1>7. /\ new \in EmitterState
      /\ new.initialized = states[v].initialized /\ new.receipt = states[v].receipt
      /\ new.book = states[v].book
      /\ new.next_clock = IF states[v].initialized THEN NextClockAfter(time) ELSE None
  <2>1. CASE states[v].initialized
    <3>1. new = [states[v] EXCEPT !.next_clock = NextClockAfter(time)]
      BY <2>1, <1>6
    <3> HIDE <1>6, <1>2
    <3> QED BY <3>1, <2>1, <1>1, <1>3 DEF EmitterState
  <2>2. CASE ~ states[v].initialized
    BY <2>2, <1>1, <1>4, <1>6
  <2> QED BY <2>1, <2>2
<1> QED BY <1>5, <1>7 DEF new

LEMMA RefusedKeepsInv ==
  ASSUME SamplerInv, NEW v \in VenueIds, NEW time \in Timestamps, RefuseUpdate(v, time)
  PROVE  /\ SamplerInv' /\ failure' = "none" /\ current_timestamp' = time /\ InOrder(time)
         /\ sample_kind' = sample_kind
         /\ sample_kind = "Event" => output' = << >>
         /\ sample_kind = "Clock" => output' = ClockSamples(time)
<1>1. /\ InOrder(time) /\ current_timestamp' = time
      /\ states' = [w \in VenueIds |-> Advanced(states[w], time)]
      /\ Consume(ClockRows(time))
      /\ sample_kind' = sample_kind /\ move' = move
  BY DEF RefuseUpdate
<1>2. /\ synchronizer' \in Synchronizer /\ InStep(synchronizer')
      /\ synchronizer'.latest # None => synchronizer'.latest <= time
      /\ failure' = "none"
      /\ sample_kind = "Event" => output' = << >>
      /\ sample_kind = "Clock" => output' = ClockSamples(time)
  BY <1>1, ClocksConsumed
<1>3. /\ sample_kind \in SampleKind /\ move \in [VenueIds -> -1 .. 1]
      /\ states \in [VenueIds -> EmitterState]
  BY DEF SamplerInv, SamplerTypes
<1>4. ASSUME NEW w \in VenueIds
      PROVE  /\ states'[w] \in EmitterState
             /\ states'[w].initialized = states[w].initialized
             /\ states'[w].receipt = states[w].receipt
             /\ states'[w].book = states[w].book
             /\ states'[w].next_clock = IF states[w].initialized THEN NextClockAfter(time) ELSE None
             /\ states[w].initialized => states[w].receipt <= time
  <2>1. states'[w] = Advanced(states[w], time)
    BY <1>1
  <2> QED BY <2>1, <1>1, AdvancedState
<1>5. SamplerTypes'
  <2>1. states' \in [VenueIds -> EmitterState]
    BY <1>1, <1>4
  <2> QED BY <2>1, <1>1, <1>2, <1>3 DEF SamplerTypes
<1>6. InStep(synchronizer)'
  <2> SUFFICES ASSUME NEW w \in VenueIds
               PROVE  /\ Heard(w, synchronizer)'
                      /\ synchronizer'.venues[w].observed =>
                           synchronizer'.latest # None
                           /\ synchronizer'.venues[w].time <= synchronizer'.latest
    BY DEF InStep
  <2>1. /\ synchronizer'.venues[w].observed = states[w].initialized
        /\ synchronizer'.venues[w].receipt = states[w].receipt
        /\ synchronizer'.venues[w].book = states[w].book
        /\ synchronizer'.venues[w].move = move[w]
        /\ synchronizer'.venues[w].observed =>
             synchronizer'.latest # None /\ synchronizer'.venues[w].time <= synchronizer'.latest
    BY <1>2 DEF InStep, Heard
  <2> QED BY <2>1, <1>1, <1>4 DEF Heard
<1>7. ASSUME NEW w \in VenueIds
      PROVE  Timely(w)'
  <2>1. time # None
    BY TimestampsAreNatural
  <2> QED BY <2>1, <1>1, <1>4 DEF Timely
<1>8. (synchronizer.latest # None =>
         current_timestamp # None /\ synchronizer.latest <= current_timestamp)'
  BY <1>1, <1>2, TimestampsAreNatural
<1>9. SamplerInv'
  BY <1>5, <1>6, <1>7, <1>8 DEF SamplerInv
<1> QED BY <1>1, <1>2, <1>9
LEMMA TakenKeepsInv ==
  ASSUME SamplerInv, NEW v \in VenueIds, NEW time \in Timestamps,
         NEW book \in Books \cup {EmptyBook}, NEW opened \in BOOLEAN, Take(v, time, book, opened)
  PROVE  /\ SamplerInv' /\ failure' = "none" /\ current_timestamp' = time /\ InOrder(time)
         /\ sample_kind' = sample_kind
         /\ sample_kind = "Event" => output' = << AsOf(current_timestamp)' >>
         /\ sample_kind = "Clock" => output' = ClockSamples(time)
<1> DEFINE before == Advanced(states[v], time)
           after == [before EXCEPT !.book = book, !.opened = opened, !.receipt = time,
                                   !.initialized = TRUE,
                                   !.next_clock = IF before.initialized THEN @
                                                  ELSE NextClockAfter(time)]
           event == Features("Event", v, after, time)
           moved == IF before.initialized THEN Sign(Mid(before.book), Mid(book)) ELSE 0
<1>1. /\ InOrder(time) /\ current_timestamp' = time
      /\ states' = [w \in VenueIds |-> IF w = v THEN after ELSE Advanced(states[w], time)]
      /\ Consume(Append(ClockRows(time), event))
      /\ sample_kind' = sample_kind
      /\ move' = [move EXCEPT ![v] = moved]
  BY DEF Take
<1>2. /\ sample_kind \in SampleKind /\ move \in [VenueIds -> -1 .. 1]
      /\ states \in [VenueIds -> EmitterState]
  BY DEF SamplerInv, SamplerTypes
<1>3. ASSUME NEW w \in VenueIds
      PROVE  /\ Advanced(states[w], time) \in EmitterState
             /\ Advanced(states[w], time).initialized = states[w].initialized
             /\ Advanced(states[w], time).receipt = states[w].receipt
             /\ Advanced(states[w], time).book = states[w].book
             /\ Advanced(states[w], time).next_clock =
                  IF states[w].initialized THEN NextClockAfter(time) ELSE None
             /\ states[w].initialized => states[w].receipt <= time
  BY <1>1, AdvancedState
<1>4. /\ after \in EmitterState /\ after.book = book /\ after.receipt = time
      /\ after.initialized = TRUE /\ after.next_clock = NextClockAfter(time)
  <2>1. NextClockAfter(time) \in Timestamps \cup {None}
    BY NextClockIsTimestamp
  <2>2. /\ before \in EmitterState
        /\ before.initialized => before.next_clock = NextClockAfter(time)
    BY <1>3
  <2> DEFINE new == [before EXCEPT !.book = book, !.opened = opened, !.receipt = time,
                                   !.initialized = TRUE, !.next_clock = NextClockAfter(time)]
  <2> HIDE DEF before
  <2>3. after = new
    BY <2>2
  <2>4. /\ new \in EmitterState /\ new.book = book /\ new.receipt = time
        /\ new.initialized = TRUE /\ new.next_clock = NextClockAfter(time)
    BY <2>1, <2>2 DEF EmitterState
  <2> HIDE DEF after, new
  <2> QED BY <2>3, <2>4
<1>5. moved = IF states[v].initialized THEN Sign(Mid(states[v].book), Mid(book)) ELSE 0
  BY <1>3
<1> HIDE DEF after, before, moved
<1>6. /\ event \in FeatureSet /\ event.kind = "Event" /\ event.venue = v
      /\ event.time = time /\ event.receipt = time /\ event.book = book
  BY <1>4 DEF Features, FeatureSet, SampleKind
<1> HIDE DEF event
<1>7. PICK sync \in Synchronizer :
        /\ InStep(sync) /\ (sync.latest # None => sync.latest <= time)
        /\ synchronizer' = Updated(sync, event)
        /\ failure' = "none"
        /\ sample_kind = "Event" => output' = << SampleOf(Updated(sync, event), time) >>
        /\ sample_kind = "Clock" => output' = ClockSamples(time)
  BY <1>1, <1>6, EventConsumed
<1>8. /\ synchronizer' \in Synchronizer /\ synchronizer'.latest = time
      /\ \A w \in VenueIds : w # v => synchronizer'.venues[w] = sync.venues[w]
      /\ synchronizer'.venues[v] =
           [observed |-> TRUE, receipt |-> time, time |-> time, book |-> book,
            move |-> IF ~ sync.venues[v].observed THEN 0
                     ELSE Sign(Mid(sync.venues[v].book), Mid(book))]
  <2> DEFINE new == Updated(sync, event)
  <2>1. /\ new \in Synchronizer /\ new.latest = event.time
        /\ \A w \in VenueIds : w # event.venue => new.venues[w] = sync.venues[w]
        /\ new.venues[event.venue] =
              [observed |-> TRUE, receipt |-> event.receipt, time |-> event.time,
               book |-> event.book,
               move |-> IF event.kind = "Clock" THEN sync.venues[event.venue].move
                        ELSE IF ~ sync.venues[event.venue].observed THEN 0
                        ELSE Sign(Mid(sync.venues[event.venue].book), Mid(event.book))]
    BY <1>6, UpdatedType
  <2>2. synchronizer' = new
    BY <1>7
  <2> HIDE DEF new
  <2> QED BY <2>1, <2>2, <1>6
<1>9. Heard(v, sync) /\ \A w \in VenueIds : Heard(w, sync)
  BY <1>7 DEF InStep
<1>10. moved \in -1 .. 1
  BY <1>5 DEF Sign
<1>11. states'[v] = after /\ \A w \in VenueIds : w # v => states'[w] = Advanced(states[w], time)
  BY <1>1
<1>12. move'[v] = moved /\ \A w \in VenueIds : w # v => move'[w] = move[w]
  BY <1>1, <1>2
<1>13. SamplerTypes'
  <2>1. states' \in [VenueIds -> EmitterState]
    BY <1>1, <1>3, <1>4
  <2>2. move' \in [VenueIds -> -1 .. 1]
    BY <1>1, <1>2, <1>10
  <2> QED BY <2>1, <2>2, <1>1, <1>2, <1>8 DEF SamplerTypes
<1>14. ASSUME NEW w \in VenueIds
       PROVE  /\ synchronizer'.venues[w].observed = states'[w].initialized
              /\ synchronizer'.venues[w].receipt = states'[w].receipt
              /\ synchronizer'.venues[w].book = states'[w].book
              /\ synchronizer'.venues[w].move = move'[w]
              /\ synchronizer'.venues[w].observed => synchronizer'.venues[w].time <= time
  <2>1. CASE w = v
    <3>1. /\ sync.venues[v].observed = states[v].initialized
          /\ sync.venues[v].book = states[v].book
      BY <1>9 DEF Heard
    <3>2. synchronizer'.venues[v].move = moved
      BY <3>1, <1>5, <1>8
    <3>3. time <= time
      BY TimestampsAreNatural
    <3>4. /\ synchronizer'.venues[v].observed = TRUE /\ synchronizer'.venues[v].receipt = time
          /\ synchronizer'.venues[v].time = time /\ synchronizer'.venues[v].book = book
      BY <1>8
    <3>5. /\ states'[v].initialized = TRUE /\ states'[v].receipt = time /\ states'[v].book = book
          /\ move'[v] = moved
      BY <1>4, <1>11, <1>12
    <3> QED BY <3>2, <3>3, <3>4, <3>5, <2>1
  <2>2. CASE w # v
    <3>1. synchronizer'.venues[w] = sync.venues[w] /\ states'[w] = Advanced(states[w], time)
          /\ move'[w] = move[w]
      BY <2>2, <1>8, <1>11, <1>12
    <3>2. /\ sync.venues[w].observed = states[w].initialized
          /\ sync.venues[w].receipt = states[w].receipt
          /\ sync.venues[w].book = states[w].book
          /\ sync.venues[w].move = move[w]
      BY <1>9 DEF Heard
    <3>3. ASSUME sync.venues[w].observed
          PROVE  sync.venues[w].time <= time
      <4>1. sync.latest # None /\ sync.venues[w].time <= sync.latest
        BY <3>3, <1>7 DEF InStep
      <4>2. sync.latest \in Timestamps /\ sync.venues[w].time \in Timestamps
        BY <4>1 DEF Synchronizer, VenueState
      <4>3. sync.latest \in Nat /\ sync.venues[w].time \in Nat /\ time \in Nat
        BY <4>2, TimestampsAreNatural
      <4>4. sync.latest <= time
        BY <4>1, <1>7
      <4> QED BY <4>1, <4>3, <4>4
    <3> QED BY <3>1, <3>2, <3>3, <1>3
  <2> QED BY <2>1, <2>2
<1>15. InStep(synchronizer)'
  <2>1. time # None
    BY TimestampsAreNatural
  <2> QED BY <2>1, <1>8, <1>14 DEF InStep, Heard
<1>16. ASSUME NEW w \in VenueIds
       PROVE  Timely(w)'
  <2>1. time # None /\ time <= time
    BY TimestampsAreNatural
  <2>2. CASE w = v
    BY <2>1, <2>2, <1>1, <1>4, <1>11 DEF Timely
  <2>3. CASE w # v
    BY <2>1, <2>3, <1>1, <1>3, <1>11 DEF Timely
  <2> QED BY <2>2, <2>3
<1>17. (synchronizer.latest # None =>
          current_timestamp # None /\ synchronizer.latest <= current_timestamp)'
  BY <1>1, <1>8, TimestampsAreNatural
<1>18. SamplerInv'
  BY <1>13, <1>15, <1>16, <1>17 DEF SamplerInv
<1>19. ASSUME sample_kind = "Event"
       PROVE  output' = << AsOf(current_timestamp)' >>
  <2>1. output' = << SampleOf(synchronizer', time) >>
    BY <1>7, <1>19
  <2> DEFINE known == [venues |-> [w \in VenueIds |->
                                     [observed |-> states'[w].initialized,
                                      receipt |-> states'[w].receipt, time |-> 0,
                                      book |-> states'[w].book, move |-> move'[w]]],
                       latest |-> None]
  <2>2. AsOf(current_timestamp)' = SampleOf(known, time)
    BY <1>1 DEF AsOf
  <2>3. SampleOf(synchronizer', time) = SampleOf(known, time)
    BY <1>14, SameSamples
  <2> QED BY <2>1, <2>2, <2>3
<1> QED BY <1>1, <1>7, <1>18, <1>19
LEMMA InitSamplerInv ==
  ASSUME Init
  PROVE  SamplerInv
<1>1. 0 \in Timestamps /\ EmptyBook \in Books \cup {EmptyBook}
  BY MaxTimestampAssumption DEF Timestamps
<1>2. /\ states = [v \in VenueIds |-> [book |-> EmptyBook, opened |-> FALSE, initialized |-> FALSE,
                                       receipt |-> 0, next_clock |-> None]]
      /\ synchronizer = NewSynchronizer /\ move = [v \in VenueIds |-> 0]
      /\ current_timestamp = None /\ sample_kind \in SampleKind
  BY DEF Init
<1>3. SamplerTypes
  <2> HIDE DEF EmptyBook
  <2>1. states \in [VenueIds -> EmitterState]
    BY <1>1, <1>2 DEF EmitterState
  <2>2. synchronizer \in Synchronizer
    BY <1>1, <1>2 DEF NewSynchronizer, Synchronizer, VenueState
  <2>3. move \in [VenueIds -> -1 .. 1]
    BY <1>2
  <2> QED BY <2>1, <2>2, <2>3, <1>2 DEF SamplerTypes
<1>4. ASSUME NEW v \in VenueIds
      PROVE  Heard(v, synchronizer) /\ Timely(v) /\ ~ synchronizer.venues[v].observed
  <2>1. states[v] = [book |-> EmptyBook, opened |-> FALSE, initialized |-> FALSE,
                     receipt |-> 0, next_clock |-> None]
    BY <1>2
  <2>2. synchronizer.venues[v] = [observed |-> FALSE, receipt |-> 0, time |-> 0,
                                  book |-> EmptyBook, move |-> 0]
    BY <1>2 DEF NewSynchronizer
  <2>3. move[v] = 0
    BY <1>2
  <2> QED BY <2>1, <2>2, <2>3 DEF Heard, Timely
<1>5. synchronizer.latest = None
  BY <1>2 DEF NewSynchronizer
<1> QED BY <1>3, <1>4, <1>5 DEF SamplerInv, InStep

(* What a call comes to: it is refused for its time and ends the replay, or *)
(* its samples are what they should be.                                     *)
Called(time) ==
  /\ InOrder(time) /\ current_timestamp' = time /\ failure' = "none" /\ sample_kind' = sample_kind
  /\ result' \in {"accepted", "trade", "refused"}
  /\ sample_kind = "Event" => output' = IF result' = "refused" THEN << >>
                                        ELSE << AsOf(current_timestamp)' >>
  /\ sample_kind = "Clock" => output' = ClockSamples(time)

Rejected == failure' = "events must be ordered" /\ output' = << >> /\ result' = "none"

LEMMA NextSamplerInv ==
  ASSUME SamplerInv, Next
  PROVE  SamplerInv' /\ (Rejected \/ \E time \in Timestamps : Called(time))
<1>1. PICK v \in VenueIds, time \in Timestamps :
        \/ \E book \in Books : AcceptUpdate(v, time, book)
        \/ ProcessTrade(v, time)
        \/ RefuseUpdate(v, time)
        \/ RejectOrder(time)
  BY DEF Next
<1>2. ASSUME NEW book \in Books, AcceptUpdate(v, time, book)
      PROVE  SamplerInv' /\ Called(time)
  <2>1. Take(v, time, book, TRUE) /\ result' = "accepted"
    BY <1>2 DEF AcceptUpdate
  <2>2. /\ SamplerInv' /\ failure' = "none" /\ current_timestamp' = time /\ InOrder(time)
        /\ sample_kind' = sample_kind
        /\ sample_kind = "Event" => output' = << AsOf(current_timestamp)' >>
        /\ sample_kind = "Clock" => output' = ClockSamples(time)
    BY <2>1, TakenKeepsInv
  <2>3. result' # "refused"
    BY <2>1
  <2> QED BY <2>1, <2>2, <2>3 DEF Called
<1>3. ASSUME ProcessTrade(v, time)
      PROVE  SamplerInv' /\ Called(time)
  <2>1. Take(v, time, states[v].book, states[v].opened) /\ result' = "trade"
    BY <1>3 DEF ProcessTrade
  <2>2. states[v].book \in Books \cup {EmptyBook} /\ states[v].opened \in BOOLEAN
    BY DEF SamplerInv, SamplerTypes, EmitterState
  <2>3. /\ SamplerInv' /\ failure' = "none" /\ current_timestamp' = time /\ InOrder(time)
        /\ sample_kind' = sample_kind
        /\ sample_kind = "Event" => output' = << AsOf(current_timestamp)' >>
        /\ sample_kind = "Clock" => output' = ClockSamples(time)
    BY <2>1, <2>2, TakenKeepsInv
  <2>4. result' # "refused"
    BY <2>1
  <2> QED BY <2>1, <2>3, <2>4 DEF Called
<1>4. ASSUME RefuseUpdate(v, time)
      PROVE  SamplerInv' /\ Called(time)
  <2>1. result' = "refused"
    BY <1>4 DEF RefuseUpdate
  <2>2. /\ SamplerInv' /\ failure' = "none" /\ current_timestamp' = time /\ InOrder(time)
        /\ sample_kind' = sample_kind
        /\ sample_kind = "Event" => output' = << >>
        /\ sample_kind = "Clock" => output' = ClockSamples(time)
    BY <1>4, RefusedKeepsInv
  <2> QED BY <2>1, <2>2 DEF Called
<1>5. ASSUME RejectOrder(time)
      PROVE  SamplerInv' /\ Rejected
  <2>1. UNCHANGED << sample_kind, current_timestamp, states, synchronizer, move >>
    BY <1>5 DEF RejectOrder
  <2>2. SamplerInv'
    BY <2>1 DEF SamplerInv, SamplerTypes, InStep, Heard, Timely
  <2>3. Rejected
    BY <1>5 DEF RejectOrder, Rejected
  <2> QED BY <2>2, <2>3
<1> QED BY <1>1, <1>2, <1>3, <1>4, <1>5

LEMMA StutteringSamplerInv ==
  ASSUME SamplerInv, UNCHANGED vars
  PROVE  SamplerInv'
BY DEF vars, SamplerInv, SamplerTypes, InStep, Heard, Timely

LEMMA SamplerInvariant == Spec => []SamplerInv
<1>1. Init => SamplerInv
  BY InitSamplerInv
<1>2. SamplerInv /\ [Next]_vars => SamplerInv'
  BY NextSamplerInv, StutteringSamplerInv
<1> QED BY <1>1, <1>2, PTL DEF Spec

-------------------------------------------------------------------------------
(***************************************************************************)
(* The emitter sorts its clock rows and keeps its venues on one grid, so   *)
(* the synchronizer never refuses a row and the exception that would end   *)
(* the replay is never thrown.                                             *)
(***************************************************************************)
THEOREM EveryRowIsTaken == Spec => []SynchronizerTakesEveryRow
<1>1. Init => SynchronizerTakesEveryRow
  <2> SUFFICES ASSUME Init
               PROVE  failure # "invalid synchronization order"
    BY DEF SynchronizerTakesEveryRow
  <2>1. failure = "none"
    BY DEF Init
  <2> QED BY <2>1
<1>2. SamplerInv /\ SynchronizerTakesEveryRow /\ [Next]_vars => SynchronizerTakesEveryRow'
  <2> SUFFICES ASSUME SamplerInv, failure # "invalid synchronization order", [Next]_vars
               PROVE  failure' # "invalid synchronization order"
    BY DEF SynchronizerTakesEveryRow
  <2>1. CASE Next
    <3>1. Rejected \/ \E time \in Timestamps : Called(time)
      BY <2>1, NextSamplerInv
    <3>2. failure' = "events must be ordered" \/ failure' = "none"
      BY <3>1 DEF Rejected, Called
    <3>3. "events must be ordered" # "invalid synchronization order"
      OBVIOUS
    <3>4. "none" # "invalid synchronization order"
      OBVIOUS
    <3> QED BY <3>2, <3>3, <3>4
  <2>2. CASE UNCHANGED vars
    BY <2>2 DEF vars
  <2> QED BY <2>1, <2>2
<1> QED BY <1>1, <1>2, SamplerInvariant, PTL DEF Spec

(***************************************************************************)
(* Every grid point that the clock passes, once some venue has been heard, *)
(* is sampled once, in order, and shows every event received before it and *)
(* none received at that very time or after.                               *)
(***************************************************************************)
THEOREM ClockSamplesAreRight == Spec => ClockSamplesAreAsOf
<1> DEFINE AsOfClock ==
      (sample_kind = "Clock" /\ failure' = "none") =>
        output' = LET points == IF \E v \in VenueIds : states[v].initialized
                                THEN Grid(current_timestamp, current_timestamp') ELSE {}
                      sorted == Sorted(points, {pair \in points \X points : pair[1] < pair[2]})
                  IN  [i \in DOMAIN sorted |-> AsOf(sorted[i])]
<1>1. SamplerInv /\ [Next]_vars => [AsOfClock]_vars
  <2> SUFFICES ASSUME SamplerInv, Next, sample_kind = "Clock", failure' = "none"
               PROVE  AsOfClock
    OBVIOUS
  <2>1. "none" # "events must be ordered"
    OBVIOUS
  <2>2. PICK time \in Timestamps : Called(time)
    BY <2>1, NextSamplerInv DEF Rejected
  <2>3. current_timestamp' = time /\ output' = ClockSamples(time)
    BY <2>2 DEF Called
  <2>4. DOMAIN SortedTimes(Points(time)) = 1 .. Cardinality(Points(time))
    BY DEF SortedTimes, Sorted
  <2>5. ClockSamples(time) = [i \in DOMAIN SortedTimes(Points(time)) |-> AsOf(SortedTimes(Points(time))[i])]
    BY <2>4 DEF ClockSamples
  <2>6. Points(current_timestamp') = IF \E v \in VenueIds : states[v].initialized
                                     THEN Grid(current_timestamp, current_timestamp') ELSE {}
    BY DEF Points
  <2> QED BY <2>3, <2>5, <2>6 DEF SortedTimes
<1> QED BY <1>1, SamplerInvariant, PTL DEF Spec, ClockSamplesAreAsOf

(***************************************************************************)
(* Every accepted event is sampled once, at its receipt time, and its      *)
(* sample shows it and all before it; a refused one is not sampled.        *)
(***************************************************************************)
THEOREM EventSamplesAreRight == Spec => EventSamplesAreAsOf
<1> DEFINE AsOfEvent ==
      (sample_kind = "Event" /\ failure' = "none") =>
        output' = IF result' = "refused" THEN << >> ELSE << AsOf(current_timestamp)' >>
<1>1. SamplerInv /\ [Next]_vars => [AsOfEvent]_vars
  <2> SUFFICES ASSUME SamplerInv, Next, sample_kind = "Event", failure' = "none"
               PROVE  AsOfEvent
    OBVIOUS
  <2>1. "none" # "events must be ordered"
    OBVIOUS
  <2>2. PICK time \in Timestamps : Called(time)
    BY <2>1, NextSamplerInv DEF Rejected
  <2> QED BY <2>2 DEF Called
<1> QED BY <1>1, SamplerInvariant, PTL DEF Spec, EventSamplesAreAsOf
-------------------------------------------------------------------------------
(* Samples have their type and agree with the venues that they are of. *)

(* The sum of integers is one. *)
LEMMA SumIsInteger ==
  ASSUME NEW D, IsFiniteSet(D), NEW f \in [D -> Int]
  PROVE  SumFunction(f) \in Int
<1> DEFINE pick == [s \in SUBSET D |-> CHOOSE x \in s : TRUE]
           step == [p \in (SUBSET D) \X Int |-> f[pick[p[1]]] + p[2]]
           Def(g) == [s \in SUBSET D |->
                        IF s = {} THEN 0
                        ELSE f[CHOOSE x \in s : TRUE] + g[s \ {CHOOSE x \in s : TRUE}]]
           iter == CHOOSE g : g = Def(g)
<1>1. SumFunction(f) = iter[D]
  <2>1. DOMAIN f = D
    OBVIOUS
  <2> QED BY <2>1 DEF SumFunction, SumFunctionOnSet, FoldFunctionOnSet, MapThenFoldSet
<1>2. \A s \in SUBSET D : s # {} => pick[s] \in s /\ pick[s] = CHOOSE x \in s : TRUE
  OBVIOUS
<1> HIDE DEF pick
<1>3. \A s \in SUBSET D : s # {} => \A a \in Int : step[<< s, a >>] = f[pick[s]] + a
  OBVIOUS
<1>4. \A s \in SUBSET D : s # {} => \A a \in Int : step[<< s, a >>] \in Int
  <2> SUFFICES ASSUME NEW s \in SUBSET D, s # {}, NEW a \in Int
               PROVE  step[<< s, a >>] \in Int
    OBVIOUS
  <2>1. f[pick[s]] \in Int
    BY <1>2
  <2> HIDE DEF step
  <2> QED BY <2>1, <1>3
<1> HIDE DEF step
<1>5. PICK g \in [SUBSET D -> Int] : \A s \in SUBSET D :
        g[s] = IF s = {} THEN 0 ELSE step[<< s, g[s \ {pick[s]}] >>]
  <2>1. 0 \in Int
    OBVIOUS
  <2>2. Picks(pick, D) /\ StepsIn(step, D, Int)
    BY <1>2, <1>4 DEF Picks, StepsIn
  <2>3. \E g \in [SUBSET D -> Int] : IsSubsetFold(g, D, 0, pick, step)
    BY <2>1, <2>2, SubsetRecursionExists
  <2> QED BY <2>3 DEF IsSubsetFold
<1>6. \A s \in SUBSET D : s \ {pick[s]} \in SUBSET D
  OBVIOUS
<1>7. g = Def(g)
  <2>1. \A s \in SUBSET D : g[s] = Def(g)[s]
    <3> SUFFICES ASSUME NEW s \in SUBSET D, s # {}
                 PROVE  g[s] = f[pick[s]] + g[s \ {pick[s]}]
      BY <1>2, <1>5
    <3>1. g[s \ {pick[s]}] \in Int
      BY <1>6
    <3>2. g[s] = step[<< s, g[s \ {pick[s]}] >>]
      BY <1>5
    <3> QED BY <3>1, <3>2, <1>3
  <2> QED BY <2>1
<1>8. iter = Def(iter)
  BY <1>7
<1> HIDE DEF iter
<1>9. \A s \in SUBSET D : iter[s] = IF s = {} THEN 0 ELSE f[pick[s]] + iter[s \ {pick[s]}]
  BY <1>2, <1>8
<1>10. ASSUME NEW s \in SUBSET D, s # {}, iter[s \ {pick[s]}] \in Int
       PROVE  iter[s] \in Int
  <2>1. f[pick[s]] \in Int
    BY <1>2, <1>10
  <2>2. iter[s] = f[pick[s]] + iter[s \ {pick[s]}]
    BY <1>9, <1>10, Zenon
  <2>3. \A x, y \in Int : x + y \in Int
    OBVIOUS
  <2> QED BY <2>1, <2>2, <2>3, <1>10, Zenon
<1>11. iter[{}] \in Int
  <2>1. {} \in SUBSET D
    OBVIOUS
  <2>2. iter[{}] = 0
    BY <2>1, <1>9, Zenon
  <2> QED BY <2>2
<1>12. iter[D] \in Int
  <2>1. Picks(pick, D)
    BY <1>2 DEF Picks
  <2>2. \A s \in SUBSET D : s # {} /\ iter[s \ {pick[s]}] \in Int => iter[s] \in Int
    BY <1>10
  <2> QED BY <2>1, <2>2, <1>11, SubsetRecursionType, Zenon
<1> QED BY <1>1, <1>12

LEMMA MidType ==
  ASSUME NEW book \in Books \cup {EmptyBook}
  PROVE  /\ Mid(book) \in Int \cup {None}
         /\ Uncrossed(book) => Mid(book) \in Int
<1>1. book \in [bid : Int \cup {None}, ask : Int \cup {None}]
  BY BooksAssumption DEF EmptyBook
<1>2. book.bid \in Int \cup {None} /\ book.ask \in Int \cup {None}
  BY <1>1
<1> QED BY <1>2 DEF Mid, Uncrossed

LEMMA ReferenceType ==
  ASSUME NEW sync \in Synchronizer, NEW time \in Timestamps
  PROVE  ConsolidatedReference(sync, time) \in
           [time : Timestamps, venues : Nat, mid : Int \cup {None}]
<1> DEFINE valid == {v \in VenueIds : Usable(sync.venues[v], time) /\ Uncrossed(sync.venues[v].book)}
           mids == [v \in valid |-> Mid(sync.venues[v].book)]
<1>1. valid \subseteq VenueIds /\ \A v \in valid : Uncrossed(sync.venues[v].book)
  OBVIOUS
<1>2. ConsolidatedReference(sync, time) =
        [time |-> time, venues |-> Cardinality(valid),
         mid |-> IF valid = {} THEN None ELSE SumFunction(mids)]
  BY DEF ConsolidatedReference
<1> HIDE DEF valid
<1>3. IsFiniteSet(valid) /\ Cardinality(valid) \in Nat
  <2>1. IsFiniteSet(valid)
    BY <1>1, VenueIdsAssumption, FS_Subset
  <2> QED BY <2>1, FS_CardinalityType
<1>4. \A v \in valid : Mid(sync.venues[v].book) \in Int
  <2> TAKE v \in valid
  <2>1. sync.venues[v] \in VenueState
    BY <1>1 DEF Synchronizer
  <2>2. sync.venues[v].book \in Books \cup {EmptyBook}
    BY <2>1 DEF VenueState
  <2> QED BY <2>2, <1>1, MidType
<1>5. mids \in [valid -> Int]
  BY <1>4
<1> HIDE DEF mids
<1>6. SumFunction(mids) \in Int
  BY <1>3, <1>5, SumIsInteger
<1> QED BY <1>2, <1>3, <1>6

LEMMA VenueFeaturesType ==
  ASSUME NEW state \in VenueState, NEW time \in Timestamps
  PROVE  VenueFeatures(state, time) \in
           [observed : BOOLEAN, fresh : BOOLEAN, receipt : Timestamps \cup {None},
            age : Timestamps \cup {None}, book : Books \cup {EmptyBook}, move : (-1 .. 1) \cup {None}]
<1>1. /\ state.observed \in BOOLEAN /\ state.receipt \in Timestamps
      /\ state.book \in Books \cup {EmptyBook} /\ state.move \in -1 .. 1
  BY DEF VenueState
<1> DEFINE usable == Usable(state, time)
           age == IF state.observed /\ time >= state.receipt THEN time - state.receipt ELSE None
           receipt == IF state.observed THEN state.receipt ELSE None
           book == IF usable THEN state.book ELSE EmptyBook
           moved == IF usable THEN state.move ELSE None
<1>2. usable \in BOOLEAN
  BY <1>1 DEF Usable
<1>3. age \in Timestamps \cup {None}
  <2>1. time \in Nat /\ state.receipt \in Nat /\ time <= MaxTimestamp /\ MaxTimestamp \in Nat
    BY <1>1, TimestampsAreNatural
  <2> QED BY <2>1 DEF Timestamps
<1>4. receipt \in Timestamps \cup {None} /\ book \in Books \cup {EmptyBook}
      /\ moved \in (-1 .. 1) \cup {None}
  <2> HIDE DEF usable, EmptyBook
  <2> QED BY <1>1
<1>5. VenueFeatures(state, time) =
        [observed |-> state.observed, fresh |-> usable, receipt |-> receipt, age |-> age,
         book |-> book, move |-> moved]
  BY DEF VenueFeatures
<1> HIDE DEF usable, age, receipt, book, moved
<1> QED BY <1>1, <1>2, <1>3, <1>4, <1>5

LEMMA PairFeaturesType ==
  ASSUME NEW first \in VenueState, NEW second \in VenueState, NEW time \in Timestamps
  PROVE  PairFeatures(first, second, time) \in
           [both_fresh : BOOLEAN, mid : Int \cup {None}, receipt : Int \cup {None},
            move : (-2 .. 2) \cup {None}]
<1> DEFINE fresh == Usable(first, time) /\ Usable(second, time)
           mids == {Mid(first.book), Mid(second.book)}
           mid == IF fresh /\ None \notin mids THEN Mid(first.book) - Mid(second.book) ELSE None
           receipt == IF fresh THEN TimestampDifference(first.receipt, second.receipt) ELSE None
           moved == IF fresh THEN first.move - second.move ELSE None
<1>1. /\ first.book \in Books \cup {EmptyBook} /\ second.book \in Books \cup {EmptyBook}
      /\ first.move \in -1 .. 1 /\ second.move \in -1 .. 1
      /\ first.receipt \in Timestamps /\ second.receipt \in Timestamps
      /\ first.observed \in BOOLEAN /\ second.observed \in BOOLEAN
  BY DEF VenueState
<1>2. fresh \in BOOLEAN
  OBVIOUS
<1> HIDE DEF fresh
<1>3. mid \in Int \cup {None}
  <2>1. Mid(first.book) \in Int \cup {None} /\ Mid(second.book) \in Int \cup {None}
    BY <1>1, MidType
  <2> QED BY <2>1
<1>4. receipt \in Int \cup {None}
  <2>1. first.receipt \in Int /\ second.receipt \in Int
    BY <1>1, MaxTimestampAssumption DEF Timestamps
  <2>2. TimestampDifference(first.receipt, second.receipt) \in Int \cup {None}
    BY <2>1 DEF TimestampDifference
  <2> QED BY <2>2
<1>5. moved \in (-2 .. 2) \cup {None}
  BY <1>1
<1>6. PairFeatures(first, second, time) =
        [both_fresh |-> fresh, mid |-> mid, receipt |-> receipt, move |-> moved]
  BY DEF PairFeatures, fresh
<1> HIDE DEF mid, receipt, moved
<1> QED BY <1>2, <1>3, <1>4, <1>5, <1>6

LEMMA SampleType ==
  ASSUME NEW sync \in Synchronizer, NEW time \in Timestamps
  PROVE  SampleOf(sync, time) \in CrossVenueSample
<1>1. ConsolidatedReference(sync, time) \in
        [time : Timestamps, venues : Nat, mid : Int \cup {None}]
  BY ReferenceType
<1>2. \A v \in VenueIds : sync.venues[v] \in VenueState
  BY DEF Synchronizer
<1> DEFINE OfVenue == [observed : BOOLEAN, fresh : BOOLEAN, receipt : Timestamps \cup {None},
                       age : Timestamps \cup {None}, book : Books \cup {EmptyBook},
                       move : (-1 .. 1) \cup {None}]
           OfPair == [both_fresh : BOOLEAN, mid : Int \cup {None}, receipt : Int \cup {None},
                      move : (-2 .. 2) \cup {None}]
           venues == [v \in VenueIds |-> VenueFeatures(sync.venues[v], time)]
           pairs == [p \in VenuePairs |-> PairFeatures(sync.venues[p[1]], sync.venues[p[2]], time)]
<1>3. venues \in [VenueIds -> OfVenue]
  <2>1. \A v \in VenueIds : VenueFeatures(sync.venues[v], time) \in OfVenue
    BY <1>2, VenueFeaturesType
  <2> HIDE DEF OfVenue
  <2> QED BY <2>1
<1>4. pairs \in [VenuePairs -> OfPair]
  <2>1. \A p \in VenuePairs : p[1] \in VenueIds /\ p[2] \in VenueIds
    BY DEF VenuePairs
  <2>2. \A p \in VenuePairs : PairFeatures(sync.venues[p[1]], sync.venues[p[2]], time) \in OfPair
    BY <2>1, <1>2, PairFeaturesType
  <2> HIDE DEF OfPair, VenuePairs
  <2> QED BY <2>2
<1>5. SampleOf(sync, time) =
        [time |-> time, consolidated |-> ConsolidatedReference(sync, time),
         venues |-> venues, pairs |-> pairs]
  BY DEF SampleOf
<1> HIDE DEF venues, pairs, OfVenue, OfPair
<1>6. CrossVenueSample =
        [time : Timestamps,
         consolidated : [time : Timestamps, venues : Nat, mid : Int \cup {None}],
         venues : [VenueIds -> OfVenue], pairs : [VenuePairs -> OfPair]]
  BY DEF CrossVenueSample, OfVenue, OfPair
<1> QED BY <1>1, <1>3, <1>4, <1>5, <1>6
(* validate_temporal_invariants on one sample. *)
IsValid(sample) ==
  \A v \in VenueIds :
    LET venue == sample.venues[v]
    IN  /\ sample.consolidated.time = sample.time
        /\ IF ~ venue.observed THEN venue.receipt = None /\ venue.age = None
           ELSE /\ venue.receipt # None /\ venue.receipt <= sample.time
                /\ venue.age = sample.time - venue.receipt

(* What a synchronizer would have to hold for its samples to be AsOf's. *)
KnownOf(known, moves) ==
  [venues |-> [v \in VenueIds |-> [observed |-> known[v].initialized,
                                   receipt |-> known[v].receipt, time |-> 0,
                                   book |-> known[v].book, move |-> moves[v]]],
   latest |-> None]

LEMMA KnownSample ==
  ASSUME NEW known \in [VenueIds -> EmitterState], NEW moves \in [VenueIds -> -1 .. 1],
         NEW time \in Timestamps,
         \A v \in VenueIds : known[v].initialized => known[v].receipt <= time
  PROVE  /\ SampleOf(KnownOf(known, moves), time) \in CrossVenueSample
         /\ IsValid(SampleOf(KnownOf(known, moves), time))
<1> DEFINE sync == KnownOf(known, moves)
           sample == SampleOf(sync, time)
<1>1. \A v \in VenueIds :
        sync.venues[v] = [observed |-> known[v].initialized, receipt |-> known[v].receipt,
                          time |-> 0, book |-> known[v].book, move |-> moves[v]]
  BY DEF KnownOf
<1>2. sync \in Synchronizer
  <2>1. 0 \in Timestamps
    BY MaxTimestampAssumption DEF Timestamps
  <2>2. \A v \in VenueIds :
          [observed |-> known[v].initialized, receipt |-> known[v].receipt,
           time |-> 0, book |-> known[v].book, move |-> moves[v]] \in VenueState
    BY <2>1 DEF EmitterState, VenueState
  <2> QED BY <2>2 DEF KnownOf, Synchronizer
<1>3. \A v \in VenueIds : /\ sync.venues[v].observed = known[v].initialized
                          /\ sync.venues[v].receipt = known[v].receipt
  <2> HIDE DEF sync
  <2> TAKE v \in VenueIds
  <2>1. sync.venues[v] = [observed |-> known[v].initialized, receipt |-> known[v].receipt,
                          time |-> 0, book |-> known[v].book, move |-> moves[v]]
    BY <1>1
  <2> QED BY <2>1
<1> HIDE DEF sync
<1>4. sample \in CrossVenueSample
  BY <1>2, SampleType
<1>5. IsValid(sample)
  <2> SUFFICES ASSUME NEW v \in VenueIds
               PROVE  /\ sample.consolidated.time = sample.time
                      /\ IF ~ sample.venues[v].observed
                         THEN sample.venues[v].receipt = None /\ sample.venues[v].age = None
                         ELSE /\ sample.venues[v].receipt # None
                              /\ sample.venues[v].receipt <= sample.time
                              /\ sample.venues[v].age = sample.time - sample.venues[v].receipt
    BY DEF IsValid
  <2> DEFINE state == sync.venues[v]
  <2>1. sample.time = time /\ sample.consolidated.time = time
    BY DEF SampleOf, ConsolidatedReference
  <2>2. sample.venues[v] = VenueFeatures(state, time)
    BY DEF SampleOf
  <2>3. state.observed \in BOOLEAN /\ state.receipt \in Timestamps
    BY <1>2 DEF Synchronizer, VenueState
  <2>4. state.observed => state.receipt <= time
    BY <1>3
  <2>5. state.receipt \in Nat /\ time \in Nat /\ state.receipt # None
    BY <2>3, TimestampsAreNatural
  <2> HIDE DEF state, sample
  <2>6. /\ VenueFeatures(state, time).observed = state.observed
        /\ VenueFeatures(state, time).receipt = IF state.observed THEN state.receipt ELSE None
        /\ VenueFeatures(state, time).age =
             IF state.observed /\ time >= state.receipt THEN time - state.receipt ELSE None
    BY DEF VenueFeatures
  <2>7. CASE state.observed
    BY <2>1, <2>2, <2>3, <2>4, <2>5, <2>6, <2>7
  <2>8. CASE ~ state.observed
    BY <2>1, <2>2, <2>6, <2>8
  <2> QED BY <2>3, <2>7, <2>8
<1> QED BY <1>4, <1>5 DEF sync

LEMMA CalledSamples ==
  ASSUME SamplerInv, SamplerInv', NEW time \in Timestamps, Called(time)
  PROVE  output' \in Seq(CrossVenueSample) /\ \A i \in DOMAIN output' : IsValid(output'[i])
<1>1. /\ states \in [VenueIds -> EmitterState] /\ move \in [VenueIds -> -1 .. 1]
      /\ states' \in [VenueIds -> EmitterState] /\ move' \in [VenueIds -> -1 .. 1]
      /\ sample_kind \in {"Clock", "Event"} /\ current_timestamp \in Timestamps \cup {None}
  BY DEF SamplerInv, SamplerTypes, SampleKind
<1>2. CASE sample_kind = "Clock"
  <2> DEFINE m == Cardinality(Points(time))
             points == SortedTimes(Points(time))
  <2>1. m \in Nat /\ points \in [1 .. m -> Points(time)] /\ Points(time) \in SUBSET Timestamps
    BY PointsAreSorted
  <2>2. output' = [i \in 1 .. m |-> AsOf(points[i])]
    BY <1>2 DEF Called, ClockSamples
  <2>3. ASSUME NEW p \in Points(time)
        PROVE  AsOf(p) \in CrossVenueSample /\ IsValid(AsOf(p))
    <3>1. p \in Timestamps /\ current_timestamp < p
      BY DEF Points, Grid
    <3>2. ASSUME NEW v \in VenueIds, states[v].initialized
          PROVE  states[v].receipt <= p
      <4>1. current_timestamp # None /\ states[v].receipt <= current_timestamp
        BY <3>2 DEF SamplerInv, Timely
      <4>2. states[v].receipt \in Timestamps
        BY <1>1 DEF EmitterState
      <4>3. states[v].receipt \in Nat /\ current_timestamp \in Nat /\ p \in Nat
        BY <4>1, <4>2, <3>1, <1>1, TimestampsAreNatural
      <4> QED BY <4>1, <4>3, <3>1
    <3>3. AsOf(p) = SampleOf(KnownOf(states, move), p)
      BY DEF AsOf, KnownOf
    <3> QED BY <3>1, <3>2, <3>3, <1>1, KnownSample
  <2> HIDE DEF m, points
  <2>4. \A i \in 1 .. m : AsOf(points[i]) \in CrossVenueSample /\ IsValid(AsOf(points[i]))
    BY <2>1, <2>3
  <2>5. output' \in [1 .. m -> CrossVenueSample]
    BY <2>2, <2>4
  <2>6. output' \in Seq(CrossVenueSample)
    <3> HIDE <2>2, <2>4
    <3> HIDE DEF CrossVenueSample
    <3> QED BY <2>1, <2>5
  <2>7. \A i \in DOMAIN output' : IsValid(output'[i])
    BY <2>2, <2>4
  <2> QED BY <2>6, <2>7
<1>3. CASE sample_kind = "Event"
  <2>1. output' = << >> \/ output' = << AsOf(current_timestamp)' >>
    BY <1>3 DEF Called
  <2> DEFINE sample == AsOf(current_timestamp)'
  <2>2. sample \in CrossVenueSample /\ IsValid(sample)
    <3>1. current_timestamp' = time
      BY DEF Called
    <3>2. ASSUME NEW v \in VenueIds, states'[v].initialized
          PROVE  states'[v].receipt <= time
      BY <3>1, <3>2 DEF SamplerInv, Timely
    <3>3. sample = SampleOf(KnownOf(states', move'), time)
      BY <3>1 DEF AsOf, KnownOf
    <3> HIDE DEF sample
    <3> QED BY <3>2, <3>3, <1>1, KnownSample
  <2> HIDE DEF sample, CrossVenueSample
  <2>3. CASE output' = << >>
    BY <2>3
  <2>4. CASE output' = << sample >>
    BY <2>2, <2>4
  <2> QED BY <2>1, <2>3, <2>4 DEF sample
<1> QED BY <1>1, <1>2, <1>3

LEMMA InitSamples ==
  ASSUME Init
  PROVE  output = << >> /\ result = "none" /\ failure = "none"
BY DEF Init

(***************************************************************************)
(* validate_temporal_invariants on the venues of the samples: every venue  *)
(* that has been heard of was heard of by the time of the sample, and its  *)
(* age is what is between the two.                                         *)
(***************************************************************************)
THEOREM SamplesAreTimely == Spec => []SamplesAreValid
<1>1. SamplesAreValid <=> \A i \in DOMAIN output : IsValid(output[i])
  BY DEF SamplesAreValid, IsValid
<1>2. SamplesAreValid' <=> \A i \in DOMAIN output' : IsValid(output'[i])
  BY DEF SamplesAreValid, IsValid
<1>3. Init => SamplesAreValid
  BY <1>1, InitSamples
<1>4. SamplerInv /\ SamplesAreValid /\ [Next]_vars => SamplesAreValid'
  <2> SUFFICES ASSUME SamplerInv, SamplesAreValid, [Next]_vars
               PROVE  SamplesAreValid'
    OBVIOUS
  <2>1. CASE Next
    <3>1. SamplerInv' /\ (Rejected \/ \E time \in Timestamps : Called(time))
      BY <2>1, NextSamplerInv
    <3>2. CASE Rejected
      <4>1. output' = << >>
        BY <3>2 DEF Rejected
      <4> QED BY <4>1, <1>2
    <3>3. CASE \E time \in Timestamps : Called(time)
      BY <3>1, <3>3, <1>2, CalledSamples
    <3> QED BY <3>1, <3>2, <3>3
  <2>2. CASE UNCHANGED vars
    BY <2>2, <1>1, <1>2 DEF vars
  <2> QED BY <2>1, <2>2
<1> QED BY <1>3, <1>4, SamplerInvariant, PTL DEF Spec

(* Every variable of the sampler has its type. *)
THEOREM SamplerTypeOK == Spec => []TypeOK
<1>0. << >> \in Seq(CrossVenueSample)
  OBVIOUS
<1> DEFINE Rest == /\ output \in Seq(CrossVenueSample)
                   /\ result \in {"none", "accepted", "trade", "refused"}
                   /\ failure \in {"none", "events must be ordered", "invalid synchronization order"}
<1>1. SamplerInv /\ Rest => TypeOK
  BY DEF SamplerInv, SamplerTypes, TypeOK
<1>2. Init => Rest
  <2> SUFFICES ASSUME Init
               PROVE  Rest
    OBVIOUS
  <2>1. output = << >> /\ result = "none" /\ failure = "none"
    BY InitSamples
  <2> QED BY <2>1, <1>0
<1>3. SamplerInv /\ Rest /\ [Next]_vars => Rest'
  <2> SUFFICES ASSUME SamplerInv, Rest, [Next]_vars
               PROVE  Rest'
    OBVIOUS
  <2>1. CASE Next
    <3>1. SamplerInv' /\ (Rejected \/ \E time \in Timestamps : Called(time))
      BY <2>1, NextSamplerInv
    <3>2. CASE Rejected
      BY <3>2, <1>0 DEF Rejected
    <3>3. CASE \E time \in Timestamps : Called(time)
      <4>1. output' \in Seq(CrossVenueSample)
        BY <3>1, <3>3, CalledSamples
      <4>2. result' \in {"accepted", "trade", "refused"} /\ failure' = "none"
        BY <3>3 DEF Called
      <4> QED BY <4>1, <4>2
    <3> QED BY <3>1, <3>2, <3>3
  <2>2. CASE UNCHANGED vars
    BY <2>2 DEF vars
  <2> QED BY <2>1, <2>2
<1> HIDE DEF Rest
<1> QED BY <1>1, <1>2, <1>3, SamplerInvariant, PTL DEF Spec
===============================================================================
