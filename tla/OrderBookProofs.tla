--------------------------- MODULE OrderBookProofs ----------------------------
(***************************************************************************)
(* Proofs about the order book, for every capacity, every set of prices    *)
(* and quantities and every snapshot.                                      *)
(***************************************************************************)
EXTENDS OrderBook, DataInduction, SequenceTheorems

-------------------------------------------------------------------------------
(* The sequence operators that BookSide::apply's shifts are written with. *)

LEMMA RemoveAtShifts ==
  ASSUME NEW S, NEW s \in Seq(S), NEW i \in 1 .. Len(s)
  PROVE  /\ RemoveAt(s, i) \in Seq(S)
         /\ Len(RemoveAt(s, i)) = Len(s) - 1
         /\ \A k \in 1 .. Len(s) - 1 :
              RemoveAt(s, i)[k] = IF k < i THEN s[k] ELSE s[k + 1]
<1> DEFINE a == SubSeq(s, 1, i - 1)
           b == SubSeq(s, i + 1, Len(s))
<1>1. a \in Seq(S) /\ Len(a) = i - 1 /\ \A k \in 1 .. i - 1 : a[k] = s[k]
  OBVIOUS
<1>2. b \in Seq(S) /\ Len(b) = Len(s) - i /\ \A k \in 1 .. Len(s) - i : b[k] = s[k + i]
  OBVIOUS
<1> HIDE DEF a, b
<1>3. /\ a \o b \in Seq(S)
      /\ Len(a \o b) = Len(s) - 1
      /\ \A k \in 1 .. Len(s) - 1 : (a \o b)[k] = IF k < i THEN s[k] ELSE s[k + 1]
  <2>1. /\ a \o b \in Seq(S)
        /\ Len(a \o b) = Len(a) + Len(b)
        /\ \A k \in 1 .. Len(a) + Len(b) :
             (a \o b)[k] = IF k <= Len(a) THEN a[k] ELSE b[k - Len(a)]
    BY <1>1, <1>2, ConcatProperties
  <2> QED BY <2>1, <1>1, <1>2
<1> QED BY <1>3 DEF RemoveAt, a, b

LEMMA InsertAtShifts ==
  ASSUME NEW S, NEW s \in Seq(S), NEW i \in 1 .. Len(s) + 1, NEW e \in S
  PROVE  /\ InsertAt(s, i, e) \in Seq(S)
         /\ Len(InsertAt(s, i, e)) = Len(s) + 1
         /\ \A k \in 1 .. Len(s) + 1 :
              InsertAt(s, i, e)[k] =
                IF k < i THEN s[k] ELSE IF k = i THEN e ELSE s[k - 1]
<1> DEFINE a == SubSeq(s, 1, i - 1)
           b == SubSeq(s, i, Len(s))
<1>1. a \in Seq(S) /\ Len(a) = i - 1 /\ \A k \in 1 .. i - 1 : a[k] = s[k]
  OBVIOUS
<1>2. b \in Seq(S) /\ Len(b) = Len(s) - i + 1 /\ \A k \in 1 .. Len(s) - i + 1 : b[k] = s[k + i - 1]
  OBVIOUS
<1> HIDE DEF a, b
<1>3. DEFINE c == a \o << e >>
<1>4. c \in Seq(S) /\ Len(c) = i /\ \A k \in 1 .. i : c[k] = IF k < i THEN s[k] ELSE e
  BY <1>1
<1> HIDE DEF c
<1>5. /\ c \o b \in Seq(S)
      /\ Len(c \o b) = Len(s) + 1
      /\ \A k \in 1 .. Len(s) + 1 :
           (c \o b)[k] = IF k < i THEN s[k] ELSE IF k = i THEN e ELSE s[k - 1]
  <2>1. /\ c \o b \in Seq(S)
        /\ Len(c \o b) = Len(c) + Len(b)
        /\ \A k \in 1 .. Len(c) + Len(b) :
             (c \o b)[k] = IF k <= Len(c) THEN c[k] ELSE b[k - Len(c)]
    BY <1>2, <1>4, ConcatProperties
  <2> QED BY <2>1, <1>2, <1>4
<1> QED BY <1>5 DEF InsertAt, a, b, c

LEMMA FrontDropsLast ==
  ASSUME NEW S, NEW s \in Seq(S), Len(s) > 0
  PROVE  /\ Front(s) \in Seq(S)
         /\ Len(Front(s)) = Len(s) - 1
         /\ \A k \in 1 .. Len(s) - 1 : Front(s)[k] = s[k]
<1> DEFINE n == Len(s)
           f == SubSeq(s, 1, n - 1)
<1>1. n \in Nat \ {0} /\ \A k \in 1 .. n - 1 : s[k] \in S
  OBVIOUS
<1> HIDE DEF n
<1>2. /\ f \in Seq(S)
      /\ Len(f) = IF 1 <= n - 1 THEN n - 1 - 1 + 1 ELSE 0
      /\ \A k \in 1 .. n - 1 - 1 + 1 : f[k] = s[1 + k - 1]
  BY <1>1, SubSeqProperties
<1> HIDE DEF f
<1>3. f \in Seq(S) /\ Len(f) = n - 1 /\ \A k \in 1 .. n - 1 : f[k] = s[k]
  BY <1>1, <1>2
<1> QED BY <1>3 DEF Front, f, n

-------------------------------------------------------------------------------
(* The scans of BookSide::apply stop, at the first level they look for. *)

LEMMA ExistingFinds ==
  ASSUME NEW S, NEW list \in Seq(S), NEW price
  PROVE  LET e == Existing(list, price)
         IN  /\ e \in 1 .. Len(list) + 1
             /\ e <= Len(list) => list[e].price = price
             /\ \A j \in 1 .. e - 1 : list[j].price # price
<1> DEFINE T == {i \in 1 .. Len(list) + 1 : i <= Len(list) => list[i].price = price}
<1>1. Len(list) + 1 \in T
  OBVIOUS
<1>2. T \in SUBSET Nat
  OBVIOUS
<1>3. PICK x \in T : \A y \in T : x <= y
  <2> HIDE DEF T
  <2> QED BY <1>1, <1>2, LeastNatural
<1>4. \A j \in 1 .. x - 1 : list[j].price # price
  BY <1>3
<1>5. \E i \in 1 .. Len(list) + 1 : /\ i <= Len(list) => list[i].price = price
                                    /\ \A j \in 1 .. i - 1 : ~ (list[j].price = price)
  BY <1>4
<1> QED BY <1>5 DEF Existing, ScanUntil

LEMMA ExistingIsTheOne ==
  ASSUME NEW S, NEW list \in Seq(S), NEW j \in 1 .. Len(list),
         \A i, k \in DOMAIN list : list[i].price = list[k].price => i = k
  PROVE  Existing(list, list[j].price) = j
<1> DEFINE e == Existing(list, list[j].price)
<1>1. /\ e \in 1 .. Len(list) + 1
      /\ e <= Len(list) => list[e].price = list[j].price
      /\ \A k \in 1 .. e - 1 : list[k].price # list[j].price
  BY ExistingFinds
<1> HIDE DEF e
<1>2. Len(list) \in Nat /\ DOMAIN list = 1 .. Len(list)
  OBVIOUS
<1>3. e <= Len(list)
  BY <1>1, <1>2
<1>4. e = j
  BY <1>1, <1>2, <1>3
<1> QED BY <1>4 DEF e

(* The map of a list whose prices are distinct gives each of its levels,   *)
(* and no other price.                                                     *)
LEMMA ListMapIsCurrent ==
  ASSUME NEW list \in Seq(PriceLevel),
         \A i, j \in DOMAIN list : list[i].price = list[j].price => i = j
  PROVE  /\ ListMap(list) \in [Ticks -> Quantities]
         /\ \A j \in DOMAIN list : ListMap(list)[list[j].price] = list[j].quantity
         /\ \A p \in Ticks : p \notin Prices(list) => ListMap(list)[p] = 0
         /\ IsFiniteSet(Prices(list))
<1>1. /\ DOMAIN list = 1 .. Len(list) /\ Len(list) \in Nat
      /\ \A j \in 1 .. Len(list) : list[j] \in PriceLevel
  OBVIOUS
<1>2. \A j \in 1 .. Len(list) : list[j].price \in Ticks /\ list[j].quantity \in Quantities
  BY <1>1 DEF PriceLevel
<1>3. \A j \in 1 .. Len(list) : Existing(list, list[j].price) = j
  BY <1>1, ExistingIsTheOne
<1>4. \A j \in 1 .. Len(list) : list[j].price \in Prices(list)
  BY <1>1 DEF Prices
<1>5. \A p \in Prices(list) : \E j \in 1 .. Len(list) : p = list[j].price
  BY <1>1 DEF Prices
<1>6. ListMap(list) \in [Ticks -> Quantities]
  <2> SUFFICES ASSUME NEW p \in Ticks, p \in Prices(list)
               PROVE  list[Existing(list, p)].quantity \in Quantities
    BY QuantitiesAssumption DEF ListMap
  <2>1. PICK j \in 1 .. Len(list) : p = list[j].price
    BY <1>5
  <2> QED BY <2>1, <1>2, <1>3
<1>7. \A j \in 1 .. Len(list) : ListMap(list)[list[j].price] = list[j].quantity
  BY <1>2, <1>3, <1>4 DEF ListMap
<1>8. \A p \in Ticks : p \notin Prices(list) => ListMap(list)[p] = 0
  BY DEF ListMap
<1>9. IsFiniteSet(Prices(list))
  <2>1. IsFiniteSet(1 .. Len(list))
    BY <1>1, FS_Interval
  <2>2. [i \in 1 .. Len(list) |-> list[i].price] \in Surjection(1 .. Len(list), Prices(list))
    BY <1>4, <1>5 DEF Surjection
  <2> QED BY <2>1, <2>2, FS_Surjection
<1> QED BY <1>1, <1>6, <1>7, <1>8, <1>9

LEMMA InsertionFinds ==
  ASSUME NEW S, NEW list \in Seq(S), NEW side, NEW price
  PROVE  LET i == Insertion(side, list, price)
         IN  /\ i \in 1 .. Len(list) + 1
             /\ i <= Len(list) => ~ IsBetter(side, list[i].price, price)
             /\ \A j \in 1 .. i - 1 : IsBetter(side, list[j].price, price)
<1> DEFINE T == {i \in 1 .. Len(list) + 1 :
                   i <= Len(list) => ~ IsBetter(side, list[i].price, price)}
<1>1. Len(list) + 1 \in T
  OBVIOUS
<1>2. T \in SUBSET Nat
  OBVIOUS
<1>3. PICK x \in T : \A y \in T : x <= y
  <2> HIDE DEF T
  <2> QED BY <1>1, <1>2, LeastNatural
<1>4. \A j \in 1 .. x - 1 : IsBetter(side, list[j].price, price)
  BY <1>3
<1>5. \E i \in 1 .. Len(list) + 1 :
         /\ i <= Len(list) => ~ IsBetter(side, list[i].price, price)
         /\ \A j \in 1 .. i - 1 : ~ ~ IsBetter(side, list[j].price, price)
  BY <1>4
<1> QED BY <1>5 DEF Insertion, ScanUntil

-------------------------------------------------------------------------------
(* What a call of BookSide::apply may do to its array. *)
Updates(list, after, new) ==
  \E e \in 1 .. Len(list) :
    /\ list[e].price = new.price
    /\ Len(after) = Len(list)
    /\ \A k \in 1 .. Len(list) : after[k] = IF k = e THEN new ELSE list[k]

Removes(list, after, price) ==
  \E e \in 1 .. Len(list) :
    /\ list[e].price = price
    /\ Len(after) = Len(list) - 1
    /\ \A k \in 1 .. Len(list) - 1 : after[k] = IF k < e THEN list[k] ELSE list[k + 1]

(* A full side loses its last level. *)
Inserts(side, list, after, new) ==
  \E at \in 1 .. Len(after) :
    /\ Len(after) = IF Len(list) = Depth THEN Depth ELSE Len(list) + 1
    /\ \A k \in 1 .. Len(after) :
         after[k] = IF k < at THEN list[k] ELSE IF k = at THEN new ELSE list[k - 1]
    /\ \A k \in 1 .. Len(list) :
         IF k < at THEN IsBetter(side, list[k].price, new.price)
         ELSE IsBetter(side, new.price, list[k].price)

(* The price is not held, and is removed or is worse than all of a full side. *)
Ignores(side, list, price, quantity) ==
  \/ quantity = 0
  \/ Len(list) = Depth /\ \A k \in 1 .. Len(list) : IsBetter(side, list[k].price, price)

LEMMA BetterIsAnOrder ==
  ASSUME NEW side
  PROVE  /\ \A p, q \in Int : ~ IsBetter(side, p, q) /\ p # q => IsBetter(side, q, p)
         /\ \A p, q, r \in Int : IsBetter(side, p, q) /\ IsBetter(side, q, r) => IsBetter(side, p, r)
         /\ \A p, q \in Int : IsBetter(side, p, q) => p # q
BY DEF IsBetter

LEMMA SideTypes ==
  ASSUME NEW side, NEW list, WellFormed(side, list)
  PROVE  /\ list \in Seq(LiveLevel) /\ Len(list) \in Nat /\ Len(list) <= Depth
         /\ DOMAIN list = 1 .. Len(list) /\ Depth \in Nat \ {0}
         /\ \A i, j \in 1 .. Len(list) : i < j => IsBetter(side, list[i].price, list[j].price)
         /\ \A i \in 1 .. Len(list) :
              list[i] \in LiveLevel /\ list[i].price \in Ticks /\ list[i].price \in Int
<1>1. list \in Seq(LiveLevel) /\ Len(list) <= Depth
      /\ \A i, j \in DOMAIN list : i < j => IsBetter(side, list[i].price, list[j].price)
  BY DEF WellFormed
<1>2. DOMAIN list = 1 .. Len(list) /\ Len(list) \in Nat
      /\ \A i \in 1 .. Len(list) : list[i] \in LiveLevel
  BY <1>1
<1>3. \A lv \in LiveLevel : lv.price \in Ticks /\ lv.price \in Int
  BY TicksAssumption DEF LiveLevel, PriceLevel
<1> QED BY <1>1, <1>2, <1>3, DepthAssumption

(***************************************************************************)
(* The scans find the level of the price, or else the place between the    *)
(* better and the worse ones, and an eviction makes room before it.        *)
(***************************************************************************)
LEMMA AppliedShapes ==
  ASSUME NEW side \in Sides, NEW list, WellFormed(side, list),
         NEW price \in Ticks, NEW quantity \in Quantities
  PROVE  LET after == Applied(side, list, price, quantity)
             new == [price |-> price, quantity |-> quantity]
         IN  /\ after \in Seq(LiveLevel)
             /\ \/ quantity # 0 /\ Updates(list, after, new)
                \/ quantity = 0 /\ Removes(list, after, price)
                \/ price \notin Prices(list) /\ after = list
                   /\ Ignores(side, list, price, quantity)
                \/ price \notin Prices(list) /\ quantity # 0 /\ Inserts(side, list, after, new)
<1> DEFINE new == [price |-> price, quantity |-> quantity]
           e == Existing(list, price)
           at == Insertion(side, list, price)
           after == Applied(side, list, price, quantity)
<1>1. /\ list \in Seq(LiveLevel) /\ Len(list) \in Nat /\ Len(list) <= Depth
      /\ DOMAIN list = 1 .. Len(list) /\ Depth \in Nat \ {0}
      /\ \A i, j \in 1 .. Len(list) : i < j => IsBetter(side, list[i].price, list[j].price)
      /\ \A i \in 1 .. Len(list) : list[i] \in LiveLevel /\ list[i].price \in Int
  BY SideTypes
<1>2. /\ e \in 1 .. Len(list) + 1
      /\ e <= Len(list) => list[e].price = price
      /\ \A j \in 1 .. e - 1 : list[j].price # price
  BY <1>1, ExistingFinds
<1>3. /\ at \in 1 .. Len(list) + 1
      /\ at <= Len(list) => ~ IsBetter(side, list[at].price, price)
      /\ \A j \in 1 .. at - 1 : IsBetter(side, list[j].price, price)
  BY <1>1, InsertionFinds
<1>4. price \in Int /\ (quantity # 0 => new \in LiveLevel)
  BY TicksAssumption DEF LiveLevel, PriceLevel
<1> HIDE DEF e, at
<1>5. CASE e <= Len(list) /\ quantity # 0
  <2>1. after = [list EXCEPT ![e].quantity = quantity]
    BY <1>5 DEF Applied, Change, e
  <2>2. [list[e] EXCEPT !.quantity = quantity] = new /\ new \in LiveLevel
    BY <1>1, <1>2, <1>5 DEF LiveLevel, PriceLevel
  <2>3. after = [list EXCEPT ![e] = new]
    BY <2>1, <2>2
  <2>4. /\ after \in Seq(LiveLevel) /\ Len(after) = Len(list)
        /\ \A k \in 1 .. Len(list) : after[k] = IF k = e THEN new ELSE list[k]
    BY <2>2, <2>3, <1>1, <1>2, <1>5
  <2> HIDE DEF after
  <2>5. Updates(list, after, new)
    BY <2>4, <1>1, <1>2, <1>5 DEF Updates
  <2> QED BY <2>4, <2>5, <1>5 DEF after
<1>6. CASE e <= Len(list) /\ quantity = 0
  <2>1. after = RemoveAt(list, e) /\ e \in 1 .. Len(list)
    BY <1>1, <1>2, <1>6 DEF Applied, Change, e
  <2>2. /\ after \in Seq(LiveLevel) /\ Len(after) = Len(list) - 1
        /\ \A k \in 1 .. Len(list) - 1 : after[k] = IF k < e THEN list[k] ELSE list[k + 1]
    BY <2>1, <1>1, RemoveAtShifts
  <2> HIDE DEF after
  <2>3. Removes(list, after, price)
    BY <2>1, <2>2, <1>2, <1>6 DEF Removes
  <2> QED BY <2>2, <2>3, <1>6 DEF after
<1>7. ASSUME e = Len(list) + 1
      PROVE  price \notin Prices(list) /\ \A k \in 1 .. Len(list) : list[k].price # price
  BY <1>7, <1>2, <1>1 DEF Prices
<1>8. CASE /\ e = Len(list) + 1
           /\ quantity = 0 \/ (Len(list) = Depth /\ at = Len(list) + 1)
  <2>1. after = list
    BY <1>8, <1>1 DEF Applied, Change, e, at
  <2>2. at = Len(list) + 1 => \A k \in 1 .. Len(list) : IsBetter(side, list[k].price, price)
    BY <1>1, <1>3
  <2>3. Ignores(side, list, price, quantity)
    BY <2>2, <1>8 DEF Ignores
  <2> HIDE DEF after
  <2> QED BY <2>1, <2>3, <1>7, <1>8, <1>1 DEF after
<1>9. CASE /\ e = Len(list) + 1 /\ quantity # 0
           /\ ~ (Len(list) = Depth /\ at = Len(list) + 1)
  <2> DEFINE kept == IF Len(list) = Depth THEN Front(list) ELSE list
  <2>1. after = InsertAt(kept, at, new)
    BY <1>9, <1>1 DEF Applied, Change, e, at
  <2>2. /\ kept \in Seq(LiveLevel) /\ Len(kept) \in Nat
        /\ Len(kept) = IF Len(list) = Depth THEN Depth - 1 ELSE Len(list)
        /\ \A k \in 1 .. Len(kept) : list[k] = kept[k]
        /\ at \in 1 .. Len(kept) + 1
    <3>1. CASE Len(list) = Depth
      BY <3>1, <1>1, <1>3, <1>9, FrontDropsLast
    <3>2. CASE Len(list) # Depth
      BY <3>2, <1>1, <1>3, <1>9
    <3> QED BY <3>1, <3>2
  <2> HIDE DEF kept
  <2>3. /\ after \in Seq(LiveLevel) /\ Len(after) = Len(kept) + 1
        /\ \A k \in 1 .. Len(kept) + 1 :
             after[k] = IF k < at THEN kept[k] ELSE IF k = at THEN new ELSE kept[k - 1]
    BY <2>1, <2>2, <1>4, <1>9, InsertAtShifts
  <2> HIDE DEF after, new
  <2>4. \A k \in 1 .. Len(after) :
          after[k] = IF k < at THEN list[k] ELSE IF k = at THEN new ELSE list[k - 1]
    <3> SUFFICES ASSUME NEW k \in 1 .. Len(kept) + 1
                 PROVE  after[k] = IF k < at THEN list[k] ELSE IF k = at THEN new ELSE list[k - 1]
      BY <2>3
    <3>1. k < at => k \in 1 .. Len(kept)
      BY <2>2
    <3>2. k > at => k - 1 \in 1 .. Len(kept)
      BY <2>2
    <3> QED BY <3>1, <3>2, <2>2, <2>3
  <2>5. \A k \in 1 .. Len(list) : k < at => IsBetter(side, list[k].price, price)
    BY <1>3, <1>1
  <2>6. \A k \in 1 .. Len(list) : k >= at => IsBetter(side, price, list[k].price)
    <3> SUFFICES ASSUME NEW k \in 1 .. Len(list), k >= at
                 PROVE  IsBetter(side, price, list[k].price)
      OBVIOUS
    <3>1. at \in 1 .. Len(list)
      BY <1>1, <1>3
    <3>2. list[at].price # price
      BY <3>1, <1>7, <1>9
    <3>3. IsBetter(side, price, list[at].price)
      <4>1. ~ IsBetter(side, list[at].price, price) /\ list[at].price \in Int
        BY <3>1, <1>1, <1>3
      <4> QED BY <4>1, <3>2, <1>4, BetterIsAnOrder
    <3>4. CASE k = at
      BY <3>3, <3>4
    <3>5. CASE k > at
      <4>1. IsBetter(side, list[at].price, list[k].price)
        BY <3>1, <3>5, <1>1
      <4> QED BY <4>1, <3>1, <3>3, <1>1, <1>4, BetterIsAnOrder
    <3> QED BY <3>4, <3>5, <3>1
  <2>7. new.price = price
    BY DEF new
  <2>8. Inserts(side, list, after, new)
    <3>1. at \in 1 .. Len(after) /\ \A k \in 1 .. Len(list) : k < at \/ k >= at
      BY <2>2, <2>3
    <3>2. Len(after) = IF Len(list) = Depth THEN Depth ELSE Len(list) + 1
      <4>1. /\ Len(after) = Len(kept) + 1 /\ Depth \in Nat /\ Len(list) \in Nat
            /\ Len(kept) = IF Len(list) = Depth THEN Depth - 1 ELSE Len(list)
        BY <2>2, <2>3, <1>1
      <4> QED BY <4>1
    <3>3. \A k \in 1 .. Len(list) :
            IF k < at THEN IsBetter(side, list[k].price, new.price)
            ELSE IsBetter(side, new.price, list[k].price)
      BY <3>1, <2>5, <2>6, <2>7
    <3> QED BY <3>1, <3>2, <3>3, <2>4 DEF Inserts
  <2>9. price \notin Prices(list) /\ quantity # 0
    BY <1>7, <1>9
  <2>10. after \in Seq(LiveLevel)
    BY <2>3
  <2> QED BY <2>8, <2>9, <2>10, Zenon DEF after, new
<1>10. \/ e <= Len(list) /\ quantity # 0
       \/ e <= Len(list) /\ quantity = 0
       \/ /\ e = Len(list) + 1
          /\ quantity = 0 \/ (Len(list) = Depth /\ at = Len(list) + 1)
       \/ /\ e = Len(list) + 1 /\ quantity # 0
          /\ ~ (Len(list) = Depth /\ at = Len(list) + 1)
  <2>1. Len(list) \in Nat /\ e \in 1 .. Len(list) + 1
    BY <1>1, <1>2
  <2> QED BY <2>1
<1> HIDE DEF after, new
<1> QED BY <1>5, <1>6, <1>8, <1>9, <1>10, Zenon

(***************************************************************************)
(* One call of BookSide::apply on a well-formed side leaves it well-formed *)
(* and holding only the level it was given and levels it held before at    *)
(* other prices.                                                           *)
(***************************************************************************)
LEMMA AppliedKeepsOrder ==
  ASSUME NEW side \in Sides, NEW list, WellFormed(side, list),
         NEW price \in Ticks, NEW quantity \in Quantities
  PROVE  LET after == Applied(side, list, price, quantity)
         IN  /\ WellFormed(side, after)
             /\ \A k \in DOMAIN after :
                  \/ after[k] = [price |-> price, quantity |-> quantity]
                  \/ /\ after[k].price # price
                     /\ \E j \in DOMAIN list : after[k] = list[j]
<1> DEFINE new == [price |-> price, quantity |-> quantity]
           after == Applied(side, list, price, quantity)
           Contents(s) == \A k \in DOMAIN s :
                            \/ s[k] = new
                            \/ /\ s[k].price # price
                               /\ \E j \in DOMAIN list : s[k] = list[j]
<1>1. /\ list \in Seq(LiveLevel) /\ Len(list) \in Nat /\ Len(list) <= Depth
      /\ DOMAIN list = 1 .. Len(list) /\ Depth \in Nat \ {0}
      /\ \A i, j \in 1 .. Len(list) : i < j => IsBetter(side, list[i].price, list[j].price)
      /\ \A i \in 1 .. Len(list) : list[i] \in LiveLevel /\ list[i].price \in Int
  BY SideTypes
<1>2. /\ after \in Seq(LiveLevel)
      /\ \/ Updates(list, after, new)
         \/ Removes(list, after, price)
         \/ price \notin Prices(list) /\ after = list
         \/ price \notin Prices(list) /\ Inserts(side, list, after, new)
  BY AppliedShapes
<1>3. new.price = price /\ price \in Int
  BY TicksAssumption
<1> HIDE DEF after, new
<1>4. DOMAIN after = 1 .. Len(after) /\ Len(after) \in Nat
  BY <1>2
<1>5. \A e, k \in 1 .. Len(list) : list[e].price = price /\ k # e => list[k].price # price
  BY <1>1, BetterIsAnOrder
<1>6. CASE Updates(list, after, new)
  <2>1. PICK e \in 1 .. Len(list) :
          /\ list[e].price = price /\ Len(after) = Len(list)
          /\ \A k \in 1 .. Len(list) : after[k] = IF k = e THEN new ELSE list[k]
    BY <1>3, <1>6 DEF Updates
  <2>2. \A k \in 1 .. Len(list) : after[k].price = list[k].price
    BY <2>1, <1>3
  <2>3. WellFormed(side, after)
    BY <2>1, <2>2, <1>1, <1>2 DEF WellFormed
  <2>4. Contents(after)
    BY <2>1, <1>1, <1>4, <1>5
  <2> QED BY <2>3, <2>4 DEF after, new
<1>7. CASE Removes(list, after, price)
  <2>1. PICK e \in 1 .. Len(list) :
          /\ list[e].price = price /\ Len(after) = Len(list) - 1
          /\ \A k \in 1 .. Len(list) - 1 : after[k] = IF k < e THEN list[k] ELSE list[k + 1]
    BY <1>7 DEF Removes
  <2> DEFINE from(k) == IF k < e THEN k ELSE k + 1
  <2>2. \A k \in 1 .. Len(after) :
          from(k) \in 1 .. Len(list) /\ from(k) # e /\ after[k] = list[from(k)]
    BY <2>1, <1>1
  <2>3. \A i, j \in 1 .. Len(after) : i < j => from(i) < from(j)
    BY <2>1, <1>1
  <2> HIDE DEF from
  <2>4. WellFormed(side, after)
    BY <2>1, <2>2, <2>3, <1>1, <1>2, <1>4 DEF WellFormed
  <2>5. Contents(after)
    BY <2>1, <2>2, <1>1, <1>4, <1>5
  <2> QED BY <2>4, <2>5 DEF after, new
<1>8. ASSUME price \notin Prices(list)
      PROVE  \A k \in 1 .. Len(list) : list[k].price # price
  BY <1>1, <1>8 DEF Prices
<1>9. CASE price \notin Prices(list) /\ after = list
  BY <1>1, <1>8, <1>9 DEF after
<1>10. CASE price \notin Prices(list) /\ Inserts(side, list, after, new)
  <2>1. PICK at \in 1 .. Len(after) :
          /\ Len(after) = IF Len(list) = Depth THEN Depth ELSE Len(list) + 1
          /\ \A k \in 1 .. Len(after) :
               after[k] = IF k < at THEN list[k] ELSE IF k = at THEN new ELSE list[k - 1]
          /\ \A k \in 1 .. Len(list) :
               IF k < at THEN IsBetter(side, list[k].price, price)
               ELSE IsBetter(side, price, list[k].price)
    <3>1. PICK at \in 1 .. Len(after) :
            /\ Len(after) = IF Len(list) = Depth THEN Depth ELSE Len(list) + 1
            /\ \A k \in 1 .. Len(after) :
                 after[k] = IF k < at THEN list[k] ELSE IF k = at THEN new ELSE list[k - 1]
            /\ \A k \in 1 .. Len(list) :
                 IF k < at THEN IsBetter(side, list[k].price, new.price)
                 ELSE IsBetter(side, new.price, list[k].price)
      BY <1>10 DEF Inserts
    <3> QED BY <3>1, <1>3
  <2>2. Len(after) <= Depth /\ Len(after) <= Len(list) + 1
    <3>1. /\ Len(after) = IF Len(list) = Depth THEN Depth ELSE Len(list) + 1
          /\ Depth \in Nat /\ Len(list) \in Nat /\ Len(list) <= Depth
      BY <2>1, <1>1
    <3> QED BY <3>1
  <2>3. \A k \in 1 .. Len(after) :
           /\ k < at => k \in 1 .. Len(list)
           /\ k > at => k - 1 \in 1 .. Len(list)
    BY <2>2, <1>1
  <2>4. ASSUME NEW i \in 1 .. Len(after), NEW j \in 1 .. Len(after), i < j
        PROVE  IsBetter(side, after[i].price, after[j].price)
    <3>1. i \in Nat /\ j \in Nat /\ at \in Nat
      BY <1>4
    <3>2. CASE j < at
      <4>1. /\ i \in 1 .. Len(list) /\ after[i] = list[i]
            /\ j \in 1 .. Len(list) /\ after[j] = list[j]
        BY <3>1, <3>2, <2>1, <2>3, <2>4
      <4> QED BY <4>1, <2>4, <1>1
    <3>3. CASE j = at
      BY <3>1, <3>3, <2>1, <2>3, <2>4, <1>3
    <3>4. CASE j > at
      <4>1. j - 1 \in 1 .. Len(list) /\ j - 1 >= at /\ after[j] = list[j - 1]
        BY <3>1, <3>4, <2>1, <2>3
      <4>2. CASE i < at
        <5>1. i \in 1 .. Len(list) /\ after[i] = list[i] /\ i < j - 1
          BY <3>1, <4>1, <4>2, <2>1, <2>3
        <5> QED BY <5>1, <4>1, <1>1
      <4>3. CASE i = at
        <5>1. after[i] = new
          BY <3>1, <4>3, <2>1
        <5> QED BY <5>1, <3>1, <4>1, <2>1, <1>3
      <4>4. CASE i > at
        <5>1. i - 1 \in 1 .. Len(list) /\ after[i] = list[i - 1] /\ i - 1 < j - 1
          BY <3>1, <4>4, <2>1, <2>3, <2>4
        <5> QED BY <5>1, <4>1, <1>1
      <4> QED BY <3>1, <4>2, <4>3, <4>4
    <3> QED BY <3>1, <3>2, <3>3, <3>4
  <2>5. WellFormed(side, after)
    BY <2>2, <2>4, <1>2, <1>4 DEF WellFormed
  <2>6. Contents(after)
    <3> SUFFICES ASSUME NEW k \in 1 .. Len(after)
                 PROVE  \/ after[k] = new
                        \/ /\ after[k].price # price
                           /\ \E j \in DOMAIN list : after[k] = list[j]
      BY <1>4
    <3>1. k < at \/ k = at \/ k > at
      BY <1>4
    <3> QED BY <3>1, <2>1, <2>3, <1>1, <1>8, <1>10
  <2> QED BY <2>5, <2>6 DEF after, new
<1> QED BY <1>2, <1>6, <1>7, <1>9, <1>10

(***************************************************************************)
(* Every price told that the side does not hold is worse than its first k  *)
(* levels.                                                                 *)
(***************************************************************************)
Behind(side, list, told, k) ==
  \A p \in told \ Prices(list) : k <= Len(list) /\ IsBetter(side, list[k].price, p)

(* The prices told once a price has been given a quantity. *)
ToldAfter(told, price, quantity) ==
  IF quantity = 0 THEN told \ {price} ELSE told \cup {price}

(* An insertion leaves every position as good as it was, and better from   *)
(* the place of the insertion on.                                          *)
LEMMA InsertsImproves ==
  ASSUME NEW side, NEW list, NEW after, NEW new, WellFormed(side, list),
         Inserts(side, list, after, new)
  PROVE  \E at \in 1 .. Len(after) :
           /\ Len(list) <= Len(after) /\ (Len(list) # Depth => Len(after) = Len(list) + 1)
           /\ after[at] = new
           /\ \A k \in 1 .. Len(list) :
                /\ k < at => after[k] = list[k]
                /\ k >= at => IsBetter(side, after[k].price, list[k].price)
                /\ k >= at /\ k < Len(after) => after[k + 1] = list[k]
<1>1. /\ Len(list) \in Nat /\ Len(list) <= Depth /\ Depth \in Nat
      /\ \A i, j \in 1 .. Len(list) : i < j => IsBetter(side, list[i].price, list[j].price)
  BY SideTypes
<1>2. PICK at \in 1 .. Len(after) :
        /\ Len(after) = IF Len(list) = Depth THEN Depth ELSE Len(list) + 1
        /\ \A k \in 1 .. Len(after) :
             after[k] = IF k < at THEN list[k] ELSE IF k = at THEN new ELSE list[k - 1]
        /\ \A k \in 1 .. Len(list) :
             IF k < at THEN IsBetter(side, list[k].price, new.price)
             ELSE IsBetter(side, new.price, list[k].price)
  BY DEF Inserts
<1>3. /\ Len(after) \in Nat /\ Len(list) <= Len(after)
      /\ Len(list) # Depth => Len(after) = Len(list) + 1
  <2>1. /\ Len(after) = IF Len(list) = Depth THEN Depth ELSE Len(list) + 1
        /\ Len(list) \in Nat /\ Len(list) <= Depth /\ Depth \in Nat
    BY <1>1, <1>2
  <2> QED BY <2>1
<1>4. after[at] = new
  BY <1>2, <1>3
<1>5. ASSUME NEW k \in 1 .. Len(list)
      PROVE  /\ k < at => after[k] = list[k]
             /\ k >= at => IsBetter(side, after[k].price, list[k].price)
             /\ k >= at /\ k < Len(after) => after[k + 1] = list[k]
  <2>1. k \in 1 .. Len(after) /\ k \in Nat /\ at \in Nat
    BY <1>1, <1>3
  <2>2. k < at => after[k] = list[k]
    BY <2>1, <1>2
  <2>3. k >= at /\ k < Len(after) => after[k + 1] = list[k]
    <3>1. k < Len(after) => k + 1 \in 1 .. Len(after) /\ k + 1 - 1 = k
      BY <2>1, <1>3
    <3>2. k >= at => ~ (k + 1 < at) /\ k + 1 # at
      BY <2>1
    <3> QED BY <3>1, <3>2, <1>2
  <2>4. k = at => IsBetter(side, after[k].price, list[k].price)
    BY <2>1, <1>2
  <2>5. k > at => IsBetter(side, after[k].price, list[k].price)
    <3>1. k > at => k - 1 \in 1 .. Len(list) /\ k - 1 < k /\ ~ (k < at) /\ k # at
      BY <2>1, <1>1
    <3> QED BY <3>1, <2>1, <1>1, <1>2
  <2> QED BY <2>1, <2>2, <2>3, <2>4, <2>5
<1> QED BY <1>3, <1>4, <1>5

LEMMA RemovedStaysBehind ==
  ASSUME NEW side, NEW list, NEW after, NEW price, WellFormed(side, list),
         after \in Seq(LiveLevel), Removes(list, after, price),
         NEW told \in SUBSET Int, NEW k \in 1 .. Depth, Behind(side, list, told, k)
  PROVE  /\ (told \ {price}) \ Prices(after) \subseteq told \ Prices(list)
         /\ k > 1 => Behind(side, after, told \ {price}, k - 1)
<1>1. /\ DOMAIN list = 1 .. Len(list) /\ Len(list) \in Nat /\ Depth \in Nat
      /\ \A i, j \in 1 .. Len(list) : i < j => IsBetter(side, list[i].price, list[j].price)
      /\ \A i \in 1 .. Len(list) : list[i].price \in Int
  BY SideTypes
<1>2. PICK e \in 1 .. Len(list) :
        /\ list[e].price = price
        /\ Len(after) = Len(list) - 1
        /\ \A i \in 1 .. Len(list) - 1 : after[i] = IF i < e THEN list[i] ELSE list[i + 1]
  BY DEF Removes
<1>3. DOMAIN after = 1 .. Len(list) - 1
  BY <1>2
<1>4. ASSUME NEW i \in 1 .. Len(list), i # e
      PROVE  list[i].price \in Prices(after)
  <2>1. CASE i < e
    <3>1. i \in DOMAIN after /\ after[i] = list[i]
      BY <2>1, <1>1, <1>2, <1>3
    <3> QED BY <3>1 DEF Prices
  <2>2. CASE i > e
    <3>1. i - 1 \in DOMAIN after /\ ~ (i - 1 < e) /\ i - 1 + 1 = i
      BY <2>2, <1>1, <1>3
    <3>2. after[i - 1] = list[i]
      BY <3>1, <1>2, <1>3
    <3> QED BY <3>1, <3>2 DEF Prices
  <2> QED BY <2>1, <2>2, <1>4
<1>5. (told \ {price}) \ Prices(after) \subseteq told \ Prices(list)
  <2> SUFFICES ASSUME NEW p \in told \ {price}, p \notin Prices(after), p \in Prices(list)
               PROVE  FALSE
    OBVIOUS
  <2>1. PICK i \in 1 .. Len(list) : p = list[i].price
    BY <1>1 DEF Prices
  <2> QED BY <2>1, <1>2, <1>4
<1>6. ASSUME k > 1
      PROVE  Behind(side, after, told \ {price}, k - 1)
  <2> SUFFICES ASSUME NEW p \in (told \ {price}) \ Prices(after)
               PROVE  k - 1 <= Len(after) /\ IsBetter(side, after[k - 1].price, p)
    BY DEF Behind
  <2>1. k <= Len(list) /\ IsBetter(side, list[k].price, p) /\ p \in Int
    BY <1>5 DEF Behind
  <2>2. /\ k - 1 \in 1 .. Len(list) - 1 /\ k \in 1 .. Len(list) /\ k - 1 \in 1 .. Len(list)
        /\ k - 1 < k /\ k - 1 + 1 = k
    BY <2>1, <1>1, <1>6
  <2>3. after[k - 1] = list[k - 1] \/ after[k - 1] = list[k]
    BY <2>2, <1>2
  <2>4. IsBetter(side, list[k - 1].price, p)
    <3>1. IsBetter(side, list[k - 1].price, list[k].price)
      BY <2>2, <1>1
    <3> QED BY <3>1, <2>1, <2>2, <1>1, BetterIsAnOrder
  <2>5. k - 1 <= Len(after)
    BY <2>2, <1>2
  <2> QED BY <2>1, <2>3, <2>4, <2>5
<1> QED BY <1>5, <1>6

LEMMA InsertedStaysBehind ==
  ASSUME NEW side, NEW list, NEW after, NEW new \in LiveLevel, WellFormed(side, list),
         after \in Seq(LiveLevel), Inserts(side, list, after, new),
         NEW told \in SUBSET Int, NEW k \in 1 .. Depth, Behind(side, list, told, k)
  PROVE  Behind(side, after, told \cup {new.price}, k)
<1>1. /\ DOMAIN list = 1 .. Len(list) /\ Len(list) \in Nat /\ Len(list) <= Depth /\ Depth \in Nat
      /\ \A i, j \in 1 .. Len(list) : i < j => IsBetter(side, list[i].price, list[j].price)
      /\ \A i \in 1 .. Len(list) : list[i].price \in Int
  BY SideTypes
<1>2. PICK at \in 1 .. Len(after) :
        /\ Len(list) <= Len(after) /\ (Len(list) # Depth => Len(after) = Len(list) + 1)
        /\ after[at] = new
        /\ \A i \in 1 .. Len(list) :
             /\ i < at => after[i] = list[i]
             /\ i >= at => IsBetter(side, after[i].price, list[i].price)
             /\ i >= at /\ i < Len(after) => after[i + 1] = list[i]
  BY InsertsImproves
<1>3. /\ DOMAIN after = 1 .. Len(after) /\ Len(after) \in Nat
      /\ \A i \in 1 .. Len(after) : after[i].price \in Int
  <2>1. \A lv \in LiveLevel : lv.price \in Int
    BY TicksAssumption DEF LiveLevel, PriceLevel
  <2>2. \A i \in 1 .. Len(after) : after[i] \in LiveLevel
    OBVIOUS
  <2> QED BY <2>1, <2>2
<1>4. /\ Len(list) \in Nat /\ Len(list) <= Depth /\ Depth \in Nat
      /\ Len(after) \in Nat /\ at \in Nat
      /\ Len(list) <= Len(after) /\ (Len(list) # Depth => Len(after) = Len(list) + 1)
  <2>1. Len(list) <= Len(after) /\ (Len(list) # Depth => Len(after) = Len(list) + 1)
    BY <1>2
  <2>2. Len(after) \in Nat /\ Len(list) \in Nat /\ Len(list) <= Depth /\ Depth \in Nat
    BY <1>1, <1>3
  <2> QED BY <2>1, <2>2
<1>5. new.price \in Prices(after)
  BY <1>2, <1>3 DEF Prices
<1> SUFFICES ASSUME NEW p \in told, p \notin Prices(after)
             PROVE  k <= Len(after) /\ IsBetter(side, after[k].price, p)
  BY <1>5 DEF Behind
<1>6. \A i \in 1 .. Len(list) :
        after[i].price = list[i].price \/ IsBetter(side, after[i].price, list[i].price)
  <2> TAKE i \in 1 .. Len(list)
  <2>1. i < at \/ i >= at
    BY <1>3
  <2> QED BY <2>1, <1>2
<1>7. CASE p \notin Prices(list)
  <2>1. k \in 1 .. Len(list) /\ IsBetter(side, list[k].price, p)
    BY <1>1, <1>7 DEF Behind
  <2>2. k \in 1 .. Len(after)
    BY <2>1, <1>4
  <2>3. list[k].price \in Int /\ after[k].price \in Int /\ p \in Int
    BY <2>1, <2>2, <1>1, <1>3
  <2>4. IsBetter(side, after[k].price, p)
    BY <2>1, <2>3, <1>6, BetterIsAnOrder
  <2> QED BY <2>2, <2>4
<1>8. CASE p \in Prices(list)
  <2>1. PICK j \in 1 .. Len(list) : p = list[j].price
    BY <1>1, <1>8 DEF Prices
  <2>2. j >= at /\ j = Len(after)
    <3>1. j \in 1 .. Len(after) /\ at \in Nat /\ j \in Nat
      BY <1>4
    <3>2. after[j].price # p /\ (j < Len(after) => after[j + 1].price # p)
      <4>1. \A i \in 1 .. Len(after) : after[i].price # p
        BY <1>3 DEF Prices
      <4> QED BY <4>1, <3>1, <1>3
    <3>3. ~ (j < at)
      BY <3>2, <2>1, <1>2
    <3>4. j >= at
      BY <3>1, <3>3
    <3>5. ~ (j < Len(after))
      BY <3>2, <3>4, <2>1, <1>2
    <3> QED BY <3>1, <3>4, <3>5, <1>4
  <2>3. j = Depth /\ Len(list) = Depth /\ Len(after) = Depth
    <3>1. j \in Nat /\ j <= Len(list)
      BY <1>4
    <3> QED BY <3>1, <2>2, <1>4
  <2>4. k \in 1 .. Len(list) /\ k \in 1 .. Len(after) /\ (k = j \/ k < j)
    BY <2>3, <1>1
  <2>5. k = j => IsBetter(side, after[k].price, p)
    BY <2>1, <2>2, <1>2
  <2>6. k < j => IsBetter(side, after[k].price, p)
    <3> SUFFICES ASSUME k < j
                 PROVE  IsBetter(side, after[k].price, list[j].price)
      BY <2>1
    <3>1. IsBetter(side, list[k].price, list[j].price)
      BY <2>4, <1>1
    <3>2. list[k].price \in Int /\ after[k].price \in Int /\ list[j].price \in Int
      BY <2>4, <1>1, <1>3
    <3> QED BY <3>1, <3>2, <2>4, <1>6, BetterIsAnOrder
  <2> QED BY <2>4, <2>5, <2>6
<1> QED BY <1>7, <1>8

(***************************************************************************)
(* What one call of BookSide::apply does to what is missing.  A removal of *)
(* a level that is held may promote one worse level past the prices that   *)
(* were forgotten; nothing else does: a level is forgotten only when it is *)
(* behind a full side.                                                     *)
(***************************************************************************)
LEMMA AppliedStaysBehind ==
  ASSUME NEW side \in Sides, NEW list, WellFormed(side, list),
         NEW price \in Ticks, NEW quantity \in Quantities,
         NEW told \in SUBSET Int, NEW k \in 1 .. Depth, Behind(side, list, told, k)
  PROVE  LET after == Applied(side, list, price, quantity)
             now == ToldAfter(told, price, quantity)
         IN  IF quantity = 0 /\ price \in Prices(list)
             THEN /\ now \ Prices(after) \subseteq told \ Prices(list)
                  /\ k > 1 => Behind(side, after, now, k - 1)
             ELSE Behind(side, after, now, k)
<1> DEFINE new == [price |-> price, quantity |-> quantity]
           after == Applied(side, list, price, quantity)
           now == ToldAfter(told, price, quantity)
<1>1. /\ list \in Seq(LiveLevel) /\ Len(list) \in Nat /\ Len(list) <= Depth
      /\ DOMAIN list = 1 .. Len(list) /\ Depth \in Nat
  BY SideTypes
<1>2. /\ after \in Seq(LiveLevel)
      /\ \/ quantity # 0 /\ Updates(list, after, new)
         \/ quantity = 0 /\ Removes(list, after, price)
         \/ price \notin Prices(list) /\ after = list /\ Ignores(side, list, price, quantity)
         \/ price \notin Prices(list) /\ quantity # 0 /\ Inserts(side, list, after, new)
  BY AppliedShapes
<1>3. new.price = price /\ (quantity # 0 => new \in LiveLevel)
  BY DEF LiveLevel, PriceLevel
<1> HIDE DEF after, new
<1>4. CASE quantity # 0 /\ Updates(list, after, new)
  <2>1. PICK e \in 1 .. Len(list) :
          /\ list[e].price = price /\ Len(after) = Len(list)
          /\ \A i \in 1 .. Len(list) : after[i] = IF i = e THEN new ELSE list[i]
    BY <1>3, <1>4 DEF Updates
  <2>2. \A i \in 1 .. Len(list) : after[i].price = list[i].price
    BY <2>1, <1>3
  <2>3. DOMAIN after = 1 .. Len(list)
    BY <2>1, <1>2
  <2>4. Prices(after) = Prices(list)
    BY <2>2, <2>3, <1>1 DEF Prices
  <2>5. price \in Prices(list)
    BY <2>1, <1>1 DEF Prices
  <2>6. now \ Prices(after) \subseteq told \ Prices(list)
    BY <2>4, <2>5, <1>4 DEF ToldAfter
  <2>7. Behind(side, after, now, k)
    <3> SUFFICES ASSUME NEW p \in now \ Prices(after)
                 PROVE  k <= Len(after) /\ IsBetter(side, after[k].price, p)
      BY DEF Behind
    <3>1. k <= Len(list) /\ IsBetter(side, list[k].price, p)
      BY <2>6 DEF Behind
    <3>2. k \in 1 .. Len(list)
      BY <3>1, <1>1
    <3> QED BY <3>1, <3>2, <2>1, <2>2
  <2> QED BY <2>7, <1>4 DEF after
<1>5. CASE quantity = 0 /\ Removes(list, after, price)
  <2>1. price \in Prices(list)
    BY <1>1, <1>5 DEF Prices, Removes
  <2>2. now = told \ {price}
    BY <1>5 DEF ToldAfter
  <2>3. /\ now \ Prices(after) \subseteq told \ Prices(list)
        /\ k > 1 => Behind(side, after, now, k - 1)
    BY <2>2, <1>2, <1>5, RemovedStaysBehind
  <2> QED BY <2>1, <2>3, <1>5 DEF after
<1>6. CASE price \notin Prices(list) /\ after = list /\ Ignores(side, list, price, quantity)
  <2>1. Behind(side, after, now, k)
    <3> SUFFICES ASSUME NEW p \in now, p \notin Prices(list)
                 PROVE  k <= Len(list) /\ IsBetter(side, list[k].price, p)
      BY <1>6 DEF Behind
    <3>1. CASE p \in told
      BY <3>1 DEF Behind
    <3>2. CASE p \notin told
      <4>1. p = price /\ quantity # 0
        BY <3>2 DEF ToldAfter
      <4>2. Len(list) = Depth /\ \A i \in 1 .. Len(list) : IsBetter(side, list[i].price, price)
        BY <4>1, <1>6 DEF Ignores
      <4> QED BY <4>1, <4>2, <1>1
    <3> QED BY <3>1, <3>2
  <2> QED BY <2>1, <1>6 DEF after
<1>7. CASE price \notin Prices(list) /\ quantity # 0 /\ Inserts(side, list, after, new)
  <2>1. now = told \cup {new.price}
    BY <1>3, <1>7 DEF ToldAfter
  <2>2. Behind(side, after, now, k)
    BY <2>1, <1>2, <1>3, <1>7, InsertedStaysBehind
  <2> QED BY <2>2, <1>7 DEF after
<1> HIDE DEF now
<1> QED BY <1>2, <1>4, <1>5, <1>6, <1>7

(***************************************************************************)
(* Loading a list whose prices are distinct, as apply_snapshot does, gives *)
(* a well-formed side that holds only levels of the list, and whatever of  *)
(* the list it does not hold is behind Depth better levels.                *)
(***************************************************************************)
ToldBy(list, n) == {list[j].price : j \in {i \in 1 .. n : list[i].quantity # 0}}

LEMMA LoadedKeepsOrder ==
  ASSUME NEW side \in Sides, NEW list \in Seq(PriceLevel),
         \A i, j \in DOMAIN list : list[i].price = list[j].price => i = j
  PROVE  /\ WellFormed(side, Loaded(side, list))
         /\ \A k \in DOMAIN Loaded(side, list) :
              \E j \in DOMAIN list : Loaded(side, list)[k] = list[j]
         /\ Behind(side, Loaded(side, list), ToldBy(list, Len(list)), Depth)
<1> DEFINE A == {s \in Seq(LiveLevel) : WellFormed(side, s)}
           step == [x \in A \X PriceLevel |-> Applied(side, x[1], x[2].price, x[2].quantity)]
           Def(f) == [n \in 0 .. Len(list) |->
                        IF n = 0 THEN << >>
                        ELSE Applied(side, f[n - 1], list[n].price, list[n].quantity)]
           after == CHOOSE f : f = Def(f)
<1>1. ASSUME NEW s \in A, NEW lv \in PriceLevel
      PROVE  /\ Applied(side, s, lv.price, lv.quantity) \in A
             /\ \A k \in DOMAIN Applied(side, s, lv.price, lv.quantity) :
                  \/ Applied(side, s, lv.price, lv.quantity)[k] = lv
                  \/ \E j \in DOMAIN s : Applied(side, s, lv.price, lv.quantity)[k] = s[j]
  <2>1. /\ WellFormed(side, s)
        /\ lv.price \in Ticks /\ lv.quantity \in Quantities
        /\ lv = [price |-> lv.price, quantity |-> lv.quantity]
    BY DEF PriceLevel
  <2>2. \A s2 : WellFormed(side, s2) => s2 \in A
    BY DEF WellFormed
  <2> QED BY <2>1, <2>2, AppliedKeepsOrder
<1>2. << >> \in A
  <2>1. << >> \in Seq(LiveLevel) /\ Len(<< >>) = 0 /\ DOMAIN << >> = {}
    OBVIOUS
  <2> QED BY <2>1, DepthAssumption DEF WellFormed
<1>3. step \in [A \X PriceLevel -> A]
  BY <1>1
<1>4. \A s \in A, lv \in PriceLevel :
        step[<< s, lv >>] = Applied(side, s, lv.price, lv.quantity)
  OBVIOUS
<1>5. \A n \in 1 .. Len(list) : list[n] \in PriceLevel
  OBVIOUS
<1> HIDE DEF step
<1> HIDE DEF A
<1>6. PICK g : IsFold(g, A, step, << >>, list)
  BY <1>2, <1>3, FoldExists
<1>7. /\ g \in [0 .. Len(list) -> A]
      /\ g[0] = << >>
      /\ \A n \in 1 .. Len(list) : g[n] = step[<< g[n - 1], list[n] >>]
  BY <1>6 DEF IsFold
<1>8. g = Def(g)
  <2>1. \A n \in 0 .. Len(list) : n # 0 =>
          g[n] = Applied(side, g[n - 1], list[n].price, list[n].quantity)
    <3> SUFFICES ASSUME NEW n \in 1 .. Len(list)
                 PROVE  g[n] = Applied(side, g[n - 1], list[n].price, list[n].quantity)
      OBVIOUS
    <3>1. g[n - 1] \in A /\ list[n] \in PriceLevel
      BY <1>5, <1>7
    <3> QED BY <3>1, <1>4, <1>7
  <2> QED BY <2>1, <1>7
<1>9. after = Def(after)
  BY <1>8
<1> HIDE DEF after
<1>10. Loaded(side, list) = after[Len(list)]
  BY DEF Loaded, after
<1> DEFINE P(n) == /\ after[n] \in A
                   /\ \A k \in DOMAIN after[n] :
                        \E j \in 1 .. n : after[n][k] = list[j]
                   /\ Behind(side, after[n], ToldBy(list, n), Depth)
<1>11. \A n \in 0 .. Len(list) : P(n)
  <2> DEFINE T == {n \in Nat : n <= Len(list) => P(n)}
  <2>1. T \in SUBSET Nat /\ 0 \in T
    <3>1. after[0] = << >> /\ DOMAIN << >> = {}
      BY <1>9
    <3>2. ToldBy(list, 0) = {}
      BY DEF ToldBy
    <3>3. Behind(side, after[0], ToldBy(list, 0), Depth)
      BY <3>2 DEF Behind
    <3> QED BY <3>1, <3>3, <1>2
  <2>2. ASSUME NEW n \in T
        PROVE  n + 1 \in T
    <3> SUFFICES ASSUME n + 1 <= Len(list)
                 PROVE  P(n + 1)
      OBVIOUS
    <3>1. P(n) /\ n + 1 \in 1 .. Len(list) /\ list[n + 1] \in PriceLevel
      BY <1>5
    <3>2. after[n + 1] = Applied(side, after[n], list[n + 1].price, list[n + 1].quantity)
      BY <1>9, <3>1
    <3> DEFINE next == after[n + 1]
    <3>3. /\ next \in A
          /\ \A k \in DOMAIN next :
               next[k] = list[n + 1] \/ \E j \in DOMAIN after[n] : next[k] = after[n][j]
      <4> DEFINE s == after[n]
      <4>1. s \in A
        BY <3>1
      <4> HIDE DEF s
      <4>2. next = Applied(side, s, list[n + 1].price, list[n + 1].quantity)
        BY <3>2 DEF s
      <4> HIDE DEF next
      <4>3. /\ next \in A
            /\ \A k \in DOMAIN next :
                 next[k] = list[n + 1] \/ \E j \in DOMAIN s : next[k] = s[j]
        BY <4>1, <4>2, <3>1, <1>1
      <4> QED BY <4>3 DEF s
    <3> HIDE DEF next
    <3>4. \A k \in DOMAIN next : \E j \in 1 .. n + 1 : next[k] = list[j]
      <4>1. n \in Nat /\ n + 1 \in 1 .. n + 1 /\ \A j \in 1 .. n : j \in 1 .. n + 1
        OBVIOUS
      <4> QED BY <4>1, <3>1, <3>3
    <3>5. Behind(side, next, ToldBy(list, n + 1), Depth)
      <4> DEFINE s == after[n]
                 lv == list[n + 1]
      <4>1. /\ s \in A /\ Behind(side, s, ToldBy(list, n), Depth)
            /\ \A k \in DOMAIN s : \E j \in 1 .. n : s[k] = list[j]
            /\ lv \in PriceLevel
        BY <3>1
      <4>2. next = Applied(side, s, lv.price, lv.quantity)
        BY <3>2 DEF next
      <4>3. \A j \in 1 .. n : list[j].price # lv.price /\ list[j].price \in Int
        <5> TAKE j \in 1 .. n
        <5>1. j \in DOMAIN list /\ n + 1 \in DOMAIN list /\ j # n + 1
          BY <3>1
        <5>2. list[j] \in PriceLevel
          BY <5>1
        <5> QED BY <5>1, <5>2, TicksAssumption DEF PriceLevel
      <4> HIDE DEF s, lv
      <4>4. lv.price \notin Prices(s)
        BY <4>1, <4>3 DEF Prices
      <4>5. ToldBy(list, n) \in SUBSET Int
        BY <4>3 DEF ToldBy
      <4>6. WellFormed(side, s) /\ lv.price \in Ticks /\ lv.quantity \in Quantities
        BY <4>1 DEF A, PriceLevel
      <4>7. Depth \in 1 .. Depth
        BY DepthAssumption
      <4> DEFINE now == ToldAfter(ToldBy(list, n), lv.price, lv.quantity)
      <4>8. Behind(side, next, now, Depth)
        BY <4>1, <4>2, <4>4, <4>5, <4>6, <4>7, AppliedStaysBehind
      <4>9. ToldBy(list, n + 1) \subseteq now
        <5> SUFFICES ASSUME NEW j \in 1 .. n + 1, list[j].quantity # 0
                     PROVE  list[j].price \in now
          BY DEF ToldBy
        <5>1. CASE j \in 1 .. n
          <6>1. list[j].price \in ToldBy(list, n) /\ list[j].price # lv.price
            BY <4>3, <5>1 DEF ToldBy
          <6> QED BY <6>1 DEF ToldAfter
        <5>2. CASE j = n + 1
          BY <5>2 DEF ToldAfter, lv
        <5> QED BY <5>1, <5>2
      <4> HIDE DEF now
      <4> QED BY <4>8, <4>9 DEF Behind
    <3> QED BY <3>3, <3>4, <3>5 DEF next
  <2>3. T = Nat
    <3> HIDE DEF T
    <3> QED BY <2>1, <2>2, NaturalsBySuccessor
  <2> QED BY <2>3
<1>12. P(Len(list)) /\ DOMAIN list = 1 .. Len(list)
  BY <1>11
<1> QED BY <1>10, <1>12 DEF A

-------------------------------------------------------------------------------
(***************************************************************************)
(* The inductive invariant.  That held levels are current is not inductive *)
(* by itself: it needs every price to be held at most once, hence the      *)
(* order of the sides.                                                     *)
(***************************************************************************)
BookInv == TypeOK /\ SidesWellFormed /\ HeldLevelsAreCurrent

LEMMA InitBookInv == Init => BookInv
<1> SUFFICES ASSUME Init
             PROVE  BookInv
  OBVIOUS
<1> USE DEF Init
<1>1. << >> \in Seq(LiveLevel) /\ Len(<< >>) = 0 /\ DOMAIN << >> = {}
  OBVIOUS
<1>2. \A side \in Sides : levels[side] = << >>
  OBVIOUS
<1>3. TypeOK
  BY <1>1, QuantitiesAssumption DEF TypeOK
<1>4. SidesWellFormed
  BY <1>1, <1>2, DepthAssumption DEF SidesWellFormed, WellFormed
<1>5. HeldLevelsAreCurrent
  BY <1>1, <1>2 DEF HeldLevelsAreCurrent
<1> QED BY <1>3, <1>4, <1>5 DEF BookInv

LEMMA LossesType ==
  ASSUME NEW before \in Nat \cup {None}, NEW removes \in BOOLEAN, NEW h, NEW f
  PROVE  LossesAfter(before, removes, h, f) \in Nat \cup {None}
BY DEF LossesAfter

(* An accepted update. *)
LEMMA ApplyBookInv ==
  ASSUME BookInv, NEW side \in Sides, NEW price \in Ticks, NEW quantity \in Quantities,
         NEW sequence \in SequenceNumbers, Apply(side, price, quantity, sequence)
  PROVE  BookInv'
<1> DEFINE after == Applied(side, levels[side], price, quantity)
<1>1. TypeOK /\ SidesWellFormed /\ HeldLevelsAreCurrent
  BY DEF BookInv
<1>2. /\ levels' = [levels EXCEPT ![side] = after]
      /\ last_sequence_number' = sequence
      /\ full' = [full EXCEPT ![side][price] = quantity]
  BY DEF Apply
<1>3. /\ WellFormed(side, after)
      /\ \A k \in DOMAIN after :
           \/ after[k] = [price |-> price, quantity |-> quantity]
           \/ /\ after[k].price # price
              /\ \E j \in DOMAIN levels[side] : after[k] = levels[side][j]
  BY <1>1, AppliedKeepsOrder DEF SidesWellFormed
<1> HIDE DEF after
<1>4. levels \in [Sides -> Seq(LiveLevel)] /\ full \in [Sides -> [Ticks -> Quantities]]
  BY <1>1 DEF TypeOK
<1>5. \A other \in Sides : levels'[other] = IF other = side THEN after ELSE levels[other]
  BY <1>2, <1>4
<1>6. losses' \in [Sides -> Nat \cup {None}]
  <2> DEFINE x == LossesAfter(losses[side], quantity = 0 /\ price \in Prices(levels[side]),
                              HeldMap(side)', full'[side])
  <2>1. losses' = [losses EXCEPT ![side] = x]
    BY DEF Apply
  <2>2. x \in Nat \cup {None}
    BY <1>1, LossesType DEF TypeOK
  <2> HIDE DEF x
  <2> QED BY <2>1, <2>2, <1>1 DEF TypeOK
<1>7. TypeOK'
  <2>1. after \in Seq(LiveLevel)
    BY <1>3 DEF WellFormed
  <2> QED BY <2>1, <1>2, <1>4, <1>6 DEF TypeOK
<1>8. SidesWellFormed'
  BY <1>1, <1>3, <1>5 DEF SidesWellFormed
<1>9. HeldLevelsAreCurrent'
  <2> SUFFICES ASSUME NEW other \in Sides, NEW i \in DOMAIN levels'[other]
               PROVE  full'[other][levels'[other][i].price] = levels'[other][i].quantity
    BY DEF HeldLevelsAreCurrent
  <2>1. CASE other # side
    BY <2>1, <1>1, <1>2, <1>4, <1>5 DEF HeldLevelsAreCurrent
  <2>2. CASE other = side
    <3>1. /\ levels'[other] = after /\ i \in DOMAIN after
          /\ full'[other] = [full[side] EXCEPT ![price] = quantity]
      BY <2>2, <1>2, <1>4, <1>5
    <3>2. CASE after[i] = [price |-> price, quantity |-> quantity]
      BY <3>1, <3>2, <1>4
    <3>3. CASE after[i].price # price /\ \E j \in DOMAIN levels[side] : after[i] = levels[side][j]
      <4>1. PICK j \in DOMAIN levels[side] : after[i] = levels[side][j]
        BY <3>3
      <4>2. full[side][levels[side][j].price] = levels[side][j].quantity
        BY <1>1 DEF HeldLevelsAreCurrent
      <4>3. levels[side][j] \in LiveLevel
        BY <1>4
      <4>4. levels[side][j].price \in Ticks
        BY <4>3 DEF LiveLevel, PriceLevel
      <4> QED BY <3>1, <3>3, <4>1, <4>2, <4>4, <1>4
    <3> QED BY <3>1, <3>2, <3>3, <1>3
  <2> QED BY <2>1, <2>2
<1> QED BY <1>7, <1>8, <1>9 DEF BookInv

(* A snapshot. *)
LEMMA ApplySnapshotBookInv ==
  ASSUME BookInv, NEW bids \in Snapshots, NEW asks \in Snapshots,
         NEW sequence \in SequenceNumbers, ApplySnapshot(bids, asks, sequence)
  PROVE  BookInv'
<1> DEFINE list == [side \in Sides |-> IF side = "Bid" THEN bids ELSE asks]
<1>1. /\ levels' = [side \in Sides |-> Loaded(side, list[side])]
      /\ last_sequence_number' = sequence
      /\ full' = [side \in Sides |-> ListMap(list[side])]
      /\ losses' = [side \in Sides |->
                      LossesAfter(None, FALSE, HeldMap(side)', full'[side])]
  BY DEF ApplySnapshot
<1>2. \A side \in Sides :
        /\ list[side] \in Seq(PriceLevel)
        /\ \A i, j \in DOMAIN list[side] :
             list[side][i].price = list[side][j].price => i = j
  BY SnapshotsAssumption
<1> HIDE DEF list
<1>3. \A side \in Sides :
        /\ WellFormed(side, Loaded(side, list[side]))
        /\ \A k \in DOMAIN Loaded(side, list[side]) :
             \E j \in DOMAIN list[side] : Loaded(side, list[side])[k] = list[side][j]
  BY <1>2, LoadedKeepsOrder
<1>4. \A side \in Sides :
        /\ ListMap(list[side]) \in [Ticks -> Quantities]
        /\ \A j \in DOMAIN list[side] :
             ListMap(list[side])[list[side][j].price] = list[side][j].quantity
  BY <1>2, ListMapIsCurrent
<1>5. TypeOK'
  <2>1. \A side \in Sides : Loaded(side, list[side]) \in Seq(LiveLevel)
    BY <1>3 DEF WellFormed
  <2>2. losses' \in [Sides -> Nat \cup {None}]
    BY <1>1, LossesType
  <2> QED BY <2>1, <2>2, <1>1, <1>4 DEF TypeOK
<1>6. SidesWellFormed'
  BY <1>1, <1>3 DEF SidesWellFormed
<1>7. HeldLevelsAreCurrent'
  <2> SUFFICES ASSUME NEW side \in Sides, NEW i \in DOMAIN levels'[side]
               PROVE  full'[side][levels'[side][i].price] = levels'[side][i].quantity
    BY DEF HeldLevelsAreCurrent
  <2>1. PICK j \in DOMAIN list[side] : levels'[side][i] = list[side][j]
    BY <1>1, <1>3
  <2> QED BY <2>1, <1>1, <1>4
<1> QED BY <1>5, <1>6, <1>7 DEF BookInv

(* A reset. *)
LEMMA ResetBookInv == BookInv /\ Reset => BookInv'
<1> SUFFICES ASSUME Reset
             PROVE  BookInv'
  OBVIOUS
<1> USE DEF Reset
<1>1. << >> \in Seq(LiveLevel) /\ Len(<< >>) = 0 /\ DOMAIN << >> = {}
  OBVIOUS
<1>2. \A side \in Sides : levels'[side] = << >>
  OBVIOUS
<1>3. TypeOK'
  BY <1>1, QuantitiesAssumption DEF TypeOK
<1>4. SidesWellFormed'
  BY <1>1, <1>2, DepthAssumption DEF SidesWellFormed, WellFormed
<1>5. HeldLevelsAreCurrent'
  BY <1>1, <1>2 DEF HeldLevelsAreCurrent
<1> QED BY <1>3, <1>4, <1>5 DEF BookInv

LEMMA NextBookInv == BookInv /\ [Next]_vars => BookInv'
<1> SUFFICES ASSUME BookInv, [Next]_vars
             PROVE  BookInv'
  OBVIOUS
<1>1. ASSUME NEW side \in Sides, NEW price \in Ticks, NEW quantity \in Quantities,
             NEW sequence \in SequenceNumbers, Apply(side, price, quantity, sequence)
      PROVE  BookInv'
  BY <1>1, ApplyBookInv
<1>2. ASSUME NEW bids \in Snapshots, NEW asks \in Snapshots,
             NEW sequence \in SequenceNumbers, ApplySnapshot(bids, asks, sequence)
      PROVE  BookInv'
  BY <1>2, ApplySnapshotBookInv
<1>3. CASE Reset
  BY <1>3, ResetBookInv
<1>4. CASE UNCHANGED vars
  <2>1. TypeOK' /\ SidesWellFormed' /\ HeldLevelsAreCurrent'
    BY <1>4 DEF BookInv, TypeOK, SidesWellFormed, HeldLevelsAreCurrent, vars
  <2> QED BY <2>1 DEF BookInv
<1>5. ASSUME NEW side \in Sides \cup {"Other"}, NEW sequence \in SequenceNumbers,
             Refuse(side, sequence)
      PROVE  BookInv'
  BY <1>4, <1>5 DEF Refuse
<1> QED BY <1>1, <1>2, <1>3, <1>4, <1>5 DEF Next

(* The inductive invariant holds in every state of the book. *)
THEOREM BookInvariant == Spec => []BookInv
<1>1. BookInv /\ [Next]_vars => BookInv'
  BY NextBookInv
<1> QED BY <1>1, InitBookInv, PTL DEF Spec

(***************************************************************************)
(* The types: in particular, whatever is applied or loaded, the two sides  *)
(* are sequences of live levels and the sequence number is a number or     *)
(* none.                                                                   *)
(***************************************************************************)
THEOREM TypeCorrect == Spec => []TypeOK
<1>1. BookInv => TypeOK
  BY DEF BookInv
<1> QED BY <1>1, BookInvariant, PTL

(***************************************************************************)
(* BookSide::apply keeps both sides within their capacity, free of empty   *)
(* levels and strictly best first.                                         *)
(***************************************************************************)
THEOREM SidesStayWellFormed == Spec => []SidesWellFormed
<1>1. BookInv => SidesWellFormed
  BY DEF BookInv
<1> QED BY <1>1, BookInvariant, PTL

(***************************************************************************)
(* Every level the book holds has the quantity it was last told.           *)
(***************************************************************************)
THEOREM HeldLevelsStayCurrent == Spec => []HeldLevelsAreCurrent
<1>1. BookInv => HeldLevelsAreCurrent
  BY DEF BookInv
<1> QED BY <1>1, BookInvariant, PTL

(***************************************************************************)
(* spread() is exact: its two overflow tests are those of ask - bid.       *)
(***************************************************************************)
THEOREM SpreadStaysExact == Spec => []SpreadIsExact
<1>1. TypeOK => SpreadIsExact
  <2> SUFFICES ASSUME TypeOK, levels["Bid"] # << >>, levels["Ask"] # << >>
               PROVE  Spread(Best("Bid").price, Best("Ask").price) =
                        IF Best("Ask").price - Best("Bid").price \in -MaxTick - 1 .. MaxTick
                        THEN Best("Ask").price - Best("Bid").price ELSE None
    BY DEF SpreadIsExact
  <2>1. \A side \in Sides : levels[side] # << >> => Best(side).price \in Ticks
    <3> SUFFICES ASSUME NEW side \in Sides, levels[side] # << >>
                 PROVE  levels[side][1] \in LiveLevel
      BY DEF Best, LiveLevel, PriceLevel
    <3>1. levels[side] \in Seq(LiveLevel)
      BY DEF TypeOK
    <3> QED BY <3>1
  <2>2. /\ Best("Bid").price \in -MaxTick - 1 .. MaxTick
        /\ Best("Ask").price \in -MaxTick - 1 .. MaxTick
        /\ MaxTick \in Nat
    BY <2>1, MaxTickAssumption DEF Sides
  <2> QED BY <2>2 DEF Spread
<1> QED BY <1>1, TypeCorrect, PTL
-------------------------------------------------------------------------------
(***************************************************************************)
(* Why the best price survives.  While nothing is missing the side holds   *)
(* all it was told.  Since something is, every price that is missing is    *)
(* behind as many of the side's first levels as there are removals left    *)
(* before the losses reach Depth: a removal of a held level uses one up,   *)
(* and no other call of apply() uses any.                                  *)
(***************************************************************************)
Told(side) == {p \in Ticks : full[side][p] # 0}

LossesBound(side) ==
  IF losses[side] = None THEN Told(side) \subseteq Prices(levels[side])
  ELSE losses[side] < Depth => Behind(side, levels[side], Told(side), Depth - losses[side])

LossInv == \A side \in Sides : LossesBound(side)

(* A side whose map is the one it was told misses nothing. *)
LEMMA NothingMissing ==
  ASSUME NEW list, NEW map, ListMap(list) = map
  PROVE  {p \in Ticks : map[p] # 0} \subseteq Prices(list)
BY DEF ListMap

LEMMA InitLossInv == Init => LossInv
BY DEF Init, LossInv, LossesBound, Told

LEMMA ApplyLossInv ==
  ASSUME BookInv, LossInv, NEW side \in Sides, NEW price \in Ticks, NEW quantity \in Quantities,
         NEW sequence \in SequenceNumbers, Apply(side, price, quantity, sequence)
  PROVE  LossInv'
<1> DEFINE list == levels[side]
           after == Applied(side, list, price, quantity)
           told == Told(side)
           now == ToldAfter(told, price, quantity)
           removes == quantity = 0 /\ price \in Prices(list)
           x == LossesAfter(losses[side], removes, ListMap(levels'[side]), full'[side])
<1>1. TypeOK /\ WellFormed(side, list) /\ LossesBound(side)
  BY DEF BookInv, SidesWellFormed, LossInv
<1>2. /\ levels' = [levels EXCEPT ![side] = after]
      /\ full' = [full EXCEPT ![side][price] = quantity]
      /\ losses' = [losses EXCEPT ![side] = x]
  BY DEF Apply, HeldMap, ListMap
<1>3. ASSUME NEW other \in Sides, other # side
      PROVE  LossesBound(other)'
  <2>1. levels'[other] = levels[other] /\ full'[other] = full[other] /\ losses'[other] = losses[other]
    BY <1>1, <1>2, <1>3 DEF TypeOK
  <2>2. LossesBound(other)
    BY DEF LossInv
  <2> QED BY <2>1, <2>2 DEF LossesBound, Told
<1>4. levels'[side] = after /\ losses'[side] = x
  BY <1>1, <1>2 DEF TypeOK
<1>5. Told(side)' = now /\ full'[side] = [full[side] EXCEPT ![price] = quantity]
  <2>1. full'[side] = [full[side] EXCEPT ![price] = quantity] /\ full[side] \in [Ticks -> Quantities]
    BY <1>1, <1>2 DEF TypeOK
  <2> QED BY <2>1 DEF Told, ToldAfter
<1>6. /\ told \in SUBSET Int /\ Depth \in Nat \ {0}
      /\ losses[side] \in Nat \cup {None} /\ None \notin Int
  BY <1>1, TicksAssumption, DepthAssumption, NoneAssumption DEF Told, TypeOK
<1>7. ASSUME NEW k \in 1 .. Depth, Behind(side, list, told, k)
      PROVE  IF removes THEN /\ now \ Prices(after) \subseteq told \ Prices(list)
                             /\ k > 1 => Behind(side, after, now, k - 1)
             ELSE Behind(side, after, now, k)
  BY <1>1, <1>6, <1>7, AppliedStaysBehind
<1>8. ListMap(after) = full'[side] => now \subseteq Prices(after)
  BY <1>5, NothingMissing DEF Told
<1> DEFINE same == ListMap(after) = full'[side]
<1>9. x = IF same THEN None
          ELSE IF losses[side] = None THEN 0
          ELSE IF removes THEN losses[side] + 1 ELSE losses[side]
  BY <1>4 DEF LossesAfter
<1> SUFFICES IF x = None THEN now \subseteq Prices(after)
             ELSE x < Depth => Behind(side, after, now, Depth - x)
  <2> HIDE DEF x, now, after
  <2> QED BY <1>3, <1>4, <1>5 DEF LossInv, LossesBound
<1>10. /\ losses[side] = None => told \subseteq Prices(list)
       /\ losses[side] # None /\ losses[side] < Depth =>
            Behind(side, list, told, Depth - losses[side])
  BY <1>1 DEF LossesBound
<1> HIDE DEF x, now, after, told, list, removes, same
<1>11. CASE same
  BY <1>8, <1>9, <1>11 DEF same
<1>12. CASE ~ same /\ losses[side] = None
  <2>1. Behind(side, list, told, Depth)
    BY <1>10, <1>12 DEF Behind
  <2>2. Behind(side, after, now, Depth)
    <3>1. CASE removes
      <4>1. Depth \in 1 .. Depth
        BY <1>6
      <4>2. now \ Prices(after) \subseteq told \ Prices(list)
        BY <2>1, <3>1, <4>1, <1>7
      <4>3. told \ Prices(list) = {}
        BY <1>10, <1>12
      <4> QED BY <4>2, <4>3 DEF Behind
    <3>2. CASE ~ removes
      BY <2>1, <3>2, <1>6, <1>7
    <3> QED BY <3>1, <3>2
  <2>3. x = 0 /\ Depth - 0 = Depth /\ x # None
    BY <1>6, <1>9, <1>12
  <2> QED BY <2>2, <2>3
<1>13. CASE ~ same /\ losses[side] # None
  <2>1. losses[side] \in Nat /\ x = IF removes THEN losses[side] + 1 ELSE losses[side]
    <3>1. losses[side] \in Nat
      BY <1>6, <1>13
    <3>2. x = IF removes THEN losses[side] + 1 ELSE losses[side]
      BY <1>9, <1>13, Zenon
    <3> QED BY <3>1, <3>2
  <2> SUFFICES ASSUME x < Depth
               PROVE  Behind(side, after, now, Depth - x)
    BY <2>1, <1>6
  <2>2. /\ x \in Nat /\ losses[side] < Depth
        /\ Depth - losses[side] \in 1 .. Depth
        /\ removes => Depth - losses[side] > 1 /\ Depth - losses[side] - 1 = Depth - x
        /\ ~ removes => x = losses[side]
    BY <2>1, <1>6
  <2>3. Behind(side, list, told, Depth - losses[side])
    BY <2>2, <1>10, <1>13
  <2> QED BY <2>2, <2>3, <1>6, <1>7
<1> QED BY <1>11, <1>12, <1>13

LEMMA ApplySnapshotLossInv ==
  ASSUME NEW bids \in Snapshots, NEW asks \in Snapshots,
         NEW sequence \in SequenceNumbers, ApplySnapshot(bids, asks, sequence)
  PROVE  LossInv'
<1> DEFINE list == [side \in Sides |-> IF side = "Bid" THEN bids ELSE asks]
<1>1. /\ levels' = [side \in Sides |-> Loaded(side, list[side])]
      /\ full' = [side \in Sides |-> ListMap(list[side])]
      /\ losses' = [side \in Sides |->
                      LossesAfter(None, FALSE, HeldMap(side)', full'[side])]
  BY DEF ApplySnapshot
<1>2. \A side \in Sides : list[side] \in Snapshots
  OBVIOUS
<1> HIDE DEF list
<1> SUFFICES ASSUME NEW side \in Sides
             PROVE  LossesBound(side)'
  BY DEF LossInv
<1> DEFINE s == list[side]
<1>3. /\ s \in Seq(PriceLevel)
      /\ \A i, j \in DOMAIN s : s[i].price = s[j].price => i = j
  BY <1>2, SnapshotsAssumption
<1>4. levels'[side] = Loaded(side, s) /\ full'[side] = ListMap(s)
  BY <1>1
<1>5. losses'[side] = IF ListMap(levels'[side]) = full'[side] THEN None ELSE 0
  <2>1. HeldMap(side)' = ListMap(levels'[side])
    BY DEF HeldMap, ListMap
  <2> QED BY <2>1, <1>1 DEF LossesAfter
<1> HIDE DEF s
<1>6. Behind(side, levels'[side], ToldBy(s, Len(s)), Depth)
  BY <1>3, <1>4, LoadedKeepsOrder
<1>7. Told(side)' \subseteq ToldBy(s, Len(s))
  <2> SUFFICES ASSUME NEW p \in Ticks, ListMap(s)[p] # 0
               PROVE  p \in ToldBy(s, Len(s))
    BY <1>4 DEF Told
  <2>1. p \in Prices(s) /\ \A j \in DOMAIN s : ListMap(s)[s[j].price] = s[j].quantity
    BY <1>3, ListMapIsCurrent
  <2>2. PICK j \in DOMAIN s : p = s[j].price
    BY <2>1 DEF Prices
  <2>3. j \in 1 .. Len(s) /\ s[j].quantity # 0
    BY <2>1, <2>2, <1>3
  <2> QED BY <2>2, <2>3 DEF ToldBy
<1>8. Behind(side, levels'[side], Told(side)', Depth)
  BY <1>6, <1>7 DEF Behind
<1>9. ListMap(levels'[side]) = full'[side] => Told(side)' \subseteq Prices(levels'[side])
  BY NothingMissing DEF Told
<1>10. Depth - 0 = Depth /\ 0 # None
  BY DepthAssumption, NoneAssumption
<1> QED BY <1>5, <1>8, <1>9, <1>10 DEF LossesBound

LEMMA NextLossInv == BookInv /\ LossInv /\ [Next]_vars => LossInv'
<1> SUFFICES ASSUME BookInv, LossInv, [Next]_vars
             PROVE  LossInv'
  OBVIOUS
<1>1. ASSUME NEW side \in Sides, NEW price \in Ticks, NEW quantity \in Quantities,
             NEW sequence \in SequenceNumbers, Apply(side, price, quantity, sequence)
      PROVE  LossInv'
  BY <1>1, ApplyLossInv
<1>2. ASSUME NEW bids \in Snapshots, NEW asks \in Snapshots,
             NEW sequence \in SequenceNumbers, ApplySnapshot(bids, asks, sequence)
      PROVE  LossInv'
  BY <1>2, ApplySnapshotLossInv
<1>3. CASE Reset
  BY <1>3 DEF Reset, LossInv, LossesBound, Told
<1>4. CASE UNCHANGED vars
  BY <1>4 DEF LossInv, LossesBound, Told, vars
<1>5. ASSUME NEW side \in Sides \cup {"Other"}, NEW sequence \in SequenceNumbers,
             Refuse(side, sequence)
      PROVE  LossInv'
  BY <1>4, <1>5 DEF Refuse
<1> QED BY <1>1, <1>2, <1>3, <1>4, <1>5 DEF Next

(***************************************************************************)
(* The front of a side is the best of everything it was told until Depth   *)
(* of the levels it holds have been removed since it first forgot one,     *)
(* whatever the updates, their order and the snapshots.                    *)
(***************************************************************************)
THEOREM TopSurvivesEviction == Spec => []TopOfBookSurvivesEviction
<1>1. Init => LossInv
  BY InitLossInv
<1>2. BookInv /\ LossInv /\ [Next]_vars => LossInv'
  BY NextLossInv
<1>3. BookInv /\ LossInv => TopOfBookSurvivesEviction
  <2> SUFFICES ASSUME BookInv, LossInv, NEW side \in Sides,
                      losses[side] = None \/ losses[side] < Depth,
                      NEW p \in Ticks, full[side][p] # 0
               PROVE  levels[side] # << >> /\ ~ IsBetter(side, p, Best(side).price)
    BY DEF TopOfBookSurvivesEviction
  <2> DEFINE list == levels[side]
  <2>1. WellFormed(side, list) /\ LossesBound(side) /\ losses[side] \in Nat \cup {None}
    BY DEF BookInv, SidesWellFormed, LossInv, TypeOK
  <2> HIDE DEF list
  <2>2. /\ DOMAIN list = 1 .. Len(list) /\ Len(list) \in Nat /\ Depth \in Nat
        /\ \A i, j \in 1 .. Len(list) : i < j => IsBetter(side, list[i].price, list[j].price)
        /\ \A i \in 1 .. Len(list) : list[i].price \in Int
    BY <2>1, SideTypes
  <2>3. p \in Int /\ p \in Told(side)
    BY TicksAssumption DEF Told
  <2>4. PICK k \in 1 .. Len(list) : list[k].price = p \/ IsBetter(side, list[k].price, p)
    <3>1. CASE p \in Prices(list)
      BY <3>1, <2>2 DEF Prices
    <3>2. CASE p \notin Prices(list)
      <4>1. losses[side] # None /\ losses[side] < Depth
        BY <3>2, <2>1, <2>3 DEF LossesBound, list
      <4>2. Depth - losses[side] \in 1 .. Depth
        BY <4>1, <2>1, <2>2
      <4>3. Behind(side, list, Told(side), Depth - losses[side])
        BY <4>1, <2>1 DEF LossesBound, list
      <4>4. /\ Depth - losses[side] <= Len(list)
            /\ IsBetter(side, list[Depth - losses[side]].price, p)
        BY <4>3, <3>2, <2>3 DEF Behind
      <4> QED BY <4>2, <4>4, <2>2
    <3> QED BY <3>1, <3>2
  <2>5. 1 \in 1 .. Len(list) /\ (k = 1 \/ 1 < k)
    BY <2>2
  <2>6. list[1].price = p \/ IsBetter(side, list[1].price, p)
    <3>1. CASE k = 1
      BY <3>1, <2>4
    <3>2. CASE 1 < k
      <4>1. IsBetter(side, list[1].price, list[k].price)
        BY <3>2, <2>2, <2>5
      <4> QED BY <4>1, <2>2, <2>3, <2>4, <2>5, BetterIsAnOrder
    <3> QED BY <3>1, <3>2, <2>5
  <2>7. ~ IsBetter(side, p, list[1].price)
    <3> DEFINE price == list[1].price
    <3>1. price \in Int /\ p \in Int
      BY <2>2, <2>3, <2>5
    <3>2. price = p \/ IsBetter(side, price, p)
      BY <2>6
    <3> HIDE DEF price
    <3>3. ~ IsBetter(side, p, price)
      BY <3>1, <3>2 DEF IsBetter
    <3> QED BY <3>3 DEF price
  <2>8. list # << >>
    BY <2>2, <2>5
  <2> QED BY <2>7, <2>8 DEF Best, list
<1> QED BY <1>1, <1>2, <1>3, BookInvariant, PTL DEF Spec
-------------------------------------------------------------------------------
(* The refinement of BoundedBook. *)

(***************************************************************************)
(* A side that has the quantities of a map, and misses only prices behind  *)
(* Depth better ones, holds the best Depth prices of the map.              *)
(***************************************************************************)
LEMMA TopIsHeld ==
  ASSUME NEW side \in Sides, NEW list, WellFormed(side, list), NEW map \in [Ticks -> Quantities],
         \A i \in DOMAIN list : map[list[i].price] = list[i].quantity,
         IsFiniteSet({q \in Ticks : map[q] # 0}),
         Behind(side, list, {q \in Ticks : map[q] # 0}, Depth)
  PROVE  Promise!Top(side, map) = ListMap(list)
<1>1. /\ list \in Seq(PriceLevel) /\ DOMAIN list = 1 .. Len(list) /\ Len(list) \in Nat
      /\ Len(list) <= Depth /\ Depth \in Nat
      /\ \A i, j \in 1 .. Len(list) : i < j => IsBetter(side, list[i].price, list[j].price)
      /\ \A i \in 1 .. Len(list) : list[i].price \in Ticks /\ list[i].price \in Int
                                  /\ list[i].quantity # 0
  <2>1. \A i \in 1 .. Len(list) : list[i] \in LiveLevel
    BY SideTypes
  <2>2. list \in Seq(LiveLevel) /\ LiveLevel \subseteq PriceLevel
    BY SideTypes DEF LiveLevel
  <2>3. list \in Seq(PriceLevel)
    BY <2>2
  <2> QED BY <2>1, <2>3, SideTypes DEF LiveLevel
<1>2. \A i, j \in DOMAIN list : list[i].price = list[j].price => i = j
  BY <1>1, BetterIsAnOrder
<1>3. /\ ListMap(list) \in [Ticks -> Quantities]
      /\ \A j \in DOMAIN list : ListMap(list)[list[j].price] = list[j].quantity
      /\ \A p \in Ticks : p \notin Prices(list) => ListMap(list)[p] = 0
  BY <1>1, <1>2, ListMapIsCurrent
<1> DEFINE better(p) == {q \in Ticks : map[q] # 0 /\ IsBetter(side, q, p)}
<1>4. Promise!Top(side, map) =
        [p \in Ticks |-> IF Cardinality(better(p)) < Depth THEN map[p] ELSE 0]
  <2>1. \A p, q : Promise!Better(side, q, p) <=> IsBetter(side, q, p)
    BY DEF Promise!Better, IsBetter
  <2>2. \A p : {q \in Ticks : map[q] # 0 /\ Promise!Better(side, q, p)} = better(p)
    BY <2>1
  <2>3. \A S : Promise!Cardinality(S) = Cardinality(S)
    BY DEF Promise!Cardinality, Cardinality
  <2> HIDE DEF better
  <2> QED BY <2>2, <2>3 DEF Promise!Top
<1>5. ASSUME NEW p \in Ticks, p \in Prices(list)
      PROVE  Cardinality(better(p)) < Depth
  <2>1. PICK i \in 1 .. Len(list) : p = list[i].price
    BY <1>1, <1>5 DEF Prices
  <2>2. \A q \in better(p) : \E j \in 1 .. i - 1 : list[j].price = q
    <3> SUFFICES ASSUME NEW q \in Ticks, map[q] # 0, IsBetter(side, q, p)
                 PROVE  \E j \in 1 .. i - 1 : list[j].price = q
      OBVIOUS
    <3>1. q \in Int /\ p \in Int
      BY TicksAssumption
    <3>2. q \in Prices(list)
      <4> SUFFICES ASSUME q \notin Prices(list)
                   PROVE  FALSE
        OBVIOUS
      <4>1. Depth <= Len(list) /\ IsBetter(side, list[Depth].price, q)
        BY DEF Behind
      <4>2. Depth \in 1 .. Len(list) /\ (i = Depth \/ i < Depth)
        BY <4>1, <1>1
      <4>3. list[i].price = list[Depth].price \/ IsBetter(side, list[i].price, list[Depth].price)
        BY <4>2, <1>1
      <4>4. IsBetter(side, p, q)
        BY <4>1, <4>2, <4>3, <3>1, <2>1, <1>1, BetterIsAnOrder
      <4>5. IsBetter(side, p, p)
        BY <4>4, <3>1, BetterIsAnOrder
      <4> QED BY <4>5, <3>1, BetterIsAnOrder
    <3>3. PICK j \in 1 .. Len(list) : list[j].price = q
      BY <3>2, <1>1 DEF Prices
    <3>4. ~ (j = i)
      BY <3>1, <3>3, <2>1, BetterIsAnOrder
    <3>5. ~ (i < j)
      <4> SUFFICES ASSUME i < j
                   PROVE  FALSE
        OBVIOUS
      <4>1. IsBetter(side, p, q)
        BY <3>3, <2>1, <1>1
      <4>2. IsBetter(side, p, p)
        BY <4>1, <3>1, BetterIsAnOrder
      <4> QED BY <4>2, <3>1, BetterIsAnOrder
    <3>6. j \in 1 .. i - 1
      BY <3>4, <3>5, <1>1
    <3> QED BY <3>3, <3>6
  <2> DEFINE image == {list[j].price : j \in 1 .. i - 1}
             f == [j \in 1 .. i - 1 |-> list[j].price]
  <2>3. f \in Surjection(1 .. i - 1, image)
    BY DEF Surjection
  <2>4. i \in Nat /\ IsFiniteSet(1 .. i - 1) /\ Cardinality(1 .. i - 1) = i - 1
    BY FS_Interval
  <2>5. IsFiniteSet(image) /\ Cardinality(image) <= i - 1
    BY <2>3, <2>4, FS_Surjection
  <2>6. better(p) \subseteq image
    BY <2>2
  <2> HIDE DEF image, better
  <2>7. Cardinality(better(p)) <= Cardinality(image)
    BY <2>5, <2>6, FS_Subset
  <2>8. Cardinality(better(p)) \in Nat /\ Cardinality(image) \in Nat
    BY <2>5, <2>6, FS_Subset, FS_CardinalityType
  <2>9. i <= Len(list)
    OBVIOUS
  <2>10. Len(list) \in Nat /\ Len(list) <= Depth /\ Depth \in Nat
    BY <1>1
  <2> QED BY <2>4, <2>5, <2>7, <2>8, <2>9, <2>10
<1>6. ASSUME NEW p \in Ticks, p \notin Prices(list), map[p] # 0
      PROVE  ~ (Cardinality(better(p)) < Depth)
  <2>1. Depth = Len(list) /\ IsBetter(side, list[Depth].price, p)
    <3>1. Depth <= Len(list) /\ IsBetter(side, list[Depth].price, p)
      BY <1>6 DEF Behind
    <3>2. Depth \in Nat /\ Len(list) \in Nat /\ Len(list) <= Depth
      BY <1>1
    <3> QED BY <3>1, <3>2
  <2>2. p \in Int /\ Depth \in 1 .. Len(list)
    BY <2>1, <1>1, TicksAssumption, DepthAssumption
  <2>3. \A k \in 1 .. Depth : list[k].price \in better(p)
    <3> TAKE k \in 1 .. Depth
    <3>1. k \in 1 .. Len(list) /\ (k = Depth \/ k < Depth)
      BY <2>1, <1>1
    <3>2. map[list[k].price] # 0
      BY <3>1, <1>1
    <3>3. IsBetter(side, list[k].price, p)
      BY <3>1, <2>1, <2>2, <1>1, BetterIsAnOrder
    <3> QED BY <3>1, <3>2, <3>3, <1>1
  <2> DEFINE f == [k \in 1 .. Depth |-> list[k].price]
  <2>4. IsFiniteSet(better(p))
    <3>1. better(p) \in SUBSET {q \in Ticks : map[q] # 0}
      OBVIOUS
    <3> HIDE DEF better
    <3> QED BY <3>1, FS_Subset
  <2> HIDE DEF better
  <2>5. f \in Injection(1 .. Depth, better(p))
    BY <2>1, <2>3, <1>1, <1>2 DEF Injection, IsInjective
  <2>6. Cardinality(1 .. Depth) = Depth /\ Depth \in Nat
    BY <1>1, DepthAssumption, FS_Interval
  <2>7. Depth <= Cardinality(better(p)) /\ Cardinality(better(p)) \in Nat
    <3> HIDE DEF f
    <3> QED BY <2>4, <2>5, <2>6, FS_Injection, FS_CardinalityType
  <2> QED BY <2>6, <2>7
<1>7. ASSUME NEW p \in Ticks
      PROVE  ListMap(list)[p] = IF Cardinality(better(p)) < Depth THEN map[p] ELSE 0
  <2> HIDE DEF better
  <2>1. CASE p \in Prices(list)
    <3>1. PICK i \in 1 .. Len(list) : p = list[i].price
      BY <1>1, <2>1 DEF Prices
    <3>2. ListMap(list)[p] = map[p]
      BY <3>1, <1>1, <1>3
    <3> QED BY <3>2, <2>1, <1>5
  <2>2. CASE p \notin Prices(list)
    <3>1. ListMap(list)[p] = 0
      BY <2>2, <1>3
    <3>2. CASE map[p] = 0
      BY <3>1, <3>2
    <3>3. CASE map[p] # 0
      BY <3>1, <3>3, <2>2, <1>6
    <3> QED BY <3>2, <3>3
  <2> QED BY <2>1, <2>2
<1> HIDE DEF better
<1> QED BY <1>3, <1>4, <1>7

(* apply() on a side that holds a map leaves the best Depth prices of the  *)
(* map with the price changed.                                             *)
LEMMA AppliedHoldsTop ==
  ASSUME NEW side \in Sides, NEW list, WellFormed(side, list),
         NEW price \in Ticks, NEW quantity \in Quantities
  PROVE  ListMap(Applied(side, list, price, quantity)) =
           Promise!Top(side, [ListMap(list) EXCEPT ![price] = quantity])
<1> DEFINE after == Applied(side, list, price, quantity)
           map == [ListMap(list) EXCEPT ![price] = quantity]
           told == {q \in Ticks : map[q] # 0}
           now == ToldAfter(Prices(list), price, quantity)
<1>1. /\ list \in Seq(PriceLevel) /\ DOMAIN list = 1 .. Len(list)
      /\ \A i \in 1 .. Len(list) : list[i].price \in Ticks /\ list[i].price \in Int
  <2>1. list \in Seq(LiveLevel) /\ LiveLevel \subseteq PriceLevel
    BY SideTypes DEF LiveLevel
  <2>2. list \in Seq(PriceLevel)
    BY <2>1
  <2> QED BY <2>2, SideTypes
<1>2. \A i, j \in DOMAIN list : list[i].price = list[j].price => i = j
  <2>1. \A i, j \in 1 .. Len(list) : i < j => IsBetter(side, list[i].price, list[j].price)
    BY SideTypes
  <2> QED BY <2>1, <1>1, BetterIsAnOrder
<1>3. /\ ListMap(list) \in [Ticks -> Quantities]
      /\ \A j \in DOMAIN list : ListMap(list)[list[j].price] = list[j].quantity
      /\ \A p \in Ticks : p \notin Prices(list) => ListMap(list)[p] = 0
      /\ IsFiniteSet(Prices(list))
  BY <1>1, <1>2, ListMapIsCurrent
<1>4. map \in [Ticks -> Quantities]
  BY <1>3
<1>5. WellFormed(side, after)
  BY AppliedKeepsOrder
<1>6. \A k \in DOMAIN after : map[after[k].price] = after[k].quantity
  <2> SUFFICES ASSUME NEW k \in DOMAIN after
               PROVE  map[after[k].price] = after[k].quantity
    OBVIOUS
  <2>1. \/ after[k] = [price |-> price, quantity |-> quantity]
        \/ after[k].price # price /\ \E j \in DOMAIN list : after[k] = list[j]
    BY AppliedKeepsOrder
  <2> HIDE DEF after
  <2>2. CASE after[k] = [price |-> price, quantity |-> quantity]
    BY <2>2, <1>3
  <2>3. CASE after[k].price # price /\ \E j \in DOMAIN list : after[k] = list[j]
    <3>1. PICK j \in DOMAIN list : after[k] = list[j]
      BY <2>3
    <3> QED BY <3>1, <2>3, <1>1, <1>3
  <2> QED BY <2>1, <2>2, <2>3
<1>7. told \subseteq now
  BY <1>3 DEF ToldAfter
<1>8. IsFiniteSet(told)
  <2>1. told \subseteq Prices(list) \cup {price}
    BY <1>3
  <2>2. IsFiniteSet(Prices(list) \cup {price})
    BY <1>3, FS_AddElement
  <2> HIDE DEF told
  <2> QED BY <2>1, <2>2, FS_Subset
<1>9. Behind(side, after, now, Depth)
  <2>1. Prices(list) \in SUBSET Int /\ Depth \in 1 .. Depth
    BY <1>1, DepthAssumption DEF Prices
  <2>2. Behind(side, list, Prices(list), Depth)
    BY DEF Behind
  <2>3. IF quantity = 0 /\ price \in Prices(list)
        THEN now \ Prices(after) \subseteq Prices(list) \ Prices(list)
        ELSE Behind(side, after, now, Depth)
    BY <2>1, <2>2, AppliedStaysBehind
  <2> HIDE DEF now, after
  <2> QED BY <2>3 DEF Behind
<1>10. Behind(side, after, told, Depth)
  BY <1>7, <1>9 DEF Behind
<1> HIDE DEF after, map
<1>11. Promise!Top(side, map) = ListMap(after)
  BY <1>4, <1>5, <1>6, <1>8, <1>10, TopIsHeld
<1> QED BY <1>11 DEF after, map

(* A snapshot leaves the best Depth of its levels. *)
LEMMA LoadedHoldsTop ==
  ASSUME NEW side \in Sides, NEW list \in Seq(PriceLevel),
         \A i, j \in DOMAIN list : list[i].price = list[j].price => i = j
  PROVE  ListMap(Loaded(side, list)) = Promise!Top(side, ListMap(list))
<1> DEFINE after == Loaded(side, list)
           map == ListMap(list)
           told == {q \in Ticks : map[q] # 0}
<1>1. /\ WellFormed(side, after)
      /\ \A k \in DOMAIN after : \E j \in DOMAIN list : after[k] = list[j]
      /\ Behind(side, after, ToldBy(list, Len(list)), Depth)
  BY LoadedKeepsOrder
<1>2. /\ map \in [Ticks -> Quantities]
      /\ \A j \in DOMAIN list : map[list[j].price] = list[j].quantity
      /\ \A p \in Ticks : p \notin Prices(list) => map[p] = 0
      /\ IsFiniteSet(Prices(list))
  BY ListMapIsCurrent
<1> HIDE DEF after, map
<1>3. told \subseteq Prices(list)
  BY <1>2
<1>4. told \subseteq ToldBy(list, Len(list))
  <2> SUFFICES ASSUME NEW p \in told
               PROVE  p \in ToldBy(list, Len(list))
    OBVIOUS
  <2>1. PICK j \in DOMAIN list : p = list[j].price
    BY <1>3 DEF Prices
  <2>2. j \in 1 .. Len(list) /\ list[j].quantity # 0
    BY <2>1, <1>2
  <2> QED BY <2>1, <2>2 DEF ToldBy
<1>5. Behind(side, after, told, Depth)
  BY <1>1, <1>4 DEF Behind
<1>6. IsFiniteSet(told)
  BY <1>2, <1>3, FS_Subset
<1>7. \A k \in DOMAIN after : map[after[k].price] = after[k].quantity
  BY <1>1, <1>2
<1>8. Promise!Top(side, map) = ListMap(after)
  BY <1>1, <1>2, <1>5, <1>6, <1>7, TopIsHeld
<1> QED BY <1>8 DEF after, map

LEMMA ApplyKeepsPromise ==
  ASSUME BookInv, NEW side \in Sides, NEW price \in Ticks, NEW quantity \in Quantities,
         NEW sequence \in SequenceNumbers, Apply(side, price, quantity, sequence)
  PROVE  Promise!Update(side, price, quantity)
<1> DEFINE list == levels[side]
           after == Applied(side, list, price, quantity)
           held == [s \in Sides |-> HeldMap(s)]
           top == Promise!Top(side, [HeldMap(side) EXCEPT ![price] = quantity])
<1>1. TypeOK /\ WellFormed(side, list)
  BY DEF BookInv, SidesWellFormed
<1>2. /\ Verdict(last_sequence_number, sequence) = "Accepted"
      /\ levels' = [levels EXCEPT ![side] = after]
      /\ last_sequence_number' = sequence
      /\ full' = [full EXCEPT ![side][price] = quantity]
  BY DEF Apply
<1>3. last_sequence_number' \in IF last_sequence_number = None THEN 0 .. MaxSequence
                                ELSE {last_sequence_number + 1} \cap (0 .. MaxSequence)
  BY <1>2 DEF Verdict, SequenceNumbers
<1>4. \A s : HeldMap(s) = ListMap(levels[s]) /\ HeldMap(s)' = ListMap(levels'[s])
  BY DEF HeldMap, ListMap
<1>5. \A s \in Sides : levels'[s] = IF s = side THEN after ELSE levels[s]
  BY <1>1, <1>2 DEF TypeOK
<1>6. ListMap(after) = top
  BY <1>1, <1>4, AppliedHoldsTop
<1> HIDE DEF after, top, list
<1>7. [s \in Sides |-> HeldMap(s)'] = [held EXCEPT ![side] = top]
  BY <1>4, <1>5, <1>6
<1>8. [s \in Sides |-> HeldMap(s)]' = [held EXCEPT ![side] = Promise!Top(side, [held[side] EXCEPT ![price] = quantity])]
  BY <1>7 DEF top
<1> QED BY <1>2, <1>3, <1>8 DEF Promise!Update

LEMMA ApplySnapshotKeepsPromise ==
  ASSUME NEW bids \in Snapshots, NEW asks \in Snapshots,
         NEW sequence \in SequenceNumbers, ApplySnapshot(bids, asks, sequence)
  PROVE  Promise!Snapshot
<1> DEFINE list == [side \in Sides |-> IF side = "Bid" THEN bids ELSE asks]
<1>1. /\ levels' = [side \in Sides |-> Loaded(side, list[side])]
      /\ full' = [side \in Sides |-> ListMap(list[side])]
      /\ last_sequence_number' = sequence
  BY DEF ApplySnapshot
<1>2. \A side \in Sides :
        /\ list[side] \in Seq(PriceLevel)
        /\ \A i, j \in DOMAIN list[side] :
             list[side][i].price = list[side][j].price => i = j
  BY SnapshotsAssumption
<1> HIDE DEF list
<1>3. \A side \in Sides :
        /\ ListMap(list[side]) \in [Ticks -> Quantities]
        /\ ListMap(Loaded(side, list[side])) = Promise!Top(side, ListMap(list[side]))
  BY <1>2, ListMapIsCurrent, LoadedHoldsTop
<1>4. \A s : HeldMap(s)' = ListMap(levels'[s])
  BY DEF HeldMap, ListMap
<1>5. [side \in Sides |-> HeldMap(side)'] = [side \in Sides |-> Promise!Top(side, full'[side])]
  BY <1>1, <1>3, <1>4
<1>6. full' \in [Sides -> [Ticks -> Quantities]]
  BY <1>1, <1>3
<1> QED BY <1>1, <1>5, <1>6
     DEF Promise!Snapshot, Promise!Sides, Promise!Maps, Sides, SequenceNumbers

LEMMA EmptyBookIsPromised ==
  /\ Init => Promise!Init
  /\ Reset => Promise!Reset
<1>1. Prices(<< >>) = {}
  BY DEF Prices
<1>2. Init => \A side \in Sides : HeldMap(side) = [p \in Ticks |-> 0]
  BY <1>1 DEF Init, HeldMap
<1>3. Reset => \A side \in Sides : HeldMap(side)' = [p \in Ticks |-> 0]
  BY <1>1 DEF Reset, HeldMap
<1>4. Init => Promise!Init
  BY <1>2 DEF Init, Promise!Init, Promise!Sides, Promise!Empty, Sides
<1>5. Reset => Promise!Reset
  BY <1>3 DEF Reset, Promise!Reset, Promise!Sides, Promise!Empty, Sides
<1> QED BY <1>4, <1>5

(***************************************************************************)
(* The book implements BoundedBook: the array, with its scans, shifts and  *)
(* evictions, is a map that keeps the best Depth prices of those it held   *)
(* and the one just set, and a snapshot leaves the best Depth of its       *)
(* levels in whatever order it lists them.                                 *)
(***************************************************************************)
THEOREM BookImplementsBoundedBook == Spec => ImplementsBoundedBook
<1>1. Init => Promise!Init
  BY EmptyBookIsPromised
<1>2. BookInv /\ [Next]_vars =>
        [Promise!Next]_<< full, [side \in Sides |-> HeldMap(side)], last_sequence_number >>
  <2> SUFFICES ASSUME BookInv, [Next]_vars
               PROVE  \/ Promise!Next
                      \/ UNCHANGED << full, [side \in Sides |-> HeldMap(side)],
                                      last_sequence_number >>
    OBVIOUS
  <2>1. ASSUME NEW side \in Sides, NEW price \in Ticks, NEW quantity \in Quantities,
               NEW sequence \in SequenceNumbers, Apply(side, price, quantity, sequence)
        PROVE  Promise!Next
    BY <2>1, ApplyKeepsPromise DEF Promise!Next, Promise!Sides, Sides
  <2>2. ASSUME NEW bids \in Snapshots, NEW asks \in Snapshots,
               NEW sequence \in SequenceNumbers, ApplySnapshot(bids, asks, sequence)
        PROVE  Promise!Next
    BY <2>2, ApplySnapshotKeepsPromise DEF Promise!Next
  <2>3. CASE Reset
    BY <2>3, EmptyBookIsPromised DEF Promise!Next
  <2>4. CASE UNCHANGED vars
    BY <2>4 DEF vars, HeldMap
  <2>5. ASSUME NEW side \in Sides \cup {"Other"}, NEW sequence \in SequenceNumbers,
               Refuse(side, sequence)
        PROVE  UNCHANGED vars
    BY <2>5 DEF Refuse
  <2> QED BY <2>1, <2>2, <2>3, <2>4, <2>5 DEF Next
<1> QED BY <1>1, <1>2, BookInvariant, PTL DEF Spec, ImplementsBoundedBook, Promise!Spec
===============================================================================
