------------------------------ MODULE CrossVenue ------------------------------
(***************************************************************************)
(* CrossVenueSynchronizer of cpp/src/cross_venue.cpp: for each venue the   *)
(* last features it was given, and what they say of the venues together at *)
(* a sample time.  Its state is a record, and update() and the questions   *)
(* it answers are operators on it, so that ResearchSampler can hold one.   *)
(*                                                                         *)
(* Of a FeatureSet, what matters here is its kind, its venue, its two      *)
(* timestamps and its book; of the book, the best prices.  The midpoint is *)
(* kept as the sum bid + ask, and a consolidated midpoint as the sum of    *)
(* those of the valid venues beside their number.  The features computed   *)
(* from quantities, and the exchange timestamps, are left out.             *)
(***************************************************************************)
EXTENDS Optional, FiniteSets, FiniteSetsExt

CONSTANTS
  VenueIds,      (* The configured venues.                                 *)
  MaxTimestamp,  (* numeric_limits<TimestampNs>::max()                     *)
  MaxStaleness,  (* max_staleness_ns                                       *)
  Books          (* The best prices a book may have.                       *)

ASSUME VenueIdsAssumption == VenueIds \subseteq Nat /\ VenueIds # {} /\ IsFiniteSet(VenueIds)
ASSUME MaxTimestampAssumption == MaxTimestamp \in Nat
ASSUME MaxStalenessAssumption == MaxStaleness \in Nat
ASSUME BooksAssumption == Books \subseteq [bid : Int \cup {None}, ask : Int \cup {None}]

Timestamps == 0 .. MaxTimestamp
SampleKind == {"Clock", "Event"}
EmptyBook == [bid |-> None, ask |-> None]

FeatureSet == [kind : SampleKind, venue : VenueIds, receipt : Timestamps,
               time : Timestamps, book : Books \cup {EmptyBook}]

(* CrossVenueVenueState, and the synchronizer's whole state. *)
VenueState == [observed : BOOLEAN, receipt : Timestamps, time : Timestamps,
               book : Books \cup {EmptyBook}, move : -1 .. 1]
Synchronizer == [venues : [VenueIds -> VenueState], latest : Timestamps \cup {None}]

NewSynchronizer ==
  [venues |-> [v \in VenueIds |-> [observed |-> FALSE, receipt |-> 0, time |-> 0,
                                   book |-> EmptyBook, move |-> 0]],
   latest |-> None]

(* mid_price(): twice the midpoint, or None. *)
Mid(book) == IF None \in {book.bid, book.ask} THEN None ELSE book.bid + book.ask

Sign(from, to) ==
  CASE None \in {from, to} -> 0
    [] OTHER -> IF to > from THEN 1 ELSE IF to < from THEN -1 ELSE 0

(* The SynchronizerUpdateStatus of features. *)
UpdateStatus(sync, features) ==
  LET state == sync.venues[features.venue]
  IN  IF features.receipt > features.time THEN "InvalidTimestamp"
      ELSE IF \/ sync.latest # None /\ features.time < sync.latest
              \/ /\ state.observed
                 /\ features.time < state.time \/ features.receipt < state.receipt
      THEN "OutOfOrder" ELSE "Accepted"

(* Mutant: the move is set by clock rows too. *)
UpdatedMovedByClock(sync, features) ==
  LET state == sync.venues[features.venue]
  IN  [venues |-> [sync.venues EXCEPT ![features.venue] =
                     [observed |-> TRUE, receipt |-> features.receipt, time |-> features.time,
                      book |-> features.book,
                      move |-> IF state.observed THEN Sign(Mid(state.book), Mid(features.book))
                               ELSE 0]],
       latest |-> features.time]

(* The state after features that are accepted: only an event sets the move. *)
Updated(sync, features) ==
  LET state == sync.venues[features.venue]
  IN  [venues |-> [sync.venues EXCEPT ![features.venue] =
                     [observed |-> TRUE, receipt |-> features.receipt, time |-> features.time,
                      book |-> features.book,
                      move |-> IF features.kind = "Clock" THEN state.move
                               ELSE IF ~ state.observed THEN 0
                               ELSE Sign(Mid(state.book), Mid(features.book))]],
       latest |-> features.time]

(* VenueFreshness.usable at a sample time. *)
Usable(state, time) ==
  state.observed /\ time >= state.receipt /\ time - state.receipt <= MaxStaleness

(* A book a consolidated reference may use. *)
Uncrossed(book) == None \notin {book.bid, book.ask} /\ book.bid <= book.ask

ConsolidatedReference(sync, time) ==
  LET valid == {v \in VenueIds : Usable(sync.venues[v], time) /\ Uncrossed(sync.venues[v].book)}
  IN  [time |-> time, venues |-> Cardinality(valid),
       mid |-> IF valid = {} THEN None
               ELSE SumFunction([v \in valid |-> Mid(sync.venues[v].book)])]

(* venue_features(): the book and the move of a venue only while it is usable. *)
VenueFeatures(state, time) ==
  LET seen == state.observed
      usable == Usable(state, time)
  IN  [observed |-> seen, fresh |-> usable,
       receipt |-> IF seen THEN state.receipt ELSE None,
       age |-> IF seen /\ time >= state.receipt THEN time - state.receipt ELSE None,
       book |-> IF usable THEN state.book ELSE EmptyBook,
       move |-> IF usable THEN state.move ELSE None]

(* timestamp_difference(): None if it is no int64. *)
TimestampDifference(first, second) ==
  IF first - second \in -(MaxTimestamp \div 2) .. MaxTimestamp \div 2
  THEN first - second ELSE None

(* pairwise_features(): what two usable venues differ by. *)
PairFeatures(first, second, time) ==
  LET fresh == Usable(first, time) /\ Usable(second, time)
      mids == {Mid(first.book), Mid(second.book)}
  IN  [both_fresh |-> fresh,
       mid |-> IF fresh /\ None \notin mids THEN Mid(first.book) - Mid(second.book) ELSE None,
       receipt |-> IF fresh THEN TimestampDifference(first.receipt, second.receipt) ELSE None,
       move |-> IF fresh THEN first.move - second.move ELSE None]

(* The pairs of configured venues, in order. *)
VenuePairs == {p \in VenueIds \X VenueIds : p[1] < p[2]}

(* CrossVenueSample, but for its targets. *)
CrossVenueSample ==
  [time : Timestamps,
   consolidated : [time : Timestamps, venues : Nat, mid : Int \cup {None}],
   venues : [VenueIds -> [observed : BOOLEAN, fresh : BOOLEAN, receipt : Timestamps \cup {None},
                          age : Timestamps \cup {None}, book : Books \cup {EmptyBook},
                          move : (-1 .. 1) \cup {None}]],
   pairs : [VenuePairs -> [both_fresh : BOOLEAN, mid : Int \cup {None},
                           receipt : Int \cup {None}, move : (-2 .. 2) \cup {None}]]]

(* append_sample(): all of it at one time, for every pair of venues in order. *)
SampleOf(sync, time) ==
  [time |-> time,
   consolidated |-> ConsolidatedReference(sync, time),
   venues |-> [v \in VenueIds |-> VenueFeatures(sync.venues[v], time)],
   pairs |-> [p \in VenuePairs |->
                PairFeatures(sync.venues[p[1]], sync.venues[p[2]], time)]]
===============================================================================
