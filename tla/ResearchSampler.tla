---------------------------- MODULE ResearchSampler ---------------------------
(***************************************************************************)
(* ResearchSampler of cpp/src/research_sampler.cpp: a FeatureEmitter       *)
(* (cpp/src/feature_emitter.cpp) and a CrossVenueSynchronizer behind it.   *)
(* Every event that is replayed first lets the emitter's clocks catch up   *)
(* with its receipt time, a row for each venue and grid point passed, and  *)
(* then changes the book of its venue and makes a row of its own; the rows *)
(* go through the synchronizer in order, and a sample is taken of it       *)
(* whenever all rows of a grid point, or that of an event, are in.         *)
(*                                                                         *)
(* Whether a venue's book takes an update is OrderBook's business: here a  *)
(* book update is accepted, and then changes the best price of one side as *)
(* it may, or is refused, which an empty book never does.  A sequence of   *)
(* events ends the replay with an exception if one is older than the last. *)
(***************************************************************************)
EXTENDS CrossVenue, Ranking, Sequences

CONSTANTS
  Interval    (* clock_interval_ns *)

ASSUME IntervalAssumption == Interval \in 1 .. MaxTimestamp

VARIABLES
  sample_kind,        (* config_.sample_kind                               *)
  current_timestamp,  (* the emitter's current_timestamp_ns_, or None      *)
  states,             (* the emitter's states_, by venue                   *)
  synchronizer,       (* synchronizer_                                     *)
  output,             (* the samples of the last call                      *)
  result,             (* what the last call was and came to                *)
  failure,            (* the exception that ended the replay, or "none"    *)
  move                (* history: the midpoint move of each venue's last   *)
                      (* event, by the emitter's books                     *)

vars == << sample_kind, current_timestamp, states, synchronizer, output,
           result, failure, move >>

(* VenueState of the emitter; opened: the book has accepted an update. *)
EmitterState == [book : Books \cup {EmptyBook}, opened : BOOLEAN,
                 initialized : BOOLEAN, receipt : Timestamps,
                 next_clock : Timestamps \cup {None}]

Init ==
  /\ sample_kind \in SampleKind
  /\ current_timestamp = None
  /\ states = [v \in VenueIds |-> [book |-> EmptyBook, opened |-> FALSE, initialized |-> FALSE,
                                   receipt |-> 0, next_clock |-> None]]
  /\ synchronizer = NewSynchronizer
  /\ output = << >>
  /\ result = "none"
  /\ failure = "none"
  /\ move = [v \in VenueIds |-> 0]

-------------------------------------------------------------------------------
(* Mutant: the last timestamp is not tested for. *)
LaterUnchecked(time, span) == time + span

(* A timestamp plus a span, or None past the last timestamp. *)
Later(time, span) == IF time > MaxTimestamp - span THEN None ELSE time + span

(* next_clock_after(): the first grid point after a time. *)
NextClockAfter(time) == Later(time, Interval - (time % Interval))

(* Mutant: the clock row at the time of an event is left for the next call. *)
ClocksBefore(state, time) ==
  {g \in Timestamps : /\ state.next_clock # None /\ state.next_clock <= g
                      /\ g < time /\ (g - state.next_clock) % Interval = 0}

(* The grid points that a state's clock passes up to a time. *)
Clocks(state, time) ==
  {g \in Timestamps : /\ state.next_clock # None /\ state.next_clock <= g
                      /\ g <= time /\ (g - state.next_clock) % Interval = 0}

(* The state whose clock has passed them. *)
Advanced(state, time) ==
  IF Clocks(state, time) = {} THEN state
  ELSE [state EXCEPT !.next_clock = Later(Max(Clocks(state, time)), Interval)]

Features(kind, venue, state, time) ==
  [kind |-> kind, venue |-> venue, receipt |-> state.receipt, time |-> time, book |-> state.book]

(* Mutant: the rows stay in the order of the venues. *)
PrecedesByVenue(row, other) ==
  row.venue < other.venue \/ (row.venue = other.venue /\ row.time < other.time)

(* The order of the clock rows of a call. *)
Precedes(row, other) ==
  row.time < other.time \/ (row.time = other.time /\ row.venue < other.venue)

(* advance(): the clock rows up to a time, sorted. *)
ClockRows(time) ==
  LET rows == UNION {{Features("Clock", v, states[v], g) : g \in Clocks(states[v], time)} :
                     v \in VenueIds}
  IN  Sorted(rows, {pair \in rows \X rows : Precedes(pair[1], pair[2])})

-------------------------------------------------------------------------------
(* Mutant: the sample of a grid point is taken once the next row is in. *)
ConsumedBeforeSample(done, row) ==
  LET flush == done.pending # None /\ (row.kind # "Clock" \/ row.time # done.pending)
      sync == Updated(done.sync, row)
      written == IF flush THEN Append(done.output, SampleOf(sync, done.pending)) ELSE done.output
  IN  [sync |-> sync, refused |-> done.refused,
       pending |-> IF sample_kind = "Clock" /\ row.kind = "Clock" THEN row.time ELSE None,
       output |-> IF sample_kind = "Event" /\ row.kind = "Event"
                  THEN Append(written, SampleOf(sync, row.time)) ELSE written]

(* The body of the loop of consume_emitted_features(): done is what has     *)
(* become of the synchronizer, the pending clock timestamp and the output.  *)
Consumed(done, row) ==
  LET flush == done.pending # None /\ (row.kind # "Clock" \/ row.time # done.pending)
      written == IF flush THEN Append(done.output, SampleOf(done.sync, done.pending))
                 ELSE done.output
      pending == IF flush THEN None ELSE done.pending
      sync == Updated(done.sync, row)
  IN  IF done.refused THEN done
      ELSE IF UpdateStatus(done.sync, row) # "Accepted"
      THEN [done EXCEPT !.output = written, !.pending = pending, !.refused = TRUE]
      ELSE [sync |-> sync, refused |-> FALSE,
            pending |-> IF sample_kind = "Clock" /\ row.kind = "Clock" THEN row.time ELSE pending,
            output |-> IF sample_kind = "Event" /\ row.kind = "Event"
                       THEN Append(written, SampleOf(sync, row.time)) ELSE written]

(* consume_emitted_features() *)
Consume(rows) ==
  LET after[n \in 0 .. Len(rows)] ==
        IF n = 0 THEN [sync |-> synchronizer, pending |-> None, output |-> << >>, refused |-> FALSE]
        ELSE Consumed(after[n - 1], rows[n])
      done == after[Len(rows)]
  IN  /\ synchronizer' = done.sync
      /\ output' = IF done.pending = None \/ done.refused THEN done.output
                   ELSE Append(done.output, SampleOf(done.sync, done.pending))
      /\ failure' = IF done.refused THEN "invalid synchronization order" ELSE "none"

InOrder(time) == current_timestamp # None => time >= current_timestamp

(* The rest of process() for an event that changes the state of its venue. *)
Take(venue, time, book, opened) ==
  LET before == Advanced(states[venue], time)
      after == [before EXCEPT !.book = book, !.opened = opened, !.receipt = time,
                              !.initialized = TRUE,
                              !.next_clock = IF before.initialized THEN @ ELSE NextClockAfter(time)]
  IN  /\ failure = "none" /\ InOrder(time)
      /\ current_timestamp' = time
      /\ states' = [v \in VenueIds |-> IF v = venue THEN after ELSE Advanced(states[v], time)]
      /\ Consume(Append(ClockRows(time), Features("Event", venue, after, time)))
      /\ move' = [move EXCEPT ![venue] = IF before.initialized THEN Sign(Mid(before.book), Mid(book))
                                         ELSE 0]
      /\ UNCHANGED sample_kind

(* An accepted book update: the best price of one side, at most, is another. *)
AcceptUpdate(venue, time, book) ==
  /\ book.bid = states[venue].book.bid \/ book.ask = states[venue].book.ask
  /\ Take(venue, time, book, TRUE)
  /\ result' = "accepted"

(* A trade leaves the book alone, yet the venue's receipt time is its own. *)
ProcessTrade(venue, time) ==
  /\ Take(venue, time, states[venue].book, states[venue].opened)
  /\ result' = "trade"

(* A book update that the book refuses: only the clocks advance. *)
RefuseUpdate(venue, time) ==
  /\ failure = "none" /\ InOrder(time)
  /\ states[venue].opened
  /\ current_timestamp' = time
  /\ states' = [v \in VenueIds |-> Advanced(states[v], time)]
  /\ Consume(ClockRows(time))
  /\ result' = "refused"
  /\ UNCHANGED << sample_kind, move >>

(* An event older than the last is an invalid_argument. *)
RejectOrder(time) ==
  /\ failure = "none" /\ ~ InOrder(time)
  /\ failure' = "events must be ordered"
  /\ output' = << >>
  /\ result' = "none"
  /\ UNCHANGED << sample_kind, current_timestamp, states, synchronizer, move >>

Next ==
  \E venue \in VenueIds, time \in Timestamps :
    \/ \E book \in Books : AcceptUpdate(venue, time, book)
    \/ ProcessTrade(venue, time)
    \/ RefuseUpdate(venue, time)
    \/ RejectOrder(time)

Spec == Init /\ [][Next]_vars

-------------------------------------------------------------------------------
(* Every variable has its type. *)
TypeOK ==
  /\ sample_kind \in SampleKind
  /\ current_timestamp \in Timestamps \cup {None}
  /\ states \in [VenueIds -> EmitterState]
  /\ synchronizer \in Synchronizer
  /\ output \in Seq(CrossVenueSample)
  /\ result \in {"none", "accepted", "trade", "refused"}
  /\ failure \in {"none", "events must be ordered", "invalid synchronization order"}
  /\ move \in [VenueIds -> -1 .. 1]

(***************************************************************************)
(* The emitter sorts its clock rows and keeps its venues on one grid, so   *)
(* the synchronizer never refuses a row and the exception that would end   *)
(* the replay is never thrown.                                             *)
(***************************************************************************)
SynchronizerTakesEveryRow == failure # "invalid synchronization order"

(* What a sample at a time should say, of the books and receipts as they are in states. *)
AsOf(time) ==
  SampleOf([venues |-> [v \in VenueIds |-> [observed |-> states[v].initialized,
                                            receipt |-> states[v].receipt, time |-> 0,
                                            book |-> states[v].book, move |-> move[v]]],
            latest |-> None], time)

(* The grid points after one time and up to another. *)
Grid(after, upto) == {g \in Timestamps : g % Interval = 0 /\ g # 0 /\ after < g /\ g <= upto}

(***************************************************************************)
(* Every grid point that the clock passes, once some venue has been heard, *)
(* is sampled once, in order, and shows every event received before it and *)
(* none received at that very time or after.                               *)
(***************************************************************************)
ClockSamplesAreAsOf ==
  [][ (sample_kind = "Clock" /\ failure' = "none") =>
        output' = LET points == IF \E v \in VenueIds : states[v].initialized
                                THEN Grid(current_timestamp, current_timestamp') ELSE {}
                      sorted == Sorted(points, {pair \in points \X points : pair[1] < pair[2]})
                  IN  [i \in DOMAIN sorted |-> AsOf(sorted[i])] ]_vars

(***************************************************************************)
(* Every accepted event is sampled once, at its receipt time, and its      *)
(* sample shows it and all before it; a refused one is not sampled.        *)
(***************************************************************************)
EventSamplesAreAsOf ==
  [][ (sample_kind = "Event" /\ failure' = "none") =>
        output' = IF result' = "refused" THEN << >> ELSE << AsOf(current_timestamp)' >> ]_vars

(* validate_temporal_invariants on the venues of the samples. *)
SamplesAreValid ==
  \A i \in DOMAIN output : \A v \in VenueIds :
    LET sample == output[i]
        venue == sample.venues[v]
    IN  /\ sample.consolidated.time = sample.time
        /\ IF ~ venue.observed THEN venue.receipt = None /\ venue.age = None
           ELSE /\ venue.receipt # None /\ venue.receipt <= sample.time
                /\ venue.age = sample.time - venue.receipt

-------------------------------------------------------------------------------
(***************************************************************************)
(* research/methodology.md says "a venue is fresh only when it has valid   *)
(* state and its latest accepted receipt timestamp is no later than t".    *)
(* The code asks for the timestamp alone: a venue of which only trades, or *)
(* one side of the book, have come is fresh.                               *)
(***************************************************************************)
FreshVenuesHaveABook ==
  \A i \in DOMAIN output : \A v \in VenueIds :
    output[i].venues[v].fresh => Mid(output[i].venues[v].book) # None
===============================================================================
