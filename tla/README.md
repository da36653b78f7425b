# CrossVenueFairValue in TLA+

A verification project for the program in `src/`: a pipeline that captures public
order-book feeds of several venues, reconstructs the books, samples them together on one
receipt clock and writes a research data set whose rows carry future targets.

    capture client ──> NDJSON per venue ──> adapters ──> converter ──> normalized CSV
     (Python asyncio)                          │           (sort by receipt time)   │
                                       capture validator                            v
                                                             research sampler: feature emitter
                                                             (a book per venue) ─> synchronizer
                                                                                    │
                     Python checks, splits, studies <── data set CSV <── target alignment

The C++ code has no threads: its difficulty is in sequences of calls and in the order of
events. The capture client runs asyncio tasks, and a thread for each snapshot request.

## Components

| component | state it keeps | operations | made correct by |
|---|---|---|---|
| **Order book** `order_book.cpp` | two arrays of levels of fixed capacity, last sequence number | `apply`, `apply_snapshot`, `reset`; best prices, spread | sides sorted, unique and current; only the next update mutates; the best Depth levels are kept; no overflow |
| **Venue adapters** `venue_adapters.cpp` | per venue: last source sequence, next number to give, Coinbase's pending gap | `normalize` of snapshots, updates and messages of other channels; stateless `normalize_trades` | every hole at the source reported, the book able to decode the verdict from the number |
| **Capture validation** `capture_validation.cpp`, `validate_capture.cpp` | last sequence of the audit, counters | `check_*_sequence`, OKX checksum, report | agrees with the adapter on gaps |
| **Converter** `capture_converter.cpp` | all events of a run | read, stable sort by (receipt, venue, number), write | order in which a book sees the events |
| **Normalized files, replay** `normalized_csv.cpp`, `multi_replay.cpp`, `replay.cpp` | a reader, books by venue | parse, loop | receipt order |
| **Feature emitter** `feature_emitter.cpp` | per venue: book, flow rings, receipt times, next grid point; last event time | `process` of an update or a trade, which first advances all clocks | rows in order, one grid for all venues, nothing from the future |
| **Synchronizer** `cross_venue.cpp` | last features and midpoint move per venue, last sample time | `update`; freshness, consolidated reference, venue and pair features | refuses disorder; never uses a stale venue |
| **Research sampler** `research_sampler.cpp` | the two above | `process`, `align_future_targets`, `validate_temporal_invariants` | one sample per grid point or event, as of its time; exact targets |
| **Dataset writer** `research_dataset.cpp` | samples | generate: replay, align, validate, write | never writes rows that are not valid |
| **Capture client** `capture/core.py` | a connection, buffered messages and a writer queue per venue | subscribe, snapshot bootstrap, receive, reconnect, close | bridged snapshots, no message lost or reordered, termination |
| **Data quality** `data_quality.py` | books and sequences of its own | `analyze_records` | agrees with the adapters |
| **Dataset loading** `dataset.py`, `research_dataset.py`; **split and latency** `baseline.py`, `latency.py` | data frames | validation, purged split, delayed alignment | no leak of the future |
| **Studies, reports, figures, benchmarks** | data frames | statistics | – |

How they interact: an adapter never speaks to a book directly; it renumbers events, and the
book has to recover from those numbers alone whether the message was accepted, duplicate,
stale or a gap. The validator reads the same messages with rules of its own. The emitter
calls the book, and its rows are the only thing the synchronizer sees. Exceptions thrown
inside a replay end it.

Hard behaviours: messages lost, repeated, late, empty or malformed; several channels in one
sequence; refused events whose time still counts; equal receipt times; capacities; the last
representable number and timestamp; two moving indices over one list; and, in the capture
client, tasks that race a deadline, reconnects and a snapshot that arrives while messages do.
`PROJECT.json` lists each hazard at its line with the properties that cover it.

## Modules

| module | models | notes |
|---|---|---|
| `Optional` | `std::optional` numbers | the constant `None` |
| `BookSide` | `BookSide::apply` and its scans, shifts and eviction | operators on a sequence of levels |
| `BookSequence` | the sequence check of `OrderBook::apply` | used by the book and by everything that feeds one |
| `OrderBook` | `OrderBook`: an action per operation | history variables `full` (all it was told) and `losses` (removals since a level was forgotten) |
| `BoundedBook` | abstract specification: two maps that keep the best Depth prices | no array and no scan; `OrderBook` implements it |
| `SourceSequence` | the rules of adapters and validator for source numbers | pure operators, 64-bit casts included |
| `EventNumbers` | how an adapter numbers the events of a message | pure operators, shared by `VenueStream` and `CapturePipeline` |
| `VenueStream` | one venue's adapter, the sequence state of its book, and the validator, on the same messages | composes `BookSequence`, `SourceSequence` and `EventNumbers`; an action per kind of message |
| `TargetAlignment` | `align_future_targets`, discarding, `validate_temporal_invariants` | an action per iteration of the loops |
| `CrossVenue` | `CrossVenueSynchronizer` | operators on a record, held by `ResearchSampler` |
| `ResearchSampler` | feature emitter, synchronizer and sampler together | an action per event; the clock rows of a call and their consumption are part of it |
| `AppendLog` | abstract specification: a file that holds a first part of what was submitted and only grows | no queue, buffer, thread or timer |
| `NdjsonWriter` | `BufferedNdjsonWriter`: queue, buffer, file and the task that runs between them | an action per point at which `run()` can be resumed; appends and the directory may fail |
| `Capture` | `capture_subscription`, `_capture_connected`, `_capture_binance_snapshot` of one venue | an action per resumption of the task, of the snapshot's thread and of the receive task |
| `CaptureRun` | `run_capture`: the task group, cancellation and the closing of the writers | composes `Capture` and `NdjsonWriter`; the other venues are one task; implements `AppendLog` |
| `CapturePipeline` | from a venue's book to the books rebuilt from its capture file, by converter and replay and by the quality report | the file is the state; conversion, replay and report are functions of it |
| `ChronologicalSplit` | `load_dataset` with its checks, `chronological_split` | extends `TargetAlignment`: it splits what the aligner has written |
| `LatencyStudy` | `align_delayed_returns` and the masks of `evaluate_latency` | extends `ChronologicalSplit` |
| `Ranking` | a finite set in the order of a sort | the emitter's rows, the converter's events, the levels of a message |
| `MC*` | values for the constants | one for each run family |
| `DataInduction` | induction over numbers and lists, folds, lists by rank, as lemmas about sets and functions | the library states them about operators |
| `*Proofs` | the theorems, a module for each module that is run | extend the module they are about |

What is abstracted. Prices, quantities and timestamps are small integers with their
limits as constants, so overflow happens in the model where it happens in the code. A book
message is its source numbers and its number of level changes (`VenueStream`), because the
sequence state depends on nothing else; size 0 is a message of which no event is made. The
fields that a message may lack (the `U` and `pu` of Binance, the `prevSeqId` of OKX) are numbers or
`Absent`, and any combination may come: adapter and validator do not read them alike. The Binance
adapter takes a message without `U` for `u` alone and judges one whose `U` is past its `u`, both
of which the validator calls malformed; only the validator looks at `pu`
(`capture_validation.cpp:149`), so it reports gaps that the adapter does not see, never the other
way round. An OKX message without `prevSeqId` is accepted by the adapter whatever it jumps over
(`venue_adapters.cpp:900`) and audited by its number in the validator: the numbers jumped over are
kept in `unlinked`, and `HolesAreReported` says that the validator has reported them.

In `ResearchSampler` a book is its two best prices, and a midpoint is the sum of the two;
whether an update is accepted is `OrderBook`'s business, so there both outcomes are
possible, but an empty book never refuses. Doubles are integers: rounding is left out.
In `TargetAlignment` a row has the references its list gives it, and a direction is the sign
of a return.

In `CaptureRun` a record is its kind and a number, and a message the interval of book updates
it carries, empty for a trade. The flush interval and the delays of the retries are not
measured: whenever the writer waits the interval may have passed, and a sleep may end at any
moment. What the snapshot request returned is chosen when the code looks at it, and may be any
update of the venue, a failure that is retried or one that is not. An append that fails
(`_append_lines`, `core.py:180-182`) has written any number of the buffered lines and perhaps a
part of the next: `torn` says that the file ends in such a part. The writer's task is then over, so
nothing is written behind it. A cancellation that meets
the await of a receive task (`core.py:485-486`) is suppressed, and if that task has failed, its error
takes the place of the cancellation. `_receive_message` is taken to lose no message
when it is cancelled, which is the promise of the websockets library.
The history variables `joined`, `live` and `submitted` only serve the properties.

In `CapturePipeline` the book is one side of one venue, and a Binance message carries one
update, so its two update ids are equal; it may be without changes (`Unread`): the venue numbers it,
the client records it and the report counts its number, while the adapter does not read it
(`venue_adapters.cpp:450`). Messages with a level that does not parse, which the venue modelled does
not send, would be counted and skipped in the same way. The REST answer is no older than the connection and
the stream is never behind it; a live message older than the snapshot, which the report
would apply (`data_quality.py:182`), does not occur. Sorting by venue keeps venues apart, which is why
one suffices; the adapter's state, its numbers and the book's verdict are those of
`EventNumbers`, `SourceSequence` and `BookSequence`. The replayed book holds `Capacity` levels (64, where the client asks
Binance for a snapshot of 5000): it lets the worst go, as `OrderBook` does, and has them again only when
they are told again; `evicted` is the set of their prices. The order in which a snapshot lists its
levels is from the best on. The clock never goes back, but two records
may have one receipt time.

`ChronologicalSplit` and `LatencyStudy` leave out the features, the venues' receipt times and
the kind of sample; fractions are whole percentages. A pair of a horizon and a delay is
evaluated independently of the others, so one evaluation of any pair stands for the loops.

Each mutant, an operator whose comment begins with "Mutant:", is a plausible error in the
definition that follows it; the project checks that each property notices one.

## Runs

| run | configuration | bounds | shows |
|---|---|---|---|
| `order_book` | `OrderBook.cfg` | depth 2, four prices, two quantities and 0, numbers to 3, three snapshots | invariants of the book and that it implements `BoundedBook` |
| `venue_stream` | `VenueStream.cfg` | four venues, source numbers 0..3, given numbers to 7, up to 2 changes a message | adapter and book agree; every hole reported by the adapter or the validator, every gap of the adapter by the validator |
| `epoch_after_gap` | `EpochAfterGap.cfg` | the same, Binance | finding: a gap does not invalidate the epoch |
| `empty_book_gap` | `EmptyBookGap.cfg` | the same, Coinbase | finding: an empty book takes a refused message and then refuses an accepted one |
| `target_alignment` | `TargetAlignment.cfg` | up to 3 ordered rows of timestamps 0..4, pairs out of order, three references, five lists of horizons, both policies | targets exact, rows discarded exactly, validation never fails |
| `research_sampler` | `ResearchSampler.cfg` | two venues, times 0..4, grid 2, staleness 1, four books | every sample is as of its time |
| `fresh_without_book` | `FreshWithoutBook.cfg` | the same | finding: a venue without a book is fresh |
| `capture_run` | `CaptureRun.cfg` | a stream of a trade and a depth message of two updates, two connections, Binance with a maximum of 3, another venue with none or with 2 | order, completeness, bridging, maximum, the log and its end, under failures, torn appends and cancellation at every step |
| `capture_pipeline` | `CapturePipeline.cfg` | Binance and Kraken, three prices, level there or not, scope 1, replay of 2 levels, 3 updates, 2 connections | where the rebuilt books equal the venue's, and where not |
| `late_snapshot` | `LateSnapshot.cfg` | Binance, two prices, 4 updates | finding: the snapshot is refused by the replay |
| `kraken_scope` | `KrakenScope.cfg` | Kraken, two prices, 4 updates | finding: levels outside the scope stay |
| `latency_study` | `LatencyStudy.cfg` | 5 ordered rows of timestamps 0..4, up to two without a price, two lists of horizons, two pairs of fractions, delays 0..2 | no leak in the split nor in the latency study; two searches agree |

Why the bounds are enough. Depth 2 has a best, a worst and an evicted level, and with four
prices a side can lose two levels; a range of -2..1 makes `ask - bid` overflow in both
directions. Source numbers of two bits have their own upper half, so the signed cast of the
OKX check differs from the number; the last number and its successor are reached. Two
changes a message are the least for which an accepted message has events that a refused one
lacks; the bound on given numbers allows three accepted messages of two events or more of one.
Three rows let the second index pass a row that lacks a price, come back for the next
horizon and run off the end; timestamp 4 is the last, so thresholds overflow. Grid
2 within 0..4 has a first, a last and a missed point; staleness 1 makes a venue stale
between two of them. For the capture run, two connections have a first, a lost and a last; the
depth message of two updates can be covered, bridged in its middle or missed by a snapshot,
the trade is neither; a maximum of 3 is reached by a snapshot and two messages, or by what two
connections have captured. For the pipeline, two prices and a scope of one are the least for which a level is
pushed out of scope, three prices and a capacity of two the least for which the replay lets a level of
a snapshot go and a removal then leaves room for it; three updates allow one before, one during and one after a
bootstrap, or one that is lost or without changes between two that are heard. Five rows leave each part of the
split a row when rows of equal time stay together and others are purged.
The proofs below remove the bounds from the safety properties of all seven modules that are run.

Deadlock. `order_book` checks it. The others switch it off because they really stop: the
numbers run out (`VenueStream`, `CapturePipeline`), the call returns (`TargetAlignment`,
`LatencyStudy`), an exception ends the replay (`ResearchSampler`), `run_capture` is over
(`CaptureRun`; that it does not stop before is `RunEnds`).

Fairness. `CaptureRun` assumes weak fairness of the capture task, of the writer's task, of
`run_capture` itself and of the end of the other venues: the asyncio event loop runs every task
that is ready, a thread that appends to a file returns, and the other venues run the same code
with the same deadline. Nothing is assumed of the venue or the network: no message needs to
come, no snapshot to be answered. Nor is it assumed that the deadline comes; `RunEnds` begins
where it has. `RecordsReachTheFile` says of the first three submissions that they do not
wait for it. The other specifications assume none: they are called from outside, and their
properties are safety properties.

Refinement. `OrderBook` implements `BoundedBook`, and `CaptureRun`, with its queue, buffer,
failures and cancellations, implements `AppendLog`, whose variables are its history
`submitted` and its `file`.

## Findings

* `epoch_after_gap`: `research/methodology.md:15` says "An update gap invalidates the epoch
  and requires another snapshot." `BinanceAdapter` moves on to the message that revealed the
  gap (`venue_adapters.cpp:467`); one event is refused, and the next message is applied to
  levels that missed updates.
* `empty_book_gap`: `methodology.md:35` says that "invalid venue sequences are rejected
  without mutating accepted state". A book that has accepted nothing skips the check
  (`order_book.cpp:92`). A Coinbase heartbeat can reveal a hole before the first `l2_data`;
  that message is a gap, its event is numbered one too high and applied nevertheless, and the event
of the next good message is refused as stale. (`agreement` is "Lossy".)
* `fresh_without_book`: `methodology.md:37` says "a venue is fresh only when it has valid
  state and its latest accepted receipt timestamp is no later than `t`". `freshness()`
  (`cross_venue.cpp:134`) asks for the timestamp only: a venue whose book an update has emptied,
  or of which only a trade has come, is fresh.
* `late_snapshot`: `methodology.md:15` says "Binance reconstruction starts from a REST depth
  snapshot and bridges buffered diff-depth messages according to the published `[U, u]`
  update-ID rules." The client bridges correctly (`SnapshotIsBridged`), but it stamps the
  snapshot when it submits it (`core.py:504`), after the messages it had buffered, and the
  converter sorts by receipt time (`capture_converter.cpp:127`). The replayed book takes a
  buffered message first and refuses the snapshot's events, which have lower numbers.
* `kraken_scope`: the same paragraph says of Kraken "Its subscribed depth is ten levels per
  side, so reconstruction removes levels outside that scope after updates." The quality report
  does (`data_quality.py:208`); the adapter, the converter and the replay do not.

## What is proved

TLAPS proves, for every value of the constants that satisfies the named assumptions, every
invariant that the passing runs check, and both refinements:

* `OrderBookProofs`: types, `SidesWellFormed`, `HeldLevelsAreCurrent`, `SpreadIsExact`,
  `TopOfBookSurvivesEviction` and `ImplementsBoundedBook`. The first three are the invariant;
  the spread follows. Its lemmas say of `ScanUntil` where it stops, and of
  `Applied` that it keeps the order: an update keeps prices, a removal shifts, and an
  insertion between better and worse levels keeps each pair in order. A snapshot is a fold of
  `Applied`, so its proof is an induction over the list. For the best prices `LossInv` adds
  that every level that is missing is behind the first `Depth - losses` levels held: a removal
  of one of these uses one up, and no other call does. For the
  refinement, a side of distinct prices in order, cut to Depth, is a map cut to its Depth best
  prices, by counting the prices better than each.
* `VenueStreamProofs`: types, `BookAgreesWithAdapter`, `BookStaysNear`, `HolesAreReported`,
  `ValidatorKeepsStep`, `GapsAreAudited`. The invariant adds where the book stands: at
  `normalized_sequence - 1` while in step, so that each of the four encodings is
  decoded as it was meant, and within one of it otherwise; and that a number which is not in
  `arrived` is told, pending, or one that an OKX message without `prevSeqId` jumped over and, while
  both read every message, the validator has reported. `GapsAreAudited` holds because every reason for a gap that the
  adapter has is one of the validator's too, at the same number; the validator has more (`pu`).
* `TargetAlignmentProofs`: types, `TargetsAreExact`, `AlignedRowsAreValid` and
  `RowsAreDiscardedExactly`. The invariant
  says which targets are in place by the two loop indices, and that no row between the
  sample and the second index could be the sample's target. That is preserved because the
  rows are in order: the threshold of the next row is no lower, so what was too early still is.
  That the discarding keeps exactly the complete rows, each at its rank, is an induction over
  the loop that keeps them (`KeptExactly`).
* `ResearchSamplerProofs`: types, `SynchronizerTakesEveryRow`, `ClockSamplesAreAsOf`,
  `EventSamplesAreAsOf` and `SamplesAreValid`. The invariant `SamplerInv`
  says that the synchronizer has heard of each venue just what the emitter knows of it, no later
  than the last event, and that the clock of every venue heard of is at the first grid point
  after that event: so the rows of a call, sorted by time, begin where those of the
  last call ended. The samples of a call are an induction over its rows. Sorting is `Sorted`, a
  list by rank; `RankedList` of `DataInduction` says that such a list has each element once, in
  order.
* `CaptureRunProofs`, about the records: `EverythingIsWritten`, and that `CaptureRun` implements `AppendLog`. The
  invariant says where the records are: what was submitted is the file, then the buffer, then
  the queue, in this order, with the end mark behind them once the writers are being closed,
  and no task submits after that. It is stated by what the writer is doing, since a failed or
  cancelled writer has lost the rest. Of the capture only the types matter that make what it
  submits a record; that a bootstrap submits records is an induction over the buffered messages. A torn record is one
  that was next to be written, by a writer whose task is over, so the log's `Tear` is the last of its steps.
  About the counts and the connections: types, `QuotaIsKept`, `RecordsAreInOrder`,
  `ConnectionIsWhole` and `SnapshotIsBridged`. What was submitted,
  markers aside, is what the task has counted over its connections; that alone is not
  inductive, for a bootstrap submits its snapshot unasked: before a connection receives, its
  own count is zero and the maximum is not reached, so that there is room for the snapshot and
  the buffered messages are cut to the rest. The other three need `OrderInv`: the records after
  the last marker are none until the connection receives, the buffer has exactly what was heard
  since it was opened, in the stream's order, but for a message the receive task still holds,
  and from then on the records are in order, whole and bridged. That the bootstrap
  makes them so is an induction over the buffer (`UncoveredAreKept`): what the snapshot covers
  goes, the rest stays in order, and a message that is the first after the snapshot among those
  kept is the first in the buffer too, which is the one the code has looked at.
* `CapturePipelineProofs`: types, `AcceptedEventsAreApplied`, `OnlyForgottenLevelsDiffer`,
  `ReportHasTheBook` and `ReportCountsTheGaps`. Four programs read one file (the adapter, the
  converter's sort, the replay, the report), each a fold, so the proof has two parts.
  The first is about a file alone, by induction over its records: the counts of gaps of
  adapter and report differ by no more than the messages without changes (`GapsAgree`). For this the numbers
  rise (`Rising`), and the two stand at the same number unless the last message was one of those, in which
  case the gap that the adapter may find next is already allowed for (`Counts`). The events come in the
  order of their records, a refused message has one event and the accepted ones rising numbers
  (`EventsAreArranged`), so that a file in receipt order is sorted into itself unless a refused message
  shares its time (`LogIsInOrder`). A book fed the events stands at `next - 1` after each record, by
  which it decodes each verdict and applies what was accepted (`ReplayFollows`); it is the book of the
  changes but for the levels it let go, which it lacks (`Shows`, for any capacity). The second is the
  invariant `Inv` of the steps. While nothing was lost, the messages that the buffer has beyond the
  snapshot's update are numbered one by one up to the venue's last and turn the snapshot into the
  venue's book (`Bridges`), so that after the bootstrap the report has the book; if also no message was
  without changes, the adapter has accepted every record and stands at the venue's update (`SourceIs`,
  `FileAccepted`), and the changes of the whole file, never cleared, give the book at every price that
  is not `forgotten` (`FileHas`: a list of records gives its prices the same quantities whatever book it
  starts from, `RecordsGive`). `Rises` says that messages are in the order of their numbers, in the file and
  the buffer. Without `Bridges` the invariant is not inductive: a snapshot and a buffer that
  do not fit are only found out when they reach the file. For Kraken, what the venue tells of an update leads
  the report's book, cut to scope, to the new best levels (`ToldKeepsScope`). `Count` bounds the
  file by updates and connections, so that the numbers do not overflow.
* `LatencyStudyProofs`: `WrittenDatasetsLoad`, `NoTargetCrossesTheSplit`,
  `DelayedReturnsDoNotLeak`, types, and `UndelayedTargetsAgree`. The study implements the
  alignment, so its invariant holds; that
  of the study adds that the rows do not change once written, that the parts lie between their
  boundaries and that the boundaries are times of rows; `EvaluationInv` that an evaluation is
  one of those rows. No validity of the input is assumed. Two searches for a target agree since
  the first row at or after a time is the same whether sought forward from the sample or among
  all rows, which are in order.

The assumptions are the typing of the constants (`Depth` at least 1, prices
within int64, snapshots with no price twice, rows and horizons of their types), one of
`CapturePipeline` (the venue's numbers fit their type, and so do the numbers of as many events as
the bounds on updates and connections allow: the code counts them in 64 bits and checks nothing)
and two of `LatencyStudy`: a reference that has a microprice has a midpoint, which
`consolidated_reference` guarantees, since it takes both from the same venues and a level of a
book never has quantity 0; and the value that stands for "no return" is no return. Order of
rows and validity of horizons are not assumed: the code checks them, and so does the model.

Only model-checked: liveness (`RunEnds`, `RecordsReachTheFile`), and of course the runs that
find a violation.
Out of the prover's reach: liveness, `ENABLED`, recursive operators and
induction theorems with operator parameters; the models use recursive functions, and
`DataInduction` derives induction for lists and for folds over sets from well-founded finite
subsets, and the properties of a set listed by rank.

## Not modelled, and why

Decimal, timestamp and JSON parsing (pure conversions; abstracted to their success), trades of
the adapters (no state), features computed from quantities (arithmetic on doubles), CSV and
metadata output, command lines, statistics, figures and benchmarks. `replay.cpp` repeats the
loop of `multi_replay.cpp` for one book. Of the quality report the statistics,
and of both reconstructions Coinbase and OKX, whose snapshots and channels `VenueStream` has.
Of the capture client the subscriptions and the provenance files; a connection's exceptions are
those it catches and those it does not, whatever their names.

## Plan

Done: the order book, the adapters with the validator, the alignment, the sampler, the capture
client, the pipeline to the replay and the quality report, the split and the latency study.

Next:

1. `FlowWindow`: the ring of the emitter refining "the last entries", and its time window.
2. Coinbase and OKX in `CapturePipeline`, whose sequence rules differ.
