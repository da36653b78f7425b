---------------------------- MODULE CapturePipeline ---------------------------
(***************************************************************************)
(* From a venue's book to the books rebuilt from its capture file.  The    *)
(* client (src/fairvaluelab/capture/core.py) records messages as they      *)
(* come and, for Binance, a snapshot; the converter                        *)
(* (cpp/src/capture_converter.cpp) has the adapter number their events and *)
(* sorts them by receipt time; the replay (cpp/src/multi_replay.cpp) feeds *)
(* them to a book.  The quality report (src/fairvaluelab/data_quality.py)  *)
(* rebuilds the book from the same file by rules of its own.               *)
(*                                                                         *)
(* The book is one side of one venue, on which a higher price is better.   *)
(* The venue is external: Binance numbers its updates and sends every one; *)
(* Kraken sends what changes among its Scope best levels, and a snapshot   *)
(* of those to begin with.  A connection may be lost, and while it lasts   *)
(* an update of Binance may be.                                            *)
(***************************************************************************)
EXTENDS BookSequence, SourceSequence, EventNumbers, Ranking, FiniteSetsExt, Functions

CONSTANTS
  Venues,          (* Those to model, of "Binance" and "Kraken".           *)
  Prices,          (* The prices of the venue's book.                      *)
  Quantities,      (* Its quantities, 0 for no level.                      *)
  Scope,           (* The levels Kraken sends (ten).                       *)
  Capacity,        (* The levels that the replay's book holds (64).        *)
  MaxUpdates,      (* The most updates of the venue's book, and            *)
  MaxConnections   (* the most connections, bounds for TLC.                *)

ASSUME VenuesAssumption == Venues \subseteq {"Binance", "Kraken"}
ASSUME PricesAssumption == Prices \subseteq Nat /\ IsFiniteSet(Prices)
ASSUME QuantitiesAssumption ==
  Quantities \subseteq Nat /\ IsFiniteSet(Quantities) /\ 0 \in Quantities
ASSUME ScopeAssumption == Scope \in Nat \ {0}
ASSUME CapacityAssumption == Capacity \in Nat \ {0}

(* The venue's numbers and those of the events, a record's for each price, are no overflow. *)
ASSUME MaxUpdatesAssumption == MaxUpdates \in 0 .. MaxSource
ASSUME MaxConnectionsAssumption ==
  /\ MaxConnections \in Nat
  /\ (MaxUpdates + MaxConnections) * Cardinality(Prices) <= MaxSequence

VARIABLES
  venue,        (* the venue                                               *)
  book,         (* its book                                                *)
  update,       (* the number of its last update                           *)
  link,         (* "Down", "Bootstrapping" or "Up"                         *)
  connections,  (* connections so far, for the bound                       *)
  clock,        (* AnchoredClock                                           *)
  requested,    (* the snapshot that Binance has answered with, if any     *)
  buffered,     (* messages received before it has come                    *)
  file,         (* the capture file                                        *)
  history       (* history: what the properties compare with               *)

vars == << venue, book, update, link, connections, clock, requested, buffered, file, history >>

EmptyBook == [price \in Prices |-> 0]
Books == [Prices -> Quantities]

(* The levels of a book, and the best count of them. *)
Held(b) == {p \in Prices : b[p] # 0}
Best(b, count) ==
  [p \in Prices |-> IF Cardinality({q \in Held(b) : q > p}) < count THEN b[p] ELSE 0]
InScope(of, b) == IF of = "Kraken" THEN Best(b, Scope) ELSE b

(* A level change, and a record: a snapshot or a message of updates first .. final. *)
Change(price, quantity) == [price |-> price, quantity |-> quantity]
ChangesOn(b, prices) ==
  LET listed == Sorted(prices, {pair \in prices \X prices : pair[1] > pair[2]})
  IN  [i \in DOMAIN listed |-> Change(listed[i], b[listed[i]])]
ChangesOf(b) == ChangesOn(b, Held(b))
Record(kind, id, changes, time) == [kind |-> kind, id |-> id, changes |-> changes, time |-> time]

(***************************************************************************)
(* history has                                                             *)
(*   lost      an update was lost while the connection lasted              *)
(*   forgotten prices whose last change is not in the file                 *)
(***************************************************************************)
Init ==
  /\ venue \in Venues
  /\ book = [price \in Prices |-> Max(Quantities)]
  /\ update = 0
  /\ link = "Down" /\ connections = 0
  /\ clock = 0
  /\ requested = None /\ buffered = << >>
  /\ file = << >>
  /\ history = [lost |-> FALSE, forgotten |-> {}]

(* Mutant: the clock follows one that is set back. *)
TickSetBack == clock' \in {clock - 1, clock, clock + 1}

(* The time of a receipt: after the one before it, or the same. *)
Tick == clock' \in {clock, clock + 1}

(* The prices of some records are in the file, as they were last changed. *)
PricesOf(records) == {c.price : c \in UNION {Range(r.changes) : r \in Range(records)}}
Recorded(records) == [history EXCEPT !.forgotten = @ \ PricesOf(records)]

-------------------------------------------------------------------------------
(* What the venue sends when its book changes: removals, then what is set. *)
Told(of, before, after) ==
  LET was == InScope(of, before)
      now == InScope(of, after)
  IN  ChangesOn(after, {p \in Held(was) : after[p] = 0}) \o
      ChangesOn(now, {p \in Held(now) : was[p] # now[p]})

(***************************************************************************)
(* An update of the venue's book, delivered or not.  One of Binance may    *)
(* change nothing, and is sent nevertheless.                               *)
(***************************************************************************)
UpdateBook(price, quantity, delivered) ==
  LET after == [book EXCEPT ![price] = quantity]
      changes == Told(venue, book, after)
      message == Record("depth", update + 1, changes, clock')
      heard == delivered /\ link # "Down" /\ (venue = "Binance" \/ changes # << >>)
      told == IF heard /\ link = "Up" THEN PricesOf(<< message >>) ELSE {}
      differ == {p \in Prices : InScope(venue, book)[p] # InScope(venue, after)[p]}
  IN  /\ update < MaxUpdates
      /\ quantity = book[price] => venue = "Binance"
      /\ ~ delivered => venue = "Binance" /\ link # "Down"
      /\ book' = after
      /\ update' = update + 1
      /\ IF heard THEN Tick ELSE UNCHANGED clock
      /\ file' = IF heard /\ link = "Up" THEN Append(file, message) ELSE file
      /\ buffered' = IF heard /\ link = "Bootstrapping" THEN Append(buffered, message) ELSE buffered
      /\ history' = [history EXCEPT
           !.lost = @ \/ ~ delivered,
           !.forgotten = (@ \cup differ) \ told]
      /\ UNCHANGED << venue, link, connections, requested >>

(* The client connects; Kraken sends a snapshot at once. *)
Connect ==
  /\ link = "Down" /\ connections < MaxConnections
  /\ connections' = connections + 1
  /\ IF venue = "Kraken"
     THEN LET snapshot == Record("snapshot", 0, ChangesOf(InScope(venue, book)), clock')
          IN  /\ Tick
              /\ file' = Append(file, snapshot)
              /\ history' = Recorded(<< snapshot >>)
              /\ link' = "Up"
     ELSE /\ link' = "Bootstrapping"
          /\ UNCHANGED << clock, file, history >>
  /\ UNCHANGED << venue, book, update, requested, buffered >>

(* It is disconnected; what it has buffered is dropped. *)
Disconnect ==
  /\ link # "Down"
  /\ link' = "Down"
  /\ requested' = None /\ buffered' = << >>
  /\ UNCHANGED << venue, book, update, connections, clock, file, history >>

(* Binance answers the request for a snapshot. *)
AnswerSnapshot ==
  /\ link = "Bootstrapping" /\ requested = None
  /\ requested' = [id |-> update, changes |-> ChangesOf(book)]
  /\ UNCHANGED << venue, book, update, link, connections, clock, buffered, file, history >>

(* Mutant: the update after the snapshot's is taken to be in it. *)
IsAfterNext(message, id) == message.id > id + 1

(* depth_range[1] > snapshot_id; a message has one update here. *)
IsAfter(message, id) == message.id > id

(* depth_messages *)
KeptAfter(messages, id) ==
  LET kept[n \in 0 .. Len(messages)] ==
        IF n = 0 THEN << >>
        ELSE IF IsAfter(messages[n], id) THEN Append(kept[n - 1], messages[n]) ELSE kept[n - 1]
  IN  kept[Len(messages)]

(***************************************************************************)
(* The answer has come.  The snapshot is stamped when it is submitted, the *)
(* buffered messages were when they were received.  One that does not      *)
(* bridge to them is fetched again.                                        *)
(***************************************************************************)
FinishBootstrap ==
  /\ link = "Bootstrapping" /\ requested # None
  /\ LET kept == KeptAfter(buffered, requested.id)
     IN  IF kept # << >> /\ kept[1].id # requested.id + 1
         THEN requested' = None /\ UNCHANGED << link, buffered, clock, file, history >>
         ELSE /\ link' = "Up"
              /\ requested' = None /\ buffered' = << >>
              /\ Tick
              /\ LET snapshot == Record("snapshot", requested.id, requested.changes, clock')
                 IN  /\ file' = file \o << snapshot >> \o kept
                     /\ history' = Recorded(<< snapshot >> \o kept)
  /\ UNCHANGED << venue, book, update, connections >>

Next ==
  \/ \E price \in Prices, quantity \in Quantities, delivered \in BOOLEAN :
        UpdateBook(price, quantity, delivered)
  \/ Connect \/ Disconnect \/ AnswerSnapshot \/ FinishBootstrap

Spec == Init /\ [][Next]_vars

-------------------------------------------------------------------------------
(* A message without changes: Unsupported to the adapter, whatever its number. *)
Unread(record) == record.kind = "depth" /\ record.changes = << >>

(***************************************************************************)
(* read_source() of one record: its adapter's normalize(), which keeps the *)
(* source sequence and the next number to give, and the events it made.    *)
(***************************************************************************)
Numbered(of, state, record) ==
  LET status == IF of = "Kraken" \/ record.kind = "snapshot" THEN "Accepted"
                ELSE BinanceStatus(state.source, record.id, record.id)
      numbers == AssignedSequences(status, state.next, Len(record.changes))
  IN  IF Unread(record) THEN [state EXCEPT !.read = @ + 1]
      ELSE
      [source |-> IF record.kind = "snapshot" \/ status \in {"Accepted", "Gap"} THEN record.id
                  ELSE state.source,
       next   |-> IF status = "Accepted" THEN state.next + Len(numbers) ELSE state.next,
       read   |-> state.read + 1,
       events |-> state.events \o
                  [i \in DOMAIN numbers |->
                     [number |-> numbers[i], time |-> record.time, status |-> status,
                      change |-> record.changes[i], record |-> state.read + 1,
                      position |-> Len(state.events) + i]]]

Normalized(of, records) ==
  LET after[n \in 0 .. Len(records)] ==
        IF n = 0 THEN [source |-> None, next |-> 1, read |-> 0, events |-> << >>]
        ELSE Numbered(of, after[n - 1], records[n])
  IN  after[Len(records)]

Events == Range(Normalized(venue, file).events)

(* Mutant: the numbers are compared first. *)
EarlierByNumber(a, b) ==
  \/ a.number < b.number
  \/ a.number = b.number /\ a.position < b.position

(* The comparison of the converter's stable sort. *)
Earlier(a, b) ==
  \/ a.time < b.time
  \/ a.time = b.time /\ a.number < b.number
  \/ a.time = b.time /\ a.number = b.number /\ a.position < b.position

(* The normalized log that convert_capture_directory() writes. *)
Log == Sorted(Events, {pair \in Events \X Events : Earlier(pair[1], pair[2])})

(* An accepted update of the replay's book, and a list of them. *)
ApplyChange(b, change) == [b EXCEPT ![change.price] = change.quantity]

ApplyChanges(b, changes) ==
  LET after[n \in 0 .. Len(changes)] ==
        IF n = 0 THEN b ELSE ApplyChange(after[n - 1], changes[n])
  IN  after[Len(changes)]

(* A change on a side of the replay's book, which lets go of what it cannot hold. *)
Cut(b, change) == Best(ApplyChange(b, change), Capacity)

(***************************************************************************)
(* replay_normalized_log() of one event.  evicted has the prices that the  *)
(* book let go and was not told since; dropped has the events that it      *)
(* refused, disputed those that it did not judge as the adapter did.       *)
(***************************************************************************)
Replayed(state, event) ==
  LET accepted == Verdict(state.last, event.number) = "Accepted"
      changed == ApplyChange(state.book, event.change)
      cut == Cut(state.book, event.change)
  IN  [book     |-> IF accepted THEN cut ELSE state.book,
       last     |-> IF accepted THEN event.number ELSE state.last,
       evicted  |-> IF accepted
                    THEN (state.evicted \ {event.change.price}) \cup
                         {p \in Prices : cut[p] # changed[p]}
                    ELSE state.evicted,
       dropped  |-> IF accepted THEN state.dropped ELSE state.dropped \cup {event},
       disputed |-> IF accepted = (event.status = "Accepted") THEN state.disputed
                    ELSE state.disputed \cup {event}]

ReplayOf(events) ==
  LET after[n \in 0 .. Len(events)] ==
        IF n = 0
        THEN [book |-> EmptyBook, last |-> None, evicted |-> {}, dropped |-> {}, disputed |-> {}]
        ELSE Replayed(after[n - 1], events[n])
  IN  after[Len(events)]

Replay == ReplayOf(Log)

(* Mutant: a snapshot does not clear the report's book. *)
BaseKept(b, record) == b

(* A snapshot clears the report's book. *)
Base(b, record) == IF record.kind = "snapshot" THEN EmptyBook ELSE b

(* Mutant: a snapshot does not tell the report where the numbers go on. *)
SeenBesideSnapshots(sequence, record) ==
  IF record.kind # "snapshot" /\ (sequence = None \/ record.id > sequence) THEN record.id ELSE sequence

(* The report's last_source_sequence after a record. *)
Seen(sequence, record) ==
  IF record.kind = "snapshot" \/ sequence = None \/ record.id > sequence THEN record.id ELSE sequence

(***************************************************************************)
(* _process_binance() and _process_kraken() of a record: a message is      *)
(* applied whatever its number, and Kraken's book is cut to its scope.     *)
(***************************************************************************)
Observed(of, state, record) ==
  LET skips == record.kind # "snapshot" /\ state.sequence # None /\ record.id > state.sequence + 1
  IN  [book     |-> InScope(of, ApplyChanges(Base(state.book, record), record.changes)),
       sequence |-> Seen(state.sequence, record),
       gaps     |-> state.gaps + (IF skips THEN 1 ELSE 0)]

(* analyze_records() *)
ReportOf(of, records) ==
  LET after[n \in 0 .. Len(records)] ==
        IF n = 0 THEN [book |-> EmptyBook, sequence |-> None, gaps |-> 0]
        ELSE Observed(of, after[n - 1], records[n])
  IN  after[Len(records)]

Report == ReportOf(venue, file)

-------------------------------------------------------------------------------
(* Every variable has its type. *)
TypeOK ==
  /\ venue \in Venues /\ book \in Books
  /\ update \in 0 .. MaxUpdates /\ connections \in 0 .. MaxConnections
  /\ link \in {"Down", "Bootstrapping", "Up"}
  /\ clock \in Nat
  /\ requested # None => requested.id \in 0 .. update
  /\ \A record \in Range(file) \cup Range(buffered) :
       /\ record.kind \in {"snapshot", "depth"}
       /\ record.id \in 0 .. update /\ record.time \in 0 .. clock
       /\ Range(record.changes) \subseteq [price : Prices, quantity : Quantities]
  /\ history \in [lost : BOOLEAN, forgotten : SUBSET Prices]

(* The file is in the order of its receipt times. *)
InReceiptOrder == \A i, j \in DOMAIN file : i < j => file[i].time <= file[j].time

(* An event of a refused message has the receipt time of another record. *)
RefusedAtSameTime ==
  \E a, b \in Events : a.status # "Accepted" /\ a.record # b.record /\ a.time = b.time

OpensAccepted == Log # << >> => Log[1].status = "Accepted"

(***************************************************************************)
(* Where receipt times do not contradict the order of the file, and no     *)
(* refused message shares its time with another, the sort leaves the book  *)
(* the numbers in the order in which the adapter gave them, over several   *)
(* connections: it takes the events of accepted messages and no others.    *)
(***************************************************************************)
AcceptedEventsAreApplied ==
  (InReceiptOrder /\ ~ RefusedAtSameTime /\ OpensAccepted) => Replay.disputed = {}

(* The messages of the file that the adapter does not read. *)
UnreadIn(records) == {i \in DOMAIN records : Unread(records[i])}

(***************************************************************************)
(* If moreover nothing was lost or unread, the replay has the venue's book *)
(* (of Kraken, the levels in scope), but for the levels that its capacity  *)
(* made it let go, which it does not have until they are told again, and   *)
(* for those whose removal was not told: gone while the connection was     *)
(* down, which the next snapshot does not name, or pushed out of Kraken's  *)
(* scope.                                                                  *)
(***************************************************************************)
OnlyForgottenLevelsDiffer ==
  (InReceiptOrder /\ link = "Up" /\ ~ history.lost /\ UnreadIn(file) = {}) =>
    LET replay == Replay
    IN  \A p \in Prices \ history.forgotten :
          replay.book[p] = IF p \in replay.evicted THEN 0 ELSE InScope(venue, book)[p]

(***************************************************************************)
(* The quality report, which clears its book at a snapshot, cuts Kraken's  *)
(* to scope and reads the file in its own order, has the venue's book      *)
(* while the connection lasts: also after reconnects, and whatever the     *)
(* receipt times.                                                          *)
(***************************************************************************)
ReportHasTheBook ==
  (link = "Up" /\ ~ history.lost) => Report.book = InScope(venue, book)

(***************************************************************************)
(* It counts as many gaps as the adapter finds by its own rules, over      *)
(* updates lost, connections and snapshots, but for one more or less for   *)
(* each message without changes: the report goes on from its number, the   *)
(* adapter does not know of it.                                            *)
(***************************************************************************)
ReportCountsTheGaps ==
  venue = "Binance" =>
    LET found == Cardinality({event \in Events : event.status = "Gap"})
        counted == Report.gaps
        unread == Cardinality(UnreadIn(file))
    IN  /\ counted <= found + unread
        /\ found <= counted + unread

-------------------------------------------------------------------------------
(***************************************************************************)
(* research/methodology.md says "Binance reconstruction starts from a REST *)
(* depth snapshot and bridges buffered diff-depth messages".  The snapshot *)
(* is stamped after the messages buffered while it was fetched, so the     *)
(* replay sees it after them and refuses it.                               *)
(***************************************************************************)
ReconstructionStartsFromSnapshot ==
  \A event \in Replay.dropped : file[event.record].kind # "snapshot"

(***************************************************************************)
(* It says of Kraken "its subscribed depth is ten levels per side, so      *)
(* reconstruction removes levels outside that scope after updates".  The   *)
(* replay keeps them.                                                      *)
(***************************************************************************)
ReconstructionKeepsScope ==
  venue = "Kraken" => Cardinality({p \in Prices : Replay.book[p] # 0}) <= Scope
===============================================================================
