----------------------------- MODULE VenueStream ------------------------------
(***************************************************************************)
(* The book messages of one venue, in the order they were captured.  The   *)
(* venue's adapter (cpp/src/venue_adapters.cpp) judges the sequence number *)
(* of each message and numbers the events it makes of it anew; the venue's *)
(* book (cpp/src/order_book.cpp) sees those numbers only, and judges them  *)
(* again; the capture validator (cpp/src/capture_validation.cpp) audits    *)
(* the same messages by rules of its own.  Messages may be lost, repeated, *)
(* late, empty or malformed: any message may come next.                    *)
(*                                                                         *)
(* A message is a range of source numbers and its size, the number of      *)
(* level changes in it.  Size 0 stands for a message from which the        *)
(* adapter makes no event: one without changes, or with a level that does  *)
(* not parse.  A message that is not about the book changes no state here, *)
(* except for Coinbase, whose channels share one sequence.                 *)
(***************************************************************************)
EXTENDS BookSequence, SourceSequence, EventNumbers

CONSTANTS
  Venues,   (* Those to model, of the four adapters.                       *)
  MaxSize   (* The most level changes of a message, a bound for TLC.       *)

ASSUME VenuesAssumption == Venues \subseteq {"Binance", "Coinbase", "Kraken", "Okx"}
ASSUME MaxSizeAssumption == MaxSize \in Nat

VARIABLES
  venue,                (* the adapter the messages go to                  *)
  source_sequence,      (* its source_sequence_, or None                   *)
  gap_pending,          (* its gap_pending_ (Coinbase only)                *)
  normalized_sequence,  (* its normalized_sequence_, the next it gives     *)
  book_last,            (* last_sequence_number_ of the venue's book       *)
  last_sequence,        (* last_sequence of the validator, or None         *)
  agreement,            (* history: of the book with the adapter           *)
  history               (* history: what has been heard and reported       *)

vars == << venue, source_sequence, gap_pending, normalized_sequence,
           book_last, last_sequence, agreement, history >>

(***************************************************************************)
(* What the code does not have.  agreement is "InStep" once the book's      *)
(* first event was of an accepted message, "OutOfStep" once it was of a    *)
(* refused one; "Broken" if from InStep on adapter and book ever judge an  *)
(* event differently, "Lossy" if from OutOfStep on the book ever refuses   *)
(* an event of an accepted message.  history has                           *)
(*   arrived    the source numbers that messages have brought              *)
(*   unlinked   those that OKX messages without prevSeqId have jumped over *)
(*   missed     those that the validator has reported as missing           *)
(*   told       the source number up to which holes have been reported     *)
(*   apart      a message was read by only one of adapter and validator,   *)
(*              and no snapshot has come since                             *)
(*   audited    the validator has reported a gap since the adapter last    *)
(*              published something new                                    *)
(*   unaudited  the adapter reported a gap that the validator had not      *)
(*   gap_at     where the book stood when the adapter last reported a gap, *)
(*              in a set that a snapshot empties                           *)
(***************************************************************************)
Init ==
  /\ venue \in Venues
  /\ source_sequence = None
  /\ gap_pending = FALSE
  /\ normalized_sequence = 1
  /\ book_last = None
  /\ last_sequence = None
  /\ agreement = "Unopened"
  /\ history = [arrived |-> {}, unlinked |-> {}, missed |-> {}, told |-> None,
                apart |-> FALSE, audited |-> FALSE, unaudited |-> FALSE, gap_at |-> {}]

(* Where the book stands, from last on, as it is given each of the numbers. *)
BookTrace(last, numbers) ==
  LET trace[i \in 0 .. Len(numbers)] ==
        IF i = 0 THEN last
        ELSE IF Verdict(trace[i - 1], numbers[i]) = "Accepted" THEN numbers[i]
        ELSE trace[i - 1]
  IN  trace

(* The book judges each event as the adapter judged its message. *)
SameVerdicts(status, last, numbers) ==
  \A i \in DOMAIN numbers :
    Verdict(BookTrace(last, numbers)[i - 1], numbers[i]) =
      IF status = "Gap" THEN "SequenceGap" ELSE status

(* The adapter publishes the events of a message and the book takes them. *)
Publish(status, size) ==
  LET numbers == AssignedSequences(status, normalized_sequence, size)
  IN  /\ normalized_sequence + size <= MaxSequence
      /\ normalized_sequence' = IF status = "Accepted" THEN normalized_sequence + size
                                ELSE normalized_sequence
      /\ book_last' = BookTrace(book_last, numbers)[Len(numbers)]
      /\ agreement' =
           CASE agreement = "Unopened" /\ numbers # << >> ->
                  IF status = "Accepted" THEN "InStep" ELSE "OutOfStep"
             [] agreement = "InStep" /\ ~ SameVerdicts(status, book_last, numbers) -> "Broken"
             [] /\ agreement = "OutOfStep" /\ status = "Accepted"
                /\ ~ SameVerdicts(status, book_last, numbers) -> "Lossy"
             [] OTHER -> agreement

PublishNothing == UNCHANGED << normalized_sequence, book_last, agreement >>

(* The source numbers that the validator reports as missing. *)
Missing(numbers, final, continuity) ==
  IF continuity = "Gap" THEN (last_sequence + 1 .. final) \ numbers ELSE {}

(***************************************************************************)
(* A message with a number: it brings the source numbers given, up to      *)
(* final, and jumps over those in unlinked without saying so.              *)
(***************************************************************************)
Sequenced(numbers, unlinked, final, size, status, continuity) ==
  LET heard == [history EXCEPT
                  !.arrived = @ \cup numbers,
                  !.missed  = @ \cup Missing(numbers, final, continuity),
                  !.apart   = @ \/ ~ (size = 0 <=> continuity = "Malformed")]
  IN  /\ last_sequence' = AuditedLast(last_sequence, final, continuity)
      /\ \/ /\ size = 0
            /\ history' = [heard EXCEPT !.audited = @ \/ continuity = "Gap"]
            /\ UNCHANGED << source_sequence, gap_pending, normalized_sequence, book_last,
                            agreement >>
         \/ /\ size # 0
            /\ Publish(status, size)
            /\ source_sequence' = IF status \in {"Accepted", "Gap"} THEN final
                                  ELSE source_sequence
            /\ gap_pending' = (gap_pending /\ status \notin {"Accepted", "Gap"})
            /\ history' = [heard EXCEPT
                 !.unlinked  = @ \cup unlinked,
                 !.told      = IF status = "Gap" \/ source_sequence = None THEN final ELSE @,
                 !.audited   = continuity = "Gap" \/ (@ /\ status \notin {"Accepted", "Gap"}),
                 !.unaudited = \/ @
                               \/ /\ status = "Gap" /\ continuity # "Gap"
                                  /\ ~ (heard.apart \/ history.audited),
                 !.gap_at    = IF status = "Gap" THEN {book_last'} ELSE @]
      /\ UNCHANGED venue

(* A book message without a number, of which the adapter accepts any. *)
Unsequenced(size) ==
  /\ size # 0
  /\ Publish("Accepted", size)
  /\ UNCHANGED << venue, source_sequence, gap_pending, last_sequence, history >>

-------------------------------------------------------------------------------
(* BinanceAdapter::normalize of a REST depth snapshot, accepted even if empty. *)
BinanceSnapshot(id, size) ==
  /\ venue = "Binance"
  /\ source_sequence' = id
  /\ last_sequence' = id
  /\ Publish("Accepted", size)
  /\ history' = [history EXCEPT !.arrived = {id}, !.missed = {}, !.told = id,
                                !.apart = FALSE, !.audited = FALSE, !.gap_at = {}]
  /\ UNCHANGED << venue, gap_pending >>

(* The same with a level that does not parse: only the validator takes it. *)
BinanceSnapshotUnread(id) ==
  /\ venue = "Binance"
  /\ last_sequence' = id
  /\ history' = [history EXCEPT !.apart = TRUE]
  /\ UNCHANGED << venue, source_sequence, gap_pending, normalized_sequence, book_last, agreement >>

(***************************************************************************)
(* BinanceAdapter::normalize of a diff-depth message [U, u].  The adapter  *)
(* takes a message without U for u alone, one whose U is past u as it is,  *)
(* and has no use for pu; the validator reads neither of the first two.    *)
(***************************************************************************)
BinanceDepth(first, final, previous, size) ==
  /\ venue = "Binance"
  /\ Sequenced({final} \cup {n \in SourceNumbers : first # Absent /\ n \in first .. final},
               {}, final, size,
               BinanceStatus(source_sequence, first, final),
               BinanceContinuity(last_sequence, first, final, previous))

(* CoinbaseAdapter::normalize of a snapshot or l2update. *)
CoinbaseLevel2(size) == venue = "Coinbase" /\ Unsequenced(size)

(* CoinbaseAdapter::normalize of an l2_data message. *)
CoinbaseL2Data(number, size) ==
  /\ venue = "Coinbase"
  /\ Sequenced({number}, {}, number, size,
               CoinbaseStatus(source_sequence, number, gap_pending),
               CoinbaseContinuity(last_sequence, number))

(* Mutant: a hole that a message of another channel reveals is forgotten. *)
CoinbaseOtherWithoutPending(number) ==
  LET continuity == CoinbaseContinuity(last_sequence, number)
  IN  /\ venue = "Coinbase"
      /\ source_sequence' = IF source_sequence = None \/ number > source_sequence
                            THEN number ELSE source_sequence
      /\ last_sequence' = AuditedLast(last_sequence, number, continuity)
      /\ history' = [history EXCEPT
           !.arrived = @ \cup {number},
           !.missed  = @ \cup Missing({number}, number, continuity),
           !.told    = IF source_sequence = None THEN number ELSE @,
           !.audited = @ \/ continuity = "Gap"]
      /\ UNCHANGED << venue, gap_pending, normalized_sequence, book_last, agreement >>

(* CoinbaseAdapter::normalize of a numbered message of another channel. *)
CoinbaseOther(number) ==
  LET continuity == CoinbaseContinuity(last_sequence, number)
  IN  /\ venue = "Coinbase"
      /\ gap_pending' = (gap_pending \/ (source_sequence # None /\ Skips(source_sequence, number)))
      /\ source_sequence' = IF source_sequence = None \/ number > source_sequence
                            THEN number ELSE source_sequence
      /\ last_sequence' = AuditedLast(last_sequence, number, continuity)
      /\ history' = [history EXCEPT
           !.arrived = @ \cup {number},
           !.missed  = @ \cup Missing({number}, number, continuity),
           !.told    = IF source_sequence = None THEN number ELSE @,
           !.audited = @ \/ continuity = "Gap"]
      /\ UNCHANGED << venue, normalized_sequence, book_last, agreement >>

(* KrakenAdapter::normalize of a book snapshot or update. *)
KrakenBook(size) == venue = "Kraken" /\ Unsequenced(size)

(* What an OKX message brings: what follows the number it says it follows. *)
Following(previous, number) ==
  {n \in SourceNumbers :
     /\ n <= number
     /\ n = number \/ \E before \in SourceNumbers :
                        previous # Absent /\ Signed(before) = previous /\ n > before}

(* What one that does not say so jumps over, for the adapter. *)
Unlinked(previous, number) ==
  {n \in SourceNumbers :
     previous = Absent /\ source_sequence # None /\ source_sequence < n /\ n < number}

(* OkxAdapter::normalize of a books message. *)
OkxBook(number, previous, size) ==
  /\ venue = "Okx"
  /\ Sequenced(Following(previous, number), Unlinked(previous, number), number, size,
               OkxStatus(source_sequence, number, previous),
               OkxContinuity(last_sequence, number, previous))

Next ==
  \/ \E id \in SourceNumbers, size \in 0 .. MaxSize : BinanceSnapshot(id, size)
  \/ \E id \in SourceNumbers : BinanceSnapshotUnread(id)
  \/ \E final \in SourceNumbers, size \in 0 .. MaxSize,
        first, previous \in SourceNumbers \cup {Absent} :
        BinanceDepth(first, final, previous, size)
  \/ \E size \in 0 .. MaxSize : CoinbaseLevel2(size)
  \/ \E number \in SourceNumbers, size \in 0 .. MaxSize : CoinbaseL2Data(number, size)
  \/ \E number \in SourceNumbers : CoinbaseOther(number)
  \/ \E size \in 0 .. MaxSize : KrakenBook(size)
  \/ \E number \in SourceNumbers, previous \in SignedNumbers \cup {Absent},
        size \in 0 .. MaxSize : OkxBook(number, previous, size)

Spec == Init /\ [][Next]_vars

-------------------------------------------------------------------------------
(* Every variable has its type. *)
TypeOK ==
  /\ venue \in Venues
  /\ source_sequence \in SourceNumbers \cup {None}
  /\ gap_pending \in BOOLEAN
  /\ normalized_sequence \in 1 .. MaxSequence
  /\ book_last \in SequenceNumbers \cup {None}
  /\ last_sequence \in SourceNumbers \cup {None}
  /\ agreement \in {"Unopened", "InStep", "OutOfStep", "Lossy", "Broken"}
  /\ history \in [arrived : SUBSET SourceNumbers, unlinked : SUBSET SourceNumbers,
                  missed : SUBSET SourceNumbers, told : SourceNumbers \cup {None},
                  apart : BOOLEAN, audited : BOOLEAN, unaudited : BOOLEAN,
                  gap_at : SUBSET (SequenceNumbers \cup {None})]

(***************************************************************************)
(* The adapter judges a message by the venue's numbers and the book judges *)
(* its events by the adapter's.  If the first event was of a message the   *)
(* adapter accepted, the two agree for good, on every event: what was a    *)
(* duplicate, stale or a gap at the source is that and nothing else to the *)
(* book, and no event of an accepted message is refused.                   *)
(***************************************************************************)
BookAgreesWithAdapter == agreement # "Broken"

(***************************************************************************)
(* If the first event was of a refused message the book starts out of step *)
(* (an empty book takes anything) but never by more than one number.       *)
(***************************************************************************)
BookStaysNear ==
  book_last # None => book_last \in normalized_sequence - 1 .. normalized_sequence + 1

(***************************************************************************)
(* No hole in the source's numbers is passed over: unless a gap is still   *)
(* pending, every number from the last report to source_sequence_ has been *)
(* brought by some message, whatever was repeated, late, or heard on       *)
(* another channel.  The adapter of OKX makes one exception, the message   *)
(* that does not say what it follows: it takes any jump, and what such a   *)
(* message jumps over the validator has reported as missing, as long as    *)
(* both could read every message.                                          *)
(***************************************************************************)
HolesAreReported ==
  (source_sequence # None /\ ~ gap_pending) =>
    \A n \in history.told .. source_sequence :
      n \notin history.arrived =>
        n \in history.unlinked /\ (history.apart \/ n \in history.missed)

(***************************************************************************)
(* The validator, by its own rules, stands where the adapter stands as     *)
(* long as both could read every message.                                  *)
(***************************************************************************)
ValidatorKeepsStep == ~ history.apart => last_sequence = source_sequence

(***************************************************************************)
(* A gap the adapter reports, at once or later, has by then been reported  *)
(* by the validator too, as long as both could read every message.         *)
(***************************************************************************)
GapsAreAudited == ~ history.unaudited

-------------------------------------------------------------------------------
(***************************************************************************)
(* Of Binance, research/methodology.md says "An update gap invalidates the *)
(* epoch and requires another snapshot".  The book should stand still from *)
(* a gap to the next snapshot; it takes the first message after the gap.   *)
(***************************************************************************)
GapInvalidatesEpoch == history.gap_at \subseteq {book_last}

(***************************************************************************)
(* research/methodology.md says of the replay "invalid venue sequences are *)
(* rejected without mutating accepted state".  An empty book takes the     *)
(* event of a message that the adapter refused for a gap, numbered one too *)
(* high so as to be refused, and then refuses the events of the accepted   *)
(* message that comes next, which bear the number before it.               *)
(***************************************************************************)
InvalidSequencesAreRejected == agreement # "Lossy"
===============================================================================
