---------------------------- MODULE SourceSequence ----------------------------
(***************************************************************************)
(* The rules for the sequence numbers that the venues put on their         *)
(* messages: those by which an adapter of cpp/src/venue_adapters.cpp       *)
(* decides whether a message is next, and those by which the checks of     *)
(* cpp/src/capture_validation.cpp audit the same messages.                 *)
(***************************************************************************)
EXTENDS Optional

CONSTANTS
  MaxSource,  (* numeric_limits<std::uint64_t>::max()                      *)
  Absent      (* A field that a message may do without and does: the       *)
              (* prevSeqId of OKX, the U or the pu of Binance.             *)

ASSUME MaxSourceAssumption == MaxSource \in Nat
ASSUME AbsentAssumption == Absent \notin Int

SourceNumbers == 0 .. MaxSource

(* static_cast<std::int64_t> of a sequence number, and the int64s. *)
Signed(number) == IF number > MaxSource \div 2 THEN number - (MaxSource + 1) ELSE number
SignedNumbers == {Signed(number) : number \in SourceNumbers}

(* SequenceStatus of the adapters *)
SequenceStatus == {"Accepted", "Duplicate", "Stale", "Gap"}

(* What every adapter does but for its test of a gap after source. *)
StatusAfter(source, final, gap) ==
  CASE source = None -> "Accepted"
    [] source # None -> CASE final = source -> "Duplicate"
                          [] final < source -> "Stale"
                          [] final > source -> IF gap THEN "Gap" ELSE "Accepted"

(* A number or a range of numbers that does not follow source. *)
Skips(source, first) == source = MaxSource \/ first > source + 1

BinanceStatus(source, first, final) ==
  StatusAfter(source, final, Skips(source, IF first = Absent THEN final ELSE first))

CoinbaseStatus(source, number, pending) ==
  StatusAfter(source, number, pending \/ Skips(source, number))

OkxStatus(source, number, previous) ==
  StatusAfter(source, number, previous # Absent /\ previous # Signed(source))

(* CaptureContinuityStatus: the audit of a message after last. *)
ContinuityAfter(last, final, gap) ==
  CASE last = None -> "Accepted"
    [] last # None -> CASE final = last -> "Duplicate"
                        [] final < last -> "OutOfOrder"
                        [] final > last -> IF gap THEN "Gap" ELSE "Accepted"

BinanceContinuity(last, first, final, previous) ==
  IF first = Absent \/ first \notin 0 .. final THEN "Malformed"
  ELSE ContinuityAfter(last, final,
         Skips(last, first) \/ (previous # Absent /\ previous # last))

(* Mutant: a jump of one number is let through. *)
CoinbaseContinuityLenient(last, number) ==
  ContinuityAfter(last, number, number > last + 2)

CoinbaseContinuity(last, number) == ContinuityAfter(last, number, Skips(last, number))

OkxContinuity(last, number, previous) ==
  ContinuityAfter(last, number,
    IF previous # Absent THEN previous # Signed(last) ELSE Skips(last, number))

(* Mutant: a gap leaves the audit where it was. *)
AuditedLastBeforeGap(last, final, continuity) ==
  IF continuity = "Accepted" THEN final ELSE last

(* CaptureSequenceState.last_sequence after a message. *)
AuditedLast(last, final, continuity) ==
  IF continuity \in {"Accepted", "Gap"} THEN final ELSE last
===============================================================================
