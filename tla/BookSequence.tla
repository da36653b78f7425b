---------------------------- MODULE BookSequence -----------------------------
(***************************************************************************)
(* The sequence check of OrderBook::apply in cpp/src/order_book.cpp, the   *)
(* only thing the rest of the pipeline sees of a book: the first update is *)
(* taken whatever its number, then only the number that follows.           *)
(***************************************************************************)
EXTENDS Optional

CONSTANT MaxSequence  (* numeric_limits<SequenceNumber>::max() *)

ASSUME MaxSequenceAssumption == MaxSequence \in Nat \ {0}

SequenceNumbers == 0 .. MaxSequence

(* Mutant: anything newer than the last update is taken, gap or not. *)
VerdictTakingGaps(last, sequence) ==
  CASE last = None     -> "Accepted"
    [] last = sequence -> "Duplicate"
    [] OTHER           -> IF sequence < last THEN "Stale" ELSE "Accepted"

(* The UpdateStatus of a sequence number after the last one accepted. *)
Verdict(last, sequence) ==
  CASE last = None -> "Accepted"
    [] last # None -> CASE sequence = last -> "Duplicate"
                        [] sequence < last -> "Stale"
                        [] OTHER           -> IF last = MaxSequence \/ sequence # last + 1
                                              THEN "SequenceGap" ELSE "Accepted"
===============================================================================
