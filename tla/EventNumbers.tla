----------------------------- MODULE EventNumbers -----------------------------
(***************************************************************************)
(* How an adapter of cpp/src/venue_adapters.cpp numbers the events of a    *)
(* message, from the status of the message and the next number to give, so *)
(* that the book comes to the same judgement.                              *)
(***************************************************************************)
EXTENDS Integers, Sequences

(* Mutant: a gap is numbered as if it were next. *)
GapNumberedNext(status, next) ==
  CASE status = "Accepted"  -> next
    [] status = "Duplicate" -> next - 1
    [] status = "Stale"     -> IF next > 1 THEN next - 2 ELSE 0
    [] status = "Gap"       -> next

(* Mutant: a stale message is numbered without the test. *)
StaleBelowZero(status, next) ==
  CASE status = "Accepted"  -> next
    [] status = "Duplicate" -> next - 1
    [] status = "Stale"     -> next - 2
    [] status = "Gap"       -> next + 1

(* normalized_sequence(): the number given to an event of a message. *)
NormalizedSequence(status, next) ==
  CASE status = "Accepted"  -> next
    [] status = "Duplicate" -> next - 1
    [] status = "Stale"     -> IF next > 1 THEN next - 2 ELSE 0
    [] status = "Gap"       -> next + 1

(* Mutant: a refused message keeps all of its events. *)
AssignedKeepingAll(status, next, size) ==
  [i \in 1 .. size |-> NormalizedSequence(status, next) + i - 1]

(* assign_sequences(): only an accepted message keeps all of its events. *)
AssignedSequences(status, next, size) ==
  IF status = "Accepted" THEN [i \in 1 .. size |-> next + i - 1]
  ELSE << NormalizedSequence(status, next) >>
===============================================================================
