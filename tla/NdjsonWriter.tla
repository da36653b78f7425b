----------------------------- MODULE NdjsonWriter -----------------------------
(***************************************************************************)
(* BufferedNdjsonWriter of src/fairvaluelab/capture/core.py: a task that   *)
(* takes records from an unbounded queue into a buffer and appends the     *)
(* buffer to a file, in a thread, when the flush interval has passed.      *)
(* Records may be submitted while the thread writes.  An end mark, the     *)
(* queue's None, makes the task flush and return.                          *)
(*                                                                         *)
(* The flush interval is abstracted: whenever the task waits it may find   *)
(* that the interval has passed, alone or with a record at hand.  A write  *)
(* that fails may have written a first part of the buffer, up to any       *)
(* character.                                                              *)
(***************************************************************************)
EXTENDS Sequences, Naturals

CONSTANT Records  (* The records that may be submitted.                    *)

(* The queue's None. *)
EndMark == << "end", 0 >>

ASSUME RecordsAssumption == EndMark \notin Records

VARIABLES
  queue,     (* the asyncio.Queue                                          *)
  buffer,    (* the task's buffer                                          *)
  file,      (* the whole records in the file                              *)
  torn,      (* it ends in a part of a record                              *)
  writer,    (* where the task is                                          *)
  submitted  (* history: every record submitted                            *)

writerVars == << queue, buffer, file, torn, writer, submitted >>

(***************************************************************************)
(* "Writing" and "WritingLast" await the thread that appends the buffer;   *)
(* "Ended" has returned, "Failed" raised, "Cancelled" was cancelled.       *)
(***************************************************************************)
WriterStates == {"Starting", "Waiting", "Writing", "WritingLast", "Ended", "Failed", "Cancelled"}

(* submit() of some records in one step of the event loop. *)
Submit(records) ==
  /\ queue' = queue \o records
  /\ submitted' = submitted \o records

SubmitNothing == UNCHANGED << queue, submitted >>

WriterInit ==
  /\ queue = << >>
  /\ buffer = << >>
  /\ file = << >>
  /\ torn = FALSE
  /\ writer = "Starting"
  /\ submitted = << >>

(* run() makes the directory in a thread, which may fail. *)
MakeDirectory ==
  /\ writer = "Starting"
  /\ writer' \in {"Waiting", "Failed"}
  /\ UNCHANGED << queue, buffer, file, torn, submitted >>

(* Mutant: the end mark is taken for a record. *)
TakeRecordUnchecked ==
  /\ writer = "Waiting" /\ queue # << >>
  /\ queue' = Tail(queue)
  /\ buffer' = Append(buffer, Head(queue))
  /\ writer' \in {"Waiting", "Writing"}
  /\ UNCHANGED << file, torn, submitted >>

(* A record is taken, before the interval has passed or when it just has. *)
TakeRecord ==
  /\ writer = "Waiting" /\ queue # << >> /\ Head(queue) # EndMark
  /\ queue' = Tail(queue)
  /\ buffer' = Append(buffer, Head(queue))
  /\ writer' \in {"Waiting", "Writing"}
  /\ UNCHANGED << file, torn, submitted >>

(* Mutant: the interval is only looked at when a record comes. *)
FlushWithRecordsOnly ==
  /\ writer = "Waiting" /\ buffer # << >> /\ queue # << >>
  /\ writer' = "Writing"
  /\ UNCHANGED << queue, buffer, file, torn, submitted >>

(* wait_for() times out: the interval has passed. *)
FlushInterval ==
  /\ writer = "Waiting" /\ buffer # << >>
  /\ writer' = "Writing"
  /\ UNCHANGED << queue, buffer, file, torn, submitted >>

(* The end mark is taken. *)
TakeEnd ==
  /\ writer = "Waiting" /\ queue # << >> /\ Head(queue) = EndMark
  /\ queue' = Tail(queue)
  /\ writer' = IF buffer = << >> THEN "Ended" ELSE "WritingLast"
  /\ UNCHANGED << buffer, file, torn, submitted >>

(* Mutant: the buffer is kept after it was written. *)
WrittenAndKept ==
  /\ writer \in {"Writing", "WritingLast"}
  /\ file' = file \o buffer
  /\ writer' = IF writer = "Writing" THEN "Waiting" ELSE "Ended"
  /\ UNCHANGED << queue, buffer, torn, submitted >>

(* _append_lines() returns in its thread. *)
Written ==
  /\ writer \in {"Writing", "WritingLast"}
  /\ file' = file \o buffer
  /\ buffer' = << >>
  /\ writer' = IF writer = "Writing" THEN "Waiting" ELSE "Ended"
  /\ UNCHANGED << queue, torn, submitted >>

(* Its output raises OSError after some records and perhaps a part of the next. *)
AppendFails ==
  /\ writer \in {"Writing", "WritingLast"}
  /\ \E n \in 0 .. Len(buffer) :
       /\ file' = file \o SubSeq(buffer, 1, n)
       /\ torn' \in BOOLEAN /\ (torn' => n < Len(buffer))

(* The task is over with that error, unnoticed until close(). *)
WriteFails ==
  /\ AppendFails
  /\ buffer' = << >>
  /\ writer' = "Failed"
  /\ UNCHANGED << queue, submitted >>

WriterStep ==
  MakeDirectory \/ TakeRecord \/ FlushInterval \/ TakeEnd \/ Written \/ WriteFails

(* The task is cancelled; the thread of an append goes on, and is waited for. *)
CancelWriter ==
  /\ \/ /\ file' = IF writer \in {"Writing", "WritingLast"} THEN file \o buffer ELSE file
        /\ UNCHANGED torn
     \/ AppendFails
  /\ writer' = IF writer \in {"Ended", "Failed"} THEN writer ELSE "Cancelled"
  /\ buffer' = << >>
  /\ UNCHANGED << queue, submitted >>

-------------------------------------------------------------------------------
WriterTypeOK ==
  /\ queue \in Seq(Records \cup {EndMark})
  /\ buffer \in Seq(Records)
  /\ file \in Seq(Records)
  /\ torn \in BOOLEAN
  /\ writer \in WriterStates
  /\ submitted \in Seq(Records)
===============================================================================
