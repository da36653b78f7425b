------------------------------ MODULE CaptureRun ------------------------------
(***************************************************************************)
(* run_capture of src/fairvaluelab/capture/core.py: a task group with a    *)
(* capture task for each venue, whose first uncaught error cancels the     *)
(* others, and then the closing of all writers.  One venue and its writer  *)
(* are modelled in full; the other venues are one task that ends, or       *)
(* raises, and whose writer may fail to close.                             *)
(***************************************************************************)
EXTENDS Capture

VARIABLES
  others_done,  (* the other venues' tasks are over                        *)
  run           (* run_capture: "Capturing", "Closing", "Closed" or "Failed" *)

vars == << writerVars, captureVars, others_done, run >>

Init == WriterInit /\ CaptureInit /\ others_done = FALSE /\ run = "Capturing"

WriterUnchanged == UNCHANGED << buffer, file, torn, writer >>

CaptureStep == TaskStep /\ WriterUnchanged /\ UNCHANGED << others_done, run >>

Surroundings ==
  /\ TransferStep
  /\ WriterUnchanged /\ UNCHANGED << others_done, run >>

(* Time reaches the deadline. *)
Timer == Expire /\ WriterUnchanged /\ UNCHANGED << others_done, run >>

WriterTask == WriterStep /\ UNCHANGED << captureVars, others_done, run >>

(* The other venues return, or have been cancelled. *)
OthersEnd ==
  /\ ~ others_done
  /\ others_done' = TRUE
  /\ SubmitNothing /\ WriterUnchanged /\ UNCHANGED << captureVars, run >>

(* One of them raises, and the group cancels the other tasks. *)
OthersRaise ==
  /\ ~ others_done
  /\ others_done' = TRUE
  /\ CancelTask /\ WriterUnchanged /\ UNCHANGED run

(* Mutant: the writers are closed as soon as the other venues are done. *)
CloseEarly ==
  /\ run = "Capturing"
  /\ others_done
  /\ run' = "Closing"
  /\ queue' = Append(queue, EndMark)
  /\ WriterUnchanged /\ UNCHANGED << submitted, captureVars, others_done >>

(* Mutant: the writers are awaited without an end mark. *)
CloseUnmarked ==
  /\ run = "Capturing" /\ task \in Over /\ others_done
  /\ run' = "Closing"
  /\ UNCHANGED << queue, submitted >> /\ WriterUnchanged /\ UNCHANGED << captureVars, others_done >>

(* All tasks of the group are over: close() puts the end mark and waits. *)
CloseWriters ==
  /\ run = "Capturing" /\ task \in Over /\ others_done
  /\ run' = "Closing"
  /\ queue' = Append(queue, EndMark)
  /\ WriterUnchanged /\ UNCHANGED << submitted, captureVars, others_done >>

(* gather() returns when the writer has, or raises what it raised. *)
Closed ==
  /\ run = "Closing" /\ writer \in {"Ended", "Failed"}
  /\ run' = IF writer = "Ended" THEN "Closed" ELSE "Failed"
  /\ SubmitNothing /\ WriterUnchanged /\ UNCHANGED << captureVars, others_done >>

(* Another writer's close() raises first: asyncio.run() cancels what is left. *)
OtherCloseFails ==
  /\ run = "Closing"
  /\ run' = "Failed"
  /\ CancelWriter /\ UNCHANGED << captureVars, others_done >>

RunStep == CloseWriters \/ Closed

Next ==
  \/ CaptureStep \/ Surroundings \/ Timer \/ WriterTask
  \/ OthersEnd \/ OthersRaise \/ RunStep \/ OtherCloseFails

(***************************************************************************)
(* The event loop runs every task that is ready, threads return, and the   *)
(* other venues, which have the same deadline, end.  Nothing is assumed of *)
(* the venue or the network, nor that the deadline comes.                  *)
(***************************************************************************)
Fairness ==
  /\ WF_vars(CaptureStep)
  /\ WF_vars(WriterTask)
  /\ WF_vars(RunStep)
  /\ WF_vars(OthersEnd)

Spec == Init /\ [][Next]_vars /\ Fairness

-------------------------------------------------------------------------------
(* Every variable has its type. *)
TypeOK ==
  /\ WriterTypeOK
  /\ << bootstraps, max_events >> \in Settings
  /\ task \in TaskStates
  /\ expired \in BOOLEAN
  /\ attempts \in 1 .. MaxAttempts
  /\ {captured, here, live} \subseteq Nat
  /\ {heard, joined} \subseteq 0 .. Len(Stream)
  /\ buffered \in Seq(Numbers)
  /\ fetched \in BOOLEAN
  /\ received \in {"Pending", "Message", "Error"}
  /\ others_done \in BOOLEAN
  /\ run \in {"Capturing", "Closing", "Closed", "Failed"}

(* The records of the last connection, and the numbers of one kind among them. *)
LastConnection ==
  LET markers == {i \in DOMAIN submitted : submitted[i] = Reconnect}
      last == IF markers = {} THEN 0
              ELSE CHOOSE i \in markers : \A j \in markers : j <= i
  IN  SubSeq(submitted, last + 1, Len(submitted))

Positions(kind) == {i \in DOMAIN LastConnection : LastConnection[i][1] = kind}
NumbersOf(kind) == {LastConnection[i][2] : i \in Positions(kind)}

(***************************************************************************)
(* Messages are recorded in the order of the stream, each once: those      *)
(* buffered while the snapshot is fetched, once or several times, and then *)
(* the live ones; none of an earlier connection without a marker between.  *)
(***************************************************************************)
RecordsAreInOrder ==
  /\ \A i, j \in Positions("message") : i < j => LastConnection[i][2] < LastConnection[j][2]
  /\ task \notin Over => NumbersOf("message") \subseteq joined + 1 .. heard

(***************************************************************************)
(* While a connection receives, nothing it heard is missing from its       *)
(* records but depth messages that its snapshot covers.                    *)
(***************************************************************************)
ConnectionIsWhole ==
  (task = "Receiving" /\ ~ expired /\ ~ QuotaMet(captured + here)) =>
    \A m \in joined + 1 .. heard :
      m \in NumbersOf("message") \/ \E id \in NumbersOf("snapshot") : IsCovered(m, id)

(***************************************************************************)
(* A snapshot opens its connection's records, and the first depth message  *)
(* after it that was buffered continues it without a hole.  (If none was   *)
(* buffered the code submits the snapshot as it is.)                       *)
(***************************************************************************)
SnapshotIsBridged ==
  /\ Positions("snapshot") \subseteq {1}
  /\ \A id \in NumbersOf("snapshot") :
       \A i \in Positions("message") :
         (/\ Len(submitted) - Len(LastConnection) + i <= live
          /\ IsAfter(LastConnection[i][2], id)
          /\ \A j \in Positions("message") : j < i => ~ IsAfter(LastConnection[j][2], id))
         => id + 1 \in Stream[LastConnection[i][2]]

(***************************************************************************)
(* No more events are captured than max_events, over all connections and   *)
(* whatever ends them; markers are no events.                              *)
(***************************************************************************)
QuotaIsKept ==
  max_events # None =>
    Cardinality({i \in DOMAIN submitted : submitted[i] # Reconnect}) <= max_events

(***************************************************************************)
(* When the run has closed its writers every record is in the file, in     *)
(* order and once and whole, whichever task raised or was cancelled and    *)
(* whatever the writer was doing then.                                     *)
(***************************************************************************)
EverythingIsWritten == run = "Closed" => file = submitted /\ ~ torn

-------------------------------------------------------------------------------
Log == INSTANCE AppendLog

(***************************************************************************)
(* At every moment, also after an append or a close that failed, the file  *)
(* is a first part of what was submitted, and it only grows; a failed      *)
(* append may leave a part of a record at its end, and then nothing is     *)
(* ever appended to that.                                                  *)
(***************************************************************************)
ImplementsAppendLog == Log!Spec

(***************************************************************************)
(* Once the deadline has passed the run ends: no connection, snapshot,     *)
(* retry, sleep or flush keeps it, and close() does not wait for good.     *)
(***************************************************************************)
RunEnds == expired ~> (run \in {"Closed", "Failed"})

(***************************************************************************)
(* A record does not wait for the deadline, nor for a next record: it gets *)
(* into the file unless the writer fails.                                  *)
(***************************************************************************)
RecordsReachTheFile ==
  \A n \in 1 .. 3 :
    Len(submitted) >= n ~> (Len(file) >= n \/ writer \in {"Failed", "Cancelled"})
===============================================================================
