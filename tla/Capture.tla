-------------------------------- MODULE Capture -------------------------------
(***************************************************************************)
(* capture_subscription of src/fairvaluelab/capture/core.py for one venue: *)
(* connect, fetch a snapshot while messages are buffered (Binance), take   *)
(* messages until the deadline or the maximum of events, reconnect.        *)
(*                                                                         *)
(* The venue's stream is a list of messages; a message is the interval of  *)
(* book updates it carries, [U, u], empty if it is no depth message.  A    *)
(* connection receives the messages published after it was opened; some    *)
(* are missed while there is none.  The event loop, the thread of the      *)
(* snapshot and the network take their steps in any order.                 *)
(***************************************************************************)
EXTENDS NdjsonWriter, FiniteSets, FiniteSetsExt

CONSTANTS
  None,         (* The value of max_events when there is no maximum.       *)
  Unavailable,  (* The outcome of a snapshot request that fails, and of    *)
  Fatal,        (* one whose error is caught nowhere.                      *)
  Stream,       (* The venue's messages.                                   *)
  Settings,     (* Pairs of whether the venue needs a snapshot (Binance)   *)
                (* and a value of max_events.                              *)
  MaxAttempts   (* The most connections tried, a bound for TLC.            *)

Numbers == DOMAIN Stream
UpdateIds == 0 .. Max({0} \cup UNION {Stream[m] : m \in Numbers})

ASSUME StreamAssumption == Stream \in Seq(SUBSET (Nat \ {0}))
ASSUME OutcomesAssumption == {None, Unavailable, Fatal} \cap Nat = {}
ASSUME SettingsAssumption == Settings \subseteq BOOLEAN \X ((Nat \ {0}) \cup {None})
ASSUME MaxAttemptsAssumption == MaxAttempts \in Nat \ {0}

(* What frame_record() makes, as the kind and the number that matter. *)
Message(m) == << "message", m >>
Snapshot(id) == << "snapshot", id >>
Reconnect == << "reconnect", 0 >>

CaptureRecords ==
  {Message(m) : m \in Numbers} \cup {Snapshot(id) : id \in UpdateIds} \cup {Reconnect}

ASSUME CaptureRecordsAssumption == CaptureRecords \subseteq Records

VARIABLES
  bootstraps,  (* subscription.snapshot_uri is not None                    *)
  max_events,  (* the maximum of events, or None                           *)
  task,        (* where the task is                                        *)
  expired,     (* loop.time() has reached the deadline                     *)
  attempts,    (* connections tried, for the bound                         *)
  captured,    (* events of the connections before this one                *)
  here,        (* events of this connection                                *)
  buffered,    (* messages received while the snapshot is fetched          *)
  fetched,     (* the snapshot task is done                                *)
  received,    (* the receive task: "Pending", or done with what it has    *)
  heard,       (* the last message received or missed                      *)
  joined,      (* history: the last message missed before it was opened    *)
  live         (* history: records submitted when its bootstrap was over   *)

captureVars == << bootstraps, max_events, task, expired, attempts, captured, here, buffered,
                  fetched, received, heard, joined, live >>
connectionVars == << here, buffered, fetched, received, heard, joined, live >>
settings == << bootstraps, max_events >>

(***************************************************************************)
(* "Unwinding" awaits the receive task it has cancelled.  "Ended" has      *)
(* returned, "Raised" raised what the loop does not catch.                 *)
(***************************************************************************)
Over == {"Ended", "Raised", "Cancelled"}
TaskStates == {"Connecting", "Sleeping", "Bootstrapping", "Unwinding", "Receiving"} \cup Over

QuotaMet(events) == max_events # None /\ events >= max_events

CaptureInit ==
  /\ \E setting \in Settings : bootstraps = setting[1] /\ max_events = setting[2]
  /\ task = "Connecting"
  /\ expired = FALSE
  /\ attempts = 1
  /\ captured = 0 /\ here = 0
  /\ buffered = << >> /\ fetched = FALSE /\ received = "Pending"
  /\ heard = 0 /\ joined = 0 /\ live = 0

-------------------------------------------------------------------------------
(* What belongs to the connection goes with it. *)
Leave ==
  /\ here' = 0 /\ buffered' = << >> /\ fetched' = FALSE /\ received' = "Pending"
  /\ joined' = heard /\ live' = 0
  /\ UNCHANGED heard

(* Mutant: no marker separates two connections. *)
TryAgainUnmarked(events) ==
  /\ Leave
  /\ captured' = events
  /\ IF expired \/ QuotaMet(events)
     THEN task' = "Ended" /\ UNCHANGED attempts /\ SubmitNothing
     ELSE /\ attempts < MaxAttempts
          /\ attempts' = attempts + 1
          /\ task' = "Sleeping"
          /\ SubmitNothing

(* The loop of capture_subscription() after a connection, with its marker. *)
TryAgain(events) ==
  /\ Leave
  /\ captured' = events
  /\ IF expired \/ QuotaMet(events)
     THEN task' = "Ended" /\ UNCHANGED attempts /\ SubmitNothing
     ELSE /\ attempts < MaxAttempts
          /\ attempts' = attempts + 1
          /\ task' = "Sleeping"
          /\ Submit(<< Reconnect >>)

(* _capture_connected() returns. *)
ConnectionReturns ==
  IF max_events = None
  THEN /\ task' = "Ended"
       /\ captured' = captured + here
       /\ Leave /\ UNCHANGED attempts /\ SubmitNothing
  ELSE TryAgain(captured + here)

(* An error that is caught nowhere. *)
Raise == task' = "Raised" /\ Leave /\ UNCHANGED << attempts, captured >> /\ SubmitNothing

(* asyncio.sleep() returns, at the deadline at the latest. *)
Wake ==
  /\ task = "Sleeping"
  /\ task' = "Connecting"
  /\ SubmitNothing
  /\ UNCHANGED << settings, expired, attempts, captured, connectionVars >>

(* The connection is open and the subscriptions are sent. *)
Connect ==
  /\ task = "Connecting"
  /\ task' = IF bootstraps /\ ~ expired THEN "Bootstrapping" ELSE "Receiving"
  /\ here' = 0 /\ buffered' = << >> /\ fetched' = FALSE /\ received' = "Pending"
  /\ heard' \in heard .. Len(Stream) /\ joined' = heard' /\ live' = Len(submitted)
  /\ SubmitNothing
  /\ UNCHANGED << settings, expired, attempts, captured >>

(* The connection fails, or is lost before the subscriptions are sent. *)
ConnectFails ==
  /\ task = "Connecting"
  /\ TryAgain(captured)
  /\ UNCHANGED << settings, expired >>

-------------------------------------------------------------------------------
(* The snapshot's thread returns. *)
FetchSnapshot ==
  /\ task = "Bootstrapping" /\ ~ fetched
  /\ fetched' = TRUE
  /\ SubmitNothing
  /\ UNCHANGED << settings, task, expired, attempts, captured, here, buffered, received,
                  heard, joined, live >>

(* The receive task finishes: with the next message, or with an error. *)
ReceiveForBuffer ==
  /\ task = "Bootstrapping" /\ received = "Pending"
  /\ \/ /\ heard < Len(Stream)
        /\ heard' = heard + 1
        /\ received' = "Message"
     \/ received' = "Error" /\ UNCHANGED heard
  /\ SubmitNothing
  /\ UNCHANGED << settings, task, expired, attempts, captured, here, buffered, fetched,
                  joined, live >>

(* Mutant: when both tasks are done the message is not looked at. *)
TakeDoneSnapshotFirst ==
  /\ task = "Bootstrapping"
  /\ fetched \/ received # "Pending" \/ expired
  /\ UNCHANGED << settings, expired >>
  /\ \/ received = "Error" /\ (TryAgain(captured) \/ Raise)
     \/ /\ received # "Error"
        /\ buffered' = IF received = "Message" /\ ~ fetched THEN Append(buffered, heard)
                       ELSE buffered
        /\ received' = "Pending"
        /\ task' = IF fetched \/ expired THEN "Unwinding" ELSE task
        /\ SubmitNothing
        /\ UNCHANGED << attempts, captured, here, fetched, heard, joined, live >>

(***************************************************************************)
(* asyncio.wait() returns with the tasks that are done, or the deadline    *)
(* has passed.  A message is buffered before the snapshot is looked at; an *)
(* error of the receive task comes first and leaves the bootstrap.         *)
(***************************************************************************)
TakeDone ==
  /\ task = "Bootstrapping"
  /\ fetched \/ received # "Pending" \/ expired
  /\ UNCHANGED << settings, expired >>
  /\ \/ received = "Error" /\ (TryAgain(captured) \/ Raise)
     \/ /\ received # "Error"
        /\ buffered' = IF received = "Message" THEN Append(buffered, heard) ELSE buffered
        /\ received' = "Pending"
        /\ task' = IF fetched \/ expired THEN "Unwinding" ELSE task
        /\ SubmitNothing
        /\ UNCHANGED << attempts, captured, here, fetched, heard, joined, live >>

(* depth_range[1] > snapshot_id, and its opposite for a depth message. *)
IsAfter(m, id) == \E n \in Stream[m] : n > id
IsCovered(m, id) == Stream[m] # {} /\ ~ IsAfter(m, id)

(* The buffered messages after the snapshot that have none such before them: the first, if any. *)
FirstAfter(messages, id) ==
  {messages[k] : k \in {i \in DOMAIN messages : /\ IsAfter(messages[i], id)
                                               /\ \A j \in 1 .. i - 1 : ~ IsAfter(messages[j], id)}}

(* Mutant: the snapshot may leave a hole before the first message. *)
BridgesWithHole(messages, id) ==
  \A m \in FirstAfter(messages, id) : \E n \in Stream[m] : n >= id + 1

(* The first buffered depth message after the snapshot, if any, covers the next update. *)
Bridges(messages, id) == \A m \in FirstAfter(messages, id) : id + 1 \in Stream[m]

(* The messages that a snapshot does not cover. *)
Uncovered(messages, id) ==
  LET kept[n \in 0 .. Len(messages)] ==
        IF n = 0 THEN << >>
        ELSE IF IsCovered(messages[n], id) THEN kept[n - 1] ELSE Append(kept[n - 1], messages[n])
  IN  kept[Len(messages)]

(* The snapshot and the buffered messages that it does not cover, up to the maximum. *)
BootstrapRecords(id, left) ==
  LET kept == Uncovered(buffered, id)
      count == IF left = None \/ Len(kept) < left THEN Len(kept) ELSE left - 1
  IN  << Snapshot(id) >> \o [i \in 1 .. count |-> Message(kept[i])]

Left == IF max_events = None THEN None ELSE max_events - captured

(* What a request may return: the venue may be ahead of its stream, or behind. *)
SnapshotOutcomes ==
  IF ~ fetched THEN {None} ELSE {Unavailable, Fatal} \cup UpdateIds

(* The snapshot and the messages buffered are submitted, and reception begins. *)
SubmitBootstrap(id) ==
  LET records == BootstrapRecords(id, Left)
  IN  /\ Submit(records)
      /\ here' = Len(records)
      /\ live' = Len(submitted) + Len(records)
      /\ task' = "Receiving"
      /\ buffered' = << >> /\ fetched' = FALSE
      /\ UNCHANGED << attempts, captured, received, heard, joined >>

(* The snapshot is fetched once more, unless the deadline has passed. *)
FetchAgain ==
  /\ task' = IF expired THEN "Receiving" ELSE "Bootstrapping"
  /\ buffered' = IF expired THEN << >> ELSE buffered
  /\ fetched' = FALSE
  /\ SubmitNothing
  /\ UNCHANGED << attempts, captured, here, received, heard, joined, live >>

(***************************************************************************)
(* The cancelled receive task is gone.  Without a snapshot the connection  *)
(* is given up, or it ends at the deadline; one that does not bridge to    *)
(* the buffered messages is fetched again; otherwise it is submitted with  *)
(* them.                                                                   *)
(***************************************************************************)
FinishRound ==
  /\ task = "Unwinding"
  /\ UNCHANGED << settings, expired >>
  /\ \E snapshot \in SnapshotOutcomes :
       \/ snapshot = Unavailable /\ TryAgain(captured)
       \/ snapshot = Fatal /\ Raise
       \/ snapshot \in UpdateIds /\ Bridges(buffered, snapshot) /\ SubmitBootstrap(snapshot)
       \/ snapshot \in UpdateIds /\ ~ Bridges(buffered, snapshot) /\ FetchAgain
       \/ snapshot = None /\ FetchAgain

-------------------------------------------------------------------------------
(* The receiving loop takes a message. *)
TakeMessage ==
  /\ task = "Receiving" /\ ~ expired /\ ~ QuotaMet(captured + here)
  /\ heard < Len(Stream)
  /\ heard' = heard + 1
  /\ here' = here + 1
  /\ Submit(<< Message(heard + 1) >>)
  /\ UNCHANGED << settings, task, expired, attempts, captured, buffered, fetched, received,
                  joined, live >>

(* It returns at the maximum or at the deadline. *)
StopReceiving ==
  /\ task = "Receiving" /\ (expired \/ QuotaMet(captured + here))
  /\ ConnectionReturns
  /\ UNCHANGED << settings, expired >>

(* Mutant: the events of a connection that is lost are not counted. *)
LoseConnectionUncounted ==
  /\ task = "Receiving" /\ ~ expired /\ ~ QuotaMet(captured + here)
  /\ TryAgain(captured)
  /\ UNCHANGED << settings, expired >>

(* The connection is lost: with a maximum its events are counted first. *)
LoseConnection ==
  /\ task = "Receiving" /\ ~ expired /\ ~ QuotaMet(captured + here)
  /\ TryAgain(IF max_events = None THEN captured ELSE captured + here)
  /\ UNCHANGED << settings, expired >>

(* Connecting or receiving raises what nothing catches. *)
RaiseFatal ==
  /\ task \in {"Connecting", "Receiving"}
  /\ Raise
  /\ UNCHANGED << settings, expired >>

(* The steps of the task itself, and those of what surrounds it. *)
TaskStep ==
  \/ Wake \/ Connect \/ ConnectFails \/ TakeDone \/ FinishRound
  \/ TakeMessage \/ StopReceiving \/ LoseConnection \/ RaiseFatal

TransferStep == FetchSnapshot \/ ReceiveForBuffer

(* Time reaches the deadline. *)
Expire ==
  /\ ~ expired
  /\ expired' = TRUE
  /\ SubmitNothing
  /\ UNCHANGED << settings, task, attempts, captured, connectionVars >>

(***************************************************************************)
(* The task group cancels the task.  Awaiting its own cancelled receive    *)
(* task, it does not notice; and the error of one that has failed already, *)
(* which it then comes to await, takes the place of the cancellation.      *)
(***************************************************************************)
CancelTask ==
  /\ UNCHANGED << settings, expired >>
  /\ \/ /\ task \in Over \cup {"Unwinding"}
        /\ SubmitNothing
        /\ UNCHANGED << task, attempts, captured, connectionVars >>
     \/ /\ task = "Bootstrapping" /\ received = "Error"
        /\ TryAgain(captured) \/ Raise
     \/ /\ task \in {"Connecting", "Sleeping", "Bootstrapping", "Receiving"}
        /\ ~ (task = "Bootstrapping" /\ received = "Error")
        /\ task' = "Cancelled"
        /\ Leave /\ SubmitNothing
        /\ UNCHANGED << attempts, captured >>
===============================================================================
