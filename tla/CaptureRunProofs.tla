--------------------------- MODULE CaptureRunProofs ---------------------------
(***************************************************************************)
(* Proofs about CaptureRun, for streams, venues and maxima of any size.    *)
(*                                                                         *)
(* The records: when the run has closed its writers the file has all that  *)
(* was submitted, and at every moment it has a first part of that, which   *)
(* is what AppendLog promises.  The invariant says where every record      *)
(* submitted is: in the file, in the writer's buffer or in its queue, in   *)
(* this order, with the end mark at the very end and not before the tasks  *)
(* are over.                                                               *)
(*                                                                         *)
(* The counts and the connections: the variables keep their types, no more *)
(* events are captured than the maximum allows, and the records of a       *)
(* connection are in the order of the stream, whole, and bridged to their  *)
(* snapshot.  One invariant counts: what was submitted, markers aside, is  *)
(* what the task has counted over its connections, and before a connection *)
(* receives there is room for one more event, which the snapshot takes.    *)
(* The other says what waits in the buffer while the snapshot is fetched,  *)
(* and what the records after the last marker are once it is submitted.    *)
(***************************************************************************)
EXTENDS CaptureRun, DataInduction, SequenceTheorems, FiniteSetTheorems

(* Lists taken apart and put together. *)
LEMMA HeadMoves ==
  ASSUME NEW S, NEW b \in Seq(S), NEW s \in Seq(S), s # << >>
  PROVE  /\ Head(s) \in S /\ Tail(s) \in Seq(S)
         /\ Append(b, Head(s)) \in Seq(S)
         /\ Append(b, Head(s)) \o Tail(s) = b \o s
<1>1. Head(s) \in S /\ Tail(s) \in Seq(S) /\ Append(b, Head(s)) = b \o << Head(s) >>
  BY HeadTailProperties, AppendIsConcat
<1>2. << Head(s) >> \in Seq(S)
  BY <1>1
<1>3. << Head(s) >> \o Tail(s) = s
  OBVIOUS
<1>4. (b \o << Head(s) >>) \o Tail(s) = b \o (<< Head(s) >> \o Tail(s))
  BY <1>1, <1>2, ConcatAssociative
<1> QED BY <1>1, <1>3, <1>4, AppendProperties

LEMMA HeadOfConcat ==
  ASSUME NEW S, NEW s \in Seq(S), NEW t \in Seq(S), s # << >>
  PROVE  Head(s \o t) = Head(s) /\ Tail(s \o t) = Tail(s) \o t
<1>1. s \o t \in Seq(S) /\ Len(s) # 0
  BY ConcatProperties, EmptySeq
<1>2. Head(s \o t) = Head(s)
  OBVIOUS
<1>3. Tail(s \o t) = Tail(s) \o t
  <2>1. Tail(s) \in Seq(S) /\ Len(Tail(s)) = Len(s) - 1
        /\ \A i \in 1 .. Len(Tail(s)) : Tail(s)[i] = s[i + 1]
    BY HeadTailProperties
  <2>2. s \o t # << >> /\ Len(s \o t) = Len(s) + Len(t)
    BY <1>1, ConcatProperties, EmptySeq
  <2>3. Tail(s \o t) \in Seq(S) /\ Len(Tail(s \o t)) = Len(s) + Len(t) - 1
        /\ \A i \in 1 .. Len(Tail(s \o t)) : Tail(s \o t)[i] = (s \o t)[i + 1]
    BY <1>1, <2>2, HeadTailProperties
  <2>4. Tail(s) \o t \in Seq(S) /\ Len(Tail(s) \o t) = Len(s) - 1 + Len(t)
    BY <2>1, ConcatProperties
  <2>5. ASSUME NEW i \in 1 .. Len(s) - 1 + Len(t)
        PROVE  (s \o t)[i + 1] = (Tail(s) \o t)[i]
    BY <2>1
  <2>6. Len(Tail(s \o t)) = Len(Tail(s) \o t)
    BY <2>3, <2>4
  <2> QED BY <2>3, <2>4, <2>5, <2>6, SeqEqual
<1> QED BY <1>2, <1>3

(* A list is the first n of its elements and the rest. *)
LEMMA SplitAt ==
  ASSUME NEW S, NEW s \in Seq(S), NEW n \in 0 .. Len(s)
  PROVE  /\ SubSeq(s, 1, n) \in Seq(S) /\ SubSeq(s, n + 1, Len(s)) \in Seq(S)
         /\ SubSeq(s, 1, n) \o SubSeq(s, n + 1, Len(s)) = s
<1>1. Len(s) \in Nat /\ \A i \in 1 .. Len(s) : s[i] \in S
  OBVIOUS
<1>2. SubSeq(s, 1, n) \in Seq(S) /\ SubSeq(s, n + 1, Len(s)) \in Seq(S)
  BY <1>1, SubSeqProperties
<1>3. SubSeq(s, 1, n) \o SubSeq(s, n + 1, Len(s)) = SubSeq(s, 1, Len(s))
  <2>1. 1 \in 1 .. Len(s) + 1 /\ n \in 1 - 1 .. Len(s) /\ Len(s) \in n .. Len(s)
    BY <1>1
  <2> QED BY <2>1, ConcatAdjacentSubSeq
<1> QED BY <1>2, <1>3, SubSeqFull

(* What follows a list leaves it the beginning. *)
LEMMA BeginsWith ==
  ASSUME NEW S, NEW a \in Seq(S), NEW b \in Seq(S)
  PROVE  /\ Len(a) \in Nat /\ Len(b) \in Nat /\ Len(a \o b) = Len(a) + Len(b)
         /\ SubSeq(a \o b, 1, Len(a)) = a
<1>1. Len(a) \in Nat /\ Len(b) \in Nat /\ Len(a \o b) = Len(a) + Len(b) /\ a \o b \in Seq(S)
  BY ConcatProperties, LenProperties
<1>2. \A i \in 1 .. Len(a) : (a \o b)[i] = a[i]
  OBVIOUS
<1>3. SubSeq(a \o b, 1, Len(a)) \in Seq(S) /\ Len(SubSeq(a \o b, 1, Len(a))) = Len(a)
      /\ \A i \in 1 .. Len(a) : SubSeq(a \o b, 1, Len(a))[i] = (a \o b)[i]
  BY <1>1
<1> QED BY <1>1, <1>2, <1>3, SeqEqual

-------------------------------------------------------------------------------
(* What the capture task keeps: numbers of events and of messages. *)
CaptureTypes ==
  /\ max_events \in Nat \cup {None}
  /\ captured \in Nat /\ here \in Nat
  /\ heard \in 0 .. Len(Stream)
  /\ received = "Message" => heard \in Numbers
  /\ buffered \in Seq(Numbers)

LEMMA StreamNumbers == Len(Stream) \in Nat /\ Numbers = 1 .. Len(Stream)
  BY StreamAssumption DEF Numbers

LEMMA RecordsOfCapture ==
  /\ Reconnect \in Records
  /\ \A m \in Numbers : Message(m) \in Records
  /\ \A id \in UpdateIds : Snapshot(id) \in Records
  BY CaptureRecordsAssumption DEF CaptureRecords

(* What the loop over the buffered messages keeps, a message at a time. *)
IsKept(kept, messages, id) ==
  /\ kept[0] = << >>
  /\ \A n \in 1 .. Len(messages) :
       kept[n] = IF IsCovered(messages[n], id) THEN kept[n - 1] ELSE Append(kept[n - 1], messages[n])

LEMMA UncoveredIsKept ==
  ASSUME NEW messages \in Seq(Numbers), NEW id
  PROVE  \E kept : IsKept(kept, messages, id) /\ Uncovered(messages, id) = kept[Len(messages)]
<1> DEFINE A == Seq(Numbers)
           step == [x \in A \X Numbers |-> IF IsCovered(x[2], id) THEN x[1] ELSE Append(x[1], x[2])]
           Def(f) == [n \in 0 .. Len(messages) |->
                        IF n = 0 THEN << >>
                        ELSE IF IsCovered(messages[n], id) THEN f[n - 1]
                        ELSE Append(f[n - 1], messages[n])]
           kept == CHOOSE f : f = Def(f)
<1>1. step \in [A \X Numbers -> A] /\ << >> \in A
  OBVIOUS
<1>2. \A s \in A, m \in Numbers :
        step[<< s, m >>] = IF IsCovered(m, id) THEN s ELSE Append(s, m)
  OBVIOUS
<1>3. Len(messages) \in Nat /\ \A n \in 1 .. Len(messages) : messages[n] \in Numbers
  OBVIOUS
<1> HIDE DEF step
<1>4. PICK g : IsFold(g, A, step, << >>, messages)
  BY <1>1, FoldExists
<1>5. /\ g \in [0 .. Len(messages) -> A]
      /\ g[0] = << >>
      /\ \A n \in 1 .. Len(messages) : g[n] = step[<< g[n - 1], messages[n] >>]
  BY <1>4 DEF IsFold
<1>6. g = Def(g)
  <2>1. \A n \in 0 .. Len(messages) : n # 0 =>
          g[n] = IF IsCovered(messages[n], id) THEN g[n - 1] ELSE Append(g[n - 1], messages[n])
    <3> SUFFICES ASSUME NEW n \in 1 .. Len(messages)
                 PROVE  g[n] = IF IsCovered(messages[n], id) THEN g[n - 1]
                               ELSE Append(g[n - 1], messages[n])
      BY <1>3
    <3> HIDE DEF A
    <3>1. g[n - 1] \in A /\ messages[n] \in Numbers
      BY <1>3, <1>5
    <3> QED BY <3>1, <1>2, <1>5
  <2> HIDE DEF A
  <2> QED BY <2>1, <1>5
<1>7. kept = Def(kept)
  <2> HIDE DEF Def
  <2> QED BY <1>6
<1>8. Uncovered(messages, id) = kept[Len(messages)]
  BY DEF Uncovered
<1> HIDE DEF kept
<1>9. kept[0] = << >>
  BY <1>3, <1>7
<1>10. ASSUME NEW n \in 1 .. Len(messages)
       PROVE  kept[n] = IF IsCovered(messages[n], id) THEN kept[n - 1]
                        ELSE Append(kept[n - 1], messages[n])
  <2>1. n \in 0 .. Len(messages) /\ n # 0
    BY <1>3
  <2>2. kept[n] = Def(kept)[n]
    <3> HIDE DEF Def
    <3> QED BY <1>7
  <2> QED BY <2>1, <2>2
<1> QED BY <1>8, <1>9, <1>10 DEF IsKept

(* The messages a snapshot leaves are messages. *)
LEMMA UncoveredMessages ==
  ASSUME NEW messages \in Seq(Numbers), NEW id
  PROVE  Uncovered(messages, id) \in Seq(Numbers)
<1>1. Len(messages) \in Nat /\ \A n \in 1 .. Len(messages) : messages[n] \in Numbers
  OBVIOUS
<1>2. PICK kept : IsKept(kept, messages, id) /\ Uncovered(messages, id) = kept[Len(messages)]
  BY UncoveredIsKept
<1> DEFINE T == {n \in Nat : n <= Len(messages) => kept[n] \in Seq(Numbers)}
<1>3. T \in SUBSET Nat /\ 0 \in T
  <2>1. kept[0] = << >>
    BY <1>2 DEF IsKept
  <2>2. kept[0] \in Seq(Numbers)
    BY <2>1
  <2> QED BY <2>2
<1>4. ASSUME NEW n \in T
      PROVE  n + 1 \in T
  <2> SUFFICES ASSUME n + 1 <= Len(messages)
               PROVE  kept[n + 1] \in Seq(Numbers)
    OBVIOUS
  <2>1. n \in Nat /\ n + 1 \in 1 .. Len(messages) /\ (n + 1) - 1 = n /\ n <= Len(messages)
    BY <1>1
  <2>2. kept[n] \in Seq(Numbers) /\ messages[n + 1] \in Numbers
    BY <1>1, <2>1
  <2>3. kept[n + 1] = IF IsCovered(messages[n + 1], id) THEN kept[n]
                      ELSE Append(kept[n], messages[n + 1])
    BY <1>2, <2>1 DEF IsKept
  <2> QED BY <2>2, <2>3
<1>5. T = Nat
  <2> HIDE DEF T
  <2> QED BY <1>3, <1>4, NaturalsBySuccessor
<1> QED BY <1>1, <1>2, <1>5

(* What a bootstrap submits are records, whatever the maximum has left. *)
LEMMA BootstrapSubmits ==
  ASSUME CaptureTypes, NEW id \in UpdateIds
  PROVE  BootstrapRecords(id, Left) \in Seq(Records)
<1> DEFINE kept == Uncovered(buffered, id)
           count == IF Left = None \/ Len(kept) < Left THEN Len(kept) ELSE Left - 1
           following == [i \in 1 .. count |-> Message(kept[i])]
<1>1. kept \in Seq(Numbers)
  BY UncoveredMessages DEF CaptureTypes
<1>2. Left \in Int \cup {None}
  BY DEF Left, CaptureTypes
<1> HIDE DEF kept
<1>3. Len(kept) \in Nat /\ \A i \in 1 .. Len(kept) : kept[i] \in Numbers
  BY <1>1
<1>4. count \in Int /\ count <= Len(kept)
  BY <1>2, <1>3
<1> HIDE DEF count
<1>5. following \in Seq(Records)
  <2>1. \A i \in 1 .. count : Message(kept[i]) \in Records
    BY <1>3, <1>4, RecordsOfCapture
  <2>2. CASE count >= 0
    <3>1. count \in Nat
      BY <1>4, <2>2
    <3>2. following \in [1 .. count -> Records]
      BY <2>1
    <3> HIDE DEF following
    <3> QED BY <3>1, <3>2
  <2>3. CASE count < 0
    <3>1. 1 .. count = {}
      BY <1>4, <2>3
    <3>2. 1 .. count = 1 .. 0 /\ 0 \in Nat
      BY <3>1
    <3>3. following \in [1 .. 0 -> Records]
      BY <3>1, <3>2
    <3> HIDE DEF following
    <3> QED BY <3>2, <3>3
  <2> QED BY <1>4, <2>2, <2>3
<1>6. << Snapshot(id) >> \in Seq(Records)
  BY RecordsOfCapture
<1>7. BootstrapRecords(id, Left) = << Snapshot(id) >> \o following
  BY DEF BootstrapRecords, kept, count
<1> HIDE DEF following
<1> QED BY <1>5, <1>6, <1>7, ConcatProperties

-------------------------------------------------------------------------------
(* A step submits some records, perhaps none. *)
Submits == \E records \in Seq(Records) : Submit(records)

Logs == queue \in Seq(Records \cup {EndMark}) /\ submitted \in Seq(Records)

LEMMA NothingSubmitted == Logs /\ SubmitNothing => Submits
<1> SUFFICES ASSUME Logs, SubmitNothing
             PROVE  Submits
  OBVIOUS
<1>1. queue' = queue \o << >> /\ submitted' = submitted \o << >>
  BY ConcatEmptySeq DEF Logs, SubmitNothing
<1>2. << >> \in Seq(Records)
  OBVIOUS
<1> QED BY <1>1, <1>2 DEF Submits, Submit

(* The two ways in which a connection ends. *)
LEMMA AfterConnection ==
  ASSUME Logs, CaptureTypes, UNCHANGED settings, NEW events \in Nat, TryAgain(events)
  PROVE  Submits /\ CaptureTypes'
<1>1. Submits
  <2>1. CASE SubmitNothing
    BY <2>1, NothingSubmitted
  <2>2. CASE Submit(<< Reconnect >>)
    <3>1. << Reconnect >> \in Seq(Records)
      BY RecordsOfCapture
    <3> QED BY <2>2, <3>1 DEF Submits
  <2> QED BY <2>1, <2>2 DEF TryAgain
<1>2. /\ captured' = events /\ here' = 0 /\ buffered' = << >> /\ received' = "Pending"
      /\ heard' = heard /\ max_events' = max_events
  BY DEF TryAgain, Leave, settings
<1> QED BY <1>1, <1>2 DEF CaptureTypes

LEMMA AfterError ==
  ASSUME Logs, CaptureTypes, UNCHANGED settings, Raise
  PROVE  Submits /\ CaptureTypes'
<1>1. Submits
  BY NothingSubmitted DEF Raise
<1>2. /\ captured' = captured /\ here' = 0 /\ buffered' = << >> /\ received' = "Pending"
      /\ heard' = heard /\ max_events' = max_events
  BY DEF Raise, Leave, settings
<1> QED BY <1>1, <1>2 DEF CaptureTypes

(* The bootstrap's steps. *)
LEMMA BootstrapSteps ==
  ASSUME Logs, CaptureTypes, FetchSnapshot \/ ReceiveForBuffer \/ TakeDone \/ FinishRound
  PROVE  Submits /\ CaptureTypes'
<1>1. CASE FetchSnapshot
  <2>1. SubmitNothing
        /\ UNCHANGED << max_events, captured, here, buffered, received, heard >>
    BY <1>1 DEF FetchSnapshot, settings
  <2> QED BY <2>1, NothingSubmitted DEF CaptureTypes
<1>2. CASE ReceiveForBuffer
  <2>1. SubmitNothing /\ UNCHANGED << max_events, captured, here, buffered >>
    BY <1>2 DEF ReceiveForBuffer, settings
  <2>2. \/ heard < Len(Stream) /\ heard' = heard + 1 /\ received' = "Message"
        \/ received' = "Error" /\ heard' = heard
    BY <1>2 DEF ReceiveForBuffer
  <2>3. heard' \in 0 .. Len(Stream) /\ (received' = "Message" => heard' \in Numbers)
    BY <2>2, StreamNumbers DEF CaptureTypes
  <2> QED BY <2>1, <2>3, NothingSubmitted DEF CaptureTypes
<1>3. CASE TakeDone
  <2>1. captured \in Nat /\ UNCHANGED settings
    BY <1>3 DEF TakeDone, CaptureTypes
  <2>2. CASE TryAgain(captured) \/ Raise
    BY <2>1, <2>2, AfterConnection, AfterError
  <2>3. CASE ~ (TryAgain(captured) \/ Raise)
    <3>1. /\ buffered' = IF received = "Message" THEN Append(buffered, heard) ELSE buffered
          /\ received' = "Pending"
          /\ SubmitNothing
          /\ UNCHANGED << max_events, captured, here, heard >>
      BY <1>3, <2>3 DEF TakeDone, settings
    <3>2. buffered' \in Seq(Numbers)
      BY <3>1 DEF CaptureTypes
    <3> QED BY <3>1, <3>2, NothingSubmitted DEF CaptureTypes
  <2> QED BY <2>2, <2>3
<1>4. CASE FinishRound
  <2>1. captured \in Nat /\ UNCHANGED settings
    BY <1>4 DEF FinishRound, CaptureTypes
  <2>2. CASE TryAgain(captured) \/ Raise
    BY <2>1, <2>2, AfterConnection, AfterError
  <2>3. CASE FetchAgain
    <3>1. /\ buffered' \in {<< >>, buffered}
          /\ SubmitNothing
          /\ UNCHANGED << max_events, captured, here, received, heard >>
      BY <2>1, <2>3 DEF FetchAgain, settings
    <3>2. << >> \in Seq(Numbers) /\ buffered \in Seq(Numbers)
      BY DEF CaptureTypes
    <3>3. buffered' \in Seq(Numbers)
      BY <3>1, <3>2
    <3> QED BY <3>1, <3>3, NothingSubmitted DEF CaptureTypes
  <2>4. ASSUME NEW id \in UpdateIds, SubmitBootstrap(id)
        PROVE  Submits /\ CaptureTypes'
    <3> DEFINE records == BootstrapRecords(id, Left)
    <3>1. records \in Seq(Records)
      BY BootstrapSubmits
    <3>2. /\ Submit(records) /\ here' = Len(records) /\ buffered' = << >>
          /\ UNCHANGED << max_events, captured, received, heard >>
      BY <2>1, <2>4 DEF SubmitBootstrap, settings
    <3> HIDE DEF records
    <3>3. Len(records) \in Nat
      BY <3>1
    <3> QED BY <3>1, <3>2, <3>3 DEF Submits, CaptureTypes
  <2> QED BY <1>4, <2>2, <2>3, <2>4 DEF FinishRound
<1> QED BY <1>1, <1>2, <1>3, <1>4

(* The other steps of the task. *)
LEMMA ConnectionSteps ==
  ASSUME Logs, CaptureTypes,
         \/ Wake \/ Connect \/ ConnectFails
         \/ TakeMessage \/ StopReceiving \/ LoseConnection \/ RaiseFatal
  PROVE  Submits /\ CaptureTypes'
<1>1. captured \in Nat /\ captured + here \in Nat
  BY DEF CaptureTypes
<1>2. CASE Wake
  <2>1. SubmitNothing
        /\ UNCHANGED << max_events, captured, here, buffered, received, heard >>
    BY <1>2 DEF Wake, settings, connectionVars
  <2> QED BY <2>1, NothingSubmitted DEF CaptureTypes
<1>3. CASE Connect
  <2>1. /\ SubmitNothing /\ here' = 0 /\ buffered' = << >> /\ received' = "Pending"
        /\ heard' \in heard .. Len(Stream)
        /\ UNCHANGED << max_events, captured >>
    BY <1>3 DEF Connect, settings
  <2>2. heard' \in 0 .. Len(Stream)
    BY <2>1, StreamNumbers DEF CaptureTypes
  <2> QED BY <2>1, <2>2, NothingSubmitted DEF CaptureTypes
<1>4. CASE ConnectFails
  BY <1>1, <1>4, AfterConnection DEF ConnectFails
<1>5. CASE TakeMessage
  <2>1. /\ heard < Len(Stream) /\ heard' = heard + 1 /\ here' = here + 1
        /\ Submit(<< Message(heard + 1) >>)
        /\ UNCHANGED << max_events, captured, buffered, received >>
    BY <1>5 DEF TakeMessage, settings
  <2>2. heard + 1 \in Numbers /\ heard' \in 0 .. Len(Stream)
    BY <2>1, StreamNumbers DEF CaptureTypes
  <2>3. << Message(heard + 1) >> \in Seq(Records)
    BY <2>2, RecordsOfCapture
  <2>4. Submits
    BY <2>1, <2>3 DEF Submits
  <2>5. heard' \in Numbers
    BY <2>1, <2>2
  <2> QED BY <2>1, <2>2, <2>4, <2>5 DEF CaptureTypes
<1>6. CASE StopReceiving
  <2>1. ConnectionReturns /\ UNCHANGED settings
    BY <1>6 DEF StopReceiving
  <2>2. CASE max_events = None
    <3>1. /\ SubmitNothing /\ captured' = captured + here /\ here' = 0 /\ buffered' = << >>
          /\ received' = "Pending" /\ heard' = heard /\ max_events' = max_events
      BY <2>1, <2>2 DEF ConnectionReturns, Leave, settings
    <3> QED BY <1>1, <3>1, NothingSubmitted DEF CaptureTypes
  <2>3. CASE max_events # None
    <3>1. TryAgain(captured + here)
      BY <2>1, <2>3 DEF ConnectionReturns
    <3> QED BY <1>1, <2>1, <3>1, AfterConnection
  <2> QED BY <2>2, <2>3
<1>7. CASE LoseConnection
  <2>1. UNCHANGED settings /\ (TryAgain(captured) \/ TryAgain(captured + here))
    BY <1>7 DEF LoseConnection
  <2> QED BY <1>1, <2>1, AfterConnection
<1>8. CASE RaiseFatal
  BY <1>8, AfterError DEF RaiseFatal
<1> QED BY <1>2, <1>3, <1>4, <1>5, <1>6, <1>7, <1>8

(* Time submits nothing, a cancellation at most a marker; what is over stays over. *)
LEMMA OutsideSteps ==
  ASSUME Logs, CaptureTypes, Expire \/ CancelTask
  PROVE  Submits /\ CaptureTypes' /\ (task \in Over => task' = task /\ SubmitNothing)
<1>1. CASE Expire
  <2>1. SubmitNothing /\ task' = task
        /\ UNCHANGED << max_events, captured, here, buffered, received, heard >>
    BY <1>1 DEF Expire, settings, connectionVars
  <2> QED BY <2>1, NothingSubmitted DEF CaptureTypes
<1>2. CASE CancelTask
  <2>1. UNCHANGED settings /\ captured \in Nat
    BY <1>2 DEF CancelTask, CaptureTypes
  <2>2. CASE SubmitNothing /\ UNCHANGED << task, captured, connectionVars >>
    <3>1. UNCHANGED << max_events, task, captured, here, buffered, received, heard >>
      BY <2>1, <2>2 DEF settings, connectionVars
    <3> QED BY <2>2, <3>1, NothingSubmitted DEF CaptureTypes
  <2>3. CASE task = "Bootstrapping" /\ (TryAgain(captured) \/ Raise)
    <3>1. task \notin Over
      BY <2>3 DEF Over
    <3> QED BY <2>1, <2>3, <3>1, AfterConnection, AfterError
  <2>4. CASE /\ task \in {"Connecting", "Sleeping", "Bootstrapping", "Receiving"}
             /\ Leave /\ SubmitNothing /\ captured' = captured
    <3>1. task \notin Over
      BY <2>4 DEF Over
    <3>2. /\ captured' = captured /\ here' = 0 /\ buffered' = << >> /\ received' = "Pending"
          /\ heard' = heard /\ max_events' = max_events
      BY <2>1, <2>4 DEF Leave, settings
    <3> QED BY <2>4, <3>1, <3>2, NothingSubmitted DEF CaptureTypes
  <2> QED BY <1>2, <2>2, <2>3, <2>4 DEF CancelTask
<1> QED BY <1>1, <1>2

-------------------------------------------------------------------------------
(* One list and then another, as an operator that the provers need not open. *)
Joined(a, b) == a \o b

LEMMA JoinedTypes ==
  ASSUME NEW S, NEW a \in Seq(S), NEW b \in Seq(S)
  PROVE  Joined(a, b) \in Seq(S)
BY ConcatProperties DEF Joined

LEMMA JoinedAssociative ==
  ASSUME NEW S, NEW a \in Seq(S), NEW b \in Seq(S), NEW c \in Seq(S)
  PROVE  Joined(Joined(a, b), c) = Joined(a, Joined(b, c))
BY ConcatAssociative DEF Joined

LEMMA JoinedEmpty ==
  ASSUME NEW S, NEW a \in Seq(S)
  PROVE  Joined(a, << >>) = a /\ Joined(<< >>, a) = a
BY ConcatEmptySeq DEF Joined

(***************************************************************************)
(* Where the records are.  The end mark is behind them in the queue once   *)
(* the writers are being closed.                                           *)
(***************************************************************************)
Marks == IF run = "Capturing" THEN << >> ELSE << EndMark >>

LogInv ==
  /\ Logs /\ buffer \in Seq(Records) /\ file \in Seq(Records) /\ writer \in WriterStates
  /\ writer \in {"Starting", "Waiting", "Writing"} =>
       \E rest \in Seq(Records) :
         queue = Joined(rest, Marks) /\ submitted = Joined(file, Joined(buffer, rest))
  /\ writer = "WritingLast" => submitted = Joined(file, buffer)
  /\ writer = "Ended" => submitted = file
  /\ writer \in {"Failed", "Cancelled"} =>
       \E rest \in Seq(Records) : submitted = Joined(file, rest)

RunInv ==
  /\ run \in {"Capturing", "Closing", "Closed", "Failed"}
  /\ run = "Capturing" => writer \notin {"WritingLast", "Ended", "Cancelled"}
  /\ run # "Capturing" => task \in Over
  /\ run = "Closed" => writer = "Ended"
  /\ run = "Failed" => writer \in {"Ended", "Failed", "Cancelled"}

(* A torn record is the last thing that a writer does, and one that was not yet whole. *)
TornInv ==
  /\ torn \in BOOLEAN
  /\ torn => writer \in {"Failed", "Cancelled"} /\ Len(file) < Len(submitted)

Inv == CaptureTypes /\ LogInv /\ TornInv /\ RunInv

(* In any case the file has a first part of what was submitted. *)
Begins == \E rest \in Seq(Records) : submitted = Joined(file, rest)

LEMMA FileIsBeginning == LogInv => Begins
<1> SUFFICES ASSUME LogInv
             PROVE  \E rest \in Seq(Records) : submitted = Joined(file, rest)
  BY DEF Begins
<1>1. CASE writer \in {"Starting", "Waiting", "Writing"}
  <2>1. PICK rest \in Seq(Records) : submitted = Joined(file, Joined(buffer, rest))
    BY <1>1 DEF LogInv
  <2>2. Joined(buffer, rest) \in Seq(Records)
    BY JoinedTypes DEF LogInv
  <2> QED BY <2>1, <2>2
<1>2. CASE writer = "WritingLast"
  BY <1>2 DEF LogInv
<1>3. CASE writer = "Ended"
  <2>1. << >> \in Seq(Records) /\ submitted = Joined(file, << >>)
    BY <1>3, JoinedEmpty DEF LogInv
  <2> QED BY <2>1
<1>4. CASE writer \in {"Failed", "Cancelled"}
  BY <1>4 DEF LogInv
<1> QED BY <1>1, <1>2, <1>3, <1>4 DEF LogInv, WriterStates

LEMMA InitInv == Init => Inv
<1> SUFFICES ASSUME Init
             PROVE  Inv
  OBVIOUS
<1>1. /\ queue = << >> /\ buffer = << >> /\ file = << >> /\ writer = "Starting"
      /\ submitted = << >> /\ run = "Capturing" /\ task = "Connecting" /\ torn = FALSE
  BY DEF Init, WriterInit, CaptureInit
<1>2. CaptureTypes
  <2>1. PICK setting \in Settings : max_events = setting[2]
    BY DEF Init, CaptureInit
  <2>2. max_events \in Nat \cup {None}
    BY <2>1, SettingsAssumption
  <2>3. /\ captured = 0 /\ here = 0 /\ heard = 0 /\ received = "Pending" /\ buffered = << >>
    BY DEF Init, CaptureInit
  <2>4. << >> \in Seq(Numbers) /\ heard \in 0 .. Len(Stream)
    BY <2>3, StreamNumbers
  <2> QED BY <2>2, <2>3, <2>4 DEF CaptureTypes
<1>3. /\ << >> \in Seq(Records) /\ << >> \in Seq(Records \cup {EndMark})
      /\ << >> = Joined(<< >>, << >>)
  <2>1. << >> \in Seq(Records) /\ << >> \in Seq(Records \cup {EndMark})
    OBVIOUS
  <2> QED BY <2>1, JoinedEmpty
<1>4. LogInv
  <2>1. Marks = << >>
    BY <1>1 DEF Marks
  <2>2. queue = Joined(<< >>, Marks) /\ submitted = Joined(file, Joined(buffer, << >>))
    BY <1>1, <1>3, <2>1
  <2>3. Logs /\ buffer \in Seq(Records) /\ file \in Seq(Records) /\ writer \in WriterStates
    BY <1>1, <1>3 DEF Logs, WriterStates
  <2> QED BY <1>1, <1>3, <2>2, <2>3 DEF LogInv
<1> QED BY <1>1, <1>2, <1>4 DEF Inv, RunInv, TornInv

(* A submission while the tasks run keeps the records where they are. *)
LEMMA SubmissionKeepsLog ==
  ASSUME LogInv, RunInv, run = "Capturing", Submits,
         UNCHANGED << buffer, file, writer, run >>
  PROVE  LogInv'
<1>1. PICK records \in Seq(Records) :
        queue' = Joined(queue, records) /\ submitted' = Joined(submitted, records)
  BY DEF Submits, Submit, Joined
<1>2. /\ queue \in Seq(Records \cup {EndMark}) /\ submitted \in Seq(Records)
      /\ buffer \in Seq(Records) /\ file \in Seq(Records) /\ writer \in WriterStates
  BY DEF LogInv, Logs
<1>3. records \in Seq(Records \cup {EndMark})
  BY SeqMonotonic
<1>4. queue' \in Seq(Records \cup {EndMark}) /\ submitted' \in Seq(Records)
  BY <1>1, <1>2, <1>3, JoinedTypes
<1>5. Marks = << >> /\ Marks' = << >>
  BY DEF Marks
<1>6. CASE writer \in {"Starting", "Waiting", "Writing"}
  <2>1. PICK rest \in Seq(Records) :
          queue = Joined(rest, << >>) /\ submitted = Joined(file, Joined(buffer, rest))
    BY <1>5, <1>6 DEF LogInv
  <2>2. Joined(rest, records) \in Seq(Records) /\ Joined(buffer, rest) \in Seq(Records)
    BY <1>2, JoinedTypes
  <2>3. queue' = Joined(Joined(rest, records), << >>)
    BY <1>1, <2>1, <2>2, JoinedEmpty
  <2>4. submitted' = Joined(file, Joined(buffer, Joined(rest, records)))
    BY <1>1, <1>2, <2>1, <2>2, JoinedAssociative
  <2> QED BY <1>2, <1>4, <1>5, <1>6, <2>2, <2>3, <2>4 DEF LogInv, Logs
<1>7. CASE writer = "Failed"
  <2>1. PICK rest \in Seq(Records) : submitted = Joined(file, rest)
    BY <1>7 DEF LogInv
  <2>2. Joined(rest, records) \in Seq(Records)
    BY JoinedTypes
  <2>3. submitted' = Joined(file, Joined(rest, records))
    BY <1>1, <1>2, <2>1, JoinedAssociative
  <2> QED BY <1>2, <1>4, <1>7, <2>2, <2>3 DEF LogInv, Logs
<1> QED BY <1>2, <1>6, <1>7 DEF RunInv, WriterStates

LEMMA SubmissionKeepsTorn ==
  ASSUME Logs, TornInv, file \in Seq(Records), Submits, UNCHANGED << file, torn, writer >>
  PROVE  TornInv'
<1>1. PICK records \in Seq(Records) : submitted' = submitted \o records
  BY DEF Submits, Submit
<1>2. /\ Len(submitted) \in Nat /\ Len(records) \in Nat /\ Len(file) \in Nat
      /\ Len(submitted') = Len(submitted) + Len(records)
  BY <1>1, BeginsWith DEF Logs
<1>3. Len(file) < Len(submitted) => Len(file') < Len(submitted')
  BY <1>2
<1> QED BY <1>3 DEF TornInv

(* What the waiting task finds at the head of its queue. *)
LEMMA QueueHead ==
  ASSUME LogInv, writer = "Waiting", queue # << >>
  PROVE  \E rest \in Seq(Records) :
           /\ submitted = Joined(file, Joined(buffer, rest))
           /\ Head(queue) # EndMark =>
                /\ rest # << >> /\ Head(queue) = Head(rest)
                /\ Tail(queue) = Joined(Tail(rest), Marks)
           /\ Head(queue) = EndMark => rest = << >> /\ run # "Capturing"
<1>1. PICK rest \in Seq(Records) :
        queue = Joined(rest, Marks) /\ submitted = Joined(file, Joined(buffer, rest))
  BY DEF LogInv
<1>2. Marks \in Seq(Records \cup {EndMark}) /\ rest \in Seq(Records \cup {EndMark})
  <2>1. << >> \in Seq(Records \cup {EndMark}) /\ << EndMark >> \in Seq(Records \cup {EndMark})
    <3> DEFINE mark == EndMark
    <3> HIDE DEF mark
    <3>1. << mark >> \in Seq(Records \cup {mark})
      OBVIOUS
    <3> QED BY <3>1 DEF mark
  <2>2. Marks \in {<< >>, << EndMark >>}
    BY DEF Marks
  <2> QED BY <2>1, <2>2, SeqMonotonic
<1>3. CASE rest = << >>
  <2>1. queue = Marks
    <3>1. Joined(<< >>, Marks) = Marks
      BY <1>2, JoinedEmpty
    <3> QED BY <1>1, <1>3, <3>1
  <2>2. Marks = << EndMark >> /\ run # "Capturing"
    BY <2>1 DEF Marks
  <2>3. Head(queue) = EndMark
    BY <2>1, <2>2
  <2> QED BY <1>1, <1>3, <2>2, <2>3
<1>4. CASE rest # << >>
  <2>1. Head(queue) = Head(rest) /\ Tail(queue) = Joined(Tail(rest), Marks)
    BY <1>1, <1>2, <1>4, HeadOfConcat DEF Joined
  <2>2. Head(rest) \in Records
    BY <1>4, HeadTailProperties
  <2>3. Head(queue) # EndMark
    BY <2>1, <2>2, RecordsAssumption
  <2> QED BY <1>1, <1>4, <2>1, <2>3
<1> QED BY <1>3, <1>4

(* Taking a record moves it from the queue to the buffer. *)
LEMMA TakingKeepsLog ==
  ASSUME LogInv, RunInv, TakeRecord, UNCHANGED run
  PROVE  LogInv'
<1>1. /\ writer = "Waiting" /\ queue # << >> /\ Head(queue) # EndMark
      /\ queue' = Tail(queue) /\ buffer' = Append(buffer, Head(queue))
      /\ writer' \in {"Waiting", "Writing"} /\ file' = file /\ submitted' = submitted
  BY DEF TakeRecord
<1>2. /\ queue \in Seq(Records \cup {EndMark}) /\ submitted \in Seq(Records)
      /\ buffer \in Seq(Records) /\ file \in Seq(Records)
  BY DEF LogInv, Logs
<1>3. PICK rest \in Seq(Records) :
        /\ submitted = Joined(file, Joined(buffer, rest))
        /\ rest # << >> /\ Head(queue) = Head(rest)
        /\ Tail(queue) = Joined(Tail(rest), Marks)
  BY <1>1, QueueHead
<1>4. Marks' = Marks
  BY DEF Marks
<1>5. /\ Tail(rest) \in Seq(Records) /\ buffer' \in Seq(Records)
      /\ Joined(buffer', Tail(rest)) = Joined(buffer, rest)
  <2>1. /\ Tail(rest) \in Seq(Records) /\ Append(buffer, Head(rest)) \in Seq(Records)
        /\ Append(buffer, Head(rest)) \o Tail(rest) = buffer \o rest
    BY <1>2, <1>3, HeadMoves
  <2>2. buffer' = Append(buffer, Head(rest))
    BY <1>1, <1>3, Zenon
  <2> QED BY <2>1, <2>2, Zenon DEF Joined
<1>6. queue' \in Seq(Records \cup {EndMark})
  BY <1>1, <1>2, HeadTailProperties
<1>7. /\ queue' = Joined(Tail(rest), Marks')
      /\ submitted' = Joined(file', Joined(buffer', Tail(rest)))
  BY <1>1, <1>3, <1>4, <1>5
<1>8. /\ Logs' /\ buffer' \in Seq(Records) /\ file' \in Seq(Records)
      /\ writer' \in WriterStates
  BY <1>1, <1>2, <1>5, <1>6 DEF Logs, WriterStates
<1>9. writer' \notin {"WritingLast", "Ended", "Failed", "Cancelled"}
  BY <1>1
<1> QED BY <1>5, <1>7, <1>8, <1>9 DEF LogInv

(* The end mark comes when nothing is left in the queue, and not before the end. *)
LEMMA EndingKeepsLog ==
  ASSUME LogInv, RunInv, TakeEnd, UNCHANGED run
  PROVE  LogInv' /\ run # "Capturing"
<1>1. /\ writer = "Waiting" /\ queue # << >> /\ Head(queue) = EndMark
      /\ queue' = Tail(queue) /\ buffer' = buffer /\ file' = file /\ submitted' = submitted
      /\ writer' = IF buffer = << >> THEN "Ended" ELSE "WritingLast"
  BY DEF TakeEnd
<1>2. /\ queue \in Seq(Records \cup {EndMark}) /\ submitted \in Seq(Records)
      /\ buffer \in Seq(Records) /\ file \in Seq(Records)
  BY DEF LogInv, Logs
<1>3. submitted = Joined(file, Joined(buffer, << >>)) /\ run # "Capturing"
  BY <1>1, QueueHead
<1>4. submitted = Joined(file, buffer) /\ (buffer = << >> => submitted = file)
  BY <1>2, <1>3, JoinedEmpty
<1>5. queue' \in Seq(Records \cup {EndMark})
  BY <1>1, <1>2, HeadTailProperties
<1>6. /\ Logs' /\ buffer' \in Seq(Records) /\ file' \in Seq(Records)
      /\ writer' \in WriterStates
  BY <1>1, <1>2, <1>5 DEF Logs, WriterStates
<1>7. writer' \notin {"Starting", "Waiting", "Writing", "Failed", "Cancelled"}
  BY <1>1
<1> QED BY <1>1, <1>3, <1>4, <1>6, <1>7 DEF LogInv

(* An append that succeeds leaves nothing in the buffer. *)
LEMMA WritingKeepsLog ==
  ASSUME LogInv, RunInv, Written, UNCHANGED run
  PROVE  LogInv' /\ file' = Joined(file, buffer)
<1>1. /\ writer \in {"Writing", "WritingLast"} /\ file' = Joined(file, buffer) /\ buffer' = << >>
      /\ writer' = IF writer = "Writing" THEN "Waiting" ELSE "Ended"
      /\ queue' = queue /\ submitted' = submitted
  BY DEF Written, Joined
<1>2. /\ queue \in Seq(Records \cup {EndMark}) /\ submitted \in Seq(Records)
      /\ buffer \in Seq(Records) /\ file \in Seq(Records)
  BY DEF LogInv, Logs
<1>3. file' \in Seq(Records) /\ buffer' \in Seq(Records)
  BY <1>1, <1>2, JoinedTypes
<1>4. /\ Logs' /\ writer' \in WriterStates
  BY <1>1, <1>2 DEF Logs, WriterStates
<1>5. CASE writer = "Writing"
  <2>1. PICK rest \in Seq(Records) :
          queue = Joined(rest, Marks) /\ submitted = Joined(file, Joined(buffer, rest))
    BY <1>5 DEF LogInv
  <2>2. Joined(file, Joined(buffer, rest)) = Joined(Joined(file, buffer), rest)
    BY <1>2, JoinedAssociative
  <2>3. Joined(<< >>, rest) = rest
    BY JoinedEmpty
  <2>4. Marks' = Marks
    BY DEF Marks
  <2>5. queue' = Joined(rest, Marks') /\ submitted' = Joined(file', Joined(buffer', rest))
    BY <1>1, <2>1, <2>2, <2>3, <2>4
  <2>6. writer' = "Waiting"
    BY <1>1, <1>5
  <2> QED BY <1>1, <1>3, <1>4, <2>5, <2>6 DEF LogInv
<1>6. CASE writer = "WritingLast"
  <2>1. submitted' = file' /\ writer' = "Ended"
    BY <1>1, <1>6 DEF LogInv
  <2> QED BY <1>1, <1>3, <1>4, <2>1 DEF LogInv
<1> QED BY <1>1, <1>5, <1>6

(***************************************************************************)
(* One that fails has written a first part of the buffer; if it tore a     *)
(* record, that part is not the whole.                                     *)
(***************************************************************************)
LEMMA FailedAppend ==
  ASSUME LogInv, AppendFails, submitted' = submitted
  PROVE  /\ file' \in Seq(Records) /\ torn' \in BOOLEAN
         /\ \E more \in Seq(Records) : file' = Joined(file, more)
         /\ \E rest \in Seq(Records) : submitted' = Joined(file', rest)
         /\ torn' => Len(file') < Len(submitted')
<1>1. PICK n \in 0 .. Len(buffer) :
        /\ file' = Joined(file, SubSeq(buffer, 1, n))
        /\ torn' \in BOOLEAN /\ (torn' => n < Len(buffer))
  BY DEF AppendFails, Joined
<1>2. /\ submitted \in Seq(Records) /\ buffer \in Seq(Records) /\ file \in Seq(Records)
      /\ writer \in {"Writing", "WritingLast"}
  BY DEF LogInv, Logs, AppendFails
<1> DEFINE part == SubSeq(buffer, 1, n)
           left == SubSeq(buffer, n + 1, Len(buffer))
<1>3. /\ part \in Seq(Records) /\ left \in Seq(Records) /\ buffer = Joined(part, left)
      /\ Len(part) = n
  <2>1. Len(part) = n
    BY <1>1, <1>2
  <2> QED BY <1>2, <2>1, SplitAt DEF Joined
<1>4. file' = Joined(file, part)
  BY <1>1
<1> HIDE DEF part, left
<1>5. file' \in Seq(Records)
  BY <1>2, <1>3, <1>4, JoinedTypes
<1>6. \E rest \in Seq(Records) : submitted = Joined(file, Joined(buffer, rest))
  <2>1. CASE writer = "Writing"
    BY <2>1 DEF LogInv
  <2>2. CASE writer = "WritingLast"
    <3>1. << >> \in Seq(Records) /\ Joined(buffer, << >>) = buffer
      BY <1>2, JoinedEmpty
    <3>2. submitted = Joined(file, buffer)
      BY <2>2 DEF LogInv
    <3> QED BY <3>1, <3>2
  <2> QED BY <1>2, <2>1, <2>2
<1>7. PICK rest \in Seq(Records) : submitted = Joined(file, Joined(buffer, rest))
  BY <1>6
<1>8. Joined(left, rest) \in Seq(Records) /\ submitted = Joined(file', Joined(left, rest))
  <2>1. Joined(left, rest) \in Seq(Records)
    BY <1>3, JoinedTypes
  <2>2. Joined(Joined(part, left), rest) = Joined(part, Joined(left, rest))
    BY <1>3, JoinedAssociative
  <2>3. Joined(file, Joined(part, Joined(left, rest))) = Joined(Joined(file, part), Joined(left, rest))
    BY <1>2, <1>3, <2>1, JoinedAssociative
  <2> QED BY <1>3, <1>4, <1>7, <2>1, <2>2, <2>3
<1>9. torn' => Len(file') < Len(submitted')
  <2>1. /\ Len(part) \in Nat /\ Len(left) \in Nat /\ Len(rest) \in Nat /\ Len(file') \in Nat
        /\ Len(buffer) = Len(part) + Len(left)
        /\ Len(Joined(left, rest)) = Len(left) + Len(rest)
    BY <1>3, <1>5, BeginsWith DEF Joined
  <2>2. Len(submitted) = Len(file') + Len(Joined(left, rest))
    BY <1>5, <1>8, BeginsWith DEF Joined
  <2> QED BY <1>1, <1>3, <2>1, <2>2
<1> QED BY <1>1, <1>3, <1>4, <1>5, <1>8, <1>9

LEMMA FailingKeepsLog ==
  ASSUME LogInv, RunInv, WriteFails, UNCHANGED run
  PROVE  /\ LogInv' /\ TornInv'
         /\ \E more \in Seq(Records) : file' = Joined(file, more)
<1>1. /\ AppendFails /\ buffer' = << >> /\ writer' = "Failed"
      /\ queue' = queue /\ submitted' = submitted
  BY DEF WriteFails
<1>2. /\ queue \in Seq(Records \cup {EndMark}) /\ submitted \in Seq(Records)
      /\ << >> \in Seq(Records)
  BY DEF LogInv, Logs
<1>3. /\ file' \in Seq(Records) /\ torn' \in BOOLEAN
      /\ \E more \in Seq(Records) : file' = Joined(file, more)
      /\ \E rest \in Seq(Records) : submitted' = Joined(file', rest)
      /\ torn' => Len(file') < Len(submitted')
  BY <1>1, FailedAppend
<1>4. LogInv'
  <2>1. Logs' /\ writer' \in WriterStates
    BY <1>1, <1>2 DEF Logs, WriterStates
  <2> QED BY <1>1, <1>2, <1>3, <2>1 DEF LogInv
<1> QED BY <1>1, <1>3, <1>4 DEF TornInv

(* A writer that is cancelled finishes an append that is under way, unless that fails. *)
LEMMA CancellingKeepsLog ==
  ASSUME LogInv, TornInv, CancelWriter
  PROVE  /\ LogInv' /\ TornInv'
         /\ \E more \in Seq(Records) : file' = Joined(file, more)
         /\ torn => file' = file /\ torn' = torn
<1>1. /\ writer' = IF writer \in {"Ended", "Failed"} THEN writer ELSE "Cancelled"
      /\ buffer' = << >> /\ queue' = queue /\ submitted' = submitted
  BY DEF CancelWriter
<1>2. /\ queue \in Seq(Records \cup {EndMark}) /\ submitted \in Seq(Records)
      /\ buffer \in Seq(Records) /\ file \in Seq(Records) /\ writer \in WriterStates
      /\ torn \in BOOLEAN
  BY DEF LogInv, Logs, TornInv
<1>3. << >> \in Seq(Records) /\ Joined(file, << >>) = file
  BY <1>2, JoinedEmpty
<1>4. CASE AppendFails
  <2>1. /\ file' \in Seq(Records) /\ torn' \in BOOLEAN
        /\ \E more \in Seq(Records) : file' = Joined(file, more)
        /\ \E rest \in Seq(Records) : submitted' = Joined(file', rest)
        /\ torn' => Len(file') < Len(submitted')
    BY <1>1, <1>4, FailedAppend
  <2>2. writer \in {"Writing", "WritingLast"} /\ writer' = "Cancelled" /\ ~ torn
    BY <1>1, <1>2, <1>4 DEF AppendFails, TornInv
  <2>3. Logs' /\ writer' \in WriterStates
    BY <1>1, <1>2, <2>2 DEF Logs, WriterStates
  <2>4. LogInv'
    BY <1>1, <1>3, <2>1, <2>2, <2>3 DEF LogInv
  <2> QED BY <2>1, <2>2, <2>4 DEF TornInv
<1>5. CASE /\ file' = IF writer \in {"Writing", "WritingLast"} THEN Joined(file, buffer) ELSE file
           /\ torn' = torn
  <2>1. PICK more \in Seq(Records) : file' = Joined(file, more)
    BY <1>2, <1>3, <1>5
  <2>2. file' \in Seq(Records)
    BY <1>2, <2>1, JoinedTypes
  <2>3. \E rest \in Seq(Records) : submitted' = Joined(file', rest)
    <3>1. CASE writer = "Writing"
      <4>1. PICK rest \in Seq(Records) : submitted = Joined(file, Joined(buffer, rest))
        BY <3>1 DEF LogInv
      <4>2. Joined(file, Joined(buffer, rest)) = Joined(Joined(file, buffer), rest)
        BY <1>2, JoinedAssociative
      <4> QED BY <1>1, <1>5, <3>1, <4>1, <4>2
    <3>2. CASE writer = "WritingLast"
      <4>1. submitted' = file'
        BY <1>1, <1>5, <3>2 DEF LogInv
      <4>2. Joined(file', << >>) = file'
        BY <2>2, JoinedEmpty
      <4> QED BY <1>3, <4>1, <4>2
    <3>3. CASE writer \notin {"Writing", "WritingLast"}
      BY <1>1, <1>5, <3>3, FileIsBeginning DEF Begins
    <3> QED BY <3>1, <3>2, <3>3
  <2>4. /\ Logs' /\ writer' \in {"Ended", "Failed", "Cancelled"} /\ writer' \in WriterStates
    BY <1>1, <1>2 DEF Logs, WriterStates
  <2>5. writer' = "Ended" => submitted' = file'
    BY <1>1, <1>5 DEF LogInv
  <2>6. LogInv'
    BY <1>1, <1>3, <2>2, <2>3, <2>4, <2>5 DEF LogInv
  <2>7. torn => file' = file /\ writer' \in {"Failed", "Cancelled"}
    BY <1>1, <1>5 DEF TornInv
  <2>8. TornInv'
    BY <1>1, <1>2, <1>5, <2>7 DEF TornInv
  <2> QED BY <1>5, <2>1, <2>6, <2>7, <2>8
<1>6. AppendFails \/ (/\ file' = IF writer \in {"Writing", "WritingLast"} THEN Joined(file, buffer)
                                 ELSE file
                      /\ torn' = torn)
  BY DEF CancelWriter, Joined
<1> QED BY <1>4, <1>5, <1>6

(* close() puts the end mark behind all records. *)
LEMMA ClosingKeepsLog ==
  ASSUME LogInv, RunInv, CloseWriters
  PROVE  LogInv'
<1>1. /\ run = "Capturing" /\ run' = "Closing" /\ queue' = Append(queue, EndMark)
      /\ UNCHANGED << buffer, file, writer, submitted >>
  BY DEF CloseWriters, WriterUnchanged
<1>2. /\ queue \in Seq(Records \cup {EndMark}) /\ submitted \in Seq(Records)
      /\ buffer \in Seq(Records) /\ file \in Seq(Records) /\ writer \in WriterStates
  BY DEF LogInv, Logs
<1>3. queue' \in Seq(Records \cup {EndMark}) /\ queue' = Joined(queue, << EndMark >>)
  BY <1>1, <1>2, AppendProperties, AppendIsConcat DEF Joined
<1>4. /\ Logs' /\ buffer' \in Seq(Records) /\ file' \in Seq(Records)
      /\ writer' \in WriterStates
  BY <1>1, <1>2, <1>3 DEF Logs
<1>5. CASE writer \in {"Starting", "Waiting", "Writing"}
  <2>1. Marks = << >> /\ Marks' = << EndMark >>
    BY <1>1 DEF Marks
  <2>2. PICK rest \in Seq(Records) :
          queue = Joined(rest, << >>) /\ submitted = Joined(file, Joined(buffer, rest))
    BY <1>5, <2>1 DEF LogInv
  <2>3. queue' = Joined(rest, Marks') /\ submitted' = Joined(file', Joined(buffer', rest))
    BY <1>1, <1>3, <2>1, <2>2, JoinedEmpty
  <2> QED BY <1>1, <1>4, <1>5, <2>3 DEF LogInv
<1>6. CASE writer = "Failed"
  BY <1>1, <1>4, <1>6 DEF LogInv
<1> QED BY <1>1, <1>2, <1>5, <1>6 DEF RunInv, WriterStates

-------------------------------------------------------------------------------
(* A step of the capture's tasks, of time or of the other venues. *)
CapturingStep ==
  \/ TaskStep \/ TransferStep \/ Expire \/ CancelTask
  \/ SubmitNothing /\ UNCHANGED captureVars

LEMMA CapturingSteps ==
  ASSUME Logs, CaptureTypes, CapturingStep
  PROVE  /\ CaptureTypes' /\ Submits
         /\ task \in Over => task' = task /\ SubmitNothing
<1>1. CASE TaskStep \/ TransferStep
  <2>1. task \notin Over
    BY <1>1 DEF TaskStep, TransferStep, Wake, Connect, ConnectFails, TakeDone, FinishRound,
                TakeMessage, StopReceiving, LoseConnection, RaiseFatal, FetchSnapshot,
                ReceiveForBuffer, Over
  <2>2. \/ FetchSnapshot \/ ReceiveForBuffer \/ TakeDone \/ FinishRound
        \/ Wake \/ Connect \/ ConnectFails
        \/ TakeMessage \/ StopReceiving \/ LoseConnection \/ RaiseFatal
    BY <1>1 DEF TaskStep, TransferStep
  <2> QED BY <2>1, <2>2, BootstrapSteps, ConnectionSteps
<1>2. CASE Expire \/ CancelTask
  BY <1>2, OutsideSteps
<1>3. CASE SubmitNothing /\ UNCHANGED captureVars
  BY <1>3, NothingSubmitted DEF captureVars, CaptureTypes
<1> QED BY <1>1, <1>2, <1>3 DEF CapturingStep

LEMMA CapturingKeepsInv ==
  ASSUME Inv, CapturingStep, UNCHANGED << buffer, file, torn, writer, run >>
  PROVE  Inv' /\ Submits
<1>1. /\ CaptureTypes' /\ Submits
      /\ task \in Over => task' = task /\ SubmitNothing
  BY CapturingSteps DEF Inv, LogInv
<1>2. LogInv'
  <2>1. CASE run = "Capturing"
    BY <1>1, <2>1, SubmissionKeepsLog DEF Inv
  <2>2. CASE run # "Capturing"
    <3>1. UNCHANGED << queue, submitted, buffer, file, writer, run >>
      BY <1>1, <2>2 DEF Inv, RunInv, SubmitNothing
    <3> QED BY <3>1 DEF Inv, LogInv, Logs, Marks
  <2> QED BY <2>1, <2>2
<1>3. RunInv'
  BY <1>1 DEF Inv, RunInv
<1>4. TornInv'
  BY <1>1, SubmissionKeepsTorn DEF Inv, LogInv
<1> QED BY <1>1, <1>2, <1>3, <1>4 DEF Inv

(* A step of the writer, or its cancellation, only appends to the file, and not to a torn one. *)
LEMMA WriterKeepsInv ==
  ASSUME Inv,
         \/ WriterStep /\ UNCHANGED run
         \/ CancelWriter /\ run = "Closing" /\ run' = "Failed",
         UNCHANGED captureVars
  PROVE  /\ Inv' /\ submitted' = submitted
         /\ torn => file' = file /\ torn' = torn
         /\ \E more \in Seq(Records) : file' = Joined(file, more)
<1>1. CaptureTypes' /\ task' = task
  BY DEF captureVars, Inv, CaptureTypes
<1>2. LogInv /\ RunInv /\ TornInv
  BY DEF Inv
<1>3. file \in Seq(Records) /\ buffer \in Seq(Records)
  BY DEF Inv, LogInv
<1>4. << >> \in Seq(Records) /\ Joined(file, << >>) = file
  BY <1>3, JoinedEmpty
<1>5. CASE MakeDirectory /\ UNCHANGED run
  <2>1. /\ writer = "Starting" /\ writer' \in {"Waiting", "Failed"}
        /\ UNCHANGED << queue, buffer, file, torn, submitted, run >>
    BY <1>5 DEF MakeDirectory
  <2>2. \E rest \in Seq(Records) : submitted = Joined(file, rest)
    BY <1>2, FileIsBeginning DEF Begins
  <2>3. LogInv'
    BY <1>2, <2>1, <2>2 DEF LogInv, Logs, Marks, WriterStates
  <2> QED BY <1>1, <1>2, <1>4, <2>1, <2>3 DEF Inv, RunInv, TornInv
<1>6. CASE TakeRecord /\ UNCHANGED run
  <2>1. /\ writer = "Waiting" /\ writer' \in {"Waiting", "Writing"}
        /\ file' = file /\ torn' = torn /\ submitted' = submitted
    BY <1>6 DEF TakeRecord
  <2>2. LogInv'
    BY <1>2, <1>6, TakingKeepsLog
  <2> QED BY <1>1, <1>2, <1>4, <1>6, <2>1, <2>2 DEF Inv, RunInv, TornInv
<1>7. CASE FlushInterval /\ UNCHANGED run
  <2>1. /\ writer = "Waiting" /\ writer' = "Writing"
        /\ UNCHANGED << queue, buffer, file, torn, submitted, run >>
    BY <1>7 DEF FlushInterval
  <2>2. LogInv'
    BY <1>2, <2>1 DEF LogInv, Logs, Marks, WriterStates
  <2> QED BY <1>1, <1>2, <1>4, <2>1, <2>2 DEF Inv, RunInv, TornInv
<1>8. CASE TakeEnd /\ UNCHANGED run
  <2>1. /\ writer = "Waiting" /\ writer' \in {"Ended", "WritingLast"}
        /\ file' = file /\ torn' = torn /\ submitted' = submitted
    BY <1>8 DEF TakeEnd
  <2>2. LogInv' /\ run # "Capturing"
    BY <1>2, <1>8, EndingKeepsLog
  <2> QED BY <1>1, <1>2, <1>4, <1>8, <2>1, <2>2 DEF Inv, RunInv, TornInv
<1>9. CASE Written /\ UNCHANGED run
  <2>1. /\ writer \in {"Writing", "WritingLast"}
        /\ writer' = IF writer = "Writing" THEN "Waiting" ELSE "Ended"
        /\ submitted' = submitted /\ torn' = torn
    BY <1>9 DEF Written
  <2>2. LogInv' /\ file' = Joined(file, buffer)
    BY <1>2, <1>9, WritingKeepsLog
  <2> QED BY <1>1, <1>2, <1>3, <1>9, <2>1, <2>2 DEF Inv, RunInv, TornInv
<1>10. CASE WriteFails /\ UNCHANGED run
  <2>1. /\ writer \in {"Writing", "WritingLast"} /\ writer' = "Failed"
        /\ submitted' = submitted
    BY <1>10 DEF WriteFails, AppendFails
  <2>2. LogInv' /\ TornInv' /\ \E more \in Seq(Records) : file' = Joined(file, more)
    BY <1>2, <1>10, FailingKeepsLog
  <2> QED BY <1>1, <1>2, <1>10, <2>1, <2>2 DEF Inv, RunInv, TornInv
<1>11. CASE CancelWriter /\ run = "Closing" /\ run' = "Failed"
  <2>1. /\ writer' \in {"Ended", "Failed", "Cancelled"} /\ submitted' = submitted
    BY <1>11 DEF CancelWriter
  <2>2. /\ LogInv' /\ TornInv' /\ \E more \in Seq(Records) : file' = Joined(file, more)
        /\ torn => file' = file /\ torn' = torn
    BY <1>2, <1>11, CancellingKeepsLog
  <2> QED BY <1>1, <1>2, <1>11, <2>1, <2>2 DEF Inv, RunInv, TornInv
<1> QED BY <1>5, <1>6, <1>7, <1>8, <1>9, <1>10, <1>11 DEF WriterStep

(* Every step is one of these three kinds. *)
LEMMA Steps ==
  ASSUME Inv, Next
  PROVE  \/ CapturingStep /\ UNCHANGED << buffer, file, torn, writer, run >>
         \/ /\ \/ WriterStep /\ UNCHANGED run
               \/ CancelWriter /\ run = "Closing" /\ run' = "Failed"
            /\ UNCHANGED captureVars
         \/ /\ RunStep
            /\ UNCHANGED << captureVars, submitted, file, torn >>
<1>1. CASE CaptureStep \/ Surroundings \/ Timer \/ OthersEnd \/ OthersRaise
  BY <1>1 DEF CaptureStep, Surroundings, Timer, OthersEnd, OthersRaise, WriterUnchanged,
              CapturingStep
<1>2. CASE WriterTask \/ OtherCloseFails
  BY <1>2 DEF WriterTask, OtherCloseFails
<1>3. CASE RunStep
  BY <1>3 DEF RunStep, CloseWriters, Closed, WriterUnchanged, SubmitNothing
<1> QED BY <1>1, <1>2, <1>3 DEF Next

LEMMA RunKeepsInv ==
  ASSUME Inv, RunStep, UNCHANGED << captureVars, submitted, file, torn >>
  PROVE  Inv'
<1>1. CaptureTypes' /\ task' = task
  BY DEF captureVars, Inv, CaptureTypes
<1>2. CASE CloseWriters
  <2>1. LogInv'
    BY <1>2, ClosingKeepsLog DEF Inv
  <2>2. RunInv'
    BY <1>1, <1>2 DEF CloseWriters, WriterUnchanged, Inv, RunInv
  <2>3. TornInv'
    BY <1>2 DEF CloseWriters, WriterUnchanged, Inv, TornInv
  <2> QED BY <1>1, <2>1, <2>2, <2>3 DEF Inv
<1>3. CASE Closed
  <2>1. /\ run = "Closing" /\ writer \in {"Ended", "Failed"}
        /\ run' = IF writer = "Ended" THEN "Closed" ELSE "Failed"
        /\ UNCHANGED << queue, submitted, buffer, file, torn, writer >>
    BY <1>3 DEF Closed, WriterUnchanged, SubmitNothing
  <2>2. Marks' = Marks
    BY <2>1 DEF Marks
  <2>3. LogInv'
    BY <2>1, <2>2 DEF Inv, LogInv, Logs
  <2>4. RunInv'
    BY <1>1, <2>1 DEF Inv, RunInv
  <2>5. TornInv'
    BY <2>1 DEF Inv, TornInv
  <2> QED BY <1>1, <2>3, <2>4, <2>5 DEF Inv
<1> QED BY <1>2, <1>3 DEF RunStep

LEMMA NextInv == Inv /\ [Next]_vars => Inv'
<1> SUFFICES ASSUME Inv, [Next]_vars
             PROVE  Inv'
  OBVIOUS
<1>1. CASE Next
  BY <1>1, Steps, CapturingKeepsInv, WriterKeepsInv, RunKeepsInv
<1>2. CASE UNCHANGED vars
  BY <1>2 DEF vars, writerVars, captureVars, Inv, CaptureTypes, LogInv, Logs, Marks, RunInv, TornInv
<1> QED BY <1>1, <1>2

(* Every record submitted is in the file, the buffer or the queue, in order. *)
THEOREM RunInvariant == Spec => []Inv
<1> QED BY InitInv, NextInv, PTL DEF Spec

(***************************************************************************)
(* run_capture() does not return before every record is in the file,       *)
(* whole, whatever the tasks, the venue and the other venues did.          *)
(***************************************************************************)
THEOREM EverythingIsAlwaysWritten == Spec => []EverythingIsWritten
<1>1. Inv => EverythingIsWritten
  BY DEF Inv, RunInv, LogInv, TornInv, EverythingIsWritten
<1> QED BY RunInvariant, <1>1, PTL

-------------------------------------------------------------------------------
(* A longer list of submissions is a step of the log. *)
LEMMA SubmittingIsLogged ==
  ASSUME Inv, Submits, file' = file, torn' = torn
  PROVE  [Log!Submit \/ Log!Write \/ Log!Tear]_<< submitted, file, torn >>
<1>1. PICK records \in Seq(Records) : submitted' = submitted \o records
  BY DEF Submits, Submit
<1>2. submitted \in Seq(Records)
  BY DEF Inv, LogInv, Logs
<1>3. CASE records = << >>
  BY <1>1, <1>2, <1>3, ConcatEmptySeq
<1>4. CASE records # << >>
  <2>1. /\ Len(submitted) \in Nat /\ Len(records) \in Nat
        /\ Len(submitted') = Len(submitted) + Len(records)
        /\ SubSeq(submitted', 1, Len(submitted)) = submitted
    BY <1>1, <1>2, BeginsWith
  <2>2. Len(records) > 0
    BY <1>4, <2>1, EmptySeq
  <2> QED BY <2>1, <2>2 DEF Log!Submit
<1> QED BY <1>3, <1>4

(* A longer file is one too: it has the next of what was submitted. *)
LEMMA AppendingIsLogged ==
  ASSUME Inv, Inv', Begins', submitted' = submitted,
         torn => file' = file /\ torn' = torn,
         NEW more \in Seq(Records), file' = Joined(file, more)
  PROVE  [Log!Submit \/ Log!Write \/ Log!Tear]_<< submitted, file, torn >>
<1>1. file \in Seq(Records) /\ file' \in Seq(Records)
  BY DEF Inv, LogInv
<1>2. /\ Len(file) \in Nat /\ Len(more) \in Nat /\ Len(file') = Len(file) + Len(more)
  BY <1>1, BeginsWith DEF Joined
<1>3. PICK rest \in Seq(Records) : submitted' = Joined(file', rest)
  BY DEF Begins
<1>4. /\ Len(file') \in Nat /\ Len(rest) \in Nat /\ Len(submitted') = Len(file') + Len(rest)
      /\ SubSeq(submitted', 1, Len(file')) = file'
  BY <1>1, <1>3, BeginsWith DEF Joined
<1>5. torn \in BOOLEAN /\ torn' \in BOOLEAN /\ (torn' => Len(file') < Len(submitted'))
  BY DEF Inv, TornInv
<1>6. CASE torn
  BY <1>6
<1>7. CASE ~ torn /\ torn'
  <2>1. Len(file') \in Len(file) .. Len(submitted) - 1
    BY <1>2, <1>4, <1>5, <1>7
  <2> QED BY <1>4, <1>7, <2>1 DEF Log!Tear
<1>8. CASE ~ torn /\ ~ torn'
  <2>1. CASE more = << >>
    BY <1>1, <1>5, <1>8, <2>1, JoinedEmpty
  <2>2. CASE more # << >>
    <3>1. Len(more) > 0
      BY <2>2, <1>2, EmptySeq
    <3>2. Len(file') \in Len(file) + 1 .. Len(submitted)
      BY <1>2, <1>4, <3>1
    <3> QED BY <1>4, <1>5, <1>8, <3>2 DEF Log!Write
  <2> QED BY <2>1, <2>2
<1> QED BY <1>5, <1>6, <1>7, <1>8

(***************************************************************************)
(* The file is an append-only log of what was submitted, with every queue, *)
(* buffer, failure and cancellation that the run knows.                    *)
(***************************************************************************)
THEOREM RunImplementsAppendLog == Spec => ImplementsAppendLog
<1>1. Init => Log!Init
  BY DEF Init, WriterInit, Log!Init
<1>2. Inv => Begins
  BY FileIsBeginning DEF Inv
<1>3. Inv /\ Inv' /\ Begins' /\ [Next]_vars => [Log!Submit \/ Log!Write \/ Log!Tear]_<< submitted, file, torn >>
  <2> SUFFICES ASSUME Inv, Inv', Begins', [Next]_vars
               PROVE  [Log!Submit \/ Log!Write \/ Log!Tear]_<< submitted, file, torn >>
    OBVIOUS
  <2>1. CASE Next
    <3>1. CASE CapturingStep /\ UNCHANGED << buffer, file, torn, writer, run >>
      BY <3>1, CapturingKeepsInv, SubmittingIsLogged
    <3>2. CASE /\ \/ WriterStep /\ UNCHANGED run
                  \/ CancelWriter /\ run = "Closing" /\ run' = "Failed"
               /\ UNCHANGED captureVars
      BY <3>2, WriterKeepsInv, AppendingIsLogged
    <3>3. CASE UNCHANGED << submitted, file, torn >>
      BY <3>3
    <3> QED BY <2>1, <3>1, <3>2, <3>3, Steps
  <2>2. CASE UNCHANGED vars
    BY <2>2 DEF vars, writerVars
  <2> QED BY <2>1, <2>2
<1> QED BY <1>1, <1>2, <1>3, RunInvariant, PTL DEF Spec, ImplementsAppendLog, Log!Spec

-------------------------------------------------------------------------------
(* The places of the events in a list of records. *)
Events(records) == {i \in DOMAIN records : records[i] # Reconnect}

(* They can be counted. *)
LEMMA EventsAreFinite ==
  ASSUME NEW s \in Seq(Records)
  PROVE  IsFiniteSet(Events(s)) /\ Cardinality(Events(s)) \in Nat
<1>1. Len(s) \in Nat /\ Events(s) \in SUBSET (1 .. Len(s))
  BY DEF Events
<1>2. IsFiniteSet(1 .. Len(s))
  BY <1>1, FS_Interval
<1> QED BY <1>1, <1>2, FS_Subset, FS_CardinalityType

(* A marker is no event. *)
LEMMA MarkerIsNotCounted ==
  ASSUME NEW s \in Seq(Records)
  PROVE  Events(s \o << Reconnect >>) = Events(s)
<1>1. Len(s) \in Nat /\ DOMAIN s = 1 .. Len(s)
  OBVIOUS
<1> DEFINE t == s \o << Reconnect >>
<1>2. DOMAIN t = 1 .. Len(s) + 1 /\ t[Len(s) + 1] = Reconnect
  <2> DEFINE marker == Reconnect
  <2> HIDE DEF marker
  <2>1. DOMAIN (s \o << marker >>) = 1 .. Len(s) + 1 /\ (s \o << marker >>)[Len(s) + 1] = marker
    BY <1>1
  <2> QED BY <2>1 DEF marker
<1>3. \A i \in 1 .. Len(s) : t[i] = s[i]
  <2> DEFINE marker == Reconnect
  <2> HIDE DEF marker
  <2>1. \A i \in 1 .. Len(s) : (s \o << marker >>)[i] = s[i]
    BY <1>1
  <2> QED BY <2>1 DEF marker
<1> HIDE DEF t
<1>4. Events(t) = Events(s)
  BY <1>1, <1>2, <1>3 DEF Events
<1> QED BY <1>4 DEF t

(* Every record of another kind is one. *)
LEMMA EventsAreCounted ==
  ASSUME NEW s \in Seq(Records), NEW r \in Seq(Records),
         \A i \in 1 .. Len(r) : r[i] # Reconnect
  PROVE  Cardinality(Events(s \o r)) = Cardinality(Events(s)) + Len(r)
<1>1. Len(s) \in Nat /\ Len(r) \in Nat /\ DOMAIN s = 1 .. Len(s) /\ DOMAIN r = 1 .. Len(r)
  OBVIOUS
<1> DEFINE t == s \o r
           more == Len(s) + 1 .. Len(s) + Len(r)
<1>2. /\ DOMAIN t = 1 .. Len(s) + Len(r)
      /\ \A i \in 1 .. Len(s) : t[i] = s[i]
      /\ \A i \in more : t[i] = r[i - Len(s)]
  BY <1>1
<1> HIDE DEF t
<1>3. Events(t) = Events(s) \cup more
  <2>1. \A i \in more : i - Len(s) \in 1 .. Len(r) /\ i \in 1 .. Len(s) + Len(r)
    BY <1>1
  <2>2. \A i \in more : t[i] # Reconnect
    BY <1>2, <2>1
  <2>3. 1 .. Len(s) + Len(r) = (1 .. Len(s)) \cup more
    BY <1>1
  <2> HIDE DEF more
  <2> QED BY <1>1, <1>2, <2>2, <2>3 DEF Events
<1>4. IsFiniteSet(more) /\ Cardinality(more) = Len(r)
  <2>1. Len(s) + 1 \in Int /\ Len(s) + Len(r) \in Int
    BY <1>1
  <2>2. /\ IsFiniteSet(more)
        /\ Cardinality(more) = IF Len(s) + 1 > Len(s) + Len(r) THEN 0
                               ELSE (Len(s) + Len(r)) - (Len(s) + 1) + 1
    BY <2>1, FS_Interval
  <2> HIDE DEF more
  <2> QED BY <1>1, <2>2
<1>5. Events(s) \cap more = {}
  BY <1>1 DEF Events
<1>6. IsFiniteSet(Events(s)) /\ Cardinality(Events(s)) \in Nat
  BY EventsAreFinite
<1> HIDE DEF more
<1>7. Cardinality(Events(s) \cup more) = Cardinality(Events(s)) + Len(r)
  <2>1. Cardinality(Events(s) \cap more) = 0
    BY <1>5, FS_EmptySet
  <2>2. Cardinality(Events(s) \cup more) =
          Cardinality(Events(s)) + Cardinality(more) - Cardinality(Events(s) \cap more)
    BY <1>4, <1>6, FS_Union
  <2> QED BY <1>1, <1>4, <1>6, <2>1, <2>2
<1> QED BY <1>3, <1>7 DEF t

-------------------------------------------------------------------------------
Count == Cardinality(Events(submitted))

(* What the records of a step add to the count. *)
LEMMA CountAfter ==
  ASSUME Logs
  PROVE  /\ Count \in Nat
         /\ SubmitNothing => Count' = Count
         /\ Submit(<< Reconnect >>) => Count' = Count
         /\ \A r \in Seq(Records) :
              (Submit(r) /\ \A i \in 1 .. Len(r) : r[i] # Reconnect) => Count' = Count + Len(r)
<1>1. submitted \in Seq(Records)
  BY DEF Logs
<1>2. Count \in Nat
  BY <1>1, EventsAreFinite DEF Count
<1>3. SubmitNothing => Count' = Count
  BY DEF SubmitNothing, Count, Events
<1>4. ASSUME Submit(<< Reconnect >>)
      PROVE  Count' = Count
  <2>1. submitted' = submitted \o << Reconnect >>
    BY <1>4 DEF Submit
  <2>2. Events(submitted') = Events(submitted)
    BY <1>1, <2>1, MarkerIsNotCounted
  <2> QED BY <2>2 DEF Count
<1>5. ASSUME NEW r \in Seq(Records), Submit(r), \A i \in 1 .. Len(r) : r[i] # Reconnect
      PROVE  Count' = Count + Len(r)
  <2>1. submitted' = submitted \o r
    BY <1>5 DEF Submit
  <2>2. Cardinality(Events(submitted')) = Cardinality(Events(submitted)) + Len(r)
    BY <1>1, <1>5, <2>1, EventsAreCounted
  <2> QED BY <2>2 DEF Count
<1> QED BY <1>2, <1>3, <1>4, <1>5

(* What a bootstrap submits: the snapshot, and what it leaves of the *)
(* buffered messages or as many of them as the maximum has room for.   *)
IsBootstrap(r, kept, id) ==
  /\ r \in Seq(Records) /\ Len(r) \in 1 .. Len(kept) + 1
  /\ r[1] = Snapshot(id)
  /\ \A i \in 1 .. Len(r) - 1 : r[i + 1] = Message(kept[i])
  /\ Len(r) = Len(kept) + 1 \/ (max_events # None /\ Len(r) = max_events - captured)
  /\ max_events # None => Len(r) <= max_events - captured

LEMMA BootstrapIs ==
  ASSUME CaptureTypes, max_events # None => captured < max_events, NEW id \in UpdateIds
  PROVE  IsBootstrap(BootstrapRecords(id, Left), Uncovered(buffered, id), id)
<1> DEFINE kept == Uncovered(buffered, id)
           count == IF Left = None \/ Len(kept) < Left THEN Len(kept) ELSE Left - 1
           following == [i \in 1 .. count |-> Message(kept[i])]
           r == BootstrapRecords(id, Left)
<1>1. kept \in Seq(Numbers)
  BY UncoveredMessages DEF CaptureTypes
<1> HIDE DEF kept
<1>2. Len(kept) \in Nat /\ \A i \in 1 .. Len(kept) : kept[i] \in Numbers
  BY <1>1
<1>3. /\ max_events = None => Left = None
      /\ max_events # None => /\ Left = max_events - captured /\ Left \in Nat \ {0}
                               /\ Left # None
  <2>1. CASE max_events = None
    BY <2>1 DEF Left
  <2>2. CASE max_events # None
    <3>1. max_events \in Nat /\ captured \in Nat /\ Left = max_events - captured
      BY <2>2 DEF CaptureTypes, Left
    <3> QED BY <2>2, <3>1, OutcomesAssumption
  <2> QED BY <2>1, <2>2
<1>4. /\ count \in 0 .. Len(kept)
      /\ count = Len(kept) \/ (max_events # None /\ count + 1 = Left)
      /\ max_events # None => count + 1 <= Left
  BY <1>2, <1>3
<1>5. r = << Snapshot(id) >> \o following
  BY DEF BootstrapRecords, kept
<1> HIDE DEF count, r
<1>6. following \in Seq(Records) /\ Len(following) = count
      /\ \A i \in 1 .. count : following[i] = Message(kept[i])
  <2>1. \A i \in 1 .. count : Message(kept[i]) \in Records
    BY <1>2, <1>4, RecordsOfCapture
  <2>2. following \in [1 .. count -> Records] /\ count \in Nat
    BY <1>2, <1>4, <2>1
  <2>3. \A i \in 1 .. count : following[i] = Message(kept[i])
    OBVIOUS
  <2> HIDE DEF following
  <2> QED BY <2>2, <2>3
<1> HIDE DEF following
<1>7. r \in Seq(Records)
  BY BootstrapSubmits DEF r
<1>8. /\ Len(r) = count + 1 /\ r[1] = Snapshot(id)
      /\ \A i \in 1 .. count : r[i + 1] = following[i]
  <2> DEFINE first == Snapshot(id)
  <2>1. first \in Records
    BY RecordsOfCapture
  <2> HIDE DEF first
  <2>2. /\ Len(<< first >> \o following) = count + 1 /\ (<< first >> \o following)[1] = first
        /\ \A i \in 1 .. count : (<< first >> \o following)[i + 1] = following[i]
    BY <1>2, <1>4, <1>6, <2>1
  <2> QED BY <1>5, <2>2 DEF first
<1>9. Len(r) - 1 = count /\ Len(r) \in 1 .. Len(kept) + 1
  BY <1>2, <1>4, <1>8
<1>10. \A i \in 1 .. Len(r) - 1 : r[i + 1] = Message(kept[i])
  BY <1>6, <1>8, <1>9
<1>11. /\ Len(r) = Len(kept) + 1 \/ (max_events # None /\ Len(r) = max_events - captured)
       /\ max_events # None => Len(r) <= max_events - captured
  BY <1>3, <1>4, <1>8
<1> QED BY <1>7, <1>8, <1>9, <1>10, <1>11 DEF IsBootstrap, r, kept

(* No marker is among it. *)
LEMMA BootstrapIsUnmarked ==
  ASSUME NEW r, NEW kept, NEW id, IsBootstrap(r, kept, id)
  PROVE  \A i \in 1 .. Len(r) : r[i] # Reconnect
<1> SUFFICES ASSUME NEW i \in 1 .. Len(r)
             PROVE  r[i] # Reconnect
  OBVIOUS
<1>1. r \in Seq(Records) /\ Len(r) \in Nat
  BY DEF IsBootstrap
<1>2. CASE i = 1
  BY <1>2 DEF IsBootstrap, Snapshot, Reconnect
<1>3. CASE i # 1
  <2>1. i - 1 \in 1 .. Len(r) - 1 /\ i = (i - 1) + 1
    BY <1>1, <1>3
  <2>2. r[i] = Message(kept[i - 1])
    BY <2>1 DEF IsBootstrap
  <2> QED BY <2>2 DEF Message, Reconnect
<1> QED BY <1>2, <1>3

(* The snapshot and what follows it fit in what the maximum has left. *)
LEMMA BootstrapFits ==
  ASSUME CaptureTypes, max_events # None, captured < max_events, NEW id \in UpdateIds
  PROVE  LET r == BootstrapRecords(id, Left)
         IN  /\ r \in Seq(Records) /\ Len(r) <= max_events - captured
             /\ \A i \in 1 .. Len(r) : r[i] # Reconnect
<1> DEFINE kept == Uncovered(buffered, id)
           r == BootstrapRecords(id, Left)
<1>1. IsBootstrap(r, kept, id)
  BY BootstrapIs
<1> HIDE DEF r, kept
<1>2. \A i \in 1 .. Len(r) : r[i] # Reconnect
  BY <1>1, BootstrapIsUnmarked
<1> QED BY <1>1, <1>2 DEF IsBootstrap, r

-------------------------------------------------------------------------------
Empty == {"Connecting", "Sleeping", "Bootstrapping", "Unwinding"}

(* The maximum counts what was submitted, and the snapshot has room. *)
QuotaInv ==
  max_events # None =>
    /\ Count <= max_events
    /\ task \notin Over => Count = captured + here
    /\ task \in Empty => here = 0 /\ captured < max_events

(* Where there is a maximum the counts are numbers. *)
LEMMA MaximumTypes ==
  ASSUME CaptureTypes, max_events # None
  PROVE  max_events \in Nat /\ captured \in Nat /\ here \in Nat
BY DEF CaptureTypes

(* A connection ends with all its events counted. *)
LEMMA AfterConnectionCount ==
  ASSUME Logs, CaptureTypes, QuotaInv, UNCHANGED settings, NEW events \in Nat,
         max_events # None => Count = events,
         TryAgain(events)
  PROVE  QuotaInv'
<1> SUFFICES ASSUME max_events # None
             PROVE  /\ Count' <= max_events
                    /\ task' \notin Over => Count' = captured' + here'
                    /\ task' \in Empty => here' = 0 /\ captured' < max_events
  BY DEF QuotaInv, settings
<1>1. captured' = events /\ here' = 0 /\ (SubmitNothing \/ Submit(<< Reconnect >>))
  BY DEF TryAgain, Leave
<1>2. Count' = events /\ events <= max_events
  BY <1>1, CountAfter DEF QuotaInv
<1>3. task' = "Ended" \/ (task' = "Sleeping" /\ ~ (events >= max_events))
  BY DEF TryAgain, QuotaMet
<1>4. max_events \in Nat
  BY MaximumTypes
<1> QED BY <1>1, <1>2, <1>3, <1>4 DEF Over, Empty

(* So does an error that nothing catches. *)
LEMMA AfterErrorCount ==
  ASSUME Logs, QuotaInv, UNCHANGED settings, Raise
  PROVE  QuotaInv'
<1>1. Count' = Count /\ task' = "Raised" /\ max_events' = max_events
  BY CountAfter DEF Raise, settings
<1> QED BY <1>1 DEF QuotaInv, Over, Empty

(* A step that takes the task somewhere else and counts nothing. *)
LEMMA QuietSteps ==
  ASSUME Logs, QuotaInv, UNCHANGED << settings, captured, here >>, SubmitNothing,
         task' \in Over \/ task' = task \/ (task \in Empty /\ task' \in Empty \cup {"Receiving"})
  PROVE  QuotaInv'
<1>1. Count' = Count /\ UNCHANGED << max_events, captured, here >>
  BY CountAfter DEF settings
<1> QED BY <1>1 DEF QuotaInv, Over, Empty

(* The rounds of a bootstrap, the last of which submits. *)
LEMMA BootstrapCount ==
  ASSUME Logs, CaptureTypes, QuotaInv, TakeDone \/ FinishRound
  PROVE  QuotaInv'
<1>1. task \in {"Bootstrapping", "Unwinding"} /\ UNCHANGED settings /\ captured \in Nat
  BY DEF TakeDone, FinishRound, CaptureTypes
<1>2. max_events # None => Count = captured /\ here = 0 /\ captured < max_events
  BY <1>1, MaximumTypes DEF QuotaInv, Over, Empty
<1>3. CASE TryAgain(captured) \/ Raise
  BY <1>1, <1>2, <1>3, AfterConnectionCount, AfterErrorCount
<1>4. CASE /\ task' \in Empty \cup {"Receiving"}
           /\ SubmitNothing /\ UNCHANGED << captured, here >>
  BY <1>1, <1>4, QuietSteps DEF Empty
<1>5. ASSUME NEW id \in UpdateIds, SubmitBootstrap(id)
      PROVE  QuotaInv'
  <2> SUFFICES ASSUME max_events # None
               PROVE  QuotaInv'
    BY <1>1 DEF QuotaInv, settings
  <2> DEFINE r == BootstrapRecords(id, Left)
  <2>1. /\ r \in Seq(Records) /\ Len(r) <= max_events - captured
        /\ \A i \in 1 .. Len(r) : r[i] # Reconnect
    BY <1>2, BootstrapFits
  <2>2. /\ Submit(r) /\ here' = Len(r) /\ task' = "Receiving"
        /\ captured' = captured /\ max_events' = max_events
    BY <1>1, <1>5 DEF SubmitBootstrap, settings
  <2> HIDE DEF r
  <2>3. Count' = captured + Len(r) /\ Len(r) \in Nat
    BY <1>2, <2>1, <2>2, CountAfter
  <2>4. max_events \in Nat /\ captured \in Nat
    BY MaximumTypes
  <2> QED BY <2>1, <2>2, <2>3, <2>4 DEF QuotaInv, Empty
<1>6. CASE TakeDone
  <2>1. TryAgain(captured) \/ Raise \/ (/\ task' \in {"Unwinding", task}
                                        /\ SubmitNothing /\ UNCHANGED << captured, here >>)
    BY <1>6 DEF TakeDone
  <2> QED BY <1>1, <1>3, <1>4, <2>1 DEF Empty
<1>7. CASE FinishRound
  <2>1. \/ TryAgain(captured) \/ Raise \/ FetchAgain
        \/ \E id \in UpdateIds : SubmitBootstrap(id)
    BY <1>7 DEF FinishRound
  <2>2. CASE FetchAgain
    BY <1>4, <2>2 DEF FetchAgain, Empty
  <2> QED BY <1>3, <1>5, <2>1, <2>2
<1> QED BY <1>6, <1>7

(* Reception counts each message, and its end those of the connection. *)
LEMMA ReceivingCount ==
  ASSUME Logs, CaptureTypes, QuotaInv, TakeMessage \/ StopReceiving \/ LoseConnection
  PROVE  QuotaInv'
<1>1. task = "Receiving" /\ UNCHANGED settings /\ captured \in Nat /\ captured + here \in Nat
  BY DEF TakeMessage, StopReceiving, LoseConnection, CaptureTypes
<1>2. CASE max_events = None
  BY <1>1, <1>2 DEF QuotaInv, settings
<1>3. CASE max_events # None
  <2>1. Count = captured + here
    BY <1>1, <1>3 DEF QuotaInv, Over
  <2>2. CASE TakeMessage
    <3> DEFINE r == << Message(heard + 1) >>
    <3>1. /\ Submit(r) /\ here' = here + 1 /\ task' = task /\ heard + 1 \in Numbers
          /\ UNCHANGED << max_events, captured >> /\ ~ (captured + here >= max_events)
      BY <1>3, <2>2, StreamNumbers DEF TakeMessage, settings, QuotaMet, CaptureTypes
    <3>2. r \in Seq(Records) /\ Len(r) = 1 /\ r[1] # Reconnect
      BY <3>1, RecordsOfCapture DEF Message, Reconnect
    <3> HIDE DEF r
    <3>3. \A i \in 1 .. Len(r) : r[i] # Reconnect
      BY <3>2
    <3>4. Count' = Count + 1
      BY <3>1, <3>2, <3>3, CountAfter
    <3>5. max_events \in Nat /\ captured \in Nat /\ here \in Nat
      BY <1>3, MaximumTypes
    <3> QED BY <1>1, <2>1, <3>1, <3>4, <3>5 DEF QuotaInv, Empty
  <2>3. CASE StopReceiving \/ LoseConnection
    <3>1. TryAgain(captured + here)
      BY <1>3, <2>3 DEF StopReceiving, LoseConnection, ConnectionReturns
    <3> QED BY <1>1, <2>1, <3>1, AfterConnectionCount
  <2> QED BY <2>2, <2>3
<1> QED BY <1>2, <1>3

(* Every step of the capture keeps the count. *)
LEMMA CapturingKeepsQuota ==
  ASSUME Logs, CaptureTypes, QuotaInv, CapturingStep
  PROVE  QuotaInv'
<1>1. CASE Wake \/ FetchSnapshot \/ ReceiveForBuffer \/ Expire
  <2>1. /\ UNCHANGED << settings, captured, here >> /\ SubmitNothing
        /\ task' = task \/ (task = "Sleeping" /\ task' = "Connecting")
    BY <1>1 DEF Wake, FetchSnapshot, ReceiveForBuffer, Expire, connectionVars
  <2> QED BY <2>1, QuietSteps DEF Empty
<1>2. CASE Connect
  <2>1. /\ task = "Connecting" /\ task' \in {"Bootstrapping", "Receiving"}
        /\ UNCHANGED << max_events, captured >> /\ here' = 0 /\ SubmitNothing
    BY <1>2 DEF Connect, settings
  <2>2. Count' = Count
    BY <2>1, CountAfter
  <2> QED BY <2>1, <2>2 DEF QuotaInv, Over, Empty
<1>3. CASE ConnectFails
  <2>1. task = "Connecting" /\ UNCHANGED settings /\ captured \in Nat /\ TryAgain(captured)
    BY <1>3 DEF ConnectFails, CaptureTypes
  <2>2. max_events # None => Count = captured
    BY <2>1, MaximumTypes DEF QuotaInv, Over, Empty
  <2> QED BY <2>1, <2>2, AfterConnectionCount
<1>4. CASE RaiseFatal
  BY <1>4, AfterErrorCount DEF RaiseFatal
<1>5. CASE CancelTask
  <2>1. UNCHANGED settings /\ captured \in Nat
    BY <1>5 DEF CancelTask, CaptureTypes
  <2>2. CASE /\ captured' = captured /\ SubmitNothing
             /\ (task' = "Cancelled" \/ UNCHANGED << task, here >>)
    <3>1. Count' = Count /\ max_events' = max_events
      BY <2>1, <2>2, CountAfter DEF settings
    <3> QED BY <2>2, <3>1 DEF QuotaInv, Over, Empty
  <2>3. CASE task = "Bootstrapping" /\ TryAgain(captured)
    <3>1. max_events # None => Count = captured
      BY <2>1, <2>3, MaximumTypes DEF QuotaInv, Over, Empty
    <3> QED BY <2>1, <2>3, <3>1, AfterConnectionCount
  <2>4. CASE Raise
    BY <2>1, <2>4, AfterErrorCount
  <2> QED BY <1>5, <2>2, <2>3, <2>4 DEF CancelTask, connectionVars
<1>6. CASE SubmitNothing /\ UNCHANGED captureVars
  BY <1>6, QuietSteps DEF captureVars, settings
<1>7. CASE TakeDone \/ FinishRound \/ TakeMessage \/ StopReceiving \/ LoseConnection
  BY <1>7, BootstrapCount, ReceivingCount
<1> QED BY <1>1, <1>2, <1>3, <1>4, <1>5, <1>6, <1>7 DEF CapturingStep, TaskStep, TransferStep

(* The count never exceeds the maximum, and leaves room for a snapshot. *)
LEMMA QuotaInvariant == Spec => []QuotaInv
<1>1. Init => QuotaInv
  <2> SUFFICES ASSUME Init
               PROVE  QuotaInv
    OBVIOUS
  <2>1. submitted = << >> /\ captured = 0 /\ here = 0
        /\ max_events \in (Nat \ {0}) \cup {None}
    BY SettingsAssumption DEF Init, WriterInit, CaptureInit
  <2>2. Events(submitted) = {}
    BY <2>1 DEF Events
  <2>3. Count = 0
    BY <2>2, FS_EmptySet DEF Count
  <2> QED BY <2>1, <2>3 DEF QuotaInv
<1>2. Inv /\ QuotaInv /\ [Next]_vars => QuotaInv'
  <2> SUFFICES ASSUME Inv, QuotaInv, [Next]_vars
               PROVE  QuotaInv'
    OBVIOUS
  <2>1. Logs /\ CaptureTypes
    BY DEF Inv, LogInv
  <2>2. CASE UNCHANGED << captureVars, submitted >>
    BY <2>2 DEF captureVars, QuotaInv, Count
  <2>3. CASE Next
    <3>1. CapturingStep \/ UNCHANGED << captureVars, submitted >>
      BY <2>3, Steps, WriterKeepsInv
    <3> QED BY <2>1, <2>2, <3>1, CapturingKeepsQuota
  <2>4. CASE UNCHANGED vars
    BY <2>2, <2>4 DEF vars, writerVars
  <2> QED BY <2>3, <2>4
<1> QED BY <1>1, <1>2, RunInvariant, PTL DEF Spec

(***************************************************************************)
(* Snapshots, buffered messages and live ones are all counted: whatever    *)
(* ends the connections there are no more of them than the maximum.        *)
(***************************************************************************)
THEOREM QuotaIsAlwaysKept == Spec => []QuotaIsKept
<1>1. QuotaInv => QuotaIsKept
  BY DEF QuotaInv, QuotaIsKept, Count, Events
<1> QED BY <1>1, QuotaInvariant, PTL

-------------------------------------------------------------------------------
(* What Inv does not say of the types. *)
OtherTypes ==
  /\ << bootstraps, max_events >> \in Settings
  /\ task \in TaskStates
  /\ expired \in BOOLEAN
  /\ attempts \in 1 .. MaxAttempts
  /\ live \in Nat
  /\ joined \in 0 .. Len(Stream)
  /\ fetched \in BOOLEAN
  /\ received \in {"Pending", "Message", "Error"}
  /\ others_done \in BOOLEAN

(* However a connection ends. *)
LEMMA EndingTypes ==
  ASSUME CaptureTypes, OtherTypes, UNCHANGED << settings, expired >>, others_done' \in BOOLEAN,
         Raise \/ ConnectionReturns \/ \E events \in Nat : TryAgain(events)
  PROVE  OtherTypes'
<1>1. /\ fetched' = FALSE /\ received' = "Pending" /\ joined' = heard /\ live' = 0
      /\ task' \in {"Ended", "Sleeping", "Raised"}
      /\ attempts' = attempts \/ (attempts < MaxAttempts /\ attempts' = attempts + 1)
  BY DEF Raise, ConnectionReturns, TryAgain, Leave
<1>2. attempts' \in 1 .. MaxAttempts
  BY <1>1, MaxAttemptsAssumption DEF OtherTypes
<1>3. heard \in 0 .. Len(Stream) /\ 0 \in Nat
  BY DEF CaptureTypes
<1>4. task' \in TaskStates
  BY <1>1 DEF TaskStates, Over
<1> QED BY <1>1, <1>2, <1>3, <1>4 DEF OtherTypes, settings

(* Every step of the capture keeps the types. *)
LEMMA CapturingTypes ==
  ASSUME Logs, CaptureTypes, OtherTypes, CapturingStep, others_done' \in BOOLEAN
  PROVE  OtherTypes'
<1>1. captured \in Nat /\ captured + here \in Nat /\ Len(submitted) \in Nat
  BY DEF CaptureTypes, Logs
<1>2. CASE Wake \/ FetchSnapshot \/ ReceiveForBuffer \/ Expire \/ TakeMessage
  <2>1. /\ UNCHANGED << settings, attempts, live, joined >>
        /\ expired' \in {TRUE, expired} /\ fetched' \in {TRUE, fetched}
        /\ received' \in {received, "Message", "Error"} /\ task' \in {task, "Connecting"}
    BY <1>2 DEF Wake, FetchSnapshot, ReceiveForBuffer, Expire, TakeMessage, connectionVars
  <2> QED BY <2>1 DEF OtherTypes, settings, TaskStates
<1>3. CASE Connect
  <2>1. /\ task' \in {"Bootstrapping", "Receiving"} /\ fetched' = FALSE
        /\ received' = "Pending" /\ joined' \in heard .. Len(Stream) /\ live' = Len(submitted)
        /\ UNCHANGED << settings, expired, attempts >>
    BY <1>3 DEF Connect
  <2>2. joined' \in 0 .. Len(Stream)
    BY <2>1, StreamNumbers DEF CaptureTypes
  <2> QED BY <1>1, <2>1, <2>2 DEF OtherTypes, settings, TaskStates
<1>4. ASSUME UNCHANGED << settings, expired >>,
             Raise \/ ConnectionReturns \/ \E events \in Nat : TryAgain(events)
      PROVE  OtherTypes'
  BY <1>4, EndingTypes
<1>5. CASE ConnectFails \/ StopReceiving \/ LoseConnection \/ RaiseFatal
  BY <1>1, <1>4, <1>5 DEF ConnectFails, StopReceiving, LoseConnection, RaiseFatal
<1>6. CASE TakeDone
  <2>1. UNCHANGED << settings, expired >>
    BY <1>6 DEF TakeDone
  <2>2. \/ Raise \/ TryAgain(captured)
        \/ /\ task' \in {task, "Unwinding"} /\ received' = "Pending"
           /\ UNCHANGED << attempts, fetched, joined, live >>
    BY <1>6 DEF TakeDone
  <2> QED BY <1>1, <1>4, <2>1, <2>2 DEF OtherTypes, settings, TaskStates
<1>7. CASE FinishRound
  <2>1. UNCHANGED << settings, expired >>
    BY <1>7 DEF FinishRound
  <2>2. CASE Raise \/ TryAgain(captured)
    BY <1>1, <1>4, <2>1, <2>2
  <2>3. CASE FetchAgain
    BY <2>1, <2>3 DEF FetchAgain, OtherTypes, settings, TaskStates
  <2>4. ASSUME NEW id \in UpdateIds, SubmitBootstrap(id)
        PROVE  OtherTypes'
    <3> DEFINE r == BootstrapRecords(id, Left)
    <3>1. r \in Seq(Records)
      BY BootstrapSubmits
    <3>2. /\ live' = Len(submitted) + Len(r) /\ task' = "Receiving" /\ fetched' = FALSE
          /\ UNCHANGED << attempts, received, joined >>
      BY <2>4 DEF SubmitBootstrap
    <3> HIDE DEF r
    <3>3. live' \in Nat /\ task' \in TaskStates
      BY <1>1, <3>1, <3>2 DEF TaskStates
    <3>4. UNCHANGED << bootstraps, max_events, expired >>
      BY <2>1 DEF settings
    <3> QED BY <3>2, <3>3, <3>4 DEF OtherTypes
  <2> QED BY <1>7, <2>2, <2>3, <2>4 DEF FinishRound
<1>8. CASE CancelTask
  <2>1. UNCHANGED << bootstraps, max_events, expired, settings >>
    BY <1>8 DEF CancelTask, settings
  <2>2. CASE UNCHANGED << task, attempts, connectionVars >>
    BY <2>1, <2>2 DEF connectionVars, OtherTypes
  <2>3. CASE TryAgain(captured) \/ Raise
    BY <1>1, <1>4, <2>1, <2>3
  <2>4. CASE task' = "Cancelled" /\ Leave /\ attempts' = attempts
    <3>1. /\ task' = "Cancelled" /\ fetched' = FALSE /\ received' = "Pending"
          /\ joined' = heard /\ live' = 0
      BY <2>4 DEF Leave
    <3>2. heard \in 0 .. Len(Stream) /\ task' \in TaskStates
      BY <3>1 DEF CaptureTypes, TaskStates, Over
    <3> QED BY <2>1, <2>4, <3>1, <3>2 DEF OtherTypes
  <2> QED BY <1>8, <2>2, <2>3, <2>4 DEF CancelTask
<1>9. CASE UNCHANGED captureVars
  BY <1>9 DEF captureVars, OtherTypes
<1> QED
  BY <1>2, <1>3, <1>5, <1>6, <1>7, <1>8, <1>9 DEF CapturingStep, TaskStep, TransferStep

(* Every variable keeps its type, for streams, settings and bounds of any size. *)
THEOREM RunTypeCorrect == Spec => []TypeOK
<1>1. Init => OtherTypes
  <2> SUFFICES ASSUME Init
               PROVE  OtherTypes
    OBVIOUS
  <2>1. << bootstraps, max_events >> \in Settings
    <3>1. PICK setting \in Settings : bootstraps = setting[1] /\ max_events = setting[2]
      BY DEF Init, CaptureInit
    <3>2. setting = << setting[1], setting[2] >>
      BY SettingsAssumption
    <3> QED BY <3>1, <3>2
  <2>2. 1 \in 1 .. MaxAttempts /\ 0 \in 0 .. Len(Stream) /\ 0 \in Nat
    BY MaxAttemptsAssumption, StreamNumbers
  <2> QED BY <2>1, <2>2 DEF Init, CaptureInit, OtherTypes, TaskStates
<1>2. Inv /\ OtherTypes /\ [Next]_vars => OtherTypes'
  <2> SUFFICES ASSUME Inv, OtherTypes, [Next]_vars
               PROVE  OtherTypes'
    OBVIOUS
  <2>1. Logs /\ CaptureTypes
    BY DEF Inv, LogInv
  <2>2. others_done' \in BOOLEAN
    BY DEF OtherTypes, Next, vars, CaptureStep, Surroundings, Timer, WriterTask, OthersEnd,
           OthersRaise, RunStep, CloseWriters, Closed, OtherCloseFails
  <2>3. CASE UNCHANGED captureVars
    BY <2>2, <2>3 DEF captureVars, OtherTypes
  <2>4. CASE Next
    <3>1. CapturingStep \/ UNCHANGED captureVars
      BY <2>4, Steps
    <3> QED BY <2>1, <2>2, <2>3, <3>1, CapturingTypes
  <2>5. CASE UNCHANGED vars
    BY <2>3, <2>5 DEF vars
  <2> QED BY <2>4, <2>5
<1>3. Inv /\ OtherTypes => TypeOK
  BY DEF Inv, LogInv, Logs, TornInv, RunInv, CaptureTypes, OtherTypes, TypeOK, WriterTypeOK
<1> QED BY <1>1, <1>2, <1>3, RunInvariant, PTL DEF Spec

-------------------------------------------------------------------------------
(* The last connection of a list of records, and the place of its marker. *)
LastMarker(records) ==
  LET markers == {i \in DOMAIN records : records[i] = Reconnect}
  IN  IF markers = {} THEN 0 ELSE CHOOSE i \in markers : \A j \in markers : j <= i

LastOf(records) == SubSeq(records, LastMarker(records) + 1, Len(records))

(* The greatest of some places in a list. *)
LEMMA GreatestPlace ==
  ASSUME NEW n \in Nat, NEW S \in SUBSET (1 .. n), S # {}
  PROVE  \E x \in S : \A y \in S : y <= x
<1> DEFINE T == {n - x : x \in S}
<1>1. T \in SUBSET Nat /\ T # {}
  <2>1. \A x \in S : n - x \in Nat
    OBVIOUS
  <2>2. PICK x \in S : TRUE
    OBVIOUS
  <2> QED BY <2>1, <2>2
<1> HIDE DEF T
<1>2. PICK t \in T : \A u \in T : t <= u
  BY <1>1, LeastNatural
<1>3. PICK x \in S : t = n - x
  BY DEF T
<1>4. \A y \in S : n - x <= n - y
  BY <1>2, <1>3 DEF T
<1> QED BY <1>4

(* The records behind the last marker. *)
LEMMA LastConnectionIs ==
  ASSUME NEW s \in Seq(Records)
  PROVE  /\ LastMarker(s) \in 0 .. Len(s)
         /\ LastOf(s) \in Seq(Records)
         /\ Len(LastOf(s)) = Len(s) - LastMarker(s)
         /\ \A k \in 1 .. Len(LastOf(s)) : LastOf(s)[k] = s[LastMarker(s) + k]
<1> DEFINE markers == {i \in DOMAIN s : s[i] = Reconnect}
           last == LastMarker(s)
<1>1. Len(s) \in Nat /\ DOMAIN s = 1 .. Len(s)
  OBVIOUS
<1>2. last \in 0 .. Len(s)
  <2>1. CASE markers = {}
    BY <1>1, <2>1 DEF LastMarker
  <2>2. CASE markers # {}
    <3>1. last = CHOOSE i \in markers : \A j \in markers : j <= i
      BY <2>2 DEF LastMarker
    <3>2. markers \in SUBSET (1 .. Len(s))
      BY <1>1
    <3> HIDE DEF markers
    <3>3. last \in markers
      BY <1>1, <2>2, <3>1, <3>2, GreatestPlace
    <3> HIDE DEF last
    <3>4. last \in 1 .. Len(s)
      BY <3>2, <3>3
    <3> QED BY <1>1, <3>4
  <2> QED BY <2>1, <2>2
<1> HIDE DEF last
<1> DEFINE c == SubSeq(s, last + 1, Len(s))
<1>3. /\ c \in Seq(Records) /\ Len(c) = Len(s) - last
      /\ \A k \in 1 .. Len(c) : c[k] = s[last + k]
  <2>1. /\ last + 1 \in Int /\ Len(s) \in Int /\ (Len(s) - (last + 1)) + 1 = Len(s) - last
        /\ Len(s) - last \in Nat /\ (last + 1 <= Len(s) <=> last # Len(s))
        /\ \A i \in last + 1 .. Len(s) : i \in 1 .. Len(s)
    <3>1. Len(s) \in Nat /\ last \in Int /\ 0 <= last /\ last <= Len(s)
      BY <1>1, <1>2
    <3>2. \A n \in Nat, x \in Int : 0 <= x /\ x <= n =>
            /\ x + 1 \in Int /\ (n - (x + 1)) + 1 = n - x /\ n - x \in Nat
            /\ (x + 1 <= n <=> x # n)
            /\ \A i \in x + 1 .. n : i \in 1 .. n
      OBVIOUS
    <3> QED BY <3>1, <3>2
  <2>2. \A i \in last + 1 .. Len(s) : s[i] \in Records
    BY <1>1, <2>1
  <2>3. /\ c \in Seq(Records)
        /\ Len(c) = IF last + 1 <= Len(s) THEN (Len(s) - (last + 1)) + 1 ELSE 0
        /\ \A i \in 1 .. (Len(s) - (last + 1)) + 1 : c[i] = s[(last + 1) + (i - 1)]
    <3> DEFINE m == last + 1
               n == Len(s)
    <3>1. m \in Int /\ n \in Int /\ \A i \in m .. n : s[i] \in Records
      BY <2>1, <2>2
    <3> HIDE DEF m, n
    <3>2. /\ SubSeq(s, m, n) \in Seq(Records)
          /\ Len(SubSeq(s, m, n)) = IF m <= n THEN (n - m) + 1 ELSE 0
          /\ \A i \in 1 .. (n - m) + 1 : SubSeq(s, m, n)[i] = s[m + (i - 1)]
      BY <3>1, SubSeqProperties
    <3> QED BY <3>2 DEF m, n
  <2> HIDE DEF c
  <2>4. Len(c) = Len(s) - last
    <3>1. Len(s) \in Int /\ last \in Int
      BY <1>1, <1>2
    <3>2. CASE last = Len(s)
      <4>1. Len(c) = 0
        BY <2>1, <2>3, <3>2
      <4> QED BY <3>1, <3>2, <4>1
    <3>3. CASE last # Len(s)
      <4>1. Len(c) = (Len(s) - (last + 1)) + 1
        BY <2>1, <2>3, <3>3
      <4> QED BY <2>1, <4>1
    <3> QED BY <3>2, <3>3
  <2>5. \A i \in 1 .. Len(s) - last : (last + 1) + (i - 1) = last + i
    BY <1>1, <1>2
  <2>6. \A i \in 1 .. Len(c) : c[i] = s[(last + 1) + (i - 1)]
    BY <2>1, <2>3, <2>4
  <2>7. \A i \in 1 .. Len(c) : (last + 1) + (i - 1) = last + i
    BY <2>4, <2>5
  <2>8. \A i \in 1 .. Len(c) : c[i] = s[last + i]
    BY <2>6, <2>7, Zenon
  <2> QED BY <2>3, <2>4, <2>8, Zenon
<1> QED BY <1>2, <1>3 DEF LastOf, last

(* Records without a marker belong to the connection. *)
LEMMA LastConnectionGrows ==
  ASSUME NEW s \in Seq(Records), NEW r \in Seq(Records), \A i \in 1 .. Len(r) : r[i] # Reconnect
  PROVE  /\ LastMarker(s \o r) = LastMarker(s)
         /\ LastOf(s \o r) = LastOf(s) \o r
<1> DEFINE t == s \o r
           c == LastOf(s)
           d == LastOf(t)
<1>1. /\ t \in Seq(Records) /\ Len(t) = Len(s) + Len(r) /\ Len(s) \in Nat /\ Len(r) \in Nat
      /\ DOMAIN t = 1 .. Len(s) + Len(r) /\ DOMAIN s = 1 .. Len(s)
      /\ \A i \in 1 .. Len(s) : t[i] = s[i]
      /\ \A i \in 1 .. Len(r) : t[Len(s) + i] = r[i]
  OBVIOUS
<1> HIDE DEF t
<1>2. {i \in DOMAIN t : t[i] = Reconnect} = {i \in DOMAIN s : s[i] = Reconnect}
  <2>1. \A i \in 1 .. Len(s) + Len(r) :
          i \in 1 .. Len(s) \/ (i - Len(s) \in 1 .. Len(r) /\ i = Len(s) + (i - Len(s)))
    BY <1>1
  <2>2. \A i \in 1 .. Len(s) : i \in 1 .. Len(s) + Len(r)
    BY <1>1
  <2>3. \A i \in 1 .. Len(s) + Len(r) : t[i] = Reconnect => i \in 1 .. Len(s)
    BY <1>1, <2>1
  <2> QED BY <1>1, <2>2, <2>3
<1>3. LastMarker(t) = LastMarker(s)
  <2> DEFINE A == {i \in DOMAIN t : t[i] = Reconnect}
             B == {i \in DOMAIN s : s[i] = Reconnect}
             greatest(S) == CHOOSE i \in S : \A j \in S : j <= i
  <2>1. /\ LastMarker(t) = IF A = {} THEN 0 ELSE greatest(A)
        /\ LastMarker(s) = IF B = {} THEN 0 ELSE greatest(B)
    BY DEF LastMarker
  <2>2. A = B
    BY <1>2
  <2> HIDE DEF A, B, greatest
  <2> QED BY <2>1, <2>2
<1> DEFINE last == LastMarker(s)
<1>4. /\ last \in 0 .. Len(s) /\ c \in Seq(Records) /\ Len(c) = Len(s) - last
      /\ \A k \in 1 .. Len(c) : c[k] = s[last + k]
  BY LastConnectionIs
<1>5. /\ d \in Seq(Records) /\ Len(d) = Len(t) - last
      /\ \A k \in 1 .. Len(d) : d[k] = t[last + k]
  <2>1. /\ d \in Seq(Records) /\ Len(d) = Len(t) - LastMarker(t)
        /\ \A k \in 1 .. Len(d) : d[k] = t[LastMarker(t) + k]
    BY <1>1, LastConnectionIs
  <2> HIDE DEF c, d, last
  <2>2. last = LastMarker(t)
    BY <1>3 DEF last
  <2> QED BY <2>1, <2>2, Zenon
<1> HIDE DEF c, d, last
<1>6. /\ c \o r \in Seq(Records) /\ Len(c \o r) = Len(c) + Len(r)
      /\ \A k \in 1 .. Len(c) : (c \o r)[k] = c[k]
      /\ \A k \in 1 .. Len(r) : (c \o r)[Len(c) + k] = r[k]
  <2>1. c \in Seq(Records)
    BY <1>4
  <2> QED BY <2>1
<1>7. Len(d) = Len(c \o r)
  BY <1>1, <1>4, <1>5, <1>6
<1>8. ASSUME NEW k \in 1 .. Len(d)
      PROVE  d[k] = (c \o r)[k]
  <2>1. d[k] = t[last + k]
    BY <1>5
  <2>2. CASE k \in 1 .. Len(c)
    <3>1. last + k \in 1 .. Len(s)
      BY <1>1, <1>4, <2>2
    <3> QED BY <1>1, <1>4, <1>6, <2>1, <2>2, <3>1
  <2>3. CASE k \notin 1 .. Len(c)
    <3>1. k - Len(c) \in 1 .. Len(r) /\ k = Len(c) + (k - Len(c))
          /\ last + k = Len(s) + (k - Len(c))
      BY <1>1, <1>4, <1>6, <1>7, <2>3
    <3> QED BY <1>1, <1>6, <2>1, <3>1
  <2> QED BY <2>2, <2>3
<1>9. d = c \o r
  BY <1>5, <1>6, <1>7, <1>8, SeqEqual
<1> QED BY <1>3, <1>9 DEF c, d, t, last

(* A marker leaves none. *)
LEMMA LastConnectionRestarts ==
  ASSUME NEW s \in Seq(Records)
  PROVE  LastOf(s \o << Reconnect >>) = << >>
<1> DEFINE marker == Reconnect
           t == s \o << marker >>
           markers == {i \in DOMAIN t : t[i] = marker}
<1>1. Len(s) \in Nat /\ marker \in Records
  BY RecordsOfCapture
<1> HIDE DEF marker
<1>2. /\ t \in Seq(Records) /\ Len(t) = Len(s) + 1 /\ DOMAIN t = 1 .. Len(s) + 1
      /\ t[Len(s) + 1] = marker
  BY <1>1
<1> HIDE DEF t
<1>3. Len(s) + 1 \in markers /\ \A i \in markers : i <= Len(s) + 1 /\ i \in Int
  BY <1>1, <1>2
<1>4. (CHOOSE i \in markers : \A j \in markers : j <= i) = Len(s) + 1
  <2> HIDE DEF markers
  <2>1. \E i \in markers : \A j \in markers : j <= i
    BY <1>3
  <2> DEFINE i == CHOOSE i \in markers : \A j \in markers : j <= i
  <2>2. i \in markers /\ \A j \in markers : j <= i
    BY <2>1
  <2> HIDE DEF i
  <2>3. i \in Int /\ i <= Len(s) + 1 /\ Len(s) + 1 <= i
    BY <1>3, <2>2
  <2> QED BY <1>1, <2>3 DEF i
<1>5. LastMarker(t) = Len(s) + 1
  BY <1>3, <1>4 DEF LastMarker, marker
<1>6. LastOf(t) \in Seq(Records) /\ Len(LastOf(t)) = 0
  <2>1. Len(LastOf(t)) = Len(t) - LastMarker(t) /\ LastOf(t) \in Seq(Records)
    BY <1>2, LastConnectionIs
  <2> QED BY <1>1, <1>2, <1>5, <2>1
<1>7. LastOf(t) = << >>
  <2> DEFINE c == LastOf(t)
  <2>1. c \in Seq(Records) /\ Len(c) = 0
    BY <1>6
  <2> HIDE DEF c
  <2>2. c = << >>
    BY <2>1, EmptySeq
  <2> QED BY <2>2 DEF c
<1> QED BY <1>7 DEF t, marker
-------------------------------------------------------------------------------
(* The numbers from one to another that a snapshot leaves, in their order. *)
KeptBetween(kept, from, to, id) ==
  /\ kept \in Seq(Numbers)
  /\ \A i, j \in 1 .. Len(kept) : i < j => kept[i] < kept[j]
  /\ \A i \in 1 .. Len(kept) : kept[i] \in from .. to
  /\ \A m \in from .. to : IsCovered(m, id) \/ \E i \in 1 .. Len(kept) : kept[i] = m

(* The next number is kept, or covered. *)
LEMMA KeptOneMore ==
  ASSUME NEW kept, NEW from \in Nat, NEW to \in Int, NEW id, from <= to + 1,
         to + 1 \in Numbers, KeptBetween(kept, from, to, id)
  PROVE  KeptBetween(IF IsCovered(to + 1, id) THEN kept ELSE Append(kept, to + 1), from, to + 1, id)
<1>1. /\ kept \in Seq(Numbers) /\ Len(kept) \in Nat
      /\ \A i, j \in 1 .. Len(kept) : i < j => kept[i] < kept[j]
      /\ \A i \in 1 .. Len(kept) : kept[i] \in from .. to
      /\ \A m \in from .. to : IsCovered(m, id) \/ \E i \in 1 .. Len(kept) : kept[i] = m
  BY DEF KeptBetween
<1>2. \A m \in from .. to + 1 : m \in from .. to \/ m = to + 1
  OBVIOUS
<1>3. \A m \in from .. to : m \in from .. to + 1 /\ m < to + 1
  OBVIOUS
<1>4. to + 1 \in from .. to + 1
  OBVIOUS
<1>5. CASE IsCovered(to + 1, id)
  <2>1. KeptBetween(kept, from, to + 1, id)
    BY <1>1, <1>2, <1>3, <1>5 DEF KeptBetween
  <2> QED BY <1>5, <2>1
<1>6. CASE ~ IsCovered(to + 1, id)
  <2> DEFINE next == to + 1
             s == Append(kept, next)
  <2>1. /\ s \in Seq(Numbers) /\ Len(s) = Len(kept) + 1 /\ s[Len(kept) + 1] = next
        /\ \A i \in 1 .. Len(kept) : s[i] = kept[i]
    BY <1>1, AppendProperties
  <2>2. \A i \in 1 .. Len(kept) + 1 : i \in 1 .. Len(kept) \/ i = Len(kept) + 1
    BY <1>1
  <2>3. \A i \in 1 .. Len(kept) : i \in 1 .. Len(kept) + 1
    BY <1>1
  <2>4. \A i, j \in 1 .. Len(kept) + 1 : i < j => i \in 1 .. Len(kept)
    BY <1>1
  <2>5. Len(kept) + 1 \in 1 .. Len(kept) + 1
    BY <1>1
  <2>6. /\ \A m \in from .. next : m \in from .. to \/ m = next
        /\ \A m \in from .. to : m \in from .. next /\ m < next
        /\ next \in from .. next
    BY <1>2, <1>3, <1>4
  <2> HIDE DEF s, next
  <2>7. \A i, j \in 1 .. Len(s) : i < j => s[i] < s[j]
    BY <1>1, <2>1, <2>2, <2>4, <2>6
  <2>8. \A i \in 1 .. Len(s) : s[i] \in from .. next
    BY <1>1, <2>1, <2>2, <2>6
  <2>9. \A m \in from .. next : IsCovered(m, id) \/ \E i \in 1 .. Len(s) : s[i] = m
    <3> TAKE m \in from .. next
    <3>1. CASE m = next
      BY <2>1, <2>5, <3>1
    <3>2. CASE m \in from .. to
      BY <1>1, <2>1, <2>3, <3>2
    <3> QED BY <2>6, <3>1, <3>2
  <2>10. KeptBetween(s, from, next, id)
    BY <2>1, <2>7, <2>8, <2>9 DEF KeptBetween
  <2> QED BY <1>6, <2>10 DEF s, next
<1> QED BY <1>5, <1>6

(* Nothing of what was buffered is lost but what the snapshot covers. *)
LEMMA UncoveredAreKept ==
  ASSUME NEW messages \in Seq(Numbers), NEW from \in Nat, NEW id,
         \A k \in 1 .. Len(messages) : messages[k] = from + k
  PROVE  KeptBetween(Uncovered(messages, id), from + 1, from + Len(messages), id)
<1>1. Len(messages) \in Nat
  OBVIOUS
<1>2. PICK kept : IsKept(kept, messages, id) /\ Uncovered(messages, id) = kept[Len(messages)]
  BY UncoveredIsKept
<1> DEFINE T == {n \in Nat : n <= Len(messages) => KeptBetween(kept[n], from + 1, from + n, id)}
<1>3. T \in SUBSET Nat /\ 0 \in T
  <2>1. kept[0] = << >>
    BY <1>2 DEF IsKept
  <2>2. << >> \in Seq(Numbers) /\ Len(<< >>) = 0 /\ 1 .. 0 = {} /\ from + 1 .. from + 0 = {}
    OBVIOUS
  <2>3. KeptBetween(<< >>, from + 1, from + 0, id)
    BY <2>2 DEF KeptBetween
  <2> QED BY <2>1, <2>3
<1>4. ASSUME NEW n \in T
      PROVE  n + 1 \in T
  <2> SUFFICES ASSUME n + 1 <= Len(messages)
               PROVE  KeptBetween(kept[n + 1], from + 1, from + (n + 1), id)
    OBVIOUS
  <2>1. n \in Nat /\ n + 1 \in 1 .. Len(messages) /\ (n + 1) - 1 = n /\ n <= Len(messages)
    BY <1>1
  <2>2. KeptBetween(kept[n], from + 1, from + n, id)
    BY <2>1
  <2>3. messages[n + 1] = from + (n + 1) /\ messages[n + 1] \in Numbers
    BY <2>1
  <2>4. /\ from + (n + 1) = (from + n) + 1 /\ from + 1 \in Nat /\ from + n \in Int
        /\ from + 1 <= (from + n) + 1
    BY <2>1
  <2>5. kept[n + 1] = IF IsCovered((from + n) + 1, id) THEN kept[n]
                      ELSE Append(kept[n], (from + n) + 1)
    BY <1>2, <2>1, <2>3, <2>4 DEF IsKept
  <2>6. (from + n) + 1 \in Numbers
    BY <2>3, <2>4
  <2> HIDE DEF T
  <2>7. KeptBetween(kept[n + 1], from + 1, (from + n) + 1, id)
    BY <2>2, <2>4, <2>5, <2>6, KeptOneMore
  <2> QED BY <2>4, <2>7
<1>5. T = Nat
  <2> HIDE DEF T
  <2> QED BY <1>3, <1>4, NaturalsBySuccessor
<1>6. KeptBetween(kept[Len(messages)], from + 1, from + Len(messages), id)
  <2>1. Len(messages) \in T
    BY <1>1, <1>5
  <2>2. Len(messages) <= Len(messages)
    BY <1>1
  <2> QED BY <2>1, <2>2
<1> QED BY <1>2, <1>6
-------------------------------------------------------------------------------
(* The parts of CaptureRun's properties, said of a list of records. *)
IsMessage(c, i) == c[i][1] = "message"
IsSnapshot(c, i) == c[i][1] = "snapshot"

InOrder(c) ==
  \A i, j \in 1 .. Len(c) : i < j /\ IsMessage(c, i) /\ IsMessage(c, j) => c[i][2] < c[j][2]

Within(c, from, to) == \A i \in 1 .. Len(c) : IsMessage(c, i) => c[i][2] \in from .. to

Whole(c, from, to) ==
  \A m \in from .. to :
    \/ \E i \in 1 .. Len(c) : IsMessage(c, i) /\ c[i][2] = m
    \/ \E i \in 1 .. Len(c) : IsSnapshot(c, i) /\ IsCovered(m, c[i][2])

SnapshotOpens(c) == \A i \in 1 .. Len(c) : IsSnapshot(c, i) => i = 1

(* The record at place i is the first message after the snapshot at place s. *)
FirstPast(c, s, i) ==
  /\ IsMessage(c, i) /\ IsAfter(c[i][2], c[s][2])
  /\ \A j \in 1 .. Len(c) : IsMessage(c, j) /\ j < i => ~ IsAfter(c[j][2], c[s][2])

(* Of the first n records, such a message continues the snapshot. *)
Bridged(c, n) ==
  \A s, i \in 1 .. Len(c) :
    IsSnapshot(c, s) /\ i <= n /\ FirstPast(c, s, i) => c[s][2] + 1 \in Stream[c[i][2]]

(* A connection that has submitted nothing breaks none of them. *)
LEMMA EmptyConnection ==
  ASSUME NEW from, NEW to, NEW n
  PROVE  /\ InOrder(<< >>) /\ Within(<< >>, from, to) /\ SnapshotOpens(<< >>) /\ Bridged(<< >>, n)
         /\ from .. to = {} => Whole(<< >>, from, to)
<1>1. Len(<< >>) = 0 /\ 1 .. 0 = {}
  OBVIOUS
<1> QED BY <1>1 DEF InOrder, Within, SnapshotOpens, Bridged, Whole

(* The receiving loop adds the next message. *)
LEMMA MessageIsAdded ==
  ASSUME NEW c \in Seq(Records), NEW from \in Nat, NEW to \in Nat, NEW r \in Records,
         r[1] = "message", r[2] = to + 1, from <= to + 1,
         NEW n \in Int, n <= Len(c),
         InOrder(c), Within(c, from, to), SnapshotOpens(c), Bridged(c, n)
  PROVE  LET d == c \o << r >>
         IN  /\ InOrder(d) /\ Within(d, from, to + 1) /\ SnapshotOpens(d) /\ Bridged(d, n)
             /\ Whole(c, from, to) => Whole(d, from, to + 1)
<1> DEFINE d == c \o << r >>
           last == Len(c) + 1
<1>1. Len(c) \in Nat
  OBVIOUS
<1>2. Len(d) = last /\ d[last] = r /\ \A i \in 1 .. Len(c) : d[i] = c[i]
  BY <1>1
<1> HIDE DEF d
<1>3. /\ \A i \in 1 .. last : i \in 1 .. Len(c) \/ i = last
      /\ \A i \in 1 .. Len(c) : i \in 1 .. last /\ i # last
      /\ \A i, j \in 1 .. last : i < j => i \in 1 .. Len(c)
      /\ \A i \in 1 .. last : i <= n => i \in 1 .. Len(c)
      /\ last \in 1 .. last
  BY <1>1
<1>4. /\ \A m \in from .. to : m \in from .. to + 1 /\ m < to + 1
      /\ \A m \in from .. to + 1 : m \in from .. to \/ m = to + 1
      /\ to + 1 \in from .. to + 1
  OBVIOUS
<1>5. IsMessage(d, last) /\ ~ IsSnapshot(d, last) /\ d[last][2] = to + 1
  BY <1>2 DEF IsMessage, IsSnapshot
<1>6. \A i \in 1 .. Len(c) : /\ IsMessage(d, i) <=> IsMessage(c, i)
                             /\ IsSnapshot(d, i) <=> IsSnapshot(c, i)
                             /\ d[i][2] = c[i][2]
  BY <1>2 DEF IsMessage, IsSnapshot
<1>7. \A i \in 1 .. Len(c) : IsMessage(c, i) => c[i][2] \in from .. to
  BY DEF Within
<1> HIDE DEF last
<1>8. InOrder(d)
  <2> SUFFICES ASSUME NEW i \in 1 .. last, NEW j \in 1 .. last, i < j,
                      IsMessage(d, i), IsMessage(d, j)
               PROVE  d[i][2] < d[j][2]
    BY <1>2 DEF InOrder
  <2>1. i \in 1 .. Len(c) /\ IsMessage(c, i) /\ d[i][2] = c[i][2] /\ c[i][2] < to + 1
    BY <1>3, <1>4, <1>6, <1>7
  <2>2. CASE j = last
    BY <1>5, <2>1, <2>2
  <2>3. CASE j \in 1 .. Len(c)
    BY <1>6, <2>1, <2>3 DEF InOrder
  <2> QED BY <1>3, <2>2, <2>3
<1>9. Within(d, from, to + 1)
  <2> SUFFICES ASSUME NEW i \in 1 .. last, IsMessage(d, i)
               PROVE  d[i][2] \in from .. to + 1
    BY <1>2 DEF Within
  <2> QED BY <1>3, <1>4, <1>5, <1>6, <1>7
<1>10. SnapshotOpens(d)
  BY <1>2, <1>3, <1>5, <1>6 DEF SnapshotOpens
<1>11. Bridged(d, n)
  <2> SUFFICES ASSUME NEW s \in 1 .. last, NEW i \in 1 .. last,
                      IsSnapshot(d, s), i <= n, FirstPast(d, s, i)
               PROVE  d[s][2] + 1 \in Stream[d[i][2]]
    BY <1>2 DEF Bridged
  <2>1. s \in 1 .. Len(c) /\ i \in 1 .. Len(c) /\ IsSnapshot(c, s)
    BY <1>3, <1>5, <1>6
  <2>2. d[s][2] = c[s][2] /\ d[i][2] = c[i][2]
    BY <1>6, <2>1
  <2>3. FirstPast(c, s, i)
    <3>1. IsMessage(c, i) /\ IsAfter(c[i][2], c[s][2])
      BY <1>6, <2>1, <2>2 DEF FirstPast
    <3>2. ASSUME NEW j \in 1 .. Len(c), IsMessage(c, j), j < i
          PROVE  ~ IsAfter(c[j][2], c[s][2])
      <4>1. j \in 1 .. Len(d) /\ IsMessage(d, j) /\ d[j][2] = c[j][2]
        BY <1>2, <1>3, <1>6, <3>2
      <4> QED BY <2>2, <3>2, <4>1 DEF FirstPast
    <3> QED BY <3>1, <3>2 DEF FirstPast
  <2> QED BY <2>1, <2>2, <2>3 DEF Bridged
<1>12. ASSUME Whole(c, from, to)
       PROVE  Whole(d, from, to + 1)
  <2> SUFFICES ASSUME NEW m \in from .. to + 1
               PROVE  \/ \E i \in 1 .. last : IsMessage(d, i) /\ d[i][2] = m
                      \/ \E i \in 1 .. last : IsSnapshot(d, i) /\ IsCovered(m, d[i][2])
    BY <1>2 DEF Whole
  <2>1. CASE m = to + 1
    BY <1>3, <1>5, <2>1
  <2>2. CASE m \in from .. to
    <3>1. \/ \E i \in 1 .. Len(c) : IsMessage(c, i) /\ c[i][2] = m
          \/ \E i \in 1 .. Len(c) : IsSnapshot(c, i) /\ IsCovered(m, c[i][2])
      BY <1>12, <2>2 DEF Whole
    <3> QED BY <1>3, <1>6, <3>1
  <2> QED BY <1>4, <2>1, <2>2
<1> QED BY <1>8, <1>9, <1>10, <1>11, <1>12 DEF d

(* The records of a bootstrap whose snapshot bridges to what was buffered. *)
LEMMA BootstrapIsInOrder ==
  ASSUME NEW messages \in Seq(Numbers), NEW from \in Nat, NEW id, NEW kept, NEW r,
         \A k \in 1 .. Len(messages) : messages[k] = from + k,
         KeptBetween(kept, from + 1, from + Len(messages), id),
         IsBootstrap(r, kept, id), Bridges(messages, id)
  PROVE  LET to == from + Len(messages)
         IN  /\ InOrder(r) /\ Within(r, from + 1, to) /\ SnapshotOpens(r) /\ Bridged(r, Len(r))
             /\ Len(r) = Len(kept) + 1 => Whole(r, from + 1, to)
<1> DEFINE to == from + Len(messages)
<1>1. /\ kept \in Seq(Numbers) /\ Len(kept) \in Nat /\ Len(messages) \in Nat /\ to \in Nat
      /\ \A i, j \in 1 .. Len(kept) : i < j => kept[i] < kept[j]
      /\ \A i \in 1 .. Len(kept) : kept[i] \in from + 1 .. to
      /\ \A m \in from + 1 .. to : IsCovered(m, id) \/ \E i \in 1 .. Len(kept) : kept[i] = m
  BY DEF KeptBetween
<1>2. /\ Len(r) \in 1 .. Len(kept) + 1 /\ Len(r) \in Nat
      /\ r[1] = Snapshot(id)
      /\ \A i \in 1 .. Len(r) - 1 : r[i + 1] = Message(kept[i])
  BY <1>1 DEF IsBootstrap
<1>3. \A i \in 1 .. Len(r) : i = 1 \/ (i - 1 \in 1 .. Len(r) - 1 /\ i - 1 \in 1 .. Len(kept)
                                        /\ (i - 1) + 1 = i)
  BY <1>1, <1>2
<1>4. IsSnapshot(r, 1) /\ ~ IsMessage(r, 1) /\ r[1][2] = id
  BY <1>2 DEF Snapshot, IsSnapshot, IsMessage
<1>5. \A i \in 1 .. Len(r) : i # 1 => /\ i - 1 \in 1 .. Len(kept) /\ i \in Nat
                                      /\ IsMessage(r, i) /\ ~ IsSnapshot(r, i)
                                      /\ r[i][2] = kept[i - 1]
  <2> SUFFICES ASSUME NEW i \in 1 .. Len(r), i # 1
               PROVE  /\ i - 1 \in 1 .. Len(kept) /\ i \in Nat
                      /\ IsMessage(r, i) /\ ~ IsSnapshot(r, i) /\ r[i][2] = kept[i - 1]
    OBVIOUS
  <2>1. i - 1 \in 1 .. Len(r) - 1 /\ i - 1 \in 1 .. Len(kept) /\ (i - 1) + 1 = i /\ i \in Nat
    BY <1>2, <1>3
  <2>2. r[i] = Message(kept[i - 1])
    BY <1>2, <2>1
  <2> QED BY <2>1, <2>2 DEF Message, IsSnapshot, IsMessage
<1> HIDE DEF to
<1>6. InOrder(r)
  <2> SUFFICES ASSUME NEW i \in 1 .. Len(r), NEW j \in 1 .. Len(r), i < j,
                      IsMessage(r, i), IsMessage(r, j)
               PROVE  r[i][2] < r[j][2]
    BY DEF InOrder
  <2>1. /\ i - 1 \in 1 .. Len(kept) /\ r[i][2] = kept[i - 1]
        /\ j - 1 \in 1 .. Len(kept) /\ r[j][2] = kept[j - 1] /\ i - 1 < j - 1
    BY <1>4, <1>5
  <2> QED BY <1>1, <2>1
<1>7. Within(r, from + 1, to)
  BY <1>1, <1>4, <1>5 DEF Within
<1>8. SnapshotOpens(r)
  BY <1>5 DEF SnapshotOpens
<1>9. Bridged(r, Len(r))
  <2> SUFFICES ASSUME NEW s \in 1 .. Len(r), NEW i \in 1 .. Len(r),
                      IsSnapshot(r, s), FirstPast(r, s, i)
               PROVE  r[s][2] + 1 \in Stream[r[i][2]]
    BY DEF Bridged
  <2>1. r[s][2] = id
    BY <1>4, <1>5
  <2> DEFINE m == r[i][2]
             k == m - from
  <2>2. /\ IsMessage(r, i) /\ IsAfter(m, id) /\ i - 1 \in 1 .. Len(kept) /\ m = kept[i - 1]
        /\ \A j \in 1 .. Len(r) : IsMessage(r, j) /\ j < i => ~ IsAfter(r[j][2], id)
    BY <1>4, <1>5, <2>1 DEF FirstPast
  <2>3. m \in from + 1 .. to
    BY <1>1, <2>2
  <2> HIDE DEF m
  <2>4. k \in 1 .. Len(messages) /\ k \in Nat /\ m = from + k
    BY <1>1, <2>3 DEF to
  <2> HIDE DEF k
  <2>5. messages[k] = m
    BY <2>4
  <2>6. ASSUME NEW p \in 1 .. k - 1
        PROVE  ~ IsAfter(messages[p], id)
    <3>1. /\ p \in 1 .. Len(messages) /\ from + p \in from + 1 .. to /\ from + p < m
      BY <1>1, <2>4 DEF to
    <3>2. messages[p] = from + p
      BY <3>1
    <3>3. CASE IsCovered(from + p, id)
      BY <3>2, <3>3 DEF IsCovered
    <3>4. CASE ~ IsCovered(from + p, id)
      <4>1. PICK q \in 1 .. Len(kept) : kept[q] = from + p
        BY <1>1, <3>1, <3>4
      <4>2. q < i - 1
        <5> SUFFICES ASSUME ~ (q < i - 1)
                     PROVE  FALSE
          OBVIOUS
        <5>1. q = i - 1 \/ i - 1 < q
          BY <2>2
        <5>2. kept[i - 1] <= kept[q]
          BY <1>1, <2>2, <2>3, <5>1
        <5> QED BY <2>2, <2>3, <3>1, <4>1, <5>2
      <4>3. q + 1 \in 1 .. Len(r) /\ q + 1 # 1 /\ q + 1 < i /\ (q + 1) - 1 = q
        BY <1>1, <1>2, <2>2, <4>2
      <4>4. IsMessage(r, q + 1) /\ r[q + 1][2] = kept[q]
        BY <1>5, <4>3
      <4> QED BY <2>2, <3>2, <4>1, <4>3, <4>4
    <3> QED BY <3>3, <3>4
  <2>7. m \in FirstAfter(messages, id)
    BY <2>2, <2>4, <2>5, <2>6 DEF FirstAfter
  <2> QED BY <2>1, <2>7 DEF Bridges, m
<1>10. ASSUME Len(r) = Len(kept) + 1
       PROVE  Whole(r, from + 1, to)
  <2> SUFFICES ASSUME NEW m \in from + 1 .. to
               PROVE  \/ \E i \in 1 .. Len(r) : IsMessage(r, i) /\ r[i][2] = m
                      \/ \E i \in 1 .. Len(r) : IsSnapshot(r, i) /\ IsCovered(m, r[i][2])
    BY DEF Whole
  <2>1. CASE IsCovered(m, id)
    <3>1. 1 \in 1 .. Len(r)
      BY <1>2
    <3> QED BY <1>4, <2>1, <3>1
  <2>2. CASE ~ IsCovered(m, id)
    <3>1. PICK q \in 1 .. Len(kept) : kept[q] = m
      BY <1>1, <2>2
    <3>2. q + 1 \in 1 .. Len(r) /\ q + 1 # 1 /\ (q + 1) - 1 = q
      BY <1>1, <1>10, <3>1
    <3> QED BY <1>5, <3>1, <3>2
  <2> QED BY <2>1, <2>2
<1> QED BY <1>6, <1>7, <1>8, <1>9, <1>10 DEF to
-------------------------------------------------------------------------------
Connection == LastOf(submitted)
Live == live - LastMarker(submitted)

(* What was heard while the snapshot is fetched waits in the buffer. *)
Buffering ==
  /\ Len(buffered) = (heard - joined) - (IF received = "Message" THEN 1 ELSE 0)
  /\ \A k \in 1 .. Len(buffered) : buffered[k] = joined + k
  /\ task = "Unwinding" => received = "Pending"
  /\ live <= Len(submitted)

(* What the records of the connection are while it receives. *)
Receiving ==
  /\ Within(Connection, joined + 1, heard)
  /\ live <= Len(submitted)
  /\ Bridged(Connection, Live)
  /\ ~ expired /\ ~ QuotaMet(captured + here) => Whole(Connection, joined + 1, heard)

OrderInv ==
  /\ InOrder(Connection) /\ SnapshotOpens(Connection)
  /\ joined \in Nat /\ live \in Nat /\ joined <= heard
  /\ task \in Empty => Connection = << >>
  /\ task \in {"Bootstrapping", "Unwinding"} => Buffering
  /\ task = "Receiving" => Receiving
  /\ task \in Over => live = 0

(* The connection after the records of a step. *)
LEMMA ConnectionAfter ==
  ASSUME Logs
  PROVE  /\ Connection \in Seq(Records) /\ Len(submitted) \in Nat
         /\ LastMarker(submitted) \in 0 .. Len(submitted)
         /\ Len(Connection) = Len(submitted) - LastMarker(submitted)
         /\ SubmitNothing => Connection' = Connection /\ submitted' = submitted
         /\ Submit(<< Reconnect >>) => Connection' = << >>
         /\ \A r \in Seq(Records) :
              (Submit(r) /\ \A i \in 1 .. Len(r) : r[i] # Reconnect) =>
                /\ Connection' = Connection \o r
                /\ LastMarker(submitted)' = LastMarker(submitted)
                /\ Len(submitted') = Len(submitted) + Len(r)
<1>1. submitted \in Seq(Records) /\ Len(submitted) \in Nat
  BY DEF Logs
<1>2. /\ Connection \in Seq(Records) /\ LastMarker(submitted) \in 0 .. Len(submitted)
      /\ Len(Connection) = Len(submitted) - LastMarker(submitted)
  BY <1>1, LastConnectionIs DEF Connection
<1>3. SubmitNothing => Connection' = Connection /\ submitted' = submitted
  BY DEF SubmitNothing, Connection
<1>4. Submit(<< Reconnect >>) => Connection' = << >>
  BY <1>1, LastConnectionRestarts DEF Submit, Connection
<1>5. ASSUME NEW r \in Seq(Records), Submit(r), \A i \in 1 .. Len(r) : r[i] # Reconnect
      PROVE  /\ Connection' = Connection \o r
             /\ LastMarker(submitted)' = LastMarker(submitted)
             /\ Len(submitted') = Len(submitted) + Len(r)
  <2>1. submitted' = submitted \o r
    BY <1>5 DEF Submit
  <2>2. /\ LastMarker(submitted \o r) = LastMarker(submitted)
        /\ LastOf(submitted \o r) = LastOf(submitted) \o r
    BY <1>1, <1>5, LastConnectionGrows
  <2>3. Len(submitted \o r) = Len(submitted) + Len(r)
    BY <1>1
  <2> QED BY <2>1, <2>2, <2>3 DEF Connection
<1> QED BY <1>1, <1>2, <1>3, <1>4, <1>5

(* However a connection ends: with a marker, or with the task. *)
LEMMA AfterConnectionOrder ==
  ASSUME Logs, CaptureTypes, OrderInv, Leave,
         \/ task' \in Over /\ SubmitNothing
         \/ task' = "Sleeping" /\ Submit(<< Reconnect >>)
  PROVE  OrderInv'
<1>1. /\ joined' = heard /\ heard' = heard /\ live' = 0 /\ heard \in Nat /\ 0 \in Nat
  BY StreamNumbers DEF Leave, CaptureTypes
<1>2. CASE task' \in Over /\ SubmitNothing
  <2>1. /\ InOrder(Connection') /\ SnapshotOpens(Connection') /\ task' \notin Empty
        /\ task' \notin {"Bootstrapping", "Unwinding", "Receiving"}
    BY <1>2, ConnectionAfter DEF OrderInv, Over, Empty
  <2> QED BY <1>1, <2>1 DEF OrderInv
<1>3. CASE task' = "Sleeping" /\ Submit(<< Reconnect >>)
  <2>1. Connection' = << >> /\ InOrder(Connection') /\ SnapshotOpens(Connection')
    BY <1>3, ConnectionAfter, EmptyConnection
  <2>2. task' \notin {"Bootstrapping", "Unwinding", "Receiving"} \cup Over
    BY <1>3 DEF Over
  <2> QED BY <1>1, <2>1, <2>2 DEF OrderInv
<1> QED BY <1>2, <1>3

(* Each of the ways in which the code leaves a connection. *)
LEMMA EndingsKeepOrder ==
  ASSUME Logs, CaptureTypes, OrderInv,
         Raise \/ ConnectionReturns \/ \E events \in Nat : TryAgain(events)
  PROVE  OrderInv'
<1>1. /\ Leave
      /\ \/ task' \in Over /\ SubmitNothing
         \/ task' = "Sleeping" /\ Submit(<< Reconnect >>)
  BY DEF Raise, ConnectionReturns, TryAgain, Over
<1> QED BY <1>1, AfterConnectionOrder

(* Steps that leave the connection as it is. *)
LEMMA QuietStepsKeepOrder ==
  ASSUME Logs, OrderInv, SubmitNothing, expired' \in {TRUE, expired},
         UNCHANGED << max_events, captured, here, buffered, received, heard, joined, live >>,
         task' = task \/ (task = "Sleeping" /\ task' = "Connecting")
  PROVE  OrderInv'
<1>1. Connection' = Connection /\ submitted' = submitted
  BY ConnectionAfter
<1>2. Live' = Live
  BY <1>1 DEF Live
<1>3. task \in {"Bootstrapping", "Unwinding"} /\ task' = task => Buffering' = Buffering
  BY <1>1 DEF Buffering
<1>4. Receiving => Receiving'
  <2>1. QuotaMet(captured + here)' = QuotaMet(captured + here)
    BY DEF QuotaMet
  <2>2. Within(Connection, joined + 1, heard)' = Within(Connection, joined + 1, heard)
    BY <1>1
  <2>3. Whole(Connection, joined + 1, heard)' = Whole(Connection, joined + 1, heard)
    BY <1>1
  <2>4. Bridged(Connection, Live)' = Bridged(Connection, Live)
    BY <1>1, <1>2
  <2>5. live' = live /\ Len(submitted)' = Len(submitted)
    BY <1>1
  <2> QED BY <2>1, <2>2, <2>3, <2>4, <2>5 DEF Receiving
<1>5. InOrder(Connection)' = InOrder(Connection) /\ SnapshotOpens(Connection)' = SnapshotOpens(Connection)
  BY <1>1
<1> QED BY <1>1, <1>3, <1>4, <1>5 DEF OrderInv, Empty, Over

(* A connection opens without records, having heard nothing. *)
LEMMA ConnectingKeepsOrder ==
  ASSUME Logs, CaptureTypes, OrderInv, Connect
  PROVE  OrderInv'
<1>1. /\ task = "Connecting" /\ task' \in {"Bootstrapping", "Receiving"}
      /\ buffered' = << >> /\ received' = "Pending"
      /\ heard' \in heard .. Len(Stream) /\ joined' = heard' /\ live' = Len(submitted)
      /\ SubmitNothing
  BY DEF Connect
<1>2. joined' \in Nat /\ heard' \in Nat /\ live' \in Nat /\ Len(submitted) \in Nat
  BY <1>1, StreamNumbers, ConnectionAfter DEF CaptureTypes
<1>3. Connection' = << >> /\ submitted' = submitted
  BY <1>1, ConnectionAfter DEF OrderInv, Empty
<1>4. Buffering'
  <2>1. Len(<< >>) = 0 /\ 1 .. 0 = {}
    OBVIOUS
  <2>2. received' # "Message" /\ received' = "Pending" /\ buffered' = << >>
    BY <1>1
  <2>3. \A n \in Nat : 0 = (n - n) - 0
    OBVIOUS
  <2>4. 0 = (heard' - joined') - 0
    BY <1>1, <1>2, <2>3
  <2>5. live' <= Len(submitted')
    BY <1>1, <1>2, <1>3
  <2> QED BY <2>1, <2>2, <2>4, <2>5 DEF Buffering
<1>5. Receiving'
  <2>0. \A n \in Nat : n + 1 .. n = {}
    OBVIOUS
  <2>1. joined' + 1 .. heard' = {}
    BY <1>1, <1>2, <2>0
  <2>2. /\ Within(Connection', joined' + 1, heard') /\ Bridged(Connection', Live')
        /\ Whole(Connection', joined' + 1, heard')
    BY <1>3, <2>1, EmptyConnection
  <2>3. live' <= Len(submitted')
    BY <1>1, <1>2, <1>3
  <2> QED BY <2>2, <2>3 DEF Receiving
<1>6. InOrder(Connection') /\ SnapshotOpens(Connection')
  BY <1>3, EmptyConnection
<1>7. joined' <= heard' /\ task' \notin Over
  BY <1>1, <1>2 DEF Over
<1> QED BY <1>2, <1>3, <1>4, <1>5, <1>6, <1>7 DEF OrderInv

(* What is heard goes into the buffer in its turn. *)
LEMMA BufferingKeepsOrder ==
  ASSUME Logs, CaptureTypes, OrderInv, ReceiveForBuffer \/ TakeDone
  PROVE  OrderInv'
<1>1. /\ Buffering /\ heard \in Nat /\ joined \in Nat /\ joined <= heard /\ Connection = << >>
      /\ InOrder(Connection) /\ SnapshotOpens(Connection) /\ live \in Nat
      /\ task = "Bootstrapping" /\ buffered \in Seq(Numbers)
  BY StreamNumbers DEF OrderInv, CaptureTypes, ReceiveForBuffer, TakeDone, Empty
<1>2. ASSUME SubmitNothing, UNCHANGED << joined, live >>, heard' \in Nat, joined <= heard',
             task' \in {"Bootstrapping", "Unwinding"}, Buffering'
      PROVE  OrderInv'
  <2>1. Connection' = << >> /\ InOrder(Connection') /\ SnapshotOpens(Connection')
    BY <1>2, ConnectionAfter, EmptyConnection, <1>1
  <2>2. task' # "Receiving" /\ task' \notin Over
    BY <1>2 DEF Over
  <2> QED BY <1>1, <1>2, <2>1, <2>2 DEF OrderInv
<1>3. CASE ReceiveForBuffer
  <2>1. /\ received = "Pending" /\ SubmitNothing /\ UNCHANGED << joined, live, buffered, task >>
        /\ \/ heard' = heard + 1 /\ received' = "Message"
           \/ heard' = heard /\ received' = "Error"
    BY <1>3 DEF ReceiveForBuffer
  <2>2. /\ Len(buffered) = (heard - joined) - 0
        /\ \A k \in 1 .. Len(buffered) : buffered[k] = joined + k
    BY <1>1, <2>1 DEF Buffering
  <2>3. Len(buffered) = (heard' - joined) - (IF received' = "Message" THEN 1 ELSE 0)
    <3>1. (heard + 1) - joined - 1 = (heard - joined) - 0
      BY <1>1
    <3>2. CASE heard' = heard + 1 /\ received' = "Message"
      BY <1>1, <2>2, <3>2
    <3>3. CASE heard' = heard /\ received' = "Error"
      BY <1>1, <2>2, <3>3
    <3> QED BY <2>1, <3>2, <3>3
  <2>4. Buffering'
    BY <1>1, <2>1, <2>2, <2>3, ConnectionAfter DEF Buffering
  <2>5. heard' \in Nat /\ joined <= heard'
    BY <1>1, <2>1
  <2> QED BY <1>1, <1>2, <2>1, <2>4, <2>5
<1>4. CASE TakeDone
  <2>1. CASE TryAgain(captured) \/ Raise
    <3>1. captured \in Nat
      BY DEF CaptureTypes
    <3> QED BY <2>1, <3>1, EndingsKeepOrder
  <2>2. CASE ~ (TryAgain(captured) \/ Raise)
    <3>1. /\ SubmitNothing /\ UNCHANGED << joined, live, heard >> /\ received' = "Pending"
          /\ task' \in {"Bootstrapping", "Unwinding"}
          /\ buffered' = IF received = "Message" THEN Append(buffered, heard) ELSE buffered
      BY <1>1, <1>4, <2>2 DEF TakeDone
    <3>2. /\ Len(buffered') = heard - joined
          /\ \A k \in 1 .. Len(buffered') : buffered'[k] = joined + k
      <4>1. CASE received = "Message"
        <5>1. /\ Len(buffered) = (heard - joined) - 1 /\ Len(buffered) \in Nat
              /\ \A k \in 1 .. Len(buffered) : buffered[k] = joined + k
          BY <1>1, <4>1 DEF Buffering
        <5>2. heard \in Numbers
          BY <4>1 DEF CaptureTypes
        <5>3. /\ Len(buffered') = Len(buffered) + 1 /\ buffered'[Len(buffered) + 1] = heard
              /\ \A k \in 1 .. Len(buffered) : buffered'[k] = buffered[k]
          BY <1>1, <3>1, <4>1, <5>2, AppendProperties
        <5>4. \A k \in 1 .. Len(buffered) + 1 : k \in 1 .. Len(buffered) \/ k = Len(buffered) + 1
          BY <5>1
        <5>5. heard = joined + (Len(buffered) + 1) /\ Len(buffered) + 1 = heard - joined
          BY <1>1, <5>1
        <5> QED BY <5>1, <5>3, <5>4, <5>5
      <4>2. CASE received # "Message"
        BY <1>1, <3>1, <4>2 DEF Buffering
      <4> QED BY <4>1, <4>2
    <3>3. Buffering'
      <4>1. received' # "Message" /\ heard - joined = (heard - joined) - 0
        BY <1>1, <3>1
      <4>2. live' <= Len(submitted')
        BY <1>1, <3>1, ConnectionAfter DEF Buffering
      <4> QED BY <3>1, <3>2, <4>1, <4>2 DEF Buffering
    <3>4. heard' \in Nat /\ joined <= heard'
      BY <1>1, <3>1
    <3> QED BY <1>2, <3>1, <3>3, <3>4
  <2> QED BY <2>1, <2>2
<1> QED BY <1>3, <1>4

(* The bootstrap ends with the snapshot and what it leaves of the buffer. *)
LEMMA BootstrapKeepsOrder ==
  ASSUME Logs, CaptureTypes, QuotaInv, OrderInv, task = "Unwinding", UNCHANGED << settings, expired >>,
         NEW id \in UpdateIds, Bridges(buffered, id), SubmitBootstrap(id)
  PROVE  OrderInv'
<1> DEFINE r == BootstrapRecords(id, Left)
           kept == Uncovered(buffered, id)
<1>1. /\ Buffering /\ received = "Pending" /\ Connection = << >>
      /\ heard \in Nat /\ joined \in Nat /\ joined <= heard /\ buffered \in Seq(Numbers)
  BY StreamNumbers DEF OrderInv, CaptureTypes, Buffering, Empty
<1>2. /\ Len(buffered) = heard - joined /\ joined + Len(buffered) = heard
      /\ \A k \in 1 .. Len(buffered) : buffered[k] = joined + k
  <2>1. /\ Len(buffered) = (heard - joined) - 0
        /\ \A k \in 1 .. Len(buffered) : buffered[k] = joined + k
    BY <1>1 DEF Buffering
  <2>2. (heard - joined) - 0 = heard - joined /\ joined + (heard - joined) = heard
    BY <1>1
  <2> QED BY <2>1, <2>2
<1>3. max_events # None => captured < max_events
  BY DEF QuotaInv, Empty
<1>4. IsBootstrap(r, kept, id)
  BY <1>3, BootstrapIs
<1>5. /\ Submit(r) /\ here' = Len(r) /\ live' = Len(submitted) + Len(r) /\ task' = "Receiving"
      /\ UNCHANGED << captured, heard, joined, max_events, expired >>
  BY DEF SubmitBootstrap, settings
<1> HIDE DEF r
<1>6. KeptBetween(kept, joined + 1, joined + Len(buffered), id)
  BY <1>1, <1>2, UncoveredAreKept
<1> HIDE DEF kept
<1>7. /\ InOrder(r) /\ Within(r, joined + 1, heard) /\ SnapshotOpens(r) /\ Bridged(r, Len(r))
      /\ Len(r) = Len(kept) + 1 => Whole(r, joined + 1, heard)
  BY <1>1, <1>2, <1>4, <1>6, BootstrapIsInOrder
<1>8. r \in Seq(Records) /\ Len(r) \in Nat /\ \A i \in 1 .. Len(r) : r[i] # Reconnect
  BY <1>4, BootstrapIsUnmarked DEF IsBootstrap
<1>9. /\ Connection' = Connection \o r
      /\ LastMarker(submitted)' = LastMarker(submitted)
      /\ Len(submitted') = Len(submitted) + Len(r)
  BY <1>5, <1>8, ConnectionAfter
<1>10. Connection' = r
  <2>1. << >> \o r = r
    BY <1>8, ConcatEmptySeq
  <2> QED BY <1>1, <1>9, <2>1
<1>11. Live' = Len(r)
  <2>1. /\ Len(submitted) \in Nat /\ LastMarker(submitted) \in 0 .. Len(submitted)
        /\ Len(Connection) = Len(submitted) - LastMarker(submitted)
    BY ConnectionAfter
  <2>2. Len(Connection) = 0
    BY <1>1
  <2>3. LastMarker(submitted) = Len(submitted)
    BY <2>1, <2>2
  <2>4. Live' = (Len(submitted) + Len(r)) - Len(submitted)
    BY <1>5, <1>9, <2>3 DEF Live
  <2> QED BY <1>8, <2>1, <2>4
<1>12. ASSUME ~ QuotaMet(captured + here)'
       PROVE  Len(r) = Len(kept) + 1
  <2>1. ~ (max_events # None /\ captured + Len(r) >= max_events)
    BY <1>5, <1>12 DEF QuotaMet
  <2>2. max_events # None => max_events \in Nat /\ captured \in Nat
    BY DEF CaptureTypes
  <2>3. ~ (max_events # None /\ Len(r) = max_events - captured)
    BY <1>8, <2>1, <2>2
  <2> QED BY <1>4, <2>3 DEF IsBootstrap
<1>13. Receiving'
  <2>1. Within(Connection', joined' + 1, heard') /\ Bridged(Connection', Live')
    BY <1>5, <1>7, <1>10, <1>11
  <2>2. live' <= Len(submitted')
    <3>1. live' = Len(submitted') /\ Len(submitted) \in Nat
      BY <1>5, <1>9, ConnectionAfter
    <3> QED BY <1>5, <1>8, <3>1
  <2>3. ~ QuotaMet(captured + here)' => Whole(Connection', joined' + 1, heard')
    BY <1>5, <1>7, <1>10, <1>12
  <2> QED BY <2>1, <2>2, <2>3 DEF Receiving
<1>14. live' \in Nat /\ joined' \in Nat /\ joined' <= heard' /\ task' \notin Over
       /\ task' \notin Empty /\ task' \notin {"Bootstrapping", "Unwinding"}
  BY <1>1, <1>5, <1>8, ConnectionAfter DEF Over, Empty
<1> QED BY <1>7, <1>10, <1>13, <1>14 DEF OrderInv

(* The round ends with an outcome of the snapshot's request. *)
LEMMA FinishingKeepsOrder ==
  ASSUME Logs, CaptureTypes, QuotaInv, OrderInv, FinishRound
  PROVE  OrderInv'
<1>1. task = "Unwinding" /\ UNCHANGED << settings, expired >> /\ captured \in Nat
  BY DEF FinishRound, CaptureTypes
<1>2. CASE TryAgain(captured) \/ Raise
  BY <1>1, <1>2, EndingsKeepOrder
<1>3. CASE \E id \in UpdateIds : Bridges(buffered, id) /\ SubmitBootstrap(id)
  BY <1>1, <1>3, BootstrapKeepsOrder
<1>4. CASE FetchAgain
  <2>1. /\ task' = IF expired THEN "Receiving" ELSE "Bootstrapping"
        /\ buffered' = IF expired THEN << >> ELSE buffered
        /\ SubmitNothing /\ UNCHANGED << captured, here, received, heard, joined, live, expired >>
    BY <1>1, <1>4 DEF FetchAgain
  <2>2. /\ Buffering /\ Connection = << >> /\ joined \in Nat /\ live \in Nat /\ joined <= heard
    BY <1>1 DEF OrderInv, Empty
  <2>3. Connection' = << >> /\ submitted' = submitted
    BY <2>1, <2>2, ConnectionAfter
  <2>4. InOrder(Connection') /\ SnapshotOpens(Connection')
    BY <2>3, EmptyConnection
  <2>5. CASE expired
    <3>1. live' <= Len(submitted')
      BY <2>1, <2>2, <2>3 DEF Buffering
    <3>2. Receiving'
      BY <2>1, <2>3, <2>5, <3>1, EmptyConnection DEF Receiving
    <3> QED BY <2>1, <2>2, <2>3, <2>4, <2>5, <3>2 DEF OrderInv, Over
  <2>6. CASE ~ expired
    <3>1. Buffering'
      BY <2>1, <2>2, <2>3, <2>6 DEF Buffering
    <3> QED BY <2>1, <2>2, <2>3, <2>4, <2>6, <3>1 DEF OrderInv, Over
  <2> QED BY <2>5, <2>6
<1> QED BY <1>2, <1>3, <1>4 DEF FinishRound

(* The receiving loop submits the next message at once. *)
LEMMA TakingKeepsOrder ==
  ASSUME Logs, CaptureTypes, OrderInv, TakeMessage
  PROVE  OrderInv'
<1> DEFINE r == Message(heard + 1)
<1>1. /\ task = "Receiving" /\ task' = task /\ ~ expired /\ ~ QuotaMet(captured + here)
      /\ heard < Len(Stream) /\ heard' = heard + 1 /\ Submit(<< r >>)
      /\ UNCHANGED << joined, live >>
  BY DEF TakeMessage
<1>2. /\ Receiving /\ heard \in Nat /\ joined \in Nat /\ live \in Nat /\ joined <= heard
      /\ InOrder(Connection) /\ SnapshotOpens(Connection)
  BY <1>1, StreamNumbers DEF OrderInv, CaptureTypes
<1>3. heard + 1 \in Numbers
  BY <1>1, <1>2, StreamNumbers
<1>4. r \in Records /\ r[1] = "message" /\ r[2] = heard + 1 /\ r # Reconnect
  BY <1>3, RecordsOfCapture DEF Message, Reconnect
<1> HIDE DEF r
<1>5. << r >> \in Seq(Records) /\ Len(<< r >>) = 1 /\ \A i \in 1 .. Len(<< r >>) : << r >>[i] # Reconnect
  BY <1>4
<1>6. /\ Connection \in Seq(Records) /\ Len(submitted) \in Nat
      /\ LastMarker(submitted) \in 0 .. Len(submitted)
      /\ Len(Connection) = Len(submitted) - LastMarker(submitted)
  BY ConnectionAfter
<1>7. /\ Connection' = Connection \o << r >>
      /\ LastMarker(submitted)' = LastMarker(submitted)
      /\ Len(submitted') = Len(submitted) + 1
  BY <1>1, <1>5, ConnectionAfter
<1>8. Live \in Int /\ Live <= Len(Connection)
  BY <1>2, <1>6 DEF Live, Receiving
<1>9. /\ Within(Connection, joined + 1, heard) /\ Bridged(Connection, Live)
      /\ Whole(Connection, joined + 1, heard)
  BY <1>1, <1>2 DEF Receiving
<1>10. joined + 1 \in Nat /\ joined + 1 <= heard + 1
  BY <1>2
<1>11. LET d == Connection \o << r >>
       IN  /\ InOrder(d) /\ Within(d, joined + 1, heard + 1) /\ SnapshotOpens(d)
           /\ Bridged(d, Live) /\ Whole(d, joined + 1, heard + 1)
  BY <1>2, <1>4, <1>6, <1>8, <1>9, <1>10, MessageIsAdded
<1>12. Live' = Live
  BY <1>1, <1>7 DEF Live
<1>13. live' <= Len(submitted')
  <2>1. live <= Len(submitted)
    BY <1>2 DEF Receiving
  <2> QED BY <1>1, <1>2, <1>6, <1>7, <2>1
<1>14. Receiving'
  BY <1>1, <1>7, <1>11, <1>12, <1>13 DEF Receiving
<1>15. joined' <= heard' /\ task' = "Receiving" /\ task' \notin Over \cup Empty
  BY <1>1, <1>2 DEF Over, Empty
<1> QED BY <1>1, <1>2, <1>7, <1>11, <1>14, <1>15 DEF OrderInv

(* Every step of the capture keeps the order of its records. *)
LEMMA CapturingKeepsOrder ==
  ASSUME Logs, CaptureTypes, QuotaInv, OrderInv, CapturingStep
  PROVE  OrderInv'
<1>1. captured \in Nat /\ captured + here \in Nat
  BY DEF CaptureTypes
<1>2. CASE Wake \/ FetchSnapshot \/ Expire \/ (SubmitNothing /\ UNCHANGED captureVars)
  <2>1. /\ SubmitNothing /\ expired' \in {TRUE, expired}
        /\ UNCHANGED << max_events, captured, here, buffered, received, heard, joined, live >>
        /\ task' = task \/ (task = "Sleeping" /\ task' = "Connecting")
    BY <1>2 DEF Wake, FetchSnapshot, Expire, captureVars, settings, connectionVars
  <2> QED BY <2>1, QuietStepsKeepOrder
<1>3. CASE ConnectFails \/ StopReceiving \/ LoseConnection \/ RaiseFatal
  <2>1. Raise \/ ConnectionReturns \/ \E events \in Nat : TryAgain(events)
    BY <1>1, <1>3 DEF ConnectFails, StopReceiving, LoseConnection, RaiseFatal
  <2> QED BY <2>1, EndingsKeepOrder
<1>4. CASE CancelTask
  <2>1. CASE SubmitNothing /\ UNCHANGED << task, captured, connectionVars >>
    <3>1. /\ SubmitNothing /\ expired' \in {TRUE, expired} /\ task' = task
          /\ UNCHANGED << max_events, captured, here, buffered, received, heard, joined, live >>
      BY <1>4, <2>1 DEF CancelTask, settings, connectionVars
    <3> QED BY <3>1, QuietStepsKeepOrder
  <2>2. CASE Leave /\ task' \in Over /\ SubmitNothing
    BY <2>2, AfterConnectionOrder
  <2>3. CASE TryAgain(captured) \/ Raise
    BY <1>1, <2>3, EndingsKeepOrder
  <2> QED BY <1>4, <2>1, <2>2, <2>3 DEF CancelTask, Over
<1>5. CASE Connect
  BY <1>5, ConnectingKeepsOrder
<1>6. CASE ReceiveForBuffer \/ TakeDone
  BY <1>6, BufferingKeepsOrder
<1>7. CASE FinishRound
  BY <1>7, FinishingKeepsOrder
<1>8. CASE TakeMessage
  BY <1>8, TakingKeepsOrder
<1> QED
  BY <1>2, <1>3, <1>4, <1>5, <1>6, <1>7, <1>8 DEF CapturingStep, TaskStep, TransferStep

(* The records of the last connection are in order, whole and bridged. *)
LEMMA OrderInvariant == Spec => []OrderInv
<1>1. Init => OrderInv
  <2> SUFFICES ASSUME Init
               PROVE  OrderInv
    OBVIOUS
  <2>1. /\ submitted = << >> /\ task = "Connecting" /\ heard = 0 /\ joined = 0 /\ live = 0
    BY DEF Init, WriterInit, CaptureInit
  <2>2. submitted \in Seq(Records) /\ Len(submitted) = 0
    BY <2>1
  <2>3. Connection \in Seq(Records) /\ Len(Connection) = 0
    <3>1. /\ Connection \in Seq(Records) /\ LastMarker(submitted) \in 0 .. 0
          /\ Len(Connection) = 0 - LastMarker(submitted)
      BY <2>2, LastConnectionIs DEF Connection
    <3> QED BY <3>1
  <2>4. Connection = << >>
    BY <2>3, EmptySeq
  <2>5. InOrder(Connection) /\ SnapshotOpens(Connection)
    BY <2>4, EmptyConnection
  <2> QED BY <2>1, <2>4, <2>5 DEF OrderInv, Over
<1>2. Inv /\ QuotaInv /\ OrderInv /\ [Next]_vars => OrderInv'
  <2> SUFFICES ASSUME Inv, QuotaInv, OrderInv, [Next]_vars
               PROVE  OrderInv'
    OBVIOUS
  <2>1. Logs /\ CaptureTypes
    BY DEF Inv, LogInv
  <2>2. CASE UNCHANGED << captureVars, submitted >>
    BY <2>2 DEF captureVars, OrderInv, Connection, Live, Buffering, Receiving, QuotaMet
  <2>3. CASE Next
    <3>1. CapturingStep \/ UNCHANGED << captureVars, submitted >>
      BY <2>3, Steps, WriterKeepsInv
    <3> QED BY <2>1, <2>2, <3>1, CapturingKeepsOrder
  <2>4. CASE UNCHANGED vars
    BY <2>2, <2>4 DEF vars, writerVars
  <2> QED BY <2>3, <2>4
<1> QED BY <1>1, <1>2, RunInvariant, QuotaInvariant, PTL DEF Spec

-------------------------------------------------------------------------------
(* The list above is the one CaptureRun's properties speak of. *)
LEMMA ThisConnection ==
  ASSUME Logs
  PROVE  /\ LastConnection = Connection
         /\ Positions("message") = {i \in 1 .. Len(Connection) : IsMessage(Connection, i)}
         /\ Positions("snapshot") = {i \in 1 .. Len(Connection) : IsSnapshot(Connection, i)}
<1>1. LastConnection = Connection
  BY DEF LastConnection, Connection, LastOf, LastMarker
<1>2. DOMAIN Connection = 1 .. Len(Connection)
  BY ConnectionAfter
<1> QED BY <1>1, <1>2 DEF Positions, IsMessage, IsSnapshot

(***************************************************************************)
(* Whatever a connection's bootstrap and its reception did, its messages   *)
(* are recorded in the order of the stream, and all were heard by it.      *)
(***************************************************************************)
THEOREM RecordsAreAlwaysInOrder == Spec => []RecordsAreInOrder
<1>1. Inv /\ OrderInv /\ TypeOK => RecordsAreInOrder
  <2> SUFFICES ASSUME Inv, OrderInv, TypeOK
               PROVE  RecordsAreInOrder
    OBVIOUS
  <2>1. Logs
    BY DEF Inv, LogInv
  <2>2. \A i, j \in Positions("message") : i < j => LastConnection[i][2] < LastConnection[j][2]
    BY <2>1, ThisConnection DEF OrderInv, InOrder
  <2>3. ASSUME task \notin Over
        PROVE  NumbersOf("message") \subseteq joined + 1 .. heard
    <3>1. task \in Empty \cup {"Receiving"}
      BY <2>3 DEF TypeOK, TaskStates, Empty
    <3>2. Within(Connection, joined + 1, heard)
      BY <3>1, EmptyConnection DEF OrderInv, Receiving
    <3> QED BY <2>1, <3>2, ThisConnection DEF NumbersOf, Within
  <2> QED BY <2>2, <2>3 DEF RecordsAreInOrder
<1> QED BY <1>1, RunInvariant, OrderInvariant, RunTypeCorrect, PTL

(***************************************************************************)
(* Nothing that a receiving connection heard is missing, but what its      *)
(* snapshot covers, however often the snapshot was fetched again.          *)
(***************************************************************************)
THEOREM ConnectionIsAlwaysWhole == Spec => []ConnectionIsWhole
<1>1. Inv /\ OrderInv => ConnectionIsWhole
  <2> SUFFICES ASSUME Inv, OrderInv, task = "Receiving", ~ expired, ~ QuotaMet(captured + here),
                      NEW m \in joined + 1 .. heard
               PROVE  m \in NumbersOf("message") \/ \E id \in NumbersOf("snapshot") : IsCovered(m, id)
    BY DEF ConnectionIsWhole
  <2>1. Logs
    BY DEF Inv, LogInv
  <2>2. \/ \E i \in 1 .. Len(Connection) : IsMessage(Connection, i) /\ Connection[i][2] = m
        \/ \E i \in 1 .. Len(Connection) :
             IsSnapshot(Connection, i) /\ IsCovered(m, Connection[i][2])
    BY DEF OrderInv, Receiving, Whole
  <2> QED BY <2>1, <2>2, ThisConnection DEF NumbersOf
<1> QED BY <1>1, RunInvariant, OrderInvariant, PTL

(***************************************************************************)
(* A snapshot is the first record of its connection, and what was buffered *)
(* goes on from it without a hole.                                         *)
(***************************************************************************)
THEOREM SnapshotIsAlwaysBridged == Spec => []SnapshotIsBridged
<1>1. Inv /\ OrderInv /\ TypeOK => SnapshotIsBridged
  <2> SUFFICES ASSUME Inv, OrderInv, TypeOK
               PROVE  SnapshotIsBridged
    OBVIOUS
  <2>1. Logs
    BY DEF Inv, LogInv
  <2>2. Positions("snapshot") \subseteq {1}
    BY <2>1, ThisConnection DEF OrderInv, SnapshotOpens
  <2>3. /\ Len(submitted) \in Nat /\ LastMarker(submitted) \in 0 .. Len(submitted)
        /\ Len(Connection) = Len(submitted) - LastMarker(submitted) /\ live \in Nat
    BY <2>1, ConnectionAfter DEF OrderInv
  <2>4. ASSUME NEW s \in 1 .. Len(Connection), IsSnapshot(Connection, s),
               NEW i \in 1 .. Len(Connection),
               (Len(submitted) - Len(Connection)) + i <= live,
               FirstPast(Connection, s, i)
        PROVE  Connection[s][2] + 1 \in Stream[Connection[i][2]]
    <3>1. i <= Live /\ live # 0
      BY <2>3, <2>4 DEF Live
    <3>2. task \notin Over
      BY <3>1 DEF OrderInv
    <3>3. task \notin Empty
      <4>1. Connection # << >>
        BY <2>4
      <4> QED BY <4>1 DEF OrderInv
    <3>4. task = "Receiving"
      BY <3>2, <3>3 DEF TypeOK, TaskStates, Empty
    <3> QED BY <2>4, <3>1, <3>4 DEF OrderInv, Receiving, Bridged
  <2>5. ASSUME NEW id \in NumbersOf("snapshot"), NEW i \in Positions("message"),
               (Len(submitted) - Len(LastConnection)) + i <= live,
               IsAfter(LastConnection[i][2], id),
               \A j \in Positions("message") : j < i => ~ IsAfter(LastConnection[j][2], id)
        PROVE  id + 1 \in Stream[LastConnection[i][2]]
    <3>1. PICK s \in Positions("snapshot") : LastConnection[s][2] = id
      BY DEF NumbersOf
    <3>2. FirstPast(Connection, s, i)
      BY <2>1, <2>5, <3>1, ThisConnection DEF FirstPast
    <3> QED BY <2>1, <2>4, <2>5, <3>1, <3>2, ThisConnection
  <2> QED BY <2>2, <2>5 DEF SnapshotIsBridged
<1> QED BY <1>1, RunInvariant, OrderInvariant, RunTypeCorrect, PTL
===============================================================================
