------------------------- MODULE StatusStream_proofs -------------------------
(***************************************************************************)
(* For any number of streams, attempts, cancel requests and clean-ups: no  *)
(* stream is ahead of the row, and a stream that subscribed in time has    *)
(* the end of its task in its inbox or on its way.  At the end, what is    *)
(* proved of the batch and of the streams is carried over to MCAttempt.    *)
(***************************************************************************)
EXTENDS MCAttempt, Engines_proofs, SequenceTheorems

(* The row has caught up with what somebody says of it.                    *)
Told(event) == event \in Events /\ Weight(event.status) <= Weight(row)

(* A writer only says what it wrote or what outweighs it, and an attempt   *)
(* reports progress on a row it has marked.                                *)
WritersWrote ==
  \A w \in Writers :
    /\ writer[w].pc = "announce" =>
         Told(writer[w].says) /\ writer[w].says.status # "PENDING"
    /\ writer[w].pc = "grading" => Weight(row) >= Weight("PROCESSING")

InboxesTold ==
  \A s \in Streams : \A n \in DOMAIN stream[s].inbox : Told(stream[s].inbox[n])

(* A stream that goes on has not forwarded an end.                         *)
OpenEnded ==
  \A s \in Streams :
    stream[s].pc \in {"subscribe", "loop"} => stream[s].last.status \notin Closing

StreamInv ==
  /\ StreamTypeOK
  /\ WritersWrote
  /\ InboxesTold
  /\ NeverAhead
  /\ OpenEnded
  /\ EndIsAnnounced
-----------------------------------------------------------------------------
(***************************************************************************)
(* Sequences of messages.                                                  *)
(***************************************************************************)
LEMMA AppendKeeps ==
  ASSUME NEW S, NEW q \in Seq(S), NEW e \in S
  PROVE  /\ Append(q, e) \in Seq(S)
         /\ \A n \in DOMAIN q : n \in DOMAIN Append(q, e) /\ Append(q, e)[n] = q[n]
         /\ \E n \in DOMAIN Append(q, e) : Append(q, e)[n] = e
         /\ \A n \in DOMAIN Append(q, e) : Append(q, e)[n] = e \/ n \in DOMAIN q
  <1>1. /\ Append(q, e) \in Seq(S)
        /\ Len(Append(q, e)) = Len(q) + 1
        /\ \A i \in 1..Len(q) : Append(q, e)[i] = q[i]
        /\ Append(q, e)[Len(q) + 1] = e
    BY AppendProperties
  <1>2. DOMAIN q = 1..Len(q) /\ DOMAIN Append(q, e) = 1..(Len(q) + 1) /\ Len(q) \in Nat
    BY <1>1, LenProperties
  <1> QED
    BY <1>1, <1>2

LEMMA TailKeeps ==
  ASSUME NEW S, NEW q \in Seq(S), q # <<>>
  PROVE  /\ Head(q) \in S
         /\ Tail(q) \in Seq(S)
         /\ \A n \in DOMAIN Tail(q) : n + 1 \in DOMAIN q /\ Tail(q)[n] = q[n + 1]
         /\ \A n \in DOMAIN q : q[n] = Head(q)
                                \/ (n - 1 \in DOMAIN Tail(q) /\ Tail(q)[n - 1] = q[n])
         /\ \E n \in DOMAIN q : q[n] = Head(q)
  <1>1. /\ Head(q) \in S /\ Tail(q) \in Seq(S) /\ Len(Tail(q)) = Len(q) - 1
        /\ \A i \in 1..Len(Tail(q)) : Tail(q)[i] = q[i + 1]
    BY HeadTailProperties
  <1>2. Len(q) \in Nat \ {0} /\ DOMAIN q = 1..Len(q) /\ Head(q) = q[1]
    BY EmptySeq, LenProperties
  <1>3. DOMAIN Tail(q) = 1..(Len(q) - 1)
    BY <1>1, LenProperties
  <1> QED
    BY <1>1, <1>2, <1>3
-----------------------------------------------------------------------------
(***************************************************************************)
(* The row.                                                                *)
(***************************************************************************)
LEMMA Weights ==
  /\ \A s \in Statuses : Weight(s) \in Nat
  /\ Weight("PENDING") < Weight("PROCESSING")
  /\ Weight("PROCESSING") < Weight("COMPLETED")
  /\ Weight("COMPLETED") < Weight("FAILED")
  /\ Weight("FAILED") < Weight("CANCELLED")
  BY DEF Statuses, Weight

LEMMA WriteRises ==
  ASSUME row \in Statuses, NEW s \in Statuses, WriteRow(s)
  PROVE  /\ row' \in Statuses /\ row' \in {row, s}
         /\ Weight(row') >= Weight(row) /\ Weight(row') >= Weight(s)
  BY Weights DEF WriteRow, Outranks

LEMMA GiveUpRises ==
  ASSUME row \in Statuses, row \in Live, row' = "FAILED"
  PROVE  row' \in Statuses /\ Weight(row') >= Weight(row)
  BY Weights DEF Live, Statuses
-----------------------------------------------------------------------------
(***************************************************************************)
(* Steps of the writers.                                                   *)
(***************************************************************************)

(* The streams stand still while the row rises: what they were told stays  *)
(* true, and what they hear of an end is in the same inboxes.              *)
LEMMA StreamsStand ==
  ASSUME StreamInv, UNCHANGED stream, row' \in Statuses, Weight(row') >= Weight(row)
  PROVE  InboxesTold' /\ NeverAhead' /\ OpenEnded'
  <1>1. InboxesTold'
    <2>1. ASSUME NEW s \in Streams, NEW n \in DOMAIN stream[s].inbox
          PROVE  Told(stream[s].inbox[n])'
      <3>1. Told(stream[s].inbox[n])
        BY DEF StreamInv, InboxesTold
      <3>2. Told(stream[s].inbox[n])'
        BY <3>1, Weights DEF StreamInv, StreamTypeOK, Told, Events
      <3> QED
        BY <3>2
    <2> QED
      BY <2>1 DEF InboxesTold
  <1>2. NeverAhead'
    <2>1. ASSUME NEW s \in Streams, stream[s].last # NoEvent
          PROVE  Weight(stream[s].last.status) <= Weight(row')
      <3>1. stream[s].last \in Events
        BY <2>1 DEF StreamInv, StreamTypeOK, StreamStates
      <3>2. Weight(stream[s].last.status) \in Nat
        BY <3>1, Weights DEF Events
      <3>3. Weight(stream[s].last.status) <= Weight(row)
        BY <2>1 DEF StreamInv, NeverAhead
      <3> QED
        BY <3>2, <3>3, Weights DEF StreamInv, StreamTypeOK
    <2> QED
      BY <2>1 DEF NeverAhead
  <1>3. OpenEnded'
    BY DEF StreamInv, OpenEnded
  <1> QED
    BY <1>1, <1>2, <1>3

LEMMA AnnounceKeeps ==
  ASSUME StreamInv, NEW w \in Writers, NEW s \in Statuses \ {"PENDING"},
         NEW p \in 0..MaxProgress, writer[w].pc # "announce", WriteRow(s), Announcing(w, s, p),
         UNCHANGED <<stream, errors, sweeps>>
  PROVE  StreamInv'
  <1> DEFINE e == [status |-> s, progress |-> p]
  <1>1. /\ row' \in Statuses /\ row' \in {row, s}
        /\ Weight(row') >= Weight(row) /\ Weight(row') >= Weight(s)
    BY WriteRises DEF StreamInv, StreamTypeOK
  <1>2. e \in Events
    BY DEF Events
  <1>3. writer' = [writer EXCEPT ![w] = [pc |-> "announce", says |-> e]]
    BY DEF Announcing
  <1>4. /\ writer'[w] = [pc |-> "announce", says |-> e]
        /\ \A v \in Writers \ {w} : writer'[v] = writer[v]
    BY <1>3 DEF StreamInv, StreamTypeOK
  <1>5. StreamTypeOK'
    <2>1. [pc |-> "announce", says |-> e] \in WriterStates
      BY <1>2 DEF WriterStates
    <2>2. writer' \in [Writers -> WriterStates]
      BY <1>3, <2>1 DEF StreamInv, StreamTypeOK
    <2> QED
      BY <1>1, <2>2 DEF StreamInv, StreamTypeOK
  <1>6. WritersWrote'
    <2>1. Told(e)'
      BY <1>1, <1>2, Weights DEF Told
    <2>2. ASSUME NEW v \in Writers \ {w}
          PROVE  /\ writer[v].pc = "announce" =>
                      Told(writer[v].says)' /\ writer[v].says.status # "PENDING"
                 /\ writer[v].pc = "grading" => Weight(row') >= Weight("PROCESSING")
      <3>1. CASE writer[v].pc = "announce"
        <4>1. Told(writer[v].says) /\ writer[v].says.status # "PENDING"
          BY <3>1 DEF StreamInv, WritersWrote
        <4> QED
          BY <1>1, <3>1, <4>1, <1>4, Weights DEF StreamInv, StreamTypeOK, Told, Events
      <3>2. CASE writer[v].pc = "grading"
        BY <1>1, <3>2, Weights DEF StreamInv, StreamTypeOK, WritersWrote, Statuses
      <3> QED
        BY <3>1, <3>2
    <2> QED
      BY <1>4, <2>1, <2>2 DEF WritersWrote, Told
  <1>7. EndIsAnnounced'
    <2> SUFFICES ASSUME NEW t \in Streams, stream[t].pc = "loop", ~stream[t].late,
                        row' \in Closing, errors = 0, sweeps = 0
                 PROVE  \/ \E n \in DOMAIN stream[t].inbox :
                             stream[t].inbox[n].status \in Closing
                        \/ \E v \in Writers :
                             writer'[v].pc = "announce" /\ writer'[v].says.status \in Closing
      BY DEF EndIsAnnounced
    <2>1. CASE row \in Closing
      <3>1. \/ \E n \in DOMAIN stream[t].inbox : stream[t].inbox[n].status \in Closing
            \/ \E v \in Writers :
                 writer[v].pc = "announce" /\ writer[v].says.status \in Closing
        BY <2>1 DEF StreamInv, EndIsAnnounced
      <3> QED
        BY <1>4, <3>1
    <2>2. CASE row \notin Closing
      <3>1. s \in Closing
        BY <1>1, <2>2
      <3> QED
        BY <1>4, <3>1
    <2> QED
      BY <2>1, <2>2
  <1> QED
    BY <1>1, <1>5, <1>6, <1>7, StreamsStand DEF StreamInv

(* The progress of a marked row leaves its status as it is.                *)
LEMMA ProgressWrites ==
  ASSUME StreamInv, NEW w \in Writers, ReportProgress(w)
  PROVE  WriteRow("PROCESSING")
  <1>1. ~Outranks("PROCESSING", row)
    BY Weights DEF StreamInv, StreamTypeOK, WritersWrote, ReportProgress, Outranks, Statuses
  <1> QED
    BY <1>1 DEF WriteRow, ReportProgress

LEMMA AnnouncersKeep ==
  ASSUME StreamInv, NEW w \in Writers,
         \/ MarkRow(w) \/ ReportProgress(w) \/ CancelRow(w)
         \/ \E s \in Closing : RecordOutcome(w, s)
  PROVE  StreamInv'
  <1>1. 0 \in 0..MaxProgress
    BY StreamAssumption
  <1>2. CASE MarkRow(w)
    BY <1>1, <1>2, AnnounceKeeps DEF MarkRow, Statuses
  <1>3. CASE ReportProgress(w)
    <2>1. writer[w].says.progress + 1 \in 0..MaxProgress
      <3>1. writer[w].says \in Events \cup {NoEvent}
        BY DEF StreamInv, StreamTypeOK, WriterStates
      <3>2. writer[w].says.progress \in Nat
        BY <3>1, StreamAssumption DEF Events, NoEvent
      <3> QED
        BY <1>3, <3>2, StreamAssumption DEF ReportProgress
    <2>2. WriteRow("PROCESSING") /\ "PROCESSING" \in Statuses \ {"PENDING"}
      BY <1>3, ProgressWrites DEF Statuses
    <2> QED
      BY <1>3, <2>1, <2>2, AnnounceKeeps DEF ReportProgress
  <1>4. CASE CancelRow(w)
    BY <1>1, <1>4, AnnounceKeeps DEF CancelRow, Statuses
  <1>5. ASSUME NEW s \in Closing, RecordOutcome(w, s) PROVE StreamInv'
    <2>1. s \in Statuses \ {"PENDING"}
      BY DEF Closing, Statuses
    <2> QED
      BY <1>1, <1>5, <2>1, AnnounceKeeps DEF RecordOutcome
  <1> QED
    BY <1>2, <1>3, <1>4, <1>5

(* The announcement over, published or not: an attempt goes on only after  *)
(* it has said PROCESSING.                                                 *)
LEMMA AnnouncedKeeps ==
  ASSUME StreamTypeOK, WritersWrote, NEW w \in Writers, writer[w].pc = "announce",
         Announced(w), UNCHANGED row
  PROVE  /\ writer' \in [Writers -> WriterStates]
         /\ \A v \in Writers \ {w} : writer'[v] = writer[v]
         /\ WritersWrote'
  <1> DEFINE next == IF writer[w].says.status \in Live THEN "grading" ELSE "done"
  <1>1. writer' = [writer EXCEPT ![w] = [writer[w] EXCEPT !.pc = next]]
    BY DEF Announced
  <1>2. [writer[w] EXCEPT !.pc = next] \in WriterStates
    BY DEF StreamTypeOK, WriterStates
  <1>3. writer' \in [Writers -> WriterStates]
    BY <1>1, <1>2 DEF StreamTypeOK
  <1>4. /\ writer'[w].pc = next
        /\ \A v \in Writers \ {w} : writer'[v] = writer[v]
    BY <1>1 DEF StreamTypeOK, WriterStates
  <1>5. next = "grading" => Weight(row) >= Weight("PROCESSING")
    <2> SUFFICES ASSUME next = "grading" PROVE Weight(row) >= Weight("PROCESSING")
      OBVIOUS
    <2>1. writer[w].says.status = "PROCESSING"
      BY DEF WritersWrote, Live
    <2> QED
      BY <2>1, Weights DEF WritersWrote, Told, StreamTypeOK, Statuses
  <1>6. WritersWrote'
    BY <1>4, <1>5 DEF WritersWrote, Told
  <1> QED
    BY <1>3, <1>4, <1>6

LEMMA PublishKeeps ==
  ASSUME StreamInv, NEW w \in Writers, Publish(w)
  PROVE  StreamInv'
  <1> DEFINE e == writer[w].says
  <1>1. /\ writer[w].pc = "announce" /\ Announced(w) /\ UNCHANGED <<row, errors, sweeps>>
        /\ stream' = [s \in Streams |->
             IF stream[s].pc = "loop" THEN [stream[s] EXCEPT !.inbox = Append(@, e)]
             ELSE stream[s]]
    BY DEF Publish
  <1>2. Told(e) /\ e \in Events
    BY <1>1 DEF StreamInv, WritersWrote, Told
  <1>3. /\ writer' \in [Writers -> WriterStates]
        /\ \A v \in Writers \ {w} : writer'[v] = writer[v]
        /\ WritersWrote'
    BY <1>1, AnnouncedKeeps DEF StreamInv
  <1>4. ASSUME NEW s \in Streams
        PROVE  /\ stream'[s] \in StreamStates
               /\ stream'[s].pc = stream[s].pc /\ stream'[s].last = stream[s].last
               /\ stream'[s].late = stream[s].late
               /\ \A n \in DOMAIN stream[s].inbox :
                    /\ n \in DOMAIN stream'[s].inbox
                    /\ stream'[s].inbox[n] = stream[s].inbox[n]
               /\ \A n \in DOMAIN stream'[s].inbox :
                    stream'[s].inbox[n] = e \/ (n \in DOMAIN stream[s].inbox
                      /\ stream'[s].inbox[n] = stream[s].inbox[n])
               /\ stream[s].pc = "loop" =>
                    \E n \in DOMAIN stream'[s].inbox : stream'[s].inbox[n] = e
    <2>1. stream[s] \in StreamStates /\ stream[s].inbox \in Seq(Events)
      BY DEF StreamInv, StreamTypeOK, StreamStates
    <2>2. CASE stream[s].pc = "loop"
      <3> DEFINE q == stream[s].inbox
      <3>1. /\ Append(q, e) \in Seq(Events)
            /\ \A n \in DOMAIN q : n \in DOMAIN Append(q, e) /\ Append(q, e)[n] = q[n]
            /\ \E n \in DOMAIN Append(q, e) : Append(q, e)[n] = e
            /\ \A n \in DOMAIN Append(q, e) : Append(q, e)[n] = e \/ n \in DOMAIN q
        BY <1>2, <2>1, AppendKeeps
      <3>2. stream'[s] = [stream[s] EXCEPT !.inbox = Append(q, e)]
        BY <1>1, <2>2
      <3>3. /\ stream'[s].inbox = Append(q, e) /\ stream'[s] \in StreamStates
            /\ stream'[s].pc = stream[s].pc /\ stream'[s].last = stream[s].last
            /\ stream'[s].late = stream[s].late
        BY <2>1, <3>1, <3>2 DEF StreamStates
      <3> QED
        BY <3>1, <3>3
    <2>3. CASE stream[s].pc # "loop"
      <3>1. stream'[s] = stream[s]
        BY <1>1, <2>3
      <3> QED
        BY <2>1, <2>3, <3>1
    <2> QED
      BY <2>2, <2>3
  <1>5. StreamTypeOK'
    <2>1. stream' \in [Streams -> StreamStates]
      BY <1>1, <1>4
    <2> QED
      BY <1>1, <1>3, <2>1 DEF StreamInv, StreamTypeOK
  <1>6. InboxesTold'
    <2>1. ASSUME NEW s \in Streams, NEW n \in DOMAIN stream'[s].inbox
          PROVE  Told(stream'[s].inbox[n])
      BY <1>2, <1>4 DEF StreamInv, InboxesTold
    <2> QED
      BY <1>1, <2>1 DEF InboxesTold, Told
  <1>7. NeverAhead' /\ OpenEnded'
    BY <1>1, <1>4 DEF StreamInv, NeverAhead, OpenEnded
  <1>8. EndIsAnnounced'
    <2> SUFFICES ASSUME NEW t \in Streams, stream[t].pc = "loop", ~stream[t].late,
                        row \in Closing, errors = 0, sweeps = 0
                 PROVE  \/ \E n \in DOMAIN stream'[t].inbox :
                             stream'[t].inbox[n].status \in Closing
                        \/ \E v \in Writers :
                             writer'[v].pc = "announce" /\ writer'[v].says.status \in Closing
      BY <1>1, <1>4 DEF EndIsAnnounced
    <2>1. \/ \E n \in DOMAIN stream[t].inbox : stream[t].inbox[n].status \in Closing
          \/ \E v \in Writers :
               writer[v].pc = "announce" /\ writer[v].says.status \in Closing
      BY DEF StreamInv, EndIsAnnounced
    <2>2. CASE \E n \in DOMAIN stream[t].inbox : stream[t].inbox[n].status \in Closing
      BY <1>4, <2>2
    <2>3. ASSUME NEW v \in Writers, writer[v].pc = "announce",
                 writer[v].says.status \in Closing
          PROVE  \/ \E n \in DOMAIN stream'[t].inbox :
                      stream'[t].inbox[n].status \in Closing
                 \/ \E u \in Writers :
                      writer'[u].pc = "announce" /\ writer'[u].says.status \in Closing
      <3>1. CASE v = w
        <4>1. PICK n \in DOMAIN stream'[t].inbox : stream'[t].inbox[n] = e
          BY <1>4
        <4> QED
          BY <2>3, <3>1, <4>1
      <3>2. CASE v # w
        BY <1>3, <2>3, <3>2
      <3> QED
        BY <3>1, <3>2
    <2> QED
      BY <2>1, <2>2, <2>3
  <1> QED
    BY <1>3, <1>5, <1>6, <1>7, <1>8 DEF StreamInv

LEMMA PublishFailsKeeps ==
  ASSUME StreamInv, NEW w \in Writers, PublishFails(w)
  PROVE  StreamInv'
  <1>1. /\ writer[w].pc = "announce" /\ Announced(w) /\ UNCHANGED <<row, stream, sweeps>>
        /\ errors < MaxErrors /\ errors' = errors + 1 /\ errors \in 0..MaxErrors
    BY DEF PublishFails, StreamInv, StreamTypeOK
  <1>2. writer' \in [Writers -> WriterStates] /\ WritersWrote'
    BY <1>1, AnnouncedKeeps DEF StreamInv
  <1>3. errors' \in 0..MaxErrors /\ errors' # 0
    BY <1>1, StreamAssumption
  <1>4. row' \in Statuses /\ Weight(row') >= Weight(row)
    BY <1>1, Weights DEF StreamInv, StreamTypeOK
  <1>5. InboxesTold' /\ NeverAhead' /\ OpenEnded'
    BY <1>1, <1>4, StreamsStand
  <1>6. StreamTypeOK'
    BY <1>1, <1>2, <1>3 DEF StreamInv, StreamTypeOK
  <1>7. EndIsAnnounced'
    BY <1>3 DEF EndIsAnnounced
  <1> QED
    BY <1>2, <1>5, <1>6, <1>7 DEF StreamInv

LEMMA LookKeeps ==
  ASSUME StreamInv, NEW w \in Writers, LookBeforeCancel(w)
  PROVE  StreamInv'
  <1>1. /\ writer[w].pc = "idle" /\ UNCHANGED <<row, stream, errors, sweeps>>
        /\ writer' = [writer EXCEPT ![w] = [writer[w] EXCEPT !.pc = "commit"]]
    BY DEF LookBeforeCancel
  <1>2. [writer[w] EXCEPT !.pc = "commit"] \in WriterStates
    BY DEF StreamInv, StreamTypeOK, WriterStates
  <1>3. /\ writer' \in [Writers -> WriterStates]
        /\ writer'[w].pc = "commit"
        /\ \A v \in Writers \ {w} : writer'[v] = writer[v]
    BY <1>1, <1>2 DEF StreamInv, StreamTypeOK, WriterStates
  <1>4. StreamTypeOK'
    BY <1>1, <1>3 DEF StreamInv, StreamTypeOK
  <1>5. WritersWrote'
    BY <1>1, <1>3 DEF StreamInv, WritersWrote, Told
  <1>6. row' \in Statuses /\ Weight(row') >= Weight(row)
    BY <1>1, Weights DEF StreamInv, StreamTypeOK
  <1>7. InboxesTold' /\ NeverAhead' /\ OpenEnded'
    BY <1>1, <1>6, StreamsStand
  <1>8. EndIsAnnounced'
    BY <1>1, <1>3 DEF StreamInv, EndIsAnnounced
  <1> QED
    BY <1>4, <1>5, <1>7, <1>8 DEF StreamInv

(* A row given up rises to FAILED with nobody told, which EndIsAnnounced   *)
(* excuses.                                                                *)
LEMMA GivenUpKeeps ==
  ASSUME StreamInv, row' \in Statuses, Weight(row') >= Weight(row),
         writer' \in [Writers -> WriterStates],
         \A w \in Writers : writer'[w] = writer[w] \/ writer'[w].pc = "done",
         sweeps < MaxSweeps, sweeps' = sweeps + 1, UNCHANGED <<stream, errors>>
  PROVE  StreamInv'
  <1>1. sweeps' \in 0..MaxSweeps /\ sweeps' # 0
    BY StreamAssumption DEF StreamInv, StreamTypeOK
  <1>2. StreamTypeOK'
    BY <1>1 DEF StreamInv, StreamTypeOK
  <1>3. WritersWrote'
    <2>1. ASSUME NEW w \in Writers, writer[w].pc = "announce"
          PROVE  \/ Told(writer[w].says)' /\ writer[w].says.status # "PENDING"
                 \/ writer'[w].pc = "done"
      <3>1. Told(writer[w].says) /\ writer[w].says.status # "PENDING"
        BY <2>1 DEF StreamInv, WritersWrote
      <3> QED
        BY <3>1, Weights DEF StreamInv, StreamTypeOK, Told, Events
    <2>2. ASSUME NEW w \in Writers, writer[w].pc = "grading"
          PROVE  Weight(row') >= Weight("PROCESSING")
      BY <2>2, Weights DEF StreamInv, StreamTypeOK, WritersWrote, Statuses
    <2> QED
      BY <2>1, <2>2 DEF WritersWrote, Told
  <1>4. InboxesTold' /\ NeverAhead' /\ OpenEnded'
    BY StreamsStand
  <1>5. EndIsAnnounced'
    BY <1>1 DEF EndIsAnnounced
  <1> QED
    BY <1>2, <1>3, <1>4, <1>5 DEF StreamInv

LEMMA CleanKeeps ==
  ASSUME StreamInv, NEW w \in Writers, CleanRow(w)
  PROVE  StreamInv'
  <1>1. /\ writer' = [writer EXCEPT ![w] = [writer[w] EXCEPT !.pc = "done"]]
        /\ [writer[w] EXCEPT !.pc = "done"] \in WriterStates
    BY DEF CleanRow, StreamInv, StreamTypeOK, WriterStates
  <1>2. /\ writer' \in [Writers -> WriterStates]
        /\ \A v \in Writers : writer'[v] = writer[v] \/ writer'[v].pc = "done"
    BY <1>1 DEF StreamInv, StreamTypeOK, WriterStates
  <1>3. row' \in Statuses /\ Weight(row') >= Weight(row)
    BY WriteRises DEF CleanRow, StreamInv, StreamTypeOK, Statuses
  <1> QED
    BY <1>2, <1>3, GivenUpKeeps DEF CleanRow

LEMMA SweepsKeep ==
  ASSUME StreamInv, SweepRow \/ CleanupStalePending \/ CleanupStaleProcessing
  PROVE  StreamInv'
  <1>1. /\ row \in Live /\ row' = "FAILED" /\ sweeps < MaxSweeps /\ sweeps' = sweeps + 1
        /\ UNCHANGED <<writer, stream, errors>>
    BY DEF SweepRow, CleanupStalePending, CleanupStaleProcessing, GiveUp, Live
  <1>2. row' \in Statuses /\ Weight(row') >= Weight(row)
    BY <1>1, GiveUpRises DEF StreamInv, StreamTypeOK
  <1> QED
    BY <1>1, <1>2, GivenUpKeeps DEF StreamInv, StreamTypeOK

LEMMA WriterStepKeeps ==
  ASSUME StreamInv, NEW w \in Writers, WriterStep(w)
  PROVE  StreamInv'
  BY AnnouncersKeep, PublishKeeps, PublishFailsKeeps, LookKeeps, CleanKeeps
     DEF WriterStep
-----------------------------------------------------------------------------
(***************************************************************************)
(* Steps of a stream.                                                      *)
(***************************************************************************)

(* One stream moves, and what it then is is consistent by itself.          *)
LEMMA StreamMoves ==
  ASSUME StreamInv, NEW s \in Streams, NEW next \in StreamStates,
         stream' = [stream EXCEPT ![s] = next], errors' \in 0..MaxErrors,
         errors' = 0 => errors = 0, UNCHANGED <<row, writer, sweeps>>,
         \A n \in DOMAIN next.inbox : Told(next.inbox[n]),
         next.last # NoEvent => Weight(next.last.status) <= Weight(row),
         next.pc \in {"subscribe", "loop"} => next.last.status \notin Closing,
         (/\ next.pc = "loop" /\ ~next.late
          /\ row \in Closing /\ errors = 0 /\ sweeps = 0)
            => \/ \E n \in DOMAIN next.inbox : next.inbox[n].status \in Closing
               \/ \E w \in Writers :
                    writer[w].pc = "announce" /\ writer[w].says.status \in Closing
  PROVE  StreamInv'
  <1>1. /\ stream' \in [Streams -> StreamStates]
        /\ stream'[s] = next
        /\ \A t \in Streams \ {s} : stream'[t] = stream[t]
    BY DEF StreamInv, StreamTypeOK
  <1>2. StreamTypeOK'
    BY <1>1 DEF StreamInv, StreamTypeOK
  <1>3. WritersWrote'
    BY DEF StreamInv, WritersWrote, Told
  <1>4. InboxesTold'
    <2>1. ASSUME NEW t \in Streams, NEW n \in DOMAIN stream'[t].inbox
          PROVE  Told(stream'[t].inbox[n])
      BY <1>1 DEF StreamInv, InboxesTold
    <2> QED
      BY <2>1 DEF InboxesTold, Told
  <1>5. NeverAhead' /\ OpenEnded'
    BY <1>1 DEF StreamInv, NeverAhead, OpenEnded
  <1>6. EndIsAnnounced'
    <2> SUFFICES ASSUME NEW t \in Streams, stream'[t].pc = "loop", ~stream'[t].late,
                        row \in Closing, errors = 0, sweeps = 0
                 PROVE  \/ \E n \in DOMAIN stream'[t].inbox :
                             stream'[t].inbox[n].status \in Closing
                        \/ \E w \in Writers :
                             writer[w].pc = "announce" /\ writer[w].says.status \in Closing
      BY DEF EndIsAnnounced
    <2>1. CASE t = s
      BY <1>1, <2>1
    <2>2. CASE t # s
      <3>1. stream'[t] = stream[t]
        BY <1>1, <2>2
      <3> QED
        BY <3>1 DEF StreamInv, EndIsAnnounced
    <2> QED
      BY <2>1, <2>2
  <1> QED
    BY <1>2, <1>3, <1>4, <1>5, <1>6 DEF StreamInv

(* A stream that closes, whatever for, forgets its inbox.                  *)
LEMMA CloseKeeps ==
  ASSUME StreamInv, NEW s \in Streams, NEW why \in ClosedPcs, Close(s, why),
         errors' \in 0..MaxErrors, errors' = 0 => errors = 0,
         UNCHANGED <<row, writer, sweeps>>
  PROVE  StreamInv'
  <1> DEFINE next == [stream[s] EXCEPT !.pc = why, !.inbox = <<>>]
  <1>1. stream' = [stream EXCEPT ![s] = next]
    BY DEF Close, StreamInv, StreamTypeOK
  <1>2. /\ next \in StreamStates /\ next.pc = why /\ next.inbox = <<>>
        /\ next.last = stream[s].last
    <2>1. stream[s] \in StreamStates /\ <<>> \in Seq(Events)
      BY EmptySeq DEF StreamInv, StreamTypeOK
    <2> QED
      BY <2>1 DEF StreamStates
  <1>3. DOMAIN next.inbox = {} /\ why \notin {"subscribe", "loop"}
    BY <1>2, EmptySeq, LenProperties DEF ClosedPcs
  <1>4. next.last # NoEvent => Weight(next.last.status) <= Weight(row)
    BY <1>2 DEF StreamInv, NeverAhead
  <1> HIDE DEF next
  <1> QED
    BY <1>1, <1>2, <1>3, <1>4, StreamMoves

LEMMA ClosersKeep ==
  ASSUME StreamInv, NEW s \in Streams,
         StreamRedisFails(s) \/ TimeOut(s) \/ Disconnect(s)
  PROVE  StreamInv'
  <1>1. CASE StreamRedisFails(s)
    <2>1. errors' \in 0..MaxErrors /\ errors' # 0
      BY <1>1, StreamAssumption DEF StreamRedisFails, StreamInv, StreamTypeOK
    <2> QED
      BY <1>1, <2>1, CloseKeeps DEF StreamRedisFails, ClosedPcs
  <1>2. CASE TimeOut(s)
    BY <1>2, CloseKeeps DEF TimeOut, ClosedPcs, StreamInv, StreamTypeOK
  <1>3. CASE Disconnect(s)
    BY <1>3, CloseKeeps DEF Disconnect, ClosedPcs, StreamInv, StreamTypeOK
  <1> QED
    BY <1>1, <1>2, <1>3

LEMMA OpenKeeps ==
  ASSUME StreamInv, NEW s \in Streams, OpenStream(s)
  PROVE  StreamInv'
  <1> DEFINE next == [stream[s] EXCEPT !.pc = "read"]
  <1>1. stream' = [stream EXCEPT ![s] = next] /\ errors' \in 0..MaxErrors
    BY DEF OpenStream, StreamInv, StreamTypeOK
  <1>2. /\ next \in StreamStates /\ next.pc = "read"
        /\ next.inbox = stream[s].inbox /\ next.last = stream[s].last
    BY DEF StreamInv, StreamTypeOK, StreamStates
  <1>3. /\ \A n \in DOMAIN next.inbox : Told(next.inbox[n])
        /\ next.last # NoEvent => Weight(next.last.status) <= Weight(row)
    BY <1>2 DEF StreamInv, InboxesTold, NeverAhead
  <1> HIDE DEF next
  <1> QED
    BY <1>1, <1>2, <1>3, StreamMoves DEF OpenStream

(* The first event is the row itself.                                      *)
LEMMA ReadKeeps ==
  ASSUME StreamInv, NEW s \in Streams, ReadRow(s)
  PROVE  StreamInv'
  <1>1. PICK p \in 0..MaxProgress :
          stream' = [stream EXCEPT
            ![s].pc = IF row \in Closing THEN "complete" ELSE "subscribe",
            ![s].last = [status |-> row, progress |-> p]]
    BY DEF ReadRow
  <1> DEFINE e == [status |-> row, progress |-> p]
             pc == IF row \in Closing THEN "complete" ELSE "subscribe"
             next == [stream[s] EXCEPT !.pc = pc, !.last = e]
  <1>2. stream' = [stream EXCEPT ![s] = next]
    BY <1>1 DEF StreamInv, StreamTypeOK
  <1>3. e \in Events /\ e.status = row
    BY DEF Events, StreamInv, StreamTypeOK
  <1>4. pc \in {"complete", "subscribe"} /\ (pc = "subscribe" => row \notin Closing)
    OBVIOUS
  <1> HIDE DEF e, pc
  <1>5. /\ next \in StreamStates /\ next.pc = pc /\ next.last = e
        /\ next.inbox = stream[s].inbox
    BY <1>3, <1>4 DEF StreamInv, StreamTypeOK, StreamStates, ClosedPcs
  <1>6. \A n \in DOMAIN next.inbox : Told(next.inbox[n])
    BY <1>5 DEF StreamInv, InboxesTold
  <1>7. Weight(next.last.status) <= Weight(row)
    BY <1>3, <1>5, Weights DEF StreamInv, StreamTypeOK
  <1>8. errors' \in 0..MaxErrors
    BY DEF ReadRow, StreamInv, StreamTypeOK
  <1> HIDE DEF next
  <1> QED
    BY <1>2, <1>3, <1>4, <1>5, <1>6, <1>7, <1>8, StreamMoves DEF ReadRow

(* Whoever subscribes once the row is final is late; for the others it is  *)
(* not closing yet.                                                        *)
LEMMA SubscribeKeeps ==
  ASSUME StreamInv, NEW s \in Streams, Subscribe(s)
  PROVE  StreamInv'
  <1> DEFINE l == (row \notin Live)
             next == [stream[s] EXCEPT !.pc = "loop", !.late = l]
  <1>1. stream' = [stream EXCEPT ![s] = next] /\ errors' \in 0..MaxErrors
    BY DEF Subscribe, StreamInv, StreamTypeOK
  <1>2. /\ l \in BOOLEAN
        /\ ~l => row \notin Closing
    BY DEF Live, Closing
  <1> HIDE DEF l
  <1>3. /\ next \in StreamStates /\ next.pc = "loop" /\ next.late = l
        /\ next.inbox = stream[s].inbox /\ next.last = stream[s].last
    BY <1>2 DEF StreamInv, StreamTypeOK, StreamStates
  <1>4. /\ \A n \in DOMAIN next.inbox : Told(next.inbox[n])
        /\ next.last # NoEvent => Weight(next.last.status) <= Weight(row)
        /\ next.last.status \notin Closing
    BY <1>3 DEF StreamInv, InboxesTold, NeverAhead, OpenEnded, Subscribe
  <1> HIDE DEF next
  <1> QED
    BY <1>1, <1>2, <1>3, <1>4, StreamMoves DEF Subscribe

LEMMA TimeKeeps ==
  ASSUME StreamInv, NEW s \in Streams, TimePasses(s)
  PROVE  StreamInv'
  <1> DEFINE next == [stream[s] EXCEPT !.expired = TRUE]
  <1>1. stream' = [stream EXCEPT ![s] = next] /\ errors' \in 0..MaxErrors
    BY DEF TimePasses, StreamInv, StreamTypeOK
  <1>2. /\ next \in StreamStates /\ next.pc = stream[s].pc /\ next.late = stream[s].late
        /\ next.inbox = stream[s].inbox /\ next.last = stream[s].last
    BY DEF StreamInv, StreamTypeOK, StreamStates
  <1>3. /\ \A n \in DOMAIN next.inbox : Told(next.inbox[n])
        /\ next.last # NoEvent => Weight(next.last.status) <= Weight(row)
        /\ next.pc \in {"subscribe", "loop"} => next.last.status \notin Closing
    BY <1>2 DEF StreamInv, InboxesTold, NeverAhead, OpenEnded
  <1>4. (/\ next.pc = "loop" /\ ~next.late
         /\ row \in Closing /\ errors = 0 /\ sweeps = 0)
           => \/ \E n \in DOMAIN next.inbox : next.inbox[n].status \in Closing
              \/ \E w \in Writers :
                   writer[w].pc = "announce" /\ writer[w].says.status \in Closing
    BY <1>2 DEF StreamInv, EndIsAnnounced
  <1> HIDE DEF next
  <1> QED
    BY <1>1, <1>2, <1>3, <1>4, StreamMoves DEF TimePasses

(* The stream takes its first message.  If that is an end it is news, as   *)
(* what the stream forwarded last is none, and the stream ends; otherwise  *)
(* the end it may wait for is among the messages left.                     *)
LEMMA ForwardKeeps ==
  ASSUME StreamInv, NEW s \in Streams, Forward(s)
  PROVE  StreamInv'
  <1> DEFINE q == stream[s].inbox
             e == Head(q)
             ends == e # stream[s].last /\ e.status \in Closing
             pc == IF ends THEN "complete" ELSE "loop"
             box == IF ends THEN <<>> ELSE Tail(q)
             next == [stream[s] EXCEPT !.last = e, !.pc = pc, !.inbox = box]
  <1>1. /\ stream[s] \in StreamStates /\ q \in Seq(Events) /\ q # <<>>
        /\ stream[s].pc = "loop" /\ UNCHANGED <<row, writer, errors, sweeps>>
    BY DEF Forward, StreamInv, StreamTypeOK, StreamStates
  <1>2. stream' = [stream EXCEPT ![s] = next] /\ errors' \in 0..MaxErrors
    BY <1>1 DEF Forward, StreamInv, StreamTypeOK
  <1>3. /\ e \in Events
        /\ Tail(q) \in Seq(Events)
        /\ \A n \in DOMAIN Tail(q) : n + 1 \in DOMAIN q /\ Tail(q)[n] = q[n + 1]
        /\ \A n \in DOMAIN q : q[n] = e
                               \/ (n - 1 \in DOMAIN Tail(q) /\ Tail(q)[n - 1] = q[n])
        /\ \E n \in DOMAIN q : q[n] = e
    <2> HIDE DEF q
    <2> QED
      BY <1>1, TailKeeps
  <1>4. Told(e)
    BY <1>3 DEF StreamInv, InboxesTold
  <1>5. e.status \in Closing => ends
    BY <1>1 DEF StreamInv, OpenEnded
  <1>6. /\ box \in Seq(Events)
        /\ ends => pc = "complete"
        /\ ~ends => pc = "loop" /\ box = Tail(q)
        /\ \A n \in DOMAIN box : Told(box[n])
    <2>1. CASE ends
      <3>1. box = <<>> /\ pc = "complete"
        BY <2>1
      <3>2. <<>> \in Seq(Events) /\ DOMAIN <<>> = {}
        BY EmptySeq, LenProperties
      <3> QED
        BY <2>1, <3>1, <3>2
    <2>2. CASE ~ends
      <3>1. box = Tail(q) /\ pc = "loop"
        BY <2>2
      <3>2. \A n \in DOMAIN q : Told(q[n])
        BY DEF StreamInv, InboxesTold
      <3> QED
        BY <1>3, <2>2, <3>1, <3>2
    <2> QED
      BY <2>1, <2>2
  <1>7. ((\E n \in DOMAIN q : q[n].status \in Closing) /\ ~ends)
          => \E n \in DOMAIN box : box[n].status \in Closing
    <2> SUFFICES ASSUME NEW n \in DOMAIN q, q[n].status \in Closing, ~ends
                 PROVE  \E m \in DOMAIN box : box[m].status \in Closing
      OBVIOUS
    <2>1. q[n] # e
      BY <1>5
    <2>2. n - 1 \in DOMAIN Tail(q) /\ Tail(q)[n - 1] = q[n]
      BY <1>3, <2>1
    <2> QED
      BY <1>6, <2>2
  <1>8. (~stream[s].late /\ row \in Closing /\ errors = 0 /\ sweeps = 0)
          => \/ \E n \in DOMAIN q : q[n].status \in Closing
             \/ \E w \in Writers :
                  writer[w].pc = "announce" /\ writer[w].says.status \in Closing
    BY <1>1 DEF StreamInv, EndIsAnnounced
  <1> HIDE DEF ends, pc, box, e
  <1>9. /\ next \in StreamStates /\ next.pc = pc /\ next.last = e
        /\ next.inbox = box /\ next.late = stream[s].late
    <2>1. pc \in {"complete", "loop"}
      BY <1>6
    <2> QED
      BY <1>1, <1>3, <1>6, <2>1 DEF StreamStates, ClosedPcs
  <1> HIDE DEF next, q
  <1>10. /\ \A n \in DOMAIN next.inbox : Told(next.inbox[n])
         /\ Weight(next.last.status) <= Weight(row)
         /\ next.pc \in {"subscribe", "loop"} => next.last.status \notin Closing
    BY <1>4, <1>5, <1>6, <1>9 DEF Told
  <1>11. (/\ next.pc = "loop" /\ ~next.late
          /\ row \in Closing /\ errors = 0 /\ sweeps = 0)
            => \/ \E n \in DOMAIN next.inbox : next.inbox[n].status \in Closing
               \/ \E w \in Writers :
                    writer[w].pc = "announce" /\ writer[w].says.status \in Closing
    BY <1>6, <1>7, <1>8, <1>9
  <1> QED
    BY <1>1, <1>2, <1>9, <1>10, <1>11, StreamMoves
-----------------------------------------------------------------------------
(***************************************************************************)
(* The invariant and its consequences.                                     *)
(***************************************************************************)
LEMMA StreamInvInit == StreamInit => StreamInv
  <1> SUFFICES ASSUME StreamInit PROVE StreamInv
    OBVIOUS
  <1>1. <<>> \in Seq(Events) /\ DOMAIN <<>> = {}
    BY EmptySeq, LenProperties
  <1>2. StreamTypeOK
    BY <1>1, StreamAssumption DEF StreamInit, StreamTypeOK, WriterStates, StreamStates, Statuses
  <1>3. \A s \in Streams : /\ stream[s].pc = "idle" /\ stream[s].last = NoEvent
                           /\ stream[s].inbox = <<>>
    BY DEF StreamInit
  <1>4. \A w \in Writers : writer[w].pc = "idle"
    BY DEF StreamInit
  <1>5. WritersWrote
    BY <1>4 DEF WritersWrote
  <1>6. InboxesTold
    BY <1>1, <1>3 DEF InboxesTold
  <1>7. NeverAhead /\ OpenEnded /\ EndIsAnnounced
    BY <1>3 DEF NeverAhead, OpenEnded, EndIsAnnounced
  <1> QED
    BY <1>2, <1>5, <1>6, <1>7 DEF StreamInv

LEMMA StreamInvStep == StreamInv /\ [StreamNext]_streamVars => StreamInv'
  <1> SUFFICES ASSUME StreamInv, [StreamNext]_streamVars PROVE StreamInv'
    OBVIOUS
  <1>1. ASSUME NEW w \in Writers, WriterStep(w) PROVE StreamInv'
    BY <1>1, WriterStepKeeps
  <1>2. CASE SweepRow \/ CleanupStalePending \/ CleanupStaleProcessing
    BY <1>2, SweepsKeep
  <1>3. ASSUME NEW s \in Streams,
               \/ OpenStream(s) \/ StreamStep(s) \/ StreamRedisFails(s)
               \/ TimePasses(s) \/ Disconnect(s)
        PROVE  StreamInv'
    BY <1>3, OpenKeeps, ReadKeeps, SubscribeKeeps, ForwardKeeps, TimeKeeps, ClosersKeep
       DEF StreamStep
  <1>4. CASE UNCHANGED streamVars
    BY <1>4 DEF streamVars, StreamInv, StreamTypeOK, WritersWrote, Told, InboxesTold,
                NeverAhead, OpenEnded, EndIsAnnounced
  <1> QED
    BY <1>1, <1>2, <1>3, <1>4 DEF StreamNext

LEMMA StreamInvAlways == StreamSpec => []StreamInv
  BY StreamInvInit, StreamInvStep, PTL DEF StreamSpec

(* Rows, writers and streams stay what task_status_stream and the writers  *)
(* take them for, and what has gone wrong is counted.                      *)
THEOREM StreamTypeCorrect == StreamSpec => []StreamTypeOK
  BY StreamInvAlways, PTL DEF StreamInv

(* No client is told more than the row holds: an event is published after  *)
(* the write it is about, which was let in or outweighed, the row never    *)
(* falls back, and each message in an inbox came from such a write.        *)
THEOREM StreamsNeverAhead == StreamSpec => []NeverAhead
  BY StreamInvAlways, PTL DEF StreamInv

(* A stream that subscribed in time to a task that ends has the closing    *)
(* event in its inbox or a writer about to publish it, unless Redis failed *)
(* or the row was given up in silence: task_status_stream does not drop an *)
(* end as a duplicate, since it has forwarded none before.                 *)
THEOREM EndsAreAnnounced == StreamSpec => []EndIsAnnounced
  BY StreamInvAlways, PTL DEF StreamInv
-----------------------------------------------------------------------------
(***************************************************************************)
(* The attempt and what is seen of it, side by side: what is proved of     *)
(* each module holds in the module the run explores.                       *)
(***************************************************************************)
LEMMA AttemptIsItsParts == AttemptSpec => BatchSpec /\ StreamSpec
  <1>1. AttemptInit => BatchInit /\ StreamInit
    BY DEF AttemptInit
  <1>2. [AttemptNext]_attemptVars => [BatchNext]_batchVars /\ [StreamNext]_streamVars
    BY DEF AttemptNext, attemptVars
  <1> QED
    BY <1>1, <1>2, PTL DEF AttemptSpec, BatchSpec, StreamSpec

(* Whichever of the two the behaviour is about, for any number of papers,  *)
(* keys, writers and streams: jobs, slots, rows and events keep their      *)
(* types, and the loop never counts more papers than it was given.         *)
THEOREM AttemptIsTyped == AttemptSpec => []AttemptTypeOK
  BY AttemptIsItsParts, BatchIsTyped, StreamTypeCorrect, PTL DEF AttemptTypeOK
=============================================================================
