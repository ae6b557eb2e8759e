--------------------------- MODULE StatusStream ---------------------------
(***************************************************************************)
(* The status stream of one task (api/sse.py): a client reads the row,     *)
(* subscribes to the task's Redis channel and forwards what is published   *)
(* there until a terminal event, an error or its timeout.  The writers of  *)
(* the row publish after they write, in a second step that may fail;       *)
(* Redis keeps nothing for those who have not subscribed yet.              *)
(***************************************************************************)
EXTENDS TaskStates, Sequences, FiniteSets

CONSTANTS
  Streams,      \* open GET /tasks/{id}/stream requests
  Graders,      \* attempts of grade_homework_task on this task
  Cancellers,   \* cancel requests for this task
  Cleaners,     \* clean-ups of this task by an operator
  MaxProgress,  \* bound: the progress an attempt reports
  MaxErrors,    \* bound: Redis errors
  MaxSweeps     \* bound: rows given up by the sweeper or an operator

ASSUME StreamAssumption ==
  MaxProgress \in Nat /\ MaxErrors \in Nat /\ MaxSweeps \in Nat

VARIABLES
  row,      \* tasks.status
  writer,   \* where each writer of the row is, and what it has to announce
  stream,   \* where each stream is
  errors,   \* Redis errors so far
  sweeps    \* rows given up so far

streamVars == <<row, writer, stream, errors, sweeps>>

Writers == Graders \cup Cancellers \cup Cleaners

(* The keys of an event that _status_event_fingerprint compares.           *)
Events  == [status : Statuses, progress : 0..MaxProgress]
NoEvent == [status |-> Absent, progress |-> 0]

(* The statuses after which a stream closes; CANCELLED is not one.         *)
Closing == {"COMPLETED", "FAILED"}

ClosedPcs == {"complete", "error", "timeout", "gone"}

(* late is a history variable: the row was final when it subscribed.       *)
StreamStates ==
  [pc : {"idle", "read", "subscribe", "loop"} \cup ClosedPcs,
   last : Events \cup {NoEvent}, inbox : Seq(Events),
   expired : BOOLEAN, late : BOOLEAN]

WriterStates ==
  [pc : {"idle", "announce", "grading", "commit", "done"},
   says : Events \cup {NoEvent}]

StreamTypeOK ==
  /\ row \in Statuses
  /\ writer \in [Writers -> WriterStates]
  /\ stream \in [Streams -> StreamStates]
  /\ errors \in 0..MaxErrors
  /\ sweeps \in 0..MaxSweeps

StreamInit ==
  /\ row = "PENDING"
  /\ writer = [w \in Writers |-> [pc |-> "idle", says |-> NoEvent]]
  /\ stream = [s \in Streams |->
       [pc |-> "idle", last |-> NoEvent, inbox |-> <<>>,
        expired |-> FALSE, late |-> FALSE]]
  /\ errors = 0
  /\ sweeps = 0
-----------------------------------------------------------------------------
(***************************************************************************)
(* The writers of the row.                                                 *)
(***************************************************************************)

WriteRow(s) == row' = IF Outranks(s, row) THEN s ELSE row

Announcing(w, s, p) ==
  writer' = [writer EXCEPT ![w] = [pc |-> "announce",
                                   says |-> [status |-> s, progress |-> p]]]

(* grade_homework_task: PROCESSING, then progress (a column of its own,    *)
(* the status stays), then the outcome, each written first and published   *)
(* in the next step, whether the weights let it into the row or not.       *)
MarkRow(w) ==
  /\ writer[w].pc = "idle"
  /\ WriteRow("PROCESSING")
  /\ Announcing(w, "PROCESSING", 0)
  /\ UNCHANGED <<stream, errors, sweeps>>

(* Mutant: progress is counted past the end.                               *)
ReportProgressPastEnd(w) ==
  /\ writer[w].pc = "grading"
  /\ writer[w].says.progress <= MaxProgress
  /\ Announcing(w, "PROCESSING", writer[w].says.progress + 1)
  /\ UNCHANGED <<row, stream, errors, sweeps>>

ReportProgress(w) ==
  /\ writer[w].pc = "grading"
  /\ writer[w].says.progress < MaxProgress
  /\ Announcing(w, "PROCESSING", writer[w].says.progress + 1)
  /\ UNCHANGED <<row, stream, errors, sweeps>>

(* Mutant: the outcome is announced and the row left for later.            *)
RecordOutcomeUnwritten(w, s) ==
  /\ writer[w].pc = "grading"
  /\ Announcing(w, s, 0)
  /\ UNCHANGED <<row, stream, errors, sweeps>>

RecordOutcome(w, s) ==
  /\ writer[w].pc = "grading"
  /\ WriteRow(s)
  /\ Announcing(w, s, 0)
  /\ UNCHANGED <<stream, errors, sweeps>>

(* cancel_task and the clean-up of a task look at the row, and write some  *)
(* steps later what the weights then let in.                               *)
LookBeforeCancel(w) ==
  /\ writer[w].pc = "idle"
  /\ row \in Live
  /\ writer' = [writer EXCEPT ![w].pc = "commit"]
  /\ UNCHANGED <<row, stream, errors, sweeps>>

CancelRow(w) ==
  /\ writer[w].pc = "commit"
  /\ WriteRow("CANCELLED")
  /\ Announcing(w, "CANCELLED", 0)
  /\ UNCHANGED <<stream, errors, sweeps>>

Announced(w) ==
  writer' = [writer EXCEPT
    ![w].pc = IF writer[w].says.status \in Live THEN "grading" ELSE "done"]

(* PUBLISH reaches the streams subscribed at this moment, and no other.    *)
Publish(w) ==
  /\ writer[w].pc = "announce"
  /\ Announced(w)
  /\ stream' = [s \in Streams |->
       IF stream[s].pc = "loop"
       THEN [stream[s] EXCEPT !.inbox = Append(@, writer[w].says)]
       ELSE stream[s]]
  /\ UNCHANGED <<row, errors, sweeps>>

(* publish_status and publish_task_status log a failure and go on.         *)
PublishFails(w) ==
  /\ writer[w].pc = "announce"
  /\ errors < MaxErrors
  /\ errors' = errors + 1
  /\ Announced(w)
  /\ UNCHANGED <<row, stream, sweeps>>

(* cleanup_ops_queue_task_by_id publishes nothing.                         *)
CleanRow(w) ==
  /\ writer[w].pc = "commit"
  /\ sweeps < MaxSweeps
  /\ sweeps' = sweeps + 1
  /\ WriteRow("FAILED")
  /\ writer' = [writer EXCEPT ![w].pc = "done"]
  /\ UNCHANGED <<stream, errors>>

(* Whoever gives stale rows up writes FAILED and publishes nothing.        *)
GiveUp(statuses) ==
  /\ row \in statuses
  /\ sweeps < MaxSweeps
  /\ sweeps' = sweeps + 1
  /\ row' = "FAILED"
  /\ UNCHANGED <<writer, stream, errors>>

(* zombie_sweeper_task, and the two clean-ups of the console, where the    *)
(* age of a stale row may be a minute.                                     *)
SweepRow == GiveUp(Live)
CleanupStalePending == GiveUp({"PENDING"})
CleanupStaleProcessing == GiveUp({"PROCESSING"})
-----------------------------------------------------------------------------
(***************************************************************************)
(* A stream: task_status_stream, one step between two awaits.              *)
(***************************************************************************)

Close(s, why) == stream' = [stream EXCEPT ![s].pc = why, ![s].inbox = <<>>]

OpenStream(s) ==
  /\ stream[s].pc = "idle"
  /\ stream' = [stream EXCEPT ![s].pc = "read"]
  /\ UNCHANGED <<row, writer, errors, sweeps>>

(* The initial event; a task that has ended is reported as complete.       *)
ReadRow(s) ==
  /\ stream[s].pc = "read"
  /\ \E p \in 0..MaxProgress :
       /\ row \notin Live => p = 0
       /\ stream' = [stream EXCEPT
            ![s].pc = IF row \in Closing THEN "complete" ELSE "subscribe",
            ![s].last = [status |-> row, progress |-> p]]
  /\ UNCHANGED <<row, writer, errors, sweeps>>

Subscribe(s) ==
  /\ stream[s].pc = "subscribe"
  /\ stream' = [stream EXCEPT ![s].pc = "loop", ![s].late = row \notin Live]
  /\ UNCHANGED <<row, writer, errors, sweeps>>

(* Redis fails under subscribe or get_message: an error event, the end.    *)
StreamRedisFails(s) ==
  /\ stream[s].pc \in {"subscribe", "loop"}
  /\ errors < MaxErrors
  /\ errors' = errors + 1
  /\ Close(s, "error")
  /\ UNCHANGED <<row, writer, sweeps>>

(* Mutant: the fingerprint is stored before it is compared, so nothing is  *)
(* ever news.                                                              *)
ForwardComparesTooLate(s) ==
  /\ stream[s].pc = "loop"
  /\ ~stream[s].expired
  /\ stream[s].inbox # <<>>
  /\ stream' = [stream EXCEPT ![s].inbox = Tail(@)]
  /\ UNCHANGED <<row, writer, errors, sweeps>>

(* One message: an event equal to the last one is dropped, a closing one   *)
(* is forwarded and ends the stream.                                       *)
Forward(s) ==
  /\ stream[s].pc = "loop"
  /\ ~stream[s].expired
  /\ stream[s].inbox # <<>>
  /\ LET event == Head(stream[s].inbox)
         news  == event # stream[s].last
         ends  == news /\ event.status \in Closing
     IN stream' = [stream EXCEPT
          ![s].last = event,
          ![s].pc = IF ends THEN "complete" ELSE "loop",
          ![s].inbox = IF ends THEN <<>> ELSE Tail(stream[s].inbox)]
  /\ UNCHANGED <<row, writer, errors, sweeps>>

TimePasses(s) ==
  /\ stream[s].pc = "loop"
  /\ ~stream[s].expired
  /\ stream' = [stream EXCEPT ![s].expired = TRUE]
  /\ UNCHANGED <<row, writer, errors, sweeps>>

(* Mutant: the timeout is looked at once a message has come in.            *)
TimeOutAfterMessage(s) ==
  /\ stream[s].pc = "loop"
  /\ stream[s].expired
  /\ stream[s].inbox # <<>>
  /\ Close(s, "timeout")
  /\ UNCHANGED <<row, writer, errors, sweeps>>

TimeOut(s) ==
  /\ stream[s].pc = "loop"
  /\ stream[s].expired
  /\ Close(s, "timeout")
  /\ UNCHANGED <<row, writer, errors, sweeps>>

(* The client disconnects; the finally block unsubscribes.                 *)
Disconnect(s) ==
  /\ stream[s].pc \in {"subscribe", "loop"}
  /\ Close(s, "gone")
  /\ UNCHANGED <<row, writer, errors, sweeps>>
-----------------------------------------------------------------------------
WriterStep(w) ==
  \/ w \in Graders /\ (MarkRow(w) \/ ReportProgress(w))
  \/ w \in Graders /\ \E s \in Closing : RecordOutcome(w, s)
  \/ w \in Cancellers \cup Cleaners /\ LookBeforeCancel(w)
  \/ w \in Cancellers /\ CancelRow(w)
  \/ w \in Cleaners /\ CleanRow(w)
  \/ Publish(w)
  \/ PublishFails(w)

StreamStep(s) ==
  \/ ReadRow(s)
  \/ Subscribe(s)
  \/ Forward(s)
  \/ TimeOut(s)

StreamNext ==
  \/ \E w \in Writers : WriterStep(w)
  \/ SweepRow \/ CleanupStalePending \/ CleanupStaleProcessing
  \/ \E s \in Streams :
       \/ OpenStream(s)
       \/ StreamStep(s)
       \/ StreamRedisFails(s)
       \/ TimePasses(s)
       \/ Disconnect(s)

(* A generator that has begun is resumed, and its clock runs.  Nothing is  *)
(* asked of the writers: an attempt may die before it publishes.           *)
StreamFairness ==
  \A s \in Streams : WF_streamVars(StreamStep(s)) /\ WF_streamVars(TimePasses(s))

StreamSpec == StreamInit /\ [][StreamNext]_streamVars
FairStreamSpec == StreamSpec /\ StreamFairness
-----------------------------------------------------------------------------
(* A client is never told more than the row holds: whatever a stream has   *)
(* forwarded, and so the status it reported as complete, weighs no more    *)
(* than tasks.status.  A client that fetches its results on `complete`     *)
(* does not find the task still running.                                   *)
NeverAhead ==
  \A s \in Streams :
    stream[s].last # NoEvent => Weight(stream[s].last.status) <= Weight(row)

(* A stream that subscribed while the task was running is not left waiting *)
(* when the task ends: unless Redis failed or the row was given up,        *)
(* the closing event is in its inbox or about to be published.             *)
EndIsAnnounced ==
  \A s \in Streams :
    /\ stream[s].pc = "loop"
    /\ ~stream[s].late
    /\ row \in Closing
    /\ errors = 0
    /\ sweeps = 0
    => \/ \E n \in DOMAIN stream[s].inbox :
            stream[s].inbox[n].status \in Closing
       \/ \E w \in Writers :
            writer[w].pc = "announce" /\ writer[w].says.status \in Closing

(* Every stream ends, whatever becomes of its task and of the messages     *)
(* about it.                                                               *)
StreamsEnd ==
  \A s \in Streams : stream[s].pc = "read" ~> stream[s].pc \in ClosedPcs
=============================================================================
