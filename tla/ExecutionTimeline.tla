------------------------- MODULE ExecutionTimeline -------------------------
(***************************************************************************)
(* The way of an event from its outbox row to the timeline of the          *)
(* execution: the dispatch cycles of the worker, the channel without       *)
(* publisher confirms, the exchange that routes it, the queue, and the     *)
(* workflow service that checks each event and stores it once.  Source:    *)
(* apps/execution-worker/src/index.ts, apps/workflow-service/src/index.ts. *)
(*                                                                         *)
(* setInterval starts a cycle every five seconds whether or not the last   *)
(* one has ended: the cycles of one process overlap.  The row of an event  *)
(* is committed by ExecutionWorker, here by CommitRow.                     *)
(***************************************************************************)
EXTENDS Outbox, MessageContracts, SequencesExt

CONSTANTS Events,      \* events of the worker, one outbox row each
          Content,     \* the message of each of them
          Foreign,     \* workflow.created messages: the API binds them to the same queue
          Cycles,      \* bound: dispatch cycles that are under way at once
          BatchSize,   \* outboxDispatcherBatchSize, 25 in the code
          Slots,       \* deliveries a workflow service works on at once (prefetch 10)
          MaxFailures, \* bound: statements that fail
          MaxCrashes,  \* bound: lost connections of the workflow service
          MaxWorkerCrashes  \* bound: crashes and lost connections of the worker

ASSUME TimelineAssumption ==
  /\ Events \cap Foreign = {}
  /\ Content \in [Events -> WorkerMessages]
  /\ BatchSize \in Nat \ {0}
  /\ {MaxFailures, MaxCrashes, MaxWorkerCrashes} \subseteq Nat
  /\ IsFiniteSet(Slots)

VARIABLES outbox,    \* the row of each event
          created,   \* the events that have a row, oldest first
          cycle,     \* what each dispatch cycle is doing
          buffer,    \* written to the worker's channel and not yet to the broker
          queue,     \* flowpilot.workflow-service.execution-events
          slot,      \* the deliveries in the hands of the workflow service
          timeline,  \* WorkflowExecutionEvent: the events stored
          announced, \* foreign messages the API has published
          spent      \* how much of each bound is used up

vars == <<outbox, created, cycle, buffer, queue, slot, timeline, announced, spent>>

worker == <<outbox, created, cycle, buffer>>
service == <<queue, slot, timeline, announced>>

NoCycle == [step |-> "IDLE", batch |-> <<>>]
NoDelivery == [step |-> "IDLE", event |-> "NONE"]

Bounds ==
  [failures |-> MaxFailures, crashes |-> MaxCrashes, workerCrashes |-> MaxWorkerCrashes]

Spend(kind) == /\ spent[kind] < Bounds[kind]
               /\ spent' = [spent EXCEPT ![kind] = @ + 1]

Body(m) == IF m \in Foreign THEN CreateWorkflowCreatedMessage ELSE Content[m]

\* The queue after the message has been published to the exchange of its key.  The API
\* declares the bindings before it sends the first command, hence before any event.
Routed(m) ==
  LET key == Body(m).eventName
  IN IF ServiceQueue \in Routes(GetExchangeForRoutingKey(key), key) THEN Append(queue, m) ELSE queue

Init ==
  /\ outbox = [e \in Events |-> AbsentRow]
  /\ created = <<>>
  /\ cycle = [c \in Cycles |-> NoCycle]
  /\ buffer = <<>> /\ queue = <<>>
  /\ slot = [s \in Slots |-> NoDelivery]
  /\ timeline = {} /\ announced = {}
  /\ spent = [kind \in DOMAIN Bounds |-> 0]

-----------------------------------------------------------------------------
(* The worker.                                                             *)

CommitRow(e) ==
  /\ ~Exists(outbox[e])
  /\ outbox' = PersistOutboxEvent(outbox, e)
  /\ created' = Append(created, e)
  /\ UNCHANGED <<cycle, buffer, service, spent>>

\* The places in the order of creation of the rows the query looks for.
Due == {i \in DOMAIN created : Dispatchable(outbox[created[i]])}

\* The query of a cycle: the oldest rows, as they are now.
FetchBatch(c) ==
  /\ cycle[c].step = "IDLE"
  /\ \E n \in 1..BatchSize : \E oldest \in [1..n -> Due] :
       /\ \A i, j \in 1..n : i < j => oldest[i] < oldest[j]
       /\ \A d \in Due : (\E i \in 1..n : oldest[i] = d) \/ (n = BatchSize /\ oldest[n] < d)
       /\ cycle' = [cycle EXCEPT ![c] =
                      [step  |-> "PUBLISH",
                       batch |-> [i \in 1..n |-> [event |-> created[oldest[i]],
                                                  row   |-> outbox[created[oldest[i]]]]]]]
  /\ UNCHANGED <<outbox, created, buffer, service, spent>>

Current(c) == cycle[c].batch[1]

Step(c, step) == cycle' = [cycle EXCEPT ![c].step = step]

\* Mutant: the loop runs once too often.
NextRowTooMany(c) ==
  cycle' = [cycle EXCEPT ![c] = [step |-> "PUBLISH", batch |-> Tail(@.batch)]]

\* The loop goes on, also after a failure, and the cycle ends with its batch.
NextRow(c) ==
  cycle' = [cycle EXCEPT ![c] =
              IF Len(@.batch) = 1 THEN NoCycle ELSE [step |-> "PUBLISH", batch |-> Tail(@.batch)]]

\* channel.publish returns: the message is in the buffer of the channel.  It is there
\* as well when publish says the buffer is full, which the code takes for a failure.
Publish(c) ==
  /\ cycle[c].step = "PUBLISH"
  /\ buffer' = Append(buffer, Current(c).event)
  /\ Step(c, "MARK_PUBLISHED") \/ Step(c, "MARK_FAILURE")
  /\ UNCHANGED <<outbox, created, service, spent>>

\* channel.publish throws: the channel is closed.
PublishThrows(c) ==
  /\ cycle[c].step = "PUBLISH"
  /\ Step(c, "MARK_FAILURE")
  /\ UNCHANGED <<outbox, created, buffer, service, spent>>

MarkRow(c) ==
  /\ \/ /\ cycle[c].step = "MARK_PUBLISHED"
        /\ outbox' = [outbox EXCEPT ![Current(c).event] = MarkPublished(@)]
     \/ /\ cycle[c].step = "MARK_FAILURE"
        /\ outbox' = [outbox EXCEPT ![Current(c).event] = MarkPublishFailure(Current(c).row)]
  /\ NextRow(c)
  /\ UNCHANGED <<created, buffer, service, spent>>

\* The statement that marks the row fails: the loop catches that too.
MarkRowFails(c) ==
  /\ cycle[c].step \in {"MARK_PUBLISHED", "MARK_FAILURE"}
  /\ NextRow(c)
  /\ Spend("failures")
  /\ UNCHANGED <<outbox, created, buffer, service>>

\* The process ends and starts again, by itself or because its connection broke: what
\* its channel had not sent is gone.
CrashWorker ==
  /\ Spend("workerCrashes")
  /\ buffer' = <<>>
  /\ cycle' = [c \in Cycles |-> NoCycle]
  /\ UNCHANGED <<outbox, created, service>>

-----------------------------------------------------------------------------
(* The broker.                                                             *)

Transmit ==
  /\ buffer # <<>>
  /\ buffer' = Tail(buffer)
  /\ queue' = Routed(Head(buffer))
  /\ UNCHANGED <<outbox, created, cycle, slot, timeline, announced, spent>>

\* The API publishes workflow.created, which its own bindings lead to this queue.
Announce(m) ==
  /\ m \notin announced
  /\ announced' = announced \cup {m}
  /\ queue' = Routed(m)
  /\ UNCHANGED <<worker, slot, timeline, spent>>

Deliver(s) ==
  /\ slot[s].step = "IDLE" /\ queue # <<>>
  /\ slot' = [slot EXCEPT ![s] = [step |-> "HANDLE", event |-> Head(queue)]]
  /\ queue' = Tail(queue)
  /\ UNCHANGED <<worker, timeline, announced, spent>>

-----------------------------------------------------------------------------
(* The workflow service.                                                   *)

Free(s) == slot' = [slot EXCEPT ![s] = NoDelivery]

\* A message that is no lifecycle event is refused for good.  The queue is declared
\* without a dead-letter exchange, by this service and by the API: nothing keeps it.
Reject(s) ==
  /\ slot[s].step = "HANDLE" /\ ~IsWorkflowExecutionLifecycleMessage(Body(slot[s].event))
  /\ Free(s)
  /\ UNCHANGED <<worker, queue, timeline, announced, spent>>

\* persistWorkflowExecutionEvent: one row per event id, the first one stays.
Persist(s) ==
  /\ slot[s].step = "HANDLE" /\ IsWorkflowExecutionLifecycleMessage(Body(slot[s].event))
  /\ timeline' = timeline \cup {slot[s].event}
  /\ slot' = [slot EXCEPT ![s].step = "STORED"]
  /\ UNCHANGED <<worker, queue, announced, spent>>

Ack(s) ==
  /\ slot[s].step = "STORED"
  /\ Free(s)
  /\ UNCHANGED <<worker, queue, timeline, announced, spent>>

\* Mutant: the message is refused without requeue.
PersistFailsDrops(s) ==
  /\ slot[s].step = "HANDLE" /\ IsWorkflowExecutionLifecycleMessage(Body(slot[s].event))
  /\ timeline' \in {timeline, timeline \cup {slot[s].event}}
  /\ Free(s)
  /\ Spend("failures")
  /\ UNCHANGED <<worker, queue, announced>>

\* The statement fails, before or after its commit, and the message is requeued.
\* The error that is not retried, a missing execution, cannot happen: none is deleted.
PersistFails(s) ==
  /\ slot[s].step = "HANDLE" /\ IsWorkflowExecutionLifecycleMessage(Body(slot[s].event))
  /\ timeline' \in {timeline, timeline \cup {slot[s].event}}
  /\ Free(s)
  /\ queue' = <<slot[s].event>> \o queue
  /\ Spend("failures")
  /\ UNCHANGED <<worker, announced>>

\* The connection is lost: the broker requeues what was not acknowledged.
LoseConnection ==
  /\ Spend("crashes")
  /\ LET held == {s \in Slots : slot[s].step # "IDLE"}
     IN /\ held # {}
        /\ \E order \in SetToSeqs(held) :
             queue' = [i \in DOMAIN order |-> slot[order[i]].event] \o queue
  /\ slot' = [s \in Slots |-> NoDelivery]
  /\ UNCHANGED <<worker, timeline, announced>>

-----------------------------------------------------------------------------
CycleStep(c) == Publish(c) \/ PublishThrows(c) \/ MarkRow(c) \/ MarkRowFails(c)

SlotStep(s) == Reject(s) \/ Persist(s) \/ PersistFails(s) \/ Ack(s)

Next ==
  \/ \E e \in Events : CommitRow(e)
  \/ \E c \in Cycles : FetchBatch(c) \/ CycleStep(c)
  \/ CrashWorker
  \/ Transmit
  \/ \E m \in Foreign : Announce(m)
  \/ \E s \in Slots : Deliver(s) \/ SlotStep(s)
  \/ LoseConnection

\* The timer goes on, a statement ends, the broker sends what it has.
Fairness ==
  /\ \A c \in Cycles : WF_vars(FetchBatch(c) \/ CycleStep(c))
  /\ WF_vars(Transmit)
  /\ \A s \in Slots : WF_vars(Deliver(s) \/ SlotStep(s))

Spec == Init /\ [][Next]_vars

FairSpec == Spec /\ Fairness

-----------------------------------------------------------------------------
\* On its way: with the channel, the broker, or the workflow service.
InFlight(e) ==
  Contains(buffer, e) \/ Contains(queue, e) \/ \E s \in Slots : slot[s].event = e

TypeOK ==
  /\ outbox \in [Events -> Rows]
  /\ created \in Seq(Events)
  /\ \A c \in Cycles : cycle[c].step = "IDLE" <=> cycle[c].batch = <<>>
  /\ buffer \in Seq(Events) /\ queue \in Seq(Events \cup Foreign)
  /\ timeline \subseteq Events

\* The events the timeline is for: all but ai.trace.created.
LifecycleEvents == {e \in Events : Content[e].eventName # AiTraceCreated}

\* The worker's process and connection have stood all the time.
WorkerStood == spent.workerCrashes = 0

\* A lifecycle event that has a row is stored, on its way, still to be published, or given up,
\* whatever statements fail and whatever connection the service loses: neither the marks
\* of overlapping cycles nor a delivery that fails half way drops the last copy, and no
\* kind of event is left without a binding or refused by the check of the service.
\* A crash of the worker is the exception: a row is marked PUBLISHED when its event is in
\* a buffer of the process, since the channel has no confirms (index.ts:1443-1468).
NothingIsLost ==
  WorkerStood =>
    \A e \in LifecycleEvents :
      Exists(outbox[e]) =>
        e \in timeline \/ InFlight(e) \/ outbox[e].status \in {"PENDING", "FAILED"}

\* Every row is settled for good, also when publishing fails for ever and overlapping
\* cycles write counts over each other that they computed from old snapshots: no row is
\* retried without end, and none starves behind older ones that fail (index.ts:1493-1503).
RowsSettle ==
  \A e \in Events :
    Exists(outbox[e]) ~> [](outbox[e].status \in {"PUBLISHED", "FAILED"})

\* A lifecycle event that has a row ends in the timeline or is given up, unless the worker
\* crashes: from every state the system gets to one in which no such event is missing.
EventsAreStored ==
  []<>(\A e \in LifecycleEvents :
         Exists(outbox[e]) => e \in timeline \/ outbox[e].status = "FAILED" \/ ~WorkerStood)

=============================================================================
