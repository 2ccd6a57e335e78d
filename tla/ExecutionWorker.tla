--------------------------- MODULE ExecutionWorker ---------------------------
(***************************************************************************)
(* The life of a workflow.execution.requested command: the API inserts the *)
(* PENDING execution and publishes the command, a worker consumes it, runs *)
(* the workflow's nodes, moves the execution to SUCCEEDED or FAILED,       *)
(* retries or dead-letters the command, and acknowledges it.  Source:      *)
(* apps/execution-worker/src/index.ts and requestExecution in              *)
(* apps/api/src/modules/workflows/workflows.service.ts.                    *)
(*                                                                         *)
(* A step of a worker is what it does between two awaits: one database     *)
(* statement or transaction, or one publish.  Between two steps any other  *)
(* worker may move, the process may crash, and a statement may fail.       *)
(*                                                                         *)
(* Left out: the payloads, the AI traces of a node (their failures are     *)
(* caught and logged, they never change the course of a delivery), and the *)
(* branches for an execution row that does not exist, because the API      *)
(* publishes a command after it inserted the row and nothing deletes one.  *)
(***************************************************************************)
EXTENDS Outbox, Sequences

CONSTANTS Executions,        \* the executions users request
          Workers,           \* the worker processes (prefetch 1: one delivery each)
          Dispatchers,       \* the outbox timers of the worker processes
          NodeCount,         \* nodes of a workflow, run in order 1..NodeCount
          MaxRetryAttempts,  \* FLOWPILOT_MAX_RETRY_ATTEMPTS, 3 in the code
          MaxCrashes,        \* bound: crashes of worker processes
          MaxFailures        \* bound: failed publishes and database statements

ASSUME WorkerAssumption == /\ Executions # {}
                           /\ NodeCount \in Nat \ {0}
                           /\ MaxRetryAttempts \in Nat
                           /\ MaxCrashes \in Nat
                           /\ MaxFailures \in Nat

VARIABLES
  execution,     \* WorkflowExecution.status, "NONE" before the row exists
  request,       \* how far the API's requestExecution got for each execution
  nodeRow,       \* the WorkflowNodeExecution row of each node of each execution
  outbox,        \* the OutboxMessage row of each idempotency key
  ready,         \* copies of each command in the worker queue
  delayed,       \* copies of each command in the retry queues
  deadLettered,  \* the commands in the dead-letter queue
  worker,        \* the delivery each worker holds and where it is in it
  dispatcher,    \* the rows each outbox timer fetched and has not handled yet
  crashes, failures

vars == <<execution, request, nodeRow, outbox, ready, delayed, deadLettered,
          worker, dispatcher, crashes, failures>>

queues == <<ready, delayed, deadLettered>>
faults == <<crashes, failures>>

-----------------------------------------------------------------------------
(* The data.                                                               *)

Statuses == {"NONE", "PENDING", "RUNNING", "SUCCEEDED", "FAILED"}

\* isTerminalExecutionStatus; no code ever writes CANCELLED.
Terminal == {"SUCCEEDED", "FAILED"}

Nodes == 1..NodeCount

\* A row of WorkflowNodeExecution; error is the retryable flag of what it stores.
NodeRows == [status : {"NONE", "RUNNING", "SUCCEEDED", "FAILED"},
             error  : {"none", "retryable", "final"}]

NodeStatus(s) == [status |-> s, error |-> "none"]

NodeFailure(retryable) ==
  [status |-> "FAILED", error |-> IF retryable THEN "retryable" ELSE "final"]

\* Idempotency keys; node 0 is the event of the execution as a whole.
Keys == [kind : {"started", "completed", "failed"}, of : Executions, node : 0..NodeCount]

Key(kind, e, n) == [kind |-> kind, of |-> e, node |-> n]

\* A command in a queue carries its retry attempt in a header.
Commands == [execution : Executions, attempt : 0..MaxRetryAttempts]

Labels == {"Down", "Idle", "FindExecution", "BeginExecution", "RereadExecution",
           "PersistStarted", "PrepareNodes", "StartNode", "PersistNodeStarted",
           "ExecuteNode", "CompleteNode", "PersistNodeCompleted", "NextNode",
           "FailNode", "PersistNodeFailed", "CompleteExecution",
           "CompletionConflict", "FindPending", "Publish", "RecordPublished",
           "RecordPublishFailure", "HandleFailure", "FailExecution",
           "FailureConflict", "DeadLetter", "Ack", "Nack"}

\* Where dispatching an event may return to.
Returns == {"Idle", "PrepareNodes", "ExecuteNode", "NextNode", "HandleFailure", "DeadLetter", "Ack"}

\* The catch clauses around the code a worker runs, innermost first.
Catches == {"FailNode", "HandleFailure", "Nack"}

Snapshots == [key : Keys, row : Rows]

Deliveries == [pc        : Labels,
               command   : Commands,
               node      : 0..NodeCount,    \* the node being run
               batch     : Seq(Snapshots),  \* outbox rows to dispatch, as read
               next      : Returns,         \* where dispatching returns to
               rescue    : Catches,         \* the clause an exception lands in
               retryable : BOOLEAN]         \* of the failure that was caught

\* One cycle of an outbox timer: the rows it read, and the one it published
\* (or failed to publish) and has not recorded yet.
Cycles == [fetched : SUBSET Snapshots, sent : SUBSET Snapshots, refused : SUBSET Snapshots]

IdleDispatcher == [fetched |-> {}, sent |-> {}, refused |-> {}]

IdleWorker == [pc |-> "Idle", command |-> CHOOSE c \in Commands : TRUE, node |-> 0,
               batch |-> <<>>, next |-> "Idle", rescue |-> "HandleFailure",
               retryable |-> FALSE]

-----------------------------------------------------------------------------
(* How a worker moves from one await to the next.                          *)

\* The execution worker w is about.
Of(w) == worker[w].command.execution

At(w, label) == worker[w].pc = label

Goto(w, label) == worker' = [worker EXCEPT ![w].pc = label]

\* The catch clause that is left when an exception lands in `clause`.
Enclosing(clause) == IF clause = "FailNode" THEN "HandleFailure" ELSE "Nack"

\* An exception: the rest of the block is skipped.
Throw(w, retryable) ==
  worker' = [worker EXCEPT ![w].pc = worker[w].rescue,
                           ![w].rescue = Enclosing(worker[w].rescue),
                           ![w].batch = <<>>,
                           ![w].retryable = retryable]

\* Persist the event of `key` and start dispatching the row the upsert returns.
Emit(w, key, label) ==
  /\ outbox' = PersistOutboxEvent(outbox, key)
  /\ worker' = [worker EXCEPT ![w].pc = "Publish",
                              ![w].batch = <<[key |-> key, row |-> outbox'[key]]>>,
                              ![w].next = label]

\* Look for undispatched events of the execution, then go to `label`.
FlushPending(w, label) ==
  worker' = [worker EXCEPT ![w].pc = "FindPending", ![w].next = label]

\* Done with the head of the batch.
NextInBatch(w) ==
  worker' = [worker EXCEPT
               ![w].batch = Tail(@),
               ![w].pc = IF Len(worker[w].batch) = 1 THEN worker[w].next ELSE "Publish"]

-----------------------------------------------------------------------------
(* The API: requestExecution.                                              *)

\* The row is committed first ...
RequestExecution(e) ==
  /\ execution[e] = "NONE"
  /\ execution' = [execution EXCEPT ![e] = "PENDING"]
  /\ request' = [request EXCEPT ![e] = "publishing"]
  /\ UNCHANGED <<nodeRow, outbox, queues, worker, dispatcher, faults>>

\* ... and the command is published on a confirm channel after that.
PublishCommand(e) ==
  /\ request[e] = "publishing"
  /\ request' = [request EXCEPT ![e] = "published"]
  /\ ready' = [ready EXCEPT ![[execution |-> e, attempt |-> 0]] = @ + 1]
  /\ UNCHANGED <<execution, nodeRow, outbox, delayed, deadLettered, worker,
                 dispatcher, faults>>

\* The API process stops, or its channel is closed, before the publish.
LoseCommand(e) ==
  /\ request[e] = "publishing"
  /\ failures < MaxFailures
  /\ failures' = failures + 1
  /\ request' = [request EXCEPT ![e] = "lost"]
  /\ UNCHANGED <<execution, nodeRow, outbox, queues, worker, dispatcher, crashes>>

-----------------------------------------------------------------------------
(* The broker.                                                             *)

\* The TTL of a retry queue sends the command back to the worker queue.
RetryDue(c) ==
  /\ delayed[c] > 0
  /\ delayed' = [delayed EXCEPT ![c] = @ - 1]
  /\ ready' = [ready EXCEPT ![c] = @ + 1]
  /\ UNCHANGED <<execution, request, nodeRow, outbox, deadLettered, worker,
                 dispatcher, faults>>

\* A worker without an unacknowledged delivery gets the next command.
Deliver(w, c) ==
  /\ At(w, "Idle")
  /\ ready[c] > 0
  /\ ready' = [ready EXCEPT ![c] = @ - 1]
  /\ worker' = [worker EXCEPT ![w] = [IdleWorker EXCEPT !.pc = "FindExecution",
                                                        !.command = c]]
  /\ UNCHANGED <<execution, request, nodeRow, outbox, delayed, deadLettered,
                 dispatcher, faults>>

-----------------------------------------------------------------------------
(* processWorkflowExecution, up to the nodes.                              *)

\* Mutant: a command of an execution that is RUNNING is skipped like a handled one.
FindExecutionSkipsRunning(w) ==
  /\ At(w, "FindExecution")
  /\ IF execution[Of(w)] # "PENDING" THEN FlushPending(w, "Ack") ELSE Goto(w, "BeginExecution")
  /\ UNCHANGED <<execution, request, nodeRow, outbox, queues, dispatcher, faults>>

FindExecution(w) ==
  /\ At(w, "FindExecution")
  /\ CASE execution[Of(w)] \in Terminal  -> FlushPending(w, "Ack")
       [] execution[Of(w)] = "PENDING"   -> Goto(w, "BeginExecution")
       [] OTHER                          -> Goto(w, "PersistStarted")
  /\ UNCHANGED <<execution, request, nodeRow, outbox, queues, dispatcher, faults>>

\* Mutant: the update is not restricted to PENDING executions.
BeginExecutionUnguarded(w) ==
  /\ At(w, "BeginExecution")
  /\ execution' = [execution EXCEPT ![Of(w)] = "RUNNING"]
  /\ Emit(w, Key("started", Of(w), 0), "PrepareNodes")
  /\ UNCHANGED <<request, nodeRow, queues, dispatcher, faults>>

\* The transaction that wins the PENDING row also records its started event.
BeginExecution(w) ==
  /\ At(w, "BeginExecution")
  /\ execution[Of(w)] = "PENDING"
  /\ execution' = [execution EXCEPT ![Of(w)] = "RUNNING"]
  /\ Emit(w, Key("started", Of(w), 0), "PrepareNodes")
  /\ UNCHANGED <<request, nodeRow, queues, dispatcher, faults>>

\* Another worker moved the execution between the read and the update.
BeginConflict(w) ==
  /\ At(w, "BeginExecution")
  /\ execution[Of(w)] # "PENDING"
  /\ Goto(w, "RereadExecution")
  /\ UNCHANGED <<execution, request, nodeRow, outbox, queues, dispatcher, faults>>

\* It goes on with a RUNNING execution another worker is working on as well.
RereadExecution(w) ==
  /\ At(w, "RereadExecution")
  /\ IF execution[Of(w)] \in Terminal THEN FlushPending(w, "Ack")
                                      ELSE Goto(w, "PrepareNodes")
  /\ UNCHANGED <<execution, request, nodeRow, outbox, queues, dispatcher, faults>>

\* The execution was RUNNING when it was read: an earlier delivery started it.
PersistStarted(w) ==
  /\ At(w, "PersistStarted")
  /\ Emit(w, Key("started", Of(w), 0), "PrepareNodes")
  /\ UNCHANGED <<execution, request, nodeRow, queues, dispatcher, faults>>

-----------------------------------------------------------------------------
(* executeWorkflowNodes.                                                   *)

\* A definition that does not parse or cannot be ordered is a final failure;
\* the simulated ones depend on the environment of the worker process.
PrepareNodes(w) ==
  /\ At(w, "PrepareNodes")
  /\ \/ worker' = [worker EXCEPT ![w].pc = "StartNode", ![w].node = 1]
     \/ \E retryable \in BOOLEAN : Throw(w, retryable)
  /\ UNCHANGED <<execution, request, nodeRow, outbox, queues, dispatcher, faults>>

\* The row of the node is inserted, or reset when an earlier delivery left one.
StartNode(w) ==
  /\ At(w, "StartNode")
  /\ nodeRow' = [nodeRow EXCEPT ![Of(w)][worker[w].node] = NodeStatus("RUNNING")]
  /\ Goto(w, "PersistNodeStarted")
  /\ UNCHANGED <<execution, request, outbox, queues, dispatcher, faults>>

\* This dispatch is outside the try block of the node.
PersistNodeStarted(w) ==
  /\ At(w, "PersistNodeStarted")
  /\ Emit(w, Key("started", Of(w), worker[w].node), "ExecuteNode")
  /\ UNCHANGED <<execution, request, nodeRow, queues, dispatcher, faults>>

\* The node's own work, such as a call of the AI orchestrator, with its verdict.
ExecuteNode(w) ==
  /\ At(w, "ExecuteNode")
  /\ \/ worker' = [worker EXCEPT ![w].pc = "CompleteNode", ![w].rescue = "FailNode"]
     \/ \E retryable \in BOOLEAN :
          worker' = [worker EXCEPT ![w].pc = "FailNode", ![w].retryable = retryable]
  /\ UNCHANGED <<execution, request, nodeRow, outbox, queues, dispatcher, faults>>

CompleteNode(w) ==
  /\ At(w, "CompleteNode")
  /\ nodeRow' = [nodeRow EXCEPT ![Of(w)][worker[w].node] = NodeStatus("SUCCEEDED")]
  /\ Goto(w, "PersistNodeCompleted")
  /\ UNCHANGED <<execution, request, outbox, queues, dispatcher, faults>>

PersistNodeCompleted(w) ==
  /\ At(w, "PersistNodeCompleted")
  /\ Emit(w, Key("completed", Of(w), worker[w].node), "NextNode")
  /\ UNCHANGED <<execution, request, nodeRow, queues, dispatcher, faults>>

\* Mutant: the loop ends one node early.
NextNodeTooFew(w) ==
  /\ At(w, "NextNode")
  /\ worker' = IF worker[w].node + 1 >= NodeCount
               THEN [worker EXCEPT ![w].pc = "CompleteExecution", ![w].rescue = "HandleFailure"]
               ELSE [worker EXCEPT ![w].pc = "StartNode", ![w].rescue = "HandleFailure",
                                   ![w].node = @ + 1]
  /\ UNCHANGED <<execution, request, nodeRow, outbox, queues, dispatcher, faults>>

\* Mutant: the loop runs past the last node.
NextNodeTooMany(w) ==
  /\ At(w, "NextNode")
  /\ worker' = [worker EXCEPT ![w].pc = "StartNode", ![w].rescue = "HandleFailure",
                             ![w].node = @ + 1]
  /\ UNCHANGED <<execution, request, nodeRow, outbox, queues, dispatcher, faults>>

\* The loop of the nodes leaves the try block.
NextNode(w) ==
  /\ At(w, "NextNode")
  /\ worker' = IF worker[w].node = NodeCount
               THEN [worker EXCEPT ![w].pc = "CompleteExecution", ![w].rescue = "HandleFailure"]
               ELSE [worker EXCEPT ![w].pc = "StartNode", ![w].rescue = "HandleFailure",
                                   ![w].node = @ + 1]
  /\ UNCHANGED <<execution, request, nodeRow, outbox, queues, dispatcher, faults>>

\* The catch block of a node: also reached when the node had SUCCEEDED and only
\* its completed event could not be dispatched.
FailNode(w) ==
  /\ At(w, "FailNode")
  /\ nodeRow' = [nodeRow EXCEPT ![Of(w)][worker[w].node] = NodeFailure(worker[w].retryable)]
  /\ Goto(w, "PersistNodeFailed")
  /\ UNCHANGED <<execution, request, outbox, queues, dispatcher, faults>>

\* Mutant: the catch block of the node forgets to throw the error again.
PersistNodeFailedSwallow(w) ==
  /\ At(w, "PersistNodeFailed")
  /\ Emit(w, Key("failed", Of(w), worker[w].node), "NextNode")
  /\ UNCHANGED <<execution, request, nodeRow, queues, dispatcher, faults>>

\* Then the caught error is thrown again; a failing dispatch replaces it.
PersistNodeFailed(w) ==
  /\ At(w, "PersistNodeFailed")
  /\ Emit(w, Key("failed", Of(w), worker[w].node), "HandleFailure")
  /\ UNCHANGED <<execution, request, nodeRow, queues, dispatcher, faults>>

-----------------------------------------------------------------------------
(* processWorkflowExecution, after the nodes.                              *)

\* Mutant: the completed event is recorded whatever the update matched.
CompleteExecutionAnyway(w) ==
  /\ At(w, "CompleteExecution")
  /\ execution' = [execution EXCEPT ![Of(w)] = IF @ = "RUNNING" THEN "SUCCEEDED" ELSE @]
  /\ Emit(w, Key("completed", Of(w), 0), "Ack")
  /\ UNCHANGED <<request, nodeRow, queues, dispatcher, faults>>

CompleteExecution(w) ==
  /\ At(w, "CompleteExecution")
  /\ execution[Of(w)] = "RUNNING"
  /\ execution' = [execution EXCEPT ![Of(w)] = "SUCCEEDED"]
  /\ Emit(w, Key("completed", Of(w), 0), "Ack")
  /\ UNCHANGED <<request, nodeRow, queues, dispatcher, faults>>

CompletionMissed(w) ==
  /\ At(w, "CompleteExecution")
  /\ execution[Of(w)] # "RUNNING"
  /\ Goto(w, "CompletionConflict")
  /\ UNCHANGED <<execution, request, nodeRow, outbox, queues, dispatcher, faults>>

CompletionConflict(w) ==
  /\ At(w, "CompletionConflict")
  /\ IF execution[Of(w)] \in Terminal THEN FlushPending(w, "Ack") ELSE Throw(w, TRUE)
  /\ UNCHANGED <<execution, request, nodeRow, outbox, queues, dispatcher, faults>>

-----------------------------------------------------------------------------
(* The catch block of handleDelivery and failWorkflowExecution.            *)

\* A retryable failure is retried while the header leaves an attempt.
MayRetry(w) == worker[w].retryable /\ worker[w].command.attempt < MaxRetryAttempts

\* publishRetryCommand: the copy in the retry queue exists before the ack.
RetryCommand(w) ==
  /\ At(w, "HandleFailure")
  /\ MayRetry(w)
  /\ delayed' = [delayed EXCEPT ![[worker[w].command EXCEPT !.attempt = @ + 1]] = @ + 1]
  /\ Goto(w, "Ack")
  /\ UNCHANGED <<execution, request, nodeRow, outbox, ready, deadLettered,
                 dispatcher, faults>>

\* Mutant: the command is dead-lettered before the execution is failed.
GiveUpDeadLetterFirst(w) ==
  /\ At(w, "HandleFailure")
  /\ ~MayRetry(w)
  /\ deadLettered' = deadLettered \cup {worker[w].command}
  /\ worker' = [worker EXCEPT ![w].pc = "FailExecution", ![w].rescue = "Nack"]
  /\ UNCHANGED <<execution, request, nodeRow, outbox, ready, delayed, dispatcher, faults>>

GiveUp(w) ==
  /\ At(w, "HandleFailure")
  /\ ~MayRetry(w)
  /\ worker' = [worker EXCEPT ![w].pc = "FailExecution", ![w].rescue = "Nack"]
  /\ UNCHANGED <<execution, request, nodeRow, outbox, queues, dispatcher, faults>>

\* The transaction that fails the execution and records its failed event.
FailExecution(w) ==
  /\ At(w, "FailExecution")
  /\ execution[Of(w)] \in {"PENDING", "RUNNING"}
  /\ execution' = [execution EXCEPT ![Of(w)] = "FAILED"]
  /\ Emit(w, Key("failed", Of(w), 0), "DeadLetter")
  /\ UNCHANGED <<request, nodeRow, queues, dispatcher, faults>>

FailureMissed(w) ==
  /\ At(w, "FailExecution")
  /\ execution[Of(w)] \notin {"PENDING", "RUNNING"}
  /\ Goto(w, "FailureConflict")
  /\ UNCHANGED <<execution, request, nodeRow, outbox, queues, dispatcher, faults>>

\* The command is dead-lettered even if another delivery ended the execution.
FailureConflict(w) ==
  /\ At(w, "FailureConflict")
  /\ IF execution[Of(w)] \in Terminal THEN FlushPending(w, "DeadLetter") ELSE Throw(w, TRUE)
  /\ UNCHANGED <<execution, request, nodeRow, outbox, queues, dispatcher, faults>>

\* publishCommandDeadLetter.
DeadLetter(w) ==
  /\ At(w, "DeadLetter")
  /\ deadLettered' = deadLettered \cup {worker[w].command}
  /\ Goto(w, "Ack")
  /\ UNCHANGED <<execution, request, nodeRow, outbox, ready, delayed, dispatcher, faults>>

Ack(w) ==
  /\ At(w, "Ack")
  /\ worker' = [worker EXCEPT ![w] = IdleWorker]
  /\ UNCHANGED <<execution, request, nodeRow, outbox, queues, dispatcher, faults>>

\* Mutant: nack without requeue.
NackDrop(w) ==
  /\ At(w, "Nack")
  /\ worker' = [worker EXCEPT ![w] = IdleWorker]
  /\ UNCHANGED <<execution, request, nodeRow, outbox, queues, dispatcher, faults>>

\* nack with requeue: the same attempt is delivered again, at once.
Nack(w) ==
  /\ At(w, "Nack")
  /\ ready' = [ready EXCEPT ![worker[w].command] = @ + 1]
  /\ worker' = [worker EXCEPT ![w] = IdleWorker]
  /\ UNCHANGED <<execution, request, nodeRow, outbox, delayed, deadLettered,
                 dispatcher, faults>>

-----------------------------------------------------------------------------
(* dispatchOutboxEvent, and dispatchPendingWorkflowExecutionOutboxMessages *)
(* that calls it for the PENDING lifecycle events of one execution.        *)

PendingSnapshot(key) ==
  IF outbox[key].status = "PENDING" THEN <<[key |-> key, row |-> outbox[key]]>> ELSE <<>>

\* The started event was created before the event of the outcome.
FindPending(w) ==
  LET found == PendingSnapshot(Key("started", Of(w), 0))
                 \o PendingSnapshot(Key("completed", Of(w), 0))
                 \o PendingSnapshot(Key("failed", Of(w), 0))
  IN /\ At(w, "FindPending")
     /\ worker' = [worker EXCEPT ![w].batch = found,
                                 ![w].pc = IF found = <<>> THEN worker[w].next ELSE "Publish"]
     /\ UNCHANGED <<execution, request, nodeRow, outbox, queues, dispatcher, faults>>

\* A row that was PUBLISHED when it was read is not published again.
Publish(w) ==
  /\ At(w, "Publish")
  /\ IF Head(worker[w].batch).row.status = "PUBLISHED" THEN NextInBatch(w)
                                                       ELSE Goto(w, "RecordPublished")
  /\ UNCHANGED <<execution, request, nodeRow, outbox, queues, dispatcher, faults>>

\* The channel is closed, or its buffer is full.
PublishFails(w) ==
  /\ At(w, "Publish")
  /\ Head(worker[w].batch).row.status # "PUBLISHED"
  /\ failures < MaxFailures
  /\ failures' = failures + 1
  /\ Goto(w, "RecordPublishFailure")
  /\ UNCHANGED <<execution, request, nodeRow, outbox, queues, dispatcher, crashes>>

RecordPublished(w) ==
  /\ At(w, "RecordPublished")
  /\ outbox' = [outbox EXCEPT ![Head(worker[w].batch).key] = MarkPublished(@)]
  /\ NextInBatch(w)
  /\ UNCHANGED <<execution, request, nodeRow, queues, dispatcher, faults>>

RecordPublishFailure(w) ==
  /\ At(w, "RecordPublishFailure")
  /\ outbox' = [outbox EXCEPT ![Head(worker[w].batch).key] =
                   MarkPublishFailure(Head(worker[w].batch).row)]
  /\ Throw(w, TRUE)
  /\ UNCHANGED <<execution, request, nodeRow, queues, dispatcher, faults>>

-----------------------------------------------------------------------------
(* Failures of the surroundings.                                           *)

\* The labels where a worker awaits a database statement.
DatabaseSteps == {"FindExecution", "BeginExecution", "RereadExecution", "PersistStarted",
                  "StartNode", "PersistNodeStarted", "CompleteNode",
                  "PersistNodeCompleted", "FailNode", "PersistNodeFailed",
                  "CompleteExecution", "CompletionConflict", "FindPending",
                  "RecordPublished", "RecordPublishFailure", "FailExecution",
                  "FailureConflict"}

\* The statement has no effect and throws; the failure counts as retryable.
DatabaseError(w) ==
  /\ worker[w].pc \in DatabaseSteps
  /\ failures < MaxFailures
  /\ failures' = failures + 1
  /\ Throw(w, TRUE)
  /\ UNCHANGED <<execution, request, nodeRow, outbox, queues, dispatcher, crashes>>

\* The process dies, also by a publish that throws in the catch block itself:
\* the broker delivers the unacknowledged command to somebody else.
Crash(w) ==
  /\ worker[w].pc \notin {"Idle", "Down"}
  /\ crashes < MaxCrashes
  /\ crashes' = crashes + 1
  /\ ready' = [ready EXCEPT ![worker[w].command] = @ + 1]
  /\ worker' = [worker EXCEPT ![w] = [IdleWorker EXCEPT !.pc = "Down"]]
  /\ UNCHANGED <<execution, request, nodeRow, outbox, delayed, deadLettered,
                 dispatcher, failures>>

Restart(w) ==
  /\ At(w, "Down")
  /\ Goto(w, "Idle")
  /\ UNCHANGED <<execution, request, nodeRow, outbox, queues, dispatcher, faults>>

-----------------------------------------------------------------------------
(* dispatchPendingOutboxMessages, on the timer of every worker process.    *)

FetchPending(d) ==
  LET found == {[key |-> k, row |-> outbox[k]] : k \in {k \in Keys : Dispatchable(outbox[k])}}
  IN /\ dispatcher[d] = IdleDispatcher
     /\ found # {}
     /\ dispatcher' = [dispatcher EXCEPT ![d].fetched = found]
     /\ UNCHANGED <<execution, request, nodeRow, outbox, queues, worker, faults>>

\* The next row of the cycle is published.
DispatchNext(d) ==
  /\ dispatcher[d].sent \cup dispatcher[d].refused = {}
  /\ \E s \in dispatcher[d].fetched :
       \/ /\ dispatcher' = [dispatcher EXCEPT ![d].fetched = @ \ {s}, ![d].sent = {s}]
          /\ UNCHANGED failures
       \/ /\ failures < MaxFailures
          /\ failures' = failures + 1
          /\ dispatcher' = [dispatcher EXCEPT ![d].fetched = @ \ {s}, ![d].refused = {s}]
  /\ UNCHANGED <<execution, request, nodeRow, outbox, queues, worker, crashes>>

DispatcherRecordsPublished(d) ==
  /\ \E s \in dispatcher[d].sent : outbox' = [outbox EXCEPT ![s.key] = MarkPublished(@)]
  /\ dispatcher' = [dispatcher EXCEPT ![d].sent = {}]
  /\ UNCHANGED <<execution, request, nodeRow, queues, worker, faults>>

DispatcherRecordsFailure(d) ==
  /\ \E s \in dispatcher[d].refused :
       outbox' = [outbox EXCEPT ![s.key] = MarkPublishFailure(s.row)]
  /\ dispatcher' = [dispatcher EXCEPT ![d].refused = {}]
  /\ UNCHANGED <<execution, request, nodeRow, queues, worker, faults>>

\* The statement that records the outcome fails: the cycle logs it and goes on.
DispatcherDatabaseError(d) ==
  /\ dispatcher[d].sent \cup dispatcher[d].refused # {}
  /\ failures < MaxFailures
  /\ failures' = failures + 1
  /\ dispatcher' = [dispatcher EXCEPT ![d].sent = {}, ![d].refused = {}]
  /\ UNCHANGED <<execution, request, nodeRow, outbox, queues, worker, crashes>>

-----------------------------------------------------------------------------
Init ==
  /\ execution = [e \in Executions |-> "NONE"]
  /\ request = [e \in Executions |-> "none"]
  /\ nodeRow = [e \in Executions |-> [n \in Nodes |-> NodeStatus("NONE")]]
  /\ outbox = [k \in Keys |-> AbsentRow]
  /\ ready = [c \in Commands |-> 0]
  /\ delayed = [c \in Commands |-> 0]
  /\ deadLettered = {}
  /\ worker = [w \in Workers |-> IdleWorker]
  /\ dispatcher = [d \in Dispatchers |-> IdleDispatcher]
  /\ crashes = 0
  /\ failures = 0

\* What the user and the API do.
Api == \E e \in Executions : RequestExecution(e) \/ PublishCommand(e) \/ LoseCommand(e)

\* What worker w does with the delivery it holds when nothing breaks.
Process(w) ==
  \/ FindExecution(w) \/ BeginExecution(w) \/ BeginConflict(w) \/ RereadExecution(w)
  \/ PersistStarted(w) \/ PrepareNodes(w) \/ StartNode(w) \/ PersistNodeStarted(w)
  \/ ExecuteNode(w) \/ CompleteNode(w) \/ PersistNodeCompleted(w) \/ NextNode(w)
  \/ FailNode(w) \/ PersistNodeFailed(w)
  \/ CompleteExecution(w) \/ CompletionMissed(w) \/ CompletionConflict(w)
  \/ RetryCommand(w) \/ GiveUp(w) \/ FailExecution(w) \/ FailureMissed(w)
  \/ FailureConflict(w) \/ DeadLetter(w) \/ Ack(w) \/ Nack(w)
  \/ FindPending(w) \/ Publish(w) \/ RecordPublished(w) \/ RecordPublishFailure(w)

Break(w) == PublishFails(w) \/ DatabaseError(w) \/ Crash(w)

Dispatch(d) == \/ FetchPending(d) \/ DispatchNext(d) \/ DispatcherRecordsPublished(d)
               \/ DispatcherRecordsFailure(d)

Next == \/ Api
        \/ \E c \in Commands : RetryDue(c)
        \/ \E w \in Workers : \/ \E c \in Commands : Deliver(w, c)
                             \/ Process(w) \/ Break(w) \/ Restart(w)
        \/ \E d \in Dispatchers : Dispatch(d) \/ DispatcherDatabaseError(d)

Spec == Init /\ [][Next]_vars

\* A worker that is up keeps going, a consumer with free capacity is served, a
\* TTL expires and a timer fires.  Nobody has to restart a crashed worker: the
\* repository starts none again.
Fairness ==
  /\ \A w \in Workers : WF_vars(Process(w)) /\ WF_vars(\E c \in Commands : Deliver(w, c))
  /\ \A c \in Commands : WF_vars(RetryDue(c))
  /\ \A d \in Dispatchers : WF_vars(Dispatch(d))

FairSpec == Spec /\ Fairness

-----------------------------------------------------------------------------
(* Properties.                                                             *)

\* Every variable holds a value of its kind.
TypeOK ==
  /\ execution \in [Executions -> Statuses]
  /\ request \in [Executions -> {"none", "publishing", "published", "lost"}]
  /\ nodeRow \in [Executions -> [Nodes -> NodeRows]]
  /\ outbox \in [Keys -> Rows]
  /\ ready \in [Commands -> Nat]
  /\ delayed \in [Commands -> Nat]
  /\ deadLettered \in SUBSET Commands
  /\ worker \in [Workers -> Deliveries]
  /\ dispatcher \in [Dispatchers -> Cycles]
  /\ crashes \in 0..MaxCrashes
  /\ failures \in 0..MaxFailures

Recorded(kind, e, n) == Exists(outbox[Key(kind, e, n)])

\* The status of an execution and its lifecycle events tell the same story,
\* whatever crashes, duplicates and failed statements happen: an execution has a
\* completed event exactly if it SUCCEEDED, a failed event exactly if it FAILED,
\* and a started event from the moment it left PENDING to run.  (The status
\* updates of index.ts and the outbox upserts that share their transactions.)
OutcomeRecorded ==
  \A e \in Executions :
    /\ Recorded("completed", e, 0) <=> execution[e] = "SUCCEEDED"
    /\ Recorded("failed", e, 0) <=> execution[e] = "FAILED"
    /\ execution[e] \in {"RUNNING", "SUCCEEDED"} => Recorded("started", e, 0)
    /\ execution[e] \in {"NONE", "PENDING"} => ~Recorded("started", e, 0)

\* Worker w still has to see to the command of e before it acknowledges it.
Holds(w, e) == worker[w].pc \notin {"Idle", "Down", "Ack"} /\ Of(w) = e

\* As long as an execution is not settled, a copy of its command is in a queue or
\* in the hands of a worker that has not decided to acknowledge it: no crash, no
\* failed statement and no retry drops the last copy.
CommandKept ==
  \A e \in Executions :
    request[e] = "published" /\ execution[e] \notin Terminal =>
      \/ \E c \in Commands : c.execution = e /\ ready[c] + delayed[c] > 0
      \/ \E w \in Workers : Holds(w, e)

\* A SUCCEEDED execution explains itself: all its nodes started and completed in
\* the recorded history, and no node started before its predecessor completed,
\* although several deliveries may have contributed to that history.
SuccessExplained ==
  \A e \in Executions :
    /\ execution[e] = "SUCCEEDED" => \A n \in Nodes : Recorded("completed", e, n)
    /\ \A n \in Nodes : Recorded("completed", e, n) => Recorded("started", e, n)
    /\ \A n \in Nodes \ {1} : Recorded("started", e, n) => Recorded("completed", e, n - 1)
    /\ \A n \in Nodes : Recorded("started", e, n) => Recorded("started", e, 0)

\* The dispatcher skips rows with too many attempts, so a row that stayed PENDING
\* with that many would never be looked at again; stale writes do not make one.
NoStrandedRow ==
  \A k \in Keys : outbox[k].status = "PENDING" => Dispatchable(outbox[k])

\* A command is dead-lettered only after its execution was settled: whoever
\* inspects the dead-letter queue finds the outcome in the database.
DeadLetterIsSettled == \A c \in deadLettered : execution[c.execution] \in Terminal

\* Without crashes one delivery at a time works on an execution, and a SUCCEEDED
\* execution has only SUCCEEDED node rows.
NodesAgree ==
  crashes = 0 =>
    \A e \in Executions, n \in Nodes :
      execution[e] = "SUCCEEDED" => nodeRow[e][n].status = "SUCCEEDED"

\* The labels inside the loop over the nodes.
NodeLabels == {"StartNode", "PersistNodeStarted", "ExecuteNode", "CompleteNode",
               "PersistNodeCompleted", "NextNode", "FailNode", "PersistNodeFailed"}

\* Where a delivery is, or where it returns to after dispatching.
Position(d) ==
  IF d.pc \in {"FindPending", "Publish", "RecordPublished", "RecordPublishFailure"}
  THEN d.next ELSE d.pc

\* A snapshot is of a row that existed and still does.
RowKnown(s) == Exists(s.row) /\ Exists(outbox[s.key])

\* Commands are only about executions whose rows were inserted.
CommandsAreOfRequests ==
  /\ \A e \in Executions : request[e] # "none" => execution[e] # "NONE"
  /\ \A c \in Commands : ready[c] > 0 \/ delayed[c] > 0 => execution[c.execution] # "NONE"

\* What a delivery may rely on, whatever happened since it read the database: the
\* execution is there, its started event is recorded if it was found RUNNING, the
\* loop of the nodes is at a node, and a row is behind every snapshot to dispatch.
DeliverySafe(d) ==
  /\ d.pc \notin {"Idle", "Down"} => execution[d.command.execution] # "NONE"
  /\ d.pc = "PersistStarted" => Recorded("started", d.command.execution, 0)
  /\ Position(d) \in NodeLabels => d.node \in Nodes
  /\ d.rescue = "FailNode" => d.node \in Nodes
  /\ \A i \in 1..Len(d.batch) : RowKnown(d.batch[i])

\* The same of a cycle of an outbox timer.
CycleSafe(c) == \A s \in c.fetched \cup c.sent \cup c.refused : RowKnown(s)

\* What deliveries and timers read before an await still supports what they do
\* with it afterwards, although others move in between: nobody handles a command
\* of an execution that is not there, reports the start of one that has not started,
\* emits an event of the execution from the loop of the nodes, or records the outcome
\* of publishing a row that is not there (index.ts 260-360, 603-657, 1506-1580).
StaleReadsAreSafe ==
  /\ CommandsAreOfRequests
  /\ \A w \in Workers : DeliverySafe(worker[w])
  /\ \A d \in Dispatchers : CycleSafe(dispatcher[d])

\* The lifecycle of every execution is the abstract one: the status only moves
\* along it, and each move records its event in the same step.
Lifecycle ==
  INSTANCE ExecutionLifecycle WITH
    status <- execution,
    recorded <- [e \in Executions |->
                   {kind \in {"started", "completed", "failed"} : Recorded(kind, e, 0)}]

LifecycleSpec == Lifecycle!Spec

\* Every execution whose command reached the broker is settled in the end, as
\* long as one worker survives.
ExecutionsAreSettled ==
  \A e \in Executions : request[e] = "published" ~> execution[e] \in Terminal

\* No event waits for ever: a row some delivery left PENDING is dispatched, or
\* its attempts are used up.
EventsAreDispatched ==
  \A k \in Keys : outbox[k].status = "PENDING" ~> outbox[k].status \in {"PUBLISHED", "FAILED"}

-----------------------------------------------------------------------------
(* What the documentation says and the code does not do.                   *)

\* "After the third retry, the message moves to the relevant dead-letter queue.
\* Non-retryable errors should skip retry and go straight to the dead-letter
\* queue" (docs/contracts/events.md:109): once no copy of the command of a FAILED
\* execution is left, the dead-letter queue has it.
FailedIsDeadLettered ==
  \A e \in Executions :
    \/ execution[e] # "FAILED"
    \/ \E c \in Commands : c.execution = e /\ (ready[c] + delayed[c] > 0 \/ c \in deadLettered)
    \/ \E w \in Workers : worker[w].pc \notin {"Idle", "Down"} /\ Of(w) = e

=============================================================================
