-------------------------- MODULE MessageContracts --------------------------
(***************************************************************************)
(* The messages of the system: what each of them carries, who makes it,    *)
(* through which exchange and binding it gets to a queue, and what its     *)
(* consumer checks before it takes it.                                     *)
(* Source: packages/contracts/src/messaging.ts, the topology of the API,   *)
(* the execution worker and the workflow service, and their create*Message *)
(* and is*Message functions.                                               *)
(*                                                                         *)
(* A routing key is the sequence of its words.  A payload is the set of    *)
(* its fields, each with the type of its value in JSON; a field of a       *)
(* nested object is named by its path.                                     *)
(***************************************************************************)
EXTENDS Naturals, Sequences

WorkflowCreated == <<"workflow", "created">>
WorkflowExecutionRequested == <<"workflow", "execution", "requested">>
WorkflowExecutionStarted == <<"workflow", "execution", "started">>
NodeExecutionStarted == <<"workflow", "node", "execution", "started">>
NodeExecutionCompleted == <<"workflow", "node", "execution", "completed">>
NodeExecutionFailed == <<"workflow", "node", "execution", "failed">>
WorkflowExecutionCompleted == <<"workflow", "execution", "completed">>
WorkflowExecutionFailed == <<"workflow", "execution", "failed">>
AiTraceCreated == <<"ai", "trace", "created">>

Producers ==
  {"api", "workflow-service", "execution-worker", "ai-orchestrator", "observability-service"}

SchemaVersion == 1

Typed(names, type) == {<<name, type>> : name \in names}
Strings(names) == Typed(names, "string")
Numbers(names) == Typed(names, "number")

-----------------------------------------------------------------------------
(* The payloads.                                                           *)

FlowPilotExecutionError ==
  {<<"error", "record">>, <<"error.code", "string">>, <<"error.message", "string">>,
   <<"error.retryable", "boolean">>}

OfExecution == Strings({"workflowId", "executionId"})
OfNode == OfExecution \cup Strings({"nodeExecutionId", "nodeId", "nodeType"})

WorkflowCreatedPayload ==
  Strings({"workflowId", "workflowVersionId", "name", "slug", "status"}) \cup Numbers({"version"})

\* The actor is the user who asked for the execution.
RequestedBy ==
  {<<"requestedBy", "record">>, <<"requestedBy.type", "user">>, <<"requestedBy.id", "string">>}

WorkflowExecutionRequestedPayload ==
  OfExecution \cup RequestedBy \cup Numbers({"workflowVersion"}) \cup {<<"input", "record">>}

WorkflowExecutionStartedPayload == OfExecution
NodeExecutionStartedPayload == OfNode \cup {<<"input", "record">>}
NodeExecutionCompletedPayload == OfNode \cup {<<"output", "record">>} \cup Numbers({"durationMs"})
NodeExecutionFailedPayload == OfNode \cup FlowPilotExecutionError

WorkflowExecutionCompletedPayload ==
  OfExecution \cup {<<"output", "record">>} \cup Numbers({"durationMs"})

WorkflowExecutionFailedPayload == OfExecution \cup FlowPilotExecutionError

AiTraceCreatedPayload ==
  OfExecution
    \cup Strings({"traceId", "nodeExecutionId", "nodeId", "model", "provider", "status"})
    \cup Numbers({"latencyMs", "tokenUsage.inputTokens", "tokenUsage.outputTokens",
                  "tokenUsage.totalTokens"})
    \cup {<<"tokenUsage", "record">>}

-----------------------------------------------------------------------------
(* The producers.                                                          *)

Envelope(eventName, producer, payload) ==
  [eventName     |-> eventName,
   schemaVersion |-> SchemaVersion,
   producer      |-> producer,
   fields        |-> Strings({"eventId", "occurredAt", "workspaceId", "correlationId",
                              "idempotencyKey"}),
   payload       |-> payload]

OfWorker(eventName, payload) == Envelope(eventName, "execution-worker", payload)

CreateWorkflowCreatedMessage == Envelope(WorkflowCreated, "api", WorkflowCreatedPayload)

CreateWorkflowExecutionRequestedMessage ==
  Envelope(WorkflowExecutionRequested, "api", WorkflowExecutionRequestedPayload)

CreateWorkflowExecutionStartedMessage ==
  OfWorker(WorkflowExecutionStarted, WorkflowExecutionStartedPayload)

CreateWorkflowExecutionCompletedMessage ==
  OfWorker(WorkflowExecutionCompleted, WorkflowExecutionCompletedPayload)

CreateWorkflowExecutionFailedMessage ==
  OfWorker(WorkflowExecutionFailed, WorkflowExecutionFailedPayload)

CreateNodeExecutionStartedMessage == OfWorker(NodeExecutionStarted, NodeExecutionStartedPayload)

CreateNodeExecutionCompletedMessage ==
  OfWorker(NodeExecutionCompleted, NodeExecutionCompletedPayload)

CreateNodeExecutionFailedMessage == OfWorker(NodeExecutionFailed, NodeExecutionFailedPayload)

CreateAiTraceCreatedMessage == OfWorker(AiTraceCreated, AiTraceCreatedPayload)

\* What the worker keeps in its outbox.
WorkerMessages ==
  {CreateWorkflowExecutionStartedMessage, CreateWorkflowExecutionCompletedMessage,
   CreateWorkflowExecutionFailedMessage, CreateNodeExecutionStartedMessage,
   CreateNodeExecutionCompletedMessage, CreateNodeExecutionFailedMessage,
   CreateAiTraceCreatedMessage}

-----------------------------------------------------------------------------
(* The consumers.                                                          *)

WorkflowExecutionLifecycleEvents ==
  {WorkflowExecutionStarted, WorkflowExecutionCompleted, WorkflowExecutionFailed,
   NodeExecutionStarted, NodeExecutionCompleted, NodeExecutionFailed}

\* What both consumers ask of an envelope.
IsEnvelope(value) ==
  /\ Strings({"eventId", "occurredAt", "workspaceId", "correlationId"}) \subseteq value.fields
  /\ value.schemaVersion = SchemaVersion

\* Mutant: every event is asked for its duration.
IsWorkflowExecutionLifecycleMessageTooStrict(value) ==
  /\ IsEnvelope(value) /\ value.eventName \in WorkflowExecutionLifecycleEvents
  /\ OfExecution \cup Numbers({"durationMs"}) \subseteq value.payload

\* The workflow service: the ids of the execution, and what the event's own kind needs.
IsWorkflowExecutionLifecycleMessage(value) ==
  /\ IsEnvelope(value)
  /\ value.eventName \in WorkflowExecutionLifecycleEvents
  /\ value.producer \in Producers
  /\ OfExecution \subseteq value.payload
  /\ value.eventName \in {NodeExecutionStarted, NodeExecutionCompleted, NodeExecutionFailed}
       => OfNode \subseteq value.payload
  /\ value.eventName = NodeExecutionStarted => <<"input", "record">> \in value.payload
  /\ value.eventName \in {WorkflowExecutionCompleted, NodeExecutionCompleted}
       => {<<"output", "record">>, <<"durationMs", "number">>} \subseteq value.payload
  /\ value.eventName \in {WorkflowExecutionFailed, NodeExecutionFailed}
       => {<<"error", "record">>, <<"error.message", "string">>} \subseteq value.payload

\* The execution worker.
IsWorkflowExecutionRequestedMessage(value) ==
  /\ IsEnvelope(value)
  /\ value.eventName = WorkflowExecutionRequested
  /\ value.producer = "api"
  /\ OfExecution \cup RequestedBy \cup Numbers({"workflowVersion"}) \subseteq value.payload
  /\ <<"input", "record">> \in value.payload

-----------------------------------------------------------------------------
(* The topology.  Bindings are durable and none is ever removed.           *)

WorkerQueue == "flowpilot.execution-worker.workflow-executions"
ServiceQueue == "flowpilot.workflow-service.execution-events"
AiTracesQueue == "flowpilot.observability-service.ai-traces"
ObservabilityQueue == "flowpilot.observability-service.execution-events"
WorkerDeadLetters == "flowpilot.dlq.execution-worker.workflow-executions"

\* retryQueueConfig, by attempt.
RetryQueues ==
  <<"flowpilot.retry.execution-worker.workflow-executions.10s",
    "flowpilot.retry.execution-worker.workflow-executions.1m",
    "flowpilot.retry.execution-worker.workflow-executions.5m">>

RetryRoutingKeys ==
  <<<<"workflow", "execution", "requested", "retry", "10s">>,
    <<"workflow", "execution", "requested", "retry", "1m">>,
    <<"workflow", "execution", "requested", "retry", "5m">>>>

Bind(queue, exchange, patterns) ==
  {[queue |-> queue, exchange |-> exchange, pattern |-> pattern] : pattern \in patterns}

OfAnyExecution == <<"workflow", "execution", "*">>
OfAnyNode == <<"workflow", "node", "execution", "*">>

FlowPilotQueueBindings ==
  Bind(WorkerQueue, "commands", {WorkflowExecutionRequested})
    \cup Bind(ServiceQueue, "events", {OfAnyExecution, OfAnyNode, WorkflowCreated})
    \cup Bind(AiTracesQueue, "events", {AiTraceCreated})
    \cup Bind(ObservabilityQueue, "events", {OfAnyExecution, OfAnyNode, WorkflowCreated})

ServiceBindings == Bind(ServiceQueue, "events", {OfAnyExecution, OfAnyNode})

WorkerBindings ==
  Bind(WorkerQueue, "commands", {WorkflowExecutionRequested})
    \cup Bind(WorkerDeadLetters, "dlx", {WorkflowExecutionRequested})
    \cup UNION {Bind(RetryQueues[i], "retry", {RetryRoutingKeys[i]}) : i \in DOMAIN RetryQueues}

Bindings == FlowPilotQueueBindings \cup ServiceBindings \cup WorkerBindings

\* A topic exchange: the star stands for one word.
Matches(key, pattern) ==
  Len(key) = Len(pattern) /\ \A i \in DOMAIN pattern : pattern[i] \in {key[i], "*"}

\* The queues a message published to the exchange with the key goes to.
Routes(exchange, key) ==
  {binding.queue : binding \in {b \in Bindings : b.exchange = exchange /\ Matches(key, b.pattern)}}

GetExchangeForRoutingKey(key) ==
  IF key = WorkflowExecutionRequested THEN "commands" ELSE "events"

\* Where a message goes whose time in a retry queue is up.
RoutesOfExpired == Routes("commands", WorkflowExecutionRequested)

=============================================================================
