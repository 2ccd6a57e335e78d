# FlowPilot: specifications and proofs

TLA+ models of the parts of FlowPilot where several processes, users or requests
touch the same rows, queues and caches, TLC configurations that check them on small
instances, and theorems that TLAPS checks for every instance. Paths below are
relative to the root of the repository; `index.ts` alone is
`apps/execution-worker/src/index.ts`.

## Inventory

| Component | State it keeps | Operations | Talks to | Hard behaviour | Status |
| --- | --- | --- | --- | --- | --- |
| Execution worker (`apps/execution-worker`) | `WorkflowExecution`, `WorkflowNodeExecution`, `WorkflowAiTrace` rows, the delivery in its hands | consume a command, run nodes, complete, fail, retry, dead-letter | PostgreSQL, RabbitMQ, AI orchestrator | duplicate deliveries, crash between two awaits, failing statements, optimistic status updates | modelled, but for the raw dead letter |
| Outbox (`index.ts` 1405-1580) | `OutboxMessage` rows | upsert, publish, record the outcome, periodic dispatch | RabbitMQ | writes computed from stale snapshots, two dispatch paths, overlapping cycles, a channel without confirms | modelled |
| Execution requests (`apps/api/.../workflows.service.ts`, `messaging.service.ts`) | `PENDING` executions | insert, then publish | PostgreSQL, RabbitMQ | crash between row and message, cached channel | modelled, without the cached channel |
| Workflow service (`apps/workflow-service`) | `WorkflowExecutionEvent` rows | store a lifecycle event once | RabbitMQ, PostgreSQL | duplicates, redelivery, refused messages | modelled |
| Workflow definitions (`packages/contracts`, `index.ts` 734-813) | none | validate, order | API, worker, web | two sets of rules that have to agree | the graph is modelled, node configurations are not |
| Workflow versions and status (`workflows.service.ts`) | `Workflow`, `WorkflowVersion` rows | create, save, restore, rename, request a run | PostgreSQL, RabbitMQ | read-then-insert under a unique index | modelled |
| Workflow editor (`apps/web/src/features/workflows`, `workflow-canvas`) | the cache of a query, a draft, a selection, a layout | every gesture on page and canvas | API | answers and fetches that overtake each other, draft against refetch, deletions of what is selected | modelled |
| AI client and external nodes of the worker (`ai-orchestrator-client.ts`, `nodes/`) | none | one request with a timer | AI orchestrator, HTTP endpoints | late answers, retries of what was done, classification of failures | modelled |
| AI orchestrator (`apps/ai-orchestrator`) | none | look up a credential, ask a provider | API, providers | errors that turn into other errors | modelled, without texts and costs |
| Credentials | `IntegrationCredential` rows | create, list, delete, resolve | PostgreSQL | removal during a run | resolve and delete modelled |
| Workspaces and members | `Workspace`, `WorkspaceMember` rows | create, add, change role, remove | PostgreSQL | role checked on rows read before the write | modelled |
| Authentication | `User` rows, tokens | register, log in | PostgreSQL | concurrent registration of an invited user | modelled |
| Execution page and session of the web application | cached queries | views, polling | API | none that reaches other state | not modelled |
| Message contracts (`packages/contracts/src/messaging.ts`, the topologies) | none | make, route and check a message | API, worker, workflow service | checks and bindings written by hand in several services | modelled, without optional fields |
| Observability service, configuration, logger, seed and benchmark scripts | none | none | none | none | not modelled |

How they interact: a user edits a draft in the page of a workflow and saves it as the
next version. A run request inserts a `PENDING` execution of the current version and
publishes `workflow.execution.requested`. A worker consumes the command, moves the
execution to `RUNNING`, runs the nodes one after the other, some of which ask an HTTP
endpoint or, through the AI orchestrator, a provider, and ends it as `SUCCEEDED` or
`FAILED`. Each of these status changes commits an outbox row in its own transaction;
the row is published after the commit by the same delivery or later by a timer. The
workflow service stores what was published as the timeline of the execution. A failed
delivery is sent through retry queues whose TTL returns it, and ends in the dead-letter
queue. Who may do all this is decided by the memberships of a workspace.

## What makes each component correct

- *Worker*: the status moves along one lifecycle and agrees with the recorded
  events; no command is lost before its execution is settled; the history of a
  successful execution is complete and in order; every execution is settled.
- *Outbox*: no row is stranded; every row is published or given up after enough
  attempts; a mark is not undone.
- *Timeline*: an event with a row reaches the timeline or is given up, whatever the
  broker repeats and whatever breaks on the way.
- *Messages*: what one service makes is routed to those meant to read it, and passes
  their checks.
- *Definitions*: whatever the contract accepts can be ordered, each node after its
  predecessors.
- *Versions*: a version a user was told of is stored under its number, and no two users
  are told the same number; a run is never of a version older than its request.
- *Editor*: no fetch takes a draft away for nothing; a draft never names what is not
  there; the canvas follows the edges.
- *External calls*: an output, and a trace, belongs to the request it was made for, whatever
  copies of the command run; the number of requests is bounded; what cannot succeed is tried
  again only where a crash or a failing statement hides it; a run ends although nobody
  answers.
- *Members*: every workspace keeps its owner, and nobody acts above their rank.
- *Authentication*: a password that was set is not replaced.

## Modules

| Module | What it is |
| --- | --- |
| `Outbox` | the rows of the outbox as values, and the four things the code does to one |
| `MessageContracts` | the messages as values: what each carries, how it is routed, what its consumer checks |
| `ExecutionLifecycle` | abstract specification: what the platform promises about one execution |
| `ExecutionWorker` | the worker, the outbox timers, the request of the API, the broker, crashes and failures |
| `ExecutionTimeline` | dispatch cycles, the channel of the worker, the queue of lifecycle events, the workflow service |
| `Arrays` | `filter` on an array, as a recursive function of its length |
| `WorkflowGraph` | what a definition has to be, without an algorithm: the reference for the next three |
| `WorkflowContract` | the contract's refinement of a definition, with its two searches |
| `WorkflowOrdering` | the worker's ordering of an accepted definition, and the inputs its nodes get |
| `WorkflowDraft` | a draft in the editor: the gestures of canvas, inspector and dialog, and the layout after each |
| `WorkflowEditing` | the versions of a workflow, and the pages and caches through which several users change and run it |
| `ExternalCalls` | the requests of a run: executors, AI client, orchestrator, credential look-up, providers |
| `WorkspaceAccess` | accounts, workspaces, memberships and the requests that change them |
| `MC*` | instances of these for TLC |
| `ExecutionWorkerProofs`, `ExecutionTimelineProofs`, `WorkflowContractProofs`, `WorkflowOrderingProofs`, `WorkflowDraftProofs`, `WorkflowEditingProofs`, `ExternalCallsProofs`, `WorkspaceAccessProofs` | theorems about the module named |

`ExecutionWorker` and `ExecutionTimeline` share `Outbox`, and `ExecutionTimeline` sends
the messages of `MessageContracts`; `WorkflowContract`, `WorkflowOrdering` and
`WorkflowDraft` share `WorkflowGraph`, the first and the last `Arrays`; `ExecutionWorker`
implements `ExecutionLifecycle`. The other modules cut the system where only a value
crosses: a version number (`WorkflowEditing` to `ExecutionWorker`), a definition
(`WorkflowDraft` to `WorkflowEditing` to `WorkflowContract` to `WorkflowOrdering`), the
verdict of a node (`ExternalCalls` to `ExecutionWorker`).

### `ExecutionWorker` and the code

A step of a worker is what it does between two `await`s: one statement, one
transaction or one publish. `worker[w].pc` names the await the delivery is at;
all names are those of `processWorkflowExecution`, `executeWorkflowNodes`,
`failWorkflowExecution` and `handleDelivery`:

- `FindExecution`, `BeginExecution` / `BeginConflict`, `RereadExecution`,
  `PersistStarted`: the start of a delivery, with the optimistic update on
  `status: "PENDING"` (`index.ts` 260-359).
- `PrepareNodes`, `StartNode`, `PersistNodeStarted`, `ExecuteNode`, `CompleteNode`,
  `PersistNodeCompleted`, `NextNode`, `FailNode`, `PersistNodeFailed`: the loop over
  the nodes (589-695). A node's own work is a choice of its verdict.
- `CompleteExecution` / `CompletionMissed`, `CompletionConflict`: the end (368-437).
- `RetryCommand`, `GiveUp`, `FailExecution` / `FailureMissed`, `FailureConflict`,
  `DeadLetter`, `Ack`, `Nack`: the catch block (217-251, 1324-1403).
- `FindPending`, `Publish` / `PublishFails`, `RecordPublished`,
  `RecordPublishFailure`: `dispatchOutboxEvent` on the rows of `worker[w].batch`, which
  keeps the *snapshot* that was read, as the code does (1430-1580).

Exceptions: `worker[w].rescue` is the catch clause around the code that runs;
`Throw` goes there and leaves it. `DatabaseError` may strike at every await of a
statement, `PublishFails` at every publish of an event, `Crash` anywhere. A publish
that throws in the catch block itself rejects the handler and ends the process, so
it is a `Crash`. The broker redelivers what was not acknowledged.

`dispatcher[d]` is one cycle of an outbox timer. Dispatchers are separate from
workers because a timer's cycle runs between the awaits of a delivery of the same
process; one `d` is one cycle at a time. After a crash of the process the timer's
snapshots are kept, which only adds behaviours (another process's timer).

The commands in a queue are counted, not ordered: prefetch is 1, several workers
consume, and redelivery returns a message at its old place, so no order between
copies can be relied on. The dead-letter queue is a set: nothing consumes it.

Left out: payloads; AI traces and their events (`recordAiTraceFor...` catches and logs
every failure and the delivery goes on); a payload that does not parse
(`publishRawDeadLetter`), which touches no execution; the branches for a missing
execution row (nothing deletes one and the command is published after the insert);
`CANCELLED`, which no code writes; the batch size of the timer and the buffer of the
channel (both in `ExecutionTimeline`); loss of a message by the broker, which is
configured durable and persistent.

### `ExecutionTimeline` and the code

It uses the rows of `Outbox` and follows an event from its row on. `cycle[c]` is a call
of `dispatchPendingOutboxMessages`: `FetchBatch` is its query, in order of creation and
no longer than `BatchSize`; `Publish` / `PublishThrows`, `MarkRow` / `MarkRowFails` are
the awaits of `dispatchOutboxEvent` for the head of the batch, on the snapshot the query
returned; `NextRow` goes on after a failure as the loop does. `startOutboxDispatcher`
does not wait for a cycle before it starts the next one, so several `c` are at work.
`buffer` is what `channel.publish` has taken and the socket has not: the channel has no
confirms, so the code cannot see the difference. `publish` returning `false` puts the
message there all the same. `Content` gives each event one of the `WorkerMessages`;
`Transmit` and `Announce` put a message on the queue only if the bindings lead it there
(`Routed`), and the service stores what passes its check.

A `slot` is one of the deliveries the workflow service works on (`prefetch(10)`).
`Persist`, `Ack`, `PersistFails` and `Reject` are `handleDelivery`; a statement that
fails may have been committed. `LoseConnection` stands for a restart as well, since the
service keeps nothing in memory. The API publishes `workflow.created` and binds it to the
same queue (`messaging.topology.ts` 32-36): `Announce`. The direct dispatch of a
delivery is not repeated here; `ExecutionWorker` has it. The error code `P2003` (a
missing execution), for which the service does not requeue, needs a deleted execution,
and nothing deletes one.

### `MessageContracts` and the code

It has no state. A routing key is the sequence of its words. A payload is the set of the
fields that are always there, each with its JSON type, because that is all the checks
look at; a nested field is named by its path. `Create*Message` are the makers in the API
and the worker, `IsWorkflowExecutionRequestedMessage` and
`IsWorkflowExecutionLifecycleMessage` the checks of the worker and of the workflow
service. `Bindings` joins the bindings the API, the service and the worker declare, since
none is ever removed. `Matches` and `Routes` are RabbitMQ's topic exchange. Left out:
optional fields and the values of the others.

### `WorkflowContract`, `WorkflowOrdering` and the code

`WorkflowContract` starts from any two arrays the shape of the schema allows and runs
`superRefine` (`workflow-definition.ts` 45-142). The loops that only collect issues are
one step; the two searches are one step per round or call, because a definition that is
wrong in other ways goes through them too, with unknown targets and repeated nodes.
`Keep` of `Arrays` is `filter`; the targets of a node come in the order of the edges.
`stack` is the call stack of `visit`. The ids of edges and the configuration of nodes are
left out. A node id cannot contain `>` (`workflow-nodes/shared.ts` 25), so the text
`source->target` identifies a pair.

`WorkflowOrdering` starts from any graph that is `Executable`, which `AcceptsExecutable`
shows to be what the contract accepts. `PlaceNode` is one round of the loop of
`orderWorkflowNodes`, `RunNode` one round of the loop of `executeWorkflowNodes` that ends
well. Values are abstracted to where they come from: `outputs[n]` names the node whose
output it is, or `REQUEST` for the input of the execution. The order of the arrays is a
choice of the order of the queue.

### `WorkflowEditing` and the code

`versions` is the history of one workflow, `call[c][k]` the call of kind `k` of tab `c`,
from the click to the end of its `onSuccess`. In the API each statement is an action:
`CreateWorkflow`, `ReadCurrent`, `InsertVersion`, `StoreExecution`, `Publish`,
`UpdateMetadata`; `CallFails` is a lost request, a failing statement or a publish that
throws. The unique index on `(workflowId, version)` is `Taken`. In the page,
`page[c].data` is the version in the cache of the `["workflow", id]` query and `fetch[c]`
its one fetch: `Invalidate` is what React Query does for a mounted page, cancelling the
fetch under way; `Deliver` runs the effects of `workflow-detail-page.tsx` 139-182 on the
answer, among them the one that replaces the draft. `OnSuccess` and `AfterRefetch` are the
two halves of the mutations' `onSuccess` around its `await`. React Query belongs to the
map only where the page's code relies on it. A definition is a model value: whether two
are equal is all that matters here. Left out: the list of workflows, `publishedVersion`
and status, which restrict nothing in the code, pagination and forms' texts.

### `WorkflowDraft` and the code

`draft` has the nodes and edges of `draftDefinition` in the order of their arrays, `page`
the selection, the dialog and the mode. Every gesture is an action named after its
handler: `SelectNode`, `SelectEdge`, `AddNode`, `DeleteNode`, `Connect`, `DeleteEdge`,
`UpdateSelectedEdge`, `EditConfig`, `ChangeProvider`, `PickCredential`, `Save`,
`DiscardDraft`. `PressDelete` is the Delete key, for which React Flow calls the handler of
the edges and the handler of the nodes, both on the definition of the last render.
`LayOut` is one round of the loop of `getNodeLevels`; the page takes no gesture before the
loop ends. The id of a node is the name of its type with a number, as `createNode` makes
it; an edge is named after its ends, with a suffix where that name is taken. What
is stored at the start is any definition the contract accepts (`InitialAssumption`), with
edges of any name: others than this editor may have made it. `valid` and
`provider`/`credential` stand for the configuration. Left out: names, texts, positions,
colours, and viewers, who cannot edit.

### `ExternalCalls` and the code

`Chain` is the external nodes of a run in order. `commands` are the copies of its command,
`worker[w]` the delivery of a worker: which copy, which attempt, which node and request,
and the await it is at. Each of these is a step, named after what it awaits: `Deliver`,
`FindExecution`, `StartNode` (the upsert that resets the row), `Send`, `Receive` or `Abort`
(the timer of `AbortController`), `CompleteNode`, `TraceSuccess`, `ReportCompleted`; in the
catch block of a node `FailNode`, `TraceFailure`, `ReportFailed`; in `handleDelivery`
`Succeed`, `Retry`, `AcknowledgeRetried`, `FailExecution`, `Acknowledge`, `Nack`. Several
workers may run copies of one command, over the same rows: `Retry` publishes the copy, and
a `Crash` before `AcknowledgeRetried` brings the original back beside it.

`StatementThrows` is an exception of a statement or publish. Where it leads depends on the
step, as in the code: from `COMPLETE` or `REPORT` into the catch block of the node
(`index.ts` 657), although the node was answered and traced; from within that block
(660, 672), or outside of the `try`, to `handleDelivery`, in the place of the node's own
failure and retryable. A trace that cannot be written is logged (`StoreTrace`). `Nack` is
the requeue at 249, with the attempt the command came with. An exception of
`publishRetryCommand` rejects the handler and ends the process: a `Crash`.

`calls[i]` is request `i`, whether somebody waits for it or not: `Serve` (an HTTP
endpoint), `Ask` (the orchestrator and its registry), `LookUp` / `LookUpFails` (the
credential client and the API's rule for workspaces), `Provide` (the provider, with what
its SDK may raise) and `Lost`. `Status` and `Retryable` are the classification of answers in
`ai-orchestrator-client.ts`, with the exception for a wrapped rate limit; `done` says that
a completion was produced, and billed, whoever waits for it.

Left out: the rows of the outbox and the races over the start and the end of an execution,
which are `ExecutionWorker`'s (publishing an event is one step here); the waiting of a
retry in its queue; failures simulated for tests; prompts, texts, costs, tokens; and the
nodes that ask nobody.

### `WorkspaceAccess` and the code

A request about members reads in three statements: the guard (`Guard`, in the `Ask*`
actions), the membership of its user again (`ReadActor`) and the member it is about
(`ReadMember`), and then writes by id alone (`Add`, `Update`, `Remove`). Between any two
other requests may go on. `CanAssign`, `CanUpdate`, `CanRemove` are the rules of
`workspaces.service.ts`. `CreateWorkspace` is one nested statement. `register` is
`ReadAccount` and `WriteAccount`, `login` is `Login`; tokens do not expire during a
request, hashing and signing are equality of passwords and `tokens`. `creator` and the
set `request[r].roles` are history: the maker of a workspace, and the roles the user of
a request has had since the guard.

## Runs

All of them set `CHECK_DEADLOCK FALSE`: each system really stops, when everything is
settled, when no user does anything more, or when a bound of the environment is used up.

| Run | Instance | Shows |
| --- | --- | --- |
| `worker_nodes` | 2 workers, 2 nodes, 1 retry, 1 crash, 1 failure, symmetric workers | `TypeOK`, `OutcomeRecorded`, `CommandKept`, `DeadLetterIsSettled`, `SuccessExplained`, refinement of `ExecutionLifecycle` |
| `worker_timer` | 1 worker, 1 timer, 1 retry, 2 failures, fair | `NoStrandedRow`, `NodesAgree`, `EventsAreDispatched`, `ExecutionsAreSettled` |
| `timeline_kept` | 2 events in one batch, 1 `workflow.created`, 1 cycle, 2 deliveries, 1 lost connection, 1 failure, fair | `TypeOK`, `NothingIsLost`, `EventsAreStored` |
| `timeline_settles` | 2 events, 2 overlapping cycles, batch of 1, unlimited failures of publish, 1 crash, fair | `RowsSettle` |
| `contract_drafts` | all drafts of 3 nodes, 3 edges, 3 ids | `TypeOK`, `AcceptsExecutable`, `SearchesAreExact`, `ValidationEnds` |
| `ordering_graphs` | all accepted graphs of 4 nodes, every order of the arrays | `TypeOK`, `NeverUnordered`, `InputsAreThere`, `TriggersGetRequest`, `EveryNodeRuns` |
| `editing` | 2 users, 2 definitions, 3 calls, 1 visit, 1 extra fetch, 1 failure, symmetric users | `ConfirmedIsStored`, `RunsAreFresh`, `OwnVersionIsShown`, `DraftIsKept` |
| `draft` | 3 stored definitions, 2 changes, drafts of at most 4 nodes | `TypeOK`, `DraftIsWellFormed`, `LayoutFollowsEdges`, `CredentialFits` |
| `calls` | an HTTP node and an AI node, every provider and credential, 1 worker, 1 retry, 1 failure | `TracesMatchCalls`, `FinalAnswersEndTheRun`, `CallsAreBounded` |
| `calls_copies` | one HTTP node, 2 workers, 1 retry, 1 crash, fair | `OutputIsOwnAnswer`, `CallsAreBounded`, `EveryRunEnds` |
| `access` | 3 users, one of them not registered, 2 workspaces, 2 requests at once, 3 in all, 4 memberships | `OwnerStays`, `WithinRank`, `PasswordIsKept` |
| `finding_not_dead_lettered` | 1 worker, 1 node, 1 crash | violates `FailedIsDeadLettered` |

Bounds. One execution is enough: executions share no row and no key, and only compete for
workers. Two copies of a command need one crash or one retry, so one crash, one retry and
two workers already put two deliveries on one execution at every pair of steps.
`MaxRetryAttempts` is 1 instead of 3: the code compares the header with the constant only.
`MaxPublishAttempts` is 2 instead of 5, so that two failures reach the limit. `MaxCrashes`
and `MaxFailures` bound the environment, not the program. With two failures `worker_timer`
reaches two requeues of `handleDelivery` (249) in a row, not an endless series of them.
`DeadLetterIsSettled` says that a dead-lettered command's execution is over; it may be
SUCCEEDED, by another delivery, and nothing written forbids that. Two nodes are the least
for an order between nodes.

`timeline_kept` follows one cycle to the end of the timeline; cycles that overlap are in
`timeline_settles` and in the theorems `NoEventIsLost` and `PendingIsDue`. There two
overlapping cycles are enough for a mark computed from an old snapshot, and a batch of one
with two events is the least in which an older row that fails can keep a younger one
waiting; `timeline_settles` runs without the workflow service, which no row depends on.
Failures of publish need no bound: each one counts, so the number of attempts bounds them,
which is what the run is about. Four nodes allow a join after two branches, a diamond with
a shortcut, and two triggers; three edges over three ids a cycle of three that hangs from
a repeated or unknown node.

In `WorkflowEditing` every call is a create, a save, a restore, a rename or a run; three
of them are a create, a save and a restore, or two saves that race, with a visit and a
fetch nobody asked for to overtake them. In `WorkflowDraft` the stored definitions start
the gestures where they matter: a prompt with a credential, an edge with a name made
elsewhere, and a branch drawn after a shorter one; two changes are one that makes a draft
odd and one that builds on it, such as an edge bent away and another drawn in its place.
In `ExternalCalls` one configuration of one AI node meets every answer, and an HTTP node
before it is what a repetition asks again; the failure may strike at every statement and
publish. Copies of a command do not depend on what is asked: one node and two workers are
enough, and one crash, which doubles the command when it strikes between `Retry` and its
ack and repeats an attempt elsewhere. Four requests, two for each copy, is then what
`CallsAreBounded` allows and TLC reaches. Crash and failure together are left to the
theorems, which hold for any number of both. In `WorkspaceAccess` the roles of a user, and
the member a request is about, change between any two of its reads by the other request;
the third request is the one that made the member what it is.

Fairness. Weak fairness for each worker's own steps, for deliveries, for the TTL of the
retry queues and for the timers: a process that is up keeps going, RabbitMQ serves a
consumer with free capacity, and `setInterval` fires. There is none for `Restart`:
`docker-compose.yml` has no restart policy. Hence what is settled after a crash is settled
by another worker: that is `EveryRunEnds` of `calls_copies` (two workers, one crash),
while `ExecutionsAreSettled` is checked with a timer, retries and failing statements, and
no crash. None for failures or crashes either. In `ExecutionTimeline` weak fairness of
each cycle and delivery and of the transmission; `NothingIsLost` and `EventsAreStored`
except a crash of the worker: a row is PUBLISHED as soon as its event is in a buffer of
the process, and a crash then loses the event. `WorkflowContract` and `WorkflowOrdering`
are sequential functions: weak fairness of the next step is that they go on. In
`ExternalCalls` only the steps of each worker and the delivery to it are fair: endpoints,
orchestrator and providers may never answer, and the worker's timer ends the wait.
`Restart` is not fair there either: in `calls_copies` the command of a worker that crashed
for good is taken over by the second one. Users and requests are under no fairness:
nothing is promised that waits for them.

## Disagreements

Where the code and what is written about it differ. The first is a run with a
counterexample; the others were met while modelling, and the models do what the code does.

- `finding_not_dead_lettered`: a crash between `failWorkflowExecution` and
  `publishCommandDeadLetter` (`index.ts` 238-240) leaves a FAILED execution without a dead
  letter; `docs/contracts/events.md` 109 sends every command there that is not retried.
- `index.ts` 660, 672: when recording or reporting the failure of a node throws as well, the
  new error replaces the node's non-retryable one, the command is retried and the provider
  asked again; `events.md` 109 says that such errors "should skip retry".
  `FinalAnswersEndTheRun` is what remains true: one further final answer for each such
  failure and each crash, and none without them.
- `index.ts` 1562: failures counted from one snapshot count once; `events.md` 181 says
  that failures increment `attempts`. `NoStrandedRow` and `EventsAreDispatched` hold all
  the same.
- `apps/workflow-service/src/index.ts` 86: a message that is refused is dropped by the
  broker, since its queue has no dead-letter exchange; `events.md` 175 promises a dead letter.
- `workflows.service.ts` 52: `create` stores the workflow and then publishes
  `workflow.created` without the outbox of `events.md` 179. If the publish throws, the user
  is told of an error, the event is never sent and a second try finds its slug taken.
- `apps/ai-orchestrator/.../main.py` 22: errors of the credential client, and of the SDKs
  beside the ones caught, leave as a 500, which the worker retries although the next
  attempt ends the same way; `docs/AI_ORCHESTRATOR_STATUS.md` 91 says semantic errors are
  distinguished.
- `providers/anthropic/provider.py` 118: the provider calls `client.chat.completions`,
  which the client of the Anthropic SDK does not have; every prompt for Claude ends in the
  500 of the last item.
- `workflow-canvas.tsx` 479: a user may draw a cycle, and `getNodeLevels` then raises the
  levels along it for ever; the validator that would say so is not reached (`Hung`).
- `workflow-detail-page.tsx` 169: a fetch that brings another user's version replaces a
  draft with unsaved changes without asking (what `DraftIsKept` allows).
- `workflow-detail-page.tsx` 1536: a body that is not valid JSON is shown as an error and
  not stored; a save stores the last valid one.

## Proofs

`ExecutionWorkerProofs` assumes only `WorkerAssumption` and
`MaxPublishAttemptsAssumption`: any number of executions (at least one), workers,
timers, nodes (at least one), retries, crashes and failures.

- `TypeCorrect`: `Spec => []TypeOK`. `TypeOK` is not inductive alone: a worker that is
  about to handle the head of its batch must have one (`BatchReady`). One lemma per group
  of actions, on lemmas about the operators actions are built from (`Throw`, `Goto`,
  `Emit`, `NextInBatch`, `FlushPending`).
- `OutcomeAlwaysRecorded`: `Spec => []OutcomeRecorded`, and `StaleReadsStaySafe`:
  `Spec => []StaleReadsAreSafe`. The inductive invariant is `TypeInv /\ OutcomeRecorded /\
  StaleReadsAreSafe`. The second conjunct needs the third because a worker acts on what it
  read before an await: `PersistStarted` records a started event without looking at the
  status again, which is right only because the delivery that got there is behind one that
  has recorded it already; an event recorded inside the loop is one of a node, and not of the
  execution, because the loop's index is in `1..NodeCount`; recording the outcome of a
  publish does not create a row because there is one behind every snapshot. All three are
  stable under the steps of others because an execution's rows stay (`Forward`) and
  no row is deleted (`RowsStay`); `SafetyIsStable` and `CycleIsStable` say so.
- `ImplementsLifecycle`: `Spec => LifecycleSpec`. `Begin`, `Complete` and the final `Fail`
  map to the abstract steps; every other step maps to a stutter. That needs the inductive
  invariant in three places: `PersistStarted` re-emits an event of the execution, which is
  already recorded; an event recorded inside the loop has a node; and a mark after a
  publish changes a row that is there, and never makes one.

The same module goes on with what an execution leaves behind.

- `NoRowIsStranded`: `Spec => []NoStrandedRow`. Inductive alone, from what a step may do to
  a row (`RowStep`): insert it, mark it as published, or write over it the status and count
  of a snapshot, which leaves it PENDING only with attempts left.
- `CommandsAreKept`, `DeadLettersAreSettled`, `SuccessesAreExplained`. A delivery acts on what
  it has learnt, not on what is so now: `Claim(label, e, n)` says what it must have learnt to
  be at a label, or to return there after a dispatch, such as that the predecessors of the
  node it starts have a completed event, or that the execution is over when it dead-letters.
  A claim stays true whatever others do, since rows stay (`RowsStay`) and the status of
  an execution moves one way (`Onward`, which is `ImplementsLifecycle` seen as a lemma). The
  inductive invariant is `HInv`: the claims of all deliveries with `CommandKept`.
- `NodesAlwaysAgree`: `Spec => []NodesAgree`. While nobody crashes there is one copy of a
  command or one delivery of it (`Solo`): a command is published once, and only the delivery
  that gives it up makes another copy. So what a delivery has done to the node rows
  (`Ground`: every node before its position SUCCEEDED) is disturbed by nobody else
  until it writes SUCCEEDED on the execution. The inductive invariant is `HInv /\ AgreeInv`.

`ExecutionTimelineProofs` assumes `TimelineAssumption` and `MaxPublishAttemptsAssumption`:
any events with any messages of the worker, any cycles, batch size of at least one and bounds,
and any finite set of slots, since what a lost connection requeues is a sequence.

- `EventsReachTheService`, `CommandsReachTheWorker`: about the operators of
  `MessageContracts`, without assumptions. Every lifecycle message the worker makes is
  routed to the queues of the workflow service and the observability service, and passes
  the check of the former; a trace goes elsewhere; a command passes the worker's check, and
  comes back to it from each of the retry queues. Each binding and each pattern is looked
  at once (`RoutesOf`, `BindingsOfEach`).

- `TypeCorrect`: `Spec => []TypeOK`.
- `NoEventIsLost`: `Spec => []NothingIsLost`. A row that is PUBLISHED, and the row a cycle is
  about to mark so, has its event with the channel, the broker, the service or in the timeline
  (`PublishedIsSafe`); the steps of the service pass it on before they let it go
  (`ServiceKeepsSafe`), because a delivery is acknowledged only when its event is stored
  (`StoredIsKept`). A failure mark of an old snapshot makes no row PUBLISHED, because every
  snapshot was read PENDING (`BatchesPending`). No lifecycle event is refused or left
  without a queue, by `EventsReachTheService`.
- `PendingIsDue`: a row that is PENDING is one the next query finds, with attempts left,
  although the counts of overlapping cycles overwrite each other. The inductive invariant
  says that every snapshot has an attempt left (`AttemptsAreLeft`), so a mark of it is
  FAILED or leaves the row due. This is the safety half of `RowsSettle`.

`WorkflowContractProofs` assumes `BoundsAssumption`: any ids, and drafts of any size within
any bounds.

- `TypeCorrect`, `SearchesExact`, `AcceptsExactly`. The inductive invariant `CInv` says of the
  first search that what it has reached or queued can be reached, and that the targets of
  what it has reached are reached or queued: when the queue is empty the reached nodes are a
  closed set around the triggers, hence all that can be reached. Of the second it says that
  the stack is a path, each call inside the one below it, and that the targets of a node that
  was left have been left: so a target inside of which the search is closes a cycle, and if
  none is found each node that was left has been left after its targets, so every set of
  nodes has one without a source in it, which is `Acyclic`. `Keep` is proved about by a
  least counterexample: the shortest prefix on which a fact about it fails is neither empty
  nor longer than one that fails. `LeastNatural` follows from the well-foundedness of the
  naturals, without the induction theorem that takes a predicate.

`WorkflowDraftProofs` assumes `BoundsAssumption` and `InitialAssumption`: any stored
definitions the contract accepts, any credentials, and any bounds.

- `TypeCorrect`, `WellFormedDrafts`, `LayoutIsRight`, `AcyclicIsLaidOut`. The inductive
  invariant `DraftInv` says that the stored definition and the draft are `WellFormed`, that
  edges the editor named have names no other ends could have (`NamedByEditor`,
  `NamesOfEnds`), that the page shows what is there (`PageFits`), and what the layout has
  done so far (`LayoutFits`): a level is the length of a path to its node, a node that is
  not queued is left of its targets, and a node without sources has a level. So a level
  above the number of nodes is a path longer than that, which visits a node twice by the
  pigeonhole principle, and what lies between the two visits is a set in which every node
  has a source (`LongPathsTurn`): the draft has a cycle. An acyclic draft is therefore laid
  out, and a node without a level would have a source without one, and so on, against
  `Acyclic`.
- `CredentialsFit` has the hypothesis that no stored definition gives a prompt the credential
  of another provider. It is no assumption of the module, because the API does not check it:
  the theorem says that the editor never makes such a draft of its own.

`WorkflowOrderingProofs` assumes `NodesAssumption`: any finite set of nodes.

- `TypeCorrect`, `AcceptedIsOrdered`, `OrderIsTopological`, `CountsAreExact`,
  `InputsAreAlwaysThere`. The inductive invariant says what the counts mean
  (`CountsWaiting`), that a node in the queue waits for no source (`QueuedAreFree`), that
  a node all of whose sources are placed is placed or in the queue (`FreeAreQueued`), and
  that no node is placed twice. When the queue is empty, suppose nodes are left over: by
  `Acyclic` one of them has no source among them, so all its sources are placed, so it is
  in the queue: a contradiction. This is why `Acyclic` is stated of sets of nodes and not
  of paths, which would need induction. The length of the order is then the number of
  nodes, and the check at `index.ts` 783 passes. `InputsAreThere` follows from the order:
  what stands before a position has run.
- `TriggersAlwaysGetRequest`: `Spec => []TriggersGetRequest`. No trigger is placed, or waits,
  behind another node (`TriggersFirst`): what is freed has a source, so it is no trigger.
  Hence only triggers have run when a trigger runs, and the input of the execution has been
  handed on to it (`RequestIsHandedOn`).
- `FinishedRunsAreComplete`: a run that ends well has ordered every node and has an output of
  each. `RunsAreBounded`: every step raises `Progress` by one, and `Progress` is at most
  twice the number of nodes and two. It needs that no node is queued twice, or after it was
  placed (`QueuedOnce`), which is also why the test at `index.ts` 760 never skips one. The
  two are what `EveryNodeRuns` says besides fairness.

`WorkspaceAccessProofs` assumes `AccessAssumption`: any sets of users, registered users,
workspaces and requests, at least one password, and any bounds.

- `TypeCorrect`: `Spec => []TypeOK`. `WorkspacesKeepTheirOwner`: `Spec => []OwnerStays`.
  `OwnerStays` alone is not inductive: a request writes a row by the id it has read
  statements ago. The inductive invariant adds what each step of a request still knows
  (`Fits`): once a request has passed the rules (`Writable`), it does not ask for the role
  of an owner, and the row it names was removed or is no owner's. That is stable because
  nobody but `CreateWorkspace` writes an owner, and then into a new row (`FitsStays`), and
  ids are not used twice. `RowsHaveWorkspace` says that no row belongs to a workspace yet
  to be made, so the owner `CreateWorkspace` adds is the only one.

The same module goes on with accounts and ranks.

- `PasswordsAreKept`: `Spec => PasswordIsKept`. `register` reads the account and writes it
  in another statement; `AccountsFit` says what it may still rely on in between.
- `ManagersKeepTheirRank`: `Spec => WithinRank`. `RankInv` joins `OneRowEach` (a user has
  one membership of a workspace) and `Knows`, which says of every request what its reads
  still mean although roles change between them: the roles its user has had since the
  guard contain each role it has read, and what it has read passed the rules.

`WorkflowEditingProofs` assumes `EditingAssumption`: any tabs, any definitions, any bounds.

- `ConfirmedStaysStored`, `RunsStayFresh`, `OwnVersionStaysShown`, `DraftStaysKept`. The
  inductive invariant `Inv` has four parts besides types and `ConfirmedIsStored`: the
  numbers of the versions have no gap (`History`), although they are read in one statement
  and inserted in another, because the unique index refuses what was read too early; nobody
  has read a version that is not there (`KnownPage`, `KnownCall`); a fetch never brings an
  older version than the page has (`KnownFetch`), because there is one fetch at a time; and
  a page that waits for its own version has asked for it since it was stored (`Waits`),
  because an invalidation cancels the fetch under way. The last two are what the action
  properties about pages follow from.

`ExternalCallsProofs` assumes `CallsAssumption` alone: any chain of nodes, any workers, any
configurations, any numbers of retries, crashes and failures.

- `OutputsAreOwnAnswers`, `TracesStayMatched`, `FinalAnswersAreFinal`, `CallsStayBounded`:
  each is `Spec => []` the property of that name. The inductive invariant `Inv` says besides
  types that a copy of the command is held by one worker at most (`HoldInv`), so two workers
  never share a copy; that the request a worker waits for is the last one of its copy
  (`Current`); that a node has no request of a copy later than the one in its row, until the
  row is reset by that copy (`Owned`, `Reset`); and which requests are not traced
  yet (`Untraced`). Late answers change calls that are nobody's concern: a row and a
  successful trace name one that is over.
- The three bounds are proved with potentials that no step raises by more than it pays for.
  Requests that have both traces, with those of answered nodes that were traced and are being
  failed, are at most as many as failed statements (`Doubted`). The requests of a node and the ones
  its copies may still make (`Tickets`: the attempts each has left, and whether the present
  one has asked yet) are within `Limit`, which a crash or a failed statement raises by what
  it puts back. The final answers with the copies that may still be told one (`FinalCalls`,
  `Hopeful`) are at most one more than the faults, because a copy that was told one is hopeful
  again only by a fault. Without faults there is one copy, and it is past hope and asks
  nothing once it was told (`EndInv`). `Advances` (a step within a
  delivery), `TurnsOver` (a delivery that begins or ends) and `CommandsKeep` say once for
  groups of actions what they leave alone.

Only model-checked: the liveness properties `EventsAreDispatched`, `ExecutionsAreSettled`,
`EventsAreStored`, `RowsSettle`, `ValidationEnds`, `EveryNodeRuns` and `EveryRunEnds`, since
the prover does not reach liveness under fairness. Every invariant, every action property and the refinement that a passing run checks is
also a theorem. `StaleReadsAreSafe` of `ExecutionWorker`, `Topological` and
`CountsWaiting` of `WorkflowOrdering`, and the theorems above without a property of a run,
are proved only.

## Not modelled

- The execution page and the session of the web application: they render what the API
  answers and poll until an execution is terminal; they change nothing but a cache.
- The schemas of node configurations: predicates on single values without state.
- The raw dead letter of a payload that does not parse: it touches no execution.
- Creating and listing credentials, and their encryption: single statements.
- The API's cached connection and channel: its error handling is the library's; its effect
  on one request, a message that is not sent, is `LoseCommand` and `CallFails`.
- Configuration and logger: declarations; the observability service is a stub; seed and
  benchmark scripts run once, by hand.

## Plan

1. An abstract specification of delivery (an event that was recorded is delivered at least
   once, unless it is given up) that `ExecutionTimeline` implements.
2. `ApiPublisher`: the cached connection and channel of the messaging service.
3. The session and the polling of the web application; the encryption of credentials.
