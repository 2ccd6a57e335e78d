--------------------------- MODULE ExternalCalls ---------------------------
(***************************************************************************)
(* The calls a workflow run makes to the outside: its httpRequest nodes    *)
(* over fetch, its aiPrompt nodes through the AI orchestrator, which looks *)
(* up a credential in the API and asks a provider.  Source:                *)
(* apps/execution-worker/src, apps/ai-orchestrator/src, and the            *)
(* credentials of apps/api.                                                *)
(*                                                                         *)
(* The client gives up after a timeout; nothing tells the other side, which*)
(* works on.  The command of one execution is retried, delivered again     *)
(* after a crash and, when a worker stops between the retry and the ack,   *)
(* doubled: several workers may then run the same nodes and write the same *)
(* rows.  A step of a worker is one statement, publish or request, and any *)
(* statement or publish may throw.  The outbox, the retry and dead-letter  *)
(* queues and the failures simulated for tests are those of                *)
(* ExecutionWorker: here publishing an event is one step.                  *)
(***************************************************************************)
EXTENDS Naturals, Sequences, FiniteSetsExt

CONSTANTS Chain,          \* the kinds of the run's external nodes, in order
          Workers,        \* the worker processes (prefetch 1: one delivery each)
          Configurations, \* of the run's aiPrompt nodes: provider and credential
          MaxRetries,     \* FLOWPILOT_MAX_RETRY_ATTEMPTS, 3 in the code
          MaxCrashes,     \* bound: crashes of workers
          MaxFailures     \* bound: statements and publishes of a worker that throw

Reply(answers, done) == [answer : answers, done : done]

\* What running a provider may end with.  done: a completion was produced, and
\* billed, even where the orchestrator stopped waiting or cannot read it.
OpenRouterRun == Reply({"OK"}, {TRUE}) \cup Reply({"RATE_LIMITED"}, {FALSE})
                   \cup Reply({"PROVIDER_ERROR"}, BOOLEAN)

\* Errors of the SDK other than the three the provider catches are UNCAUGHT.
OpenAiRun == OpenRouterRun \cup Reply({"UNCAUGHT"}, BOOLEAN)

\* The client of the Anthropic SDK has no attribute chat.
AnthropicRun == Reply({"UNCAUGHT"}, {FALSE})

\* The providers that need a credential of their own type.
Cloud == [OPENROUTER |-> OpenRouterRun, OPENAI |-> OpenAiRun, CLAUDE |-> AnthropicRun]

\* The editor offers two providers the registry does not know.
Providers == {"UNKNOWN", "DETERMINISTIC"} \cup DOMAIN Cloud
\* No credentialId, a credential of the provider's type in this workspace, one
\* of another type, one of another workspace.
Credentials == {"NONE", "OWN", "OTHER_TYPE", "FOREIGN"}

ASSUME CallsAssumption ==
  /\ Chain \in Seq({"HTTP", "AI"})
  /\ Configurations \subseteq [provider: Providers, credential: Credentials]
  /\ {MaxRetries, MaxCrashes, MaxFailures} \subseteq Nat

VARIABLES config,      \* the provider and the credential of the run's aiPrompt nodes
          credentials, \* IntegrationCredential: the rows that exist
          commands,    \* workflow.execution.requested: the place and the attempt of each
                       \* copy, which a retry sends on under the same index
          execution,   \* the status of the execution
          nodes,       \* WorkflowNodeExecution: status and output of each node's row
          worker,      \* the delivery each worker holds and where it is in it
          calls,       \* the calls made so far, oldest first
          traces,      \* WorkflowAiTrace: the rows, oldest first
          spent        \* how much of each bound is used up

vars == <<config, credentials, commands, execution, nodes, worker, calls, traces, spent>>

Bounds == [crashes |-> MaxCrashes, failures |-> MaxFailures]

Spend(kind) == /\ spent[kind] < Bounds[kind]
               /\ spent' = [spent EXCEPT ![kind] = @ + 1]

Idle == [step |-> "IDLE", node |-> 0, call |-> 0, failure |-> "NONE",
         command |-> 0, attempt |-> 0]

\* A row as upsertRunningNodeExecution writes it.
Running == [status |-> "RUNNING", output |-> 0]

Init ==
  /\ config \in Configurations
  /\ credentials = Credentials \ {"NONE"}
  /\ commands = <<[place |-> "QUEUE", attempt |-> 0]>>
  /\ execution = "PENDING"
  /\ nodes = [n \in DOMAIN Chain |-> [Running EXCEPT !.status = "ABSENT"]]
  /\ worker = [w \in Workers |-> Idle]
  /\ calls = <<>> /\ traces = <<>>
  /\ spent = [kind \in DOMAIN Bounds |-> 0]

Terminal == execution \in {"SUCCEEDED", "FAILED"}
Last == Len(calls)

----------------------------------------------------------------------------
(***************************************************************************)
(* How a worker moves from one step to the next.                           *)
(***************************************************************************)

At(w, step) == worker[w].step = step

Goto(w, step) == worker' = [worker EXCEPT ![w].step = step]

\* An exception, with the failure its catch clause sees.
Throw(w, step, failure) ==
  worker' = [worker EXCEPT ![w].step = step, ![w].failure = failure]

\* Where the command w holds goes, and w's next delivery starts from nothing.
Release(w, place) ==
  /\ commands' = [commands EXCEPT ![worker[w].command].place = place]
  /\ worker' = [worker EXCEPT ![w] = Idle]

----------------------------------------------------------------------------
(***************************************************************************)
(* processWorkflowExecution.                                               *)
(***************************************************************************)

\* Two workers may hold two copies of the command.
Deliver(w, c) ==
  /\ worker[w] = Idle /\ commands[c].place = "QUEUE"
  /\ commands' = [commands EXCEPT ![c].place = "HELD"]
  /\ worker' = [worker EXCEPT ![w] = [Idle EXCEPT !.step = "FIND", !.command = c,
                                                  !.attempt = commands[c].attempt]]
  /\ UNCHANGED <<config, credentials, execution, nodes, calls, traces, spent>>

\* A delivery starts at the first node whatever an earlier attempt has done.
FindExecution(w) ==
  /\ At(w, "FIND")
  /\ IF Terminal THEN Goto(w, "ACK") /\ UNCHANGED execution
       ELSE /\ execution' = "RUNNING"
            /\ worker' = [worker EXCEPT ![w].step = "NODE", ![w].node = 1]
  /\ UNCHANGED <<config, credentials, commands, nodes, calls, traces, spent>>

\* Mutant: the update of the upsert writes nothing.
KeepRow(row) == IF row.status = "ABSENT" THEN Running ELSE row

\* The row of an earlier attempt, or of another delivery, is reset.
ResetRow(row) == Running

StartNode(w) ==
  /\ At(w, "NODE") /\ worker[w].node <= Len(Chain)
  /\ nodes' = [nodes EXCEPT ![worker[w].node] = ResetRow(@)]
  /\ Goto(w, "STARTED")
  /\ UNCHANGED <<config, credentials, commands, execution, calls, traces, spent>>

\* node.started, then the request of the node's executor.
Send(w) ==
  /\ At(w, "STARTED")
  /\ calls' = Append(calls, [node |-> worker[w].node, command |-> worker[w].command,
                             step |-> "RECEIVED", answer |-> "NONE", done |-> FALSE])
  /\ worker' = [worker EXCEPT ![w].step = "WAITING", ![w].call = Last + 1]
  /\ UNCHANGED <<config, credentials, commands, execution, nodes, traces, spent>>

\* The answer reaches the client; the fetch of an earlier attempt is awaited
\* by nobody.
Receive(w) ==
  LET i == worker[w].call IN
  /\ At(w, "WAITING") /\ calls[i].step = "ANSWERED"
  /\ calls' = [calls EXCEPT ![i].step = "OVER"]
  /\ IF calls[i].answer = "OK" THEN Goto(w, "COMPLETE")
                               ELSE Throw(w, "FAIL", calls[i].answer)
  /\ UNCHANGED <<config, credentials, commands, execution, nodes, traces, spent>>

\* Mutant: the request has no timer.
NeverTimesOut(w) == FALSE

\* controller.abort, AbortSignal.timeout: the other side goes on.
TimesOut(w) == At(w, "WAITING")

Abort(w) ==
  /\ TimesOut(w)
  /\ Throw(w, "FAIL", "TIMEOUT")
  /\ UNCHANGED <<config, credentials, commands, execution, nodes, calls, traces, spent>>

CompleteNode(w) ==
  /\ At(w, "COMPLETE")
  /\ nodes' = [nodes EXCEPT ![worker[w].node] =
                 [status |-> "SUCCEEDED", output |-> worker[w].call]]
  /\ Goto(w, "TRACE")
  /\ UNCHANGED <<config, credentials, commands, execution, calls, traces, spent>>

\* Mutant: the traces of failures are written as those of successes.
TraceSucceeded(i, status) == [call |-> i, status |-> "SUCCEEDED"]

TraceOf(i, status) == [call |-> i, status |-> status]

\* An error in the write of a trace is logged and forgotten.
StoreTrace(w, status) ==
  \/ /\ Chain[worker[w].node] = "AI"
     /\ traces' = Append(traces, TraceOf(worker[w].call, status))
  \/ UNCHANGED traces

TraceSuccess(w) ==
  /\ At(w, "TRACE")
  /\ StoreTrace(w, "SUCCEEDED") /\ Goto(w, "REPORT")
  /\ UNCHANGED <<config, credentials, commands, execution, nodes, calls, spent>>

\* node.completed, then the next node.
ReportCompleted(w) ==
  /\ At(w, "REPORT")
  /\ worker' = [worker EXCEPT ![w].step = "NODE", ![w].node = @ + 1, ![w].call = 0]
  /\ UNCHANGED <<config, credentials, commands, execution, nodes, calls, traces, spent>>

\* The catch block of a node keeps the output of a row that had SUCCEEDED.
FailNode(w) ==
  /\ At(w, "FAIL")
  /\ nodes' = [nodes EXCEPT ![worker[w].node].status = "FAILED"]
  /\ Goto(w, "TRACE_FAILURE")
  /\ UNCHANGED <<config, credentials, commands, execution, calls, traces, spent>>

TraceFailure(w) ==
  /\ At(w, "TRACE_FAILURE")
  /\ StoreTrace(w, "FAILED") /\ Goto(w, "REPORT_FAILURE")
  /\ UNCHANGED <<config, credentials, commands, execution, nodes, calls, spent>>

\* node.failed, then the caught error is thrown again.
ReportFailed(w) ==
  /\ At(w, "REPORT_FAILURE")
  /\ Goto(w, "HANDLE")
  /\ UNCHANGED <<config, credentials, commands, execution, nodes, calls, traces, spent>>

\* The update matches a RUNNING execution only.
Succeed(w) ==
  /\ At(w, "NODE") /\ worker[w].node > Len(Chain)
  /\ execution' = IF Terminal THEN execution ELSE "SUCCEEDED"
  /\ Goto(w, "ACK")
  /\ UNCHANGED <<config, credentials, commands, nodes, calls, traces, spent>>

----------------------------------------------------------------------------
(***************************************************************************)
(* handleDelivery: the catch block, and what a failure is worth.           *)
(***************************************************************************)

\* isRetryableAiOrchestratorFailure.  RATE_LIMITED and PROVIDER_ERROR are the
\* 502 of a provider's error, with status 429 and with any other or none.  The
\* orchestrator's handler catches no credential error: CREDENTIAL_ERROR and
\* UNCAUGHT are a 500.  A timeout, a refused connection and a body that is not
\* JSON, as that of a 500, are retryable whatever the status, and so is any
\* error normalizeWorkerFailure does not know.
Status == [UNKNOWN_PROVIDER |-> 422, NO_CREDENTIAL |-> 422, CREDENTIAL_ERROR |-> 500,
           RATE_LIMITED |-> 502, PROVIDER_ERROR |-> 502, UNCAUGHT |-> 500]

IsRetryableStatus(status) == status \in {408, 429} \/ status >= 500

\* Mutant: the provider's own status is not looked at.
RetryableByStatus(answer) ==
  answer \in {"UNREACHABLE", "TIMEOUT", "STATEMENT"} \cup
            {a \in DOMAIN Status : IsRetryableStatus(Status[a])}

Retryable(answer) ==
  answer \in {"UNREACHABLE", "TIMEOUT", "STATEMENT"} \cup
            {a \in DOMAIN Status \ {"RATE_LIMITED"} : IsRetryableStatus(Status[a])}

\* Mutant: the command is sent again as it came.
NotCounted(attempt) == attempt

NextAttempt(attempt) == attempt + 1

MayRetry(w) ==
  Retryable(worker[w].failure) /\ worker[w].attempt < MaxRetries

\* publishRetryCommand; what it retries is not acknowledged yet.
Retry(w) ==
  /\ At(w, "HANDLE") /\ MayRetry(w)
  /\ commands' = [commands EXCEPT ![worker[w].command] =
                    [place |-> "QUEUE", attempt |-> NextAttempt(worker[w].attempt)]]
  /\ Goto(w, "RETRIED")
  /\ UNCHANGED <<config, credentials, execution, nodes, calls, traces, spent>>

\* failWorkflowExecution: the update matches an execution that is not terminal.
FailExecution(w) ==
  /\ At(w, "HANDLE") /\ ~MayRetry(w)
  /\ execution' = IF Terminal THEN execution ELSE "FAILED"
  /\ Goto(w, "DEAD_LETTER")
  /\ UNCHANGED <<config, credentials, commands, nodes, calls, traces, spent>>

\* publishCommandDeadLetter comes first where the execution was failed.
Acknowledge(w) ==
  /\ worker[w].step \in {"ACK", "DEAD_LETTER"}
  /\ Release(w, "DONE")
  /\ UNCHANGED <<config, credentials, execution, nodes, calls, traces, spent>>

AcknowledgeRetried(w) ==
  /\ At(w, "RETRIED")
  /\ worker' = [worker EXCEPT ![w] = Idle]
  /\ UNCHANGED <<config, credentials, commands, execution, nodes, calls, traces, spent>>

----------------------------------------------------------------------------
(***************************************************************************)
(* Exceptions and crashes of a worker.                                     *)
(***************************************************************************)

\* A statement or publish throws.  The try block of a node spans the steps
\* after the answer: an answered node is then failed like any other.  In its
\* catch block, and outside of it, the error, a retryable one, goes to
\* handleDelivery in the place of the node's own.
StatementThrows(w) ==
  /\ Spend("failures")
  /\ \/ /\ worker[w].step \in {"COMPLETE", "REPORT"}
        /\ Throw(w, "FAIL", "STATEMENT")
     \/ /\ worker[w].step \in {"FIND", "NODE", "STARTED", "FAIL", "REPORT_FAILURE", "ACK"}
        /\ Throw(w, "HANDLE", "STATEMENT")
  /\ UNCHANGED <<config, credentials, commands, execution, nodes, calls, traces>>

\* The execution cannot be failed, or the command not dead-lettered: it is
\* requeued with the attempt it came with.
Nack(w) ==
  /\ (At(w, "HANDLE") /\ ~MayRetry(w)) \/ At(w, "DEAD_LETTER")
  /\ Spend("failures") /\ Release(w, "QUEUE")
  /\ UNCHANGED <<config, credentials, execution, nodes, calls, traces>>

\* The broker delivers what was not acknowledged again: after a retry was sent
\* there are two copies.  An exception of publishRetryCommand, or of an ack, is
\* caught by nobody and ends the process too.
Crash(w) ==
  /\ worker[w].step \notin {"IDLE", "DOWN"} /\ Spend("crashes")
  /\ worker' = [worker EXCEPT ![w] = [Idle EXCEPT !.step = "DOWN"]]
  /\ commands' = IF At(w, "RETRIED")
                   THEN Append(commands, [place |-> "QUEUE", attempt |-> worker[w].attempt])
                   ELSE [commands EXCEPT ![worker[w].command].place = "QUEUE"]
  /\ UNCHANGED <<config, credentials, execution, nodes, calls, traces>>

Restart(w) ==
  /\ At(w, "DOWN")
  /\ worker' = [worker EXCEPT ![w] = Idle]
  /\ UNCHANGED <<config, credentials, commands, execution, nodes, calls, traces, spent>>

----------------------------------------------------------------------------
(***************************************************************************)
(* The other side: an HTTP endpoint, or the orchestrator and a provider.   *)
(***************************************************************************)

Others == <<config, credentials, commands, execution, nodes, worker, traces, spent>>

IsAt(i, kind, step) == Chain[calls[i].node] = kind /\ calls[i].step = step

Answer(i, answer, done) ==
  calls' = [calls EXCEPT ![i] = [@ EXCEPT !.step = "ANSWERED", !.answer = answer,
                                          !.done = done]]

\* Whatever its status, a response is a success of the node; the text of an
\* error of fetch is a retryable failure.
Serve(i) ==
  /\ IsAt(i, "HTTP", "RECEIVED")
  /\ \/ Answer(i, "OK", TRUE)
     \/ Answer(i, "UNREACHABLE", FALSE)
  /\ UNCHANGED Others

\* run_prompt: the registry, and the provider's check of credentialId.
Ask(i) ==
  /\ IsAt(i, "AI", "RECEIVED")
  /\ CASE config.provider = "UNKNOWN" -> Answer(i, "UNKNOWN_PROVIDER", FALSE)
       [] config.provider = "DETERMINISTIC" -> Answer(i, "OK", TRUE)
       [] config.provider \in DOMAIN Cloud /\ config.credential = "NONE" ->
            Answer(i, "NO_CREDENTIAL", FALSE)
       [] OTHER -> calls' = [calls EXCEPT ![i].step = "LOOKUP"]
  /\ UNCHANGED Others

\* The orchestrator is down.
Lost(i) ==
  /\ IsAt(i, "AI", "RECEIVED")
  /\ Answer(i, "UNREACHABLE", FALSE)
  /\ UNCHANGED Others

\* findSecret looks for the id among the credentials of the workspace.
Found(c) == c \in credentials /\ c # "FOREIGN"

Supports(c) == c # "OTHER_TYPE"

LookUp(i) ==
  /\ IsAt(i, "AI", "LOOKUP")
  /\ IF Found(config.credential) /\ Supports(config.credential)
       THEN calls' = [calls EXCEPT ![i].step = "PROVIDER"]
       ELSE Answer(i, "CREDENTIAL_ERROR", FALSE)
  /\ UNCHANGED Others

\* The API does not answer within the five seconds of the credential client.
LookUpFails(i) ==
  /\ IsAt(i, "AI", "LOOKUP")
  /\ Answer(i, "UNCAUGHT", FALSE)
  /\ UNCHANGED Others

\* The provider's run, after its credential.
Provide(i) ==
  /\ IsAt(i, "AI", "PROVIDER")
  /\ \E reply \in Cloud[config.provider] : Answer(i, reply.answer, reply.done)
  /\ UNCHANGED Others

\* DELETE of a credential while a run that names it is under way.
RemoveCredential ==
  /\ config.credential \in credentials
  /\ credentials' = credentials \ {config.credential}
  /\ UNCHANGED <<config, commands, execution, nodes, worker, calls, traces, spent>>

Run(w) == \/ FindExecution(w) \/ StartNode(w) \/ Send(w) \/ Receive(w) \/ Abort(w)
          \/ CompleteNode(w) \/ TraceSuccess(w) \/ ReportCompleted(w)
          \/ FailNode(w) \/ TraceFailure(w) \/ ReportFailed(w) \/ Succeed(w)
          \/ Retry(w) \/ FailExecution(w) \/ Acknowledge(w) \/ AcknowledgeRetried(w)

Outside == \E i \in 1..Last : \/ Serve(i) \/ Ask(i) \/ Lost(i)
                              \/ LookUp(i) \/ LookUpFails(i) \/ Provide(i)

DeliverAny(w) == \E c \in DOMAIN commands : Deliver(w, c)

Fault(w) == StatementThrows(w) \/ Nack(w) \/ Crash(w) \/ Restart(w)

Next == \/ \E w \in Workers : Run(w) \/ DeliverAny(w) \/ Fault(w)
        \/ Outside \/ RemoveCredential

Spec == Init /\ [][Next]_vars

\* A worker that is up goes on, and its timer ends a wait that nobody else
\* ends; the broker delivers.  Nothing else needs to happen.
FairSpec == Spec /\ \A w \in Workers : WF_vars(Run(w)) /\ WF_vars(DeliverAny(w))

----------------------------------------------------------------------------
(***************************************************************************)
(* Properties.                                                             *)
(***************************************************************************)

\* The output stored for a node is an answer to a request for this node, and
\* the copy of the command that made the request has made no later one: no
\* late answer to an attempt that timed out or crashed is stored.  Between two
\* copies the row is the last writer's.
OutputIsOwnAnswer ==
  \A n \in DOMAIN Chain :
    nodes[n].status = "SUCCEEDED" =>
      LET i == nodes[n].output IN
      /\ i \in DOMAIN calls /\ calls[i].node = n /\ calls[i].done
      /\ \A j \in (i + 1)..Last : ~(calls[j].node = n /\ calls[j].command = calls[i].command)

Traced(i, status) == \E t \in DOMAIN traces : traces[t] = [call |-> i, status |-> status]

\* A trace that reports success, and its tokens, belongs to a completion the
\* provider produced; no request has two traces of one status, although
\* requests are repeated, time out and are answered late; and a request has a
\* trace of each only where the worker's own bookkeeping threw.
TracesMatchCalls ==
  /\ \A i \in 1..Last : Traced(i, "SUCCEEDED") => calls[i].done
  /\ \A t, u \in DOMAIN traces : traces[t] = traces[u] => t = u
  /\ Cardinality({i \in 1..Last : Traced(i, "SUCCEEDED") /\ Traced(i, "FAILED")})
       <= spent.failures

Requests(n) == {i \in 1..Last : calls[i].node = n}

\* What a run can cost, or repeat on an endpoint that is not idempotent: each
\* copy of the command asks a node once per attempt, and once more for each
\* crash and each failed statement that puts it back; a crash between the
\* retry and its ack makes another copy, with attempts of its own.
CallsAreBounded ==
  LET doubled == Len(commands) - 1 IN
  /\ doubled <= spent.crashes
  /\ \A n \in DOMAIN Chain :
       Cardinality(Requests(n)) <=
         (MaxRetries + 1) * Len(commands) + (spent.crashes - doubled) + spent.failures

\* The answers no retry can change.
Final(i) == /\ calls[i].step = "OVER"
            /\ calls[i].answer \in {"UNKNOWN_PROVIDER", "NO_CREDENTIAL", "RATE_LIMITED"}

\* A worker that has been told of a wrong configuration or of a rate limit ends
\* the run and sends no further request; it is told so once more for each
\* crash and each failed statement at most.  This is what the code keeps of
\* docs/contracts/events.md:109, "Non-retryable errors should skip retry".
FinalAnswersEndTheRun ==
  /\ Cardinality({i \in 1..Last : Final(i)}) <= 1 + spent.crashes + spent.failures
  /\ spent.crashes + spent.failures = 0 => \A i \in 1..Last : Final(i) => i = Last

\* A run ends although endpoints and providers may never answer.
EveryRunEnds == <>[]Terminal

=============================================================================
