------------------------ MODULE ExternalCallsProofs ------------------------
(***************************************************************************)
(* What a run may rely on when its calls time out and are repeated, its    *)
(* command is doubled and any statement of a worker may throw, for any     *)
(* chain of nodes, number of workers, retries, crashes and failures:       *)
(* outputs and traces belong to their own requests, and the requests and   *)
(* the answers that end a run are counted.                                 *)
(***************************************************************************)
EXTENDS ExternalCalls, FiniteSetTheorems, TLAPS

Answers == {"NONE", "OK", "UNREACHABLE"} \cup DOMAIN Status

\* The steps at which a worker has a request, and those at which it holds no
\* command: at RETRIED another may already be delivered what it sent.
Calling == {"WAITING", "COMPLETE", "TRACE", "REPORT", "FAIL", "TRACE_FAILURE", "REPORT_FAILURE"}
Free == {"IDLE", "DOWN", "RETRIED"}
Failing == {"FAIL", "TRACE_FAILURE", "REPORT_FAILURE", "HANDLE", "RETRIED", "DEAD_LETTER"}
Steps == Calling \cup Free \cup Failing \cup {"FIND", "NODE", "STARTED", "ACK"}

CallType == [node: DOMAIN Chain, command: Nat, answer: Answers, done: BOOLEAN,
             step: {"RECEIVED", "LOOKUP", "PROVIDER", "ANSWERED", "OVER"}]
NodeType == [status: {"ABSENT", "RUNNING", "SUCCEEDED", "FAILED"}, output: Nat]
WorkerType == [step: Steps, node: Nat, call: Nat, command: Nat, attempt: 0..MaxRetries,
               failure: Answers \cup {"TIMEOUT", "STATEMENT"}]
CommandType == [place: {"QUEUE", "HELD", "DONE"}, attempt: 0..MaxRetries]
TraceType == [call: Nat, status: {"SUCCEEDED", "FAILED"}]

TypeInv ==
  /\ config \in [provider: Providers, credential: Credentials]
  /\ calls \in Seq(CallType) /\ nodes \in [DOMAIN Chain -> NodeType]
  /\ worker \in [Workers -> WorkerType] /\ traces \in Seq(TraceType)
  /\ commands \in Seq(CommandType)
  /\ spent \in [{"crashes", "failures"} -> Nat]

Holds(u) == u.step \notin Free

\* Every copy of the command is held by one worker at most.
HoldInv ==
  \A v, w \in Workers :
    Holds(worker[v]) /\ Holds(worker[w]) /\ worker[v].command = worker[w].command => v = w

\* What is true of a call whoever waits for it.
CallInv ==
  \A i \in 1..Last :
    /\ calls[i].command \in DOMAIN commands
    /\ calls[i].answer = "OK" => calls[i].done
    /\ calls[i].step \in {"LOOKUP", "PROVIDER"} => config.provider \in DOMAIN Cloud

\* The request of a worker is the last one its copy of the command has made.
Current(u) ==
  /\ u.call \in 1..Last
  /\ calls[u.call].node = u.node /\ calls[u.call].command = u.command
  /\ \A j \in (u.call + 1)..Last : calls[j].command # u.command

\* No trace of the worker's request is there before the worker writes it.
Untraced(u) ==
  /\ u.step \in {"WAITING", "COMPLETE", "TRACE"} =>
       \A t \in DOMAIN traces : traces[t].call # u.call
  /\ u.step \in {"REPORT", "FAIL", "TRACE_FAILURE"} =>
       \A t \in DOMAIN traces : traces[t].call = u.call => traces[t].status # "FAILED"

\* A worker that is about to ask has seen its copy's last output reset.
Reset(u) ==
  u.step = "STARTED" /\ nodes[u.node].status = "SUCCEEDED" =>
    calls[nodes[u.node].output].command # u.command

\* Where a worker is, and what it has there.
Fits(u) ==
  /\ u.step = "FIND" => u.node = 0
  /\ u.step = "NODE" => u.node > 0
  /\ u.step \in Calling \cup {"STARTED"} => u.node \in DOMAIN Chain
  /\ u.step \in Calling => Current(u)
  /\ u.step = "WAITING" => calls[u.call].step # "OVER"
  /\ u.step \in {"COMPLETE", "TRACE", "REPORT"} =>
       calls[u.call].step = "OVER" /\ calls[u.call].answer = "OK"
  /\ u.step \notin Failing => u.failure = "NONE"
  /\ Holds(u) => /\ u.command \in DOMAIN commands
                 /\ commands[u.command] = [place |-> "HELD", attempt |-> u.attempt]
  /\ Untraced(u) /\ Reset(u)

WorkerInv == \A w \in Workers : Fits(worker[w])

\* A node has succeeded with a call that is over, its copy's last of the node.
Owned(n, i) ==
  /\ i \in 1..Last /\ calls[i].node = n /\ calls[i].done /\ calls[i].step = "OVER"
  /\ \A j \in (i + 1)..Last : ~(calls[j].node = n /\ calls[j].command = calls[i].command)

OutputInv ==
  \A n \in DOMAIN Chain : nodes[n].status = "SUCCEEDED" => Owned(n, nodes[n].output)

\* A call that is traced as a success is over and will not change.
TraceInv ==
  /\ \A t \in DOMAIN traces :
       /\ traces[t].call \in 1..Last
       /\ traces[t].status = "SUCCEEDED" =>
            calls[traces[t].call].done /\ calls[traces[t].call].step = "OVER"
  /\ \A t, u \in DOMAIN traces : traces[t] = traces[u] => t = u

Inv == TypeInv /\ HoldInv /\ CallInv /\ WorkerInv /\ OutputInv /\ TraceInv

----------------------------------------------------------------------------
(* What is counted.                                                        *)

\* The requests with traces of both kinds, and those that may still get one.
Doubted == {i \in 1..Last :
              /\ Traced(i, "SUCCEEDED")
              /\ \/ Traced(i, "FAILED")
                 \/ \E w \in Workers : /\ worker[w].step \in {"FAIL", "TRACE_FAILURE"}
                                       /\ worker[w].call = i}

DoubtInv == Cardinality(Doubted) <= spent.failures

\* A delivery has asked node n, or will not.
Past(u, n) == n < u.node \/ (n = u.node /\ u.step \notin {"NODE", "STARTED"})

Asked(c, n) == \E w \in Workers : /\ Holds(worker[w]) /\ worker[w].command = c
                                  /\ Past(worker[w], n)

\* The attempts that may still ask node n: those each copy has left.
Tickets(n) == {p \in (DOMAIN commands) \X (0..MaxRetries) :
                 /\ commands[p[1]].place # "DONE" /\ commands[p[1]].attempt <= p[2]
                 /\ ~(commands[p[1]].attempt = p[2] /\ Asked(p[1], n))}

Limit == (MaxRetries + 1) * Len(commands) + (spent.crashes - (Len(commands) - 1))
           + spent.failures

TicketInv ==
  /\ 1 <= Len(commands) /\ Len(commands) - 1 <= spent.crashes
  /\ \A n \in DOMAIN Chain : Cardinality(Requests(n)) + Cardinality(Tickets(n)) <= Limit

FinalAnswers == {"UNKNOWN_PROVIDER", "NO_CREDENTIAL", "RATE_LIMITED"}
FinalCalls == {i \in 1..Last : Final(i)}

\* The copies that may still be told a final answer: not those that failed on one.
Hopeful == {c \in DOMAIN commands :
              /\ commands[c].place # "DONE"
              /\ ~\E w \in Workers : /\ Holds(worker[w]) /\ worker[w].command = c
                                     /\ worker[w].failure \in FinalAnswers}

FinalInv ==
  Cardinality(FinalCalls) + Cardinality(Hopeful) <= 1 + spent.crashes + spent.failures

\* Without faults there is one copy, and it is past hope once it was told.
EndInv ==
  spent.crashes + spent.failures = 0 =>
    \A i \in 1..Last : Final(i) => i = Last /\ Hopeful = {}

----------------------------------------------------------------------------
LEMMA ChainDomain ==
  /\ Len(Chain) \in Nat /\ DOMAIN Chain = 1..Len(Chain) /\ MaxRetries \in Nat
  /\ \A i \in DOMAIN Chain : Chain[i] \in {"HTTP", "AI"}
  BY CallsAssumption

LEMMA Replies ==
  ASSUME NEW p \in DOMAIN Cloud, NEW reply \in Cloud[p]
  PROVE  /\ reply.answer \in Answers /\ reply.done \in BOOLEAN
         /\ reply.answer = "OK" => reply.done
  <1>1. \A r \in OpenRouterRun \cup OpenAiRun \cup AnthropicRun :
          /\ r.answer \in Answers /\ r.done \in BOOLEAN
          /\ r.answer = "OK" => r.done
    BY DEF OpenRouterRun, OpenAiRun, AnthropicRun, Reply, Answers, Status
  <1>2. reply \in OpenRouterRun \cup OpenAiRun \cup AnthropicRun
    BY DEF Cloud
  <1> QED
    BY <1>1, <1>2

LEMMA FinalIsFinal ==
  \A a \in FinalAnswers : ~Retryable(a) /\ a \notin {"OK", "NONE", "TIMEOUT", "STATEMENT"}
  BY DEF FinalAnswers, Retryable, Status, IsRetryableStatus

\* What every step rests on.
LEMMA Known ==
  ASSUME Inv
  PROVE  /\ Last \in Nat /\ DOMAIN calls = 1..Last /\ calls \in Seq(CallType)
         /\ \A j \in 1..Last : calls[j] \in CallType
         /\ nodes \in [DOMAIN Chain -> NodeType] /\ worker \in [Workers -> WorkerType]
         /\ traces \in Seq(TraceType) /\ Len(traces) \in Nat /\ DOMAIN traces = 1..Len(traces)
         /\ commands \in Seq(CommandType) /\ Len(commands) \in Nat
         /\ DOMAIN commands = 1..Len(commands)
         /\ \A c \in DOMAIN commands : commands[c] \in CommandType
         /\ spent \in [{"crashes", "failures"} -> Nat]
         /\ spent.crashes \in Nat /\ spent.failures \in Nat
         /\ DOMAIN Chain \subseteq Nat \ {0} /\ MaxRetries \in Nat
  <1>1. DOMAIN Chain \subseteq Nat \ {0} /\ MaxRetries \in Nat
    BY ChainDomain
  <1> QED
    BY <1>1 DEF Inv, TypeInv, Last

\* A fault is paid for.
LEMMA Spent ==
  ASSUME Inv, NEW kind \in {"crashes", "failures"}, Spend(kind)
  PROVE  /\ spent' \in [{"crashes", "failures"} -> Nat]
         /\ spent'[kind] = spent[kind] + 1
         /\ \A other \in {"crashes", "failures"} \ {kind} : spent'[other] = spent[other]
  BY Known DEF Spend

LEMMA InitInv == Init => Inv
  <1> SUFFICES ASSUME Init PROVE Inv
    OBVIOUS
  <1>1. /\ calls = <<>> /\ Last = 0 /\ traces = <<>> /\ \A w \in Workers : worker[w] = Idle
        /\ commands = <<[place |-> "QUEUE", attempt |-> 0]>>
    BY DEF Init, Last
  <1>2. Idle \in WorkerType /\ Idle.step = "IDLE" /\ Idle.failure = "NONE"
    BY ChainDomain DEF Idle, WorkerType, Steps, Free, Answers
  <1>3. TypeInv
    <2>1. commands \in Seq(CommandType)
      BY <1>1, ChainDomain DEF CommandType
    <2>2. config \in [provider: Providers, credential: Credentials]
      BY CallsAssumption DEF Init
    <2>3. nodes \in [DOMAIN Chain -> NodeType] /\ worker \in [Workers -> WorkerType]
      BY <1>2 DEF Init, Running, NodeType
    <2>4. spent \in [{"crashes", "failures"} -> Nat]
      BY DEF Init, Bounds
    <2> QED
      BY <1>1, <2>1, <2>2, <2>3, <2>4 DEF TypeInv
  <1>4. HoldInv /\ CallInv /\ TraceInv
    BY <1>1, <1>2 DEF HoldInv, Holds, Free, CallInv, TraceInv
  <1>5. WorkerInv
    <2>1. Fits(Idle)
      BY <1>2 DEF Fits, Calling, Failing, Holds, Free, Untraced, Reset
    <2> QED
      BY <1>1, <2>1 DEF WorkerInv
  <1>6. OutputInv
    BY DEF Init, OutputInv, Running
  <1> QED
    BY <1>3, <1>4, <1>5, <1>6 DEF Inv

----------------------------------------------------------------------------
(* The steps of a worker.                                                  *)

\* A worker moves, and nothing it shares with others does.
LEMMA WorkerMoves ==
  ASSUME Inv, NEW w \in Workers, NEW u \in WorkerType, worker' = [worker EXCEPT ![w] = u],
         UNCHANGED <<config, commands, nodes, calls, traces>>, Fits(u),
         Holds(u) => Holds(worker[w]) /\ u.command = worker[w].command,
         spent' \in [{"crashes", "failures"} -> Nat]
  PROVE  Inv'
  <1>1. /\ worker' \in [Workers -> WorkerType] /\ worker'[w] = u
        /\ \A v \in Workers : v # w => worker'[v] = worker[v]
    BY Known
  <1>2. TypeInv' /\ CallInv' /\ OutputInv' /\ TraceInv'
    BY <1>1 DEF Inv, TypeInv, CallInv, OutputInv, Owned, TraceInv, Last
  <1>3. HoldInv'
    BY <1>1 DEF Inv, HoldInv, Holds
  <1>4. WorkerInv'
    <2>1. \A v \in Workers : Fits(worker'[v])
      BY <1>1 DEF Inv, WorkerInv
    <2> QED
      BY <2>1 DEF WorkerInv, Fits, Current, Untraced, Reset, Holds, Last
  <1> QED
    BY <1>2, <1>3, <1>4 DEF Inv

\* A worker takes or leaves a copy of the command, which no other one holds.
LEMMA CommandMoves ==
  ASSUME Inv, NEW w \in Workers, NEW u \in WorkerType, worker' = [worker EXCEPT ![w] = u],
         UNCHANGED <<config, nodes, calls, traces>>, Fits(u)',
         commands' \in Seq(CommandType), DOMAIN commands \subseteq DOMAIN commands',
         \A v \in Workers \ {w} : Holds(worker[v]) =>
           /\ commands'[worker[v].command] = commands[worker[v].command]
           /\ Holds(u) => worker[v].command # u.command,
         spent' \in [{"crashes", "failures"} -> Nat]
  PROVE  Inv'
  <1>1. /\ worker' \in [Workers -> WorkerType] /\ worker'[w] = u
        /\ \A v \in Workers : v # w => worker'[v] = worker[v]
    BY Known
  <1>2. TypeInv' /\ OutputInv' /\ TraceInv'
    BY <1>1 DEF Inv, TypeInv, OutputInv, Owned, TraceInv, Last
  <1>3. CallInv'
    BY DEF Inv, CallInv, Last
  <1>4. HoldInv'
    BY <1>1 DEF Inv, HoldInv, Holds
  <1>5. WorkerInv'
    <2>1. ASSUME NEW v \in Workers, v # w PROVE Fits(worker[v])'
      <3>1. worker'[v] = worker[v] /\ Fits(worker[v])
        BY <1>1, <2>1 DEF Inv, WorkerInv
      <3> QED
        BY <2>1, <3>1 DEF Fits, Current, Untraced, Reset, Holds, Last
    <2>2. Fits(worker[w])'
      BY <1>1 DEF Fits, Current, Untraced, Reset, Holds
    <2> QED
      BY <2>1, <2>2 DEF WorkerInv
  <1> QED
    BY <1>2, <1>3, <1>4, <1>5 DEF Inv

\* A worker writes the row of a node.
LEMMA RowMoves ==
  ASSUME Inv, NEW w \in Workers, NEW u \in WorkerType, worker' = [worker EXCEPT ![w] = u],
         UNCHANGED <<config, commands, calls, traces, spent>>, Fits(u)',
         NEW n \in DOMAIN Chain, NEW row \in NodeType, nodes' = [nodes EXCEPT ![n] = row],
         Holds(worker[w]), u.command = worker[w].command,
         row.status = "SUCCEEDED" =>
           /\ Owned(n, row.output) /\ calls[row.output].command = worker[w].command
  PROVE  Inv'
  <1>1. /\ worker' \in [Workers -> WorkerType] /\ worker'[w] = u
        /\ \A v \in Workers : v # w => worker'[v] = worker[v]
        /\ nodes' \in [DOMAIN Chain -> NodeType] /\ nodes'[n] = row
        /\ \A m \in DOMAIN Chain : m # n => nodes'[m] = nodes[m]
    BY Known
  <1>2. TypeInv' /\ CallInv' /\ TraceInv'
    BY <1>1 DEF Inv, TypeInv, CallInv, TraceInv, Last
  <1>3. OutputInv'
    BY <1>1 DEF Inv, OutputInv, Owned, Last
  <1>4. HoldInv'
    BY <1>1 DEF Inv, HoldInv, Holds
  <1>5. WorkerInv'
    <2>1. ASSUME NEW v \in Workers, v # w PROVE Fits(worker[v])'
      <3>1. worker'[v] = worker[v] /\ Fits(worker[v])
        BY <1>1, <2>1 DEF Inv, WorkerInv
      <3>2. Holds(worker[v]) => worker[v].command # worker[w].command
        BY <2>1 DEF Inv, HoldInv
      <3>3. worker[v].step = "STARTED" => Holds(worker[v]) /\ worker[v].node \in DOMAIN Chain
        BY <3>1 DEF Fits, Holds, Free
      <3>4. Reset(worker[v])'
        BY <1>1, <3>1, <3>2, <3>3 DEF Fits, Reset
      <3> QED
        BY <3>1, <3>4 DEF Fits, Current, Untraced, Holds, Last
    <2>2. Fits(worker[w])'
      BY <1>1 DEF Fits, Current, Untraced, Reset, Holds
    <2> QED
      BY <2>1, <2>2 DEF WorkerInv
  <1> QED
    BY <1>2, <1>3, <1>4, <1>5 DEF Inv

\* A call that is not over changes, and the worker that awaits it may see it.
LEMMA CallMoves ==
  ASSUME Inv, NEW i \in 1..Last, calls[i].step # "OVER",
         NEW v \in CallType, calls' = [calls EXCEPT ![i] = v],
         v.node = calls[i].node, v.command = calls[i].command, v.answer = "OK" => v.done,
         v.step \in {"LOOKUP", "PROVIDER"} => config.provider \in DOMAIN Cloud,
         UNCHANGED <<config, commands, nodes, traces, spent>>,
         worker' \in [Workers -> WorkerType],
         \A w \in Workers :
           \/ /\ worker'[w] = worker[w]
              /\ v.step = "OVER" => worker[w].step # "WAITING" \/ worker[w].call # i
           \/ /\ Holds(worker[w]) /\ worker'[w].command = worker[w].command
              /\ Fits(worker[w])'
  PROVE  Inv'
  <1>1. /\ calls' \in Seq(CallType) /\ Last' = Last /\ DOMAIN calls' = 1..Last
        /\ \A j \in 1..Last : j # i => calls'[j] = calls[j]
        /\ calls'[i] = v
        /\ \A j \in 1..Last : calls'[j].node = calls[j].node /\ calls'[j].command = calls[j].command
    BY Known DEF Last
  <1>2. TypeInv'
    BY <1>1 DEF Inv, TypeInv
  <1>3. CallInv'
    BY <1>1 DEF Inv, CallInv
  <1>4. TraceInv'
    BY <1>1 DEF Inv, TraceInv
  <1>5. OutputInv'
    <2>1. ASSUME NEW n \in DOMAIN Chain, NEW k, Owned(n, k) PROVE Owned(n, k)'
      <3>1. k # i /\ \A j \in (k + 1)..Last : j \in 1..Last
        BY <2>1, Known DEF Owned
      <3> QED
        BY <1>1, <2>1, <3>1 DEF Owned
    <2> QED
      BY <2>1 DEF Inv, OutputInv
  <1>6. HoldInv'
    BY DEF Inv, HoldInv, Holds
  <1>7. WorkerInv'
    <2> SUFFICES ASSUME NEW w \in Workers, worker'[w] = worker[w],
                        v.step = "OVER" => worker[w].step # "WAITING" \/ worker[w].call # i
                 PROVE  Fits(worker[w])'
      BY DEF WorkerInv
    <2>1. Fits(worker[w]) /\ worker[w] \in WorkerType
      BY Known DEF Inv, WorkerInv
    <2>2. Current(worker[w]) => Current(worker[w])'
      <3>1. Current(worker[w]) => \A j \in (worker[w].call + 1)..Last : j \in 1..Last
        BY <2>1, Known DEF Current
      <3> QED
        BY <1>1, <3>1 DEF Current
    <2>3. Reset(worker[w])'
      <3> SUFFICES ASSUME worker[w].step = "STARTED", nodes[worker[w].node].status = "SUCCEEDED"
                   PROVE  calls'[nodes[worker[w].node].output].command # worker[w].command
        BY DEF Reset
      <3>1. worker[w].node \in DOMAIN Chain /\ Reset(worker[w])
        BY <2>1 DEF Fits
      <3>2. nodes[worker[w].node].output \in 1..Last
        BY <3>1 DEF Inv, OutputInv, Owned
      <3> QED
        BY <1>1, <3>1, <3>2 DEF Reset
    <2>4. worker[w].step = "WAITING" => calls'[worker[w].call].step # "OVER"
      BY <1>1, <2>1 DEF Fits, Current, Calling
    <2>5. worker[w].step \in {"COMPLETE", "TRACE", "REPORT"} =>
            calls'[worker[w].call].step = "OVER" /\ calls'[worker[w].call].answer = "OK"
      BY <1>1, <2>1 DEF Fits, Current, Calling
    <2> QED
      BY <2>1, <2>2, <2>3, <2>4, <2>5 DEF Fits, Untraced, Holds
  <1> QED
    BY <1>2, <1>3, <1>4, <1>5, <1>6, <1>7 DEF Inv

\* A worker goes on with its delivery.
LEMMA DeliveryMoves ==
  ASSUME Inv, NEW w \in Workers,
         FindExecution(w) \/ Abort(w) \/ ReportCompleted(w) \/ ReportFailed(w) \/ Succeed(w)
           \/ FailExecution(w) \/ AcknowledgeRetried(w) \/ Restart(w)
  PROVE  Inv'
  <1> DEFINE old == worker[w]
  <1>0. /\ old \in WorkerType /\ Fits(old) /\ spent \in [{"crashes", "failures"} -> Nat]
        /\ DOMAIN worker = Workers /\ UNCHANGED <<config, commands, nodes, calls, traces, spent>>
    BY Known DEF Inv, WorkerInv, FindExecution, Abort, ReportCompleted, ReportFailed, Succeed,
                 FailExecution, AcknowledgeRetried, Restart
  \* A step that only moves it, to where it needs nothing it does not have.
  <1>1. ASSUME NEW step \in Steps, Goto(w, step), Holds(old),
               step \notin Calling \cup {"FIND", "STARTED", "NODE"} \cup Free,
               step \notin Failing => old.failure = "NONE"
        PROVE  Inv'
    <2> DEFINE u == [old EXCEPT !.step = step]
    <2>1. /\ u \in WorkerType /\ u.step = step /\ u.failure = old.failure
          /\ u.command = old.command /\ u.attempt = old.attempt /\ Holds(u)
      BY <1>0, <1>1 DEF WorkerType, Holds
    <2>2. worker' = [worker EXCEPT ![w] = u]
      BY <1>1 DEF Goto
    <2> HIDE DEF u
    <2>3. Fits(u)
      BY <1>0, <1>1, <2>1 DEF Fits, Untraced, Reset, Calling, Holds
    <2> QED
      BY <1>0, <1>1, <2>1, <2>2, <2>3, WorkerMoves
  <1>2. Holds(old) => /\ old.command \in DOMAIN commands
                      /\ commands[old.command] = [place |-> "HELD", attempt |-> old.attempt]
    BY <1>0 DEF Fits
  <1>3. CASE FindExecution(w)
    <2>1. CASE Goto(w, "ACK")
      BY <1>0, <1>1, <1>3, <2>1 DEF FindExecution, At, Steps, Calling, Free, Failing, Holds, Fits
    <2>2. CASE worker' = [worker EXCEPT ![w].step = "NODE", ![w].node = 1]
      <3> DEFINE u == [old EXCEPT !.step = "NODE", !.node = 1]
      <3>1. /\ u \in WorkerType /\ u.step = "NODE" /\ u.node = 1 /\ u.failure = "NONE"
            /\ u.command = old.command /\ u.attempt = old.attempt /\ Holds(old)
        BY <1>0, <1>3 DEF WorkerType, Steps, FindExecution, At, Fits, Failing, Free, Holds
      <3>2. worker' = [worker EXCEPT ![w] = u]
        BY <2>2
      <3> HIDE DEF u
      <3>3. Fits(u)
        BY <1>2, <3>1 DEF Fits, Untraced, Reset, Calling
      <3> QED
        BY <1>0, <3>1, <3>2, <3>3, WorkerMoves
    <2> QED
      BY <1>3, <2>1, <2>2 DEF FindExecution
  <1>4. CASE Abort(w)
    <2> DEFINE u == [old EXCEPT !.step = "FAIL", !.failure = "TIMEOUT"]
    <2>1. /\ u \in WorkerType /\ u.step = "FAIL" /\ u.call = old.call /\ u.node = old.node
          /\ u.command = old.command /\ u.attempt = old.attempt /\ Holds(old)
          /\ old.step = "WAITING"
      BY <1>0, <1>4 DEF WorkerType, Steps, Failing, Abort, TimesOut, At, Free, Holds
    <2>2. worker' = [worker EXCEPT ![w] = u]
      BY <1>4 DEF Abort, Throw
    <2> HIDE DEF u
    <2>3. Fits(u)
      BY <1>0, <1>2, <2>1 DEF Fits, Untraced, Reset, Calling, Failing, Current
    <2> QED
      BY <1>0, <2>1, <2>2, <2>3, WorkerMoves
  <1>5. CASE ReportCompleted(w)
    <2> DEFINE u == [old EXCEPT !.step = "NODE", !.node = @ + 1, !.call = 0]
    <2>0. old.node + 1 \in Nat /\ old.node + 1 > 0
      BY <1>0 DEF WorkerType
    <2>1. /\ u \in WorkerType /\ u.step = "NODE" /\ u.node > 0 /\ u.failure = "NONE"
          /\ u.command = old.command /\ u.attempt = old.attempt /\ Holds(old)
      BY <1>0, <1>5, <2>0 DEF WorkerType, Steps, ReportCompleted, At, Fits, Failing, Free, Holds
    <2>2. worker' = [worker EXCEPT ![w] = u]
      BY <1>5 DEF ReportCompleted
    <2> HIDE DEF u
    <2>3. Fits(u)
      BY <1>2, <2>1 DEF Fits, Untraced, Reset, Calling
    <2> QED
      BY <1>0, <2>1, <2>2, <2>3, WorkerMoves
  <1>6. CASE ReportFailed(w)
    BY <1>1, <1>6 DEF ReportFailed, At, Steps, Calling, Free, Failing, Holds
  <1>7. CASE Succeed(w)
    BY <1>0, <1>1, <1>7 DEF Succeed, At, Steps, Calling, Free, Failing, Holds, Fits
  <1>8. CASE FailExecution(w)
    BY <1>1, <1>8 DEF FailExecution, At, Steps, Calling, Free, Failing, Holds
  <1>9. CASE AcknowledgeRetried(w) \/ Restart(w)
    <2>1. worker' = [worker EXCEPT ![w] = Idle]
      BY <1>9 DEF AcknowledgeRetried, Restart
    <2>2. Idle \in WorkerType /\ Fits(Idle) /\ ~Holds(Idle)
      BY Known DEF Idle, WorkerType, Steps, Free, Answers, Fits, Calling, Failing, Holds,
                   Untraced, Reset
    <2> QED
      BY <1>0, <2>1, <2>2, WorkerMoves
  <1> QED
    BY <1>3, <1>4, <1>5, <1>6, <1>7, <1>8, <1>9

\* An exception takes a worker to a catch clause.
LEMMA ThrowMoves ==
  ASSUME Inv, NEW w \in Workers, StatementThrows(w)
  PROVE  Inv'
  <1> DEFINE old == worker[w]
             to == IF old.step \in {"COMPLETE", "REPORT"} THEN "FAIL" ELSE "HANDLE"
             u == [old EXCEPT !.step = to, !.failure = "STATEMENT"]
  <1>1. /\ old \in WorkerType /\ Fits(old) /\ UNCHANGED <<config, commands, nodes, calls, traces>>
        /\ spent' \in [{"crashes", "failures"} -> Nat]
    BY Known, Spent DEF Inv, WorkerInv, StatementThrows
  <1>2. /\ old.step \in {"COMPLETE", "REPORT", "FIND", "NODE", "STARTED", "FAIL",
                         "REPORT_FAILURE", "ACK"}
        /\ worker' = [worker EXCEPT ![w] = u]
    BY DEF StatementThrows, Throw
  <1>3. /\ u \in WorkerType /\ u.step = to /\ u.call = old.call /\ u.node = old.node
        /\ u.command = old.command /\ u.attempt = old.attempt /\ Holds(old)
    BY <1>1, <1>2 DEF WorkerType, Steps, Failing, Free, Holds
  <1> HIDE DEF u
  <1>4. Fits(u)
    BY <1>1, <1>2, <1>3 DEF Fits, Untraced, Reset, Calling, Failing, Current, Holds
  <1> QED
    BY <1>1, <1>2, <1>3, <1>4, WorkerMoves

\* What another worker holds does not change with the copy w holds.
LEMMA OthersKeep ==
  ASSUME Inv, NEW w \in Workers, Holds(worker[w]), NEW k \in CommandType,
         commands' = [commands EXCEPT ![worker[w].command] = k]
  PROVE  /\ commands' \in Seq(CommandType) /\ DOMAIN commands' = DOMAIN commands
         /\ \A v \in Workers \ {w} : Holds(worker[v]) =>
              /\ commands'[worker[v].command] = commands[worker[v].command]
              /\ worker[v].command # worker[w].command
  <1>1. \A v \in Workers : Holds(worker[v]) => worker[v].command \in DOMAIN commands
    BY DEF Inv, WorkerInv, Fits
  <1>2. \A v \in Workers \ {w} : Holds(worker[v]) => worker[v].command # worker[w].command
    BY DEF Inv, HoldInv
  <1>3. /\ commands' \in Seq(CommandType) /\ DOMAIN commands' = DOMAIN commands
        /\ \A c \in DOMAIN commands : c # worker[w].command => commands'[c] = commands[c]
    BY <1>1, Known
  <1> QED
    BY <1>1, <1>2, <1>3

\* A command is delivered, sent again, acknowledged or put back.
LEMMA QueueMoves ==
  ASSUME Inv, NEW w \in Workers,
         (\E c \in DOMAIN commands : Deliver(w, c)) \/ Retry(w) \/ Acknowledge(w) \/ Nack(w) \/ Crash(w)
  PROVE  Inv'
  <1> DEFINE old == worker[w]
  <1>0. /\ old \in WorkerType /\ Fits(old) /\ spent \in [{"crashes", "failures"} -> Nat]
        /\ UNCHANGED <<config, nodes, calls, traces>>
        /\ spent' \in [{"crashes", "failures"} -> Nat]
    BY Known, Spent DEF Inv, WorkerInv, Deliver, Retry, Acknowledge, Nack, Crash, Release
  <1>1. Holds(old) => /\ old.command \in DOMAIN commands
                      /\ commands[old.command] = [place |-> "HELD", attempt |-> old.attempt]
                      /\ old.attempt \in 0..MaxRetries
    BY <1>0 DEF Fits, WorkerType
  \* The worker is through with what it held.
  <1>2. ASSUME NEW step \in {"IDLE", "DOWN"}, worker' = [worker EXCEPT ![w] = [Idle EXCEPT !.step = step]],
               commands' \in Seq(CommandType), DOMAIN commands \subseteq DOMAIN commands',
               \A v \in Workers \ {w} : Holds(worker[v]) =>
                 commands'[worker[v].command] = commands[worker[v].command]
        PROVE  Inv'
    <2> DEFINE u == [Idle EXCEPT !.step = step]
    <2>1. /\ u \in WorkerType /\ ~Holds(u) /\ u.step = step /\ u.failure = "NONE"
      BY <1>2, Known DEF Idle, WorkerType, Steps, Free, Answers, Holds
    <2> HIDE DEF u
    <2>2. Fits(u)'
      BY <2>1 DEF Fits, Calling, Failing, Untraced, Reset, Holds, Free
    <2> QED
      BY <1>0, <1>2, <2>1, <2>2, CommandMoves DEF u
  <1>3. ASSUME NEW place \in {"QUEUE", "DONE"}, Holds(old),
               commands' = [commands EXCEPT ![old.command].place = place]
        PROVE  /\ commands' \in Seq(CommandType) /\ DOMAIN commands' = DOMAIN commands
               /\ \A v \in Workers \ {w} : Holds(worker[v]) =>
                    commands'[worker[v].command] = commands[worker[v].command]
    <2> DEFINE k == [commands[old.command] EXCEPT !.place = place]
    <2>1. k \in CommandType /\ commands' = [commands EXCEPT ![old.command] = k]
      BY <1>1, <1>3, Known DEF CommandType
    <2> HIDE DEF k
    <2> QED
      BY <1>3, <2>1, OthersKeep
  <1>4. Idle = [Idle EXCEPT !.step = "IDLE"]
    BY DEF Idle
  <1>5. ASSUME NEW c \in DOMAIN commands, Deliver(w, c) PROVE Inv'
    <2> DEFINE k == [commands[c] EXCEPT !.place = "HELD"]
    <2>0. c \in Nat /\ commands[c] \in CommandType
      BY Known
    <2>1. PICK u \in WorkerType :
            /\ worker' = [worker EXCEPT ![w] = u] /\ u.step = "FIND" /\ u.command = c
            /\ u.attempt = commands[c].attempt /\ u.failure = "NONE" /\ u.node = 0
      <3> DEFINE x == [Idle EXCEPT !.step = "FIND", !.command = c, !.attempt = commands[c].attempt]
      <3>1. /\ x \in WorkerType /\ x.step = "FIND" /\ x.command = c
            /\ x.attempt = commands[c].attempt /\ x.failure = "NONE" /\ x.node = 0
        BY <2>0 DEF CommandType, WorkerType, Idle, Steps, Answers
      <3>2. worker' = [worker EXCEPT ![w] = x]
        BY <1>5 DEF Deliver
      <3> QED
        BY <3>1, <3>2
    <2>2. commands[c].place = "QUEUE" /\ commands' = [commands EXCEPT ![c] = k]
      BY <1>5 DEF Deliver
    <2>3. k \in CommandType /\ k = [place |-> "HELD", attempt |-> commands[c].attempt]
      BY Known DEF CommandType
    <2> HIDE DEF k
    <2>4. /\ commands' \in Seq(CommandType) /\ DOMAIN commands' = DOMAIN commands
          /\ commands'[c] = k /\ \A d \in DOMAIN commands : d # c => commands'[d] = commands[d]
      BY <2>2, <2>3, Known
    <2>5. Fits(u)'
      BY <2>1, <2>3, <2>4 DEF Fits, Calling, Failing, Untraced, Reset, Holds, Free
    <2>6. ASSUME NEW v \in Workers, Holds(worker[v])
          PROVE  worker[v].command \in DOMAIN commands /\ worker[v].command # c
      <3>1. /\ worker[v].command \in DOMAIN commands
            /\ commands[worker[v].command] = [place |-> "HELD", attempt |-> worker[v].attempt]
        BY <2>6 DEF Inv, WorkerInv, Fits
      <3>2. commands[worker[v].command].place = "HELD"
        BY <3>1
      <3> QED
        BY <2>2, <3>1, <3>2
    <2>7. \A v \in Workers \ {w} : Holds(worker[v]) =>
            /\ commands'[worker[v].command] = commands[worker[v].command]
            /\ Holds(u) => worker[v].command # u.command
      BY <2>1, <2>4, <2>6
    <2>8. worker' = [worker EXCEPT ![w] = u] /\ DOMAIN commands \subseteq DOMAIN commands'
      BY <2>1, <2>4
    <2> QED
      BY <1>0, <2>4, <2>5, <2>7, <2>8, CommandMoves
  <1>6. CASE Retry(w)
    <2> DEFINE k == [place |-> "QUEUE", attempt |-> old.attempt + 1]
    <2>1. Holds(old) /\ old.attempt + 1 \in 0..MaxRetries
      BY <1>0, <1>6, Known DEF Retry, At, MayRetry, Holds, Free, WorkerType
    <2>2. k \in CommandType /\ commands' = [commands EXCEPT ![old.command] = k]
      BY <1>6, <2>1 DEF Retry, NextAttempt, CommandType
    <2>3. PICK u \in WorkerType :
            /\ worker' = [worker EXCEPT ![w] = u] /\ u.step = "RETRIED" /\ ~Holds(u)
      <3> DEFINE x == [old EXCEPT !.step = "RETRIED"]
      <3>1. x \in WorkerType /\ x.step = "RETRIED" /\ ~Holds(x)
        BY <1>0 DEF WorkerType, Steps, Free, Holds
      <3>2. worker' = [worker EXCEPT ![w] = x]
        BY <1>6 DEF Retry, Goto
      <3> QED
        BY <3>1, <3>2
    <2> HIDE DEF k
    <2>4. Fits(u)'
      BY <2>3 DEF Fits, Calling, Failing, Untraced, Reset, Holds, Free
    <2>5. /\ commands' \in Seq(CommandType) /\ DOMAIN commands' = DOMAIN commands
          /\ \A v \in Workers \ {w} : Holds(worker[v]) =>
               commands'[worker[v].command] = commands[worker[v].command]
      BY <2>1, <2>2, OthersKeep
    <2> QED
      BY <1>0, <2>2, <2>3, <2>4, <2>5, CommandMoves
  <1>7. CASE Acknowledge(w)
    <2>1. Holds(old) /\ Release(w, "DONE")
      BY <1>7 DEF Acknowledge, Holds, Free
    <2> QED
      BY <1>2, <1>3, <1>4, <2>1 DEF Release
  <1>8. CASE Nack(w)
    <2>1. Holds(old) /\ Release(w, "QUEUE")
      BY <1>8 DEF Nack, At, Holds, Free
    <2> QED
      BY <1>2, <1>3, <1>4, <2>1 DEF Release
  <1>9. CASE Crash(w)
    <2>1. worker' = [worker EXCEPT ![w] = [Idle EXCEPT !.step = "DOWN"]]
      BY <1>9 DEF Crash
    <2>2. CASE At(w, "RETRIED")
      <3> DEFINE k == [place |-> "QUEUE", attempt |-> old.attempt]
      <3>1. k \in CommandType /\ commands' = Append(commands, k)
        BY <1>0, <1>9, <2>2 DEF Crash, CommandType, WorkerType
      <3> HIDE DEF k
      <3>2. /\ commands' \in Seq(CommandType) /\ DOMAIN commands \subseteq DOMAIN commands'
            /\ \A c \in DOMAIN commands : commands'[c] = commands[c]
        BY <3>1, Known
      <3>3. \A v \in Workers : Holds(worker[v]) => worker[v].command \in DOMAIN commands
        BY DEF Inv, WorkerInv, Fits
      <3> QED
        BY <1>2, <2>1, <3>2, <3>3
    <2>3. CASE ~At(w, "RETRIED")
      <3>1. Holds(old) /\ commands' = [commands EXCEPT ![old.command].place = "QUEUE"]
        BY <1>9, <2>3 DEF Crash, At, Holds, Free
      <3> QED
        BY <1>2, <1>3, <2>1, <3>1
    <2> QED
      BY <2>2, <2>3
  <1> QED
    BY <1>5, <1>6, <1>7, <1>8, <1>9

\* The row of a node is reset, completed or failed.
LEMMA NodeMoves ==
  ASSUME Inv, NEW w \in Workers, StartNode(w) \/ CompleteNode(w) \/ FailNode(w)
  PROVE  Inv'
  <1> DEFINE old == worker[w]
             n == old.node
  <1>0. /\ old \in WorkerType /\ Fits(old) /\ Holds(old) /\ n \in DOMAIN Chain
        /\ nodes[n] \in NodeType
        /\ UNCHANGED <<config, commands, calls, traces, spent>>
    <2>1. old \in WorkerType /\ Fits(old) /\ UNCHANGED <<config, commands, calls, traces, spent>>
      BY Known DEF Inv, WorkerInv, StartNode, CompleteNode, FailNode
    <2>2. Holds(old) /\ n \in DOMAIN Chain
      BY <2>1, ChainDomain DEF StartNode, CompleteNode, FailNode, At, Holds, Free, Fits, Calling,
                               WorkerType
    <2> QED
      BY <2>1, <2>2, Known
  <1>1. ASSUME NEW step \in {"STARTED", "TRACE", "TRACE_FAILURE"}, Goto(w, step)
        PROVE  \E u \in WorkerType :
                 /\ worker' = [worker EXCEPT ![w] = u] /\ u.step = step
                 /\ u.node = n /\ u.call = old.call /\ u.failure = old.failure
                 /\ u.command = old.command /\ u.attempt = old.attempt
    <2> DEFINE u == [old EXCEPT !.step = step]
    <2>1. /\ u \in WorkerType /\ worker' = [worker EXCEPT ![w] = u] /\ u.step = step
          /\ u.node = n /\ u.call = old.call /\ u.failure = old.failure
          /\ u.command = old.command /\ u.attempt = old.attempt
      BY <1>0, <1>1 DEF Goto, WorkerType, Steps, Calling
    <2> QED
      BY <2>1
  \* The worker still fits, whatever the row.
  <1>2. ASSUME NEW u \in WorkerType, u.node = n, u.call = old.call, u.failure = old.failure,
               u.command = old.command, u.attempt = old.attempt,
               u.step = "STARTED" => nodes'[n].status # "SUCCEEDED" /\ old.step = "NODE",
               u.step = "TRACE" => old.step = "COMPLETE",
               u.step = "TRACE_FAILURE" => old.step = "FAIL",
               u.step \in {"STARTED", "TRACE", "TRACE_FAILURE"}
        PROVE  Fits(u)'
    BY <1>0, <1>2 DEF Fits, Calling, Failing, Untraced, Reset, Holds, Free, Current, Last
  <1>3. CASE StartNode(w)
    <2>1. PICK u \in WorkerType :
            /\ worker' = [worker EXCEPT ![w] = u] /\ u.step = "STARTED"
            /\ u.node = n /\ u.call = old.call /\ u.failure = old.failure
            /\ u.command = old.command /\ u.attempt = old.attempt
      BY <1>1, <1>3 DEF StartNode
    <2>2. /\ Running \in NodeType /\ Running.status = "RUNNING" /\ old.step = "NODE"
          /\ nodes' = [nodes EXCEPT ![n] = Running]
      BY <1>3, Known DEF StartNode, ResetRow, Running, NodeType, At
    <2>3. nodes'[n].status # "SUCCEEDED"
      BY <1>0, <2>2, Known
    <2>4. Fits(u)'
      BY <1>2, <2>1, <2>2, <2>3
    <2> QED
      BY <1>0, <2>1, <2>2, <2>4, RowMoves
  <1>4. CASE CompleteNode(w)
    <2> DEFINE row == [status |-> "SUCCEEDED", output |-> old.call]
    <2>1. PICK u \in WorkerType :
            /\ worker' = [worker EXCEPT ![w] = u] /\ u.step = "TRACE"
            /\ u.node = n /\ u.call = old.call /\ u.failure = old.failure
            /\ u.command = old.command /\ u.attempt = old.attempt
      BY <1>1, <1>4 DEF CompleteNode
    <2>2. old.step = "COMPLETE" /\ nodes' = [nodes EXCEPT ![n] = row]
      BY <1>4 DEF CompleteNode, At
    <2>3. row \in NodeType /\ row.output = old.call
      BY <1>0 DEF NodeType, WorkerType
    <2> HIDE DEF row
    <2>4. Current(old) /\ calls[old.call].step = "OVER" /\ calls[old.call].answer = "OK"
      BY <1>0, <2>2 DEF Fits, Calling
    <2>5. Owned(n, old.call) /\ calls[old.call].command = old.command
      BY <2>4 DEF Current, Owned, Inv, CallInv
    <2>6. Fits(u)'
      BY <1>2, <2>1, <2>2
    <2> QED
      BY <1>0, <2>1, <2>2, <2>3, <2>5, <2>6, RowMoves
  <1>5. CASE FailNode(w)
    <2> DEFINE row == [nodes[n] EXCEPT !.status = "FAILED"]
    <2>1. PICK u \in WorkerType :
            /\ worker' = [worker EXCEPT ![w] = u] /\ u.step = "TRACE_FAILURE"
            /\ u.node = n /\ u.call = old.call /\ u.failure = old.failure
            /\ u.command = old.command /\ u.attempt = old.attempt
      BY <1>1, <1>5 DEF FailNode
    <2>2. old.step = "FAIL" /\ nodes' = [nodes EXCEPT ![n] = row]
      BY <1>5 DEF FailNode, At
    <2>3. row \in NodeType /\ row.status = "FAILED"
      BY <1>0 DEF NodeType
    <2> HIDE DEF row
    <2>4. Fits(u)'
      BY <1>2, <2>1, <2>2
    <2> QED
      BY <1>0, <2>1, <2>2, <2>3, <2>4, RowMoves
  <1> QED
    BY <1>3, <1>4, <1>5

\* The answer reaches the worker that awaits it.
LEMMA ReceiveMoves ==
  ASSUME Inv, NEW w \in Workers, Receive(w)
  PROVE  Inv'
  <1> DEFINE old == worker[w]
             i == old.call
             v == [calls[i] EXCEPT !.step = "OVER"]
  <1>0. /\ old \in WorkerType /\ Fits(old) /\ old.step = "WAITING" /\ Holds(old) /\ Current(old)
        /\ i \in 1..Last /\ calls[i] \in CallType /\ calls[i].step = "ANSWERED"
        /\ old.failure = "NONE" /\ old.node \in DOMAIN Chain
    BY Known DEF Inv, WorkerInv, Receive, At, Fits, Calling, Failing, Current, Holds, Free
  <1>1. /\ calls' = [calls EXCEPT ![i] = v] /\ UNCHANGED <<config, commands, nodes, traces, spent>>
        /\ IF calls[i].answer = "OK" THEN Goto(w, "COMPLETE") ELSE Throw(w, "FAIL", calls[i].answer)
    BY DEF Receive
  <1>2. /\ v \in CallType /\ v.step = "OVER" /\ v.node = calls[i].node
        /\ v.command = calls[i].command /\ v.answer = calls[i].answer
        /\ v.answer = "OK" => v.done
    BY <1>0 DEF CallType, Inv, CallInv
  <1>3. PICK u \in WorkerType :
          /\ worker' = [worker EXCEPT ![w] = u] /\ u.node = old.node /\ u.call = i
          /\ u.command = old.command /\ u.attempt = old.attempt
          /\ \/ u.step = "COMPLETE" /\ calls[i].answer = "OK" /\ u.failure = "NONE"
             \/ u.step = "FAIL" /\ u.failure = calls[i].answer
    <2>1. CASE calls[i].answer = "OK"
      <3> DEFINE x == [old EXCEPT !.step = "COMPLETE"]
      <3>1. /\ x \in WorkerType /\ x.node = old.node /\ x.call = i /\ x.failure = "NONE"
            /\ x.command = old.command /\ x.attempt = old.attempt /\ x.step = "COMPLETE"
        BY <1>0 DEF WorkerType, Steps, Calling
      <3>2. worker' = [worker EXCEPT ![w] = x]
        BY <1>1, <2>1 DEF Goto
      <3> QED
        BY <2>1, <3>1, <3>2
    <2>2. CASE calls[i].answer # "OK"
      <3> DEFINE x == [old EXCEPT !.step = "FAIL", !.failure = calls[i].answer]
      <3>1. /\ x \in WorkerType /\ x.node = old.node /\ x.call = i /\ x.failure = calls[i].answer
            /\ x.command = old.command /\ x.attempt = old.attempt /\ x.step = "FAIL"
        BY <1>0 DEF WorkerType, CallType, Steps, Failing
      <3>2. worker' = [worker EXCEPT ![w] = x]
        BY <1>1, <2>2 DEF Throw
      <3> QED
        BY <3>1, <3>2
    <2> QED
      BY <2>1, <2>2
  <1> HIDE DEF v
  <1>4. /\ Last' = Last /\ calls'[i] = v /\ DOMAIN calls' = 1..Last
        /\ \A j \in 1..Last : calls'[j].node = calls[j].node /\ calls'[j].command = calls[j].command
    BY <1>0, <1>1, <1>2, Known DEF Last
  <1>5. Fits(u)'
    <2>1. Current(u)'
      BY <1>0, <1>3, <1>4, Known DEF Current
    <2> QED
      BY <1>0, <1>1, <1>2, <1>3, <1>4, <2>1 DEF Fits, Calling, Failing, Untraced, Reset, Holds, Free
  <1>6. /\ worker' \in [Workers -> WorkerType] /\ worker'[w] = u
        /\ \A x \in Workers : x # w => worker'[x] = worker[x]
    BY <1>3, Known
  <1>7. Fits(worker[w])'
    BY <1>5, <1>6 DEF Fits, Current, Untraced, Reset, Holds
  <1>8. \A x \in Workers : x # w => worker[x].step # "WAITING" \/ worker[x].call # i
    <2> SUFFICES ASSUME NEW x \in Workers, x # w, worker[x].step = "WAITING", worker[x].call = i
                 PROVE  FALSE
      OBVIOUS
    <2>1. Holds(worker[x]) /\ Current(worker[x])
      BY DEF Inv, WorkerInv, Fits, Calling, Holds, Free
    <2>2. worker[x].command = old.command
      BY <1>0, <2>1 DEF Current
    <2> QED
      BY <1>0, <2>1, <2>2 DEF Inv, HoldInv
  <1>9. \A x \in Workers :
          \/ /\ worker'[x] = worker[x]
             /\ v.step = "OVER" => worker[x].step # "WAITING" \/ worker[x].call # i
          \/ /\ Holds(worker[x]) /\ worker'[x].command = worker[x].command
             /\ Fits(worker[x])'
    BY <1>0, <1>3, <1>6, <1>7, <1>8
  <1> QED
    BY <1>0, <1>1, <1>2, <1>6, <1>9, CallMoves

\* The request of a node.
LEMMA SendMoves ==
  ASSUME Inv, NEW w \in Workers, Send(w)
  PROVE  Inv'
  <1> DEFINE old == worker[w]
             v == [node |-> old.node, command |-> old.command, step |-> "RECEIVED",
                   answer |-> "NONE", done |-> FALSE]
  <1>0. /\ old \in WorkerType /\ Fits(old) /\ old.step = "STARTED" /\ Holds(old) /\ Reset(old)
        /\ old.node \in DOMAIN Chain /\ old.failure = "NONE" /\ old.command \in DOMAIN commands
        /\ commands[old.command] = [place |-> "HELD", attempt |-> old.attempt]
    BY Known DEF Inv, WorkerInv, Send, At, Fits, Failing, Holds, Free
  <1>1. calls' = Append(calls, v) /\ UNCHANGED <<config, commands, nodes, traces, spent>>
    BY DEF Send
  <1>2. /\ v \in CallType /\ v.node = old.node /\ v.command = old.command
        /\ v.step = "RECEIVED" /\ v.answer = "NONE"
    BY <1>0 DEF CallType, WorkerType, Answers
  <1>3. PICK u \in WorkerType :
          /\ worker' = [worker EXCEPT ![w] = u] /\ u.step = "WAITING" /\ u.call = Last + 1
          /\ u.node = old.node /\ u.command = old.command /\ u.attempt = old.attempt
          /\ u.failure = "NONE"
    <2> DEFINE x == [old EXCEPT !.step = "WAITING", !.call = Last + 1]
    <2>0. Last + 1 \in Nat
      BY Known
    <2>1. /\ x \in WorkerType /\ x.step = "WAITING" /\ x.call = Last + 1 /\ x.node = old.node
          /\ x.command = old.command /\ x.attempt = old.attempt /\ x.failure = "NONE"
      BY <1>0, <2>0 DEF WorkerType, Steps, Calling
    <2>2. worker' = [worker EXCEPT ![w] = x]
      BY DEF Send
    <2> QED
      BY <2>1, <2>2
  <1> HIDE DEF v
  <1>4. /\ calls' \in Seq(CallType) /\ Last' = Last + 1 /\ calls'[Last + 1] = v
        /\ DOMAIN calls' = 1..(Last + 1) /\ Last \in Nat
        /\ \A j \in 1..Last : calls'[j] = calls[j]
    BY <1>1, <1>2, Known DEF Last
  <1>5. /\ worker' \in [Workers -> WorkerType] /\ worker'[w] = u
        /\ \A x \in Workers : x # w => worker'[x] = worker[x]
    BY <1>3, Known
  <1>6. ASSUME NEW j \in 1..(Last + 1)
        PROVE  (j \in 1..Last /\ calls'[j] = calls[j]) \/ (j = Last + 1 /\ calls'[j] = v)
    BY <1>4
  <1>7. TypeInv'
    BY <1>1, <1>4, <1>5 DEF Inv, TypeInv
  <1>8. CallInv'
    BY <1>0, <1>1, <1>2, <1>4, <1>6 DEF Inv, CallInv
  <1>9. TraceInv'
    <2>1. \A t \in DOMAIN traces : traces[t].call \in 1..Last
      BY DEF Inv, TraceInv
    <2> QED
      BY <1>1, <1>4, <2>1 DEF Inv, TraceInv
  <1>10. HoldInv'
    <2>1. Holds(u)
      BY <1>3 DEF Holds, Free
    <2> QED
      BY <1>0, <1>3, <1>5 DEF Inv, HoldInv, Holds
  \* No other row's output is of this copy and this node.
  <1>11. OutputInv'
    <2> SUFFICES ASSUME NEW n \in DOMAIN Chain, nodes[n].status = "SUCCEEDED"
                 PROVE  Owned(n, nodes[n].output)'
      BY <1>1 DEF OutputInv, Owned
    <2>1. Owned(n, nodes[n].output) /\ nodes[n].output \in 1..Last
      BY DEF Inv, OutputInv, Owned
    <2>2. ~(v.node = n /\ v.command = calls[nodes[n].output].command)
      BY <1>0, <1>2 DEF Reset
    <2>3. ASSUME NEW j \in (nodes[n].output + 1)..(Last + 1)
          PROVE  ~(calls'[j].node = n /\ calls'[j].command = calls[nodes[n].output].command)
      <3>1. j \in 1..(Last + 1) /\ (j # Last + 1 => j \in (nodes[n].output + 1)..Last)
        BY <1>4, <2>1
      <3> QED
        BY <1>6, <2>1, <2>2, <3>1 DEF Owned
    <2>4. /\ nodes[n].output \in 1..(Last + 1)
          /\ calls'[nodes[n].output] = calls[nodes[n].output]
      BY <1>4, <2>1
    <2> QED
      BY <1>1, <1>4, <2>1, <2>3, <2>4 DEF Owned
  <1>12. WorkerInv'
    <2>1. Fits(worker[w])'
      <3>1. Current(worker[w])'
        BY <1>2, <1>3, <1>4, <1>5 DEF Current
      <3>2. Untraced(worker[w])'
        <4>1. \A t \in DOMAIN traces : traces[t].call \in 1..Last
          BY DEF Inv, TraceInv
        <4>2. \A t \in DOMAIN traces : traces[t].call # Last + 1
          BY <1>4, <4>1
        <4> QED
          BY <1>1, <1>3, <1>5, <4>2 DEF Untraced
      <3> QED
        BY <1>0, <1>1, <1>2, <1>3, <1>4, <1>5, <3>1, <3>2
           DEF Fits, Calling, Failing, Reset, Holds, Free
    <2>2. ASSUME NEW x \in Workers, x # w PROVE Fits(worker[x])'
      <3>1. worker'[x] = worker[x] /\ Fits(worker[x]) /\ worker[x] \in WorkerType
        BY <1>5, <2>2, Known DEF Inv, WorkerInv
      <3>2. worker[x].step \in Calling => Current(worker[x])'
        <4> SUFFICES ASSUME worker[x].step \in Calling PROVE Current(worker[x])'
          OBVIOUS
        <4>1. Holds(worker[x]) /\ Current(worker[x])
          BY <3>1 DEF Fits, Calling, Holds, Free
        <4>2. worker[x].command # old.command
          BY <1>0, <2>2, <4>1 DEF Inv, HoldInv
        <4>3. ASSUME NEW j \in (worker[x].call + 1)..(Last + 1)
              PROVE  calls'[j].command # worker[x].command
          <5>1. j \in 1..(Last + 1) /\ (j # Last + 1 => j \in (worker[x].call + 1)..Last)
            BY <1>4, <4>1 DEF Current
          <5> QED
            BY <1>2, <1>6, <4>1, <4>2, <5>1 DEF Current
        <4>4. /\ worker[x].call \in 1..(Last + 1)
              /\ calls'[worker[x].call] = calls[worker[x].call]
          BY <1>4, <4>1 DEF Current
        <4> QED
          BY <1>4, <3>1, <4>1, <4>3, <4>4 DEF Current
      <3>3. worker[x].step \in Calling => worker[x].call \in 1..Last
        BY <3>1 DEF Fits, Current
      <3>4. worker[x].step \in Calling => calls'[worker[x].call] = calls[worker[x].call]
        BY <1>4, <3>3
      <3>5. Reset(worker[x])'
        <4> SUFFICES ASSUME worker[x].step = "STARTED", nodes[worker[x].node].status = "SUCCEEDED"
                     PROVE  calls'[nodes[worker[x].node].output].command # worker[x].command
          BY <1>1, <3>1 DEF Reset
        <4>1. worker[x].node \in DOMAIN Chain /\ Reset(worker[x])
          BY <3>1 DEF Fits
        <4>2. nodes[worker[x].node].output \in 1..Last
          BY <4>1 DEF Inv, OutputInv, Owned
        <4> QED
          BY <1>4, <4>1, <4>2 DEF Reset
      <3> QED
        BY <1>1, <3>1, <3>2, <3>4, <3>5 DEF Fits, Untraced, Holds, Calling
    <2> QED
      BY <2>1, <2>2 DEF WorkerInv
  <1> QED
    BY <1>7, <1>8, <1>9, <1>10, <1>11, <1>12 DEF Inv


\* The trace of the worker's request is written, or lost.
LEMMA TraceMoves ==
  ASSUME Inv, NEW w \in Workers, TraceSuccess(w) \/ TraceFailure(w)
  PROVE  Inv'
  <1> DEFINE old == worker[w]
             i == old.call
             to == IF old.step = "TRACE" THEN "REPORT" ELSE "REPORT_FAILURE"
             status == IF old.step = "TRACE" THEN "SUCCEEDED" ELSE "FAILED"
             row == [call |-> i, status |-> status]
  <1>0. /\ old \in WorkerType /\ Fits(old) /\ old.step \in {"TRACE", "TRACE_FAILURE"}
        /\ Holds(old) /\ Current(old) /\ Untraced(old) /\ i \in 1..Last
        /\ UNCHANGED <<config, commands, nodes, calls, spent>>
    BY Known DEF Inv, WorkerInv, TraceSuccess, TraceFailure, At, Fits, Calling, Current, Holds, Free
  <1>1. PICK u \in WorkerType :
          /\ worker' = [worker EXCEPT ![w] = u] /\ u.step = to /\ u.call = i
          /\ u.node = old.node /\ u.command = old.command /\ u.attempt = old.attempt
          /\ u.failure = old.failure
    <2> DEFINE x == [old EXCEPT !.step = to]
    <2>1. /\ x \in WorkerType /\ x.step = to /\ x.call = i /\ x.node = old.node
          /\ x.command = old.command /\ x.attempt = old.attempt /\ x.failure = old.failure
      BY <1>0 DEF WorkerType, Steps, Calling
    <2>2. worker' = [worker EXCEPT ![w] = x]
      BY <1>0 DEF TraceSuccess, TraceFailure, Goto, At
    <2> QED
      BY <2>1, <2>2
  <1>2. traces' = traces \/ traces' = Append(traces, row)
    BY <1>0 DEF TraceSuccess, TraceFailure, StoreTrace, TraceOf, At
  <1>3. /\ row \in TraceType /\ row.call = i /\ row.status = status
        /\ status = "SUCCEEDED" => calls[i].done /\ calls[i].step = "OVER"
    BY <1>0 DEF TraceType, WorkerType, Fits, Inv, CallInv
  <1>4. \A t \in DOMAIN traces :
          /\ old.step = "TRACE" => traces[t].call # i
          /\ old.step = "TRACE_FAILURE" /\ traces[t].call = i => traces[t].status # "FAILED"
    BY <1>0 DEF Untraced
  <1>5. \A t \in DOMAIN traces : traces[t] # row
    BY <1>0, <1>3, <1>4
  <1> HIDE DEF row
  <1>6. /\ traces' \in Seq(TraceType)
        /\ \A t \in DOMAIN traces' :
             \/ t \in DOMAIN traces /\ traces'[t] = traces[t]
             \/ t = Len(traces) + 1 /\ traces'[t] = row
    <2>1. CASE traces' = traces
      BY <2>1, Known
    <2>2. CASE traces' = Append(traces, row)
      BY <1>3, <2>2, Known
    <2> QED
      BY <1>2, <2>1, <2>2
  <1>7. /\ worker' \in [Workers -> WorkerType] /\ worker'[w] = u
        /\ \A x \in Workers : x # w => worker'[x] = worker[x]
    BY <1>1, Known
  <1>8. TypeInv' /\ CallInv' /\ OutputInv' /\ Last' = Last
    BY <1>0, <1>6, <1>7 DEF Inv, TypeInv, CallInv, OutputInv, Owned, Last
  <1>9. TraceInv'
    <2>1. ASSUME NEW t \in DOMAIN traces'
          PROVE  /\ traces'[t].call \in 1..Last
                 /\ traces'[t].status = "SUCCEEDED" =>
                      calls[traces'[t].call].done /\ calls[traces'[t].call].step = "OVER"
      BY <1>0, <1>3, <1>6 DEF Inv, TraceInv
    <2>2. ASSUME NEW t \in DOMAIN traces', NEW s \in DOMAIN traces', traces'[t] = traces'[s]
          PROVE  t = s
      BY <1>5, <1>6, <2>2 DEF Inv, TraceInv
    <2> QED
      BY <1>0, <1>8, <2>1, <2>2 DEF TraceInv
  <1>10. HoldInv'
    BY <1>0, <1>1, <1>7 DEF Inv, HoldInv, Holds
  <1>11. WorkerInv'
    <2>1. Fits(worker[w])'
      <3>1. Untraced(u)'
        BY <1>0, <1>1, <1>3, <1>4, <1>6 DEF Untraced
      <3>2. Fits(u)'
        BY <1>0, <1>1, <3>1 DEF Fits, Calling, Failing, Reset, Holds, Free, Current, Last
      <3> QED
        BY <1>7, <3>2 DEF Fits, Current, Untraced, Reset, Holds
    <2>2. ASSUME NEW x \in Workers, x # w PROVE Fits(worker[x])'
      <3>1. worker'[x] = worker[x] /\ Fits(worker[x])
        BY <1>7, <2>2 DEF Inv, WorkerInv
      <3>2. worker[x].step \in Calling => worker[x].call # i
        <4> SUFFICES ASSUME worker[x].step \in Calling, worker[x].call = i PROVE FALSE
          OBVIOUS
        <4>1. Holds(worker[x]) /\ Current(worker[x])
          BY <3>1 DEF Fits, Calling, Holds, Free
        <4>2. worker[x].command = old.command
          BY <1>0, <4>1 DEF Current
        <4> QED
          BY <1>0, <2>2, <4>1, <4>2 DEF Inv, HoldInv
      <3>3. Untraced(worker[x])'
        BY <1>3, <1>6, <3>1, <3>2 DEF Fits, Untraced, Calling
      <3> QED
        BY <1>0, <1>8, <3>1, <3>3 DEF Fits, Current, Reset, Holds
    <2> QED
      BY <2>1, <2>2 DEF WorkerInv
  <1> QED
    BY <1>8, <1>9, <1>10, <1>11 DEF Inv

\* The other side moves.
LEMMA OutsideMoves ==
  ASSUME Inv, Outside
  PROVE  Inv'
  <1>1. /\ UNCHANGED Others => UNCHANGED <<config, commands, nodes, traces, spent, worker>>
        /\ worker \in [Workers -> WorkerType]
    BY Known DEF Others
  \* A call is answered.
  <1>2. ASSUME NEW i \in 1..Last, NEW answer \in Answers, NEW done \in BOOLEAN,
               Answer(i, answer, done), calls[i].step # "OVER",
               answer = "OK" => done, UNCHANGED Others
        PROVE  Inv'
    <2> DEFINE v == [calls[i] EXCEPT !.step = "ANSWERED", !.answer = answer, !.done = done]
    <2>1. /\ v \in CallType /\ v.node = calls[i].node /\ v.command = calls[i].command
          /\ v.step = "ANSWERED" /\ v.answer = answer /\ v.done = done
      BY Known DEF CallType
    <2>2. calls' = [calls EXCEPT ![i] = v]
      BY <1>2 DEF Answer
    <2> HIDE DEF v
    <2> QED
      BY <1>1, <1>2, <2>1, <2>2, CallMoves
  \* A call is passed on.
  <1>3. ASSUME NEW i \in 1..Last, NEW step \in {"LOOKUP", "PROVIDER"},
               calls' = [calls EXCEPT ![i].step = step], calls[i].step # "OVER",
               config.provider \in DOMAIN Cloud, UNCHANGED Others
        PROVE  Inv'
    <2> DEFINE v == [calls[i] EXCEPT !.step = step]
    <2>1. /\ v \in CallType /\ v.node = calls[i].node /\ v.command = calls[i].command
          /\ v.step = step /\ v.answer = calls[i].answer /\ v.done = calls[i].done
      BY Known DEF CallType
    <2>2. calls' = [calls EXCEPT ![i] = v]
      BY <1>3
    <2>3. v.answer = "OK" => v.done
      BY <2>1 DEF Inv, CallInv
    <2> HIDE DEF v
    <2> QED
      BY <1>1, <1>3, <2>1, <2>2, <2>3, CallMoves
  <1>4. ASSUME NEW i \in 1..Last, Serve(i) \/ Lost(i) PROVE Inv'
    BY <1>2, <1>4 DEF Serve, Lost, IsAt, Answers
  <1>5. ASSUME NEW i \in 1..Last, Ask(i) PROVE Inv'
    <2>1. config.provider \in {"UNKNOWN", "DETERMINISTIC"} \cup DOMAIN Cloud
      BY DEF Inv, TypeInv, Providers
    <2>2. calls[i].step = "RECEIVED" /\ UNCHANGED Others
      BY <1>5 DEF Ask, IsAt
    <2>3. \/ Answer(i, "UNKNOWN_PROVIDER", FALSE) \/ Answer(i, "OK", TRUE)
          \/ Answer(i, "NO_CREDENTIAL", FALSE)
          \/ config.provider \in DOMAIN Cloud /\ calls' = [calls EXCEPT ![i].step = "LOOKUP"]
      BY <1>5, <2>1 DEF Ask
    <2>4. {"UNKNOWN_PROVIDER", "OK", "NO_CREDENTIAL"} \subseteq Answers
      BY DEF Answers, Status
    <2> QED
      BY <1>2, <1>3, <2>2, <2>3, <2>4
  <1>6. ASSUME NEW i \in 1..Last, LookUp(i) PROVE Inv'
    <2>1. config.provider \in DOMAIN Cloud
      BY <1>6 DEF LookUp, IsAt, Inv, CallInv
    <2>2. "CREDENTIAL_ERROR" \in Answers
      BY DEF Answers, Status
    <2> QED
      BY <1>2, <1>3, <1>6, <2>1, <2>2 DEF LookUp, IsAt
  <1>7. ASSUME NEW i \in 1..Last, LookUpFails(i) PROVE Inv'
    <2>1. "UNCAUGHT" \in Answers
      BY DEF Answers, Status
    <2> QED
      BY <1>2, <1>7, <2>1 DEF LookUpFails, IsAt
  <1>8. ASSUME NEW i \in 1..Last, Provide(i) PROVE Inv'
    <2>1. config.provider \in DOMAIN Cloud
      BY <1>8 DEF Provide, IsAt, Inv, CallInv
    <2>2. PICK reply \in Cloud[config.provider] : Answer(i, reply.answer, reply.done)
      BY <1>8 DEF Provide
    <2>3. /\ reply.answer \in Answers /\ reply.done \in BOOLEAN
          /\ reply.answer = "OK" => reply.done
      BY <2>1, Replies
    <2> QED
      BY <1>2, <1>8, <2>2, <2>3 DEF Provide, IsAt
  <1> QED
    BY <1>4, <1>5, <1>6, <1>7, <1>8 DEF Outside

LEMMA NextInv == Inv /\ [Next]_vars => Inv'
  <1> SUFFICES ASSUME Inv, [Next]_vars PROVE Inv'
    OBVIOUS
  <1>1. ASSUME NEW w \in Workers, Run(w) PROVE Inv'
    BY <1>1, DeliveryMoves, NodeMoves, SendMoves, ReceiveMoves, TraceMoves, QueueMoves DEF Run
  <1>2. ASSUME NEW w \in Workers, DeliverAny(w) PROVE Inv'
    BY <1>2, QueueMoves DEF DeliverAny
  <1>3. ASSUME NEW w \in Workers, Fault(w) PROVE Inv'
    BY <1>3, ThrowMoves, QueueMoves, DeliveryMoves DEF Fault
  <1>4. CASE RemoveCredential \/ UNCHANGED vars
    <2>1. UNCHANGED <<config, commands, nodes, worker, calls, traces, spent>>
      BY <1>4 DEF RemoveCredential, vars
    <2> QED
      BY <2>1 DEF Inv, TypeInv, HoldInv, CallInv, WorkerInv, OutputInv, Owned, TraceInv, Last,
                  Fits, Current, Untraced, Reset
  <1> QED
    BY <1>1, <1>2, <1>3, <1>4, OutsideMoves DEF Next

LEMMA InvHolds == Spec => []Inv
  BY InitInv, NextInv, PTL DEF Spec

\* The output stored for a node answers a request of its own, the last one of
\* the copy of the command that made it, whatever other copies are run: the
\* update of the row, and the waits that end, of the execution worker.
THEOREM OutputsAreOwnAnswers == Spec => []OutputIsOwnAnswer
  <1>1. Inv => OutputIsOwnAnswer
    BY Known DEF Inv, OutputInv, Owned, OutputIsOwnAnswer
  <1> QED
    BY <1>1, InvHolds, PTL

----------------------------------------------------------------------------
(* How far a step takes a worker, for what is counted.                     *)

\* A worker goes on with the copy it holds.
Advance(w) == \/ FindExecution(w) \/ StartNode(w) \/ Send(w) \/ Receive(w) \/ Abort(w)
              \/ CompleteNode(w) \/ TraceSuccess(w) \/ ReportCompleted(w)
              \/ FailNode(w) \/ TraceFailure(w) \/ ReportFailed(w) \/ Succeed(w)
              \/ FailExecution(w) \/ StatementThrows(w)

\* What no step of a delivery undoes.
Further(o, u) ==
  /\ Holds(o) /\ Holds(u) /\ u.command = o.command /\ u.attempt = o.attempt
  /\ \A n \in DOMAIN Chain : Past(o, n) => Past(u, n)
  /\ u.step \in {"FAIL", "TRACE_FAILURE"} => u.call = o.call

LEMMA Advances ==
  ASSUME Inv, NEW w \in Workers, Advance(w)
  PROVE  \E u \in WorkerType :
           /\ worker' = [worker EXCEPT ![w] = u] /\ Further(worker[w], u)
           /\ u.step \in {"FAIL", "TRACE_FAILURE"} =>
                worker[w].step \in {"WAITING", "FAIL"} \/ StatementThrows(w)
           /\ Receive(w) => (u.failure \in FinalAnswers <=> calls[worker[w].call].answer \in FinalAnswers)
           /\ \/ StatementThrows(w) \/ Receive(w)
              \/ u.failure \in FinalAnswers <=> worker[w].failure \in FinalAnswers
  <1> DEFINE old == worker[w]
             Goal == \E u \in WorkerType :
               /\ worker' = [worker EXCEPT ![w] = u] /\ Further(old, u)
               /\ u.step \in {"FAIL", "TRACE_FAILURE"} =>
                    old.step \in {"WAITING", "FAIL"} \/ StatementThrows(w)
               /\ Receive(w) => (u.failure \in FinalAnswers <=> calls[old.call].answer \in FinalAnswers)
               /\ \/ StatementThrows(w) \/ Receive(w)
                  \/ u.failure \in FinalAnswers <=> old.failure \in FinalAnswers
  <1>0. old \in WorkerType /\ Fits(old) /\ DOMAIN Chain \subseteq Nat \ {0} /\ Last + 1 \in Nat
    BY Known DEF Inv, WorkerInv
  <1>1. ASSUME NEW step \in Steps \ (Free \cup {"NODE", "FAIL"}), Goto(w, step), Holds(old),
               step = "STARTED" => old.step = "NODE", step = "TRACE_FAILURE" => old.step = "FAIL",
               Receive(w) => old.failure \notin FinalAnswers /\ calls[old.call].answer \notin FinalAnswers
        PROVE  Goal
    <2> DEFINE u == [old EXCEPT !.step = step]
    <2>1. /\ u \in WorkerType /\ u.step = step /\ u.failure = old.failure /\ u.node = old.node
          /\ u.command = old.command /\ u.attempt = old.attempt /\ u.call = old.call
      BY <1>0 DEF WorkerType
    <2>2. worker' = [worker EXCEPT ![w] = u]
      BY <1>1 DEF Goto
    <2> HIDE DEF u
    <2>3. Further(old, u)
      BY <1>1, <2>1 DEF Further, Past, Holds
    <2> QED
      BY <1>1, <2>1, <2>2, <2>3
  <1>2. CASE FindExecution(w)
    <2>1. CASE Goto(w, "ACK")
      BY <1>1, <1>2, <2>1 DEF FindExecution, At, Steps, Free, Holds, Receive
    <2>2. CASE worker' = [worker EXCEPT ![w].step = "NODE", ![w].node = 1]
      <3> DEFINE u == [old EXCEPT !.step = "NODE", !.node = 1]
      <3>1. /\ u \in WorkerType /\ u.step = "NODE" /\ u.node = 1 /\ u.failure = old.failure
            /\ u.command = old.command /\ u.attempt = old.attempt
        BY <1>0 DEF WorkerType, Steps
      <3>2. worker' = [worker EXCEPT ![w] = u]
        BY <2>2
      <3> HIDE DEF u
      <3>3. old.step = "FIND" /\ old.node = 0
        BY <1>0, <1>2 DEF FindExecution, At, Fits
      <3>4. Further(old, u) /\ ~Receive(w)
        BY <1>0, <3>1, <3>3 DEF Further, Past, Holds, Free, Receive, At
      <3> QED
        BY <3>1, <3>2, <3>4
    <2> QED
      BY <1>2, <2>1, <2>2 DEF FindExecution
  <1>3. CASE StartNode(w) \/ CompleteNode(w) \/ TraceSuccess(w) \/ FailNode(w) \/ TraceFailure(w)
             \/ ReportFailed(w) \/ Succeed(w) \/ FailExecution(w)
    BY <1>1, <1>3 DEF StartNode, CompleteNode, TraceSuccess, FailNode, TraceFailure, ReportFailed,
                      Succeed, FailExecution, At, Steps, Calling, Failing, Free, Holds, Receive
  <1>4. CASE Send(w)
    <2> DEFINE u == [old EXCEPT !.step = "WAITING", !.call = Last + 1]
    <2>1. /\ u \in WorkerType /\ u.step = "WAITING" /\ u.node = old.node /\ u.failure = old.failure
          /\ u.command = old.command /\ u.attempt = old.attempt
      BY <1>0 DEF WorkerType, Steps, Calling
    <2>2. worker' = [worker EXCEPT ![w] = u] /\ old.step = "STARTED" /\ ~Receive(w)
      BY <1>4 DEF Send, At, Receive
    <2> HIDE DEF u
    <2>3. Further(old, u)
      BY <2>1, <2>2 DEF Further, Past, Holds, Free
    <2> QED
      BY <2>1, <2>2, <2>3
  <1>5. CASE Abort(w)
    <2> DEFINE u == [old EXCEPT !.step = "FAIL", !.failure = "TIMEOUT"]
    <2>1. /\ u \in WorkerType /\ u.step = "FAIL" /\ u.node = old.node /\ u.failure = "TIMEOUT"
          /\ u.command = old.command /\ u.attempt = old.attempt /\ u.call = old.call
      BY <1>0 DEF WorkerType, Steps, Failing
    <2>2. /\ worker' = [worker EXCEPT ![w] = u] /\ old.step = "WAITING"
          /\ old.failure = "NONE"
      BY <1>0, <1>5 DEF Abort, TimesOut, At, Throw, Fits, Failing
    <2> HIDE DEF u
    <2>3. Further(old, u)
      BY <2>1, <2>2 DEF Further, Past, Holds, Free
    <2>4. ~Receive(w)
      <3>1. CASE ~Receive(w)
        BY <3>1
      <3>2. CASE Receive(w)
        BY <1>0, <1>5, <2>2, <3>2, Known
           DEF Receive, Abort, Fits, Calling, Current, CallType
      <3> QED
        BY <3>1, <3>2
    <2> QED
      BY <2>1, <2>2, <2>3, <2>4, FinalIsFinal
  <1>6. CASE Receive(w)
    <2>1. /\ old.step = "WAITING" /\ old.failure = "NONE" /\ Holds(old)
          /\ calls[old.call].answer \in Answers
      BY <1>0, <1>6, Known DEF Receive, At, Fits, Failing, Calling, Current, CallType, Holds, Free
    <2>2. CASE Goto(w, "COMPLETE") /\ calls[old.call].answer = "OK"
      BY <1>1, <2>1, <2>2, FinalIsFinal DEF Steps, Calling, Free
    <2>3. CASE Throw(w, "FAIL", calls[old.call].answer)
      <3> DEFINE u == [old EXCEPT !.step = "FAIL", !.failure = calls[old.call].answer]
      <3>1. /\ u \in WorkerType /\ u.step = "FAIL" /\ u.node = old.node
            /\ u.failure = calls[old.call].answer
            /\ u.command = old.command /\ u.attempt = old.attempt /\ u.call = old.call
        BY <1>0, <2>1 DEF WorkerType, Steps, Failing
      <3>2. worker' = [worker EXCEPT ![w] = u]
        BY <2>3 DEF Throw
      <3> HIDE DEF u
      <3>3. Further(old, u)
        BY <2>1, <3>1 DEF Further, Past, Holds, Free
      <3> QED
        BY <1>6, <2>1, <3>1, <3>2, <3>3
    <2> QED
      BY <1>6, <2>2, <2>3 DEF Receive
  <1>7. CASE ReportCompleted(w)
    <2> DEFINE u == [old EXCEPT !.step = "NODE", !.node = @ + 1, !.call = 0]
    <2>0. old.node \in Nat /\ old.node + 1 \in Nat
      BY <1>0 DEF WorkerType
    <2>1. /\ u \in WorkerType /\ u.step = "NODE" /\ u.node = old.node + 1 /\ u.failure = old.failure
          /\ u.command = old.command /\ u.attempt = old.attempt
      BY <1>0, <2>0 DEF WorkerType, Steps
    <2>2. worker' = [worker EXCEPT ![w] = u] /\ old.step = "REPORT" /\ ~Receive(w)
      BY <1>7 DEF ReportCompleted, At, Receive
    <2> HIDE DEF u
    <2>3. Further(old, u)
      BY <1>0, <2>0, <2>1, <2>2 DEF Further, Past, Holds, Free
    <2> QED
      BY <2>1, <2>2, <2>3
  <1>8. CASE StatementThrows(w)
    <2> DEFINE to == IF old.step \in {"COMPLETE", "REPORT"} THEN "FAIL" ELSE "HANDLE"
               u == [old EXCEPT !.step = to, !.failure = "STATEMENT"]
    <2>1. /\ old.step \in {"COMPLETE", "REPORT", "FIND", "NODE", "STARTED", "FAIL",
                           "REPORT_FAILURE", "ACK"}
          /\ worker' = [worker EXCEPT ![w] = u]
      BY <1>8 DEF StatementThrows, Throw
    <2>2. /\ u \in WorkerType /\ u.step = to /\ u.call = old.call /\ u.node = old.node
          /\ u.command = old.command /\ u.attempt = old.attempt
      BY <1>0 DEF WorkerType, Steps, Failing
    <2> HIDE DEF u
    <2>3. Further(old, u) /\ ~Receive(w)
      BY <2>1, <2>2 DEF Further, Past, Holds, Free, Receive, At
    <2> QED
      BY <1>8, <2>1, <2>2, <2>3
  <1> QED
    BY <1>2, <1>3, <1>4, <1>5, <1>6, <1>7, <1>8 DEF Advance

LEMMA Smaller ==
  ASSUME NEW S, IsFiniteSet(S), NEW T, NEW x
  PROVE  /\ T \subseteq S => IsFiniteSet(T) /\ Cardinality(T) <= Cardinality(S)
         /\ T \subseteq S \cup {x} => IsFiniteSet(T) /\ Cardinality(T) <= Cardinality(S) + 1
         /\ T \subseteq S \ {x} /\ x \in S => IsFiniteSet(T) /\ Cardinality(T) <= Cardinality(S) - 1
  <1>1. T \subseteq S => IsFiniteSet(T) /\ Cardinality(T) <= Cardinality(S)
    BY FS_Subset
  <1>2. Cardinality(S) \in Nat
    BY FS_CardinalityType
  <1>3. ASSUME T \subseteq S \cup {x}
        PROVE  IsFiniteSet(T) /\ Cardinality(T) <= Cardinality(S) + 1
    <2>1. /\ IsFiniteSet(S \cup {x})
          /\ Cardinality(S \cup {x}) = IF x \in S THEN Cardinality(S) ELSE Cardinality(S) + 1
      BY FS_AddElement
    <2>2. IsFiniteSet(T) /\ Cardinality(T) <= Cardinality(S \cup {x})
      BY <1>3, <2>1, FS_Subset
    <2>3. Cardinality(T) \in Nat
      BY <2>2, FS_CardinalityType
    <2> QED
      BY <1>2, <2>1, <2>2, <2>3
  <1>4. ASSUME T \subseteq S \ {x}, x \in S
        PROVE  IsFiniteSet(T) /\ Cardinality(T) <= Cardinality(S) - 1
    <2>1. /\ IsFiniteSet(S \ {x})
          /\ Cardinality(S \ {x}) = IF x \in S THEN Cardinality(S) - 1 ELSE Cardinality(S)
      BY FS_RemoveElement
    <2>2. IsFiniteSet(T) /\ Cardinality(T) <= Cardinality(S \ {x})
      BY <1>4, <2>1, FS_Subset
    <2> QED
      BY <1>4, <2>1, <2>2
  <1> QED
    BY <1>1, <1>3, <1>4

\* A worker begins with a copy of the command, or is through with one.
Turns(w) == \/ DeliverAny(w) \/ Retry(w) \/ Acknowledge(w) \/ AcknowledgeRetried(w)
            \/ Nack(w) \/ Crash(w) \/ Restart(w)

LEMMA TurnsOver ==
  ASSUME Inv, NEW w \in Workers, Turns(w)
  PROVE  /\ UNCHANGED <<calls, traces>>
         /\ \E u \in WorkerType :
              /\ worker' = [worker EXCEPT ![w] = u]
              /\ \/ ~Holds(u) /\ u.step \notin {"FAIL", "TRACE_FAILURE"} /\ ~DeliverAny(w)
                 \/ /\ u.step = "FIND" /\ u.node = 0 /\ u.failure = "NONE" /\ ~Holds(worker[w])
                    /\ Deliver(w, u.command) /\ u.command \in DOMAIN commands
  <1>0. worker[w] \in WorkerType /\ 0 \in 0..MaxRetries
    BY Known
  <1>1. CASE Retry(w)
    <2> DEFINE u == [worker[w] EXCEPT !.step = "RETRIED"]
    <2>1. u \in WorkerType /\ u.step = "RETRIED"
      BY <1>0 DEF WorkerType, Steps, Free
    <2>2. worker' = [worker EXCEPT ![w] = u] /\ UNCHANGED <<calls, traces>> /\ ~DeliverAny(w)
      <3>1. worker[w].step = "HANDLE"
        BY <1>1 DEF Retry, At
      <3>2. worker[w] # Idle
        BY <3>1 DEF Idle
      <3> QED
        BY <1>1, <3>2 DEF Retry, Goto, DeliverAny, Deliver
    <2> QED
      BY <2>1, <2>2 DEF Holds, Free
  <1>2. ASSUME NEW step \in {"IDLE", "DOWN"}, UNCHANGED <<calls, traces>>, ~DeliverAny(w),
               worker' = [worker EXCEPT ![w] = [Idle EXCEPT !.step = step]]
        PROVE  \E u \in WorkerType :
                 /\ worker' = [worker EXCEPT ![w] = u] /\ ~Holds(u)
                 /\ u.step \notin {"FAIL", "TRACE_FAILURE"}
    <2> DEFINE u == [Idle EXCEPT !.step = step]
    <2>1. u \in WorkerType /\ u.step = step
      BY <1>0 DEF Idle, WorkerType, Steps, Free, Answers
    <2> QED
      BY <1>2, <2>1 DEF Holds, Free
  <1>3. CASE Acknowledge(w) \/ AcknowledgeRetried(w) \/ Nack(w) \/ Restart(w)
    <2>1. worker' = [worker EXCEPT ![w] = Idle] /\ worker[w].step # "IDLE"
          /\ UNCHANGED <<calls, traces>>
      BY <1>3 DEF Acknowledge, AcknowledgeRetried, Nack, Restart, Release, At
    <2>2. Idle = [Idle EXCEPT !.step = "IDLE"] /\ Idle.step = "IDLE"
      BY DEF Idle
    <2>3. ~DeliverAny(w)
      BY <2>1, <2>2 DEF DeliverAny, Deliver
    <2> QED
      BY <1>2, <2>1, <2>2, <2>3
  <1>4. CASE Crash(w)
    <2>1. /\ worker' = [worker EXCEPT ![w] = [Idle EXCEPT !.step = "DOWN"]]
          /\ worker[w].step # "IDLE" /\ UNCHANGED <<calls, traces>>
      BY <1>4 DEF Crash
    <2>2. ~DeliverAny(w)
      <3>1. worker[w] # Idle
        BY <2>1 DEF Idle
      <3> QED
        BY <3>1 DEF DeliverAny, Deliver
    <2> QED
      BY <1>2, <2>1, <2>2
  <1>5. CASE DeliverAny(w)
    <2>1. PICK c \in DOMAIN commands : Deliver(w, c)
      BY <1>5 DEF DeliverAny
    <2> DEFINE u == [Idle EXCEPT !.step = "FIND", !.command = c, !.attempt = commands[c].attempt]
    <2>2. c \in Nat /\ commands[c] \in CommandType
      BY Known
    <2>3. /\ u \in WorkerType /\ u.step = "FIND" /\ u.command = c /\ u.node = 0
          /\ u.failure = "NONE"
      BY <1>0, <2>2 DEF CommandType, WorkerType, Idle, Steps, Answers
    <2>4. /\ worker' = [worker EXCEPT ![w] = u] /\ worker[w] = Idle
          /\ UNCHANGED <<calls, traces>>
      BY <2>1 DEF Deliver
    <2>5. ~Holds(worker[w])
      BY <2>4 DEF Holds, Idle, Free
    <2> QED
      BY <2>1, <2>3, <2>4, <2>5
  <1> QED
    BY <1>1, <1>3, <1>4, <1>5 DEF Turns

\* Every step is of one of three kinds.
LEMMA Kinds ==
  ASSUME Inv, [Next]_vars
  PROVE  \/ \E w \in Workers : Advance(w) \/ Turns(w)
         \/ /\ Outside \/ RemoveCredential \/ UNCHANGED vars
            /\ UNCHANGED <<commands, worker, traces, spent>>
  <1>1. ASSUME NEW w \in Workers, Run(w) \/ DeliverAny(w) \/ Fault(w)
        PROVE  Advance(w) \/ Turns(w)
    BY <1>1 DEF Run, Fault, Advance, Turns
  <1>2. Outside \/ RemoveCredential \/ UNCHANGED vars => UNCHANGED <<commands, worker, traces, spent>>
    BY DEF Outside, Serve, Ask, Lost, LookUp, LookUpFails, Provide, Others, RemoveCredential, vars
  <1> QED
    BY <1>1, <1>2 DEF Next

\* What a step costs.
LEMMA Costs ==
  ASSUME Inv, [Next]_vars
  PROVE  /\ spent'.crashes \in Nat /\ spent'.failures \in Nat
         /\ spent.crashes <= spent'.crashes /\ spent.failures <= spent'.failures
         /\ \A w \in Workers : StatementThrows(w) \/ Nack(w) =>
              spent'.failures = spent.failures + 1 /\ spent'.crashes = spent.crashes
         /\ \A w \in Workers : Crash(w) =>
              spent'.crashes = spent.crashes + 1 /\ spent'.failures = spent.failures
  <1>0. spent.crashes \in Nat /\ spent.failures \in Nat
    BY Known
  <1>1. ASSUME Spend("failures")
        PROVE  spent'.failures = spent.failures + 1 /\ spent'.crashes = spent.crashes
    BY <1>1, Spent
  <1>2. ASSUME Spend("crashes")
        PROVE  spent'.crashes = spent.crashes + 1 /\ spent'.failures = spent.failures
    BY <1>2, Spent
  <1>3. Spend("failures") \/ Spend("crashes") \/ UNCHANGED spent
    <2>1. ASSUME NEW w \in Workers, Advance(w) \/ Turns(w)
          PROVE  Spend("failures") \/ Spend("crashes") \/ UNCHANGED spent
      BY <2>1 DEF Advance, Turns, FindExecution, StartNode, Send, Receive, Abort, CompleteNode,
           TraceSuccess, ReportCompleted, FailNode, TraceFailure, ReportFailed, Succeed,
           FailExecution, StatementThrows, DeliverAny, Deliver, Retry, Acknowledge,
           AcknowledgeRetried, Nack, Crash, Restart
    <2> QED
      BY <2>1, Kinds
  <1> QED
    BY <1>0, <1>1, <1>2, <1>3 DEF StatementThrows, Nack, Crash

----------------------------------------------------------------------------
(* Traces.                                                                 *)

LEMMA DoubtKept ==
  ASSUME Inv, DoubtInv, spent'.failures \in Nat, NEW x,
         \/ Doubted' \subseteq Doubted /\ spent.failures <= spent'.failures
         \/ Doubted' \subseteq Doubted \cup {x} /\ spent'.failures = spent.failures + 1
  PROVE  DoubtInv'
  <1>1. IsFiniteSet(1..Last) /\ spent.failures \in Nat
    BY FS_Interval, Known
  <1>2. IsFiniteSet(Doubted)
    BY <1>1, FS_Subset DEF Doubted
  <1>3. Cardinality(Doubted) \in Nat
    BY <1>2, FS_CardinalityType
  <1>4. /\ Doubted' \subseteq Doubted =>
             IsFiniteSet(Doubted') /\ Cardinality(Doubted') <= Cardinality(Doubted)
        /\ Doubted' \subseteq Doubted \cup {x} =>
             IsFiniteSet(Doubted') /\ Cardinality(Doubted') <= Cardinality(Doubted) + 1
    BY <1>2, Smaller
  <1>5. Cardinality(Doubted') \in Nat
    BY <1>4, FS_CardinalityType
  <1> QED
    BY <1>1, <1>3, <1>4, <1>5 DEF DoubtInv

LEMMA DoubtNext == Inv /\ DoubtInv /\ [Next]_vars => DoubtInv'
  <1> SUFFICES ASSUME Inv, DoubtInv, [Next]_vars PROVE DoubtInv'
    OBVIOUS
  <1>0. /\ spent'.failures \in Nat /\ spent.failures <= spent'.failures
        /\ worker \in [Workers -> WorkerType] /\ Last \in Nat
    BY Known, Costs
  <1>1. \A i, status : Traced(i, status) => i \in 1..Last
    BY DEF Traced, Inv, TraceInv
  <1>2. UNCHANGED traces => \A i, status : Traced(i, status)' = Traced(i, status)
    BY DEF Traced
  <1>3. ASSUME UNCHANGED traces,
               \A w \in Workers : worker'[w].step \in {"FAIL", "TRACE_FAILURE"} =>
                 \/ /\ worker[w].step \in {"FAIL", "TRACE_FAILURE"}
                    /\ worker'[w].call = worker[w].call
                 \/ ~Traced(worker'[w].call, "SUCCEEDED")
        PROVE  DoubtInv'
    <2>1. Doubted' \subseteq Doubted
      BY <1>1, <1>2, <1>3 DEF Doubted, Traced
    <2> QED
      BY <1>0, <2>1, DoubtKept
  <1>4. ASSUME NEW w \in Workers, Turns(w) PROVE DoubtInv'
    <2>1. PICK u \in WorkerType :
            worker' = [worker EXCEPT ![w] = u] /\ u.step \notin {"FAIL", "TRACE_FAILURE"}
      BY <1>4, TurnsOver
    <2>2. UNCHANGED traces /\ worker'[w] = u /\ \A x \in Workers : x # w => worker'[x] = worker[x]
      BY <1>0, <1>4, <2>1, TurnsOver
    <2> QED
      BY <1>3, <2>1, <2>2
  <1>5. ASSUME NEW w \in Workers, Advance(w) PROVE DoubtInv'
    <2>1. PICK u \in WorkerType :
            /\ worker' = [worker EXCEPT ![w] = u] /\ Further(worker[w], u)
            /\ u.step \in {"FAIL", "TRACE_FAILURE"} =>
                 worker[w].step \in {"WAITING", "FAIL"} \/ StatementThrows(w)
      BY <1>5, Advances
    <2>2. worker'[w] = u /\ \A x \in Workers : x # w => worker'[x] = worker[x]
      BY <1>0, <2>1
    <2>3. u.step \in {"FAIL", "TRACE_FAILURE"} => u.call = worker[w].call
      BY <2>1 DEF Further
    <2>4. worker[w].step \in {"WAITING", "TRACE"} =>
            \A status : ~Traced(worker[w].call, status)
      <3>1. Untraced(worker[w])
        BY DEF Inv, WorkerInv, Fits
      <3>2. \A i, status : [call |-> i, status |-> status].call = i
        OBVIOUS
      <3> QED
        BY <3>1, <3>2 DEF Untraced, Traced
    <2>5. CASE StatementThrows(w)
      <3>1. UNCHANGED traces /\ spent'.failures = spent.failures + 1
        BY <2>5, Costs DEF StatementThrows
      <3>2. Doubted' \subseteq Doubted \cup {worker[w].call}
        BY <1>1, <1>2, <2>2, <2>3, <3>1 DEF Doubted, Traced
      <3> QED
        BY <1>0, <3>1, <3>2, DoubtKept
    <2>6. CASE TraceSuccess(w) \/ TraceFailure(w)
      <3> DEFINE i == worker[w].call
                 status == IF worker[w].step = "TRACE" THEN "SUCCEEDED" ELSE "FAILED"
      <3>1. /\ worker[w].step \in {"TRACE", "TRACE_FAILURE"} /\ ~StatementThrows(w)
            /\ \/ traces' = traces
               \/ traces' = Append(traces, [call |-> i, status |-> status])
            /\ Last' = Last
        BY <2>6 DEF TraceSuccess, TraceFailure, StoreTrace, TraceOf, At, StatementThrows, Last
      <3>2. u.step \notin {"FAIL", "TRACE_FAILURE"}
        BY <2>1, <3>1
      <3>3. \A j, s : Traced(j, s)' => Traced(j, s) \/ (j = i /\ s = status)
        <4> DEFINE row == [call |-> i, status |-> status]
        <4>1. row.call = i /\ row.status = status
          OBVIOUS
        <4>2. CASE traces' = Append(traces, row)
          <5>1. \A t \in DOMAIN traces' : \/ t \in DOMAIN traces /\ traces'[t] = traces[t]
                                          \/ traces'[t] = row
            BY <4>2, Known, SMTT(30)
          <5> QED
            BY <4>1, <5>1 DEF Traced
        <4> QED
          BY <3>1, <4>2 DEF Traced
      <3>4. CASE worker[w].step = "TRACE_FAILURE"
        <4>1. Doubted' \subseteq Doubted
          BY <1>1, <2>2, <3>1, <3>2, <3>3, <3>4 DEF Doubted
        <4> QED
          BY <1>0, <4>1, DoubtKept
      <3>5. CASE worker[w].step = "TRACE"
        <4>1. ASSUME NEW x \in Workers, x # w, worker[x].step \in {"FAIL", "TRACE_FAILURE"}
              PROVE  worker[x].call # i
          <5> SUFFICES ASSUME worker[x].call = i PROVE FALSE
            OBVIOUS
          <5>1. /\ Holds(worker[x]) /\ Current(worker[x])
                /\ Holds(worker[w]) /\ Current(worker[w])
            BY <3>5, <4>1 DEF Inv, WorkerInv, Fits, Calling, Holds, Free
          <5>2. worker[x].command = worker[w].command
            BY <5>1 DEF Current
          <5> QED
            BY <4>1, <5>1, <5>2 DEF Inv, HoldInv
        <4>2. ~Traced(i, "FAILED")
          BY <2>4, <3>5
        <4>3. \A j : j = i => ~Traced(j, "FAILED")'
          BY <3>3, <3>5, <4>2
        <4>4. Doubted' \subseteq Doubted
          BY <1>1, <2>2, <3>1, <3>2, <3>3, <3>5, <4>1, <4>3 DEF Doubted
        <4> QED
          BY <1>0, <4>4, DoubtKept
      <3> QED
        BY <3>1, <3>4, <3>5
    <2>7. CASE ~(StatementThrows(w) \/ TraceSuccess(w) \/ TraceFailure(w))
      <3>1. UNCHANGED traces
        BY <1>5, <2>7 DEF Advance, FindExecution, StartNode, Send, Receive, Abort, CompleteNode,
             ReportCompleted, FailNode, ReportFailed, Succeed, FailExecution
      <3> QED
        BY <1>3, <2>1, <2>2, <2>3, <2>4, <2>7, <3>1
    <2> QED
      BY <2>5, <2>6, <2>7
  <1>6. CASE UNCHANGED <<worker, traces>>
    BY <1>3, <1>6
  <1> QED
    BY <1>4, <1>5, <1>6, Kinds

LEMMA InitDoubt == Init => DoubtInv
  <1> SUFFICES ASSUME Init PROVE DoubtInv
    OBVIOUS
  <1>1. Doubted = {} /\ spent.failures = 0
    BY DEF Init, Doubted, Traced, Bounds
  <1> QED
    BY <1>1, FS_EmptySet DEF DoubtInv

\* A trace of a success belongs to a completion; no request has two traces of
\* one status, and at most one request for each statement that threw has one
\* of each: the traces of the execution worker's catch and try blocks.
THEOREM TracesStayMatched == Spec => []TracesMatchCalls
  <1>1. Inv /\ DoubtInv => TracesMatchCalls
    <2> SUFFICES ASSUME Inv, DoubtInv PROVE TracesMatchCalls
      OBVIOUS
    <2> DEFINE Both == {i \in 1..Last : Traced(i, "SUCCEEDED") /\ Traced(i, "FAILED")}
    <2>0. IsFiniteSet(1..Last)
      BY FS_Interval, Known
    <2>1. Both \subseteq Doubted /\ Doubted \subseteq 1..Last
      BY DEF Doubted
    <2>2. IsFiniteSet(Doubted)
      BY <2>0, <2>1, FS_Subset
    <2>3. IsFiniteSet(Both) /\ Cardinality(Both) <= Cardinality(Doubted)
      BY <2>1, <2>2, Smaller
    <2>4. Cardinality(Both) \in Nat /\ Cardinality(Doubted) \in Nat /\ spent.failures \in Nat
      BY <2>2, <2>3, FS_CardinalityType, Known
    <2>5. Cardinality(Both) <= spent.failures
      BY <2>3, <2>4 DEF DoubtInv
    <2>6. \A i \in 1..Last : Traced(i, "SUCCEEDED") => calls[i].done
      BY DEF Inv, TraceInv, Traced
    <2> QED
      BY <2>5, <2>6 DEF TracesMatchCalls, Inv, TraceInv
  <1>2. Spec => []DoubtInv
    BY InitDoubt, InitInv, DoubtNext, NextInv, PTL DEF Spec
  <1> QED
    BY <1>1, <1>2, InvHolds, PTL

----------------------------------------------------------------------------
(* Requests.                                                               *)

\* The other side answers only calls that are not over.
LEMMA OutsideKeeps ==
  ASSUME Inv, Outside
  PROVE  /\ Last' = Last
         /\ \A j \in 1..Last : /\ calls'[j].node = calls[j].node
                               /\ calls[j].step = "OVER" => calls'[j] = calls[j]
                               /\ calls'[j].step = "OVER" => calls[j].step = "OVER"
  <1> DEFINE Goal == /\ Last' = Last
                     /\ \A j \in 1..Last : /\ calls'[j].node = calls[j].node
                                           /\ calls[j].step = "OVER" => calls'[j] = calls[j]
                                           /\ calls'[j].step = "OVER" => calls[j].step = "OVER"
  <1>0. /\ \A j \in 1..Last : calls[j] \in CallType
        /\ calls \in Seq(CallType) /\ Last \in Nat /\ DOMAIN calls = 1..Last
    BY Known
  <1>1. PICK i \in 1..Last : Serve(i) \/ Ask(i) \/ Lost(i) \/ LookUp(i) \/ LookUpFails(i) \/ Provide(i)
    BY DEF Outside
  <1>2. calls[i].step \in {"RECEIVED", "LOOKUP", "PROVIDER"}
    BY <1>1 DEF Serve, Ask, Lost, LookUp, LookUpFails, Provide, IsAt
  <1>3. ASSUME NEW answer, NEW done, Answer(i, answer, done) PROVE Goal
    <2> DEFINE v == [calls[i] EXCEPT !.step = "ANSWERED", !.answer = answer, !.done = done]
    <2>1. v.node = calls[i].node /\ v.step = "ANSWERED"
      BY <1>0 DEF CallType
    <2>2. calls' = [calls EXCEPT ![i] = v]
      BY <1>3 DEF Answer
    <2> HIDE DEF v
    <2> QED
      BY <1>0, <1>2, <2>1, <2>2 DEF Last
  <1>4. ASSUME NEW step \in {"LOOKUP", "PROVIDER"}, calls' = [calls EXCEPT ![i].step = step]
        PROVE  Goal
    <2> DEFINE v == [calls[i] EXCEPT !.step = step]
    <2>1. v.node = calls[i].node /\ v.step = step
      BY <1>0 DEF CallType
    <2>2. calls' = [calls EXCEPT ![i] = v]
      BY <1>4
    <2> HIDE DEF v
    <2> QED
      BY <1>0, <1>2, <2>1, <2>2 DEF Last
  <1>5. \/ \E answer, done : Answer(i, answer, done)
        \/ \E step \in {"LOOKUP", "PROVIDER"} : calls' = [calls EXCEPT ![i].step = step]
    <2>1. config.provider \in {"UNKNOWN", "DETERMINISTIC"} \cup DOMAIN Cloud
      BY DEF Inv, TypeInv, Providers
    <2> QED
      BY <1>1, <2>1 DEF Serve, Ask, Lost, LookUp, LookUpFails, Provide
  <1> QED
    BY <1>3, <1>4, <1>5

\* An answer that is received ends its call, with what was answered.
LEMMA ReceiveKeeps ==
  ASSUME Inv, NEW w \in Workers, Receive(w)
  PROVE  /\ Last' = Last /\ worker[w].call \in 1..Last
         /\ \A j \in 1..Last :
              /\ calls'[j].node = calls[j].node
              /\ j # worker[w].call => calls'[j] = calls[j]
              /\ j = worker[w].call => calls'[j].step = "OVER" /\ calls'[j].answer = calls[j].answer
         /\ calls[worker[w].call].step # "OVER"
  <1> DEFINE i == worker[w].call
             v == [calls[i] EXCEPT !.step = "OVER"]
  <1>0. /\ \A j \in 1..Last : calls[j] \in CallType
        /\ calls \in Seq(CallType) /\ Last \in Nat /\ DOMAIN calls = 1..Last
    BY Known
  <1>1. i \in 1..Last /\ calls[i].step = "ANSWERED" /\ calls' = [calls EXCEPT ![i] = v]
    BY DEF Receive, At, Inv, WorkerInv, Fits, Current, Calling
  <1>2. v \in CallType /\ v.node = calls[i].node /\ v.answer = calls[i].answer /\ v.step = "OVER"
    BY <1>0, <1>1 DEF CallType
  <1> HIDE DEF v
  <1> QED
    BY <1>0, <1>1, <1>2 DEF Last

\* Where a call of node n was added, and nowhere else, there is one more.
LEMMA RequestsKeep ==
  ASSUME Inv, [Next]_vars, NEW n \in DOMAIN Chain
  PROVE  \/ Requests(n)' = Requests(n)
         \/ \E w \in Workers : /\ Send(w) /\ n = worker[w].node
                               /\ Requests(n)' \subseteq Requests(n) \cup {Last + 1}
  <1>0. calls \in Seq(CallType) /\ Last \in Nat /\ DOMAIN calls = 1..Last
    BY Known
  <1>1. CASE UNCHANGED calls
    BY <1>1 DEF Requests, Last
  <1>2. CASE Outside
    BY <1>2, OutsideKeeps DEF Requests
  <1>3. ASSUME NEW w \in Workers, Receive(w) PROVE Requests(n)' = Requests(n)
    BY <1>3, ReceiveKeeps DEF Requests
  <1>4. ASSUME NEW w \in Workers, Send(w)
        PROVE  \/ Requests(n)' = Requests(n)
               \/ /\ n = worker[w].node
                  /\ Requests(n)' \subseteq Requests(n) \cup {Last + 1}
    <2> DEFINE v == [node |-> worker[w].node, command |-> worker[w].command,
                     step |-> "RECEIVED", answer |-> "NONE", done |-> FALSE]
    <2>1. calls' = Append(calls, v) /\ v.node = worker[w].node
      BY <1>4 DEF Send
    <2> HIDE DEF v
    <2>2. /\ Last' = Last + 1 /\ calls'[Last + 1] = v
          /\ \A j \in 1..Last : calls'[j] = calls[j]
      BY <1>0, <2>1 DEF Last
    <2>3. \A j \in 1..(Last + 1) : j \in 1..Last \/ j = Last + 1
      BY <1>0
    <2>4. \A j \in 1..Last : j \in 1..(Last + 1)
      BY <1>0
    <2> QED
      BY <2>1, <2>2, <2>3, <2>4 DEF Requests
  <1>5. UNCHANGED calls \/ Outside \/ \E w \in Workers : Receive(w) \/ Send(w)
    <2>1. ASSUME NEW w \in Workers, Advance(w) PROVE UNCHANGED calls \/ Receive(w) \/ Send(w)
      BY <2>1 DEF Advance, FindExecution, StartNode, Abort, CompleteNode, TraceSuccess,
           ReportCompleted, FailNode, TraceFailure, ReportFailed, Succeed, FailExecution,
           StatementThrows
    <2>2. RemoveCredential \/ UNCHANGED vars => UNCHANGED calls
      BY DEF RemoveCredential, vars
    <2> QED
      BY <2>1, <2>2, Kinds, TurnsOver
  <1> QED
    BY <1>1, <1>2, <1>3, <1>4, <1>5

\* What a step changes of the copies of the command.
LEMMA CommandsKeep ==
  ASSUME Inv, NEW w \in Workers, Turns(w)
  PROVE  \/ UNCHANGED commands /\ ~Holds(worker[w])
         \/ /\ DeliverAny(w)
            /\ Len(commands') = Len(commands) /\ DOMAIN commands' = DOMAIN commands
            /\ \A c \in DOMAIN commands : /\ commands'[c].attempt = commands[c].attempt
                                          /\ commands'[c].place # "DONE" <=> commands[c].place # "DONE"
         \/ /\ Crash(w) /\ worker[w].step = "RETRIED"
            /\ Len(commands') = Len(commands) + 1
            /\ DOMAIN commands' = DOMAIN commands \cup {Len(commands) + 1}
            /\ \A c \in DOMAIN commands : commands'[c] = commands[c]
         \/ /\ Holds(worker[w]) /\ worker[w].command \in DOMAIN commands
            /\ Len(commands') = Len(commands) /\ DOMAIN commands' = DOMAIN commands
            /\ \A c \in DOMAIN commands : c # worker[w].command => commands'[c] = commands[c]
            /\ LET k == commands'[worker[w].command] IN
               \/ Retry(w) /\ k.attempt = worker[w].attempt + 1 /\ worker[w].failure \notin FinalAnswers
               \/ Acknowledge(w) /\ k.place = "DONE"
               \/ (Nack(w) \/ Crash(w)) /\ k.attempt = worker[w].attempt
  <1> DEFINE o == worker[w]
  <1>0. /\ commands \in Seq(CommandType) /\ Len(commands) \in Nat
        /\ DOMAIN commands = 1..Len(commands)
        /\ \A c \in DOMAIN commands : commands[c] \in CommandType
        /\ Holds(o) => /\ o.command \in DOMAIN commands
                       /\ commands[o.command] = [place |-> "HELD", attempt |-> o.attempt]
    BY Known DEF Inv, WorkerInv, Fits
  <1>1. CASE DeliverAny(w)
    <2>1. PICK c \in DOMAIN commands : Deliver(w, c)
      BY <1>1 DEF DeliverAny
    <2> DEFINE k == [commands[c] EXCEPT !.place = "HELD"]
    <2>2. /\ commands' = [commands EXCEPT ![c] = k] /\ commands[c].place = "QUEUE"
          /\ k.place = "HELD" /\ k.attempt = commands[c].attempt
      BY <1>0, <2>1 DEF Deliver, CommandType
    <2> HIDE DEF k
    <2>3. Len(commands') = Len(commands) /\ DOMAIN commands' = DOMAIN commands
      BY <1>0, <2>2
    <2>4. \A d \in DOMAIN commands : commands'[d] = IF d = c THEN k ELSE commands[d]
      BY <1>0, <2>2
    <2>5. \A d \in DOMAIN commands :
            /\ commands'[d].attempt = commands[d].attempt
            /\ commands'[d].place # "DONE" <=> commands[d].place # "DONE"
      BY <2>2, <2>4
    <2> QED
      BY <1>1, <2>3, <2>5
  <1>2. CASE AcknowledgeRetried(w) \/ Restart(w)
    BY <1>2 DEF AcknowledgeRetried, Restart, At, Holds, Free
  <1>3. CASE Crash(w) /\ At(w, "RETRIED")
    <2> DEFINE k == [place |-> "QUEUE", attempt |-> o.attempt]
    <2>1. commands' = Append(commands, k) /\ o.step = "RETRIED"
      BY <1>3 DEF Crash, At
    <2> HIDE DEF k
    <2>2. /\ Len(commands') = Len(commands) + 1
          /\ DOMAIN commands' = 1..(Len(commands) + 1)
          /\ \A c \in DOMAIN commands : commands'[c] = commands[c]
      BY <1>0, <2>1
    <2>3. 1..(Len(commands) + 1) = 1..Len(commands) \cup {Len(commands) + 1}
      BY <1>0
    <2> QED
      BY <1>0, <1>3, <2>1, <2>2, <2>3
  <1>4. ASSUME NEW k, commands' = [commands EXCEPT ![o.command] = k], Holds(o)
        PROVE  /\ o.command \in DOMAIN commands /\ commands'[o.command] = k
               /\ Len(commands') = Len(commands) /\ DOMAIN commands' = DOMAIN commands
               /\ \A c \in DOMAIN commands : c # o.command => commands'[c] = commands[c]
    BY <1>0, <1>4
  <1>5. CASE Retry(w)
    <2> DEFINE k == [place |-> "QUEUE", attempt |-> o.attempt + 1]
    <2>1. /\ Holds(o) /\ commands' = [commands EXCEPT ![o.command] = k]
          /\ k.attempt = o.attempt + 1 /\ o.failure \notin FinalAnswers
      BY <1>5, FinalIsFinal DEF Retry, NextAttempt, At, Holds, Free, MayRetry
    <2> HIDE DEF k
    <2> QED
      BY <1>4, <1>5, <2>1
  <1>6. ASSUME NEW place, commands' = [commands EXCEPT ![o.command].place = place], Holds(o)
        PROVE  /\ o.command \in DOMAIN commands
               /\ commands'[o.command].place = place /\ commands'[o.command].attempt = o.attempt
               /\ Len(commands') = Len(commands) /\ DOMAIN commands' = DOMAIN commands
               /\ \A c \in DOMAIN commands : c # o.command => commands'[c] = commands[c]
    <2> DEFINE k == [commands[o.command] EXCEPT !.place = place]
    <2>1. /\ commands' = [commands EXCEPT ![o.command] = k]
          /\ k.place = place /\ k.attempt = o.attempt
      BY <1>0, <1>6
    <2> HIDE DEF k
    <2> QED
      BY <1>4, <1>6, <2>1
  <1>7. CASE Acknowledge(w)
    <2>1. Holds(o) /\ commands' = [commands EXCEPT ![o.command].place = "DONE"]
      BY <1>7 DEF Acknowledge, Release, Holds, Free
    <2> QED
      BY <1>6, <1>7, <2>1
  <1>8. CASE Nack(w) \/ (Crash(w) /\ ~At(w, "RETRIED"))
    <2>1. Holds(o) /\ commands' = [commands EXCEPT ![o.command].place = "QUEUE"]
      BY <1>8 DEF Nack, Crash, Release, At, Holds, Free
    <2> QED
      BY <1>6, <1>8, <2>1
  <1> QED
    BY <1>1, <1>2, <1>3, <1>5, <1>7, <1>8 DEF Turns

\* Some steps pay for more requests, by a fault or a copy of the command.
LEMMA TicketsKept ==
  ASSUME Inv, TicketInv, [Next]_vars, NEW n \in DOMAIN Chain, NEW x, NEW y, NEW c,
         \/ /\ Requests(n)' \subseteq Requests(n) /\ Tickets(n)' \subseteq Tickets(n)
            /\ Limit <= Limit'
         \/ /\ Requests(n)' \subseteq Requests(n) \cup {x}
            /\ y \in Tickets(n) /\ Tickets(n)' \subseteq Tickets(n) \ {y} /\ Limit <= Limit'
         \/ /\ Requests(n)' \subseteq Requests(n) /\ Tickets(n)' \subseteq Tickets(n) \cup {y}
            /\ Limit + 1 <= Limit'
         \/ /\ Requests(n)' \subseteq Requests(n)
            /\ Tickets(n)' \subseteq Tickets(n) \cup ({c} \X (0..MaxRetries))
            /\ Limit + (MaxRetries + 1) <= Limit',
         Limit' \in Int
  PROVE  Cardinality(Requests(n)') + Cardinality(Tickets(n)') <= Limit'
  <1>1. IsFiniteSet(1..Last) /\ IsFiniteSet(DOMAIN commands) /\ IsFiniteSet(0..MaxRetries)
        /\ Cardinality(0..MaxRetries) = MaxRetries + 1 /\ MaxRetries \in Nat
    BY FS_Interval, Known, SMTT(30)
  <1>2. IsFiniteSet(Requests(n)) /\ IsFiniteSet(Tickets(n))
    <2>1. Requests(n) \subseteq 1..Last /\ Tickets(n) \subseteq (DOMAIN commands) \X (0..MaxRetries)
      BY DEF Requests, Tickets
    <2> QED
      BY <1>1, <2>1, FS_Product, FS_Subset
  <1>3. Cardinality(Requests(n)) \in Nat /\ Cardinality(Tickets(n)) \in Nat
    BY <1>2, FS_CardinalityType
  <1>4. /\ IsFiniteSet({c} \X (0..MaxRetries))
        /\ Cardinality({c} \X (0..MaxRetries)) = MaxRetries + 1
    <2>1. IsFiniteSet({c}) /\ Cardinality({c}) = 1
      BY FS_Singleton
    <2>2. /\ IsFiniteSet({c} \X (0..MaxRetries))
          /\ Cardinality({c} \X (0..MaxRetries)) = Cardinality({c}) * Cardinality(0..MaxRetries)
      BY <1>1, <2>1, FS_Product
    <2> QED
      BY <1>1, <2>1, <2>2
  <1>5. Cardinality(Requests(n)) + Cardinality(Tickets(n)) <= Limit /\ Limit \in Int
    <2>1. Limit \in Int
      BY Known DEF Limit
    <2> QED
      BY <2>1 DEF TicketInv
  <1>6. CASE /\ Requests(n)' \subseteq Requests(n) /\ Tickets(n)' \subseteq Tickets(n)
             /\ Limit <= Limit'
    <2>1. Cardinality(Requests(n)') <= Cardinality(Requests(n)) /\ IsFiniteSet(Requests(n)')
      BY <1>2, <1>6, Smaller
    <2>2. Cardinality(Tickets(n)') <= Cardinality(Tickets(n)) /\ IsFiniteSet(Tickets(n)')
      BY <1>2, <1>6, Smaller
    <2>3. Cardinality(Requests(n)') \in Nat /\ Cardinality(Tickets(n)') \in Nat
      BY <2>1, <2>2, FS_CardinalityType
    <2> QED
      BY <1>3, <1>5, <1>6, <2>1, <2>2, <2>3
  <1>7. CASE /\ Requests(n)' \subseteq Requests(n) \cup {x}
             /\ y \in Tickets(n) /\ Tickets(n)' \subseteq Tickets(n) \ {y} /\ Limit <= Limit'
    <2>1. Cardinality(Requests(n)') <= Cardinality(Requests(n)) + 1 /\ IsFiniteSet(Requests(n)')
      BY <1>2, <1>7, Smaller
    <2>2. Cardinality(Tickets(n)') <= Cardinality(Tickets(n)) - 1 /\ IsFiniteSet(Tickets(n)')
      BY <1>2, <1>7, Smaller
    <2>3. Cardinality(Requests(n)') \in Nat /\ Cardinality(Tickets(n)') \in Nat
      BY <2>1, <2>2, FS_CardinalityType
    <2> QED
      BY <1>3, <1>5, <1>7, <2>1, <2>2, <2>3
  <1>8. CASE /\ Requests(n)' \subseteq Requests(n) /\ Tickets(n)' \subseteq Tickets(n) \cup {y}
             /\ Limit + 1 <= Limit'
    <2>1. Cardinality(Requests(n)') <= Cardinality(Requests(n)) /\ IsFiniteSet(Requests(n)')
      BY <1>2, <1>8, Smaller
    <2>2. Cardinality(Tickets(n)') <= Cardinality(Tickets(n)) + 1 /\ IsFiniteSet(Tickets(n)')
      BY <1>2, <1>8, Smaller
    <2>3. Cardinality(Requests(n)') \in Nat /\ Cardinality(Tickets(n)') \in Nat
      BY <2>1, <2>2, FS_CardinalityType
    <2> QED
      BY <1>3, <1>5, <1>8, <2>1, <2>2, <2>3
  <1>9. CASE /\ Requests(n)' \subseteq Requests(n)
             /\ Tickets(n)' \subseteq Tickets(n) \cup ({c} \X (0..MaxRetries))
             /\ Limit + (MaxRetries + 1) <= Limit'
    <2> DEFINE P == {c} \X (0..MaxRetries)
    <2>1. Cardinality(Requests(n)') <= Cardinality(Requests(n)) /\ IsFiniteSet(Requests(n)')
      BY <1>2, <1>9, Smaller
    <2>2. /\ IsFiniteSet(Tickets(n) \cup P)
          /\ Cardinality(Tickets(n) \cup P) =
               Cardinality(Tickets(n)) + Cardinality(P) - Cardinality(Tickets(n) \cap P)
      BY <1>2, <1>4, FS_Union
    <2>3. IsFiniteSet(Tickets(n) \cap P)
      BY <1>2, Smaller
    <2>4. Cardinality(Tickets(n)') <= Cardinality(Tickets(n) \cup P) /\ IsFiniteSet(Tickets(n)')
      BY <1>9, <2>2, Smaller
    <2>5. /\ Cardinality(Requests(n)') \in Nat /\ Cardinality(Tickets(n)') \in Nat
          /\ Cardinality(Tickets(n) \cap P) \in Nat
      BY <2>1, <2>3, <2>4, FS_CardinalityType
    <2> QED
      BY <1>1, <1>3, <1>4, <1>5, <1>9, <2>1, <2>2, <2>4, <2>5
  <1> QED
    BY <1>6, <1>7, <1>8, <1>9

\* The sums of the limit, before and after a step.
LEMMA Sums ==
  \A b, l, c, f, d, g \in Int :
    /\ c <= d /\ f <= g =>
         /\ b + (d - (l - 1)) + g \in Int
         /\ b + (c - (l - 1)) + f <= b + (d - (l - 1)) + g
    /\ c + f + 1 = d + g =>
         (b + (c - (l - 1)) + f) + 1 <= b + (d - (l - 1)) + g
  OBVIOUS

\* How the limit grows.
LEMMA LimitMoves ==
  ASSUME Inv, [Next]_vars
  PROVE  /\ Len(commands') = Len(commands) =>
              /\ Limit' \in Int /\ Limit <= Limit'
              /\ \A w \in Workers : Nack(w) \/ Crash(w) => Limit + 1 <= Limit'
         /\ Len(commands') = Len(commands) + 1 =>
              \A w \in Workers : Crash(w) =>
                Limit' \in Int /\ Limit + (MaxRetries + 1) <= Limit'
  <1> DEFINE L == Len(commands)
  <1>1. L \in Nat /\ MaxRetries \in Nat /\ spent.crashes \in Nat /\ spent.failures \in Nat
    BY Known
  <1>2. /\ spent'.crashes \in Nat /\ spent'.failures \in Nat
        /\ spent.crashes <= spent'.crashes /\ spent.failures <= spent'.failures
    BY Costs
  <1>3. /\ \A w \in Workers : Nack(w) =>
             spent'.failures = spent.failures + 1 /\ spent'.crashes = spent.crashes
        /\ \A w \in Workers : Crash(w) =>
             spent'.crashes = spent.crashes + 1 /\ spent'.failures = spent.failures
    BY Costs
  <1> DEFINE base == (MaxRetries + 1) * L
  <1>4. (MaxRetries + 1) * (L + 1) = base + (MaxRetries + 1)
    BY <1>1
  <1>5. base \in Nat
    BY <1>1
  <1>6. Limit = base + (spent.crashes - (L - 1)) + spent.failures
    BY DEF Limit
  <1> HIDE DEF base
  <1>7. ASSUME Len(commands') = L
        PROVE  Limit' = base + (spent'.crashes - (L - 1)) + spent'.failures
    BY <1>7 DEF Limit, base
  <1>8. ASSUME Len(commands') = L + 1
        PROVE  Limit' = base + (MaxRetries + 1) + (spent'.crashes - ((L + 1) - 1)) + spent'.failures
    BY <1>4, <1>8 DEF Limit
  <1> HIDE DEF L
  <1>9. ASSUME Len(commands') = L
        PROVE  /\ Limit' \in Int /\ Limit <= Limit'
               /\ \A w \in Workers : Nack(w) \/ Crash(w) => Limit + 1 <= Limit'
    <2>1. Limit' \in Int /\ Limit <= Limit'
      BY <1>1, <1>2, <1>6, <1>7, <1>9, <1>5, Sums, SMTT(30)
    <2>2. ASSUME NEW w \in Workers, Nack(w) \/ Crash(w) PROVE Limit + 1 <= Limit'
      <3>1. spent.crashes + spent.failures + 1 = spent'.crashes + spent'.failures
        BY <1>1, <1>2, <1>3, <2>2
      <3> QED
        <4>1. Limit' = base + (spent'.crashes - (L - 1)) + spent'.failures
          BY <1>7, <1>9
        <4>2. L \in Int /\ base \in Int /\ spent.crashes \in Int /\ spent.failures \in Int
              /\ spent'.crashes \in Int /\ spent'.failures \in Int
          BY <1>1, <1>2, <1>5
        <4> QED
          BY <1>6, <3>1, <4>1, <4>2, Sums
    <2> QED
      BY <2>1, <2>2
  <1>10. ASSUME Len(commands') = L + 1, NEW w \in Workers, Crash(w)
        PROVE  Limit' \in Int /\ Limit + (MaxRetries + 1) <= Limit'
    <2>1. spent'.crashes = spent.crashes + 1 /\ spent'.failures = spent.failures
      BY <1>10, <1>3
    <2> QED
      BY <1>1, <1>6, <1>8, <1>10, <1>5, <2>1, SMTT(30)
  <1> QED
    BY <1>9, <1>10 DEF L

LEMMA TicketNext == Inv /\ TicketInv /\ [Next]_vars => TicketInv'
  <1> SUFFICES ASSUME Inv, TicketInv, [Next]_vars PROVE TicketInv'
    OBVIOUS
  <1>0. /\ worker \in [Workers -> WorkerType] /\ Len(commands) \in Nat
        /\ DOMAIN commands = 1..Len(commands)
        /\ \A c \in DOMAIN commands : commands[c] \in CommandType
        /\ spent.crashes \in Nat /\ spent'.crashes \in Nat /\ spent.crashes <= spent'.crashes
        /\ \A w \in Workers : Crash(w) => spent'.crashes = spent.crashes + 1
    BY Known, Costs
  \* A worker that leaves what it held alone asks on.
  <1>1. ASSUME NEW w \in Workers, NEW c, NEW n \in DOMAIN Chain, Asked(c, n),
               \A x \in Workers : x # w => worker'[x] = worker[x],
               Holds(worker[w]) => worker[w].command # c
        PROVE  Asked(c, n)'
    BY <1>1 DEF Asked
  <1>2. ASSUME UNCHANGED commands, NEW n \in DOMAIN Chain,
               \A c \in DOMAIN commands : Asked(c, n) => Asked(c, n)'
        PROVE  Tickets(n)' \subseteq Tickets(n)
    BY <1>2 DEF Tickets
  <1>3. ASSUME Len(commands') = Len(commands),
               \A n \in DOMAIN Chain :
                 Cardinality(Requests(n)') + Cardinality(Tickets(n)') <= Limit'
        PROVE  TicketInv'
    BY <1>0, <1>3 DEF TicketInv
  <1>4. \A w \in Workers : ~Send(w) \/ ~Turns(w)
    <2> SUFFICES ASSUME NEW w \in Workers, Send(w), Turns(w) PROVE FALSE
      OBVIOUS
    <2>1. calls' = Append(calls, [node |-> worker[w].node, command |-> worker[w].command,
                                  step |-> "RECEIVED", answer |-> "NONE", done |-> FALSE])
      BY DEF Send
    <2>2. Len(calls') = Len(calls) + 1 /\ Len(calls) \in Nat
      BY <2>1, Known DEF Last
    <2> QED
      BY <2>2, TurnsOver
  <1>5. ASSUME NEW w \in Workers, Advance(w) PROVE TicketInv'
    <2>1. UNCHANGED commands
      BY <1>5 DEF Advance, FindExecution, StartNode, Send, Receive, Abort, CompleteNode,
           TraceSuccess, ReportCompleted, FailNode, TraceFailure, ReportFailed, Succeed,
           FailExecution, StatementThrows
    <2>2. PICK u \in WorkerType : worker' = [worker EXCEPT ![w] = u] /\ Further(worker[w], u)
      BY <1>5, Advances
    <2>3. worker'[w] = u /\ \A x \in Workers : x # w => worker'[x] = worker[x]
      BY <1>0, <2>2
    <2>4. ASSUME NEW n \in DOMAIN Chain, NEW c, Asked(c, n) PROVE Asked(c, n)'
      <3>1. PICK x \in Workers : /\ Holds(worker[x]) /\ worker[x].command = c
                                 /\ Past(worker[x], n)
        BY <2>4 DEF Asked
      <3>2. Holds(worker'[x]) /\ worker'[x].command = c /\ Past(worker'[x], n)
        BY <2>2, <2>3, <3>1 DEF Further
      <3> QED
        BY <3>2 DEF Asked, Holds, Past
    <2>5. \A n \in DOMAIN Chain : Tickets(n)' \subseteq Tickets(n)
      BY <1>2, <2>1, <2>4
    <2>6. Limit' \in Int /\ Limit <= Limit' /\ Len(commands') = Len(commands)
      BY <2>1, LimitMoves
    <2>7. ASSUME NEW n \in DOMAIN Chain
          PROVE  Cardinality(Requests(n)') + Cardinality(Tickets(n)') <= Limit'
      <3>1. CASE Requests(n)' = Requests(n)
        BY <2>5, <2>6, <3>1, TicketsKept
      <3>2. ASSUME NEW v \in Workers, Send(v), n = worker[v].node,
                   Requests(n)' \subseteq Requests(n) \cup {Last + 1}
            PROVE  Cardinality(Requests(n)') + Cardinality(Tickets(n)') <= Limit'
        <4> DEFINE c == worker[v].command
                   a == worker[v].attempt
                   y == <<c, a>>
        <4>1. /\ worker[v].step = "STARTED" /\ Holds(worker[v]) /\ c \in DOMAIN commands
              /\ commands[c] = [place |-> "HELD", attempt |-> a] /\ a \in 0..MaxRetries
          BY <1>0, <3>2 DEF Send, At, Inv, WorkerInv, Fits, Holds, Free, WorkerType
        <4>2. n \in Nat /\ n = worker[v].node
          BY <3>2, Known
        <4>3. ~Past(worker[v], n)
          BY <4>1, <4>2 DEF Past
        <4>4. ~Asked(c, n)
          BY <4>1, <4>3 DEF Asked, Inv, HoldInv
        <4>5. y \in Tickets(n)
          BY <4>1, <4>4 DEF Tickets
        <4>6. worker'[v].step = "WAITING" /\ worker'[v].command = c /\ worker'[v].node = n
          BY <1>0, <3>2 DEF Send, WorkerType
        <4>7. \A d : d = c => Asked(d, n)'
          BY <4>2, <4>6 DEF Asked, Holds, Free, Past
        <4>8. \A p \in Tickets(n)' : p # y
          BY <2>1, <4>1, <4>7 DEF Tickets
        <4>9. Tickets(n)' \subseteq Tickets(n) \ {y}
          BY <2>5, <4>8
        <4> HIDE DEF y
        <4> QED
          BY <2>6, <3>2, <4>5, <4>9, TicketsKept
      <3> QED
        BY <3>1, <3>2, RequestsKeep
    <2> QED
      BY <1>3, <2>6, <2>7
  <1>6. ASSUME NEW w \in Workers, Turns(w) PROVE TicketInv'
    <2>1. PICK u \in WorkerType : worker' = [worker EXCEPT ![w] = u]
      BY <1>6, TurnsOver
    <2>2. \A x \in Workers : x # w => worker'[x] = worker[x]
      BY <1>0, <2>1
    <2>3. \A n \in DOMAIN Chain : Requests(n)' = Requests(n)
      BY <1>6, TurnsOver DEF Requests, Last
    <2>4. ASSUME NEW n \in DOMAIN Chain, NEW c, Asked(c, n),
                 Holds(worker[w]) => worker[w].command # c
          PROVE  Asked(c, n)'
      BY <1>1, <2>2, <2>4
    <2>5. CASE UNCHANGED commands /\ ~Holds(worker[w])
      <3>1. \A n \in DOMAIN Chain : Tickets(n)' \subseteq Tickets(n)
        BY <1>2, <2>4, <2>5
      <3>2. Limit' \in Int /\ Limit <= Limit' /\ Len(commands') = Len(commands)
        BY <2>5, LimitMoves
      <3>3. \A n \in DOMAIN Chain :
              Cardinality(Requests(n)') + Cardinality(Tickets(n)') <= Limit'
        BY <2>3, <3>1, <3>2, TicketsKept
      <3> QED
        BY <1>3, <3>2, <3>3
    <2>6. CASE /\ DeliverAny(w)
               /\ Len(commands') = Len(commands) /\ DOMAIN commands' = DOMAIN commands
               /\ \A c \in DOMAIN commands :
                    /\ commands'[c].attempt = commands[c].attempt
                    /\ commands'[c].place # "DONE" <=> commands[c].place # "DONE"
      <3>0. ~Holds(worker[w])
        BY <2>6 DEF DeliverAny, Deliver, Idle, Holds, Free
      <3>1. \A n \in DOMAIN Chain : Tickets(n)' \subseteq Tickets(n)
        BY <2>4, <2>6, <3>0, SMTT(30) DEF Tickets
      <3>2. Limit' \in Int /\ Limit <= Limit'
        BY <2>6, LimitMoves
      <3>3. \A n \in DOMAIN Chain :
              Cardinality(Requests(n)') + Cardinality(Tickets(n)') <= Limit'
        BY <2>3, <3>1, <3>2, TicketsKept
      <3> QED
        BY <1>3, <2>6, <3>3
    <2>7. CASE /\ Crash(w) /\ worker[w].step = "RETRIED"
               /\ Len(commands') = Len(commands) + 1
               /\ DOMAIN commands' = DOMAIN commands \cup {Len(commands) + 1}
               /\ \A c \in DOMAIN commands : commands'[c] = commands[c]
      <3>0. ~Holds(worker[w])
        BY <2>7 DEF Holds, Free
      <3>1. \A n \in DOMAIN Chain :
              Tickets(n)' \subseteq Tickets(n) \cup ({Len(commands) + 1} \X (0..MaxRetries))
        BY <2>4, <2>7, <3>0 DEF Tickets
      <3>2. Limit' \in Int /\ Limit + (MaxRetries + 1) <= Limit'
        BY <2>7, LimitMoves
      <3>3. \A n \in DOMAIN Chain :
              Cardinality(Requests(n)') + Cardinality(Tickets(n)') <= Limit'
        BY <2>3, <3>1, <3>2, TicketsKept
      <3> QED
        BY <1>0, <2>7, <3>3 DEF TicketInv
    <2>8. CASE /\ Holds(worker[w]) /\ worker[w].command \in DOMAIN commands
               /\ Len(commands') = Len(commands) /\ DOMAIN commands' = DOMAIN commands
               /\ \A c \in DOMAIN commands : c # worker[w].command => commands'[c] = commands[c]
               /\ LET k == commands'[worker[w].command] IN
                  \/ Retry(w) /\ k.attempt = worker[w].attempt + 1
                  \/ Acknowledge(w) /\ k.place = "DONE"
                  \/ (Nack(w) \/ Crash(w)) /\ k.attempt = worker[w].attempt
      <3> DEFINE held == worker[w].command
                 a == worker[w].attempt
                 k == commands'[held]
      <3>1. commands[held].place = "HELD" /\ commands[held].attempt = a /\ a \in 0..MaxRetries
        <4>1. worker[w] \in WorkerType /\ Fits(worker[w]) /\ Holds(worker[w])
          BY <1>0, <2>8 DEF Inv, WorkerInv
        <4>2. commands[held] = [place |-> "HELD", attempt |-> a]
          BY <4>1 DEF Fits
        <4>3. a \in 0..MaxRetries
          BY <4>1 DEF WorkerType
        <4> QED
          BY <4>2, <4>3
      <3>2. ASSUME NEW n \in DOMAIN Chain, NEW p \in Tickets(n)', p[1] # held
            PROVE  p \in Tickets(n)
        BY <2>4, <2>8, <3>2 DEF Tickets
      <3>3. ASSUME NEW n \in DOMAIN Chain, NEW p \in Tickets(n)', p[1] = held
            PROVE  /\ p \in (DOMAIN commands) \X (0..MaxRetries)
                   /\ k.place # "DONE" /\ k.attempt <= p[2]
        BY <2>8, <3>3 DEF Tickets
      <3>4. ASSUME NEW n \in DOMAIN Chain, NEW p \in (DOMAIN commands) \X (0..MaxRetries),
                   p[1] = held, a <= p[2], a # p[2]
            PROVE  p \in Tickets(n)
        BY <3>1, <3>4, SMTT(30) DEF Tickets
      <3>5. Limit' \in Int /\ Limit <= Limit'
        BY <2>8, LimitMoves
      <3>6. CASE (Retry(w) /\ k.attempt = a + 1) \/ (Acknowledge(w) /\ k.place = "DONE")
        <4>1. ASSUME NEW n \in DOMAIN Chain, NEW p \in Tickets(n)', p[1] = held
              PROVE  p \in Tickets(n)
          <5>1. /\ p \in (DOMAIN commands) \X (0..MaxRetries) /\ k.attempt = a + 1
                /\ a + 1 <= p[2] /\ p[2] \in 0..MaxRetries
            BY <3>3, <3>6, <4>1
          <5>2. a <= p[2] /\ a # p[2]
            BY <3>1, <5>1, Known
          <5> QED
            BY <3>4, <4>1, <5>1, <5>2
        <4>2. \A n \in DOMAIN Chain : Tickets(n)' \subseteq Tickets(n)
          BY <3>2, <4>1
        <4>3. \A n \in DOMAIN Chain :
                Cardinality(Requests(n)') + Cardinality(Tickets(n)') <= Limit'
          BY <2>3, <3>5, <4>2, TicketsKept
        <4> QED
          BY <1>3, <2>8, <4>3
      <3>7. CASE (Nack(w) \/ Crash(w)) /\ k.attempt = a
        <4> DEFINE y == <<held, a>>
        <4>1. ASSUME NEW n \in DOMAIN Chain, NEW p \in Tickets(n)', p[1] = held, p # y
              PROVE  p \in Tickets(n)
          <5>1. /\ p \in (DOMAIN commands) \X (0..MaxRetries) /\ a <= p[2]
            BY <3>3, <3>7, <4>1
          <5>2. p = <<p[1], p[2]>>
            BY <5>1
          <5>3. a # p[2]
            BY <4>1, <5>2
          <5> QED
            BY <3>4, <4>1, <5>1, <5>3
        <4>2. \A n \in DOMAIN Chain : Tickets(n)' \subseteq Tickets(n) \cup {y}
          BY <3>2, <4>1
        <4>3. Limit + 1 <= Limit'
          BY <2>8, <3>7, LimitMoves
        <4> HIDE DEF y
        <4>4. \A n \in DOMAIN Chain :
                Cardinality(Requests(n)') + Cardinality(Tickets(n)') <= Limit'
          BY <2>3, <3>5, <4>2, <4>3, TicketsKept
        <4> QED
          BY <1>3, <2>8, <4>4
      <3> QED
        BY <2>8, <3>6, <3>7
    <2> QED
      BY <1>6, <2>5, <2>6, <2>7, <2>8, CommandsKeep
  <1>7. CASE /\ Outside \/ RemoveCredential \/ UNCHANGED vars
             /\ UNCHANGED <<commands, worker, traces, spent>>
    <2>1. \A n \in DOMAIN Chain : Tickets(n)' \subseteq Tickets(n)
      BY <1>2, <1>7 DEF Asked
    <2>2. \A n \in DOMAIN Chain : Requests(n)' = Requests(n)
      BY <1>7, OutsideKeeps DEF Requests, Last, RemoveCredential, vars
    <2>3. Limit' \in Int /\ Limit <= Limit' /\ Len(commands') = Len(commands)
      BY <1>7, LimitMoves
    <2>4. \A n \in DOMAIN Chain :
            Cardinality(Requests(n)') + Cardinality(Tickets(n)') <= Limit'
      BY <2>1, <2>2, <2>3, TicketsKept
    <2> QED
      BY <1>3, <2>3, <2>4
  <1> QED
    BY <1>5, <1>6, <1>7, Kinds

LEMMA InitTicket == Init => TicketInv
  <1> SUFFICES ASSUME Init PROVE TicketInv
    OBVIOUS
  <1>1. /\ commands = <<[place |-> "QUEUE", attempt |-> 0]>> /\ Last = 0
        /\ spent.crashes = 0 /\ spent.failures = 0
    BY DEF Init, Bounds, Last
  <1>2. Len(commands) = 1 /\ DOMAIN commands = {1} /\ MaxRetries \in Nat
    BY <1>1, ChainDomain
  <1>3. IsFiniteSet(0..MaxRetries) /\ Cardinality(0..MaxRetries) = MaxRetries + 1
    BY <1>2, FS_Interval
  <1>4. IsFiniteSet({1} \X (0..MaxRetries)) /\ Cardinality({1} \X (0..MaxRetries)) = MaxRetries + 1
    <2>1. IsFiniteSet({1}) /\ Cardinality({1}) = 1
      BY FS_Singleton
    <2>2. /\ IsFiniteSet({1} \X (0..MaxRetries))
          /\ Cardinality({1} \X (0..MaxRetries)) = Cardinality({1}) * Cardinality(0..MaxRetries)
      BY <1>3, <2>1, FS_Product
    <2> QED
      BY <1>2, <1>3, <2>1, <2>2
  <1>5. ASSUME NEW n \in DOMAIN Chain
        PROVE  Cardinality(Requests(n)) + Cardinality(Tickets(n)) <= Limit
    <2>1. Requests(n) = {} /\ Tickets(n) \subseteq {1} \X (0..MaxRetries)
      BY <1>1, <1>2 DEF Requests, Tickets
    <2>2. Cardinality(Requests(n)) = 0
      BY <2>1, FS_EmptySet
    <2>3. IsFiniteSet(Tickets(n)) /\ Cardinality(Tickets(n)) <= MaxRetries + 1
      BY <1>4, <2>1, FS_Subset
    <2>4. Cardinality(Tickets(n)) \in Nat
      BY <2>3, FS_CardinalityType
    <2>5. Limit = MaxRetries + 1
      BY <1>1, <1>2 DEF Limit
    <2> QED
      BY <1>2, <2>2, <2>3, <2>4, <2>5
  <1> QED
    BY <1>1, <1>2, <1>5 DEF TicketInv

\* A node is asked once per attempt of each copy of the command, and once more
\* for each crash and each failed statement that puts a copy back: the retries,
\* the requeues and the redeliveries of the execution worker.
THEOREM CallsStayBounded == Spec => []CallsAreBounded
  <1>1. Inv /\ TicketInv => CallsAreBounded
    <2> SUFFICES ASSUME Inv, TicketInv PROVE CallsAreBounded
      OBVIOUS
    <2>1. ASSUME NEW n \in DOMAIN Chain PROVE Cardinality(Requests(n)) <= Limit
      <3>1. /\ IsFiniteSet(1..Last) /\ IsFiniteSet(DOMAIN commands) /\ IsFiniteSet(0..MaxRetries)
        BY FS_Interval, Known
      <3>2. /\ Requests(n) \subseteq 1..Last
            /\ Tickets(n) \subseteq (DOMAIN commands) \X (0..MaxRetries)
        BY DEF Requests, Tickets
      <3>3. IsFiniteSet(Requests(n)) /\ IsFiniteSet(Tickets(n))
        BY <3>1, <3>2, FS_Product, FS_Subset
      <3>4. Cardinality(Requests(n)) \in Nat /\ Cardinality(Tickets(n)) \in Nat /\ Limit \in Int
        BY <3>3, FS_CardinalityType, Known DEF Limit
      <3> QED
        BY <3>4 DEF TicketInv
    <2> QED
      BY <2>1 DEF TicketInv, CallsAreBounded, Limit
  <1>2. Spec => []TicketInv
    BY InitTicket, InitInv, TicketNext, NextInv, PTL DEF Spec
  <1> QED
    BY <1>1, <1>2, InvHolds, PTL

----------------------------------------------------------------------------
(* Final answers.                                                          *)

LEMMA HeldIsHopeful ==
  ASSUME Inv, NEW w \in Workers, Holds(worker[w]), worker[w].failure \notin FinalAnswers
  PROVE  worker[w].command \in Hopeful
  <1>1. /\ worker[w].command \in DOMAIN commands
        /\ commands[worker[w].command] = [place |-> "HELD", attempt |-> worker[w].attempt]
    BY DEF Inv, WorkerInv, Fits
  <1>2. commands[worker[w].command].place = "HELD"
    BY <1>1
  <1>3. \A x \in Workers : Holds(worker[x]) /\ worker[x].command = worker[w].command => x = w
    BY DEF Inv, HoldInv
  <1> QED
    BY <1>1, <1>2, <1>3 DEF Hopeful

Faults == spent.crashes + spent.failures

\* A final answer takes its copy's hope, which only a fault gives back.
LEMMA FinalMoves ==
  ASSUME Inv, [Next]_vars
  PROVE  \/ /\ FinalCalls' \subseteq FinalCalls /\ Hopeful' \subseteq Hopeful
            /\ Last' = Last \/ \E w \in Workers : Send(w)
         \/ \E w \in Workers :
              /\ Receive(w) /\ FinalCalls' \subseteq FinalCalls \cup {worker[w].call}
              /\ worker[w].command \in Hopeful
              /\ Hopeful' \subseteq Hopeful \ {worker[w].command}
         \/ /\ Faults + 1 <= Faults' /\ FinalCalls' \subseteq FinalCalls
            /\ \E y : Hopeful' \subseteq Hopeful \cup {y}
  <1> DEFINE Goal ==
         \/ /\ FinalCalls' \subseteq FinalCalls /\ Hopeful' \subseteq Hopeful
            /\ Last' = Last \/ \E w \in Workers : Send(w)
         \/ \E w \in Workers :
              /\ Receive(w) /\ FinalCalls' \subseteq FinalCalls \cup {worker[w].call}
              /\ worker[w].command \in Hopeful
              /\ Hopeful' \subseteq Hopeful \ {worker[w].command}
         \/ /\ Faults + 1 <= Faults' /\ FinalCalls' \subseteq FinalCalls
            /\ \E y : Hopeful' \subseteq Hopeful \cup {y}
  <1>0. worker \in [Workers -> WorkerType] /\ Last \in Nat
    BY Known
  <1>1. UNCHANGED calls => FinalCalls' = FinalCalls /\ Last' = Last
    BY DEF FinalCalls, Final, Last
  <1>2. ASSUME NEW w \in Workers, StatementThrows(w) \/ Nack(w) \/ Crash(w)
        PROVE  Faults + 1 <= Faults'
    <2>1. /\ spent.crashes \in Nat /\ spent.failures \in Nat
          /\ spent'.crashes \in Nat /\ spent'.failures \in Nat
          /\ \/ spent'.failures = spent.failures + 1 /\ spent'.crashes = spent.crashes
             \/ spent'.crashes = spent.crashes + 1 /\ spent'.failures = spent.failures
      BY <1>2, Known, Costs
    <2> QED
      BY <2>1 DEF Faults
  <1>3. ASSUME NEW w \in Workers, Advance(w) PROVE Goal
    <2>1. UNCHANGED commands
      BY <1>3 DEF Advance, FindExecution, StartNode, Send, Receive, Abort, CompleteNode,
           TraceSuccess, ReportCompleted, FailNode, TraceFailure, ReportFailed, Succeed,
           FailExecution, StatementThrows
    <2>2. PICK u \in WorkerType :
            /\ worker' = [worker EXCEPT ![w] = u] /\ Further(worker[w], u)
            /\ Receive(w) => (u.failure \in FinalAnswers <=> calls[worker[w].call].answer \in FinalAnswers)
            /\ \/ StatementThrows(w) \/ Receive(w)
               \/ u.failure \in FinalAnswers <=> worker[w].failure \in FinalAnswers
      BY <1>3, Advances
    <2>3. /\ worker'[w] = u /\ \A x \in Workers : x # w => worker'[x] = worker[x]
          /\ Holds(worker[w]) /\ Holds(u) /\ u.command = worker[w].command
      BY <1>0, <2>2 DEF Further
    \* Hope comes back where the failure of w is forgotten.
    <2>4. Hopeful' \subseteq Hopeful \cup {worker[w].command}
      BY <2>1, <2>3 DEF Hopeful, Holds
    <2>5. worker[w].failure \notin FinalAnswers \/ u.failure \in FinalAnswers =>
            Hopeful' \subseteq Hopeful
      BY <2>1, <2>3 DEF Hopeful, Holds
    <2>6. CASE StatementThrows(w)
      <3>1. FinalCalls' = FinalCalls
        BY <1>1, <2>6 DEF StatementThrows
      <3> QED
        BY <1>2, <2>4, <2>6, <3>1
    <2>7. CASE Receive(w)
      <3>1. worker[w].failure = "NONE"
        BY <2>7 DEF Receive, At, Inv, WorkerInv, Fits, Failing
      <3>2. worker[w].failure \notin FinalAnswers
        BY <3>1 DEF FinalAnswers
      <3>3. worker[w].command \in Hopeful /\ Hopeful' \subseteq Hopeful
        BY <2>3, <2>5, <3>2, HeldIsHopeful
      <3>4. FinalCalls' \subseteq FinalCalls \cup {worker[w].call} /\ Last' = Last
        BY <2>7, ReceiveKeeps DEF FinalCalls, Final
      <3>5. CASE calls[worker[w].call].answer \in FinalAnswers
        <4>1. u.failure \in FinalAnswers
          BY <2>2, <2>7, <3>5
        <4>2. worker[w].command \notin Hopeful'
          BY <2>3, <4>1 DEF Hopeful, Holds
        <4> QED
          BY <2>7, <3>3, <3>4, <4>2
      <3>6. CASE calls[worker[w].call].answer \notin FinalAnswers
        <4>1. FinalCalls' \subseteq FinalCalls
          BY <2>7, <3>6, ReceiveKeeps DEF FinalCalls, Final, FinalAnswers
        <4> QED
          BY <3>3, <3>4, <4>1
      <3> QED
        BY <3>5, <3>6
    <2>8. CASE ~StatementThrows(w) /\ ~Receive(w)
      <3>1. Hopeful' \subseteq Hopeful
        BY <2>2, <2>5, <2>8
      <3>2. CASE Send(w)
        <4> DEFINE v == [node |-> worker[w].node, command |-> worker[w].command,
                         step |-> "RECEIVED", answer |-> "NONE", done |-> FALSE]
        <4>1. calls' = Append(calls, v) /\ v.step = "RECEIVED"
          BY <3>2 DEF Send
        <4> HIDE DEF v
        <4>2. /\ Last' = Last + 1 /\ calls'[Last + 1] = v
              /\ \A j \in 1..Last : calls'[j] = calls[j]
          BY <4>1, Known DEF Last
        <4>3. \A j \in 1..(Last + 1) : j \in 1..Last \/ j = Last + 1
          BY <1>0
        <4>4. FinalCalls' \subseteq FinalCalls
          BY <4>1, <4>2, <4>3 DEF FinalCalls, Final
        <4> QED
          BY <3>1, <3>2, <4>4
      <3>3. CASE ~Send(w)
        <4>1. UNCHANGED calls
          BY <1>3, <2>8, <3>3 DEF Advance, FindExecution, StartNode, Abort, CompleteNode,
               TraceSuccess, ReportCompleted, FailNode, TraceFailure, ReportFailed, Succeed,
               FailExecution
        <4> QED
          BY <1>1, <3>1, <4>1
      <3> QED
        BY <3>2, <3>3
    <2> QED
      BY <2>6, <2>7, <2>8
  <1>4. ASSUME NEW w \in Workers, Turns(w) PROVE Goal
    <2>1. PICK u \in WorkerType : worker' = [worker EXCEPT ![w] = u]
      BY <1>4, TurnsOver
    <2>2. \A x \in Workers : x # w => worker'[x] = worker[x]
      BY <1>0, <2>1
    <2>3. FinalCalls' = FinalCalls /\ Last' = Last
      BY <1>1, <1>4, TurnsOver
    <2>4. CASE UNCHANGED commands /\ ~Holds(worker[w])
      <3>1. Hopeful' \subseteq Hopeful
        BY <2>2, <2>4 DEF Hopeful, Holds
      <3> QED
        BY <2>3, <3>1
    <2>5. CASE /\ DeliverAny(w) /\ DOMAIN commands' = DOMAIN commands
               /\ \A c \in DOMAIN commands : commands'[c].place # "DONE" <=> commands[c].place # "DONE"
      <3>1. ~Holds(worker[w])
        BY <2>5 DEF DeliverAny, Deliver, Idle, Holds, Free
      <3>2. Hopeful' \subseteq Hopeful
        BY <2>2, <2>5, <3>1 DEF Hopeful, Holds
      <3> QED
        BY <2>3, <3>2
    <2>6. CASE /\ Crash(w) /\ worker[w].step = "RETRIED"
               /\ DOMAIN commands' = DOMAIN commands \cup {Len(commands) + 1}
               /\ \A c \in DOMAIN commands : commands'[c] = commands[c]
      <3>1. ~Holds(worker[w])
        BY <2>6 DEF Holds, Free
      <3>2. Hopeful' \subseteq Hopeful \cup {Len(commands) + 1}
        BY <2>2, <2>6, <3>1 DEF Hopeful, Holds
      <3> QED
        BY <1>2, <2>3, <2>6, <3>2
    <2>7. CASE /\ Holds(worker[w]) /\ DOMAIN commands' = DOMAIN commands
               /\ \A c \in DOMAIN commands : c # worker[w].command => commands'[c] = commands[c]
               /\ \/ Retry(w) /\ worker[w].failure \notin FinalAnswers
                  \/ Acknowledge(w) /\ commands'[worker[w].command].place = "DONE"
                  \/ Nack(w) \/ Crash(w)
      <3>1. Hopeful' \subseteq Hopeful \cup {worker[w].command}
        BY <2>2, <2>7 DEF Hopeful, Holds
      <3>2. CASE Retry(w) /\ worker[w].failure \notin FinalAnswers
        BY <2>3, <2>7, <3>1, <3>2, HeldIsHopeful
      <3>3. CASE commands'[worker[w].command].place = "DONE"
        <4>1. Hopeful' \subseteq Hopeful
          BY <3>1, <3>3 DEF Hopeful
        <4> QED
          BY <2>3, <4>1
      <3>4. CASE Nack(w) \/ Crash(w)
        BY <1>2, <2>3, <3>1, <3>4
      <3> QED
        BY <2>7, <3>2, <3>3, <3>4
    <2> QED
      BY <1>4, <2>4, <2>5, <2>6, <2>7, CommandsKeep
  <1>5. CASE /\ Outside \/ RemoveCredential \/ UNCHANGED vars
             /\ UNCHANGED <<commands, worker, traces, spent>>
    <2>1. Hopeful' = Hopeful
      BY <1>5 DEF Hopeful
    <2>2. CASE Outside
      <3>1. FinalCalls' \subseteq FinalCalls /\ Last' = Last
        BY <2>2, OutsideKeeps DEF FinalCalls, Final
      <3> QED
        BY <2>1, <3>1
    <2>3. CASE RemoveCredential \/ UNCHANGED vars
      <3>1. UNCHANGED calls
        BY <2>3 DEF RemoveCredential, vars
      <3> QED
        BY <1>1, <2>1, <3>1
    <2> QED
      BY <1>5, <2>2, <2>3
  <1> QED
    BY <1>3, <1>4, <1>5, Kinds

LEMMA FinalNext == Inv /\ TicketInv /\ FinalInv /\ EndInv /\ [Next]_vars => FinalInv' /\ EndInv'
  <1> SUFFICES ASSUME Inv, TicketInv, FinalInv, EndInv, [Next]_vars PROVE FinalInv' /\ EndInv'
    OBVIOUS
  <1>0. /\ Faults \in Nat /\ Faults' \in Nat /\ Faults <= Faults' /\ Last \in Nat
        /\ 1 + Faults = 1 + spent.crashes + spent.failures
        /\ 1 + Faults' = 1 + spent'.crashes + spent'.failures
    <2>1. /\ spent.crashes \in Nat /\ spent.failures \in Nat /\ Last \in Nat
          /\ spent'.crashes \in Nat /\ spent'.failures \in Nat
          /\ spent.crashes <= spent'.crashes /\ spent.failures <= spent'.failures
      BY Known, Costs
    <2> QED
      BY <2>1 DEF Faults
  <1>1. IsFiniteSet(FinalCalls) /\ IsFiniteSet(Hopeful)
    <2>1. IsFiniteSet(1..Last) /\ IsFiniteSet(DOMAIN commands)
      BY FS_Interval, Known
    <2>2. FinalCalls \subseteq 1..Last /\ Hopeful \subseteq DOMAIN commands
      BY DEF FinalCalls, Hopeful
    <2> QED
      BY <2>1, <2>2, FS_Subset
  <1>2. /\ Cardinality(FinalCalls) \in Nat /\ Cardinality(Hopeful) \in Nat
        /\ Cardinality(FinalCalls) + Cardinality(Hopeful) <= 1 + Faults
    BY <1>0, <1>1, FS_CardinalityType DEF FinalInv
  \* Who may yet be told something final was not told it, unless faults occurred.
  <1>3. ASSUME Faults = 0, Hopeful # {} PROVE FinalCalls = {}
    BY <1>3 DEF EndInv, Faults, FinalCalls
  <1>4. EndInv' <=> (Faults' = 0 => \A i \in FinalCalls' : i = Last' /\ Hopeful' = {})
    BY DEF EndInv, Faults, FinalCalls
  <1>5. CASE /\ FinalCalls' \subseteq FinalCalls /\ Hopeful' \subseteq Hopeful
             /\ Last' = Last \/ \E w \in Workers : Send(w)
    <2>1. /\ IsFiniteSet(FinalCalls') /\ Cardinality(FinalCalls') <= Cardinality(FinalCalls)
          /\ IsFiniteSet(Hopeful') /\ Cardinality(Hopeful') <= Cardinality(Hopeful)
      BY <1>1, <1>5, Smaller
    <2>2. Cardinality(FinalCalls') \in Nat /\ Cardinality(Hopeful') \in Nat
      BY <2>1, FS_CardinalityType
    <2>3. FinalInv'
      BY <1>0, <1>2, <2>1, <2>2 DEF FinalInv
    <2>4. ASSUME Faults = 0, NEW i \in FinalCalls' PROVE i = Last' /\ Hopeful' = {}
      <3>1. i \in FinalCalls /\ i = Last /\ Hopeful = {}
        BY <1>5, <2>4 DEF EndInv, Faults, FinalCalls
      <3>2. ASSUME NEW w \in Workers, Send(w) PROVE FALSE
        <4>1. Holds(worker[w]) /\ worker[w].failure = "NONE"
          BY <3>2 DEF Send, At, Holds, Free, Inv, WorkerInv, Fits, Failing
        <4> QED
          BY <3>1, <4>1, HeldIsHopeful DEF FinalAnswers
      <3> QED
        BY <1>5, <3>1, <3>2
    <2> QED
      BY <1>0, <1>4, <2>3, <2>4
  <1>6. ASSUME NEW w \in Workers, Receive(w),
               FinalCalls' \subseteq FinalCalls \cup {worker[w].call},
               worker[w].command \in Hopeful,
               Hopeful' \subseteq Hopeful \ {worker[w].command}
        PROVE  FinalInv' /\ EndInv'
    <2>1. /\ IsFiniteSet(FinalCalls') /\ Cardinality(FinalCalls') <= Cardinality(FinalCalls) + 1
          /\ IsFiniteSet(Hopeful') /\ Cardinality(Hopeful') <= Cardinality(Hopeful) - 1
      <3>1. IsFiniteSet(FinalCalls') /\ Cardinality(FinalCalls') <= Cardinality(FinalCalls) + 1
        BY <1>1, <1>6, Smaller
      <3>2. IsFiniteSet(Hopeful') /\ Cardinality(Hopeful') <= Cardinality(Hopeful) - 1
        BY <1>1, <1>6, Smaller
      <3> QED
        BY <3>1, <3>2
    <2>2. Cardinality(FinalCalls') \in Nat /\ Cardinality(Hopeful') \in Nat
      BY <2>1, FS_CardinalityType
    <2>3. FinalInv'
      BY <1>0, <1>2, <2>1, <2>2 DEF FinalInv
    <2>4. ASSUME Faults = 0, NEW i \in FinalCalls' PROVE i = Last' /\ Hopeful' = {}
      <3>1. FinalCalls = {} /\ i = worker[w].call
        BY <1>3, <1>6, <2>4
      \* There is one copy of the command, and its last request is the last.
      <3>2. Len(commands) = 1 /\ DOMAIN commands = {1}
        <4>1. Len(commands) \in Nat /\ DOMAIN commands = 1..Len(commands) /\ spent.crashes = 0
          BY <2>4, Known DEF Faults
        <4> QED
          BY <4>1 DEF TicketInv
      <3>3. /\ worker[w].command = 1 /\ Current(worker[w])
            /\ \A j \in 1..Last : calls[j].command = 1
        BY <1>6, <3>2 DEF Hopeful, Receive, At, Inv, WorkerInv, Fits, Calling, CallInv
      <3>4. worker[w].call = Last
        BY <1>0, <3>3 DEF Current
      <3>5. Hopeful' = {}
        BY <1>6, <3>2, <3>3 DEF Hopeful
      <3> QED
        BY <1>6, <3>1, <3>4, <3>5, ReceiveKeeps
    <2> QED
      BY <1>0, <1>4, <2>3, <2>4
  <1>7. ASSUME Faults + 1 <= Faults', FinalCalls' \subseteq FinalCalls,
               NEW y, Hopeful' \subseteq Hopeful \cup {y}
        PROVE  FinalInv' /\ EndInv'
    <2>1. /\ IsFiniteSet(FinalCalls') /\ Cardinality(FinalCalls') <= Cardinality(FinalCalls)
          /\ IsFiniteSet(Hopeful') /\ Cardinality(Hopeful') <= Cardinality(Hopeful) + 1
      BY <1>1, <1>7, Smaller
    <2>2. Cardinality(FinalCalls') \in Nat /\ Cardinality(Hopeful') \in Nat
      BY <2>1, FS_CardinalityType
    <2> QED
      BY <1>0, <1>2, <1>4, <1>7, <2>1, <2>2 DEF FinalInv
  <1> QED
    BY <1>5, <1>6, <1>7, FinalMoves

LEMMA InitFinal == Init => FinalInv /\ EndInv
  <1> SUFFICES ASSUME Init PROVE FinalInv /\ EndInv
    OBVIOUS
  <1>1. /\ DOMAIN commands = {1} /\ Last = 0 /\ spent.crashes = 0 /\ spent.failures = 0
    BY DEF Init, Bounds, Last
  <1>2. FinalCalls = {} /\ Hopeful \subseteq {1}
    BY <1>1 DEF FinalCalls, Hopeful
  <1>3. Cardinality(FinalCalls) = 0 /\ IsFiniteSet({1}) /\ Cardinality({1}) = 1
    BY <1>2, FS_EmptySet, FS_Singleton
  <1>4. IsFiniteSet(Hopeful) /\ Cardinality(Hopeful) <= 1
    <2>1. Hopeful \in SUBSET {1}
      BY <1>2
    <2>2. IsFiniteSet(Hopeful) /\ Cardinality(Hopeful) <= Cardinality({1})
      BY <1>3, <2>1, FS_Subset
    <2> QED
      BY <1>3, <2>2
  <1>5. Cardinality(Hopeful) \in Nat
    BY <1>4, FS_CardinalityType
  <1> QED
    BY <1>1, <1>2, <1>3, <1>4, <1>5 DEF FinalInv, EndInv, FinalCalls

\* A final answer ends the run unless a crash or a failed statement puts the
\* command back, and is repeated at most once for each of these: the error
\* classification, the catch blocks and the requeues of the execution worker.
THEOREM FinalAnswersAreFinal == Spec => []FinalAnswersEndTheRun
  <1>1. Inv /\ FinalInv /\ EndInv => FinalAnswersEndTheRun
    <2> SUFFICES ASSUME Inv, FinalInv, EndInv PROVE FinalAnswersEndTheRun
      OBVIOUS
    <2>1. IsFiniteSet(1..Last) /\ IsFiniteSet(DOMAIN commands)
      BY FS_Interval, Known
    <2>2. FinalCalls \subseteq 1..Last /\ Hopeful \subseteq DOMAIN commands
      BY DEF FinalCalls, Hopeful
    <2>3. IsFiniteSet(FinalCalls) /\ IsFiniteSet(Hopeful)
      BY <2>1, <2>2, FS_Subset
    <2>4. /\ Cardinality(FinalCalls) \in Nat /\ Cardinality(Hopeful) \in Nat
          /\ spent.crashes \in Nat /\ spent.failures \in Nat
      BY <2>3, FS_CardinalityType, Known
    <2>5. Cardinality(FinalCalls) <= 1 + spent.crashes + spent.failures
      BY <2>4 DEF FinalInv
    <2> QED
      BY <2>5 DEF FinalAnswersEndTheRun, FinalCalls, EndInv
  <1>2. Spec => [](FinalInv /\ EndInv)
    BY InitFinal, InitTicket, InitInv, FinalNext, TicketNext, NextInv, PTL DEF Spec
  <1> QED
    BY <1>1, <1>2, InvHolds, PTL

==============================================================================
