----------------------- MODULE ExecutionTimelineProofs -----------------------
(***************************************************************************)
(* Theorems about ExecutionTimeline, for every set of events, overlapping  *)
(* cycles and deliveries, and any number of failures and lost connections. *)
(***************************************************************************)
EXTENDS ExecutionTimeline, FiniteSetTheorems, SequenceTheorems, TLAPS

Steps == {"IDLE", "PUBLISH", "MARK_PUBLISHED", "MARK_FAILURE"}

\* A row of a batch, as the query read it.
Reads == [event : Events, row : Rows]

CycleStates == [step : Steps, batch : Seq(Reads)]

Messages == Events \cup Foreign

DeliveryStates == [step : {"IDLE", "HANDLE", "STORED"}, event : Messages \cup {"NONE"}]

\* What type correctness needs besides itself.
TypeInv ==
  /\ TypeOK
  /\ cycle \in [Cycles -> CycleStates]
  /\ slot \in [Slots -> DeliveryStates]
  /\ \A s \in Slots : slot[s].step # "IDLE" => slot[s].event \in Messages
  /\ announced \subseteq Foreign
  /\ spent \in [DOMAIN Bounds -> Nat]

-----------------------------------------------------------------------------
(* Messages.                                                               *)

EventPatterns == {OfAnyExecution, OfAnyNode, WorkflowCreated}

RetryBinding(attempt) == Bind(RetryQueues[attempt], "retry", {RetryRoutingKeys[attempt]})

EventBindings ==
  Bind(ServiceQueue, "events", EventPatterns)
    \cup Bind(AiTracesQueue, "events", {AiTraceCreated})
    \cup Bind(ObservabilityQueue, "events", EventPatterns)

RetryBindings == UNION {RetryBinding(attempt) : attempt \in 1..3}

BindingsOf(exchange) == {b \in Bindings : b.exchange = exchange}

\* The bindings of each exchange.
LEMMA BindingsOfEach ==
  /\ BindingsOf("commands") =
       Bind(WorkerQueue, "commands", {WorkflowExecutionRequested})
  /\ BindingsOf("dlx") =
       Bind(WorkerDeadLetters, "dlx", {WorkflowExecutionRequested})
  /\ BindingsOf("retry") =
       RetryBindings
  /\ BindingsOf("events") = EventBindings
<1>1. DOMAIN RetryQueues = 1..3
  BY DEF RetryQueues
<1>. QED
  BY <1>1 DEF Bindings, FlowPilotQueueBindings, ServiceBindings, WorkerBindings, Bind,
     BindingsOf, RetryBinding, EventPatterns, EventBindings, RetryBindings

\* One of the bindings leads from the key to the queue.
Leads(bindings, dest, key) ==
  \E b \in bindings : b.queue = dest /\ Matches(key, b.pattern)

\* The queues of an exchange, of a union, and of the bindings of one queue.
LEMMA RoutesOf ==
  ASSUME NEW exchange, NEW key, NEW dest
  PROVE  dest \in Routes(exchange, key) <=>
           Leads(BindingsOf(exchange), dest, key)
BY DEF Routes, Leads, BindingsOf

LEMMA LeadsOfUnion ==
  ASSUME NEW P, NEW Q, NEW dest, NEW key
  PROVE  Leads(P \cup Q, dest, key) <=> Leads(P, dest, key) \/ Leads(Q, dest, key)
BY DEF Leads

LEMMA LeadsOfBind ==
  ASSUME NEW bound, NEW exchange, NEW patterns, NEW key, NEW dest
  PROVE  Leads(Bind(bound, exchange, patterns), dest, key)
           <=> dest = bound /\ \E p \in patterns : Matches(key, p)
<1>1. ASSUME NEW b \in Bind(bound, exchange, patterns), b.queue = dest, Matches(key, b.pattern)
      PROVE  dest = bound /\ \E p \in patterns : Matches(key, p)
  <2>1. b.queue = bound /\ b.pattern \in patterns
    BY DEF Bind
  <2>. QED
    BY <1>1, <2>1
<1>2. ASSUME dest = bound, NEW p \in patterns, Matches(key, p)
      PROVE  Leads(Bind(bound, exchange, patterns), dest, key)
  <2>1. PICK b : b = [queue |-> bound, exchange |-> exchange, pattern |-> p]
    OBVIOUS
  <2>2. b \in Bind(bound, exchange, patterns) /\ b.queue = bound /\ b.pattern = p
    BY <2>1 DEF Bind
  <2>. QED
    BY <1>2, <2>2 DEF Leads
<1>. QED
  BY <1>1, <1>2 DEF Leads

\* Where the exchange of the events sends a message.
LEMMA EventRoutes ==
  ASSUME NEW key, NEW dest
  PROVE  dest \in Routes("events", key) <=>
           \/ dest \in {ServiceQueue, ObservabilityQueue}
              /\ \E p \in EventPatterns : Matches(key, p)
           \/ dest = AiTracesQueue /\ \E p \in {AiTraceCreated} : Matches(key, p)
<1>1. dest \in Routes("events", key) <=>
        \/ Leads(Bind(ServiceQueue, "events", EventPatterns), dest, key)
        \/ Leads(Bind(AiTracesQueue, "events", {AiTraceCreated}), dest, key)
        \/ Leads(Bind(ObservabilityQueue, "events", EventPatterns), dest, key)
  <2>1. dest \in Routes("events", key) <=> Leads(EventBindings, dest, key)
    BY BindingsOfEach, RoutesOf
  <2>. QED
    BY <2>1 DEF Leads, EventBindings
<1>. QED
  BY <1>1, LeadsOfBind

\* Which patterns a lifecycle event matches, and what does not match them.
LEMMA LifecycleMatches ==
  ASSUME NEW key \in WorkflowExecutionLifecycleEvents
  PROVE  /\ Matches(key, OfAnyExecution) \/ Matches(key, OfAnyNode)
         /\ ~Matches(key, AiTraceCreated)
BY DEF WorkflowExecutionLifecycleEvents, Matches, OfAnyExecution, OfAnyNode, AiTraceCreated,
     WorkflowExecutionStarted, WorkflowExecutionCompleted, WorkflowExecutionFailed,
     NodeExecutionStarted, NodeExecutionCompleted, NodeExecutionFailed

\* The other keys.
LEMMA OtherMatches ==
  /\ Matches(WorkflowCreated, WorkflowCreated) /\ ~Matches(WorkflowCreated, AiTraceCreated)
  /\ Matches(AiTraceCreated, AiTraceCreated)
  /\ \A p \in EventPatterns : ~Matches(AiTraceCreated, p)
  /\ Matches(WorkflowExecutionRequested, WorkflowExecutionRequested)
BY DEF Matches, OfAnyExecution, OfAnyNode, AiTraceCreated, WorkflowCreated, 
     WorkflowExecutionRequested, EventPatterns

\* A retry key matches the binding of its own queue only.
LEMMA RetryMatches ==
  \A i, j \in 1..3 : Matches(RetryRoutingKeys[i], RetryRoutingKeys[j]) <=> i = j
<1>1. \A i \in 1..3 : RetryRoutingKeys[i] = <<"workflow", "execution", "requested", "retry", RetryRoutingKeys[i][5]>>
  BY DEF RetryRoutingKeys
<1>2. \A i, j \in 1..3 : Matches(RetryRoutingKeys[i], RetryRoutingKeys[j]) <=> RetryRoutingKeys[j][5] \in {RetryRoutingKeys[i][5], "*"}
  BY <1>1 DEF Matches
<1>3. RetryRoutingKeys[1][5] = "10s" /\ RetryRoutingKeys[2][5] = "1m" /\ RetryRoutingKeys[3][5] = "5m"
  BY DEF RetryRoutingKeys
<1>. QED
  BY <1>2, <1>3

\* The workflow service takes every lifecycle event the worker makes.
LEMMA LifecycleIsAccepted ==
  ASSUME NEW m \in WorkerMessages, m.eventName # AiTraceCreated
  PROVE  /\ m.eventName \in WorkflowExecutionLifecycleEvents
         /\ IsWorkflowExecutionLifecycleMessage(m)
BY DEF WorkerMessages, WorkflowExecutionLifecycleEvents, IsWorkflowExecutionLifecycleMessage,
   IsEnvelope, OfWorker, Envelope, Producers, Strings, Numbers, Typed, OfExecution, OfNode,
   FlowPilotExecutionError, CreateWorkflowExecutionStartedMessage,
   CreateWorkflowExecutionCompletedMessage, CreateWorkflowExecutionFailedMessage,
   CreateNodeExecutionStartedMessage, CreateNodeExecutionCompletedMessage,
   CreateNodeExecutionFailedMessage, CreateAiTraceCreatedMessage,
   WorkflowExecutionStartedPayload, WorkflowExecutionCompletedPayload,
   WorkflowExecutionFailedPayload, NodeExecutionStartedPayload, NodeExecutionCompletedPayload,
   NodeExecutionFailedPayload, WorkflowExecutionStarted, WorkflowExecutionCompleted,
   WorkflowExecutionFailed, NodeExecutionStarted, NodeExecutionCompleted, NodeExecutionFailed

\* Every lifecycle event the worker makes is routed to the queue of the workflow service
\* and passes the check there; a trace goes to the observability service alone.  The two
\* files share the types of the messages but not the checks, which are written by hand
\* (apps/workflow-service/src/index.ts:144-209, messaging.topology.ts:16-57).
THEOREM EventsReachTheService ==
  /\ \A m \in WorkerMessages : m.eventName # AiTraceCreated =>
       /\ GetExchangeForRoutingKey(m.eventName) = "events"
       /\ Routes("events", m.eventName) = {ServiceQueue, ObservabilityQueue}
       /\ IsWorkflowExecutionLifecycleMessage(m)
  /\ Routes("events", AiTraceCreated) = {AiTracesQueue}
  /\ Routes("events", WorkflowCreated) = {ServiceQueue, ObservabilityQueue}
<1>1. ASSUME NEW m \in WorkerMessages, m.eventName # AiTraceCreated
      PROVE  /\ GetExchangeForRoutingKey(m.eventName) = "events"
             /\ Routes("events", m.eventName) = {ServiceQueue, ObservabilityQueue}
             /\ IsWorkflowExecutionLifecycleMessage(m)
  <2>1. PICK key \in WorkflowExecutionLifecycleEvents : key = m.eventName
    BY <1>1, LifecycleIsAccepted
  <2>2. GetExchangeForRoutingKey(key) = "events"
    BY DEF WorkflowExecutionLifecycleEvents, GetExchangeForRoutingKey, WorkflowExecutionRequested,
       WorkflowExecutionStarted, WorkflowExecutionCompleted, WorkflowExecutionFailed,
       NodeExecutionStarted, NodeExecutionCompleted, NodeExecutionFailed
  <2>3. /\ \E p \in EventPatterns : Matches(key, p)
        /\ ~\E p \in {AiTraceCreated} : Matches(key, p)
    BY LifecycleMatches DEF EventPatterns
  <2>. QED
    BY <1>1, <2>1, <2>2, <2>3, EventRoutes, LifecycleIsAccepted
<1>2. /\ \E p \in {AiTraceCreated} : Matches(AiTraceCreated, p)
      /\ ~\E p \in EventPatterns : Matches(AiTraceCreated, p)
      /\ \E p \in EventPatterns : Matches(WorkflowCreated, p)
      /\ ~\E p \in {AiTraceCreated} : Matches(WorkflowCreated, p)
  BY OtherMatches DEF EventPatterns
<1>3. /\ Routes("events", AiTraceCreated) = {AiTracesQueue}
      /\ Routes("events", WorkflowCreated) = {ServiceQueue, ObservabilityQueue}
  BY <1>2, EventRoutes
<1>. QED
  BY <1>1, <1>3

\* The command the API makes is routed to the worker and passes its check; each retry
\* waits in the queue of its attempt and comes back to the worker when its time is up;
\* a dead letter is kept (apps/execution-worker/src/index.ts:460-496, 1591-1727).
THEOREM CommandsReachTheWorker ==
  /\ IsWorkflowExecutionRequestedMessage(CreateWorkflowExecutionRequestedMessage)
  /\ LET key == CreateWorkflowExecutionRequestedMessage.eventName
     IN /\ Routes(GetExchangeForRoutingKey(key), key) = {WorkerQueue}
        /\ Routes("dlx", key) = {WorkerDeadLetters}
  /\ \A attempt \in DOMAIN RetryQueues :
       Routes("retry", RetryRoutingKeys[attempt]) = {RetryQueues[attempt]}
  /\ RoutesOfExpired = {WorkerQueue}
<1>1. IsWorkflowExecutionRequestedMessage(CreateWorkflowExecutionRequestedMessage)
  BY DEF IsWorkflowExecutionRequestedMessage, CreateWorkflowExecutionRequestedMessage, IsEnvelope,
     Envelope, WorkflowExecutionRequestedPayload, Strings, Numbers, Typed
<1>2. /\ Routes("commands", WorkflowExecutionRequested) = {WorkerQueue}
      /\ Routes("dlx", WorkflowExecutionRequested) = {WorkerDeadLetters}
  <2>1. \A q : q \in Routes("commands", WorkflowExecutionRequested) <=>
          q = WorkerQueue /\ \E p \in {WorkflowExecutionRequested} :
                                Matches(WorkflowExecutionRequested, p)
    BY BindingsOfEach, RoutesOf, LeadsOfBind
  <2>2. \A q : q \in Routes("dlx", WorkflowExecutionRequested) <=>
          q = WorkerDeadLetters /\ \E p \in {WorkflowExecutionRequested} :
                                      Matches(WorkflowExecutionRequested, p)
    BY BindingsOfEach, RoutesOf, LeadsOfBind
  <2>. QED
    BY <2>1, <2>2, OtherMatches
<1>3. ASSUME NEW attempt \in DOMAIN RetryQueues
      PROVE  Routes("retry", RetryRoutingKeys[attempt]) = {RetryQueues[attempt]}
  <2>1. DOMAIN RetryQueues = 1..3
    BY DEF RetryQueues
  <2>2. ASSUME NEW q
        PROVE  q \in Routes("retry", RetryRoutingKeys[attempt]) <=>
                 \E i \in 1..3 : q = RetryQueues[i]
                                 /\ Matches(RetryRoutingKeys[attempt], RetryRoutingKeys[i])
    <3>1. q \in Routes("retry", RetryRoutingKeys[attempt]) <=>
            Leads(RetryBindings,
                  q, RetryRoutingKeys[attempt])
      BY <2>1, BindingsOfEach, RoutesOf
    <3>2. Leads(RetryBindings,
                  q, RetryRoutingKeys[attempt])
            <=> \E i \in 1..3 : Leads(RetryBinding(i),
                                      q, RetryRoutingKeys[attempt])
      BY DEF Leads, RetryBindings
    <3>. QED
      BY <3>1, <3>2, LeadsOfBind DEF RetryBinding
  <2>. QED
    BY <2>1, <2>2, RetryMatches
<1>. QED
  BY <1>1, <1>2, <1>3 DEF GetExchangeForRoutingKey, CreateWorkflowExecutionRequestedMessage, Envelope, RoutesOfExpired

\* It refuses the creation of a workflow.
LEMMA CreatedIsRefused == ~IsWorkflowExecutionLifecycleMessage(CreateWorkflowCreatedMessage)
BY DEF IsWorkflowExecutionLifecycleMessage, CreateWorkflowCreatedMessage, Envelope,
   WorkflowExecutionLifecycleEvents, WorkflowCreated, WorkflowExecutionStarted,
   WorkflowExecutionCompleted, WorkflowExecutionFailed, NodeExecutionStarted,
   NodeExecutionCompleted, NodeExecutionFailed

\* What the queue is after a message was published, and which messages are stored.
LEMMA RoutedQueue ==
  ASSUME NEW m \in Messages
  PROVE  /\ Routed(m) \in {queue, Append(queue, m)}
         /\ m \in LifecycleEvents => Routed(m) = Append(queue, m)
         /\ m \in LifecycleEvents => IsWorkflowExecutionLifecycleMessage(Body(m))
         /\ IsWorkflowExecutionLifecycleMessage(Body(m)) => m \in Events
<1>1. ASSUME m \in LifecycleEvents
      PROVE  /\ Body(m).eventName \in WorkflowExecutionLifecycleEvents
             /\ IsWorkflowExecutionLifecycleMessage(Body(m))
  <2>1. Body(m) = Content[m] /\ Content[m] \in WorkerMessages
    BY <1>1, TimelineAssumption DEF LifecycleEvents, Body
  <2>2. Content[m].eventName # AiTraceCreated
    BY <1>1 DEF LifecycleEvents
  <2>. QED
    BY <2>1, <2>2, LifecycleIsAccepted
<1>2. m \in LifecycleEvents =>
        ServiceQueue \in Routes(GetExchangeForRoutingKey(Body(m).eventName), Body(m).eventName)
  BY EventsReachTheService, TimelineAssumption DEF LifecycleEvents, Body
<1>3. m \in Foreign => ~IsWorkflowExecutionLifecycleMessage(Body(m))
  BY CreatedIsRefused DEF Body
<1>. QED
  BY <1>1, <1>2, <1>3 DEF Routed, Messages

-----------------------------------------------------------------------------
(* Rows and sequences.                                                     *)

LEMMA RowTypes ==
  /\ AbsentRow \in Rows /\ NewRow \in Rows
  /\ \A r \in Rows : MarkPublished(r) \in Rows /\ MarkPublishFailure(r) \in Rows
BY DEF Rows, RowStatuses, AbsentRow, NewRow, MarkPublished, MarkPublishFailure

LEMMA ContainsAppend ==
  ASSUME NEW S, NEW s \in Seq(S), NEW x \in S
  PROVE  /\ Append(s, x) \in Seq(S)
         /\ \A e : Contains(Append(s, x), e) <=> Contains(s, e) \/ e = x
<1>1. /\ Append(s, x) \in Seq(S) /\ Len(Append(s, x)) = Len(s) + 1 /\ Len(s) \in Nat
      /\ \A i \in 1..Len(s) : Append(s, x)[i] = s[i]
      /\ Append(s, x)[Len(s) + 1] = x
  BY AppendProperties, LenProperties
<1>2. \A i : i \in 1..(Len(s) + 1) <=> i \in 1..Len(s) \/ i = Len(s) + 1
  BY <1>1
<1>. QED
  BY <1>1, <1>2 DEF Contains

LEMMA ContainsTail ==
  ASSUME NEW S, NEW s \in Seq(S), s # <<>>
  PROVE  /\ Tail(s) \in Seq(S) /\ Head(s) \in S
         /\ \A e : Contains(s, e) => e = Head(s) \/ Contains(Tail(s), e)
<1>1. /\ Tail(s) \in Seq(S) /\ Len(Tail(s)) = Len(s) - 1 /\ Head(s) = s[1] /\ Head(s) \in S
      /\ \A i \in 1..Len(Tail(s)) : Tail(s)[i] = s[i + 1]
      /\ Len(s) \in Nat
  BY HeadTailProperties, LenProperties
<1>2. \A i \in 1..Len(s) : i = 1 \/ (i - 1 \in 1..Len(Tail(s)) /\ (i - 1) + 1 = i)
  BY <1>1
<1>3. \A e : Contains(s, e) => e = Head(s) \/ Contains(Tail(s), e)
  <2>. SUFFICES ASSUME NEW e, NEW i \in 1..Len(s), s[i] = e, i # 1
                PROVE  Contains(Tail(s), e)
    BY <1>1 DEF Contains
  <2>1. Tail(s)[i - 1] = s[(i - 1) + 1] /\ i - 1 \in 1..Len(Tail(s))
    BY <1>1, <1>2
  <2>. QED
    BY <1>2, <2>1 DEF Contains
<1>. QED
  BY <1>1, <1>3

LEMMA ContainsConcat ==
  ASSUME NEW S, NEW s \in Seq(S), NEW t \in Seq(S)
  PROVE  /\ s \o t \in Seq(S)
         /\ \A e : Contains(s, e) \/ Contains(t, e) => Contains(s \o t, e)
<1>1. /\ s \o t \in Seq(S) /\ Len(s \o t) = Len(s) + Len(t)
      /\ \A i \in 1..(Len(s) + Len(t)) :
           (s \o t)[i] = IF i <= Len(s) THEN s[i] ELSE t[i - Len(s)]
      /\ Len(s) \in Nat /\ Len(t) \in Nat
  BY ConcatProperties, LenProperties
<1>2. ASSUME NEW e, NEW i \in 1..Len(s), s[i] = e
      PROVE  Contains(s \o t, e)
  <2>1. i \in 1..(Len(s) + Len(t)) /\ i <= Len(s)
    BY <1>1
  <2>. QED
    BY <1>1, <1>2, <2>1 DEF Contains
<1>3. ASSUME NEW e, NEW i \in 1..Len(t), t[i] = e
      PROVE  Contains(s \o t, e)
  <2>1. /\ i + Len(s) \in 1..(Len(s) + Len(t)) /\ ~(i + Len(s) <= Len(s))
        /\ (i + Len(s)) - Len(s) = i
    BY <1>1
  <2>2. (s \o t)[i + Len(s)] = t[i]
    BY <1>1, <2>1
  <2>. QED
    BY <1>1, <1>3, <2>1, <2>2 DEF Contains
<1>. QED
  BY <1>1, <1>2, <1>3 DEF Contains

\* A sequence of all elements of a finite set has each of them.
LEMMA SequenceOfAll ==
  ASSUME NEW S, IsFiniteSet(S), NEW order \in SetToSeqs(S)
  PROVE  /\ Cardinality(S) \in Nat /\ order \in [1..Cardinality(S) -> S]
         /\ \A x \in S : \E i \in 1..Cardinality(S) : order[i] = x
<1>1. Cardinality(S) \in Nat
  BY FS_CardinalityType
<1>2. order \in Injection(1..Cardinality(S), S)
  BY DEF SetToSeqs, Injection, IsInjective
<1>3. Cardinality(1..Cardinality(S)) = Cardinality(S)
  BY <1>1, FS_Interval
<1>4. order \in Surjection(1..Cardinality(S), S)
  BY <1>2, <1>3, FS_Injection
<1>. QED
  BY <1>1, <1>4 DEF Surjection

-----------------------------------------------------------------------------
(* Type correctness.                                                       *)

\* The kinds of bounds.
LEMMA BoundKinds ==
  /\ DOMAIN Bounds = {"failures", "crashes", "workerCrashes"}
  /\ \A kind \in DOMAIN Bounds : Bounds[kind] \in Nat
BY TimelineAssumption DEF Bounds

LEMMA SpendType ==
  ASSUME TypeInv, NEW kind \in DOMAIN Bounds, Spend(kind)
  PROVE  spent' \in [DOMAIN Bounds -> Nat]
BY DEF Spend, TypeInv

LEMMA TypeInit == Init => TypeInv
<1>. SUFFICES ASSUME Init PROVE TypeInv
  OBVIOUS
<1>1. TypeOK
  BY RowTypes DEF Init, TypeOK, NoCycle
<1>2. cycle \in [Cycles -> CycleStates]
  BY DEF Init, NoCycle, CycleStates, Steps
<1>3. slot \in [Slots -> DeliveryStates] /\ \A s \in Slots : slot[s].step = "IDLE"
  BY DEF Init, NoDelivery, DeliveryStates
<1>4. announced \subseteq Foreign /\ spent \in [DOMAIN Bounds -> Nat]
  BY DEF Init
<1>. QED
  BY <1>1, <1>2, <1>3, <1>4 DEF TypeInv

\* The cycle of a worker may be replaced by any that has a batch if it is under way.
LEMMA CycleType ==
  ASSUME TypeInv, NEW c \in Cycles, NEW d \in CycleStates, d.step = "IDLE" <=> d.batch = <<>>,
         cycle' = [cycle EXCEPT ![c] = d]
  PROVE  /\ cycle' \in [Cycles -> CycleStates]
         /\ \A x \in Cycles : cycle'[x].step = "IDLE" <=> cycle'[x].batch = <<>>
BY DEF TypeInv, TypeOK

\* What is known of a cycle that is under way.
LEMMA UnderWay ==
  ASSUME TypeInv, NEW c \in Cycles, cycle[c].step # "IDLE"
  PROVE  /\ cycle[c] \in CycleStates /\ cycle[c].batch \in Seq(Reads) /\ cycle[c].batch # <<>>
         /\ Current(c) \in Reads /\ Current(c).event \in Events /\ Current(c).row \in Rows
         /\ outbox \in [Events -> Rows] /\ outbox[Current(c).event] \in Rows
<1>1. cycle[c] \in CycleStates /\ cycle[c].batch \in Seq(Reads) /\ cycle[c].batch # <<>>
  BY DEF TypeInv, TypeOK, CycleStates
<1>2. Current(c) \in Reads
  BY <1>1, HeadTailProperties DEF Current
<1>. QED
  BY <1>1, <1>2 DEF Reads, TypeInv, TypeOK

\* The event has a row, and the row as it was read has attempts left.
Listed(e) == \E i \in DOMAIN created : created[i] = e

Left(read) == Listed(read.event) /\ Dispatchable(read.row)

LEMMA FetchType ==
  ASSUME TypeInv, NEW c \in Cycles, FetchBatch(c)
  PROVE  \E batch \in Seq(Reads) :
           /\ batch # <<>>
           /\ \A i \in 1..Len(batch) : Left(batch[i]) /\ batch[i].row.status = "PENDING"
           /\ cycle' = [cycle EXCEPT ![c] = [step |-> "PUBLISH", batch |-> batch]]
<1>1. PICK n \in 1..BatchSize : \E oldest \in [1..n -> Due] :
        cycle' = [cycle EXCEPT ![c] =
                    [step  |-> "PUBLISH",
                     batch |-> [i \in 1..n |-> [event |-> created[oldest[i]],
                                                row   |-> outbox[created[oldest[i]]]]]]]
  BY DEF FetchBatch
<1>2. PICK oldest \in [1..n -> Due] :
        cycle' = [cycle EXCEPT ![c] =
                    [step  |-> "PUBLISH",
                     batch |-> [i \in 1..n |-> [event |-> created[oldest[i]],
                                                row   |-> outbox[created[oldest[i]]]]]]]
  BY <1>1
<1>3. PICK batch : batch = [i \in 1..n |-> [event |-> created[oldest[i]],
                                            row   |-> outbox[created[oldest[i]]]]]
  OBVIOUS
<1>4. n \in Nat /\ 1 <= n
  BY TimelineAssumption
<1>5. \A i \in 1..n : /\ created[oldest[i]] \in Events
                      /\ outbox[created[oldest[i]]] \in Rows
                      /\ Dispatchable(outbox[created[oldest[i]]])
                      /\ oldest[i] \in DOMAIN created
  <2>1. \A d \in Due : /\ created[d] \in Events /\ Dispatchable(outbox[created[d]])
                       /\ d \in DOMAIN created
    BY DEF Due, TypeInv, TypeOK
  <2>. QED
    BY <2>1 DEF TypeInv, TypeOK
<1>6. \A i \in 1..n : /\ batch[i] \in Reads /\ batch[i].row.status = "PENDING"
                     /\ Left(batch[i])
  BY <1>3, <1>5 DEF Reads, Dispatchable, Left, Listed
<1>7. batch \in [1..n -> Reads]
  BY <1>3, <1>6
<1>8. batch \in Seq(Reads) /\ Len(batch) = n
  BY <1>4, <1>7, SeqDef, LenProperties
<1>9. batch # <<>>
  BY <1>4, <1>8
<1>10. cycle' = [cycle EXCEPT ![c] = [step |-> "PUBLISH", batch |-> batch]]
  BY <1>2, <1>3
<1>. QED
  BY <1>6, <1>8, <1>9, <1>10

\* Where the loop of a cycle goes.
LEMMA NextRowType ==
  ASSUME TypeInv, NEW c \in Cycles, cycle[c].step # "IDLE", NextRow(c)
  PROVE  \E d \in CycleStates :
           /\ cycle' = [cycle EXCEPT ![c] = d]
           /\ d.step = "IDLE" <=> d.batch = <<>>
           /\ d.step \in {"IDLE", "PUBLISH"}
           /\ \A i \in 1..Len(d.batch) : \E j \in 1..Len(cycle[c].batch) :
                d.batch[i] = cycle[c].batch[j]
<1>1. cycle[c].batch \in Seq(Reads) /\ cycle[c].batch # <<>>
  BY UnderWay
<1>2. PICK b : b = Tail(cycle[c].batch)
  OBVIOUS
<1>3. PICK d : d = IF Len(cycle[c].batch) = 1 THEN NoCycle ELSE [step |-> "PUBLISH", batch |-> b]
  OBVIOUS
<1>4. cycle' = [cycle EXCEPT ![c] = d]
  BY <1>2, <1>3 DEF NextRow
<1>5. /\ b \in Seq(Reads) /\ Len(b) = Len(cycle[c].batch) - 1 /\ Len(cycle[c].batch) \in Nat
      /\ Len(b) \in Nat
      /\ \A i \in 1..Len(b) : b[i] = cycle[c].batch[i + 1]
  BY <1>1, <1>2, HeadTailProperties, LenProperties
<1>6. CASE Len(cycle[c].batch) = 1
  <2>1. d.step = "IDLE" /\ d.batch = <<>> /\ d \in CycleStates
    BY <1>3, <1>6 DEF NoCycle, CycleStates, Steps
  <2>2. Len(d.batch) = 0
    BY <2>1
  <2>3. 1..Len(d.batch) = {}
    BY <2>2
  <2>. QED
    BY <1>4, <2>1, <2>3
<1>7. CASE Len(cycle[c].batch) # 1
  <2>1. d.step = "PUBLISH" /\ d.batch = b /\ d \in CycleStates
    BY <1>3, <1>5, <1>7 DEF CycleStates, Steps
  <2>2. Len(b) # 0
    BY <1>5, <1>7
  <2>3. b # <<>>
    BY <2>2
  <2>4. \A i \in 1..Len(b) : i + 1 \in 1..Len(cycle[c].batch)
    BY <1>5
  <2>. QED
    BY <1>4, <1>5, <2>1, <2>3, <2>4
<1>. QED
  BY <1>6, <1>7

\* The steps of the worker.
LEMMA TypeWorker ==
  ASSUME TypeInv,
         \/ \E e \in Events : CommitRow(e)
         \/ \E c \in Cycles : FetchBatch(c) \/ CycleStep(c)
         \/ CrashWorker
  PROVE  TypeInv'
<1>1. CASE \E e \in Events : CommitRow(e)
  <2>1. PICK e \in Events : CommitRow(e)
    BY <1>1
  <2>2. outbox' \in [Events -> Rows]
    BY <2>1, RowTypes DEF CommitRow, PersistOutboxEvent, TypeInv, TypeOK
  <2>3. created' \in Seq(Events)
    BY <2>1, AppendProperties DEF CommitRow, TypeInv, TypeOK
  <2>. QED
    BY <2>1, <2>2, <2>3 DEF CommitRow, TypeInv, TypeOK, service
<1>2. ASSUME NEW c \in Cycles, FetchBatch(c)
      PROVE  TypeInv'
  <2>1. PICK batch \in Seq(Reads) :
          /\ batch # <<>>
          /\ cycle' = [cycle EXCEPT ![c] = [step |-> "PUBLISH", batch |-> batch]]
    BY <1>2, FetchType
  <2>2. PICK d : d = [step |-> "PUBLISH", batch |-> batch]
    OBVIOUS
  <2>3. d \in CycleStates /\ d.step = "PUBLISH" /\ d.batch = batch
    BY <2>2 DEF CycleStates, Steps
  <2>4. /\ cycle' \in [Cycles -> CycleStates]
        /\ \A x \in Cycles : cycle'[x].step = "IDLE" <=> cycle'[x].batch = <<>>
    BY <2>1, <2>2, <2>3, CycleType
  <2>. QED
    BY <1>2, <2>4 DEF FetchBatch, TypeInv, TypeOK, service
<1>3. ASSUME NEW c \in Cycles, cycle[c].step # "IDLE", NEW to \in Steps \ {"IDLE"}, Step(c, to)
      PROVE  /\ cycle' \in [Cycles -> CycleStates]
             /\ \A x \in Cycles : cycle'[x].step = "IDLE" <=> cycle'[x].batch = <<>>
  <2>1. PICK d : d = [cycle[c] EXCEPT !.step = to]
    OBVIOUS
  <2>2. d \in CycleStates /\ d.step = to /\ d.batch = cycle[c].batch
    BY <1>3, <2>1, UnderWay DEF CycleStates
  <2>3. cycle' = [cycle EXCEPT ![c] = d]
    BY <1>3, <2>1 DEF Step
  <2>4. d.batch # <<>>
    BY <1>3, <2>2, UnderWay
  <2>. QED
    BY <2>2, <2>3, <2>4, CycleType
<1>4. ASSUME NEW c \in Cycles, Publish(c) \/ PublishThrows(c)
      PROVE  TypeInv'
  <2>1. PICK to \in Steps \ {"IDLE"} : Step(c, to) /\ cycle[c].step # "IDLE"
    BY <1>4 DEF Publish, PublishThrows, Steps
  <2>2. Current(c).event \in Events
    BY <2>1, UnderWay
  <2>3. buffer' \in Seq(Events)
    <3>1. buffer \in Seq(Events)
      BY DEF TypeInv, TypeOK
    <3>2. buffer' = buffer \/ buffer' = Append(buffer, Current(c).event)
      BY <1>4 DEF Publish, PublishThrows
    <3>. QED
      BY <2>2, <3>1, <3>2, ContainsAppend
  <2>4. /\ cycle' \in [Cycles -> CycleStates]
        /\ \A x \in Cycles : cycle'[x].step = "IDLE" <=> cycle'[x].batch = <<>>
    BY <1>3, <2>1
  <2>5. UNCHANGED <<outbox, created, service, spent>>
    BY <1>4 DEF Publish, PublishThrows
  <2>. QED
    BY <2>3, <2>4, <2>5 DEF TypeInv, TypeOK, service
<1>5. ASSUME NEW c \in Cycles, MarkRow(c) \/ MarkRowFails(c)
      PROVE  TypeInv'
  <2>1. cycle[c].step # "IDLE" /\ NextRow(c)
    BY <1>5 DEF MarkRow, MarkRowFails
  <2>2. /\ cycle' \in [Cycles -> CycleStates]
        /\ \A x \in Cycles : cycle'[x].step = "IDLE" <=> cycle'[x].batch = <<>>
    BY <2>1, NextRowType, CycleType
  <2>3. outbox' \in [Events -> Rows]
    BY <1>5, <2>1, UnderWay, RowTypes DEF MarkRow, MarkRowFails
  <2>4. spent' \in [DOMAIN Bounds -> Nat]
    BY <1>5, SpendType, BoundKinds DEF MarkRow, MarkRowFails, TypeInv
  <2>5. UNCHANGED <<created, buffer, service>>
    BY <1>5 DEF MarkRow, MarkRowFails
  <2>. QED
    BY <2>2, <2>3, <2>4, <2>5 DEF TypeInv, TypeOK, service
<1>6. CASE CrashWorker
  <2>1. spent' \in [DOMAIN Bounds -> Nat]
    BY <1>6, SpendType, BoundKinds DEF CrashWorker
  <2>2. /\ cycle' \in [Cycles -> CycleStates]
        /\ \A x \in Cycles : cycle'[x].step = "IDLE" <=> cycle'[x].batch = <<>>
    BY <1>6 DEF CrashWorker, NoCycle, CycleStates, Steps
  <2>3. buffer' \in Seq(Events)
    BY <1>6 DEF CrashWorker
  <2>. QED
    BY <1>6, <2>1, <2>2, <2>3 DEF CrashWorker, TypeInv, TypeOK, service
<1>. QED
  BY <1>1, <1>2, <1>4, <1>5, <1>6 DEF CycleStep

\* Publishing keeps what is in the queue, and adds a lifecycle event.
LEMMA RoutedContains ==
  ASSUME queue \in Seq(Messages), NEW m \in Messages
  PROVE  \A e : Contains(queue, e) \/ (e = m /\ e \in LifecycleEvents)
               => Contains(Routed(m), e)
<1>1. \A e : Contains(Append(queue, m), e) <=> Contains(queue, e) \/ e = m
  BY ContainsAppend
<1>2. CASE Routed(m) = queue
  BY <1>1, <1>2, RoutedQueue
<1>3. CASE Routed(m) = Append(queue, m)
  BY <1>1, <1>3
<1>. QED
  BY <1>2, <1>3, RoutedQueue

\* The messages in the hands of the workflow service, in any order.
LEMMA HeldMessages ==
  ASSUME TypeInv, NEW order \in SetToSeqs({s \in Slots : slot[s].step # "IDLE"})
  PROVE  /\ [i \in DOMAIN order |-> slot[order[i]].event] \in Seq(Messages)
         /\ \A s \in Slots : slot[s].step # "IDLE" =>
              Contains([i \in DOMAIN order |-> slot[order[i]].event], slot[s].event)
<1>. DEFINE held == {s \in Slots : slot[s].step # "IDLE"}
            all == [i \in DOMAIN order |-> slot[order[i]].event]
<1>1. IsFiniteSet(held) /\ order \in SetToSeqs(held)
  BY TimelineAssumption, FS_Subset
<1>2. PICK n : n = Cardinality(held)
  OBVIOUS
<1>3. /\ n \in Nat /\ order \in [1..n -> held]
      /\ \A x \in held : \E i \in 1..n : order[i] = x
  <2>. HIDE DEF held
  <2>. QED  BY <1>1, <1>2, SequenceOfAll
<1>4. all \in [1..n -> Messages] /\ \A i \in 1..n : all[i] = slot[order[i]].event
  BY <1>3 DEF TypeInv
<1>5. all \in Seq(Messages) /\ Len(all) = n
  <2>. HIDE DEF all
  <2>. QED  BY <1>3, <1>4, SeqDef, LenProperties
<1>6. ASSUME NEW s \in held PROVE Contains(all, slot[s].event)
  <2>1. PICK i \in 1..n : order[i] = s
    BY <1>3
  <2>. HIDE DEF all
  <2>. QED  BY <1>4, <1>5, <2>1 DEF Contains
<1>. QED
  BY <1>5, <1>6

\* The slots of the workflow service, when one of them changes.
LEMMA SlotType ==
  ASSUME TypeInv, NEW s \in Slots, NEW d \in DeliveryStates,
         d.step # "IDLE" => d.event \in Messages, slot' = [slot EXCEPT ![s] = d]
  PROVE  /\ slot' \in [Slots -> DeliveryStates]
         /\ \A x \in Slots : slot'[x].step # "IDLE" => slot'[x].event \in Messages
BY DEF TypeInv

LEMMA FreeType ==
  ASSUME TypeInv, NEW s \in Slots, Free(s)
  PROVE  /\ slot' \in [Slots -> DeliveryStates]
         /\ \A x \in Slots : slot'[x].step # "IDLE" => slot'[x].event \in Messages
<1>1. NoDelivery \in DeliveryStates /\ NoDelivery.step = "IDLE"
  BY DEF NoDelivery, DeliveryStates
<1>. QED
  BY <1>1, SlotType DEF Free

\* The steps of the broker and the workflow service.
LEMMA TypeService ==
  ASSUME TypeInv,
         \/ Transmit \/ (\E m \in Foreign : Announce(m))
         \/ (\E s \in Slots : Deliver(s) \/ SlotStep(s))
         \/ LoseConnection
  PROVE  TypeInv'
<1>. /\ queue \in Seq(Messages) /\ buffer \in Seq(Events) /\ Events \subseteq Messages
     /\ Foreign \subseteq Messages
  BY DEF TypeInv, TypeOK, Messages
<1>1. CASE Transmit
  <2>1. Tail(buffer) \in Seq(Events) /\ Head(buffer) \in Messages
    BY <1>1, ContainsTail DEF Transmit
  <2>2. queue' \in Seq(Messages)
    BY <1>1, <2>1, RoutedQueue, AppendProperties DEF Transmit
  <2>. QED
    BY <1>1, <2>1, <2>2 DEF Transmit, TypeInv, TypeOK, Messages
<1>2. ASSUME NEW m \in Foreign, Announce(m)
      PROVE  TypeInv'
  <2>1. queue' \in Seq(Messages)
    BY <1>2, RoutedQueue, AppendProperties DEF Announce
  <2>. QED
    BY <1>2, <2>1 DEF Announce, TypeInv, TypeOK, Messages, worker
<1>3. ASSUME NEW s \in Slots, Deliver(s)
      PROVE  TypeInv'
  <2>1. Tail(queue) \in Seq(Messages) /\ Head(queue) \in Messages
    BY <1>3, ContainsTail DEF Deliver
  <2>2. PICK d : d = [step |-> "HANDLE", event |-> Head(queue)]
    OBVIOUS
  <2>3. d \in DeliveryStates /\ d.event \in Messages
    BY <2>1, <2>2 DEF DeliveryStates
  <2>4. /\ slot' \in [Slots -> DeliveryStates]
        /\ \A x \in Slots : slot'[x].step # "IDLE" => slot'[x].event \in Messages
    BY <1>3, <2>2, <2>3, SlotType DEF Deliver
  <2>. QED
    BY <1>3, <2>1, <2>4 DEF Deliver, TypeInv, TypeOK, Messages, worker
<1>4. ASSUME NEW s \in Slots, Reject(s) \/ Ack(s)
      PROVE  TypeInv'
  <2>1. Free(s) /\ UNCHANGED <<worker, queue, timeline, announced, spent>>
    BY <1>4 DEF Reject, Ack
  <2>2. /\ slot' \in [Slots -> DeliveryStates]
        /\ \A x \in Slots : slot'[x].step # "IDLE" => slot'[x].event \in Messages
    BY <2>1, FreeType
  <2>. QED
    BY <2>1, <2>2 DEF TypeInv, TypeOK, worker
<1>5. ASSUME NEW s \in Slots, Persist(s)
      PROVE  TypeInv'
  <2>1. PICK d : d = [slot[s] EXCEPT !.step = "STORED"]
    OBVIOUS
  <2>2. d \in DeliveryStates /\ d.event = slot[s].event /\ d.event \in Messages
    BY <1>5, <2>1 DEF Persist, DeliveryStates, TypeInv
  <2>3. slot' = [slot EXCEPT ![s] = d]
    BY <1>5, <2>1 DEF Persist
  <2>4. /\ slot' \in [Slots -> DeliveryStates]
        /\ \A x \in Slots : slot'[x].step # "IDLE" => slot'[x].event \in Messages
    BY <2>2, <2>3, SlotType
  <2>5. slot[s].event \in Events
    BY <1>5, RoutedQueue DEF Persist, TypeInv
  <2>. QED
    BY <1>5, <2>4, <2>5 DEF Persist, TypeInv, TypeOK, worker
<1>6. ASSUME NEW s \in Slots, PersistFails(s)
      PROVE  TypeInv'
  <2>1. slot[s].event \in Events /\ queue' = <<slot[s].event>> \o queue /\ Free(s)
    BY <1>6, RoutedQueue DEF PersistFails, TypeInv
  <2>2. <<slot[s].event>> \in Seq(Messages)
    BY <2>1
  <2>3. queue' \in Seq(Messages)
    BY <2>1, <2>2, ConcatProperties
  <2>4. /\ slot' \in [Slots -> DeliveryStates]
        /\ \A x \in Slots : slot'[x].step # "IDLE" => slot'[x].event \in Messages
    BY <2>1, FreeType
  <2>5. spent' \in [DOMAIN Bounds -> Nat]
    BY <1>6, SpendType, BoundKinds DEF PersistFails
  <2>6. timeline' \subseteq Events
    BY <1>6, <2>1 DEF PersistFails, TypeInv, TypeOK
  <2>. QED
    BY <1>6, <2>3, <2>4, <2>5, <2>6 DEF PersistFails, TypeInv, TypeOK, Messages, worker
<1>7. CASE LoseConnection
  <2>1. PICK order \in SetToSeqs({s \in Slots : slot[s].step # "IDLE"}) :
          queue' = [i \in DOMAIN order |-> slot[order[i]].event] \o queue
    BY <1>7 DEF LoseConnection
  <2>2. queue' \in Seq(Messages)
    BY <2>1, HeldMessages, ConcatProperties
  <2>3. spent' \in [DOMAIN Bounds -> Nat]
    BY <1>7, SpendType, BoundKinds DEF LoseConnection
  <2>4. /\ slot' \in [Slots -> DeliveryStates]
        /\ \A x \in Slots : slot'[x].step # "IDLE" => slot'[x].event \in Messages
    BY <1>7 DEF LoseConnection, NoDelivery, DeliveryStates
  <2>. QED
    BY <1>7, <2>2, <2>3, <2>4 DEF LoseConnection, TypeInv, TypeOK, Messages, worker
<1>. QED
  BY <1>1, <1>2, <1>3, <1>4, <1>5, <1>6, <1>7 DEF SlotStep

LEMMA TypeStep == TypeInv /\ [Next]_vars => TypeInv'
<1>1. ASSUME TypeInv, UNCHANGED vars PROVE TypeInv'
  BY <1>1 DEF TypeInv, TypeOK, vars
<1>. QED
  BY <1>1, TypeWorker, TypeService DEF Next

\* Every variable holds a value of its kind; a cycle has a batch exactly while it is
\* under way (index.ts:1488-1529).
THEOREM TypeCorrect == Spec => []TypeOK
<1>1. TypeInv => TypeOK
  BY DEF TypeInv
<1>. QED
  BY <1>1, TypeInit, TypeStep, PTL DEF Spec

-----------------------------------------------------------------------------
(* Nothing is lost.                                                        *)

\* A delivery of e is in the hands of the workflow service.
Held(e) == \E s \in Slots : slot[s].step # "IDLE" /\ slot[s].event = e

\* A lifecycle event is stored or cannot be lost any more, unless the worker crashes.
Safe(e) ==
  e \in LifecycleEvents =>
    e \in timeline \/ Contains(buffer, e) \/ Contains(queue, e) \/ Held(e)

\* A delivery is acknowledged after its event was stored.
StoredIsKept == \A s \in Slots : slot[s].step = "STORED" => slot[s].event \in timeline

\* The snapshots of a batch are of rows that were PENDING.
BatchesPending ==
  \A c \in Cycles : \A i \in 1..Len(cycle[c].batch) : cycle[c].batch[i].row.status = "PENDING"

\* What is marked as published, or about to be, was handed to the channel.
PublishedIsSafe ==
  WorkerStood =>
    /\ \A e \in Events : outbox[e].status = "PUBLISHED" => Safe(e)
    /\ \A c \in Cycles : cycle[c].step = "MARK_PUBLISHED" => Safe(Current(c).event)

TInv == TypeInv /\ StoredIsKept /\ BatchesPending /\ PublishedIsSafe

\* A step of the worker only adds to its buffer, unless it crashes.
LEMMA WorkerKeepsSafe ==
  ASSUME TypeInv, UNCHANGED service,
         UNCHANGED buffer \/ \E x \in Events : buffer' = Append(buffer, x)
  PROVE  \A e \in Events : Safe(e) => Safe(e)'
<1>1. buffer \in Seq(Events)
  BY DEF TypeInv, TypeOK
<1>2. \A e : Contains(buffer, e) => Contains(buffer', e)
  <2>1. CASE buffer' = buffer
    BY <2>1
  <2>2. ASSUME NEW x \in Events, buffer' = Append(buffer, x)
        PROVE  \A e : Contains(buffer, e) => Contains(buffer', e)
    BY <1>1, <2>2, ContainsAppend
  <2>. QED
    BY <2>1, <2>2
<1>3. UNCHANGED <<queue, slot, timeline>>
  BY DEF service
<1>4. \A e : Held(e) => Held(e)'
  BY <1>3 DEF Held
<1>. QED
  BY <1>2, <1>3, <1>4 DEF Safe

\* A slot that is given up.
LEMMA FreeKeepsHeld ==
  ASSUME TypeInv, NEW s \in Slots, Free(s)
  PROVE  \A e : Held(e) => Held(e)' \/ (e = slot[s].event /\ slot[s].step # "IDLE")
<1>1. \A x \in Slots : x # s => slot'[x] = slot[x]
  BY DEF Free, TypeInv
<1>. QED
  BY <1>1 DEF Held

\* The broker and the workflow service pass an event on before they let it go.
LEMMA ServiceKeepsSafe ==
  ASSUME TypeInv, StoredIsKept,
         \/ Transmit \/ (\E m \in Foreign : Announce(m))
         \/ (\E s \in Slots : Deliver(s) \/ SlotStep(s))
         \/ LoseConnection
  PROVE  \A e \in Events : Safe(e) => Safe(e)'
<1>. queue \in Seq(Messages) /\ buffer \in Seq(Events)
  BY DEF TypeInv, TypeOK, Messages
<1>1. CASE Transmit
  <2>1. /\ buffer' = Tail(buffer) /\ queue' = Routed(Head(buffer))
        /\ UNCHANGED <<slot, timeline>> /\ buffer # <<>>
    BY <1>1 DEF Transmit
  <2>2. Head(buffer) \in Messages
    BY <2>1, ContainsTail DEF Messages
  <2>3. \A e : Contains(queue, e) \/ (e = Head(buffer) /\ e \in LifecycleEvents)
                => Contains(queue', e)
    BY <2>1, <2>2, RoutedContains
  <2>4. \A e : Contains(buffer, e) => e = Head(buffer) \/ Contains(buffer', e)
    BY <2>1, ContainsTail
  <2>. QED
    BY <2>1, <2>3, <2>4 DEF Safe, Held
<1>2. ASSUME NEW m \in Foreign, Announce(m)
      PROVE  \A e \in Events : Safe(e) => Safe(e)'
  <2>1. \A e : Contains(queue, e) => Contains(queue', e)
    BY <1>2, RoutedContains DEF Announce, Messages
  <2>. QED
    BY <1>2, <2>1 DEF Announce, Safe, Held, worker
<1>3. ASSUME NEW s \in Slots, Deliver(s)
      PROVE  \A e \in Events : Safe(e) => Safe(e)'
  <2>1. /\ slot[s].step = "IDLE" /\ queue # <<>> /\ queue' = Tail(queue)
        /\ slot' = [slot EXCEPT ![s] = [step |-> "HANDLE", event |-> Head(queue)]]
        /\ UNCHANGED <<buffer, timeline>>
    BY <1>3 DEF Deliver, worker
  <2>2. \A e : Contains(queue, e) => e = Head(queue) \/ Contains(queue', e)
    BY <2>1, ContainsTail
  <2>3. slot'[s].step # "IDLE" /\ slot'[s].event = Head(queue)
    BY <2>1 DEF TypeInv
  <2>5. \A e : Held(e) => Held(e)'
    BY <2>1 DEF Held, TypeInv
  <2>. QED
    BY <2>1, <2>2, <2>3, <2>5 DEF Safe, Held
<1>4. ASSUME NEW s \in Slots, Reject(s)
      PROVE  \A e \in Events : Safe(e) => Safe(e)'
  <2>1. /\ Free(s) /\ slot[s].event \in Messages
        /\ ~IsWorkflowExecutionLifecycleMessage(Body(slot[s].event))
        /\ UNCHANGED <<buffer, queue, timeline>>
    BY <1>4 DEF Reject, worker, TypeInv
  <2>2. slot[s].event \notin LifecycleEvents
    BY <2>1, RoutedQueue
  <2>. QED
    BY <2>1, <2>2, FreeKeepsHeld DEF Safe
<1>5. ASSUME NEW s \in Slots, Ack(s)
      PROVE  \A e \in Events : Safe(e) => Safe(e)'
  <2>1. /\ Free(s) /\ slot[s].event \in timeline
        /\ UNCHANGED <<buffer, queue, timeline>>
    BY <1>5 DEF Ack, StoredIsKept, worker
  <2>. QED
    BY <2>1, FreeKeepsHeld DEF Safe
<1>6. ASSUME NEW s \in Slots, Persist(s)
      PROVE  \A e \in Events : Safe(e) => Safe(e)'
  <2>1. /\ UNCHANGED <<buffer, queue>> /\ timeline \subseteq timeline'
        /\ slot' = [slot EXCEPT ![s].step = "STORED"]
    BY <1>6 DEF Persist, worker
  <2>2. \A e : Held(e) => Held(e)'
    BY <2>1 DEF Held, TypeInv, DeliveryStates
  <2>. QED
    BY <2>1, <2>2 DEF Safe
<1>7. ASSUME NEW s \in Slots, PersistFails(s)
      PROVE  \A e \in Events : Safe(e) => Safe(e)'
  <2>1. /\ Free(s) /\ slot[s].event \in Events /\ queue' = <<slot[s].event>> \o queue
        /\ UNCHANGED buffer /\ timeline \subseteq timeline'
    BY <1>7, RoutedQueue DEF PersistFails, worker, TypeInv
  <2>2. PICK one : one = <<slot[s].event>>
    OBVIOUS
  <2>3. one \in Seq(Messages) /\ Contains(one, slot[s].event)
    BY <2>1, <2>2 DEF Contains, Messages
  <2>4. \A e : Contains(queue, e) \/ e = slot[s].event => Contains(queue', e)
    BY <2>1, <2>2, <2>3, ContainsConcat
  <2>. QED
    BY <2>1, <2>4, FreeKeepsHeld DEF Safe
<1>8. CASE LoseConnection
  <2>1. PICK order \in SetToSeqs({s \in Slots : slot[s].step # "IDLE"}) :
          queue' = [i \in DOMAIN order |-> slot[order[i]].event] \o queue
    BY <1>8 DEF LoseConnection
  <2>2. PICK all : all = [i \in DOMAIN order |-> slot[order[i]].event]
    OBVIOUS
  <2>3. /\ all \in Seq(Messages)
        /\ \A s \in Slots : slot[s].step # "IDLE" => Contains(all, slot[s].event)
    BY <2>2, HeldMessages
  <2>4. \A e : Contains(queue, e) \/ Contains(all, e) => Contains(queue', e)
    BY <2>1, <2>2, <2>3, ContainsConcat
  <2>5. \A e : Held(e) => Contains(queue', e)
    BY <2>3, <2>4 DEF Held
  <2>. QED
    BY <1>8, <2>4, <2>5 DEF Safe, LoseConnection, worker
<1>. QED
  BY <1>1, <1>2, <1>3, <1>4, <1>5, <1>6, <1>7, <1>8 DEF SlotStep

\* What the workflow service and its broker do.
ServiceStep ==
  \/ Transmit \/ (\E m \in Foreign : Announce(m))
  \/ (\E s \in Slots : Deliver(s) \/ SlotStep(s))
  \/ LoseConnection

LEMMA TInit == Init => TInv
<1>. SUFFICES ASSUME Init PROVE TInv
  OBVIOUS
<1>1. TypeInv
  BY TypeInit
<1>2. StoredIsKept
  BY DEF Init, StoredIsKept, NoDelivery
<1>3. \A c \in Cycles : cycle[c].step = "IDLE" /\ cycle[c].batch = <<>>
  BY DEF Init, NoCycle
<1>4. BatchesPending
  <2>1. Len(<<>>) = 0 /\ 1..0 = {}
    OBVIOUS
  <2>. QED
    BY <1>3, <2>1 DEF BatchesPending
<1>5. PublishedIsSafe
  BY <1>3 DEF PublishedIsSafe, Init, AbsentRow
<1>. QED
  BY <1>1, <1>2, <1>4, <1>5 DEF TInv

\* The workflow service and its broker leave the worker alone.
LEMMA ServiceStepKeeps ==
  ASSUME TInv, ServiceStep
  PROVE  /\ UNCHANGED <<outbox, cycle>> /\ timeline \subseteq timeline'
         /\ WorkerStood' => WorkerStood
<1>1. CASE Transmit \/ \E m \in Foreign : Announce(m)
  BY <1>1 DEF Transmit, Announce, worker, WorkerStood
<1>2. CASE \E s \in Slots : Deliver(s) \/ Reject(s) \/ Persist(s) \/ Ack(s)
  BY <1>2 DEF Deliver, Reject, Persist, Ack, worker, WorkerStood
<1>3. CASE \E s \in Slots : PersistFails(s)
  BY <1>3, BoundKinds DEF PersistFails, Spend, worker, WorkerStood, TInv, TypeInv
<1>4. CASE LoseConnection
  BY <1>4, BoundKinds DEF LoseConnection, Spend, worker, WorkerStood, TInv, TypeInv
<1>. QED
  BY <1>1, <1>2, <1>3, <1>4 DEF ServiceStep, SlotStep

LEMMA StoredService ==
  ASSUME TInv, ServiceStep
  PROVE  StoredIsKept'
<1>. StoredIsKept /\ slot \in [Slots -> DeliveryStates]
  BY DEF TInv, TypeInv
<1>1. timeline \subseteq timeline'
  BY ServiceStepKeeps
<1>2. CASE Transmit \/ \E m \in Foreign : Announce(m)
  BY <1>1, <1>2 DEF Transmit, Announce, StoredIsKept
<1>3. ASSUME NEW s \in Slots, Deliver(s)
      PROVE  StoredIsKept'
  BY <1>3 DEF Deliver, StoredIsKept
<1>4. ASSUME NEW s \in Slots, Free(s)
      PROVE  StoredIsKept'
  BY <1>1, <1>4 DEF Free, NoDelivery, StoredIsKept
<1>5. ASSUME NEW s \in Slots, Persist(s)
      PROVE  StoredIsKept'
  <2>1. slot' = [slot EXCEPT ![s].step = "STORED"] /\ slot[s].event \in timeline'
    BY <1>5 DEF Persist
  <2>2. \A x \in Slots : x # s => slot'[x] = slot[x]
    BY <2>1
  <2>3. slot'[s].event = slot[s].event
    BY <2>1 DEF DeliveryStates
  <2>. QED
    BY <1>1, <2>1, <2>2, <2>3 DEF StoredIsKept
<1>6. CASE LoseConnection
  BY <1>6 DEF LoseConnection, NoDelivery, StoredIsKept
<1>. QED
  BY <1>2, <1>3, <1>4, <1>5, <1>6 DEF ServiceStep, SlotStep, Reject, Ack, PersistFails

LEMMA TService ==
  ASSUME TInv, ServiceStep
  PROVE  TInv'
<1>1. TypeInv'
  BY TypeService DEF TInv, ServiceStep
<1>2. StoredIsKept'
  BY StoredService
<1>3. /\ UNCHANGED <<outbox, cycle>>
      /\ WorkerStood' => WorkerStood
  BY ServiceStepKeeps
<1>4. BatchesPending'
  BY <1>3 DEF BatchesPending, TInv
<1>5. \A e \in Events : Safe(e) => Safe(e)'
  BY ServiceKeepsSafe DEF TInv, ServiceStep
<1>6. PublishedIsSafe'
  <2>. SUFFICES ASSUME WorkerStood'
                PROVE  /\ \A e \in Events : outbox'[e].status = "PUBLISHED" => Safe(e)'
                       /\ \A c \in Cycles : cycle'[c].step = "MARK_PUBLISHED" =>
                            Safe(Current(c).event)'
    BY DEF PublishedIsSafe
  <2>1. \A e \in Events : outbox'[e].status = "PUBLISHED" => Safe(e)'
    BY <1>3, <1>5 DEF PublishedIsSafe, TInv
  <2>2. ASSUME NEW c \in Cycles, cycle'[c].step = "MARK_PUBLISHED"
        PROVE  Safe(Current(c).event)'
    <3>1. PICK e : e = Current(c).event
      OBVIOUS
    <3>2. e \in Events /\ Safe(e)
      BY <1>3, <2>2, <3>1, UnderWay DEF PublishedIsSafe, TInv
    <3>3. Current(c)' = Current(c)
      BY <1>3 DEF Current
    <3>4. Safe(e)'
      BY <1>5, <3>2
    <3>. QED
      BY <3>1, <3>3, <3>4 DEF Safe, Held
  <2>. QED
    BY <2>1, <2>2
<1>. QED
  BY <1>1, <1>2, <1>4, <1>6 DEF TInv


\* What a step of the worker leaves alone.
LEMMA WorkerStep ==
  ASSUME TInv,
         \/ \E e \in Events : CommitRow(e)
         \/ \E c \in Cycles : FetchBatch(c) \/ CycleStep(c)
  PROVE  /\ TypeInv' /\ StoredIsKept'
         /\ WorkerStood' => WorkerStood
         /\ \A e \in Events : Safe(e) => Safe(e)'
<1>1. UNCHANGED service
  BY DEF CommitRow, FetchBatch, CycleStep, Publish, PublishThrows, MarkRow, MarkRowFails
<1>2. StoredIsKept'
  BY <1>1 DEF service, StoredIsKept, TInv
<1>3. WorkerStood' => WorkerStood
  BY BoundKinds DEF CommitRow, FetchBatch, CycleStep, Publish, PublishThrows, MarkRow,
                    MarkRowFails, Spend, WorkerStood, TInv, TypeInv
<1>4. UNCHANGED buffer \/ \E x \in Events : buffer' = Append(buffer, x)
  <2>1. ASSUME NEW c \in Cycles, Publish(c)
        PROVE  \E x \in Events : buffer' = Append(buffer, x)
    BY <2>1, UnderWay DEF Publish, TInv
  <2>. QED
    BY <2>1 DEF CommitRow, FetchBatch, CycleStep, PublishThrows, MarkRow, MarkRowFails
<1>5. TypeInv'
  BY TypeWorker DEF TInv
<1>6. \A e \in Events : Safe(e) => Safe(e)'
  BY <1>1, <1>4, WorkerKeepsSafe DEF TInv
<1>. QED
  BY <1>2, <1>3, <1>5, <1>6

\* A cycle whose state is replaced, and the others.
LEMMA CycleReplaced ==
  ASSUME TInv, NEW c \in Cycles, NEW d \in CycleStates, cycle' = [cycle EXCEPT ![c] = d],
         \A i \in 1..Len(d.batch) : d.batch[i].row.status = "PENDING"
  PROVE  /\ BatchesPending'
         /\ \A x \in Cycles : x # c => cycle'[x] = cycle[x]
         /\ cycle'[c] = d
<1>1. (\A x \in Cycles : x # c => cycle'[x] = cycle[x]) /\ cycle'[c] = d
  BY DEF TInv, TypeInv
<1>. QED
  BY <1>1 DEF BatchesPending, TInv

\* The current row of each cycle stays safe until its mark, and no other row is marked.
LEMMA CycleKeepsPublished ==
  ASSUME TInv, WorkerStood' => WorkerStood,
         \A e \in Events : Safe(e) => Safe(e)',
         NEW c \in Cycles,
         \A x \in Cycles : x # c => cycle'[x] = cycle[x],
         WorkerStood' => (cycle'[c].step = "MARK_PUBLISHED" => Safe(Current(c).event)'),
         WorkerStood' => \A e \in Events :
           outbox'[e].status = "PUBLISHED" => outbox[e].status = "PUBLISHED" \/ Safe(e)
  PROVE  PublishedIsSafe'
<1>. SUFFICES ASSUME WorkerStood'
              PROVE  /\ \A e \in Events : outbox'[e].status = "PUBLISHED" => Safe(e)'
                     /\ \A x \in Cycles : cycle'[x].step = "MARK_PUBLISHED" =>
                          Safe(Current(x).event)'
  BY DEF PublishedIsSafe
<1>1. \A e \in Events : outbox'[e].status = "PUBLISHED" => Safe(e)'
  BY DEF PublishedIsSafe, TInv
<1>2. ASSUME NEW x \in Cycles, x # c, cycle'[x].step = "MARK_PUBLISHED"
      PROVE  Safe(Current(x).event)'
  <2>1. PICK e : e = Current(x).event
    OBVIOUS
  <2>2. e \in Events /\ Safe(e)
    BY <1>2, <2>1, UnderWay DEF PublishedIsSafe, TInv
  <2>3. Current(x)' = Current(x)
    BY <1>2 DEF Current
  <2>4. Safe(e)'
    BY <2>2
  <2>. QED
    BY <2>1, <2>3, <2>4 DEF Safe, Held
<1>. QED
  BY <1>1, <1>2

LEMMA TCycle ==
  ASSUME TInv, NEW c \in Cycles, FetchBatch(c) \/ CycleStep(c)
  PROVE  BatchesPending' /\ PublishedIsSafe'
<1>. TypeInv
  BY DEF TInv
<1>0. /\ WorkerStood' => WorkerStood
      /\ \A e \in Events : Safe(e) => Safe(e)'
  BY WorkerStep
<1>1. CASE FetchBatch(c)
  <2>1. PICK batch \in Seq(Reads) :
          /\ batch # <<>>
          /\ \A i \in 1..Len(batch) : batch[i].row.status = "PENDING"
          /\ cycle' = [cycle EXCEPT ![c] = [step |-> "PUBLISH", batch |-> batch]]
    BY <1>1, FetchType
  <2>2. PICK d : d = [step |-> "PUBLISH", batch |-> batch]
    OBVIOUS
  <2>3. d \in CycleStates /\ d.step = "PUBLISH" /\ d.batch = batch
    BY <2>2 DEF CycleStates, Steps
  <2>4. /\ BatchesPending'
        /\ \A x \in Cycles : x # c => cycle'[x] = cycle[x]
        /\ cycle'[c].step # "MARK_PUBLISHED"
    BY <2>1, <2>2, <2>3, CycleReplaced
  <2>5. UNCHANGED <<outbox, spent>>
    BY <1>1 DEF FetchBatch
  <2>. QED
    BY <1>0, <2>4, <2>5, CycleKeepsPublished DEF WorkerStood
<1>2. ASSUME NEW to \in Steps, Step(c, to), cycle[c].step # "IDLE"
      PROVE  /\ BatchesPending'
             /\ \A x \in Cycles : x # c => cycle'[x] = cycle[x]
             /\ cycle'[c].step = to /\ Current(c)' = Current(c)
  <2>1. PICK d : d = [cycle[c] EXCEPT !.step = to]
    OBVIOUS
  <2>2. d \in CycleStates /\ d.step = to /\ d.batch = cycle[c].batch
    BY <1>2, <2>1, UnderWay DEF CycleStates
  <2>3. cycle' = [cycle EXCEPT ![c] = d]
    BY <1>2, <2>1 DEF Step
  <2>4. \A i \in 1..Len(d.batch) : d.batch[i].row.status = "PENDING"
    BY <2>2 DEF TInv, BatchesPending
  <2>5. /\ BatchesPending'
        /\ \A x \in Cycles : x # c => cycle'[x] = cycle[x]
        /\ cycle'[c] = d
    BY <2>2, <2>3, <2>4, CycleReplaced
  <2>6. Current(c)' = Current(c)
    BY <2>2, <2>5 DEF Current
  <2>. QED
    BY <2>2, <2>5, <2>6
<1>3. CASE Publish(c)
  <2>1. PICK to \in Steps : Step(c, to) /\ cycle[c].step # "IDLE"
    BY <1>3 DEF Publish, Steps
  <2>2. PICK e : e = Current(c).event
    OBVIOUS
  <2>3. e \in Events /\ buffer \in Seq(Events) /\ buffer' = Append(buffer, e)
    BY <1>3, <2>1, <2>2, UnderWay DEF Publish, TypeInv, TypeOK
  <2>4. Contains(buffer', e)
    BY <2>3, ContainsAppend
  <2>5. Safe(Current(c).event)'
    BY <1>2, <2>1, <2>2, <2>4 DEF Safe
  <2>6. UNCHANGED <<outbox, spent>>
    BY <1>3 DEF Publish
  <2>. QED
    BY <1>0, <1>2, <2>1, <2>5, <2>6, CycleKeepsPublished DEF WorkerStood
<1>4. CASE PublishThrows(c)
  <2>1. Step(c, "MARK_FAILURE") /\ cycle[c].step # "IDLE" /\ UNCHANGED <<outbox, spent>>
    BY <1>4 DEF PublishThrows
  <2>2. "MARK_FAILURE" \in Steps
    BY DEF Steps
  <2>. QED
    BY <1>0, <1>2, <2>1, <2>2, CycleKeepsPublished DEF WorkerStood
<1>5. ASSUME MarkRow(c) \/ MarkRowFails(c)
      PROVE  /\ BatchesPending'
             /\ \A x \in Cycles : x # c => cycle'[x] = cycle[x]
             /\ cycle'[c].step # "MARK_PUBLISHED"
  <2>1. cycle[c].step # "IDLE" /\ NextRow(c)
    BY <1>5 DEF MarkRow, MarkRowFails
  <2>2. PICK d \in CycleStates :
           /\ cycle' = [cycle EXCEPT ![c] = d]
           /\ d.step \in {"IDLE", "PUBLISH"}
           /\ \A i \in 1..Len(d.batch) : \E j \in 1..Len(cycle[c].batch) :
                d.batch[i] = cycle[c].batch[j]
    BY <2>1, NextRowType
  <2>3. \A i \in 1..Len(d.batch) : d.batch[i].row.status = "PENDING"
    BY <2>2 DEF TInv, BatchesPending
  <2>. QED
    BY <2>2, <2>3, CycleReplaced
<1>6. CASE MarkRow(c)
  <2>1. PICK read : read = Current(c)
    OBVIOUS
  <2>2. /\ cycle[c].step # "IDLE" /\ read \in Reads /\ outbox \in [Events -> Rows]
        /\ read.event \in Events /\ read.row.status = "PENDING"
    <3>1. cycle[c].step # "IDLE"
      BY <1>6 DEF MarkRow
    <3>2. Len(cycle[c].batch) \in Nat /\ Len(cycle[c].batch) # 0
      BY <3>1, UnderWay, EmptySeq, LenProperties
    <3>3. 1 \in 1..Len(cycle[c].batch)
      BY <3>2
    <3>. QED
      BY <2>1, <3>1, <3>3, UnderWay DEF Current, TInv, BatchesPending
  <2>3. WorkerStood' => \A e \in Events :
          outbox'[e].status = "PUBLISHED" => outbox[e].status = "PUBLISHED" \/ Safe(e)
    <3>1. CASE cycle[c].step = "MARK_PUBLISHED"
      <4>1. outbox' = [outbox EXCEPT ![read.event] = MarkPublished(@)]
        BY <1>6, <2>1, <3>1 DEF MarkRow
      <4>2. WorkerStood' => Safe(read.event)
        BY <1>0, <2>1, <3>1 DEF TInv, PublishedIsSafe
      <4>. QED
        BY <2>2, <4>1, <4>2
    <3>2. CASE cycle[c].step # "MARK_PUBLISHED"
      <4>1. outbox' = [outbox EXCEPT ![read.event] = MarkPublishFailure(read.row)]
        BY <1>6, <2>1, <3>2 DEF MarkRow
      <4>2. MarkPublishFailure(read.row).status # "PUBLISHED"
        BY <2>2 DEF MarkPublishFailure
      <4>. QED
        BY <2>2, <4>1, <4>2
    <3>. QED
      BY <3>1, <3>2
  <2>4. UNCHANGED spent
    BY <1>6 DEF MarkRow
  <2>. QED
    BY <1>0, <1>5, <1>6, <2>3, <2>4, CycleKeepsPublished DEF WorkerStood
<1>7. CASE MarkRowFails(c)
  <2>1. UNCHANGED outbox /\ WorkerStood' = WorkerStood
    BY <1>7, BoundKinds DEF MarkRowFails, Spend, WorkerStood, TypeInv
  <2>. QED
    BY <1>0, <1>5, <1>7, <2>1, CycleKeepsPublished
<1>. QED
  BY <1>1, <1>3, <1>4, <1>6, <1>7 DEF CycleStep

LEMMA TStep == TInv /\ [Next]_vars => TInv'
<1>. SUFFICES ASSUME TInv, [Next]_vars PROVE TInv'
  OBVIOUS
<1>. TypeInv
  BY DEF TInv
<1>1. ASSUME NEW e \in Events, CommitRow(e)
      PROVE  TInv'
  <2>1. /\ TypeInv' /\ StoredIsKept'
        /\ WorkerStood' => WorkerStood
        /\ \A x \in Events : Safe(x) => Safe(x)'
    BY <1>1, WorkerStep
  <2>2. UNCHANGED cycle
    BY <1>1 DEF CommitRow
  <2>3. BatchesPending'
    BY <2>2 DEF BatchesPending, TInv
  <2>4. \A x \in Events : outbox'[x].status = "PUBLISHED" => outbox[x].status = "PUBLISHED"
    BY <1>1 DEF CommitRow, PersistOutboxEvent, NewRow, TypeInv, TypeOK
  <2>5. ASSUME NEW c \in Cycles, WorkerStood', cycle'[c].step = "MARK_PUBLISHED"
        PROVE  Safe(Current(c).event)'
    <3>1. PICK x : x = Current(c).event
      OBVIOUS
    <3>2. x \in Events /\ Safe(x)
      BY <2>1, <2>2, <2>5, <3>1, UnderWay DEF PublishedIsSafe, TInv
    <3>3. Current(c)' = Current(c)
      BY <2>2 DEF Current
    <3>4. Safe(x)'
      BY <2>1, <3>2
    <3>. QED
      BY <3>1, <3>3, <3>4 DEF Safe, Held
  <2>6. WorkerStood' => \A x \in Events : outbox'[x].status = "PUBLISHED" => Safe(x)'
    BY <2>1, <2>4 DEF PublishedIsSafe, TInv
  <2>7. PublishedIsSafe'
    BY <2>5, <2>6 DEF PublishedIsSafe
  <2>. QED
    BY <2>1, <2>3, <2>7 DEF TInv
<1>2. ASSUME NEW c \in Cycles, FetchBatch(c) \/ CycleStep(c)
      PROVE  TInv'
  BY <1>2, WorkerStep, TCycle DEF TInv
<1>3. CASE CrashWorker
  <2>1. TypeInv'
    BY <1>3, TypeWorker
  <2>2. StoredIsKept'
    BY <1>3 DEF CrashWorker, service, StoredIsKept, TInv
  <2>3. \A c \in Cycles : cycle'[c].batch = <<>>
    BY <1>3 DEF CrashWorker, NoCycle
  <2>4. Len(<<>>) = 0 /\ 1..0 = {}
    OBVIOUS
  <2>5. BatchesPending'
    BY <2>3, <2>4 DEF BatchesPending
  <2>6. ~WorkerStood'
    BY <1>3, BoundKinds DEF CrashWorker, Spend, WorkerStood, TypeInv
  <2>. QED
    BY <2>1, <2>2, <2>5, <2>6 DEF TInv, PublishedIsSafe
<1>4. CASE ServiceStep
  BY <1>4, TService
<1>5. CASE UNCHANGED vars
  <2>1. TypeInv'
    BY <1>5, TypeStep
  <2>2. StoredIsKept' /\ BatchesPending'
    BY <1>5 DEF vars, TInv, StoredIsKept, BatchesPending
  <2>3. PublishedIsSafe'
    BY <1>5 DEF vars, TInv, PublishedIsSafe, WorkerStood, Safe, Held, Current
  <2>. QED
    BY <2>1, <2>2, <2>3 DEF TInv
<1>. QED
  BY <1>1, <1>2, <1>3, <1>4, <1>5 DEF Next, ServiceStep

\* While the worker and its connection stand, no event that has a row loses its last
\* copy: neither the marks of overlapping cycles, taken from old snapshots, nor a failed
\* statement, nor a lost connection of the workflow service (index.ts:1430-1529,
\* apps/workflow-service/src/index.ts:80-102).
THEOREM NoEventIsLost == Spec => []NothingIsLost
<1>1. TInv => NothingIsLost
  <2>. SUFFICES ASSUME TInv, WorkerStood, NEW e \in LifecycleEvents, Exists(outbox[e]),
                       outbox[e].status \notin {"PENDING", "FAILED"}
                PROVE  e \in timeline \/ InFlight(e)
    BY DEF NothingIsLost
  <2>1. e \in Events /\ outbox[e].status = "PUBLISHED"
    BY DEF TInv, TypeInv, TypeOK, Rows, RowStatuses, Exists, LifecycleEvents
  <2>2. Safe(e)
    BY <2>1 DEF TInv, PublishedIsSafe
  <2>. QED
    BY <2>2 DEF Safe, Held, InFlight
<1>. QED
  BY <1>1, TInit, TStep, PTL DEF Spec

-----------------------------------------------------------------------------
(* No row is stranded.                                                     *)

\* A row that is PENDING has attempts left, and so had every row of a batch.
AttemptsAreLeft ==
  /\ \A e \in Events : Exists(outbox[e]) => Listed(e)
  /\ \A e \in Events : outbox[e].status = "PENDING" => Dispatchable(outbox[e])
  /\ \A c \in Cycles : \A i \in 1..Len(cycle[c].batch) : Left(cycle[c].batch[i])

FoundInv == TypeInv /\ AttemptsAreLeft

\* A batch gets shorter or is read anew.
LEMMA BatchesLeft ==
  ASSUME FoundInv, NEW c \in Cycles, NEW d,
         \/ \A i \in 1..Len(d.batch) : Left(d.batch[i])
         \/ \A i \in 1..Len(d.batch) : \E j \in 1..Len(cycle[c].batch) :
              d.batch[i] = cycle[c].batch[j],
         cycle' = [cycle EXCEPT ![c] = d], created' = created
  PROVE  \A x \in Cycles : \A i \in 1..Len(cycle'[x].batch) : Left(cycle[x].batch[i])'
<1>1. \A i \in 1..Len(d.batch) : Left(d.batch[i])
  BY DEF FoundInv, AttemptsAreLeft
<1>2. \A x \in Cycles : cycle'[x] = IF x = c THEN d ELSE cycle[x]
  BY DEF FoundInv, TypeInv
<1>. QED
  BY <1>1, <1>2 DEF FoundInv, AttemptsAreLeft, Left, Listed

LEMMA FoundCycle ==
  ASSUME FoundInv, NEW c \in Cycles, FetchBatch(c) \/ CycleStep(c)
  PROVE  AttemptsAreLeft'
<1>1. created' = created /\ outbox \in [Events -> Rows]
  BY DEF FetchBatch, CycleStep, Publish, PublishThrows, MarkRow, MarkRowFails, FoundInv,
         TypeInv, TypeOK
<1>2. CASE FetchBatch(c)
  <2>1. PICK batch \in Seq(Reads) :
          /\ \A i \in 1..Len(batch) : Left(batch[i])
          /\ cycle' = [cycle EXCEPT ![c] = [step |-> "PUBLISH", batch |-> batch]]
    BY <1>2, FetchType DEF FoundInv
  <2>2. PICK d : d = [step |-> "PUBLISH", batch |-> batch]
    OBVIOUS
  <2>3. d.batch = batch /\ cycle' = [cycle EXCEPT ![c] = d]
    BY <2>1, <2>2
  <2>4. \A x \in Cycles : \A i \in 1..Len(cycle'[x].batch) : Left(cycle[x].batch[i])'
    BY <1>1, <2>1, <2>3, BatchesLeft
  <2>5. outbox' = outbox
    BY <1>2 DEF FetchBatch
  <2>. QED
    BY <1>1, <2>4, <2>5 DEF FoundInv, AttemptsAreLeft, Left, Listed
<1>3. CASE Publish(c) \/ PublishThrows(c)
  <2>1. outbox' = outbox /\ \E step : cycle' = [cycle EXCEPT ![c].step = step]
    BY <1>3 DEF Publish, PublishThrows, Step
  <2>2. \A x \in Cycles : cycle'[x].batch = cycle[x].batch
    BY <2>1 DEF FoundInv, TypeInv, CycleStates
  <2>. QED
    BY <1>1, <2>1, <2>2 DEF FoundInv, AttemptsAreLeft, Left, Listed
<1>4. CASE MarkRow(c) \/ MarkRowFails(c)
  <2>1. cycle[c].step # "IDLE" /\ NextRow(c)
    BY <1>4 DEF MarkRow, MarkRowFails
  <2>2. \A x \in Cycles : \A i \in 1..Len(cycle'[x].batch) : Left(cycle[x].batch[i])'
    <3>1. PICK d \in CycleStates :
            /\ cycle' = [cycle EXCEPT ![c] = d]
            /\ \A i \in 1..Len(d.batch) : \E j \in 1..Len(cycle[c].batch) :
                 d.batch[i] = cycle[c].batch[j]
      BY <2>1, NextRowType DEF FoundInv
    <3>. QED
      BY <1>1, <3>1, BatchesLeft
  <2>3. PICK e, s : e = Current(c).event /\ s = Current(c).row
    OBVIOUS
  <2>4. e \in Events /\ s \in Rows /\ Dispatchable(s) /\ outbox[e] \in Rows /\ Listed(e)
    <3>1. cycle[c].batch \in Seq(Reads) /\ cycle[c].batch # <<>> /\ e \in Events /\ s \in Rows
      BY <2>1, <2>3, UnderWay DEF FoundInv
    <3>2. 1 \in 1..Len(cycle[c].batch)
      BY <3>1, EmptySeq, LenProperties
    <3>3. Current(c) = cycle[c].batch[1]
      BY DEF Current
    <3>4. Left(Current(c))
      BY <3>2, <3>3 DEF FoundInv, AttemptsAreLeft
    <3>. QED
      BY <1>1, <2>3, <3>1, <3>4 DEF Left
  <2>5. \/ outbox' = outbox
        \/ outbox' = [outbox EXCEPT ![e] = MarkPublished(outbox[e])]
        \/ outbox' = [outbox EXCEPT ![e] = MarkPublishFailure(s)]
    BY <1>4, <2>3 DEF MarkRow, MarkRowFails
  <2>6. MarkPublished(outbox[e]).status # "PENDING"
    BY DEF MarkPublished
  <2>7. MarkPublishFailure(s).status = "PENDING" => Dispatchable(MarkPublishFailure(s))
    BY <2>4, MaxPublishAttemptsAssumption DEF MarkPublishFailure, Dispatchable, Rows
  <2>8. \A x \in Events :
          \/ outbox'[x] = outbox[x]
          \/ x = e /\ outbox'[x] \in {MarkPublished(outbox[e]), MarkPublishFailure(s)}
    BY <1>1, <2>5
  <2>9. ASSUME NEW x \in Events
        PROVE  /\ Exists(outbox'[x]) => Listed(x)'
               /\ outbox'[x].status = "PENDING" => Dispatchable(outbox'[x])
    BY <1>1, <2>4, <2>6, <2>7, <2>8 DEF FoundInv, AttemptsAreLeft, Listed
  <2>. QED
    BY <2>2, <2>9 DEF AttemptsAreLeft
<1>. QED
  BY <1>2, <1>3, <1>4 DEF CycleStep

LEMMA FoundInit == Init => FoundInv
<1>. SUFFICES ASSUME Init PROVE FoundInv
  OBVIOUS
<1>1. \A e \in Events : outbox[e].status = "ABSENT"
  BY DEF Init, AbsentRow
<1>2. \A c \in Cycles : cycle[c].batch = <<>>
  BY DEF Init, NoCycle
<1>3. 1..Len(<<>>) = {}
  OBVIOUS
<1>. QED
  BY <1>1, <1>2, <1>3, TypeInit DEF FoundInv, AttemptsAreLeft, Exists

LEMMA FoundStep == FoundInv /\ [Next]_vars => FoundInv'
<1>. SUFFICES ASSUME FoundInv, [Next]_vars PROVE FoundInv'
  OBVIOUS
<1>1. TypeInv /\ TypeInv'
  BY TypeStep DEF FoundInv
<1>2. ASSUME NEW e \in Events, CommitRow(e) PROVE AttemptsAreLeft'
  <2>1. /\ outbox \in [Events -> Rows] /\ created \in Seq(Events)
        /\ outbox' = [outbox EXCEPT ![e] = NewRow]
        /\ created' = Append(created, e) /\ cycle' = cycle
    BY <1>1, <1>2 DEF CommitRow, PersistOutboxEvent, TypeInv, TypeOK
  <2>2. /\ created' \in Seq(Events) /\ Len(created') = Len(created) + 1 /\ Len(created) \in Nat
        /\ \A i \in 1..Len(created) : created'[i] = created[i]
        /\ created'[Len(created) + 1] = e
    BY <2>1, AppendProperties, LenProperties
  <2>3. DOMAIN created = 1..Len(created) /\ DOMAIN created' = 1..Len(created) + 1
    BY <2>1, <2>2, LenProperties
  <2>4. Listed(e)' /\ \A x : Listed(x) => Listed(x)'
    BY <2>2, <2>3 DEF Listed
  <2>5. Dispatchable(NewRow)
    BY MaxPublishAttemptsAssumption DEF Dispatchable, NewRow
  <2>6. \A x \in Events : outbox'[x] = IF x = e THEN NewRow ELSE outbox[x]
    BY <2>1
  <2>7. \A c \in Cycles : \A i \in 1..Len(cycle'[c].batch) : Left(cycle[c].batch[i])'
    BY <2>1, <2>4 DEF FoundInv, AttemptsAreLeft, Left
  <2>. QED
    BY <2>4, <2>5, <2>6, <2>7 DEF FoundInv, AttemptsAreLeft
<1>3. CASE CrashWorker
  <2>1. \A c \in Cycles : cycle'[c].batch = <<>>
    BY <1>3 DEF CrashWorker, NoCycle
  <2>2. 1..Len(<<>>) = {}
    OBVIOUS
  <2>3. outbox' = outbox /\ created' = created
    BY <1>3 DEF CrashWorker
  <2>. QED
    BY <1>1, <2>1, <2>2, <2>3 DEF FoundInv, AttemptsAreLeft, Listed
<1>4. ASSUME UNCHANGED <<outbox, created, cycle>> PROVE AttemptsAreLeft'
  BY <1>4 DEF FoundInv, AttemptsAreLeft, Left, Listed
<1>5. CASE ServiceStep \/ UNCHANGED vars
  <2>1. UNCHANGED <<outbox, created, cycle>>
    BY <1>5 DEF ServiceStep, Transmit, Announce, Deliver, SlotStep, Reject, Persist, Ack,
                PersistFails, LoseConnection, worker, vars
  <2>. QED
    BY <1>1, <1>4, <2>1 DEF FoundInv
<1>. QED
  BY <1>1, <1>2, <1>3, <1>5, FoundCycle DEF FoundInv, Next, ServiceStep

\* However the marks of overlapping cycles overwrite each other: a row that stays PENDING
\* is one the next query looks for, with attempts left (index.ts:1470-1503).
THEOREM PendingIsDue ==
  Spec => [](\A e \in Events : outbox[e].status = "PENDING" =>
               \E i \in Due : created[i] = e)
<1>1. FoundInv => \A e \in Events : outbox[e].status = "PENDING" =>
                    \E i \in Due : created[i] = e
  BY DEF FoundInv, AttemptsAreLeft, Listed, Exists, Due
<1>. QED
  BY <1>1, FoundInit, FoundStep, PTL DEF Spec

=============================================================================
