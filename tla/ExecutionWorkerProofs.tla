------------------------ MODULE ExecutionWorkerProofs ------------------------
(***************************************************************************)
(* Theorems about ExecutionWorker, for every set of executions, workers    *)
(* and timers, every number of nodes and retries, and any number of        *)
(* crashes and failures.                                                   *)
(***************************************************************************)
EXTENDS ExecutionWorker, SequenceTheorems, TLAPS

\* What type correctness needs besides itself: a worker that is about to handle
\* the head of its batch has one.
BatchReady ==
  \A w \in Workers :
    worker[w].pc \in {"Publish", "RecordPublished", "RecordPublishFailure"} =>
      worker[w].batch # <<>>

TypeInv == TypeOK /\ BatchReady

-----------------------------------------------------------------------------
(* Lemmas on the operators the actions are built from.                     *)

\* The rows stay rows.
LEMMA RowTypes ==
  /\ AbsentRow \in Rows /\ NewRow \in Rows
  /\ \A r \in Rows : MarkPublished(r) \in Rows /\ MarkPublishFailure(r) \in Rows
BY DEF Rows, RowStatuses, AbsentRow, NewRow, MarkPublished, MarkPublishFailure

LEMMA IdleTypes == IdleWorker \in Deliveries /\ IdleDispatcher \in Cycles
<1>1. Commands # {}
  <2>1. PICK e \in Executions : TRUE
    BY WorkerAssumption
  <2>2. [execution |-> e, attempt |-> 0] \in Commands
    BY WorkerAssumption DEF Commands
  <2>. QED
    BY <2>2
<1>2. (CHOOSE c \in Commands : TRUE) \in Commands
  BY <1>1
<1>. QED
  BY <1>2, WorkerAssumption
  DEF IdleWorker, IdleDispatcher, Deliveries, Cycles, Labels, Returns, Catches

\* A worker's record may be replaced by any delivery that has a batch if it needs one.
LEMMA UpdateType ==
  ASSUME TypeInv, NEW w \in Workers, NEW d \in Deliveries,
         worker' = [worker EXCEPT ![w] = d],
         d.pc \in {"Publish", "RecordPublished", "RecordPublishFailure"} => d.batch # <<>>
  PROVE  /\ worker' \in [Workers -> Deliveries]
         /\ BatchReady'
BY DEF TypeInv, TypeOK, BatchReady

LEMMA ThrowType ==
  ASSUME TypeInv, NEW w \in Workers, NEW retryable \in BOOLEAN, Throw(w, retryable)
  PROVE  /\ worker' \in [Workers -> Deliveries]
         /\ BatchReady'
<1>. DEFINE d == [worker[w] EXCEPT !.pc = worker[w].rescue,
                                   !.rescue = Enclosing(worker[w].rescue),
                                   !.batch = <<>>,
                                   !.retryable = retryable]
<1>1. worker[w] \in Deliveries
  BY DEF TypeInv, TypeOK
<1>2. Enclosing(worker[w].rescue) \in Catches /\ worker[w].rescue \in Labels
  BY <1>1 DEF Enclosing, Catches, Labels, Deliveries
<1>3. <<>> \in Seq(Snapshots)
  OBVIOUS
<1>4. d \in Deliveries
  BY <1>1, <1>2, <1>3 DEF Deliveries
<1>5. worker' = [worker EXCEPT ![w] = d]
  BY DEF Throw
<1>6. d.pc \notin {"Publish", "RecordPublished", "RecordPublishFailure"}
  BY <1>1 DEF Deliveries, Catches
<1>. QED
  BY <1>4, <1>5, <1>6, UpdateType

LEMMA GotoType ==
  ASSUME TypeInv, NEW w \in Workers,
         NEW label \in Labels \ {"Publish", "RecordPublished", "RecordPublishFailure"},
         Goto(w, label)
  PROVE  /\ worker' \in [Workers -> Deliveries]
         /\ BatchReady'
BY DEF TypeInv, TypeOK, BatchReady, Goto, Deliveries

LEMMA EmitType ==
  ASSUME TypeInv, NEW w \in Workers, NEW key \in Keys, NEW label \in Returns,
         Emit(w, key, label)
  PROVE  /\ outbox' \in [Keys -> Rows]
         /\ worker' \in [Workers -> Deliveries]
         /\ BatchReady'
<1>. DEFINE b == <<[key |-> key, row |-> outbox'[key]]>>
            d == [worker[w] EXCEPT !.pc = "Publish", !.batch = b, !.next = label]
<1>1. outbox' \in [Keys -> Rows]
  BY RowTypes DEF TypeInv, TypeOK, Emit, PersistOutboxEvent
<1>2. [key |-> key, row |-> outbox'[key]] \in Snapshots
  BY <1>1 DEF Snapshots
<1>3. b \in Seq(Snapshots) /\ b # <<>>
  BY <1>2
<1>4. worker[w] \in Deliveries
  BY DEF TypeInv, TypeOK
<1>5. d \in Deliveries
  <2>. HIDE DEF b
  <2>. QED  BY <1>3, <1>4 DEF Deliveries, Labels
<1>6. worker' = [worker EXCEPT ![w] = d]
  BY DEF Emit
<1>7. d.batch # <<>>
  <2>. HIDE DEF b
  <2>. QED  BY <1>3, <1>4 DEF Deliveries
<1>. QED
  <2>. HIDE DEF d
  <2>. QED  BY <1>1, <1>5, <1>6, <1>7, UpdateType

LEMMA NextInBatchType ==
  ASSUME TypeInv, NEW w \in Workers, worker[w].batch # <<>>, NextInBatch(w)
  PROVE  /\ worker' \in [Workers -> Deliveries]
         /\ BatchReady'
<1>. DEFINE rest == Tail(worker[w].batch)
            label == IF Len(worker[w].batch) = 1 THEN worker[w].next ELSE "Publish"
            d == [worker[w] EXCEPT !.batch = rest, !.pc = label]
<1>1. /\ worker[w] \in Deliveries
      /\ worker[w].batch \in Seq(Snapshots)
      /\ worker[w].next \in Returns
  BY DEF TypeInv, TypeOK, Deliveries
<1>2. /\ rest \in Seq(Snapshots)
      /\ Len(rest) = Len(worker[w].batch) - 1
      /\ Len(worker[w].batch) \in Nat
  BY <1>1, HeadTailProperties
<1>3. Len(worker[w].batch) # 1 => rest # <<>>
  <2>. HIDE DEF rest
  <2>1. Len(rest) \in Nat
    BY <1>2, LenProperties
  <2>2. Len(<<>>) = 0
    OBVIOUS
  <2>3. Len(worker[w].batch) # 1 => Len(rest) # 0
    BY <1>2, <2>1
  <2>. QED
    BY <2>2, <2>3, Zenon
<1>4. label \in Labels
  BY <1>1, Returns \subseteq Labels DEF Labels, Returns
<1>5. d \in Deliveries
  <2>. HIDE DEF rest, label
  <2>. QED  BY <1>1, <1>2, <1>4 DEF Deliveries
<1>6. worker' = [worker EXCEPT ![w] = d]
  BY DEF NextInBatch
<1>7. d.pc \in {"Publish", "RecordPublished", "RecordPublishFailure"} => d.batch # <<>>
  <2>1. d.pc = label /\ d.batch = rest
    <3>. HIDE DEF rest, label
    <3>. QED  BY <1>1 DEF Deliveries
  <2>. QED
    BY <2>1, <1>1, <1>3 DEF Returns
<1>. QED
  <2>. HIDE DEF d
  <2>. QED  BY <1>5, <1>6, <1>7, UpdateType

LEMMA FlushType ==
  ASSUME TypeInv, NEW w \in Workers, NEW label \in Returns, FlushPending(w, label)
  PROVE  /\ worker' \in [Workers -> Deliveries]
         /\ BatchReady'
<1>. DEFINE d == [worker[w] EXCEPT !.pc = "FindPending", !.next = label]
<1>1. worker[w] \in Deliveries
  BY DEF TypeInv, TypeOK
<1>2. d \in Deliveries /\ d.pc = "FindPending"
  BY <1>1 DEF Deliveries, Labels
<1>3. worker' = [worker EXCEPT ![w] = d]
  BY DEF FlushPending
<1>. QED
  <2>. HIDE DEF d
  <2>. QED  BY <1>2, <1>3, UpdateType

LEMMA KeyType ==
  ASSUME NEW kind \in {"started", "completed", "failed"}, NEW e \in Executions,
         NEW n \in 0..NodeCount
  PROVE  Key(kind, e, n) \in Keys
BY DEF Key, Keys

\* What is known of the delivery a worker holds.
LEMMA DeliveryType ==
  ASSUME TypeInv, NEW w \in Workers
  PROVE  /\ worker[w] \in Deliveries
         /\ worker[w].command \in Commands
         /\ Of(w) \in Executions
         /\ worker[w].node \in 0..NodeCount
         /\ worker[w].batch \in Seq(Snapshots)
         /\ worker[w].next \in Returns
         /\ 0 \in 0..NodeCount
BY WorkerAssumption DEF TypeInv, TypeOK, Deliveries, Commands, Of

-----------------------------------------------------------------------------
(* Type correctness.                                                       *)

LEMMA TypeInit == Init => TypeInv
<1>. SUFFICES ASSUME Init PROVE TypeInv
  OBVIOUS
<1>1. NodeStatus("NONE") \in NodeRows
  BY DEF NodeStatus, NodeRows
<1>2. /\ execution \in [Executions -> Statuses]
      /\ request \in [Executions -> {"none", "publishing", "published", "lost"}]
      /\ nodeRow \in [Executions -> [Nodes -> NodeRows]]
      /\ outbox \in [Keys -> Rows]
  BY <1>1, RowTypes DEF Init, Statuses
<1>3. /\ ready \in [Commands -> Nat] /\ delayed \in [Commands -> Nat]
      /\ deadLettered \in SUBSET Commands
      /\ crashes \in 0..MaxCrashes /\ failures \in 0..MaxFailures
  BY WorkerAssumption DEF Init
<1>4. /\ worker \in [Workers -> Deliveries]
      /\ dispatcher \in [Dispatchers -> Cycles]
  BY IdleTypes DEF Init
<1>5. BatchReady
  BY DEF Init, BatchReady, IdleWorker
<1>. QED
  BY <1>2, <1>3, <1>4, <1>5 DEF TypeInv, TypeOK

\* The API and the broker.
LEMMA TypeApi ==
  ASSUME TypeInv, NEW e \in Executions,
         RequestExecution(e) \/ PublishCommand(e) \/ LoseCommand(e)
  PROVE  TypeInv'
<1>. [execution |-> e, attempt |-> 0] \in Commands
  BY WorkerAssumption DEF Commands
<1>1. CASE RequestExecution(e)
  BY <1>1 DEF RequestExecution, TypeInv, TypeOK, BatchReady, Statuses, queues, faults
<1>2. CASE PublishCommand(e)
  BY <1>2 DEF PublishCommand, TypeInv, TypeOK, BatchReady, faults
<1>3. CASE LoseCommand(e)
  BY <1>3, WorkerAssumption DEF LoseCommand, TypeInv, TypeOK, BatchReady, queues
<1>. QED
  BY <1>1, <1>2, <1>3

LEMMA TypeBroker ==
  ASSUME TypeInv, NEW c \in Commands,
         RetryDue(c) \/ \E w \in Workers : Deliver(w, c)
  PROVE  TypeInv'
<1>1. CASE RetryDue(c)
  BY <1>1 DEF RetryDue, TypeInv, TypeOK, BatchReady, faults
<1>2. ASSUME NEW w \in Workers, Deliver(w, c)
      PROVE  TypeInv'
  <2>1. ready' \in [Commands -> Nat]
    BY <1>2 DEF Deliver, TypeInv, TypeOK
  <2>2. [IdleWorker EXCEPT !.pc = "FindExecution", !.command = c] \in Deliveries
    BY IdleTypes DEF Deliveries, Labels
  <2>3. worker' \in [Workers -> Deliveries]
    BY <1>2, <2>2 DEF Deliver, TypeInv, TypeOK
  <2>4. BatchReady'
    BY <1>2, IdleTypes DEF Deliver, TypeInv, TypeOK, BatchReady, Deliveries
  <2>. QED
    BY <1>2, <2>1, <2>3, <2>4 DEF Deliver, TypeInv, TypeOK, faults
<1>. QED
  BY <1>1, <1>2

\* processWorkflowExecution.
LEMMA TypeProcess ==
  ASSUME TypeInv, NEW w \in Workers,
         \/ FindExecution(w) \/ BeginExecution(w) \/ BeginConflict(w)
         \/ RereadExecution(w) \/ PersistStarted(w)
         \/ CompleteExecution(w) \/ CompletionMissed(w) \/ CompletionConflict(w)
  PROVE  TypeInv'
<1>. Key("started", Of(w), 0) \in Keys /\ Key("completed", Of(w), 0) \in Keys
  BY DeliveryType, KeyType
<1>1. CASE FindExecution(w)
  <2>1. FlushPending(w, "Ack") \/ Goto(w, "BeginExecution") \/ Goto(w, "PersistStarted")
    BY <1>1 DEF FindExecution
  <2>2. worker' \in [Workers -> Deliveries] /\ BatchReady'
    BY <2>1, FlushType, GotoType DEF Labels, Returns
  <2>. QED
    BY <1>1, <2>2 DEF FindExecution, TypeInv, TypeOK, queues, faults
<1>2. CASE BeginExecution(w)
  <2>1. outbox' \in [Keys -> Rows] /\ worker' \in [Workers -> Deliveries] /\ BatchReady'
    BY <1>2, EmitType DEF BeginExecution, Returns
  <2>. QED
    BY <1>2, <2>1 DEF BeginExecution, TypeInv, TypeOK, Statuses, queues, faults
<1>3. CASE BeginConflict(w)
  <2>1. worker' \in [Workers -> Deliveries] /\ BatchReady'
    BY <1>3, GotoType DEF BeginConflict, Labels
  <2>. QED
    BY <1>3, <2>1 DEF BeginConflict, TypeInv, TypeOK, queues, faults
<1>4. CASE RereadExecution(w)
  <2>1. worker' \in [Workers -> Deliveries] /\ BatchReady'
    BY <1>4, FlushType, GotoType DEF RereadExecution, Labels, Returns
  <2>. QED
    BY <1>4, <2>1 DEF RereadExecution, TypeInv, TypeOK, queues, faults
<1>5. CASE PersistStarted(w)
  <2>1. outbox' \in [Keys -> Rows] /\ worker' \in [Workers -> Deliveries] /\ BatchReady'
    BY <1>5, EmitType DEF PersistStarted, Returns
  <2>. QED
    BY <1>5, <2>1 DEF PersistStarted, TypeInv, TypeOK, queues, faults
<1>6. CASE CompleteExecution(w)
  <2>1. outbox' \in [Keys -> Rows] /\ worker' \in [Workers -> Deliveries] /\ BatchReady'
    BY <1>6, EmitType DEF CompleteExecution, Returns
  <2>. QED
    BY <1>6, <2>1 DEF CompleteExecution, TypeInv, TypeOK, Statuses, queues, faults
<1>7. CASE CompletionMissed(w)
  <2>1. worker' \in [Workers -> Deliveries] /\ BatchReady'
    BY <1>7, GotoType DEF CompletionMissed, Labels
  <2>. QED
    BY <1>7, <2>1 DEF CompletionMissed, TypeInv, TypeOK, queues, faults
<1>8. CASE CompletionConflict(w)
  <2>1. worker' \in [Workers -> Deliveries] /\ BatchReady'
    BY <1>8, FlushType, ThrowType DEF CompletionConflict, Returns
  <2>. QED
    BY <1>8, <2>1 DEF CompletionConflict, TypeInv, TypeOK, queues, faults
<1>. QED
  BY <1>1, <1>2, <1>3, <1>4, <1>5, <1>6, <1>7, <1>8

\* executeWorkflowNodes.
LEMMA TypeNodes ==
  ASSUME TypeInv, NEW w \in Workers,
         \/ PrepareNodes(w) \/ StartNode(w) \/ PersistNodeStarted(w) \/ ExecuteNode(w)
         \/ CompleteNode(w) \/ PersistNodeCompleted(w) \/ NextNode(w)
         \/ FailNode(w) \/ PersistNodeFailed(w)
  PROVE  TypeInv'
<1>. /\ Key("started", Of(w), worker[w].node) \in Keys
     /\ Key("completed", Of(w), worker[w].node) \in Keys
     /\ Key("failed", Of(w), worker[w].node) \in Keys
  BY DeliveryType, KeyType
<1>. worker[w] \in Deliveries
  BY DeliveryType
<1>1. CASE PrepareNodes(w)
  <2>1. CASE \E retryable \in BOOLEAN : Throw(w, retryable)
    <3>1. worker' \in [Workers -> Deliveries] /\ BatchReady'
      BY <2>1, ThrowType
    <3>. QED
      BY <1>1, <3>1 DEF PrepareNodes, TypeInv, TypeOK, queues, faults
  <2>2. CASE worker' = [worker EXCEPT ![w].pc = "StartNode", ![w].node = 1]
    <3>. DEFINE d == [worker[w] EXCEPT !.pc = "StartNode", !.node = 1]
    <3>1. d \in Deliveries /\ d.pc = "StartNode"
      <4>1. 1 \in 0..NodeCount /\ "StartNode" \in Labels
        BY WorkerAssumption DEF Labels
      <4>. QED
        BY <4>1 DEF Deliveries
    <3>2. worker' = [worker EXCEPT ![w] = d]
      BY <2>2
    <3>3. worker' \in [Workers -> Deliveries] /\ BatchReady'
      <4>. HIDE DEF d
      <4>. QED  BY <3>1, <3>2, UpdateType
    <3>. QED
      BY <1>1, <3>3 DEF PrepareNodes, TypeInv, TypeOK, queues, faults
  <2>. QED
    BY <1>1, <2>1, <2>2 DEF PrepareNodes
<1>2. CASE StartNode(w)
  <2>1. worker' \in [Workers -> Deliveries] /\ BatchReady'
    BY <1>2, GotoType DEF StartNode, Labels
  <2>2. NodeStatus("RUNNING") \in NodeRows
    BY DEF NodeStatus, NodeRows
  <2>3. nodeRow' \in [Executions -> [Nodes -> NodeRows]]
    BY <1>2, <2>2 DEF StartNode, TypeInv, TypeOK
  <2>. QED
    BY <1>2, <2>1, <2>3 DEF StartNode, TypeInv, TypeOK, queues, faults
<1>3. CASE PersistNodeStarted(w)
  <2>1. outbox' \in [Keys -> Rows] /\ worker' \in [Workers -> Deliveries] /\ BatchReady'
    BY <1>3, EmitType DEF PersistNodeStarted, Returns
  <2>. QED
    BY <1>3, <2>1 DEF PersistNodeStarted, TypeInv, TypeOK, queues, faults
<1>4. CASE ExecuteNode(w)
  <2>1. CASE worker' = [worker EXCEPT ![w].pc = "CompleteNode", ![w].rescue = "FailNode"]
    <3>. DEFINE d == [worker[w] EXCEPT !.pc = "CompleteNode", !.rescue = "FailNode"]
    <3>1. d \in Deliveries /\ d.pc = "CompleteNode"
      BY DEF Deliveries, Labels, Catches
    <3>2. worker' = [worker EXCEPT ![w] = d]
      BY <2>1
    <3>3. worker' \in [Workers -> Deliveries] /\ BatchReady'
      <4>. HIDE DEF d
      <4>. QED  BY <3>1, <3>2, UpdateType
    <3>. QED
      BY <1>4, <3>3 DEF ExecuteNode, TypeInv, TypeOK, queues, faults
  <2>2. ASSUME NEW retryable \in BOOLEAN,
               worker' = [worker EXCEPT ![w].pc = "FailNode", ![w].retryable = retryable]
        PROVE  TypeInv'
    <3>. DEFINE d == [worker[w] EXCEPT !.pc = "FailNode", !.retryable = retryable]
    <3>1. d \in Deliveries /\ d.pc = "FailNode"
      <4>1. "FailNode" \in Labels
        BY DEF Labels
      <4>. QED
        BY <4>1 DEF Deliveries
    <3>2. worker' = [worker EXCEPT ![w] = d]
      BY <2>2
    <3>3. worker' \in [Workers -> Deliveries] /\ BatchReady'
      <4>. HIDE DEF d
      <4>. QED  BY <3>1, <3>2, UpdateType
    <3>. QED
      BY <1>4, <3>3 DEF ExecuteNode, TypeInv, TypeOK, queues, faults
  <2>. QED
    BY <1>4, <2>1, <2>2 DEF ExecuteNode
<1>5. CASE CompleteNode(w)
  <2>1. worker' \in [Workers -> Deliveries] /\ BatchReady'
    BY <1>5, GotoType DEF CompleteNode, Labels
  <2>2. NodeStatus("SUCCEEDED") \in NodeRows
    BY DEF NodeStatus, NodeRows
  <2>3. nodeRow' \in [Executions -> [Nodes -> NodeRows]]
    BY <1>5, <2>2 DEF CompleteNode, TypeInv, TypeOK
  <2>. QED
    BY <1>5, <2>1, <2>3 DEF CompleteNode, TypeInv, TypeOK, queues, faults
<1>6. CASE PersistNodeCompleted(w)
  <2>1. outbox' \in [Keys -> Rows] /\ worker' \in [Workers -> Deliveries] /\ BatchReady'
    BY <1>6, EmitType DEF PersistNodeCompleted, Returns
  <2>. QED
    BY <1>6, <2>1 DEF PersistNodeCompleted, TypeInv, TypeOK, queues, faults
<1>7. CASE NextNode(w)
  <2>. DEFINE d == IF worker[w].node = NodeCount
                   THEN [worker[w] EXCEPT !.pc = "CompleteExecution", !.rescue = "HandleFailure"]
                   ELSE [worker[w] EXCEPT !.pc = "StartNode", !.rescue = "HandleFailure",
                                          !.node = @ + 1]
  <2>1. worker[w].node # NodeCount => worker[w].node + 1 \in 0..NodeCount
    BY DeliveryType, WorkerAssumption
  <2>2. d \in Deliveries /\ d.pc \in {"CompleteExecution", "StartNode"}
    BY <2>1 DEF Deliveries, Labels, Catches
  <2>3. worker' = [worker EXCEPT ![w] = d]
    BY <1>7 DEF NextNode
  <2>4. worker' \in [Workers -> Deliveries] /\ BatchReady'
    <3>. HIDE DEF d
    <3>. QED  BY <2>2, <2>3, UpdateType
  <2>. QED
    BY <1>7, <2>4 DEF NextNode, TypeInv, TypeOK, queues, faults
<1>8. CASE FailNode(w)
  <2>1. worker' \in [Workers -> Deliveries] /\ BatchReady'
    BY <1>8, GotoType DEF FailNode, Labels
  <2>2. NodeFailure(worker[w].retryable) \in NodeRows
    BY DEF NodeFailure, NodeRows
  <2>3. nodeRow' \in [Executions -> [Nodes -> NodeRows]]
    BY <1>8, <2>2 DEF FailNode, TypeInv, TypeOK
  <2>. QED
    BY <1>8, <2>1, <2>3 DEF FailNode, TypeInv, TypeOK, queues, faults
<1>9. CASE PersistNodeFailed(w)
  <2>1. outbox' \in [Keys -> Rows] /\ worker' \in [Workers -> Deliveries] /\ BatchReady'
    BY <1>9, EmitType DEF PersistNodeFailed, Returns
  <2>. QED
    BY <1>9, <2>1 DEF PersistNodeFailed, TypeInv, TypeOK, queues, faults
<1>. QED
  BY <1>1, <1>2, <1>3, <1>4, <1>5, <1>6, <1>7, <1>8, <1>9

\* The catch block of handleDelivery and failWorkflowExecution.
LEMMA TypeFailure ==
  ASSUME TypeInv, NEW w \in Workers,
         \/ RetryCommand(w) \/ GiveUp(w) \/ FailExecution(w) \/ FailureMissed(w)
         \/ FailureConflict(w) \/ DeadLetter(w) \/ Ack(w) \/ Nack(w)
  PROVE  TypeInv'
<1>. worker[w] \in Deliveries /\ worker[w].command \in Commands
  BY DeliveryType
<1>1. CASE RetryCommand(w)
  <2>1. [worker[w].command EXCEPT !.attempt = @ + 1] \in Commands
    BY <1>1, WorkerAssumption DEF RetryCommand, MayRetry, Commands
  <2>2. delayed' \in [Commands -> Nat]
    BY <1>1, <2>1 DEF RetryCommand, TypeInv, TypeOK
  <2>3. worker' \in [Workers -> Deliveries] /\ BatchReady'
    BY <1>1, GotoType DEF RetryCommand, Labels
  <2>. QED
    BY <1>1, <2>2, <2>3 DEF RetryCommand, TypeInv, TypeOK, faults
<1>2. CASE GiveUp(w)
  <2>. DEFINE d == [worker[w] EXCEPT !.pc = "FailExecution", !.rescue = "Nack"]
  <2>1. d \in Deliveries /\ d.pc = "FailExecution"
    BY DEF Deliveries, Labels, Catches
  <2>2. worker' = [worker EXCEPT ![w] = d]
    BY <1>2 DEF GiveUp
  <2>3. worker' \in [Workers -> Deliveries] /\ BatchReady'
    <3>. HIDE DEF d
    <3>. QED  BY <2>1, <2>2, UpdateType
  <2>. QED
    BY <1>2, <2>3 DEF GiveUp, TypeInv, TypeOK, queues, faults
<1>3. CASE FailExecution(w)
  <2>1. Key("failed", Of(w), 0) \in Keys
    BY DeliveryType, KeyType
  <2>2. outbox' \in [Keys -> Rows] /\ worker' \in [Workers -> Deliveries] /\ BatchReady'
    BY <1>3, <2>1, EmitType DEF FailExecution, Returns
  <2>. QED
    BY <1>3, <2>2 DEF FailExecution, TypeInv, TypeOK, Statuses, queues, faults
<1>4. CASE FailureMissed(w)
  <2>1. worker' \in [Workers -> Deliveries] /\ BatchReady'
    BY <1>4, GotoType DEF FailureMissed, Labels
  <2>. QED
    BY <1>4, <2>1 DEF FailureMissed, TypeInv, TypeOK, queues, faults
<1>5. CASE FailureConflict(w)
  <2>1. worker' \in [Workers -> Deliveries] /\ BatchReady'
    BY <1>5, FlushType, ThrowType DEF FailureConflict, Returns
  <2>. QED
    BY <1>5, <2>1 DEF FailureConflict, TypeInv, TypeOK, queues, faults
<1>6. CASE DeadLetter(w)
  <2>1. worker' \in [Workers -> Deliveries] /\ BatchReady'
    BY <1>6, GotoType DEF DeadLetter, Labels
  <2>. QED
    BY <1>6, <2>1 DEF DeadLetter, TypeInv, TypeOK, faults
<1>7. ASSUME worker' = [worker EXCEPT ![w] = IdleWorker]
      PROVE  worker' \in [Workers -> Deliveries] /\ BatchReady'
  <2>1. IdleWorker.pc = "Idle"
    BY DEF IdleWorker
  <2>. QED
    BY <1>7, <2>1, IdleTypes, UpdateType
<1>8. CASE Ack(w)
  BY <1>7, <1>8 DEF Ack, TypeInv, TypeOK, queues, faults
<1>9. CASE Nack(w)
  BY <1>7, <1>9 DEF Nack, TypeInv, TypeOK, faults
<1>. QED
  BY <1>1, <1>2, <1>3, <1>4, <1>5, <1>6, <1>8, <1>9

\* dispatchOutboxEvent.
LEMMA TypeDispatch ==
  ASSUME TypeInv, NEW w \in Workers,
         \/ FindPending(w) \/ Publish(w) \/ PublishFails(w)
         \/ RecordPublished(w) \/ RecordPublishFailure(w)
  PROVE  TypeInv'
<1>. /\ worker[w] \in Deliveries
     /\ worker[w].batch \in Seq(Snapshots)
     /\ worker[w].next \in Returns
  BY DeliveryType
<1>1. CASE FindPending(w)
  <2>. DEFINE found == PendingSnapshot(Key("started", Of(w), 0))
                         \o PendingSnapshot(Key("completed", Of(w), 0))
                         \o PendingSnapshot(Key("failed", Of(w), 0))
              label == IF found = <<>> THEN worker[w].next ELSE "Publish"
              d == [worker[w] EXCEPT !.batch = found, !.pc = label]
  <2>1. \A key \in Keys : PendingSnapshot(key) \in Seq(Snapshots)
    <3>. SUFFICES ASSUME NEW key \in Keys PROVE PendingSnapshot(key) \in Seq(Snapshots)
      OBVIOUS
    <3>1. [key |-> key, row |-> outbox[key]] \in Snapshots
      BY DEF Snapshots, TypeInv, TypeOK
    <3>2. /\ <<[key |-> key, row |-> outbox[key]]>> \in Seq(Snapshots)
          /\ <<>> \in Seq(Snapshots)
      BY <3>1
    <3>. QED
      BY <3>2 DEF PendingSnapshot
  <2>2. found \in Seq(Snapshots)
    <3>1. /\ PendingSnapshot(Key("started", Of(w), 0)) \in Seq(Snapshots)
          /\ PendingSnapshot(Key("completed", Of(w), 0)) \in Seq(Snapshots)
          /\ PendingSnapshot(Key("failed", Of(w), 0)) \in Seq(Snapshots)
      BY <2>1, DeliveryType, KeyType
    <3>. QED
      BY <3>1, ConcatProperties
  <2>3. label \in Labels /\ (label = "Publish" => found # <<>>)
           /\ label \notin {"RecordPublished", "RecordPublishFailure"}
    <3>. HIDE DEF found
    <3>. QED  BY DEF Labels, Returns
  <2>4. worker' = [worker EXCEPT ![w] = d]
    BY <1>1 DEF FindPending
  <2>5. d \in Deliveries /\ d.pc = label /\ d.batch = found
    <3>. HIDE DEF found, label
    <3>. QED  BY <2>2, <2>3 DEF Deliveries
  <2>6. worker' \in [Workers -> Deliveries] /\ BatchReady'
    <3>. HIDE DEF found, label, d
    <3>. QED  BY <2>3, <2>4, <2>5, UpdateType
  <2>. QED
    BY <1>1, <2>6 DEF FindPending, TypeInv, TypeOK, queues, faults
<1>2. ASSUME At(w, "Publish") \/ At(w, "RecordPublished") \/ At(w, "RecordPublishFailure")
      PROVE  /\ worker[w].batch # <<>>
             /\ Head(worker[w].batch) \in Snapshots
  BY <1>2, HeadTailProperties DEF At, TypeInv, BatchReady
<1>3. ASSUME NEW label \in {"RecordPublished", "RecordPublishFailure"},
             At(w, "Publish"), Goto(w, label)
      PROVE  worker' \in [Workers -> Deliveries] /\ BatchReady'
  <2>. DEFINE d == [worker[w] EXCEPT !.pc = label]
  <2>1. d \in Deliveries /\ d.batch = worker[w].batch
    BY DEF Deliveries, Labels
  <2>2. worker' = [worker EXCEPT ![w] = d]
    BY <1>3 DEF Goto
  <2>. HIDE DEF d
  <2>. QED
    BY <1>2, <1>3, <2>1, <2>2, UpdateType
<1>4. CASE Publish(w)
  <2>1. worker' \in [Workers -> Deliveries] /\ BatchReady'
    BY <1>2, <1>3, <1>4, NextInBatchType DEF Publish
  <2>. QED
    BY <1>4, <2>1 DEF Publish, TypeInv, TypeOK, queues, faults
<1>5. CASE PublishFails(w)
  <2>1. worker' \in [Workers -> Deliveries] /\ BatchReady'
    BY <1>3, <1>5 DEF PublishFails
  <2>. QED
    BY <1>5, <2>1, WorkerAssumption DEF PublishFails, TypeInv, TypeOK, queues
<1>6. CASE RecordPublished(w)
  <2>1. worker' \in [Workers -> Deliveries] /\ BatchReady'
    BY <1>2, <1>6, NextInBatchType DEF RecordPublished
  <2>2. outbox' \in [Keys -> Rows]
    BY <1>2, <1>6, RowTypes DEF RecordPublished, Snapshots, TypeInv, TypeOK
  <2>. QED
    BY <1>6, <2>1, <2>2 DEF RecordPublished, TypeInv, TypeOK, queues, faults
<1>7. CASE RecordPublishFailure(w)
  <2>1. worker' \in [Workers -> Deliveries] /\ BatchReady'
    BY <1>7, ThrowType DEF RecordPublishFailure
  <2>2. outbox' \in [Keys -> Rows]
    BY <1>2, <1>7, RowTypes DEF RecordPublishFailure, Snapshots, TypeInv, TypeOK
  <2>. QED
    BY <1>7, <2>1, <2>2 DEF RecordPublishFailure, TypeInv, TypeOK, queues, faults
<1>. QED
  BY <1>1, <1>4, <1>5, <1>6, <1>7

\* Crashes, restarts and failed statements.
LEMMA TypeSurroundings ==
  ASSUME TypeInv, NEW w \in Workers, DatabaseError(w) \/ Crash(w) \/ Restart(w)
  PROVE  TypeInv'
<1>1. CASE DatabaseError(w)
  <2>1. worker' \in [Workers -> Deliveries] /\ BatchReady'
    BY <1>1, ThrowType DEF DatabaseError
  <2>. QED
    BY <1>1, <2>1, WorkerAssumption DEF DatabaseError, TypeInv, TypeOK, queues
<1>2. CASE Crash(w)
  <2>1. [IdleWorker EXCEPT !.pc = "Down"] \in Deliveries
    BY IdleTypes DEF Deliveries, Labels
  <2>2. [IdleWorker EXCEPT !.pc = "Down"].pc = "Down"
    BY DEF IdleWorker
  <2>3. worker' \in [Workers -> Deliveries] /\ BatchReady'
    BY <1>2, <2>1, <2>2, UpdateType DEF Crash
  <2>4. ready' \in [Commands -> Nat]
    BY <1>2, DeliveryType DEF Crash, TypeInv, TypeOK
  <2>. QED
    BY <1>2, <2>3, <2>4, WorkerAssumption DEF Crash, TypeInv, TypeOK
<1>3. CASE Restart(w)
  <2>1. worker' \in [Workers -> Deliveries] /\ BatchReady'
    BY <1>3, GotoType DEF Restart, Labels
  <2>. QED
    BY <1>3, <2>1 DEF Restart, TypeInv, TypeOK, queues, faults
<1>. QED
  BY <1>1, <1>2, <1>3

\* The outbox timers.
LEMMA TypeDispatcher ==
  ASSUME TypeInv, NEW d \in Dispatchers, Dispatch(d) \/ DispatcherDatabaseError(d)
  PROVE  TypeInv'
<1>. dispatcher[d] \in Cycles
  BY DEF TypeInv, TypeOK
<1>1. CASE FetchPending(d)
  <2>1. {[key |-> k, row |-> outbox[k]] : k \in {k \in Keys : Dispatchable(outbox[k])}}
          \in SUBSET Snapshots
    BY DEF Snapshots, TypeInv, TypeOK
  <2>2. dispatcher' \in [Dispatchers -> Cycles]
    BY <1>1, <2>1 DEF FetchPending, Cycles, TypeInv, TypeOK
  <2>. QED
    BY <1>1, <2>2 DEF FetchPending, TypeInv, TypeOK, BatchReady, queues, faults
<1>2. CASE DispatchNext(d)
  <2>1. dispatcher' \in [Dispatchers -> Cycles]
    <3>1. PICK s \in dispatcher[d].fetched :
            \/ dispatcher' = [dispatcher EXCEPT ![d].fetched = @ \ {s}, ![d].sent = {s}]
            \/ dispatcher' = [dispatcher EXCEPT ![d].fetched = @ \ {s}, ![d].refused = {s}]
      BY <1>2 DEF DispatchNext
    <3>2. s \in Snapshots
      BY DEF Cycles
    <3>3. /\ [dispatcher[d] EXCEPT !.fetched = @ \ {s}, !.sent = {s}] \in Cycles
          /\ [dispatcher[d] EXCEPT !.fetched = @ \ {s}, !.refused = {s}] \in Cycles
      BY <3>2 DEF Cycles
    <3>. QED
      BY <3>1, <3>3 DEF TypeInv, TypeOK
  <2>2. failures' \in 0..MaxFailures
    BY <1>2, WorkerAssumption DEF DispatchNext, TypeInv, TypeOK
  <2>. QED
    BY <1>2, <2>1, <2>2 DEF DispatchNext, TypeInv, TypeOK, BatchReady, queues
<1>3. CASE DispatcherRecordsPublished(d)
  <2>1. dispatcher' \in [Dispatchers -> Cycles]
    BY <1>3 DEF DispatcherRecordsPublished, Cycles, TypeInv, TypeOK
  <2>2. outbox' \in [Keys -> Rows]
    BY <1>3, RowTypes DEF DispatcherRecordsPublished, Cycles, Snapshots, TypeInv, TypeOK
  <2>. QED
    BY <1>3, <2>1, <2>2
    DEF DispatcherRecordsPublished, TypeInv, TypeOK, BatchReady, queues, faults
<1>4. CASE DispatcherRecordsFailure(d)
  <2>1. dispatcher' \in [Dispatchers -> Cycles]
    BY <1>4 DEF DispatcherRecordsFailure, Cycles, TypeInv, TypeOK
  <2>2. outbox' \in [Keys -> Rows]
    BY <1>4, RowTypes DEF DispatcherRecordsFailure, Cycles, Snapshots, TypeInv, TypeOK
  <2>. QED
    BY <1>4, <2>1, <2>2
    DEF DispatcherRecordsFailure, TypeInv, TypeOK, BatchReady, queues, faults
<1>5. CASE DispatcherDatabaseError(d)
  <2>1. dispatcher' \in [Dispatchers -> Cycles]
    BY <1>5 DEF DispatcherDatabaseError, Cycles, TypeInv, TypeOK
  <2>. QED
    BY <1>5, <2>1, WorkerAssumption
    DEF DispatcherDatabaseError, TypeInv, TypeOK, BatchReady, queues
<1>. QED
  BY <1>1, <1>2, <1>3, <1>4, <1>5 DEF Dispatch

LEMMA TypeStep == TypeInv /\ [Next]_vars => TypeInv'
<1>. SUFFICES ASSUME TypeInv, [Next]_vars PROVE TypeInv'
  OBVIOUS
<1>1. CASE Api
  BY <1>1, TypeApi DEF Api
<1>2. CASE \E c \in Commands : RetryDue(c)
  BY <1>2, TypeBroker
<1>3. ASSUME NEW w \in Workers,
             (\E c \in Commands : Deliver(w, c)) \/ Process(w) \/ Break(w) \/ Restart(w)
      PROVE  TypeInv'
  BY <1>3, TypeBroker, TypeProcess, TypeNodes, TypeFailure, TypeDispatch, TypeSurroundings
  DEF Process, Break
<1>4. ASSUME NEW d \in Dispatchers, Dispatch(d) \/ DispatcherDatabaseError(d)
      PROVE  TypeInv'
  BY <1>4, TypeDispatcher
<1>5. CASE UNCHANGED vars
  BY <1>5 DEF vars, TypeInv, TypeOK, BatchReady
<1>. QED
  BY <1>1, <1>2, <1>3, <1>4, <1>5 DEF Next

\* Every reachable state is well typed: no delivery, retry or stale write of a
\* snapshot takes a row, a queue or a worker out of its kind (index.ts:202).
THEOREM TypeCorrect == Spec => []TypeOK
<1>1. TypeInv => TypeOK
  BY DEF TypeInv
<1>. QED
  BY <1>1, TypeInit, TypeStep, PTL DEF Spec

-----------------------------------------------------------------------------
(* The outcome of an execution and its recorded events agree.              *)

\* The status alone does not tell why a worker that reads, awaits and then writes
\* keeps it consistent: what the worker relies on has to be invariant as well.
IInv == TypeInv /\ OutcomeRecorded /\ StaleReadsAreSafe

\* The row of an execution never goes away.
Forward == \A e \in Executions : execution[e] # "NONE" => execution'[e] # "NONE"

\* Rows are never deleted.
RowsStay == \A k \in Keys : Exists(outbox[k]) => Exists(outbox'[k])

\* No row appears or disappears.
SameRows == \A k \in Keys : Exists(outbox'[k]) <=> Exists(outbox[k])

LEMMA EmitAddsRow ==
  ASSUME TypeInv, NEW w \in Workers, NEW key \in Keys, NEW label \in Returns,
         Emit(w, key, label)
  PROVE  /\ \A k \in Keys : Exists(outbox'[k]) <=> Exists(outbox[k]) \/ k = key
         /\ RowsStay
<1>1. Exists(NewRow)
  BY DEF Exists, NewRow
<1>2. \A k \in Keys : Exists(outbox'[k]) <=> Exists(outbox[k]) \/ k = key
  BY <1>1 DEF Emit, PersistOutboxEvent, TypeInv, TypeOK
<1>. QED
  BY <1>2 DEF RowsStay

LEMMA MarkKeepsRows ==
  ASSUME TypeInv, NEW key \in Keys, NEW row, Exists(outbox[key]), Exists(row),
         outbox' = [outbox EXCEPT ![key] = row]
  PROVE  SameRows
BY DEF SameRows, TypeInv, TypeOK

\* A snapshot of a row that existed never turns the row into no row.
LEMMA MarksExist ==
  ASSUME NEW row \in Rows
  PROVE  /\ Exists(MarkPublished(row))
         /\ Exists(row) => Exists(MarkPublishFailure(row))
BY DEF Exists, MarkPublished, MarkPublishFailure

\* A delivery that does not move stays safe.
LEMMA SafetyIsStable ==
  ASSUME TypeInv, NEW d \in Deliveries, DeliverySafe(d), Forward, RowsStay
  PROVE  DeliverySafe(d)'
<1>1. d.command.execution \in Executions
  BY DEF Deliveries, Commands
<1>2. \A i \in 1..Len(d.batch) : d.batch[i] \in Snapshots
  BY DEF Deliveries
<1>3. \A i \in 1..Len(d.batch) : RowKnown(d.batch[i])'
  BY <1>2 DEF DeliverySafe, RowKnown, RowsStay, Snapshots
<1>4. execution[d.command.execution] # "NONE" => execution'[d.command.execution] # "NONE"
  BY <1>1 DEF Forward
<1>5. d.pc = "PersistStarted" => Recorded("started", d.command.execution, 0)'
  BY <1>1, KeyType, WorkerAssumption DEF RowsStay, DeliverySafe, Recorded
<1>. QED
  BY <1>3, <1>4, <1>5 DEF DeliverySafe, Position

LEMMA CycleIsStable ==
  ASSUME TypeInv, NEW c \in Cycles, CycleSafe(c), RowsStay
  PROVE  CycleSafe(c)'
BY DEF CycleSafe, RowKnown, RowsStay, Cycles, Snapshots

\* The step of one worker: the others and the timers are not disturbed.
LEMMA WorkerStep ==
  ASSUME IInv, TypeInv', NEW w \in Workers, NEW d \in Deliveries,
         worker' = [worker EXCEPT ![w] = d], DeliverySafe(d)', Forward, RowsStay,
         UNCHANGED dispatcher
  PROVE  /\ \A v \in Workers : DeliverySafe(worker[v])'
         /\ \A t \in Dispatchers : CycleSafe(dispatcher[t])'
<1>1. ASSUME NEW v \in Workers PROVE DeliverySafe(worker[v])'
  <2>1. CASE v = w
    <3>1. worker'[v] = d
      BY <2>1 DEF IInv, TypeInv, TypeOK
    <3>. QED
      BY <3>1 DEF DeliverySafe, Position
  <2>2. CASE v # w
    <3>1. PICK o \in Deliveries : o = worker[v] /\ worker'[v] = o
      BY <2>2 DEF IInv, TypeInv, TypeOK
    <3>2. DeliverySafe(o)
      BY <3>1 DEF IInv, StaleReadsAreSafe
    <3>3. DeliverySafe(o)'
      BY <3>2, SafetyIsStable DEF IInv
    <3>. QED
      BY <3>1, <3>3 DEF DeliverySafe, Position
  <2>. QED
    BY <2>1, <2>2
<1>2. ASSUME NEW t \in Dispatchers PROVE CycleSafe(dispatcher[t])'
  <2>1. PICK c \in Cycles : c = dispatcher[t] /\ dispatcher'[t] = c
    BY DEF IInv, TypeInv, TypeOK
  <2>2. CycleSafe(c)'
    BY <2>1, CycleIsStable DEF IInv, StaleReadsAreSafe
  <2>. QED
    BY <2>1, <2>2 DEF CycleSafe
<1>. QED
  BY <1>1, <1>2

\* The same for a step that keeps the command, stated by what it changes.
LEMMA DeliveryStep ==
  ASSUME IInv, TypeInv', NEW w \in Workers, NEW d \in Deliveries,
         worker' = [worker EXCEPT ![w] = d], d.command = worker[w].command,
         worker[w].pc \notin {"Idle", "Down"},
         d.pc = "PersistStarted" => Recorded("started", d.command.execution, 0)',
         Position(d) \in NodeLabels => d.node \in Nodes,
         d.rescue = "FailNode" => d.node \in Nodes,
         \A i \in 1..Len(d.batch) : RowKnown(d.batch[i])',
         Forward, RowsStay, CommandsAreOfRequests', UNCHANGED dispatcher
  PROVE  StaleReadsAreSafe'
<1>1. Of(w) \in Executions
  BY DeliveryType DEF IInv
<1>2. execution[Of(w)] # "NONE"
  BY DEF IInv, StaleReadsAreSafe, DeliverySafe, Of
<1>3. d.command.execution = Of(w) /\ execution'[Of(w)] # "NONE"
  BY <1>1, <1>2 DEF Forward, Of
<1>4. DeliverySafe(d)'
  BY <1>3 DEF DeliverySafe, Position
<1>. QED
  BY <1>4, WorkerStep DEF StaleReadsAreSafe

\* What is known of the worker that moves.
LEMMA WorkerFacts ==
  ASSUME IInv, NEW w \in Workers
  PROVE  /\ DeliverySafe(worker[w])
         /\ worker[w] \in Deliveries
         /\ worker \in [Workers -> Deliveries]
         /\ \A i \in 1..Len(worker[w].batch) :
              worker[w].batch[i] \in Snapshots /\ RowKnown(worker[w].batch[i])
BY DEF IInv, TypeInv, TypeOK, StaleReadsAreSafe, DeliverySafe, Deliveries

LEMMA GotoSafe ==
  ASSUME IInv, TypeInv', NEW w \in Workers, NEW label \in Labels, Goto(w, label),
         worker[w].pc \notin {"Idle", "Down"},
         label = "PersistStarted" => Recorded("started", Of(w), 0),
         label \in NodeLabels => worker[w].node \in Nodes,
         label \in {"FindPending", "Publish", "RecordPublished", "RecordPublishFailure"}
           => worker[w].pc = "Publish",
         CommandsAreOfRequests', UNCHANGED <<execution, outbox, dispatcher>>
  PROVE  StaleReadsAreSafe'
<1>1. PICK d \in Deliveries : d = [worker[w] EXCEPT !.pc = label]
  BY WorkerFacts DEF Deliveries
<1>2. worker' = [worker EXCEPT ![w] = d]
  BY <1>1 DEF Goto
<1>3. /\ d.pc = label /\ d.command = worker[w].command /\ d.node = worker[w].node
      /\ d.rescue = worker[w].rescue /\ d.batch = worker[w].batch /\ d.next = worker[w].next
  BY <1>1, WorkerFacts DEF Deliveries
<1>4. Position(d) \in NodeLabels => d.node \in Nodes
  BY <1>3, WorkerFacts DEF Position, DeliverySafe
<1>5. d.rescue = "FailNode" => d.node \in Nodes
  BY <1>3, WorkerFacts DEF DeliverySafe
<1>6. \A i \in 1..Len(d.batch) : RowKnown(d.batch[i])'
  BY <1>3, WorkerFacts DEF RowKnown
<1>7. Forward /\ RowsStay
  BY DEF Forward, RowsStay
<1>8. d.pc = "PersistStarted" => Recorded("started", d.command.execution, 0)'
  BY <1>3 DEF Recorded, Of
<1>. QED
  BY <1>2, <1>3, <1>4, <1>5, <1>6, <1>7, <1>8, DeliveryStep

LEMMA ThrowSafe ==
  ASSUME IInv, TypeInv', NEW w \in Workers, NEW retryable \in BOOLEAN, Throw(w, retryable),
         worker[w].pc \notin {"Idle", "Down"},
         Forward, RowsStay, CommandsAreOfRequests', UNCHANGED dispatcher
  PROVE  StaleReadsAreSafe'
<1>1. PICK d : d = [worker[w] EXCEPT !.pc = worker[w].rescue,
                                     !.rescue = Enclosing(worker[w].rescue),
                                     !.batch = <<>>,
                                     !.retryable = retryable]
  OBVIOUS
<1>2. worker' = [worker EXCEPT ![w] = d]
  BY <1>1 DEF Throw
<1>3. d \in Deliveries
  <2>1. d = worker'[w]
    BY <1>2, WorkerFacts
  <2>. QED
    BY <2>1 DEF TypeInv, TypeOK
<1>4. /\ d.pc = worker[w].rescue /\ d.command = worker[w].command
      /\ d.node = worker[w].node /\ d.rescue = Enclosing(worker[w].rescue)
      /\ d.batch = <<>>
  BY <1>1, WorkerFacts DEF Deliveries
<1>5. Position(d) \in NodeLabels => d.node \in Nodes
  BY <1>4, WorkerFacts DEF Position, NodeLabels, Deliveries, Catches, DeliverySafe
<1>6. d.rescue # "FailNode" /\ d.pc # "PersistStarted"
  BY <1>4, WorkerFacts DEF Enclosing, Deliveries, Catches
<1>7. \A i \in 1..Len(d.batch) : RowKnown(d.batch[i])'
  BY <1>4
<1>. QED
  BY <1>2, <1>3, <1>4, <1>5, <1>6, <1>7, DeliveryStep

LEMMA EmitSafe ==
  ASSUME IInv, TypeInv', NEW w \in Workers, NEW key \in Keys, NEW label \in Returns,
         Emit(w, key, label), worker[w].pc \notin {"Idle", "Down"},
         label \in NodeLabels => worker[w].node \in Nodes,
         Forward, CommandsAreOfRequests', UNCHANGED dispatcher
  PROVE  StaleReadsAreSafe'
<1>1. PICK b : b = <<[key |-> key, row |-> outbox'[key]]>>
  OBVIOUS
<1>2. PICK d : d = [worker[w] EXCEPT !.pc = "Publish", !.batch = b, !.next = label]
  OBVIOUS
<1>3. worker' = [worker EXCEPT ![w] = d]
  BY <1>1, <1>2 DEF Emit
<1>4. d \in Deliveries
  <2>1. d = worker'[w]
    BY <1>3, WorkerFacts
  <2>. QED
    BY <2>1 DEF TypeInv, TypeOK
<1>5. /\ d.pc = "Publish" /\ d.command = worker[w].command /\ d.node = worker[w].node
      /\ d.rescue = worker[w].rescue /\ d.batch = b /\ d.next = label
  BY <1>2, WorkerFacts DEF Deliveries
<1>6. Exists(outbox'[key]) /\ RowsStay
  BY EmitAddsRow DEF IInv
<1>7. \A i \in 1..Len(d.batch) : RowKnown(d.batch[i])'
  <2>1. Len(b) = 1 /\ b[1].key = key /\ b[1].row = outbox'[key]
    BY <1>1
  <2>2. RowKnown(b[1])'
    BY <2>1, <1>6 DEF RowKnown
  <2>. QED
    BY <1>5, <2>1, <2>2
<1>8. Position(d) \in NodeLabels => d.node \in Nodes
  BY <1>5 DEF Position
<1>9. d.rescue = "FailNode" => d.node \in Nodes
  BY <1>5, WorkerFacts DEF DeliverySafe
<1>. QED
  BY <1>3, <1>4, <1>5, <1>6, <1>7, <1>8, <1>9, DeliveryStep

LEMMA FlushSafe ==
  ASSUME IInv, TypeInv', NEW w \in Workers, NEW label \in {"Ack", "DeadLetter"},
         FlushPending(w, label), worker[w].pc \notin {"Idle", "Down"},
         CommandsAreOfRequests', UNCHANGED <<execution, outbox, dispatcher>>
  PROVE  StaleReadsAreSafe'
<1>1. PICK d : d = [worker[w] EXCEPT !.pc = "FindPending", !.next = label]
  OBVIOUS
<1>2. worker' = [worker EXCEPT ![w] = d]
  BY <1>1 DEF FlushPending
<1>3. d \in Deliveries
  <2>1. d = worker'[w]
    BY <1>2, WorkerFacts
  <2>. QED
    BY <2>1 DEF TypeInv, TypeOK
<1>4. /\ d.pc = "FindPending" /\ d.command = worker[w].command /\ d.node = worker[w].node
      /\ d.rescue = worker[w].rescue /\ d.batch = worker[w].batch /\ d.next = label
  BY <1>1, WorkerFacts DEF Deliveries
<1>5. Position(d) \notin NodeLabels
  BY <1>4 DEF Position, NodeLabels
<1>6. d.rescue = "FailNode" => d.node \in Nodes
  BY <1>4, WorkerFacts DEF DeliverySafe
<1>7. \A i \in 1..Len(d.batch) : RowKnown(d.batch[i])'
  BY <1>4, WorkerFacts DEF RowKnown
<1>8. Forward /\ RowsStay
  BY DEF Forward, RowsStay
<1>. QED
  BY <1>2, <1>3, <1>4, <1>5, <1>6, <1>7, <1>8, DeliveryStep

LEMMA NextInBatchSafe ==
  ASSUME IInv, TypeInv', NEW w \in Workers, NextInBatch(w), worker[w].batch # <<>>,
         worker[w].pc \in {"Publish", "RecordPublished"},
         Forward, RowsStay, CommandsAreOfRequests', UNCHANGED dispatcher
  PROVE  StaleReadsAreSafe'
<1>1. PICK b : b = Tail(worker[w].batch)
  OBVIOUS
<1>2. PICK d : d = [worker[w] EXCEPT
                      !.batch = b,
                      !.pc = IF Len(worker[w].batch) = 1 THEN worker[w].next ELSE "Publish"]
  OBVIOUS
<1>3. worker' = [worker EXCEPT ![w] = d]
  BY <1>1, <1>2 DEF NextInBatch
<1>4. d \in Deliveries
  <2>1. d = worker'[w]
    BY <1>3, WorkerFacts
  <2>. QED
    BY <2>1 DEF TypeInv, TypeOK
<1>5. /\ d.pc \in {worker[w].next, "Publish"} /\ d.command = worker[w].command
      /\ d.node = worker[w].node /\ d.rescue = worker[w].rescue /\ d.batch = b
      /\ d.next = worker[w].next
  BY <1>2, WorkerFacts DEF Deliveries
<1>6. worker[w].next \in Returns
  BY WorkerFacts DEF Deliveries
<1>7. Position(d) \in NodeLabels => d.node \in Nodes
  BY <1>5, <1>6, WorkerFacts DEF Position, Returns, DeliverySafe
<1>8. d.rescue = "FailNode" => d.node \in Nodes
  BY <1>5, WorkerFacts DEF DeliverySafe
<1>9. \A i \in 1..Len(d.batch) : RowKnown(d.batch[i])'
  <2>1. worker[w].batch \in Seq(Snapshots)
    BY WorkerFacts DEF Deliveries
  <2>2. \A i \in 1..Len(b) : i + 1 \in 1..Len(worker[w].batch) /\ b[i] = worker[w].batch[i + 1]
    BY <1>1, <2>1, HeadTailProperties, LenProperties
  <2>3. \A i \in 1..Len(b) : b[i] \in Snapshots /\ RowKnown(b[i])
    BY <2>2, WorkerFacts
  <2>. QED
    BY <1>5, <2>3 DEF RowKnown, RowsStay, Snapshots
<1>10. d.pc # "PersistStarted"
  BY <1>5, <1>6 DEF Returns
<1>. QED
  BY <1>3, <1>4, <1>5, <1>7, <1>8, <1>9, <1>10, DeliveryStep

\* A step that neither moves an execution nor adds or removes a row of an
\* execution-level event.
LEMMA OutcomeStable ==
  ASSUME IInv, UNCHANGED execution,
         \A k \in Keys : k.node = 0 => (Exists(outbox'[k]) <=> Exists(outbox[k]))
  PROVE  OutcomeRecorded' /\ Forward
<1>1. \A kind \in {"started", "completed", "failed"}, e \in Executions :
        Recorded(kind, e, 0)' <=> Recorded(kind, e, 0)
  BY KeyType, WorkerAssumption DEF Recorded, Key
<1>. QED
  BY <1>1 DEF IInv, OutcomeRecorded, Forward

\* A step that moves execution e and records the event `kind` of it.
LEMMA EventRecorded ==
  ASSUME IInv, NEW e \in Executions, NEW kind \in {"started", "completed", "failed"},
         \A k \in Keys : Exists(outbox'[k]) <=> Exists(outbox[k]) \/ k = Key(kind, e, 0)
  PROVE  \A any \in {"started", "completed", "failed"}, x \in Executions :
           Recorded(any, x, 0)' <=> Recorded(any, x, 0) \/ (any = kind /\ x = e)
<1>1. \A any \in {"started", "completed", "failed"}, x \in Executions :
        Key(any, x, 0) = Key(kind, e, 0) <=> any = kind /\ x = e
  BY DEF Key
<1>. QED
  BY <1>1, KeyType, WorkerAssumption DEF Recorded

LEMMA CommandsStable ==
  ASSUME IInv, Forward, UNCHANGED <<request, ready, delayed>>
  PROVE  CommandsAreOfRequests'
BY DEF IInv, StaleReadsAreSafe, CommandsAreOfRequests, Forward, Commands

\* A step that only moves along in the code of a worker.
LEMMA Silent ==
  ASSUME IInv, UNCHANGED <<execution, request, outbox, ready, delayed>>
  PROVE  OutcomeRecorded' /\ Forward /\ RowsStay /\ CommandsAreOfRequests'
BY OutcomeStable, CommandsStable DEF RowsStay

LEMMA OutcomeInit == Init => IInv
<1>. SUFFICES ASSUME Init PROVE IInv
  OBVIOUS
<1>1. OutcomeRecorded
  BY KeyType, WorkerAssumption DEF Init, OutcomeRecorded, Recorded, Exists, AbsentRow
<1>2. CommandsAreOfRequests
  BY DEF Init, CommandsAreOfRequests
<1>3. DeliverySafe(IdleWorker)
  <2>1. /\ IdleWorker.pc = "Idle" /\ IdleWorker.rescue = "HandleFailure"
        /\ IdleWorker.batch = <<>>
    BY DEF IdleWorker
  <2>. QED
    BY <2>1 DEF DeliverySafe, Position, NodeLabels
<1>4. CycleSafe(IdleDispatcher)
  BY DEF CycleSafe, IdleDispatcher
<1>. QED
  BY <1>1, <1>2, <1>3, <1>4, TypeInit DEF Init, IInv, StaleReadsAreSafe

\* The API and the broker.
LEMMA OutcomeApi ==
  ASSUME IInv, TypeInv', NEW e \in Executions,
         RequestExecution(e) \/ PublishCommand(e) \/ LoseCommand(e)
  PROVE  IInv'
<1>1. execution \in [Executions -> Statuses] /\ request \in [Executions -> {"none", "publishing", "published", "lost"}]
  BY DEF IInv, TypeInv, TypeOK
<1>2. UNCHANGED <<worker, dispatcher, outbox>>
  BY DEF RequestExecution, PublishCommand, LoseCommand
<1>3. Forward /\ RowsStay
  BY <1>1, <1>2 DEF Forward, RowsStay, RequestExecution, PublishCommand, LoseCommand
<1>4. OutcomeRecorded'
  BY <1>1 DEF RequestExecution, PublishCommand, LoseCommand, IInv, OutcomeRecorded, Recorded
<1>5. CommandsAreOfRequests'
  <2>1. CommandsAreOfRequests
    BY DEF IInv, StaleReadsAreSafe
  <2>2. CASE RequestExecution(e)
    BY <1>1, <2>1, <2>2 DEF RequestExecution, CommandsAreOfRequests, queues, Commands
  <2>3. CASE PublishCommand(e)
    <3>1. execution[e] # "NONE"
      BY <2>1, <2>3 DEF PublishCommand, CommandsAreOfRequests
    <3>. QED
      BY <1>1, <2>1, <2>3, <3>1
      DEF PublishCommand, CommandsAreOfRequests, IInv, TypeInv, TypeOK, Commands
  <2>4. CASE LoseCommand(e)
    BY <1>1, <2>1, <2>4 DEF LoseCommand, CommandsAreOfRequests, queues
  <2>. QED
    BY <2>2, <2>3, <2>4
<1>6. ASSUME NEW v \in Workers PROVE DeliverySafe(worker[v])'
  <2>1. PICK o \in Deliveries : o = worker[v]
    BY WorkerFacts
  <2>2. DeliverySafe(o)'
    BY <1>3, <2>1, SafetyIsStable, WorkerFacts DEF IInv
  <2>. QED
    BY <1>2, <2>1, <2>2 DEF DeliverySafe, Position
<1>7. ASSUME NEW t \in Dispatchers PROVE CycleSafe(dispatcher[t])'
  BY <1>2 DEF IInv, StaleReadsAreSafe, CycleSafe, RowKnown
<1>. QED
  BY <1>4, <1>5, <1>6, <1>7 DEF IInv, StaleReadsAreSafe

LEMMA OutcomeBroker ==
  ASSUME IInv, TypeInv', NEW c \in Commands,
         RetryDue(c) \/ \E w \in Workers : Deliver(w, c)
  PROVE  IInv'
<1>1. CommandsAreOfRequests
  BY DEF IInv, StaleReadsAreSafe
<1>2. CASE RetryDue(c)
  <2>1. CommandsAreOfRequests'
    BY <1>1, <1>2 DEF RetryDue, CommandsAreOfRequests, IInv, TypeInv, TypeOK
  <2>2. OutcomeRecorded'
    BY <1>2 DEF RetryDue, IInv, OutcomeRecorded, Recorded
  <2>3. /\ \A w \in Workers : DeliverySafe(worker[w])'
        /\ \A d \in Dispatchers : CycleSafe(dispatcher[d])'
    BY <1>2
    DEF RetryDue, IInv, StaleReadsAreSafe, DeliverySafe, CycleSafe, RowKnown, Position, Recorded
  <2>. QED
    BY <2>1, <2>2, <2>3 DEF IInv, StaleReadsAreSafe
<1>3. ASSUME NEW w \in Workers, Deliver(w, c)
      PROVE  IInv'
  <2>1. execution[c.execution] # "NONE"
    BY <1>1, <1>3 DEF Deliver, CommandsAreOfRequests
  <2>2. OutcomeRecorded' /\ Forward /\ RowsStay
    BY <1>3, OutcomeStable DEF Deliver, RowsStay
  <2>3. CommandsAreOfRequests'
    BY <1>1, <1>3 DEF Deliver, CommandsAreOfRequests, IInv, TypeInv, TypeOK
  <2>4. PICK d : d = [IdleWorker EXCEPT !.pc = "FindExecution", !.command = c]
    OBVIOUS
  <2>5. worker' = [worker EXCEPT ![w] = d]
    BY <1>3, <2>4 DEF Deliver
  <2>6. d \in Deliveries
    BY <2>4, IdleTypes DEF Deliveries, Labels
  <2>7. /\ d.pc = "FindExecution" /\ d.command = c /\ d.rescue = "HandleFailure"
        /\ d.batch = <<>>
    BY <2>4 DEF IdleWorker
  <2>8. execution'[c.execution] # "NONE"
    BY <1>3, <2>1 DEF Deliver
  <2>9. DeliverySafe(d)'
    BY <2>7, <2>8 DEF DeliverySafe, Position, NodeLabels
  <2>. QED
    BY <1>3, <2>2, <2>3, <2>5, <2>6, <2>9, WorkerStep DEF Deliver, IInv, StaleReadsAreSafe
<1>. QED
  BY <1>2, <1>3

\* The facts a worker's step on the database starts from.
LEMMA Handled ==
  ASSUME IInv, NEW w \in Workers, worker[w].pc \notin {"Idle", "Down"}
  PROVE  /\ Of(w) \in Executions /\ execution[Of(w)] # "NONE"
         /\ At(w, "PersistStarted") => Recorded("started", Of(w), 0)
         /\ worker[w].pc \in NodeLabels => worker[w].node \in Nodes
         /\ execution \in [Executions -> Statuses]
<1>1. DeliverySafe(worker[w]) /\ worker[w].command \in Commands
  BY WorkerFacts, DeliveryType DEF IInv
<1>2. worker[w].pc \in NodeLabels => Position(worker[w]) = worker[w].pc
  BY DEF Position, NodeLabels
<1>. QED
  BY <1>1, <1>2, DeliveryType DEF DeliverySafe, Of, At, IInv, TypeInv, TypeOK

\* A worker that emits an event of a node.
LEMMA NodeEmission ==
  ASSUME IInv, TypeInv', NEW w \in Workers, worker[w].pc \in NodeLabels,
         NEW kind \in {"started", "completed", "failed"},
         NEW label \in {"ExecuteNode", "NextNode", "HandleFailure"},
         Emit(w, Key(kind, Of(w), worker[w].node), label),
         UNCHANGED <<execution, request, queues, dispatcher>>
  PROVE  IInv'
<1>1. worker[w].pc \notin {"Idle", "Down"}
  BY DEF NodeLabels
<1>2. worker[w].node \in Nodes /\ Of(w) \in Executions
  BY <1>1, Handled
<1>3. Key(kind, Of(w), worker[w].node) \in Keys /\ Key(kind, Of(w), worker[w].node).node # 0
  BY <1>2, KeyType, WorkerAssumption DEF Nodes, Key
<1>4. label \in Returns
  BY DEF Returns
<1>5. /\ RowsStay
      /\ \A k \in Keys : Exists(outbox'[k]) <=>
           Exists(outbox[k]) \/ k = Key(kind, Of(w), worker[w].node)
  BY <1>3, <1>4, EmitAddsRow DEF IInv
<1>6. OutcomeRecorded' /\ Forward
  BY <1>3, <1>5, OutcomeStable
<1>7. CommandsAreOfRequests'
  BY <1>6, CommandsStable DEF queues
<1>8. StaleReadsAreSafe'
  BY <1>1, <1>2, <1>3, <1>4, <1>6, <1>7, EmitSafe
<1>. QED
  BY <1>6, <1>8 DEF IInv

\* A worker that emits an event of the execution and may move it.
LEMMA ExecutionEmission ==
  ASSUME IInv, TypeInv', NEW w \in Workers, worker[w].pc \notin {"Idle", "Down"},
         NEW kind \in {"started", "completed", "failed"},
         NEW label \in {"PrepareNodes", "Ack", "DeadLetter"},
         Emit(w, Key(kind, Of(w), 0), label),
         Forward, OutcomeRecorded',
         UNCHANGED <<request, queues, dispatcher>>
  PROVE  IInv'
<1>1. Key(kind, Of(w), 0) \in Keys
  BY Handled, KeyType, WorkerAssumption
<1>2. label \in Returns /\ label \notin NodeLabels
  BY DEF Returns, NodeLabels
<1>3. CommandsAreOfRequests'
  BY CommandsStable DEF queues
<1>4. StaleReadsAreSafe'
  BY <1>1, <1>2, <1>3, EmitSafe
<1>. QED
  BY <1>4 DEF IInv

\* How the recorded events change when an event of the execution is emitted.
LEMMA EmissionRecords ==
  ASSUME IInv, NEW w \in Workers, worker[w].pc \notin {"Idle", "Down"},
         NEW kind \in {"started", "completed", "failed"},
         NEW label \in {"PrepareNodes", "Ack", "DeadLetter"},
         Emit(w, Key(kind, Of(w), 0), label)
  PROVE  \A any \in {"started", "completed", "failed"}, x \in Executions :
           Recorded(any, x, 0)' <=> Recorded(any, x, 0) \/ (any = kind /\ x = Of(w))
<1>1. Key(kind, Of(w), 0) \in Keys /\ Of(w) \in Executions
  BY Handled, KeyType, WorkerAssumption
<1>2. label \in Returns
  BY DEF Returns
<1>3. \A k \in Keys : Exists(outbox'[k]) <=> Exists(outbox[k]) \/ k = Key(kind, Of(w), 0)
  BY <1>1, <1>2, EmitAddsRow DEF IInv
<1>. QED
  BY <1>1, <1>3, EventRecorded

\* processWorkflowExecution.
LEMMA OutcomeProcess ==
  ASSUME IInv, TypeInv', NEW w \in Workers,
         \/ FindExecution(w) \/ BeginExecution(w) \/ BeginConflict(w)
         \/ RereadExecution(w) \/ PersistStarted(w)
         \/ CompleteExecution(w) \/ CompletionMissed(w) \/ CompletionConflict(w)
  PROVE  IInv'
<1>. worker[w].pc \notin {"Idle", "Down"}
  BY DEF At, FindExecution, BeginExecution, BeginConflict, RereadExecution, PersistStarted,
         CompleteExecution, CompletionMissed, CompletionConflict
<1>. PICK e \in Executions : e = Of(w)
  BY Handled
<1>1. CASE FindExecution(w) \/ BeginConflict(w) \/ RereadExecution(w)
           \/ CompletionMissed(w) \/ CompletionConflict(w)
  <2>1. UNCHANGED <<execution, request, outbox, ready, delayed, dispatcher>>
    BY <1>1 DEF FindExecution, BeginConflict, RereadExecution, CompletionMissed,
                CompletionConflict, queues
  <2>2. OutcomeRecorded' /\ Forward /\ RowsStay /\ CommandsAreOfRequests'
    BY <2>1, Silent
  <2>3. ASSUME NEW label \in {"BeginExecution", "RereadExecution", "PrepareNodes",
                              "CompletionConflict"},
               Goto(w, label)
        PROVE  StaleReadsAreSafe'
    <3>1. label \in Labels /\ label \notin NodeLabels
      BY DEF Labels, NodeLabels
    <3>. QED
      BY <2>1, <2>2, <2>3, <3>1, GotoSafe
  <2>4. ASSUME Goto(w, "PersistStarted"), Recorded("started", Of(w), 0)
        PROVE  StaleReadsAreSafe'
    <3>1. "PersistStarted" \in Labels /\ "PersistStarted" \notin NodeLabels
      BY DEF Labels, NodeLabels
    <3>. QED
      BY <2>1, <2>2, <2>4, <3>1, GotoSafe
  <2>5. ASSUME FlushPending(w, "Ack")
        PROVE  StaleReadsAreSafe'
    BY <2>1, <2>2, <2>5, FlushSafe
  <2>6. ASSUME Throw(w, TRUE)
        PROVE  StaleReadsAreSafe'
    BY <2>1, <2>2, <2>6, ThrowSafe
  <2>7. ASSUME FindExecution(w)
        PROVE  StaleReadsAreSafe'
    <3>1. execution[e] \in Statuses /\ execution[e] # "NONE"
      BY Handled
    <3>2. execution[e] \notin Terminal /\ execution[e] # "PENDING" => Recorded("started", e, 0)
      BY <3>1 DEF IInv, OutcomeRecorded, Statuses, Terminal
    <3>3. CASE FlushPending(w, "Ack")
      BY <2>5, <3>3
    <3>4. CASE Goto(w, "BeginExecution")
      BY <2>3, <3>4
    <3>5. CASE Goto(w, "PersistStarted") /\ execution[e] \notin Terminal
               /\ execution[e] # "PENDING"
      BY <2>4, <3>2, <3>5
    <3>. QED
      BY <2>7, <3>3, <3>4, <3>5 DEF FindExecution
  <2>8. StaleReadsAreSafe'
    BY <1>1, <2>3, <2>5, <2>6, <2>7
    DEF BeginConflict, RereadExecution, CompletionMissed, CompletionConflict
  <2>. QED
    BY <2>2, <2>8 DEF IInv
<1>2. CASE BeginExecution(w)
  <2>1. Emit(w, Key("started", e, 0), "PrepareNodes")
    BY <1>2 DEF BeginExecution
  <2>2. execution[e] = "PENDING" /\ execution' = [execution EXCEPT ![e] = "RUNNING"]
    BY <1>2 DEF BeginExecution
  <2>3. Forward
    BY <2>2, Handled DEF Forward
  <2>4. \A any \in {"started", "completed", "failed"}, x \in Executions :
          Recorded(any, x, 0)' <=> Recorded(any, x, 0) \/ (any = "started" /\ x = e)
    BY <2>1, EmissionRecords
  <2>5. OutcomeRecorded'
    BY <2>2, <2>4, Handled DEF IInv, OutcomeRecorded
  <2>. QED
    BY <1>2, <2>1, <2>3, <2>5, ExecutionEmission DEF BeginExecution
<1>3. CASE PersistStarted(w)
  <2>1. Emit(w, Key("started", e, 0), "PrepareNodes")
    BY <1>3 DEF PersistStarted
  <2>2. execution[e] \notin {"NONE", "PENDING"} /\ UNCHANGED execution
    BY <1>3, Handled DEF PersistStarted, IInv, OutcomeRecorded
  <2>3. Forward
    BY <2>2 DEF Forward
  <2>4. \A any \in {"started", "completed", "failed"}, x \in Executions :
          Recorded(any, x, 0)' <=> Recorded(any, x, 0) \/ (any = "started" /\ x = e)
    BY <2>1, EmissionRecords
  <2>5. OutcomeRecorded'
    BY <2>2, <2>4 DEF IInv, OutcomeRecorded
  <2>. QED
    BY <1>3, <2>1, <2>3, <2>5, ExecutionEmission DEF PersistStarted
<1>4. CASE CompleteExecution(w)
  <2>1. Emit(w, Key("completed", e, 0), "Ack")
    BY <1>4 DEF CompleteExecution
  <2>2. execution[e] = "RUNNING" /\ execution' = [execution EXCEPT ![e] = "SUCCEEDED"]
    BY <1>4 DEF CompleteExecution
  <2>3. Forward
    BY <2>2, Handled DEF Forward
  <2>4. \A any \in {"started", "completed", "failed"}, x \in Executions :
          Recorded(any, x, 0)' <=> Recorded(any, x, 0) \/ (any = "completed" /\ x = e)
    BY <2>1, EmissionRecords
  <2>5. OutcomeRecorded'
    BY <2>2, <2>4, Handled DEF IInv, OutcomeRecorded
  <2>. QED
    BY <1>4, <2>1, <2>3, <2>5, ExecutionEmission DEF CompleteExecution
<1>. QED
  BY <1>1, <1>2, <1>3, <1>4

\* A step of a worker that changes none of the data, stated by the delivery it leaves.
LEMMA SilentStep ==
  ASSUME IInv, TypeInv', NEW w \in Workers, NEW d,
         worker' = [worker EXCEPT ![w] = d], d.command = worker[w].command,
         worker[w].pc \notin {"Idle", "Down"},
         d.pc # "PersistStarted",
         Position(d) \in NodeLabels => d.node \in Nodes,
         d.rescue = "FailNode" => d.node \in Nodes,
         \A i \in 1..Len(d.batch) : RowKnown(d.batch[i]),
         UNCHANGED <<execution, request, outbox, ready, delayed, dispatcher>>
  PROVE  IInv'
<1>1. d \in Deliveries
  <2>1. d = worker'[w]
    BY WorkerFacts
  <2>. QED
    BY <2>1 DEF TypeInv, TypeOK
<1>2. OutcomeRecorded' /\ Forward /\ RowsStay /\ CommandsAreOfRequests'
  BY Silent
<1>3. \A i \in 1..Len(d.batch) : RowKnown(d.batch[i])'
  BY DEF RowKnown
<1>. QED
  BY <1>1, <1>2, <1>3, DeliveryStep DEF IInv

\* executeWorkflowNodes.
LEMMA OutcomeNodes ==
  ASSUME IInv, TypeInv', NEW w \in Workers,
         \/ PrepareNodes(w) \/ StartNode(w) \/ PersistNodeStarted(w) \/ ExecuteNode(w)
         \/ CompleteNode(w) \/ PersistNodeCompleted(w) \/ NextNode(w)
         \/ FailNode(w) \/ PersistNodeFailed(w)
  PROVE  IInv'
<1>. worker[w].pc \notin {"Idle", "Down"}
  BY DEF At, PrepareNodes, StartNode, PersistNodeStarted, ExecuteNode, CompleteNode,
         PersistNodeCompleted, NextNode, FailNode, PersistNodeFailed
<1>. UNCHANGED <<execution, request, ready, delayed, dispatcher>>
  BY DEF PrepareNodes, StartNode, PersistNodeStarted, ExecuteNode, CompleteNode,
         PersistNodeCompleted, NextNode, FailNode, PersistNodeFailed, queues
<1>1. CASE PersistNodeStarted(w)
  BY <1>1, NodeEmission DEF PersistNodeStarted, At, NodeLabels
<1>2. CASE PersistNodeCompleted(w)
  BY <1>2, NodeEmission DEF PersistNodeCompleted, At, NodeLabels
<1>3. CASE PersistNodeFailed(w)
  BY <1>3, NodeEmission DEF PersistNodeFailed, At, NodeLabels
<1>4. CASE StartNode(w) \/ CompleteNode(w) \/ FailNode(w)
  <2>1. PICK label \in {"PersistNodeStarted", "PersistNodeCompleted", "PersistNodeFailed"} :
          Goto(w, label)
    BY <1>4 DEF StartNode, CompleteNode, FailNode
  <2>2. worker[w].pc \in NodeLabels /\ UNCHANGED outbox
    BY <1>4 DEF StartNode, CompleteNode, FailNode, At, NodeLabels
  <2>3. worker[w].node \in Nodes
    BY <2>2, Handled
  <2>4. label \in Labels
    BY DEF Labels
  <2>5. OutcomeRecorded' /\ CommandsAreOfRequests'
    BY <2>2, Silent
  <2>6. StaleReadsAreSafe'
    BY <2>1, <2>2, <2>3, <2>4, <2>5, GotoSafe
  <2>. QED
    BY <2>5, <2>6 DEF IInv
<1>5. CASE PrepareNodes(w)
  <2>1. UNCHANGED outbox
    BY <1>5 DEF PrepareNodes
  <2>2. ASSUME NEW retryable \in BOOLEAN, Throw(w, retryable)
        PROVE  IInv'
    BY <2>1, <2>2, Silent, ThrowSafe DEF IInv
  <2>3. CASE worker' = [worker EXCEPT ![w].pc = "StartNode", ![w].node = 1]
    <3>1. PICK d : d = [worker[w] EXCEPT !.pc = "StartNode", !.node = 1]
      OBVIOUS
    <3>2. /\ d.command = worker[w].command /\ d.pc = "StartNode" /\ d.node = 1
          /\ d.batch = worker[w].batch
      BY <3>1, WorkerFacts DEF Deliveries
    <3>3. worker' = [worker EXCEPT ![w] = d]
      BY <2>3, <3>1
    <3>4. 1 \in Nodes
      BY WorkerAssumption DEF Nodes
    <3>5. \A i \in 1..Len(d.batch) : RowKnown(d.batch[i])
      BY <3>2, WorkerFacts
    <3>. QED
      BY <2>1, <3>2, <3>3, <3>4, <3>5, SilentStep
  <2>. QED
    BY <1>5, <2>2, <2>3 DEF PrepareNodes
<1>6. CASE ExecuteNode(w)
  <2>1. UNCHANGED outbox /\ worker[w].node \in Nodes
    BY <1>6, Handled DEF ExecuteNode, At, NodeLabels
  <2>2. PICK d : /\ worker' = [worker EXCEPT ![w] = d]
                 /\ \/ d = [worker[w] EXCEPT !.pc = "CompleteNode", !.rescue = "FailNode"]
                    \/ \E retryable \in BOOLEAN :
                         d = [worker[w] EXCEPT !.pc = "FailNode", !.retryable = retryable]
    BY <1>6 DEF ExecuteNode
  <2>3. /\ d.command = worker[w].command /\ d.pc \in {"CompleteNode", "FailNode"}
        /\ d.node = worker[w].node /\ d.batch = worker[w].batch
    BY <2>2, WorkerFacts DEF Deliveries
  <2>4. \A i \in 1..Len(d.batch) : RowKnown(d.batch[i])
    BY <2>3, WorkerFacts
  <2>. QED
    BY <2>1, <2>2, <2>3, <2>4, SilentStep
<1>7. CASE NextNode(w)
  <2>1. UNCHANGED outbox /\ worker[w].node \in Nodes
    BY <1>7, Handled DEF NextNode, At, NodeLabels
  <2>2. PICK d : /\ worker' = [worker EXCEPT ![w] = d]
                 /\ d = IF worker[w].node = NodeCount
                        THEN [worker[w] EXCEPT !.pc = "CompleteExecution",
                                               !.rescue = "HandleFailure"]
                        ELSE [worker[w] EXCEPT !.pc = "StartNode",
                                               !.rescue = "HandleFailure", !.node = @ + 1]
    BY <1>7 DEF NextNode
  <2>3. /\ d.command = worker[w].command /\ d.rescue = "HandleFailure"
        /\ d.batch = worker[w].batch
        /\ d.pc \in {"CompleteExecution", "StartNode"}
        /\ d.pc = "StartNode" => d.node \in Nodes
    BY <2>1, <2>2, WorkerFacts, WorkerAssumption DEF Deliveries, Nodes
  <2>4. Position(d) \in NodeLabels => d.node \in Nodes
    BY <2>3 DEF Position, NodeLabels
  <2>5. \A i \in 1..Len(d.batch) : RowKnown(d.batch[i])
    BY <2>3, WorkerFacts
  <2>. QED
    BY <2>1, <2>2, <2>3, <2>4, <2>5, SilentStep
<1>. QED
  BY <1>1, <1>2, <1>3, <1>4, <1>5, <1>6, <1>7

\* The catch block of handleDelivery and failWorkflowExecution.
LEMMA OutcomeFailure ==
  ASSUME IInv, TypeInv', NEW w \in Workers,
         \/ RetryCommand(w) \/ GiveUp(w) \/ FailExecution(w) \/ FailureMissed(w)
         \/ FailureConflict(w) \/ DeadLetter(w) \/ Ack(w) \/ Nack(w)
  PROVE  IInv'
<1>. worker[w].pc \notin {"Idle", "Down"}
  BY DEF At, RetryCommand, GiveUp, FailExecution, FailureMissed, FailureConflict,
         DeadLetter, Ack, Nack
<1>. PICK e \in Executions : e = Of(w)
  BY Handled
<1>1. CASE RetryCommand(w) \/ DeadLetter(w)
  <2>1. /\ UNCHANGED <<execution, request, outbox, ready, dispatcher>>
        /\ Goto(w, "Ack")
    BY <1>1 DEF RetryCommand, DeadLetter
  <2>2. OutcomeRecorded' /\ Forward
    BY <2>1, OutcomeStable
  <2>3. CommandsAreOfRequests'
    <3>1. CommandsAreOfRequests /\ execution[e] # "NONE"
      BY Handled DEF IInv, StaleReadsAreSafe
    <3>2. CASE RetryCommand(w)
      <4>1. PICK c : c = [worker[w].command EXCEPT !.attempt = @ + 1]
        OBVIOUS
      <4>2. c.execution = e
        BY <4>1, DeliveryType DEF IInv, Of, Commands
      <4>3. delayed' = [delayed EXCEPT ![c] = @ + 1]
        BY <3>2, <4>1 DEF RetryCommand
      <4>. QED
        BY <2>1, <3>1, <4>2, <4>3 DEF CommandsAreOfRequests, IInv, TypeInv, TypeOK
    <3>3. CASE DeadLetter(w)
      BY <2>1, <3>1, <3>3 DEF DeadLetter, CommandsAreOfRequests
    <3>. QED
      BY <1>1, <3>2, <3>3
  <2>4. "Ack" \in Labels /\ "Ack" \notin NodeLabels
    BY DEF Labels, NodeLabels
  <2>5. StaleReadsAreSafe'
    BY <2>1, <2>3, <2>4, GotoSafe
  <2>. QED
    BY <2>2, <2>5 DEF IInv
<1>2. CASE FailureMissed(w) \/ FailureConflict(w)
  <2>1. UNCHANGED <<execution, request, outbox, ready, delayed, dispatcher>>
    BY <1>2 DEF FailureMissed, FailureConflict, queues
  <2>2. OutcomeRecorded' /\ Forward /\ RowsStay /\ CommandsAreOfRequests'
    BY <2>1, Silent
  <2>3. ASSUME Goto(w, "FailureConflict")
        PROVE  StaleReadsAreSafe'
    <3>1. "FailureConflict" \in Labels /\ "FailureConflict" \notin NodeLabels
      BY DEF Labels, NodeLabels
    <3>. QED
      BY <2>1, <2>2, <2>3, <3>1, GotoSafe
  <2>4. FlushPending(w, "DeadLetter") => StaleReadsAreSafe'
    BY <2>1, <2>2, FlushSafe
  <2>5. Throw(w, TRUE) => StaleReadsAreSafe'
    BY <2>1, <2>2, ThrowSafe
  <2>. QED
    BY <1>2, <2>2, <2>3, <2>4, <2>5 DEF FailureMissed, FailureConflict, IInv
<1>3. CASE GiveUp(w)
  <2>1. PICK d : d = [worker[w] EXCEPT !.pc = "FailExecution", !.rescue = "Nack"]
    OBVIOUS
  <2>2. /\ d.command = worker[w].command /\ d.pc = "FailExecution" /\ d.rescue = "Nack"
        /\ d.batch = worker[w].batch
    BY <2>1, WorkerFacts DEF Deliveries
  <2>3. worker' = [worker EXCEPT ![w] = d]
    BY <1>3, <2>1 DEF GiveUp
  <2>4. Position(d) \notin NodeLabels
    BY <2>2 DEF Position, NodeLabels
  <2>5. \A i \in 1..Len(d.batch) : RowKnown(d.batch[i])
    BY <2>2, WorkerFacts
  <2>6. UNCHANGED <<execution, request, outbox, ready, delayed, dispatcher>>
    BY <1>3 DEF GiveUp, queues
  <2>. QED
    BY <2>2, <2>3, <2>4, <2>5, <2>6, SilentStep
<1>4. CASE FailExecution(w)
  <2>1. Emit(w, Key("failed", e, 0), "DeadLetter")
    BY <1>4 DEF FailExecution
  <2>2. /\ execution[e] \in {"PENDING", "RUNNING"}
        /\ execution' = [execution EXCEPT ![e] = "FAILED"]
    BY <1>4 DEF FailExecution
  <2>3. Forward
    BY <2>2, Handled DEF Forward
  <2>4. \A any \in {"started", "completed", "failed"}, x \in Executions :
          Recorded(any, x, 0)' <=> Recorded(any, x, 0) \/ (any = "failed" /\ x = e)
    BY <2>1, EmissionRecords
  <2>5. OutcomeRecorded'
    BY <2>2, <2>4, Handled DEF IInv, OutcomeRecorded
  <2>. QED
    BY <1>4, <2>1, <2>3, <2>5, ExecutionEmission DEF FailExecution
<1>5. CASE Ack(w) \/ Nack(w)
  <2>1. /\ worker' = [worker EXCEPT ![w] = IdleWorker]
        /\ UNCHANGED <<execution, request, outbox, delayed, dispatcher>>
    BY <1>5 DEF Ack, Nack, queues
  <2>2. OutcomeRecorded' /\ Forward /\ RowsStay
    BY <2>1, OutcomeStable DEF RowsStay
  <2>3. CommandsAreOfRequests'
    BY <1>5, <2>1, Handled
    DEF Ack, Nack, queues, IInv, StaleReadsAreSafe, CommandsAreOfRequests, TypeInv, TypeOK, Of
  <2>4. PICK d : d = IdleWorker
    OBVIOUS
  <2>5. d \in Deliveries /\ d.pc = "Idle" /\ d.rescue = "HandleFailure" /\ d.batch = <<>>
    BY <2>4, IdleTypes DEF IdleWorker
  <2>6. DeliverySafe(d)'
    BY <2>5 DEF DeliverySafe, Position, NodeLabels
  <2>. QED
    BY <2>1, <2>2, <2>3, <2>4, <2>5, <2>6, WorkerStep DEF IInv, StaleReadsAreSafe
<1>. QED
  BY <1>1, <1>2, <1>3, <1>4, <1>5

\* Crashes, restarts and failed statements.
LEMMA OutcomeSurroundings ==
  ASSUME IInv, TypeInv', NEW w \in Workers, DatabaseError(w) \/ Crash(w) \/ Restart(w)
  PROVE  IInv'
<1>1. UNCHANGED <<execution, request, outbox, delayed, dispatcher>>
  BY DEF DatabaseError, Crash, Restart, queues
<1>2. OutcomeRecorded' /\ Forward /\ RowsStay
  BY <1>1, OutcomeStable DEF RowsStay
<1>3. CASE DatabaseError(w)
  <2>1. Throw(w, TRUE) /\ UNCHANGED ready /\ worker[w].pc \notin {"Idle", "Down"}
    BY <1>3 DEF DatabaseError, DatabaseSteps, queues
  <2>2. CommandsAreOfRequests'
    BY <1>1, <1>2, <2>1, CommandsStable
  <2>. QED
    BY <1>1, <1>2, <2>1, <2>2, ThrowSafe DEF IInv
<1>4. CASE Crash(w) \/ Restart(w)
  <2>1. PICK d : /\ worker' = [worker EXCEPT ![w] = d]
                 /\ d = IF Crash(w) THEN [IdleWorker EXCEPT !.pc = "Down"]
                                    ELSE [worker[w] EXCEPT !.pc = "Idle"]
    BY <1>4 DEF Crash, Restart, Goto
  <2>2. CommandsAreOfRequests'
    <3>1. CASE Crash(w)
      BY <1>1, <3>1, Handled
      DEF Crash, IInv, StaleReadsAreSafe, CommandsAreOfRequests, TypeInv, TypeOK, Of
    <3>2. CASE Restart(w)
      BY <1>1, <1>2, <3>2, CommandsStable DEF Restart, queues
    <3>. QED
      BY <1>4, <3>1, <3>2
  <2>3. d \in Deliveries
    <3>1. d = worker'[w]
      BY <2>1, WorkerFacts
    <3>. QED
      BY <3>1 DEF TypeInv, TypeOK
  <2>4. DeliverySafe(d)'
    <3>1. CASE Crash(w)
      <4>1. d.pc = "Down" /\ d.rescue = "HandleFailure" /\ d.batch = <<>>
        BY <2>1, <3>1 DEF IdleWorker
      <4>. QED
        BY <4>1 DEF DeliverySafe, Position, NodeLabels
    <3>2. CASE Restart(w) /\ ~Crash(w)
      <4>1. /\ d.pc = "Idle" /\ d.rescue = worker[w].rescue /\ d.node = worker[w].node
            /\ d.batch = worker[w].batch
        BY <2>1, <3>2, WorkerFacts DEF Deliveries
      <4>2. \A i \in 1..Len(d.batch) : RowKnown(d.batch[i])'
        BY <1>1, <4>1, WorkerFacts DEF RowKnown
      <4>3. d.rescue = "FailNode" => d.node \in Nodes
        BY <4>1, WorkerFacts DEF DeliverySafe
      <4>4. Position(d) \notin NodeLabels
        BY <4>1 DEF Position, NodeLabels
      <4>. QED
        BY <4>1, <4>2, <4>3, <4>4 DEF DeliverySafe, Position
    <3>. QED
      BY <1>4, <3>1, <3>2
  <2>. QED
    BY <1>1, <1>2, <2>1, <2>2, <2>3, <2>4, WorkerStep DEF IInv, StaleReadsAreSafe
<1>. QED
  BY <1>3, <1>4

\* A mark on a row that is there leaves the recorded events as they are.
LEMMA MarkStep ==
  ASSUME IInv, NEW s \in Snapshots, RowKnown(s),
         \/ outbox' = [outbox EXCEPT ![s.key] = MarkPublished(@)]
         \/ outbox' = [outbox EXCEPT ![s.key] = MarkPublishFailure(s.row)],
         UNCHANGED <<execution, request, ready, delayed>>
  PROVE  OutcomeRecorded' /\ Forward /\ RowsStay /\ CommandsAreOfRequests'
<1>1. s.key \in Keys /\ s.row \in Rows /\ outbox[s.key] \in Rows /\ outbox \in [Keys -> Rows]
  BY DEF Snapshots, IInv, TypeInv, TypeOK
<1>2. PICK row : Exists(row) /\ outbox' = [outbox EXCEPT ![s.key] = row]
  BY <1>1, MarksExist DEF RowKnown
<1>3. SameRows
  BY <1>1, <1>2, MarkKeepsRows DEF RowKnown, IInv
<1>4. OutcomeRecorded' /\ Forward /\ RowsStay
  BY <1>3, OutcomeStable DEF SameRows, RowsStay
<1>. QED
  BY <1>4, CommandsStable

\* dispatchOutboxEvent.
LEMMA OutcomeDispatch ==
  ASSUME IInv, TypeInv', NEW w \in Workers,
         \/ FindPending(w) \/ Publish(w) \/ PublishFails(w)
         \/ RecordPublished(w) \/ RecordPublishFailure(w)
  PROVE  IInv'
<1>. worker[w].pc \notin {"Idle", "Down"}
  BY DEF At, FindPending, Publish, PublishFails, RecordPublished, RecordPublishFailure
<1>. UNCHANGED <<execution, request, ready, delayed, dispatcher>>
  BY DEF FindPending, Publish, PublishFails, RecordPublished, RecordPublishFailure, queues
<1>1. worker[w].batch \in Seq(Snapshots)
  BY DeliveryType DEF IInv
<1>2. ASSUME worker[w].pc \in {"Publish", "RecordPublished", "RecordPublishFailure"}
      PROVE  /\ worker[w].batch # <<>>
             /\ Head(worker[w].batch) \in Snapshots
             /\ RowKnown(Head(worker[w].batch))
  <2>1. worker[w].batch # <<>>
    BY <1>2 DEF IInv, TypeInv, BatchReady
  <2>2. /\ Head(worker[w].batch) = worker[w].batch[1]
        /\ 1 \in 1..Len(worker[w].batch)
    BY <1>1, <2>1, HeadTailProperties, LenProperties
  <2>. QED
    BY <2>1, <2>2, WorkerFacts
<1>3. CASE FindPending(w)
  <2>1. PICK b : b = PendingSnapshot(Key("started", Of(w), 0))
                       \o PendingSnapshot(Key("completed", Of(w), 0))
                       \o PendingSnapshot(Key("failed", Of(w), 0))
    OBVIOUS
  <2>2. PICK d : /\ worker' = [worker EXCEPT ![w] = d]
                 /\ d = [worker[w] EXCEPT !.batch = b,
                                          !.pc = IF b = <<>> THEN worker[w].next ELSE "Publish"]
    BY <1>3, <2>1 DEF FindPending
  <2>3. /\ d.command = worker[w].command /\ d.node = worker[w].node /\ d.batch = b
        /\ d.rescue = worker[w].rescue /\ d.next = worker[w].next
        /\ d.pc \in {worker[w].next, "Publish"} /\ worker[w].next \in Returns
    BY <2>2, WorkerFacts DEF Deliveries
  <2>4. Position(worker[w]) = worker[w].next
    BY <1>3 DEF FindPending, At, Position
  <2>5. Position(d) \in NodeLabels => d.node \in Nodes
    BY <2>3, <2>4, WorkerFacts DEF Position, Returns, DeliverySafe
  <2>6. d.rescue = "FailNode" => d.node \in Nodes
    BY <2>3, WorkerFacts DEF DeliverySafe
  <2>7. \A i \in 1..Len(b) : RowKnown(b[i])
    <3>1. ASSUME NEW key \in Keys
          PROVE  /\ PendingSnapshot(key) \in Seq(Snapshots)
                 /\ \A i \in 1..Len(PendingSnapshot(key)) : RowKnown(PendingSnapshot(key)[i])
      <4>1. PICK s : s = [key |-> key, row |-> outbox[key]]
        OBVIOUS
      <4>2. s \in Snapshots /\ s.key = key /\ s.row = outbox[key]
        BY <4>1 DEF Snapshots, IInv, TypeInv, TypeOK
      <4>3. CASE outbox[key].status = "PENDING"
        <5>1. PendingSnapshot(key) = <<s>>
          BY <4>1, <4>3 DEF PendingSnapshot
        <5>2. RowKnown(s)
          BY <4>2, <4>3 DEF RowKnown, Exists
        <5>3. Len(<<s>>) = 1 /\ <<s>>[1] = s /\ <<s>> \in Seq(Snapshots)
          BY <4>2
        <5>. QED
          BY <5>1, <5>2, <5>3
      <4>4. CASE outbox[key].status # "PENDING"
        <5>1. PendingSnapshot(key) = <<>>
          BY <4>4 DEF PendingSnapshot
        <5>. QED
          BY <5>1
      <4>. QED
        BY <4>3, <4>4
    <3>2. ASSUME NEW s \in Seq(Snapshots), NEW t \in Seq(Snapshots),
                 \A i \in 1..Len(s) : RowKnown(s[i]),
                 \A i \in 1..Len(t) : RowKnown(t[i])
          PROVE  s \o t \in Seq(Snapshots) /\ \A i \in 1..Len(s \o t) : RowKnown((s \o t)[i])
      <4>1. PICK u : u = s \o t
        OBVIOUS
      <4>2. /\ u \in Seq(Snapshots) /\ Len(u) = Len(s) + Len(t)
            /\ \A i \in 1..Len(s) + Len(t) : u[i] = IF i <= Len(s) THEN s[i] ELSE t[i - Len(s)]
        BY <4>1, ConcatProperties
      <4>3. Len(s) \in Nat /\ Len(t) \in Nat
        OBVIOUS
      <4>4. ASSUME NEW i \in 1..Len(u) PROVE RowKnown(u[i])
        <5>1. CASE i <= Len(s)
          <6>1. u[i] = s[i] /\ i \in 1..Len(s)
            BY <4>2, <4>3, <5>1
          <6>2. RowKnown(s[i])
            BY <3>2, <6>1
          <6>. QED
            BY <6>1, <6>2
        <5>2. CASE ~(i <= Len(s))
          <6>1. u[i] = t[i - Len(s)] /\ i - Len(s) \in 1..Len(t)
            BY <4>2, <4>3, <5>2
          <6>2. RowKnown(t[i - Len(s)])
            BY <3>2, <6>1
          <6>. QED
            BY <6>1, <6>2
        <5>. QED
          BY <5>1, <5>2
      <4>. QED
        BY <4>1, <4>2, <4>4
    <3>3. /\ Key("started", Of(w), 0) \in Keys /\ Key("completed", Of(w), 0) \in Keys
          /\ Key("failed", Of(w), 0) \in Keys
      BY Handled, KeyType, WorkerAssumption
    <3>4. PICK s \in Seq(Snapshots), t \in Seq(Snapshots), u \in Seq(Snapshots) :
            /\ b = (s \o t) \o u
            /\ \A i \in 1..Len(s) : RowKnown(s[i])
            /\ \A i \in 1..Len(t) : RowKnown(t[i])
            /\ \A i \in 1..Len(u) : RowKnown(u[i])
      BY <2>1, <3>1, <3>3
    <3>5. PICK v \in Seq(Snapshots) : v = s \o t /\ \A i \in 1..Len(v) : RowKnown(v[i])
      BY <3>2, <3>4
    <3>. QED
      BY <3>2, <3>4, <3>5
  <2>8. UNCHANGED outbox
    BY <1>3 DEF FindPending
  <2>9. d.pc # "PersistStarted"
    BY <2>3 DEF Returns
  <2>. QED
    BY <2>2, <2>3, <2>5, <2>6, <2>7, <2>8, <2>9, SilentStep
<1>4. CASE Publish(w) \/ PublishFails(w)
  <2>1. UNCHANGED outbox /\ worker[w].pc = "Publish"
    BY <1>4 DEF Publish, PublishFails, At
  <2>2. OutcomeRecorded' /\ Forward /\ RowsStay /\ CommandsAreOfRequests'
    BY <2>1, Silent
  <2>3. NextInBatch(w) => StaleReadsAreSafe'
    BY <1>2, <2>1, <2>2, NextInBatchSafe
  <2>4. ASSUME NEW label \in {"RecordPublished", "RecordPublishFailure"}, Goto(w, label)
        PROVE  StaleReadsAreSafe'
    <3>1. label \in Labels /\ label \notin NodeLabels
      BY DEF Labels, NodeLabels
    <3>. QED
      BY <2>1, <2>2, <2>4, <3>1, GotoSafe
  <2>. QED
    BY <1>4, <2>2, <2>3, <2>4 DEF Publish, PublishFails, IInv
<1>5. CASE RecordPublished(w)
  <2>1. worker[w].pc = "RecordPublished"
    BY <1>5 DEF RecordPublished, At
  <2>2. PICK s \in Snapshots : /\ RowKnown(s)
                               /\ outbox' = [outbox EXCEPT ![s.key] = MarkPublished(@)]
    BY <1>2, <1>5, <2>1 DEF RecordPublished
  <2>3. OutcomeRecorded' /\ Forward /\ RowsStay /\ CommandsAreOfRequests'
    BY <2>2, MarkStep
  <2>. QED
    BY <1>2, <1>5, <2>1, <2>3, NextInBatchSafe DEF RecordPublished, IInv
<1>6. CASE RecordPublishFailure(w)
  <2>1. worker[w].pc = "RecordPublishFailure"
    BY <1>6 DEF RecordPublishFailure, At
  <2>2. PICK s \in Snapshots : /\ RowKnown(s)
                               /\ outbox' = [outbox EXCEPT ![s.key] = MarkPublishFailure(s.row)]
    BY <1>2, <1>6, <2>1 DEF RecordPublishFailure
  <2>3. OutcomeRecorded' /\ Forward /\ RowsStay /\ CommandsAreOfRequests'
    BY <2>2, MarkStep
  <2>. QED
    BY <1>6, <2>3, ThrowSafe DEF RecordPublishFailure, IInv
<1>. QED
  BY <1>3, <1>4, <1>5, <1>6

\* A step of a timer: the workers are not disturbed, and its own cycle stays safe.
LEMMA CycleStep ==
  ASSUME IInv, TypeInv', NEW d \in Dispatchers, NEW c \in Cycles,
         dispatcher' = [dispatcher EXCEPT ![d] = c], CycleSafe(c),
         OutcomeRecorded', Forward, RowsStay, CommandsAreOfRequests',
         UNCHANGED worker
  PROVE  IInv'
<1>1. ASSUME NEW w \in Workers PROVE DeliverySafe(worker[w])'
  <2>1. PICK o \in Deliveries : o = worker[w] /\ worker'[w] = o /\ DeliverySafe(o)
    BY WorkerFacts
  <2>2. DeliverySafe(o)'
    BY <2>1, SafetyIsStable DEF IInv
  <2>. QED
    BY <2>1, <2>2 DEF DeliverySafe, Position
<1>2. ASSUME NEW t \in Dispatchers PROVE CycleSafe(dispatcher[t])'
  <2>1. PICK o \in Cycles : dispatcher'[t] = o /\ CycleSafe(o)
    BY DEF IInv, TypeInv, TypeOK, StaleReadsAreSafe
  <2>2. CycleSafe(o)'
    BY <2>1, CycleIsStable DEF IInv
  <2>. QED
    BY <2>1, <2>2 DEF CycleSafe
<1>. QED
  BY <1>1, <1>2 DEF IInv, StaleReadsAreSafe

\* The outbox timers.
LEMMA OutcomeDispatcher ==
  ASSUME IInv, TypeInv', NEW d \in Dispatchers, Dispatch(d) \/ DispatcherDatabaseError(d)
  PROVE  IInv'
<1>1. /\ dispatcher[d] \in Cycles /\ CycleSafe(dispatcher[d])
      /\ dispatcher \in [Dispatchers -> Cycles] /\ dispatcher' \in [Dispatchers -> Cycles]
  BY DEF IInv, TypeInv, TypeOK, StaleReadsAreSafe
<1>2. UNCHANGED <<execution, request, ready, delayed, worker>>
  BY DEF Dispatch, FetchPending, DispatchNext, DispatcherRecordsPublished,
         DispatcherRecordsFailure, DispatcherDatabaseError, queues
<1>3. PICK c \in Cycles : dispatcher' = [dispatcher EXCEPT ![d] = c] /\ CycleSafe(c)
  <2>1. CASE FetchPending(d)
    <3>1. PICK found : /\ found = {[key |-> k, row |-> outbox[k]] :
                                     k \in {k \in Keys : Dispatchable(outbox[k])}}
                       /\ dispatcher[d] = IdleDispatcher
                       /\ dispatcher' = [dispatcher EXCEPT ![d].fetched = found]
      BY <2>1 DEF FetchPending
    <3>2. \A s \in found : RowKnown(s)
      BY <3>1 DEF RowKnown, Exists, Dispatchable
    <3>3. PICK c : c = [dispatcher[d] EXCEPT !.fetched = found]
      OBVIOUS
    <3>4. c.fetched = found /\ c.sent = {} /\ c.refused = {}
      BY <3>1, <3>3 DEF IdleDispatcher
    <3>5. dispatcher' = [dispatcher EXCEPT ![d] = c] /\ c = dispatcher'[d]
      BY <1>1, <3>1, <3>3
    <3>. QED
      BY <1>1, <3>2, <3>4, <3>5 DEF CycleSafe
  <2>2. CASE DispatchNext(d)
    <3>. PICK s \in dispatcher[d].fetched :
            \/ dispatcher' = [dispatcher EXCEPT ![d].fetched = @ \ {s}, ![d].sent = {s}]
            \/ dispatcher' = [dispatcher EXCEPT ![d].fetched = @ \ {s}, ![d].refused = {s}]
      BY <2>2 DEF DispatchNext
    <3>1. PICK c :
            /\ dispatcher' = [dispatcher EXCEPT ![d] = c]
            /\ c \in {[dispatcher[d] EXCEPT !.fetched = @ \ {s}, !.sent = {s}],
                      [dispatcher[d] EXCEPT !.fetched = @ \ {s}, !.refused = {s}]}
      OBVIOUS
    <3>2. c.fetched \cup c.sent \cup c.refused
            \subseteq dispatcher[d].fetched \cup dispatcher[d].sent \cup dispatcher[d].refused
      <4>1. /\ c.fetched = dispatcher[d].fetched \ {s}
            /\ c.sent \subseteq dispatcher[d].sent \cup {s}
            /\ c.refused \subseteq dispatcher[d].refused \cup {s}
        BY <1>1, <3>1 DEF Cycles
      <4>. QED
        BY <3>1, <4>1
    <3>3. c = dispatcher'[d]
      BY <1>1, <3>1
    <3>. QED
      BY <1>1, <3>1, <3>2, <3>3 DEF CycleSafe
  <2>3. CASE DispatcherRecordsPublished(d) \/ DispatcherRecordsFailure(d)
             \/ DispatcherDatabaseError(d)
    <3>1. PICK c : /\ dispatcher' = [dispatcher EXCEPT ![d] = c]
                   /\ \/ c = [dispatcher[d] EXCEPT !.sent = {}]
                      \/ c = [dispatcher[d] EXCEPT !.refused = {}]
                      \/ c = [dispatcher[d] EXCEPT !.sent = {}, !.refused = {}]
      BY <2>3 DEF DispatcherRecordsPublished, DispatcherRecordsFailure, DispatcherDatabaseError
    <3>2. c.fetched \cup c.sent \cup c.refused
            \subseteq dispatcher[d].fetched \cup dispatcher[d].sent \cup dispatcher[d].refused
      BY <1>1, <3>1 DEF Cycles
    <3>3. c = dispatcher'[d]
      BY <1>1, <3>1
    <3>. QED
      BY <1>1, <3>1, <3>2, <3>3 DEF CycleSafe
  <2>. QED
    BY <2>1, <2>2, <2>3 DEF Dispatch
<1>4. OutcomeRecorded' /\ Forward /\ RowsStay /\ CommandsAreOfRequests'
  <2>1. CASE DispatcherRecordsPublished(d)
    <3>1. PICK s \in Snapshots : /\ RowKnown(s)
                                 /\ outbox' = [outbox EXCEPT ![s.key] = MarkPublished(@)]
      BY <1>1, <2>1 DEF DispatcherRecordsPublished, Cycles, CycleSafe
    <3>. QED
      BY <1>2, <3>1, MarkStep
  <2>2. CASE DispatcherRecordsFailure(d)
    <3>1. PICK s \in Snapshots : /\ RowKnown(s)
                                 /\ outbox' = [outbox EXCEPT ![s.key] = MarkPublishFailure(s.row)]
      BY <1>1, <2>2 DEF DispatcherRecordsFailure, Cycles, CycleSafe
    <3>. QED
      BY <1>2, <3>1, MarkStep
  <2>3. CASE FetchPending(d) \/ DispatchNext(d) \/ DispatcherDatabaseError(d)
    <3>1. UNCHANGED outbox
      BY <2>3 DEF FetchPending, DispatchNext, DispatcherDatabaseError
    <3>. QED
      BY <1>2, <3>1, Silent
  <2>. QED
    BY <2>1, <2>2, <2>3 DEF Dispatch
<1>. QED
  BY <1>2, <1>3, <1>4, CycleStep

LEMMA OutcomeStep == IInv /\ [Next]_vars => IInv'
<1>. SUFFICES ASSUME IInv, [Next]_vars PROVE IInv'
  OBVIOUS
<1>. TypeInv'
  BY TypeStep DEF IInv
<1>1. CASE Api
  BY <1>1, OutcomeApi DEF Api
<1>2. CASE \E c \in Commands : RetryDue(c)
  BY <1>2, OutcomeBroker
<1>3. ASSUME NEW w \in Workers,
             (\E c \in Commands : Deliver(w, c)) \/ Process(w) \/ Break(w) \/ Restart(w)
      PROVE  IInv'
  BY <1>3, OutcomeBroker, OutcomeProcess, OutcomeNodes, OutcomeFailure, OutcomeDispatch,
     OutcomeSurroundings
  DEF Process, Break
<1>4. ASSUME NEW d \in Dispatchers, Dispatch(d) \/ DispatcherDatabaseError(d)
      PROVE  IInv'
  BY <1>4, OutcomeDispatcher
<1>5. CASE UNCHANGED vars
  <2>1. UNCHANGED <<execution, request, outbox, ready, delayed>>
    BY <1>5 DEF vars
  <2>2. OutcomeRecorded' /\ CommandsAreOfRequests'
    BY <2>1, Silent
  <2>3. /\ \A w \in Workers : DeliverySafe(worker[w])'
        /\ \A d \in Dispatchers : CycleSafe(dispatcher[d])'
    BY <1>5
    DEF vars, IInv, StaleReadsAreSafe, DeliverySafe, Position, CycleSafe, RowKnown, Recorded
  <2>. QED
    BY <2>2, <2>3 DEF IInv, StaleReadsAreSafe
<1>. QED
  BY <1>1, <1>2, <1>3, <1>4, <1>5 DEF Next

\* Whatever workers, crashes, duplicates and failed statements there are, the
\* status of an execution and its recorded lifecycle events tell the same story
\* (the status updates of index.ts:282, 368 and 1324 and the outbox upserts in
\* their transactions).
THEOREM OutcomeAlwaysRecorded == Spec => []OutcomeRecorded
<1>1. IInv => OutcomeRecorded
  BY DEF IInv
<1>. QED
  BY <1>1, OutcomeInit, OutcomeStep, PTL DEF Spec

\* What a delivery or a timer read before an await still supports what it does
\* with it afterwards, for any number of workers in between (index.ts:260-360 and
\* 1506-1529).
THEOREM StaleReadsStaySafe == Spec => []StaleReadsAreSafe
<1>1. IInv => StaleReadsAreSafe
  BY DEF IInv
<1>. QED
  BY <1>1, OutcomeInit, OutcomeStep, PTL DEF Spec

-----------------------------------------------------------------------------
(* The worker implements the lifecycle.                                    *)

EventKinds == {"started", "completed", "failed"}

\* What Lifecycle substitutes for `recorded`.
Events == [e \in Executions |-> {kind \in EventKinds : Recorded(kind, e, 0)}]

\* A step that leaves the executions and their own events alone.
Stutter ==
  /\ UNCHANGED execution
  /\ \A k \in Keys : k.node = 0 => (Exists(outbox'[k]) <=> Exists(outbox[k]))

LEMMA StutterMaps ==
  ASSUME Stutter
  PROVE  UNCHANGED Lifecycle!vars
<1>1. \A kind \in EventKinds, e \in Executions : Recorded(kind, e, 0)' <=> Recorded(kind, e, 0)
  BY KeyType, WorkerAssumption DEF Stutter, Recorded, Key, EventKinds
<1>2. Events' = Events
  BY <1>1 DEF Events
<1>. QED
  BY <1>2 DEF Stutter, Lifecycle!vars, Events, EventKinds

\* A step that moves execution e and records one event of it.
LEMMA MoveMaps ==
  ASSUME IInv, NEW e \in Executions, NEW kind \in EventKinds,
         \A any \in EventKinds, x \in Executions :
           Recorded(any, x, 0)' <=> Recorded(any, x, 0) \/ (any = kind /\ x = e)
  PROVE  Events' = [Events EXCEPT ![e] = @ \cup {kind}]
BY DEF Events

\* A step of a worker that emits an event of a node stutters.
LEMMA NodeEmissionStutters ==
  ASSUME IInv, NEW w \in Workers, worker[w].pc \in NodeLabels,
         NEW kind \in EventKinds, NEW label \in Returns,
         Emit(w, Key(kind, Of(w), worker[w].node), label),
         UNCHANGED execution
  PROVE  Stutter
<1>1. worker[w].node \in Nodes /\ Of(w) \in Executions
  BY Handled DEF NodeLabels
<1>2. Key(kind, Of(w), worker[w].node) \in Keys /\ Key(kind, Of(w), worker[w].node).node # 0
  BY <1>1, KeyType, WorkerAssumption DEF Nodes, Key, EventKinds
<1>3. \A k \in Keys : Exists(outbox'[k]) <=>
        Exists(outbox[k]) \/ k = Key(kind, Of(w), worker[w].node)
  BY <1>2, EmitAddsRow DEF IInv
<1>. QED
  BY <1>2, <1>3 DEF Stutter

\* The report of a start that was recorded before records nothing new.
LEMMA PersistStartedStutters ==
  ASSUME IInv, NEW w \in Workers, PersistStarted(w)
  PROVE  Stutter
<1>1. worker[w].pc \notin {"Idle", "Down"}
  BY DEF PersistStarted, At
<1>2. Of(w) \in Executions /\ Recorded("started", Of(w), 0)
  BY <1>1, Handled DEF PersistStarted
<1>3. Key("started", Of(w), 0) \in Keys
  BY <1>2, KeyType, WorkerAssumption
<1>4. \A k \in Keys : Exists(outbox'[k]) <=> Exists(outbox[k]) \/ k = Key("started", Of(w), 0)
  BY <1>3, EmitAddsRow DEF PersistStarted, IInv, Returns
<1>. QED
  BY <1>2, <1>4 DEF Stutter, PersistStarted, Recorded

\* A mark on the row behind a snapshot stutters.
LEMMA MarkStutters ==
  ASSUME IInv, NEW s \in Snapshots, RowKnown(s),
         \/ outbox' = [outbox EXCEPT ![s.key] = MarkPublished(@)]
         \/ outbox' = [outbox EXCEPT ![s.key] = MarkPublishFailure(s.row)],
         UNCHANGED execution
  PROVE  Stutter
<1>1. s.key \in Keys /\ s.row \in Rows /\ outbox[s.key] \in Rows /\ outbox \in [Keys -> Rows]
  BY DEF Snapshots, IInv, TypeInv, TypeOK
<1>2. PICK row : Exists(row) /\ outbox' = [outbox EXCEPT ![s.key] = row]
  BY <1>1, MarksExist DEF RowKnown
<1>3. SameRows
  BY <1>1, <1>2, MarkKeepsRows DEF RowKnown, IInv
<1>. QED
  BY <1>3 DEF SameRows, Stutter

\* The head of a batch a worker is about to handle.
LEMMA HeadKnown ==
  ASSUME IInv, NEW w \in Workers,
         worker[w].pc \in {"RecordPublished", "RecordPublishFailure"}
  PROVE  Head(worker[w].batch) \in Snapshots /\ RowKnown(Head(worker[w].batch))
<1>1. worker[w].batch \in Seq(Snapshots) /\ worker[w].batch # <<>>
  BY DeliveryType DEF IInv, TypeInv, BatchReady
<1>2. /\ Head(worker[w].batch) = worker[w].batch[1]
      /\ 1 \in 1..Len(worker[w].batch)
  BY <1>1, HeadTailProperties, LenProperties
<1>. QED
  BY <1>2, WorkerFacts

\* Every other step of a worker stutters.
LEMMA WorkerStutters ==
  ASSUME IInv, NEW w \in Workers, Process(w) \/ Break(w) \/ Restart(w),
         ~BeginExecution(w), ~CompleteExecution(w), ~FailExecution(w)
  PROVE  Stutter
<1>1. CASE \/ FindExecution(w) \/ BeginConflict(w) \/ RereadExecution(w) \/ PrepareNodes(w)
           \/ StartNode(w) \/ ExecuteNode(w) \/ CompleteNode(w) \/ NextNode(w) \/ FailNode(w)
           \/ CompletionMissed(w) \/ CompletionConflict(w)
  <2>1. UNCHANGED <<execution, outbox>>
    BY <1>1
    DEF FindExecution, BeginConflict, RereadExecution, PrepareNodes, StartNode, ExecuteNode,
        CompleteNode, NextNode, FailNode, CompletionMissed, CompletionConflict
  <2>. QED
    BY <2>1 DEF Stutter
<1>2. CASE \/ RetryCommand(w) \/ GiveUp(w) \/ FailureMissed(w) \/ FailureConflict(w)
           \/ DeadLetter(w) \/ Ack(w) \/ Nack(w) \/ FindPending(w) \/ Publish(w)
           \/ Break(w) \/ Restart(w)
  <2>1. UNCHANGED <<execution, outbox>>
    BY <1>2
    DEF RetryCommand, GiveUp, FailureMissed, FailureConflict, DeadLetter, Ack, Nack,
        FindPending, Publish, Break, PublishFails, DatabaseError, Crash, Restart
  <2>. QED
    BY <2>1 DEF Stutter
<1>3. CASE PersistNodeStarted(w)
  BY <1>3, NodeEmissionStutters DEF PersistNodeStarted, At, NodeLabels, EventKinds, Returns
<1>4. CASE PersistNodeCompleted(w)
  BY <1>4, NodeEmissionStutters DEF PersistNodeCompleted, At, NodeLabels, EventKinds, Returns
<1>5. CASE PersistNodeFailed(w)
  BY <1>5, NodeEmissionStutters DEF PersistNodeFailed, At, NodeLabels, EventKinds, Returns
<1>6. CASE PersistStarted(w)
  BY <1>6, PersistStartedStutters
<1>7. CASE RecordPublished(w)
  BY <1>7, HeadKnown, MarkStutters DEF RecordPublished, At
<1>8. CASE RecordPublishFailure(w)
  BY <1>8, HeadKnown, MarkStutters DEF RecordPublishFailure, At
<1>. QED
  BY <1>1, <1>2, <1>3, <1>4, <1>5, <1>6, <1>7, <1>8 DEF Process

LEMMA DispatcherStutters ==
  ASSUME IInv, NEW d \in Dispatchers, Dispatch(d) \/ DispatcherDatabaseError(d)
  PROVE  Stutter
<1>1. dispatcher[d] \in Cycles /\ CycleSafe(dispatcher[d])
  BY DEF IInv, TypeInv, TypeOK, StaleReadsAreSafe
<1>2. CASE FetchPending(d) \/ DispatchNext(d) \/ DispatcherDatabaseError(d)
  BY <1>2 DEF FetchPending, DispatchNext, DispatcherDatabaseError, Stutter
<1>3. CASE DispatcherRecordsPublished(d)
  <2>1. PICK s \in Snapshots : /\ RowKnown(s)
                               /\ outbox' = [outbox EXCEPT ![s.key] = MarkPublished(@)]
    BY <1>1, <1>3 DEF DispatcherRecordsPublished, Cycles, CycleSafe
  <2>. QED
    BY <1>3, <2>1, MarkStutters DEF DispatcherRecordsPublished
<1>4. CASE DispatcherRecordsFailure(d)
  <2>1. PICK s \in Snapshots : /\ RowKnown(s)
                               /\ outbox' = [outbox EXCEPT ![s.key] = MarkPublishFailure(s.row)]
    BY <1>1, <1>4 DEF DispatcherRecordsFailure, Cycles, CycleSafe
  <2>. QED
    BY <1>4, <2>1, MarkStutters DEF DispatcherRecordsFailure
<1>. QED
  BY <1>2, <1>3, <1>4 DEF Dispatch

\* The steps that move an execution.
LEMMA BeginMaps ==
  ASSUME IInv, NEW w \in Workers, BeginExecution(w)
  PROVE  Lifecycle!Next
<1>1. worker[w].pc \notin {"Idle", "Down"}
  BY DEF BeginExecution, At
<1>2. PICK e \in Executions : e = Of(w)
  BY <1>1, Handled
<1>3. execution[e] = "PENDING" /\ execution' = [execution EXCEPT ![e] = "RUNNING"]
  BY <1>2 DEF BeginExecution
<1>4. Emit(w, Key("started", Of(w), 0), "PrepareNodes")
  BY DEF BeginExecution
<1>5. Events' = [Events EXCEPT ![e] = @ \cup {"started"}]
  BY <1>1, <1>2, <1>4, EmissionRecords, MoveMaps DEF EventKinds
<1>6. Lifecycle!Start(e)
  BY <1>3, <1>5 DEF Lifecycle!Start, Lifecycle!Move, Lifecycle!Record, Events, EventKinds
<1>. QED
  BY <1>6 DEF Lifecycle!Next

LEMMA CompleteMaps ==
  ASSUME IInv, NEW w \in Workers, CompleteExecution(w)
  PROVE  Lifecycle!Next
<1>1. worker[w].pc \notin {"Idle", "Down"}
  BY DEF CompleteExecution, At
<1>2. PICK e \in Executions : e = Of(w)
  BY <1>1, Handled
<1>3. execution[e] = "RUNNING" /\ execution' = [execution EXCEPT ![e] = "SUCCEEDED"]
  BY <1>2 DEF CompleteExecution
<1>4. Emit(w, Key("completed", Of(w), 0), "Ack")
  BY DEF CompleteExecution
<1>5. Events' = [Events EXCEPT ![e] = @ \cup {"completed"}]
  BY <1>1, <1>2, <1>4, EmissionRecords, MoveMaps DEF EventKinds
<1>6. Lifecycle!Succeed(e)
  BY <1>3, <1>5 DEF Lifecycle!Succeed, Lifecycle!Move, Lifecycle!Record, Events, EventKinds
<1>. QED
  BY <1>6 DEF Lifecycle!Next

LEMMA FailMaps ==
  ASSUME IInv, NEW w \in Workers, FailExecution(w)
  PROVE  Lifecycle!Next
<1>1. worker[w].pc \notin {"Idle", "Down"}
  BY DEF FailExecution, At
<1>2. PICK e \in Executions : e = Of(w)
  BY <1>1, Handled
<1>3. execution[e] \in {"PENDING", "RUNNING"} /\ execution' = [execution EXCEPT ![e] = "FAILED"]
  BY <1>2 DEF FailExecution
<1>4. Emit(w, Key("failed", Of(w), 0), "DeadLetter")
  BY DEF FailExecution
<1>5. Events' = [Events EXCEPT ![e] = @ \cup {"failed"}]
  BY <1>1, <1>2, <1>4, EmissionRecords, MoveMaps DEF EventKinds
<1>6. Lifecycle!Fail(e)
  BY <1>3, <1>5 DEF Lifecycle!Fail, Lifecycle!Move, Lifecycle!Record, Events, EventKinds
<1>. QED
  BY <1>6 DEF Lifecycle!Next

LEMMA LifecycleInit == Init => Lifecycle!Init
<1>. SUFFICES ASSUME Init PROVE Lifecycle!Init
  OBVIOUS
<1>1. \A kind \in EventKinds, e \in Executions : ~Recorded(kind, e, 0)
  BY KeyType, WorkerAssumption DEF Init, Recorded, Exists, AbsentRow, EventKinds
<1>. QED
  BY <1>1 DEF Init, Lifecycle!Init, EventKinds

LEMMA LifecycleStep == IInv /\ [Next]_vars => [Lifecycle!Next]_(Lifecycle!vars)
<1>. SUFFICES ASSUME IInv, [Next]_vars
              PROVE  Lifecycle!Next \/ UNCHANGED Lifecycle!vars
  OBVIOUS
<1>1. ASSUME NEW e \in Executions, RequestExecution(e)
      PROVE  Lifecycle!Next
  <2>1. /\ execution[e] = "NONE" /\ execution' = [execution EXCEPT ![e] = "PENDING"]
        /\ UNCHANGED outbox
    BY <1>1 DEF RequestExecution
  <2>2. Events' = Events
    BY <2>1 DEF Events, Recorded
  <2>3. Lifecycle!Request(e)
    BY <2>1, <2>2 DEF Lifecycle!Request, Lifecycle!Move, Events, EventKinds
  <2>. QED
    BY <2>3 DEF Lifecycle!Next
<1>2. ASSUME NEW e \in Executions, PublishCommand(e) \/ LoseCommand(e)
      PROVE  Stutter
  BY <1>2 DEF PublishCommand, LoseCommand, Stutter
<1>3. ASSUME NEW c \in Commands, RetryDue(c) \/ \E w \in Workers : Deliver(w, c)
      PROVE  Stutter
  BY <1>3 DEF RetryDue, Deliver, Stutter
<1>4. ASSUME NEW w \in Workers, Process(w) \/ Break(w) \/ Restart(w)
      PROVE  Lifecycle!Next \/ Stutter
  BY <1>4, WorkerStutters, BeginMaps, CompleteMaps, FailMaps
<1>5. ASSUME NEW d \in Dispatchers, Dispatch(d) \/ DispatcherDatabaseError(d)
      PROVE  Stutter
  BY <1>5, DispatcherStutters
<1>6. CASE UNCHANGED vars
  BY <1>6, StutterMaps DEF vars, Stutter
<1>. QED
  BY <1>1, <1>2, <1>3, <1>4, <1>5, <1>6, StutterMaps DEF Next, Api

\* The worker implements the abstract lifecycle of an execution: whatever
\* deliveries, crashes and failures there are, a status only moves along it and
\* each move records its event in the same step (index.ts:287, 375, 1338).
THEOREM ImplementsLifecycle == Spec => LifecycleSpec
<1>. QED
  BY OutcomeInit, OutcomeStep, LifecycleInit, LifecycleStep, PTL
  DEF Spec, LifecycleSpec, Lifecycle!Spec

-----------------------------------------------------------------------------
(***************************************************************************)
(* What follows needs to know where every delivery is: no command is       *)
(* dropped, a dead letter is settled, a success explains itself, no row of *)
(* the outbox is stranded, and node rows agree.                            *)
(***************************************************************************)

(* What a step does to the rows of the outbox.                             *)

\* A dispatch of the row behind snapshot s is recorded.
Marked(s) ==
  \/ outbox' = [outbox EXCEPT ![s.key] = MarkPublished(@)]
  \/ outbox' = [outbox EXCEPT ![s.key] = MarkPublishFailure(s.row)]

\* A row is inserted, or a dispatch recorded, or nothing happens.
RowStep ==
  \/ UNCHANGED outbox
  \/ \E key \in Keys : outbox' = PersistOutboxEvent(outbox, key)
  \/ \E s \in Snapshots : RowKnown(s) /\ Marked(s)

LEMMA EmissionIsRowStep ==
  ASSUME NEW w \in Workers, NEW key \in Keys, NEW label, Emit(w, key, label)
  PROVE  RowStep
BY DEF Emit, RowStep

LEMMA WorkerRowStep ==
  ASSUME IInv, NEW w \in Workers, Process(w)
  PROVE  RowStep
<1>1. CASE \/ FindExecution(w) \/ BeginConflict(w) \/ RereadExecution(w) \/ PrepareNodes(w)
           \/ StartNode(w) \/ ExecuteNode(w) \/ CompleteNode(w) \/ NextNode(w) \/ FailNode(w)
           \/ CompletionMissed(w) \/ CompletionConflict(w)
           \/ RetryCommand(w) \/ GiveUp(w) \/ FailureMissed(w) \/ FailureConflict(w)
           \/ DeadLetter(w) \/ Ack(w) \/ Nack(w) \/ FindPending(w) \/ Publish(w)
  BY <1>1
  DEF FindExecution, BeginConflict, RereadExecution, PrepareNodes, StartNode, ExecuteNode,
      CompleteNode, NextNode, FailNode, CompletionMissed, CompletionConflict, RetryCommand,
      GiveUp, FailureMissed, FailureConflict, DeadLetter, Ack, Nack, FindPending, Publish,
      RowStep
<1>2. ASSUME NEW kind \in {"started", "completed", "failed"}, NEW n \in 0..NodeCount
      PROVE  Key(kind, Of(w), n) \in Keys
  BY DeliveryType, KeyType DEF IInv
<1>3. CASE BeginExecution(w) \/ PersistStarted(w) \/ CompleteExecution(w) \/ FailExecution(w)
  <2>1. PICK kind \in {"started", "completed", "failed"}, label \in Returns :
          Emit(w, Key(kind, Of(w), 0), label)
    BY <1>3 DEF BeginExecution, PersistStarted, CompleteExecution, FailExecution, Returns
  <2>. QED
    BY <1>2, <2>1, EmissionIsRowStep, WorkerAssumption
<1>4. CASE PersistNodeStarted(w) \/ PersistNodeCompleted(w) \/ PersistNodeFailed(w)
  <2>1. PICK kind \in {"started", "completed", "failed"}, label \in Returns :
          Emit(w, Key(kind, Of(w), worker[w].node), label)
    BY <1>4 DEF PersistNodeStarted, PersistNodeCompleted, PersistNodeFailed, Returns
  <2>2. worker[w].node \in 0..NodeCount
    BY DeliveryType DEF IInv
  <2>. QED
    BY <1>2, <2>1, <2>2, EmissionIsRowStep
<1>5. CASE RecordPublished(w) \/ RecordPublishFailure(w)
  <2>1. Head(worker[w].batch) \in Snapshots /\ RowKnown(Head(worker[w].batch))
    BY <1>5, HeadKnown DEF RecordPublished, RecordPublishFailure, At
  <2>2. Marked(Head(worker[w].batch))
    BY <1>5 DEF RecordPublished, RecordPublishFailure, Marked
  <2>. QED
    BY <2>1, <2>2 DEF RowStep
<1>. QED
  BY <1>1, <1>3, <1>4, <1>5 DEF Process

LEMMA EveryRowStep == ASSUME IInv, [Next]_vars PROVE RowStep
<1>1. CASE \/ Api \/ \E c \in Commands : RetryDue(c) \/ \E w \in Workers : Deliver(w, c)
  BY <1>1 DEF Api, RequestExecution, PublishCommand, LoseCommand, RetryDue, Deliver, RowStep
<1>2. ASSUME NEW w \in Workers, Break(w) \/ Restart(w)
      PROVE  RowStep
  BY <1>2 DEF Break, PublishFails, DatabaseError, Crash, Restart, RowStep
<1>3. ASSUME NEW d \in Dispatchers, Dispatch(d) \/ DispatcherDatabaseError(d)
      PROVE  RowStep
  <2>1. dispatcher[d] \in Cycles /\ CycleSafe(dispatcher[d])
    BY DEF IInv, TypeInv, TypeOK, StaleReadsAreSafe
  <2>2. CASE FetchPending(d) \/ DispatchNext(d) \/ DispatcherDatabaseError(d)
    BY <2>2 DEF FetchPending, DispatchNext, DispatcherDatabaseError, RowStep
  <2>3. CASE DispatcherRecordsPublished(d) \/ DispatcherRecordsFailure(d)
    <3>1. PICK s \in Snapshots : RowKnown(s) /\ Marked(s)
      BY <2>1, <2>3
      DEF DispatcherRecordsPublished, DispatcherRecordsFailure, Cycles, CycleSafe, Marked
    <3>. QED
      BY <3>1 DEF RowStep
  <2>. QED
    BY <1>3, <2>2, <2>3 DEF Dispatch
<1>4. CASE UNCHANGED vars
  BY <1>4 DEF vars, RowStep
<1>. QED
  BY <1>1, <1>2, <1>3, <1>4, WorkerRowStep DEF Next

\* A mark concerns a row that exists and leaves it in existence.
LEMMA MarkOfKnown ==
  ASSUME IInv, NEW s \in Snapshots, RowKnown(s), Marked(s)
  PROVE  SameRows
<1>1. s.key \in Keys /\ s.row \in Rows /\ outbox[s.key] \in Rows /\ outbox \in [Keys -> Rows]
  BY DEF Snapshots, IInv, TypeInv, TypeOK
<1>2. PICK row : Exists(row) /\ outbox' = [outbox EXCEPT ![s.key] = row]
  BY <1>1, MarksExist DEF RowKnown, Marked
<1>. QED
  BY <1>1, <1>2, MarkKeepsRows DEF RowKnown, IInv

LEMMA RowsAreKept == ASSUME IInv, [Next]_vars PROVE RowsStay
<1>1. CASE \E key \in Keys : outbox' = PersistOutboxEvent(outbox, key)
  <2>1. Exists(NewRow)
    BY DEF Exists, NewRow
  <2>. QED
    BY <1>1, <2>1 DEF RowsStay, PersistOutboxEvent, IInv, TypeInv, TypeOK
<1>2. CASE \E s \in Snapshots : RowKnown(s) /\ Marked(s)
  BY <1>2, MarkOfKnown DEF SameRows, RowsStay
<1>. QED
  BY <1>1, <1>2, EveryRowStep DEF RowStep, RowsStay

-----------------------------------------------------------------------------
(* No row is stranded.                                                     *)

LEMMA StrandingStep ==
  ASSUME IInv, NoStrandedRow, [Next]_vars
  PROVE  NoStrandedRow'
<1>1. outbox \in [Keys -> Rows] /\ MaxPublishAttempts \in Nat \ {0}
  BY MaxPublishAttemptsAssumption DEF IInv, TypeInv, TypeOK
<1>2. CASE \E key \in Keys : outbox' = PersistOutboxEvent(outbox, key)
  <2>1. Dispatchable(NewRow)
    BY <1>1 DEF Dispatchable, NewRow
  <2>. QED
    BY <1>1, <1>2, <2>1 DEF PersistOutboxEvent, NoStrandedRow
<1>3. ASSUME NEW s \in Snapshots, Marked(s)
      PROVE  NoStrandedRow'
  <2>1. s.key \in Keys /\ s.row \in Rows
    BY DEF Snapshots
  <2>2. CASE outbox' = [outbox EXCEPT ![s.key] = MarkPublished(@)]
    BY <1>1, <2>1, <2>2 DEF NoStrandedRow, MarkPublished
  <2>3. CASE outbox' = [outbox EXCEPT ![s.key] = MarkPublishFailure(s.row)]
    <3>1. PICK row : row = MarkPublishFailure(s.row)
      OBVIOUS
    <3>2. s.row.attempts + 1 \in Nat
      BY <2>1 DEF Rows
    <3>3. row.attempts = s.row.attempts + 1
      BY <3>1 DEF MarkPublishFailure
    <3>4. row.status = "PENDING" => ~(s.row.attempts + 1 >= MaxPublishAttempts)
      BY <3>1 DEF MarkPublishFailure
    <3>5. row.status = "PENDING" => Dispatchable(row)
      BY <1>1, <3>2, <3>3, <3>4 DEF Dispatchable
    <3>. QED
      BY <1>1, <2>1, <2>3, <3>1, <3>5 DEF NoStrandedRow
  <2>. QED
    BY <1>3, <2>2, <2>3 DEF Marked
<1>. QED
  BY <1>2, <1>3, EveryRowStep DEF RowStep, NoStrandedRow

\* Whatever stale snapshots deliveries and timers write back, and however many of
\* them work on one row, a row that stays PENDING is one the dispatcher still looks
\* for (index.ts:1430-1580).
THEOREM NoRowIsStranded == Spec => []NoStrandedRow
<1>1. Init => NoStrandedRow
  BY DEF Init, NoStrandedRow, AbsentRow
<1>2. IInv /\ NoStrandedRow /\ [Next]_vars => NoStrandedRow'
  BY StrandingStep
<1>. QED
  BY <1>1, <1>2, OutcomeInit, OutcomeStep, PTL DEF Spec

-----------------------------------------------------------------------------
(* What a delivery has learnt when it gets to a label.                     *)

\* The labels of dispatching, where `next` tells what comes after it.
DispatchLabels == {"FindPending", "Publish", "RecordPublished", "RecordPublishFailure"}

\* The labels inside the try block of a node that can be reached without an error.
TryLabels == {"CompleteNode", "PersistNodeCompleted", "NextNode"}

\* What holds of execution e, at node n, when a delivery of its command is at a label.
Claim(label, e, n) ==
  /\ label = "RereadExecution" => execution[e] \notin {"NONE", "PENDING"}
  /\ label \in NodeLabels \cup {"PrepareNodes"} => Recorded("started", e, 0)
  /\ label \in NodeLabels => \A m \in 1..(n - 1) : Recorded("completed", e, m)
  /\ label \in NodeLabels \ {"StartNode", "PersistNodeStarted"} => Recorded("started", e, n)
  /\ label = "NextNode" => Recorded("completed", e, n)
  /\ label = "CompleteExecution" => \A m \in Nodes : Recorded("completed", e, m)
  /\ label = "DeadLetter" => execution[e] \in Terminal

Learnt(d) ==
  /\ Claim(Position(d), d.command.execution, d.node)
  /\ d.rescue = "FailNode" => Position(d) \in TryLabels
  /\ d.pc \in DispatchLabels => d.next # "Idle"
  /\ d.pc \in DispatchLabels /\ d.next = "Ack" => execution[d.command.execution] \in Terminal

Learning == \A w \in Workers : Learnt(worker[w])

\* An execution that has left PENDING, or is settled, stays so.
Onward ==
  \A e \in Executions :
    /\ execution[e] \notin {"NONE", "PENDING"} => execution'[e] \notin {"NONE", "PENDING"}
    /\ execution[e] \in Terminal => execution'[e] = execution[e]

LEMMA StatusMovesOn == ASSUME IInv, [Next]_vars PROVE Onward
<1>1. execution \in [Executions -> Statuses]
  BY DEF IInv, TypeInv, TypeOK
<1>2. CASE Lifecycle!Next
  BY <1>1, <1>2
  DEF Lifecycle!Next, Lifecycle!Request, Lifecycle!Start, Lifecycle!Succeed, Lifecycle!Fail,
      Lifecycle!Move, Onward, Terminal
<1>3. CASE UNCHANGED Lifecycle!vars
  BY <1>3 DEF Lifecycle!vars, Onward
<1>. QED
  BY <1>2, <1>3, LifecycleStep

\* Claims are about things that stay.
LEMMA ClaimStays ==
  ASSUME RowsStay, Onward, NEW label, NEW e \in Executions, NEW n \in 0..NodeCount,
         Claim(label, e, n), label \in NodeLabels => n \in Nodes
  PROVE  Claim(label, e, n)'
<1>1. ASSUME NEW kind \in {"started", "completed"}, NEW m \in 0..NodeCount,
             Recorded(kind, e, m)
      PROVE  Recorded(kind, e, m)'
  BY <1>1, KeyType DEF RowsStay, Recorded
<1>2. 0 \in 0..NodeCount /\ Nodes \subseteq 0..NodeCount /\ 1..(n - 1) \subseteq 0..NodeCount
  BY WorkerAssumption DEF Nodes
<1>3. label \in NodeLabels \cup {"PrepareNodes"} => Recorded("started", e, 0)'
  BY <1>1, <1>2 DEF Claim
<1>4. label \in NodeLabels => \A m \in 1..(n - 1) : Recorded("completed", e, m)'
  BY <1>1, <1>2 DEF Claim
<1>5. label \in NodeLabels \ {"StartNode", "PersistNodeStarted"} => Recorded("started", e, n)'
  BY <1>1 DEF Claim
<1>6. label = "NextNode" => Recorded("completed", e, n)'
  BY <1>1 DEF Claim
<1>7. label = "CompleteExecution" => \A m \in Nodes : Recorded("completed", e, m)'
  BY <1>1, <1>2 DEF Claim
<1>8. /\ label = "RereadExecution" => execution'[e] \notin {"NONE", "PENDING"}
      /\ label = "DeadLetter" => execution'[e] \in Terminal
  BY DEF Claim, Onward
<1>. QED
  BY <1>3, <1>4, <1>5, <1>6, <1>7, <1>8 DEF Claim

\* What a delivery has learnt stays true while others move.
LEMMA LearntStays ==
  ASSUME IInv, RowsStay, Onward, NEW d \in Deliveries, Learnt(d), DeliverySafe(d)
  PROVE  Learnt(d)'
<1>1. d.command.execution \in Executions /\ d.node \in 0..NodeCount
  BY DEF Deliveries, Commands
<1>2. Position(d) \in NodeLabels => d.node \in Nodes
  BY DEF DeliverySafe
<1>3. Claim(Position(d), d.command.execution, d.node)'
  <2>1. PICK label : label = Position(d)
    OBVIOUS
  <2>2. PICK e \in Executions, n \in 0..NodeCount : e = d.command.execution /\ n = d.node
    BY <1>1
  <2>3. Claim(label, e, n)'
    BY <1>2, <2>1, <2>2, ClaimStays DEF Learnt
  <2>. QED
    BY <2>1, <2>2, <2>3 DEF Claim, Position
<1>4. execution[d.command.execution] \in Terminal => execution'[d.command.execution] \in Terminal
  BY <1>1 DEF Onward
<1>. QED
  BY <1>3, <1>4 DEF Learnt, Position

\* The step of one worker, stated by the delivery it leaves.
LEMMA LearningStep ==
  ASSUME IInv, Learning, RowsStay, Onward, NEW w \in Workers, NEW d,
         worker' = [worker EXCEPT ![w] = d], Learnt(d)'
  PROVE  Learning'
<1>1. ASSUME NEW v \in Workers PROVE Learnt(worker[v])'
  <2>1. CASE v = w
    <3>1. worker'[v] = d
      BY <2>1, WorkerFacts
    <3>. QED
      BY <3>1 DEF Learnt, Position, Claim
  <2>2. CASE v # w
    <3>1. PICK o \in Deliveries : o = worker[v] /\ worker'[v] = o
      BY <2>2, WorkerFacts
    <3>2. Learnt(o)'
      BY <3>1, LearntStays, WorkerFacts DEF Learning
    <3>. QED
      BY <3>1, <3>2 DEF Learnt, Position, Claim
  <2>. QED
    BY <2>1, <2>2
<1>. QED
  BY <1>1 DEF Learning

LEMMA MoveLearnt ==
  ASSUME NEW d, d.pc \notin DispatchLabels,
         Claim(d.pc, d.command.execution, d.node)',
         d.rescue = "FailNode" => d.pc \in TryLabels
  PROVE  Learnt(d)'
BY DEF Learnt, Position, DispatchLabels, Claim

LEMMA DispatchLearnt ==
  ASSUME NEW d, d.pc \in DispatchLabels, d.next # "Idle",
         Claim(d.next, d.command.execution, d.node)',
         d.rescue = "FailNode" => d.next \in TryLabels,
         d.next = "Ack" => execution'[d.command.execution] \in Terminal
  PROVE  Learnt(d)'
BY DEF Learnt, Position, DispatchLabels, Claim

\* The labels no claim is about.
FreeLabels == {"Down", "Idle", "FindExecution", "BeginExecution", "PersistStarted",
               "CompletionConflict", "HandleFailure", "FailExecution", "FailureConflict",
               "Ack", "Nack"}

LEMMA FreeOfClaims ==
  ASSUME NEW label \in FreeLabels, NEW e, NEW n
  PROVE  Claim(label, e, n)'
BY DEF FreeLabels, Claim, NodeLabels

-----------------------------------------------------------------------------
(* Where the copies of a command are.                                      *)

Copies(e) == \E c \in Commands : c.execution = e /\ ready[c] + delayed[c] > 0

\* The labels where a worker holds no command it still has to see to.
DoneLabels == {"Idle", "Down", "Ack"}

\* A step of a worker that does not take the last copy out of the queues, and lets a
\* command go only if the execution is settled or another copy is there.
LEMMA KeptStep ==
  ASSUME IInv, CommandKept, Onward, NEW w \in Workers, NEW d,
         worker' = [worker EXCEPT ![w] = d], UNCHANGED request,
         d.pc \notin DoneLabels => d.command = worker[w].command,
         d.pc \in DoneLabels => \/ worker[w].pc \in DoneLabels
                                \/ execution'[Of(w)] \in Terminal
                                \/ \E c \in Commands : /\ c.execution = Of(w)
                                                      /\ ready'[c] + delayed'[c] > 0,
         \A e \in Executions : Copies(e) => Copies(e)'
  PROVE  CommandKept'
<1>. SUFFICES ASSUME NEW e \in Executions, request'[e] = "published",
                     execution'[e] \notin Terminal
              PROVE  Copies(e)' \/ \E v \in Workers : Holds(v, e)'
  BY DEF CommandKept, Copies
<1>1. request[e] = "published" /\ execution[e] \notin Terminal
  BY DEF Onward
<1>2. Copies(e) \/ \E v \in Workers : Holds(v, e)
  BY <1>1 DEF CommandKept, Copies
<1>3. ASSUME NEW v \in Workers, Holds(v, e), v # w
      PROVE  Holds(v, e)'
  BY <1>3, WorkerFacts DEF Holds, Of
<1>4. ASSUME Holds(w, e)
      PROVE  Copies(e)' \/ Holds(w, e)'
  <2>1. worker'[w] = d /\ Of(w) = e /\ worker[w].pc \notin DoneLabels
    BY <1>4, WorkerFacts DEF Holds, DoneLabels
  <2>2. CASE d.pc \in DoneLabels
    BY <2>1, <2>2 DEF Copies
  <2>3. CASE d.pc \notin DoneLabels
    BY <2>1, <2>3 DEF Holds, DoneLabels, Of
  <2>. QED
    BY <2>2, <2>3
<1>. QED
  BY <1>2, <1>3, <1>4

\* A step of a worker that leaves the queues alone.
LEMMA QuietKept ==
  ASSUME IInv, CommandKept, Onward, NEW w \in Workers, NEW d,
         worker' = [worker EXCEPT ![w] = d], UNCHANGED <<request, ready, delayed>>,
         d.command = worker[w].command,
         d.pc \in DoneLabels => execution'[Of(w)] \in Terminal
  PROVE  CommandKept'
BY KeptStep DEF Copies

\* What a delivery learns and what it lets go, for a step that leaves the queues alone.
LEMMA Progress ==
  ASSUME IInv, Learning, CommandKept, RowsStay, Onward, NEW w \in Workers, NEW d,
         worker' = [worker EXCEPT ![w] = d], d.command = worker[w].command,
         UNCHANGED <<request, ready, delayed>>,
         Learnt(d)', d.pc \in DoneLabels => execution'[Of(w)] \in Terminal
  PROVE  Learning' /\ CommandKept'
BY LearningStep, QuietKept

-----------------------------------------------------------------------------
(* The ways a worker moves.                                                *)

\* What a step starts from, and what is known of every step.
Setting == IInv /\ Learning /\ CommandKept /\ RowsStay /\ Onward

\* What the delivery of worker w has learnt, now and after the step.
LEMMA OldClaim ==
  ASSUME Setting, NEW w \in Workers,
         NEW e, e = Of(w), NEW n, n = worker[w].node, NEW label, label = Position(worker[w])
  PROVE  /\ e \in Executions /\ n \in 0..NodeCount
         /\ Claim(label, e, n) /\ Claim(label, e, n)'
         /\ worker[w].rescue = "FailNode" => label \in TryLabels
         /\ label \in NodeLabels => n \in Nodes
<1>1. e \in Executions /\ n \in 0..NodeCount
  BY DeliveryType DEF Setting, IInv
<1>2. Claim(label, e, n) /\ (worker[w].rescue = "FailNode" => label \in TryLabels)
  BY DEF Setting, Learning, Learnt, Of
<1>3. label \in NodeLabels => n \in Nodes
  BY WorkerFacts DEF Setting, DeliverySafe
<1>. QED
  BY <1>1, <1>2, <1>3, ClaimStays DEF Setting

LEMMA GotoProgress ==
  ASSUME Setting, NEW w \in Workers, NEW label \in Labels,
         label \notin DispatchLabels \cup DoneLabels, Goto(w, label),
         NEW e, e = Of(w), NEW n, n = worker[w].node, Claim(label, e, n)',
         worker[w].rescue = "FailNode" => label \in TryLabels,
         UNCHANGED <<request, ready, delayed>>
  PROVE  Learning' /\ CommandKept'
<1>1. PICK d : d = [worker[w] EXCEPT !.pc = label]
  OBVIOUS
<1>2. worker' = [worker EXCEPT ![w] = d]
  BY <1>1 DEF Goto
<1>3. /\ d.pc = label /\ d.command = worker[w].command /\ d.node = n
      /\ d.rescue = worker[w].rescue
  BY <1>1, WorkerFacts DEF Deliveries, Setting
<1>4. d.command.execution = e
  BY <1>3 DEF Of
<1>5. Claim(d.pc, d.command.execution, d.node)'
  BY <1>3, <1>4 DEF Claim
<1>6. Learnt(d)'
  BY <1>3, <1>5, MoveLearnt
<1>. QED
  BY <1>2, <1>3, <1>6, Progress DEF Setting

LEMMA EmitProgress ==
  ASSUME Setting, NEW w \in Workers, NEW key, NEW label \in Returns \ {"Idle"},
         Emit(w, key, label),
         NEW e, e = Of(w), NEW n, n = worker[w].node, Claim(label, e, n)',
         worker[w].rescue = "FailNode" => label \in TryLabels,
         label = "Ack" => execution'[e] \in Terminal,
         UNCHANGED <<request, ready, delayed>>
  PROVE  Learning' /\ CommandKept'
<1>1. PICK b : b = <<[key |-> key, row |-> outbox'[key]]>>
  OBVIOUS
<1>2. PICK d : d = [worker[w] EXCEPT !.pc = "Publish", !.batch = b, !.next = label]
  OBVIOUS
<1>3. worker' = [worker EXCEPT ![w] = d]
  BY <1>1, <1>2 DEF Emit
<1>4. /\ d.pc = "Publish" /\ d.command = worker[w].command /\ d.node = n
      /\ d.rescue = worker[w].rescue /\ d.next = label
  BY <1>2, WorkerFacts DEF Deliveries, Setting
<1>5. d.command.execution = e
  BY <1>4 DEF Of
<1>6. Claim(d.next, d.command.execution, d.node)'
  BY <1>4, <1>5 DEF Claim
<1>7. d.pc \in DispatchLabels /\ d.pc \notin DoneLabels
  BY <1>4 DEF DispatchLabels, DoneLabels
<1>8. Learnt(d)'
  BY <1>4, <1>5, <1>6, <1>7, DispatchLearnt
<1>. QED
  BY <1>3, <1>4, <1>7, <1>8, Progress DEF Setting

LEMMA FlushProgress ==
  ASSUME Setting, NEW w \in Workers, NEW label \in {"Ack", "DeadLetter"},
         FlushPending(w, label), NEW e, e = Of(w), execution'[e] \in Terminal,
         worker[w].rescue # "FailNode", UNCHANGED <<request, ready, delayed>>
  PROVE  Learning' /\ CommandKept'
<1>1. PICK d : d = [worker[w] EXCEPT !.pc = "FindPending", !.next = label]
  OBVIOUS
<1>2. worker' = [worker EXCEPT ![w] = d]
  BY <1>1 DEF FlushPending
<1>3. /\ d.pc = "FindPending" /\ d.command = worker[w].command
      /\ d.rescue = worker[w].rescue /\ d.next = label
  BY <1>1, WorkerFacts DEF Deliveries, Setting
<1>4. d.command.execution = e
  BY <1>3 DEF Of
<1>5. Claim(d.next, d.command.execution, d.node)'
  BY <1>3, <1>4 DEF Claim, NodeLabels
<1>6. d.pc \in DispatchLabels /\ d.pc \notin DoneLabels
  BY <1>3 DEF DispatchLabels, DoneLabels
<1>7. Learnt(d)'
  BY <1>3, <1>4, <1>5, <1>6, DispatchLearnt
<1>. QED
  BY <1>2, <1>3, <1>6, <1>7, Progress DEF Setting

LEMMA ThrowProgress ==
  ASSUME Setting, NEW w \in Workers, NEW retryable, Throw(w, retryable),
         UNCHANGED <<request, ready, delayed>>
  PROVE  Learning' /\ CommandKept'
<1>1. PICK d : d = [worker[w] EXCEPT !.pc = worker[w].rescue,
                                     !.rescue = Enclosing(worker[w].rescue),
                                     !.batch = <<>>,
                                     !.retryable = retryable]
  OBVIOUS
<1>2. worker' = [worker EXCEPT ![w] = d]
  BY <1>1 DEF Throw
<1>3. /\ d.pc = worker[w].rescue /\ d.command = worker[w].command
      /\ d.node = worker[w].node /\ d.rescue = Enclosing(worker[w].rescue)
      /\ worker[w].rescue \in Catches
  BY <1>1, WorkerFacts DEF Deliveries, Setting
<1>4. d.rescue # "FailNode"
  BY <1>3 DEF Enclosing
<1>5. PICK e, n, label : e = Of(w) /\ n = worker[w].node /\ label = Position(worker[w])
  OBVIOUS
<1>6. d.command.execution = e /\ d.node = n
  BY <1>3, <1>5 DEF Of
<1>7. Claim(d.pc, e, n)'
  <2>1. CASE d.pc = "FailNode"
    <3>1. Claim(label, e, n)' /\ label \in TryLabels
      BY <1>3, <1>5, <2>1, OldClaim
    <3>. QED
      BY <2>1, <3>1 DEF Claim, TryLabels, NodeLabels
  <2>2. CASE d.pc # "FailNode"
    BY <1>3, <2>2, FreeOfClaims DEF Catches, FreeLabels
  <2>. QED
    BY <2>1, <2>2
<1>8. Claim(d.pc, d.command.execution, d.node)'
  BY <1>6, <1>7 DEF Claim
<1>9. d.pc \notin DispatchLabels /\ d.pc \notin DoneLabels
  BY <1>3 DEF Catches, DispatchLabels, DoneLabels
<1>10. Learnt(d)'
  BY <1>4, <1>8, <1>9, MoveLearnt
<1>. QED
  BY <1>2, <1>3, <1>9, <1>10, Progress DEF Setting

\* A step within dispatching, or from dispatching to what comes after it.
LEMMA DispatchProgress ==
  ASSUME Setting, NEW w \in Workers, NEW d, worker' = [worker EXCEPT ![w] = d],
         worker[w].pc \in DispatchLabels, d.pc \in DispatchLabels \cup {worker[w].next},
         d.command = worker[w].command, d.node = worker[w].node,
         d.next = worker[w].next, d.rescue = worker[w].rescue,
         UNCHANGED <<request, ready, delayed>>
  PROVE  Learning' /\ CommandKept'
<1>1. PICK e, n, label : e = Of(w) /\ n = worker[w].node /\ label = worker[w].next
  OBVIOUS
<1>2. label = Position(worker[w]) /\ label \in Returns
  BY <1>1, WorkerFacts DEF Position, DispatchLabels, Deliveries, Setting
<1>3. e \in Executions /\ Claim(label, e, n)' /\ (d.rescue = "FailNode" => label \in TryLabels)
  BY <1>1, <1>2, OldClaim
<1>4. d.command.execution = e /\ d.node = n /\ d.next = label
  BY <1>1 DEF Of
<1>5. label # "Idle" /\ (label = "Ack" => execution'[e] \in Terminal)
  <2>1. label # "Idle" /\ (label = "Ack" => execution[e] \in Terminal)
    BY <1>1 DEF Setting, Learning, Learnt, Of
  <2>. QED
    BY <1>3, <2>1 DEF Setting, Onward
<1>6. Claim(d.next, d.command.execution, d.node)'
  BY <1>3, <1>4 DEF Claim
<1>7. CASE d.pc \in DispatchLabels
  <2>1. Learnt(d)'
    BY <1>3, <1>4, <1>5, <1>6, <1>7, DispatchLearnt
  <2>2. d.pc \notin DoneLabels
    BY <1>7 DEF DispatchLabels, DoneLabels
  <2>. QED
    BY <2>1, <2>2, Progress DEF Setting
<1>8. CASE d.pc = label /\ label \notin DispatchLabels
  <2>1. Claim(d.pc, d.command.execution, d.node)'
    BY <1>4, <1>6, <1>8
  <2>2. Learnt(d)'
    BY <1>3, <1>8, <2>1, MoveLearnt
  <2>3. d.pc \in DoneLabels => d.pc = "Ack"
    BY <1>2, <1>5, <1>8 DEF DoneLabels, Returns
  <2>4. d.pc \in DoneLabels => execution'[Of(w)] \in Terminal
    BY <1>1, <1>5, <1>8, <2>3
  <2>. QED
    BY <2>2, <2>4, Progress DEF Setting
<1>. QED
  BY <1>1, <1>7, <1>8

-----------------------------------------------------------------------------
(* The steps of a worker.                                                  *)

\* Where the worker that moves is, and what it has learnt there.
LEMMA Here ==
  ASSUME Setting, NEW w \in Workers, worker[w].pc \notin DispatchLabels,
         NEW e, e = Of(w), NEW n, n = worker[w].node, NEW label, label = worker[w].pc
  PROVE  /\ e \in Executions /\ n \in 0..NodeCount
         /\ Claim(label, e, n) /\ Claim(label, e, n)'
         /\ label \notin TryLabels => worker[w].rescue # "FailNode"
         /\ label \in NodeLabels => n \in Nodes
<1>1. label = Position(worker[w])
  BY DEF Position, DispatchLabels
<1>. QED
  BY <1>1, OldClaim

\* processWorkflowExecution.
LEMMA LearnProcess ==
  ASSUME Setting, NEW w \in Workers,
         \/ FindExecution(w) \/ BeginExecution(w) \/ BeginConflict(w)
         \/ RereadExecution(w) \/ PersistStarted(w)
         \/ CompleteExecution(w) \/ CompletionMissed(w) \/ CompletionConflict(w)
  PROVE  Learning' /\ CommandKept'
<1>. DEFINE Places == {"FindExecution", "BeginExecution", "RereadExecution", "PersistStarted",
                       "CompleteExecution", "CompletionConflict"}
<1>1. worker[w].pc \in Places
  BY DEF At, FindExecution, BeginExecution, BeginConflict, RereadExecution, PersistStarted,
         CompleteExecution, CompletionMissed, CompletionConflict
<1>2. UNCHANGED <<request, ready, delayed>>
  BY DEF FindExecution, BeginExecution, BeginConflict, RereadExecution, PersistStarted,
         CompleteExecution, CompletionMissed, CompletionConflict, queues
<1>3. PICK e, n, label : e = Of(w) /\ n = worker[w].node /\ label = worker[w].pc
  OBVIOUS
<1>4. worker[w].pc \notin DispatchLabels \cup TryLabels
  BY <1>1 DEF DispatchLabels, TryLabels
<1>5. /\ e \in Executions /\ Claim(label, e, n) /\ Claim(label, e, n)'
      /\ worker[w].rescue # "FailNode"
  BY <1>3, <1>4, Here
<1>6. /\ execution[e] # "NONE" /\ execution \in [Executions -> Statuses]
      /\ label = "PersistStarted" => Recorded("started", e, 0)
  BY <1>1, <1>3, Handled DEF Setting, At
<1>7. /\ execution[e] = "RUNNING" => Recorded("started", e, 0)
      /\ Recorded("started", e, 0) => Recorded("started", e, 0)'
  BY <1>5, KeyType, WorkerAssumption
  DEF Setting, IInv, OutcomeRecorded, RowsStay, Recorded
<1>8. ASSUME NEW to \in {"BeginExecution", "PersistStarted", "CompletionConflict"}, Goto(w, to)
      PROVE  Learning' /\ CommandKept'
  <2>1. Claim(to, e, n)'
    BY FreeOfClaims DEF FreeLabels
  <2>2. to \in Labels /\ to \notin DispatchLabels \cup DoneLabels
    BY DEF Labels, DispatchLabels, DoneLabels
  <2>. QED
    BY <1>2, <1>3, <1>5, <1>8, <2>1, <2>2, GotoProgress
<1>9. ASSUME NEW to \in {"Ack"}, FlushPending(w, to), execution[e] \in Terminal
      PROVE  Learning' /\ CommandKept'
  <2>1. execution'[e] \in Terminal
    BY <1>5, <1>9 DEF Setting, Onward
  <2>. QED
    BY <1>2, <1>3, <1>5, <1>9, <2>1, FlushProgress
<1>10. CASE FindExecution(w) \/ CompletionMissed(w)
  BY <1>3, <1>8, <1>9, <1>10 DEF FindExecution, CompletionMissed
<1>11. CASE BeginConflict(w)
  <2>1. execution[e] \notin {"NONE", "PENDING"} /\ UNCHANGED execution
    BY <1>3, <1>6, <1>11 DEF BeginConflict
  <2>2. Claim("RereadExecution", e, n)'
    BY <2>1 DEF Claim, NodeLabels
  <2>3. "RereadExecution" \in Labels /\ "RereadExecution" \notin DispatchLabels \cup DoneLabels
    BY DEF Labels, DispatchLabels, DoneLabels
  <2>4. Goto(w, "RereadExecution")
    BY <1>11 DEF BeginConflict
  <2>. QED
    BY <1>2, <1>3, <1>5, <2>2, <2>3, <2>4, GotoProgress
<1>12. CASE RereadExecution(w)
  <2>1. label = "RereadExecution"
    BY <1>3, <1>12 DEF RereadExecution, At
  <2>2. execution[e] \notin Terminal => Recorded("started", e, 0)'
    BY <1>5, <1>6, <1>7, <2>1 DEF Claim, Statuses, Terminal
  <2>3. execution[e] \notin Terminal => Claim("PrepareNodes", e, n)'
    BY <2>2 DEF Claim, NodeLabels
  <2>4. "PrepareNodes" \in Labels /\ "PrepareNodes" \notin DispatchLabels \cup DoneLabels
    BY DEF Labels, DispatchLabels, DoneLabels
  <2>5. CASE execution[e] \notin Terminal /\ Goto(w, "PrepareNodes")
    BY <1>2, <1>3, <1>5, <2>3, <2>4, <2>5, GotoProgress
  <2>. QED
    BY <1>3, <1>9, <1>12, <2>5 DEF RereadExecution
<1>13. CASE BeginExecution(w) \/ PersistStarted(w)
  <2>1. Emit(w, Key("started", e, 0), "PrepareNodes")
    BY <1>3, <1>13 DEF BeginExecution, PersistStarted
  <2>2. Recorded("started", e, 0)'
    <3>1. Key("started", e, 0) \in Keys /\ "PrepareNodes" \in Returns
      BY <1>5, KeyType, WorkerAssumption DEF Returns
    <3>. QED
      BY <2>1, <3>1, EmitAddsRow DEF Recorded, Setting, IInv
  <2>3. Claim("PrepareNodes", e, n)'
    BY <2>2 DEF Claim, NodeLabels
  <2>4. "PrepareNodes" \in Returns \ {"Idle"}
    BY DEF Returns
  <2>. QED
    BY <1>2, <1>3, <1>5, <2>1, <2>3, <2>4, EmitProgress
<1>14. CASE CompleteExecution(w)
  <2>1. /\ Emit(w, Key("completed", e, 0), "Ack")
        /\ execution' = [execution EXCEPT ![e] = "SUCCEEDED"]
    BY <1>3, <1>14 DEF CompleteExecution
  <2>2. execution'[e] \in Terminal
    BY <1>5, <1>6, <2>1 DEF Terminal
  <2>3. Claim("Ack", e, n)'
    BY FreeOfClaims DEF FreeLabels
  <2>4. "Ack" \in Returns \ {"Idle"}
    BY DEF Returns
  <2>. QED
    BY <1>2, <1>3, <1>5, <2>1, <2>2, <2>3, <2>4, EmitProgress
<1>15. CASE CompletionConflict(w)
  <2>1. CASE Throw(w, TRUE)
    BY <1>2, <2>1, ThrowProgress
  <2>. QED
    BY <1>3, <1>9, <1>15, <2>1 DEF CompletionConflict
<1>. QED
  BY <1>10, <1>11, <1>12, <1>13, <1>14, <1>15

\* executeWorkflowNodes.
LEMMA LearnNodes ==
  ASSUME Setting, NEW w \in Workers,
         \/ PrepareNodes(w) \/ StartNode(w) \/ PersistNodeStarted(w) \/ ExecuteNode(w)
         \/ CompleteNode(w) \/ PersistNodeCompleted(w) \/ NextNode(w)
         \/ FailNode(w) \/ PersistNodeFailed(w)
  PROVE  Learning' /\ CommandKept'
<1>1. worker[w].pc \in NodeLabels \cup {"PrepareNodes"}
  BY DEF At, PrepareNodes, StartNode, PersistNodeStarted, ExecuteNode, CompleteNode,
         PersistNodeCompleted, NextNode, FailNode, PersistNodeFailed, NodeLabels
<1>2. UNCHANGED <<request, ready, delayed>>
  BY DEF PrepareNodes, StartNode, PersistNodeStarted, ExecuteNode, CompleteNode,
         PersistNodeCompleted, NextNode, FailNode, PersistNodeFailed, queues
<1>3. PICK e, n, label : e = Of(w) /\ n = worker[w].node /\ label = worker[w].pc
  OBVIOUS
<1>4. worker[w].pc \notin DispatchLabels
  BY <1>1 DEF DispatchLabels, NodeLabels
<1>5. /\ e \in Executions /\ n \in 0..NodeCount /\ Claim(label, e, n) /\ Claim(label, e, n)'
      /\ label \notin TryLabels => worker[w].rescue # "FailNode"
      /\ label \in NodeLabels => n \in Nodes
  BY <1>3, <1>4, Here
<1>6. ASSUME NEW kind \in {"started", "completed", "failed"}, NEW to \in Returns,
             Emit(w, Key(kind, e, n), to)
      PROVE  Recorded(kind, e, n)'
  <2>1. Key(kind, e, n) \in Keys
    BY <1>5, KeyType
  <2>. QED
    BY <1>6, <2>1, EmitAddsRow DEF Recorded, Setting, IInv
<1>7. CASE PrepareNodes(w)
  <2>1. label = "PrepareNodes"
    BY <1>3, <1>7 DEF PrepareNodes, At
  <2>2. CASE \E retryable \in BOOLEAN : Throw(w, retryable)
    BY <1>2, <2>2, ThrowProgress
  <2>3. CASE worker' = [worker EXCEPT ![w].pc = "StartNode", ![w].node = 1]
    <3>1. PICK d : d = [worker[w] EXCEPT !.pc = "StartNode", !.node = 1]
      OBVIOUS
    <3>2. /\ d.command = worker[w].command /\ d.pc = "StartNode" /\ d.node = 1
          /\ d.rescue = worker[w].rescue
      BY <3>1, WorkerFacts DEF Deliveries, Setting
    <3>3. worker' = [worker EXCEPT ![w] = d]
      BY <2>3, <3>1
    <3>4. d.command.execution = e
      BY <1>3, <3>2 DEF Of
    <3>5. Recorded("started", e, 0)'
      BY <1>5, <2>1 DEF Claim
    <3>6. 1..(1 - 1) = {}
      OBVIOUS
    <3>7. Claim("StartNode", e, 1)'
      BY <3>5, <3>6 DEF Claim
    <3>8. Claim(d.pc, d.command.execution, d.node)'
      BY <3>2, <3>4, <3>7 DEF Claim
    <3>9. d.pc \notin DispatchLabels \cup DoneLabels /\ d.rescue # "FailNode"
      BY <1>5, <2>1, <3>2 DEF DispatchLabels, DoneLabels, TryLabels
    <3>10. Learnt(d)'
      BY <3>8, <3>9, MoveLearnt
    <3>. QED
      BY <1>2, <3>2, <3>3, <3>9, <3>10, Progress DEF Setting
  <2>. QED
    BY <1>7, <2>2, <2>3 DEF PrepareNodes
<1>8. CASE StartNode(w) \/ CompleteNode(w) \/ FailNode(w)
  <2>1. PICK to \in {"PersistNodeStarted", "PersistNodeCompleted", "PersistNodeFailed"} :
          /\ Goto(w, to)
          /\ \/ label = "StartNode" /\ to = "PersistNodeStarted"
             \/ label = "CompleteNode" /\ to = "PersistNodeCompleted"
             \/ label = "FailNode" /\ to = "PersistNodeFailed"
    BY <1>3, <1>8 DEF StartNode, CompleteNode, FailNode, At
  <2>2. Claim(to, e, n)'
    BY <1>5, <2>1 DEF Claim, NodeLabels
  <2>3. worker[w].rescue = "FailNode" => to \in TryLabels
    BY <1>5, <2>1 DEF TryLabels
  <2>4. to \in Labels /\ to \notin DispatchLabels \cup DoneLabels
    BY DEF Labels, DispatchLabels, DoneLabels
  <2>. QED
    BY <1>2, <1>3, <2>1, <2>2, <2>3, <2>4, GotoProgress
<1>9. CASE PersistNodeStarted(w)
  <2>1. label = "PersistNodeStarted" /\ Emit(w, Key("started", e, n), "ExecuteNode")
    BY <1>3, <1>9 DEF PersistNodeStarted, At
  <2>2. "ExecuteNode" \in Returns \ {"Idle"}
    BY DEF Returns
  <2>3. Recorded("started", e, n)'
    BY <1>6, <2>1, <2>2
  <2>4. Claim("ExecuteNode", e, n)'
    BY <1>5, <2>1, <2>3 DEF Claim, NodeLabels
  <2>5. worker[w].rescue # "FailNode"
    BY <1>5, <2>1 DEF TryLabels
  <2>. QED
    BY <1>2, <1>3, <2>1, <2>2, <2>4, <2>5, EmitProgress
<1>10. CASE PersistNodeCompleted(w)
  <2>1. label = "PersistNodeCompleted" /\ Emit(w, Key("completed", e, n), "NextNode")
    BY <1>3, <1>10 DEF PersistNodeCompleted, At
  <2>2. "NextNode" \in Returns \ {"Idle"} /\ "NextNode" \in TryLabels
    BY DEF Returns, TryLabels
  <2>3. Recorded("completed", e, n)'
    BY <1>6, <2>1, <2>2
  <2>4. Claim("NextNode", e, n)'
    BY <1>5, <2>1, <2>3 DEF Claim, NodeLabels
  <2>. QED
    BY <1>2, <1>3, <2>1, <2>2, <2>4, EmitProgress
<1>11. CASE PersistNodeFailed(w)
  <2>1. label = "PersistNodeFailed" /\ Emit(w, Key("failed", e, n), "HandleFailure")
    BY <1>3, <1>11 DEF PersistNodeFailed, At
  <2>2. "HandleFailure" \in Returns \ {"Idle"}
    BY DEF Returns
  <2>3. Claim("HandleFailure", e, n)'
    BY FreeOfClaims DEF FreeLabels
  <2>4. worker[w].rescue # "FailNode"
    BY <1>5, <2>1 DEF TryLabels
  <2>. QED
    BY <1>2, <1>3, <2>1, <2>2, <2>3, <2>4, EmitProgress
<1>12. CASE ExecuteNode(w)
  <2>1. label = "ExecuteNode"
    BY <1>3, <1>12 DEF ExecuteNode, At
  <2>2. PICK d : /\ worker' = [worker EXCEPT ![w] = d]
                 /\ \/ d = [worker[w] EXCEPT !.pc = "CompleteNode", !.rescue = "FailNode"]
                    \/ \E retryable \in BOOLEAN :
                         d = [worker[w] EXCEPT !.pc = "FailNode", !.retryable = retryable]
    BY <1>12 DEF ExecuteNode
  <2>3. /\ d.command = worker[w].command /\ d.node = n
        /\ \/ d.pc = "CompleteNode"
           \/ d.pc = "FailNode" /\ d.rescue = worker[w].rescue
    BY <1>3, <2>2, WorkerFacts DEF Deliveries, Setting
  <2>4. d.command.execution = e
    BY <1>3, <2>3 DEF Of
  <2>5. Claim("CompleteNode", e, n)' /\ Claim("FailNode", e, n)'
    BY <1>5, <2>1 DEF Claim, NodeLabels
  <2>6. Claim(d.pc, d.command.execution, d.node)'
    BY <2>3, <2>4, <2>5 DEF Claim
  <2>7. /\ d.pc \notin DispatchLabels \cup DoneLabels
        /\ d.rescue = "FailNode" => d.pc \in TryLabels
    BY <1>5, <2>1, <2>3 DEF DispatchLabels, DoneLabels, TryLabels
  <2>8. Learnt(d)'
    BY <2>6, <2>7, MoveLearnt
  <2>. QED
    BY <1>2, <2>2, <2>3, <2>7, <2>8, Progress DEF Setting
<1>13. CASE NextNode(w)
  <2>1. label = "NextNode"
    BY <1>3, <1>13 DEF NextNode, At
  <2>2. PICK d : /\ worker' = [worker EXCEPT ![w] = d]
                 /\ d = IF worker[w].node = NodeCount
                        THEN [worker[w] EXCEPT !.pc = "CompleteExecution",
                                               !.rescue = "HandleFailure"]
                        ELSE [worker[w] EXCEPT !.pc = "StartNode",
                                               !.rescue = "HandleFailure", !.node = @ + 1]
    BY <1>13 DEF NextNode
  <2>3. /\ d.command = worker[w].command /\ d.rescue = "HandleFailure"
        /\ \/ d.pc = "CompleteExecution" /\ n = NodeCount
           \/ d.pc = "StartNode" /\ d.node = n + 1
    BY <1>3, <2>2, WorkerFacts DEF Deliveries, Setting
  <2>4. d.command.execution = e
    BY <1>3, <2>3 DEF Of
  <2>5. Recorded("started", e, 0)' /\ \A m \in 1..n : Recorded("completed", e, m)'
    <3>1. n \in Nodes
      BY <1>5, <2>1 DEF NodeLabels
    <3>2. \A m \in 1..n : m \in 1..(n - 1) \/ m = n
      BY <3>1 DEF Nodes
    <3>. QED
      BY <1>5, <2>1, <3>2 DEF Claim, NodeLabels
  <2>6. d.pc = "CompleteExecution" => Claim("CompleteExecution", e, d.node)'
    BY <2>3, <2>5 DEF Claim, NodeLabels, Nodes
  <2>7. d.pc = "StartNode" => Claim("StartNode", e, d.node)'
    <3>1. (n + 1) - 1 = n
      BY <1>5
    <3>. QED
      BY <2>3, <2>5, <3>1 DEF Claim
  <2>8. Claim(d.pc, d.command.execution, d.node)'
    BY <2>3, <2>4, <2>6, <2>7 DEF Claim
  <2>9. d.pc \notin DispatchLabels \cup DoneLabels
    BY <2>3 DEF DispatchLabels, DoneLabels
  <2>10. Learnt(d)'
    BY <2>3, <2>8, <2>9, MoveLearnt
  <2>. QED
    BY <1>2, <2>2, <2>3, <2>9, <2>10, Progress DEF Setting
<1>. QED
  BY <1>7, <1>8, <1>9, <1>10, <1>11, <1>12, <1>13

LEMMA QueueTypes ==
  ASSUME Setting
  PROVE  /\ ready \in [Commands -> Nat] /\ delayed \in [Commands -> Nat]
         /\ \A c \in Commands : c.execution \in Executions
BY DEF Setting, IInv, TypeInv, TypeOK, Commands

\* A worker that is given or gives back a command has learnt nothing.
LEMMA NothingLearnt ==
  ASSUME NEW d, d.pc \in {"Idle", "Down", "FindExecution"}, d.rescue # "FailNode"
  PROVE  Learnt(d)'
<1>1. d.pc \in FreeLabels /\ d.pc \notin DispatchLabels
  BY DEF FreeLabels, DispatchLabels
<1>2. Claim(d.pc, d.command.execution, d.node)'
  BY <1>1, FreeOfClaims
<1>. QED
  BY <1>1, <1>2, MoveLearnt

\* The command of a worker goes back to the worker queue.
LEMMA Requeue ==
  ASSUME Setting, NEW w \in Workers, NEW d, worker' = [worker EXCEPT ![w] = d],
         d.pc \in {"Idle", "Down"}, d.rescue # "FailNode",
         ready' = [ready EXCEPT ![worker[w].command] = @ + 1], UNCHANGED <<request, delayed>>
  PROVE  Learning' /\ CommandKept'
<1>1. worker[w].command \in Commands /\ ready \in [Commands -> Nat] /\ delayed \in [Commands -> Nat]
  BY DeliveryType, QueueTypes DEF Setting, IInv
<1>2. ready'[worker[w].command] + delayed'[worker[w].command] > 0
  BY <1>1
<1>3. \A c \in Commands : ready[c] + delayed[c] > 0 => ready'[c] + delayed'[c] > 0
  BY <1>1
<1>4. \A e \in Executions : Copies(e) => Copies(e)'
  BY <1>3 DEF Copies
<1>5. \E c \in Commands : c.execution = Of(w) /\ ready'[c] + delayed'[c] > 0
  BY <1>1, <1>2 DEF Of
<1>6. d.pc \in DoneLabels
  BY DEF DoneLabels
<1>7. CommandKept'
  BY <1>4, <1>5, <1>6, KeptStep DEF Setting
<1>8. Learnt(d)'
  BY NothingLearnt
<1>9. Learning'
  BY <1>8, LearningStep DEF Setting
<1>. QED
  BY <1>7, <1>9

\* The catch block of handleDelivery and failWorkflowExecution.
LEMMA LearnFailure ==
  ASSUME Setting, NEW w \in Workers,
         \/ RetryCommand(w) \/ GiveUp(w) \/ FailExecution(w) \/ FailureMissed(w)
         \/ FailureConflict(w) \/ DeadLetter(w) \/ Ack(w) \/ Nack(w)
  PROVE  Learning' /\ CommandKept'
<1>1. worker[w].pc \in {"HandleFailure", "FailExecution", "FailureConflict", "DeadLetter",
                        "Ack", "Nack"}
  BY DEF At, RetryCommand, GiveUp, FailExecution, FailureMissed, FailureConflict, DeadLetter,
         Ack, Nack
<1>2. PICK e, n, label : e = Of(w) /\ n = worker[w].node /\ label = worker[w].pc
  OBVIOUS
<1>3. worker[w].pc \notin DispatchLabels \cup TryLabels
  BY <1>1 DEF DispatchLabels, TryLabels
<1>4. /\ e \in Executions /\ Claim(label, e, n) /\ Claim(label, e, n)'
      /\ worker[w].rescue # "FailNode"
  BY <1>2, <1>3, Here
<1>5. execution \in [Executions -> Statuses]
  BY DEF Setting, IInv, TypeInv, TypeOK
<1>6. CASE RetryCommand(w)
  <2>1. PICK c : c = [worker[w].command EXCEPT !.attempt = @ + 1]
    OBVIOUS
  <2>2. c \in Commands /\ c.execution = e
    <3>1. worker[w].command \in Commands /\ worker[w].command.attempt < MaxRetryAttempts
      BY <1>6, DeliveryType DEF RetryCommand, MayRetry, Setting, IInv
    <3>. QED
      BY <1>2, <2>1, <3>1, WorkerAssumption DEF Commands, Of
  <2>3. delayed' = [delayed EXCEPT ![c] = @ + 1] /\ UNCHANGED <<request, ready>>
    BY <1>6, <2>1 DEF RetryCommand
  <2>4. ready'[c] + delayed'[c] > 0
    BY <2>2, <2>3, QueueTypes
  <2>5. \A x \in Executions : Copies(x) => Copies(x)'
    <3>1. \A k \in Commands : ready[k] + delayed[k] > 0 => ready'[k] + delayed'[k] > 0
      BY <2>2, <2>3, QueueTypes
    <3>. QED
      BY <3>1 DEF Copies
  <2>6. PICK d : d = [worker[w] EXCEPT !.pc = "Ack"]
    OBVIOUS
  <2>7. worker' = [worker EXCEPT ![w] = d]
    BY <1>6, <2>6 DEF RetryCommand, Goto
  <2>8. d.pc = "Ack" /\ d.command = worker[w].command /\ d.rescue = worker[w].rescue
    BY <2>6, WorkerFacts DEF Deliveries, Setting
  <2>9. CommandKept'
    BY <1>2, <2>2, <2>3, <2>4, <2>5, <2>7, <2>8, KeptStep DEF Setting
  <2>10. Claim(d.pc, d.command.execution, d.node)'
    BY <2>8, FreeOfClaims DEF FreeLabels
  <2>11. Learnt(d)'
    BY <1>4, <2>8, <2>10, MoveLearnt DEF DispatchLabels
  <2>. QED
    BY <2>7, <2>9, <2>11, LearningStep DEF Setting
<1>7. CASE GiveUp(w)
  <2>1. PICK d : d = [worker[w] EXCEPT !.pc = "FailExecution", !.rescue = "Nack"]
    OBVIOUS
  <2>2. worker' = [worker EXCEPT ![w] = d] /\ UNCHANGED <<request, ready, delayed>>
    BY <1>7, <2>1 DEF GiveUp, queues
  <2>3. d.pc = "FailExecution" /\ d.command = worker[w].command /\ d.rescue = "Nack"
    BY <2>1, WorkerFacts DEF Deliveries, Setting
  <2>4. Claim(d.pc, d.command.execution, d.node)'
    BY <2>3, FreeOfClaims DEF FreeLabels
  <2>5. Learnt(d)' /\ d.pc \notin DoneLabels
    BY <2>3, <2>4, MoveLearnt DEF DispatchLabels, DoneLabels
  <2>. QED
    BY <2>2, <2>3, <2>5, Progress DEF Setting
<1>8. CASE FailExecution(w)
  <2>1. /\ Emit(w, Key("failed", e, 0), "DeadLetter") /\ UNCHANGED <<request, ready, delayed>>
        /\ execution' = [execution EXCEPT ![e] = "FAILED"]
    BY <1>2, <1>8 DEF FailExecution, queues
  <2>2. Claim("DeadLetter", e, n)'
    BY <1>4, <1>5, <2>1 DEF Claim, NodeLabels, Terminal
  <2>3. "DeadLetter" \in Returns \ {"Idle"}
    BY DEF Returns
  <2>. QED
    BY <1>2, <1>4, <2>1, <2>2, <2>3, EmitProgress
<1>9. CASE FailureMissed(w)
  <2>1. Goto(w, "FailureConflict") /\ UNCHANGED <<request, ready, delayed>>
    BY <1>9 DEF FailureMissed, queues
  <2>2. Claim("FailureConflict", e, n)'
    BY FreeOfClaims DEF FreeLabels
  <2>3. "FailureConflict" \in Labels /\ "FailureConflict" \notin DispatchLabels \cup DoneLabels
    BY DEF Labels, DispatchLabels, DoneLabels
  <2>. QED
    BY <1>2, <1>4, <2>1, <2>2, <2>3, GotoProgress
<1>10. CASE FailureConflict(w)
  <2>1. UNCHANGED <<request, ready, delayed>>
    BY <1>10 DEF FailureConflict, queues
  <2>2. CASE Throw(w, TRUE)
    BY <2>1, <2>2, ThrowProgress
  <2>3. CASE execution[e] \in Terminal /\ FlushPending(w, "DeadLetter")
    <3>1. execution'[e] \in Terminal
      BY <1>4, <2>3 DEF Setting, Onward
    <3>. QED
      BY <1>2, <1>4, <2>1, <2>3, <3>1, FlushProgress
  <2>. QED
    BY <1>2, <1>10, <2>2, <2>3 DEF FailureConflict
<1>11. CASE DeadLetter(w)
  <2>1. PICK d : d = [worker[w] EXCEPT !.pc = "Ack"]
    OBVIOUS
  <2>2. worker' = [worker EXCEPT ![w] = d] /\ UNCHANGED <<request, ready, delayed>>
    BY <1>11, <2>1 DEF DeadLetter, Goto
  <2>3. d.pc = "Ack" /\ d.command = worker[w].command /\ d.rescue = worker[w].rescue
    BY <2>1, WorkerFacts DEF Deliveries, Setting
  <2>4. execution'[Of(w)] \in Terminal
    BY <1>2, <1>4, <1>11 DEF DeadLetter, At, Claim
  <2>5. Claim(d.pc, d.command.execution, d.node)'
    BY <2>3, FreeOfClaims DEF FreeLabels
  <2>6. Learnt(d)'
    BY <1>4, <2>3, <2>5, MoveLearnt DEF DispatchLabels
  <2>. QED
    BY <2>2, <2>3, <2>4, <2>6, Progress DEF Setting
<1>12. CASE Ack(w)
  <2>1. PICK d : d = IdleWorker
    OBVIOUS
  <2>2. /\ worker' = [worker EXCEPT ![w] = d] /\ UNCHANGED <<request, ready, delayed>>
        /\ worker[w].pc \in DoneLabels
    BY <1>12, <2>1 DEF Ack, queues, At, DoneLabels
  <2>3. d.pc = "Idle" /\ d.rescue # "FailNode" /\ d.pc \in DoneLabels
    BY <2>1 DEF IdleWorker, DoneLabels
  <2>4. CommandKept'
    BY <2>2, <2>3, KeptStep DEF Setting, Copies
  <2>5. Learnt(d)'
    BY <2>3, NothingLearnt
  <2>6. Learning'
    BY <2>2, <2>5, LearningStep DEF Setting
  <2>. QED
    BY <2>4, <2>6
<1>13. CASE Nack(w)
  <2>1. PICK d : d = IdleWorker
    OBVIOUS
  <2>2. /\ worker' = [worker EXCEPT ![w] = d]
        /\ ready' = [ready EXCEPT ![worker[w].command] = @ + 1]
        /\ UNCHANGED <<request, delayed>>
    BY <1>13, <2>1 DEF Nack
  <2>3. d.pc = "Idle" /\ d.rescue # "FailNode"
    BY <2>1 DEF IdleWorker
  <2>. QED
    BY <2>2, <2>3, Requeue
<1>. QED
  BY <1>6, <1>7, <1>8, <1>9, <1>10, <1>11, <1>12, <1>13

\* dispatchOutboxEvent.
LEMMA LearnDispatch ==
  ASSUME Setting, NEW w \in Workers,
         FindPending(w) \/ Publish(w) \/ PublishFails(w) \/ RecordPublished(w)
           \/ RecordPublishFailure(w)
  PROVE  Learning' /\ CommandKept'
<1>1. worker[w].pc \in DispatchLabels /\ UNCHANGED <<request, ready, delayed>>
  BY DEF FindPending, Publish, PublishFails, RecordPublished, RecordPublishFailure, At,
         DispatchLabels, queues
<1>2. ASSUME NEW to \in {"RecordPublished", "RecordPublishFailure"}, Goto(w, to)
      PROVE  Learning' /\ CommandKept'
  <2>1. PICK d : d = [worker[w] EXCEPT !.pc = to]
    OBVIOUS
  <2>2. worker' = [worker EXCEPT ![w] = d]
    BY <1>2, <2>1 DEF Goto
  <2>3. /\ d.pc = to /\ d.command = worker[w].command /\ d.node = worker[w].node
        /\ d.next = worker[w].next /\ d.rescue = worker[w].rescue
    BY <2>1, WorkerFacts DEF Deliveries, Setting
  <2>4. d.pc \in DispatchLabels
    BY <2>3 DEF DispatchLabels
  <2>. QED
    BY <1>1, <2>2, <2>3, <2>4, DispatchProgress
<1>3. ASSUME NEW b, NEW to \in {"Publish", worker[w].next},
             worker' = [worker EXCEPT ![w].batch = b, ![w].pc = to]
      PROVE  Learning' /\ CommandKept'
  <2>1. PICK d : d = [worker[w] EXCEPT !.batch = b, !.pc = to]
    OBVIOUS
  <2>2. worker' = [worker EXCEPT ![w] = d]
    BY <1>3, <2>1
  <2>3. /\ d.pc = to /\ d.command = worker[w].command /\ d.node = worker[w].node
        /\ d.next = worker[w].next /\ d.rescue = worker[w].rescue
    BY <2>1, WorkerFacts DEF Deliveries, Setting
  <2>4. d.pc \in DispatchLabels \cup {worker[w].next}
    BY <2>3 DEF DispatchLabels
  <2>. QED
    BY <1>1, <2>2, <2>3, <2>4, DispatchProgress
<1>4. ASSUME NextInBatch(w)
      PROVE  Learning' /\ CommandKept'
  <2>1. PICK b, to : /\ b = Tail(worker[w].batch)
                     /\ to = IF Len(worker[w].batch) = 1 THEN worker[w].next ELSE "Publish"
    OBVIOUS
  <2>2. worker' = [worker EXCEPT ![w].batch = b, ![w].pc = to]
    BY <1>4, <2>1 DEF NextInBatch
  <2>. QED
    BY <1>3, <2>1, <2>2
<1>5. CASE FindPending(w)
  <2>1. PICK b, to : /\ to \in {"Publish", worker[w].next}
                     /\ worker' = [worker EXCEPT ![w].batch = b, ![w].pc = to]
    BY <1>5 DEF FindPending
  <2>. QED
    BY <1>3, <2>1
<1>6. CASE Publish(w) \/ PublishFails(w) \/ RecordPublished(w)
  BY <1>2, <1>4, <1>6 DEF Publish, PublishFails, RecordPublished
<1>7. CASE RecordPublishFailure(w)
  BY <1>1, <1>7, ThrowProgress DEF RecordPublishFailure
<1>. QED
  BY <1>5, <1>6, <1>7

\* Failures of the surroundings.
LEMMA LearnBreak ==
  ASSUME Setting, NEW w \in Workers, DatabaseError(w) \/ Crash(w) \/ Restart(w)
  PROVE  Learning' /\ CommandKept'
<1>1. CASE DatabaseError(w)
  BY <1>1, ThrowProgress DEF DatabaseError, queues
<1>2. CASE Crash(w)
  <2>1. PICK d : d = [IdleWorker EXCEPT !.pc = "Down"]
    OBVIOUS
  <2>2. /\ worker' = [worker EXCEPT ![w] = d]
        /\ ready' = [ready EXCEPT ![worker[w].command] = @ + 1]
        /\ UNCHANGED <<request, delayed>>
    BY <1>2, <2>1 DEF Crash
  <2>3. d.pc = "Down" /\ d.rescue # "FailNode"
    BY <2>1 DEF IdleWorker
  <2>. QED
    BY <2>2, <2>3, Requeue
<1>3. CASE Restart(w)
  <2>1. PICK d : d = [worker[w] EXCEPT !.pc = "Idle"]
    OBVIOUS
  <2>2. /\ worker' = [worker EXCEPT ![w] = d] /\ UNCHANGED <<request, ready, delayed>>
        /\ worker[w].pc = "Down"
    BY <1>3, <2>1 DEF Restart, Goto, At, queues
  <2>3. d.pc = "Idle" /\ d.rescue = worker[w].rescue
    BY <2>1, WorkerFacts DEF Deliveries, Setting
  <2>4. worker[w].rescue # "FailNode"
    BY <2>2 DEF Setting, Learning, Learnt, Position, TryLabels
  <2>5. Learnt(d)'
    BY <2>3, <2>4, NothingLearnt
  <2>6. Learning'
    BY <2>2, <2>5, LearningStep DEF Setting
  <2>7. d.pc \in DoneLabels /\ worker[w].pc \in DoneLabels
    BY <2>2, <2>3 DEF DoneLabels
  <2>8. CommandKept'
    BY <2>2, <2>7, KeptStep DEF Setting, Copies
  <2>. QED
    BY <2>6, <2>8
<1>. QED
  BY <1>1, <1>2, <1>3

\* A step of the API, the broker or a timer leaves the deliveries alone.
LEMMA OthersLearn ==
  ASSUME Setting, UNCHANGED worker
  PROVE  Learning'
<1>1. ASSUME NEW v \in Workers PROVE Learnt(worker[v])'
  <2>1. PICK o \in Deliveries : o = worker[v] /\ worker'[v] = o
    BY WorkerFacts DEF Setting
  <2>2. Learnt(o)'
    BY <2>1, LearntStays, WorkerFacts DEF Learning, Setting
  <2>. QED
    BY <2>1, <2>2 DEF Learnt, Position, Claim
<1>. QED
  BY <1>1 DEF Learning

\* And it keeps the commands if no copy is lost and what is newly published has one.
LEMMA OthersKeep ==
  ASSUME Setting, UNCHANGED worker,
         \A e \in Executions : Copies(e) => Copies(e)',
         \A e \in Executions : request'[e] = "published" => request[e] = "published" \/ Copies(e)'
  PROVE  CommandKept'
<1>. SUFFICES ASSUME NEW e \in Executions, request'[e] = "published",
                     execution'[e] \notin Terminal
              PROVE  Copies(e)' \/ \E v \in Workers : Holds(v, e)'
  BY DEF CommandKept, Copies
<1>1. execution[e] \notin Terminal
  BY DEF Setting, Onward
<1>2. request[e] = "published" => Copies(e) \/ \E v \in Workers : Holds(v, e)
  BY <1>1 DEF Setting, CommandKept, Copies
<1>. QED
  BY <1>2 DEF Holds, Of

\* requestExecution of the API.
LEMMA LearnApi ==
  ASSUME Setting, NEW e \in Executions,
         RequestExecution(e) \/ PublishCommand(e) \/ LoseCommand(e)
  PROVE  Learning' /\ CommandKept'
<1>1. UNCHANGED worker /\ request \in [Executions -> {"none", "publishing", "published", "lost"}]
  BY DEF RequestExecution, PublishCommand, LoseCommand, Setting, IInv, TypeInv, TypeOK
<1>2. CASE RequestExecution(e) \/ LoseCommand(e)
  <2>1. UNCHANGED <<ready, delayed>>
    BY <1>2 DEF RequestExecution, LoseCommand, queues
  <2>2. \A x \in Executions : request'[x] = "published" => request[x] = "published"
    BY <1>1, <1>2 DEF RequestExecution, LoseCommand
  <2>3. CommandKept'
    BY <1>1, <2>1, <2>2, OthersKeep DEF Copies
  <2>. QED
    BY <1>1, <2>3, OthersLearn
<1>3. CASE PublishCommand(e)
  <2>1. PICK c : c = [execution |-> e, attempt |-> 0]
    OBVIOUS
  <2>2. c \in Commands /\ c.execution = e
    BY <2>1, WorkerAssumption DEF Commands
  <2>3. ready' = [ready EXCEPT ![c] = @ + 1] /\ UNCHANGED delayed
    BY <1>3, <2>1 DEF PublishCommand
  <2>4. /\ \A k \in Commands : ready[k] + delayed[k] > 0 => ready'[k] + delayed'[k] > 0
        /\ ready'[c] + delayed'[c] > 0
    BY <2>2, <2>3, QueueTypes
  <2>5. (\A x \in Executions : Copies(x) => Copies(x)') /\ Copies(e)'
    BY <2>2, <2>4 DEF Copies
  <2>6. \A x \in Executions : request'[x] = "published" => request[x] = "published" \/ x = e
    BY <1>1, <1>3 DEF PublishCommand
  <2>7. CommandKept'
    BY <1>1, <2>5, <2>6, OthersKeep
  <2>. QED
    BY <1>1, <2>7, OthersLearn
<1>. QED
  BY <1>2, <1>3

\* The broker.
LEMMA LearnBroker ==
  ASSUME Setting, NEW c \in Commands, RetryDue(c) \/ \E w \in Workers : Deliver(w, c)
  PROVE  Learning' /\ CommandKept'
<1>1. CASE RetryDue(c)
  <2>1. /\ delayed' = [delayed EXCEPT ![c] = @ - 1] /\ ready' = [ready EXCEPT ![c] = @ + 1]
        /\ UNCHANGED <<request, worker>> /\ delayed[c] > 0
    BY <1>1 DEF RetryDue
  <2>2. \A k \in Commands : ready[k] + delayed[k] > 0 => ready'[k] + delayed'[k] > 0
    BY <2>1, QueueTypes
  <2>3. \A e \in Executions : Copies(e) => Copies(e)'
    BY <2>2 DEF Copies
  <2>4. CommandKept'
    BY <2>1, <2>3, OthersKeep
  <2>. QED
    BY <2>1, <2>4, OthersLearn
<1>2. ASSUME NEW w \in Workers, Deliver(w, c)
      PROVE  Learning' /\ CommandKept'
  <2>1. PICK d : d = [IdleWorker EXCEPT !.pc = "FindExecution", !.command = c]
    OBVIOUS
  <2>2. /\ worker' = [worker EXCEPT ![w] = d] /\ ready' = [ready EXCEPT ![c] = @ - 1]
        /\ UNCHANGED <<request, delayed>> /\ worker[w].pc = "Idle"
    BY <1>2, <2>1 DEF Deliver, At
  <2>3. d.pc = "FindExecution" /\ d.command = c /\ d.rescue # "FailNode"
    BY <2>1 DEF IdleWorker
  <2>4. Learnt(d)'
    BY <2>3, NothingLearnt
  <2>5. Learning'
    BY <2>2, <2>4, LearningStep DEF Setting
  <2>6. ASSUME NEW e \in Executions, request'[e] = "published", execution'[e] \notin Terminal
        PROVE  Copies(e)' \/ \E v \in Workers : Holds(v, e)'
    <3>1. Copies(e) \/ \E v \in Workers : Holds(v, e)
      BY <2>2, <2>6 DEF Setting, CommandKept, Copies, Onward
    <3>2. ASSUME NEW v \in Workers, Holds(v, e)
          PROVE  Holds(v, e)'
      <4>1. v # w
        BY <2>2, <3>2 DEF Holds
      <4>. QED
        BY <2>2, <3>2, <4>1, WorkerFacts DEF Holds, Of, Setting
    <3>3. c.execution = e => Holds(w, e)'
      <4>1. worker'[w] = d
        BY <2>2, WorkerFacts DEF Setting
      <4>. QED
        BY <2>3, <4>1 DEF Holds, Of
    <3>4. Copies(e) /\ c.execution # e => Copies(e)'
      <4>1. \A k \in Commands : k # c => ready'[k] = ready[k]
        BY <2>2, QueueTypes
      <4>. QED
        BY <2>2, <4>1 DEF Copies
    <3>. QED
      BY <3>1, <3>2, <3>3, <3>4
  <2>7. CommandKept'
    BY <2>6 DEF CommandKept, Copies
  <2>. QED
    BY <2>5, <2>7
<1>. QED
  BY <1>1, <1>2

LEMMA LearnStep ==
  ASSUME Setting, [Next]_vars
  PROVE  Learning' /\ CommandKept'
<1>1. ASSUME NEW w \in Workers, Process(w) \/ Break(w) \/ Restart(w)
      PROVE  Learning' /\ CommandKept'
  BY <1>1, LearnProcess, LearnNodes, LearnFailure, LearnDispatch, LearnBreak DEF Process, Break
<1>2. ASSUME \/ \E d \in Dispatchers : Dispatch(d) \/ DispatcherDatabaseError(d)
             \/ UNCHANGED vars
      PROVE  Learning' /\ CommandKept'
  <2>1. UNCHANGED <<worker, request, ready, delayed>>
    BY <1>2 DEF Dispatch, FetchPending, DispatchNext, DispatcherRecordsPublished,
                DispatcherRecordsFailure, DispatcherDatabaseError, queues, vars
  <2>. QED
    BY <2>1, OthersLearn, OthersKeep DEF Copies
<1>. QED
  BY <1>1, <1>2, LearnApi, LearnBroker DEF Next, Api

\* The inductive invariant behind the properties of the history.
HInv == IInv /\ Learning /\ CommandKept

LEMMA HistoryInit == Init => Learning /\ CommandKept /\ SuccessExplained /\ DeadLetterIsSettled
<1>. SUFFICES ASSUME Init
              PROVE  Learning /\ CommandKept /\ SuccessExplained /\ DeadLetterIsSettled
  OBVIOUS
<1>1. ASSUME NEW w \in Workers PROVE Learnt(worker[w])
  <2>1. PICK d : d = worker[w]
    OBVIOUS
  <2>2. d.pc = "Idle" /\ d.rescue = "HandleFailure"
    BY <2>1 DEF Init, IdleWorker
  <2>3. Learnt(d)
    BY <2>2 DEF Learnt, Position, Claim, NodeLabels, DispatchLabels
  <2>. QED
    BY <2>1, <2>3
<1>2. CommandKept
  BY DEF Init, CommandKept
<1>3. \A kind \in {"started", "completed"}, e \in Executions, n \in Nodes : ~Recorded(kind, e, n)
  BY KeyType DEF Init, Recorded, Exists, AbsentRow, Nodes
<1>4. SuccessExplained
  BY <1>3 DEF Init, SuccessExplained
<1>5. DeadLetterIsSettled
  BY DEF Init, DeadLetterIsSettled
<1>. QED
  BY <1>1, <1>2, <1>4, <1>5 DEF Learning

LEMMA HistoryStep ==
  ASSUME HInv, [Next]_vars
  PROVE  HInv' /\ Setting
<1>1. IInv' /\ RowsStay /\ Onward
  BY OutcomeStep, RowsAreKept, StatusMovesOn DEF HInv
<1>2. Setting
  BY <1>1 DEF HInv, Setting
<1>. QED
  BY <1>1, <1>2, LearnStep DEF HInv

\* No crash, no failed statement and no retry drops the last copy of a command whose
\* execution is not settled, for any number of workers and deliveries (handleDelivery
\* and publishRetryCommand, index.ts:202-252 and 1591-1632).
THEOREM CommandsAreKept == Spec => []CommandKept
<1>1. Init => HInv
  BY OutcomeInit, HistoryInit DEF HInv
<1>2. HInv /\ [Next]_vars => HInv'
  BY HistoryStep
<1>3. HInv => CommandKept
  BY DEF HInv
<1>. QED
  BY <1>1, <1>2, <1>3, PTL DEF Spec

-----------------------------------------------------------------------------
(* A dead letter is settled.                                               *)

LEMMA DeadLetterStep ==
  ASSUME HInv, DeadLetterIsSettled, [Next]_vars
  PROVE  DeadLetterIsSettled'
<1>1. Setting /\ deadLettered \subseteq Commands
  BY HistoryStep DEF HInv, IInv, TypeInv, TypeOK
<1>2. CASE UNCHANGED deadLettered
  BY <1>1, <1>2 DEF DeadLetterIsSettled, Setting, Onward, Commands
<1>3. ASSUME NEW w \in Workers, DeadLetter(w)
      PROVE  DeadLetterIsSettled'
  <2>1. PICK e, n, label : e = Of(w) /\ n = worker[w].node /\ label = worker[w].pc
    OBVIOUS
  <2>2. label = "DeadLetter" /\ deadLettered' = deadLettered \cup {worker[w].command}
    BY <1>3, <2>1 DEF DeadLetter, At
  <2>3. execution'[e] \in Terminal
    BY <1>1, <2>1, <2>2, Here DEF DispatchLabels, Claim
  <2>. QED
    BY <1>1, <2>1, <2>2, <2>3 DEF DeadLetterIsSettled, Setting, Onward, Commands, Of
<1>4. ASSUME NEW w \in Workers, Process(w), ~DeadLetter(w)
      PROVE  UNCHANGED deadLettered
  BY <1>4
  DEF Process, FindExecution, BeginExecution, BeginConflict, RereadExecution, PersistStarted,
      PrepareNodes, StartNode, PersistNodeStarted, ExecuteNode, CompleteNode,
      PersistNodeCompleted, NextNode, FailNode, PersistNodeFailed, CompleteExecution,
      CompletionMissed, CompletionConflict, RetryCommand, GiveUp, FailExecution, FailureMissed,
      FailureConflict, Ack, Nack, FindPending, Publish, RecordPublished, RecordPublishFailure,
      queues
<1>5. ASSUME NEW w \in Workers, Break(w) \/ Restart(w)
      PROVE  UNCHANGED deadLettered
  BY <1>5 DEF Break, PublishFails, DatabaseError, Crash, Restart, queues
<1>6. ASSUME \/ Api \/ \E c \in Commands : RetryDue(c) \/ \E w \in Workers : Deliver(w, c)
             \/ \E d \in Dispatchers : Dispatch(d) \/ DispatcherDatabaseError(d)
             \/ UNCHANGED vars
      PROVE  UNCHANGED deadLettered
  BY <1>6
  DEF Api, RequestExecution, PublishCommand, LoseCommand, RetryDue, Deliver, Dispatch,
      FetchPending, DispatchNext, DispatcherRecordsPublished, DispatcherRecordsFailure,
      DispatcherDatabaseError, queues, vars
<1>. QED
  BY <1>2, <1>3, <1>4, <1>5, <1>6 DEF Next

\* Whatever two deliveries of one command do to each other, a command in the
\* dead-letter queue is of an execution that has its outcome (failWorkflowExecution and
\* the catch block of handleDelivery, index.ts:202-252 and 1324-1402).
THEOREM DeadLettersAreSettled == Spec => []DeadLetterIsSettled
<1>1. Init => HInv /\ DeadLetterIsSettled
  BY OutcomeInit, HistoryInit DEF HInv
<1>2. HInv /\ DeadLetterIsSettled /\ [Next]_vars => HInv' /\ DeadLetterIsSettled'
  BY HistoryStep, DeadLetterStep
<1>. QED
  BY <1>1, <1>2, PTL DEF Spec

-----------------------------------------------------------------------------
(* A success explains itself.                                              *)

\* No event of a node is recorded that its history would have to explain.
NoNodeEvent ==
  \A k \in Keys : k.kind # "failed" /\ k.node # 0 /\ Exists(outbox'[k]) => Exists(outbox[k])

NoSuccess == \A e \in Executions : execution'[e] = "SUCCEEDED" => execution[e] = "SUCCEEDED"

LEMMA ExplainedStable ==
  ASSUME SuccessExplained, RowsStay, NoNodeEvent,
         \A e \in Executions : execution'[e] = "SUCCEEDED" =>
            execution[e] = "SUCCEEDED" \/ \A n \in Nodes : Recorded("completed", e, n)
  PROVE  SuccessExplained'
<1>1. Nodes \subseteq 0..NodeCount /\ (\A n \in Nodes : n # 0) /\ 0 \in 0..NodeCount
      /\ \A n \in Nodes \ {1} : n - 1 \in Nodes
  BY WorkerAssumption DEF Nodes
<1>2. \A kind \in {"started", "completed"}, e \in Executions, n \in Nodes :
        Recorded(kind, e, n)' <=> Recorded(kind, e, n)
  <2>. SUFFICES ASSUME NEW kind \in {"started", "completed"}, NEW e \in Executions, NEW n \in Nodes
                PROVE  Recorded(kind, e, n)' <=> Recorded(kind, e, n)
    OBVIOUS
  <2>1. /\ Key(kind, e, n) \in Keys
        /\ Key(kind, e, n).kind # "failed" /\ Key(kind, e, n).node # 0
    BY <1>1, KeyType DEF Key
  <2>. QED
    BY <2>1 DEF Recorded, NoNodeEvent, RowsStay
<1>3. \A e \in Executions : Recorded("started", e, 0) => Recorded("started", e, 0)'
  BY <1>1, KeyType DEF Recorded, RowsStay
<1>. QED
  BY <1>1, <1>2, <1>3 DEF SuccessExplained

\* The steps that record an event of a node the history has to explain.
LEMMA ExplainedNodes ==
  ASSUME Setting, SuccessExplained, NEW w \in Workers,
         PersistNodeStarted(w) \/ PersistNodeCompleted(w)
  PROVE  SuccessExplained'
<1>1. PICK e, n, label : e = Of(w) /\ n = worker[w].node /\ label = worker[w].pc
  OBVIOUS
<1>2. /\ label \in NodeLabels /\ worker[w].pc \notin DispatchLabels
      /\ UNCHANGED execution
  BY <1>1 DEF PersistNodeStarted, PersistNodeCompleted, At, NodeLabels, DispatchLabels
<1>3. e \in Executions /\ n \in Nodes /\ Claim(label, e, n)
  BY <1>1, <1>2, Here
<1>4. Nodes \subseteq 0..NodeCount /\ (\A m \in Nodes : m # 0) /\ 0 \in 0..NodeCount
      /\ \A m \in Nodes \ {1} : m - 1 \in Nodes /\ m - 1 \in 1..(m - 1) /\ m - 1 # m
  BY WorkerAssumption DEF Nodes
<1>5. ASSUME NEW kind \in {"started", "completed"}, NEW to \in Returns,
             Emit(w, Key(kind, e, n), to)
      PROVE  \A any \in {"started", "completed"}, x \in Executions, m \in 0..NodeCount :
               Recorded(any, x, m)' <=>
                 Recorded(any, x, m) \/ (any = kind /\ x = e /\ m = n)
  <2>1. Key(kind, e, n) \in Keys
    BY <1>3, <1>4, KeyType
  <2>2. \A k \in Keys : Exists(outbox'[k]) <=> Exists(outbox[k]) \/ k = Key(kind, e, n)
    BY <1>5, <2>1, EmitAddsRow DEF Setting, IInv
  <2>3. \A any \in {"started", "completed"}, x \in Executions, m \in 0..NodeCount :
          Key(any, x, m) = Key(kind, e, n) <=> any = kind /\ x = e /\ m = n
    BY DEF Key
  <2>. QED
    BY <2>2, <2>3, KeyType DEF Recorded
<1>6. CASE PersistNodeStarted(w)
  <2>1. Emit(w, Key("started", e, n), "ExecuteNode") /\ label = "PersistNodeStarted"
    BY <1>1, <1>6 DEF PersistNodeStarted, At
  <2>2. Recorded("started", e, 0) /\ (n # 1 => Recorded("completed", e, n - 1))
    BY <1>3, <1>4, <2>1 DEF Claim, NodeLabels
  <2>3. \A any \in {"started", "completed"}, x \in Executions, m \in 0..NodeCount :
          Recorded(any, x, m)' <=>
            Recorded(any, x, m) \/ (any = "started" /\ x = e /\ m = n)
    BY <1>5, <2>1 DEF Returns
  <2>. QED
    BY <1>2, <1>3, <1>4, <2>2, <2>3 DEF SuccessExplained
<1>7. CASE PersistNodeCompleted(w)
  <2>1. Emit(w, Key("completed", e, n), "NextNode") /\ label = "PersistNodeCompleted"
    BY <1>1, <1>7 DEF PersistNodeCompleted, At
  <2>2. Recorded("started", e, n)
    BY <1>3, <2>1 DEF Claim, NodeLabels
  <2>3. \A any \in {"started", "completed"}, x \in Executions, m \in 0..NodeCount :
          Recorded(any, x, m)' <=>
            Recorded(any, x, m) \/ (any = "completed" /\ x = e /\ m = n)
    BY <1>5, <2>1 DEF Returns
  <2>. QED
    BY <1>2, <1>3, <1>4, <2>2, <2>3 DEF SuccessExplained
<1>. QED
  BY <1>6, <1>7

\* An event of the execution, or of a failed node, needs no explanation.
LEMMA OtherEmission ==
  ASSUME Setting, NEW w \in Workers, NEW key \in Keys, NEW to \in Returns, Emit(w, key, to),
         key.kind = "failed" \/ key.node = 0
  PROVE  NoNodeEvent
BY EmitAddsRow DEF NoNodeEvent, Setting, IInv

LEMMA ExplainedWorker ==
  ASSUME Setting, SuccessExplained, NEW w \in Workers, Process(w)
  PROVE  SuccessExplained'
<1>1. PICK e, n, label : e = Of(w) /\ n = worker[w].node /\ label = worker[w].pc
  OBVIOUS
<1>2. e \in Executions /\ n \in 0..NodeCount /\ 0 \in 0..NodeCount
  BY <1>1, DeliveryType DEF Setting, IInv
<1>3. execution \in [Executions -> Statuses]
  BY DEF Setting, IInv, TypeInv, TypeOK
<1>4. ASSUME NEW kind \in {"started", "completed", "failed"}, NEW m \in 0..NodeCount,
             NEW to \in Returns, Emit(w, Key(kind, e, m), to), kind = "failed" \/ m = 0
      PROVE  NoNodeEvent
  <2>1. /\ Key(kind, e, m) \in Keys
        /\ Key(kind, e, m).kind = "failed" \/ Key(kind, e, m).node = 0
    BY <1>2, <1>4, KeyType DEF Key
  <2>. QED
    BY <1>4, <2>1, OtherEmission
<1>5. CASE \/ FindExecution(w) \/ BeginConflict(w) \/ RereadExecution(w) \/ PrepareNodes(w)
           \/ StartNode(w) \/ ExecuteNode(w) \/ CompleteNode(w) \/ NextNode(w) \/ FailNode(w)
           \/ CompletionMissed(w) \/ CompletionConflict(w)
           \/ RetryCommand(w) \/ GiveUp(w) \/ FailureMissed(w) \/ FailureConflict(w)
           \/ DeadLetter(w) \/ Ack(w) \/ Nack(w) \/ FindPending(w) \/ Publish(w)
  <2>1. UNCHANGED <<execution, outbox>>
    BY <1>5
    DEF FindExecution, BeginConflict, RereadExecution, PrepareNodes, StartNode, ExecuteNode,
        CompleteNode, NextNode, FailNode, CompletionMissed, CompletionConflict, RetryCommand,
        GiveUp, FailureMissed, FailureConflict, DeadLetter, Ack, Nack, FindPending, Publish
  <2>. QED
    BY <2>1, ExplainedStable DEF NoNodeEvent, Setting
<1>6. CASE RecordPublished(w) \/ RecordPublishFailure(w)
  <2>1. /\ Head(worker[w].batch) \in Snapshots /\ RowKnown(Head(worker[w].batch))
        /\ Marked(Head(worker[w].batch)) /\ UNCHANGED execution
    BY <1>6, HeadKnown DEF RecordPublished, RecordPublishFailure, At, Marked, Setting
  <2>2. NoNodeEvent
    BY <2>1, MarkOfKnown DEF SameRows, NoNodeEvent, Setting
  <2>. QED
    BY <2>1, <2>2, ExplainedStable DEF Setting
<1>7. CASE PersistStarted(w)
  <2>1. Emit(w, Key("started", e, 0), "PrepareNodes") /\ UNCHANGED execution
    BY <1>1, <1>7 DEF PersistStarted
  <2>2. NoNodeEvent
    BY <1>2, <1>4, <2>1 DEF Returns
  <2>. QED
    BY <2>1, <2>2, ExplainedStable DEF Setting
<1>8. CASE BeginExecution(w)
  <2>1. /\ Emit(w, Key("started", e, 0), "PrepareNodes")
        /\ execution' = [execution EXCEPT ![e] = "RUNNING"]
    BY <1>1, <1>8 DEF BeginExecution
  <2>2. NoNodeEvent
    BY <1>2, <1>4, <2>1 DEF Returns
  <2>3. NoSuccess
    BY <1>3, <2>1 DEF NoSuccess
  <2>. QED
    BY <2>2, <2>3, ExplainedStable DEF Setting, NoSuccess
<1>9. CASE FailExecution(w)
  <2>1. /\ Emit(w, Key("failed", e, 0), "DeadLetter")
        /\ execution' = [execution EXCEPT ![e] = "FAILED"]
    BY <1>1, <1>9 DEF FailExecution
  <2>2. NoNodeEvent
    BY <1>2, <1>4, <2>1 DEF Returns
  <2>3. NoSuccess
    BY <1>3, <2>1 DEF NoSuccess
  <2>. QED
    BY <2>2, <2>3, ExplainedStable DEF Setting, NoSuccess
<1>10. CASE CompleteExecution(w)
  <2>1. /\ Emit(w, Key("completed", e, 0), "Ack") /\ label = "CompleteExecution"
        /\ execution' = [execution EXCEPT ![e] = "SUCCEEDED"]
    BY <1>1, <1>10 DEF CompleteExecution, At
  <2>2. NoNodeEvent
    BY <1>2, <1>4, <2>1 DEF Returns
  <2>3. \A m \in Nodes : Recorded("completed", e, m)
    <3>1. worker[w].pc \notin DispatchLabels
      BY <1>1, <2>1 DEF DispatchLabels
    <3>2. Claim(label, e, n)
      BY <1>1, <3>1, Here
    <3>. QED
      BY <2>1, <3>2 DEF Claim
  <2>4. \A x \in Executions : execution'[x] = "SUCCEEDED" => execution[x] = "SUCCEEDED" \/ x = e
    BY <1>3, <2>1
  <2>. QED
    BY <2>2, <2>3, <2>4, ExplainedStable DEF Setting
<1>11. CASE PersistNodeFailed(w)
  <2>1. Emit(w, Key("failed", e, n), "HandleFailure") /\ UNCHANGED execution
    BY <1>1, <1>11 DEF PersistNodeFailed
  <2>2. NoNodeEvent
    BY <1>2, <1>4, <2>1 DEF Returns
  <2>. QED
    BY <2>1, <2>2, ExplainedStable DEF Setting
<1>. QED
  BY <1>5, <1>6, <1>7, <1>8, <1>9, <1>10, <1>11, ExplainedNodes DEF Process

LEMMA ExplainedStep ==
  ASSUME HInv, SuccessExplained, [Next]_vars
  PROVE  SuccessExplained'
<1>1. Setting
  BY HistoryStep
<1>2. ASSUME NoSuccess, NoNodeEvent
      PROVE  SuccessExplained'
  BY <1>1, <1>2, ExplainedStable DEF Setting, NoSuccess
<1>3. ASSUME NEW e \in Executions, RequestExecution(e) \/ PublishCommand(e) \/ LoseCommand(e)
      PROVE  SuccessExplained'
  <2>1. execution \in [Executions -> Statuses]
    BY DEF HInv, IInv, TypeInv, TypeOK
  <2>2. NoSuccess /\ NoNodeEvent
    BY <1>3, <2>1
    DEF RequestExecution, PublishCommand, LoseCommand, NoSuccess, NoNodeEvent
  <2>. QED
    BY <1>2, <2>2
<1>4. ASSUME \/ \E c \in Commands : RetryDue(c) \/ \E w \in Workers : Deliver(w, c)
             \/ \E w \in Workers : Break(w) \/ Restart(w)
             \/ UNCHANGED vars
      PROVE  SuccessExplained'
  <2>1. UNCHANGED <<execution, outbox>>
    BY <1>4 DEF RetryDue, Deliver, Break, PublishFails, DatabaseError, Crash, Restart, vars
  <2>. QED
    BY <1>2, <2>1 DEF NoSuccess, NoNodeEvent
<1>5. ASSUME NEW d \in Dispatchers, Dispatch(d) \/ DispatcherDatabaseError(d)
      PROVE  SuccessExplained'
  <2>1. dispatcher[d] \in Cycles /\ CycleSafe(dispatcher[d])
    BY DEF HInv, IInv, TypeInv, TypeOK, StaleReadsAreSafe
  <2>2. UNCHANGED execution
    BY <1>5 DEF Dispatch, FetchPending, DispatchNext, DispatcherRecordsPublished,
                DispatcherRecordsFailure, DispatcherDatabaseError
  <2>3. UNCHANGED outbox \/ \E s \in Snapshots : RowKnown(s) /\ Marked(s)
    BY <1>5, <2>1
    DEF Dispatch, FetchPending, DispatchNext, DispatcherRecordsPublished,
        DispatcherRecordsFailure, DispatcherDatabaseError, Cycles, CycleSafe, Marked
  <2>4. NoNodeEvent
    BY <2>3, MarkOfKnown DEF NoNodeEvent, SameRows, HInv
  <2>. QED
    BY <1>2, <2>2, <2>4 DEF NoSuccess
<1>. QED
  BY <1>1, <1>3, <1>4, <1>5, ExplainedWorker DEF Next, Api

\* However many deliveries contributed to it, the recorded history of a success is
\* complete and in order: every node started and completed, and none started before its
\* predecessor had completed (the loop of executeWorkflowNodes, index.ts:589-695).
THEOREM SuccessesAreExplained == Spec => []SuccessExplained
<1>1. Init => HInv /\ SuccessExplained
  BY OutcomeInit, HistoryInit DEF HInv
<1>2. HInv /\ SuccessExplained /\ [Next]_vars => HInv' /\ SuccessExplained'
  BY HistoryStep, ExplainedStep
<1>. QED
  BY <1>1, <1>2, PTL DEF Spec

-----------------------------------------------------------------------------
(* Nodes agree, as long as nobody crashes.                                 *)

\* There is one copy of the command of e, or one delivery of it.
Solo(e) ==
  /\ \A b, c \in Commands :
       b.execution = e /\ c.execution = e /\ ready[b] + delayed[b] > 0 /\ ready[c] + delayed[c] > 0
         => b = c
  /\ \A c \in Commands : c.execution = e => ready[c] + delayed[c] <= 1
  /\ Copies(e) => \A w \in Workers : ~Holds(w, e)
  /\ \A v, w \in Workers : Holds(v, e) /\ Holds(w, e) => v = w
  /\ Copies(e) \/ (\E w \in Workers : Holds(w, e)) => request[e] = "published"

\* Where a delivery works on an execution that is RUNNING.
RunLabels == NodeLabels \cup {"PrepareNodes", "PersistStarted", "CompleteExecution"}

\* What a delivery at a label, at node n, has done to the rows of the nodes.
Ground(label, e, n) ==
  /\ label \in RunLabels => execution[e] = "RUNNING"
  /\ label \in NodeLabels => \A m \in 1..(n - 1) : nodeRow[e][m].status = "SUCCEEDED"
  /\ label \in {"PersistNodeCompleted", "NextNode"} => nodeRow[e][n].status = "SUCCEEDED"
  /\ label = "CompleteExecution" => \A m \in Nodes : nodeRow[e][m].status = "SUCCEEDED"

Worked(d) == Ground(Position(d), d.command.execution, d.node)

\* The property, without its premise.
RowsAgree ==
  \A e \in Executions, n \in Nodes :
    execution[e] = "SUCCEEDED" => nodeRow[e][n].status = "SUCCEEDED"

AgreeInv ==
  crashes = 0 =>
    /\ \A e \in Executions : Solo(e)
    /\ \A w \in Workers : Worked(worker[w])
    /\ RowsAgree

\* Worker w moves on with its command, to a label and a node.
Moved(w, label, n) ==
  /\ \A v \in Workers : v # w => worker'[v] = worker[v]
  /\ worker'[w].command = worker[w].command /\ worker'[w].node = n
  /\ Position(worker'[w]) = label
  /\ worker[w].pc \notin DoneLabels

LEMMA Movements ==
  ASSUME IInv, NEW w \in Workers, worker[w].pc \notin DoneLabels, NEW n, n = worker[w].node
  PROVE  /\ \A label \in Labels \ DispatchLabels : Goto(w, label) => Moved(w, label, n)
         /\ \A label \in Returns, key \in Keys : Emit(w, key, label) => Moved(w, label, n)
         /\ \A label \in Returns : FlushPending(w, label) => Moved(w, label, n)
         /\ \A retryable : Throw(w, retryable) => Moved(w, worker[w].rescue, n)
<1>1. worker \in [Workers -> Deliveries] /\ worker[w] \in Deliveries
  BY WorkerFacts
<1>2. ASSUME NEW label \in Labels \ DispatchLabels, Goto(w, label)
      PROVE  Moved(w, label, n)
  BY <1>1, <1>2 DEF Goto, Moved, Position, DispatchLabels, Deliveries
<1>3. ASSUME NEW label \in Returns, NEW key \in Keys, Emit(w, key, label)
      PROVE  Moved(w, label, n)
  BY <1>1, <1>3 DEF Emit, Moved, Position, Deliveries
<1>4. ASSUME NEW label \in Returns, FlushPending(w, label)
      PROVE  Moved(w, label, n)
  BY <1>1, <1>4 DEF FlushPending, Moved, Position, Deliveries
<1>5. ASSUME NEW retryable, Throw(w, retryable)
      PROVE  Moved(w, worker[w].rescue, n)
  BY <1>1, <1>5 DEF Throw, Moved, Position, Deliveries, Catches
<1>. QED
  BY <1>2, <1>3, <1>4, <1>5

\* Within dispatching a delivery stays where it is, or goes back there.
LEMMA DispatchMoves ==
  ASSUME IInv, NEW w \in Workers, NEW d, worker' = [worker EXCEPT ![w] = d],
         worker[w].pc \in DispatchLabels, d.pc \in DispatchLabels \cup {worker[w].next},
         d.command = worker[w].command, d.node = worker[w].node, d.next = worker[w].next
  PROVE  Moved(w, Position(worker[w]), worker[w].node)
<1>1. worker \in [Workers -> Deliveries] /\ worker[w].next \in Returns
  BY WorkerFacts DEF Deliveries
<1>2. worker[w].pc \notin DoneLabels /\ worker[w].next \notin DispatchLabels
  BY <1>1 DEF DispatchLabels, DoneLabels, Returns
<1>3. Position(worker[w]) = worker[w].next /\ Position(d) = worker[w].next
  BY <1>2 DEF Position, DispatchLabels
<1>. QED
  BY <1>1, <1>2, <1>3 DEF Moved

-----------------------------------------------------------------------------
(* One delivery at a time.                                                 *)

\* Nobody takes hold of a command, and no copy is made.
LEMMA SoloQuiet ==
  ASSUME \A e \in Executions : Solo(e), UNCHANGED <<ready, delayed>>,
         \A e \in Executions : request[e] = "published" => request'[e] = "published",
         \A v \in Workers, e \in Executions : Holds(v, e)' => Holds(v, e)
  PROVE  \A e \in Executions : Solo(e)'
BY DEF Solo, Copies

LEMMA SoloMoved ==
  ASSUME IInv, \A e \in Executions : Solo(e), UNCHANGED <<ready, delayed, request>>,
         NEW w \in Workers, NEW label, NEW n, Moved(w, label, n)
  PROVE  \A e \in Executions : Solo(e)'
<1>1. ASSUME NEW v \in Workers, NEW e \in Executions, Holds(v, e)'
      PROVE  Holds(v, e)
  BY <1>1 DEF Moved, Holds, Of, DoneLabels
<1>. QED
  BY <1>1, SoloQuiet

\* A copy moves from a retry queue to the worker queue.
LEMMA SoloRetryDue ==
  ASSUME IInv, \A e \in Executions : Solo(e), NEW c \in Commands, RetryDue(c)
  PROVE  \A e \in Executions : Solo(e)'
<1>1. /\ ready \in [Commands -> Nat] /\ delayed \in [Commands -> Nat]
      /\ delayed' = [delayed EXCEPT ![c] = @ - 1] /\ ready' = [ready EXCEPT ![c] = @ + 1]
      /\ UNCHANGED <<worker, request>>
  BY DEF RetryDue, IInv, TypeInv, TypeOK
<1>2. \A b \in Commands : ready'[b] + delayed'[b] = ready[b] + delayed[b]
  BY <1>1
<1>3. \A v \in Workers, e \in Executions : Holds(v, e)' <=> Holds(v, e)
  BY <1>1 DEF Holds, Of
<1>. QED
  BY <1>1, <1>2, <1>3 DEF Solo, Copies

\* A worker takes the only copy of a command.
LEMMA SoloDeliver ==
  ASSUME IInv, \A e \in Executions : Solo(e), NEW w \in Workers, NEW c \in Commands, Deliver(w, c)
  PROVE  \A e \in Executions : Solo(e)'
<1>1. /\ ready \in [Commands -> Nat] /\ delayed \in [Commands -> Nat]
      /\ ready[c] > 0 /\ ready' = [ready EXCEPT ![c] = @ - 1] /\ UNCHANGED <<delayed, request>>
      /\ c.execution \in Executions
  BY DEF Deliver, IInv, TypeInv, TypeOK, Commands
<1>2. /\ \A v \in Workers : v # w => worker'[v] = worker[v]
      /\ worker'[w].command = c /\ worker[w].pc = "Idle"
  BY WorkerFacts DEF Deliver, At, IdleWorker
<1>3. PICK x \in Executions : x = c.execution
  BY <1>1
<1>4. \A v \in Workers, e \in Executions : Holds(v, e)' => Holds(v, e) \/ (v = w /\ e = x)
  BY <1>2, <1>3 DEF Holds, Of
<1>5. ready[c] + delayed[c] > 0 /\ Copies(x)
  BY <1>1, <1>3 DEF Copies
<1>6. \A b \in Commands : b.execution = x => ready'[b] + delayed'[b] = 0
  <2>1. ready[c] + delayed[c] <= 1
    BY <1>1, <1>3 DEF Solo
  <2>2. ready'[c] + delayed'[c] = 0
    BY <1>1, <2>1
  <2>3. ASSUME NEW b \in Commands, b.execution = x, b # c
        PROVE  ready'[b] + delayed'[b] = 0
    <3>1. ~(ready[b] + delayed[b] > 0)
      BY <1>1, <1>3, <1>5, <2>3 DEF Solo
    <3>. QED
      BY <1>1, <2>3, <3>1
  <2>. QED
    BY <2>2, <2>3
<1>7. \A b \in Commands : b.execution # x => ready'[b] = ready[b] /\ delayed'[b] = delayed[b]
  BY <1>1, <1>3
<1>8. ASSUME NEW e \in Executions, e # x
      PROVE  Solo(e)'
  BY <1>1, <1>4, <1>7, <1>8 DEF Solo, Copies
<1>9. Solo(x)'
  <2>1. \A v \in Workers : ~Holds(v, x)
    BY <1>5 DEF Solo
  <2>2. ~Copies(x)'
    BY <1>6 DEF Copies
  <2>3. request'[x] = "published"
    BY <1>1, <1>5 DEF Solo
  <2>. QED
    BY <1>4, <1>6, <2>1, <2>2, <2>3 DEF Solo
<1>. QED
  BY <1>8, <1>9

\* The only delivery of an execution gives its command back, to one of the queues; or
\* the API publishes the first copy.
LEMMA SoloCopy ==
  ASSUME IInv, \A e \in Executions : Solo(e), NEW x \in Executions,
         NEW c \in Commands, c.execution = x, ~Copies(x),
         \/ ready' = [ready EXCEPT ![c] = @ + 1] /\ UNCHANGED delayed
         \/ delayed' = [delayed EXCEPT ![c] = @ + 1] /\ UNCHANGED ready,
         \A e \in Executions : e # x => request'[e] = request[e],
         request'[x] = "published",
         \A v \in Workers : ~Holds(v, x)',
         \A v \in Workers, e \in Executions : Holds(v, e)' => Holds(v, e)
  PROVE  \A e \in Executions : Solo(e)'
<1>1. ready \in [Commands -> Nat] /\ delayed \in [Commands -> Nat]
  BY DEF IInv, TypeInv, TypeOK
<1>2. \A b \in Commands : b.execution = x => ready[b] + delayed[b] = 0
  <2>1. \A b \in Commands : ready[b] + delayed[b] \in Nat
    BY <1>1
  <2>. QED
    BY <2>1 DEF Copies
<1>3. \A b \in Commands : b # c => ready'[b] = ready[b] /\ delayed'[b] = delayed[b]
  BY <1>1
<1>4. ready'[c] + delayed'[c] = 1
  <2>1. ready[c] = 0 /\ delayed[c] = 0
    BY <1>1, <1>2
  <2>. QED
    BY <1>1, <2>1
<1>5. ASSUME NEW e \in Executions, e # x
      PROVE  Solo(e)'
  BY <1>3, <1>5 DEF Solo, Copies
<1>6. Solo(x)'
  <2>1. \A b \in Commands : b.execution = x /\ ready'[b] + delayed'[b] > 0 => b = c
    BY <1>2, <1>3
  <2>2. \A b \in Commands : b.execution = x => ready'[b] + delayed'[b] <= 1
    BY <1>2, <1>3, <1>4
  <2>. QED
    BY <2>1, <2>2 DEF Solo
<1>. QED
  BY <1>5, <1>6

-----------------------------------------------------------------------------
(* What a delivery has done to the rows of the nodes.                      *)

\* What holds before every step, when nobody has crashed.
Alone ==
  /\ Setting
  /\ \A e \in Executions : Solo(e)
  /\ \A w \in Workers : Worked(worker[w])
  /\ RowsAgree

\* A step touches no execution but x.
OnlyOwn(x) ==
  \A e \in Executions : e # x => execution'[e] = execution[e] /\ nodeRow'[e] = nodeRow[e]

LEMMA GroundStays ==
  ASSUME NEW label, NEW e, NEW n, Ground(label, e, n),
         label \in RunLabels => execution'[e] = execution[e] /\ nodeRow'[e] = nodeRow[e]
  PROVE  Ground(label, e, n)'
BY DEF Ground, RunLabels, NodeLabels

\* The step of a delivery is seen by no other one: it is the only one of its execution.
LEMMA WorkedMoved ==
  ASSUME Alone, NEW w \in Workers, NEW label, NEW n, Moved(w, label, n),
         NEW e, e = Of(w), Ground(label, e, n)', OnlyOwn(e)
  PROVE  \A v \in Workers : Worked(worker[v])'
<1>1. ASSUME NEW v \in Workers, v # w
      PROVE  Worked(worker[v])'
  <2>1. PICK x, m, at : /\ x = worker[v].command.execution /\ m = worker[v].node
                        /\ at = Position(worker[v])
    OBVIOUS
  <2>2. Ground(at, x, m)
    BY <2>1 DEF Alone, Worked
  <2>3. worker'[v] = worker[v]
    BY <1>1 DEF Moved
  <2>4. ASSUME at \in RunLabels
        PROVE  x # e /\ x \in Executions
    <3>1. worker[v].pc \notin DoneLabels
      BY <2>1, <2>4 DEF RunLabels, NodeLabels, DoneLabels, Position
    <3>2. Holds(v, x) /\ Holds(w, e) /\ x \in Executions
      BY <2>1, <3>1, DeliveryType DEF Holds, Of, DoneLabels, Moved, Alone, Setting, IInv
    <3>. QED
      BY <1>1, <3>2 DEF Alone, Solo
  <2>5. Ground(at, x, m)'
    BY <2>2, <2>4, GroundStays DEF OnlyOwn
  <2>. QED
    BY <2>1, <2>3, <2>5 DEF Worked, Ground
<1>2. Worked(worker[w])'
  <2>1. worker'[w].command.execution = e /\ worker'[w].node = n /\ Position(worker'[w]) = label
    BY DEF Moved, Of
  <2>. QED
    BY <2>1 DEF Worked, Ground
<1>. QED
  BY <1>1, <1>2

\* What a step of the invariant comes to.
Agreeing ==
  /\ \A e \in Executions : Solo(e)'
  /\ \A w \in Workers : Worked(worker[w])'
  /\ RowsAgree'

\* A delivery moves on and leaves executions and rows alone.
LEMMA QuietMove ==
  ASSUME Alone, NEW w \in Workers, NEW label, NEW n, Moved(w, label, n),
         UNCHANGED <<ready, delayed, request, execution, nodeRow>>,
         NEW e, e = Of(w), Ground(label, e, n)
  PROVE  Agreeing
<1>1. Ground(label, e, n)' /\ OnlyOwn(e) /\ RowsAgree'
  BY DEF Ground, OnlyOwn, Alone, RowsAgree
<1>. QED
  BY <1>1, SoloMoved, WorkedMoved DEF Agreeing, Alone, Setting

\* The labels that say nothing about the rows of the nodes.
LEMMA NoGround ==
  ASSUME NEW label, label \notin RunLabels, NEW e, NEW n
  PROVE  Ground(label, e, n) /\ Ground(label, e, n)'
BY DEF Ground, RunLabels, NodeLabels

\* From one label of the loop to another, at the same node.
LEMMA GroundMoves ==
  ASSUME NEW e, NEW n, NEW from \in NodeLabels, Ground(from, e, n),
         NEW to \in NodeLabels \ {"PersistNodeCompleted", "NextNode"}
  PROVE  Ground(to, e, n)
BY DEF Ground, RunLabels, NodeLabels

LEMMA ThrowAgrees ==
  ASSUME Alone, NEW w \in Workers, worker[w].pc \notin DoneLabels, NEW retryable,
         Throw(w, retryable), UNCHANGED <<ready, delayed, request, execution, nodeRow>>
  PROVE  Agreeing
<1>1. PICK e, n, label, to : /\ e = Of(w) /\ n = worker[w].node /\ label = Position(worker[w])
                             /\ to = worker[w].rescue
  OBVIOUS
<1>2. Moved(w, to, n) /\ to \in Catches
  BY <1>1, Movements, WorkerFacts DEF Alone, Setting, Deliveries
<1>3. Ground(label, e, n) /\ (to = "FailNode" => label \in TryLabels)
  BY <1>1, OldClaim DEF Alone, Worked, Of
<1>4. Ground(to, e, n)
  <2>1. CASE to = "FailNode"
    BY <1>3, <2>1, GroundMoves DEF TryLabels, NodeLabels
  <2>2. CASE to # "FailNode"
    BY <1>2, <2>2, NoGround DEF Catches, RunLabels, NodeLabels
  <2>. QED
    BY <2>1, <2>2
<1>. QED
  BY <1>1, <1>2, <1>4, QuietMove

\* A worker that lets go of its delivery.
LEMMA WorkedLetGo ==
  ASSUME Alone, NEW w \in Workers, NEW d, worker' = [worker EXCEPT ![w] = d],
         Position(d) \notin RunLabels, UNCHANGED <<execution, nodeRow>>
  PROVE  (\A v \in Workers : Worked(worker[v])') /\ RowsAgree'
<1>1. worker'[w] = d /\ \A v \in Workers : v # w => worker'[v] = worker[v]
  BY WorkerFacts DEF Alone, Setting
<1>2. ASSUME NEW v \in Workers
      PROVE  Worked(worker[v])'
  <2>1. CASE v # w
    BY <1>1, <2>1 DEF Alone, Worked, Ground
  <2>2. CASE v = w
    BY <1>1, <2>2 DEF Worked, Ground, RunLabels, NodeLabels
  <2>. QED
    BY <2>1, <2>2
<1>. QED
  BY <1>2 DEF Alone, RowsAgree

-----------------------------------------------------------------------------
(* The steps.                                                              *)

\* Where the worker that moves is, and what it has done there.
LEMMA HereAlone ==
  ASSUME Alone, NEW w \in Workers, worker[w].pc \notin DispatchLabels \cup {"Idle", "Down"},
         NEW e, e = Of(w), NEW n, n = worker[w].node, NEW label, label = worker[w].pc
  PROVE  /\ e \in Executions /\ n \in 0..NodeCount /\ 0 \in 0..NodeCount
         /\ Ground(label, e, n) /\ Claim(label, e, n)
         /\ label \in NodeLabels => n \in Nodes
         /\ execution \in [Executions -> Statuses] /\ execution[e] # "NONE"
         /\ nodeRow \in [Executions -> [Nodes -> NodeRows]]
<1>1. label = Position(worker[w])
  BY DEF Position, DispatchLabels
<1>2. Ground(label, e, n)
  BY <1>1 DEF Alone, Worked, Of
<1>3. /\ e \in Executions /\ n \in 0..NodeCount /\ Claim(label, e, n)
      /\ label \in NodeLabels => n \in Nodes
  BY <1>1, OldClaim DEF Alone
<1>4. IInv
  BY DEF Alone, Setting
<1>. QED
  BY <1>2, <1>3, <1>4, Handled, WorkerAssumption DEF IInv, TypeInv, TypeOK

\* processWorkflowExecution, but for what changes the execution.
LEMMA AgreeProcess ==
  ASSUME Alone, NEW w \in Workers,
         \/ FindExecution(w) \/ BeginConflict(w) \/ RereadExecution(w) \/ PersistStarted(w)
         \/ CompletionMissed(w) \/ CompletionConflict(w)
  PROVE  Agreeing
<1>. DEFINE Places == {"FindExecution", "BeginExecution", "RereadExecution", "PersistStarted",
                       "CompleteExecution", "CompletionConflict"}
<1>1. worker[w].pc \in Places
  BY DEF At, FindExecution, BeginConflict, RereadExecution, PersistStarted, CompletionMissed,
         CompletionConflict
<1>2. UNCHANGED <<ready, delayed, request, execution, nodeRow>>
  BY DEF FindExecution, BeginConflict, RereadExecution, PersistStarted, CompletionMissed,
         CompletionConflict, queues
<1>3. PICK e, n, label : e = Of(w) /\ n = worker[w].node /\ label = worker[w].pc
  OBVIOUS
<1>4. worker[w].pc \notin DoneLabels \cup DispatchLabels \cup {"Idle", "Down"}
  BY <1>1 DEF DoneLabels, DispatchLabels
<1>5. /\ e \in Executions /\ n \in 0..NodeCount /\ 0 \in 0..NodeCount
      /\ Ground(label, e, n) /\ Claim(label, e, n)
      /\ execution \in [Executions -> Statuses] /\ execution[e] # "NONE"
  BY <1>3, <1>4, HereAlone
<1>6. ASSUME NEW to, Moved(w, to, n),
             to \in RunLabels =>
               to \in {"PrepareNodes", "PersistStarted"} /\ execution[e] = "RUNNING"
      PROVE  Agreeing
  <2>1. Ground(to, e, n)
    BY <1>6 DEF Ground, NodeLabels, RunLabels
  <2>. QED
    BY <1>2, <1>3, <1>6, <2>1, QuietMove
<1>7. ASSUME NEW to \in {"Ack"}, FlushPending(w, to)
      PROVE  Agreeing
  <2>1. to \in Returns /\ to \notin RunLabels
    BY DEF Returns, RunLabels, NodeLabels
  <2>2. Moved(w, to, n)
    BY <1>3, <1>4, <1>7, <2>1, Movements DEF Alone, Setting
  <2>. QED
    BY <1>6, <2>1, <2>2
<1>8. ASSUME NEW to \in {"BeginExecution", "RereadExecution", "CompletionConflict",
                        "PrepareNodes", "PersistStarted"},
             Goto(w, to), to \in {"PrepareNodes", "PersistStarted"} => execution[e] = "RUNNING"
      PROVE  Agreeing
  <2>1. to \in Labels \ DispatchLabels
    BY DEF Labels, DispatchLabels
  <2>2. Moved(w, to, n)
    BY <1>3, <1>4, <1>8, <2>1, Movements DEF Alone, Setting
  <2>3. to \in RunLabels => to \in {"PrepareNodes", "PersistStarted"}
    BY DEF RunLabels, NodeLabels
  <2>. QED
    BY <1>6, <1>8, <2>2, <2>3
<1>9. execution[e] \notin Terminal \cup {"PENDING"} => execution[e] = "RUNNING"
  BY <1>5 DEF Statuses, Terminal
<1>10. CASE FindExecution(w)
  BY <1>3, <1>7, <1>8, <1>9, <1>10 DEF FindExecution
<1>11. CASE BeginConflict(w) \/ CompletionMissed(w)
  BY <1>8, <1>11 DEF BeginConflict, CompletionMissed
<1>12. CASE RereadExecution(w)
  <2>1. execution[e] # "PENDING"
    BY <1>3, <1>5, <1>12 DEF RereadExecution, At, Claim
  <2>. QED
    BY <1>3, <1>7, <1>8, <1>9, <1>12, <2>1 DEF RereadExecution
<1>13. CASE PersistStarted(w)
  <2>1. execution[e] = "RUNNING"
    BY <1>3, <1>5, <1>13 DEF PersistStarted, At, Ground, RunLabels
  <2>2. Key("started", e, 0) \in Keys /\ "PrepareNodes" \in Returns
    BY <1>5, KeyType DEF Returns
  <2>3. Moved(w, "PrepareNodes", n)
    BY <1>3, <1>4, <1>13, <2>2, Movements DEF PersistStarted, Alone, Setting
  <2>. QED
    BY <1>6, <2>1, <2>3
<1>14. CASE CompletionConflict(w)
  <2>1. CASE Throw(w, TRUE)
    BY <1>2, <1>4, <2>1, ThrowAgrees
  <2>. QED
    BY <1>3, <1>7, <1>14, <2>1 DEF CompletionConflict
<1>. QED
  BY <1>10, <1>11, <1>12, <1>13, <1>14

\* A step that moves the execution, or the row of the node it is at.
LEMMA LoudMove ==
  ASSUME Alone, NEW w \in Workers, NEW label, NEW n, Moved(w, label, n),
         UNCHANGED <<ready, delayed, request>>,
         NEW e \in Executions, e = Of(w), Ground(label, e, n)', OnlyOwn(e),
         execution'[e] = "SUCCEEDED" => \A m \in Nodes : nodeRow'[e][m].status = "SUCCEEDED"
  PROVE  Agreeing
<1>1. RowsAgree'
  BY DEF Alone, RowsAgree, OnlyOwn
<1>. QED
  BY <1>1, SoloMoved, WorkedMoved DEF Agreeing, Alone, Setting

\* What changes the execution.
LEMMA AgreeStatus ==
  ASSUME Alone, NEW w \in Workers,
         BeginExecution(w) \/ CompleteExecution(w) \/ FailExecution(w)
  PROVE  Agreeing
<1>1. worker[w].pc \in {"BeginExecution", "CompleteExecution", "FailExecution"}
  BY DEF At, BeginExecution, CompleteExecution, FailExecution
<1>2. UNCHANGED <<ready, delayed, request, nodeRow>>
  BY DEF BeginExecution, CompleteExecution, FailExecution, queues
<1>3. PICK e, n, label : e = Of(w) /\ n = worker[w].node /\ label = worker[w].pc
  OBVIOUS
<1>4. worker[w].pc \notin DoneLabels \cup DispatchLabels \cup {"Idle", "Down"}
  BY <1>1 DEF DoneLabels, DispatchLabels
<1>5. /\ e \in Executions /\ n \in 0..NodeCount /\ 0 \in 0..NodeCount
      /\ Ground(label, e, n) /\ execution \in [Executions -> Statuses]
  BY <1>3, <1>4, HereAlone
<1>6. ASSUME NEW kind \in {"started", "completed", "failed"}, NEW to \in Returns,
             Emit(w, Key(kind, e, 0), to)
      PROVE  Moved(w, to, n)
  <2>1. Key(kind, e, 0) \in Keys
    BY <1>5, KeyType
  <2>. QED
    BY <1>3, <1>4, <1>6, <2>1, Movements DEF Alone, Setting
<1>7. OnlyOwn(e)
  BY <1>2, <1>3, <1>5 DEF BeginExecution, CompleteExecution, FailExecution, OnlyOwn
<1>8. CASE BeginExecution(w)
  <2>1. Moved(w, "PrepareNodes", n) /\ execution'[e] = "RUNNING"
    BY <1>3, <1>5, <1>6, <1>8 DEF BeginExecution, Returns
  <2>2. Ground("PrepareNodes", e, n)'
    BY <2>1 DEF Ground, NodeLabels
  <2>. QED
    BY <1>2, <1>3, <1>5, <1>7, <2>1, <2>2, LoudMove
<1>9. CASE CompleteExecution(w)
  <2>1. Moved(w, "Ack", n) /\ label = "CompleteExecution"
    BY <1>3, <1>6, <1>9 DEF CompleteExecution, Returns, At
  <2>2. \A m \in Nodes : nodeRow'[e][m].status = "SUCCEEDED"
    BY <1>2, <1>5, <2>1 DEF Ground
  <2>3. Ground("Ack", e, n)'
    BY NoGround DEF RunLabels, NodeLabels
  <2>. QED
    BY <1>2, <1>3, <1>5, <1>7, <2>1, <2>2, <2>3, LoudMove
<1>10. CASE FailExecution(w)
  <2>1. Moved(w, "DeadLetter", n) /\ execution'[e] = "FAILED"
    BY <1>3, <1>5, <1>6, <1>10 DEF FailExecution, Returns
  <2>2. Ground("DeadLetter", e, n)'
    BY NoGround DEF RunLabels, NodeLabels
  <2>. QED
    BY <1>2, <1>3, <1>5, <1>7, <2>1, <2>2, LoudMove
<1>. QED
  BY <1>8, <1>9, <1>10

\* executeWorkflowNodes, but for what changes a row.
LEMMA AgreeNodes ==
  ASSUME Alone, NEW w \in Workers,
         \/ PrepareNodes(w) \/ PersistNodeStarted(w) \/ ExecuteNode(w)
         \/ PersistNodeCompleted(w) \/ NextNode(w) \/ PersistNodeFailed(w)
  PROVE  Agreeing
<1>1. worker[w].pc \in NodeLabels \cup {"PrepareNodes"}
  BY DEF At, PrepareNodes, PersistNodeStarted, ExecuteNode, PersistNodeCompleted, NextNode,
         PersistNodeFailed, NodeLabels
<1>2. UNCHANGED <<ready, delayed, request, execution, nodeRow>>
  BY DEF PrepareNodes, PersistNodeStarted, ExecuteNode, PersistNodeCompleted, NextNode,
         PersistNodeFailed, queues
<1>3. PICK e, n, label : e = Of(w) /\ n = worker[w].node /\ label = worker[w].pc
  OBVIOUS
<1>4. worker[w].pc \notin DoneLabels \cup DispatchLabels \cup {"Idle", "Down"}
  BY <1>1 DEF DoneLabels, DispatchLabels, NodeLabels
<1>5. /\ e \in Executions /\ n \in 0..NodeCount /\ Ground(label, e, n)
      /\ label \in NodeLabels => n \in Nodes
  BY <1>3, <1>4, HereAlone
<1>6. worker \in [Workers -> Deliveries]
  BY WorkerFacts DEF Alone, Setting
<1>7. ASSUME NEW kind \in {"started", "completed", "failed"}, NEW to \in Returns,
             Emit(w, Key(kind, e, n), to)
      PROVE  Moved(w, to, n)
  <2>1. Key(kind, e, n) \in Keys
    BY <1>5, KeyType
  <2>. QED
    BY <1>3, <1>4, <1>7, <2>1, Movements DEF Alone, Setting
<1>8. CASE PrepareNodes(w)
  <2>1. CASE \E retryable \in BOOLEAN : Throw(w, retryable)
    BY <1>2, <1>4, <2>1, ThrowAgrees
  <2>2. CASE worker' = [worker EXCEPT ![w].pc = "StartNode", ![w].node = 1]
    <3>1. Moved(w, "StartNode", 1)
      BY <1>4, <1>6, <2>2 DEF Moved, Position, Deliveries
    <3>2. execution[e] = "RUNNING"
      BY <1>3, <1>5, <1>8 DEF PrepareNodes, At, Ground, RunLabels
    <3>3. Ground("StartNode", e, 1)
      BY <3>2 DEF Ground, RunLabels, NodeLabels
    <3>. QED
      BY <1>2, <1>3, <3>1, <3>3, QuietMove
  <2>. QED
    BY <1>8, <2>1, <2>2 DEF PrepareNodes
<1>9. CASE PersistNodeStarted(w)
  <2>1. Moved(w, "ExecuteNode", n) /\ label = "PersistNodeStarted"
    BY <1>3, <1>7, <1>9 DEF PersistNodeStarted, At, Returns
  <2>2. Ground("ExecuteNode", e, n)
    BY <1>5, <2>1, GroundMoves DEF NodeLabels
  <2>. QED
    BY <1>2, <1>3, <2>1, <2>2, QuietMove
<1>10. CASE ExecuteNode(w)
  <2>1. PICK to \in {"CompleteNode", "FailNode"} : Moved(w, to, n)
    BY <1>3, <1>4, <1>6, <1>10 DEF ExecuteNode, Moved, Position, Deliveries
  <2>2. label = "ExecuteNode"
    BY <1>3, <1>10 DEF ExecuteNode, At
  <2>3. Ground(to, e, n)
    BY <1>5, <2>2, GroundMoves DEF NodeLabels
  <2>. QED
    BY <1>2, <1>3, <2>1, <2>3, QuietMove
<1>11. CASE PersistNodeCompleted(w)
  <2>1. Moved(w, "NextNode", n) /\ label = "PersistNodeCompleted"
    BY <1>3, <1>7, <1>11 DEF PersistNodeCompleted, At, Returns
  <2>2. Ground("NextNode", e, n)
    BY <1>5, <2>1 DEF Ground, RunLabels, NodeLabels
  <2>. QED
    BY <1>2, <1>3, <2>1, <2>2, QuietMove
<1>12. CASE NextNode(w)
  <2>1. label = "NextNode" /\ n \in Nodes
    BY <1>3, <1>5, <1>12 DEF NextNode, At, NodeLabels
  <2>2. /\ execution[e] = "RUNNING"
        /\ \A m \in 1..(n - 1) : nodeRow[e][m].status = "SUCCEEDED"
        /\ nodeRow[e][n].status = "SUCCEEDED"
    BY <1>5, <2>1 DEF Ground, RunLabels, NodeLabels
  <2>3. \A m \in 1..n : nodeRow[e][m].status = "SUCCEEDED"
    <3>1. \A m \in 1..n : m \in 1..(n - 1) \/ m = n
      BY <2>1, WorkerAssumption DEF Nodes
    <3>. QED
      BY <2>2, <3>1
  <2>4. CASE n = NodeCount
    <3>1. Moved(w, "CompleteExecution", n)
      BY <1>3, <1>4, <1>6, <1>12, <2>4 DEF NextNode, Moved, Position, Deliveries
    <3>2. Ground("CompleteExecution", e, n)
      BY <2>2, <2>3, <2>4 DEF Ground, RunLabels, NodeLabels, Nodes
    <3>. QED
      BY <1>2, <1>3, <3>1, <3>2, QuietMove
  <2>5. CASE n # NodeCount
    <3>1. Moved(w, "StartNode", n + 1)
      BY <1>3, <1>4, <1>6, <1>12, <2>5 DEF NextNode, Moved, Position, Deliveries
    <3>2. (n + 1) - 1 = n
      BY <2>1, WorkerAssumption DEF Nodes
    <3>3. Ground("StartNode", e, n + 1)
      BY <2>2, <2>3, <3>2 DEF Ground, RunLabels, NodeLabels
    <3>. QED
      BY <1>2, <1>3, <3>1, <3>3, QuietMove
  <2>. QED
    BY <2>4, <2>5
<1>13. CASE PersistNodeFailed(w)
  <2>1. Moved(w, "HandleFailure", n)
    BY <1>3, <1>7, <1>13 DEF PersistNodeFailed, Returns
  <2>2. Ground("HandleFailure", e, n)
    BY NoGround DEF RunLabels, NodeLabels
  <2>. QED
    BY <1>2, <1>3, <2>1, <2>2, QuietMove
<1>. QED
  BY <1>8, <1>9, <1>10, <1>11, <1>12, <1>13

\* What changes the row of the node.
LEMMA AgreeRows ==
  ASSUME Alone, NEW w \in Workers, StartNode(w) \/ CompleteNode(w) \/ FailNode(w)
  PROVE  Agreeing
<1>1. worker[w].pc \in {"StartNode", "CompleteNode", "FailNode"}
  BY DEF At, StartNode, CompleteNode, FailNode
<1>2. UNCHANGED <<ready, delayed, request, execution>>
  BY DEF StartNode, CompleteNode, FailNode, queues
<1>3. PICK e, n, label : e = Of(w) /\ n = worker[w].node /\ label = worker[w].pc
  OBVIOUS
<1>4. worker[w].pc \notin DoneLabels \cup DispatchLabels \cup {"Idle", "Down"}
  BY <1>1 DEF DoneLabels, DispatchLabels
<1>5. /\ e \in Executions /\ n \in 0..NodeCount /\ Ground(label, e, n)
      /\ label \in NodeLabels => n \in Nodes
      /\ nodeRow \in [Executions -> [Nodes -> NodeRows]]
  BY <1>3, <1>4, HereAlone
<1>6. PICK row : nodeRow' = [nodeRow EXCEPT ![e][n] = row]
  BY <1>3 DEF StartNode, CompleteNode, FailNode
<1>7. /\ n \in Nodes /\ execution'[e] = "RUNNING"
      /\ \A m \in 1..(n - 1) : nodeRow[e][m].status = "SUCCEEDED"
  BY <1>1, <1>2, <1>3, <1>5 DEF Ground, RunLabels, NodeLabels
<1>8. OnlyOwn(e)
  BY <1>2, <1>5, <1>6 DEF OnlyOwn
<1>9. \A m \in 1..(n - 1) : nodeRow'[e][m].status = "SUCCEEDED"
  <2>1. \A m \in 1..(n - 1) : m \in Nodes /\ m # n
    BY <1>7, WorkerAssumption DEF Nodes
  <2>. QED
    BY <1>5, <1>6, <1>7, <2>1
<1>10. ASSUME NEW to \in {"PersistNodeStarted", "PersistNodeCompleted", "PersistNodeFailed"},
              Goto(w, to), to = "PersistNodeCompleted" => row.status = "SUCCEEDED"
       PROVE  Agreeing
  <2>1. to \in Labels \ DispatchLabels
    BY DEF Labels, DispatchLabels
  <2>2. Moved(w, to, n)
    BY <1>3, <1>4, <1>10, <2>1, Movements DEF Alone, Setting
  <2>3. nodeRow'[e][n] = row
    BY <1>5, <1>6, <1>7
  <2>4. Ground(to, e, n)'
    BY <1>7, <1>9, <1>10, <2>3 DEF Ground, RunLabels, NodeLabels
  <2>. QED
    BY <1>2, <1>3, <1>5, <1>7, <1>8, <2>2, <2>4, LoudMove
<1>11. CASE StartNode(w) \/ FailNode(w)
  BY <1>10, <1>11 DEF StartNode, FailNode
<1>12. CASE CompleteNode(w)
  <2>1. nodeRow' = [nodeRow EXCEPT ![e][n] = NodeStatus("SUCCEEDED")]
    BY <1>3, <1>12 DEF CompleteNode
  <2>2. nodeRow'[e][n] = row /\ nodeRow'[e][n] = NodeStatus("SUCCEEDED")
    BY <1>5, <1>6, <1>7, <2>1
  <2>3. row.status = "SUCCEEDED"
    BY <2>2 DEF NodeStatus
  <2>. QED
    BY <1>10, <1>12, <2>3 DEF CompleteNode
<1>. QED
  BY <1>11, <1>12

\* The catch block of handleDelivery, where deliveries end.
LEMMA AgreeFailure ==
  ASSUME Alone, NEW w \in Workers,
         \/ RetryCommand(w) \/ GiveUp(w) \/ FailureMissed(w) \/ FailureConflict(w)
         \/ DeadLetter(w) \/ Ack(w) \/ Nack(w)
  PROVE  Agreeing
<1>1. worker[w].pc \in {"HandleFailure", "FailExecution", "FailureConflict", "DeadLetter",
                       "Ack", "Nack"}
  BY DEF At, RetryCommand, GiveUp, FailureMissed, FailureConflict, DeadLetter, Ack, Nack
<1>2. UNCHANGED <<request, execution, nodeRow>>
  BY DEF RetryCommand, GiveUp, FailureMissed, FailureConflict, DeadLetter, Ack, Nack
<1>3. PICK e, n : e = Of(w) /\ n = worker[w].node
  OBVIOUS
<1>4. /\ e \in Executions /\ worker[w].command \in Commands /\ IInv
      /\ worker \in [Workers -> Deliveries] /\ worker[w].command.execution = e
  BY <1>3, DeliveryType, WorkerFacts DEF Alone, Setting, IInv, Of
<1>5. ASSUME NEW to, to \notin RunLabels, Moved(w, to, n), UNCHANGED <<ready, delayed>>
      PROVE  Agreeing
  <2>1. Ground(to, e, n)
    BY <1>5, NoGround
  <2>. QED
    BY <1>2, <1>3, <1>5, <2>1, QuietMove
<1>6. CASE GiveUp(w)
  <2>1. Moved(w, "FailExecution", n)
    BY <1>3, <1>4, <1>6 DEF GiveUp, At, Moved, Position, Deliveries, DoneLabels
  <2>. QED
    BY <1>5, <1>6, <2>1 DEF GiveUp, queues, RunLabels, NodeLabels
<1>7. ASSUME NEW to \in {"FailureConflict", "Ack"}, Goto(w, to), UNCHANGED <<ready, delayed>>,
             worker[w].pc # "Ack"
      PROVE  Agreeing
  <2>1. to \in Labels \ DispatchLabels /\ worker[w].pc \notin DoneLabels
    BY <1>1, <1>7 DEF Labels, DispatchLabels, DoneLabels
  <2>2. Moved(w, to, n)
    BY <1>3, <1>4, <1>7, <2>1, Movements
  <2>3. to \notin RunLabels
    BY DEF RunLabels, NodeLabels
  <2>. QED
    BY <1>5, <1>7, <2>2, <2>3
<1>8. CASE FailureMissed(w) \/ DeadLetter(w)
  BY <1>7, <1>8 DEF FailureMissed, DeadLetter, queues, At
<1>9. CASE FailureConflict(w)
  <2>1. worker[w].pc \notin DoneLabels /\ UNCHANGED <<ready, delayed>>
    BY <1>9 DEF FailureConflict, At, DoneLabels, queues
  <2>2. CASE Throw(w, TRUE)
    BY <1>2, <2>1, <2>2, ThrowAgrees
  <2>3. CASE FlushPending(w, "DeadLetter")
    <3>1. Moved(w, "DeadLetter", n)
      BY <1>3, <1>4, <2>1, <2>3, Movements DEF Returns
    <3>. QED
      BY <1>5, <2>1, <3>1 DEF RunLabels, NodeLabels
  <2>. QED
    BY <1>9, <2>2, <2>3 DEF FailureConflict
<1>10. ASSUME NEW d, worker' = [worker EXCEPT ![w] = d], d.pc \in DoneLabels,
              \A x \in Executions : Solo(x)'
       PROVE  Agreeing
  <2>1. Position(d) \notin RunLabels
    BY <1>10 DEF Position, DoneLabels, RunLabels, NodeLabels
  <2>. QED
    BY <1>2, <1>10, <2>1, WorkedLetGo DEF Agreeing
<1>11. ASSUME NEW d, worker' = [worker EXCEPT ![w] = d], d.pc \in DoneLabels
       PROVE  /\ \A v \in Workers, x \in Executions : Holds(v, x)' => Holds(v, x)
              /\ \A x \in Executions : ~Holds(w, x)'
              /\ worker[w].pc \notin DoneLabels =>
                   ~Copies(e) /\ request[e] = "published" /\ \A v \in Workers : ~Holds(v, e)'
  <2>1. worker'[w] = d /\ \A v \in Workers : v # w => worker'[v] = worker[v]
    BY <1>4, <1>11
  <2>2. \A v \in Workers, x \in Executions : Holds(v, x)' => Holds(v, x) /\ v # w
    BY <1>11, <2>1 DEF Holds, Of, DoneLabels
  <2>3. worker[w].pc \notin DoneLabels => Holds(w, e)
    BY <1>3 DEF Holds, DoneLabels
  <2>4. worker[w].pc \notin DoneLabels =>
          ~Copies(e) /\ request[e] = "published" /\ \A v \in Workers : ~Holds(v, e)'
    BY <1>4, <2>2, <2>3 DEF Alone, Solo
  <2>. QED
    BY <2>2, <2>4
<1>12. CASE Ack(w)
  <2>1. worker' = [worker EXCEPT ![w] = IdleWorker] /\ IdleWorker.pc \in DoneLabels
    BY <1>12 DEF Ack, IdleWorker, DoneLabels
  <2>2. UNCHANGED <<ready, delayed>>
    BY <1>12 DEF Ack, queues
  <2>3. \A x \in Executions : Solo(x)'
    BY <1>2, <1>11, <2>1, <2>2, SoloQuiet DEF Alone
  <2>. QED
    BY <1>10, <2>1, <2>3
<1>13. CASE Nack(w)
  <2>1. worker' = [worker EXCEPT ![w] = IdleWorker] /\ IdleWorker.pc \in DoneLabels
    BY <1>13 DEF Nack, IdleWorker, DoneLabels
  <2>2. /\ ready' = [ready EXCEPT ![worker[w].command] = @ + 1] /\ UNCHANGED delayed
        /\ worker[w].pc \notin DoneLabels
    BY <1>13 DEF Nack, At, DoneLabels
  <2>3. \A x \in Executions : Solo(x)'
    BY <1>2, <1>4, <1>11, <2>1, <2>2, SoloCopy DEF Alone
  <2>. QED
    BY <1>10, <2>1, <2>3
<1>14. CASE RetryCommand(w)
  <2>1. PICK d : d = [worker[w] EXCEPT !.pc = "Ack"]
    OBVIOUS
  <2>2. worker' = [worker EXCEPT ![w] = d] /\ d.pc \in DoneLabels
    BY <1>4, <1>14, <2>1 DEF RetryCommand, Goto, Deliveries, DoneLabels
  <2>3. PICK c : c = [worker[w].command EXCEPT !.attempt = @ + 1]
    OBVIOUS
  <2>4. c \in Commands /\ c.execution = e
    <3>1. worker[w].command.attempt < MaxRetryAttempts /\ MaxRetryAttempts \in Nat
      BY <1>14, WorkerAssumption DEF RetryCommand, MayRetry
    <3>. QED
      BY <1>4, <2>3, <3>1 DEF Commands
  <2>5. /\ delayed' = [delayed EXCEPT ![c] = @ + 1] /\ UNCHANGED ready
        /\ worker[w].pc \notin DoneLabels
    BY <1>14, <2>3 DEF RetryCommand, At, DoneLabels
  <2>6. \A x \in Executions : Solo(x)'
    BY <1>2, <1>4, <1>11, <2>2, <2>4, <2>5, SoloCopy DEF Alone
  <2>. QED
    BY <1>10, <2>2, <2>6
<1>. QED
  BY <1>6, <1>8, <1>9, <1>12, <1>13, <1>14

\* Dispatching.
LEMMA AgreeDispatch ==
  ASSUME Alone, NEW w \in Workers,
         \/ FindPending(w) \/ Publish(w) \/ RecordPublished(w) \/ RecordPublishFailure(w)
         \/ PublishFails(w)
  PROVE  Agreeing
<1>1. worker[w].pc \in DispatchLabels /\ worker[w].pc \notin DoneLabels
  BY DEF At, FindPending, Publish, RecordPublished, RecordPublishFailure, PublishFails,
         DispatchLabels, DoneLabels
<1>2. UNCHANGED <<ready, delayed, request, execution, nodeRow>>
  BY DEF FindPending, Publish, RecordPublished, RecordPublishFailure, PublishFails, queues
<1>3. IInv /\ worker \in [Workers -> Deliveries]
  BY WorkerFacts DEF Alone, Setting
<1>4. ASSUME NEW d, worker' = [worker EXCEPT ![w] = d],
             d.pc \in DispatchLabels \cup {worker[w].next},
             d.command = worker[w].command, d.node = worker[w].node, d.next = worker[w].next
      PROVE  Agreeing
  <2>1. PICK e, n, label : e = Of(w) /\ n = worker[w].node /\ label = Position(worker[w])
    OBVIOUS
  <2>2. Moved(w, label, n)
    BY <1>1, <1>3, <1>4, <2>1, DispatchMoves
  <2>3. Ground(label, e, n)
    BY <2>1 DEF Alone, Worked, Of
  <2>. QED
    BY <1>2, <2>1, <2>2, <2>3, QuietMove
<1>5. CASE RecordPublishFailure(w)
  BY <1>1, <1>2, <1>5, ThrowAgrees DEF RecordPublishFailure
<1>6. ASSUME NEW to, NEW b, to \in DispatchLabels \cup {worker[w].next},
             worker' = [worker EXCEPT ![w].batch = b, ![w].pc = to]
      PROVE  Agreeing
  <2>1. PICK d : d = [worker[w] EXCEPT !.batch = b, !.pc = to]
    OBVIOUS
  <2>2. /\ d.pc = to /\ d.command = worker[w].command /\ d.node = worker[w].node
        /\ d.next = worker[w].next
    BY <1>3, <2>1 DEF Deliveries
  <2>3. worker' = [worker EXCEPT ![w] = d]
    BY <1>3, <1>6, <2>1
  <2>. QED
    BY <1>4, <1>6, <2>2, <2>3
<1>7. ASSUME NEW to \in {"RecordPublished", "RecordPublishFailure"}, Goto(w, to)
      PROVE  Agreeing
  <2>1. PICK d : d = [worker[w] EXCEPT !.pc = to]
    OBVIOUS
  <2>2. /\ d.pc = to /\ d.command = worker[w].command /\ d.node = worker[w].node
        /\ d.next = worker[w].next
    BY <1>3, <2>1 DEF Deliveries
  <2>3. worker' = [worker EXCEPT ![w] = d] /\ to \in DispatchLabels
    BY <1>7, <2>1 DEF Goto, DispatchLabels
  <2>. QED
    BY <1>4, <2>2, <2>3
<1>8. ASSUME NextInBatch(w)
      PROVE  Agreeing
  <2>1. PICK b, to : /\ b = Tail(worker[w].batch)
                     /\ to = IF Len(worker[w].batch) = 1 THEN worker[w].next ELSE "Publish"
    OBVIOUS
  <2>2. worker' = [worker EXCEPT ![w].batch = b, ![w].pc = to]
    BY <1>3, <1>8, <2>1 DEF NextInBatch
  <2>3. to \in DispatchLabels \cup {worker[w].next}
    BY <2>1 DEF DispatchLabels
  <2>. QED
    BY <1>6, <2>2, <2>3
<1>9. CASE FindPending(w)
  <2>1. PICK b, to : /\ worker' = [worker EXCEPT ![w].batch = b, ![w].pc = to]
                     /\ to \in {worker[w].next, "Publish"}
    BY <1>9 DEF FindPending
  <2>. QED
    BY <1>6, <2>1 DEF DispatchLabels
<1>10. CASE Publish(w) \/ RecordPublished(w) \/ PublishFails(w)
  BY <1>7, <1>8, <1>10 DEF Publish, RecordPublished, PublishFails
<1>. QED
  BY <1>5, <1>9, <1>10

\* The API, the broker, and what leaves deliveries alone.
LEMMA AgreeOutside ==
  ASSUME Alone,
         \/ Api \/ (\E c \in Commands : RetryDue(c) \/ \E w \in Workers : Deliver(w, c))
         \/ (\E w \in Workers : Restart(w))
         \/ (\E d \in Dispatchers : Dispatch(d) \/ DispatcherDatabaseError(d))
         \/ UNCHANGED vars
  PROVE  Agreeing
<1>1. IInv /\ worker \in [Workers -> Deliveries]
  BY DEF Alone, Setting, IInv, TypeInv, TypeOK
<1>2. ASSUME UNCHANGED <<worker, execution, nodeRow>>, \A x \in Executions : Solo(x)'
      PROVE  Agreeing
  BY <1>2 DEF Agreeing, Alone, Worked, Ground, RowsAgree
<1>3. ASSUME UNCHANGED <<worker, ready, delayed>>,
             \A x \in Executions : request[x] = "published" => request'[x] = "published"
      PROVE  \A x \in Executions : Solo(x)'
  BY <1>3, SoloQuiet DEF Alone, Holds, Of
<1>4. ASSUME NEW e \in Executions, PublishCommand(e)
      PROVE  Agreeing
  <2>1. PICK c : c = [execution |-> e, attempt |-> 0]
    OBVIOUS
  <2>2. c \in Commands /\ c.execution = e
    BY <2>1, WorkerAssumption DEF Commands
  <2>3. /\ request[e] # "published" /\ request'[e] = "published"
        /\ \A x \in Executions : x # e => request'[x] = request[x]
        /\ ready' = [ready EXCEPT ![c] = @ + 1]
        /\ UNCHANGED <<delayed, worker, execution, nodeRow>>
    BY <1>1, <1>4, <2>1 DEF PublishCommand, IInv, TypeInv, TypeOK
  <2>4. ~Copies(e) /\ \A v \in Workers : ~Holds(v, e)
    BY <2>3 DEF Alone, Solo
  <2>5. \A v \in Workers, x \in Executions : Holds(v, x)' <=> Holds(v, x)
    BY <2>3 DEF Holds, Of
  <2>6. \A x \in Executions : Solo(x)'
    BY <1>1, <2>2, <2>3, <2>4, <2>5, SoloCopy DEF Alone
  <2>. QED
    BY <1>2, <2>3, <2>6
<1>5. ASSUME NEW e \in Executions, LoseCommand(e)
      PROVE  Agreeing
  <2>1. \A x \in Executions : request[x] = "published" => request'[x] = "published"
    BY <1>1, <1>5 DEF LoseCommand, IInv, TypeInv, TypeOK
  <2>. QED
    BY <1>2, <1>3, <1>5, <2>1 DEF LoseCommand, queues
<1>6. ASSUME NEW e \in Executions, RequestExecution(e)
      PROVE  Agreeing
  <2>1. /\ execution \in [Executions -> Statuses] /\ execution[e] = "NONE"
        /\ execution' = [execution EXCEPT ![e] = "PENDING"]
        /\ UNCHANGED <<worker, ready, delayed, nodeRow>>
    BY <1>1, <1>6 DEF RequestExecution, queues, IInv, TypeInv, TypeOK
  <2>2. \A x \in Executions : request[x] = "published" => request'[x] = "published"
    <3>1. request[e] = "none"
      BY <1>1, <2>1 DEF IInv, StaleReadsAreSafe, CommandsAreOfRequests
    <3>. QED
      BY <1>1, <1>6, <3>1 DEF RequestExecution, IInv, TypeInv, TypeOK
  <2>3. ASSUME NEW v \in Workers
        PROVE  Worked(worker[v])'
    <3>1. PICK x, n, label : /\ x = worker[v].command.execution /\ n = worker[v].node
                             /\ label = Position(worker[v])
      OBVIOUS
    <3>2. Ground(label, x, n) /\ x \in Executions
      BY <1>1, <3>1, DeliveryType DEF Alone, Worked, Of, IInv
    <3>3. label \in RunLabels => execution'[x] = execution[x] /\ nodeRow'[x] = nodeRow[x]
      BY <2>1, <3>2 DEF Ground
    <3>4. Ground(label, x, n)'
      BY <3>2, <3>3, GroundStays
    <3>. QED
      BY <2>1, <3>1, <3>4 DEF Worked, Ground
  <2>4. RowsAgree'
    BY <2>1 DEF Alone, RowsAgree
  <2>. QED
    BY <1>3, <2>1, <2>2, <2>3, <2>4 DEF Agreeing
<1>7. ASSUME NEW c \in Commands, RetryDue(c)
      PROVE  Agreeing
  BY <1>1, <1>2, <1>7, SoloRetryDue DEF RetryDue, Alone
<1>8. ASSUME NEW c \in Commands, NEW w \in Workers, Deliver(w, c)
      PROVE  Agreeing
  <2>1. PICK d : d = [IdleWorker EXCEPT !.pc = "FindExecution", !.command = c]
    OBVIOUS
  <2>2. d.pc = "FindExecution"
    BY <2>1 DEF IdleWorker
  <2>3. Position(d) \notin RunLabels
    BY <2>2 DEF Position, RunLabels, NodeLabels
  <2>4. worker' = [worker EXCEPT ![w] = d] /\ UNCHANGED <<execution, nodeRow>>
    BY <1>8, <2>1 DEF Deliver
  <2>5. (\A v \in Workers : Worked(worker[v])') /\ RowsAgree'
    BY <2>3, <2>4, WorkedLetGo
  <2>6. \A x \in Executions : Solo(x)'
    BY <1>1, <1>8, SoloDeliver DEF Alone
  <2>. QED
    BY <2>5, <2>6 DEF Agreeing
<1>9. ASSUME NEW w \in Workers, Restart(w)
      PROVE  Agreeing
  <2>1. PICK d : d = [worker[w] EXCEPT !.pc = "Idle"]
    OBVIOUS
  <2>2. worker' = [worker EXCEPT ![w] = d] /\ d.pc = "Idle"
    BY <1>1, <1>9, <2>1 DEF Restart, Goto, Deliveries
  <2>3. Position(d) \notin RunLabels
    BY <2>2 DEF Position, RunLabels, NodeLabels
  <2>4. UNCHANGED <<ready, delayed, request, execution, nodeRow>>
    BY <1>9 DEF Restart, queues
  <2>5. (\A v \in Workers : Worked(worker[v])') /\ RowsAgree'
    BY <2>2, <2>3, <2>4, WorkedLetGo
  <2>6. \A v \in Workers, x \in Executions : Holds(v, x)' => Holds(v, x)
    <3>1. worker'[w].pc = "Idle" /\ \A v \in Workers : v # w => worker'[v] = worker[v]
      BY <1>1, <2>2
    <3>. QED
      BY <3>1 DEF Holds, Of
  <2>7. \A x \in Executions : Solo(x)'
    BY <2>4, <2>6, SoloQuiet DEF Alone
  <2>. QED
    BY <2>5, <2>7 DEF Agreeing
<1>10. CASE \/ \E d \in Dispatchers : Dispatch(d) \/ DispatcherDatabaseError(d)
            \/ UNCHANGED vars
  <2>1. UNCHANGED <<worker, ready, delayed, request, execution, nodeRow>>
    BY <1>10 DEF Dispatch, FetchPending, DispatchNext, DispatcherRecordsPublished,
                 DispatcherRecordsFailure, DispatcherDatabaseError, queues, vars
  <2>. QED
    BY <1>2, <1>3, <2>1
<1>. QED
  BY <1>4, <1>5, <1>6, <1>7, <1>8, <1>9, <1>10 DEF Api

LEMMA AgreeStep ==
  ASSUME HInv, AgreeInv, [Next]_vars
  PROVE  AgreeInv'
<1>. SUFFICES ASSUME crashes' = 0
              PROVE  Agreeing
  BY DEF AgreeInv, Agreeing
<1>1. crashes = 0 /\ \A w \in Workers : ~Crash(w)
  <2>1. crashes \in Nat /\ (crashes' = crashes \/ crashes' = crashes + 1)
    <3>1. crashes \in Nat
      BY WorkerAssumption DEF HInv, IInv, TypeInv, TypeOK
    <3>2. CASE \E w \in Workers : Process(w)
      BY <3>1, <3>2
      DEF Process, FindExecution, BeginExecution, BeginConflict, RereadExecution, PersistStarted,
          PrepareNodes, StartNode, PersistNodeStarted, ExecuteNode, CompleteNode,
          PersistNodeCompleted, NextNode, FailNode, PersistNodeFailed, CompleteExecution,
          CompletionMissed, CompletionConflict, RetryCommand, GiveUp, FailExecution,
          FailureMissed, FailureConflict, DeadLetter, Ack, Nack, FindPending, Publish,
          RecordPublished, RecordPublishFailure, faults
    <3>3. CASE ~\E w \in Workers : Process(w)
      BY <3>1, <3>3
      DEF Next, Api, RequestExecution, PublishCommand, LoseCommand, RetryDue, Deliver, Break,
          PublishFails, DatabaseError, Crash, Restart, Dispatch, FetchPending, DispatchNext,
          DispatcherRecordsPublished, DispatcherRecordsFailure, DispatcherDatabaseError, faults,
          vars
    <3>. QED
      BY <3>1, <3>2, <3>3
  <2>. QED
    BY <2>1 DEF Crash
<1>2. Alone
  BY <1>1, HistoryStep DEF AgreeInv, Alone
<1>3. ASSUME NEW w \in Workers, DatabaseError(w)
      PROVE  Agreeing
  <2>1. worker[w].pc \notin DoneLabels
    BY <1>3 DEF DatabaseError, DatabaseSteps, DoneLabels
  <2>. QED
    BY <1>2, <1>3, <2>1, ThrowAgrees DEF DatabaseError, queues
<1>4. ASSUME NEW w \in Workers, Process(w) \/ PublishFails(w)
      PROVE  Agreeing
  BY <1>2, <1>4, AgreeProcess, AgreeStatus, AgreeNodes, AgreeRows, AgreeFailure, AgreeDispatch
  DEF Process
<1>. QED
  BY <1>1, <1>2, <1>3, <1>4, AgreeOutside DEF Next, Break

\* Unless a process crashes, one delivery at a time works on an execution, whatever
\* fails and is retried: an execution that SUCCEEDED has no node row that says
\* otherwise (the loop of executeWorkflowNodes, index.ts:589-695, and the update of
\* the execution, 368-437).
THEOREM NodesAlwaysAgree == Spec => []NodesAgree
<1>1. Init => HInv /\ AgreeInv
  <2>. SUFFICES ASSUME Init PROVE HInv /\ AgreeInv
    OBVIOUS
  <2>1. HInv
    BY OutcomeInit, HistoryInit DEF HInv
  <2>2. /\ \A c \in Commands : ready[c] + delayed[c] = 0
        /\ \A w \in Workers : worker[w].pc = "Idle"
        /\ \A e \in Executions : execution[e] = "NONE"
    BY DEF Init, IdleWorker
  <2>3. \A w \in Workers, e \in Executions : ~Holds(w, e)
    BY <2>2 DEF Holds
  <2>4. \A e \in Executions : Solo(e)
    BY <2>2, <2>3 DEF Solo, Copies
  <2>5. \A w \in Workers : Worked(worker[w])
    BY <2>2 DEF Worked, Ground, Position, RunLabels, NodeLabels
  <2>. QED
    BY <2>1, <2>2, <2>4, <2>5 DEF AgreeInv, RowsAgree
<1>2. HInv /\ AgreeInv /\ [Next]_vars => HInv' /\ AgreeInv'
  BY HistoryStep, AgreeStep
<1>3. AgreeInv => NodesAgree
  BY DEF AgreeInv, RowsAgree, NodesAgree
<1>. QED
  BY <1>1, <1>2, <1>3, PTL DEF Spec

=============================================================================
