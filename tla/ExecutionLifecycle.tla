------------------------- MODULE ExecutionLifecycle -------------------------
(***************************************************************************)
(* What the platform promises about one workflow execution: it is          *)
(* requested, it starts, and it ends once, and the lifecycle event that    *)
(* tells the rest of the system is recorded in the very step that changes  *)
(* the status.  There is no worker, no queue and no crash here.            *)
(***************************************************************************)
CONSTANT Executions

VARIABLES status,    \* the status of each execution
          recorded   \* the lifecycle events recorded for each execution

vars == <<status, recorded>>

Init == /\ status = [e \in Executions |-> "NONE"]
        /\ recorded = [e \in Executions |-> {}]

Move(e, to) == status' = [status EXCEPT ![e] = to]

Record(e, event) == recorded' = [recorded EXCEPT ![e] = @ \cup {event}]

Request(e) == /\ status[e] = "NONE"
              /\ Move(e, "PENDING")
              /\ UNCHANGED recorded

Start(e) == /\ status[e] = "PENDING"
            /\ Move(e, "RUNNING")
            /\ Record(e, "started")

Succeed(e) == /\ status[e] = "RUNNING"
              /\ Move(e, "SUCCEEDED")
              /\ Record(e, "completed")

\* An execution may fail before it ever started.
Fail(e) == /\ status[e] \in {"PENDING", "RUNNING"}
           /\ Move(e, "FAILED")
           /\ Record(e, "failed")

Next == \E e \in Executions : Request(e) \/ Start(e) \/ Succeed(e) \/ Fail(e)

Spec == Init /\ [][Next]_vars

=============================================================================
