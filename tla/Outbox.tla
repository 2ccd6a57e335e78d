------------------------------- MODULE Outbox -------------------------------
(***************************************************************************)
(* The rows of the OutboxMessage table and what the execution worker does  *)
(* to one of them: insert it once per idempotency key, mark it published,  *)
(* count a failed publish (apps/execution-worker/src/index.ts).            *)
(*                                                                         *)
(* The payload of a row is left out: an upsert never rewrites it, so the   *)
(* idempotency key identifies the event for good.                          *)
(***************************************************************************)
EXTENDS Naturals

CONSTANT MaxPublishAttempts  \* outboxMaxPublishAttempts, 5 in the code

ASSUME MaxPublishAttemptsAssumption == MaxPublishAttempts \in Nat \ {0}

RowStatuses == {"ABSENT", "PENDING", "PUBLISHED", "FAILED"}

Rows == [status : RowStatuses, attempts : Nat]

\* No row has the key yet.
AbsentRow == [status |-> "ABSENT", attempts |-> 0]

\* The defaults of the Prisma model.
NewRow == [status |-> "PENDING", attempts |-> 0]

Exists(row) == row.status # "ABSENT"

\* The upsert with an empty update: the first event of a key wins.
PersistOutboxEvent(box, key) ==
  IF Exists(box[key]) THEN box ELSE [box EXCEPT ![key] = NewRow]

\* Both counters of a successful dispatch, on the row as it is now.
MarkPublished(row) == [status |-> "PUBLISHED", attempts |-> row.attempts + 1]

\* Mutant: the limit is compared with > instead of >=.
MarkFailureOffByOne(snapshot) ==
  [status   |-> IF snapshot.attempts + 1 > MaxPublishAttempts THEN "FAILED" ELSE snapshot.status,
   attempts |-> snapshot.attempts + 1]

\* What a failed publish writes over the row: every field it sets is computed
\* from the snapshot the caller read, not from the row as it is now.
MarkPublishFailure(snapshot) ==
  [status   |-> IF snapshot.attempts + 1 >= MaxPublishAttempts THEN "FAILED" ELSE snapshot.status,
   attempts |-> snapshot.attempts + 1]

\* Mutant: the dispatcher gives up one attempt too early.
DispatchableTooStrict(row) == row.status = "PENDING" /\ row.attempts + 1 < MaxPublishAttempts

\* What the periodic dispatcher looks for.
Dispatchable(row) == row.status = "PENDING" /\ row.attempts < MaxPublishAttempts

=============================================================================
