------------------------- MODULE MCExecutionWorker -------------------------
(* Instances of ExecutionWorker for TLC. *)
EXTENDS ExecutionWorker, TLC

WorkerSymmetry == Permutations(Workers)

=============================================================================
