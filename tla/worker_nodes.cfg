SPECIFICATION Spec
CONSTANTS
  Executions = {e1}
  Workers = {w1, w2}
  Dispatchers = {}
  NodeCount = 2
  MaxRetryAttempts = 1
  MaxPublishAttempts = 2
  MaxCrashes = 1
  MaxFailures = 1
SYMMETRY WorkerSymmetry
INVARIANTS TypeOK OutcomeRecorded CommandKept DeadLetterIsSettled SuccessExplained
PROPERTIES LifecycleSpec
CHECK_DEADLOCK FALSE
