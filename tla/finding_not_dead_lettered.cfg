SPECIFICATION Spec
CONSTANTS
  Executions = {e1}
  Workers = {w1}
  Dispatchers = {}
  NodeCount = 1
  MaxRetryAttempts = 1
  MaxPublishAttempts = 2
  MaxCrashes = 1
  MaxFailures = 0
INVARIANTS FailedIsDeadLettered
CHECK_DEADLOCK FALSE
