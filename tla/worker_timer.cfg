SPECIFICATION FairSpec
CONSTANTS
  Executions = {e1}
  Workers = {w1}
  Dispatchers = {d1}
  NodeCount = 1
  MaxRetryAttempts = 1
  MaxPublishAttempts = 2
  MaxCrashes = 0
  MaxFailures = 2
INVARIANTS NoStrandedRow NodesAgree
PROPERTIES EventsAreDispatched ExecutionsAreSettled
CHECK_DEADLOCK FALSE
