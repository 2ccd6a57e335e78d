SPECIFICATION FairSpec
CONSTANTS
  Events = {e1, e2}
  Content <- MCWithTrace
  Foreign = {}
  Cycles = {c1, c2}
  Slots = {}
  BatchSize = 1
  MaxPublishAttempts = 2
  MaxFailures = 0
  MaxCrashes = 0
  MaxWorkerCrashes = 1
PROPERTIES RowsSettle
CHECK_DEADLOCK FALSE
