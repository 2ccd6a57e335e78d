SPECIFICATION FairSpec
CONSTANTS
  Events = {e1, e2}
  Content <- MCLifecycle
  Foreign = {f1}
  Cycles = {c1}
  Slots = {s1, s2}
  BatchSize = 2
  MaxPublishAttempts = 2
  MaxFailures = 1
  MaxCrashes = 1
  MaxWorkerCrashes = 0
INVARIANTS TypeOK NothingIsLost
PROPERTIES EventsAreStored
CHECK_DEADLOCK FALSE
