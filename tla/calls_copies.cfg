SPECIFICATION FairSpec
CONSTANTS
  Chain <- OneHttp
  Workers = {w1, w2}
  Configurations <- OneConfiguration
  MaxRetries = 1
  MaxCrashes = 1
  MaxFailures = 0
INVARIANTS OutputIsOwnAnswer CallsAreBounded
PROPERTIES EveryRunEnds
CHECK_DEADLOCK FALSE
