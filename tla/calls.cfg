SPECIFICATION Spec
CONSTANTS
  Chain <- HttpThenAi
  Workers = {w1}
  Configurations <- AllConfigurations
  MaxRetries = 1
  MaxCrashes = 0
  MaxFailures = 1
INVARIANTS TracesMatchCalls FinalAnswersEndTheRun CallsAreBounded
CHECK_DEADLOCK FALSE
