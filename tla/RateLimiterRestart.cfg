\* Three processes of one fetch each, without retries.
CONSTANTS
  RequestsPerWindow = 1
  WindowSeconds = 3
  MaxAttempts = 1
  RetryDelay = 0
  MaxClock = 3
  MaxProcess = 3
SPECIFICATION Spec
INVARIANT CeilingAlwaysApplies
CHECK_DEADLOCK FALSE
