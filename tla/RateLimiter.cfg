\* Two calls per window of five ticks, fetches of up to two requests, a second
\* process after the first.
CONSTANTS
  RequestsPerWindow = 2
  WindowSeconds = 5
  MaxAttempts = 2
  RetryDelay = 1
  MaxClock = 6
  MaxProcess = 2
SPECIFICATION Spec
INVARIANTS
  LimiterInv
  CallsInWindow
  NeverWaitsInVain
  RequestsInWindow
CHECK_DEADLOCK FALSE
