\* Two invocations that overlap.
CONSTANTS
  d1 = d1
  d2 = d2
  Dispatcher <- MCTwoDispatchers
  WorkItem <- MCSingle
  Recurring <- MCNoRecurring
  Interval = 1
  Faults = FALSE
  MaxOrphans = 1
SPECIFICATION Spec
INVARIANT NeverTwiceAtOnce
CHECK_DEADLOCK FALSE
