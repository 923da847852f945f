\* One invocation at a time; it may die or fail at any step.
CONSTANTS
  d1 = d1
  d2 = d2
  Dispatcher <- MCOneDispatcher
  WorkItem <- MCWorkItems
  Recurring <- MCCatchUp
  Interval = 1
  Faults = TRUE
  MaxOrphans = 1
SPECIFICATION Spec
INVARIANTS
  NeverTwiceAtOnce
  SerialInv
  FailureIsRetried
PROPERTIES
  NoRerunAfterSuccess
  ImplementsJobRuns
CHECK_DEADLOCK FALSE
