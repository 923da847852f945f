\* Two invocations that overlap, and may die.
CONSTANTS
  d1 = d1
  d2 = d2
  Dispatcher <- MCTwoDispatchers
  WorkItem <- MCFewWorkItems
  Recurring <- MCNoRecurring
  Interval = 1
  Faults = TRUE
  MaxOrphans = 1
SPECIFICATION Spec
INVARIANTS
  GateInv
  StagesInOrder
  DisabledOnlyAfterSuccess
CHECK_DEADLOCK FALSE
