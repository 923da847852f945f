\* One invocation of quant-dispatch at a time, nothing dies.
CONSTANTS
  d1 = d1
  d2 = d2
  Dispatcher <- MCOneDispatcher
  WorkItem <- MCFewWorkItems
  Recurring <- MCCatchUp
  Interval = 1
  Faults = FALSE
  MaxOrphans = 1
SPECIFICATION FairSpec
PROPERTIES
  WorkItemsFinish
  NeverStuckRunning
