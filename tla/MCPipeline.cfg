\* A weekday and a weekend day, one fault, one run by hand.
CONSTANTS
  Item <- MCItem
  Day <- MCDay
  Weekend <- MCWeekend
  Source <- MCSource
  Unfinished <- MCUnfinished
  DefaultMethods <- MCDefaultMethods
  ByHand <- MCByHand
  MaxByHand = 1
  MaxFaults = 1
SPECIFICATION FairSpec
INVARIANTS
  PipelineInv
  NoGaps
  EverySessionStaged
  QuotesAreMerged
PROPERTIES
  StagedEventually
  ImplementsHandover
CHECK_DEADLOCK FALSE
