\* Work item Friday to Saturday; the Thursday before it was not ingested yet.
CONSTANTS
  Item <- MCItem
  Day <- MCThreeDays
  Weekend <- MCWeekend
  Source <- MCSource
  Unfinished <- MCFinished
  DefaultMethods <- MCDefaultMethods
  ByHand <- MCByHand
  MaxByHand = 0
  MaxFaults = 0
SPECIFICATION FairSpec
INVARIANT CoverageConfirmsAbsence
CHECK_DEADLOCK FALSE
