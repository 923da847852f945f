\* Every mode of quant-reconcile beside quant-stage, with one mishap at any point.
CONSTANTS
  yfinance = yfinance
  ibkr = ibkr
  massive = massive
  Bar <- MCBar
  Candidate <- MCCandidate
  Whistleblower = yfinance
  Preferred = ibkr
  Sources <- MCSources
  Suspect <- MCSuspect
  Graduated0 <- MCIbkr
  Threshold = 1
  MaxMishaps = 1
SPECIFICATION Spec
INVARIANTS
  AbsenceIsReal
  ArchivedIsPublished
  DisputeIsVisible
  PublishedIsSettled
  RejectionIsVisible
  ReconcileInv
  PathsAreEarned
  InsertsNeverCollide
PROPERTIES
  RowsLeaveOnlyToArchive
  PlainPurgeKeepsWindows
  ImplementsPublication
  ImplementsHandover
CHECK_DEADLOCK FALSE
