\* Both programs invoked again and again, no mishaps.
CONSTANTS
  yfinance = yfinance
  ibkr = ibkr
  massive = massive
  Bar <- MCBar
  Candidate <- MCCandidate
  Whistleblower = yfinance
  Preferred = ibkr
  Sources <- MCLiveSources
  Suspect <- MCSuspect
  Graduated0 <- MCIbkr
  Threshold = 1
  MaxMishaps = 0
SPECIFICATION FairSpec
PROPERTIES
  PendingIsFinalized
  ResolvedBarsLeaveStaging
