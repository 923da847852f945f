\* Both programs invoked again and again, one mishap.
CONSTANTS
  yfinance = yfinance
  ibkr = ibkr
  massive = massive
  Bar <- MCOneBar
  Candidate <- MCCandidate
  Whistleblower = yfinance
  Preferred = ibkr
  Sources <- MCHole
  Suspect <- MCNone
  Graduated0 <- MCIbkr
  Threshold = 1
  MaxMishaps = 1
SPECIFICATION FairSpec
PROPERTY PendingIsFinalized
CHECK_DEADLOCK FALSE
