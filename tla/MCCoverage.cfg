\* Two keys, two writers, never both on the first key.
CONSTANTS
  k1 = k1
  k2 = k2
  w1 = w1
  w2 = w2
  Key <- MCKey
  Day <- MCDay
  Writer <- MCWriter
  Exclusive <- MCExclusive
SPECIFICATION Spec
INVARIANTS
  CoverageInv
  CoverageIsExact
  NothingInvented
PROPERTIES
  ImplementsCoveredDates
  CommitsAsPromised
CONSTRAINT MCFewRows
SYMMETRY MCSymmetry
