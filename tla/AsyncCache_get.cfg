\* Three callers on two keys; computations return or raise.
CONSTANTS
  c1 = c1
  c2 = c2
  c3 = c3
  k1 = k1
  k2 = k2
  v1 = v1
  v2 = v2
  raised = raised
  none = none
  Callers <- ThreeCallers
  Keys <- TwoKeys
  Results <- TwoResults
  Raised <- raised
  Nothing <- none
SPECIFICATION FairSpec
INVARIANTS
  TypeOK
  SingleFlight
  NoOrphan
  Agreement
PROPERTIES
  CachedForGood
  GetEnds
