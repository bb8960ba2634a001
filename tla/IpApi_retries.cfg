\* A rate that is no whole number - 3/2 calls in 2 ticks - and one retry.
CONSTANTS
  c1 = c1
  c2 = c2
  c3 = c3
  Callers <- ThreeCallers
  Num = 3
  Den = 2
  Per = 2
  MaxCalls = 1
  MaxWindow = 4
  Retries = 1
  BackoffUnit = 1
SPECIFICATION ApiFairSpec
INVARIANTS
  ApiTypeOK
  BurstBound
  SentBound
PROPERTIES
  LookupEnds
