\* One call in two ticks, one retry.
SPECIFICATION ApiSpec
CONSTANTS
  c1 = c1
  c2 = c2
  c3 = c3
  Callers <- TwoCallers
  Num = 1
  Den = 1
  Per = 2
  MaxCalls = 2
  MaxWindow = 4
  Retries = 1
  BackoffUnit = 1
INVARIANT
  HardLimited
