\* A kill between a dossier and its batch, then --force online.
SPECIFICATION Spec
CONSTANTS
  d1 = d1
  d2 = d2
  d3 = d3
  w1 = w1
  w2 = w2
  None = None
  Domains <- TwoDomains
  Workers <- OneWorker
  BatchSize = 2
  OnlineFlags <- TwoFlags
  InputChoices <- WholeList2
  ForceChoices <- OnlineForce
  NoItem <- None
  MaxRuns = 2
  MaxCrashes = 1
  MaxErrors = 0
  MaxFaults = 0

INVARIANT ForcedRunFillsGaps
