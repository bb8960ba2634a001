\* Progress: the producer waits for room in the queue, a run is killed, one
\* worker or both die of transactions that fail; a run is left after each.
SPECIFICATION FairSpec
CONSTANTS
  d1 = d1
  d2 = d2
  d3 = d3
  w1 = w1
  w2 = w2
  None = None
  Domains <- ThreeDomains
  Workers <- TwoWorkers
  BatchSize = 1
  OnlineFlags <- TwoFlags
  InputChoices <- WholeList3
  ForceChoices <- NoForce
  NoItem <- None
  MaxRuns = 4
  MaxCrashes = 1
  MaxErrors = 2
  MaxFaults = 2

PROPERTIES
  RunEnds
  AllSettled
