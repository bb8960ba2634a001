\* The only worker dies while the producer waits for room in the queue.
SPECIFICATION FairSpec
CONSTANTS
  d1 = d1
  d2 = d2
  d3 = d3
  w1 = w1
  w2 = w2
  None = None
  Domains <- ThreeDomains
  Workers <- OneWorker
  BatchSize = 1
  OnlineFlags <- TwoFlags
  InputChoices <- WholeList3
  ForceChoices <- NoForce
  NoItem <- None
  MaxRuns = 1
  MaxCrashes = 0
  MaxErrors = 1
  MaxFaults = 1

PROPERTY NoStall
\* The process stays there: it has neither a step to take nor an end.
CHECK_DEADLOCK FALSE
