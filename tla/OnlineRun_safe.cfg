\* Kills, restarts, --force, domains that raise and transactions that fail.
SPECIFICATION Spec
CONSTANTS
  d1 = d1
  d2 = d2
  d3 = d3
  w1 = w1
  w2 = w2
  None = None
  Domains <- ThreeDomains
  Workers <- TwoWorkers
  BatchSize = 2
  OnlineFlags <- TwoFlags
  InputChoices <- ListOrResume3
  ForceChoices <- AllForces
  NoItem <- None
  MaxRuns = 3
  MaxCrashes = 2
  MaxErrors = 2
  MaxFaults = 2
SYMMETRY Symmetry3
INVARIANTS
  TypeOK
  NothingDropped
  HandledOnce
  FlaggedIsFinished
  RowMatchesDossier
  FinishedRunRecords
  FailedHasNoDossier
  NormalizedIsComplete
PROPERTIES
  DossierWrittenOnce
  Lifecycle
