\* Two workers, two items; a pool of two proxies from a local file, the cache
\* or two lists; two runs with kills in between.
CONSTANTS
  w1 = w1
  w2 = w2
  p1 = p1
  p2 = p2
  i1 = i1
  i2 = i2
  Main = main
  Junk = junk
  Nothing = none
  Workers <- TwoWorkers
  Clients <- Coroutines
  Proxies <- TwoProxies
  Input <- TwoItems
  LocalFiles <- NoneOrJunk
  UrlCount = 2
  MaxAttempts = 2
  MaxRuns = 2
SPECIFICATION FairSpec
INVARIANTS
  TypeOK
  EvenTurns
  NeverStarved
  FilesPartition
  RetriedInFull
PROPERTIES
  RunEnds
CHECK_DEADLOCK FALSE
