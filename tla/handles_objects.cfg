SPECIFICATION FairSpec
CONSTANTS
  t1 = t1
  t2 = t2
  Threads <- AllThreads
  NoThread = nobody
  Addresses = {1, 2, 3}
  SemaphoreMax = 2
  TimersMax = 2
  PulsesMax = 2
  Tokens = {1, 2, 3}
  SearchMax = 2
  Titles <- PassingTitles
INVARIANT TypeOK
INVARIANT HandlesExact
INVARIANT SearchFollows
PROPERTY TakenIsReported
PROPERTY PulseReleases
PROPERTY ClosedIsFreed
CHECK_DEADLOCK FALSE
