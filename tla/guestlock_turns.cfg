CONSTANTS
  Main = main
  w1 = w1
  w2 = w2
  NoThread = nobody
  HostPrio = 9
  StartPrio <- FlatPrio
  Workers = {w1}
  Hosts = {}
  Prios = {1, 2}
  NewPrios = {}
  CallKinds = {"prompt"}
  MaxCalls = 1
  MaxSuspend = 2
  MaxAge = 2
  CallbackIn = {}
  LapsesAt = {"parked"}
  SlowWake = FALSE
  HostGivesUp = FALSE
  WorkersReturn = FALSE
SPECIFICATION FairSpec
INVARIANT SuspendNotLost
PROPERTY EqualWaiterRuns
PROPERTY SuspendAnswered
CHECK_DEADLOCK FALSE
