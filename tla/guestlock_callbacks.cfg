CONSTANTS
  Main = main
  w1 = w1
  w2 = w2
  NoThread = nobody
  HostPrio = 9
  StartPrio <- FlatPrio
  Workers = {w1}
  Hosts = {h1}
  Prios = {1, 2}
  NewPrios = {}
  CallKinds = {"prompt"}
  MaxCalls = 2
  MaxSuspend = 0
  MaxAge = 1
  CallbackIn = {"prompt"}
  LapsesAt = {"call", "handoff", "lifted", "trying"}
  SlowWake = TRUE
  HostGivesUp = TRUE
  WorkersReturn = TRUE
SPECIFICATION Spec
INVARIANT TypeOK
INVARIANT MutualExclusion
INVARIANT LevelsRestored
CHECK_DEADLOCK FALSE
