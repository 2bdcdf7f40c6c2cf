CONSTANTS
  Main = main
  w1 = w1
  w2 = w2
  NoThread = nobody
  HostPrio = 9
  StartPrio <- TwoLevels
  Workers = {w1}
  Hosts = {}
  Prios = {1, 2}
  NewPrios = {1}
  CallKinds = {"blocking", "prompt", "hostwait"}
  MaxCalls = 2
  MaxSuspend = 1
  MaxAge = 1
  CallbackIn = {"prompt"}
  LapsesAt = {"call"}
  SlowWake = FALSE
  HostGivesUp = FALSE
  WorkersReturn = FALSE
SPECIFICATION Spec
INVARIANT WaitersExact
INVARIANT NobodyBlocksHolding
INVARIANT PromptCallUndisturbed
PROPERTY ReservationKept
PROPERTY HighestFirst
CHECK_DEADLOCK FALSE
