CONSTANTS
  g1 = g1
  g2 = g2
  u1 = u1
  clk = clk
  d1 = d1
  d2 = d2
  d3 = d3
  v1 = v1
  v2 = v2
  Guests = {g1}
  Devices = {}
  Clock = clk
  Dpcs = {d1}
  NoDpc = none
  Timers = {v1, v2}
  NoTimer = notimer
  SyncTimers = {}
  Periodic = {}
  TimerDpc <- DpcOfV1
  RingSize = 2
  TableSize = 2
  RoutineCalls = 1
SPECIFICATION FairSpec
INVARIANT NoDoubleArm
PROPERTY DueTimerFires
PROPERTY QueuedRunsOnceStarted
