CONSTANTS
  g1 = g1
  g2 = g2
  u1 = u1
  clk = clk
  d1 = d1
  d2 = d2
  d3 = d3
  v1 = v1
  v2 = v2
  Guests = {g1}
  Devices = {u1}
  Clock = clk
  Dpcs = {d1, d2, d3}
  NoDpc = none
  Timers = {v1}
  NoTimer = notimer
  SyncTimers = {v1}
  Periodic = {v1}
  TimerDpc <- DpcOfV1
  RingSize = 3
  TableSize = 1
  RoutineCalls = 1
SPECIFICATION Spec
INVARIANT TypeOK
INVARIANT RingExact
INVARIANT OneClock
PROPERTY ImplementsQueue
