SPECIFICATION FairSpec
CONSTANTS
  t1 = t1
  t2 = t2
  cb = cb
  ev = ev
  ov = ov
  Threads <- AllThreads
  Service = service
  Nobody = nobody
  Slots = {1, 2}
  Voices = {1}
  Objects <- AllObjects
  NoObject = none
  Packets = {1, 2, 3}
  Attached = 2
  Lead = 2
  Depth = 1
  Nest = 2
  Titles <- PassingTitles
INVARIANT TypeOK
INVARIANT PositionExact
INVARIANT HeardFirst
INVARIANT VoicesAgree
INVARIANT PendingOnce
PROPERTY PacketsComplete
CHECK_DEADLOCK FALSE
