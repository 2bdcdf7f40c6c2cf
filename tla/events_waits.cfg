CONSTANTS
  t1 = t1
  t2 = t2
  t3 = t3
  n1 = n1
  s1 = s1
  s2 = s2
  Threads = {t1, t2, t3}
  Events = {n1, s1, s2}
  SyncEvents = {s1, s2}
  Tracked = {n1, s1}
  Cleared = {n1, s1}
  Renewed = {n1}
  OneWaits <- One
  AnyWaits <- Any
  AllWaits <- All
  Limits = {"timed"}
SPECIFICATION FairSpec
INVARIANT TypeOK
INVARIANT OneSetOneWaiter
INVARIANT SuccessHasItsSet
PROPERTY NotificationReaches
