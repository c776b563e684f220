CONSTANTS
  u1 = u1
  u2 = u2
  a1 = a1
  None = None
  NoEvent = NoEvent
  Uid = {u1}
  EventId = {0, 2}
  App = {a1}
  AppOf <- OneApp
  Capacity = 2
  WorkCapacity = 1
  CacheCapacity = 1
  ResolverCapacity = 1
  MaxGeneration = 3
  MaxArrivals = 2

SPECIFICATION FairSpec

INVARIANT FragmentMeetsItsGeneration

PROPERTY RequestEnds
PROPERTY PendingDrains

CHECK_DEADLOCK FALSE
