CONSTANTS
  u1 = u1
  u2 = u2
  a1 = a1
  None = None
  NoEvent = NoEvent
  Uid = {u1, u2}
  EventId = {0, 1, 2}
  App = {a1}
  AppOf <- OneApp
  Capacity = 2
  WorkCapacity = 2
  CacheCapacity = 2
  ResolverCapacity = 1
  MaxGeneration = 1
  MaxArrivals = 3

SPECIFICATION Spec

INVARIANT TypeOK
INVARIANT AnswersStayInStep
INVARIANT CachedIsLive

PROPERTY RemovedStaysRemoved

SYMMETRY Symmetric
CHECK_DEADLOCK FALSE
