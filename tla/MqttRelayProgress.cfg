CONSTANTS
  None = None
  NoId = NoId
  RelayId = {i1}
  RecentCapacity = 2
  Observer = {ancs}
  Notification <- Notifications
  MessageId = {m1}
  QueueCapacity = 1
  MaxOutbox = 0
  Calls = {"stop"}
  Faults = {"slow"}

SPECIFICATION FairSpec

PROPERTY QueuedIsTakenUp
PROPERTY OnlineIsAnnounced
PROPERTY CoordinatorReturns
PROPERTY ComesBack

CHECK_DEADLOCK FALSE
