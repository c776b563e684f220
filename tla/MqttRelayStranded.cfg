CONSTANTS
  None = None
  NoId = NoId
  RelayId = {i1}
  RecentCapacity = 2
  Observer = {}
  Notification <- Notifications
  MessageId = {m1}
  QueueCapacity = 1
  MaxOutbox = 0
  Calls = {"wifi"}
  Faults = {}

SPECIFICATION FairSpec

PROPERTY ComesBack

CHECK_DEADLOCK FALSE
