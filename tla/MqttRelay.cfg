CONSTANTS
  None = None
  NoId = NoId
  RelayId = {i1, i2}
  RecentCapacity = 1
  Observer = {ancs}
  Notification <- Notifications
  MessageId = {m1}
  QueueCapacity = 1
  MaxOutbox = 0
  Calls = {"stop", "wifi", "snapshot"}
  Faults = {"memory", "subscribe", "enqueue", "start"}

SPECIFICATION Spec

INVARIANT TypeOK
INVARIANT ItemsHaveOneOwner
INVARIANT OfflineHoldsNothing
INVARIANT CallsFindTheClient

SYMMETRY Interchangeable

CONSTRAINT OneInFlight

CHECK_DEADLOCK FALSE
