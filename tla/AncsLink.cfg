CONSTANTS
  p1 = p1
  p2 = p2
  None = None
  RepairThreshold = 1
  Phone = {p1, p2}
  Faults = {"gatt", "encryption", "disconnect", "advertise", "query", "remove", "timer"}
  MaxGeneration = 4
  MaxCalls = 1
  CallWeight = 2

SPECIFICATION Spec

INVARIANT TypeOK
INVARIANT ReadyIsSecured
INVARIANT DiscoveryIsUnderway
INVARIANT RepairClosesWindow
INVARIANT AdvertisingIsAccounted

SYMMETRY Symmetric

CHECK_DEADLOCK FALSE
