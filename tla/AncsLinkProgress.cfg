CONSTANTS
  p1 = p1
  p2 = p2
  None = None
  RepairThreshold = 1
  Phone = {p1}
  Faults = {"gatt", "remove"}
  MaxGeneration = 3
  MaxCalls = 1
  CallWeight = 1

SPECIFICATION FairSpec

PROPERTY ConnectionSettles
PROPERTY StoredPhoneFindsDevice
PROPERTY ReplacementEnds
PROPERTY AdvertisingEnds

CHECK_DEADLOCK FALSE
