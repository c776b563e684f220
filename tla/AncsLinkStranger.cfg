CONSTANTS
  p1 = p1
  p2 = p2
  None = None
  RepairThreshold = 1
  Phone = {p1, p2}
  Faults = {}
  MaxGeneration = 2
  MaxCalls = 0
  CallWeight = 1

SPECIFICATION FairSpec

PROPERTY StoredPhoneFindsDevice

CHECK_DEADLOCK FALSE
