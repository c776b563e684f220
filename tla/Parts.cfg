CONSTANTS
  u1 = u1
  u2 = u2
  Events <- TwoUids
  NoEvent = NoEvent
  Capacity = 4
  RelayId = {i1, i2, i3, i4, i5}
  NoId = NoId
  RecentCapacity = 3
  Config = {c1, c2, c3}
  NoConfig = NoConfig
  NoSlot = NoSlot
  GenerationLimit = 5
  ReadFaults = {"a", "b", "active"}
  Profile = {p1, p2}
  NoProfile = NoProfile
  MaxLoop = 8
  DriverFaults = {"start", "stop", "scan", "connect", "access point"}

SPECIFICATION PartsSpec

INVARIANT SuppressesTheLast
INVARIANT LiveWasOffered
INVARIANT AddressIsLive

PROPERTY ImplementsFifoUnlessWrapped
PROPERTY CancelRemovesUid
PROPERTY SaveKeepsAConfig
PROPERTY ImplementsSettingsStore
PROPERTY FailuresAreOwn
PROPERTY ImplementsStationPort
PROPERTY AttemptsAreSpaced
PROPERTY KeepsTrying
