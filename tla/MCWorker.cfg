SPECIFICATION WorkerSpec
CONSTANTS
  Optional <- AllTimers
  Period <- TimerPeriods
  Steps = {1, 5}
  MinTsc <- EarliestTsc
  MaxTsc = 20
  TtPeriod = 5
  TtRates = {2, 7}
  TtBytesMax = 4
  TtModulus = 256
  TtMaxTsc = 16
  L3Kinds = {"routes", "gateway", "table", "ip6"}
  Ips = {a, b, c}
  Local6 = {a, b}
  OptSize = 2
  ENOENT = 2
  MaxHops = 3
  HeapRefs = {h1, h2, h3, h4, h5}
  HeapPriorities = {1, 2}
  HeapNull = null
  L4Burst = 2
  QueueSize = 4
  MaxReceived = 6
  Roles = {"server", "client"}
  Bundles = {b1, b2}
  BundleCfgs <- Mix
  Occurrences <- MixCounts
  LastPosition = 2
  NoBundle = none
  GenSizes = {1, 2, 3}
  MaxFrame = 2
  MinLen = 1
  MinBulk = 1
  MaxBulk = 3
  GenCounts = {2}
  GenModulus = 4
  MaxAhead = 4
  QueueSlots = 3
  QueueIds = 3
  GenBurst = 2
  GenL3s = {TRUE, FALSE}
  MaxIndex = 7
  MaxWire = 2
  MaxLost = 2
  MaxDup = 1
SYMMETRY Symmetry
INVARIANTS
  TimersSound TokenSafe AddressesSound
  HeapSound ServerSound BundlesSound GenSound IdsSound
PROPERTIES RunInOrder ResolvedStays
CHECK_DEADLOCK FALSE
