SPECIFICATION Spec
CONSTANTS
  SuTasks <- ThreeTasks
  SuProtocols = 2
  SuMaxLinks = 3
  SuMaxRings = 2
  SuRingSize = 1
  PoTasks = {1, 2}
  PoPorts = {0, 1}
  PoMaxQueues = 3
  PoByte = 5
  StWrap = 3
  StMaxPackets = 2
  StMaxUpdates = 3
  StMaxResets = 1
  StIrqs = {1, 2}
  StLogEntries = 2
  StLogRecords = 3
  StMaxRmid = 3
  CoMaxInputs = 2
  CoClients = 2
  CoMaxFds = 2
  CoBuf = 3
  CoChunks <- Chunks
  CoCores = {1, 2}
  CoTimeout = 1
  CoDuration = 3
  CoMaxTime = 3
  CoMaxLinks = 1
  CmModes <- Modes
  CmSocket <- OneSocket
  CmLists <- CoreLists
  CmPlaces = {0, 1, 2}
  CmNames = {"imix", "speed", "local ip", "gateway ip", "lat stats", "dump_rx", "arp add", "bypass", "reconnect"}
  CmMacs = {"a", "b", "c"}
  CmMaxMacs = 2
  CmClasses = {0, 1}
  CmMasks = {0, 1}
  Bad = Bad
  Nowhere = Nowhere
  Discard = Discard
  CcCores = {0, 2, 4}
  CcTasks = 2
  CcThemes <- Themes
  CcMaxLines = 3
  CcPortId <- PortNumbers
  CcDevices <- Devices
  CcInits <- Inits
  CcRouting = {"route"}
  CcClassify = {"nat"}
  CcSetMax = 2
  CcPlaces = 1
  CcImix = 2
  CcBits = 2
  CcDim = 3
  PcMaxPorts = 3
  PcByte = 8
  PcCacheSets = 2
  PcMcast = 1
  PcMaxArgs = 8
  PcThemes <- PortThemes
  PcMaxLines = 3
  PcMtu = 1
  PcDevices = {1, 2}
  PcRings = {"r", "x"}
  PcBad = PcBad
  CfItems <- FileItems
  CfMaxItems = 4
  CfKinds <- SectionKinds
  CfMaxVars = 1
  CfWrong = CfWrong
  CfBroken = CfBroken
  CfBackwards = CfBackwards
  CfVar = CfVar
  TtMaxSockets = 2
  TtMaxCores = 4
  TtMaxList = 3
  TtMaxSet = 3
  TtWidth = 6
  TtStep = 2
  TtByte = 2
  TtGroups = 4
  TtVars <- TextVars
  TtOld = TtOld
INVARIANTS
  StartSound
  MasterSound
  ConsoleSound
  ConfigRead
CHECK_DEADLOCK FALSE
