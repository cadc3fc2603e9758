SPECIFICATION ModesSpec
CONSTANTS
 PmPackets <- Frames
 PmWorkers = 2
 PmSteps = 3
 ImBurst = 4
 ImSizes = {0, 2}
 ImDelays = {0, 2}
 ImOrders = {"delay", "proba"}
 ImSlots = 4
 ImPackets = 6
 ImTime = 4
 ImChanges = 1
 HoPackets = 5
 HoBurst = 2
 HoLength = 3
 HoOps = 3
 HoDests = 2
 HoMultiplier = 2
 BuPackets <- BurstPackets
 BuLength = 3
 BuSteps = 3
 BuColors = {"green", "red"}
 BuOffset = 1
 CgPrivate = {1, 2, 3}
 CgPorts = {1, 2}
 CgPublicIps = 2
 CgPublicPorts = 2
 CgStatic <- StaticFlow
 CgRefusing = {"address", "flow", "answer"}
 CgBurst = 2
 CgSteps = 3
 BngTunnels <- TunnelMap
 BngUnknown = {"d"}
 BngIps = {1}
 BngMacs = {1}
 BngRing = 1
 BngWorkers = 2
 BngBuckets = 2
 BngDepth = 1
 BngExtended = 1
 BngTimeout = 1
 BngLearns = {"always", "fast path", "control"}
 BngTime = 5
INVARIANTS
 PacketModesSound
 ImpairSound
 HoldingSound
 BurstsSound
 CgnatSound
 BngSound
PROPERTIES
 FlowsStable
CHECK_DEADLOCK FALSE
