SPECIFICATION Spec
CONSTANTS
  n_tasks_all = 4
  OptRing = {1, 3}
  ZeroRx = {0, 1, 3}
  RunLists <- PairByPair
  Burst = 2
  Calls <- SomeTwice
  L3Tasks = {"t1", "t2"}
  Neighbours = {"a"}
  VDevs = {TRUE, FALSE}
  MaxRequests = 3
  CtrlRing = 1
  TaskRing = 1
  MaxEvents = 1
  MaxLosses = 1
  Streams <- TcpAndUdp
  Mss = 1
  RxWindow = 1
  MaxSame = 1
  NetSize = 2
INVARIANTS HandoverSound InStep
PROPERTIES TasksServed AddressesResolved StreamsEnd
CHECK_DEADLOCK FALSE
