SPECIFICATION PathsSpec
CONSTANTS
  Commands <- AllCommands
  Vals = {2}
  BurstSizes = {1, 2}
  RxOrigs = {"rx", "dummy"}
  TxOrigs = {"tx", "drop_all"}
  MAX_STACKED_RX_FUNCTIONS = 2
  Patient = TRUE
  MAX_PKT_BURST = 4
  IndexRange = 16
  nb_txports = 2
  Packets = {"plain", "marked"}
  Marked = {"marked"}
INVARIANTS RxCountersMatchFlags RingSafe
PROPERTIES DumpEnds OnlyCountingLosesTransmit ImplementsTxQueues DrainedOrBusy
CHECK_DEADLOCK FALSE
