SPECIFICATION HookSpec
CONSTANTS
  Commands = {"DUMP_RX", "RX_DISTR_START", "RX_DISTR_STOP", "RX_BW_START", "RX_BW_STOP"}
  Vals = {2}
  BurstSizes = {1, 2}
  RxOrigs = {"rx"}
  TxOrigs = {"tx"}
  MAX_STACKED_RX_FUNCTIONS = 2
  Patient = FALSE
PROPERTY StopMeansStopped
