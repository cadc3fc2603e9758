SPECIFICATION LoopSpec
CONSTANTS
  n_tasks_all = 3
  OptRing = {2}
  ZeroRx = {}
  RunLists <- OneStopped
  Burst = 2
  Calls <- OneCall
INVARIANT NothingOverwritten
