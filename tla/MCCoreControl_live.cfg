CONSTANTS
  c1 = c1
  c2 = c2
  Cores <- MCCores
  n_tasks_all <- MCTasks
  CoreLists <- MCLists
  TaskArgs <- MCArgs
  FM <- FMAll
  Timeouts = FALSE
  EalFinished = FALSE
SPECIFICATION FairSpec
INVARIANT SlotWatched
PROPERTY CommandReturns
PROPERTY MsgConsumed
