CONSTANTS
  c1 = c1
  c2 = c2
  Cores <- OneCore
  n_tasks_all <- ThreeTasks
  CoreLists <- OneList
  TaskArgs <- MCArgs
  FM <- FMAll
  Timeouts = TRUE
  EalFinished = TRUE
SPECIFICATION FairSpec
PROPERTY MsgConsumed
CHECK_DEADLOCK FALSE
