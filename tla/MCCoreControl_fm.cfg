CONSTANTS
  c1 = c1
  c2 = c2
  Cores <- OneCore
  n_tasks_all <- ThreeTasks
  CoreLists <- OneList
  TaskArgs <- MCArgs
  FM <- FMSome
  Timeouts = FALSE
  EalFinished = TRUE
SPECIFICATION Spec
INVARIANT EngineReady
CHECK_DEADLOCK FALSE
