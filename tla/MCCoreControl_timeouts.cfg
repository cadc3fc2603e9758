CONSTANTS
  c1 = c1
  c2 = c2
  Cores <- MCCores
  n_tasks_all <- MCTasks
  CoreLists <- DupLists
  TaskArgs <- MCArgs
  FM <- FMAll
  Timeouts = TRUE
  EalFinished = TRUE
SPECIFICATION Spec
INVARIANT RunListConsistent
INVARIANT WorkerSettled
INVARIANT SingleHandler
INVARIANT CommandsEffective
CHECK_DEADLOCK FALSE
PROPERTY ImplementsTaskControl
