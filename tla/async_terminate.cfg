CONSTANTS
  main = main
  aux = aux
  Threads = {main}
  Ops <- OpsInserter
  MaxBatch = 2
  DefaultPending = 2
  ResetPending = 2
  PendingArgs = {0, 1}
  Echoes = {TRUE}
  MayLose = TRUE
  MaxU64 = 7
  Nothing = Nothing
SPECIFICATION Spec
INVARIANTS NoTerminate
CHECK_DEADLOCK FALSE
