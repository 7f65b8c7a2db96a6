CONSTANTS
  main = main
  aux = aux
  Threads = {main, aux}
  Ops <- OpsSole
  MaxBatch = 3
  DefaultPending = 2
  ResetPending = 2
  PendingArgs = {0, 1}
  Echoes = {TRUE, FALSE}
  MayLose = TRUE
  MaxU64 = 7
  Nothing = Nothing
SPECIFICATION Spec
INVARIANTS Accounting Correlated SyncOwnReply WaitAllExact AnswersWake
PROPERTIES ImplementsBatches
CHECK_DEADLOCK FALSE
