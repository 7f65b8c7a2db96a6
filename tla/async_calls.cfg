CONSTANTS
  main = main
  aux = aux
  Threads = {main, aux}
  Ops <- OpsCalls
  MaxBatch = 2
  DefaultPending = 1
  ResetPending = 2
  PendingArgs = {0, 1}
  Echoes = {TRUE}
  MayLose = TRUE
  MaxU64 = 7
  Nothing = Nothing
SPECIFICATION ConsumingSpec
PROPERTIES WaitersAnswered BackpressureReleased AnswersArrive CloseTerminates CloseReleasesWaiters
CHECK_DEADLOCK FALSE
