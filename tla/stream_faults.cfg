CONSTANTS
  db1 = db1
  db2 = db2
  r1 = r1
  r2 = r2
  Results = {r1, r2}
  Dbs = {db1, db2}
  IdsOf <- IdsShared
  IdSpan = 2
  MaxRows = 3
  MaxBatch = 2
  MayFail = TRUE
  MayLose = TRUE
SPECIFICATION DrainingSpec
INVARIANTS InOrder BlockShown EndOrError
PROPERTIES Delivered
CHECK_DEADLOCK FALSE
