CONSTANTS
  db1 = db1
  db2 = db2
  t = t
  u1 = u1
  u2 = u2
  u3 = u3
  Dbs = {db1, db2}
  Names = {t}
  NoDb = NoDb
  Uids = {u1, u2, u3}
  NoUid = NoUid
  Owner <- OwnerTwice
  NodeOf <- Nodes
  MaxRows = 1
SPECIFICATION MCSpec
SYMMETRY Alike
INVARIANTS CacheSound StoredAsNamed PreparedForNamed SelectRouted 
CHECK_DEADLOCK FALSE
