CONSTANTS
  DBs = {a, b}
  PerSecond <- MCPerSecond
  Ms = "ms"
  Finest = "ns"
  Datetimes <- MCDatetimes
  Half = 16
  Limit = 1
  Given = 2
  Clauses = {"none", "word"}
  OtherTimes = {1}
  MaxRows = 2
  MaxStmts = 4
  MaxOthers = 1
SPECIFICATION Spec
INVARIANTS RoundTrips NoGroupTotal TruncationTold
SYMMETRY Symmetry
CHECK_DEADLOCK FALSE
