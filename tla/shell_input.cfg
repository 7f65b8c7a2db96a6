CONSTANTS
  Char <- Typeable
  Blank = " "
  MaxLine = 3
  MaxHistory = 2
  Modes = {"tty", "file"}
  Words = {"w", "source", ";"}
  Literals = {";", "--"}
  Marks = {"--", "#"}
  Junk = {";", "'"}
  Tails <- MCTails
  ContLines <- MCContLines
  Files <- MCFiles
  MaxOpen = 3
  MaxKeys = 7
  MaxPieces = 5
SPECIFICATION FairSpec
INVARIANTS RunAsWritten FailureReported
PROPERTIES ImplementsEditor SourceReturns
CHECK_DEADLOCK FALSE
