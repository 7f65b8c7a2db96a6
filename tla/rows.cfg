CONSTANTS
  Byte = 4
  Base = 3
  Bytes <- MCBytes
  Schemas <- MCSchemas
  Digit <- MCDigit
  Double <- MCDouble
  Blank = " "
  Zero = "zero"
  Chars <- MCChars
  Literals <- MCLiterals
  MaxGroups = 2
  MaxData = 11
SPECIFICATION RowSpec
INVARIANTS RowsAsWritten ReadsBack LayoutsAgree
CHECK_DEADLOCK FALSE
