SPECIFICATION FairSpec
CONSTANTS
  BufSize = 40
  ContentMinLen = 2
  UIntMax = 9
  ValueMax = 2
  Values <- FieldValues
  MinFields = 1
  MaxFields = 1
  MaxFieldsCut = 1
  MaxBody = 0
  AnyCut = {FALSE}
PROPERTIES EndOfHeadersFound
CHECK_DEADLOCK FALSE
