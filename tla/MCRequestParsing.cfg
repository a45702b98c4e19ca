SPECIFICATION FairSpec
CONSTANTS
  BufSize = 21
  ContentMinLen = 2
  UIntMax = 9
  ValueMax = 2
  Values <- FieldValues
  MinFields = 0
  MaxFields = 3
  MaxFieldsCut = 2
  MaxBody = 3
  AnyCut = {TRUE, FALSE}
INVARIANTS TypeOK ParsedAsSent
PROPERTIES AnsweredInTheEnd ImplementsReceiveLoop
CHECK_DEADLOCK FALSE
