SPECIFICATION Spec
CONSTANTS
  BufSize = 5
  ContentMinLen = 2
  UIntMax = 5
  ContentLengths = {0, 2}
  Clients = {c1, c2}
  Backlog = 1
  MaxBytes = 4
  SockBuf = 1
  PartLen = 2
  MaxChunks = 1
SYMMETRY Symmetry
INVARIANTS TypeOK NoHoles AnsweredInFull FreshAtAccept MapsOwned DescriptorsClosed
PROPERTIES DrivesReceiveLoop ImplementsService
