SPECIFICATION FairSpec
CONSTANTS
  BufSize = 4
  ContentMinLen = 2
  UIntMax = 5
  ContentLengths = {0, 2}
  Clients = {c1, c2}
  Backlog = 0
  MaxBytes = 3
  SockBuf = 1
  PartLen = 2
  MaxChunks = 1
PROPERTIES SigintStops EveryClientGetsThrough
