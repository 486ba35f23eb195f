\* One server, two flows, a block of one piece and a block of two.
CONSTANTS
  Servers = {s1}
  Flows = {0, 1}
  Md5s = {1, 2}
  NoMd5 = NoMd5
  Pieces <- MCPieces
  SetLimit = 1
  SocketBuffer = 1
  QueueBound = 2
  ContentBound = 2
SPECIFICATION FairSpec
INVARIANTS
  TypeOK
  RefCountExact
  PumpAlive
  AckedOnDisk
  FileHasPath
  PiecesInOrder
PROPERTIES
  ServedUnlessOvertaken
  
