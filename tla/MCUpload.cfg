\* One client with a file of two blocks, killed at any time, and a server that dies twice.
CONSTANTS
  Servers = {s1}
  Flows = {0}
  Md5s = {1, 2}
  NoMd5 = 0
  Pieces <- MCPieces
  BackupCount = 1
  Recorded <- NoFiles
  RequestBound = 0
  ReplyBound = 0
  SetLimit = 1
  SocketBuffer = 1
  QueueBound = 0
  ContentBound = 0
  Unstable = {0}
  FilesOf <- MCFilesOfOne
  Downloads <- NoDownloads
  Mortal = {0}
  CrashBound = 2
  MayTear = TRUE
SPECIFICATION FairSpec
\* Processes may end, and nobody restart them.
CHECK_DEADLOCK FALSE
INVARIANTS
  ViewMatchesDisk
  UploadPumpAlive
PROPERTIES
  ServersAreKept
  StoreSpec
  UploadEnds
