\* Two clients, each with a block of its own, and a server that dies once.
CONSTANTS
  Servers = {s1}
  Flows = {0, 1}
  Md5s = {1, 2}
  NoMd5 = 0
  Pieces <- MCPieces
  BackupCount = 1
  Recorded <- NoFiles
  RequestBound = 0
  ReplyBound = 0
  SetLimit = 2
  SocketBuffer = 1
  QueueBound = 0
  ContentBound = 0
  Unstable = {}
  FilesOf <- MCFilesApart
  Downloads <- NoDownloads
  Mortal = {}
  CrashBound = 1
  MayTear = FALSE
SPECIFICATION FairSpec
\* Processes may end, and nobody restart them.
CHECK_DEADLOCK FALSE
PROPERTIES
  UploadEnds
