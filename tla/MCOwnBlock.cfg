\* Two clients with the same block; nothing fails.
CONSTANTS
  Servers = {s1}
  Flows = {0, 1}
  Md5s = {1}
  NoMd5 = 0
  Pieces <- MCPieces
  BackupCount = 1
  Recorded <- NoFiles
  RequestBound = 0
  ReplyBound = 0
  SetLimit = 2
  SocketBuffer = 1
  QueueBound = 0
  ContentBound = 0
  Unstable = {}
  FilesOf <- MCFilesShared
  Downloads <- NoDownloads
  Mortal = {}
  CrashBound = 0
  MayTear = FALSE
SPECIFICATION Spec
\* Processes may end, and nobody restart them.
CHECK_DEADLOCK FALSE
INVARIANTS
  AnsweredForOwnBlock
