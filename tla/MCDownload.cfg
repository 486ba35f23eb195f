\* Two clients, one that uploads or downloads and may be killed, one that downloads,
\* and a server that dies once.
CONSTANTS
  Servers = {s1}
  Flows = {0, 1}
  Md5s = {1, 2, 3}
  NoMd5 = 0
  Pieces <- MCPieces
  BackupCount = 1
  Recorded <- MCRecorded
  RequestBound = 0
  ReplyBound = 0
  SetLimit = 3
  SocketBuffer = 1
  QueueBound = 0
  ContentBound = 0
  Unstable = {}
  FilesOf <- MCUploadOne
  Downloads <- MCDownloads
  Mortal = {0}
  CrashBound = 1
  MayTear = FALSE
SPECIFICATION FairSpec
\* Processes may end, and nobody restart them.
CHECK_DEADLOCK FALSE
INVARIANTS
  TypeOK
  ReadBack
  RequestsServable
PROPERTIES
  DownloadEnds
