\* One client, every block to two servers; nothing fails.
CONSTANTS
  Servers = {s1, s2}
  Flows = {0}
  Md5s = {1, 2}
  NoMd5 = 0
  Pieces <- MCPieces
  BackupCount = 2
  Recorded <- NoFiles
  RequestBound = 0
  ReplyBound = 0
  SetLimit = 2
  SocketBuffer = 1
  QueueBound = 0
  ContentBound = 0
  Unstable = {}
  FilesOf <- MCFilesOfOne
  Downloads <- NoDownloads
  Mortal = {}
  CrashBound = 0
  MayTear = FALSE
SPECIFICATION Spec
\* Processes may end, and nobody restart them.
CHECK_DEADLOCK FALSE
INVARIANTS
  CalledBackWhenAnswered
