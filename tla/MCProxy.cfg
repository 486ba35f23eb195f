\* Two servers, one client, files of at most two blocks.
CONSTANTS
  Servers = {s1, s2}
  Flows = {0}
  Md5s = {1, 2}
  NoMd5 = 0
  Pieces <- MCPieces
  BackupCount = 1
  Recorded <- MCRecorded
  RequestBound = 1
  ReplyBound = 1
SPECIFICATION Spec
INVARIANTS
  TypeOK
  AnswerOwed
  RequestedInOrder
\* The process may end; nothing is left to do then.
CHECK_DEADLOCK FALSE
SYMMETRY ServerSymmetry
