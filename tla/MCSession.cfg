\* One end sends three messages, the third of them too long, the other one.
CONSTANTS
  a = a
  b = b
  Ends = {a, b}
  TooLong = {3}
  SendBound <- MCSendBound
  WireBound = 2
SPECIFICATION FairSpec
\* Both ends may have closed.
CHECK_DEADLOCK FALSE
INVARIANTS
  TypeOK
  WriteUnderWay
  ClosedOnce
PROPERTIES
  StreamSpec
  SentArrives
  CloseIsLearnt
