CHECK_DEADLOCK FALSE
SPECIFICATION FairSpec
CONSTANTS
  Handle = {h1, h2}
  Overlapped = {o1, o2}
  NULL = NULL
  Accepting = {}
  Connecting = {c1}
  QueueMax = 2
  SeedLen = 2
  HeadLen = 3
  BodyMax = 3
  BufferLen = 6
  Word = 16
  DataLen = {0, 2, 6, 7}
  SendLen = {4}
  MaxConn = 2
INVARIANT Listening
PROPERTY CloseReported
