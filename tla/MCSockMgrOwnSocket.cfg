SPECIFICATION Spec
CONSTANTS
  Handle = {h1, h2}
  Overlapped = {o1, o2}
  NULL = NULL
  Accepting = {acceptThread}
  Connecting = {}
  QueueMax = 2
  SeedLen = 1
  HeadLen = 2
  BodyMax = 2
  BufferLen = 4
  Word = 16
  DataLen = {0, 1, 4, 5}
  SendLen = {3}
  MaxConn = 3
PROPERTY OwnSocketOnly
CHECK_DEADLOCK FALSE
