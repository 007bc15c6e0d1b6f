SPECIFICATION FairSpec
CONSTANTS
  Conns = {1, 2, 3}
  Slow = {2}
  Broken = {3}
  Cell = {0, 1, 2, 3}
  NULL = NULL
  Ids = {0, 1, 2, 3}
  MaxServ = 1
  Keep = 0
  CacheSize = 5
  HeadLen = 3
  Flag = 3
  Alive_E = 1
  Crc <- MCCrc
  Bodies <- MCBodies
  Junk <- MCJunk
  Talkers = {1, 3}
  Cuts = {3}
  MaxSends = 1
  Octet = {0, 1}
  PackLength = 4
  WordValues = 8
INVARIANTS
  TypeOK
  Registered
  Marked
  Limit
  OutputMoves
PROPERTIES
  SilentClosed
CHECK_DEADLOCK FALSE
