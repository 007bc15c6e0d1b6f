SPECIFICATION FairSpec
CONSTANTS
  Conns = {1}
  Slow = {}
  Broken = {}
  Cell = {0, 1, 2, 3}
  NULL = NULL
  Ids = {0, 1}
  MaxServ = 1
  Keep = 0
  CacheSize = 8
  HeadLen = 3
  Flag = 3
  Alive_E = 1
  Crc <- MCCrc
  Bodies <- MCBodies
  Junk <- MCLongJunk
  Talkers = {1}
  Cuts = {3}
  MaxSends = 1
  Octet = {0, 1}
  PackLength = 4
  WordValues = 8
PROPERTIES
  LoopEnds
CHECK_DEADLOCK FALSE
