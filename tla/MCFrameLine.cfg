SPECIFICATION Spec
CONSTANTS
  Base = 6
  Start = 4
  Plain = 2
  Checked = 3
  Crc <- MCCrc
  CacheSize = 14
  Sendable <- MCSendable
  Noise = {0, 2, 5}
  MaxSends = 3
  MaxNoise = 2
INVARIANTS
  KeepsUp
  InCache
PROPERTIES
  IsChannel
CHECK_DEADLOCK FALSE
