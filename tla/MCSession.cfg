SPECIFICATION FairSpec
CONSTANTS
  Byte <- MCByte
  Flag <- MCFlag
  Crc <- MCCrc
  Seed <- MCSeed
  Payloads <- MCPayloads
  CacheSize = 8
  ChunkMax = 4
  FrameMax = 2
  RecvOvertime = 0
  ConnectTimeout = 0
  MaxFrames = 2
VIEW lasting
INVARIANTS
  TypeOK
  Resources
  SeedPhase
  EventOrder
  InOrder
PROPERTIES
  ReadShrinks
  LostPeerNoticed
  SeedWaitEnds
