SPECIFICATION FairSpec
CONSTANTS
  Address = {1, 2, 3}
  FreeMem = 1
  MaxMem = 3
  Handles = {h1}
  Data = {d1, d2}
  Workers = {w1}
  Consumer = consumer
INVARIANTS
  Linked
  NoLostWakeup
PROPERTY IsFifo
