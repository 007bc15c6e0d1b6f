SPECIFICATION Spec
CONSTANTS
  Nodes = {n1, n2}
  Threads = {t1, t2}
  MaxConnected = 2
  SplitSize = 2
  Accepter = accepter
  Nobody = nobody
  ListNode = {1, 2, 3, 4}
  NULL = 0
SYMMETRY Symmetry
CHECK_DEADLOCK FALSE
INVARIANTS
  NoLockCycle
