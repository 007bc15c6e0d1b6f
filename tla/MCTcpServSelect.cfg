SPECIFICATION Spec
CONSTANTS
  Nodes = {n1, n2, n3}
  Threads = {t1, t2, t3}
  MaxConnected = 3
  SplitSize = 2
  Accepter = accepter
  Nobody = nobody
  ListNode = {1, 2, 3, 4}
  NULL = 0
SYMMETRY Symmetry
CHECK_DEADLOCK FALSE
INVARIANTS
  TypeOK
  Capacity
  Served
  DisconnectIsLast
  AcceptedOrLost
  SendsToAll
