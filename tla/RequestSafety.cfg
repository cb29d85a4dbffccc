SPECIFICATION Spec
CONSTANTS
  Req <- TwoRequests
  Conn <- TwoConns
  NoConn = noconn
  IdSpace = 7
  QueueCap = 1
  OtherIds = 0
  Pending = pending
  Dropped = dropped
  Empty = empty
  q1 = q1
  q2 = q2
  c1 = c1
  c2 = c2
SYMMETRY Symmetric
INVARIANTS TypeOK ResponseIsOwn AtMostOnce ErrorMeansNotExecuted ResponseFindsEntry
PROPERTIES KeepsPromise
CHECK_DEADLOCK FALSE
