SPECIFICATION NodesAnswerSpec
CONSTANTS
  Req <- OneRequest
  Conn <- OneConn
  NoConn = noconn
  IdSpace = 4
  QueueCap = 1
  OtherIds = 0
  Pending = pending
  Dropped = dropped
  Empty = empty
  q1 = q1
  q2 = q2
  c1 = c1
  c2 = c2
PROPERTIES LostRequestEnds
CHECK_DEADLOCK FALSE
