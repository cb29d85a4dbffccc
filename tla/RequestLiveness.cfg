SPECIFICATION NodesAnswerSpec
CONSTANTS
  Req <- TwoRequests
  Conn <- OneConn
  NoConn = noconn
  IdSpace = 2
  QueueCap = 1
  OtherIds = 3
  Pending = pending
  Dropped = dropped
  Empty = empty
  q1 = q1
  q2 = q2
  c1 = c1
  c2 = c2
PROPERTIES AnsweredUnlessClosed LoopSettles
CHECK_DEADLOCK FALSE
