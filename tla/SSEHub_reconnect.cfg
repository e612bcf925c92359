SPECIFICATION Spec
CONSTANTS
  c1 = c1  c2 = c2
  x = x  y = y
  m1 = m1  m2 = m2
  Nil = Nil
  Conn <- Conns
  ID <- OneID
  IdOf <- Shared
  Msg <- NoMsg
  Identified <- NoMsg
  ChanCap = 1
  BroadcastCap = 1
  MaxSize = 1
  TTL = 1
  MaxClock = 0
CHECK_DEADLOCK FALSE
INVARIANT ConnectedIsReachable
