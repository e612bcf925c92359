SPECIFICATION Spec
CONSTANTS
  c1 = c1  c2 = c2
  x = x  y = y
  m1 = m1  m2 = m2
  Nil = Nil
  Conn <- Conns
  ID <- TwoIDs
  IdOf <- Distinct
  Msg <- TwoMsg
  Identified <- TwoMsg
  ChanCap = 1
  BroadcastCap = 2
  MaxSize = 1
  TTL = 1
  MaxClock = 0
CHECK_DEADLOCK FALSE
SYMMETRY Alike
INVARIANTS BroadcastsInOrder FanoutAccountsForAll 
  SentIsNotLost
