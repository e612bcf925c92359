SPECIFICATION StoresSpec
CONSTANTS
  p1 = p1  p2 = p2  p3 = p3
  s1 = s1  s2 = s2  s3 = s3  s4 = s4
  c1 = c1  c2 = c2  c3 = c3  c4 = c4
  q1 = q1  q2 = q2
  plain = plain  hash = hash  field = field  other = other
  Nil = Nil  NoID = NoID
  CanFail = TRUE
  Proc <- ThreeProcs
  Key <- ThreeKeys
  Cap = 1
  MaxOps = 4
  LRUKey <- ThreeKeys
  LRUValue <- OneValue
  LRUCap = 2
  LRUOps = 6
  Caller <- FourCallers
  QueryOf <- Queries
  Query <- TwoQueries
  OnMaster <- OnlyTheFirst
  Stmt <- FourStmts
  StmtCap = 1
  MessageID <- ThreeKeys
  MaxSize = 2
  TTL = 1
  MaxClock = 4
  Call <- ThreeProcs
  Asks <- AllAsks
  Target <- Targets
  RedisKey <- Keys
  KeyOf <- KeyOfTarget
  Hash <- TheHash
  FlightKey <- OwnFlight
  MaxActive = 2
  MaxRetry = 2
SYMMETRY Alike
CHECK_DEADLOCK FALSE
INVARIANTS
  CountIsAccounted EvictsLeastRecent  StaleOnlyByRace
  CachedIsOpen EveryStatementIsOwned ClosedOnlyAfterFailure
PROPERTIES LosesOldestFirst ReplayIsOfTheBuffer
