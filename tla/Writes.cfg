SPECIFICATION Spec
CONSTANTS
  c1 = c1  c2 = c2  users = users  orders = orders
  o1 = o1  o2 = o2  o3 = o3  o4 = o4
  Nil = Nil
  Engine = "postgres"
  Caller <- TwoCallers
  Table <- TwoTables
  Request <- FourRequests
  Calls <- ThreeCalls
  SoftDelete = TRUE
  CanFail = TRUE
SYMMETRY Alike
CHECK_DEADLOCK FALSE
INVARIANTS RegularCallsFit StatementIsOwn UpsertErrsOnlyByRace
PROPERTIES NothingBeforeCommit
