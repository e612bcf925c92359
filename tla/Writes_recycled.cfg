SPECIFICATION Spec
CONSTANTS
  c1 = c1  c2 = c2  users = users  orders = orders
  o1 = o1  o2 = o2  o3 = o3  o4 = o4
  Nil = Nil
  Engine = "mysql"
  Caller <- OneCaller
  Table <- OneTable
  Request <- TwoRequests
  Calls <- TwoConditional
  SoftDelete = TRUE
  CanFail = TRUE
CHECK_DEADLOCK FALSE
INVARIANTS NoCallPanics
