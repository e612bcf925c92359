SPECIFICATION Spec
CONSTANTS
  c1 = c1  c2 = c2  c3 = c3
  q1 = q1
  s1 = s1  s2 = s2  s3 = s3
  Nil = Nil
  Caller <- ThreeCallers
  Query <- OneQuery
  QueryOf <- Same
  OnMaster <- Nobody
  Stmt <- ThreeStmts
  Cap = 1
  CanFail = TRUE
SYMMETRY AlikeStmts
CHECK_DEADLOCK FALSE
INVARIANTS NeverExecutesClosed
