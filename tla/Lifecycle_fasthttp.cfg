SPECIFICATION Spec
CONSTANTS
  Conn = {c1, c2}
  Servers = {"fasthttp"}
CHECK_DEADLOCK FALSE
INVARIANT StopsGracefully
