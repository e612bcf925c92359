SPECIFICATION Spec
CONSTANTS
  Nil = Nil
  Pattern = {p1}
  Job = {j1, j2}
  MaxEntry = 1
CHECK_DEADLOCK FALSE
INVARIANT JobsAreStopped
