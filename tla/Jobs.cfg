SPECIFICATION JobsSpec
CONSTANTS
  Nil = Nil
  Rows = 3
  Worker = {w1, w2}
  Outcomes = {"ok", "rejects", "rejectsBare", "panics"}
  CanFail = TRUE
  Conn = {c1, c2}
  Pattern = {p1, p2}
  Job = {j1}
  MaxEntry = 4
  MaxID = 4
  MaxFailed = 2
  Total = 3
CHECK_DEADLOCK FALSE
INVARIANTS NothingLeftBehind StopsGracefully SchedulesAreListed TriedAndDoneOnce ResultsAreComplete
PROPERTIES KeepsContract EveryImportEnds StopEnds
