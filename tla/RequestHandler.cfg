SPECIFICATION FairSpec
CONSTANTS
  r1 = r1  r2 = r2  o1 = o1  o2 = o2
  here = here  there = there  p = p
  Nil = Nil
  Req <- Requests
  Origin <- TwoOrigins
  Query <- OneParameter
  Body <- NoBody
  Object <- Objects
  Modes = {"sync", "async", "singleflight"}
  Outcomes = {"ok", "fail", "panic"}
CHECK_DEADLOCK FALSE
INVARIANTS ResponseHasOneOwner AnswerIsOwn ProcessSurvives
PROPERTIES EveryRequestEnds FollowerIsServed
