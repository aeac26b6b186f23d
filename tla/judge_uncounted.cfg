SPECIFICATION Spec
CONSTANTS
  w1 = w1
  w2 = w2
  u1 = u1
  u2 = u2
  q1 = q1
  q2 = q2
  NoRow = NoRow
  NoJob = NoJob
  Threads <- OneWorker
  Users <- OneUser
  Questions <- OneQuestion
  Faults = {}
  MaxRequests = 2
CHECK_DEADLOCK FALSE
INVARIANT EveryJudgeCounted
