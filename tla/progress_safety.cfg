SPECIFICATION Spec
CONSTANTS
  w1 = w1
  w2 = w2
  u1 = u1
  u2 = u2
  q1 = q1
  q2 = q2
  NoRow = NoRow
  NoJob = NoJob
  Threads <- TwoWorkers
  Users <- TwoUsers
  Questions <- OneQuestion
  Faults = {"user", "select", "write"}
  MaxRequests = 3
CHECK_DEADLOCK FALSE
SYMMETRY Symmetry
INVARIANTS
  AttemptsBacked
  CompletedWasReported
  UndisturbedExact
PROPERTY ProgressGrows
