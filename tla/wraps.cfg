SPECIFICATION Spec
CONSTANTS
  w1 = w1
  w2 = w2
  Main = Main
  NoThread = NoThread
  Threads <- TwoWorkers
  NumMachines = 2
  LoadMod = 4
  StatusLoads = {}
  StatusReplies = {"fail"}
  PostReplies = {"200", "error", "noreply"}
  MaxRequests = 2
  MaxSignals = 1
CHECK_DEADLOCK FALSE
INVARIANTS
  LoadNeverWraps
