SPECIFICATION FairSpec
CONSTANTS
  w1 = w1
  w2 = w2
  Main = Main
  NoThread = NoThread
  Threads <- TwoWorkers
  NumMachines = 2
  LoadMod = 4
  StatusLoads = {0, 1}
  StatusReplies = {"ok", "fail"}
  PostReplies = {"200", "noreply"}
  MaxRequests = 2
  MaxSignals = 1
CHECK_DEADLOCK FALSE
INVARIANTS
  LockIsReleased
PROPERTIES
  JudgesRunOut
  EveryJudgeAnswered
  RecoveryCompletes
