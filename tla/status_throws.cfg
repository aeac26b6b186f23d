SPECIFICATION FairSpec
CONSTANTS
  w1 = w1
  w2 = w2
  Main = Main
  NoThread = NoThread
  Threads <- TwoWorkers
  NumMachines = 2
  LoadMod = 4
  StatusLoads = {0}
  StatusReplies = {"ok", "fail", "throw"}
  PostReplies = {"200", "noreply"}
  MaxRequests = 2
  MaxSignals = 0
CHECK_DEADLOCK FALSE
PROPERTIES
  EveryJudgeAnswered
