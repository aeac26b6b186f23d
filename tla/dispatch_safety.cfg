SPECIFICATION Spec
CONSTANTS
  w1 = w1
  w2 = w2
  Main = Main
  NoThread = NoThread
  Threads <- TwoWorkers
  NumMachines = 3
  LoadMod = 4
  StatusLoads = {1}
  StatusReplies = {"ok", "fail", "throw"}
  PostReplies = {"200", "error", "noreply"}
  MaxRequests = 2
  MaxSignals = 2
SYMMETRY WorkerSymmetry
CHECK_DEADLOCK FALSE
INVARIANTS
  TypeOK
  MachinesPartitioned
  MutualExclusion
  SnapshotStable
  NeverRetriesFailed
  LoadCountsInFlight
PROPERTIES
  ImplementsService
  ChoosesLeastLoaded
