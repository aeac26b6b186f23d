SPECIFICATION Spec
CONSTANTS
  w1 = w1
  w2 = w2
  NoThread = NoThread
  Threads <- TwoWorkers
  Unset <- Leftovers
  MaxTicks = 2
  MaxPolls = 2
CHECK_DEADLOCK FALSE
SYMMETRY Symmetry
INVARIANTS
  OverlapNeedsTimeout
  DifferencesAddUp
  ThrowNeedsOverlap
