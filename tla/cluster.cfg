SPECIFICATION Spec
CONSTANTS
  j1 = j1
  j2 = j2
  m1 = m1
  m2 = m2
  Judges <- TwoJudges
  Machines <- TwoMachines
  Workers = 1
  MaxRecoveries = 1
  MaxCrashes = 1
CHECK_DEADLOCK FALSE
SYMMETRY Symmetry
INVARIANTS
  ResultIsOfLastTry
  TriesPerMachine
  DownHasCause
PROPERTIES
  ImplementsService
