SPECIFICATION FairSpec
CONSTANTS
  w1 = w1
  w2 = w2
  c1 = c1
  c2 = c2
  c3 = c3
  NoConn = NoConn
  Workers <- TwoWorkers
  Connections <- ThreeConnections
  MaxKeep = 2
  MaxSent <- Sends
CHECK_DEADLOCK FALSE
INVARIANTS
  ConnectionsOwned
  NoLostWakeUp
  ShutdownDrains
  LastResponseTells
PROPERTIES
  EveryConnectionClosed
  ImplementsService
