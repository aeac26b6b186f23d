SPECIFICATION FairSpec
CONSTANTS
  j1 = j1
  j2 = j2
  s1 = s1
  s2 = s2
  temp = temp
  NoFile = NoFile
  Jobs <- TwoJobs
  Servers <- TwoServers
  Dirs <- OneDir
  ServerOf <- OwnServer
  DirOf <- SharedTemp2
  Failures <- AllFailures
  MaxClock = 0
  MaxCrashes = 0
CHECK_DEADLOCK FALSE
PROPERTIES
  EveryJobAnswered
