SPECIFICATION Spec
CONSTANTS
  j1 = j1
  j2 = j2
  s1 = s1
  s2 = s2
  temp = temp
  NoFile = NoFile
  Jobs <- TwoJobs
  Servers <- OneServer
  Dirs <- OneDir
  ServerOf <- SameServer
  DirOf <- SharedTemp1
  Failures <- AllFailures
  MaxClock = 2
  MaxCrashes = 1
CHECK_DEADLOCK FALSE
SYMMETRY JobSymmetry
INVARIANTS
  NamesOrdered
  RepliesAreOwn
  FilesHaveOwners
  StatusTellsStage
  DescriptorsReturned
PROPERTIES
  ImplementsService
