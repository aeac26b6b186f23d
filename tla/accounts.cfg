SPECIFICATION Spec
CONSTANTS
  w1 = w1
  w2 = w2
  ann = ann
  bob = bob
  cat = cat
  odd = odd
  p1 = p1
  p2 = p2
  NoUser = NoUser
  NoName = NoName
  Nobody = Nobody
  NoJob = NoJob
  Threads <- TwoWorkers
  Names <- FourNames
  Literal <- PlainNames
  SplicedTables <- Tables
  Passwords <- TwoSecrets
  Forms <- EightForms
  FirstUsers <- First
  Faults = {"select", "write"}
  MaxUsers = 3
  MaxLogins = 2
  MaxRequests = 4
  MaxRestarts = 1
CHECK_DEADLOCK FALSE
SYMMETRY Symmetry
INVARIANTS
  RightsComeFromAdmins
  SessionsSpeakForOwner
  SessionsLast
