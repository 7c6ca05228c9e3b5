SPECIFICATION FairSpec
CONSTANTS
  Users = {u1}
  NoUser = NoUser
  IPs = {i1, i2}
  TTL = 2
  Observe = 2
  Limits = {0, 1}
  MaxEdits = 2
  MaxCrashes = 1
  MaxErrs = 1
  MaxTruncs = 1
INVARIANTS TypeOK TempIsKnown InStep
PROPERTY BansEnd
CHECK_DEADLOCK FALSE
