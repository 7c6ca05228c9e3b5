SPECIFICATION Spec
CONSTANTS
  Users = {u1}
  NoUser = NoUser
  IPs = {i1, i2}
  TTL = 2
  Observe = 2
  Limits = {1}
  MaxEdits = 0
  MaxCrashes = 0
  MaxErrs = 0
  MaxTruncs = 0
PROPERTY ObservedBeforeBan
CHECK_DEADLOCK FALSE
