SPECIFICATION FairSpec
CONSTANTS
  Emails = {a, b}
  Renewing = {b}
  TheInbound = TheInbound
  MaxOps = 2
  MaxRunsOut = 1
  MaxApiErrs = 1
  MaxCrashes = 1
INVARIANTS TypeOK InSync
PROPERTY RunsOutIsNoticed
CHECK_DEADLOCK FALSE
