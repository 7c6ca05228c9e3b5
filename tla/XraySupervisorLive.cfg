SPECIFICATION TimelySpec
CONSTANTS
  Parts = {inbound}
  Templates = {}
  Handles = {h1, h2, h3}
  NoProc = NoProc
  NoThread = NoThread
  NoConfig = NoConfig
  NoPart = NoPart
  Boot = boot
  Admins = {a1}
  Checkers = {k1}
  Crons = {r1}
  MaxOps = 1
  MaxCrashes = 1
  MaxErrs = 1
PROPERTIES ServiceRestored  OldProcsDie
CHECK_DEADLOCK FALSE
