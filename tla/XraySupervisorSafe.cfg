SPECIFICATION Spec
CONSTANTS
  Parts = {inbound, outbound}
  Templates = {outbound}
  Handles = {h1, h2}
  NoProc = NoProc
  NoThread = NoThread
  NoConfig = NoConfig
  NoPart = NoPart
  Boot = boot
  Admins = {a1}
  Checkers = {k1}
  Crons = {r1}
  MaxOps = 2
  MaxCrashes = 1
  MaxErrs = 1
INVARIANTS TypeOK  OneRestartAtATime
PROPERTIES ReplacedIsSignalled 
SYMMETRY Symmetry
CHECK_DEADLOCK FALSE
