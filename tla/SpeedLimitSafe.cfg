SPECIFICATION Spec
CONSTANTS
  FirstClassId = 10
  DefaultClassId = 12
  EntrySets <- AllEntrySets
  Ifaces = {eth0, eth1}
  NoIface = NoIface
  Firings = {f1, f2}
  NoFiring = NoFiring
  Unlimited = 25000
  MaxEdits = 1
  MaxFails = 1
  MaxRoutes = 1
  MaxHuman = 1
  MaxStops = 1
  MaxCrashes = 1
INVARIANTS TypeOK AppliedIsInForce
SYMMETRY Symmetry
CHECK_DEADLOCK FALSE
