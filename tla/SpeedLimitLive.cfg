SPECIFICATION FairSpec
CONSTANTS
  FirstClassId = 10
  DefaultClassId = 12
  EntrySets <- FewEntrySets
  Ifaces = {eth0, eth1}
  NoIface = NoIface
  Firings = {f1, f2}
  NoFiring = NoFiring
  Unlimited = 25000
  MaxEdits = 1
  MaxFails = 1
  MaxRoutes = 2
  MaxHuman = 1
  MaxStops = 0
  MaxCrashes = 0
PROPERTY SettledOrStuck
CHECK_DEADLOCK FALSE
