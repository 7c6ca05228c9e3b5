SPECIFICATION FairSpec
CONSTANTS
  FirstClassId = 10
  DefaultClassId = 12
  EntrySets <- FewEntrySets
  Ifaces = {eth0, eth1}
  NoIface = NoIface
  Firings = {f1}
  NoFiring = NoFiring
  Unlimited = 25000
  MaxEdits = 1
  MaxFails = 0
  MaxRoutes = 1
  MaxHuman = 0
  MaxStops = 0
  MaxCrashes = 0
PROPERTY RulesCleanedUp
CHECK_DEADLOCK FALSE
