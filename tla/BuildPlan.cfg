SPECIFICATION Spec
CONSTANTS
  FirstClassId = 10
  DefaultClassId = 12
  Entries <- MCEntries
  MaxEntries = 4
INVARIANTS LoopInv BuildsThePlan ClassesDisjoint
CHECK_DEADLOCK FALSE
