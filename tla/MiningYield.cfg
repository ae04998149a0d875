\* Four boundaries, ticks that are cut off, catch up in two or restart, retention.
SPECIFICATION Spec
CONSTANTS
  alice = alice
  bob = bob
  p1 = p1
  p2 = p2
  NoUser = NoUser
  NoPass = NoPass
  Users <- MCUsers
  Miners <- MCMiners
  Manager <- MCManager
  MachineDue <- MCMachineDue
  Passes <- MCOnePass
  LocksEffective = TRUE
  Grid = 1
  MaxWindow = 2
  Lookback = 2
  Day = 1
  WeekLength = 5
  Reward = 1
  CatchUp = 2
  MaxLag = 1
  MaxTime = 4
  MaxEvents = 2
INVARIANTS TypeOK NoYieldGap
