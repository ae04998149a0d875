\* Two passes for one player with everything that runs beside them.
SPECIFICATION Spec
CONSTANTS
  alice = alice
  bob = bob
  p1 = p1
  p2 = p2
  NoUser = NoUser
  NoPass = NoPass
  Users <- MCUsers
  Miners <- MCMiners
  Manager <- MCManager
  MachineDue <- MCNoLease
  Passes <- MCPasses
  LocksEffective = TRUE
  Grid = 2
  MaxWindow = 2
  Lookback = 4
  Day = 2
  WeekLength = 5
  Reward = 1
  CatchUp = 1
  MaxLag = 1
  MaxTime = 5
  MaxEvents = 2
SYMMETRY MCSymmetry
INVARIANTS CreditedOnce BalanceIsHistory OnlyClosedBlocks PaidWhatAccrued
