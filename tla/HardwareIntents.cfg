\* Two intents at a time over two racks, with everything else that writes.
SPECIFICATION Spec
CONSTANTS
  Leases = {l1, l2}
  Racks = {r1, r2}
  Slots = {1}
  Places = {"p"}
  Txs = {t1, t2}
  Keys = {k}
  FreshKey = FreshKey
  Page = Page
  InitStock <- MCInitStock
  Duration = 1
  MaxTime = 1
  MaxQty = 1
  MaxBehind = 1
  MaxAfter = 1
  NoLease = NoLease
  NoRack = NoRack
  NoSlot = 0
SYMMETRY Symmetry
INVARIANTS TypeOK NothingMinted StockMatchesLeases SlotsMatchLeases KeyAppliesOnce
PROPERTIES UndisturbedConserves
CHECK_DEADLOCK FALSE
CONSTRAINT Bounded
