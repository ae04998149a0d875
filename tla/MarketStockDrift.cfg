\* The lease sweep writes a stock count it read before another handler ran.
SPECIFICATION Spec
CONSTANTS
  alice = alice
  bob = bob
  carol = carol
  u1 = u1
  u2 = u2
  u3 = u3
  Users = {alice, bob}
  Units = {u1, u2}
  ListingIds = {l1, l2, l3}
  Keys = {k1}
  Requests = {}
  Prices = {100}
  NoUser = NoUser
  NoListing = NoListing
  Owner0 <- MCOwner0
  Usdc0 <- MCUsdc0
  Due <- Clocks
  Referrer <- MCReferrer
  BaseCost = 100
  BandPercent = 20
  TaxPercent = 5
  CommissionPercent = 2
  ReserveWindow = 2
  MaxLag = 1
  NoExpiry = 1000
  LegacyId = l1
  LegacyUnits = {}
  LegacyPrice = 100
  LegacyExpiry = 3
  Wants = {0, 1}
  Blockable = {bob}
  MaxTime = 4
INVARIANTS StockMatchesUnits
