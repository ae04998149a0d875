\* Sales, partial sales, claims and the idempotency race. No unit has a
\* clock and time stands still.
SPECIFICATION Spec
CONSTANTS
  alice = alice
  bob = bob
  carol = carol
  u1 = u1
  u2 = u2
  u3 = u3
  Users = {alice, bob}
  Units = {u1, u2, u3}
  ListingIds = {l1, l2, l3}
  Keys = {k1}
  Requests = {r1, r2}
  Prices = {100}
  NoUser = NoUser
  NoListing = NoListing
  Owner0 <- MCOwner0
  Usdc0 <- MCUsdc0
  Due <- NoClocks
  Referrer <- MCReferrer
  BaseCost = 100
  BandPercent = 20
  TaxPercent = 5
  CommissionPercent = 2
  ReserveWindow = 1
  MaxLag = 0
  NoExpiry = 1000
  LegacyId = l1
  LegacyUnits = {}
  LegacyPrice = 100
  LegacyExpiry = 1
  Wants = {1, 2}
  Blockable = {}
  MaxTime = 1
SYMMETRY Symmetric
INVARIANTS TypeOK JoinsMatchUnits QtyMatchesJoins CustodyHasBuyer KeyChargesOnce
  StockMatchesUnits CustodyRedeemable MoneyConserved
PROPERTIES CustodyGoesToBuyer EscrowSpec
