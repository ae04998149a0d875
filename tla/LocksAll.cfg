\* All the handlers of the market and the lease sweep.
SPECIFICATION Spec
CONSTANTS
  l1 = l1
  l2 = l2
  l3 = l3
  u1 = u1
  u2 = u2
  u3 = u3
  u4 = u4
  Txs = {t1, t2, t3}
  Users = {1, 2}
  Listings = {l1, l2, l3}
  Seller <- MCSeller
  Pickup <- MCPickup
  Referrer <- NoReferrer
  Joined <- MCJoined
  Shelf <- MCShelf
  Overdue <- MCOverdue
  Units = {u1, u2, u3, u4}
  NoUser = NoUser
INVARIANTS TypeOK CirclesAreKnown
PROPERTIES EveryTxEnds
