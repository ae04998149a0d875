\* The same transactions, and the circle two of them close.
SPECIFICATION Spec
CONSTANTS
  l1 = l1
  l2 = l2
  l3 = l3
  u1 = u1
  u2 = u2
  u3 = u3
  u4 = u4
  Txs = {t1, t2}
  Users = {1, 2, 3}
  Listings = {l1, l2, l3}
  Seller <- MCSeller
  Pickup <- MCPickup
  Referrer <- MCReferrer
  Joined <- MCJoined
  Shelf <- MCShelf
  Overdue <- MCOverdue
  Units = {u1, u2, u3, u4}
  NoUser = NoUser
INVARIANTS NoDeadlock
