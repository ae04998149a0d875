----------------------------- MODULE P2PMarket -----------------------------
(***************************************************************************)
(* The P2P ("black") market of genesis-hardware for one catalogue item:    *)
(* every physical unit is a row of item_instances, a listing is a row of   *)
(* player_listings whose units are the rows of player_listing_instances.   *)
(*                                                                         *)
(* A handler is one Postgres transaction that locks every row it changes   *)
(* before it reads it, so a handler is one action, except where the code   *)
(* reads something before the lock that protects it:                       *)
(*   - buy looks the idempotency key up before it locks the listing        *)
(*     (BuyBegin / BuyCommit / BuyAbort);                                  *)
(*   - the lease sweep counts the stock before it writes stock.qty, and    *)
(*     nothing keeps the other handlers away in between                    *)
(*     (ExpireLeases / SyncStock);                                         *)
(*   - reserve, reclaim and clear_expired_reservations take their clock    *)
(*     before they wait for the row (the parameter t).                     *)
(***************************************************************************)
EXTENDS Integers, FiniteSets, FiniteSetsExt

CONSTANTS
  Users,              \* players with a users and a game_states row
  Units,              \* physical units (item_instances.id)
  ListingIds,         \* identifiers of player_listings rows, never reused
  Keys,               \* idempotency keys clients send
  Requests,           \* buy requests that can be in flight at once
  Prices,             \* unit prices offered
  NoUser, NoListing,  \* SQL NULL of the two kinds of reference
  Owner0, Usdc0, Due, \* initial owner and USDC; expiry clock of a unit (0: none)
  Referrer,           \* referrals: who brought the user in, or NoUser
  BaseCost,           \* upgrades.base_cost of the item
  BandPercent, TaxPercent, CommissionPercent,  \* economy_settings, referral_models
  ReserveWindow,      \* MARKET_RESERVE_MS
  MaxLag,             \* longest wait between a handler's clock and its update
  NoExpiry,           \* P2P_LISTING_NO_EXPIRY_EXPIRES_AT_MS
  LegacyId, LegacyUnits, LegacyPrice, LegacyExpiry,
                      \* a listing of the time when listings had a TTL
  Wants,              \* bound: quantities buyers ask for (0: none given)
  Blockable,          \* bound: accounts an administrator blocks and unblocks
  MaxTime             \* bound: the clock stops here

ASSUME MarketAssumption ==
  /\ IsFiniteSet(Users) /\ IsFiniteSet(Units)
  /\ Prices \subseteq Nat \ {0}
  /\ NoUser \notin Users /\ NoListing \notin ListingIds
  /\ Owner0 \in [Units -> Users] /\ Usdc0 \in [Users -> Nat] /\ Due \in [Units -> Nat]
  /\ Referrer \in [Users -> Users \cup {NoUser}]
  /\ \A b \in Users : Referrer[b] # b  \* binding one's own code is refused
  /\ BaseCost \in Nat /\ BandPercent \in Int /\ TaxPercent \in Int
  /\ CommissionPercent \in Nat
  /\ ReserveWindow \in Nat \ {0} /\ MaxLag \in Nat /\ NoExpiry \in Nat /\ MaxTime \in Nat
  /\ Wants \subseteq Nat /\ Blockable \subseteq Users
  /\ LegacyId \in ListingIds /\ LegacyUnits \subseteq Units
  /\ LegacyPrice \in Nat \ {0} /\ LegacyExpiry \in Nat
  /\ \A u, v \in LegacyUnits : Owner0[u] = Owner0[v]

VARIABLES
  now,        \* the wall clock
  blocked,    \* users.is_blocked
  usdc,       \* game_states.usdc
  proceeds,   \* game_states.black_market_balance
  owner,      \* item_instances.user_id (and player_asic_leases.user_id)
  ustatus,    \* item_instances.status (and player_asic_leases.status)
  stockQty,   \* stock.qty, the denormalised count shown to the player
  sweep,      \* the open lease sweep of a user: units it locked, count it read
  listing,    \* player_listings
  join,       \* player_listing_instances: the one listing a unit is in
  request,    \* buy transactions past their idempotency lookup
  idem,       \* p2p_market_buy_idempotency
  charges,    \* observer: how often a (buyer, key) was charged
  taxTotal,   \* sum of p2p_market_trade_history.tax_usdc
  minted      \* observer: referral commission credited from nowhere

unitVars    == <<owner, ustatus, join>>
bookVars    == <<listing, join>>
moneyVars   == <<usdc, proceeds, taxTotal, minted>>
requestVars == <<request, idem, charges>>
stockVars   == <<stockQty, sweep>>
vars == <<now, blocked, usdc, proceeds, owner, ustatus, stockQty, sweep, listing,
          join, request, idem, charges, taxTotal, minted>>

(***************************************************************************)
(* Rows.                                                                   *)
(***************************************************************************)
NoTime == 0     \* NULL reserved_until; clocks start at 1
NoQty  == 0     \* a buy request without a quantity
NoSweep == [units |-> {}, count |-> 0]

UnitStatus == {"stock", "listed", "expired"}
\* "none": id not used yet; "gone": the row was deleted.
ListingStatus == {"none", "active", "awaiting_pickup", "gone"}

Listing == [status : ListingStatus, seller : Users \cup {NoUser}, price : Nat,
            expires : Nat, qty : Nat, reservedBy : Users \cup {NoUser},
            reservedUntil : Nat]

NoRow == [status |-> "none", seller |-> NoUser, price |-> 0, expires |-> 0,
          qty |-> 0, reservedBy |-> NoUser, reservedUntil |-> NoTime]

Request == [buyer : Users, key : Keys, id : ListingIds, want : Nat]
NoRequest == [buyer |-> NoUser, key |-> 0, id |-> NoListing, want |-> NoQty]

GoneRow == [NoRow EXCEPT !.status = "gone"]
Unreserved(row) == [row EXCEPT !.reservedBy = NoUser, !.reservedUntil = NoTime]

Live(l) == listing[l].status \in {"active", "awaiting_pickup"}
UnitsIn(l) == {u \in Units : join[u] = l}
StockUnits(x) == {u \in Units : owner[u] = x /\ ustatus[u] = "stock"}
Unexpired(x) == {u \in StockUnits(x) : Due[u] = 0 \/ Due[u] > now}

(***************************************************************************)
(* Pure helpers (genesis-core::market).                                    *)
(***************************************************************************)
Clamp(lo, n, hi) == IF n < lo THEN lo ELSE IF n > hi THEN hi ELSE n

ClampTaxPercent == Clamp(0, TaxPercent, 100)
ClampPriceBandPercent == Clamp(1, BandPercent, 90)

InBand(p) == BaseCost > 0 =>
  /\ 100 * p >= BaseCost * (100 - ClampPriceBandPercent)
  /\ 100 * p <= BaseCost * (100 + ClampPriceBandPercent)

\* Active means strictly later than the clock.
ReservationActive(row, t) == row.reservedUntil # NoTime /\ row.reservedUntil > t

Tax(total) == (total * ClampTaxPercent) \div 100

Commission(b, total) ==
  IF Referrer[b] = NoUser THEN 0 ELSE (total * CommissionPercent) \div 100

SellerReceiveAll(total) == total                        \* fault: tax burnt, not withheld
SellerReceive(total) == total - Tax(total)

\* Clocks a handler may have taken before it waited for its row.
Stamps == {t \in 1..now : now - t <= MaxLag}

BuyQty(row, want) ==
  IF row.qty > 1 THEN (IF want < row.qty THEN want ELSE row.qty) ELSE 1

(***************************************************************************)
(* Initial states: units in stock, and one legacy listing with a TTL.      *)
(***************************************************************************)
LegacyRow ==
  [status |-> "active", seller |-> Owner0[CHOOSE u \in LegacyUnits : TRUE],
   price |-> LegacyPrice, expires |-> LegacyExpiry,
   qty |-> Cardinality(LegacyUnits), reservedBy |-> NoUser,
   reservedUntil |-> NoTime]

Init ==
  /\ now = 1
  /\ blocked = [x \in Users |-> FALSE]
  /\ usdc = Usdc0
  /\ proceeds = [x \in Users |-> 0]
  /\ owner = Owner0
  /\ ustatus = [u \in Units |-> IF u \in LegacyUnits THEN "listed" ELSE "stock"]
  /\ stockQty = [x \in Users |->
                   Cardinality({u \in Units \ LegacyUnits : Owner0[u] = x})]
  /\ sweep = [x \in Users |-> NoSweep]
  /\ listing = [l \in ListingIds |->
                  IF l = LegacyId /\ LegacyUnits # {} THEN LegacyRow ELSE NoRow]
  /\ join = [u \in Units |-> IF u \in LegacyUnits THEN LegacyId ELSE NoListing]
  /\ request = [r \in Requests |-> NoRequest]
  /\ idem = {}
  /\ charges = [c \in Users \X Keys |-> 0]
  /\ taxTotal = 0
  /\ minted = 0

(***************************************************************************)
(* POST /v1/market/sell: debit stock.qty, mark that many stock units       *)
(* listed, insert the listing and its joins.                               *)
(***************************************************************************)
Sell(x, p, S, l) ==
  LET n == Cardinality(S) IN
  /\ ~blocked[x]
  /\ InBand(p)
  /\ S # {} /\ S \subseteq StockUnits(x)
  /\ stockQty[x] >= n
  /\ listing[l].status = "none"
  /\ \A u \in S : join[u] = NoListing       \* unique index on instance_id
  /\ stockQty' = [stockQty EXCEPT ![x] = @ - n]
  /\ ustatus' = [u \in Units |-> IF u \in S THEN "listed" ELSE ustatus[u]]
  /\ join' = [u \in Units |-> IF u \in S THEN l ELSE join[u]]
  /\ listing' = [listing EXCEPT ![l] =
       [status |-> "active", seller |-> x, price |-> p, expires |-> NoExpiry,
        qty |-> n, reservedBy |-> NoUser, reservedUntil |-> NoTime]]
  /\ UNCHANGED <<now, blocked, owner, sweep, moneyVars, requestVars>>

(***************************************************************************)
(* POST /v1/market/reserve and cancel-reserve: one conditional UPDATE.     *)
(***************************************************************************)
Reserve(x, l, t) ==
  LET row == listing[l] IN
  /\ row.status = "active" /\ row.expires > t /\ row.seller # x
  /\ \/ row.reservedUntil = NoTime
     \/ row.reservedUntil < t
     \/ row.reservedBy = x
  /\ listing' = [listing EXCEPT ![l].reservedBy = x,
                                ![l].reservedUntil = t + ReserveWindow]
  /\ UNCHANGED <<now, blocked, unitVars, stockVars, moneyVars, requestVars>>

CancelReserve(x, l) ==
  /\ listing[l].status = "active" /\ listing[l].reservedBy = x
  /\ listing' = [listing EXCEPT ![l] = Unreserved(@)]
  /\ UNCHANGED <<now, blocked, unitVars, stockVars, moneyVars, requestVars>>

\* clear_expired_reservations: every read of the book starts with it.
ClearExpiredReservations(t) ==
  /\ listing' = [l \in ListingIds |->
       IF /\ listing[l].status = "active"
          /\ listing[l].reservedUntil # NoTime /\ listing[l].reservedUntil < t
       THEN Unreserved(listing[l]) ELSE listing[l]]
  /\ UNCHANGED <<now, blocked, unitVars, stockVars, moneyVars, requestVars>>

(***************************************************************************)
(* Joins: deleted with the listing, or moved to the custody row.           *)
(***************************************************************************)
JoinsKept(S) == join                                     \* fault: rows left behind
JoinsWithout(S) == [u \in Units |-> IF u \in S THEN NoListing ELSE join[u]]

JoinsAllMoved(M, l, c) ==                                \* fault: the whole line moves
  [u \in Units |-> IF join[u] = l THEN c ELSE join[u]]
JoinsMoved(M, l, c) == [u \in Units |-> IF u \in M THEN c ELSE join[u]]

(***************************************************************************)
(* op_unlist for the units S of one owner or of several: listed units go   *)
(* back to stock, an expired one keeps its status, stock.qty counts the    *)
(* listed ones only.                                                       *)
(***************************************************************************)
Unlist(S) ==
  /\ ustatus' = [u \in Units |->
       IF u \in S /\ ustatus[u] = "listed" THEN "stock" ELSE ustatus[u]]
  /\ join' = JoinsWithout(S)
  /\ stockQty' = [x \in Users |->
       stockQty[x] + Cardinality({u \in S : owner[u] = x /\ ustatus[u] = "listed"})]
  /\ UNCHANGED <<owner, sweep>>

\* What op_unlist and op_transfer require of the listing's units. A unit an
\* open sweep holds makes the handler wait for the sweep's commit.
Unlocked(S) == \A x \in Users : sweep[x].units \cap S = {}

UnitsIntactListed(l) ==                                  \* fault: expired units refused
  /\ Unlocked(UnitsIn(l))
  /\ Cardinality(UnitsIn(l)) = listing[l].qty
  /\ \A u \in UnitsIn(l) : owner[u] = listing[l].seller /\ ustatus[u] = "listed"

UnitsIntact(l) ==
  /\ Unlocked(UnitsIn(l))
  /\ Cardinality(UnitsIn(l)) = listing[l].qty
  /\ \A u \in UnitsIn(l) : /\ owner[u] = listing[l].seller
                           /\ ustatus[u] \in {"listed", "expired"}

(***************************************************************************)
(* POST /v1/market/cancel.                                                 *)
(***************************************************************************)
CancellableSold(x, l) ==                                 \* fault: status not checked
  Live(l) /\ listing[l].seller = x
Cancellable(x, l) ==
  /\ listing[l].status = "active" /\ listing[l].seller = x
  /\ ~(listing[l].reservedBy # NoUser /\ ReservationActive(listing[l], now))

Cancel(x, l) ==
  /\ ~blocked[x]
  /\ Cancellable(x, l)
  /\ UnitsIntact(l)
  /\ Unlist(UnitsIn(l))
  /\ listing' = [listing EXCEPT ![l] = GoneRow]
  /\ UNCHANGED <<now, blocked, moneyVars, requestVars>>

(***************************************************************************)
(* reclaim_expired, one round: the expired, unreserved listings that are   *)
(* not locked by somebody else (SKIP LOCKED: any subset) are unlisted and  *)
(* deleted; one whose joins do not match its quantity is skipped.          *)
(***************************************************************************)
ReclaimableReserved(t) == {l \in ListingIds :            \* fault: reservation ignored
  listing[l].status = "active" /\ listing[l].expires <= t}
ReclaimableSold(t) == {l \in ListingIds :                \* fault: custody rows included
  Live(l) /\ listing[l].expires <= t}
Reclaimable(t) == {l \in ListingIds :
  /\ listing[l].status = "active" /\ listing[l].expires <= t
  /\ listing[l].reservedUntil = NoTime \/ listing[l].reservedUntil < t}

ReclaimRound(L, t) ==
  LET credited == {l \in L : Cardinality(UnitsIn(l)) = listing[l].qty} IN
  /\ L # {} /\ L \subseteq Reclaimable(t)
  /\ \A l \in credited : UnitsIntact(l)     \* a p2p error rolls the round back
  /\ Unlist({u \in Units : join[u] \in credited})
  /\ listing' = [l \in ListingIds |->
       IF l \in credited THEN GoneRow ELSE listing[l]]
  /\ UNCHANGED <<now, blocked, moneyVars, requestVars>>

(***************************************************************************)
(* POST /v1/market/buy.                                                    *)
(***************************************************************************)
\* The lookup of the idempotency key, the first statement of the transaction.
BuyBegin(r, b, k, l, want) ==
  /\ request[r] = NoRequest
  /\ listing[l].status = "active"       \* an id the book shows
  /\ <<b, k>> \notin idem
  /\ request' = [request EXCEPT ![r] =
                   [buyer |-> b, key |-> k, id |-> l, want |-> want]]
  /\ UNCHANGED <<now, blocked, unitVars, stockVars, listing, moneyVars, idem, charges>>

\* A refused check, a lock timeout, a deadlock victim, a lost connection:
\* the transaction rolls back.
BuyAbort(r) ==
  /\ request[r] # NoRequest
  /\ request' = [request EXCEPT ![r] = NoRequest]
  /\ UNCHANGED <<now, blocked, unitVars, stockVars, listing, moneyVars, idem, charges>>

AffordableOne(b, row, n) == usdc[b] >= row.price         \* fault: unit price compared
Affordable(b, row, n) == usdc[b] >= row.price * n

\* The checks made once the listing row, the buyer's users row, the
\* game_states rows and the units are locked.
Buyable(b, l, want) ==
  LET row == listing[l] IN
  /\ row.status = "active"
  /\ ~blocked[b]
  /\ row.expires >= now
  /\ row.seller # b
  /\ ~(/\ row.reservedBy # NoUser /\ ReservationActive(row, now)
       /\ row.reservedBy # b)
  /\ row.qty > 1 => want # NoQty
  /\ InBand(row.price)
  /\ Affordable(b, row, BuyQty(row, want))
  /\ Unlocked(UnitsIn(l))
  /\ Cardinality(UnitsIn(l)) = row.qty
  /\ \A u \in UnitsIn(l) : ustatus[u] = "listed"

\* The whole line: the row itself becomes the buyer's custody.
FullSaleReserved(b, l) ==                                \* fault: reservation kept
  /\ listing' = [listing EXCEPT ![l].status = "awaiting_pickup", ![l].reservedBy = b]
  /\ join' = join
FullSale(b, l) ==
  /\ listing' = [listing EXCEPT ![l].status = "awaiting_pickup",
                                ![l].reservedBy = b, ![l].reservedUntil = NoTime]
  /\ join' = join

\* Part of it: the line shrinks and loses its reservation, a custody row c is
\* inserted and the joins of n units move to it.
PartialSale(b, l, n, c, M) ==
  /\ listing[c].status = "none"
  /\ M \subseteq UnitsIn(l) /\ Cardinality(M) = n
  /\ listing' = [listing EXCEPT
       ![l] = [Unreserved(listing[l]) EXCEPT !.qty = listing[l].qty - n],
       ![c] = [listing[l] EXCEPT !.status = "awaiting_pickup", !.qty = n,
                                 !.reservedBy = b, !.reservedUntil = NoTime]]
  /\ join' = JoinsMoved(M, l, c)

\* The buyer pays, the seller's market balance gets the price less the tax,
\* the buyer's referrer a commission on the full price.
Settle(b, s, total) ==
  /\ usdc' = [x \in Users |->
       (IF x = b THEN usdc[x] - total ELSE usdc[x])
         + (IF x = Referrer[b] THEN Commission(b, total) ELSE 0)]
  /\ proceeds' = [proceeds EXCEPT ![s] = @ + SellerReceive(total)]
  /\ taxTotal' = taxTotal + Tax(total)
  /\ minted' = minted + Commission(b, total)

\* The primary key of the idempotency table, checked by the last insert.
KeyIgnored(b, k) == TRUE                                 \* fault: ON CONFLICT DO NOTHING
KeyFree(b, k) == <<b, k>> \notin idem

BuyCommit(r, c, M) ==
  LET b == request[r].buyer
      k == request[r].key
      l == request[r].id
      n == BuyQty(listing[l], request[r].want)
  IN
  /\ request[r] # NoRequest
  /\ Buyable(b, l, request[r].want)
  /\ IF n >= listing[l].qty THEN FullSale(b, l) ELSE PartialSale(b, l, n, c, M)
  /\ Settle(b, listing[l].seller, listing[l].price * n)
  /\ KeyFree(b, k)
  /\ idem' = idem \cup {<<b, k>>}
  /\ charges' = [charges EXCEPT ![<<b, k>>] = @ + 1]
  /\ request' = [request EXCEPT ![r] = NoRequest]
  /\ UNCHANGED <<now, blocked, owner, ustatus, stockVars>>

(***************************************************************************)
(* Claims: op_transfer hands the units of custody rows to their buyer.     *)
(***************************************************************************)
StockNotCredited(S, b) == stockQty                       \* fault: credit forgotten
StockCredited(S, b) ==
  [stockQty EXCEPT ![b] = @ + Cardinality({u \in S : ustatus[u] = "listed"})]

Transfer(L, b) ==
  LET S == {u \in Units : join[u] \in L} IN
  /\ \A l \in L : UnitsIntact(l)
  /\ owner' = [u \in Units |-> IF u \in S THEN b ELSE owner[u]]
  /\ ustatus' = [u \in Units |->
       IF u \in S /\ ustatus[u] = "listed" THEN "stock" ELSE ustatus[u]]
  /\ join' = JoinsWithout(S)
  /\ stockQty' = StockCredited(S, b)
  /\ listing' = [l \in ListingIds |->
       IF l \in L THEN GoneRow ELSE listing[l]]
  /\ UNCHANGED sweep

CustodyOfAll(b) == {l \in ListingIds :                   \* fault: buyer not compared
  listing[l].status = "awaiting_pickup"}
Custody(b) == {l \in ListingIds :
  listing[l].status = "awaiting_pickup" /\ listing[l].reservedBy = b}

ClaimItem(b, l) ==
  /\ ~blocked[b]
  /\ l \in Custody(b)
  /\ Transfer({l}, b)
  /\ UNCHANGED <<now, blocked, moneyVars, requestVars>>

ClaimAll(b) ==
  /\ ~blocked[b]
  /\ Custody(b) # {}
  /\ Transfer(Custody(b), b)
  /\ UNCHANGED <<now, blocked, moneyVars, requestVars>>

ClaimProceeds(x) ==
  /\ ~blocked[x]
  /\ proceeds[x] > 0
  /\ usdc' = [usdc EXCEPT ![x] = @ + proceeds[x]]
  /\ proceeds' = [proceeds EXCEPT ![x] = 0]
  /\ UNCHANGED <<now, blocked, unitVars, stockVars, listing, requestVars, taxTotal, minted>>

(***************************************************************************)
(* expire_user_asic_leases, run by every read of the player's rooms: soft- *)
(* expire the due units, count what is left in stock ...                   *)
(***************************************************************************)
DueUnits(x) == {u \in Units : /\ owner[u] = x /\ ustatus[u] \in {"stock", "listed"}
                              /\ Due[u] > 0 /\ Due[u] <= now}

ExpireLeases(x) ==
  /\ sweep[x] = NoSweep
  /\ DueUnits(x) # {}
  /\ ustatus' = [u \in Units |-> IF u \in DueUnits(x) THEN "expired" ELSE ustatus[u]]
  /\ sweep' = [sweep EXCEPT ![x] =
                 [units |-> DueUnits(x), count |-> Cardinality(Unexpired(x))]]
  /\ UNCHANGED <<now, blocked, owner, stockQty, bookVars, moneyVars, requestVars>>

\* ... and sync_timed_asic_stock_for_item: write the count it read.
SyncStock(x) ==
  /\ sweep[x] # NoSweep
  /\ stockQty' = [stockQty EXCEPT ![x] = sweep[x].count]
  /\ sweep' = [sweep EXCEPT ![x] = NoSweep]
  /\ UNCHANGED <<now, blocked, unitVars, listing, moneyVars, requestVars>>

(***************************************************************************)
(* The environment: an administrator (un)blocks an account, time passes.   *)
(***************************************************************************)
SetBlocked(x) ==
  /\ blocked' = [blocked EXCEPT ![x] = ~@]
  /\ UNCHANGED <<now, unitVars, stockVars, listing, moneyVars, requestVars>>

Tick ==
  /\ now < MaxTime
  /\ now' = now + 1
  /\ UNCHANGED <<blocked, unitVars, stockVars, listing, moneyVars, requestVars>>

SellAny    == \E x \in Users, p \in Prices, S \in SUBSET Units, l \in ListingIds :
                Sell(x, p, S, l)
ReserveAny == \E x \in Users, l \in ListingIds, t \in Stamps : Reserve(x, l, t)
ReclaimAny == \E L \in SUBSET ListingIds, t \in Stamps : ReclaimRound(L, t)
BuyBeginAny == \E r \in Requests, b \in Users, k \in Keys, l \in ListingIds,
                  want \in Wants : BuyBegin(r, b, k, l, want)
BuyCommitAny == \E r \in Requests, c \in ListingIds, M \in SUBSET Units :
                  BuyCommit(r, c, M)

Next ==
  \/ SellAny
  \/ ReserveAny
  \/ \E x \in Users, l \in ListingIds : CancelReserve(x, l)
  \/ \E t \in Stamps : ClearExpiredReservations(t)
  \/ \E x \in Users, l \in ListingIds : Cancel(x, l)
  \/ ReclaimAny
  \/ BuyBeginAny
  \/ BuyCommitAny
  \/ \E r \in Requests : BuyAbort(r)
  \/ \E b \in Users, l \in ListingIds : ClaimItem(b, l)
  \/ \E b \in Users : ClaimAll(b)
  \/ \E x \in Users : ClaimProceeds(x)
  \/ \E x \in Users : ExpireLeases(x)
  \/ \E x \in Users : SyncStock(x)
  \/ \E x \in Blockable : SetBlocked(x)
  \/ Tick

Spec == Init /\ [][Next]_vars

-----------------------------------------------------------------------------
(***************************************************************************)
(* Properties.                                                             *)
(***************************************************************************)
TypeOK ==
  /\ now \in Nat \ {0}
  /\ blocked \in [Users -> BOOLEAN]
  /\ usdc \in [Users -> Nat] /\ proceeds \in [Users -> Nat]
  /\ owner \in [Units -> Users] /\ ustatus \in [Units -> UnitStatus]
  /\ stockQty \in [Users -> Nat]
  /\ sweep \in [Users -> [units : SUBSET Units, count : Nat]]
  /\ listing \in [ListingIds -> Listing]
  /\ join \in [Units -> ListingIds \cup {NoListing}]
  /\ request \in [Requests -> Request \cup {NoRequest}]
  /\ idem \in SUBSET (Users \X Keys)
  /\ charges \in [Users \X Keys -> Nat]
  /\ taxTotal \in Nat /\ minted \in Nat

\* A unit is in a listing exactly while it is off the shelf for it: a listed
\* unit always has a join, a joined unit is listed or has expired in the
\* listing, and it still belongs to the seller of a row that exists. It is
\* what sell, cancel, reclaim, buy and the two claims must keep up together.
JoinsMatchUnits ==
  /\ \A u \in Units : ustatus[u] = "listed" => join[u] # NoListing
  /\ \A u \in Units : join[u] # NoListing =>
       /\ Live(join[u])
       /\ owner[u] = listing[join[u]].seller
       /\ ustatus[u] \in {"listed", "expired"}

\* The quantity a row sells is the number of units joined to it, through
\* partial sales, expiry of a unit inside the listing and reclaim; no row is
\* ever left with nothing to sell or deliver.
QtyMatchesJoins ==
  \A l \in ListingIds : Live(l) =>
    listing[l].qty = Cardinality(UnitsIn(l)) /\ listing[l].qty > 0

\* A custody row has a buyer other than its seller, and no reservation clock
\* that reserve, clear_expired_reservations or reclaim could act on.
CustodyHasBuyer ==
  \A l \in ListingIds : listing[l].status = "awaiting_pickup" =>
    /\ listing[l].reservedBy \in Users \ {listing[l].seller}
    /\ listing[l].reservedUntil = NoTime

\* A request that passed its key lookup while another with the same key was
\* still open must not charge a second time: a key is charged at most once,
\* and exactly when its idempotency row is there.
KeyChargesOnce ==
  \A b \in Users, k \in Keys :
    charges[<<b, k>>] = IF <<b, k>> \in idem THEN 1 ELSE 0

\* Money moves, it is not made or lost: what the players hold in both
\* balances, plus the tax the trade history burnt, is what they started
\* with plus the referral commission the market minted.
Sum(f) == MapThenSumSet(LAMBDA x : f[x], Users)
MoneyConserved ==
  Sum(usdc) + Sum(proceeds) + taxTotal = Sum(Usdc0) + minted

\* stock.qty, the count sell debits and the player sees, is the number of
\* units in stock (instances.rs: "`stock.qty` is the denormalized count").
StockMatchesUnits ==
  \A x \in Users : sweep[x] = NoSweep => stockQty[x] = Cardinality(StockUnits(x))

\* What a buyer paid for can always be handed over once no sweep holds its
\* units: whatever happened since the sale, claim_item finds the units of
\* the row intact, so only a blocked account or a wait stands in the way.
CustodyRedeemable ==
  \A l \in ListingIds :
    /\ listing[l].status = "awaiting_pickup"
    /\ Unlocked(UnitsIn(l))
    => UnitsIntact(l) /\ UnitsIn(l) # {}

\* While a reservation runs, the line changes only by its holder's hand: it
\* is not bought by others, reserved by others, cancelled or reclaimed, even
\* by a handler whose clock was taken before it waited for the row.
ReservationStep ==
  \A l \in ListingIds :
    LET row == listing[l] IN
    (row.status = "active" /\ ReservationActive(row, now) /\ row # listing'[l])
    => LET h == row.reservedBy IN
       \/ listing'[l].reservedBy = h /\ listing'[l].status \in {"active", "awaiting_pickup"}
       \/ listing'[l].status = "active" /\ listing'[l].reservedBy = NoUser
            /\ \/ listing'[l].qty = row.qty
               \/ usdc'[h] < usdc[h]
ReservationHonoured == [][ReservationStep]_vars

\* A row leaves custody only by handing all its units to its buyer: nothing
\* cancels it, reclaims it, sells it again or delivers half of it.
CustodyStep ==
  \A l \in ListingIds :
    (listing[l].status = "awaiting_pickup" /\ listing'[l] # listing[l])
    => /\ listing'[l].status = "gone"
       /\ \A u \in UnitsIn(l) : owner'[u] = listing[l].reservedBy /\ join'[u] = NoListing
CustodyGoesToBuyer == [][CustodyStep]_vars

\* The market implements the unit escrow.
PhaseOf(u) == IF join[u] = NoListing THEN "free"
              ELSE IF listing[join[u]].status = "active" THEN "offered" ELSE "owed"
CreditorOf(u) == IF PhaseOf(u) = "owed" THEN listing[join[u]].reservedBy ELSE NoUser

Escrow == INSTANCE UnitEscrow WITH
  holder <- owner, phase <- [u \in Units |-> PhaseOf(u)],
  creditor <- [u \in Units |-> CreditorOf(u)]
EscrowSpec == Escrow!Spec
=============================================================================
