-------------------------- MODULE P2PMarketProofs --------------------------
(***************************************************************************)
(* Theorems about P2PMarket, for every set of users, units, listings, keys *)
(* and prices, every clock and every tax.                                  *)
(***************************************************************************)
EXTENDS P2PMarket, FiniteSums

(***************************************************************************)
(* Operators.                                                              *)
(***************************************************************************)
\* The tax (clamp_tax_percent of the configured rate) never exceeds the price.
LEMMA TaxRange ==
  ASSUME NEW total \in Nat
  PROVE  Tax(total) \in Nat /\ Tax(total) <= total
<1>1. TaxPercent \in Int
  BY MarketAssumption
<1>2. ClampTaxPercent \in 0 .. 100
  BY <1>1 DEF ClampTaxPercent, Clamp
<1>3. \A c \in 0 .. 100 : total * c \in Nat /\ total * c <= total * 100
  OBVIOUS
<1>4. \A m \in Nat : m <= total * 100 => m \div 100 \in Nat /\ m \div 100 <= total
  OBVIOUS
<1>. QED
  BY <1>2, <1>3, <1>4 DEF Tax

LEMMA CommissionType ==
  ASSUME NEW b \in Users, NEW total \in Nat
  PROVE  Commission(b, total) \in Nat
<1>1. total * CommissionPercent \in Nat
  BY MarketAssumption
<1>2. (total * CommissionPercent) \div 100 \in Nat
  BY <1>1
<1>. QED
  BY <1>2 DEF Commission

\* Every count of units is a natural number, and so is every set of them finite.
LEMMA UnitSetFinite ==
  ASSUME NEW S, S \subseteq Units
  PROVE  IsFiniteSet(S) /\ Cardinality(S) \in Nat
BY FS_Subset, FS_CardinalityType, MarketAssumption

LEMMA BuyQtyRange ==
  ASSUME NEW row \in Listing, row.qty > 0, NEW want \in Nat,
         row.qty > 1 => want # NoQty
  PROVE  BuyQty(row, want) \in 1 .. row.qty
BY DEF BuyQty, Listing, NoQty

(***************************************************************************)
(* The inductive invariant. TypeOK alone is not inductive: that a buyer    *)
(* cannot be charged below zero needs a line to have a positive quantity,  *)
(* which needs quantities and joins to agree.                              *)
(***************************************************************************)
IInv == TypeOK /\ JoinsMatchUnits /\ QtyMatchesJoins /\ CustodyHasBuyer /\ KeyChargesOnce

USE DEF NoTime, NoQty, UnitStatus, ListingStatus

LEMMA RowTypes ==
  /\ NoRow \in Listing /\ GoneRow \in Listing
  /\ \A row \in Listing : Unreserved(row) \in Listing
BY DEF NoRow, GoneRow, Unreserved, Listing

\* Units enter a fresh row together.
LEMMA SellStep ==
  ASSUME IInv, NEW x \in Users, NEW p \in Prices, NEW S \in SUBSET Units,
         NEW l \in ListingIds, Sell(x, p, S, l)
  PROVE  IInv'
<1>. DEFINE n == Cardinality(S)
<1>0. IsFiniteSet(S) /\ n \in Nat /\ n > 0
  BY UnitSetFinite, FS_EmptySet DEF Sell
<1>a. p \in Nat /\ NoExpiry \in Nat
  BY MarketAssumption
<1>1. TypeOK'
  <2>1. stockQty' \in [Users -> Nat]
    BY <1>0 DEF Sell, IInv, TypeOK
  <2>2. listing' \in [ListingIds -> Listing]
    BY <1>0, <1>a DEF Sell, IInv, TypeOK, Listing
  <2>. QED
    BY <2>1, <2>2 DEF Sell, IInv, TypeOK, unitVars, moneyVars, requestVars
<1>2. \A m \in ListingIds : UnitsIn(m)' = IF m = l THEN S ELSE UnitsIn(m)
  <2>1. l # NoListing /\ ~Live(l)
    BY MarketAssumption DEF Sell, Live
  <2>2. \A u \in Units : join[u] # l
    BY <2>1 DEF IInv, JoinsMatchUnits
  <2>3. \A u \in Units : join'[u] = IF u \in S THEN l ELSE join[u]
    BY DEF Sell
  <2>4. \A u \in S : join[u] = NoListing
    BY DEF Sell
  <2>. QED
    BY <2>2, <2>3, <2>4, MarketAssumption DEF UnitsIn
<1>3. JoinsMatchUnits'
  BY MarketAssumption DEF Sell, IInv, TypeOK, JoinsMatchUnits, Live, StockUnits
<1>4. QtyMatchesJoins'
  BY <1>0, <1>2 DEF Sell, IInv, TypeOK, QtyMatchesJoins, Live
<1>5. CustodyHasBuyer'
  BY DEF Sell, IInv, TypeOK, CustodyHasBuyer
<1>6. KeyChargesOnce'
  BY DEF Sell, IInv, KeyChargesOnce, requestVars
<1>. QED
  BY <1>1, <1>3, <1>4, <1>5, <1>6 DEF IInv

(***************************************************************************)
(* Three ways a step treats units, joins and rows.                         *)
(***************************************************************************)
\* It leaves units and joins alone and changes nothing of a row but the
\* reservation of an active one.
LEMMA ReservationFrame ==
  ASSUME IInv, TypeOK', UNCHANGED <<unitVars, idem, charges>>,
         \A l \in ListingIds :
           /\ listing'[l].status = listing[l].status
           /\ listing'[l].seller = listing[l].seller
           /\ listing'[l].qty = listing[l].qty
           /\ listing[l].status = "awaiting_pickup" => listing'[l] = listing[l]
  PROVE  IInv'
<1>1. \A l \in ListingIds : (Live(l)' <=> Live(l)) /\ UnitsIn(l)' = UnitsIn(l)
  BY DEF Live, UnitsIn, unitVars
<1>2. JoinsMatchUnits'
  BY <1>1 DEF IInv, TypeOK, JoinsMatchUnits, unitVars, Live
<1>3. QtyMatchesJoins'
  BY <1>1 DEF IInv, QtyMatchesJoins
<1>4. CustodyHasBuyer'
  BY DEF IInv, CustodyHasBuyer
<1>5. KeyChargesOnce'
  BY DEF IInv, KeyChargesOnce
<1>. QED
  BY <1>2, <1>3, <1>4, <1>5 DEF IInv

\* It deletes the rows of L with their joins: the units leave "listed", and
\* only they may change owner.
LEMMA DropFrame ==
  ASSUME IInv, TypeOK', NEW L \in SUBSET ListingIds,
         UNCHANGED <<idem, charges>>,
         \A u \in Units :
           IF join[u] \in L
           THEN join'[u] = NoListing /\ ustatus'[u] # "listed"
           ELSE join'[u] = join[u] /\ ustatus'[u] = ustatus[u] /\ owner'[u] = owner[u],
         \A l \in ListingIds : listing'[l] = IF l \in L THEN GoneRow ELSE listing[l]
  PROVE  IInv'
<1>1. \A l \in ListingIds \ L : Live(l)' = Live(l) /\ UnitsIn(l)' = UnitsIn(l)
  BY MarketAssumption DEF Live, UnitsIn
<1>2. \A l \in L : ~Live(l)' /\ listing'[l].status = "gone"
  BY DEF Live, GoneRow, NoRow
<1>3. JoinsMatchUnits'
  <2>1. ASSUME NEW u \in Units, join[u] \notin L, join[u] # NoListing
        PROVE  join[u] \in ListingIds \ L /\ listing'[join[u]] = listing[join[u]]
    BY <2>1 DEF IInv, TypeOK
  <2>. QED
    BY <2>1, <1>1, MarketAssumption DEF IInv, TypeOK, JoinsMatchUnits
<1>4. QtyMatchesJoins'
  BY <1>1, <1>2 DEF IInv, QtyMatchesJoins
<1>5. CustodyHasBuyer'
  BY <1>2 DEF IInv, CustodyHasBuyer
<1>6. KeyChargesOnce'
  BY DEF IInv, KeyChargesOnce
<1>. QED
  BY <1>3, <1>4, <1>5, <1>6 DEF IInv

(***************************************************************************)
(* Steps on reservations, requests, balances and the environment.          *)
(***************************************************************************)
LEMMA ReserveStep ==
  ASSUME IInv, NEW x \in Users, NEW l \in ListingIds, NEW t \in Stamps, Reserve(x, l, t)
  PROVE  IInv'
<1>1. t + ReserveWindow \in Nat
  BY MarketAssumption DEF Stamps, IInv, TypeOK
<1>. DEFINE row == [listing[l] EXCEPT !.reservedBy = x, !.reservedUntil = t + ReserveWindow]
<1>2. listing[l] \in Listing /\ row \in Listing
  BY <1>1 DEF IInv, TypeOK, Listing
<1>3. listing' = [listing EXCEPT ![l] = row]
  BY <1>2 DEF Reserve, IInv, TypeOK, Listing
<1>4. TypeOK'
  BY <1>2, <1>3 DEF Reserve, IInv, TypeOK, unitVars, stockVars, moneyVars, requestVars
<1>5. /\ row.status = listing[l].status /\ row.seller = listing[l].seller
      /\ row.qty = listing[l].qty /\ listing[l].status = "active"
  BY <1>2 DEF Reserve, Listing
<1>. HIDE DEF row
<1>6. \A m \in ListingIds : listing'[m] = IF m = l THEN row ELSE listing[m]
  BY <1>3 DEF IInv, TypeOK
<1>. QED
  BY <1>4, <1>5, <1>6, ReservationFrame DEF Reserve, requestVars

LEMMA UnreserveStep ==
  ASSUME IInv,
         \/ \E x \in Users, l \in ListingIds : CancelReserve(x, l)
         \/ \E t \in Stamps : ClearExpiredReservations(t)
  PROVE  IInv'
<1>1. UNCHANGED <<now, blocked, unitVars, stockVars, moneyVars, requestVars>>
  BY DEF CancelReserve, ClearExpiredReservations
<1>2. /\ listing' \in [ListingIds -> Listing]
      /\ \A l \in ListingIds :
           \/ listing'[l] = listing[l]
           \/ listing[l].status = "active" /\ listing'[l] = Unreserved(listing[l])
  <2>1. CASE \E x \in Users, l \in ListingIds : CancelReserve(x, l)
    BY <2>1, RowTypes DEF CancelReserve, IInv, TypeOK
  <2>2. CASE \E t \in Stamps : ClearExpiredReservations(t)
    <3>1. \A l \in ListingIds :
            \/ listing'[l] = listing[l]
            \/ listing[l].status = "active" /\ listing'[l] = Unreserved(listing[l])
      BY <2>2 DEF ClearExpiredReservations
    <3>2. listing' = [l \in ListingIds |-> listing'[l]]
      BY <2>2 DEF ClearExpiredReservations
    <3>3. \A l \in ListingIds : listing'[l] \in Listing
      BY <3>1, RowTypes DEF IInv, TypeOK
    <3>. QED
      BY <3>1, <3>2, <3>3
  <2>. QED
    BY <2>1, <2>2
<1>3. TypeOK'
  BY <1>1, <1>2 DEF IInv, TypeOK, unitVars, stockVars, moneyVars, requestVars
<1>4. \A row \in Listing : /\ Unreserved(row).status = row.status
                           /\ Unreserved(row).seller = row.seller
                           /\ Unreserved(row).qty = row.qty
  BY DEF Unreserved, Listing
<1>5. \A l \in ListingIds :
        /\ listing'[l].status = listing[l].status
        /\ listing'[l].seller = listing[l].seller
        /\ listing'[l].qty = listing[l].qty
        /\ listing[l].status = "awaiting_pickup" => listing'[l] = listing[l]
  BY <1>2, <1>4 DEF IInv, TypeOK
<1>. QED
  BY <1>1, <1>3, <1>5, ReservationFrame DEF requestVars

LEMMA QuietStep ==
  ASSUME IInv,
         \/ BuyBeginAny \/ \E r \in Requests : BuyAbort(r)
         \/ \E x \in Users : ClaimProceeds(x)
         \/ \E x \in Users : SyncStock(x)
         \/ \E x \in Blockable : SetBlocked(x)
         \/ Tick
  PROVE  IInv'
<1>1. UNCHANGED <<unitVars, listing, idem, charges>>
  BY DEF BuyBeginAny, BuyBegin, BuyAbort, ClaimProceeds, SyncStock, SetBlocked, Tick,
         unitVars, requestVars
<1>2. TypeOK'
  <2>1. CASE BuyBeginAny
    BY <2>1, MarketAssumption DEF BuyBeginAny, BuyBegin, IInv, TypeOK, Request,
          unitVars, stockVars, moneyVars
  <2>2. CASE \E r \in Requests : BuyAbort(r)
    BY <2>2 DEF BuyAbort, IInv, TypeOK, unitVars, stockVars, moneyVars
  <2>3. CASE \E x \in Users : ClaimProceeds(x)
    BY <2>3 DEF ClaimProceeds, IInv, TypeOK, unitVars, stockVars, requestVars
  <2>4. CASE \E x \in Users : SyncStock(x)
    BY <2>4 DEF SyncStock, NoSweep, IInv, TypeOK, unitVars, moneyVars, requestVars
  <2>5. CASE \E x \in Blockable : SetBlocked(x)
    BY <2>5, MarketAssumption DEF SetBlocked, IInv, TypeOK, unitVars, stockVars,
          moneyVars, requestVars
  <2>6. CASE Tick
    BY <2>6 DEF Tick, IInv, TypeOK, unitVars, stockVars, moneyVars, requestVars
  <2>. QED
    BY <2>1, <2>2, <2>3, <2>4, <2>5, <2>6
<1>. QED
  BY <1>1, <1>2, ReservationFrame

\* A sweep turns listed units into expired ones inside their listing.
LEMMA ExpireStep ==
  ASSUME IInv, NEW x \in Users, ExpireLeases(x)
  PROVE  IInv'
<1>1. TypeOK'
  <2>1. DueUnits(x) \subseteq Units /\ Unexpired(x) \subseteq Units
    BY DEF DueUnits, Unexpired, StockUnits
  <2>2. Cardinality(Unexpired(x)) \in Nat
    BY <2>1, UnitSetFinite
  <2>. QED
    BY <2>1, <2>2 DEF ExpireLeases, IInv, TypeOK, bookVars, moneyVars, requestVars
<1>2. UNCHANGED <<owner, listing, join, idem, charges>>
  BY DEF ExpireLeases, bookVars, requestVars
<1>3. \A u \in Units :
        \/ ustatus'[u] = ustatus[u]
        \/ ustatus[u] \in {"stock", "listed"} /\ ustatus'[u] = "expired"
  BY DEF ExpireLeases, DueUnits
<1>4. JoinsMatchUnits'
  <2>1. ASSUME NEW u \in Units, ustatus'[u] = "listed" PROVE join'[u] # NoListing
    BY <2>1, <1>2, <1>3 DEF IInv, JoinsMatchUnits
  <2>2. ASSUME NEW u \in Units, join'[u] # NoListing
        PROVE  /\ Live(join[u])' /\ owner'[u] = listing'[join'[u]].seller
               /\ ustatus'[u] \in {"listed", "expired"}
    BY <2>2, <1>2, <1>3 DEF IInv, JoinsMatchUnits, Live
  <2>. QED
    BY <2>1, <2>2, <1>2 DEF JoinsMatchUnits
<1>5. QtyMatchesJoins' /\ CustodyHasBuyer' /\ KeyChargesOnce'
  BY <1>2 DEF IInv, QtyMatchesJoins, CustodyHasBuyer, KeyChargesOnce, UnitsIn, Live
<1>. QED
  BY <1>1, <1>4, <1>5 DEF IInv

(***************************************************************************)
(* Steps that delete rows: cancel, reclaim and the two claims.             *)
(***************************************************************************)
LEMMA UnlistDrops ==
  ASSUME IInv, NEW L \in SUBSET ListingIds,
         NEW S, S = {u \in Units : join[u] \in L}, Unlist(S),
         listing' = [l \in ListingIds |-> IF l \in L THEN GoneRow ELSE listing[l]],
         UNCHANGED <<now, blocked, moneyVars, requestVars>>
  PROVE  IInv'
<1>1. stockQty' \in [Users -> Nat]
  <2>1. \A x \in Users :
          Cardinality({u \in S : owner[u] = x /\ ustatus[u] = "listed"}) \in Nat
    BY UnitSetFinite
  <2>. QED
    BY <2>1 DEF Unlist, IInv, TypeOK
<1>2. listing' \in [ListingIds -> Listing]
  BY RowTypes DEF IInv, TypeOK
<1>3. TypeOK'
  BY <1>1, <1>2 DEF Unlist, JoinsWithout, IInv, TypeOK, moneyVars, requestVars
<1>4. \A u \in Units :
        IF join[u] \in L
        THEN join'[u] = NoListing /\ ustatus'[u] # "listed"
        ELSE join'[u] = join[u] /\ ustatus'[u] = ustatus[u] /\ owner'[u] = owner[u]
  BY DEF Unlist, JoinsWithout
<1>. QED
  BY <1>3, <1>4, DropFrame DEF requestVars

LEMMA CancelStep ==
  ASSUME IInv, NEW x \in Users, NEW l \in ListingIds, Cancel(x, l)
  PROVE  IInv'
<1>1. UnitsIn(l) = {u \in Units : join[u] \in {l}}
  BY DEF UnitsIn
<1>2. listing' = [m \in ListingIds |-> IF m \in {l} THEN GoneRow ELSE listing[m]]
  BY DEF Cancel, IInv, TypeOK
<1>3. Unlist(UnitsIn(l)) /\ UNCHANGED <<now, blocked, moneyVars, requestVars>>
  BY DEF Cancel
<1>4. {l} \in SUBSET ListingIds
  OBVIOUS
<1>. QED
  BY <1>1, <1>2, <1>3, <1>4, UnlistDrops

LEMMA ReclaimStep ==
  ASSUME IInv, NEW L \in SUBSET ListingIds, NEW t \in Stamps, ReclaimRound(L, t)
  PROVE  IInv'
<1>. DEFINE credited == {l \in L : Cardinality(UnitsIn(l)) = listing[l].qty}
<1>1. credited \in SUBSET ListingIds
  OBVIOUS
<1>2. /\ Unlist({u \in Units : join[u] \in credited})
      /\ listing' = [l \in ListingIds |-> IF l \in credited THEN GoneRow ELSE listing[l]]
      /\ UNCHANGED <<now, blocked, moneyVars, requestVars>>
  BY DEF ReclaimRound
<1>. HIDE DEF credited
<1>. QED
  BY <1>1, <1>2, UnlistDrops

LEMMA TransferStep ==
  ASSUME IInv, NEW b \in Users, NEW L \in SUBSET ListingIds, Transfer(L, b),
         UNCHANGED <<now, blocked, moneyVars, requestVars>>
  PROVE  IInv'
<1>. DEFINE S == {u \in Units : join[u] \in L}
<1>1. stockQty' \in [Users -> Nat]
  <2>1. Cardinality({u \in S : ustatus[u] = "listed"}) \in Nat
    BY UnitSetFinite
  <2>. QED
    BY <2>1 DEF Transfer, StockCredited, IInv, TypeOK
<1>2. listing' \in [ListingIds -> Listing]
  BY RowTypes DEF Transfer, IInv, TypeOK
<1>3. TypeOK'
  BY <1>1, <1>2 DEF Transfer, JoinsWithout, IInv, TypeOK, moneyVars, requestVars
<1>4. \A u \in Units :
        IF join[u] \in L
        THEN join'[u] = NoListing /\ ustatus'[u] # "listed"
        ELSE join'[u] = join[u] /\ ustatus'[u] = ustatus[u] /\ owner'[u] = owner[u]
  BY DEF Transfer, JoinsWithout
<1>. QED
  BY <1>3, <1>4, DropFrame DEF Transfer, requestVars

LEMMA ClaimStep ==
  ASSUME IInv, NEW b \in Users,
         ClaimAll(b) \/ \E l \in ListingIds : ClaimItem(b, l)
  PROVE  IInv'
BY TransferStep DEF ClaimAll, ClaimItem, Custody

(***************************************************************************)
(* The sale.                                                               *)
(***************************************************************************)
\* What the request names and what the checks of buy leave.
LEMMA SaleFacts ==
  ASSUME IInv, NEW r \in Requests, NEW b, NEW l, NEW want,
         request[r] # NoRequest, b = request[r].buyer, l = request[r].id,
         want = request[r].want, Buyable(b, l, want)
  PROVE  /\ b \in Users /\ l \in ListingIds /\ want \in Nat /\ request[r].key \in Keys
         /\ listing[l] \in Listing /\ listing[l].status = "active"
         /\ listing[l].seller \in Users \ {b}
         /\ BuyQty(listing[l], want) \in 1 .. listing[l].qty
         /\ listing[l].price * BuyQty(listing[l], want) \in Nat
         /\ usdc[b] >= listing[l].price * BuyQty(listing[l], want)
         /\ UnitsIn(l) # {}
<1>1. /\ b \in Users /\ l \in ListingIds /\ want \in Nat /\ request[r].key \in Keys
  BY DEF IInv, TypeOK, Request
<1>2. listing[l] \in Listing /\ listing[l].status = "active"
  BY <1>1 DEF IInv, TypeOK, Buyable
<1>3. listing[l].qty = Cardinality(UnitsIn(l)) /\ listing[l].qty > 0
  BY <1>1, <1>2 DEF IInv, QtyMatchesJoins, Live
<1>4. UnitsIn(l) # {}
  BY <1>3, FS_EmptySet
<1>5. listing[l].seller \in Users \ {b}
  <2>1. PICK u \in Units : join[u] = l
    BY <1>4 DEF UnitsIn
  <2>2. owner[u] = listing[l].seller /\ owner[u] \in Users
    BY <2>1, <1>1, MarketAssumption DEF IInv, TypeOK, JoinsMatchUnits
  <2>. QED
    BY <2>2 DEF Buyable
<1>6. BuyQty(listing[l], want) \in 1 .. listing[l].qty
  BY <1>1, <1>2, <1>3, BuyQtyRange DEF Buyable
<1>7. \A p, n \in Nat : p * n \in Nat
  OBVIOUS
<1>8. listing[l].price \in Nat /\ BuyQty(listing[l], want) \in Nat
  BY <1>2, <1>6 DEF Listing
<1>9. usdc[b] >= listing[l].price * BuyQty(listing[l], want)
  BY DEF Buyable, Affordable
<1>. QED
  BY <1>1, <1>2, <1>4, <1>5, <1>6, <1>7, <1>8, <1>9

LEMMA SettleType ==
  ASSUME TypeOK, NEW b \in Users, NEW s \in Users, NEW total \in Nat,
         usdc[b] >= total, Settle(b, s, total)
  PROVE  /\ usdc' \in [Users -> Nat] /\ proceeds' \in [Users -> Nat]
         /\ taxTotal' \in Nat /\ minted' \in Nat
<1>1. Tax(total) \in Nat /\ SellerReceive(total) \in Nat
  BY TaxRange DEF SellerReceive
<1>2. Commission(b, total) \in Nat
  BY CommissionType
<1>. QED
  BY <1>1, <1>2 DEF Settle, TypeOK

LEMMA FullSaleStep ==
  ASSUME IInv, NEW b \in Users, NEW l \in ListingIds, FullSale(b, l),
         listing[l].status = "active", listing[l].seller # b,
         UNCHANGED <<owner, ustatus>>
  PROVE  /\ listing' \in [ListingIds -> Listing]
         /\ join' \in [Units -> ListingIds \cup {NoListing}]
         /\ JoinsMatchUnits' /\ QtyMatchesJoins' /\ CustodyHasBuyer'
<1>. DEFINE row == [listing[l] EXCEPT !.status = "awaiting_pickup", !.reservedBy = b,
                                      !.reservedUntil = NoTime]
<1>1. listing[l] \in Listing /\ row \in Listing
  BY DEF IInv, TypeOK, Listing
<1>2. listing' = [listing EXCEPT ![l] = row] /\ join' = join
  BY <1>1 DEF FullSale, IInv, TypeOK, Listing
<1>3. /\ row.status = "awaiting_pickup" /\ row.seller = listing[l].seller
      /\ row.qty = listing[l].qty /\ row.reservedBy = b /\ row.reservedUntil = NoTime
  BY <1>1 DEF Listing
<1>. HIDE DEF row
<1>4. \A m \in ListingIds : listing'[m] = IF m = l THEN row ELSE listing[m]
  BY <1>2 DEF IInv, TypeOK
<1>5. \A m \in ListingIds : (Live(m)' <=> Live(m)) /\ UnitsIn(m)' = UnitsIn(m)
  BY <1>2, <1>3, <1>4 DEF Live, UnitsIn
<1>6. JoinsMatchUnits'
  BY <1>2, <1>3, <1>4, <1>5 DEF IInv, TypeOK, JoinsMatchUnits
<1>7. QtyMatchesJoins'
  BY <1>3, <1>4, <1>5 DEF IInv, QtyMatchesJoins
<1>8. CustodyHasBuyer'
  BY <1>3, <1>4 DEF IInv, CustodyHasBuyer
<1>. QED
  BY <1>1, <1>2, <1>6, <1>7, <1>8 DEF IInv, TypeOK

LEMMA PartialSaleStep ==
  ASSUME IInv, NEW b \in Users, NEW l \in ListingIds, NEW c \in ListingIds,
         NEW M \in SUBSET Units, NEW n \in Nat \ {0}, n < listing[l].qty,
         PartialSale(b, l, n, c, M),
         listing[l].status = "active", listing[l].seller # b,
         UNCHANGED <<owner, ustatus>>
  PROVE  /\ listing' \in [ListingIds -> Listing]
         /\ join' \in [Units -> ListingIds \cup {NoListing}]
         /\ JoinsMatchUnits' /\ QtyMatchesJoins' /\ CustodyHasBuyer'
<1>. DEFINE rest == [Unreserved(listing[l]) EXCEPT !.qty = listing[l].qty - n]
            sold == [listing[l] EXCEPT !.status = "awaiting_pickup", !.qty = n,
                                       !.reservedBy = b, !.reservedUntil = NoTime]
<1>1. listing[l] \in Listing /\ c # l
  BY DEF IInv, TypeOK, PartialSale
<1>a. listing[l].qty \in Nat /\ listing[l].qty - n \in Nat \ {0}
  BY <1>1 DEF Listing
<1>2. /\ rest \in Listing /\ rest.status = "active" /\ rest.seller = listing[l].seller
      /\ rest.qty = listing[l].qty - n
  BY <1>1, <1>a DEF Unreserved, Listing
<1>3. /\ sold \in Listing /\ sold.status = "awaiting_pickup"
      /\ sold.seller = listing[l].seller /\ sold.qty = n
      /\ sold.reservedBy = b /\ sold.reservedUntil = NoTime
  BY <1>1 DEF Listing
<1>4. listing' = [listing EXCEPT ![l] = rest, ![c] = sold]
  BY DEF PartialSale
<1>. HIDE DEF rest, sold
<1>5. \A m \in ListingIds :
        listing'[m] = IF m = l THEN rest ELSE IF m = c THEN sold ELSE listing[m]
  BY <1>1, <1>4 DEF IInv, TypeOK
<1>6. \A u \in Units : join'[u] = IF u \in M THEN c ELSE join[u]
  BY DEF PartialSale, JoinsMoved
<1>7. /\ join' \in [Units -> ListingIds \cup {NoListing}]
      /\ listing' \in [ListingIds -> Listing]
  <2>1. join' = [u \in Units |-> IF u \in M THEN c ELSE join[u]]
    BY DEF PartialSale, JoinsMoved
  <2>2. join \in [Units -> ListingIds \cup {NoListing}] /\ listing \in [ListingIds -> Listing]
    BY DEF IInv, TypeOK
  <2>. QED
    BY <2>1, <2>2, <1>2, <1>3, <1>4
<1>8. \A u \in Units : join[u] # c
  BY MarketAssumption DEF IInv, JoinsMatchUnits, Live, PartialSale
<1>9. M \subseteq UnitsIn(l) /\ Cardinality(M) = n
  BY DEF PartialSale
<1>10. /\ UnitsIn(l)' = UnitsIn(l) \ M /\ UnitsIn(c)' = M
       /\ \A m \in ListingIds \ {l, c} : UnitsIn(m)' = UnitsIn(m)
  BY <1>1, <1>6, <1>8, <1>9 DEF UnitsIn
<1>11. Cardinality(UnitsIn(l) \ M) = listing[l].qty - n
  <2>1. IsFiniteSet(UnitsIn(l) \ M) /\ IsFiniteSet(M)
    BY UnitSetFinite DEF UnitsIn
  <2>2. Cardinality((UnitsIn(l) \ M) \cup M)
          = Cardinality(UnitsIn(l) \ M) + Cardinality(M) - Cardinality((UnitsIn(l) \ M) \cap M)
    BY <2>1, FS_Union
  <2>3. (UnitsIn(l) \ M) \cup M = UnitsIn(l) /\ (UnitsIn(l) \ M) \cap M = {}
    BY <1>9
  <2>4. Cardinality(UnitsIn(l)) = listing[l].qty
    BY DEF IInv, QtyMatchesJoins, Live
  <2>5. Cardinality(UnitsIn(l) \ M) \in Nat /\ Cardinality({}) = 0
    BY <2>1, FS_CardinalityType, FS_EmptySet
  <2>6. Cardinality(UnitsIn(l)) = Cardinality(UnitsIn(l) \ M) + n - 0
    BY <2>2, <2>3, <2>5, <1>9
  <2>. QED
    BY <2>4, <2>5, <2>6, <1>a
<1>12. \A m \in ListingIds : Live(m) => Live(m)'
  BY <1>2, <1>3, <1>5 DEF Live
<1>13. JoinsMatchUnits'
  <2>1. \A u \in Units : join[u] # NoListing => join[u] \in ListingIds
    BY DEF IInv, TypeOK
  <2>2. \A u \in M : join[u] = l
    BY <1>9 DEF UnitsIn
  <2>3. l # NoListing /\ c # NoListing
    BY MarketAssumption
  <2>4. \A u \in Units : (join'[u] # NoListing <=> join[u] # NoListing)
    BY <1>6, <2>2, <2>3
  <2>5. ASSUME NEW u \in Units, join[u] # NoListing
        PROVE  listing'[join'[u]].seller = listing[join[u]].seller
    <3>1. CASE u \in M
      BY <3>1, <2>2, <1>6, <1>5, <1>1, <1>3
    <3>2. CASE u \notin M
      BY <3>2, <2>1, <2>5, <1>2, <1>5, <1>6, <1>8
    <3>. QED
      BY <3>1, <3>2
  <2>6. ASSUME NEW u \in Units, join[u] # NoListing
        PROVE  listing'[join'[u]].status \in {"active", "awaiting_pickup"}
    <3>1. CASE u \in M
      BY <3>1, <1>1, <1>3, <1>5, <1>6
    <3>2. CASE u \notin M
      <4>1. Live(join[u]) /\ join'[u] = join[u] /\ join[u] \in ListingIds
        BY <3>2, <2>1, <2>6, <1>6 DEF IInv, JoinsMatchUnits
      <4>2. \A m \in ListingIds : Live(m) =>
              listing'[m].status \in {"active", "awaiting_pickup"}
        BY <1>12 DEF Live
      <4>. QED
        BY <4>1, <4>2
    <3>. QED
      BY <3>1, <3>2
  <2>7. \A u \in Units : ustatus'[u] = "listed" => join'[u] # NoListing
    BY <2>4 DEF IInv, JoinsMatchUnits
  <2>8. \A u \in Units : join'[u] # NoListing =>
          owner'[u] = listing'[join'[u]].seller /\ ustatus'[u] \in {"listed", "expired"}
    BY <2>4, <2>5 DEF IInv, JoinsMatchUnits
  <2>9. \A u \in Units : join'[u] # NoListing =>
          listing'[join'[u]].status \in {"active", "awaiting_pickup"}
    BY <2>4, <2>6
  <2>. QED
    BY <2>7, <2>8, <2>9 DEF JoinsMatchUnits, Live
<1>14. QtyMatchesJoins'
  <2>1. SUFFICES ASSUME NEW m \in ListingIds, Live(m)'
                 PROVE  listing'[m].qty = Cardinality(UnitsIn(m))' /\ listing'[m].qty > 0
    BY DEF QtyMatchesJoins
  <2>2. CASE m = l
    BY <2>2, <1>a, <1>2, <1>5, <1>10, <1>11
  <2>3. CASE m = c
    BY <2>3, <1>1, <1>3, <1>5, <1>9, <1>10
  <2>4. CASE m \notin {l, c}
    <3>1. listing'[m] = listing[m] /\ UnitsIn(m)' = UnitsIn(m)
      BY <2>4, <1>5, <1>10
    <3>2. Live(m)
      BY <3>1, <2>1 DEF Live
    <3>. QED
      BY <3>1, <3>2 DEF IInv, QtyMatchesJoins
  <2>. QED
    BY <2>2, <2>3, <2>4
<1>15. CustodyHasBuyer'
  BY <1>2, <1>3, <1>5 DEF IInv, TypeOK, CustodyHasBuyer
<1>. QED
  BY <1>7, <1>13, <1>14, <1>15

LEMMA BuyCommitStep ==
  ASSUME IInv, NEW r \in Requests, NEW c \in ListingIds, NEW M \in SUBSET Units,
         BuyCommit(r, c, M)
  PROVE  IInv'
<1>. DEFINE b == request[r].buyer
            k == request[r].key
            l == request[r].id
            n == BuyQty(listing[l], request[r].want)
            total == listing[l].price * n
<1>1. /\ request[r] # NoRequest /\ Buyable(b, l, request[r].want)
      /\ IF n >= listing[l].qty THEN FullSale(b, l) ELSE PartialSale(b, l, n, c, M)
      /\ Settle(b, listing[l].seller, total)
      /\ <<b, k>> \notin idem /\ idem' = idem \cup {<<b, k>>}
      /\ charges' = [charges EXCEPT ![<<b, k>>] = @ + 1]
      /\ request' = [request EXCEPT ![r] = NoRequest]
      /\ UNCHANGED <<now, blocked, owner, ustatus, stockVars>>
  BY DEF BuyCommit, KeyFree
<1>2. /\ b \in Users /\ k \in Keys /\ l \in ListingIds
      /\ listing[l] \in Listing /\ listing[l].status = "active"
      /\ listing[l].seller \in Users \ {b}
      /\ n \in 1 .. listing[l].qty /\ total \in Nat /\ usdc[b] >= total
  BY <1>1, SaleFacts
<1>3. listing[l].qty \in Nat
  BY <1>2 DEF Listing
<1>. HIDE DEF b, k, l, n, total
<1>4. /\ usdc' \in [Users -> Nat] /\ proceeds' \in [Users -> Nat]
      /\ taxTotal' \in Nat /\ minted' \in Nat
  BY <1>1, <1>2, SettleType DEF IInv
<1>5. /\ listing' \in [ListingIds -> Listing]
      /\ join' \in [Units -> ListingIds \cup {NoListing}]
      /\ JoinsMatchUnits' /\ QtyMatchesJoins' /\ CustodyHasBuyer'
  <2>1. CASE n >= listing[l].qty
    BY <2>1, <1>1, <1>2, FullSaleStep
  <2>2. CASE ~(n >= listing[l].qty)
    <3>1. n \in Nat \ {0} /\ n < listing[l].qty
      BY <2>2, <1>2, <1>3
    <3>. QED
      BY <3>1, <2>2, <1>1, <1>2, PartialSaleStep
  <2>. QED
    BY <2>1, <2>2
<1>6. <<b, k>> \in Users \X Keys /\ charges[<<b, k>>] = 0
  BY <1>1, <1>2 DEF IInv, KeyChargesOnce
<1>7. TypeOK'
  BY <1>1, <1>4, <1>5, <1>6 DEF IInv, TypeOK, stockVars
<1>8. KeyChargesOnce'
  <2>1. charges \in [Users \X Keys -> Nat]
    BY DEF IInv, TypeOK
  <2>2. \A a \in Users, q \in Keys :
          charges'[<<a, q>>] = IF <<a, q>> = <<b, k>> THEN 1 ELSE charges[<<a, q>>]
    BY <2>1, <1>1, <1>6
  <2>3. \A a \in Users, q \in Keys :
          <<a, q>> \in idem' <=> <<a, q>> \in idem \/ <<a, q>> = <<b, k>>
    BY <1>1
  <2>. QED
    BY <2>2, <2>3 DEF IInv, KeyChargesOnce
<1>. QED
  BY <1>5, <1>7, <1>8 DEF IInv

(***************************************************************************)
(* The theorem.                                                            *)
(***************************************************************************)
LEMMA InitIInv == Init => IInv
<1>. SUFFICES ASSUME Init PROVE IInv
  OBVIOUS
<1>1. /\ LegacyUnits \subseteq Units /\ LegacyId \in ListingIds
      /\ Owner0 \in [Units -> Users] /\ LegacyPrice \in Nat /\ LegacyExpiry \in Nat
      /\ \A u, v \in LegacyUnits : Owner0[u] = Owner0[v]
      /\ NoListing \notin ListingIds /\ NoUser \notin Users
  BY MarketAssumption
<1>2. Cardinality(LegacyUnits) \in Nat /\ (LegacyUnits # {} => Cardinality(LegacyUnits) > 0)
  BY <1>1, UnitSetFinite, FS_EmptySet
<1>3. LegacyUnits # {} =>
        /\ LegacyRow \in Listing
        /\ LegacyRow.status = "active" /\ LegacyRow.qty = Cardinality(LegacyUnits)
        /\ \A u \in LegacyUnits : LegacyRow.seller = Owner0[u]
  BY <1>1, <1>2 DEF LegacyRow, Listing
<1>4. \A l \in ListingIds :
        listing[l] = IF l = LegacyId /\ LegacyUnits # {} THEN LegacyRow ELSE NoRow
  BY DEF Init
<1>5. \A u \in Units : join[u] = IF u \in LegacyUnits THEN LegacyId ELSE NoListing
  BY DEF Init
<1>6. TypeOK
  <2>1. listing \in [ListingIds -> Listing]
    BY <1>3, RowTypes DEF Init
  <2>2. stockQty \in [Users -> Nat]
    <3>1. \A x \in Users : Cardinality({u \in Units \ LegacyUnits : Owner0[u] = x}) \in Nat
      BY UnitSetFinite
    <3>. QED
      BY <3>1 DEF Init
  <2>3. /\ join \in [Units -> ListingIds \cup {NoListing}]
        /\ ustatus \in [Units -> UnitStatus]
        /\ owner \in [Units -> Users] /\ usdc \in [Users -> Nat]
        /\ sweep \in [Users -> [units : SUBSET Units, count : Nat]]
    BY <1>1, MarketAssumption DEF Init, NoSweep
  <2>. QED
    BY <2>1, <2>2, <2>3 DEF Init, TypeOK
<1>7. JoinsMatchUnits
  BY <1>1, <1>3, <1>4, <1>5 DEF Init, JoinsMatchUnits, Live
<1>8. QtyMatchesJoins
  <2>1. \A l \in ListingIds : Live(l) => l = LegacyId /\ LegacyUnits # {}
    BY <1>4 DEF Live, NoRow
  <2>2. UnitsIn(LegacyId) = LegacyUnits
    BY <1>1, <1>5 DEF UnitsIn
  <2>. QED
    BY <2>1, <2>2, <1>1, <1>2, <1>3, <1>4 DEF QtyMatchesJoins
<1>9. CustodyHasBuyer
  BY <1>3, <1>4 DEF CustodyHasBuyer, NoRow
<1>10. KeyChargesOnce
  BY DEF Init, KeyChargesOnce
<1>. QED
  BY <1>6, <1>7, <1>8, <1>9, <1>10 DEF IInv

LEMMA StutterStep == IInv /\ UNCHANGED vars => IInv'
<1>. SUFFICES ASSUME IInv, UNCHANGED vars PROVE IInv'
  OBVIOUS
<1>1. TypeOK'
  BY DEF vars, IInv, TypeOK
<1>. QED
  BY <1>1, ReservationFrame DEF vars, unitVars

LEMMA NextIInv == IInv /\ [Next]_vars => IInv'
<1>. SUFFICES ASSUME IInv, [Next]_vars PROVE IInv'
  OBVIOUS
<1>1. CASE SellAny
  BY <1>1, SellStep DEF SellAny
<1>2. CASE ReserveAny
  BY <1>2, ReserveStep DEF ReserveAny
<1>3. CASE \/ \E x \in Users, l \in ListingIds : CancelReserve(x, l)
           \/ \E t \in Stamps : ClearExpiredReservations(t)
  BY <1>3, UnreserveStep
<1>4. CASE \E x \in Users, l \in ListingIds : Cancel(x, l)
  BY <1>4, CancelStep
<1>5. CASE ReclaimAny
  BY <1>5, ReclaimStep DEF ReclaimAny
<1>6. CASE BuyCommitAny
  BY <1>6, BuyCommitStep DEF BuyCommitAny
<1>7. CASE \/ \E b \in Users, l \in ListingIds : ClaimItem(b, l)
           \/ \E b \in Users : ClaimAll(b)
  BY <1>7, ClaimStep
<1>8. CASE \E x \in Users : ExpireLeases(x)
  BY <1>8, ExpireStep
<1>9. CASE \/ BuyBeginAny \/ \E r \in Requests : BuyAbort(r)
           \/ \E x \in Users : ClaimProceeds(x)
           \/ \E x \in Users : SyncStock(x)
           \/ \E x \in Blockable : SetBlocked(x)
           \/ Tick
  BY <1>9, QuietStep
<1>10. CASE UNCHANGED vars
  BY <1>10, StutterStep
<1>. QED
  BY <1>1, <1>2, <1>3, <1>4, <1>5, <1>6, <1>7, <1>8, <1>9, <1>10 DEF Next

LEMMA Inductive == Spec => []IInv
BY InitIInv, NextIInv, PTL DEF Spec

\* Types, for every instance: no balance, count or quantity ever goes below zero.
THEOREM TypeCorrect == Spec => []TypeOK
BY Inductive, PTL DEF IInv

\* Units, joins and rows stay consistent through every handler of the market.
THEOREM EscrowConsistent ==
  Spec => [](JoinsMatchUnits /\ QtyMatchesJoins /\ CustodyHasBuyer)
BY Inductive, PTL DEF IInv

\* A row sells or delivers exactly the units joined to it, through partial sales,
\* expiries inside the listing, cancels and reclaims.
THEOREM RowCountsItsUnits == Spec => []QtyMatchesJoins
BY Inductive, PTL DEF IInv

\* A row in custody belongs to a buyer, and no reservation timer can end it.
THEOREM CustodyIsNoReservation == Spec => []CustodyHasBuyer
BY Inductive, PTL DEF IInv

\* However many requests with one key are in flight, the key is charged once.
THEOREM ChargedOnce == Spec => []KeyChargesOnce
BY Inductive, PTL DEF IInv

\* A sold unit can always be handed over to its buyer.
THEOREM SoldIsRedeemable == Spec => []CustodyRedeemable
<1>1. IInv => CustodyRedeemable
  BY FS_EmptySet, MarketAssumption
     DEF IInv, TypeOK, JoinsMatchUnits, QtyMatchesJoins, CustodyRedeemable, UnitsIntact,
         UnitsIn, Live
<1>. QED
  BY <1>1, Inductive, PTL

(***************************************************************************)
(* Reservations. A row that can be bought has a price, and its reservation *)
(* a holder; without the first a part of the line could be given away,     *)
(* without the second buy and cancel would not see the reservation.        *)
(***************************************************************************)
RowSound(row) ==
  row.status = "active" =>
    row.price > 0 /\ (row.reservedUntil # NoTime => row.reservedBy # NoUser)
RowsSound == \A l \in ListingIds : RowSound(listing[l])

\* What ReservationStep says of one row.
Honoured(l) ==
  LET row == listing[l]
      h == row.reservedBy IN
  (row.status = "active" /\ ReservationActive(row, now) /\ row # listing'[l])
  => \/ listing'[l].reservedBy = h /\ listing'[l].status \in {"active", "awaiting_pickup"}
     \/ listing'[l].status = "active" /\ listing'[l].reservedBy = NoUser
          /\ (listing'[l].qty = row.qty \/ usdc'[h] < usdc[h])

\* Handlers that leave the rows alone, but for those that are not for sale and
\* for what they delete.
LEMMA RestHonoured ==
  ASSUME IInv, RowsSound,
         \A l \in ListingIds :
           \/ listing'[l] = listing[l]
           \/ /\ RowSound(listing'[l])
              /\ ~(listing[l].status = "active" /\ ReservationActive(listing[l], now))
  PROVE  RowsSound' /\ \A l \in ListingIds : Honoured(l)
BY DEF RowsSound, Honoured

LEMMA GoneSound == RowSound(GoneRow)
BY DEF RowSound, GoneRow, NoRow

LEMMA SellHonours ==
  ASSUME IInv, RowsSound, SellAny
  PROVE  RowsSound' /\ \A l \in ListingIds : Honoured(l)
<1>1. PICK x \in Users, p \in Prices, S \in SUBSET Units, l \in ListingIds : Sell(x, p, S, l)
  BY DEF SellAny
<1> DEFINE row == [status |-> "active", seller |-> x, price |-> p, expires |-> NoExpiry,
                   qty |-> Cardinality(S), reservedBy |-> NoUser, reservedUntil |-> NoTime]
<1>2. RowSound(row)
  BY MarketAssumption DEF RowSound
<1> HIDE DEF row
<1>3. \A m \in ListingIds : listing'[m] = IF m = l THEN row ELSE listing[m]
  BY <1>1 DEF Sell, row, IInv, TypeOK
<1>4. listing[l].status = "none"
  BY <1>1 DEF Sell
<1>. QED
  BY <1>2, <1>3, <1>4, RestHonoured

\* Only the holder may reserve again or let go while the reservation runs,
\* although the clock of the request is older than its update.
LEMMA ReserveHonours ==
  ASSUME IInv, RowsSound, ReserveAny
  PROVE  RowsSound' /\ \A l \in ListingIds : Honoured(l)
<1>1. PICK x \in Users, l \in ListingIds, t \in Stamps : Reserve(x, l, t)
  BY DEF ReserveAny
<1> DEFINE row == [listing[l] EXCEPT !.reservedBy = x, !.reservedUntil = t + ReserveWindow]
<1>2. listing[l] \in Listing /\ x # NoUser
  BY MarketAssumption DEF IInv, TypeOK
<1>3. /\ listing' = [listing EXCEPT ![l] = row]
      /\ row.status = "active" /\ row.price = listing[l].price /\ row.reservedBy = x
      /\ listing[l].status = "active"
  BY <1>1, <1>2 DEF Reserve, IInv, TypeOK, Listing
<1>4. ReservationActive(listing[l], now) => listing[l].reservedBy = x
  BY <1>1, <1>2 DEF Reserve, ReservationActive, Stamps, IInv, TypeOK, Listing
<1> HIDE DEF row
<1>5. \A m \in ListingIds : listing'[m] = IF m = l THEN row ELSE listing[m]
  BY <1>3 DEF IInv, TypeOK
<1>6. RowSound(listing[l]) /\ RowSound(row)
  BY <1>2, <1>3 DEF RowsSound, RowSound
<1>. QED
  BY <1>3, <1>4, <1>5, <1>6 DEF RowsSound, Honoured

LEMMA UnreservedRow ==
  ASSUME NEW row \in Listing
  PROVE  /\ Unreserved(row).status = row.status /\ Unreserved(row).qty = row.qty
         /\ Unreserved(row).price = row.price
         /\ Unreserved(row).reservedBy = NoUser /\ Unreserved(row).reservedUntil = NoTime
BY DEF Unreserved, Listing

LEMMA UnreserveHonours ==
  ASSUME IInv, RowsSound,
         \/ \E x \in Users, l \in ListingIds : CancelReserve(x, l)
         \/ \E t \in Stamps : ClearExpiredReservations(t)
  PROVE  RowsSound' /\ \A l \in ListingIds : Honoured(l)
<1>1. \A l \in ListingIds :
        \/ listing'[l] = listing[l]
        \/ listing'[l] = Unreserved(listing[l])
  BY DEF CancelReserve, ClearExpiredReservations, IInv, TypeOK
<1>2. \A l \in ListingIds : listing[l] \in Listing
  BY DEF IInv, TypeOK
<1>. QED
  BY <1>1, <1>2, UnreservedRow DEF RowsSound, RowSound, Honoured

LEMMA DropHonours ==
  ASSUME IInv, RowsSound,
         \/ \E x \in Users, l \in ListingIds : Cancel(x, l)
         \/ ReclaimAny
         \/ \E b \in Users, l \in ListingIds : ClaimItem(b, l)
         \/ \E b \in Users : ClaimAll(b)
  PROVE  RowsSound' /\ \A l \in ListingIds : Honoured(l)
<1>1. ASSUME NEW l \in ListingIds, listing'[l] # listing[l]
      PROVE  /\ listing'[l] = GoneRow
             /\ ~(listing[l].status = "active" /\ ReservationActive(listing[l], now))
  <2>1. RowSound(listing[l]) /\ listing[l] \in Listing
    BY DEF RowsSound, IInv, TypeOK
  <2>2. ASSUME NEW x \in Users, NEW m \in ListingIds, Cancel(x, m)
        PROVE  /\ listing'[l] = GoneRow
               /\ ~(listing[l].status = "active" /\ ReservationActive(listing[l], now))
    BY <1>1, <2>1, <2>2
       DEF Cancel, Cancellable, ReservationActive, RowSound, IInv, TypeOK
  <2>3. ASSUME NEW L \in SUBSET ListingIds, NEW t \in Stamps, ReclaimRound(L, t)
        PROVE  /\ listing'[l] = GoneRow
               /\ ~(listing[l].status = "active" /\ ReservationActive(listing[l], now))
    <3>1. listing'[l] = GoneRow /\ l \in Reclaimable(t)
      BY <1>1, <2>3 DEF ReclaimRound
    <3>. QED
      BY <2>1, <3>1 DEF Reclaimable, ReservationActive, Stamps, IInv, TypeOK, Listing
  <2>4. ASSUME NEW b \in Users,
               ClaimAll(b) \/ \E m \in ListingIds : ClaimItem(b, m)
        PROVE  listing'[l] = GoneRow /\ listing[l].status = "awaiting_pickup"
    BY <1>1, <2>4 DEF ClaimAll, ClaimItem, Transfer, Custody
  <2>. QED
    BY <2>2, <2>3, <2>4 DEF ReclaimAny
<1>. QED
  BY <1>1, GoneSound, RestHonoured

\* A line that is reserved is sold to the holder only, whole or in part, and a
\* part of it is paid for.
LEMMA BuyHonours ==
  ASSUME IInv, RowsSound, BuyCommitAny
  PROVE  RowsSound' /\ \A l \in ListingIds : Honoured(l)
<1>0. PICK r \in Requests, c \in ListingIds, M \in SUBSET Units : BuyCommit(r, c, M)
  BY DEF BuyCommitAny
<1>. DEFINE b == request[r].buyer
            l == request[r].id
            n == BuyQty(listing[l], request[r].want)
            total == listing[l].price * n
<1>1. /\ request[r] # NoRequest /\ Buyable(b, l, request[r].want)
      /\ IF n >= listing[l].qty THEN FullSale(b, l) ELSE PartialSale(b, l, n, c, M)
      /\ Settle(b, listing[l].seller, total)
  BY <1>0 DEF BuyCommit
<1>2. /\ b \in Users /\ l \in ListingIds /\ listing[l] \in Listing
      /\ listing[l].status = "active" /\ n \in 1 .. listing[l].qty
  BY <1>1, SaleFacts
<1>3. listing[l].price \in Nat \ {0} /\ listing[l].qty \in Nat /\ RowSound(listing[l])
  BY <1>2 DEF Listing, RowsSound, RowSound
<1>4. usdc'[b] < usdc[b]
  <2>1. \A i \in Nat \ {0}, j \in Nat \ {0} : i * j \in Nat \ {0}
    OBVIOUS
  <2>2. total \in Nat \ {0} /\ usdc[b] \in Nat
    <3>1. n \in Nat \ {0} /\ usdc[b] \in Nat
      BY <1>2, <1>3 DEF IInv, TypeOK
    <3>. HIDE DEF n
    <3>. QED
      BY <1>3, <2>1, <3>1
  <2>3. usdc'[b] = usdc[b] - total + 0
    BY <1>1, <1>2, MarketAssumption DEF Settle
  <2>. HIDE DEF total
  <2>. QED
    BY <2>2, <2>3
<1>5. ReservationActive(listing[l], now) => listing[l].reservedBy = b
  BY <1>1, <1>3 DEF Buyable, ReservationActive, RowSound
<1>. HIDE DEF b, l, n, total
<1>6. CASE FullSale(b, l)
  <2> DEFINE row == [listing[l] EXCEPT !.status = "awaiting_pickup", !.reservedBy = b,
                                       !.reservedUntil = NoTime]
  <2>1. /\ listing' = [listing EXCEPT ![l] = row]
        /\ row.status = "awaiting_pickup" /\ row.reservedBy = b
    BY <1>2, <1>6 DEF FullSale, IInv, TypeOK, Listing
  <2> HIDE DEF row
  <2>2. \A m \in ListingIds : listing'[m] = IF m = l THEN row ELSE listing[m]
    BY <2>1 DEF IInv, TypeOK
  <2>3. RowSound(row)
    BY <2>1 DEF RowSound
  <2>4. RowsSound'
    BY <2>2, <2>3 DEF RowsSound
  <2>. QED
    BY <1>5, <2>1, <2>2, <2>4 DEF Honoured
<1>7. CASE PartialSale(b, l, n, c, M)
  <2> DEFINE rest == [Unreserved(listing[l]) EXCEPT !.qty = listing[l].qty - n]
             sold == [listing[l] EXCEPT !.status = "awaiting_pickup", !.qty = n,
                                        !.reservedBy = b, !.reservedUntil = NoTime]
  <2>1. /\ rest.status = "active" /\ rest.reservedBy = NoUser
        /\ rest.reservedUntil = NoTime /\ rest.price = listing[l].price
        /\ sold.status = "awaiting_pickup"
    BY <1>2 DEF Unreserved, Listing
  <2>2. listing[c].status = "none" /\ listing' = [listing EXCEPT ![l] = rest, ![c] = sold]
    BY <1>7 DEF PartialSale
  <2> HIDE DEF rest, sold
  <2>3. \A m \in ListingIds :
          listing'[m] = IF m = c THEN sold ELSE IF m = l THEN rest ELSE listing[m]
    BY <2>2 DEF IInv, TypeOK
  <2>4. RowSound(rest) /\ RowSound(sold)
    BY <1>3, <2>1 DEF RowSound
  <2>5. RowsSound'
    BY <2>3, <2>4 DEF RowsSound
  <2>6. ASSUME NEW m \in ListingIds PROVE Honoured(m)
    <3>1. CASE m = l
      BY <1>2, <1>4, <1>5, <2>1, <2>2, <2>3, <3>1 DEF Honoured
    <3>2. CASE m # l
      BY <2>2, <2>3, <3>2 DEF Honoured
    <3>. QED
      BY <3>1, <3>2
  <2>. QED
    BY <2>5, <2>6
<1>. QED
  BY <1>1, <1>6, <1>7

LEMMA InitRowsSound == Init => RowsSound
<1> SUFFICES ASSUME Init, NEW l \in ListingIds PROVE RowSound(listing[l])
  BY DEF RowsSound
<1>1. listing[l] = NoRow \/ listing[l] = LegacyRow
  BY DEF Init
<1>2. RowSound(NoRow)
  BY DEF RowSound, NoRow
<1>3. RowSound(LegacyRow)
  BY MarketAssumption DEF RowSound, LegacyRow
<1>. QED
  BY <1>1, <1>2, <1>3

LEMMA NextHonours ==
  IInv /\ RowsSound /\ [Next]_vars => RowsSound' /\ ReservationStep
<1>. SUFFICES ASSUME IInv, RowsSound, [Next]_vars
              PROVE  RowsSound' /\ \A l \in ListingIds : Honoured(l)
  BY DEF ReservationStep, Honoured
<1>1. CASE UNCHANGED listing
  BY <1>1 DEF RowsSound, Honoured
<1>2. CASE \/ SellAny \/ ReserveAny \/ BuyCommitAny
           \/ \E x \in Users, l \in ListingIds : CancelReserve(x, l)
           \/ \E t \in Stamps : ClearExpiredReservations(t)
  BY <1>2, SellHonours, ReserveHonours, BuyHonours, UnreserveHonours
<1>3. CASE \/ \E x \in Users, l \in ListingIds : Cancel(x, l)
           \/ ReclaimAny
           \/ \E b \in Users, l \in ListingIds : ClaimItem(b, l)
           \/ \E b \in Users : ClaimAll(b)
  BY <1>3, DropHonours
<1>4. CASE \/ BuyBeginAny \/ \E r \in Requests : BuyAbort(r)
           \/ \E x \in Users : ClaimProceeds(x)
           \/ \E x \in Users : ExpireLeases(x)
           \/ \E x \in Users : SyncStock(x)
           \/ \E x \in Blockable : SetBlocked(x)
           \/ Tick \/ UNCHANGED vars
  <2>1. UNCHANGED listing
    BY <1>4 DEF BuyBeginAny, BuyBegin, BuyAbort, ClaimProceeds, ExpireLeases, SyncStock,
                SetBlocked, Tick, bookVars, vars
  <2>. QED
    BY <1>1, <2>1
<1>. QED
  BY <1>2, <1>3, <1>4 DEF Next

\* A reserved line changes only by its holder's hand while the reservation runs.
THEOREM ReservedForHolder == Spec => ReservationHonoured
BY Inductive, InitRowsSound, NextHonours, PTL DEF Spec, ReservationHonoured

(***************************************************************************)
(* The stock count. Only the lease sweep may let it drift: without units   *)
(* that have a validity, every handler keeps it exact.                     *)
(***************************************************************************)
NoValidity == \A u \in Units : Due[u] = 0
CountExact ==
  \A x \in Users : sweep[x] = NoSweep /\ stockQty[x] = Cardinality(StockUnits(x))

LEMMA UnionCount ==
  ASSUME NEW S, NEW T, S \subseteq Units, T \subseteq Units, S \cap T = {}
  PROVE  Cardinality(S \cup T) = Cardinality(S) + Cardinality(T)
<1>1. /\ IsFiniteSet(S) /\ IsFiniteSet(T)
      /\ Cardinality(S) \in Nat /\ Cardinality(T) \in Nat
  BY UnitSetFinite
<1>2. Cardinality(S \cup T) = Cardinality(S) + Cardinality(T) - Cardinality(S \cap T)
  BY <1>1, FS_Union
<1>3. Cardinality(S \cap T) = 0
  BY FS_EmptySet
<1>. QED
  BY <1>1, <1>2, <1>3

LEMMA SellCounts ==
  ASSUME IInv, CountExact, NEW x \in Users, NEW p \in Prices, NEW S \in SUBSET Units,
         NEW l \in ListingIds, Sell(x, p, S, l)
  PROVE  CountExact'
<1>1. /\ S \subseteq StockUnits(x) /\ StockUnits(x) \subseteq Units
      /\ sweep' = sweep /\ owner' = owner
      /\ stockQty' = [stockQty EXCEPT ![x] = @ - Cardinality(S)]
      /\ \A u \in Units : ustatus'[u] = IF u \in S THEN "listed" ELSE ustatus[u]
  BY DEF Sell, StockUnits
<1>2. StockUnits(x)' = StockUnits(x) \ S
  BY <1>1 DEF StockUnits
<1>3. \A y \in Users \ {x} : StockUnits(y)' = StockUnits(y)
  BY <1>1 DEF StockUnits
<1>4. Cardinality(StockUnits(x)) = Cardinality(StockUnits(x) \ S) + Cardinality(S)
  <2>1. StockUnits(x) = (StockUnits(x) \ S) \cup S
    BY <1>1
  <2>2. (StockUnits(x) \ S) \cap S = {} /\ StockUnits(x) \ S \subseteq Units
    BY <1>1
  <2>. QED
    BY <2>1, <2>2, UnionCount
<1>5. Cardinality(StockUnits(x) \ S) \in Nat /\ Cardinality(S) \in Nat
  BY <1>1, UnitSetFinite
<1>6. \A y \in Users : stockQty'[y] = IF y = x THEN stockQty[y] - Cardinality(S) ELSE stockQty[y]
  BY <1>1 DEF IInv, TypeOK
<1>7. ASSUME NEW y \in Users
      PROVE  sweep'[y] = NoSweep /\ stockQty'[y] = Cardinality(StockUnits(y)')
  <2>1. sweep'[y] = NoSweep /\ stockQty[y] = Cardinality(StockUnits(y))
    BY <1>1 DEF CountExact
  <2>2. CASE y = x
    <3>1. StockUnits(y)' = StockUnits(x) \ S
      BY <1>2, <2>2
    <3>2. stockQty'[y] = Cardinality(StockUnits(x)) - Cardinality(S)
      BY <1>6, <2>1, <2>2
    <3>3. stockQty'[y] = Cardinality(StockUnits(x) \ S)
      BY <1>4, <1>5, <3>2
    <3>. QED
      BY <2>1, <1>1, <3>1, <3>3
  <2>3. CASE y # x
    BY <1>3, <1>6, <2>1, <2>3
  <2>. QED
    BY <2>1, <2>2, <2>3
<1>. QED
  BY <1>7 DEF CountExact

\* Units that leave a listing come back into stock, and are counted, for the
\* owner they then have.
LEMMA ReturnCounts ==
  ASSUME IInv, CountExact, NEW S \in SUBSET Units, sweep' = sweep,
         \A u \in S : join[u] # NoListing,
         \A u \in Units :
           /\ ustatus'[u] = IF u \in S /\ ustatus[u] = "listed" THEN "stock" ELSE ustatus[u]
           /\ u \notin S => owner'[u] = owner[u],
         \A x \in Users : stockQty'[x] =
           stockQty[x] + Cardinality({u \in S : owner'[u] = x /\ ustatus[u] = "listed"})
  PROVE  CountExact'
<1>. SUFFICES ASSUME NEW x \in Users
              PROVE  sweep'[x] = NoSweep /\ stockQty'[x] = Cardinality(StockUnits(x)')
  BY DEF CountExact
<1>. DEFINE R == {u \in S : owner'[u] = x /\ ustatus[u] = "listed"}
<1>1. \A u \in S : ustatus[u] \in {"listed", "expired"}
  BY DEF IInv, JoinsMatchUnits
<1>2. StockUnits(x)' = StockUnits(x) \cup R
  BY <1>1 DEF StockUnits
<1>3. StockUnits(x) \cap R = {} /\ StockUnits(x) \subseteq Units /\ R \subseteq Units
  BY DEF StockUnits
<1>4. stockQty'[x] = stockQty[x] + Cardinality(R)
  OBVIOUS
<1>. HIDE DEF R
<1>5. Cardinality(StockUnits(x) \cup R) = Cardinality(StockUnits(x)) + Cardinality(R)
  BY <1>3, UnionCount
<1>. QED
  BY <1>2, <1>4, <1>5 DEF CountExact

LEMMA DropCounts ==
  ASSUME IInv, CountExact,
         \/ \E x \in Users, l \in ListingIds : Cancel(x, l)
         \/ ReclaimAny
         \/ \E b \in Users, l \in ListingIds : ClaimItem(b, l)
         \/ \E b \in Users : ClaimAll(b)
  PROVE  CountExact'
<1>1. ASSUME NEW S \in SUBSET Units, Unlist(S), \A u \in S : join[u] # NoListing
      PROVE  CountExact'
  <2>1. \A u \in Units :
          /\ ustatus'[u] = IF u \in S /\ ustatus[u] = "listed" THEN "stock" ELSE ustatus[u]
          /\ owner'[u] = owner[u]
    BY <1>1 DEF Unlist
  <2>2. sweep' = sweep /\ owner' = owner
    BY <1>1 DEF Unlist
  <2>3. \A x \in Users : stockQty'[x] =
          stockQty[x] + Cardinality({u \in S : owner'[u] = x /\ ustatus[u] = "listed"})
    BY <1>1, <2>2 DEF Unlist
  <2>. QED
    BY <1>1, <2>1, <2>2, <2>3, ReturnCounts
<1>2. ASSUME NEW b \in Users, NEW L \in SUBSET ListingIds, Transfer(L, b)
      PROVE  CountExact'
  <2>. DEFINE S == {u \in Units : join[u] \in L}
              R == {u \in S : ustatus[u] = "listed"}
  <2>1. S \in SUBSET Units /\ \A u \in S : join[u] # NoListing
    BY MarketAssumption
  <2>2. /\ sweep' = sweep
        /\ \A u \in Units :
             /\ ustatus'[u] = IF u \in S /\ ustatus[u] = "listed" THEN "stock" ELSE ustatus[u]
             /\ owner'[u] = IF u \in S THEN b ELSE owner[u]
        /\ stockQty' = [stockQty EXCEPT ![b] = @ + Cardinality(R)]
    BY <1>2 DEF Transfer, StockCredited
  <2>. HIDE DEF S
  <2>3. ASSUME NEW x \in Users
        PROVE  stockQty'[x] =
                 stockQty[x] + Cardinality({u \in S : owner'[u] = x /\ ustatus[u] = "listed"})
    <3>1. stockQty[x] \in Nat
      BY DEF IInv, TypeOK
    <3>2. CASE x = b
      <4>1. {u \in S : owner'[u] = x /\ ustatus[u] = "listed"} = R
        BY <2>1, <2>2, <3>2
      <4>. QED
        BY <2>2, <3>2, <4>1 DEF IInv, TypeOK
    <3>3. CASE x # b
      <4>1. {u \in S : owner'[u] = x /\ ustatus[u] = "listed"} = {}
        BY <2>1, <2>2, <3>3
      <4>2. stockQty'[x] = stockQty[x]
        BY <2>2, <3>3 DEF IInv, TypeOK
      <4>. QED
        BY <3>1, <4>1, <4>2, FS_EmptySet
    <3>. QED
      BY <3>2, <3>3
  <2>. QED
    BY <2>1, <2>2, <2>3, ReturnCounts
<1>3. CASE \E x \in Users, l \in ListingIds : Cancel(x, l)
  BY <1>1, <1>3, MarketAssumption DEF Cancel, UnitsIn
<1>4. CASE ReclaimAny
  <2>1. PICK L \in SUBSET ListingIds, t \in Stamps : ReclaimRound(L, t)
    BY <1>4 DEF ReclaimAny
  <2>2. PICK C \in SUBSET ListingIds : Unlist({u \in Units : join[u] \in C})
    BY <2>1 DEF ReclaimRound
  <2>. QED
    BY <1>1, <2>2, MarketAssumption
<1>5. CASE \/ \E b \in Users, l \in ListingIds : ClaimItem(b, l)
           \/ \E b \in Users : ClaimAll(b)
  <2>1. \A b \in Users : Custody(b) \in SUBSET ListingIds
    BY DEF Custody
  <2>. QED
    BY <1>2, <1>5, <2>1 DEF ClaimItem, ClaimAll
<1>. QED
  BY <1>3, <1>4, <1>5

\* Without validities there is nothing to sweep.
LEMMA NothingDue ==
  ASSUME NoValidity, CountExact, NEW x \in Users
  PROVE  ~ExpireLeases(x) /\ ~SyncStock(x)
<1>1. DueUnits(x) = {}
  BY MarketAssumption DEF NoValidity, DueUnits
<1>. QED
  BY <1>1 DEF ExpireLeases, SyncStock, CountExact

LEMMA InitCountExact == Init => CountExact
<1>. SUFFICES ASSUME Init, NEW x \in Users
              PROVE  sweep[x] = NoSweep /\ stockQty[x] = Cardinality(StockUnits(x))
  BY DEF CountExact
<1>1. StockUnits(x) = {u \in Units \ LegacyUnits : Owner0[u] = x}
  BY DEF Init, StockUnits
<1>. QED
  BY <1>1 DEF Init

LEMMA NextCountExact ==
  NoValidity /\ IInv /\ CountExact /\ [Next]_vars => CountExact'
<1>. SUFFICES ASSUME NoValidity, IInv, CountExact, [Next]_vars PROVE CountExact'
  OBVIOUS
<1>1. CASE UNCHANGED <<owner, ustatus, stockQty, sweep>>
  BY <1>1 DEF CountExact, StockUnits
<1>2. CASE SellAny
  BY <1>2, SellCounts DEF SellAny
<1>3. CASE \/ \E x \in Users, l \in ListingIds : Cancel(x, l)
           \/ ReclaimAny
           \/ \E b \in Users, l \in ListingIds : ClaimItem(b, l)
           \/ \E b \in Users : ClaimAll(b)
  BY <1>3, DropCounts
<1>4. CASE \/ ReserveAny \/ BuyBeginAny \/ BuyCommitAny
           \/ \E x \in Users, l \in ListingIds : CancelReserve(x, l)
           \/ \E t \in Stamps : ClearExpiredReservations(t)
           \/ \E r \in Requests : BuyAbort(r)
           \/ \E x \in Users : ClaimProceeds(x)
           \/ \E x \in Blockable : SetBlocked(x)
           \/ Tick \/ UNCHANGED vars
  <2>1. UNCHANGED <<owner, ustatus, stockQty, sweep>>
    BY <1>4 DEF ReserveAny, Reserve, BuyBeginAny, BuyBegin, BuyCommitAny, BuyCommit,
                CancelReserve, ClearExpiredReservations, BuyAbort, ClaimProceeds, SetBlocked,
                Tick, unitVars, stockVars, vars
  <2>. QED
    BY <1>1, <2>1
<1>5. CASE \E x \in Users : ExpireLeases(x) \/ SyncStock(x)
  BY <1>5, NothingDue
<1>. QED
  BY <1>2, <1>3, <1>4, <1>5 DEF Next

\* Where no unit has a validity, stock.qty is the number of units in stock: sell,
\* cancel, reclaim and the claims keep the count, and only the sweep can lose it.
THEOREM CountsDriftBySweepOnly == NoValidity => (Spec => []StockMatchesUnits)
<1>. SUFFICES ASSUME NoValidity PROVE Spec => []StockMatchesUnits
  OBVIOUS
<1>1. CountExact => StockMatchesUnits
  BY DEF CountExact, StockMatchesUnits
<1>2. IInv /\ CountExact /\ [Next]_vars => CountExact'
  BY NextCountExact
<1>. QED
  BY <1>1, <1>2, Inductive, InitCountExact, PTL DEF Spec
-----------------------------------------------------------------------------
(***************************************************************************)
(* The market implements UnitEscrow, and a custody row is only ever given  *)
(* up by handing its units to their buyer. Each handler is mapped to one   *)
(* step of the escrow (sell: Offer; cancel, reclaim: Withdraw; buy: Sale;  *)
(* claim: Deliver) or to a stutter. All the work rests on IInv.            *)
(***************************************************************************)
\* The refinement mapping, one unit at a time.
EscrowVars == <<owner, [u \in Units |-> PhaseOf(u)], [u \in Units |-> CreditorOf(u)]>>

Mapped(S, from, to) ==
  /\ \A u \in S : PhaseOf(u) = from
  /\ \A u \in Units : PhaseOf(u)' = IF u \in S THEN to ELSE PhaseOf(u)

LEMMA MovePhases ==
  ASSUME NEW S, NEW from, NEW to, S \subseteq Units, Mapped(S, from, to)
  PROVE  Escrow!Move(S, from, to)
BY DEF Mapped, Escrow!Move

\* The phase of a joined unit is decided by the row's status alone.
LEMMA PhaseFacts ==
  ASSUME IInv, NEW u \in Units
  PROVE  /\ join[u] = NoListing => PhaseOf(u) = "free" /\ CreditorOf(u) = NoUser
         /\ join[u] # NoListing =>
              /\ join[u] \in ListingIds
              /\ listing[join[u]].status = "active" =>
                   PhaseOf(u) = "offered" /\ CreditorOf(u) = NoUser
              /\ listing[join[u]].status # "active" =>
                   /\ listing[join[u]].status = "awaiting_pickup"
                   /\ PhaseOf(u) = "owed"
                   /\ CreditorOf(u) = listing[join[u]].reservedBy
BY DEF PhaseOf, CreditorOf, IInv, TypeOK, JoinsMatchUnits, Live

\* A step that leaves owners and joins alone, and rows up to a reservation.
LEMMA EscrowStutters ==
  ASSUME IInv, UNCHANGED <<owner, join>>,
         \A l \in ListingIds :
           /\ listing'[l].status = listing[l].status
           /\ listing[l].status = "awaiting_pickup" => listing'[l] = listing[l]
  PROVE  /\ UNCHANGED EscrowVars
         /\ CustodyStep
<1>1. \A u \in Units : PhaseOf(u)' = PhaseOf(u) /\ CreditorOf(u)' = CreditorOf(u)
  BY PhaseFacts DEF PhaseOf, CreditorOf
<1>2. CustodyStep
  BY DEF CustodyStep
<1>. QED
  BY <1>1, <1>2 DEF EscrowVars

LEMMA SellOffers ==
  ASSUME IInv, NEW x \in Users, NEW p \in Prices, NEW S \in SUBSET Units,
         NEW l \in ListingIds, Sell(x, p, S, l)
  PROVE  Escrow!Offer(S, x) /\ CustodyStep
<1>1. \A m \in ListingIds : m # l => listing'[m] = listing[m]
  BY DEF Sell, IInv, TypeOK
<1>2. listing[l].status = "none" /\ listing'[l].status = "active"
  BY DEF Sell, IInv, TypeOK
<1>3. \A u \in Units : /\ join'[u] = IF u \in S THEN l ELSE join[u]
                       /\ u \in S => join[u] = NoListing /\ owner[u] = x
                       /\ join[u] # l
  BY <1>2, MarketAssumption DEF Sell, StockUnits, IInv, JoinsMatchUnits, Live
<1>4. l # NoListing
  BY MarketAssumption
<1>5. \A u \in Units : /\ PhaseOf(u)' = IF u \in S THEN "offered" ELSE PhaseOf(u)
                       /\ CreditorOf(u)' = CreditorOf(u)
  BY <1>1, <1>2, <1>3, <1>4, PhaseFacts DEF PhaseOf, CreditorOf
<1>6. \A u \in S : PhaseOf(u) = "free"
  BY <1>3, PhaseFacts
<1>7. Escrow!Move(S, "free", "offered")
  BY <1>5, <1>6, MovePhases DEF Mapped
<1>8. UNCHANGED <<owner, [u \in Units |-> CreditorOf(u)]>>
  BY <1>5 DEF Sell
<1>9. CustodyStep
  BY <1>1, <1>2 DEF CustodyStep
<1>. QED
  BY <1>3, <1>7, <1>8, <1>9 DEF Escrow!Offer

\* What deleting active rows with their joins does.
LEMMA DropWithdraws ==
  ASSUME IInv, NEW L \in SUBSET ListingIds, NEW S, S = {u \in Units : join[u] \in L},
         \A l \in L : listing[l].status = "active",
         join' = JoinsWithout(S), UNCHANGED owner,
         \A l \in ListingIds : listing'[l] = IF l \in L THEN GoneRow ELSE listing[l]
  PROVE  Escrow!Withdraw(S) /\ CustodyStep
<1>1. \A u \in Units : join'[u] = IF u \in S THEN NoListing ELSE join[u]
  BY DEF JoinsWithout
<1>2. \A u \in S : join[u] # NoListing /\ listing[join[u]].status = "active"
  BY MarketAssumption
<1>3. \A u \in Units : join[u] # NoListing /\ u \notin S => listing'[join[u]] = listing[join[u]]
  BY PhaseFacts
<1>4. \A u \in Units : /\ PhaseOf(u)' = IF u \in S THEN "free" ELSE PhaseOf(u)
                       /\ CreditorOf(u)' = CreditorOf(u)
  BY <1>1, <1>2, <1>3, PhaseFacts DEF PhaseOf, CreditorOf
<1>5. \A u \in S : PhaseOf(u) = "offered"
  BY <1>2, PhaseFacts
<1>6. Escrow!Move(S, "offered", "free")
  BY <1>4, <1>5, MovePhases DEF Mapped
<1>7. UNCHANGED <<owner, [u \in Units |-> CreditorOf(u)]>>
  BY <1>4
<1>8. CustodyStep
  BY DEF CustodyStep
<1>. QED
  BY <1>6, <1>7, <1>8 DEF Escrow!Withdraw

LEMMA CancelWithdraws ==
  ASSUME IInv, NEW x \in Users, NEW l \in ListingIds, Cancel(x, l)
  PROVE  Escrow!Withdraw(UnitsIn(l)) /\ CustodyStep
<1>1. UnitsIn(l) = {u \in Units : join[u] \in {l}}
  BY DEF UnitsIn
<1>2. \A m \in ListingIds : listing'[m] = IF m \in {l} THEN GoneRow ELSE listing[m]
  BY DEF Cancel, IInv, TypeOK
<1>3. listing[l].status = "active" /\ join' = JoinsWithout(UnitsIn(l)) /\ UNCHANGED owner
  BY DEF Cancel, Cancellable, Unlist
<1>4. {l} \in SUBSET ListingIds
  OBVIOUS
<1>. QED
  BY <1>1, <1>2, <1>3, <1>4, DropWithdraws

LEMMA ReclaimWithdraws ==
  ASSUME IInv, NEW L \in SUBSET ListingIds, NEW t \in Stamps, ReclaimRound(L, t)
  PROVE  (\E S \in SUBSET Units : Escrow!Withdraw(S)) /\ CustodyStep
<1>. DEFINE credited == {l \in L : Cardinality(UnitsIn(l)) = listing[l].qty}
            S == {u \in Units : join[u] \in credited}
<1>1. credited \in SUBSET ListingIds /\ \A l \in credited : listing[l].status = "active"
  BY DEF ReclaimRound, Reclaimable
<1>2. /\ \A l \in ListingIds : listing'[l] = IF l \in credited THEN GoneRow ELSE listing[l]
      /\ join' = JoinsWithout(S) /\ UNCHANGED owner
  BY DEF ReclaimRound, Unlist
<1>3. S \in SUBSET Units /\ S = {u \in Units : join[u] \in credited}
  OBVIOUS
<1>. HIDE DEF credited, S
<1>. QED
  BY <1>1, <1>2, <1>3, DropWithdraws

\* A sale: the units S of the active row l end in a custody row for b.
LEMMA SaleSells ==
  ASSUME IInv, NEW b \in Users, NEW l \in ListingIds, NEW c \in ListingIds,
         NEW S, S \subseteq UnitsIn(l),
         listing[l].status = "active", listing[l].seller # b,
         c = l \/ listing[c].status = "none",
         UNCHANGED owner,
         \A u \in Units : join'[u] = IF u \in S THEN c ELSE join[u],
         listing'[c].status = "awaiting_pickup", listing'[c].reservedBy = b,
         IF c = l THEN S = UnitsIn(l) ELSE listing'[l].status = "active",
         \A m \in ListingIds \ {l, c} : listing'[m] = listing[m]
  PROVE  Escrow!Sale(S, b) /\ CustodyStep
<1>1. S \subseteq Units /\ \A u \in S : join[u] = l
  BY DEF UnitsIn
<1>2. l # NoListing /\ c # NoListing
  BY MarketAssumption
<1>3. \A u \in S : listing[join[u]].seller = owner[u]
  BY <1>1, <1>2 DEF IInv, JoinsMatchUnits
<1>4. \A u \in S : owner[u] # b /\ PhaseOf(u) = "offered"
  BY <1>1, <1>2, <1>3, PhaseFacts
<1>5. \A u \in S : PhaseOf(u)' = "owed" /\ CreditorOf(u)' = b
  BY <1>1, <1>2 DEF PhaseOf, CreditorOf
<1>6. \A u \in Units \ S : PhaseOf(u)' = PhaseOf(u) /\ CreditorOf(u)' = CreditorOf(u)
  <2>1. SUFFICES ASSUME NEW u \in Units \ S
                 PROVE  PhaseOf(u)' = PhaseOf(u) /\ CreditorOf(u)' = CreditorOf(u)
    OBVIOUS
  <2>2. join'[u] = join[u]
    BY <2>1
  <2>3. CASE join[u] = NoListing
    BY <2>2, <2>3 DEF PhaseOf, CreditorOf
  <2>4. CASE join[u] = l
    <3>1. c # l
      BY <2>1, <2>4 DEF UnitsIn
    <3>. QED
      BY <3>1, <2>2, <2>4, <1>2 DEF PhaseOf, CreditorOf
  <2>5. CASE join[u] \notin {l, NoListing}
    <3>1. join[u] \in ListingIds \ {l} /\ listing[join[u]].status \in {"active", "awaiting_pickup"}
      BY <2>5, PhaseFacts
    <3>2. listing'[join[u]] = listing[join[u]]
      BY <3>1
    <3>. QED
      BY <2>2, <3>2 DEF PhaseOf, CreditorOf
  <2>. QED
    BY <2>3, <2>4, <2>5
<1>7. Escrow!Move(S, "offered", "owed")
  BY <1>1, <1>4, <1>5, <1>6, MovePhases DEF Mapped
<1>8. [u \in Units |-> CreditorOf(u)]'
        = [u \in Units |-> IF u \in S THEN b ELSE [v \in Units |-> CreditorOf(v)][u]]
  BY <1>1, <1>5, <1>6
<1>9. CustodyStep
  BY DEF CustodyStep
<1>. QED
  BY <1>4, <1>1, <1>7, <1>8, <1>9 DEF Escrow!Sale

LEMMA BuySells ==
  ASSUME IInv, NEW r \in Requests, NEW c \in ListingIds, NEW M \in SUBSET Units,
         BuyCommit(r, c, M)
  PROVE  (\E S \in SUBSET Units, b \in Users : Escrow!Sale(S, b)) /\ CustodyStep
<1>. DEFINE b == request[r].buyer
            l == request[r].id
            n == BuyQty(listing[l], request[r].want)
<1>1. /\ request[r] # NoRequest /\ Buyable(b, l, request[r].want)
      /\ IF n >= listing[l].qty THEN FullSale(b, l) ELSE PartialSale(b, l, n, c, M)
      /\ UNCHANGED owner
  BY DEF BuyCommit
<1>2. /\ b \in Users /\ l \in ListingIds /\ listing[l] \in Listing
      /\ listing[l].status = "active" /\ listing[l].seller # b
  BY <1>1, SaleFacts
<1>. HIDE DEF b, l, n
<1>3. UnitsIn(l) \subseteq Units
  BY DEF UnitsIn
<1>4. CASE n >= listing[l].qty
  <2>1. FullSale(b, l)
    BY <1>1, <1>4
  <2>2. /\ \A u \in Units : join'[u] = IF u \in UnitsIn(l) THEN l ELSE join[u]
        /\ listing'[l].status = "awaiting_pickup" /\ listing'[l].reservedBy = b
        /\ \A m \in ListingIds \ {l, l} : listing'[m] = listing[m]
    BY <2>1, <1>2 DEF FullSale, UnitsIn, IInv, TypeOK, Listing
  <2>. QED
    BY <2>2, <1>1, <1>2, <1>3, SaleSells
<1>5. CASE ~(n >= listing[l].qty)
  <2>1. PartialSale(b, l, n, c, M)
    BY <1>1, <1>5
  <2>2. /\ M \subseteq UnitsIn(l) /\ c # l /\ listing[c].status = "none"
        /\ \A u \in Units : join'[u] = IF u \in M THEN c ELSE join[u]
    BY <2>1, <1>2 DEF PartialSale, JoinsMoved
  <2>3. /\ listing'[c].status = "awaiting_pickup" /\ listing'[c].reservedBy = b
        /\ listing'[l].status = "active"
        /\ \A m \in ListingIds \ {l, c} : listing'[m] = listing[m]
    BY <2>1, <2>2, <1>2 DEF PartialSale, Unreserved, IInv, TypeOK, Listing
  <2>. QED
    BY <2>2, <2>3, <1>1, <1>2, <1>3, SaleSells
<1>. QED
  BY <1>4, <1>5

LEMMA ClaimDelivers ==
  ASSUME IInv, NEW b \in Users, NEW L \in SUBSET ListingIds, L \subseteq Custody(b),
         Transfer(L, b)
  PROVE  (\E S \in SUBSET Units : Escrow!Deliver(S, b)) /\ CustodyStep
<1>. DEFINE S == {u \in Units : join[u] \in L}
<1>1. /\ \A u \in Units : owner'[u] = IF u \in S THEN b ELSE owner[u]
      /\ \A u \in Units : join'[u] = IF u \in S THEN NoListing ELSE join[u]
      /\ owner' = [u \in Units |-> IF u \in S THEN b ELSE owner[u]]
      /\ \A l \in ListingIds : listing'[l] = IF l \in L THEN GoneRow ELSE listing[l]
  BY DEF Transfer, JoinsWithout
<1>2. \A l \in L : listing[l].status = "awaiting_pickup" /\ listing[l].reservedBy = b
  BY DEF Custody
<1>3. \A u \in Units : /\ u \in S <=> join[u] \in L
                       /\ u \in S => join[u] # NoListing
  BY MarketAssumption
<1>4. S \in SUBSET Units
  OBVIOUS
<1>. HIDE DEF S
<1>5. \A u \in S : PhaseOf(u) = "owed" /\ CreditorOf(u) = b
  BY <1>2, <1>3, <1>4, PhaseFacts
<1>6. \A u \in Units : join[u] # NoListing /\ u \notin S => listing'[join[u]] = listing[join[u]]
  BY <1>1, <1>3, PhaseFacts
<1>7. \A u \in Units : /\ PhaseOf(u)' = IF u \in S THEN "free" ELSE PhaseOf(u)
                       /\ CreditorOf(u)' = IF u \in S THEN NoUser ELSE CreditorOf(u)
  BY <1>1, <1>3, <1>6 DEF PhaseOf, CreditorOf
<1>8. Escrow!Move(S, "owed", "free")
  BY <1>4, <1>5, <1>7, MovePhases DEF Mapped
<1>9. [u \in Units |-> CreditorOf(u)]'
        = [u \in Units |-> IF u \in S THEN NoUser ELSE [v \in Units |-> CreditorOf(v)][u]]
  BY <1>7
<1>10. CustodyStep
  <2>1. \A l \in L : \A u \in UnitsIn(l) : u \in S
    BY <1>3 DEF UnitsIn
  <2>2. \A l \in ListingIds : listing'[l] # listing[l] => l \in L
    BY <1>1
  <2>3. \A l \in L : listing'[l].status = "gone"
    BY <1>1 DEF GoneRow, NoRow
  <2>4. \A l \in L : \A u \in UnitsIn(l) : owner'[u] = b /\ join'[u] = NoListing
    BY <1>1, <2>1 DEF UnitsIn
  <2>. QED
    BY <1>2, <2>2, <2>3, <2>4 DEF CustodyStep
<1>. QED
  BY <1>1, <1>4, <1>5, <1>8, <1>9, <1>10 DEF Escrow!Deliver

\* Reservations, requests, balances, sweeps, the clock: the escrow stutters.
LEMMA OthersStutter ==
  ASSUME IInv,
         \/ ReserveAny
         \/ \E x \in Users, l \in ListingIds : CancelReserve(x, l)
         \/ \E t \in Stamps : ClearExpiredReservations(t)
         \/ BuyBeginAny \/ \E r \in Requests : BuyAbort(r)
         \/ \E x \in Users : ClaimProceeds(x)
         \/ \E x \in Users : ExpireLeases(x)
         \/ \E x \in Users : SyncStock(x)
         \/ \E x \in Blockable : SetBlocked(x)
         \/ Tick
         \/ UNCHANGED vars
  PROVE  UNCHANGED EscrowVars /\ CustodyStep
<1>1. UNCHANGED <<owner, join>>
  BY DEF ReserveAny, Reserve, CancelReserve, ClearExpiredReservations, BuyBeginAny, BuyBegin,
         BuyAbort, ClaimProceeds, ExpireLeases, SyncStock, SetBlocked, Tick, vars, unitVars,
         bookVars
<1>2. \A l \in ListingIds : /\ listing'[l].status = listing[l].status
                            /\ listing[l].status = "awaiting_pickup" => listing'[l] = listing[l]
  <2>1. CASE ReserveAny
    <3>1. PICK x \in Users, l \in ListingIds, t \in Stamps : Reserve(x, l, t)
      BY <2>1 DEF ReserveAny
    <3>. QED
      BY <3>1 DEF Reserve, IInv, TypeOK, Listing
  <2>a. \A l \in ListingIds : Unreserved(listing[l]).status = listing[l].status
    BY DEF Unreserved, IInv, TypeOK, Listing
  <2>2. CASE \E x \in Users, l \in ListingIds : CancelReserve(x, l)
    <3>1. PICK x \in Users, l \in ListingIds : CancelReserve(x, l)
      BY <2>2
    <3>2. /\ listing[l].status = "active"
          /\ \A m \in ListingIds :
               listing'[m] = IF m = l THEN Unreserved(listing[l]) ELSE listing[m]
      BY <3>1 DEF CancelReserve, IInv, TypeOK
    <3>. QED
      BY <3>2, <2>a
  <2>3. CASE \E t \in Stamps : ClearExpiredReservations(t)
    BY <2>3, <2>a DEF ClearExpiredReservations
  <2>4. CASE UNCHANGED listing
    BY <2>4
  <2>. QED
    BY <2>1, <2>2, <2>3, <2>4 DEF BuyBeginAny, BuyBegin, BuyAbort, ClaimProceeds,
       ExpireLeases, SyncStock, SetBlocked, Tick, vars, bookVars
<1>. QED
  BY <1>1, <1>2, EscrowStutters

LEMMA StepMaps == IInv /\ [Next]_vars => [Escrow!Next]_EscrowVars /\ CustodyStep
<1>. SUFFICES ASSUME IInv, [Next]_vars
              PROVE  (Escrow!Next \/ UNCHANGED EscrowVars) /\ CustodyStep
  OBVIOUS
<1>1. CASE SellAny
  BY <1>1, SellOffers DEF SellAny, Escrow!Next
<1>2. CASE \E x \in Users, l \in ListingIds : Cancel(x, l)
  <2>1. \A l \in ListingIds : UnitsIn(l) \in SUBSET Units
    BY DEF UnitsIn
  <2>. QED
    BY <1>2, <2>1, CancelWithdraws DEF Escrow!Next
<1>3. CASE ReclaimAny
  BY <1>3, ReclaimWithdraws DEF ReclaimAny, Escrow!Next
<1>4. CASE BuyCommitAny
  BY <1>4, BuySells DEF BuyCommitAny, Escrow!Next
<1>5. CASE \E b \in Users, l \in ListingIds : ClaimItem(b, l)
  <2>1. PICK b \in Users, l \in ListingIds : ClaimItem(b, l)
    BY <1>5
  <2>2. {l} \in SUBSET ListingIds /\ {l} \subseteq Custody(b) /\ Transfer({l}, b)
    BY <2>1 DEF ClaimItem
  <2>. QED
    BY <2>2, ClaimDelivers DEF Escrow!Next
<1>6. CASE \E b \in Users : ClaimAll(b)
  <2>1. PICK b \in Users : ClaimAll(b)
    BY <1>6
  <2>2. Custody(b) \in SUBSET ListingIds /\ Transfer(Custody(b), b)
    BY <2>1 DEF ClaimAll, Custody
  <2>. QED
    BY <2>2, ClaimDelivers DEF Escrow!Next
<1>. QED
  BY <1>1, <1>2, <1>3, <1>4, <1>5, <1>6, OthersStutter DEF Next

LEMMA InitMaps == Init => Escrow!Init
<1>. SUFFICES ASSUME Init PROVE Escrow!Init
  OBVIOUS
<1>1. IInv
  BY InitIInv
<1>2. \A l \in ListingIds : listing[l].status # "awaiting_pickup"
  BY DEF Init, LegacyRow, NoRow
<1>3. \A u \in Units : PhaseOf(u) \in {"free", "offered"} /\ CreditorOf(u) = NoUser
  BY <1>1, <1>2, PhaseFacts
<1>4. owner \in [Units -> Users]
  BY <1>1 DEF IInv, TypeOK
<1>. QED
  BY <1>3, <1>4 DEF Escrow!Init

\* Every behaviour of the market is one of the escrow: a unit changes hands
\* only by delivery to the user it was sold to.
THEOREM ImplementsEscrow == Spec => EscrowSpec
<1>1. EscrowVars = Escrow!evars
  BY DEF EscrowVars, Escrow!evars
<1>2. IInv /\ [Next]_vars => [Escrow!Next]_(Escrow!evars)
  BY <1>1, StepMaps DEF EscrowVars, Escrow!evars
<1>. QED
  BY <1>2, InitMaps, Inductive, PTL DEF Spec, EscrowSpec, Escrow!Spec

\* A custody row ends only in the hands of its buyer, with all its units.
THEOREM CustodyDelivered == Spec => CustodyGoesToBuyer
<1>1. IInv /\ [Next]_vars => [CustodyStep]_vars
  BY StepMaps
<1>. QED
  BY <1>1, Inductive, PTL DEF Spec, CustodyGoesToBuyer


(***************************************************************************)
(* Money. A sale moves it between three players and the house; only the    *)
(* commission of a referrer comes from nowhere, and it is counted.         *)
(***************************************************************************)
LEMMA SumIsOver == ASSUME NEW f PROVE Sum(f) = SumOver(f, Users)
BY DEF Sum, SumOver

LEMMA ConservedNext ==
  MoneyConserved' <=> Sum(usdc') + Sum(proceeds') + taxTotal' = Sum(Usdc0) + minted'
BY DEF MoneyConserved

\* One entry of a balance sheet changes by d, the sum changes by d.
Moved(f, h, y, d) ==
  /\ f \in [Users -> Int] /\ h \in [Users -> Int] /\ y \in Users /\ d \in Int
  /\ \A x \in Users : h[x] = IF x = y THEN f[x] + d ELSE f[x]

LEMMA BalanceMoves ==
  ASSUME NEW f, NEW h, NEW y, NEW d, Moved(f, h, y, d)
  PROVE  Sum(f) \in Int /\ Sum(h) = Sum(f) + d
<1>0. /\ f \in [Users -> Int] /\ h \in [Users -> Int] /\ y \in Users /\ d \in Int
      /\ \A x \in Users : h[x] = IF x = y THEN f[x] + d ELSE f[x]
  BY DEF Moved
<1>1. IsFiniteSet(Users)
  BY MarketAssumption
<1>2. Ints(f, Users) /\ Ints(h, Users)
  BY <1>0 DEF Ints
<1>3. y \in Users /\ \A x \in Users : x # y => h[x] = f[x]
  BY <1>0
<1>4. SumOver(h, Users) = SumOver(f, Users) + h[y] - f[y]
  BY <1>1, <1>2, <1>3, SumChange
<1>5. SumOver(f, Users) \in Int
  BY <1>1, <1>2, SumType
<1>6. h[y] = f[y] + d /\ f[y] \in Int /\ d \in Int
  BY <1>0
<1>. QED
  BY <1>4, <1>5, <1>6, SumIsOver

\* What the buyer pays is the seller's share and the tax; what the referrer
\* gets is minted. Buyer and seller may be any two players, and the referrer
\* may be the seller.
LEMMA SettleConserves ==
  ASSUME TypeOK, NEW b \in Users, NEW s \in Users, NEW total \in Nat,
         usdc[b] >= total, Settle(b, s, total), MoneyConserved
  PROVE  MoneyConserved'
<1>. PICK c, x, g : c = Commission(b, total) /\ x = Tax(total) /\ g = SellerReceive(total)
  OBVIOUS
<1>1. c \in Nat /\ x \in Nat /\ g = total - x /\ g \in Int
  BY TaxRange, CommissionType DEF SellerReceive
<1>2. usdc' = [y \in Users |->
        (IF y = b THEN usdc[y] - total ELSE usdc[y]) + (IF y = Referrer[b] THEN c ELSE 0)]
  BY DEF Settle
<1>3. /\ proceeds' = [proceeds EXCEPT ![s] = @ + g]
      /\ taxTotal' = taxTotal + x /\ minted' = minted + c
  BY DEF Settle
<1>4. usdc \in [Users -> Int] /\ proceeds \in [Users -> Int] /\ taxTotal \in Nat /\ minted \in Nat
  BY DEF TypeOK
<1>. DEFINE paid == [y \in Users |-> IF y = b THEN usdc[y] - total ELSE usdc[y]]
<1>5. paid \in [Users -> Int]
  BY <1>4
<1>6. Sum(usdc) \in Int /\ Sum(paid) = Sum(usdc) - total
  <2>1. -total \in Int /\ \A y \in Users : paid[y] = IF y = b THEN usdc[y] + (-total) ELSE usdc[y]
    BY <1>4
  <2>. HIDE DEF paid
  <2>2. Moved(usdc, paid, b, -total)
    BY <1>4, <1>5, <2>1 DEF Moved
  <2>3. Sum(usdc) \in Int /\ Sum(paid) = Sum(usdc) + (-total)
    BY <2>2, BalanceMoves
  <2>. QED
    BY <2>3
<1>7. \A y \in Users : usdc'[y] = paid[y] + (IF y = Referrer[b] THEN c ELSE 0)
  BY <1>2
<1>8. usdc' \in [Users -> Int]
  BY <1>1, <1>2, <1>4
<1>. HIDE DEF paid
<1>9. Sum(usdc') = Sum(paid) + c
  <2>1. CASE Referrer[b] = NoUser
    <3>1. c = 0
      BY <2>1 DEF Commission
    <3>2. 0 \in Int /\ \A y \in Users : usdc'[y] = IF y = b THEN paid[y] + 0 ELSE paid[y]
      BY <1>5, <1>7, <3>1
    <3>3. Moved(paid, usdc', b, 0)
      BY <1>5, <1>8, <3>2 DEF Moved
    <3>4. Sum(paid) \in Int /\ Sum(usdc') = Sum(paid) + 0
      BY <3>3, BalanceMoves
    <3>. QED
      BY <3>1, <3>4
  <2>2. CASE Referrer[b] # NoUser
    <3>1. PICK r \in Users : r = Referrer[b]
      BY <2>2, MarketAssumption
    <3>2. \A y \in Users : usdc'[y] = IF y = r THEN paid[y] + c ELSE paid[y]
      BY <1>5, <1>7, <3>1
    <3>3. Moved(paid, usdc', r, c)
      BY <1>1, <1>5, <1>8, <3>2 DEF Moved
    <3>. QED
      BY <3>3, BalanceMoves
  <2>. QED
    BY <2>1, <2>2
<1>10. Sum(proceeds) \in Int /\ Sum(proceeds') = Sum(proceeds) + g
  <2>1. proceeds' \in [Users -> Int]
    BY <1>1, <1>3, <1>4
  <2>2. \A y \in Users : proceeds'[y] = IF y = s THEN proceeds[y] + g ELSE proceeds[y]
    BY <1>3, <1>4
  <2>3. PICK f, h : f = proceeds /\ h = proceeds'
    OBVIOUS
  <2>4. Moved(f, h, s, g)
    BY <1>1, <1>4, <2>1, <2>2, <2>3 DEF Moved
  <2>5. Sum(f) \in Int /\ Sum(h) = Sum(f) + g
    BY <2>4, BalanceMoves
  <2>. QED
    BY <2>3, <2>5
<1>11. MoneyConserved' <=> Sum(usdc') + Sum(proceeds') + taxTotal' = Sum(Usdc0) + minted'
  BY ConservedNext
<1>12. Sum(usdc) + Sum(proceeds) + taxTotal = Sum(Usdc0) + minted
  BY DEF MoneyConserved
<1>13. Sum(Usdc0) \in Int
  <2>1. IsFiniteSet(Users) /\ Ints(Usdc0, Users)
    BY MarketAssumption DEF Ints
  <2>. QED
    BY <2>1, SumType, SumIsOver
<1>14. Sum(usdc') = Sum(usdc) - total + c
  BY <1>6, <1>9
<1>15. Sum(proceeds') + taxTotal' = Sum(proceeds) + taxTotal + total
  BY <1>1, <1>3, <1>4, <1>10
<1>16. \A u, p, t, z, m, k \in Int :
         u + p + t = z + m => (u - total + k) + (p + t + total) = z + (m + k)
  OBVIOUS
<1>17. (Sum(usdc) - total + c) + (Sum(proceeds) + taxTotal + total) = Sum(Usdc0) + (minted + c)
  BY <1>1, <1>4, <1>6, <1>10, <1>12, <1>13, <1>16
<1>18. PICK a, e, t : a = Sum(usdc') /\ e = Sum(proceeds') /\ t = taxTotal'
  OBVIOUS
<1>19. a \in Int /\ e \in Int /\ t \in Int
  BY <1>1, <1>3, <1>4, <1>6, <1>10, <1>14, <1>18
<1>. QED
  BY <1>3, <1>11, <1>14, <1>15, <1>17, <1>18, <1>19

\* Withdrawing the market balance moves it to the other one.
LEMMA ClaimConserves ==
  ASSUME TypeOK, NEW x \in Users, ClaimProceeds(x), MoneyConserved
  PROVE  MoneyConserved'
<1>. PICK d : d = proceeds[x]
  OBVIOUS
<1>1. /\ usdc \in [Users -> Int] /\ proceeds \in [Users -> Int] /\ d \in Int /\ -d \in Int
      /\ taxTotal \in Int
  BY DEF TypeOK
<1>2. /\ usdc' = [usdc EXCEPT ![x] = @ + d] /\ proceeds' = [proceeds EXCEPT ![x] = 0]
      /\ taxTotal' = taxTotal /\ minted' = minted
  BY DEF ClaimProceeds
<1>3. usdc' \in [Users -> Int] /\ proceeds' \in [Users -> Int]
  BY <1>1, <1>2
<1>4. /\ \A y \in Users : usdc'[y] = IF y = x THEN usdc[y] + d ELSE usdc[y]
      /\ \A y \in Users : proceeds'[y] = IF y = x THEN proceeds[y] + (-d) ELSE proceeds[y]
  BY <1>1, <1>2
<1>5. Sum(usdc) \in Int /\ Sum(usdc') = Sum(usdc) + d
  <2>1. Moved(usdc, usdc', x, d)
    BY <1>1, <1>3, <1>4 DEF Moved
  <2>. QED
    BY <2>1, BalanceMoves
<1>6. Sum(proceeds) \in Int /\ Sum(proceeds') = Sum(proceeds) + (-d)
  <2>1. PICK f, h : f = proceeds /\ h = proceeds'
    OBVIOUS
  <2>2. Moved(f, h, x, -d)
    BY <1>1, <1>3, <1>4, <2>1 DEF Moved
  <2>3. Sum(f) \in Int /\ Sum(h) = Sum(f) + (-d)
    BY <2>2, BalanceMoves
  <2>. QED
    BY <2>1, <2>3
<1>7. MoneyConserved' <=> Sum(usdc') + Sum(proceeds') + taxTotal' = Sum(Usdc0) + minted'
  BY ConservedNext
<1>8. Sum(usdc) + Sum(proceeds) + taxTotal = Sum(Usdc0) + minted
  BY DEF MoneyConserved
<1>9. Sum(usdc') + Sum(proceeds') = Sum(usdc) + Sum(proceeds)
  BY <1>1, <1>5, <1>6
<1>. QED
  BY <1>2, <1>7, <1>8, <1>9

LEMMA InitConserved == Init => MoneyConserved
<1>. SUFFICES ASSUME Init PROVE MoneyConserved
  OBVIOUS
<1>1. usdc = Usdc0 /\ taxTotal = 0 /\ minted = 0 /\ \A x \in Users : proceeds[x] = 0
  BY DEF Init
<1>2. Sum(proceeds) = 0
  BY <1>1, MarketAssumption, SumZero, SumIsOver
<1>3. Sum(usdc) \in Int
  <2>1. IsFiniteSet(Users) /\ Ints(usdc, Users)
    BY <1>1, MarketAssumption DEF Ints
  <2>. QED
    BY <2>1, SumType, SumIsOver
<1>4. Sum(usdc) = Sum(Usdc0)
  BY <1>1
<1>. QED
  BY <1>1, <1>2, <1>3, <1>4 DEF MoneyConserved

LEMMA NextConserves == IInv /\ MoneyConserved /\ [Next]_vars => MoneyConserved'
<1>. SUFFICES ASSUME IInv, MoneyConserved, [Next]_vars PROVE MoneyConserved'
  OBVIOUS
<1>1. TypeOK
  BY DEF IInv
<1>2. CASE BuyCommitAny
  <2>1. PICK r \in Requests, c \in ListingIds, M \in SUBSET Units : BuyCommit(r, c, M)
    BY <1>2 DEF BuyCommitAny
  <2>2. PICK b, l, want : b = request[r].buyer /\ l = request[r].id /\ want = request[r].want
    OBVIOUS
  <2>3. PICK total : total = listing[l].price * BuyQty(listing[l], want)
    OBVIOUS
  <2>4. request[r] # NoRequest /\ Buyable(b, l, want) /\ Settle(b, listing[l].seller, total)
    BY <2>1, <2>2, <2>3 DEF BuyCommit
  <2>5. b \in Users /\ listing[l].seller \in Users /\ total \in Nat /\ usdc[b] >= total
    BY <2>2, <2>3, <2>4, SaleFacts
  <2>. QED
    BY <1>1, <2>4, <2>5, SettleConserves
<1>3. CASE \E x \in Users : ClaimProceeds(x)
  <2>1. PICK x \in Users : ClaimProceeds(x)
    BY <1>3
  <2>2. TypeOK /\ ClaimProceeds(x) /\ MoneyConserved
    BY <1>1, <2>1
  <2>. QED
    BY <2>2, ClaimConserves
<1>4. CASE UNCHANGED moneyVars
  <2>1. MoneyConserved' <=> Sum(usdc') + Sum(proceeds') + taxTotal' = Sum(Usdc0) + minted'
    BY ConservedNext
  <2>2. usdc' = usdc /\ proceeds' = proceeds /\ taxTotal' = taxTotal /\ minted' = minted
    BY <1>4 DEF moneyVars
  <2>3. Sum(usdc) + Sum(proceeds) + taxTotal = Sum(Usdc0) + minted
    BY DEF MoneyConserved
  <2>. QED
    BY <2>1, <2>2, <2>3
<1>5. CASE \/ SellAny \/ ReserveAny \/ BuyBeginAny \/ ReclaimAny
           \/ \E x \in Users, l \in ListingIds : CancelReserve(x, l) \/ Cancel(x, l)
           \/ \E t \in Stamps : ClearExpiredReservations(t)
           \/ \E r \in Requests : BuyAbort(r)
           \/ \E b \in Users, l \in ListingIds : ClaimItem(b, l)
           \/ \E b \in Users : ClaimAll(b)
           \/ \E x \in Users : ExpireLeases(x) \/ SyncStock(x)
           \/ \E x \in Blockable : SetBlocked(x)
           \/ Tick \/ UNCHANGED vars
  <2>1. UNCHANGED moneyVars
    BY <1>5 DEF SellAny, Sell, ReserveAny, Reserve, BuyBeginAny, BuyBegin, ReclaimAny,
                ReclaimRound, CancelReserve, Cancel, ClearExpiredReservations, BuyAbort,
                ClaimItem, ClaimAll, ExpireLeases, SyncStock, SetBlocked, Tick, vars, moneyVars
  <2>. QED
    BY <1>4, <2>1
<1>. QED
  BY <1>2, <1>3, <1>5 DEF Next

\* Whatever is sold, claimed and taxed, the players' two balances and the burnt
\* tax add up to what the players started with plus the commissions minted:
\* buy and claim_proceeds move money and lose none of it to rounding.
THEOREM MoneyOnlyMoves == Spec => []MoneyConserved
BY Inductive, InitConserved, NextConserves, PTL DEF Spec

=============================================================================
