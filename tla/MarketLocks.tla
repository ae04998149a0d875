---------------------------- MODULE MarketLocks ----------------------------
(***************************************************************************)
(* Row locks of the market's transactions. P2PMarket takes a handler as    *)
(* one step because it locks what it changes; this module asks whether the *)
(* handlers can wait for each other in a circle while they do so. A        *)
(* transaction is the list of rows its handler locks, in the order of its  *)
(* statements; the rows stay locked until COMMIT or ROLLBACK.              *)
(***************************************************************************)
EXTENDS Integers, Sequences, FiniteSets, SequencesExt

CONSTANTS
  Txs,          \* open database connections
  Users,        \* user ids: integers, the order buy sorts by
  Listings,     \* ids of active and custody rows
  Seller,       \* player_listings.user_id
  Pickup,       \* player_listings.reserved_by of a custody row, or NoUser
  Referrer,     \* who brought the user in, or NoUser
  Joined,       \* the units of a listing, in the order of their ids
  Shelf,        \* a user's units in stock, in the order sell takes them
  Overdue,      \* a user's units whose lease is due, in the order of their ids
  Units,        \* ids of item_instances
  NoUser

\* A unit is joined to one listing (player_listing_instances_instance_id_key is
\* unique) or in stock of its one owner.
ASSUME LocksAssumption ==
  /\ IsFiniteSet(Users) /\ Users \subseteq Int /\ NoUser \notin Users
  /\ Seller \in [Listings -> Users]
  /\ Pickup \in [Listings -> Users \cup {NoUser}]
  /\ Referrer \in [Users -> Users \cup {NoUser}]
  /\ Joined \in [Listings -> Seq(Units)]
  /\ Shelf \in [Users -> Seq(Units)] /\ Overdue \in [Users -> Seq(Units)]
  /\ \A l, m \in Listings : l # m => Range(Joined[l]) \cap Range(Joined[m]) = {}
  /\ \A x, y \in Users : x # y => Range(Shelf[x]) \cap Range(Shelf[y]) = {}
  /\ \A l \in Listings, x \in Users : Range(Joined[l]) \cap Range(Shelf[x]) = {}

VARIABLES
  kind,         \* handler a connection runs, "idle" outside a transaction
  held,         \* rows it has locked
  todo          \* rows it still has to lock

lvars == <<kind, held, todo>>

(***************************************************************************)
(* Rows and the order in which each handler locks them.                    *)
(***************************************************************************)
ListingRow(l) == <<"player_listings", l>>
UserRow(x)    == <<"users", x>>
GameRow(x)    == <<"game_states", x>>
StockRow(x)   == <<"stock", x>>
UnitRows(s)   == [i \in DOMAIN s |-> <<"item_instances", s[i]>>]

Actives  == {l \in Listings : Pickup[l] = NoUser}
Custodies == Listings \ Actives

\* buy: lock_ids of buyer, seller and referrer, sorted.
Payees(b, s) == {b, s} \cup ({Referrer[b]} \ {NoUser})
GameRowsAsGiven(b, s) ==                                 \* fault: not sorted
  <<GameRow(b), GameRow(s)>> \o
    (IF Referrer[b] \in {NoUser, b, s} THEN <<>> ELSE <<GameRow(Referrer[b])>>)
GameRows(b, s) ==
  LET ids == CHOOSE q \in SetToSeqs(Payees(b, s)) : \A i, j \in DOMAIN q : i < j => q[i] < q[j] IN
  [i \in DOMAIN ids |-> GameRow(ids[i])]

BuyRows(b, l) ==
  <<ListingRow(l), UserRow(b)>> \o GameRows(b, Seller[l]) \o UnitRows(Joined[l])
CancelRows(x, l) ==
  <<UserRow(x), GameRow(x), ListingRow(l)>> \o UnitRows(Joined[l]) \o <<StockRow(x)>>
ClaimRows(b, l) == CancelRows(b, l)
SellRows(x) == <<UserRow(x), GameRow(x), StockRow(x)>> \o UnitRows(Shelf[x])
ProceedsRowsReversed(x) == <<GameRow(x), UserRow(x)>>    \* fault: balance first
ProceedsRows(x) == <<UserRow(x), GameRow(x)>>
ReclaimRows(l) == UnitRows(Joined[l]) \o <<StockRow(Seller[l])>>
SweepRows(x) == UnitRows(Overdue[x]) \o <<StockRow(x)>>

Init ==
  /\ kind = [t \in Txs |-> "idle"]
  /\ held = [t \in Txs |-> {}]
  /\ todo = [t \in Txs |-> <<>>]

Begin(t, k, rows) ==
  /\ kind[t] = "idle"
  /\ kind' = [kind EXCEPT ![t] = k]
  /\ todo' = [todo EXCEPT ![t] = rows]
  /\ UNCHANGED held

BuyTx(t)      == \E b \in Users, l \in Actives : b # Seller[l] /\ Begin(t, "buy", BuyRows(b, l))
ReserveTx(t)  == \E l \in Actives : Begin(t, "reserve", <<ListingRow(l)>>)
ProceedsTx(t) == \E x \in Users : Begin(t, "proceeds", ProceedsRows(x))
CancelTx(t)   == \E l \in Actives : Begin(t, "cancel", CancelRows(Seller[l], l))
ClaimTx(t)    == \E l \in Custodies : Begin(t, "claim", ClaimRows(Pickup[l], l))
SellTx(t)     == \E x \in Users : Shelf[x] # <<>> /\ Begin(t, "sell", SellRows(x))
SweepTx(t)    == \E x \in Users : Overdue[x] # <<>> /\ Begin(t, "sweep", SweepRows(x))

Waits(t, u) == t # u /\ todo[t] # <<>> /\ Head(todo[t]) \in held[u]
Waiting(t) == \E u \in Txs : Waits(t, u)

UnheldAny(r) == TRUE                                     \* fault: no FOR UPDATE
Unheld(r) == \A u \in Txs : r \notin held[u]

\* SKIP LOCKED: the listing is taken at once or not visited.
ReclaimTx(t) == \E l \in Actives :
  /\ kind[t] = "idle"
  /\ Unheld(ListingRow(l))
  /\ kind' = [kind EXCEPT ![t] = "reclaim"]
  /\ held' = [held EXCEPT ![t] = {ListingRow(l)}]
  /\ todo' = [todo EXCEPT ![t] = ReclaimRows(l)]

Lock(t) ==
  /\ todo[t] # <<>> /\ ~Waiting(t)
  /\ held' = [held EXCEPT ![t] = @ \cup {Head(todo[t])}]
  /\ todo' = [todo EXCEPT ![t] = Tail(@)]
  /\ UNCHANGED kind

Release(t) ==
  /\ kind' = [kind EXCEPT ![t] = "idle"]
  /\ held' = [held EXCEPT ![t] = {}]
  /\ todo' = [todo EXCEPT ![t] = <<>>]

Commit(t) == kind[t] # "idle" /\ todo[t] = <<>> /\ Release(t)

\* A failed check, a lost connection: at any time.
Rollback(t) == kind[t] # "idle" /\ Release(t)

\* set_market_tx_timeouts, set_buy_tx_timeouts; a player read sets none.
LockTimeoutOfBuy(k) == k = "buy"                         \* fault: the others forgot it
HasLockTimeout(k) == k # "sweep"
LockTimeout(t) == Waiting(t) /\ HasLockTimeout(kind[t]) /\ Release(t)

BuyOnlyNext == \E t \in Txs :
  \/ BuyTx(t) \/ ReserveTx(t) \/ ProceedsTx(t)
  \/ Lock(t) \/ Commit(t) \/ Rollback(t)

Next == \E t \in Txs :
  \/ BuyTx(t) \/ ReserveTx(t) \/ ProceedsTx(t) \/ CancelTx(t) \/ ClaimTx(t)
  \/ SellTx(t) \/ SweepTx(t) \/ ReclaimTx(t)
  \/ Lock(t) \/ Commit(t) \/ Rollback(t) \/ LockTimeout(t)

\* Postgres queues the waiters of a row, so a lock that is free again and
\* again is granted. Nothing makes a rollback happen.
Progress == \A t \in Txs : SF_lvars(Lock(t)) /\ WF_lvars(Commit(t))
Timeouts == \A t \in Txs : SF_lvars(LockTimeout(t))

BuySpec == Init /\ [][BuyOnlyNext]_lvars /\ Progress
Spec == Init /\ [][Next]_lvars /\ Progress /\ Timeouts

-----------------------------------------------------------------------------
TypeOK ==
  /\ kind \in [Txs -> {"idle", "buy", "reserve", "proceeds", "cancel", "claim", "sell",
                       "sweep", "reclaim"}]
  /\ \A t, u \in Txs : t # u => held[t] \cap held[u] = {}

Circle(D) == D # {} /\ \A t \in D : \E u \in D : Waits(t, u)

\* Transactions never wait for each other in a circle, so that no request is
\* killed as a deadlock victim (DECISIONS.md 34: the order of the locks of
\* the P2P transactions is deterministic "to avoid deadlock").
NoDeadlock == \A D \in SUBSET Txs : ~Circle(D)

\* With the code's own order of locks every circle goes through a buy (it
\* holds the listing first, the others the account), or through a sweep or a
\* reclaim (units before stock, sell has the stock first): sell, cancel, claim
\* and claim_proceeds alone cannot deadlock.
CirclesAreKnown ==
  \A D \in SUBSET Txs : Circle(D) => \E t \in D : kind[t] \in {"buy", "sweep", "reclaim"}

\* Every transaction comes to an end.
EveryTxEnds == \A t \in Txs : []<>(kind[t] = "idle")
=============================================================================
