# Genesis Miner: TLA+ models and proofs

Genesis Miner is a browser mining game: players place machines in racks, earn
coins for the time the machines run, trade machines with each other and withdraw
what they earned. The economy lives in the Rust crates under `src/rust` over one
PostgreSQL database and one Redis. This directory holds TLA+ modules of that
economy, the TLC configurations that check them, and TLAPS proofs of the results
that matter most. Paths below are relative to `src/rust` unless they begin with
`docs/`, `server/` or `client/`. The Express server under `server/` is the older
implementation of most handlers and still runs some of them; where its twin of a Rust
handler does the same, `PROJECT.json` maps to whichever is the clearer source, and
section 5 lists where they differ.

## 1. Inventory

| component | state | operations | modelled in |
|---|---|---|---|
| P2P market (`genesis-hardware/src/market`, `p2p.rs`) | `player_listings`, `player_listing_instances`, `item_instances`, `stock`, `game_states.usdc` and `black_market_balance`, `p2p_market_buy_idempotency`, trade history | sell, reserve, cancel-reserve, cancel, buy, claim-item, claim-all, claim-proceeds, reclaim of expired listings, clearing of expired reservations | `P2PMarket`, `UnitEscrow` |
| market locking (same files) | row locks of open transactions | the `FOR UPDATE`s of each handler, in order; lock timeouts | `MarketLocks` |
| item instances and leases (`leases.rs`, `instances.rs`) | `item_instances.status`, `player_asic_leases`, `stock.qty` | sweep of overdue units on a page read; recount of the stock | sweep in `P2PMarket`; removal of a due machine from its rack in `MiningCredit` |
| mining progress (`genesis-mining-worker/src/progress.rs`, `redis_lock.rs`, `genesis-core/src/mining`) | `game_states.last_updated_at`, `coin_balances`, `mining_block_history`, `mining_progress_commit_ledger`, the Redis lock of a player | `compute_progress_for_user`: acquire, read, commit or refuse, release | `MiningCredit` |
| yield tick (`yield_tick.rs`) | `mining_yield_history`, `app_cache.network_stats`, the checkpoint of the process | hydrate, catch up, insert boundaries, retention | `MiningCredit` |
| manager payout (`gerente_payout.rs`) | `account_manager_mining_accrual`, `account_manager_payout_ledger` | pay the closed weeks of an owner | `MiningCredit` |
| manager contracts (`server/modules/gerente`, `gerente/manager.rs`) | `account_manager_contracts`, the flags of `sessions` | hire, apply, accept, decline, fire, dismissal by the support, resign, enter, leave; impersonation by an administrator | `ManagerContracts`, `ContractLife` |
| daily check-in (`player_reads/checkin.rs`) | `last_checkin_at_ms`, streak, rewards | perform | clock and freeze in `MiningCredit` |
| wallet (`genesis-wallet/src`) | `game_states.usdc`, `coin_balances`, `withdrawal_requests`, `user_deposit_history`, `wallet_idempotency`, quest claims | withdraw, complete or reject, deposit, exchange, quest claim, corrections by an administrator | `Wallet` |
| hardware intents (`genesis-hardware/src/http.rs`, `intent_idem.rs`, `persist.rs`, `post_apply.rs`, `server/modules/hardware`) | `placed_racks`, `rack_slots`, `stock`, `player_asic_leases`, stored answers | place, remove, equip, unequip: load, apply a rule, move leases, write everything back | `HardwareIntents` |
| purchases (shop, upgrades, merge, wheel, boxes, rooms) | balances, stock, grants, idempotency rows | buy, merge, spin, open | their effects only: `Bump`, `Credit`, `CreditLease`, `Spend` |
| auth (`genesis-auth/src`) | refresh tokens, sessions | login, register, refresh, revoke | the flags of a session, in `ManagerContracts` |
| API gateway, chat, background jobs, admin reads, client | none of the economy's own | proxying, broadcast, backup, reports, pages | not modelled (section 7) |

**How they interact.** All handlers meet in a few rows: `game_states` of a player
(balance and mining cursor in one row), `stock` and `item_instances` (the market,
the lease sweep, the purchases and the racks write them), and the listing rows. A
mutation is a PostgreSQL transaction that locks its rows; a *read* of a page is not
harmless: reading the dashboard runs a mining credit, reading the rooms runs the
lease sweep, reading the market book clears reservations and starts the reclaim. The
mining worker adds cron jobs (yield tick, manager payout) to the same rows.

**What is hard.**

- Values read before the row lock that protects them: the idempotency key of a buy,
  the clock of a reservation or deposit, the stock count of a sweep, the cursor and
  the whole setup of a mining pass.
- Two lock orders: buy takes the listing first, cancel and claim the account first;
  sell takes stock before units, the sweep units before stock.
- The Redis lock of a mining pass has a time to live; only the transaction's checks
  keep two passes apart once it ran out, or when Redis is not configured.
- One moment of play can be reached by several credits (passes, the cursor written by
  a dozen other handlers, the 72-hour clamp), and must be paid once.
- The yield tick may be cancelled between an insert and its checkpoint, restarted with
  the process, or far behind.
- An intent writes back the whole copy of racks and stock it loaded without a lock.
- Nothing but the code's own checks gives an owner a single manager: contracts have no
  unique index, a session is written by another process in another transaction, and two
  features keep the way home in one column.
- A withdrawal, its retry, a sale, an administrator's correction and a settlement take
  coins from one row.
- A listed unit can expire inside the listing, inside custody, or between two partial
  sales of its line.

`PROJECT.json` lists these at their lines ("hazards") with the properties that would
catch them.

**What makes each modelled part correct.** Market: a unit is in at most one place and
changes hands only to the user it is owed to; quantities, joins and stock agree; money
is neither made nor lost; a request is charged once; a reservation is respected; what
was sold can be redeemed. Locks: every transaction ends, and no circle of waits.
Intents: nothing comes into being unbought, nothing running is lost while nothing was
overtaken, counts and slots agree with the lease rows, a key applies once. Contracts: a
row lives one life, an owner has one manager, a session acts for somebody only by
contract and finds its way home. Wallet: the books balance and nothing takes effect twice.
Mining: a moment is paid once; the balance is what the history lists; the open block
is not paid; a paid week stays closed; no boundary of the yield history is skipped;
what was earned is paid.

## 2. Modules

| module | role |
|---|---|
| `UnitEscrow` | abstract: a unit is free, offered by its holder, or owed to one buyer |
| `P2PMarket` | the market and the lease sweep, one catalogue item; implements `UnitEscrow` (`EscrowSpec`) |
| `MarketLocks` | the row locks of the market's transactions |
| `MiningCredit` | credit passes, yield tick, weekly payout and the handlers that write the cursor |
| `ContractLife` | abstract: the life of a contract row and its time lock |
| `ManagerContracts` | contract rows, the requests over them, and the sessions that act for others; implements `ContractLife` (`LifeSpec`) |
| `HardwareIntents` | one player's racks, slots, leases and stock under concurrent intents |
| `Wallet` | coins, USDC, withdrawals, deposits, sales and rewards of the players |
| `MC...` | small instances for TLC, one for each module that is run |
| `FiniteSums` | sums over finite sets: what one element, or a set of new ones, adds |
| `P2PMarketProofs` | types, rows and joins, keys, reservations, stock counts and money of the market; it implements the escrow and delivers custody |
| `MarketLocksProofs` | no circle of waits among buys, none among the other handlers |
| `MiningCreditProofs` | types, paid once, balance and history, open block unpaid, paid weeks closed, no hole in the yield history |
| `ManagerContractsProofs` | types, the refinement, one manager, the lock on firing, the way home |
| `HardwareIntentsProofs` | types, nothing minted, counts follow the leases, one application for each key |
| `SlotsLeasesProofs` | slots and leases agree until an intent overwrites a commit; an undisturbed intent conserves |
| `WalletProofs` | types, the books, nothing twice, the least withdrawal, who may bring a balance below zero |

### P2PMarket

A transaction that locks a row before it reads it is one action. The three places
where the code reads first are separate actions: `BuyBegin` (lookup of the idempotency
key) and `BuyCommit`/`BuyAbort`; `ExpireLeases` (mark due units, count stock) and
`SyncStock` (write the count); and handlers whose clock is older than their update take
a time `t` from `Stamps`, at most `MaxLag` behind.

| variables | tables |
|---|---|
| `owner`, `ustatus` | `item_instances.user_id`, `.status` |
| `join` | `player_listing_instances` |
| `listing` | `player_listings` (a custody row has status `awaiting_pickup` and its buyer in `reserved_by`) |
| `stockQty`, `sweep` | `stock.qty`; the units and the count an open sweep holds |
| `usdc`, `proceeds` | `game_states.usdc`, `.black_market_balance` |
| `idem`, `request` | `p2p_market_buy_idempotency`; buys between lookup and lock |
| `taxTotal`, `minted`, `charges` | tax in the trade history; observers of commission and charges |

A rejected request changes nothing and is not an action; `BuyAbort` is one because it
ends a request that is under way. Prices are integers and the percentages are applied
with integer division, where the code uses floating point.

### MarketLocks

A transaction is the sequence of rows its handler locks (`BuyRows`, `CancelRows`, ...);
`Lock` takes the next row when nobody holds it, `Commit` and `Rollback` release all,
`LockTimeout` ends a waiting transaction that set a lock timeout (the sweep does not).
It carries no data: it is the companion of `P2PMarket`, which takes handlers as atomic
because of these locks. Who sells what stands still in it (`Seller`, `Joined`, `Shelf`,
`Overdue` are constants): `LocksAssumption` asks that a unit is joined to one listing, which
the unique index `player_listing_instances_instance_id_key` enforces, or in stock of its one
owner, and nothing of the overdue units, which may also be listed ones.

### MiningCredit

A pass of `compute_progress_for_user` is `Acquire` (clock, Redis `SET NX EX`),
`ReadState` (cursor, coin, fallback yield), `ReadSetup` (history, racks, leases: the
rows it would pay), `Commit` or `Refuse` (the transaction), `Release`; `ReadNothing` is
the early return. `LockExpires` is the key's time to live, `Crash` loses the process
but neither Redis nor the database. A yield tick is `TickBegin`, one `TickBoundary` for
each missing boundary, `TickEnd`, and `TickTimeout`, which may fall after the insert and
before the checkpoint. `PayWeek` is `pay_one_row`. `Bump` stands for each handler that
sets `last_updated_at` to its own clock without crediting; `CheckIn`, `LeaseSweep`,
`PowerSwitch`, `SwitchCoin`, `SetBlocked` are the other writers of what a pass reads.

Rows of `mining_block_history` are records `[start, end, amount]`. `reopened` is an
observer: when a handler moves the cursor back (its clock was read before a credit
committed), it records how often the moments from there on had been paid.

The checkpoint of the ticks starts at 0 and not `hydrated`, also after a `Crash`: the first
tick takes it from the newest row of the table. When that query fails, the tick goes on with
the checkpoint it has and the next one tries again. `skipped` is an observer: the boundaries
a tick without a checkpoint went past, see below.

What the model abstracts: one coin and one machine per player with hash 1, so an amount
is yield times time; the manager's 5 % is counted as the whole amount (the factor
changes no property); one yield tick at a time (its own Redis lock); the network hash
and the history hydration are read in one step; contracts are fixed (`Manager`); a
machine that was taken out of its rack is not put back; the premium check-in is left out.

Behaviour worth knowing that the model shows and no property judges:

- an absence longer than 72 hours moves the cursor to `last + 72 h`, so the remainder
  is paid by the next call, in windows that start off the grid;
- the fallback yield is used whenever the history earns nothing over the interval, also
  when the history is complete and says zero;
- a pass that read its clock in a week that was paid out before the pass committed
  loses the manager's share silently (`progress.rs:1276`); `PaidWhatAccrued` says the
  books stay right, not that the share arrives.

- at the first boot on an empty table a tick may be cancelled between its insert and its
  checkpoint (`yield_tick.rs:363`, `430`); the next tick then starts at the newest
  boundary, and those in between are never written.
  `server/modules/mining-engine/services/yield-cron.ts` stores the checkpoint with the
  commit and has no such gap;
- when the query for the newest row fails, the code only warns (`yield_tick.rs:435-437`,
  `yield-cron.ts:78-81`) and the tick starts from checkpoint 0: it writes the newest
  boundary alone, and the next tick, hydrated or not, goes on from there. The boundaries
  after the last row before the restart stay without a rate.

`NoYieldGap` excepts the boundaries of these last two (`skipped`) and no other.

### ManagerContracts

Contract rows are the four functions `owner`, `manager`, `status`, `fireLockedUntil`; a
login session is its flags (`user_id`, `original_user_id`, `manager_mode`,
`acting_as_owner_id`). A request is a record with the step it is at and what it has read.
Statements that commit at once are one step. An UPDATE of many rows is several: under READ
COMMITTED it finds its rows as it starts, then waits for each and looks at it again, so
`ClearApplications` and `EndCompeting` note the rows (`todo`) without waiting, and `TakeRow`
takes them one at a time. `hireManager` is `Hire` (the check), `ClearApplications`, `TakeRow`
and `HireInsert`; `acceptContract` is `Accept` (row locked, owner free), `EndCompeting`,
`TakeRow` and `AcceptCommit`; `declineContract` reads without a lock (`Decline`) and writes by id
(`DeclineUpdate`); `fireManager`, `adminFireManager` and `resignManager` lock and mark the
row, let the auth worker send the sessions home (`RestoreSessions`, committed at once by
another process) and commit (`EndCommit`). Entering is `Enter`, `LoadForEntry`,
`EnterUpdate`; leaving and the administrator's impersonation are a load and a write each.
`Abort` cuts any request off: what the auth worker wrote stays. `LockTimeout` ends a
transaction that waits for a row. `StartImpersonate` asks only that the session's user is an
administrator, as the live route does (section 5).

Uncommitted changes of a transaction are kept in its request (`rivals`, `until`) and
become visible with the commit, which is what READ COMMITTED shows to the others.
`late`, `overtaken` and `nested` are observers that name the races behind the exceptions of
`OneManager`, `StrandedOnlyByRace` and `KnowsWayHome`: a row committed after an acceptance
noted its competitors, an entry or decline overtaken before its write, a session that began
to impersonate inside another account or to enter one while impersonating. Left out: the
manager's share, texts, the expiry of sessions, and the JWT cookies that are issued beside
the session row: whoever calls is taken to be the session's user.

### HardwareIntents

One player with permanent machines and chassis (quantities) and machines with a
validity (rows of `player_asic_leases`). `Begin` is the first half of `post_intent`:
key not known, overdue leases swept inside the transaction, stock and racks loaded into
`copy`. Each of `EquipPermanent`, `EquipTimed`, `Unequip`, `Remove`, `Place` is the rest:
the pure rule of `genesis-core/src/hardware/intent.rs` on the copy, the lease moves of
`post_apply.rs`, and `Save`, which is `persist_hardware` (reconcile leases to the claimed
quantity, recount, write racks and slots) with the idempotency row and the commit. Which
intent a request is matters only when it is applied, so it is chosen there. What the
transaction has swept (`swept`) is locked until it ends; the sweep, credits and listings
of machines with a validity wait for it. A commit of another transaction counts as
`behind`; `overwritten` records that an intent was saved over one.

A commit that falls between the lease moves and the write-back is treated as one that
falls before both; the slot and stock writes of the lease moves are overwritten by the
write-back and therefore not modelled. `item_instances` mirrors the leases. The market is
reduced to `List` and `Sold`, purchases to `Credit` and `CreditLease`. An administrator's save
may create leases and comes in two forms: `AdminMerge` is one with a typed quantity only;
`AdminOpen` loads the page, which is a copy like an intent's with the key `Page`, and
`AdminSave` writes it back any time later, with racks deleted from it (their contents are
added to the page's stock) and quantities typed over. `RevokeRooms` is the change of a
player's rooms: the racks of revoked rooms are left out of what it has loaded, and
`apply_dismantled_recovery` adds what is missing to the stock it reads anew. Both end in
`persist_placed_racks` (`PersistPage`), which releases no lease of a rack that vanishes: such
a rack becomes `taken`. Left out of the page: moving a rack to another room, and slots
rewritten one by one, which the editor does not offer. Batteries, wiring and multiplier
slots follow the permanent machine's pattern and are left out.

### Wallet

A mined coin and USDC. Each operation is `...Asked` (the locks it takes and what it
reads under them) and `...Committed`; `Abort` ends it in between. `holds` are the locked
rows: the user's row serialises a player's withdrawals, sales and deposits; an advisory
lock stands before each key and each chain transaction; a settlement is protected by the
lock on the request alone, since its update tests no status. `Clamped` is the cut of a
request slightly above the balance, after the minimum was compared, with the tolerance of
1e-9 that the code allows (`Tolerance`, `withdraw.rs:443`). An administrator's amount need
only be finite (`admin_balances.rs:56-61`, its test at line 307; `admin_wallet_ops.rs:82-98`
forwards it unchecked), so `AdminSet` and `AdminSave` take amounts of either sign and
balances are integers; `AdminBulk` cuts at zero as the statement does. `Earn`, `Spend`,
`AdminSet`, `AdminSave` and `AdminBulk` are what else changes the two balances; the
observers `given` and `times` count it and how often each key, deposit, quest and request
took effect. Fees are part of the amount. Left out: reading the chain, the cooldown,
advertising and referral credits (increments under a unique key, like a deposit).

## 3. Runs

Times are for two workers.

| run | instance | shows |
|---|---|---|
| `market_trade` | 2 users, 3 units, 3 listings, 2 requests with one key; 79 thousand states, 50 s | escrow, joins, quantities, custody, stock, money, idempotency through sales, partial sales and claims; `P2PMarket` implements `UnitEscrow` |
| `market_book` | 3 users, 2 units with different lease ends, 3 listings, a legacy listing with a TTL, a moving clock, a user who gets blocked; 310 thousand states, 75 s | reservations are honoured by handlers with old clocks; units that expire inside a listing or in custody |
| `market_stock_drift` | 2 users, no buys | **violated**: the sweep overwrites `stock.qty` with a stale count |
| `locks_buy` | 3 connections, 3 users, 2 listings, crosswise buys; 23 thousand states | sorted `game_states` locks: no circle, everything ends without timeouts |
| `locks_all` | 3 connections, 2 users, 3 listings, every handler; 75 thousand states | every circle of waits contains a buy, a sweep or a reclaim; timeouts end every transaction |
| `locks_deadlock` | 2 connections | **violated**: a buy and a cancel of one listing wait for each other |
| `mining_credit` | a miner and his manager, 2 passes, 5 ticks of the clock, 2 bounded events; 810 thousand states, 70 s | paid once, balance equals history, open block unpaid, paid weeks closed |
| `mining_yield` | 1 pass, four boundaries, catch-up of 2, retention and a lease that ends within the run, 2 bounded events, of which a failed query for the checkpoint is one; 1.34 million states, 60 s | a gap in the yield history only where a process had no checkpoint; types |
| `manager_contracts` | 2 owners, 2 who may manage, of whom one administers, 2 sessions, 3 contract rows, 2 requests at a time; 633 thousand states, 75 s | contract rows implement `ContractLife`; a second contract or a stranded session only by the named races; the way home |
| `hardware_intents` | 2 intents or pages at a time, 2 leases, 2 racks with a slot, a retried key; 458 thousand states, 95 s | nothing minted, counts and slots agree with leases, one application for each key, conservation |
| `wallet_books` | 2 players, 2 requests, a deposit both may claim, a key, 2 transactions at a time, a debt of one; 432 thousand states, 150 s | the books balance, nothing twice, the least withdrawal |
| `mining_owed` | 1 pass | **violated**: a handler moves the cursor over earned, uncredited time |

**Bounds.** `market_trade`: three units give a line of three, a partial sale that leaves
two, and a second partial sale; two requests suffice for a race on a key, and a third
adds only repetitions of the lookup. The clock stands still there (`MaxTime = 1`)
because time is `market_book`'s subject, whose four ticks cover a reservation that
starts, ends and is renewed (`ReserveWindow = 2`), lease ends at 2 and 4, and a TTL at 3,
each with a handler one tick late. `locks_*`: a circle of three connections is the
shortest that needs sorting with a referrer; longer ones would need as many buys of one
another's listings. `mining_credit`: `Grid = 2` and `MaxWindow = 2` from a cursor of 1 make the clamp
of an absence happen and leave the cursor inside a block, `WeekLength = 5` lets a week
close, and two passes are what an expired lock lets in; `MaxEvents = 2` admits every pair
of an expired lock, a crash, a cancelled tick and a handler's write. `mining_yield` has four
boundaries (every tick of its clock is one), a catch-up limit of two, so a tick leaves a
remainder to the next one, a retention of two, so old rows are deleted, a day of one, so
mining freezes for want of a check-in, a machine whose lease ends, and a restart or a cancelled tick in the middle of
any of it. `manager_contracts`: two requests
at a time are what every race in this code needs (an answer against an answer, an entry
against a dismissal), a third one only lengthens it; one administrator who is also an
owner and a manager makes impersonation and management meet in one session; the clock
has the two sides of the time lock. Three contract rows let an application be committed while
an acceptance waits for another one. `Bounded` of `MCManagerContracts` keeps the third row to one owner,
with every session at home, and lets one session nest accounts at a time, with one contract:
contracts and nesting meet only in what a session remembers. `hardware_intents`: two racks allow a swap and a
removal beside a mounted rack, two leases let one be in a slot and one in stock, listed or
over; `Duration = MaxTime = 1` makes a lease end between load and write. `MaxBehind = 1`
lets one commit fall inside an intent, and `MaxAfter = 1` keeps a single intent at a time
once one has overwritten another, because from then on only `NothingMinted`,
`StockMatchesLeases` and `KeyAppliesOnce` still say something; without it the states of two
more overlapping intents are explored for the same three. `Bounded` of `MCHardwareIntents` allows one
administrator's page at a time, beside intents without a retried key, before anything was
listed and before a copy has overwritten a commit: what a page may do to listings is what
`AdminMerge` and an intent do to them, and the rest is explored without a page; it also bounds
the permanent items by three. `wallet_books`: a minimum of three coins with a tolerance of one and
a rounding of one lets a request of two pass and be cut to one, `MaxDebt = 1` is a balance below
zero (`Bounded` of `MCWallet`: one account at a time), `NetUsdc` refuses a single coin as
the desk does, and one key with two transactions is a retry that overlaps. Symmetry is used for listing
identifiers, keys, requests, passes, leases, racks, transactions and the wallet's players, of which the specifications distinguish none; runs
with liveness use none. Deadlock is checked in every run but `manager_contracts`, which may
end with all contract rows used and all sessions at home, and `hardware_intents`, where lease
and rack identifiers run out.

**Fairness.** Only `MarketLocks` has liveness properties. `Lock` is strongly fair because
PostgreSQL queues the waiters of a row, so a row that is released again and again is
granted; `Commit` is weakly fair because a handler that holds all its rows runs to its
end; `LockTimeout` is strongly fair because the timer of a waiting statement fires.
`Rollback` has none: nothing makes a check fail. `BuySpec` has no timeouts at all.
The other modules have no fairness: a player may never come back, and what they promise is
promised of every state and step.

## 4. Properties

Besides one type invariant for each module:

- `JoinsMatchUnits`, `QtyMatchesJoins`, `CustodyHasBuyer`: the three tables of a listing
  agree after any series of sales, partial sales, expiries, cancels and reclaims.
- `KeyChargesOnce`: requests that both missed the key's row charge once.
- `MoneyConserved`: what the buyer pays is what seller and tax get, plus the minted
  commission.
- `StockMatchesUnits`: `stock.qty` counts the stock units. It holds while no lease ends
  (`market_trade`) and fails with the sweep (`market_stock_drift`).
- `CustodyRedeemable`, `CustodyGoesToBuyer`: what was sold can be claimed, and leaves
  custody only to its buyer, whole.
- `ReservationHonoured`: while a reservation runs, only its holder changes the line.
- `EscrowSpec`: refinement of `UnitEscrow`, with `phase` and `creditor` of a unit read off
  its join.
- `NoDeadlock`, `CirclesAreKnown`, `EveryTxEnds`.
- `CreditedOnce`: a moment is covered by at most one paid row, plus one more for each
  time a handler moved the cursor back behind it.
- `BalanceIsHistory`: a balance is the sum of the user's rows and of the shares paid to
  him as a manager.
- `OnlyClosedBlocks`, `PaidWhatAccrued`, `OwedIsCredited`. `NoYieldGap`: a boundary between
  two rows has its row, unless a tick without a checkpoint went past it.
- `LifeSpec`: contract rows refine `ContractLife`. `FireLockKept`: within the first days
  only the manager, the support, or a decline that had read the row before its
  acceptance ends a contract.
- `OneManager`: two active contracts of one owner need a request committed after the other's
  acceptance had started the statement that ends the competing ones.
- `StrandedOnlyByRace`: a session inside an account has a contract, or was overtaken
  between check and write. `KnowsWayHome`: the way back of every session, an
  administrator's included, survives every order of entries, hops, impersonations, leaves and
  forced returns, unless the session nested one account in another.
- `NothingMinted`, `KeyAppliesOnce`: hold whatever is overwritten.
  `StockMatchesLeases`, `SlotsMatchLeases`: hold outside the named exceptions (an overdue
  unit sold or not swept yet; an overwritten commit; a rack that was replaced or taken away by
  an administrator).
  `UndisturbedConserves`: an intent nothing overtook neither creates nor loses anything.
- `BooksBalance`: a player's coins and USDC are what was given less what is requested,
  paid or sold. `NothingTwice`: keys, deposits, quests and settlements take effect once.
  `RequestNearMinimum`: a request is below the minimum by no more than the tolerance of its
  check and the rounding of the clamp.

## 5. Disagreements with the repository's own words

1. `market_stock_drift`: `sync_timed_asic_stock_for_item` counts and then writes
   (`leases.rs:200-219`) without locking the stock row first, on a page read. A sell,
   cancel or claim that commits in between is overwritten. `instances.rs:3` calls
   `stock.qty` the denormalised count.
2. `locks_deadlock`: `docs/architecture/DECISIONS.md:1216-1224` says the lock order of
   these transactions is deterministic (`[buyerId, sellerId, referrerId].sort()`) to avoid
   deadlock, "a mitigação real contra duas compras concorrentes do mesmo referrer". For two
   buys it is that (`locks_buy`); it is no order of the transactions among each other, since
   a buy and a cancel of the same listing can wait for each other. The
   lock timeouts end such a wait (`EveryTxEnds` in `locks_all`).
3. `mining_owed`: `docs/analysis/motor-mineracao-2026-09-09.md:76-79` says the next visit
   covers the whole hole since the last one. Handlers that write `last_updated_at`
   without crediting make the next pass start at their clock.

The following were met while modelling and are stated by no run of their own; where a
property has an exception, it is one of these.

- `intent_idem.rs:4` says "Do **not** lock `game_states` here — Node already holds
  `FOR UPDATE` on that row", but the gateway (`genesis-api/src/player.rs:3130-3240`) sends
  intents straight to the worker, so nobody holds it and the intents of one player are not
  serialised. The last writer wins: a permanent machine that was sold or listed meanwhile
  reappears, a lease credited meanwhile is trimmed by a stale quantity, a slot can point at
  a lease that is over or that another slot has too.
- `persist_hardware` of the Rust worker does not release the leases of racks that vanish,
  as `server/modules/hardware/services/persistence.ts:214-225` does: when a rack is placed
  over another, the machines of the old one stay `equipped` on it until they end.
- Selling a unit whose lease is over but unswept leaves `stock.qty` one too low
  for the next reconciliation, which may then trim a running lease (`soldOverdue`).
- `releaseEquippedAsicLeaseById` (`asic-lease.ts:555`) updates by id without a status, so a
  slot that points at a listed unit returns it to stock.
- `declineContract` (`manager.ts:261-288`) reads without `FOR UPDATE` and can end a contract
  that was accepted in between, in spite of its time lock. Two acceptances with a request
  committed between them leave two active contracts (no unique index,
  `prisma/schema.prisma:839`); the UPDATE that ends the competing ones (`manager.ts:80-88`)
  does not see a row that commits while it waits for another one.
- `enterManagedAccount` (`manager.ts:618-654`) checks the contract before it writes the
  session, so a dismissal in between leaves a session inside.
- `original_user_id` has room for one user, and two ways nest accounts and overwrite it: an
  administrator's session that impersonates and then enters a managed account, and one that
  starts to impersonate from inside another account. `server/modules/gerente/services/guard.ts:15-17` lists the routes that are
  allowed "quando sessions.manager_mode = 1", and impersonation is not among them, but that
  guard runs in Express only: the live route `/api/admin/impersonate`
  (`genesis-api/src/admin_users.rs:1066-1108`) goes through `require_admin`
  (`admin_auth.rs:470-523`), and neither it nor the worker
  (`genesis-mining-worker/src/admin_users/impersonate.rs:43-97`) looks at `manager_mode`. So a
  manager inside the account of an administrator can impersonate; `KnowsWayHome` excepts the
  sessions that nest.
- `persist_placed_racks` releases no lease either when an administrator deletes a rack or
  revokes the room it stands in. The editor says the equipment goes back to stock as well
  (`client/src/features/admin/users/ui/AdminUsersPage.tsx:1155`); what goes back of a machine with a
  validity is a count, for which the save creates a new lease, and the revocation of a room
  creates none. The old lease stays `equipped` on a rack that is not there.
- A failed query for the newest yield row leaves boundaries without a rate for good (section 2,
  `MiningCredit`), although its warning says "retry next tick": by then the checkpoint is the
  newest boundary, and the hydration finds the same row.
- A balance an administrator set below zero, within the rounding of a withdrawal, lets the clamp
  produce a request below zero when the minimum is that small (`withdraw.rs:473-488` tests only
  the difference). `DebtOnlyByCorrection` names the settlement of such a request.
- `deposit_verify.rs:33-36` tells the player that the USDC are credited automatically and the
  page may be closed. No code reads the queued row (`deposit_pending:`); only the page's own
  tries (`client/src/features/wallet/ui/WalletPage.tsx:254-275`) or the button credit it.
- `WalletPage.tsx:184` and `:308` make a new key for each click: keys protect one request's
  repetition, not a second click after a lost answer.

Two remarks of the documents are narrower than the code: the 72-hour clamp does not
discard the remainder, it leaves it to the next call (the same document, line 104, and
`DECISIONS.md:845`); and the idempotency of credits (its line 180) is per cursor, so a
handler's older clock can reopen a paid moment, which is why `CreditedOnce` counts
`reopened`.

## 6. Proofs

All theorems hold for every value of the constants that satisfies the module's
assumption (`MarketAssumption`, `MiningAssumption`, ...); the assumptions are evaluated by
TLC on each instance. `tlapm <module>.tla` checks them.

**Market.** `IInv` of `P2PMarketProofs` is the conjunction of `TypeOK`, `JoinsMatchUnits`,
`QtyMatchesJoins`, `CustodyHasBuyer` and `KeyChargesOnce`, all checked by TLC first. None
is inductive alone: that a balance stays natural needs a positive quantity, which needs
joins and quantities to agree; that a cancel returns all its units needs the joins to
belong to the seller. The steps fall into frames, each with a lemma: reservations touch
only the row (`ReservationFrame`), cancel, reclaim and claims drop rows with their joins
(`DropFrame`), and sales, where a partial sale splits a line (`PartialSaleStep`).
Theorems: `TypeCorrect`, `EscrowConsistent`, `ChargedOnce`, `SoldIsRedeemable`. From `IInv`
follows that every step is a step of `UnitEscrow` or a stutter (`ImplementsEscrow`) and that custody ends in delivery (`CustodyDelivered`).
`ReservedForHolder` adds that a row for sale has a price and its reservation a holder
(`RowsSound`): without the first a part of the line could change hands for nothing, without
the second buy and cancel would not see the reservation. It uses that nobody is his own
referrer, which `profile_writes/referral.rs:154` refuses. `CountsDriftBySweepOnly` shows that
`stock.qty` is exact (`CountExact`) where no unit has a validity; `market_stock_drift` shows
that with validities the sweep breaks it.

**Mining.** `IInv` of `MiningCreditProofs` says, of a pass that is ready to commit, that its
rows tile the interval from the cursor it read to its end (`Tiles`: each moment in at most
one row, none outside), and of a player, that a moment before the cursor was paid at most
once more than handlers reopened it, and a moment from the cursor on no more often than
that (`CoverInv`). `WindowsTile` and `RowsTile` derive the tiling from the cuts at the grid;
`CommitStep` needs only the cursor comparison inside the transaction. The proof cites neither
the Redis lock nor the ledger nor the history check: `PaidOnce` therefore holds with
`LocksEffective = FALSE` and for any number of passes. `OpenBlockUnpaid` adds that grid
times grow with the clock (`GridMonotone`). `PaidWeekIsClosed` has an invariant of its own
(`WeekInv`), since it needs only the shape of the two tables.

`NoBoundarySkipped` rests on `YieldInv`: whatever lies below a row is `Settled` (it has its
row, or a tick without a checkpoint went past it, or it is before the first row), and so is
everything up to the checkpoint of the process, beyond which at most the next boundary has a
row, left by a cancelled tick (`CheckpointInv`). A tick without a checkpoint knows nothing of
the rows but that its boundary is after all of them, and records what it goes past
(`InsertSettles`); a new process that hydrates starts from the newest row, so the invariant
starts anew; the purge only cuts off a prefix (`PurgeSettles`). That the newest row exists is
the well-foundedness of the naturals (`Greatest`).

**Contracts.** `ManagerContractsProofs` shows that a row locked by a transaction keeps the
status its holder has read, from which `ContractsLive` (the refinement of `ContractLife`),
`FireLockIsKept` and `OneManagerAtATime` follow; the last needs that of an acceptance past
`EndCompeting` every open rival is held by it, still to be taken (`todo`), or `late`. `OnlyRacesStrand` (a session inside an account has
a contract, or was overtaken) is not inductive alone: `AllBacked` adds that the contract
behind such a session is not about to be ended by a transaction that has already sent the
sessions home, and that a session inside remembers its original account. `WayHome` has an invariant over
the requests about sessions: what each has read, and still may write, is a legal pair of
flags for the session's user, as long as the session is not `nested`; a step that nests
records it, so administrators need no exception of their own.

**Intents.** `IInv` of `HardwareIntentsProofs` is `TypeOK`, `NothingMinted` and that what an
open intent has swept was bought. A version of the lease rows is made of the previous one by
moves, and a move covers no row that did not exist (`MoveCovers`, `ReleaseKeeps`,
`ReconciledKeeps`), so `SaveKeeps` holds for every rule and every copy, stale or not;
`NothingMintedEver` therefore does not depend on the clocks or on `overwritten`. `KeyOnce`
needs only the unique row (`KeyFree`). `SlotsLeasesAgree` (`SlotsLeasesProofs`) has an
invariant of its own (`SInv`): slots and leases say the same (`Agree`, stronger than the
property: a slot without a timed machine points at no lease), and what an intent has loaded
is what its own sweep makes of the rows, as long as no commit came in between
(`LoadedIsCurrent`). Every commit ends the second part for the other intents
(`CommitDisturbs`); a rule therefore has to keep `Agree` only for an intent that nothing
overtook, which is one lemma for each rule, and the reconciliation moves no mounted lease
(`ReconciledSame`). An administrator's page is such a copy too: what it leaves out becomes
`taken` and its leases stay where they are (`AdminSaveMatches`, `RevokeRoomsMatches`).

**Wallet.** `WalletProofs` says what a transaction knows under its locks: the locks of two
transactions are disjoint, and a settlement that holds a request has read it as pending.
From it `TakesEffectOnce` follows for keys, deposits, quests and settlements alike, and
`MinimumKept` from the comparison before the clamp. Balances are integers, and nothing in these
proofs needs them not to be negative; that no operation of a player overdraws one is the theorem
`DebtOnlyByCorrection`: a step that takes coins or USDC below zero is an amount an administrator
sets, or the rejection of a request whose amount is itself below zero.

**Sums.** Three of the invariants equate balances with sums over users, rows or weeks. The
fold of the community modules takes the elements in an order that a `CHOOSE` picks, and no
installed prover can instantiate the library's induction on finite sets. `FiniteSums`
replaces that induction by a smallest counterexample: the strict subsets of a finite set are
well-founded (`FS_StrictSubsetOrderingWellFounded`, `WFMin`), so if the lemma failed, it would
fail for a set all of whose proper subsets satisfy it (`SmallestSet`). From it follow that
the order does not matter (`AddsIsFold`), that a sum changes by what one element changes
(`SumChange`), and that new elements add their own sum. The same argument gives a largest
element (`MaxExists`).

- `MoneyOnlyMoves`: a buy takes the total from the buyer and adds net, tax and commission
  elsewhere, a cash-out moves the proceeds; with `IInv` (balances are natural) that is
  `MoneyConserved` for every price, tax and number of users. It needs a finite set of users.
- `BooksAlwaysBalance`: a commit changes one player's books and the sums over his requests.
  A refund pays the amount the settlement has read, so the step needs `Pending` (the request a
  settlement holds is still pending with that amount), which `Exclusive` keeps.
- `BalanceIsListed`: a commit adds the sum of its rows to balance and history. The sum over
  their union is the sum of both because the rows are new (`~AlreadyCredited`, read inside the
  transaction); a payout writes a share where none was, because an unpaid week has paid nothing
  (`PaidWhatAccrued`, of `WeekInv`). `TypesHold` is proved with it; it uses the invariants of
  `PaidOnce` and `NoBoundarySkipped`, which bound cursor, rows and checkpoint by the clock.

**Locks.** A connection runs one of the handlers' lists and has locked a prefix of it: `LInv`
says so, and that no row has two holders (`TypeOK`, theorem `TypeCorrect`). If `t` waits for a row
of `u`, both have it in their lists and none of the rows they hold in common (`WaitParts`). In the
list of every handler but buy, sweep and reclaim, a row of `game_states`, `stock` or
`item_instances` comes behind its *guard*, the account of its owner or, for a listed unit, the
listing. A row has one guard (`OneGuard`), so whoever waits for the row and whoever holds it would
both hold the guard: nobody waits for such a row. What is left to wait for is an account, with
nothing held, or a listing, with no listing held (`OwnWaits`): the holder of an awaited listing
waits for nothing, so a circle would be of waits for accounts, whose holders hold something and
do not wait for accounts. That is `CirclesGoThroughBuys`.
Buys lock balances of other players without their accounts. There the guard is the listing, which
covers its units, and the balances are ascending (`BuyWaits`): in a circle somebody waits for the
largest balance waited for, and its holder would wait for a larger one (`BuysNeverDeadlock`, with
`MaxExists`; users are finite). The faults `GameRowsAsGiven` and `ProceedsRowsReversed` break
exactly these two facts.

**Counts and conservation of intents.** `CountFollowsLeases`: `StockMatchesLeases` is inductive given
types. Every writer of the rows ends by counting them (`CountedStep`), except a listing and a
sale, which subtract one, and the clock, which can only make a unit overdue; none of these needs
to know who wrote last. `UndisturbedIntentsConserve` needs `IInv`, `SInv` and `CInv`: what an
undisturbed intent has loaded are the quantities of the tables and a count no smaller than the
number of leases its own sweep leaves running (`Current`). Then each rule moves a machine between stock and
slot, the lease moves keep as many running as before, and the reconciliation, which counts at the
clock of the load, trims nothing that still runs at the commit (`FewerUnexpired`).

**More of the market.** `RowCountsItsUnits` and `CustodyIsNoReservation` are conjuncts of the
market's invariant, stated for themselves.

**Model-checked only.** Liveness (`EveryTxEnds`) and whether an action is ENABLED, which are out of
the prover's reach, and the three runs that find a violation. Every other property of
the passing runs has a theorem; that of `StockMatchesUnits` assumes that no unit has a validity,
as in `market_trade`, and `market_stock_drift` refutes it without.

## 7. Not modelled, and why

- Purchases (shop, upgrades, boxes, wheel, merge, rooms): a debit, a grant and an
  idempotency row in one transaction, the pattern that `Wallet` models for a withdrawal;
  their effects on stock, leases, balance and cursor are actions of the modules above.
- Login, registration and refresh tokens: one locked row that its reader replaces. A
  logout that races a rotation leaves the new token alive (`genesis-auth/src/refresh.rs:200`
  updates the rows it sees); it is listed among the hazards.
- Energy, wiring, batteries and compatibility of `genesis-core/src/hardware`: functions
  over one player's data with unit tests of their own.
- Check-in streaks and rewards, quest counters, rankings, reports, transparency: single-row
  counters and reads.
- API gateway, chat, presence, backups, purge, price synchronisation: input and output, no
  shared economic state beyond what sections 1 and 2 name.
- The client: pages, forms and polling over the same operations. Where the page decides
  something that matters (keys, repetitions), section 5 says so. It is most of the
  repository's TypeScript, which is why the modules stand for a small share of its lines.
- The node bindings, deployment and migrations.
- Floating point: amounts are integers here.
