---------------------------- MODULE MiningCredit ----------------------------
(***************************************************************************)
(* How mined coins get into a balance: genesis-mining-worker credits a     *)
(* player lazily, when a page of that player is opened, for the time       *)
(* between game_states.last_updated_at (the cursor) and the last closed    *)
(* block of the ten-minute grid. A pass of compute_progress_for_user is    *)
(* several steps (Redis lock, reads, one transaction, release) that other  *)
(* passes, the yield cron, the manager payout and every handler that       *)
(* writes last_updated_at interleave with.                                 *)
(*                                                                         *)
(* One mined coin and one machine per player; an amount is hash x yield x  *)
(* time with hash 1. The manager's share is counted in the owner's coins   *)
(* (the 5% factor changes nothing here).                                   *)
(***************************************************************************)
EXTENDS Integers, FiniteSets, FiniteSetsExt

CONSTANTS
  Users, NoUser,
  Miners,          \* bound: the users whose pages are opened
  Passes, NoPass,  \* bound: requests that can be under way at once
  Manager,         \* account_manager_contracts: active manager of a user
  MachineDue,      \* lease clock of the user's machine (0: none)
  LocksEffective,  \* Redis is configured and its locks are enabled
  Grid,            \* TEN_MIN_MS
  MaxWindow,       \* MAX_EARNING_WINDOW_MS and HISTORY_RETENTION_MS (72 h)
  Lookback,        \* YIELD_HISTORY_LOOKBACK_MS
  Day,             \* CHECKIN_WINDOW_MS; the grace is two of them
  WeekLength,      \* a UTC week
  Reward,          \* block_reward / block_time of the coin
  CatchUp,         \* MAX_YIELD_CATCHUP_BOUNDARIES_PER_TICK
  MaxLag,          \* longest wait between a handler's clock and its update
  MaxTime,         \* bound: the clock stops here
  MaxEvents        \* bound: crashes, cancelled ticks and steps of other handlers

ASSUME MiningAssumption ==
  /\ IsFiniteSet(Users) /\ Miners \subseteq Users
  /\ NoUser \notin Users /\ NoPass \notin Passes
  /\ Manager \in [Users -> Users \cup {NoUser}] /\ MachineDue \in [Users -> Nat]
  /\ LocksEffective \in BOOLEAN
  /\ Grid \in Nat \ {0} /\ Day \in Nat \ {0} /\ WeekLength \in Nat \ {0}
  /\ MaxWindow \in Nat \ {0} /\ Lookback \in Nat /\ Reward \in Nat
  /\ CatchUp \in Nat \ {0} /\ MaxLag \in Nat /\ MaxTime \in Nat \ {0}
  /\ MaxEvents \in Nat

VARIABLES
  now,         \* the wall clock
  cursor,      \* game_states.last_updated_at
  blocked,     \* users.is_blocked
  checkin,     \* game_states.last_checkin_at_ms
  mounted,     \* rack_slots: the machine is in the rack
  powered,     \* placed_racks.is_on (wired, with a battery)
  coinActive,  \* mining_coins.is_active
  yield,       \* mining_yield_history: boundary -> yield per hash
  network,     \* app_cache.network_stats: hash the last tick saw
  checkpoint,  \* LAST_YIELD_HISTORY_BOUNDARY_MS (0: none)
  hydrated,    \* YIELD_HISTORY_BOUNDARY_HYDRATED
  tick,        \* the yield tick under way: what it saw, its last boundary
  lock,        \* Redis: the pass that holds the user's lock
  pass,        \* the passes of compute_progress_for_user
  history,     \* mining_block_history
  ledger,      \* mining_progress_commit_ledger
  balance,     \* coin_balances
  accrual,     \* account_manager_mining_accrual: owner, week -> share, paid
  payout,      \* account_manager_payout_ledger: owner, week -> amount
  reopened,    \* observer: how often a moment had been paid when a handler
               \* last moved the cursor back behind it
  skipped,     \* observer: boundaries between the newest row and one that was
               \* written without a checkpoint
  events       \* how many of the bounded steps happened

setupVars  == <<checkin, mounted, powered, coinActive>>
yieldVars  == <<yield, network, checkpoint, hydrated, tick, skipped>>
creditVars == <<history, ledger, balance, accrual, payout>>
vars == <<now, cursor, blocked, checkin, mounted, powered, coinActive, yield, network,
          checkpoint, hydrated, tick, lock, pass, history, ledger, balance, accrual,
          payout, reopened, skipped, events>>

Times == 0..MaxTime
Counted == events < MaxEvents /\ events' = events + 1
NoRow == -1        \* no row for the boundary
CoinOff == -2      \* no row either: the coin was inactive at the boundary's tick

(***************************************************************************)
(* Clocks (genesis-core::mining::wall_clock, checkin::window, utc_week).   *)
(***************************************************************************)
LastCompletedGrid(t) == t - (t % Grid)
CreditCapOpen(t) == t                                    \* fault: open block paid
CreditCap(t) == LastCompletedGrid(t)
Boundaries == {b \in Times : b > 0 /\ b % Grid = 0}
Week(t) == t \div WeekLength
Weeks == 0..Week(MaxTime)
CheckinFrozen(u, t) == t - checkin[u] > 2 * Day
CheckedInToday(u, t) == checkin[u] \div Day = t \div Day
Stamps == {t \in 1..now : now - t <= MaxLag}

\* The cuts of [s, e) at the grid, and the windows between neighbouring cuts.
Cuts(s, e) == {s, e} \cup {t \in s..e : t % Grid = 0}
CreditWindows(s, e) ==
  {w \in Cuts(s, e) \X Cuts(s, e) :
     w[1] < w[2] /\ \A c \in Cuts(s, e) : ~(w[1] < c /\ c < w[2])}

(***************************************************************************)
(* Yields. A boundary's rate holds from the boundary on, so it is constant *)
(* within a window.                                                        *)
(***************************************************************************)
YieldPerHash(live) == IF live > 0 THEN Reward \div live ELSE 0
FallbackYield == Reward \div (IF network > 0 THEN network ELSE 1)

HistoryFrom(last) == {b \in Boundaries : yield[b] >= 0 /\ b >= last - Lookback}

RateAt(t, hist) ==
  IF hist = {} THEN 0
  ELSE LET past == {b \in hist : b <= t}
       IN  IF past = {} THEN yield[Min(hist)] ELSE yield[Max(past)]

(***************************************************************************)
(* Passes.                                                                 *)
(***************************************************************************)
IdlePass == [phase |-> "idle", user |-> NoUser, clock |-> 0, last |-> 0,
             fallback |-> 0, coin |-> FALSE, frozen |-> FALSE, rows |-> {},
             powerOff |-> FALSE]

IdleTick == [coin |-> FALSE, live |-> 0, cap |-> 0]

Finished(r) == [IdlePass EXCEPT !.phase = "done", !.user = r.user]

Row == [start : Times, end : Times, amount : Nat \ {0}]

DueAt(u, t) == MachineDue[u] > 0 /\ MachineDue[u] <= t

\* Where the pass leaves the cursor: at its cap, or 72 h further.
LastWrite(clock, last) ==
  IF CreditCap(clock) - last > MaxWindow THEN last + MaxWindow ELSE CreditCap(clock)

\* What each window earns: by the history if it earns anything over the whole
\* interval, else by the fallback; and the history rows of a running machine.
WindowRows(last, end, fallback) ==
  LET hist == HistoryFrom(last)
      windows == CreditWindows(last, end)
      useHistory == \E w \in windows : RateAt(w[1], hist) > 0
      Rate(w) == IF useHistory THEN RateAt(w[1], hist) ELSE fallback
  IN  {[start |-> w[1], end |-> w[2], amount |-> Rate(w) * (w[2] - w[1])] : w \in windows}

RowsForAll(last, end, fallback) == WindowRows(last, end, fallback)        \* fault
RowsFor(last, end, fallback) == {r \in WindowRows(last, end, fallback) : r.amount > 0}

AmountOf(rows) == MapThenSumSet(LAMBDA r : r.amount, rows)

Init ==
  /\ now = 1
  /\ cursor = [u \in Users |-> 1]
  /\ blocked = [u \in Users |-> FALSE]
  /\ checkin = [u \in Users |-> 1]
  /\ mounted = [u \in Users |-> u \in Miners]
  /\ powered = [u \in Users |-> u \in Miners]
  /\ coinActive = TRUE
  /\ yield = [b \in Boundaries |-> NoRow]
  /\ network = 0 /\ checkpoint = 0 /\ hydrated = FALSE /\ skipped = {}
  /\ tick = IdleTick
  /\ lock = [u \in Users |-> NoPass]
  /\ pass = [p \in Passes |-> IdlePass]
  /\ history = [u \in Users |-> {}] /\ ledger = [u \in Users |-> {}]
  /\ balance = [u \in Users |-> 0]
  /\ accrual = [u \in Users |-> [w \in Weeks |-> [share |-> 0, paid |-> FALSE]]]
  /\ payout = [u \in Users |-> [w \in Weeks |-> 0]]
  /\ reopened = [u \in Users |-> [t \in Times |-> 0]]
  /\ events = 0

(***************************************************************************)
(* compute_progress_for_user.                                              *)
(***************************************************************************)
\* The clock, and SET key token NX EX. Without Redis the lock always succeeds.
Acquire(p, u) ==
  /\ pass[p] = IdlePass
  /\ LocksEffective => lock[u] = NoPass
  /\ lock' = IF LocksEffective THEN [lock EXCEPT ![u] = p] ELSE lock
  /\ pass' = [pass EXCEPT ![p] =
       [IdlePass EXCEPT !.phase = "started", !.user = u, !.clock = now]]
  /\ UNCHANGED <<now, cursor, blocked, setupVars, yieldVars, creditVars, reopened, events>>

\* Nothing to pay: the pass only releases its lock.
ReadNothing(p) ==
  LET r == pass[p] IN
  /\ r.phase = "started"
  /\ blocked[r.user] \/ CreditCap(r.clock) <= cursor[r.user]
  /\ pass' = [pass EXCEPT ![p] = Finished(@)]
  /\ UNCHANGED <<now, cursor, blocked, setupVars, yieldVars, lock, creditVars, reopened, events>>

\* Coins, network hash, game_states: read outside the transaction.
ReadState(p) ==
  LET r == pass[p] IN
  /\ r.phase = "started"
  /\ ~blocked[r.user] /\ CreditCap(r.clock) > cursor[r.user]
  /\ pass' = [pass EXCEPT ![p] =
       [IdlePass EXCEPT !.phase = "state", !.user = r.user, !.clock = r.clock,
                        !.last = cursor[r.user], !.coin = coinActive,
                        !.fallback = IF coinActive THEN FallbackYield ELSE 0,
                        !.frozen = CheckinFrozen(r.user, r.clock)]]
  /\ UNCHANGED <<now, cursor, blocked, setupVars, yieldVars, lock, creditVars, reopened, events>>

\* Yield history, racks, slots: the setup the whole window is paid with.
ReadSetup(p) ==
  LET r == pass[p]
      running == /\ ~r.frozen /\ powered[r.user] /\ mounted[r.user]
                 /\ ~DueAt(r.user, r.clock)
  IN
  /\ r.phase = "state"
  /\ pass' = [pass EXCEPT ![p] =
       [IdlePass EXCEPT !.phase = "ready", !.user = r.user, !.clock = r.clock,
                        !.last = r.last, !.powerOff = running /\ ~r.coin,
                        !.rows = IF running /\ r.coin
                                 THEN RowsFor(r.last, LastWrite(r.clock, r.last), r.fallback)
                                 ELSE {}]]
  /\ UNCHANGED <<now, cursor, blocked, setupVars, yieldVars, lock, creditVars, reopened, events>>

\* What the transaction re-reads under FOR UPDATE, and its two ledgers.
AnyCursor(u, last) == TRUE                           \* fault: cursor not re-read
CursorUnchanged(u, last) == cursor[u] = last
NeverCredited(u, rows) == FALSE                      \* fault: history not asserted
AlreadyCredited(u, rows) ==
  \E r \in rows, h \in history[u] : r.start = h.start /\ r.end = h.end
Committable(r) ==
  /\ ~blocked[r.user] /\ CursorUnchanged(r.user, r.last)
  /\ <<r.last, LastWrite(r.clock, r.last)>> \notin ledger[r.user]
  /\ ~AlreadyCredited(r.user, r.rows)

\* The transaction is rolled back; nothing was credited.
Refuse(p) ==
  /\ pass[p].phase = "ready" /\ ~Committable(pass[p])
  /\ pass' = [pass EXCEPT ![p] = Finished(@)]
  /\ UNCHANGED <<now, cursor, blocked, setupVars, yieldVars, lock, creditVars, reopened, events>>

\* The manager's share, by the week of the pass's clock: a paid row is left alone.
AccrueAlways(a, week, amount) == [a EXCEPT ![week].share = @ + amount]    \* fault
Accrue(a, week, amount) ==
  IF a[week].paid THEN a ELSE [a EXCEPT ![week].share = @ + amount]

Commit(p) ==
  LET r == pass[p]
      u == r.user
      end == LastWrite(r.clock, r.last)
      amount == AmountOf(r.rows)
  IN
  /\ r.phase = "ready" /\ Committable(r)
  /\ mounted' = [mounted EXCEPT ![u] = @ /\ ~DueAt(u, r.clock)]
  /\ ledger' = [ledger EXCEPT ![u] = @ \cup {<<r.last, end>>}]
  /\ balance' = [balance EXCEPT ![u] = @ + amount]
  /\ accrual' = IF Manager[u] = NoUser THEN accrual
                ELSE [accrual EXCEPT ![u] = Accrue(@, Week(r.clock), amount)]
  /\ history' = [history EXCEPT ![u] = @ \cup r.rows]
  /\ powered' = [powered EXCEPT ![u] = @ /\ ~r.powerOff]
  /\ cursor' = [cursor EXCEPT ![u] = end]
  /\ pass' = [pass EXCEPT ![p] = Finished(@)]
  /\ UNCHANGED <<now, blocked, checkin, coinActive, yieldVars, lock, payout, reopened, events>>

\* The release script deletes the key only while it holds the pass's token.
ReleaseOwn(p, u) == IF lock[u] = p THEN [lock EXCEPT ![u] = NoPass] ELSE lock
Release(p) ==
  /\ pass[p].phase = "done"
  /\ lock' = ReleaseOwn(p, pass[p].user)
  /\ pass' = [pass EXCEPT ![p] = IdlePass]
  /\ UNCHANGED <<now, cursor, blocked, setupVars, yieldVars, creditVars, reopened, events>>

\* The key's time to live runs out, whatever its holder is doing.
LockExpires(u) ==
  /\ Counted
  /\ lock[u] # NoPass
  /\ lock' = [lock EXCEPT ![u] = NoPass]
  /\ UNCHANGED <<now, cursor, blocked, setupVars, yieldVars, pass, creditVars, reopened>>

\* The worker dies: open transactions roll back, Redis keeps its keys.
Crash ==
  /\ Counted
  /\ pass' = [p \in Passes |-> IdlePass]
  /\ tick' = IdleTick /\ checkpoint' = 0 /\ hydrated' = FALSE
  /\ UNCHANGED <<now, cursor, blocked, setupVars, yield, network, skipped, lock, creditVars,
                 reopened>>

(***************************************************************************)
(* The yield tick.                                                         *)
(***************************************************************************)
Rows == {b \in Boundaries : yield[b] >= 0}

\* The newest row; without one the checkpoint stays.
Hydrate == IF Rows = {} THEN checkpoint ELSE Max(Rows)

Live == Cardinality({u \in Users : coinActive /\ powered[u] /\ mounted[u] /\ ~blocked[u]})

\* The first boundary a tick with this checkpoint writes.
NextBoundaryNewest(from, cap) == cap           \* fault: no catching up
NextBoundary(from, cap) == IF from = 0 THEN cap ELSE from + Grid

\* The first tick of a process takes the checkpoint from the table; when the query
\* fails the tick goes on with the checkpoint it has, and the next one tries again.
TickBegin ==
  LET open == LastCompletedGrid(now) IN
  /\ tick = IdleTick /\ open > 0
  /\ \/ hydrated /\ UNCHANGED <<checkpoint, hydrated, events>>
     \/ ~hydrated /\ checkpoint' = Hydrate /\ hydrated' = TRUE /\ UNCHANGED events
     \/ ~hydrated /\ Counted /\ UNCHANGED <<checkpoint, hydrated>>
  /\ network' = Live
  /\ tick' = [coin |-> coinActive, live |-> Live,
              cap |-> IF checkpoint' = 0 THEN open
                      ELSE Min({open, checkpoint' + CatchUp * Grid})]
  /\ UNCHANGED <<now, cursor, blocked, setupVars, yield, skipped, lock, pass, creditVars,
                 reopened>>

Pending == tick # IdleTick /\ NextBoundary(checkpoint, tick.cap) <= tick.cap

\* INSERT of a boundary: an existing row stays, an inactive coin has none.
Inserted(b) ==
  IF yield[b] >= 0 THEN yield
  ELSE [yield EXCEPT ![b] = IF tick.coin THEN YieldPerHash(tick.live) ELSE CoinOff]

\* What a tick without a checkpoint leaves out when it writes b.
Skips(b) == {x \in Boundaries : checkpoint = 0 /\ Rows # {} /\ Max(Rows) < x /\ x < b}

TickBoundary ==
  LET b == NextBoundary(checkpoint, tick.cap) IN
  /\ Pending
  /\ yield' = Inserted(b) /\ checkpoint' = b /\ skipped' = skipped \cup Skips(b)
  /\ UNCHANGED <<now, cursor, blocked, setupVars, network, hydrated, tick, lock, pass,
                 creditVars, reopened, events>>

\* The deadline cancels the tick, with the insert already done or not.
TickTimeout ==
  LET b == NextBoundary(checkpoint, tick.cap) IN
  /\ Counted
  /\ tick # IdleTick
  /\ tick' = IdleTick
  /\ \/ UNCHANGED <<yield, skipped>>
     \/ Pending /\ yield' = Inserted(b) /\ skipped' = skipped \cup Skips(b)
  /\ UNCHANGED <<now, cursor, blocked, setupVars, network, checkpoint, hydrated, lock, pass,
                 creditVars, reopened>>

TickEnd ==
  /\ tick # IdleTick /\ ~Pending
  /\ yield' = [b \in Boundaries |-> IF b < now - MaxWindow THEN NoRow ELSE yield[b]]
  /\ tick' = IdleTick
  /\ UNCHANGED <<now, cursor, blocked, setupVars, network, checkpoint, hydrated, skipped, lock,
                 pass, creditVars, reopened, events>>

(***************************************************************************)
(* The manager's payout (pay_one_row), one closed week of an owner.        *)
(***************************************************************************)
PayWeek(u, week) ==
  LET due == accrual[u][week] IN
  /\ Manager[u] # NoUser
  /\ week < Week(now) /\ due.share > 0 /\ ~due.paid
  /\ payout' = [payout EXCEPT ![u][week] = due.share]
  /\ balance' = [balance EXCEPT ![Manager[u]] = @ + due.share]
  /\ accrual' = [accrual EXCEPT ![u][week].paid = TRUE]
  /\ UNCHANGED <<now, cursor, blocked, setupVars, yieldVars, lock, pass, history, ledger,
                 reopened, events>>

(***************************************************************************)
(* The other handlers, with a clock read up to MaxLag before their update. *)
(***************************************************************************)
Covering(u, t) == Cardinality({r \in history[u] : r.start <= t /\ t < r.end})

BumpCursor(u, t) ==
  /\ cursor' = [cursor EXCEPT ![u] = t]
  /\ reopened' = [reopened EXCEPT ![u] =
       [x \in Times |-> IF t <= x THEN Covering(u, x) ELSE reopened[u][x]]]

\* Market, shop, merge, wheel, deposit...: last_updated_at = now, nothing credited.
Bump(u, t) ==
  /\ Counted
  /\ BumpCursor(u, t)
  /\ UNCHANGED <<now, blocked, setupVars, yieldVars, lock, pass, creditVars>>

CheckIn(u, t) ==
  /\ Counted
  /\ ~CheckedInToday(u, t)
  /\ checkin' = [checkin EXCEPT ![u] = t]
  /\ BumpCursor(u, t)
  /\ UNCHANGED <<now, blocked, mounted, powered, coinActive, yieldVars, lock, pass,
                 creditVars>>

LeaseSweep(u) ==
  /\ mounted[u] /\ DueAt(u, now)
  /\ mounted' = [mounted EXCEPT ![u] = FALSE]
  /\ UNCHANGED <<now, cursor, blocked, checkin, powered, coinActive, yieldVars, lock, pass,
                 creditVars, reopened, events>>

\* An ASIC or NFT room's machine brings its coin, so no inactive coin is refused.
PowerSwitch(u) ==
  /\ Counted
  /\ powered' = [powered EXCEPT ![u] = ~@]
  /\ UNCHANGED <<now, cursor, blocked, checkin, mounted, coinActive, yieldVars, lock, pass,
                 creditVars, reopened>>

SwitchCoin ==
  /\ Counted
  /\ coinActive' = ~coinActive
  /\ UNCHANGED <<now, cursor, blocked, checkin, mounted, powered, yieldVars, lock, pass,
                 creditVars, reopened>>

SetBlocked(u) ==
  /\ Counted
  /\ blocked' = [blocked EXCEPT ![u] = ~@]
  /\ UNCHANGED <<now, cursor, setupVars, yieldVars, lock, pass, creditVars, reopened>>

Advance ==
  /\ now < MaxTime
  /\ now' = now + 1
  /\ UNCHANGED <<cursor, blocked, setupVars, yieldVars, lock, pass, creditVars, reopened, events>>

Next ==
  \/ \E p \in Passes : \/ \E u \in Miners : Acquire(p, u)
                       \/ ReadNothing(p) \/ ReadState(p) \/ ReadSetup(p)
                       \/ Refuse(p) \/ Commit(p) \/ Release(p)
  \/ \E u \in Users : LockExpires(u)
  \/ Crash
  \/ TickBegin \/ TickBoundary \/ TickTimeout \/ TickEnd
  \/ \E u \in Users, week \in Weeks : PayWeek(u, week)
  \/ \E u \in Miners : \/ \E t \in Stamps : Bump(u, t) \/ CheckIn(u, t)
                       \/ LeaseSweep(u) \/ PowerSwitch(u) \/ SetBlocked(u)
  \/ SwitchCoin
  \/ Advance

Spec == Init /\ [][Next]_vars

(***************************************************************************)
(* Properties.                                                             *)
(***************************************************************************)
Pass == [phase : {"idle", "started", "state", "ready", "done"},
         user : Users \cup {NoUser}, clock : Times, last : Times, fallback : Nat,
         coin : BOOLEAN, frozen : BOOLEAN, rows : SUBSET Row, powerOff : BOOLEAN]
Due == [share : Nat, paid : BOOLEAN]

\* Every variable has its type; in particular only windows that earned become rows.
TypeOK ==
  /\ now \in Times /\ cursor \in [Users -> Times]
  /\ blocked \in [Users -> BOOLEAN] /\ checkin \in [Users -> Times]
  /\ mounted \in [Users -> BOOLEAN] /\ powered \in [Users -> BOOLEAN]
  /\ coinActive \in BOOLEAN
  /\ yield \in [Boundaries -> {NoRow, CoinOff} \cup Nat] /\ network \in Nat
  /\ checkpoint \in Boundaries \cup {0} /\ hydrated \in BOOLEAN
  /\ skipped \subseteq Boundaries
  /\ tick \in [coin : BOOLEAN, live : Nat, cap : Times]
  /\ lock \in [Users -> Passes \cup {NoPass}] /\ pass \in [Passes -> Pass]
  /\ history \in [Users -> SUBSET Row] /\ ledger \in [Users -> SUBSET (Times \X Times)]
  /\ balance \in [Users -> Nat]
  /\ accrual \in [Users -> [Weeks -> Due]] /\ payout \in [Users -> [Weeks -> Nat]]
  /\ reopened \in [Users -> [Times -> Nat]] /\ events \in 0..MaxEvents

\* A moment is paid once, and once more only if a handler with an older clock
\* moved the cursor back behind it: neither two passes for one player (the lock
\* has a time to live) nor a pass and a handler pay the same moment twice.
CreditedOnce ==
  \A u \in Users, t \in Times : Covering(u, t) <= 1 + reopened[u][t]

\* coin_balances holds what mining_block_history lists, plus the shares paid to
\* the user as a manager: no credit without its rows, no rows without credit.
BalanceIsHistory ==
  \A u \in Users :
    balance[u] = AmountOf(history[u])
      + MapThenSumSet(LAMBDA ow : payout[ow[1]][ow[2]],
                      {ow \in Users \X Weeks : Manager[ow[1]] = u})

\* Only closed blocks of the ten-minute grid are paid.
OnlyClosedBlocks ==
  \A u \in Users : \A r \in history[u] : r.end <= LastCompletedGrid(now)

\* A week that is marked paid was paid what it accrued: nothing is added to it
\* afterwards, and nothing was paid for a week that is still unpaid.
PaidWhatAccrued ==
  \A u \in Users, w \in Weeks :
    payout[u][w] = IF accrual[u][w].paid THEN accrual[u][w].share ELSE 0

\* Between two rows of mining_yield_history every boundary has its row, or had an
\* inactive coin, across restarts, cancelled ticks, catch-ups and the deletion of
\* old rows; except those that a process without a checkpoint went past: its query
\* for the newest row failed, or its first tick on an empty table was cut off.
NoYieldGap ==
  \A b \in Boundaries :
    (\E c, d \in Rows : c < b /\ b < d) => yield[b] # NoRow \/ b \in skipped

\* What the player's running machine earned from the cursor to t, up to the last
\* closed block.
Owed(u, t) ==
  IF /\ coinActive /\ powered[u] /\ mounted[u] /\ ~blocked[u]
     /\ ~DueAt(u, now) /\ ~CheckinFrozen(u, now)
  THEN AmountOf(RowsFor(cursor[u], Min({t, CreditCap(now)}), FallbackYield))
  ELSE 0

\* A handler moves the cursor forward only when nothing is owed for the time it
\* passes over; what a visit finds between the cursor and now is still to be paid.
OwedIsCredited ==
  [][\A u \in Users :
       cursor'[u] > cursor[u] /\ pass' = pass => Owed(u, cursor'[u]) = 0]_vars

=============================================================================
