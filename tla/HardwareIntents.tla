--------------------------- MODULE HardwareIntents --------------------------
(***************************************************************************)
(* One player's hardware: racks placed in a room, the machines in their    *)
(* slots and the stock.  A permanent machine (gpu) and a chassis (rig) are *)
(* quantities; a machine with a validity (asic) is a row of                *)
(* player_asic_leases, and stock only counts those rows.                   *)
(*                                                                         *)
(* An intent loads stock and racks without locking them, changes its copy, *)
(* moves the leases and writes the whole copy back, all in one             *)
(* transaction: Begin is what it reads, Save what its commit shows to      *)
(* others.  Credits, market listings, sales, an administrator and the      *)
(* sweep of leases that are over commit in between.  The administrator's   *)
(* page is a copy as well: it is loaded, edited and saved much later.      *)
(***************************************************************************)
EXTENDS Integers, FiniteSets

CONSTANTS Leases, Racks, Slots, Places,   \* lease and rack ids, slots of a rack, room positions
          Txs, Keys, FreshKey, Page,      \* copies at a time, retried keys, a key of one's own,
                                          \* no key but an administrator's page
          InitStock, Duration,            \* a lease lasts Duration
          MaxTime, MaxQty, MaxBehind, MaxAfter,  \* bounds of the model
          NoLease, NoRack, NoSlot

ASSUME HIAssumption ==
  /\ IsFiniteSet(Leases) /\ IsFiniteSet(Racks) /\ IsFiniteSet(Slots) /\ Places # {}
  /\ FreshKey \notin Keys /\ Page \notin Keys \cup {FreshKey}
  /\ NoLease \notin Leases /\ NoRack \notin Racks /\ NoSlot \notin Slots
  /\ Places \cap {"unused", "removed", "swapped", "taken"} = {}
  /\ InitStock \in [{"gpu", "asic", "rig"} -> Nat] /\ InitStock["asic"] = 0
  /\ Duration \in Nat \ {0} /\ MaxTime \in Nat /\ MaxQty \in Nat
  /\ MaxBehind \in Nat /\ MaxAfter \in Nat

VARIABLES
  now,
  lease,        \* player_asic_leases: status, expires_at, rack_id, slot_index
  slot,         \* rack_slots: machine_item_id, machine_lease_id
  at,           \* placed_racks: the position of a rack, or why it has none
  stock,        \* stock: item_id -> qty
  intent,       \* the intents in progress, and the pages an administrator has open
  applied,      \* history: how often each retried key was applied
  bought,       \* history: the leases a purchase or an administrator created
  overwritten,  \* history: a copy was saved over a commit it had not loaded
  soldOverdue   \* history: a unit whose lease was over was sold before a sweep

hardware == <<lease, slot, at, stock>>
history == <<applied, bought, overwritten, soldOverdue>>
vars == <<now, hardware, intent, history>>

Items == {"gpu", "asic", "rig"}
LeaseStatus == {"none", "stock", "equipped", "listed", "expired", "sold", "trimmed"}
Row(status, due, r, i) == [status |-> status, due |-> due, rack |-> r, slot |-> i]
Content(item, l) == [item |-> item, lease |-> l]
Empty == Content("none", NoLease)

LeaseRows == [status : LeaseStatus, due : Nat, rack : Racks \cup {NoRack},
              slot : Slots \cup {NoSlot}]
Contents == [item : {"none", "gpu", "asic"}, lease : Leases \cup {NoLease}]
Positions == Places \cup {"unused", "removed", "swapped", "taken"}
Copies == [stock : [Items -> Nat], at : [Racks -> Positions],
           slot : [Racks -> [Slots -> Contents]]]
NoCopy == [stock |-> InitStock, at |-> [r \in Racks |-> "unused"],
           slot |-> [r \in Racks |-> [i \in Slots |-> Empty]]]
NoIntent == [on |-> FALSE, key |-> FreshKey, clock |-> 0, copy |-> NoCopy,
             swept |-> {}, behind |-> 0]

TypeOK ==
  /\ now \in Nat
  /\ lease \in [Leases -> LeaseRows]
  /\ slot \in [Racks -> [Slots -> Contents]]
  /\ at \in [Racks -> Positions]
  /\ stock \in [Items -> Nat]
  /\ intent \in [Txs -> [on : BOOLEAN, key : Keys \cup {FreshKey, Page}, clock : Nat,
                         copy : Copies, swept : SUBSET Leases, behind : Nat]]
  /\ applied \in [Keys -> Nat] /\ bought \subseteq Leases
  /\ overwritten \in BOOLEAN /\ soldOverdue \in BOOLEAN

Init ==
  /\ now = 0
  /\ lease = [l \in Leases |-> Row("none", 0, NoRack, NoSlot)]
  /\ slot = NoCopy.slot /\ at = NoCopy.at /\ stock = InitStock
  /\ intent = [t \in Txs |-> NoIntent]
  /\ applied = [k \in Keys |-> 0] /\ bought = {}
  /\ overwritten = FALSE /\ soldOverdue = FALSE

-----------------------------------------------------------------------------
(* Leases.  L is a version of the lease rows, c the clock of the statement. *)

InStock(L) == {l \in Leases : L[l].status = "stock"}
Unexpired(L, c) == {l \in InStock(L) : L[l].due > c}
Move(L, S, status, r, i) ==
  [l \in Leases |-> IF l \in S THEN Row(status, L[l].due, r, i) ELSE L[l]]

\* syncTimedAsicStockForItem: the quantity is what the rows say.
NoSync(q, L, c) == q                       \* fault: the count is left as written
SyncStock(q, L, c) == [q EXCEPT !["asic"] = Cardinality(Unexpired(L, c))]

\* expireUserAsicLeases: the rows that are over, the slots they are in, the count.
Due(L, c) == {l \in Leases : L[l].status \in {"stock", "equipped", "listed"} /\ L[l].due <= c}
Mounted(l, r, i) == /\ lease[l].status = "equipped" /\ lease[l].rack = r /\ lease[l].slot = i
                    /\ slot[r][i].lease = l
Expired(L, D) == Move(L, D, "expired", NoRack, NoSlot)
Cleared(D) == [r \in Racks |-> [i \in Slots |->
                 IF \E l \in D : Mounted(l, r, i) THEN Empty ELSE slot[r][i]]]
Recounted(D, c) == IF D = {} THEN stock ELSE SyncStock(stock, Expired(lease, D), c)

\* createAsicLeasesOnPurchase: n new rows.
Created(L, new, c) ==
  [l \in Leases |-> IF l \in new THEN Row("stock", c + Duration, NoRack, NoSlot) ELSE L[l]]
Fresh(L, n) == {S \in SUBSET {l \in Leases : L[l].status = "none"} : Cardinality(S) = n}

\* reconcileTimedAsicStockLeases: rows above the target go, those that would
\* last longest first; missing rows are created for an administrator only.
LastDue(L, S, n) ==
  {T \in SUBSET S : Cardinality(T) = n /\ \A l \in T, k \in S \ T : L[l].due >= L[k].due}
Trim(L, S, q) == {Move(L, T, "trimmed", NoRack, NoSlot) : T \in LastDue(L, S, Cardinality(S) - q)}
Mint(L, q, c) == {Created(L, S, c) : S \in Fresh(L, q - Cardinality(Unexpired(L, c)))}
ReconciledMinting(L, q, c, mint) ==        \* fault: every caller may create rows
  IF q < Cardinality(Unexpired(L, c)) THEN Trim(L, Unexpired(L, c), q) ELSE Mint(L, q, c)
Reconciled(L, q, c, mint) ==
  IF q < Cardinality(Unexpired(L, c)) THEN Trim(L, Unexpired(L, c), q)
  ELSE IF mint THEN Mint(L, q, c) ELSE {L}

\* releaseEquippedAsicLeaseById: back to stock, whatever the row's status; over
\* means expired; a row that is gone or another player's is left alone.
Mine(L, S) == {l \in S : L[l].status \notin {"none", "trimmed", "sold"}}
Release(L, S, c) ==
  LET rows == Mine(L, S)
      over == {l \in rows : L[l].due <= c}
      ends == {l \in over : L[l].status \in {"stock", "equipped"}} IN
  Move(Move(L, rows \ over, "stock", NoRack, NoSlot), ends, "expired", NoRack, NoSlot)

EquippedAt(L, r, i, c) ==
  {l \in Leases : L[l].status = "equipped" /\ L[l].rack = r /\ L[l].slot = i /\ L[l].due > c}

\* resolveEquippedLeaseIdForSlot: the loaded pointer when it still holds, else
\* the slot's own, else a lease that says it is there; at most one.
Resolve(L, hint, r, i, c) ==
  IF hint \in Leases /\ L[hint].status = "equipped" /\ L[hint].due > c THEN {{hint}}
  ELSE IF slot[r][i].lease # NoLease THEN {{slot[r][i].lease}}
  ELSE IF EquippedAt(L, r, i, c) # {} THEN {{l} : l \in EquippedAt(L, r, i, c)} ELSE {{}}

\* releaseAllEquippedLeasesOnRack: what its slots point at and what says it is there.
OnRackOrphaned(L, r, c) == {}              \* fault: leases are left on the rack
OnRack(L, r, c) ==
  ({slot[r][i].lease : i \in Slots} \cap Leases)
    \cup UNION {EquippedAt(L, r, i, c) : i \in Slots}

\* reserveAsicLeaseForEquip: the unit that is over first, skipping locked rows.
Reservable(L, c, locked) ==
  LET free == Unexpired(L, c) \ locked IN
  {l \in free : \A k \in free : L[l].due <= L[k].due}

-----------------------------------------------------------------------------
(* Transactions that wait for the rows an intent's sweep has changed.        *)

On(t) == intent[t].on
Runs(t) == On(t) /\ intent[t].key # Page
Opened(t) == On(t) /\ intent[t].key = Page
Swept == UNION {intent[t].swept : t \in Txs}
OthersSwept(t) == UNION {intent[u].swept : u \in Txs \ {t}}
\* A commit: the intents in done end, the others are one commit further behind.
\* MaxBehind bounds the model; in the code the statement timeout does.
Committed(done) ==
  /\ \A t \in Txs \ done : On(t) => intent[t].behind < MaxBehind
  /\ intent' = [t \in Txs |-> IF t \in done THEN NoIntent
                             ELSE IF On(t) THEN [intent[t] EXCEPT !.behind = @ + 1]
                             ELSE intent[t]]

NeverFree(k) == TRUE                       \* fault: the row is not unique
KeyFree(k) == k \in Keys => applied[k] = 0

\* post_intent, the first half: the key is not known yet, leases that are over
\* are swept, stock and racks are loaded.  MaxAfter bounds the model: so many
\* intents at a time once one has overwritten another commit.
Begin(t, k) ==
  LET D == Due(lease, now) IN
  /\ ~On(t) /\ (k \in Keys => applied[k] = 0)
  /\ Swept \cap D = {}
  /\ overwritten => Cardinality({u \in Txs : On(u)}) < MaxAfter
  /\ intent' = [intent EXCEPT ![t] =
       [on |-> TRUE, key |-> k, clock |-> now, swept |-> D, behind |-> 0,
        copy |-> [stock |-> Recounted(D, now), at |-> at, slot |-> Cleared(D)]]]
  /\ UNCHANGED <<now, hardware, history>>

\* persist_hardware with the changed copy, the idempotency row, the commit.
PersistStock(q, L) == SyncStock(q, L, now)
PersistRacks(copy) == /\ at' = copy.at /\ slot' = copy.slot
Save(t, L, copy) ==
  LET k == intent[t].key IN
  /\ KeyFree(k) /\ OthersSwept(t) = {}
  /\ lease' \in Reconciled(L, copy.stock["asic"], now, FALSE)
  /\ stock' = PersistStock(copy.stock, lease')
  /\ PersistRacks(copy)
  /\ Committed({t})
  /\ applied' = [j \in Keys |-> IF j = k THEN applied[j] + 1 ELSE applied[j]]
  /\ overwritten' = (overwritten \/ intent[t].behind > 0)
  /\ UNCHANGED <<now, bought, soldOverdue>>

-----------------------------------------------------------------------------
(* The intents.  Which one a request is matters only when it is applied. *)

Base(t) == Expired(lease, intent[t].swept)   \* the leases as this transaction sees them
Placed(copy) == {r \in Racks : copy.at[r] \in Places}
Put(copy, r, i, x) == [copy EXCEPT !.slot[r][i] = x]
Count(copy, item, n) == [copy EXCEPT !.stock = [@ EXCEPT ![item] = n]]
Bump(copy, item, n) == Count(copy, item, copy.stock[item] + n)
In(copy, r, item) == {i \in Slots : copy.slot[r][i].item = item}
Takeaway(copy, r, why) ==
  [copy EXCEPT !.at = [@ EXCEPT ![r] = why],
               !.slot = [@ EXCEPT ![r] = [i \in Slots |-> Empty]]]

\* applyTimedStockQtyToSnapshot: the copy's count follows the rows just moved.
StaleCount(copy, L, c) == copy             \* fault: the loaded count is kept
Counted(copy, L, c) == Count(copy, "asic", Cardinality(Unexpired(L, c)))

RoomAnyway(copy, r, i, item) ==            \* fault: the stock is not looked at
  r \in Placed(copy) /\ copy.slot[r][i].item = "none"
Room(copy, r, i, item) ==
  /\ r \in Placed(copy) /\ copy.slot[r][i].item = "none"
  /\ copy.stock[item] >= 1

EquipPermanent(t, r, i) ==
  LET copy == intent[t].copy IN
  /\ Runs(t) /\ Room(copy, r, i, "gpu")
  /\ Save(t, Base(t), Put(Bump(copy, "gpu", -1), r, i, Content("gpu", NoLease)))

\* finalizeTimedMinerEquip: a lease is reserved and mounted, never created.
EquipTimed(t, r, i) ==
  LET copy == intent[t].copy  c == intent[t].clock IN
  /\ Runs(t) /\ Room(copy, r, i, "asic")
  /\ \E l \in Reservable(Base(t), c, OthersSwept(t)) :
       LET L == Move(Base(t), {l}, "equipped", r, i) IN
       Save(t, L, Counted(Put(copy, r, i, Content("asic", l)), L, c))

Unequip(t, r, i) ==
  LET copy == intent[t].copy  c == intent[t].clock  x == copy.slot[r][i] IN
  /\ Runs(t) /\ r \in Placed(copy) /\ x.item # "none"
  /\ \E S \in Resolve(Base(t), x.lease, r, i, c) :
       LET L == Release(Base(t), S, c)  out == Put(copy, r, i, Empty) IN
       Save(t, L, IF x.item = "asic" THEN Counted(out, L, c)
                  ELSE Bump(out, "gpu", 1))

\* remove: chassis and permanent machines return to the copy's stock, the
\* leases by their rows.
Remove(t, r) ==
  LET copy == intent[t].copy  c == intent[t].clock
      L == Release(Base(t), OnRack(Base(t), r, c), c)
      out == Bump(Bump(Takeaway(copy, r, "removed"), "rig", 1),
                  "gpu", Cardinality(In(copy, r, "gpu"))) IN
  /\ Runs(t) /\ r \in Placed(copy)
  /\ Save(t, L, IF In(copy, r, "asic") # {} THEN Counted(out, L, c) ELSE out)

\* place: a rack that stands there goes back to stock, with a count for every
\* machine in it; its leases are not released.
SwappedOut(copy, r) ==
  Bump(Bump(Bump(Takeaway(copy, r, "swapped"), "rig", 1),
            "gpu", Cardinality(In(copy, r, "gpu"))),
       "asic", Cardinality(In(copy, r, "asic")))
Place(t, p, new) ==
  LET copy == intent[t].copy
      there == {r \in Racks : copy.at[r] = p} IN
  /\ Runs(t) /\ at[new] = "unused"
  /\ \E out \in IF there = {} THEN {copy} ELSE {SwappedOut(copy, r) : r \in there} :
       /\ out.stock["rig"] >= 1
       /\ Save(t, Base(t), [Bump(out, "rig", -1) EXCEPT !.at = [@ EXCEPT ![new] = p]])

\* The process stops, a statement runs into its timeout, the intent is refused,
\* the administrator leaves the page.
Abort(t) ==
  /\ On(t)
  /\ intent' = [intent EXCEPT ![t] = NoIntent]
  /\ UNCHANGED <<now, hardware, history>>

-----------------------------------------------------------------------------
(* What else writes the player's hardware *)

\* The sweep of a page that is loaded.
Sweep ==
  LET D == Due(lease, now) IN
  /\ D # {} /\ Swept = {}
  /\ lease' = Expired(lease, D) /\ slot' = Cleared(D) /\ stock' = Recounted(D, now)
  /\ Committed({})
  /\ UNCHANGED <<now, at, history>>

\* credit_stock: a purchase, a prize, a reward.
Credit(item) ==
  /\ stock[item] < MaxQty
  /\ stock' = [stock EXCEPT ![item] = @ + 1]
  /\ Committed({})
  /\ UNCHANGED <<now, lease, slot, at, history>>
CreditLease ==
  /\ Swept = {}
  /\ \E S \in Fresh(lease, 1) : /\ lease' = Created(lease, S, now)
                                /\ bought' = bought \cup S
  /\ stock' = SyncStock(stock, lease', now)
  /\ Committed({})
  /\ UNCHANGED <<now, slot, at, applied, overwritten, soldOverdue>>

\* The market's op_list: the count first, then a unit that is in stock.
List(item) ==
  /\ stock[item] >= 1
  /\ stock' = [stock EXCEPT ![item] = @ - 1]
  /\ IF item = "asic"
     THEN /\ Swept = {}
          /\ \E l \in InStock(lease) : lease' = Move(lease, {l}, "listed", NoRack, NoSlot)
     ELSE UNCHANGED lease
  /\ Committed({})
  /\ UNCHANGED <<now, slot, at, history>>

\* op_transfer: the unit is the buyer's, over or not.
Sold(l) ==
  /\ lease[l].status = "listed" /\ l \notin Swept
  /\ lease' = Move(lease, {l}, "sold", NoRack, NoSlot)
  /\ soldOverdue' = (soldOverdue \/ lease[l].due <= now)
  /\ Committed({})
  /\ UNCHANGED <<now, slot, at, stock, applied, bought, overwritten>>

\* persist_stock for an administrator: rows that are missing are created.
Stocked(q) ==
  /\ lease' \in Reconciled(lease, q["asic"], now, TRUE)
  /\ bought' = bought \cup {l \in Leases : lease[l].status = "none" /\ lease'[l].status # "none"}
  /\ stock' = PersistStock(q, lease')

\* applyAdminSaveGameOverride with stock only: a quantity an administrator typed in.
AdminMerge(q) ==
  /\ Swept = {}
  /\ Stocked([stock EXCEPT !["asic"] = q])
  /\ Committed({})
  /\ UNCHANGED <<now, slot, at, applied, overwritten, soldOverdue>>

\* The administrator's page is loaded, or the racks of a player whose rooms change.
Current == [stock |-> stock, at |-> at, slot |-> slot]
AdminOpen(t) ==
  /\ ~On(t)
  /\ overwritten => Cardinality({u \in Txs : On(u)}) < MaxAfter
  /\ intent' = [intent EXCEPT ![t] = [on |-> TRUE, key |-> Page, clock |-> 0, swept |-> {},
                                      behind |-> 0, copy |-> Current]]
  /\ UNCHANGED <<now, hardware, history>>

\* Racks are left out, with all that is in them; what a list of racks lacks that
\* another one has: the chassis, and rack by rack the machines.
Without(copy, gone) ==
  [copy EXCEPT !.at = [r \in Racks |-> IF r \in gone THEN "taken" ELSE copy.at[r]],
               !.slot = [r \in Racks |-> IF r \in gone THEN [i \in Slots |-> Empty]
                                         ELSE copy.slot[r]]]
Back(old, new, item) ==
  IF item = "rig" THEN Cardinality(Placed(old) \ Placed(new))
  ELSE Cardinality({x \in Racks \X (1..Cardinality(Slots)) :
         Cardinality(In(new, x[1], item)) + x[2] <= Cardinality(In(old, x[1], item))})
Refilled(copy, old, new) == [item \in Items |-> copy.stock[item] + Back(old, new, item)]

\* persist_placed_racks: racks and slots become what the copy says, and no lease
\* is released.
PersistPage(t, copy) ==
  /\ PersistRacks(copy)
  /\ Committed({t})
  /\ overwritten' = (overwritten \/ intent[t].behind > 0)
  /\ UNCHANGED <<now, applied, soldOverdue>>

\* The page is saved: deleting a rack adds what is in it to the page's stock, and
\* any quantity may be typed over.  What the page does not list is left alone.
Merged(page, item) == IF page[item] = 0 THEN stock[item] ELSE page[item]
AdminSave(t, gone) ==
  LET copy == intent[t].copy
      page == Refilled(copy, copy, Without(copy, gone))
      left == [stock EXCEPT !["gpu"] = Merged(page, "gpu"), !["rig"] = Merged(page, "rig")] IN
  /\ Opened(t) /\ gone \subseteq Placed(copy) /\ Swept = {}
  /\ \E gpu \in {left["gpu"]} \cup 0..MaxQty :
       \/ /\ page["asic"] = 0
          /\ stock' = [left EXCEPT !["gpu"] = gpu] /\ UNCHANGED <<lease, bought>>
       \/ \E asic \in {page["asic"]} \cup 0..MaxQty :
            Stocked([left EXCEPT !["gpu"] = gpu, !["asic"] = asic])
  /\ PersistPage(t, Without(copy, gone))

\* applyAdminOwnedRooms, deactivate_streamer_room: the racks of rooms that are
\* revoked are left out; apply_dismantled_recovery adds what is missing to the
\* stock, and no row is created for it.
RevokeRooms(t, gone) ==
  LET next == Without(intent[t].copy, gone)
      q == Refilled(Current, Current, next) IN
  /\ Opened(t) /\ gone \subseteq Placed(intent[t].copy) /\ Swept = {}
  /\ IF Back(Current, next, "asic") = 0 THEN stock' = q /\ UNCHANGED lease
     ELSE /\ lease' \in Reconciled(lease, q["asic"], now, FALSE)
          /\ stock' = PersistStock(q, lease')
  /\ PersistPage(t, next)
  /\ UNCHANGED bought

Advance == /\ now < MaxTime /\ now' = now + 1
           /\ UNCHANGED <<hardware, intent, history>>

Intent(t) ==
  \/ \E k \in Keys \cup {FreshKey} : Begin(t, k)
  \/ \E r \in Racks, i \in Slots : EquipPermanent(t, r, i) \/ EquipTimed(t, r, i) \/ Unequip(t, r, i)
  \/ \E r \in Racks : Remove(t, r)
  \/ \E p \in Places, r \in Racks : Place(t, p, r)
  \/ Abort(t)

Administrator(t) ==
  \/ AdminOpen(t)
  \/ \E gone \in SUBSET Racks : AdminSave(t, gone) \/ RevokeRooms(t, gone)

Next ==
  \/ Advance \/ Sweep \/ CreditLease
  \/ Credit("gpu")
  \/ \E item \in {"gpu", "asic"} : List(item)
  \/ \E l \in Leases : Sold(l)
  \/ \E q \in 0..MaxQty : AdminMerge(q)
  \/ \E t \in Txs : Intent(t) \/ Administrator(t)

Spec == Init /\ [][Next]_vars

-----------------------------------------------------------------------------
(* Properties *)

\* However intents, sales and sweeps interleave, and whatever quantity a stale or
\* inflated copy claims, no machine with a validity comes into being that nobody
\* bought: only a credit and an administrator create lease rows.
NothingMinted == {l \in Leases : lease[l].status # "none"} \subseteq bought

\* stock.qty of a machine with a validity is written by listings, credits, intents
\* and the sweep, each with a clock of its own.  As soon as no unit in stock or
\* listed is overdue it is the number of units, unless an overdue unit was sold.
StockMatchesLeases ==
  \/ soldOverdue
  \/ \E l \in Due(lease, now) : lease[l].status \in {"stock", "listed"}
  \/ stock["asic"] = Cardinality(InStock(lease))

\* As long as neither an intent nor an administrator's page has overwritten a commit
\* it had not seen, every slot with such a machine has a lease of its own, which
\* says it is there, and a mounted lease is in its slot, except on a rack that was
\* replaced by another (Place) or taken away by an administrator.
SlotsMatchLeases ==
  ~overwritten =>
    /\ \A r \in Racks, i \in Slots :
         slot[r][i].item = "asic" => slot[r][i].lease \in Leases /\ Mounted(slot[r][i].lease, r, i)
    /\ \A l \in Leases : lease[l].status = "equipped" =>
         \/ Mounted(l, lease[l].rack, lease[l].slot)
         \/ at[lease[l].rack] \in {"swapped", "taken"}

\* An intent that nothing overtook creates and destroys nothing: permanent
\* machines and chassis only change places, and no unit whose lease still runs is
\* lost, although the copy's count and the rows are compared with two clocks.
Commits(t) == Runs(t) /\ ~On(t)' /\ hardware' # hardware
GpusIn(q, s) == q["gpu"] + Cardinality({x \in Racks \X Slots : s[x[1]][x[2]].item = "gpu"})
RigsIn(q, a) == q["rig"] + Cardinality({r \in Racks : a[r] \in Places})
Running(L) == {l \in Leases : L[l].status \in {"stock", "equipped", "listed"} /\ L[l].due > now}
ConservesStep ==
  \A t \in Txs : Commits(t) /\ ~overwritten' =>
    /\ GpusIn(stock', slot') = GpusIn(stock, slot)
    /\ RigsIn(stock', at') = RigsIn(stock, at)
    /\ soldOverdue \/ Running(lease) \subseteq Running(lease')
UndisturbedConserves == [][ConservesStep]_vars

\* A key that is retried, also while the first attempt is still running, is
\* applied once.
KeyAppliesOnce == \A k \in Keys : applied[k] <= 1
=============================================================================
