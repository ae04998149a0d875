----------------------- MODULE HardwareIntentsProofs ------------------------
(***************************************************************************)
(* Types, and that no machine with a validity comes into being that nobody *)
(* bought, for every number of leases, racks, intents and keys.  A version *)
(* of the lease rows is made of the last one by moves, whose subjects are  *)
(* rows that exist; only a purchase and an administrator make rows, so the *)
(* invariant also says that what an open intent has swept was bought.      *)
(***************************************************************************)
EXTENDS HardwareIntents, FiniteSetTheorems, TLAPS

LeaseTable == [Leases -> LeaseRows]
Existing(L) == {l \in Leases : L[l].status # "none"}
SweptBought == \A t \in Txs : intent[t].swept \subseteq bought

\* The inductive invariant.
IInv == TypeOK /\ NothingMinted /\ SweptBought

-----------------------------------------------------------------------------
(* Versions of the lease rows: their type, and that they cover no more rows *)
(* than B, the rows that were bought.                                       *)

LEMMA CountIsNat == ASSUME NEW S \in SUBSET Leases PROVE Cardinality(S) \in Nat
  BY HIAssumption, FS_Subset, FS_CardinalityType

LEMMA SlotCountIsNat == ASSUME NEW S \in SUBSET Slots PROVE Cardinality(S) \in Nat
  BY HIAssumption, FS_Subset, FS_CardinalityType

LEMMA RowIsRow ==
  ASSUME NEW status \in LeaseStatus, NEW due \in Nat, NEW r \in Racks \cup {NoRack},
         NEW i \in Slots \cup {NoSlot}
  PROVE  Row(status, due, r, i) \in LeaseRows /\ Row(status, due, r, i).status = status
  BY DEF Row, LeaseRows

LEMMA MoveType ==
  ASSUME NEW L \in LeaseTable, NEW S, NEW status \in LeaseStatus,
         NEW r \in Racks \cup {NoRack}, NEW i \in Slots \cup {NoSlot}
  PROVE  Move(L, S, status, r, i) \in LeaseTable
<1>1. ASSUME NEW l \in Leases
      PROVE  (IF l \in S THEN Row(status, L[l].due, r, i) ELSE L[l]) \in LeaseRows
  <2>1. L[l] \in LeaseRows /\ L[l].due \in Nat
        BY DEF LeaseTable, LeaseRows
  <2>2. Row(status, L[l].due, r, i) \in LeaseRows
        BY <2>1, RowIsRow
  <2> QED BY <2>1, <2>2
<1> QED BY <1>1 DEF Move, LeaseTable

LEMMA MoveCovers ==
  ASSUME NEW L \in LeaseTable, NEW S, NEW status \in LeaseStatus,
         NEW r \in Racks \cup {NoRack}, NEW i \in Slots \cup {NoSlot}, NEW B,
         Existing(L) \subseteq B, \A l \in Leases : l \in S => l \in B
  PROVE  Existing(Move(L, S, status, r, i)) \subseteq B
<1>1. ASSUME NEW l \in Leases, Move(L, S, status, r, i)[l].status # "none" PROVE l \in B
  <2>1. CASE l \in S
        BY <2>1
  <2>2. CASE l \notin S
        BY <1>1, <2>2 DEF Move, Existing
  <2> QED BY <2>1, <2>2
<1> QED BY <1>1 DEF Existing

LEMMA CreatedType ==
  ASSUME NEW L \in LeaseTable, NEW new, NEW c \in Nat
  PROVE  Created(L, new, c) \in LeaseTable
<1>1. c + Duration \in Nat /\ Row("stock", c + Duration, NoRack, NoSlot) \in LeaseRows
      BY HIAssumption, RowIsRow DEF LeaseStatus
<1> QED BY <1>1 DEF Created, LeaseTable

LEMMA ExpiredKeeps ==
  ASSUME NEW L \in LeaseTable, NEW D, NEW B, Existing(L) \subseteq B,
         \A l \in Leases : l \in D => l \in B
  PROVE  Expired(L, D) \in LeaseTable /\ Existing(Expired(L, D)) \subseteq B
  BY MoveType, MoveCovers DEF Expired, LeaseStatus

LEMMA ReleaseKeeps ==
  ASSUME NEW L \in LeaseTable, NEW S, NEW c, NEW B, Existing(L) \subseteq B
  PROVE  Release(L, S, c) \in LeaseTable /\ Existing(Release(L, S, c)) \subseteq B
<1> DEFINE rows == Mine(L, S)
           over == {l \in rows : L[l].due <= c}
           ends == {l \in over : L[l].status \in {"stock", "equipped"}}
           M == Move(L, rows \ over, "stock", NoRack, NoSlot)
<1>1. \A l \in Leases : l \in rows => l \in B
      BY DEF Mine, Existing
<1>2. (\A l \in Leases : l \in rows \ over => l \in B) /\ (\A l \in Leases : l \in ends => l \in B)
      BY <1>1
<1>3. Release(L, S, c) = Move(M, ends, "expired", NoRack, NoSlot)
      BY DEF Release
<1> HIDE DEF rows, over, ends
<1>4. M \in LeaseTable /\ Existing(M) \subseteq B
      BY <1>2, MoveType, MoveCovers DEF LeaseStatus
<1> HIDE DEF M
<1>5. Move(M, ends, "expired", NoRack, NoSlot) \in LeaseTable
      BY <1>4, MoveType DEF LeaseStatus
<1>6. Existing(Move(M, ends, "expired", NoRack, NoSlot)) \subseteq B
      BY <1>2, <1>4, MoveCovers DEF LeaseStatus
<1> QED BY <1>3, <1>5, <1>6

\* An intent's reconciliation trims rows that are in stock, or leaves all alone.
LEMMA ReconciledKeeps ==
  ASSUME NEW L \in LeaseTable, NEW q, NEW c, NEW B, Existing(L) \subseteq B,
         NEW N \in Reconciled(L, q, c, FALSE)
  PROVE  N \in LeaseTable /\ Existing(N) \subseteq B
<1>1. CASE q < Cardinality(Unexpired(L, c))
  <2>1. PICK T \in LastDue(L, Unexpired(L, c), Cardinality(Unexpired(L, c)) - q) :
               N = Move(L, T, "trimmed", NoRack, NoSlot)
        BY <1>1 DEF Reconciled, Trim
  <2>2. \A l \in Leases : l \in T => l \in B
        BY DEF LastDue, Unexpired, InStock, Existing
  <2> QED BY <2>1, <2>2, MoveType, MoveCovers DEF LeaseStatus
<1>2. CASE ~(q < Cardinality(Unexpired(L, c)))
      BY <1>2 DEF Reconciled
<1> QED BY <1>1, <1>2

\* An administrator's may also create rows.
LEMMA ReconciledType ==
  ASSUME NEW L \in LeaseTable, NEW q, NEW c \in Nat, NEW N \in Reconciled(L, q, c, TRUE)
  PROVE  N \in LeaseTable
<1>1. CASE q < Cardinality(Unexpired(L, c))
      BY <1>1, MoveType DEF Reconciled, Trim, LeaseStatus
<1>2. CASE ~(q < Cardinality(Unexpired(L, c)))
      BY <1>2, CreatedType DEF Reconciled, Mint
<1> QED BY <1>1, <1>2

LEMMA SyncType ==
  ASSUME NEW q \in [Items -> Nat], NEW L, NEW c
  PROVE  SyncStock(q, L, c) \in [Items -> Nat]
<1>1. Unexpired(L, c) \in SUBSET Leases
      BY DEF Unexpired, InStock
<1>2. Cardinality(Unexpired(L, c)) \in Nat
      BY <1>1, CountIsNat
<1> QED BY <1>2 DEF SyncStock, Items

-----------------------------------------------------------------------------
(* Copies and intents. *)

IntentRows == [on : BOOLEAN, key : Keys \cup {FreshKey, Page}, clock : Nat, copy : Copies,
               swept : SUBSET Leases, behind : Nat]
SlotTable == [Racks -> [Slots -> Contents]]

LEMMA NoIntentType == NoIntent \in IntentRows /\ NoCopy \in Copies
<1>1. Empty \in Contents
      BY DEF Empty, Content, Contents
<1>2. NoCopy \in Copies
      BY <1>1, HIAssumption DEF NoCopy, Copies, Positions, Items
<1> QED BY <1>2 DEF NoIntent, IntentRows

LEMMA CopyParts ==
  ASSUME NEW copy \in Copies
  PROVE  /\ copy.stock \in [Items -> Nat] /\ copy.at \in [Racks -> Positions]
         /\ copy.slot \in SlotTable
  BY DEF Copies, SlotTable

LEMMA CountType ==
  ASSUME NEW copy \in Copies, NEW item \in Items, NEW n \in Nat
  PROVE  Count(copy, item, n) \in Copies
<1>1. [copy.stock EXCEPT ![item] = n] \in [Items -> Nat]
      BY CopyParts
<1> QED BY <1>1 DEF Count, Copies

LEMMA BumpType ==
  ASSUME NEW copy \in Copies, NEW item \in Items, NEW n \in Int, copy.stock[item] + n >= 0
  PROVE  Bump(copy, item, n) \in Copies
<1>1. copy.stock[item] + n \in Nat
      BY CopyParts
<1> QED BY <1>1, CountType DEF Bump

LEMMA BumpUp ==
  ASSUME NEW copy \in Copies, NEW item \in Items, NEW n \in Nat
  PROVE  Bump(copy, item, n) \in Copies
<1>1. copy.stock[item] \in Nat
      BY CopyParts
<1> QED BY <1>1, BumpType

LEMMA CountedType ==
  ASSUME NEW copy \in Copies, NEW L, NEW c
  PROVE  Counted(copy, L, c) \in Copies
<1>1. Unexpired(L, c) \in SUBSET Leases
      BY DEF Unexpired, InStock
<1> QED BY <1>1, CountIsNat, CountType DEF Counted, Items

LEMMA PutType ==
  ASSUME NEW copy \in Copies, NEW r \in Racks, NEW i \in Slots, NEW x \in Contents
  PROVE  Put(copy, r, i, x) \in Copies
<1> DEFINE s == [copy.slot EXCEPT ![r] = [copy.slot[r] EXCEPT ![i] = x]]
<1>1. copy.slot[r] \in [Slots -> Contents]
      BY CopyParts DEF SlotTable
<1>2. [copy.slot[r] EXCEPT ![i] = x] \in [Slots -> Contents]
      BY <1>1
<1>3. s \in SlotTable
      BY <1>2, CopyParts DEF SlotTable
<1>4. Put(copy, r, i, x) = [copy EXCEPT !.slot = s]
      BY DEF Put
<1> HIDE DEF s
<1> QED BY <1>3, <1>4 DEF Copies, SlotTable

LEMMA TakeawayType ==
  ASSUME NEW copy \in Copies, NEW r \in Racks, NEW why \in {"removed", "swapped"}
  PROVE  Takeaway(copy, r, why) \in Copies
<1> DEFINE a == [copy.at EXCEPT ![r] = why]
           s == [copy.slot EXCEPT ![r] = [i \in Slots |-> Empty]]
<1>1. [i \in Slots |-> Empty] \in [Slots -> Contents]
      BY DEF Empty, Content, Contents
<1>2. s \in SlotTable
      BY <1>1, CopyParts DEF SlotTable
<1>3. a \in [Racks -> Positions]
      BY CopyParts DEF Positions
<1>4. Takeaway(copy, r, why) = [copy EXCEPT !.at = a, !.slot = s]
      BY DEF Takeaway
<1> HIDE DEF a, s
<1> QED BY <1>2, <1>3, <1>4 DEF Copies, SlotTable

LEMMA InIsNat == ASSUME NEW copy, NEW r, NEW item PROVE Cardinality(In(copy, r, item)) \in Nat
  BY SlotCountIsNat DEF In

LEMMA IntentParts ==
  ASSUME TypeOK, NEW t \in Txs
  PROVE  /\ intent[t] \in IntentRows /\ intent[t].copy \in Copies /\ intent[t].clock \in Nat
         /\ intent[t].swept \in SUBSET Leases
  BY DEF TypeOK, IntentRows

\* A commit ends intents or puts them further behind.
LEMMA CommittedKeeps ==
  ASSUME TypeOK, SweptBought, NEW done, Committed(done), bought \subseteq bought'
  PROVE  intent' \in [Txs -> IntentRows] /\ SweptBought'
<1>1. ASSUME NEW t \in Txs PROVE intent'[t] \in IntentRows /\ intent'[t].swept \subseteq bought
  <2>1. CASE t \in done
        BY <2>1, NoIntentType DEF Committed, NoIntent
  <2>2. CASE t \notin done /\ On(t)
    <3>1. intent'[t] = [intent[t] EXCEPT !.behind = intent[t].behind + 1]
          BY <2>2 DEF Committed
    <3>2. intent[t] \in IntentRows /\ intent[t].swept \subseteq bought
          BY IntentParts DEF SweptBought
    <3> QED BY <3>1, <3>2 DEF IntentRows
  <2>3. CASE t \notin done /\ ~On(t)
        BY <2>3, IntentParts DEF Committed, SweptBought
  <2> QED BY <2>1, <2>2, <2>3
<1>2. intent' = [t \in Txs |-> intent'[t]]
      BY DEF Committed
<1> QED BY <1>1, <1>2 DEF SweptBought

\* Whatever the rule of the intent, what it saves is typed, and its leases are
\* some that were bought.
LEMMA SaveKeeps ==
  ASSUME IInv, NEW t \in Txs, NEW L \in LeaseTable, Existing(L) \subseteq bought,
         NEW copy \in Copies, Save(t, L, copy)
  PROVE  IInv'
<1>1. TypeOK /\ SweptBought
      BY DEF IInv
<1>2. lease' \in LeaseTable /\ Existing(lease') \subseteq bought
  <2>1. PICK N : N \in Reconciled(L, copy.stock["asic"], now, FALSE) /\ N = lease'
        BY DEF Save
  <2> QED BY <2>1, ReconciledKeeps
<1>3. stock' \in [Items -> Nat]
  <2>1. PICK N : N = lease' /\ stock' = SyncStock(copy.stock, N, now)
        BY DEF Save, PersistStock
  <2> QED BY <2>1, CopyParts, SyncType
<1>4. at' \in [Racks -> Positions] /\ slot' \in SlotTable
      BY CopyParts DEF Save, PersistRacks
<1>5. intent' \in [Txs -> IntentRows] /\ SweptBought'
      BY <1>1, CommittedKeeps DEF Save
<1>6. applied' \in [Keys -> Nat] /\ bought' \subseteq Leases /\ overwritten' \in BOOLEAN
      /\ soldOverdue' \in BOOLEAN /\ now' \in Nat
  <2>1. applied \in [Keys -> Nat] /\ \A j \in Keys : applied[j] + 1 \in Nat
        BY <1>1 DEF TypeOK
  <2>2. applied' \in [Keys -> Nat]
        BY <2>1 DEF Save
  <2> QED BY <1>1, <2>2 DEF TypeOK, Save
<1>7. TypeOK'
      BY <1>2, <1>3, <1>4, <1>5, <1>6 DEF TypeOK, LeaseTable, SlotTable, IntentRows
<1>8. NothingMinted'
      BY <1>2 DEF NothingMinted, Existing, Save
<1> QED BY <1>5, <1>7, <1>8 DEF IInv

-----------------------------------------------------------------------------
(* The intents. *)

LEMMA BaseKeeps ==
  ASSUME IInv, NEW t \in Txs
  PROVE  Base(t) \in LeaseTable /\ Existing(Base(t)) \subseteq bought
<1>1. lease \in LeaseTable /\ Existing(lease) \subseteq bought
      BY DEF IInv, TypeOK, LeaseTable, NothingMinted, Existing
<1>2. \A l \in Leases : l \in intent[t].swept => l \in bought
      BY DEF IInv, SweptBought
<1> QED BY <1>1, <1>2, ExpiredKeeps DEF Base

LEMMA EquipPermanentKeeps ==
  ASSUME IInv, NEW t \in Txs, NEW r \in Racks, NEW i \in Slots, EquipPermanent(t, r, i)
  PROVE  IInv'
<1>1. PICK copy : copy = intent[t].copy
      OBVIOUS
<1>2. copy \in Copies
      BY <1>1, IntentParts DEF IInv
<1>3. copy.stock["gpu"] >= 1 /\ copy.stock["gpu"] \in Nat
      BY <1>1, <1>2, CopyParts DEF EquipPermanent, Room, Items
<1>4. PICK one : one = Bump(copy, "gpu", -1)
      OBVIOUS
<1>5. one \in Copies
      BY <1>2, <1>3, <1>4, BumpType DEF Items
<1>6. PICK x : x = Content("gpu", NoLease)
      OBVIOUS
<1>7. x \in Contents
      BY <1>6 DEF Content, Contents
<1>8. PICK out : out = Put(one, r, i, x)
      OBVIOUS
<1>9. out \in Copies
      BY <1>5, <1>7, <1>8, PutType
<1>10. PICK L : L = Base(t)
      OBVIOUS
<1>11. Save(t, L, out)
      BY <1>1, <1>4, <1>6, <1>8, <1>10 DEF EquipPermanent
<1> QED BY <1>9, <1>10, <1>11, BaseKeeps, SaveKeeps

LEMMA EquipTimedKeeps ==
  ASSUME IInv, NEW t \in Txs, NEW r \in Racks, NEW i \in Slots, EquipTimed(t, r, i)
  PROVE  IInv'
<1>1. PICK copy, c, B : copy = intent[t].copy /\ c = intent[t].clock /\ B = Base(t)
      OBVIOUS
<1>2. copy \in Copies /\ B \in LeaseTable /\ Existing(B) \subseteq bought
      BY <1>1, IntentParts, BaseKeeps DEF IInv
<1>3. PICK l \in Reservable(B, c, OthersSwept(t)) :
             Save(t, Move(B, {l}, "equipped", r, i),
                  Counted(Put(copy, r, i, Content("asic", l)), Move(B, {l}, "equipped", r, i), c))
      BY <1>1 DEF EquipTimed
<1>4. l \in Leases /\ l \in bought
      BY <1>2 DEF Reservable, Unexpired, InStock, Existing
<1>5. PICK L, x : L = Move(B, {l}, "equipped", r, i) /\ x = Content("asic", l)
      OBVIOUS
<1>6. L \in LeaseTable /\ Existing(L) \subseteq bought
  <2>1. PICK S : S = {l}
        OBVIOUS
  <2>2. \A m \in Leases : m \in S => m \in bought
        BY <1>4, <2>1
  <2>3. L = Move(B, S, "equipped", r, i)
        BY <1>5, <2>1
  <2> QED BY <1>2, <2>2, <2>3, MoveType, MoveCovers DEF LeaseStatus
<1>7. x \in Contents
      BY <1>4, <1>5 DEF Content, Contents
<1>8. PICK put : put = Put(copy, r, i, x)
      OBVIOUS
<1>9. PICK out : out = Counted(put, L, c)
      OBVIOUS
<1>10. out \in Copies
      BY <1>2, <1>7, <1>8, <1>9, PutType, CountedType
<1>11. Save(t, L, out)
      BY <1>3, <1>5, <1>8, <1>9
<1> QED BY <1>6, <1>10, <1>11, SaveKeeps

LEMMA UnequipKeeps ==
  ASSUME IInv, NEW t \in Txs, NEW r \in Racks, NEW i \in Slots, Unequip(t, r, i)
  PROVE  IInv'
<1>1. PICK copy, c, B : copy = intent[t].copy /\ c = intent[t].clock /\ B = Base(t)
      OBVIOUS
<1>2. copy \in Copies /\ B \in LeaseTable /\ Existing(B) \subseteq bought
      BY <1>1, IntentParts, BaseKeeps DEF IInv
<1>3. PICK S : Save(t, Release(B, S, c),
                    IF copy.slot[r][i].item = "asic"
                    THEN Counted(Put(copy, r, i, Empty), Release(B, S, c), c)
                    ELSE Bump(Put(copy, r, i, Empty), "gpu", 1))
      BY <1>1 DEF Unequip
<1>4. PICK L, out : L = Release(B, S, c) /\ out = Put(copy, r, i, Empty)
      OBVIOUS
<1>5. L \in LeaseTable /\ Existing(L) \subseteq bought
      BY <1>2, <1>4, ReleaseKeeps
<1>6. out \in Copies
      BY <1>2, <1>4, PutType DEF Empty, Content, Contents
<1>7. PICK saved : saved = IF copy.slot[r][i].item = "asic" THEN Counted(out, L, c)
                           ELSE Bump(out, "gpu", 1)
      OBVIOUS
<1>8. Counted(out, L, c) \in Copies /\ Bump(out, "gpu", 1) \in Copies
      BY <1>6, CountedType, BumpUp DEF Items
<1>9. saved \in Copies
      BY <1>7, <1>8
<1>10. Save(t, L, saved)
      BY <1>3, <1>4, <1>7
<1> QED BY <1>5, <1>9, <1>10, SaveKeeps

LEMMA RemoveKeeps ==
  ASSUME IInv, NEW t \in Txs, NEW r \in Racks, Remove(t, r)
  PROVE  IInv'
<1>1. PICK copy, c, B : copy = intent[t].copy /\ c = intent[t].clock /\ B = Base(t)
      OBVIOUS
<1>2. copy \in Copies /\ B \in LeaseTable /\ Existing(B) \subseteq bought
      BY <1>1, IntentParts, BaseKeeps DEF IInv
<1>3. PICK S, n : S = OnRack(B, r, c) /\ n = Cardinality(In(copy, r, "gpu"))
      OBVIOUS
<1>4. PICK L : L = Release(B, S, c)
      OBVIOUS
<1>5. L \in LeaseTable /\ Existing(L) \subseteq bought
      BY <1>2, <1>4, ReleaseKeeps
<1>6. PICK away : away = Takeaway(copy, r, "removed")
      OBVIOUS
<1>7. PICK rigs : rigs = Bump(away, "rig", 1)
      OBVIOUS
<1>8. PICK out : out = Bump(rigs, "gpu", n)
      OBVIOUS
<1>9. out \in Copies
  <2>1. away \in Copies
        BY <1>2, <1>6, TakeawayType
  <2>2. rigs \in Copies
        BY <1>7, <2>1, BumpUp DEF Items
  <2>3. n \in Nat
        BY <1>3, InIsNat
  <2> QED BY <1>8, <2>2, <2>3, BumpUp DEF Items
<1>10. PICK saved : saved = IF In(copy, r, "asic") # {} THEN Counted(out, L, c) ELSE out
      OBVIOUS
<1>11. Counted(out, L, c) \in Copies
      BY <1>9, CountedType
<1>12. saved \in Copies
      BY <1>9, <1>10, <1>11
<1>13. Save(t, L, saved)
      BY <1>1, <1>3, <1>4, <1>6, <1>7, <1>8, <1>10 DEF Remove
<1> QED BY <1>5, <1>12, <1>13, SaveKeeps

LEMMA SwappedOutType ==
  ASSUME NEW copy \in Copies, NEW r \in Racks
  PROVE  SwappedOut(copy, r) \in Copies
<1>1. PICK n, m : n = Cardinality(In(copy, r, "gpu")) /\ m = Cardinality(In(copy, r, "asic"))
      OBVIOUS
<1>2. n \in Nat /\ m \in Nat
      BY <1>1, InIsNat
<1>3. PICK away : away = Takeaway(copy, r, "swapped")
      OBVIOUS
<1>4. PICK rigs : rigs = Bump(away, "rig", 1)
      OBVIOUS
<1>5. PICK gpus : gpus = Bump(rigs, "gpu", n)
      OBVIOUS
<1>6. away \in Copies
      BY <1>3, TakeawayType
<1>7. rigs \in Copies
      BY <1>4, <1>6, BumpUp DEF Items
<1>8. gpus \in Copies
      BY <1>2, <1>5, <1>7, BumpUp DEF Items
<1>9. Bump(gpus, "asic", m) \in Copies
      BY <1>2, <1>8, BumpUp DEF Items
<1> QED BY <1>1, <1>3, <1>4, <1>5, <1>9 DEF SwappedOut

LEMMA PlaceKeeps ==
  ASSUME IInv, NEW t \in Txs, NEW p \in Places, NEW new \in Racks, Place(t, p, new)
  PROVE  IInv'
<1>1. PICK copy, B : copy = intent[t].copy /\ B = Base(t)
      OBVIOUS
<1>2. copy \in Copies /\ B \in LeaseTable /\ Existing(B) \subseteq bought
      BY <1>1, IntentParts, BaseKeeps DEF IInv
<1>3. PICK there : there = {r \in Racks : copy.at[r] = p}
      OBVIOUS
<1>4. PICK out \in IF there = {} THEN {copy} ELSE {SwappedOut(copy, r) : r \in there} :
             /\ out.stock["rig"] >= 1
             /\ Save(t, B, [Bump(out, "rig", -1) EXCEPT !.at = [@ EXCEPT ![new] = p]])
      BY <1>1, <1>3 DEF Place
<1>5. out \in Copies
  <2>1. CASE there = {}
        BY <1>2, <1>4, <2>1
  <2>2. CASE there # {}
    <3>1. PICK r \in there : out = SwappedOut(copy, r)
          BY <1>4, <2>2
    <3> QED BY <1>2, <1>3, <3>1, SwappedOutType
  <2> QED BY <2>1, <2>2
<1>6. PICK paid : paid = Bump(out, "rig", -1)
      OBVIOUS
<1>7. out.stock["rig"] >= 1 /\ out.stock["rig"] \in Nat
      BY <1>4, <1>5, CopyParts DEF Items
<1>8. paid \in Copies
      BY <1>5, <1>6, <1>7, BumpType DEF Items
<1>9. PICK a : a = [paid.at EXCEPT ![new] = p]
      OBVIOUS
<1>10. a \in [Racks -> Positions]
      BY <1>8, <1>9, CopyParts DEF Positions
<1>11. PICK saved : saved = [paid EXCEPT !.at = a]
      OBVIOUS
<1>12. saved \in Copies
      BY <1>8, <1>10, <1>11 DEF Copies
<1>13. Save(t, B, saved)
      BY <1>4, <1>6, <1>9, <1>11
<1> QED BY <1>2, <1>12, <1>13, SaveKeeps

\* What an intent reads: typed, and what it sweeps exists.
LEMMA BeginKeeps ==
  ASSUME IInv, NEW t \in Txs, NEW k \in Keys \cup {FreshKey}, Begin(t, k)
  PROVE  IInv'
<1>1. PICK D : D = Due(lease, now)
      OBVIOUS
<1>2. lease \in LeaseTable /\ Existing(lease) \subseteq bought /\ bought \subseteq Leases
      BY DEF IInv, TypeOK, LeaseTable, NothingMinted, Existing
<1>3. D \in SUBSET Leases /\ D \subseteq bought
      BY <1>1, <1>2 DEF Due, Existing
<1>4. Cleared(D) \in SlotTable
  <2>1. Empty \in Contents
        BY DEF Empty, Content, Contents
  <2> QED BY <2>1 DEF Cleared, SlotTable, IInv, TypeOK
<1>5. Recounted(D, now) \in [Items -> Nat]
  <2>1. stock \in [Items -> Nat]
        BY DEF IInv, TypeOK
  <2> QED BY <2>1, SyncType DEF Recounted
<1>6. PICK copy : copy = [stock |-> Recounted(D, now), at |-> at, slot |-> Cleared(D)]
      OBVIOUS
<1>7. copy \in Copies
      BY <1>4, <1>5, <1>6 DEF Copies, SlotTable, IInv, TypeOK
<1>8. PICK x : x = [on |-> TRUE, key |-> k, clock |-> now, swept |-> D, behind |-> 0, copy |-> copy]
      OBVIOUS
<1>9. x \in IntentRows /\ x.swept \subseteq bought
      BY <1>3, <1>7, <1>8 DEF IntentRows, IInv, TypeOK
<1>10. intent' = [intent EXCEPT ![t] = x]
      BY <1>1, <1>6, <1>8 DEF Begin
<1>11. intent \in [Txs -> IntentRows]
      BY DEF IInv, TypeOK, IntentRows
<1>12. intent' \in [Txs -> IntentRows]
      BY <1>9, <1>10, <1>11
<1>13. UNCHANGED <<now, hardware, history>>
      BY DEF Begin
<1>14. TypeOK' /\ NothingMinted'
      BY <1>12, <1>13 DEF IInv, TypeOK, NothingMinted, IntentRows, hardware, history
<1>15. SweptBought'
      BY <1>9, <1>10, <1>11, <1>13 DEF IInv, SweptBought, history
<1> QED BY <1>14, <1>15 DEF IInv

LEMMA AbortKeeps ==
  ASSUME IInv, NEW t \in Txs, Abort(t)
  PROVE  IInv'
<1>1. PICK x : x = NoIntent
      OBVIOUS
<1>2. x \in IntentRows /\ x.swept = {}
      BY <1>1, NoIntentType DEF NoIntent
<1>3. intent \in [Txs -> IntentRows]
      BY DEF IInv, TypeOK, IntentRows
<1>4. intent' = [intent EXCEPT ![t] = x] /\ UNCHANGED <<now, hardware, history>>
      BY <1>1 DEF Abort
<1>5. intent' \in [Txs -> IntentRows]
      BY <1>2, <1>3, <1>4
<1>6. TypeOK' /\ NothingMinted'
      BY <1>4, <1>5 DEF IInv, TypeOK, NothingMinted, IntentRows, hardware, history
<1>7. SweptBought'
      BY <1>2, <1>3, <1>4 DEF IInv, SweptBought, history
<1> QED BY <1>6, <1>7 DEF IInv

-----------------------------------------------------------------------------
(* What else writes the hardware.  None of it touches a key, and each of     *)
(* these steps is a commit.                                                  *)

\* A commit that leaves a typed table of leases, no more of them than were bought.
LEMMA OtherKeeps ==
  ASSUME IInv, Committed({}), bought \subseteq bought', bought' \subseteq Leases,
         lease' \in LeaseTable, Existing(lease') \subseteq bought',
         slot' \in SlotTable, stock' \in [Items -> Nat], soldOverdue' \in BOOLEAN,
         UNCHANGED <<now, at, applied, overwritten>>
  PROVE  IInv'
<1>1. TypeOK /\ SweptBought
      BY DEF IInv
<1>2. PICK none : none = {}
      OBVIOUS
<1>3. intent' \in [Txs -> IntentRows] /\ SweptBought'
      BY <1>1, <1>2, CommittedKeeps
<1>4. TypeOK'
      BY <1>1, <1>3 DEF TypeOK, LeaseTable, SlotTable, IntentRows
<1>5. NothingMinted'
      BY DEF NothingMinted, Existing
<1> QED BY <1>3, <1>4, <1>5 DEF IInv

LEMMA Parts ==
  ASSUME IInv
  PROVE  /\ lease \in LeaseTable /\ Existing(lease) \subseteq bought /\ bought \subseteq Leases
         /\ slot \in SlotTable /\ stock \in [Items -> Nat] /\ soldOverdue \in BOOLEAN
         /\ now \in Nat
  BY DEF IInv, TypeOK, LeaseTable, SlotTable, NothingMinted, Existing

LEMMA SweepKeeps == ASSUME IInv, Sweep PROVE IInv'
<1>1. PICK D : D = Due(lease, now)
      OBVIOUS
<1>2. \A l \in Leases : l \in D => l \in bought
      BY <1>1, Parts DEF Due, Existing
<1>3. lease' \in LeaseTable /\ Existing(lease') \subseteq bought
  <2>1. lease' = Expired(lease, D)
        BY <1>1 DEF Sweep
  <2>2. Expired(lease, D) \in LeaseTable /\ Existing(Expired(lease, D)) \subseteq bought
        BY <1>2, Parts, ExpiredKeeps
  <2> QED BY <2>1, <2>2
<1>4. slot' \in SlotTable
  <2>1. Empty \in Contents
        BY DEF Empty, Content, Contents
  <2>2. Cleared(D) \in SlotTable
        BY <2>1, Parts DEF Cleared, SlotTable
  <2> QED BY <1>1, <2>2 DEF Sweep
<1>5. stock' \in [Items -> Nat]
      BY <1>1, Parts, SyncType DEF Sweep, Recounted
<1> QED BY <1>3, <1>4, <1>5, Parts, OtherKeeps DEF Sweep, history

LEMMA CreditKeeps == ASSUME IInv, NEW item \in Items, Credit(item) PROVE IInv'
<1>1. stock' \in [Items -> Nat]
      BY Parts DEF Credit
<1> QED BY <1>1, Parts, OtherKeeps DEF Credit, history

LEMMA CreditLeaseKeeps == ASSUME IInv, CreditLease PROVE IInv'
<1>1. PICK S \in Fresh(lease, 1) : lease' = Created(lease, S, now) /\ bought' = bought \cup S
      BY DEF CreditLease
<1>2. S \in SUBSET Leases
      BY DEF Fresh
<1>3. lease' \in LeaseTable
      BY <1>1, Parts, CreatedType
<1>4. ASSUME NEW l \in Existing(lease') PROVE l \in bought'
  <2>1. CASE l \in S
        BY <1>1, <2>1
  <2>2. CASE l \notin S
        BY <1>1, <2>2, Parts DEF Created, Existing
  <2> QED BY <2>1, <2>2
<1>5. stock' \in [Items -> Nat]
  <2>1. PICK N : N = lease' /\ stock' = SyncStock(stock, N, now)
        BY DEF CreditLease
  <2> QED BY <2>1, Parts, SyncType
<1>6. Existing(lease') \subseteq bought'
      BY <1>4
<1> QED BY <1>1, <1>2, <1>3, <1>5, <1>6, Parts, OtherKeeps DEF CreditLease

LEMMA ListKeeps == ASSUME IInv, NEW item \in Items, List(item) PROVE IInv'
<1>1. stock' \in [Items -> Nat]
      BY Parts DEF List
<1>2. lease' \in LeaseTable /\ Existing(lease') \subseteq bought
  <2>1. CASE item = "asic"
    <3>1. PICK l \in InStock(lease) : lease' = Move(lease, {l}, "listed", NoRack, NoSlot)
          BY <2>1 DEF List
    <3>2. PICK S : S = {l}
          OBVIOUS
    <3>3. \A m \in Leases : m \in S => m \in bought
          BY <3>2, Parts DEF InStock, Existing
    <3>4. lease' = Move(lease, S, "listed", NoRack, NoSlot)
          BY <3>1, <3>2
    <3>5. Move(lease, S, "listed", NoRack, NoSlot) \in LeaseTable
          BY Parts, MoveType DEF LeaseStatus
    <3>6. Existing(Move(lease, S, "listed", NoRack, NoSlot)) \subseteq bought
          BY <3>3, Parts, MoveCovers DEF LeaseStatus
    <3> QED BY <3>4, <3>5, <3>6
  <2>2. CASE item # "asic"
        BY <2>2, Parts DEF List
  <2> QED BY <2>1, <2>2
<1> QED BY <1>1, <1>2, Parts, OtherKeeps DEF List, history

LEMMA SoldKeeps == ASSUME IInv, NEW l \in Leases, Sold(l) PROVE IInv'
<1>1. PICK S : S = {l}
      OBVIOUS
<1>2. lease' = Move(lease, S, "sold", NoRack, NoSlot)
      BY <1>1 DEF Sold
<1>3. \A m \in Leases : m \in S => m \in bought
      BY <1>1, Parts DEF Sold, Existing
<1>4. Move(lease, S, "sold", NoRack, NoSlot) \in LeaseTable
      BY Parts, MoveType DEF LeaseStatus
<1>5. Existing(Move(lease, S, "sold", NoRack, NoSlot)) \subseteq bought
      BY <1>3, Parts, MoveCovers DEF LeaseStatus
<1>6. soldOverdue' \in BOOLEAN
      BY Parts DEF Sold
<1> QED BY <1>2, <1>4, <1>5, <1>6, Parts, OtherKeeps DEF Sold

\* What an administrator's quantities make of rows and counts.
LEMMA StockedKeeps ==
  ASSUME IInv, NEW q \in [Items -> Nat], Stocked(q)
  PROVE  /\ lease' \in LeaseTable /\ Existing(lease') \subseteq bought' /\ stock' \in [Items -> Nat]
         /\ bought \subseteq bought' /\ bought' \subseteq Leases
<1>1. PICK n : n = q["asic"]
      OBVIOUS
<1>2. PICK N : N \in Reconciled(lease, n, now, TRUE) /\ N = lease' /\ stock' = SyncStock(q, N, now)
      BY <1>1 DEF Stocked, PersistStock
<1>3. lease' \in LeaseTable
      BY <1>2, Parts, ReconciledType
<1>4. bought' = bought \cup {l \in Leases : lease[l].status = "none" /\ lease'[l].status # "none"}
      BY DEF Stocked
<1>5. ASSUME NEW l \in Existing(lease') PROVE l \in bought'
      BY <1>4, Parts DEF Existing
<1>6. stock' \in [Items -> Nat]
      BY <1>2, SyncType
<1>7. Existing(lease') \subseteq bought' /\ bought \subseteq bought' /\ bought' \subseteq Leases
      BY <1>4, <1>5, Parts
<1> QED BY <1>3, <1>6, <1>7

LEMMA AdminMergeKeeps == ASSUME IInv, NEW q \in Nat, AdminMerge(q) PROVE IInv'
<1>1. PICK s : s = [stock EXCEPT !["asic"] = q]
      OBVIOUS
<1>2. s \in [Items -> Nat]
      BY <1>1, Parts DEF Items
<1>3. Stocked(s)
      BY <1>1 DEF AdminMerge
<1> QED BY <1>2, <1>3, Parts, StockedKeeps, OtherKeeps DEF AdminMerge

\* A copy that is loaded changes nothing but the intents.
LEMMA LoadKeeps ==
  ASSUME IInv, NEW t \in Txs, NEW x \in IntentRows, x.swept \subseteq bought,
         intent' = [intent EXCEPT ![t] = x], UNCHANGED <<now, hardware, history>>
  PROVE  IInv'
<1>1. intent \in [Txs -> IntentRows]
      BY DEF IInv, TypeOK, IntentRows
<1>2. intent' \in [Txs -> IntentRows]
      BY <1>1
<1>3. TypeOK' /\ NothingMinted'
      BY <1>2 DEF IInv, TypeOK, NothingMinted, IntentRows, hardware, history
<1>4. SweptBought'
      BY <1>1 DEF IInv, SweptBought, history
<1> QED BY <1>3, <1>4 DEF IInv

LEMMA CurrentType == ASSUME IInv PROVE Current \in Copies
  BY DEF IInv, TypeOK, Current, Copies

LEMMA AdminOpenKeeps == ASSUME IInv, NEW t \in Txs, AdminOpen(t) PROVE IInv'
<1>1. PICK x : x = [on |-> TRUE, key |-> Page, clock |-> 0, swept |-> {}, behind |-> 0,
                    copy |-> Current]
      OBVIOUS
<1>2. x \in IntentRows /\ x.swept \subseteq bought
      BY <1>1, CurrentType DEF IntentRows
<1>3. intent' = [intent EXCEPT ![t] = x] /\ UNCHANGED <<now, hardware, history>>
      BY <1>1 DEF AdminOpen
<1> QED BY <1>2, <1>3, LoadKeeps

LEMMA WithoutType ==
  ASSUME NEW copy \in Copies, NEW gone
  PROVE  Without(copy, gone) \in Copies
<1> DEFINE a == [r \in Racks |-> IF r \in gone THEN "taken" ELSE copy.at[r]]
           s == [r \in Racks |-> IF r \in gone THEN [i \in Slots |-> Empty] ELSE copy.slot[r]]
<1>1. [i \in Slots |-> Empty] \in [Slots -> Contents]
      BY DEF Empty, Content, Contents
<1>2. s \in SlotTable
      BY <1>1, CopyParts DEF SlotTable
<1>3. a \in [Racks -> Positions]
      BY CopyParts DEF Positions
<1>4. Without(copy, gone) = [copy EXCEPT !.at = a, !.slot = s]
      BY DEF Without
<1> HIDE DEF a, s
<1> QED BY <1>2, <1>3, <1>4 DEF Copies, SlotTable

LEMMA BackIsNat == ASSUME NEW old, NEW new, NEW item PROVE Back(old, new, item) \in Nat
<1>1. PICK n : n = Cardinality(Slots)
      OBVIOUS
<1>2. n \in Nat
      BY <1>1, HIAssumption, FS_CardinalityType
<1>3. IsFiniteSet(1..n)
      BY <1>2, FS_Interval
<1>4. IsFiniteSet(Racks \X (1..n))
      BY <1>3, HIAssumption, FS_Product
<1>5. PICK S : S = {x \in Racks \X (1..n) :
                 Cardinality(In(new, x[1], item)) + x[2] <= Cardinality(In(old, x[1], item))}
      OBVIOUS
<1>6. S \subseteq Racks \X (1..n)
      BY <1>5
<1>7. Cardinality(S) \in Nat
      BY <1>4, <1>6, FS_Subset, FS_CardinalityType
<1>8. Cardinality(Placed(old) \ Placed(new)) \in Nat
  <2>1. Placed(old) \ Placed(new) \subseteq Racks
        BY DEF Placed
  <2> QED BY <2>1, HIAssumption, FS_Subset, FS_CardinalityType
<1> QED BY <1>1, <1>5, <1>7, <1>8 DEF Back

LEMMA RefilledType ==
  ASSUME NEW copy \in Copies, NEW old, NEW new
  PROVE  Refilled(copy, old, new) \in [Items -> Nat]
<1>1. ASSUME NEW item \in Items PROVE copy.stock[item] + Back(old, new, item) \in Nat
  <2>1. copy.stock[item] \in Nat
        BY CopyParts
  <2> QED BY <2>1, BackIsNat
<1> QED BY <1>1 DEF Refilled

\* A page that is saved, whatever it makes of rows and counts.
LEMMA PageKeeps ==
  ASSUME IInv, NEW t \in Txs, NEW copy \in Copies, PersistPage(t, copy),
         bought \subseteq bought', bought' \subseteq Leases,
         lease' \in LeaseTable, Existing(lease') \subseteq bought', stock' \in [Items -> Nat]
  PROVE  IInv'
<1>1. TypeOK /\ SweptBought
      BY DEF IInv
<1>2. PICK done : done = {t}
      OBVIOUS
<1>3. intent' \in [Txs -> IntentRows] /\ SweptBought'
      BY <1>1, <1>2, CommittedKeeps DEF PersistPage
<1>4. at' \in [Racks -> Positions] /\ slot' \in SlotTable
      BY CopyParts DEF PersistPage, PersistRacks
<1>5. overwritten' \in BOOLEAN
      BY DEF PersistPage
<1>6. UNCHANGED <<now, applied, soldOverdue>>
      BY DEF PersistPage
<1>7. TypeOK'
      BY <1>1, <1>3, <1>4, <1>5, <1>6 DEF TypeOK, LeaseTable, SlotTable, IntentRows
<1>8. NothingMinted'
      BY DEF NothingMinted, Existing
<1> QED BY <1>3, <1>7, <1>8 DEF IInv

LEMMA AdminSaveKeeps == ASSUME IInv, NEW t \in Txs, NEW gone, AdminSave(t, gone) PROVE IInv'
<1>1. PICK copy, next : copy = intent[t].copy /\ next = Without(copy, gone)
      OBVIOUS
<1>2. copy \in Copies /\ next \in Copies
      BY <1>1, IntentParts, WithoutType DEF IInv
<1>3. PICK page : page = Refilled(copy, copy, next)
      OBVIOUS
<1>4. page \in [Items -> Nat]
      BY <1>2, <1>3, RefilledType
<1>5. \A item \in Items : Merged(page, item) \in Nat
      BY <1>4, Parts DEF Merged
<1>6. PICK left : left = [stock EXCEPT !["gpu"] = Merged(page, "gpu"), !["rig"] = Merged(page, "rig")]
      OBVIOUS
<1>7. left \in [Items -> Nat]
      BY <1>5, <1>6, Parts DEF Items
<1>8. PICK gpu \in {left["gpu"]} \cup 0..MaxQty :
        \/ /\ page["asic"] = 0
           /\ stock' = [left EXCEPT !["gpu"] = gpu] /\ UNCHANGED <<lease, bought>>
        \/ \E asic \in {page["asic"]} \cup 0..MaxQty :
             Stocked([left EXCEPT !["gpu"] = gpu, !["asic"] = asic])
      BY <1>1, <1>3, <1>6 DEF AdminSave
<1>9. gpu \in Nat
      BY <1>7, HIAssumption DEF Items
<1>10. PersistPage(t, next)
      BY <1>1 DEF AdminSave
<1>11. CASE stock' = [left EXCEPT !["gpu"] = gpu] /\ UNCHANGED <<lease, bought>>
  <2>1. stock' \in [Items -> Nat]
        BY <1>7, <1>9, <1>11
  <2> QED BY <1>2, <1>10, <1>11, <2>1, Parts, PageKeeps
<1>12. ASSUME NEW asic \in {page["asic"]} \cup 0..MaxQty,
              Stocked([left EXCEPT !["gpu"] = gpu, !["asic"] = asic])
       PROVE  IInv'
  <2>1. asic \in Nat
        BY <1>4, HIAssumption DEF Items
  <2>2. PICK s : s = [left EXCEPT !["gpu"] = gpu, !["asic"] = asic]
        OBVIOUS
  <2>3. s \in [Items -> Nat]
        BY <1>7, <1>9, <2>1, <2>2
  <2>4. Stocked(s)
        BY <1>12, <2>2
  <2> QED BY <1>2, <1>10, <2>3, <2>4, StockedKeeps, PageKeeps
<1> QED BY <1>8, <1>11, <1>12

LEMMA RevokeRoomsKeeps == ASSUME IInv, NEW t \in Txs, NEW gone, RevokeRooms(t, gone) PROVE IInv'
<1>1. PICK next, q : /\ next = Without(intent[t].copy, gone)
                     /\ q = Refilled(Current, Current, next)
      OBVIOUS
<1>2. next \in Copies /\ q \in [Items -> Nat]
      BY <1>1, IntentParts, WithoutType, CurrentType, RefilledType DEF IInv
<1>3. PersistPage(t, next) /\ bought' = bought
      BY <1>1 DEF RevokeRooms
<1>4. CASE stock' = q /\ UNCHANGED lease
      BY <1>2, <1>3, <1>4, Parts, PageKeeps
<1>5. CASE lease' \in Reconciled(lease, q["asic"], now, FALSE) /\ stock' = PersistStock(q, lease')
  <2>1. PICK n, N : n = q["asic"] /\ N \in Reconciled(lease, n, now, FALSE) /\ N = lease'
        BY <1>5
  <2>2. N \in LeaseTable /\ Existing(N) \subseteq bought
        BY <2>1, Parts, ReconciledKeeps
  <2>3. stock' = SyncStock(q, N, now)
        BY <1>5, <2>1 DEF PersistStock
  <2>4. stock' \in [Items -> Nat]
        BY <1>2, <2>3, SyncType
  <2> QED BY <1>2, <1>3, <2>1, <2>2, <2>4, Parts, PageKeeps
<1> QED BY <1>1, <1>4, <1>5 DEF RevokeRooms

LEMMA AdvanceKeeps == ASSUME IInv, Advance PROVE IInv'
<1>1. now' \in Nat
      BY Parts DEF Advance
<1> QED BY <1>1 DEF IInv, TypeOK, NothingMinted, SweptBought, Advance, hardware, history

-----------------------------------------------------------------------------

LEMMA InitHolds == Init => IInv /\ KeyAppliesOnce
<1> SUFFICES ASSUME Init PROVE IInv /\ KeyAppliesOnce
    OBVIOUS
<1>1. Row("none", 0, NoRack, NoSlot) \in LeaseRows /\ Row("none", 0, NoRack, NoSlot).status = "none"
      BY RowIsRow DEF LeaseStatus
<1>2. lease \in LeaseTable /\ \A l \in Leases : lease[l].status = "none"
      BY <1>1 DEF Init, LeaseTable
<1>3. slot \in SlotTable /\ at \in [Racks -> Positions] /\ stock \in [Items -> Nat]
      BY NoIntentType, CopyParts, HIAssumption DEF Init, Items
<1>4. intent \in [Txs -> IntentRows] /\ \A t \in Txs : intent[t].swept = {}
      BY NoIntentType DEF Init, NoIntent
<1>5. TypeOK
      BY <1>2, <1>3, <1>4 DEF TypeOK, Init, LeaseTable, SlotTable, IntentRows
<1>6. NothingMinted /\ SweptBought
      BY <1>2, <1>4 DEF NothingMinted, SweptBought
<1>7. KeyAppliesOnce
      BY DEF Init, KeyAppliesOnce
<1> QED BY <1>5, <1>6, <1>7 DEF IInv

LEMMA StepHolds == IInv /\ [Next]_vars => IInv'
<1> SUFFICES ASSUME IInv, [Next]_vars PROVE IInv'
    OBVIOUS
<1>1. CASE Advance
      BY <1>1, AdvanceKeeps
<1>2. CASE Sweep
      BY <1>2, SweepKeeps
<1>3. CASE CreditLease
      BY <1>3, CreditLeaseKeeps
<1>4. CASE Credit("gpu")
      BY <1>4, CreditKeeps DEF Items
<1>5. CASE \E item \in {"gpu", "asic"} : List(item)
      BY <1>5, ListKeeps DEF Items
<1>6. CASE \E l \in Leases : Sold(l)
      BY <1>6, SoldKeeps
<1>7. CASE \E q \in 0..MaxQty : AdminMerge(q)
  <2>1. PICK q \in 0..MaxQty : AdminMerge(q)
        BY <1>7
  <2>2. q \in Nat
        BY HIAssumption
  <2> QED BY <2>1, <2>2, AdminMergeKeeps
<1>8. ASSUME NEW t \in Txs, Intent(t) PROVE IInv'
  <2>1. CASE \E k \in Keys \cup {FreshKey} : Begin(t, k)
        BY <2>1, BeginKeeps
  <2>2. CASE \E r \in Racks, i \in Slots : EquipPermanent(t, r, i)
        BY <2>2, EquipPermanentKeeps
  <2>3. CASE \E r \in Racks, i \in Slots : EquipTimed(t, r, i)
        BY <2>3, EquipTimedKeeps
  <2>4. CASE \E r \in Racks, i \in Slots : Unequip(t, r, i)
        BY <2>4, UnequipKeeps
  <2>5. CASE \E r \in Racks : Remove(t, r)
        BY <2>5, RemoveKeeps
  <2>6. CASE \E p \in Places, r \in Racks : Place(t, p, r)
        BY <2>6, PlaceKeeps
  <2>7. CASE Abort(t)
        BY <2>7, AbortKeeps
  <2> QED BY <1>8, <2>1, <2>2, <2>3, <2>4, <2>5, <2>6, <2>7 DEF Intent
<1>9. ASSUME NEW t \in Txs, Administrator(t) PROVE IInv'
      BY <1>9, AdminOpenKeeps, AdminSaveKeeps, RevokeRoomsKeeps DEF Administrator
<1>10. CASE UNCHANGED vars
      BY <1>10 DEF vars, hardware, history, IInv, TypeOK, NothingMinted, SweptBought
<1> QED BY <1>1, <1>2, <1>3, <1>4, <1>5, <1>6, <1>7, <1>8, <1>9, <1>10 DEF Next

\* The unique idempotency row lets one of the attempts with a key commit.
LEMMA SaveKeepsKeys ==
  ASSUME TypeOK, KeyAppliesOnce, NEW t \in Txs, NEW L, NEW copy, Save(t, L, copy)
  PROVE  KeyAppliesOnce'
<1>1. PICK k : k = intent[t].key
      OBVIOUS
<1>2. k \in Keys => applied[k] = 0
      BY <1>1 DEF Save, KeyFree
<1>3. applied' = [j \in Keys |-> IF j = k THEN applied[j] + 1 ELSE applied[j]]
      BY <1>1 DEF Save
<1>4. ASSUME NEW j \in Keys PROVE applied'[j] <= 1
  <2>1. CASE j = k
        BY <1>2, <1>3, <2>1
  <2>2. CASE j # k
        BY <1>3, <2>2 DEF KeyAppliesOnce
  <2> QED BY <2>1, <2>2
<1> QED BY <1>4 DEF KeyAppliesOnce

LEMMA KeyStep == TypeOK /\ KeyAppliesOnce /\ [Next]_vars => KeyAppliesOnce'
<1> SUFFICES ASSUME TypeOK, KeyAppliesOnce, [Next]_vars PROVE KeyAppliesOnce'
    OBVIOUS
<1>1. CASE UNCHANGED applied
      BY <1>1 DEF KeyAppliesOnce
<1>2. ASSUME NEW t \in Txs, Intent(t) PROVE KeyAppliesOnce'
  <2>1. CASE \E k \in Keys \cup {FreshKey} : Begin(t, k)
        BY <1>1, <2>1 DEF Begin, history
  <2>2. CASE Abort(t)
        BY <1>1, <2>2 DEF Abort, history
  <2>3. ASSUME NEW r \in Racks, NEW i \in Slots, EquipPermanent(t, r, i) PROVE KeyAppliesOnce'
        BY <2>3, SaveKeepsKeys DEF EquipPermanent
  <2>4. ASSUME NEW r \in Racks, NEW i \in Slots, EquipTimed(t, r, i) PROVE KeyAppliesOnce'
        BY <2>4, SaveKeepsKeys DEF EquipTimed
  <2>5. ASSUME NEW r \in Racks, NEW i \in Slots, Unequip(t, r, i) PROVE KeyAppliesOnce'
        BY <2>5, SaveKeepsKeys DEF Unequip
  <2>6. ASSUME NEW r \in Racks, Remove(t, r) PROVE KeyAppliesOnce'
        BY <2>6, SaveKeepsKeys DEF Remove
  <2>7. ASSUME NEW p \in Places, NEW r \in Racks, Place(t, p, r) PROVE KeyAppliesOnce'
        BY <2>7, SaveKeepsKeys DEF Place
  <2> QED BY <1>2, <2>1, <2>2, <2>3, <2>4, <2>5, <2>6, <2>7 DEF Intent
<1>3. CASE Advance \/ Sweep \/ CreditLease \/ Credit("gpu")
      BY <1>1, <1>3 DEF Advance, Sweep, CreditLease, Credit, history
<1>4. CASE \/ \E item \in {"gpu", "asic"} : List(item)
           \/ \E l \in Leases : Sold(l)
           \/ \E q \in 0..MaxQty : AdminMerge(q)
           \/ \E t \in Txs : Administrator(t)
      BY <1>1, <1>4 DEF List, Sold, AdminMerge, Administrator, AdminOpen, AdminSave, RevokeRooms,
                        PersistPage, history
<1>5. CASE UNCHANGED vars
      BY <1>1, <1>5 DEF vars, history
<1> QED BY <1>2, <1>3, <1>4, <1>5 DEF Next

-----------------------------------------------------------------------------

\* Whatever intents, sales, credits and sweeps do, rows, slots, positions,
\* quantities and open intents keep their types; no quantity falls below zero.
THEOREM TypeCorrect == Spec => []TypeOK
<1>1. Init => IInv
      BY InitHolds
<1>2. IInv /\ [Next]_vars => IInv'
      BY StepHolds
<1>3. IInv => TypeOK
      BY DEF IInv
<1> QED BY <1>1, <1>2, <1>3, PTL DEF Spec

\* However intents interleave and whatever a stale copy claims, no machine with a
\* validity exists that no credit and no administrator created.
THEOREM NothingMintedEver == Spec => []NothingMinted
<1>1. Init => IInv
      BY InitHolds
<1>2. IInv /\ [Next]_vars => IInv'
      BY StepHolds
<1>3. IInv => NothingMinted
      BY DEF IInv
<1> QED BY <1>1, <1>2, <1>3, PTL DEF Spec

\* A key that is retried, also while the first attempt is still running, is
\* applied once, however many attempts run at a time.
THEOREM KeyOnce == Spec => []KeyAppliesOnce
<1>1. Init => KeyAppliesOnce
      BY InitHolds
<1>2. TypeOK /\ KeyAppliesOnce /\ [Next]_vars => KeyAppliesOnce'
      BY KeyStep
<1> QED BY <1>1, <1>2, TypeCorrect, PTL DEF Spec

-----------------------------------------------------------------------------
(* The count and the rows.  Matches is StockMatchesLeases of a version N of *)
(* the rows, a clock c and a count n.                                       *)

Overdue(N, c) == \E l \in Leases : N[l].status \in {"stock", "listed"} /\ N[l].due <= c
Matches(N, c, n, sold) == sold \/ Overdue(N, c) \/ n = Cardinality(InStock(N))

LEMMA MatchesIsProperty ==
  /\ StockMatchesLeases <=> Matches(lease, now, stock["asic"], soldOverdue)
  /\ StockMatchesLeases' <=> Matches(lease', now', stock'["asic"], soldOverdue')
<1>1. (\E l \in Due(lease, now) : lease[l].status \in {"stock", "listed"}) <=> Overdue(lease, now)
      BY DEF Due, Overdue
<1>2. (\E l \in Due(lease, now)' : lease'[l].status \in {"stock", "listed"})
        <=> Overdue(lease', now')
      BY DEF Due, Overdue
<1>3. Cardinality(InStock(lease))' = Cardinality(InStock(lease'))
      BY DEF InStock
<1> QED BY <1>1, <1>2, <1>3 DEF StockMatchesLeases, Matches

\* What has just been counted matches: a unit the count leaves out is overdue.
LEMMA CountedMatches ==
  ASSUME NEW N \in LeaseTable, NEW c \in Nat, NEW sold
  PROVE  Matches(N, c, Cardinality(Unexpired(N, c)), sold)
<1>1. \A l \in Leases : N[l].due \in Nat
      BY DEF LeaseTable, LeaseRows
<1>2. CASE \E l \in InStock(N) : N[l].due <= c
      BY <1>2 DEF InStock, Overdue, Matches
<1>3. CASE \A l \in InStock(N) : ~(N[l].due <= c)
  <2>1. Unexpired(N, c) = InStock(N)
        BY <1>1, <1>3 DEF Unexpired, InStock
  <2> QED BY <2>1 DEF Matches
<1> QED BY <1>2, <1>3

\* Whoever writes the count from the rows as its last statement leaves a match.
LEMMA CountedStep ==
  ASSUME TypeOK, TypeOK', NEW q, now' = now, stock' = SyncStock(q, lease', now)
  PROVE  StockMatchesLeases'
<1>1. lease' \in LeaseTable /\ now \in Nat
      BY DEF TypeOK, LeaseTable
<1>2. PICK n : n = Cardinality(Unexpired(lease', now))
      OBVIOUS
<1>3. stock' = [q EXCEPT !["asic"] = n]
      BY <1>2 DEF SyncStock
<1>4. stock' \in [Items -> Nat] /\ "asic" \in Items
      BY DEF TypeOK, Items
<1>5. stock'["asic"] = n
      BY <1>3, <1>4
<1> QED BY <1>1, <1>2, <1>5, CountedMatches, MatchesIsProperty

\* A unit that leaves the stock, or one that is bought off a listing.
LEMMA ListMatchesCount ==
  ASSUME TypeOK, StockMatchesLeases, NEW item \in {"gpu", "asic"}, List(item)
  PROVE  StockMatchesLeases'
<1>1. /\ stock' = [stock EXCEPT ![item] = @ - 1] /\ now' = now /\ soldOverdue' = soldOverdue
      /\ lease \in LeaseTable /\ stock \in [Items -> Nat]
      BY DEF List, history, TypeOK, LeaseTable
<1>2. CASE item = "gpu"
  <2>1. lease' = lease /\ stock'["asic"] = stock["asic"]
        BY <1>1, <1>2 DEF List, Items
  <2> QED BY <1>1, <2>1, MatchesIsProperty
<1>3. CASE item = "asic"
  <2>1. PICK l \in InStock(lease) : lease' = Move(lease, {l}, "listed", NoRack, NoSlot)
        BY <1>3 DEF List
  <2>2. PICK N : N = lease'
        OBVIOUS
  <2>3. \A k \in Leases : /\ N[k].due = lease[k].due
                          /\ N[k].status = IF k = l THEN "listed" ELSE lease[k].status
        BY <2>1, <2>2 DEF Move, Row
  <2>4. Overdue(lease, now) => Overdue(N, now)
        BY <2>3 DEF Overdue
  <2>5. InStock(N) = InStock(lease) \ {l}
        BY <2>3 DEF InStock
  <2>6. IsFiniteSet(InStock(lease))
        BY HIAssumption, FS_Subset DEF InStock
  <2>7. Cardinality(InStock(N)) = Cardinality(InStock(lease)) - 1
        BY <2>1, <2>5, <2>6, FS_RemoveElement
  <2>8. stock'["asic"] = stock["asic"] - 1
        BY <1>1, <1>3 DEF Items
  <2> QED BY <1>1, <2>2, <2>4, <2>7, <2>8, MatchesIsProperty DEF Matches
<1> QED BY <1>2, <1>3

LEMMA SoldMatchesCount ==
  ASSUME TypeOK, StockMatchesLeases, NEW l \in Leases, Sold(l)
  PROVE  StockMatchesLeases'
<1>1. PICK N : N = lease'
      OBVIOUS
<1>2. /\ lease[l].status = "listed" /\ N = Move(lease, {l}, "sold", NoRack, NoSlot)
      /\ soldOverdue' = (soldOverdue \/ lease[l].due <= now)
      /\ now' = now /\ stock' = stock
      BY <1>1 DEF Sold
<1>3. \A k \in Leases : /\ N[k].due = lease[k].due
                        /\ N[k].status = IF k = l THEN "sold" ELSE lease[k].status
      BY <1>2 DEF Move, Row
<1>4. CASE soldOverdue \/ lease[l].due <= now
      BY <1>2, <1>4 DEF StockMatchesLeases
<1>5. CASE ~soldOverdue /\ ~(lease[l].due <= now)
  <2>1. Overdue(lease, now) => Overdue(N, now)
        BY <1>3, <1>5 DEF Overdue
  <2>2. InStock(N) = InStock(lease)
        BY <1>2, <1>3 DEF InStock
  <2> QED BY <1>1, <1>2, <1>5, <2>1, <2>2, MatchesIsProperty DEF Matches
<1> QED BY <1>4, <1>5

\* Time only makes units overdue.
LEMMA TimeMatchesCount ==
  ASSUME TypeOK, StockMatchesLeases, lease' = lease, stock'["asic"] = stock["asic"],
         soldOverdue' = soldOverdue, now' \in Nat, now <= now'
  PROVE  StockMatchesLeases'
<1>1. \A l \in Leases : lease[l].due \in Nat
      BY DEF TypeOK, LeaseRows
<1>2. now \in Nat
      BY DEF TypeOK
<1>3. Overdue(lease, now) => Overdue(lease, now')
      BY <1>1, <1>2 DEF Overdue
<1> QED BY <1>3, MatchesIsProperty DEF Matches

LEMMA SaveMatchesCount ==
  ASSUME TypeOK, TypeOK', NEW t \in Txs, NEW L, NEW copy, Save(t, L, copy)
  PROVE  StockMatchesLeases'
<1>1. stock' = SyncStock(copy.stock, lease', now) /\ now' = now
      BY DEF Save, PersistStock
<1> QED BY <1>1, CountedStep

LEMMA SweepMatchesCount == ASSUME TypeOK, TypeOK', Sweep PROVE StockMatchesLeases'
<1>1. PICK D : /\ D # {} /\ lease' = Expired(lease, D) /\ stock' = Recounted(D, now) /\ now' = now
      BY DEF Sweep
<1>2. stock' = SyncStock(stock, lease', now)
      BY <1>1 DEF Recounted
<1> QED BY <1>1, <1>2, CountedStep

\* A page counts the rows, or leaves rows and count of such a machine alone.
LEMMA AdminSaveMatchesCount ==
  ASSUME TypeOK, TypeOK', StockMatchesLeases, NEW t \in Txs, NEW gone, AdminSave(t, gone)
  PROVE  StockMatchesLeases'
<1>1. PICK page : page = Refilled(intent[t].copy, intent[t].copy, Without(intent[t].copy, gone))
      OBVIOUS
<1>2. PICK left : left = [stock EXCEPT !["gpu"] = Merged(page, "gpu"), !["rig"] = Merged(page, "rig")]
      OBVIOUS
<1>3. PICK gpu \in {left["gpu"]} \cup 0..MaxQty :
        \/ stock' = [left EXCEPT !["gpu"] = gpu] /\ UNCHANGED lease
        \/ \E asic \in {page["asic"]} \cup 0..MaxQty :
             Stocked([left EXCEPT !["gpu"] = gpu, !["asic"] = asic])
      BY <1>1, <1>2 DEF AdminSave
<1>4. now' = now /\ soldOverdue' = soldOverdue
      BY DEF AdminSave, PersistPage
<1>5. CASE stock' = [left EXCEPT !["gpu"] = gpu] /\ UNCHANGED lease
  <2>1. stock'["asic"] = stock["asic"]
        BY <1>2, <1>5 DEF TypeOK, Items
  <2>2. now' \in Nat /\ now <= now'
        BY <1>4 DEF TypeOK
  <2> QED BY <1>4, <1>5, <2>1, <2>2, TimeMatchesCount
<1>6. CASE \E asic \in {page["asic"]} \cup 0..MaxQty :
             Stocked([left EXCEPT !["gpu"] = gpu, !["asic"] = asic])
      BY <1>4, <1>6, CountedStep DEF Stocked, PersistStock
<1> QED BY <1>3, <1>5, <1>6

LEMMA RevokeMatchesCount ==
  ASSUME TypeOK, TypeOK', StockMatchesLeases, NEW t \in Txs, NEW gone, RevokeRooms(t, gone)
  PROVE  StockMatchesLeases'
<1>1. PICK next : next = Without(intent[t].copy, gone)
      OBVIOUS
<1>2. PICK q : q = Refilled(Current, Current, next)
      OBVIOUS
<1>3. now' = now /\ soldOverdue' = soldOverdue
      BY DEF RevokeRooms, PersistPage
<1>4. CASE Back(Current, next, "asic") = 0
  <2>1. stock' = q /\ UNCHANGED lease
        BY <1>1, <1>2, <1>4 DEF RevokeRooms
  <2>2. q["asic"] = stock["asic"] + 0
        BY <1>2, <1>4 DEF Refilled, Current, Items
  <2>3. stock["asic"] \in Nat /\ now' \in Nat /\ now <= now'
        BY <1>3 DEF TypeOK, Items
  <2>4. stock'["asic"] = stock["asic"]
        BY <2>1, <2>2, <2>3
  <2> QED BY <1>3, <2>1, <2>3, <2>4, TimeMatchesCount
<1>5. CASE Back(Current, next, "asic") # 0
  <2>1. stock' = SyncStock(q, lease', now)
        BY <1>1, <1>2, <1>5 DEF RevokeRooms, PersistStock
  <2> QED BY <1>3, <2>1, CountedStep
<1> QED BY <1>4, <1>5

LEMMA StockStep ==
  TypeOK /\ TypeOK' /\ StockMatchesLeases /\ [Next]_vars => StockMatchesLeases'
<1> SUFFICES ASSUME TypeOK, TypeOK', StockMatchesLeases, [Next]_vars PROVE StockMatchesLeases'
    OBVIOUS
<1>1. CASE /\ lease' = lease /\ stock'["asic"] = stock["asic"] /\ soldOverdue' = soldOverdue
           /\ now' \in {now, now + 1}
  <2>1. now' \in Nat /\ now <= now'
        BY <1>1 DEF TypeOK
  <2> QED BY <1>1, <2>1, TimeMatchesCount
<1>2. CASE Advance \/ Credit("gpu") \/ UNCHANGED vars
  <2>1. stock'["asic"] = stock["asic"]
        BY <1>2 DEF Advance, Credit, vars, hardware, TypeOK, Items
  <2>2. lease' = lease /\ soldOverdue' = soldOverdue /\ now' \in {now, now + 1}
        BY <1>2 DEF Advance, Credit, vars, hardware, history
  <2> QED BY <1>1, <2>1, <2>2
<1>3. CASE CreditLease
      BY <1>3, CountedStep DEF CreditLease
<1>4. CASE \E q \in 0..MaxQty : AdminMerge(q)
      BY <1>4, CountedStep DEF AdminMerge, Stocked, PersistStock
<1>5. ASSUME NEW t \in Txs, Intent(t) PROVE StockMatchesLeases'
  <2>1. CASE (\E k \in Keys \cup {FreshKey} : Begin(t, k)) \/ Abort(t)
        BY <1>1, <2>1 DEF Begin, Abort, hardware, history
  <2>2. ASSUME NEW r \in Racks, NEW i \in Slots, EquipPermanent(t, r, i) PROVE StockMatchesLeases'
        BY <2>2, SaveMatchesCount DEF EquipPermanent
  <2>3. ASSUME NEW r \in Racks, NEW i \in Slots, EquipTimed(t, r, i) PROVE StockMatchesLeases'
        BY <2>3, SaveMatchesCount DEF EquipTimed
  <2>4. ASSUME NEW r \in Racks, NEW i \in Slots, Unequip(t, r, i) PROVE StockMatchesLeases'
        BY <2>4, SaveMatchesCount DEF Unequip
  <2>5. ASSUME NEW r \in Racks, Remove(t, r) PROVE StockMatchesLeases'
        BY <2>5, SaveMatchesCount DEF Remove
  <2>6. ASSUME NEW p \in Places, NEW r \in Racks, Place(t, p, r) PROVE StockMatchesLeases'
        BY <2>6, SaveMatchesCount DEF Place
  <2> QED BY <1>5, <2>1, <2>2, <2>3, <2>4, <2>5, <2>6 DEF Intent
<1>6. ASSUME NEW t \in Txs, Administrator(t) PROVE StockMatchesLeases'
  <2>1. CASE AdminOpen(t)
        BY <1>1, <2>1 DEF AdminOpen, hardware, history
  <2>2. CASE \E gone \in SUBSET Racks : AdminSave(t, gone)
        BY <2>2, AdminSaveMatchesCount
  <2>3. CASE \E gone \in SUBSET Racks : RevokeRooms(t, gone)
        BY <2>3, RevokeMatchesCount
  <2> QED BY <1>6, <2>1, <2>2, <2>3 DEF Administrator
<1> QED BY <1>2, <1>3, <1>4, <1>5, <1>6, SweepMatchesCount, ListMatchesCount, SoldMatchesCount DEF Next

LEMMA InitMatchesCount == Init => StockMatchesLeases
<1> SUFFICES ASSUME Init PROVE StockMatchesLeases
    OBVIOUS
<1>1. InStock(lease) = {}
      BY DEF Init, InStock, Row
<1>2. stock["asic"] = 0
      BY HIAssumption DEF Init
<1> QED BY <1>1, <1>2, FS_EmptySet DEF StockMatchesLeases

\* The count the player sees is the number of units in stock as soon as none of
\* them is overdue, whichever of listings, sales, credits, administrators, sweeps
\* and intents wrote it last and with whatever clock.
THEOREM CountFollowsLeases == Spec => []StockMatchesLeases
<1>1. Init => StockMatchesLeases
      BY InitMatchesCount
<1>2. TypeOK /\ TypeOK' /\ StockMatchesLeases /\ [Next]_vars => StockMatchesLeases'
      BY StockStep
<1> QED BY <1>1, <1>2, TypeCorrect, PTL DEF Spec

=============================================================================
