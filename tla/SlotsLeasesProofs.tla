------------------------- MODULE SlotsLeasesProofs --------------------------
(***************************************************************************)
(* Slots and leases agree until an intent or an administrator's page is    *)
(* saved over a commit it had not loaded, for every number of leases,      *)
(* racks, slots and intents.  An intent that nothing overtook holds what   *)
(* the sweep of its own makes of the rows; what its rule then does to      *)
(* leases and slots belongs together, and the reconciliation leaves every  *)
(* mounted lease alone.  It creates and destroys no machine or chassis     *)
(* either: the count it loaded covers the leases it sees running, so       *)
(* nothing that runs is trimmed.  A page only takes racks away.            *)
(***************************************************************************)
EXTENDS HardwareIntentsProofs

\* Slots s, positions a and leases L say the same about what is mounted where.
Agree(L, s, a) ==
  /\ \A r \in Racks, i \in Slots :
       IF s[r][i].item = "asic"
       THEN /\ s[r][i].lease \in Leases /\ L[s[r][i].lease].status = "equipped"
            /\ L[s[r][i].lease].rack = r /\ L[s[r][i].lease].slot = i
       ELSE s[r][i].lease = NoLease
  /\ \A l \in Leases : L[l].status = "equipped" =>
       /\ L[l].rack \in Racks /\ L[l].slot \in Slots
       /\ s[L[l].rack][L[l].slot].lease = l \/ a[L[l].rack] \in {"swapped", "taken"}

Undisturbed(t) == Runs(t) /\ intent[t].behind = 0

\* What an intent, or an administrator's page, has loaded is current while no
\* commit came in between.
LoadedIsCurrent ==
  /\ \A t \in Txs : Undisturbed(t) =>
       /\ intent[t].copy.slot = Cleared(intent[t].swept) /\ intent[t].copy.at = at
       /\ intent[t].swept = Due(lease, intent[t].clock)
  /\ \A t \in Txs : Opened(t) /\ intent[t].behind = 0 =>
       intent[t].copy.slot = slot /\ intent[t].copy.at = at

SInv == (~overwritten => Agree(lease, slot, at)) /\ LoadedIsCurrent

-----------------------------------------------------------------------------
(* What changes lease rows without changing what is mounted. *)

SameMounted(L, N) ==
  \A l \in Leases : /\ N[l].status = "equipped" <=> L[l].status = "equipped"
                    /\ L[l].status = "equipped" => N[l] = L[l]

LEMMA SameAgrees ==
  ASSUME NEW L, NEW N, NEW s, NEW a, SameMounted(L, N), Agree(L, s, a)
  PROVE  Agree(N, s, a)
  BY DEF SameMounted, Agree

LEMMA RowStatus ==
  ASSUME NEW status, NEW due, NEW r, NEW i
  PROVE  /\ Row(status, due, r, i).status = status /\ Row(status, due, r, i).rack = r
         /\ Row(status, due, r, i).slot = i /\ Row(status, due, r, i).due = due
  BY DEF Row

LEMMA MoveSame ==
  ASSUME NEW L, NEW S, NEW status, NEW r, NEW i, status # "equipped",
         \A l \in Leases : l \in S => L[l].status # "equipped"
  PROVE  SameMounted(L, Move(L, S, status, r, i))
  BY RowStatus DEF SameMounted, Move

LEMMA CreatedSame ==
  ASSUME NEW L, NEW new, NEW c, \A l \in Leases : l \in new => L[l].status # "equipped"
  PROVE  SameMounted(L, Created(L, new, c))
  BY RowStatus DEF SameMounted, Created

LEMMA ReconciledSame ==
  ASSUME NEW L, NEW q, NEW c, NEW mint \in BOOLEAN, NEW N \in Reconciled(L, q, c, mint)
  PROVE  SameMounted(L, N)
<1>1. CASE q < Cardinality(Unexpired(L, c))
  <2>1. PICK T \in LastDue(L, Unexpired(L, c), Cardinality(Unexpired(L, c)) - q) :
               N = Move(L, T, "trimmed", NoRack, NoSlot)
        BY <1>1 DEF Reconciled, Trim
  <2>2. \A l \in Leases : l \in T => L[l].status # "equipped"
        BY DEF LastDue, Unexpired, InStock
  <2> QED BY <2>1, <2>2, MoveSame
<1>2. CASE ~(q < Cardinality(Unexpired(L, c))) /\ mint
  <2>1. PICK n, S : S \in Fresh(L, n) /\ N = Created(L, S, c)
        BY <1>2 DEF Reconciled, Mint
  <2>2. \A l \in Leases : l \in S => L[l].status # "equipped"
        BY <2>1 DEF Fresh
  <2> QED BY <2>1, <2>2, CreatedSame
<1>3. CASE ~(q < Cardinality(Unexpired(L, c))) /\ ~mint
      BY <1>3 DEF Reconciled, SameMounted
<1> QED BY <1>1, <1>2, <1>3

\* A release takes rows out of their slots and mounts none.
LEMMA ReleaseRows ==
  ASSUME NEW L, NEW S, NEW c
  PROVE  \A l \in Leases :
           /\ \/ Release(L, S, c)[l] = L[l]
              \/ l \in S /\ Release(L, S, c)[l].status \in {"stock", "expired"}
           /\ l \in S /\ L[l].status = "equipped" => Release(L, S, c)[l].status # "equipped"
<1> DEFINE rows == Mine(L, S)
           over == {l \in rows : L[l].due <= c}
           ends == {l \in over : L[l].status \in {"stock", "equipped"}}
           M == Move(L, rows \ over, "stock", NoRack, NoSlot)
<1>1. Release(L, S, c) = Move(M, ends, "expired", NoRack, NoSlot)
      BY DEF Release
<1>2. /\ \A l : l \in rows => l \in S
      /\ \A l \in Leases : l \in S /\ L[l].status = "equipped" => l \in rows
      BY DEF Mine
<1>3. ASSUME NEW l \in Leases, l \in rows \ over PROVE M[l].status = "stock" /\ l \notin ends
      BY <1>3, RowStatus DEF Move
<1>4. ASSUME NEW l \in Leases, l \notin rows \ over PROVE M[l] = L[l]
      BY <1>4 DEF Move
<1>5. ASSUME NEW l \in Leases
      PROVE  Move(M, ends, "expired", NoRack, NoSlot)[l]
               = IF l \in ends THEN Row("expired", M[l].due, NoRack, NoSlot) ELSE M[l]
      BY DEF Move
<1>6. ASSUME NEW l \in Leases, l \in over, L[l].status = "equipped" PROVE l \in ends
      BY <1>6
<1>7. \A l : l \in ends => l \in over
      OBVIOUS
<1>8. \A l : l \in over => l \in rows
      OBVIOUS
<1> HIDE DEF rows, over, ends, M
<1> QED BY <1>1, <1>2, <1>3, <1>4, <1>5, <1>6, <1>7, <1>8, RowStatus

-----------------------------------------------------------------------------
(* The sweep, of a page or of an intent. *)

LEMMA SweepAgrees ==
  ASSUME TypeOK, Agree(lease, slot, at), NEW D \in SUBSET Leases
  PROVE  Agree(Expired(lease, D), Cleared(D), at)
<1> DEFINE L == Expired(lease, D)
           s == Cleared(D)
<1>1. ASSUME NEW l \in Leases PROVE L[l] = IF l \in D THEN Row("expired", lease[l].due, NoRack, NoSlot) ELSE lease[l]
      BY DEF Expired, Move
<1>2. ASSUME NEW r \in Racks, NEW i \in Slots
      PROVE  s[r][i] = IF \E l \in D : Mounted(l, r, i) THEN Empty ELSE slot[r][i]
      BY DEF Cleared
<1>3. Empty.item = "none" /\ Empty.lease = NoLease
      BY DEF Empty, Content
<1> HIDE DEF L, s
<1>4. ASSUME NEW r \in Racks, NEW i \in Slots
      PROVE  IF s[r][i].item = "asic"
             THEN /\ s[r][i].lease \in Leases /\ L[s[r][i].lease].status = "equipped"
                  /\ L[s[r][i].lease].rack = r /\ L[s[r][i].lease].slot = i
             ELSE s[r][i].lease = NoLease
  <2>1. CASE \E l \in D : Mounted(l, r, i)
        BY <1>2, <1>3, <2>1
  <2>2. CASE ~(\E l \in D : Mounted(l, r, i)) /\ slot[r][i].item = "asic"
    <3>1. PICK l : l = slot[r][i].lease
          OBVIOUS
    <3>2. l \in Leases /\ Mounted(l, r, i)
          BY <2>2, <3>1 DEF Agree, Mounted
    <3>3. L[l] = lease[l] /\ s[r][i] = slot[r][i]
          BY <1>1, <1>2, <2>2, <3>2
    <3> QED BY <2>2, <3>1, <3>2, <3>3 DEF Mounted
  <2>3. CASE ~(\E l \in D : Mounted(l, r, i)) /\ slot[r][i].item # "asic"
        BY <1>2, <2>3 DEF Agree
  <2> QED BY <2>1, <2>2, <2>3
<1>5. ASSUME NEW l \in Leases, L[l].status = "equipped"
      PROVE  /\ L[l].rack \in Racks /\ L[l].slot \in Slots
             /\ s[L[l].rack][L[l].slot].lease = l \/ at[L[l].rack] \in {"swapped", "taken"}
  <2>1. l \notin D /\ L[l] = lease[l]
        BY <1>1, <1>5, RowStatus
  <2>2. PICK r, i : r = lease[l].rack /\ i = lease[l].slot
        OBVIOUS
  <2>3. r \in Racks /\ i \in Slots /\ (slot[r][i].lease = l \/ at[r] \in {"swapped", "taken"})
        BY <1>5, <2>1, <2>2 DEF Agree
  <2>4. slot[r][i].lease = l => s[r][i] = slot[r][i]
        BY <1>2, <2>1, <2>3 DEF Mounted
  <2> QED BY <2>1, <2>2, <2>3, <2>4
<1> QED BY <1>4, <1>5 DEF Agree, L, s

-----------------------------------------------------------------------------
(* What a rule makes of slots and positions. *)

LEMMA PutParts ==
  ASSUME NEW copy \in Copies, NEW r \in Racks, NEW i \in Slots, NEW x
  PROVE  /\ Put(copy, r, i, x).at = copy.at
         /\ \A k \in Racks, j \in Slots :
              Put(copy, r, i, x).slot[k][j] = IF k = r /\ j = i THEN x ELSE copy.slot[k][j]
<1> DEFINE s == [copy.slot EXCEPT ![r] = [copy.slot[r] EXCEPT ![i] = x]]
<1>1. copy.slot \in SlotTable
      BY CopyParts
<1>2. \A k \in Racks, j \in Slots : s[k][j] = IF k = r /\ j = i THEN x ELSE copy.slot[k][j]
      BY <1>1 DEF SlotTable
<1>3. Put(copy, r, i, x) = [copy EXCEPT !.slot = s]
      BY DEF Put
<1> HIDE DEF s
<1>4. Put(copy, r, i, x).slot = s /\ Put(copy, r, i, x).at = copy.at
      BY <1>3 DEF Copies
<1> QED BY <1>2, <1>4

LEMMA CountParts ==
  ASSUME NEW copy \in Copies, NEW item, NEW n, NEW L, NEW c
  PROVE  /\ Count(copy, item, n).slot = copy.slot /\ Count(copy, item, n).at = copy.at
         /\ Bump(copy, item, n).slot = copy.slot /\ Bump(copy, item, n).at = copy.at
         /\ Counted(copy, L, c).slot = copy.slot /\ Counted(copy, L, c).at = copy.at
<1>1. ASSUME NEW x, NEW m PROVE Count(copy, x, m).slot = copy.slot /\ Count(copy, x, m).at = copy.at
      BY DEF Count, Copies
<1> QED BY <1>1 DEF Bump, Counted

LEMMA TakeawayParts ==
  ASSUME NEW copy \in Copies, NEW r \in Racks, NEW why
  PROVE  /\ \A k \in Racks : Takeaway(copy, r, why).at[k] = IF k = r THEN why ELSE copy.at[k]
         /\ \A k \in Racks, j \in Slots :
              Takeaway(copy, r, why).slot[k][j] = IF k = r THEN Empty ELSE copy.slot[k][j]
<1> DEFINE a == [copy.at EXCEPT ![r] = why]
           s == [copy.slot EXCEPT ![r] = [i \in Slots |-> Empty]]
<1>1. copy.slot \in SlotTable /\ copy.at \in [Racks -> Positions]
      BY CopyParts
<1>2. \A k \in Racks, j \in Slots : s[k][j] = IF k = r THEN Empty ELSE copy.slot[k][j]
      BY <1>1 DEF SlotTable
<1>3. \A k \in Racks : a[k] = IF k = r THEN why ELSE copy.at[k]
      BY <1>1
<1>4. Takeaway(copy, r, why) = [copy EXCEPT !.at = a, !.slot = s]
      BY DEF Takeaway
<1> HIDE DEF a, s
<1>5. Takeaway(copy, r, why).at = a /\ Takeaway(copy, r, why).slot = s
      BY <1>4 DEF Copies
<1> QED BY <1>2, <1>3, <1>5

LEMMA EmptyParts == Empty.item = "none" /\ Empty.lease = NoLease
  BY DEF Empty, Content

\* In a slot that holds no machine with a validity no lease says it is mounted.
LEMMA NoneMounted ==
  ASSUME NEW L, NEW s, NEW a, Agree(L, s, a), NEW r \in Racks, NEW i \in Slots,
         s[r][i].item # "asic", a[r] \notin {"swapped", "taken"},
         NEW l \in Leases, L[l].status = "equipped"
  PROVE  ~(L[l].rack = r /\ L[l].slot = i)
  BY HIAssumption DEF Agree

\* What an intent that nothing overtook has loaded agrees with the rows its own
\* sweep leaves, and none of the leases it sees mounted is over.
LEMMA Loaded ==
  ASSUME IInv, SInv, NEW t \in Txs, Undisturbed(t), ~overwritten
  PROVE  /\ Agree(Base(t), intent[t].copy.slot, intent[t].copy.at)
         /\ intent[t].copy.at = at /\ intent[t].copy.slot = Cleared(intent[t].swept)
         /\ \A l \in Leases : Base(t)[l].status = "equipped" =>
              Base(t)[l] = lease[l] /\ Base(t)[l].due > intent[t].clock
<1>1. PICK D, c : D = intent[t].swept /\ c = intent[t].clock
      OBVIOUS
<1>2. TypeOK /\ Agree(lease, slot, at) /\ D \in SUBSET Leases /\ c \in Nat
      BY <1>1, IntentParts DEF IInv, SInv
<1>3. intent[t].copy.at = at /\ intent[t].copy.slot = Cleared(D) /\ D = Due(lease, c)
      BY <1>1 DEF SInv, LoadedIsCurrent
<1>4. Agree(Base(t), intent[t].copy.slot, intent[t].copy.at)
      BY <1>1, <1>2, <1>3, SweepAgrees DEF Base
<1>5. ASSUME NEW l \in Leases, Base(t)[l].status = "equipped"
      PROVE  Base(t)[l] = lease[l] /\ Base(t)[l].due > c
  <2>1. Base(t)[l] = IF l \in D THEN Row("expired", lease[l].due, NoRack, NoSlot) ELSE lease[l]
        BY <1>1 DEF Base, Expired, Move
  <2>2. l \notin D /\ Base(t)[l] = lease[l]
        BY <1>5, <2>1, RowStatus
  <2>3. lease[l].due \in Nat
        BY <1>2 DEF TypeOK, LeaseRows
  <2>4. ~(lease[l].due <= c)
        BY <1>3, <1>5, <2>2 DEF Due
  <2> QED BY <1>2, <2>2, <2>3, <2>4
<1> QED BY <1>1, <1>3, <1>4, <1>5

\* A commit leaves no intent undisturbed.
LEMMA CommitDisturbs ==
  ASSUME TypeOK, NEW done, Committed(done)
  PROVE  LoadedIsCurrent'
<1>1. ASSUME NEW t \in Txs PROVE ~(intent'[t].on /\ intent'[t].behind = 0)
  <2>1. CASE t \in done
        BY <2>1 DEF Committed, NoIntent
  <2>2. CASE t \notin done /\ On(t)
    <3>1. intent'[t] = [intent[t] EXCEPT !.behind = intent[t].behind + 1]
          BY <2>2 DEF Committed
    <3>2. intent[t] \in IntentRows
          BY IntentParts
    <3>3. intent'[t].behind = intent[t].behind + 1 /\ intent[t].behind \in Nat
          BY <3>1, <3>2 DEF IntentRows
    <3> QED BY <3>3
  <2>3. CASE t \notin done /\ ~On(t)
        BY <2>3 DEF Committed, On
  <2> QED BY <2>1, <2>2, <2>3
<1> QED BY <1>1 DEF LoadedIsCurrent, Undisturbed, Runs, Opened, On

\* A rule whose rows and copy agree when nothing overtook it.
LEMMA SaveMatches ==
  ASSUME IInv, SInv, NEW t \in Txs, NEW L, NEW copy, Runs(t), Save(t, L, copy),
         Undisturbed(t) /\ ~overwritten => Agree(L, copy.slot, copy.at)
  PROVE  SInv'
<1>1. LoadedIsCurrent'
  <2>1. PICK done : done = {t}
        OBVIOUS
  <2> QED BY <2>1, CommitDisturbs DEF Save, IInv
<1>2. ASSUME ~overwritten' PROVE Agree(lease', slot', at')
  <2>1. ~overwritten /\ ~(intent[t].behind > 0)
        BY <1>2 DEF Save
  <2>2. intent[t].behind \in Nat
        BY IntentParts DEF IInv, IntentRows
  <2>3. Agree(L, copy.slot, copy.at)
        BY <2>1, <2>2 DEF Undisturbed
  <2>4. PICK N : N \in Reconciled(L, copy.stock["asic"], now, FALSE) /\ N = lease'
        BY DEF Save
  <2>5. SameMounted(L, N)
        BY <2>4, ReconciledSame
  <2>6. at' = copy.at /\ slot' = copy.slot
        BY DEF Save, PersistRacks
  <2>7. Agree(N, copy.slot, copy.at)
        BY <2>3, <2>5, SameAgrees
  <2> QED BY <2>4, <2>6, <2>7
<1>3. SInv' = ((~overwritten' => Agree(lease', slot', at')) /\ LoadedIsCurrent')
      BY DEF SInv, Agree
<1> QED BY <1>1, <1>2, <1>3

-----------------------------------------------------------------------------
(* The intents. *)

\* A permanent machine goes into a slot that holds nothing.
LEMMA EquipPermanentMatches ==
  ASSUME IInv, SInv, NEW t \in Txs, NEW r \in Racks, NEW i \in Slots, EquipPermanent(t, r, i)
  PROVE  SInv'
<1>1. PICK copy, L, x : copy = intent[t].copy /\ L = Base(t) /\ x = Content("gpu", NoLease)
      OBVIOUS
<1>2. copy \in Copies /\ copy.stock["gpu"] >= 1 /\ copy.stock["gpu"] \in Nat
  <2>1. copy \in Copies
        BY <1>1, IntentParts DEF IInv
  <2>2. copy.stock["gpu"] >= 1
        BY <1>1 DEF EquipPermanent, Room
  <2> QED BY <2>1, <2>2, CopyParts DEF Items
<1>3. PICK one : one = Bump(copy, "gpu", -1)
      OBVIOUS
<1>4. one \in Copies /\ one.slot = copy.slot /\ one.at = copy.at
      BY <1>2, <1>3, BumpType, CountParts DEF Items
<1>5. PICK out : out = Put(one, r, i, x)
      OBVIOUS
<1>6. Runs(t) /\ Save(t, L, out)
      BY <1>1, <1>3, <1>5 DEF EquipPermanent
<1>7. /\ out.at = copy.at
      /\ \A k \in Racks, j \in Slots : out.slot[k][j] = IF k = r /\ j = i THEN x ELSE copy.slot[k][j]
      BY <1>4, <1>5, PutParts
<1>8. x.item = "gpu" /\ x.lease = NoLease
      BY <1>1 DEF Content
<1>9. copy.slot[r][i].item = "none" /\ copy.at[r] \in Places
      BY <1>1 DEF EquipPermanent, Room, Placed
<1>10. copy.at[r] \notin {"swapped", "taken"}
      BY <1>9, HIAssumption
<1>11. ASSUME Undisturbed(t), ~overwritten PROVE Agree(L, out.slot, out.at)
  <2>1. Agree(L, copy.slot, copy.at)
        BY <1>1, <1>11, Loaded
  <2>2. \A l \in Leases : L[l].status = "equipped" => ~(L[l].rack = r /\ L[l].slot = i)
        BY <1>9, <1>10, <2>1, NoneMounted
  <2>3. ASSUME NEW k \in Racks, NEW j \in Slots
        PROVE  IF out.slot[k][j].item = "asic"
               THEN /\ out.slot[k][j].lease \in Leases /\ L[out.slot[k][j].lease].status = "equipped"
                    /\ L[out.slot[k][j].lease].rack = k /\ L[out.slot[k][j].lease].slot = j
               ELSE out.slot[k][j].lease = NoLease
    <3>1. CASE k = r /\ j = i
          BY <1>7, <1>8, <3>1
    <3>2. CASE ~(k = r /\ j = i)
      <4>1. out.slot[k][j] = copy.slot[k][j]
            BY <1>7, <3>2
      <4> QED BY <2>1, <4>1 DEF Agree
    <3> QED BY <3>1, <3>2
  <2>4. ASSUME NEW m \in Leases, L[m].status = "equipped"
        PROVE  /\ L[m].rack \in Racks /\ L[m].slot \in Slots
               /\ out.slot[L[m].rack][L[m].slot].lease = m \/ out.at[L[m].rack] \in {"swapped", "taken"}
    <3>1. PICK k, j : k = L[m].rack /\ j = L[m].slot
          OBVIOUS
    <3>2. /\ k \in Racks /\ j \in Slots
          /\ copy.slot[k][j].lease = m \/ copy.at[k] \in {"swapped", "taken"}
          BY <2>1, <2>4, <3>1 DEF Agree
    <3>3. out.slot[k][j] = copy.slot[k][j]
          BY <1>7, <2>2, <2>4, <3>1, <3>2
    <3> QED BY <1>7, <3>1, <3>2, <3>3
  <2> QED BY <2>3, <2>4 DEF Agree
<1> QED BY <1>6, <1>11, SaveMatches

\* A lease in stock is mounted in a slot that holds nothing.
LEMMA EquipTimedMatches ==
  ASSUME IInv, SInv, NEW t \in Txs, NEW r \in Racks, NEW i \in Slots, EquipTimed(t, r, i)
  PROVE  SInv'
<1>1. PICK copy, c, B : copy = intent[t].copy /\ c = intent[t].clock /\ B = Base(t)
      OBVIOUS
<1>2. copy \in Copies
      BY <1>1, IntentParts DEF IInv
<1>3. PICK l \in Reservable(B, c, OthersSwept(t)) :
             Save(t, Move(B, {l}, "equipped", r, i),
                  Counted(Put(copy, r, i, Content("asic", l)), Move(B, {l}, "equipped", r, i), c))
      BY <1>1 DEF EquipTimed
<1>4. l \in Leases /\ B[l].status = "stock"
      BY DEF Reservable, Unexpired, InStock
<1>5. PICK L, x : L = Move(B, {l}, "equipped", r, i) /\ x = Content("asic", l)
      OBVIOUS
<1>6. PICK put : put = Put(copy, r, i, x)
      OBVIOUS
<1>7. PICK out : out = Counted(put, L, c)
      OBVIOUS
<1>8. Runs(t) /\ Save(t, L, out)
      BY <1>3, <1>5, <1>6, <1>7 DEF EquipTimed
<1>9. x.item = "asic" /\ x.lease = l /\ x \in Contents
      BY <1>4, <1>5 DEF Content, Contents
<1>10. /\ out.at = copy.at
       /\ \A k \in Racks, j \in Slots : out.slot[k][j] = IF k = r /\ j = i THEN x ELSE copy.slot[k][j]
  <2>1. put \in Copies
        BY <1>2, <1>6, <1>9, PutType
  <2>2. out.slot = put.slot /\ out.at = put.at
        BY <1>7, <2>1, CountParts
  <2> QED BY <1>2, <1>6, <2>2, PutParts
<1>11. copy.slot[r][i].item = "none" /\ copy.at[r] \in Places
      BY <1>1 DEF EquipTimed, Room, Placed
<1>12. copy.at[r] \notin {"swapped", "taken"}
      BY <1>11, HIAssumption
<1>13. /\ L[l].status = "equipped" /\ L[l].rack = r /\ L[l].slot = i
       /\ \A m \in Leases : m # l => L[m] = B[m]
      BY <1>4, <1>5, RowStatus DEF Move
<1>14. ASSUME Undisturbed(t), ~overwritten PROVE Agree(L, out.slot, out.at)
  <2>1. Agree(B, copy.slot, copy.at)
        BY <1>1, <1>14, Loaded
  <2>2. \A m \in Leases : B[m].status = "equipped" => ~(B[m].rack = r /\ B[m].slot = i)
        BY <1>11, <1>12, <2>1, NoneMounted
  <2>3. ASSUME NEW k \in Racks, NEW j \in Slots
        PROVE  IF out.slot[k][j].item = "asic"
               THEN /\ out.slot[k][j].lease \in Leases /\ L[out.slot[k][j].lease].status = "equipped"
                    /\ L[out.slot[k][j].lease].rack = k /\ L[out.slot[k][j].lease].slot = j
               ELSE out.slot[k][j].lease = NoLease
    <3>1. CASE k = r /\ j = i
          BY <1>4, <1>9, <1>10, <1>13, <3>1
    <3>2. CASE ~(k = r /\ j = i)
      <4>1. out.slot[k][j] = copy.slot[k][j]
            BY <1>10, <3>2
      <4>2. PICK m : m = copy.slot[k][j].lease
            OBVIOUS
      <4>3. IF copy.slot[k][j].item = "asic"
            THEN m \in Leases /\ B[m].status = "equipped" /\ B[m].rack = k /\ B[m].slot = j
            ELSE m = NoLease
            BY <2>1, <4>2 DEF Agree
      <4>4. m \in Leases /\ B[m].status = "equipped" => L[m] = B[m]
            BY <1>4, <1>13
      <4> QED BY <4>1, <4>2, <4>3, <4>4
    <3> QED BY <3>1, <3>2
  <2>4. ASSUME NEW m \in Leases, L[m].status = "equipped"
        PROVE  /\ L[m].rack \in Racks /\ L[m].slot \in Slots
               /\ out.slot[L[m].rack][L[m].slot].lease = m \/ out.at[L[m].rack] \in {"swapped", "taken"}
    <3>1. CASE m = l
          BY <1>9, <1>10, <1>13, <3>1
    <3>2. CASE m # l
      <4>1. PICK k, j : k = L[m].rack /\ j = L[m].slot
            OBVIOUS
      <4>2. L[m] = B[m] /\ B[m].status = "equipped"
            BY <1>13, <2>4, <3>2
      <4>3. /\ k \in Racks /\ j \in Slots
            /\ copy.slot[k][j].lease = m \/ copy.at[k] \in {"swapped", "taken"}
            BY <2>1, <4>1, <4>2 DEF Agree
      <4>4. out.slot[k][j] = copy.slot[k][j]
            BY <1>10, <2>2, <4>1, <4>2, <4>3
      <4> QED BY <1>10, <4>1, <4>3, <4>4
    <3> QED BY <3>1, <3>2
  <2> QED BY <2>3, <2>4 DEF Agree
<1> QED BY <1>8, <1>14, SaveMatches

\* What is taken out of a slot is the lease that says it is there, or none.
LEMMA ResolveMatches ==
  ASSUME IInv, SInv, NEW t \in Txs, Undisturbed(t), ~overwritten,
         NEW r \in Racks, NEW i \in Slots, NEW copy, copy = intent[t].copy,
         copy.at[r] \in Places, copy.slot[r][i].item # "none",
         NEW S \in Resolve(Base(t), copy.slot[r][i].lease, r, i, intent[t].clock)
  PROVE  S = IF copy.slot[r][i].item = "asic" THEN {copy.slot[r][i].lease} ELSE {}
<1>1. PICK B, c, h : B = Base(t) /\ c = intent[t].clock /\ h = copy.slot[r][i].lease
      OBVIOUS
<1>2. /\ Agree(B, copy.slot, copy.at) /\ copy.slot = Cleared(intent[t].swept)
      /\ \A l \in Leases : B[l].status = "equipped" => B[l].due > c
      BY <1>1, Loaded
<1>3. copy.at[r] \notin {"swapped", "taken"}
      BY HIAssumption
<1>4. CASE copy.slot[r][i].item = "asic"
  <2>1. h \in Leases /\ B[h].status = "equipped"
        BY <1>1, <1>2, <1>4 DEF Agree
  <2> QED BY <1>1, <1>2, <1>4, <2>1 DEF Resolve
<1>5. CASE copy.slot[r][i].item # "asic"
  <2>1. h = NoLease /\ h \notin Leases
        BY <1>1, <1>2, <1>5, HIAssumption DEF Agree
  <2>2. slot[r][i].lease = NoLease
        BY <1>1, <1>2, <2>1, EmptyParts DEF Cleared
  <2>3. \A l \in Leases : B[l].status = "equipped" => ~(B[l].rack = r /\ B[l].slot = i)
        BY <1>2, <1>3, <1>5, NoneMounted
  <2>4. EquippedAt(B, r, i, c) = {}
        BY <2>3 DEF EquippedAt
  <2> QED BY <1>1, <1>5, <2>1, <2>2, <2>4 DEF Resolve
<1> QED BY <1>4, <1>5

LEMMA UnequipMatches ==
  ASSUME IInv, SInv, NEW t \in Txs, NEW r \in Racks, NEW i \in Slots, Unequip(t, r, i)
  PROVE  SInv'
<1>1. PICK copy, c, B : copy = intent[t].copy /\ c = intent[t].clock /\ B = Base(t)
      OBVIOUS
<1>2. copy \in Copies
      BY <1>1, IntentParts DEF IInv
<1>3. PICK S \in Resolve(B, copy.slot[r][i].lease, r, i, c) :
             Save(t, Release(B, S, c),
                  IF copy.slot[r][i].item = "asic"
                  THEN Counted(Put(copy, r, i, Empty), Release(B, S, c), c)
                  ELSE Bump(Put(copy, r, i, Empty), "gpu", 1))
      BY <1>1 DEF Unequip
<1>4. PICK L, put : L = Release(B, S, c) /\ put = Put(copy, r, i, Empty)
      OBVIOUS
<1>5. PICK out : out = IF copy.slot[r][i].item = "asic" THEN Counted(put, L, c)
                       ELSE Bump(put, "gpu", 1)
      OBVIOUS
<1>6. Runs(t) /\ Save(t, L, out)
      BY <1>3, <1>4, <1>5 DEF Unequip
<1>7. /\ out.at = copy.at
      /\ \A k \in Racks, j \in Slots :
           out.slot[k][j] = IF k = r /\ j = i THEN Empty ELSE copy.slot[k][j]
  <2>1. put \in Copies
        BY <1>2, <1>4, PutType DEF Empty, Content, Contents
  <2>2. out.slot = put.slot /\ out.at = put.at
        BY <1>5, <2>1, CountParts
  <2> QED BY <1>2, <1>4, <2>2, PutParts
<1>8. copy.at[r] \in Places /\ copy.slot[r][i].item # "none"
      BY <1>1 DEF Unequip, Placed
<1>9. copy.at[r] \notin {"swapped", "taken"}
      BY <1>8, HIAssumption
<1>10. \A l \in Leases :
         /\ L[l] = B[l] \/ (l \in S /\ L[l].status \in {"stock", "expired"})
         /\ l \in S /\ B[l].status = "equipped" => L[l].status # "equipped"
      BY <1>4, ReleaseRows
<1>11. ASSUME Undisturbed(t), ~overwritten PROVE Agree(L, out.slot, out.at)
  <2>1. Agree(B, copy.slot, copy.at)
        BY <1>1, <1>11, Loaded
  <2>2. PICK h : h = copy.slot[r][i].lease
        OBVIOUS
  <2>3. S = IF copy.slot[r][i].item = "asic" THEN {h} ELSE {}
        BY <1>1, <1>3, <1>8, <1>11, <2>2, ResolveMatches
  <2>4. \A l \in Leases : B[l].status = "equipped" /\ l \notin S =>
          ~(B[l].rack = r /\ B[l].slot = i)
    <3>1. CASE copy.slot[r][i].item = "asic"
      <4> SUFFICES ASSUME NEW l \in Leases, B[l].status = "equipped", l \notin S,
                          B[l].rack = r, B[l].slot = i
                   PROVE  FALSE
          OBVIOUS
      <4>1. copy.slot[r][i].lease = l
            BY <1>9, <2>1 DEF Agree
      <4> QED BY <2>2, <2>3, <3>1, <4>1
    <3>2. CASE copy.slot[r][i].item # "asic"
          BY <1>9, <2>1, <3>2, NoneMounted
    <3> QED BY <3>1, <3>2
  <2>5. ASSUME NEW k \in Racks, NEW j \in Slots
        PROVE  IF out.slot[k][j].item = "asic"
               THEN /\ out.slot[k][j].lease \in Leases /\ L[out.slot[k][j].lease].status = "equipped"
                    /\ L[out.slot[k][j].lease].rack = k /\ L[out.slot[k][j].lease].slot = j
               ELSE out.slot[k][j].lease = NoLease
    <3>1. CASE k = r /\ j = i
          BY <1>7, <3>1, EmptyParts
    <3>2. CASE ~(k = r /\ j = i) /\ copy.slot[k][j].item = "asic"
      <4>1. PICK m : m = copy.slot[k][j].lease
            OBVIOUS
      <4>2. m \in Leases /\ B[m].status = "equipped" /\ B[m].rack = k /\ B[m].slot = j
            BY <2>1, <3>2, <4>1 DEF Agree
      <4>3. m \notin S
            BY <2>1, <2>2, <2>3, <3>2, <4>2 DEF Agree
      <4>4. L[m] = B[m]
            BY <1>10, <4>2, <4>3
      <4> QED BY <1>7, <3>2, <4>1, <4>2, <4>4
    <3>3. CASE ~(k = r /\ j = i) /\ copy.slot[k][j].item # "asic"
          BY <1>7, <2>1, <3>3 DEF Agree
    <3> QED BY <3>1, <3>2, <3>3
  <2>6. ASSUME NEW m \in Leases, L[m].status = "equipped"
        PROVE  /\ L[m].rack \in Racks /\ L[m].slot \in Slots
               /\ out.slot[L[m].rack][L[m].slot].lease = m \/ out.at[L[m].rack] \in {"swapped", "taken"}
    <3>1. L[m] = B[m] /\ m \notin S
          BY <1>10, <2>6
    <3> QED BY <1>7, <2>1, <2>4, <2>6, <3>1 DEF Agree
  <2> QED BY <2>5, <2>6 DEF Agree
<1> QED BY <1>6, <1>11, SaveMatches

\* A rack that is emptied: its leases are released, or it was replaced.
Emptied(r, L, s, a, N, z, b) ==
  /\ \A k \in Racks, j \in Slots : z[k][j] = IF k = r THEN Empty ELSE s[k][j]
  /\ \A k \in Racks : k # r => b[k] = a[k]
  /\ \A l \in Leases : N[l].status = "equipped" => N[l] = L[l]
  /\ \A l \in Leases : L[l].status = "equipped" /\ L[l].rack # r => N[l] = L[l]
  /\ \A l \in Leases : N[l].status = "equipped" /\ L[l].rack = r => b[r] \in {"swapped", "taken"}

LEMMA EmptiedAgrees ==
  ASSUME NEW r \in Racks, NEW L, NEW s, NEW a, NEW N, NEW z, NEW b,
         Agree(L, s, a), Emptied(r, L, s, a, N, z, b)
  PROVE  Agree(N, z, b)
<1>1. ASSUME NEW k \in Racks, NEW j \in Slots
      PROVE  IF z[k][j].item = "asic"
             THEN /\ z[k][j].lease \in Leases /\ N[z[k][j].lease].status = "equipped"
                  /\ N[z[k][j].lease].rack = k /\ N[z[k][j].lease].slot = j
             ELSE z[k][j].lease = NoLease
  <2>1. CASE k = r
        BY <2>1, EmptyParts DEF Emptied
  <2>2. CASE k # r
    <3>1. z[k][j] = s[k][j]
          BY <2>2 DEF Emptied
    <3>2. PICK m : m = s[k][j].lease
          OBVIOUS
    <3>3. IF s[k][j].item = "asic"
          THEN m \in Leases /\ L[m].status = "equipped" /\ L[m].rack = k /\ L[m].slot = j
          ELSE m = NoLease
          BY <3>2 DEF Agree
    <3>4. m \in Leases /\ L[m].status = "equipped" /\ L[m].rack = k => N[m] = L[m]
          BY <2>2 DEF Emptied
    <3> QED BY <3>1, <3>2, <3>3, <3>4
  <2> QED BY <2>1, <2>2
<1>2. ASSUME NEW m \in Leases, N[m].status = "equipped"
      PROVE  /\ N[m].rack \in Racks /\ N[m].slot \in Slots
             /\ z[N[m].rack][N[m].slot].lease = m \/ b[N[m].rack] \in {"swapped", "taken"}
  <2>1. PICK k, j : k = L[m].rack /\ j = L[m].slot
        OBVIOUS
  <2>2. N[m] = L[m] /\ L[m].status = "equipped"
        BY <1>2 DEF Emptied
  <2>3. /\ k \in Racks /\ j \in Slots
        /\ s[k][j].lease = m \/ a[k] \in {"swapped", "taken"}
        BY <2>1, <2>2 DEF Agree
  <2>4. CASE k = r
        BY <1>2, <2>1, <2>2, <2>3, <2>4 DEF Emptied
  <2>5. CASE k # r
    <3>1. z[k][j] = s[k][j] /\ b[k] = a[k]
          BY <2>3, <2>5 DEF Emptied
    <3> QED BY <2>1, <2>2, <2>3, <3>1
  <2> QED BY <2>4, <2>5
<1> QED BY <1>1, <1>2 DEF Agree

\* What is released with a rack is what is mounted on it.
LEMMA OnRackMatches ==
  ASSUME IInv, SInv, NEW t \in Txs, Undisturbed(t), ~overwritten, NEW r \in Racks,
         NEW l \in Leases, Base(t)[l].status = "equipped"
  PROVE  l \in OnRack(Base(t), r, intent[t].clock) <=> Base(t)[l].rack = r
<1>1. PICK B, c : B = Base(t) /\ c = intent[t].clock
      OBVIOUS
<1>2. Agree(B, intent[t].copy.slot, intent[t].copy.at) /\ B[l] = lease[l] /\ B[l].due > c
      BY <1>1, Loaded
<1>3. ASSUME B[l].rack = r PROVE l \in OnRack(B, r, c)
  <2>1. PICK i : i = B[l].slot
        OBVIOUS
  <2>2. i \in Slots
        BY <1>1, <1>2, <2>1 DEF Agree
  <2>3. l \in EquippedAt(B, r, i, c)
        BY <1>1, <1>2, <1>3, <2>1 DEF EquippedAt
  <2> QED BY <2>2, <2>3 DEF OnRack
<1>4. ASSUME l \in OnRack(B, r, c) PROVE B[l].rack = r
  <2>1. CASE \E i \in Slots : l = slot[r][i].lease
    <3>1. PICK i \in Slots : l = slot[r][i].lease
          BY <2>1
    <3>2. Agree(lease, slot, at) /\ l # NoLease
          BY HIAssumption DEF SInv
    <3>3. slot[r][i].item = "asic"
          BY <3>1, <3>2 DEF Agree
    <3>4. lease[slot[r][i].lease].rack = r
          BY <3>2, <3>3 DEF Agree
    <3> QED BY <1>2, <3>1, <3>4
  <2>2. CASE \E i \in Slots : l \in EquippedAt(B, r, i, c)
        BY <2>2 DEF EquippedAt
  <2> QED BY <1>4, <2>1, <2>2 DEF OnRack
<1> QED BY <1>1, <1>3, <1>4

LEMMA RemoveMatches ==
  ASSUME IInv, SInv, NEW t \in Txs, NEW r \in Racks, Remove(t, r)
  PROVE  SInv'
<1>1. PICK copy, c, B : copy = intent[t].copy /\ c = intent[t].clock /\ B = Base(t)
      OBVIOUS
<1>2. copy \in Copies
      BY <1>1, IntentParts DEF IInv
<1>3. PICK S, n : S = OnRack(B, r, c) /\ n = Cardinality(In(copy, r, "gpu"))
      OBVIOUS
<1>4. PICK L : L = Release(B, S, c)
      OBVIOUS
<1>5. PICK away : away = Takeaway(copy, r, "removed")
      OBVIOUS
<1>6. PICK rigs : rigs = Bump(away, "rig", 1)
      OBVIOUS
<1>7. PICK out : out = Bump(rigs, "gpu", n)
      OBVIOUS
<1>8. PICK saved : saved = IF In(copy, r, "asic") # {} THEN Counted(out, L, c) ELSE out
      OBVIOUS
<1>9. Runs(t) /\ Save(t, L, saved)
      BY <1>1, <1>3, <1>4, <1>5, <1>6, <1>7, <1>8 DEF Remove
<1>10. saved.slot = away.slot /\ saved.at = away.at
  <2>1. away \in Copies
        BY <1>2, <1>5, TakeawayType
  <2>2. rigs \in Copies
        BY <1>6, <2>1, BumpUp DEF Items
  <2>3. n \in Nat
        BY <1>3, InIsNat
  <2>4. out \in Copies
        BY <1>7, <2>2, <2>3, BumpUp DEF Items
  <2>5. rigs.slot = away.slot /\ rigs.at = away.at
        BY <1>6, <2>1, CountParts
  <2>6. out.slot = rigs.slot /\ out.at = rigs.at
        BY <1>7, <2>2, CountParts
  <2>7. saved.slot = out.slot /\ saved.at = out.at
        BY <1>8, <2>4, CountParts
  <2> QED BY <2>5, <2>6, <2>7
<1>11. /\ \A k \in Racks, j \in Slots : saved.slot[k][j] = IF k = r THEN Empty ELSE copy.slot[k][j]
       /\ \A k \in Racks : k # r => saved.at[k] = copy.at[k]
      BY <1>2, <1>5, <1>10, TakeawayParts
<1>12. \A l \in Leases :
         /\ L[l] = B[l] \/ (l \in S /\ L[l].status \in {"stock", "expired"})
         /\ l \in S /\ B[l].status = "equipped" => L[l].status # "equipped"
      BY <1>4, ReleaseRows
<1>13. ASSUME Undisturbed(t), ~overwritten PROVE Agree(L, saved.slot, saved.at)
  <2>1. Agree(B, copy.slot, copy.at)
        BY <1>1, <1>13, Loaded
  <2>2. \A l \in Leases : B[l].status = "equipped" => (l \in S <=> B[l].rack = r)
        BY <1>1, <1>3, <1>13, OnRackMatches
  <2>3. \A l \in Leases : L[l].status = "equipped" => L[l] = B[l]
        BY <1>12
  <2>4. \A l \in Leases : B[l].status = "equipped" /\ B[l].rack # r => L[l] = B[l]
        BY <1>12, <2>2
  <2>5. \A l \in Leases : ~(L[l].status = "equipped" /\ B[l].rack = r)
        BY <1>12, <2>2, <2>3
  <2>6. PICK s, a, z, b : s = copy.slot /\ a = copy.at /\ z = saved.slot /\ b = saved.at
        OBVIOUS
  <2>7. /\ \A k \in Racks, j \in Slots : z[k][j] = IF k = r THEN Empty ELSE s[k][j]
        /\ \A k \in Racks : k # r => b[k] = a[k]
        BY <1>11, <2>6
  <2>8. /\ Agree(B, s, a)
        /\ \A l \in Leases : L[l].status = "equipped" /\ B[l].rack = r => b[r] \in {"swapped", "taken"}
        BY <2>1, <2>5, <2>6
  <2>9. Emptied(r, B, s, a, L, z, b)
        BY <2>3, <2>4, <2>7, <2>8 DEF Emptied
  <2>10. Agree(L, z, b)
        BY <2>8, <2>9, EmptiedAgrees
  <2> QED BY <2>6, <2>10
<1> QED BY <1>9, <1>13, SaveMatches

LEMMA SwappedOutParts ==
  ASSUME NEW copy \in Copies, NEW r \in Racks
  PROVE  /\ SwappedOut(copy, r).slot = Takeaway(copy, r, "swapped").slot
         /\ SwappedOut(copy, r).at = Takeaway(copy, r, "swapped").at
<1>1. PICK n, m : n = Cardinality(In(copy, r, "gpu")) /\ m = Cardinality(In(copy, r, "asic"))
      OBVIOUS
<1>2. n \in Nat
      BY <1>1, InIsNat
<1>3. PICK away : away = Takeaway(copy, r, "swapped")
      OBVIOUS
<1>4. PICK rigs : rigs = Bump(away, "rig", 1)
      OBVIOUS
<1>5. PICK gpus : gpus = Bump(rigs, "gpu", n)
      OBVIOUS
<1>6. away \in Copies
      BY <1>3, TakeawayType
<1>7. rigs \in Copies
      BY <1>4, <1>6, BumpUp DEF Items
<1>8. gpus \in Copies
      BY <1>2, <1>5, <1>7, BumpUp DEF Items
<1>11. rigs.slot = away.slot /\ rigs.at = away.at
      BY <1>4, <1>6, CountParts
<1>12. gpus.slot = rigs.slot /\ gpus.at = rigs.at
      BY <1>5, <1>7, CountParts
<1>9. Bump(gpus, "asic", m).slot = gpus.slot /\ Bump(gpus, "asic", m).at = gpus.at
      BY <1>8, CountParts
<1>10. SwappedOut(copy, r) = Bump(gpus, "asic", m)
      BY <1>1, <1>3, <1>4, <1>5 DEF SwappedOut
<1> QED BY <1>3, <1>9, <1>10, <1>11, <1>12

\* A rack takes the place of another, whose slots are emptied.
LEMMA PlaceMatches ==
  ASSUME IInv, SInv, NEW t \in Txs, NEW p \in Places, NEW new \in Racks, Place(t, p, new)
  PROVE  SInv'
<1>1. PICK copy, B : copy = intent[t].copy /\ B = Base(t)
      OBVIOUS
<1>2. copy \in Copies /\ at[new] = "unused" /\ p # "unused"
      BY <1>1, IntentParts, HIAssumption DEF IInv, Place
<1>3. PICK there : there = {r \in Racks : copy.at[r] = p}
      OBVIOUS
<1>4. PICK out \in IF there = {} THEN {copy} ELSE {SwappedOut(copy, r) : r \in there} :
             /\ out.stock["rig"] >= 1
             /\ Save(t, B, [Bump(out, "rig", -1) EXCEPT !.at = [@ EXCEPT ![new] = p]])
      BY <1>1, <1>3 DEF Place
<1>5. out \in Copies
  <2>1. CASE there = {}
        BY <1>2, <1>4, <2>1
  <2>2. CASE there # {}
    <3>1. PICK r \in there : out = SwappedOut(copy, r)
          BY <1>4, <2>2
    <3> QED BY <1>2, <1>3, <3>1, SwappedOutType
  <2> QED BY <2>1, <2>2
<1>6. PICK paid : paid = Bump(out, "rig", -1)
      OBVIOUS
<1>7. out.stock["rig"] >= 1 /\ out.stock["rig"] \in Nat
      BY <1>4, <1>5, CopyParts DEF Items
<1>8. paid \in Copies /\ paid.slot = out.slot /\ paid.at = out.at
      BY <1>5, <1>6, <1>7, BumpType, CountParts DEF Items
<1>9. PICK a : a = [paid.at EXCEPT ![new] = p]
      OBVIOUS
<1>10. PICK saved : saved = [paid EXCEPT !.at = a]
      OBVIOUS
<1>11. Runs(t) /\ Save(t, B, saved)
      BY <1>4, <1>6, <1>9, <1>10 DEF Place
<1>12. saved.slot = out.slot /\ saved.at = a
      BY <1>8, <1>10 DEF Copies
<1>13. \A k \in Racks : a[k] = IF k = new THEN p ELSE out.at[k]
      BY <1>8, <1>9, <1>5, CopyParts
<1>14. ASSUME Undisturbed(t), ~overwritten PROVE Agree(B, saved.slot, saved.at)
  <2>1. Agree(B, copy.slot, copy.at) /\ copy.at[new] = "unused"
        BY <1>1, <1>2, <1>14, Loaded
  <2>2. Agree(B, out.slot, out.at) /\ out.at[new] = "unused"
    <3>1. CASE there = {}
          BY <1>4, <2>1, <3>1
    <3>2. CASE there # {}
      <4>1. PICK r \in there : out = SwappedOut(copy, r)
            BY <1>4, <3>2
      <4>2. r \in Racks /\ r # new
            BY <1>2, <1>3, <2>1
      <4>3. PICK away : away = Takeaway(copy, r, "swapped")
            OBVIOUS
      <4>4. out.slot = away.slot /\ out.at = away.at
            BY <1>2, <4>1, <4>2, <4>3, SwappedOutParts
      <4>5. /\ \A k \in Racks : away.at[k] = IF k = r THEN "swapped" ELSE copy.at[k]
            /\ \A k \in Racks, j \in Slots : away.slot[k][j] = IF k = r THEN Empty ELSE copy.slot[k][j]
            BY <1>2, <4>2, <4>3, TakeawayParts
      <4>6. PICK s, a0, z, b : s = copy.slot /\ a0 = copy.at /\ z = away.slot /\ b = away.at
            OBVIOUS
      <4>7. /\ \A k \in Racks, j \in Slots : z[k][j] = IF k = r THEN Empty ELSE s[k][j]
            /\ \A k \in Racks : k # r => b[k] = a0[k]
            BY <4>5, <4>6
      <4>8. Agree(B, s, a0) /\ b[r] \in {"swapped", "taken"}
            BY <2>1, <4>2, <4>5, <4>6
      <4>9. Emptied(r, B, s, a0, B, z, b)
            BY <4>2, <4>7, <4>8 DEF Emptied
      <4>10. Agree(B, z, b)
            BY <4>2, <4>8, <4>9, EmptiedAgrees
      <4> QED BY <2>1, <4>2, <4>4, <4>5, <4>6, <4>10
    <3> QED BY <3>1, <3>2
  <2>3. ASSUME NEW m \in Leases, B[m].status = "equipped"
        PROVE  /\ B[m].rack \in Racks /\ B[m].slot \in Slots
               /\ out.slot[B[m].rack][B[m].slot].lease = m \/ a[B[m].rack] \in {"swapped", "taken"}
    <3>1. PICK k, j : k = B[m].rack /\ j = B[m].slot
          OBVIOUS
    <3>2. /\ k \in Racks /\ j \in Slots
          /\ out.slot[k][j].lease = m \/ out.at[k] \in {"swapped", "taken"}
          BY <2>2, <2>3, <3>1 DEF Agree
    <3> QED BY <1>13, <2>2, <3>1, <3>2
  <2> QED BY <1>12, <2>2, <2>3 DEF Agree
<1> QED BY <1>11, <1>14, SaveMatches

\* What an intent reads is current, whatever the rows are.
LEMMA BeginMatches ==
  ASSUME IInv, SInv, NEW t \in Txs, NEW k \in Keys \cup {FreshKey}, Begin(t, k)
  PROVE  SInv'
<1>1. PICK D, x : /\ D = Due(lease, now)
                  /\ x = [on |-> TRUE, key |-> k, clock |-> now, swept |-> D, behind |-> 0,
                          copy |-> [stock |-> Recounted(D, now), at |-> at, slot |-> Cleared(D)]]
      OBVIOUS
<1>2. intent' = [intent EXCEPT ![t] = x] /\ UNCHANGED <<now, lease, slot, at, overwritten>>
      BY <1>1 DEF Begin, hardware, history
<1>3. intent \in [Txs -> IntentRows]
      BY DEF IInv, TypeOK, IntentRows
<1>4. /\ x.copy.slot = Cleared(x.swept) /\ x.copy.at = at /\ x.swept = Due(lease, x.clock)
      BY <1>1
<1>5. ASSUME NEW u \in Txs, Undisturbed(u)'
      PROVE  /\ intent'[u].copy.slot = Cleared(intent'[u].swept) /\ intent'[u].copy.at = at
             /\ intent'[u].swept = Due(lease, intent'[u].clock)
  <2>1. CASE u = t
        BY <1>2, <1>3, <1>4, <2>1
  <2>2. CASE u # t
        BY <1>2, <1>3, <1>5, <2>2 DEF SInv, LoadedIsCurrent, Undisturbed, Runs, On
  <2> QED BY <2>1, <2>2
<1>6. \A S : Cleared(S)' = Cleared(S)
      BY <1>2 DEF Cleared, Mounted
<1>9. ASSUME NEW u \in Txs, Opened(u)', intent'[u].behind = 0
      PROVE  intent'[u].copy.slot = slot /\ intent'[u].copy.at = at
  <2>1. u # t
        BY <1>1, <1>2, <1>3, <1>9, HIAssumption DEF Opened, On
  <2> QED BY <1>2, <1>3, <1>9, <2>1 DEF SInv, LoadedIsCurrent, Opened, On
<1>7. LoadedIsCurrent'
      BY <1>2, <1>5, <1>6, <1>9 DEF LoadedIsCurrent, Due
<1>8. ~overwritten' => Agree(lease, slot, at)'
      BY <1>2 DEF SInv, Agree
<1> QED BY <1>7, <1>8 DEF SInv

LEMMA AbortMatches ==
  ASSUME IInv, SInv, NEW t \in Txs, Abort(t)
  PROVE  SInv'
<1>1. PICK x : x = NoIntent
      OBVIOUS
<1>2. intent' = [intent EXCEPT ![t] = x] /\ UNCHANGED <<lease, slot, at, overwritten>> /\ ~x.on
      BY <1>1 DEF Abort, hardware, history, NoIntent
<1>3. intent \in [Txs -> IntentRows]
      BY DEF IInv, TypeOK, IntentRows
<1>4. ASSUME NEW u \in Txs, Undisturbed(u)'
      PROVE  Undisturbed(u) /\ intent'[u] = intent[u]
      BY <1>2, <1>3, <1>4 DEF Undisturbed, Runs, On
<1>5. \A S : Cleared(S)' = Cleared(S)
      BY <1>2 DEF Cleared, Mounted
<1>8. ASSUME NEW u \in Txs, Opened(u)'
      PROVE  Opened(u) /\ intent'[u] = intent[u]
      BY <1>2, <1>3, <1>8 DEF Opened, On
<1>6. LoadedIsCurrent'
      BY <1>2, <1>4, <1>5, <1>8 DEF SInv, LoadedIsCurrent, Due
<1>7. ~overwritten' => Agree(lease, slot, at)'
      BY <1>2 DEF SInv, Agree
<1> QED BY <1>6, <1>7 DEF SInv

-----------------------------------------------------------------------------
(* What else writes the hardware: each step is a commit, and but for the    *)
(* sweep none changes what is mounted.                                      *)

LEMMA OtherMatches ==
  ASSUME IInv, SInv, NEW none, none = {}, Committed(none), NEW N, N = lease',
         SameMounted(lease, N), UNCHANGED <<slot, at, overwritten>>
  PROVE  SInv'
<1>1. LoadedIsCurrent'
      BY CommitDisturbs DEF IInv
<1>2. ASSUME ~overwritten' PROVE Agree(lease', slot', at')
  <2>1. Agree(N, slot, at)
        BY <1>2, SameAgrees DEF SInv
  <2> QED BY <2>1
<1>3. SInv' = ((~overwritten' => Agree(lease', slot', at')) /\ LoadedIsCurrent')
      BY DEF SInv, Agree
<1> QED BY <1>1, <1>2, <1>3

LEMMA SweepMatches == ASSUME IInv, SInv, Sweep PROVE SInv'
<1>1. PICK D, none : D = Due(lease, now) /\ none = {}
      OBVIOUS
<1>2. /\ lease' = Expired(lease, D) /\ slot' = Cleared(D) /\ Committed(none)
      /\ at' = at /\ overwritten' = overwritten
      BY <1>1 DEF Sweep, history
<1>3. LoadedIsCurrent'
      BY <1>2, CommitDisturbs DEF IInv
<1>4. ASSUME ~overwritten' PROVE Agree(lease', slot', at')
  <2>1. D \in SUBSET Leases
        BY <1>1 DEF Due
  <2>2. Agree(Expired(lease, D), Cleared(D), at)
        BY <1>2, <1>4, <2>1, SweepAgrees DEF IInv, SInv
  <2> QED BY <1>2, <2>2
<1>5. SInv' = ((~overwritten' => Agree(lease', slot', at')) /\ LoadedIsCurrent')
      BY DEF SInv, Agree
<1> QED BY <1>3, <1>4, <1>5

LEMMA CreditMatches == ASSUME IInv, SInv, NEW item \in Items, Credit(item) PROVE SInv'
<1>1. PICK N, none : N = lease' /\ none = {}
      OBVIOUS
<1>2. SameMounted(lease, N) /\ Committed(none) /\ UNCHANGED <<slot, at, overwritten>>
      BY <1>1 DEF Credit, SameMounted, history
<1> QED BY <1>1, <1>2, OtherMatches

LEMMA CreditLeaseMatches == ASSUME IInv, SInv, CreditLease PROVE SInv'
<1>1. PICK N, none : N = lease' /\ none = {}
      OBVIOUS
<1>2. PICK S \in Fresh(lease, 1) : lease' = Created(lease, S, now)
      BY DEF CreditLease
<1>3. \A l \in Leases : l \in S => lease[l].status # "equipped"
      BY DEF Fresh
<1>4. SameMounted(lease, N)
      BY <1>1, <1>2, <1>3, CreatedSame
<1> QED BY <1>1, <1>4, OtherMatches DEF CreditLease

LEMMA ListMatches == ASSUME IInv, SInv, NEW item \in Items, List(item) PROVE SInv'
<1>1. PICK N, none : N = lease' /\ none = {}
      OBVIOUS
<1>2. SameMounted(lease, N)
  <2>1. CASE item = "asic"
    <3>1. PICK l \in InStock(lease) : lease' = Move(lease, {l}, "listed", NoRack, NoSlot)
          BY <2>1 DEF List
    <3>2. PICK S : S = {l}
          OBVIOUS
    <3>3. \A m \in Leases : m \in S => lease[m].status # "equipped"
          BY <3>1, <3>2 DEF InStock
    <3> QED BY <1>1, <3>1, <3>2, <3>3, MoveSame
  <2>2. CASE item # "asic"
        BY <1>1, <2>2 DEF List, SameMounted
  <2> QED BY <2>1, <2>2
<1> QED BY <1>1, <1>2, OtherMatches DEF List, history

LEMMA SoldMatches == ASSUME IInv, SInv, NEW l \in Leases, Sold(l) PROVE SInv'
<1>1. PICK N, none, S : N = lease' /\ none = {} /\ S = {l}
      OBVIOUS
<1>2. \A m \in Leases : m \in S => lease[m].status # "equipped"
      BY <1>1 DEF Sold
<1>3. lease' = Move(lease, S, "sold", NoRack, NoSlot)
      BY <1>1 DEF Sold
<1>4. SameMounted(lease, N)
      BY <1>1, <1>2, <1>3, MoveSame
<1> QED BY <1>1, <1>4, OtherMatches DEF Sold

LEMMA AdminMergeMatches == ASSUME IInv, SInv, NEW q \in Nat, AdminMerge(q) PROVE SInv'
<1>1. PICK N, none : N = lease' /\ none = {}
      OBVIOUS
<1>2. SameMounted(lease, N)
  <2>1. PICK page : Stocked(page)
        BY DEF AdminMerge
  <2> QED BY <1>1, <2>1, ReconciledSame DEF Stocked
<1> QED BY <1>1, <1>2, OtherMatches DEF AdminMerge

-----------------------------------------------------------------------------
(* An administrator's page: racks it leaves out are taken with all their    *)
(* slots, and the leases in them stay mounted.                              *)

LEMMA AdminOpenMatches == ASSUME IInv, SInv, NEW t \in Txs, AdminOpen(t) PROVE SInv'
<1>1. PICK x : x = [on |-> TRUE, key |-> Page, clock |-> 0, swept |-> {}, behind |-> 0,
                    copy |-> Current]
      OBVIOUS
<1>2. intent' = [intent EXCEPT ![t] = x] /\ UNCHANGED <<lease, slot, at, overwritten>>
      BY <1>1 DEF AdminOpen, hardware, history
<1>3. intent \in [Txs -> IntentRows]
      BY DEF IInv, TypeOK, IntentRows
<1>4. x.key = Page /\ x.copy.slot = slot /\ x.copy.at = at
      BY <1>1 DEF Current
<1>5. ASSUME NEW u \in Txs, Undisturbed(u)'
      PROVE  Undisturbed(u) /\ intent'[u] = intent[u]
      BY <1>2, <1>3, <1>4, <1>5 DEF Undisturbed, Runs, On
<1>6. ASSUME NEW u \in Txs, Opened(u)', intent'[u].behind = 0
      PROVE  intent'[u].copy.slot = slot /\ intent'[u].copy.at = at
  <2>1. CASE u = t
        BY <1>2, <1>3, <1>4, <2>1
  <2>2. CASE u # t
        BY <1>2, <1>3, <1>6, <2>2 DEF SInv, LoadedIsCurrent, Opened, On
  <2> QED BY <2>1, <2>2
<1>7. \A S : Cleared(S)' = Cleared(S)
      BY <1>2 DEF Cleared, Mounted
<1>8. LoadedIsCurrent'
      BY <1>2, <1>5, <1>6, <1>7 DEF SInv, LoadedIsCurrent, Due
<1>9. ~overwritten' => Agree(lease, slot, at)'
      BY <1>2 DEF SInv, Agree
<1> QED BY <1>8, <1>9 DEF SInv

LEMMA WithoutAgrees ==
  ASSUME NEW copy \in Copies, NEW gone, NEW L, Agree(L, copy.slot, copy.at),
         NEW out, out = Without(copy, gone)
  PROVE  Agree(L, out.slot, out.at)
<1>1. PICK s, a : s = copy.slot /\ a = copy.at
      OBVIOUS
<1>2. PICK z, b : /\ z = [r \in Racks |-> IF r \in gone THEN [i \in Slots |-> Empty] ELSE s[r]]
                  /\ b = [r \in Racks |-> IF r \in gone THEN "taken" ELSE a[r]]
      OBVIOUS
<1>3. out.slot = z /\ out.at = b
      BY <1>1, <1>2 DEF Without, Copies
<1>4. /\ \A r \in Racks : r \in gone => b[r] = "taken" /\ \A i \in Slots : z[r][i] = Empty
      /\ \A r \in Racks : r \notin gone => b[r] = a[r] /\ z[r] = s[r]
      BY <1>2
<1>5. Agree(L, s, a)
      BY <1>1
<1>6. Agree(L, z, b)
      BY <1>4, <1>5, EmptyParts DEF Agree
<1> QED BY <1>3, <1>6

LEMMA PageMatches ==
  ASSUME IInv, SInv, NEW t \in Txs, Opened(t), NEW gone,
         NEW out, out = Without(intent[t].copy, gone), PersistPage(t, out),
         NEW N, N = lease', SameMounted(lease, N)
  PROVE  SInv'
<1>1. PICK done, copy : done = {t} /\ copy = intent[t].copy
      OBVIOUS
<1>2. Committed(done) /\ slot' = out.slot /\ at' = out.at
      BY <1>1 DEF PersistPage, PersistRacks
<1>3. LoadedIsCurrent'
      BY <1>2, CommitDisturbs DEF IInv
<1>4. ASSUME ~overwritten' PROVE Agree(lease', slot', at')
  <2>1. ~overwritten /\ ~(intent[t].behind > 0)
        BY <1>4 DEF PersistPage
  <2>2. copy \in Copies /\ intent[t].behind \in Nat
        BY <1>1, IntentParts DEF IInv, IntentRows
  <2>3. intent[t].behind = 0
        BY <2>1, <2>2
  <2>4. copy.slot = slot /\ copy.at = at
        BY <1>1, <2>3 DEF SInv, LoadedIsCurrent
  <2>5. Agree(N, copy.slot, copy.at)
        BY <2>1, <2>4, SameAgrees DEF SInv
  <2>6. Agree(N, out.slot, out.at)
        BY <1>1, <2>2, <2>5, WithoutAgrees
  <2> QED BY <1>2, <2>6
<1>5. SInv' = ((~overwritten' => Agree(lease', slot', at')) /\ LoadedIsCurrent')
      BY DEF SInv, Agree
<1> QED BY <1>3, <1>4, <1>5

LEMMA AdminSaveMatches == ASSUME IInv, SInv, NEW t \in Txs, NEW gone, AdminSave(t, gone) PROVE SInv'
<1>1. PICK out, N : out = Without(intent[t].copy, gone) /\ N = lease'
      OBVIOUS
<1>2. Opened(t) /\ PersistPage(t, out)
      BY <1>1 DEF AdminSave
<1>3. SameMounted(lease, N)
  <2>1. CASE lease' = lease
        BY <1>1, <2>1 DEF SameMounted
  <2>2. CASE \E page : Stocked(page)
        BY <1>1, <2>2, ReconciledSame DEF Stocked
  <2> QED BY <2>1, <2>2 DEF AdminSave
<1> QED BY <1>1, <1>2, <1>3, PageMatches

LEMMA RevokeRoomsMatches ==
  ASSUME IInv, SInv, NEW t \in Txs, NEW gone, RevokeRooms(t, gone)
  PROVE  SInv'
<1>1. PICK out, N : out = Without(intent[t].copy, gone) /\ N = lease'
      OBVIOUS
<1>2. Opened(t) /\ PersistPage(t, out)
      BY <1>1 DEF RevokeRooms
<1>3. SameMounted(lease, N)
  <2>1. CASE lease' = lease
        BY <1>1, <2>1 DEF SameMounted
  <2>2. CASE \E q : lease' \in Reconciled(lease, q, now, FALSE)
        BY <1>1, <2>2, ReconciledSame
  <2> QED BY <2>1, <2>2 DEF RevokeRooms
<1> QED BY <1>1, <1>2, <1>3, PageMatches

\* A step that changes neither hardware nor intents.
LEMMA IdleMatches ==
  ASSUME SInv, UNCHANGED <<lease, slot, at, intent, overwritten>>
  PROVE  SInv'
<1>1. \A S : Cleared(S)' = Cleared(S)
      BY DEF Cleared, Mounted
<1>2. LoadedIsCurrent'
      BY <1>1 DEF SInv, LoadedIsCurrent, Undisturbed, Runs, Opened, On, Due
<1> QED BY <1>2 DEF SInv, Agree

-----------------------------------------------------------------------------

LEMMA InitMatches == Init => SInv
<1> SUFFICES ASSUME Init PROVE SInv
    OBVIOUS
<1>1. \A l \in Leases : lease[l].status = "none"
      BY RowStatus DEF Init
<1>2. \A r \in Racks, i \in Slots : slot[r][i] = Empty
      BY DEF Init, NoCopy
<1>3. Agree(lease, slot, at)
      BY <1>1, <1>2, EmptyParts DEF Agree
<1>4. \A t \in Txs : ~On(t)
      BY DEF Init, On, NoIntent
<1> QED BY <1>3, <1>4 DEF SInv, LoadedIsCurrent, Undisturbed, Runs, Opened

LEMMA StepMatches == IInv /\ SInv /\ [Next]_vars => SInv'
<1> SUFFICES ASSUME IInv, SInv, [Next]_vars PROVE SInv'
    OBVIOUS
<1>1. CASE Advance
      BY <1>1, IdleMatches DEF Advance, hardware, history
<1>2. CASE Sweep
      BY <1>2, SweepMatches
<1>3. CASE CreditLease
      BY <1>3, CreditLeaseMatches
<1>4. CASE Credit("gpu")
      BY <1>4, CreditMatches DEF Items
<1>5. CASE \E item \in {"gpu", "asic"} : List(item)
      BY <1>5, ListMatches DEF Items
<1>6. CASE \E l \in Leases : Sold(l)
      BY <1>6, SoldMatches
<1>7. CASE \E q \in 0..MaxQty : AdminMerge(q)
  <2>1. PICK q \in 0..MaxQty : AdminMerge(q)
        BY <1>7
  <2>2. q \in Nat
        BY HIAssumption
  <2> QED BY <2>1, <2>2, AdminMergeMatches
<1>8. ASSUME NEW t \in Txs, Intent(t) PROVE SInv'
  <2>1. CASE \E k \in Keys \cup {FreshKey} : Begin(t, k)
        BY <2>1, BeginMatches
  <2>2. CASE \E r \in Racks, i \in Slots : EquipPermanent(t, r, i)
        BY <2>2, EquipPermanentMatches
  <2>3. CASE \E r \in Racks, i \in Slots : EquipTimed(t, r, i)
        BY <2>3, EquipTimedMatches
  <2>4. CASE \E r \in Racks, i \in Slots : Unequip(t, r, i)
        BY <2>4, UnequipMatches
  <2>5. CASE \E r \in Racks : Remove(t, r)
        BY <2>5, RemoveMatches
  <2>6. CASE \E p \in Places, r \in Racks : Place(t, p, r)
        BY <2>6, PlaceMatches
  <2>7. CASE Abort(t)
        BY <2>7, AbortMatches
  <2> QED BY <1>8, <2>1, <2>2, <2>3, <2>4, <2>5, <2>6, <2>7 DEF Intent
<1>9. CASE \E t \in Txs : Administrator(t)
      BY <1>9, AdminOpenMatches, AdminSaveMatches, RevokeRoomsMatches DEF Administrator
<1>10. CASE UNCHANGED vars
      BY <1>10, IdleMatches DEF vars, hardware, history
<1> QED BY <1>1, <1>2, <1>3, <1>4, <1>5, <1>6, <1>7, <1>8, <1>9, <1>10 DEF Next

LEMMA AgreeMatches == SInv => SlotsMatchLeases
<1> SUFFICES ASSUME SInv, ~overwritten
             PROVE  /\ \A r \in Racks, i \in Slots :
                         slot[r][i].item = "asic" =>
                           slot[r][i].lease \in Leases /\ Mounted(slot[r][i].lease, r, i)
                    /\ \A l \in Leases : lease[l].status = "equipped" =>
                         Mounted(l, lease[l].rack, lease[l].slot) \/ at[lease[l].rack] \in {"swapped", "taken"}
    BY DEF SlotsMatchLeases
<1>1. Agree(lease, slot, at)
      BY DEF SInv
<1> QED BY <1>1 DEF Agree, Mounted

\* As long as neither an intent nor an administrator's page has overwritten a commit
\* it had not loaded, every slot with a machine that has a validity holds a lease of
\* its own, which says it is there, and a mounted lease is in its slot, but for a rack
\* that was replaced or that an administrator took away; what else slots and leases
\* disagree about can only come from two writers of one player's racks.
THEOREM SlotsLeasesAgree == Spec => []SlotsMatchLeases
<1>1. Init => IInv /\ SInv
      BY InitHolds, InitMatches
<1>2. IInv /\ SInv /\ [Next]_vars => IInv' /\ SInv'
      BY StepHolds, StepMatches
<1>3. IInv /\ SInv => SlotsMatchLeases
      BY AgreeMatches
<1> QED BY <1>1, <1>2, <1>3, PTL DEF Spec

-----------------------------------------------------------------------------
(* What an intent that nothing overtook creates or destroys.  It has loaded *)
(* the quantities of the tables, and a count of machines with a validity    *)
(* that covers every lease it sees running: CInv, with SInv the inductive   *)
(* invariant behind UndisturbedConserves.                                   *)

CountsCurrent(t) ==
  /\ intent[t].clock <= now
  /\ intent[t].copy.stock["gpu"] = stock["gpu"] /\ intent[t].copy.stock["rig"] = stock["rig"]
  /\ soldOverdue \/ Cardinality(Unexpired(Base(t), intent[t].clock)) <= intent[t].copy.stock["asic"]
CInv == \A t \in Txs : Undisturbed(t) => CountsCurrent(t)

LEMMA FewerUnexpired ==
  ASSUME NEW L \in LeaseTable, NEW c \in Nat, NEW d \in Nat, c <= d
  PROVE  Cardinality(Unexpired(L, d)) <= Cardinality(Unexpired(L, c))
<1>1. \A l \in Leases : L[l].due \in Nat
      BY DEF LeaseTable, LeaseRows
<1>2. Unexpired(L, d) \in SUBSET Unexpired(L, c) /\ Unexpired(L, c) \in SUBSET Leases
      BY <1>1 DEF Unexpired, InStock
<1>3. IsFiniteSet(Unexpired(L, c))
      BY <1>2, HIAssumption, FS_Subset
<1> QED BY <1>2, <1>3, FS_Subset

\* A commit leaves no intent undisturbed, and ends none but its own.
LEMMA CommitOvertakes ==
  ASSUME TypeOK, NEW done, Committed(done)
  PROVE  /\ \A t \in Txs : ~Undisturbed(t)'
         /\ \A t \in Txs : t \notin done => On(t)' = On(t)
<1>1. ASSUME NEW t \in Txs
      PROVE  /\ ~(intent'[t].on /\ intent'[t].behind = 0)
             /\ t \notin done => intent'[t].on = intent[t].on
  <2>1. CASE t \in done
        BY <2>1 DEF Committed, NoIntent
  <2>2. CASE t \notin done /\ On(t)
    <3>1. intent'[t] = [intent[t] EXCEPT !.behind = intent[t].behind + 1]
          BY <2>2 DEF Committed
    <3>2. intent[t] \in IntentRows
          BY IntentParts
    <3>3. /\ intent'[t].behind = intent[t].behind + 1 /\ intent[t].behind \in Nat
          /\ intent'[t].on = intent[t].on
          BY <3>1, <3>2 DEF IntentRows
    <3> QED BY <3>3
  <2>3. CASE t \notin done /\ ~On(t)
        BY <2>3 DEF Committed, On
  <2> QED BY <2>1, <2>2, <2>3
<1> QED BY <1>1 DEF Undisturbed, Runs, On

LEMMA CommitKeepsCurrent == ASSUME TypeOK, NEW done, Committed(done) PROVE CInv'
  BY CommitOvertakes DEF CInv

\* A step that leaves lease rows and quantities alone, and the intents that go on.
LEMMA QuietKeepsCurrent ==
  ASSUME TypeOK, CInv, lease' = lease, stock' = stock, soldOverdue' = soldOverdue,
         now' \in {now, now + 1},
         \A t \in Txs : Undisturbed(t)' => intent'[t] = intent[t] \/ CountsCurrent(t)'
  PROVE  CInv'
<1> SUFFICES ASSUME NEW t \in Txs, Undisturbed(t)', intent'[t] = intent[t] PROVE CountsCurrent(t)'
    BY DEF CInv
<1>1. CountsCurrent(t)
      BY DEF CInv, Undisturbed, Runs, On
<1>2. intent[t].clock \in Nat /\ now \in Nat
      BY IntentParts DEF TypeOK
<1>3. intent'[t].clock <= now'
      BY <1>1, <1>2 DEF CountsCurrent
<1>4. Cardinality(Unexpired(Base(t), intent[t].clock))'
        = Cardinality(Unexpired(Base(t), intent[t].clock))
      BY DEF Unexpired, InStock, Base, Expired, Move
<1> QED BY <1>1, <1>3, <1>4 DEF CountsCurrent

\* An intent loads the quantities as they are.  Where nothing is over, the count
\* is that of the rows (StockMatchesLeases) and is not written again.
LEMMA BeginLoads ==
  ASSUME IInv, CInv, StockMatchesLeases, NEW t \in Txs, NEW k \in Keys \cup {FreshKey}, Begin(t, k)
  PROVE  CInv'
<1>1. PICK D, q, x : /\ D = Due(lease, now) /\ q = Recounted(D, now)
                     /\ x = [on |-> TRUE, key |-> k, clock |-> now, swept |-> D, behind |-> 0,
                             copy |-> [stock |-> q, at |-> at, slot |-> Cleared(D)]]
      OBVIOUS
<1>2. /\ intent' = [intent EXCEPT ![t] = x]
      /\ UNCHANGED <<now, lease, stock, soldOverdue>>
      BY <1>1 DEF Begin, hardware, history
<1>3. /\ intent \in [Txs -> IntentRows] /\ lease \in LeaseTable /\ now \in Nat
      /\ stock \in [Items -> Nat]
      BY DEF IInv, TypeOK, IntentRows, LeaseTable
<1>4. /\ intent'[t] = x /\ x.clock = now /\ x.swept = D /\ x.copy.stock = q
      /\ \A u \in Txs : u # t => intent'[u] = intent[u]
      BY <1>1, <1>2, <1>3
<1>5. q["gpu"] = stock["gpu"] /\ q["rig"] = stock["rig"]
      BY <1>1, <1>3 DEF Recounted, SyncStock, Items
<1>6. soldOverdue \/ Cardinality(Unexpired(Expired(lease, D), now)) <= q["asic"]
  <2>1. PICK n : n = Cardinality(Unexpired(Expired(lease, D), now))
        OBVIOUS
  <2>2. n \in Nat
        BY <2>1, CountIsNat DEF Unexpired, InStock
  <2>3. CASE D # {}
    <3>1. q = [stock EXCEPT !["asic"] = n]
          BY <1>1, <2>1, <2>3 DEF Recounted, SyncStock
    <3> QED BY <1>3, <2>1, <2>2, <3>1 DEF Items
  <2>4. CASE D = {}
    <3>1. q = stock
          BY <1>1, <2>4 DEF Recounted
    <3>2. soldOverdue \/ stock["asic"] = Cardinality(InStock(lease))
          BY <1>1, <2>4 DEF StockMatchesLeases
    <3>3. Unexpired(Expired(lease, D), now) \in SUBSET InStock(lease)
          BY <2>4 DEF Unexpired, InStock, Expired, Move
    <3>4. IsFiniteSet(InStock(lease))
          BY HIAssumption, FS_Subset DEF InStock
    <3> QED BY <3>1, <3>2, <3>3, <3>4, FS_Subset
  <2> QED BY <2>3, <2>4
<1>7. CountsCurrent(t)'
  <2>1. Unexpired(Base(t), intent[t].clock)' = Unexpired(Expired(lease, D), now)
        BY <1>2, <1>4 DEF Unexpired, InStock, Base, Expired, Move
  <2>2. /\ intent'[t].clock <= now'
        /\ intent'[t].copy.stock["gpu"] = stock'["gpu"] /\ intent'[t].copy.stock["rig"] = stock'["rig"]
        BY <1>2, <1>3, <1>4, <1>5
  <2>3. soldOverdue' \/ Cardinality(Unexpired(Base(t), intent[t].clock)') <= intent'[t].copy.stock["asic"]
        BY <1>2, <1>4, <1>6, <2>1
  <2> QED BY <2>2, <2>3 DEF CountsCurrent
<1>8. \A u \in Txs : Undisturbed(u)' => intent'[u] = intent[u] \/ CountsCurrent(u)'
      BY <1>4, <1>7
<1> QED BY <1>2, <1>8, QuietKeepsCurrent DEF IInv

LEMMA StepKeepsCurrent == IInv /\ CInv /\ StockMatchesLeases /\ [Next]_vars => CInv'
<1> SUFFICES ASSUME IInv, CInv, StockMatchesLeases, [Next]_vars PROVE CInv'
    OBVIOUS
<1>0. TypeOK
      BY DEF IInv
<1>1. CASE Advance \/ UNCHANGED vars
      BY <1>0, <1>1, QuietKeepsCurrent DEF Advance, vars, hardware, history
<1>2. ASSUME NEW done, Committed(done) PROVE CInv'
      BY <1>0, <1>2, CommitKeepsCurrent
<1>3. CASE Sweep \/ CreditLease \/ Credit("gpu")
      BY <1>2, <1>3 DEF Sweep, CreditLease, Credit
<1>4. CASE \/ \E item \in {"gpu", "asic"} : List(item)
           \/ \E l \in Leases : Sold(l)
           \/ \E q \in 0..MaxQty : AdminMerge(q)
      BY <1>2, <1>4 DEF List, Sold, AdminMerge
<1>5. ASSUME NEW t \in Txs, Intent(t) PROVE CInv'
  <2>1. CASE \E k \in Keys \cup {FreshKey} : Begin(t, k)
        BY <2>1, BeginLoads
  <2>2. CASE Abort(t)
    <3>1. PICK x : x = NoIntent
          OBVIOUS
    <3>2. /\ intent' = [intent EXCEPT ![t] = x] /\ ~x.on
          /\ UNCHANGED <<now, lease, stock, soldOverdue>>
          BY <2>2, <3>1 DEF Abort, hardware, history, NoIntent
    <3>3. intent \in [Txs -> IntentRows]
          BY <1>0 DEF TypeOK, IntentRows
    <3>4. \A u \in Txs : Undisturbed(u)' => intent'[u] = intent[u]
          BY <3>2, <3>3 DEF Undisturbed, Runs, On
    <3> QED BY <1>0, <3>2, <3>4, QuietKeepsCurrent
  <2>3. ASSUME NEW r \in Racks, NEW i \in Slots,
               EquipPermanent(t, r, i) \/ EquipTimed(t, r, i) \/ Unequip(t, r, i)
        PROVE  CInv'
        BY <1>2, <2>3 DEF EquipPermanent, EquipTimed, Unequip, Save
  <2>4. ASSUME NEW r \in Racks, Remove(t, r) PROVE CInv'
        BY <1>2, <2>4 DEF Remove, Save
  <2>5. ASSUME NEW p \in Places, NEW r \in Racks, Place(t, p, r) PROVE CInv'
        BY <1>2, <2>5 DEF Place, Save
  <2> QED BY <1>5, <2>1, <2>2, <2>3, <2>4, <2>5 DEF Intent
<1>6. ASSUME NEW t \in Txs, Administrator(t) PROVE CInv'
  <2>1. CASE AdminOpen(t)
    <3>1. PICK x : x = [on |-> TRUE, key |-> Page, clock |-> 0, swept |-> {}, behind |-> 0,
                        copy |-> Current]
          OBVIOUS
    <3>2. /\ intent' = [intent EXCEPT ![t] = x] /\ x.key = Page
          /\ UNCHANGED <<now, lease, stock, soldOverdue>>
          BY <2>1, <3>1 DEF AdminOpen, hardware, history
    <3>3. intent \in [Txs -> IntentRows]
          BY <1>0 DEF TypeOK, IntentRows
    <3>4. \A u \in Txs : Undisturbed(u)' => intent'[u] = intent[u]
          BY <3>2, <3>3 DEF Undisturbed, Runs, On
    <3> QED BY <1>0, <3>2, <3>4, QuietKeepsCurrent
  <2>2. ASSUME NEW gone, AdminSave(t, gone) \/ RevokeRooms(t, gone) PROVE CInv'
        BY <1>2, <2>2 DEF AdminSave, RevokeRooms, PersistPage
  <2> QED BY <1>6, <2>1, <2>2 DEF Administrator
<1> QED BY <1>1, <1>3, <1>4, <1>5, <1>6 DEF Next

LEMMA InitCurrent == Init => CInv
  BY DEF Init, CInv, Undisturbed, Runs, On, NoIntent

-----------------------------------------------------------------------------
(* Counting permanent machines and chassis. *)

Gpus(s) == {x \in Racks \X Slots : s[x[1]][x[2]].item = "gpu"}
Rigs(a) == {r \in Racks : a[r] \in Places}

LEMMA GpusFinite == ASSUME NEW s PROVE IsFiniteSet(Gpus(s)) /\ Cardinality(Gpus(s)) \in Nat
<1>1. IsFiniteSet(Racks \X Slots)
      BY HIAssumption, FS_Product
<1>2. Gpus(s) \in SUBSET (Racks \X Slots)
      BY DEF Gpus
<1> QED BY <1>1, <1>2, FS_Subset, FS_CardinalityType

LEMMA RigsFinite == ASSUME NEW a PROVE IsFiniteSet(Rigs(a)) /\ Cardinality(Rigs(a)) \in Nat
<1>1. Rigs(a) \in SUBSET Racks
      BY DEF Rigs
<1> QED BY <1>1, HIAssumption, FS_Subset, FS_CardinalityType

\* z is s with x in slot i of rack r.
Reslotted(s, z, r, i, x) ==
  \A k \in Racks, j \in Slots : z[k][j] = IF k = r /\ j = i THEN x ELSE s[k][j]

LEMMA SlotGpus ==
  ASSUME NEW s, NEW z, NEW r \in Racks, NEW i \in Slots, NEW x,
         Reslotted(s, z, r, i, x)
  PROVE  /\ s[r][i].item # "gpu" /\ x.item = "gpu" =>
              Cardinality(Gpus(z)) = Cardinality(Gpus(s)) + 1
         /\ s[r][i].item = "gpu" /\ x.item # "gpu" =>
              Cardinality(Gpus(z)) = Cardinality(Gpus(s)) - 1
         /\ s[r][i].item # "gpu" /\ x.item # "gpu" =>
              Cardinality(Gpus(z)) = Cardinality(Gpus(s))
<1>1. \A y \in Racks \X Slots : y # <<r, i>> => z[y[1]][y[2]] = s[y[1]][y[2]]
      BY DEF Reslotted
<1>2. z[r][i] = x /\ <<r, i>> \in Racks \X Slots
      BY DEF Reslotted
<1>3. \A y \in Racks \X Slots : y # <<r, i>> => (y \in Gpus(z) <=> y \in Gpus(s))
      BY <1>1 DEF Gpus
<1>4. (<<r, i>> \in Gpus(z) <=> x.item = "gpu") /\ (<<r, i>> \in Gpus(s) <=> s[r][i].item = "gpu")
      BY <1>2 DEF Gpus
<1>5. Gpus(z) \subseteq Racks \X Slots /\ Gpus(s) \subseteq Racks \X Slots
      BY DEF Gpus
<1>6. CASE s[r][i].item # "gpu" /\ x.item = "gpu"
  <2>1. Gpus(z) = Gpus(s) \cup {<<r, i>>} /\ <<r, i>> \notin Gpus(s)
        BY <1>2, <1>3, <1>4, <1>5, <1>6
  <2> QED BY <1>6, <2>1, GpusFinite, FS_AddElement
<1>7. CASE s[r][i].item = "gpu" /\ x.item # "gpu"
  <2>1. Gpus(z) = Gpus(s) \ {<<r, i>>} /\ <<r, i>> \in Gpus(s)
        BY <1>2, <1>3, <1>4, <1>5, <1>7
  <2>2. PICK G, H, y : G = Gpus(s) /\ H = Gpus(z) /\ y = <<r, i>>
        OBVIOUS
  <2>3. IsFiniteSet(G) /\ H = G \ {y} /\ y \in G
        BY <2>1, <2>2, GpusFinite
  <2>4. Cardinality(H) = Cardinality(G) - 1
        BY <2>3, FS_RemoveElement
  <2> QED BY <1>7, <2>2, <2>4
<1>8. CASE s[r][i].item # "gpu" /\ x.item # "gpu"
  <2>1. PICK G, H, y : G = Gpus(s) /\ H = Gpus(z) /\ y = <<r, i>>
        OBVIOUS
  <2>2. \A e \in Racks \X Slots : e \in H <=> e \in G
        BY <1>3, <1>4, <1>8, <2>1
  <2>3. Gpus(z) = Gpus(s)
        BY <1>5, <2>1, <2>2
  <2> QED BY <1>8, <2>3
<1> QED BY <1>6, <1>7, <1>8

\* Emptying a rack takes as many machines out of the slots as it holds.
LEMMA RackGpus ==
  ASSUME NEW copy, NEW z, NEW r \in Racks,
         \A k \in Racks, j \in Slots : z[k][j] = IF k = r THEN Empty ELSE copy.slot[k][j]
  PROVE  Cardinality(Gpus(z)) + Cardinality(In(copy, r, "gpu")) = Cardinality(Gpus(copy.slot))
<1>1. PICK I, P, s : I = In(copy, r, "gpu") /\ P = {r} \X I /\ s = copy.slot
      OBVIOUS
<1>2. I \in SUBSET Slots /\ \A i \in Slots : i \in I <=> s[r][i].item = "gpu"
      BY <1>1 DEF In
<1>3. IsFiniteSet(I) /\ IsFiniteSet({r}) /\ Cardinality({r}) = 1 /\ Cardinality(I) \in Nat
      BY <1>2, HIAssumption, FS_Subset, FS_Singleton, FS_CardinalityType
<1>4. IsFiniteSet(P) /\ Cardinality(P) = Cardinality(I)
  <2>1. IsFiniteSet(P) /\ Cardinality(P) = Cardinality({r}) * Cardinality(I)
        BY <1>1, <1>3, FS_Product
  <2> QED BY <1>3, <2>1
<1>5. P \subseteq Gpus(s)
      BY <1>1, <1>2 DEF Gpus
<1>6. Gpus(z) = Gpus(s) \ P
  <2>1. ASSUME NEW y \in Racks \X Slots PROVE y \in Gpus(z) <=> y \in Gpus(s) /\ y \notin P
    <3>1. PICK k \in Racks, j \in Slots : y = <<k, j>>
          OBVIOUS
    <3>2. y \in Gpus(z) <=> z[k][j].item = "gpu"
          BY <3>1 DEF Gpus
    <3>3. y \in Gpus(s) <=> s[k][j].item = "gpu"
          BY <3>1 DEF Gpus
    <3>4. y \in P <=> k = r /\ j \in I
          BY <1>1, <3>1
    <3> QED BY <1>1, <1>2, <3>2, <3>3, <3>4, EmptyParts
  <2>2. Gpus(z) \subseteq Racks \X Slots /\ Gpus(s) \subseteq Racks \X Slots
        BY DEF Gpus
  <2> QED BY <2>1, <2>2
<1>7. Cardinality(Gpus(z)) = Cardinality(Gpus(s)) - Cardinality(Gpus(s) \cap P)
      BY <1>6, GpusFinite, FS_Difference
<1>8. Gpus(s) \cap P = P
      BY <1>5
<1>9. PICK g, h, n : g = Cardinality(Gpus(s)) /\ h = Cardinality(Gpus(z)) /\ n = Cardinality(I)
      OBVIOUS
<1>10. g \in Nat /\ n \in Nat /\ h = g - n
      BY <1>3, <1>4, <1>7, <1>8, <1>9, GpusFinite
<1>11. h + n = g
      BY <1>10
<1> QED BY <1>1, <1>9, <1>11

LEMMA MoveRigs ==
  ASSUME NEW a, NEW b, NEW r \in Racks, \A k \in Racks : k # r => b[k] = a[k]
  PROVE  /\ a[r] \in Places /\ b[r] \notin Places => Cardinality(Rigs(b)) = Cardinality(Rigs(a)) - 1
         /\ a[r] \notin Places /\ b[r] \in Places => Cardinality(Rigs(b)) = Cardinality(Rigs(a)) + 1
<1>1. CASE a[r] \in Places /\ b[r] \notin Places
  <2>1. Rigs(b) = Rigs(a) \ {r} /\ r \in Rigs(a)
        BY <1>1 DEF Rigs
  <2> QED BY <1>1, <2>1, RigsFinite, FS_RemoveElement
<1>2. CASE a[r] \notin Places /\ b[r] \in Places
  <2>1. Rigs(b) = Rigs(a) \cup {r} /\ r \notin Rigs(a)
        BY <1>2 DEF Rigs
  <2> QED BY <1>2, <2>1, RigsFinite, FS_AddElement
<1> QED BY <1>1, <1>2

-----------------------------------------------------------------------------
(* Quantities of a copy. *)

LEMMA CountStock ==
  ASSUME NEW copy \in Copies, NEW item, NEW n
  PROVE  Count(copy, item, n).stock = [copy.stock EXCEPT ![item] = n]
  BY DEF Count, Copies

\* A bump counts the item anew; its parts are read off the count.
LEMMA CountMoves ==
  ASSUME NEW copy \in Copies, NEW n
  PROVE  /\ Count(copy, "gpu", n).stock = [copy.stock EXCEPT !["gpu"] = n]
         /\ Count(copy, "asic", n).stock = [copy.stock EXCEPT !["asic"] = n]
         /\ Count(copy, "rig", n).stock = [copy.stock EXCEPT !["rig"] = n]
         /\ \A i \in Items : /\ Count(copy, i, n).slot = copy.slot
                             /\ Count(copy, i, n).at = copy.at
<1>1. ASSUME NEW i
      PROVE  /\ Count(copy, i, n).stock = [copy.stock EXCEPT ![i] = n]
             /\ Count(copy, i, n).slot = copy.slot /\ Count(copy, i, n).at = copy.at
      BY DEF Count, Copies
<1>2. PICK g, a, r : g = "gpu" /\ a = "asic" /\ r = "rig"
      OBVIOUS
<1>3. /\ Count(copy, g, n).stock = [copy.stock EXCEPT ![g] = n]
      /\ Count(copy, a, n).stock = [copy.stock EXCEPT ![a] = n]
      /\ Count(copy, r, n).stock = [copy.stock EXCEPT ![r] = n]
      BY <1>1
<1> QED BY <1>1, <1>2, <1>3

LEMMA PutStock ==
  ASSUME NEW copy \in Copies, NEW r, NEW i, NEW x
  PROVE  Put(copy, r, i, x).stock = copy.stock
<1>1. PICK s : s = [copy.slot EXCEPT ![r] = [copy.slot[r] EXCEPT ![i] = x]]
      OBVIOUS
<1>2. Put(copy, r, i, x) = [copy EXCEPT !.slot = s]
      BY <1>1 DEF Put
<1> QED BY <1>2 DEF Copies

LEMMA TakeawayStock ==
  ASSUME NEW copy \in Copies, NEW r, NEW why
  PROVE  Takeaway(copy, r, why).stock = copy.stock
<1>1. PICK a, s : a = [copy.at EXCEPT ![r] = why] /\ s = [copy.slot EXCEPT ![r] = [i \in Slots |-> Empty]]
      OBVIOUS
<1>2. Takeaway(copy, r, why) = [copy EXCEPT !.at = a, !.slot = s]
      BY <1>1 DEF Takeaway
<1> QED BY <1>2 DEF Copies

LEMMA CountedStock ==
  ASSUME NEW copy \in Copies, NEW L \in LeaseTable, NEW c \in Nat, NEW d \in Nat, c <= d
  PROVE  /\ Counted(copy, L, c).stock["gpu"] = copy.stock["gpu"]
         /\ Counted(copy, L, c).stock["rig"] = copy.stock["rig"]
         /\ Cardinality(Unexpired(L, d)) <= Counted(copy, L, c).stock["asic"]
<1>1. PICK n : n = Cardinality(Unexpired(L, c))
      OBVIOUS
<1>2. Counted(copy, L, c).stock = [copy.stock EXCEPT !["asic"] = n]
  <2>1. PICK item : item = "asic"
        OBVIOUS
  <2>2. Counted(copy, L, c) = Count(copy, item, n)
        BY <1>1, <2>1 DEF Counted
  <2> QED BY <2>1, <2>2, CountStock
<1>3. copy.stock \in [Items -> Nat] /\ Items = {"gpu", "asic", "rig"}
      BY CopyParts DEF Items
<1>4. Cardinality(Unexpired(L, d)) <= n
      BY <1>1, FewerUnexpired
<1> QED BY <1>2, <1>3, <1>4

-----------------------------------------------------------------------------
(* Leases that still run. *)

LEMMA MoveRuns ==
  ASSUME NEW L, NEW S, NEW status \in {"stock", "equipped", "listed"}, NEW r, NEW i
  PROVE  Running(L) \subseteq Running(Move(L, S, status, r, i))
<1>1. PICK M : M = Move(L, S, status, r, i)
      OBVIOUS
<1>2. \A l \in Leases : IF l \in S THEN M[l].status = status /\ M[l].due = L[l].due
                        ELSE M[l] = L[l]
      BY <1>1, RowStatus DEF Move
<1> QED BY <1>1, <1>2 DEF Running

LEMMA ExpiredRuns ==
  ASSUME NEW L \in LeaseTable, NEW D, now \in Nat, \A l \in Leases : l \in D => L[l].due <= now
  PROVE  Running(L) \subseteq Running(Expired(L, D))
<1>1. PICK M : M = Expired(L, D)
      OBVIOUS
<1>2. \A l \in Leases : l \notin D => M[l] = L[l]
      BY <1>1 DEF Expired, Move
<1>3. \A l \in Leases : L[l].due \in Nat
      BY DEF LeaseTable, LeaseRows
<1> QED BY <1>1, <1>2, <1>3 DEF Running

LEMMA ReleaseRuns ==
  ASSUME NEW L \in LeaseTable, NEW S, NEW c \in Nat, now \in Nat, c <= now
  PROVE  /\ Running(L) \subseteq Running(Release(L, S, c))
         /\ \A l \in Unexpired(Release(L, S, c), c) :
              l \in Unexpired(L, c) \/ (l \in Mine(L, S) /\ L[l].due > c)
<1> DEFINE rows == Mine(L, S)
           over == {l \in rows : L[l].due <= c}
           ends == {l \in over : L[l].status \in {"stock", "equipped"}}
           M == Move(L, rows \ over, "stock", NoRack, NoSlot)
           N == Release(L, S, c)
<1>1. N = Expired(M, ends)
      BY DEF Release, Expired
<1>2. \A l \in Leases : L[l].due \in Nat
      BY DEF LeaseTable, LeaseRows
<1>3. \A l \in Leases : M[l].due = L[l].due
      BY RowStatus DEF Move
<1>4. \A l \in Leases : l \notin rows => M[l] = L[l]
      BY DEF Move
<1>5. \A l \in Leases : l \in ends => L[l].due <= c
      OBVIOUS
<1>6. Running(L) \subseteq Running(M)
      BY MoveRuns
<1>7. M \in LeaseTable
      BY MoveType DEF LeaseStatus
<1>8. \A l \in Leases : l \in ends => M[l].due <= now
      BY <1>2, <1>3, <1>5
<1>9. Running(M) \subseteq Running(N)
      BY <1>1, <1>7, <1>8, ExpiredRuns
<1>10. \A l \in Leases : l \notin ends => N[l] = M[l]
      BY <1>1 DEF Expired, Move
<1>11. \A l \in Leases : l \in ends => N[l].status = "expired"
      BY <1>1, RowStatus DEF Expired, Move
<1>12. ASSUME NEW l \in Unexpired(N, c) PROVE l \in Unexpired(L, c) \/ (l \in rows /\ L[l].due > c)
  <2>1. l \in Leases /\ l \notin ends /\ N[l].status = "stock" /\ N[l].due > c
        BY <1>11 DEF Unexpired, InStock
  <2>2. M[l].status = "stock" /\ L[l].due > c
        BY <1>3, <1>10, <2>1
  <2>3. CASE l \in rows
        BY <2>2, <2>3
  <2>4. CASE l \notin rows
        BY <1>4, <2>1, <2>2, <2>4 DEF Unexpired, InStock
  <2> QED BY <2>3, <2>4
<1> QED BY <1>6, <1>9, <1>12

-----------------------------------------------------------------------------
(* What is saved conserves what was there. *)

Kept(q, s, a) ==
  /\ q["gpu"] + Cardinality(Gpus(s)) = stock["gpu"] + Cardinality(Gpus(slot))
  /\ q["rig"] + Cardinality(Rigs(a)) = stock["rig"] + Cardinality(Rigs(at))
Covered(L, c, q) == soldOverdue \/ Cardinality(Unexpired(L, c)) <= q["asic"]
Conserved ==
  /\ GpusIn(stock', slot') = GpusIn(stock, slot)
  /\ RigsIn(stock', at') = RigsIn(stock, at)
  /\ soldOverdue \/ Running(lease) \subseteq Running(lease')

\* A rule whose copy keeps the quantities, whose count covers its leases and
\* whose leases are those that ran: the reconciliation then trims none.
LEMMA SaveConserves ==
  ASSUME IInv, NEW t \in Txs, NEW L \in LeaseTable, NEW copy \in Copies, Save(t, L, copy),
         Kept(copy.stock, copy.slot, copy.at), Covered(L, now, copy.stock),
         Running(lease) \subseteq Running(L)
  PROVE  Conserved
<1>1. PICK q : q = copy.stock
      OBVIOUS
<1>2. q \in [Items -> Nat]
      BY <1>1, CopyParts
<1>3. PICK n : n = Cardinality(Unexpired(lease', now))
      OBVIOUS
<1>4. stock' = [q EXCEPT !["asic"] = n] /\ at' = copy.at /\ slot' = copy.slot
      BY <1>1, <1>3 DEF Save, PersistStock, SyncStock, PersistRacks
<1>5. stock'["gpu"] = q["gpu"] /\ stock'["rig"] = q["rig"]
      BY <1>2, <1>4 DEF Items
<1>6. GpusIn(stock', slot') = GpusIn(stock, slot)
  <2>1. GpusIn(stock', slot') = q["gpu"] + Cardinality(Gpus(copy.slot))
        BY <1>4, <1>5 DEF GpusIn, Gpus
  <2>2. GpusIn(stock, slot) = stock["gpu"] + Cardinality(Gpus(slot))
        BY DEF GpusIn, Gpus
  <2> QED BY <1>1, <2>1, <2>2 DEF Kept
<1>7. RigsIn(stock', at') = RigsIn(stock, at)
  <2>1. RigsIn(stock', at') = q["rig"] + Cardinality(Rigs(copy.at))
        BY <1>4, <1>5 DEF RigsIn, Rigs
  <2>2. RigsIn(stock, at) = stock["rig"] + Cardinality(Rigs(at))
        BY DEF RigsIn, Rigs
  <2> QED BY <1>1, <2>1, <2>2 DEF Kept
<1>8. ASSUME ~soldOverdue PROVE Running(lease) \subseteq Running(lease')
  <2>1. PICK m : m = Cardinality(Unexpired(L, now))
        OBVIOUS
  <2>2. m \in Nat /\ q["asic"] \in Nat /\ m <= q["asic"]
    <3>1. Unexpired(L, now) \in SUBSET Leases
          BY DEF Unexpired, InStock
    <3> QED BY <1>1, <1>2, <1>8, <2>1, <3>1, CountIsNat DEF Covered, Items
  <2>3. lease' \in Reconciled(L, q["asic"], now, FALSE)
        BY <1>1 DEF Save
  <2>4. ~(q["asic"] < Cardinality(Unexpired(L, now)))
        BY <2>1, <2>2
  <2>5. lease' = L
        BY <2>3, <2>4 DEF Reconciled
  <2> QED BY <2>5
<1> QED BY <1>6, <1>7, <1>8 DEF Conserved

\* What an intent that nothing overtook has loaded is what is there.
LEMMA LoadedKept ==
  ASSUME IInv, SInv, CInv, NEW t \in Txs, Undisturbed(t), ~overwritten,
         NEW copy, NEW c, copy = intent[t].copy, c = intent[t].clock
  PROVE  /\ Kept(copy.stock, copy.slot, copy.at)
         /\ c \in Nat /\ now \in Nat /\ c <= now
         /\ Running(lease) \subseteq Running(Base(t))
         /\ Covered(Base(t), c, copy.stock)
<1>1. CountsCurrent(t) /\ c \in Nat /\ now \in Nat /\ copy \in Copies
      BY IntentParts DEF CInv, IInv, TypeOK
<1>2. PICK D : D = intent[t].swept
      OBVIOUS
<1>3. /\ Agree(lease, slot, at) /\ copy.slot = Cleared(D) /\ copy.at = at /\ D = Due(lease, c)
      BY <1>2 DEF SInv, LoadedIsCurrent
<1>4. Gpus(Cleared(D)) = Gpus(slot)
  <2>1. PICK z : z = Cleared(D)
        OBVIOUS
  <2>2. ASSUME NEW k \in Racks, NEW j \in Slots
        PROVE  z[k][j].item = "gpu" <=> slot[k][j].item = "gpu"
    <3>1. z[k][j] = IF \E l \in D : Mounted(l, k, j) THEN Empty ELSE slot[k][j]
          BY <2>1 DEF Cleared
    <3>2. \A l \in D : Mounted(l, k, j) => slot[k][j].lease \in Leases
          BY <1>3 DEF Due, Mounted
    <3>3. slot[k][j].lease \in Leases => slot[k][j].item = "asic"
          BY <1>3, HIAssumption DEF Agree
    <3> QED BY <3>1, <3>2, <3>3, EmptyParts
  <2>3. \A e \in Racks \X Slots : e[1] \in Racks /\ e[2] \in Slots
        OBVIOUS
  <2>4. Gpus(z) = Gpus(slot)
        BY <2>2, <2>3 DEF Gpus
  <2> QED BY <2>1, <2>4
<1>5. Kept(copy.stock, copy.slot, copy.at)
      BY <1>1, <1>3, <1>4 DEF Kept, CountsCurrent
<1>6. c <= now /\ Covered(Base(t), c, copy.stock)
      BY <1>1 DEF CountsCurrent, Covered
<1>7. Running(lease) \subseteq Running(Base(t))
  <2>1. lease \in LeaseTable
        BY DEF IInv, TypeOK, LeaseTable
  <2>2. \A l \in Leases : lease[l].due \in Nat
        BY <2>1 DEF LeaseTable, LeaseRows
  <2>3. \A l \in Leases : l \in D => lease[l].due <= now
        BY <1>1, <1>3, <1>6, <2>2 DEF Due
  <2>4. Base(t) = Expired(lease, D)
        BY <1>2 DEF Base
  <2> QED BY <1>1, <2>1, <2>3, <2>4, ExpiredRuns
<1> QED BY <1>1, <1>5, <1>6, <1>7

LEMMA KeptBy ==
  ASSUME NEW q, NEW s, NEW a, NEW p, NEW z, NEW b, Kept(q, s, a),
         p["gpu"] + Cardinality(Gpus(z)) = q["gpu"] + Cardinality(Gpus(s)),
         p["rig"] + Cardinality(Rigs(b)) = q["rig"] + Cardinality(Rigs(a))
  PROVE  Kept(p, z, b)
  BY DEF Kept

\* A count that covered the leases at the time of the load covers them now.
LEMMA CoveredLater ==
  ASSUME NEW L \in LeaseTable, NEW c \in Nat, now \in Nat, c <= now,
         NEW q \in [Items -> Nat], Covered(L, c, q), NEW p \in [Items -> Nat], q["asic"] <= p["asic"]
  PROVE  Covered(L, now, p)
<1>1. PICK m, n : m = Cardinality(Unexpired(L, now)) /\ n = Cardinality(Unexpired(L, c))
      OBVIOUS
<1>2. m <= n
      BY <1>1, FewerUnexpired
<1>3. m \in Nat /\ n \in Nat
      BY <1>1, CountIsNat DEF Unexpired, InStock
<1>4. q["asic"] \in Nat /\ p["asic"] \in Nat
      BY DEF Items
<1> QED BY <1>1, <1>2, <1>3, <1>4 DEF Covered

\* A release that gives back nothing that still runs leaves the count right.
LEMMA ReleaseCovered ==
  ASSUME NEW B \in LeaseTable, NEW S, NEW c \in Nat, now \in Nat, c <= now,
         NEW q \in [Items -> Nat], Covered(B, c, q), \A l \in Mine(B, S) : ~(B[l].due > c)
  PROVE  Covered(Release(B, S, c), c, q)
<1>1. PICK N : N = Release(B, S, c)
      OBVIOUS
<1>2. Unexpired(N, c) \in SUBSET Unexpired(B, c)
      BY <1>1, ReleaseRuns
<1>3. IsFiniteSet(Unexpired(B, c)) /\ Unexpired(B, c) \in SUBSET Leases
      BY HIAssumption, FS_Subset DEF Unexpired, InStock
<1>4. PICK m, n : m = Cardinality(Unexpired(N, c)) /\ n = Cardinality(Unexpired(B, c))
      OBVIOUS
<1>5. m <= n
      BY <1>2, <1>3, <1>4, FS_Subset
<1>6. m \in Nat /\ n \in Nat /\ q["asic"] \in Nat
      BY <1>4, CountIsNat DEF Unexpired, InStock, Items
<1> QED BY <1>1, <1>4, <1>5, <1>6 DEF Covered

-----------------------------------------------------------------------------
(* Each intent. *)

LEMMA EquipPermanentConserves ==
  ASSUME IInv, SInv, CInv, NEW t \in Txs, Undisturbed(t), ~overwritten,
         NEW r \in Racks, NEW i \in Slots, EquipPermanent(t, r, i)
  PROVE  Conserved
<1>1. PICK copy, c, L, x : /\ copy = intent[t].copy /\ c = intent[t].clock
                           /\ L = Base(t) /\ x = Content("gpu", NoLease)
      OBVIOUS
<1>2. copy \in Copies /\ L \in LeaseTable
      BY <1>1, IntentParts, BaseKeeps DEF IInv
<1>3. /\ Kept(copy.stock, copy.slot, copy.at) /\ Covered(L, c, copy.stock)
      /\ c \in Nat /\ now \in Nat /\ c <= now /\ Running(lease) \subseteq Running(L)
      BY <1>1, LoadedKept
<1>4. copy.stock \in [Items -> Nat] /\ copy.stock["gpu"] >= 1 /\ copy.slot[r][i].item = "none"
      BY <1>1, <1>2, CopyParts DEF EquipPermanent, Room
<1>5. PICK one : one = Bump(copy, "gpu", -1)
      OBVIOUS
<1>6. one \in Copies /\ one.slot = copy.slot /\ one.at = copy.at
  <2>1. copy.stock["gpu"] + (-1) >= 0
        BY <1>4 DEF Items
  <2> QED BY <1>2, <1>5, <2>1, BumpType, CountParts DEF Items
<1>7. PICK out : out = Put(one, r, i, x)
      OBVIOUS
<1>8. out \in Copies /\ out.stock = one.stock /\ out.at = copy.at
  <2>1. x \in Contents
        BY <1>1 DEF Content, Contents
  <2> QED BY <1>6, <1>7, <2>1, PutType, PutStock, PutParts
<1>9. \A k \in Racks, j \in Slots : out.slot[k][j] = IF k = r /\ j = i THEN x ELSE copy.slot[k][j]
      BY <1>6, <1>7, PutParts
<1>10. Cardinality(Gpus(out.slot)) = Cardinality(Gpus(copy.slot)) + 1
  <2>1. x.item = "gpu"
        BY <1>1 DEF Content
  <2>2. PICK s, z : s = copy.slot /\ z = out.slot
        OBVIOUS
  <2>3. Reslotted(s, z, r, i, x) /\ s[r][i].item # "gpu"
        BY <1>4, <1>9, <2>2 DEF Reslotted
  <2>4. Cardinality(Gpus(z)) = Cardinality(Gpus(s)) + 1
        BY <2>1, <2>3, SlotGpus
  <2> QED BY <2>2, <2>4
<1>11. PICK m : m = copy.stock["gpu"] + (-1)
      OBVIOUS
<1>17. out.stock = [copy.stock EXCEPT !["gpu"] = m]
  <2>1. one = Count(copy, "gpu", m)
        BY <1>5, <1>11 DEF Bump
  <2>2. one.stock = [copy.stock EXCEPT !["gpu"] = m]
        BY <1>2, <2>1, CountMoves
  <2> QED BY <1>8, <2>2
<1>12. /\ out.stock["gpu"] = copy.stock["gpu"] - 1 /\ out.stock["rig"] = copy.stock["rig"]
       /\ out.stock["asic"] = copy.stock["asic"] /\ copy.stock["asic"] \in Nat
      BY <1>4, <1>11, <1>17 DEF Items
<1>13. out.stock["gpu"] + Cardinality(Gpus(out.slot)) = copy.stock["gpu"] + Cardinality(Gpus(copy.slot))
  <2>1. PICK g, n : g = copy.stock["gpu"] /\ n = Cardinality(Gpus(copy.slot))
        OBVIOUS
  <2>2. g \in Nat /\ n \in Nat
        BY <1>4, <2>1, GpusFinite DEF Items
  <2> QED BY <1>10, <1>12, <2>1, <2>2
<1>14. Kept(out.stock, out.slot, out.at)
  <2>1. out.stock["rig"] + Cardinality(Rigs(out.at)) = copy.stock["rig"] + Cardinality(Rigs(copy.at))
        BY <1>8, <1>12
  <2> QED BY <1>3, <1>13, <2>1, KeptBy
<1>15. Covered(L, now, out.stock)
  <2>1. out.stock \in [Items -> Nat] /\ copy.stock["asic"] <= out.stock["asic"]
        BY <1>8, <1>12, CopyParts
  <2> QED BY <1>2, <1>3, <1>4, <2>1, CoveredLater
<1>16. Save(t, L, out)
      BY <1>1, <1>5, <1>7 DEF EquipPermanent
<1> QED BY <1>2, <1>3, <1>8, <1>14, <1>15, <1>16, SaveConserves

\* What Counted leaves: the other two quantities, and a count that covers.
LEMMA CountedKept ==
  ASSUME NEW copy \in Copies, NEW L \in LeaseTable, NEW c \in Nat, now \in Nat, c <= now
  PROVE  /\ Counted(copy, L, c) \in Copies
         /\ Counted(copy, L, c).slot = copy.slot /\ Counted(copy, L, c).at = copy.at
         /\ Kept(copy.stock, copy.slot, copy.at) =>
              Kept(Counted(copy, L, c).stock, Counted(copy, L, c).slot, Counted(copy, L, c).at)
         /\ Covered(L, now, Counted(copy, L, c).stock)
<1>1. PICK out : out = Counted(copy, L, c)
      OBVIOUS
<1>2. out \in Copies /\ out.slot = copy.slot /\ out.at = copy.at
      BY <1>1, CountedType, CountParts
<1>3. /\ out.stock["gpu"] = copy.stock["gpu"] /\ out.stock["rig"] = copy.stock["rig"]
      /\ Cardinality(Unexpired(L, now)) <= out.stock["asic"]
      BY <1>1, CountedStock
<1>4. Kept(copy.stock, copy.slot, copy.at) => Kept(out.stock, out.slot, out.at)
      BY <1>2, <1>3 DEF Kept
<1>5. Covered(L, now, out.stock)
      BY <1>3 DEF Covered
<1> QED BY <1>1, <1>2, <1>4, <1>5

LEMMA EquipTimedConserves ==
  ASSUME IInv, SInv, CInv, NEW t \in Txs, Undisturbed(t), ~overwritten,
         NEW r \in Racks, NEW i \in Slots, EquipTimed(t, r, i)
  PROVE  Conserved
<1>1. PICK copy, c, B : copy = intent[t].copy /\ c = intent[t].clock /\ B = Base(t)
      OBVIOUS
<1>2. copy \in Copies /\ B \in LeaseTable
      BY <1>1, IntentParts, BaseKeeps DEF IInv
<1>3. /\ Kept(copy.stock, copy.slot, copy.at)
      /\ c \in Nat /\ now \in Nat /\ c <= now /\ Running(lease) \subseteq Running(B)
      BY <1>1, LoadedKept
<1>4. PICK l \in Reservable(B, c, OthersSwept(t)) :
             Save(t, Move(B, {l}, "equipped", r, i),
                  Counted(Put(copy, r, i, Content("asic", l)), Move(B, {l}, "equipped", r, i), c))
      BY <1>1 DEF EquipTimed
<1>5. PICK L, x : L = Move(B, {l}, "equipped", r, i) /\ x = Content("asic", l)
      OBVIOUS
<1>6. L \in LeaseTable /\ Running(B) \subseteq Running(L)
      BY <1>2, <1>5, MoveType, MoveRuns DEF LeaseStatus
<1>7. l \in Leases /\ copy.slot[r][i].item = "none"
      BY <1>1 DEF Reservable, Unexpired, InStock, EquipTimed, Room
<1>8. PICK put : put = Put(copy, r, i, x)
      OBVIOUS
<1>9. /\ put \in Copies /\ put.stock = copy.stock /\ put.at = copy.at
      /\ \A k \in Racks, j \in Slots : put.slot[k][j] = IF k = r /\ j = i THEN x ELSE copy.slot[k][j]
  <2>1. x \in Contents
        BY <1>5, <1>7 DEF Content, Contents
  <2> QED BY <1>2, <1>8, <2>1, PutType, PutStock, PutParts
<1>10. Cardinality(Gpus(put.slot)) = Cardinality(Gpus(copy.slot))
  <2>1. x.item # "gpu" /\ copy.slot[r][i].item # "gpu"
        BY <1>5, <1>7 DEF Content
  <2>2. PICK s, z : s = copy.slot /\ z = put.slot
        OBVIOUS
  <2>3. Reslotted(s, z, r, i, x) /\ s[r][i].item # "gpu" /\ x.item # "gpu"
        BY <1>9, <2>1, <2>2 DEF Reslotted
  <2>4. Cardinality(Gpus(z)) = Cardinality(Gpus(s))
        BY <2>3, SlotGpus
  <2> QED BY <2>2, <2>4
<1>11. Kept(put.stock, put.slot, put.at)
      BY <1>3, <1>9, <1>10 DEF Kept
<1>12. PICK out : out = Counted(put, L, c)
      OBVIOUS
<1>13. out \in Copies /\ Kept(out.stock, out.slot, out.at) /\ Covered(L, now, out.stock)
      BY <1>3, <1>6, <1>9, <1>11, <1>12, CountedKept
<1>14. Save(t, L, out)
      BY <1>4, <1>5, <1>8, <1>12
<1>15. Running(lease) \subseteq Running(L)
      BY <1>3, <1>6
<1> QED BY <1>6, <1>13, <1>14, <1>15, SaveConserves

LEMMA UnequipConserves ==
  ASSUME IInv, SInv, CInv, NEW t \in Txs, Undisturbed(t), ~overwritten,
         NEW r \in Racks, NEW i \in Slots, Unequip(t, r, i)
  PROVE  Conserved
<1>1. PICK copy, c, B, x : /\ copy = intent[t].copy /\ c = intent[t].clock
                           /\ B = Base(t) /\ x = copy.slot[r][i]
      OBVIOUS
<1>2. copy \in Copies /\ B \in LeaseTable
      BY <1>1, IntentParts, BaseKeeps DEF IInv
<1>3. /\ Kept(copy.stock, copy.slot, copy.at) /\ Covered(B, c, copy.stock)
      /\ c \in Nat /\ now \in Nat /\ c <= now /\ Running(lease) \subseteq Running(B)
      BY <1>1, LoadedKept
<1>4. PICK S \in Resolve(B, x.lease, r, i, c) :
             Save(t, Release(B, S, c),
                  IF x.item = "asic" THEN Counted(Put(copy, r, i, Empty), Release(B, S, c), c)
                  ELSE Bump(Put(copy, r, i, Empty), "gpu", 1))
      BY <1>1 DEF Unequip
<1>5. copy.at[r] \in Places /\ x.item \in {"gpu", "asic"} /\ copy.stock \in [Items -> Nat]
  <2>1. copy.at[r] \in Places /\ x.item # "none"
        BY <1>1 DEF Unequip, Placed
  <2>2. x \in Contents
        BY <1>1, <1>2, CopyParts DEF SlotTable
  <2> QED BY <1>2, <2>1, <2>2, CopyParts DEF Contents
<1>6. S = IF x.item = "asic" THEN {x.lease} ELSE {}
      BY <1>1, <1>4, <1>5, ResolveMatches
<1>7. PICK L, put : L = Release(B, S, c) /\ put = Put(copy, r, i, Empty)
      OBVIOUS
<1>8. L \in LeaseTable /\ Running(lease) \subseteq Running(L)
  <2>1. Existing(B) \subseteq Leases
        BY DEF Existing
  <2>2. L \in LeaseTable
        BY <1>2, <1>7, <2>1, ReleaseKeeps
  <2>3. Running(B) \subseteq Running(L)
        BY <1>2, <1>3, <1>7, ReleaseRuns
  <2> QED BY <1>3, <2>2, <2>3
<1>9. /\ put \in Copies /\ put.stock = copy.stock /\ put.at = copy.at
      /\ \A k \in Racks, j \in Slots : put.slot[k][j] = IF k = r /\ j = i THEN Empty ELSE copy.slot[k][j]
  <2>1. Empty \in Contents
        BY DEF Empty, Content, Contents
  <2> QED BY <1>2, <1>7, <2>1, PutType, PutStock, PutParts
<1>10. PICK s, z, e : s = copy.slot /\ z = put.slot /\ e = Empty
       OBVIOUS
<1>11. Reslotted(s, z, r, i, e)
       BY <1>9, <1>10 DEF Reslotted
<1>14. e.item # "gpu" /\ s[r][i] = x
       BY <1>1, <1>10, EmptyParts
<1>12. CASE x.item = "asic"
  <2>1. Cardinality(Gpus(z)) = Cardinality(Gpus(s))
    <3>1. s[r][i].item # "gpu" /\ e.item # "gpu"
          BY <1>12, <1>14
    <3> QED BY <1>11, <3>1, SlotGpus
  <2>2. Kept(put.stock, put.slot, put.at)
        BY <1>3, <1>9, <1>10, <2>1 DEF Kept
  <2>3. PICK out : out = Counted(put, L, c)
        OBVIOUS
  <2>4. out \in Copies /\ Kept(out.stock, out.slot, out.at) /\ Covered(L, now, out.stock)
        BY <1>3, <1>8, <1>9, <2>2, <2>3, CountedKept
  <2>5. Save(t, L, out)
        BY <1>4, <1>7, <1>12, <2>3
  <2> QED BY <1>8, <2>4, <2>5, SaveConserves
<1>13. CASE x.item = "gpu"
  <2>1. Cardinality(Gpus(z)) = Cardinality(Gpus(s)) - 1
    <3>1. s[r][i].item = "gpu"
          BY <1>13, <1>14
    <3> QED BY <1>11, <1>14, <3>1, SlotGpus
  <2>2. PICK out : out = Bump(put, "gpu", 1)
        OBVIOUS
  <2>10. out \in Copies
        BY <1>9, <2>2, BumpUp DEF Items
  <2>11. PICK m : m = put.stock["gpu"] + 1
        OBVIOUS
  <2>12. out.stock = [put.stock EXCEPT !["gpu"] = m] /\ out.slot = put.slot /\ out.at = put.at
    <3>1. out = Count(put, "gpu", m)
          BY <2>2, <2>11 DEF Bump
    <3>2. put \in Copies
          BY <1>9
    <3> QED BY <3>1, <3>2, CountMoves DEF Items
  <2>3. out \in Copies /\ out.slot = put.slot /\ out.at = put.at
        BY <2>10, <2>12
  <2>4. out.stock = [copy.stock EXCEPT !["gpu"] = m] /\ m = copy.stock["gpu"] + 1
        BY <1>9, <2>11, <2>12
  <2>5. /\ out.stock["gpu"] = copy.stock["gpu"] + 1 /\ out.stock["rig"] = copy.stock["rig"]
        /\ out.stock["asic"] = copy.stock["asic"] /\ copy.stock["asic"] \in Nat
        BY <1>5, <2>4 DEF Items
  <2>6. out.stock["gpu"] + Cardinality(Gpus(z)) = copy.stock["gpu"] + Cardinality(Gpus(s))
    <3>1. PICK g, n : g = copy.stock["gpu"] /\ n = Cardinality(Gpus(s))
          OBVIOUS
    <3>2. g \in Nat /\ n \in Nat
          BY <1>5, <3>1, GpusFinite DEF Items
    <3> QED BY <2>1, <2>5, <3>1, <3>2
  <2>7. Kept(out.stock, out.slot, out.at)
    <3>1. out.stock["rig"] + Cardinality(Rigs(out.at)) = copy.stock["rig"] + Cardinality(Rigs(copy.at))
          BY <1>9, <2>3, <2>5
    <3>2. out.stock["gpu"] + Cardinality(Gpus(out.slot)) = copy.stock["gpu"] + Cardinality(Gpus(copy.slot))
          BY <1>10, <2>3, <2>6
    <3> QED BY <1>3, <3>1, <3>2, KeptBy
  <2>8. Covered(L, now, out.stock)
    <3>1. \A l \in Mine(B, S) : ~(B[l].due > c)
          BY <1>6, <1>13 DEF Mine
    <3>2. Covered(L, c, copy.stock)
          BY <1>2, <1>3, <1>5, <1>7, <3>1, ReleaseCovered
    <3>3. out.stock \in [Items -> Nat] /\ copy.stock["asic"] <= out.stock["asic"]
          BY <2>3, <2>5, CopyParts
    <3> QED BY <1>3, <1>5, <1>8, <3>2, <3>3, CoveredLater
  <2>9. Save(t, L, out)
        BY <1>4, <1>7, <1>13, <2>2
  <2> QED BY <1>8, <2>3, <2>7, <2>8, <2>9, SaveConserves
<1> QED BY <1>5, <1>12, <1>13

\* A rack that goes takes its chassis and its machines back to stock.
LEMMA RackKept ==
  ASSUME NEW copy \in Copies, NEW r \in Racks, NEW why \in {"removed", "swapped"},
         copy.at[r] \in Places, Kept(copy.stock, copy.slot, copy.at)
  PROVE  LET out == Bump(Bump(Takeaway(copy, r, why), "rig", 1), "gpu",
                         Cardinality(In(copy, r, "gpu"))) IN
         /\ out \in Copies /\ Kept(out.stock, out.slot, out.at)
         /\ out.stock["asic"] = copy.stock["asic"]
         /\ \A k \in Racks : out.at[k] = IF k = r THEN why ELSE copy.at[k]
<1>1. PICK n, away : n = Cardinality(In(copy, r, "gpu")) /\ away = Takeaway(copy, r, why)
      OBVIOUS
<1>2. PICK rigs : rigs = Bump(away, "rig", 1)
      OBVIOUS
<1>3. PICK out : out = Bump(rigs, "gpu", n)
      OBVIOUS
<1>4. n \in Nat /\ away \in Copies
      BY <1>1, InIsNat, TakeawayType
<1>7. copy.stock \in [Items -> Nat] /\ away.stock = copy.stock
      BY <1>1, CopyParts, TakeawayStock
<1>16. PICK k1, k2 : k1 = away.stock["rig"] + 1 /\ k2 = rigs.stock["gpu"] + n
      OBVIOUS
<1>17. rigs \in Copies
      BY <1>2, <1>4, BumpUp DEF Items
<1>8. rigs.stock = [copy.stock EXCEPT !["rig"] = k1] /\ rigs.slot = away.slot /\ rigs.at = away.at
  <2>1. rigs = Count(away, "rig", k1)
        BY <1>2, <1>16 DEF Bump
  <2>2. rigs.stock = [away.stock EXCEPT !["rig"] = k1] /\ rigs.slot = away.slot /\ rigs.at = away.at
        BY <1>4, <2>1, CountMoves DEF Items
  <2> QED BY <1>7, <2>2
<1>18. out \in Copies
      BY <1>3, <1>4, <1>17, BumpUp DEF Items
<1>9. out.stock = [rigs.stock EXCEPT !["gpu"] = k2] /\ out.slot = rigs.slot /\ out.at = rigs.at
  <2>1. out = Count(rigs, "gpu", k2)
        BY <1>3, <1>16 DEF Bump
  <2> QED BY <1>17, <2>1, CountMoves DEF Items
<1>5. rigs \in Copies /\ k1 = copy.stock["rig"] + 1
      BY <1>7, <1>16, <1>17
<1>6. out \in Copies /\ out.slot = away.slot /\ out.at = away.at
      BY <1>8, <1>9, <1>18
<1>10. /\ rigs.stock \in [Items -> Nat] /\ rigs.stock["rig"] = copy.stock["rig"] + 1
       /\ rigs.stock["gpu"] = copy.stock["gpu"] /\ rigs.stock["asic"] = copy.stock["asic"]
       BY <1>5, <1>7, <1>8, CopyParts DEF Items
<1>11. /\ out.stock["rig"] = copy.stock["rig"] + 1 /\ out.stock["gpu"] = copy.stock["gpu"] + n
       /\ out.stock["asic"] = copy.stock["asic"]
       BY <1>9, <1>10, <1>16 DEF Items
<1>12. /\ \A k \in Racks : out.at[k] = IF k = r THEN why ELSE copy.at[k]
       /\ \A k \in Racks, j \in Slots : out.slot[k][j] = IF k = r THEN Empty ELSE copy.slot[k][j]
       BY <1>1, <1>6, TakeawayParts
<1>13. out.stock["gpu"] + Cardinality(Gpus(out.slot)) = copy.stock["gpu"] + Cardinality(Gpus(copy.slot))
  <2>1. PICK z, h, g, q : /\ z = out.slot /\ h = Cardinality(Gpus(z))
                          /\ g = Cardinality(Gpus(copy.slot)) /\ q = copy.stock["gpu"]
        OBVIOUS
  <2>2. \A k \in Racks, j \in Slots : z[k][j] = IF k = r THEN Empty ELSE copy.slot[k][j]
        BY <1>12, <2>1
  <2>3. h + n = g
        BY <1>1, <2>1, <2>2, RackGpus
  <2>4. h \in Nat /\ g \in Nat /\ q \in Nat
        BY <1>7, <2>1, GpusFinite DEF Items
  <2>5. (q + n) + h = q + g
        BY <1>4, <2>3, <2>4
  <2> QED BY <1>11, <2>1, <2>5
<1>14. out.stock["rig"] + Cardinality(Rigs(out.at)) = copy.stock["rig"] + Cardinality(Rigs(copy.at))
  <2>1. PICK a, b : a = copy.at /\ b = out.at
        OBVIOUS
  <2>2. /\ \A k \in Racks : k # r => b[k] = a[k]
        /\ a[r] \in Places /\ b[r] \notin Places
        BY <1>12, <2>1, HIAssumption
  <2>3. Cardinality(Rigs(b)) = Cardinality(Rigs(a)) - 1
        BY <2>2, MoveRigs
  <2>4. PICK h, g, q : h = Cardinality(Rigs(b)) /\ g = Cardinality(Rigs(a)) /\ q = copy.stock["rig"]
        OBVIOUS
  <2>5. g \in Nat /\ q \in Nat /\ h = g - 1
        BY <1>7, <2>3, <2>4, RigsFinite DEF Items
  <2>6. (q + 1) + h = q + g
        BY <2>5
  <2> QED BY <1>11, <2>1, <2>4, <2>6
<1>15. Kept(out.stock, out.slot, out.at)
       BY <1>13, <1>14, KeptBy
<1> QED BY <1>1, <1>2, <1>3, <1>6, <1>11, <1>12, <1>15

\* A rack without a machine that has a validity gives back nothing that runs.
LEMMA NothingReleased ==
  ASSUME IInv, SInv, NEW t \in Txs, Undisturbed(t), ~overwritten, NEW r \in Racks,
         NEW copy, NEW c, NEW B, copy = intent[t].copy, c = intent[t].clock, B = Base(t),
         copy.at[r] \in Places, In(copy, r, "asic") = {}
  PROVE  \A l \in Mine(B, OnRack(B, r, c)) : ~(B[l].due > c)
<1>1. PICK s, a : s = copy.slot /\ a = copy.at
      OBVIOUS
<1>2. /\ Agree(B, s, a)
      /\ \A l \in Leases : B[l].status = "equipped" => B[l] = lease[l] /\ B[l].due > c
      BY <1>1, Loaded
<1>3. a[r] \notin {"swapped", "taken"} /\ \A i \in Slots : s[r][i].item # "asic"
      BY <1>1, HIAssumption DEF In
<1>4. \A l \in Leases : ~(B[l].status = "equipped" /\ B[l].rack = r)
  <2>1. ASSUME NEW l \in Leases, B[l].status = "equipped", B[l].rack = r PROVE FALSE
    <3>1. PICK i : i = B[l].slot
          OBVIOUS
    <3>2. i \in Slots
          BY <1>2, <2>1, <3>1 DEF Agree
    <3> QED BY <1>2, <1>3, <2>1, <3>1, <3>2, NoneMounted
  <2> QED BY <2>1
<1>5. ASSUME NEW l \in Mine(B, OnRack(B, r, c)), B[l].due > c PROVE FALSE
  <2>1. l \in OnRack(B, r, c)
        BY DEF Mine
  <2>2. CASE \E i \in Slots : l \in EquippedAt(B, r, i, c)
        BY <1>4, <2>2 DEF EquippedAt
  <2>3. CASE \E i \in Slots : l = slot[r][i].lease /\ l \in Leases
    <3>1. PICK i \in Slots : l = slot[r][i].lease /\ l \in Leases
          BY <2>3
    <3>2. Agree(lease, slot, at) /\ l # NoLease
          BY <3>1, HIAssumption DEF SInv
    <3>3. slot[r][i].item = "asic"
          BY <3>1, <3>2 DEF Agree
    <3>4. lease[l].status = "equipped" /\ lease[l].rack = r
          BY <3>1, <3>2, <3>3 DEF Agree
    <3>5. PICK D : D = intent[t].swept
          OBVIOUS
    <3>6. B[l] = IF l \in D THEN Row("expired", lease[l].due, NoRack, NoSlot) ELSE lease[l]
          BY <3>1, <3>5 DEF Base, Expired, Move
    <3>7. D = Due(lease, c)
          BY <3>5 DEF SInv, LoadedIsCurrent
    <3>8. l \in D
          BY <1>4, <3>1, <3>4, <3>6
    <3>9. B[l].due <= c
          BY <3>6, <3>7, <3>8, RowStatus DEF Due
    <3>10. lease \in LeaseTable /\ c \in Nat
          BY IntentParts DEF IInv, TypeOK, LeaseTable
    <3>11. lease[l].due \in Nat /\ B[l].due = lease[l].due
          BY <3>1, <3>6, <3>8, <3>10, RowStatus DEF LeaseTable, LeaseRows
    <3> QED BY <1>5, <3>9, <3>10, <3>11
  <2> QED BY <2>1, <2>2, <2>3 DEF OnRack
<1> QED BY <1>5

LEMMA RemoveConserves ==
  ASSUME IInv, SInv, CInv, NEW t \in Txs, Undisturbed(t), ~overwritten,
         NEW r \in Racks, Remove(t, r)
  PROVE  Conserved
<1>1. PICK copy, c, B : copy = intent[t].copy /\ c = intent[t].clock /\ B = Base(t)
      OBVIOUS
<1>2. copy \in Copies /\ B \in LeaseTable
      BY <1>1, IntentParts, BaseKeeps DEF IInv
<1>3. /\ Kept(copy.stock, copy.slot, copy.at) /\ Covered(B, c, copy.stock)
      /\ c \in Nat /\ now \in Nat /\ c <= now /\ Running(lease) \subseteq Running(B)
      BY <1>1, LoadedKept
<1>4. PICK S, L : S = OnRack(B, r, c) /\ L = Release(B, S, c)
      OBVIOUS
<1>5. PICK why, out : /\ why = "removed"
                      /\ out = Bump(Bump(Takeaway(copy, r, why), "rig", 1),
                                    "gpu", Cardinality(In(copy, r, "gpu")))
      OBVIOUS
<1>6. copy.at[r] \in Places
      BY <1>1 DEF Remove, Placed
<1>7. out \in Copies /\ Kept(out.stock, out.slot, out.at) /\ out.stock["asic"] = copy.stock["asic"]
  <2>1. why \in {"removed", "swapped"}
        BY <1>5
  <2> QED BY <1>2, <1>3, <1>5, <1>6, <2>1, RackKept
<1>8. L \in LeaseTable /\ Running(lease) \subseteq Running(L)
  <2>1. Existing(B) \subseteq Leases
        BY DEF Existing
  <2>2. L \in LeaseTable
        BY <1>2, <1>4, <2>1, ReleaseKeeps
  <2>3. Running(B) \subseteq Running(L)
        BY <1>2, <1>3, <1>4, ReleaseRuns
  <2> QED BY <1>3, <2>2, <2>3
<1>9. PICK saved : saved = IF In(copy, r, "asic") # {} THEN Counted(out, L, c) ELSE out
      OBVIOUS
<1>10. Save(t, L, saved)
      BY <1>1, <1>4, <1>5, <1>9 DEF Remove
<1>11. saved \in Copies /\ Kept(saved.stock, saved.slot, saved.at) /\ Covered(L, now, saved.stock)
  <2>1. CASE In(copy, r, "asic") # {}
        BY <1>3, <1>7, <1>8, <1>9, <2>1, CountedKept
  <2>2. CASE In(copy, r, "asic") = {}
    <3>1. saved = out
          BY <1>9, <2>2
    <3>2. \A l \in Mine(B, S) : ~(B[l].due > c)
          BY <1>1, <1>4, <1>6, <2>2, NothingReleased
    <3>3. copy.stock \in [Items -> Nat] /\ out.stock \in [Items -> Nat]
          BY <1>2, <1>7, CopyParts
    <3>4. Covered(L, c, copy.stock)
          BY <1>2, <1>3, <1>4, <3>2, <3>3, ReleaseCovered
    <3>5. copy.stock["asic"] <= out.stock["asic"]
          BY <1>7, <3>3 DEF Items
    <3>6. Covered(L, now, out.stock)
          BY <1>3, <1>8, <3>3, <3>4, <3>5, CoveredLater
    <3> QED BY <1>7, <3>1, <3>6
  <2> QED BY <2>1, <2>2
<1> QED BY <1>8, <1>10, <1>11, SaveConserves

\* The rack that a new one replaces, with a count for every machine in it.
LEMMA SwappedKept ==
  ASSUME NEW copy \in Copies, NEW r \in Racks, copy.at[r] \in Places,
         Kept(copy.stock, copy.slot, copy.at), NEW out, out = SwappedOut(copy, r)
  PROVE  /\ out \in Copies /\ Kept(out.stock, out.slot, out.at)
         /\ copy.stock["asic"] <= out.stock["asic"]
         /\ \A k \in Racks : out.at[k] = IF k = r THEN "swapped" ELSE copy.at[k]
<1>1. PICK why, m : why = "swapped" /\ m = Cardinality(In(copy, r, "asic"))
      OBVIOUS
<1>2. PICK bare : bare = Bump(Bump(Takeaway(copy, r, why), "rig", 1),
                              "gpu", Cardinality(In(copy, r, "gpu")))
      OBVIOUS
<1>3. /\ bare \in Copies /\ Kept(bare.stock, bare.slot, bare.at)
      /\ bare.stock["asic"] = copy.stock["asic"]
      /\ \A k \in Racks : bare.at[k] = IF k = r THEN why ELSE copy.at[k]
  <2>1. why \in {"removed", "swapped"}
        BY <1>1
  <2> QED BY <1>2, <2>1, RackKept
<1>4. out = Bump(bare, "asic", m) /\ m \in Nat
      BY <1>1, <1>2, InIsNat DEF SwappedOut
<1>5. out \in Copies
      BY <1>3, <1>4, BumpUp DEF Items
<1>6. PICK n : n = bare.stock["asic"] + m
      OBVIOUS
<1>7. out.stock = [bare.stock EXCEPT !["asic"] = n] /\ out.slot = bare.slot /\ out.at = bare.at
  <2>1. out = Count(bare, "asic", n)
        BY <1>4, <1>6 DEF Bump
  <2>2. bare \in Copies
        BY <1>3
  <2>3. out.stock = [bare.stock EXCEPT !["asic"] = n]
        BY ONLY <2>1, <2>2, CountMoves
  <2>4. out.slot = bare.slot /\ out.at = bare.at
        BY ONLY <2>1, <2>2, CountMoves DEF Items
  <2> QED BY <2>3, <2>4
<1>8. bare.stock \in [Items -> Nat]
      BY <1>3, CopyParts
<1>9. /\ out.stock["gpu"] = bare.stock["gpu"] /\ out.stock["rig"] = bare.stock["rig"]
      /\ out.stock["asic"] = n /\ bare.stock["asic"] \in Nat
      BY <1>7, <1>8 DEF Items
<1>10. Kept(out.stock, out.slot, out.at)
      BY <1>3, <1>7, <1>9 DEF Kept
<1>11. copy.stock["asic"] <= out.stock["asic"]
  <2>1. PICK b : b = bare.stock["asic"]
        OBVIOUS
  <2>2. b <= n
        BY <1>4, <1>6, <1>9, <2>1
  <2> QED BY <1>3, <1>9, <2>1, <2>2
<1> QED BY <1>1, <1>3, <1>5, <1>7, <1>10, <1>11

LEMMA PlaceConserves ==
  ASSUME IInv, SInv, CInv, NEW t \in Txs, Undisturbed(t), ~overwritten,
         NEW p \in Places, NEW new \in Racks, Place(t, p, new)
  PROVE  Conserved
<1>1. PICK copy, c, B : copy = intent[t].copy /\ c = intent[t].clock /\ B = Base(t)
      OBVIOUS
<1>2. copy \in Copies /\ B \in LeaseTable
      BY <1>1, IntentParts, BaseKeeps DEF IInv
<1>3. /\ Kept(copy.stock, copy.slot, copy.at) /\ Covered(B, c, copy.stock)
      /\ c \in Nat /\ now \in Nat /\ c <= now /\ Running(lease) \subseteq Running(B)
      BY <1>1, LoadedKept
<1>4. copy.at[new] = "unused" /\ p # "unused" /\ "unused" \notin Places
      BY <1>1, Loaded, HIAssumption DEF Place
<1>5. PICK there : there = {r \in Racks : copy.at[r] = p}
      OBVIOUS
<1>6. PICK out \in IF there = {} THEN {copy} ELSE {SwappedOut(copy, r) : r \in there} :
             /\ out.stock["rig"] >= 1
             /\ Save(t, B, [Bump(out, "rig", -1) EXCEPT !.at = [@ EXCEPT ![new] = p]])
      BY <1>1, <1>5 DEF Place
<1>7. /\ out \in Copies /\ Kept(out.stock, out.slot, out.at)
      /\ copy.stock["asic"] <= out.stock["asic"] /\ out.at[new] = "unused"
  <2>1. CASE there = {}
    <3>1. out = copy
          BY <1>6, <2>1
    <3>2. copy.stock["asic"] \in Nat
          BY <1>2, CopyParts DEF Items
    <3> QED BY <1>2, <1>3, <1>4, <3>1, <3>2
  <2>2. CASE there # {}
    <3>1. PICK r \in there : out = SwappedOut(copy, r)
          BY <1>6, <2>2
    <3>2. r \in Racks /\ copy.at[r] \in Places /\ new # r
          BY <1>4, <1>5, <3>1
    <3>3. /\ out \in Copies /\ Kept(out.stock, out.slot, out.at)
          /\ copy.stock["asic"] <= out.stock["asic"]
          /\ \A k \in Racks : out.at[k] = IF k = r THEN "swapped" ELSE copy.at[k]
          BY <1>2, <1>3, <3>1, <3>2, SwappedKept
    <3> QED BY <1>4, <3>2, <3>3
  <2> QED BY <2>1, <2>2
<1>8. out.stock \in [Items -> Nat] /\ out.stock["rig"] >= 1
      BY <1>6, <1>7, CopyParts
<1>9. PICK paid, m : paid = Bump(out, "rig", -1) /\ m = out.stock["rig"] + (-1)
      OBVIOUS
<1>10. paid \in Copies
  <2>1. out.stock["rig"] + (-1) >= 0
        BY <1>8 DEF Items
  <2> QED BY <1>7, <1>9, <2>1, BumpType DEF Items
<1>11. paid.stock = [out.stock EXCEPT !["rig"] = m] /\ paid.slot = out.slot /\ paid.at = out.at
  <2>1. paid = Count(out, "rig", m)
        BY <1>9 DEF Bump
  <2> QED BY <1>7, <2>1, CountMoves DEF Items
<1>12. PICK a : a = [paid.at EXCEPT ![new] = p]
      OBVIOUS
<1>13. PICK saved : saved = [paid EXCEPT !.at = a]
      OBVIOUS
<1>14. Save(t, B, saved)
      BY <1>6, <1>9, <1>12, <1>13
<1>15. saved.stock = paid.stock /\ saved.slot = out.slot /\ saved.at = a
      BY <1>10, <1>11, <1>13 DEF Copies
<1>16. /\ a \in [Racks -> Positions]
       /\ \A k \in Racks : a[k] = IF k = new THEN p ELSE out.at[k]
  <2>1. out.at \in [Racks -> Positions] /\ p \in Positions
        BY <1>7, CopyParts DEF Positions
  <2> QED BY <1>11, <1>12, <2>1
<1>17. saved \in Copies
      BY <1>10, <1>13, <1>16 DEF Copies
<1>18. /\ saved.stock["gpu"] = out.stock["gpu"] /\ saved.stock["asic"] = out.stock["asic"]
       /\ saved.stock["rig"] = m /\ out.stock["rig"] \in Nat
       BY <1>8, <1>11, <1>15 DEF Items
<1>19. saved.stock["rig"] + Cardinality(Rigs(saved.at)) = out.stock["rig"] + Cardinality(Rigs(out.at))
  <2>1. PICK b : b = out.at
        OBVIOUS
  <2>2. (\A k \in Racks : k # new => a[k] = b[k]) /\ b[new] \notin Places /\ a[new] \in Places
        BY <1>4, <1>7, <1>16, <2>1
  <2>3. Cardinality(Rigs(a)) = Cardinality(Rigs(b)) + 1
        BY <2>2, MoveRigs
  <2>4. PICK h, g, q : h = Cardinality(Rigs(a)) /\ g = Cardinality(Rigs(b)) /\ q = out.stock["rig"]
        OBVIOUS
  <2>5. g \in Nat /\ q \in Nat /\ h = g + 1 /\ m = q + (-1)
        BY <1>9, <1>18, <2>3, <2>4, RigsFinite
  <2>6. m + h = q + g
        BY <2>5
  <2> QED BY <1>15, <1>18, <2>1, <2>4, <2>6
<1>20. Kept(saved.stock, saved.slot, saved.at)
  <2>1. saved.stock["gpu"] + Cardinality(Gpus(saved.slot)) = out.stock["gpu"] + Cardinality(Gpus(out.slot))
        BY <1>15, <1>18
  <2> QED BY <1>7, <1>19, <2>1, KeptBy
<1>21. Covered(B, now, saved.stock)
  <2>1. /\ copy.stock \in [Items -> Nat] /\ saved.stock \in [Items -> Nat]
        /\ copy.stock["asic"] <= saved.stock["asic"]
        BY <1>2, <1>7, <1>17, <1>18, CopyParts
  <2> QED BY <1>2, <1>3, <2>1, CoveredLater
<1> QED BY <1>2, <1>3, <1>14, <1>17, <1>20, <1>21, SaveConserves

-----------------------------------------------------------------------------
(* Only its own Save ends an intent and changes the hardware. *)

\* What an intent's Save, and the flag it sets, say of the intent it ends.
LEMMA SavedUndisturbed ==
  ASSUME IInv, NEW t \in Txs, NEW u \in Txs, NEW L, NEW copy, Runs(t), Save(t, L, copy),
         Commits(u), ~overwritten'
  PROVE  u = t /\ Undisturbed(t) /\ ~overwritten
<1>1. ~overwritten /\ ~(intent[t].behind > 0)
      BY DEF Save
<1>2. intent[t].behind \in Nat
      BY IntentParts DEF IInv, IntentRows
<1>3. u = t
  <2>1. PICK done : done = {t}
        OBVIOUS
  <2>2. Committed(done) /\ TypeOK
        BY <2>1 DEF Save, IInv
  <2>3. u \notin done => On(u)' = On(u)
        BY <2>2, CommitOvertakes
  <2> QED BY <2>1, <2>3 DEF Commits, Runs
<1> QED BY <1>1, <1>2, <1>3 DEF Undisturbed

\* A commit that ends no intent is no intent's.
LEMMA OthersEndNone ==
  ASSUME TypeOK, NEW u \in Txs, Committed({})
  PROVE  ~Commits(u)
<1>1. PICK done : done = {}
      OBVIOUS
<1>2. On(u)' = On(u)
      BY <1>1, CommitOvertakes
<1> QED BY <1>2 DEF Commits, Runs

\* Nor is the save of an administrator's page.
LEMMA PageEndsNone ==
  ASSUME TypeOK, NEW t \in Txs, NEW u \in Txs, Opened(t), NEW out, PersistPage(t, out)
  PROVE  ~Commits(u)
<1>1. PICK done : done = {t}
      OBVIOUS
<1>2. u # t => On(u)' = On(u)
      BY <1>1, CommitOvertakes DEF PersistPage
<1> QED BY <1>2 DEF Commits, Runs, Opened

LEMMA IntentConserves ==
  ASSUME IInv, SInv, CInv, NEW t \in Txs, Intent(t), NEW u \in Txs, Commits(u), ~overwritten'
  PROVE  Conserved
<1>1. CASE (\E k \in Keys \cup {FreshKey} : Begin(t, k)) \/ Abort(t)
  <2>1. UNCHANGED hardware
        BY <1>1 DEF Begin, Abort
  <2> QED BY <2>1 DEF Commits
<1>2. ASSUME NEW r \in Racks, NEW i \in Slots, EquipPermanent(t, r, i) PROVE Conserved
  <2>0. PICK L, copy : /\ L = Base(t)
                       /\ copy = Put(Bump(intent[t].copy, "gpu", -1), r, i, Content("gpu", NoLease))
        OBVIOUS
  <2>1. Save(t, L, copy) /\ Runs(t)
        BY <1>2, <2>0 DEF EquipPermanent
  <2>2. u = t /\ Undisturbed(t) /\ ~overwritten
        BY <2>1, SavedUndisturbed
  <2> QED BY <1>2, <2>2, EquipPermanentConserves
<1>3. ASSUME NEW r \in Racks, NEW i \in Slots, EquipTimed(t, r, i) PROVE Conserved
  <2>1. PICK L, copy : Save(t, L, copy) /\ Runs(t)
        BY <1>3 DEF EquipTimed
  <2>2. u = t /\ Undisturbed(t) /\ ~overwritten
        BY <2>1, SavedUndisturbed
  <2> QED BY <1>3, <2>2, EquipTimedConserves
<1>4. ASSUME NEW r \in Racks, NEW i \in Slots, Unequip(t, r, i) PROVE Conserved
  <2>1. PICK L, copy : Save(t, L, copy) /\ Runs(t)
        BY <1>4 DEF Unequip
  <2>2. u = t /\ Undisturbed(t) /\ ~overwritten
        BY <2>1, SavedUndisturbed
  <2> QED BY <1>4, <2>2, UnequipConserves
<1>5. ASSUME NEW r \in Racks, Remove(t, r) PROVE Conserved
  <2>1. PICK L, copy : Save(t, L, copy) /\ Runs(t)
        BY <1>5 DEF Remove
  <2>2. u = t /\ Undisturbed(t) /\ ~overwritten
        BY <2>1, SavedUndisturbed
  <2> QED BY <1>5, <2>2, RemoveConserves
<1>6. ASSUME NEW p \in Places, NEW r \in Racks, Place(t, p, r) PROVE Conserved
  <2>1. PICK L, copy : Save(t, L, copy) /\ Runs(t)
        BY <1>6 DEF Place
  <2>2. u = t /\ Undisturbed(t) /\ ~overwritten
        BY <2>1, SavedUndisturbed
  <2> QED BY <1>6, <2>2, PlaceConserves
<1> QED BY <1>1, <1>2, <1>3, <1>4, <1>5, <1>6 DEF Intent

LEMMA StepConserves == IInv /\ SInv /\ CInv /\ [Next]_vars => [ConservesStep]_vars
<1> SUFFICES ASSUME IInv, SInv, CInv, Next, NEW u \in Txs, Commits(u), ~overwritten'
             PROVE  Conserved
    BY DEF ConservesStep, Conserved
<1>1. TypeOK
      BY DEF IInv
<1>2. CASE Advance
      BY <1>2 DEF Advance, Commits
<1>3. ~Committed({})
      BY <1>1, OthersEndNone
<1>4. ~(\/ Sweep \/ CreditLease \/ Credit("gpu")
        \/ \E item \in {"gpu", "asic"} : List(item)
        \/ \E l \in Leases : Sold(l)
        \/ \E q \in 0..MaxQty : AdminMerge(q))
      BY <1>3 DEF Sweep, CreditLease, Credit, List, Sold, AdminMerge
<1>5. CASE \E t \in Txs : Intent(t)
      BY <1>5, IntentConserves
<1>6. ASSUME NEW t \in Txs PROVE ~Administrator(t)
  <2>1. ~AdminOpen(t)
        BY DEF AdminOpen, Commits
  <2>2. ASSUME NEW gone PROVE ~AdminSave(t, gone) /\ ~RevokeRooms(t, gone)
        BY <1>1, PageEndsNone DEF AdminSave, RevokeRooms
  <2> QED BY <2>1, <2>2 DEF Administrator
<1> QED BY <1>2, <1>4, <1>5, <1>6 DEF Next

\* An intent that nothing overtook, on a player whose racks no other intent has
\* overwritten, creates and destroys nothing: permanent machines and chassis only
\* change places and no unit whose lease still runs is lost, although its copy counts
\* the rows at the clock of its load and the save at the clock of its commit.
THEOREM UndisturbedIntentsConserve == Spec => UndisturbedConserves
<1>1. Init => IInv /\ SInv /\ CInv
      BY InitHolds, InitMatches, InitCurrent
<1>2. IInv /\ SInv /\ CInv /\ StockMatchesLeases /\ [Next]_vars => IInv' /\ SInv' /\ CInv'
      BY StepHolds, StepMatches, StepKeepsCurrent
<1>3. IInv /\ SInv /\ CInv /\ [Next]_vars => [ConservesStep]_vars
      BY StepConserves
<1> QED BY <1>1, <1>2, <1>3, CountFollowsLeases, PTL DEF Spec, UndisturbedConserves

=============================================================================
