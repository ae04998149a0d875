------------------------- MODULE MiningCreditProofs -------------------------
(***************************************************************************)
(* Theorems about MiningCredit, for every set of users and passes, every   *)
(* grid, window and bound, with or without Redis locks.                    *)
(***************************************************************************)
EXTENDS MiningCredit, FiniteSums

(***************************************************************************)
(* Clocks.                                                                 *)
(***************************************************************************)
\* The closed part of the grid only grows, and never reaches beyond the clock.
LEMMA GridMonotone ==
  ASSUME NEW a \in Int, NEW b \in Int, a <= b
  PROVE  /\ LastCompletedGrid(a) \in Int
         /\ LastCompletedGrid(a) <= LastCompletedGrid(b)
<1>1. /\ a - (a % Grid) = Grid * (a \div Grid)
      /\ b - (b % Grid) = Grid * (b \div Grid)
  BY MiningAssumption
<1>2. a \div Grid \in Int /\ b \div Grid \in Int /\ a \div Grid <= b \div Grid
  BY MiningAssumption
<1>3. Grid * (a \div Grid) <= Grid * (b \div Grid)
  BY <1>2, MiningAssumption
<1>. QED
  BY <1>1, <1>2, <1>3, MiningAssumption DEF LastCompletedGrid

\* The cursor moves forward with a commit, and never beyond the pass's cap.
LEMMA LastWriteRange ==
  ASSUME NEW c \in Int, NEW last \in Int, CreditCap(c) > last
  PROVE  /\ LastWrite(c, last) \in Int
         /\ last < LastWrite(c, last) /\ LastWrite(c, last) <= CreditCap(c)
<1>1. CreditCap(c) \in Int
  BY GridMonotone DEF CreditCap
<1>. QED
  BY <1>1, MiningAssumption DEF LastWrite

(***************************************************************************)
(* Rows.                                                                   *)
(***************************************************************************)
Covers(r, t) == r.start <= t /\ t < r.end

\* Every row ends by the end of the interval, none covers a moment outside it,
\* and no two cover the same one.
Tiles(rows, last, end) ==
  /\ \A r \in rows : r.end \in Int /\ r.end <= end
  /\ \A r \in rows, t \in Times : Covers(r, t) => last <= t /\ t < end
  /\ \A r, s \in rows, t \in Times : Covers(r, t) /\ Covers(s, t) => r = s

LEMMA WindowsTile ==
  ASSUME NEW s \in Int, NEW e \in Int, s < e
  PROVE  /\ \A w \in CreditWindows(s, e) :
              w[1] \in Int /\ w[2] \in Int /\ s <= w[1] /\ w[2] <= e
         /\ \A w, v \in CreditWindows(s, e), t \in Times :
              w[1] <= t /\ t < w[2] /\ v[1] <= t /\ t < v[2] => w = v
<1>1. \A c \in Cuts(s, e) : c \in Int /\ s <= c /\ c <= e
  BY DEF Cuts
<1>2. ASSUME NEW w \in CreditWindows(s, e), NEW v \in CreditWindows(s, e),
             NEW t \in Times, w[1] <= t, t < w[2], v[1] <= t, t < v[2]
      PROVE  w = v
  <2>1. /\ w = <<w[1], w[2]>> /\ v = <<v[1], v[2]>>
        /\ w[1] \in Cuts(s, e) /\ w[2] \in Cuts(s, e)
        /\ v[1] \in Cuts(s, e) /\ v[2] \in Cuts(s, e)
    BY DEF CreditWindows
  <2>2. /\ ~(w[1] < v[1] /\ v[1] < w[2]) /\ ~(w[1] < v[2] /\ v[2] < w[2])
        /\ ~(v[1] < w[1] /\ w[1] < v[2]) /\ ~(v[1] < w[2] /\ w[2] < v[2])
    BY <2>1 DEF CreditWindows
  <2>3. t \in Int
    BY MiningAssumption DEF Times
  <2>4. w[1] = v[1] /\ w[2] = v[2]
    BY <1>1, <1>2, <2>1, <2>2, <2>3
  <2>. QED
    BY <2>1, <2>4
<1>. QED
  BY <1>1, <1>2 DEF CreditWindows

LEMMA RowsTile ==
  ASSUME NEW s \in Int, NEW e \in Int, s < e, NEW fallback
  PROVE  Tiles(RowsFor(s, e, fallback), s, e)
<1>. DEFINE hist == HistoryFrom(s)
            useHistory == \E w \in CreditWindows(s, e) : RateAt(w[1], hist) > 0
            Rate(w) == IF useHistory THEN RateAt(w[1], hist) ELSE fallback
            RowOf(w) == [start |-> w[1], end |-> w[2], amount |-> Rate(w) * (w[2] - w[1])]
<1>1. RowsFor(s, e, fallback) \subseteq {RowOf(w) : w \in CreditWindows(s, e)}
  BY DEF RowsFor, WindowRows
<1>2. \A w : RowOf(w).start = w[1] /\ RowOf(w).end = w[2]
  OBVIOUS
<1>. HIDE DEF RowOf
<1>3. ASSUME NEW r \in RowsFor(s, e, fallback), NEW t \in Times, Covers(r, t)
      PROVE  s <= t /\ t < e
  <2>1. PICK w \in CreditWindows(s, e) : r = RowOf(w)
    BY <1>1
  <2>2. w[1] <= t /\ t < w[2] /\ w[1] \in Int /\ w[2] \in Int /\ s <= w[1] /\ w[2] <= e
    BY <1>2, <1>3, <2>1, WindowsTile DEF Covers
  <2>. QED
    BY <2>2, MiningAssumption DEF Times
<1>4. ASSUME NEW r \in RowsFor(s, e, fallback), NEW q \in RowsFor(s, e, fallback),
             NEW t \in Times, Covers(r, t), Covers(q, t)
      PROVE  r = q
  <2>1. PICK w \in CreditWindows(s, e) : r = RowOf(w)
    BY <1>1
  <2>2. PICK v \in CreditWindows(s, e) : q = RowOf(v)
    BY <1>1
  <2>3. w = v
    BY <1>2, <1>4, <2>1, <2>2, WindowsTile DEF Covers
  <2>. QED
    BY <2>1, <2>2, <2>3
<1>5. ASSUME NEW r \in RowsFor(s, e, fallback)
      PROVE  r.end \in Int /\ r.end <= e
  <2>1. PICK w \in CreditWindows(s, e) : r = RowOf(w)
    BY <1>1
  <2>. QED
    BY <1>2, <2>1, WindowsTile
<1>. QED
  BY <1>3, <1>4, <1>5 DEF Tiles

\* Of rows that tile an interval at most one covers a moment in it, and none a
\* moment outside.
LEMMA OneMoreCover ==
  ASSUME NEW rows, NEW last \in Int, NEW end \in Int, Tiles(rows, last, end),
         NEW t \in Int, t \in Times, NEW old, IsFiniteSet(old),
         NEW own, \A x \in own : x \in rows /\ Covers(x, t)
  PROVE  /\ IsFiniteSet(old \cup own) /\ Cardinality(old) \in Nat
         /\ Cardinality(old \cup own) \in Nat
         /\ Cardinality(old \cup own) <= Cardinality(old) + 1
         /\ t < last \/ end <= t => old \cup own = old
<1>1. Cardinality(old) \in Nat
  BY FS_CardinalityType
<1>2. CASE own = {}
  <2>1. old \cup own = old
    BY <1>2
  <2>. QED
    BY <1>1, <2>1
<1>3. CASE own # {}
  <2>1. PICK x : x \in own
    BY <1>3
  <2>2. own = {x}
    BY <2>1 DEF Tiles
  <2>3. /\ IsFiniteSet(old \cup {x})
        /\ Cardinality(old \cup {x}) = IF x \in old THEN Cardinality(old) ELSE Cardinality(old) + 1
    BY FS_AddElement
  <2>4. last <= t /\ t < end
    BY <2>1 DEF Tiles
  <2>. QED
    BY <1>1, <2>2, <2>3, <2>4
<1>. QED
  BY <1>2, <1>3

LEMMA CoveringIsCard ==
  \A u, t : Covering(u, t) = Cardinality({r \in history[u] : Covers(r, t)})
BY DEF Covering, Covers

(***************************************************************************)
(* The inductive invariant of CreditedOnce and OnlyClosedBlocks. The       *)
(* property alone is not inductive. A commit adds at most one to what      *)
(* covers a moment because the rows a pass carries tile the interval from  *)
(* its cursor to its end; and that keeps the property because a moment the *)
(* cursor has not passed was paid no more often than handlers reopened it  *)
(* (the IF of CoverInv).                                                   *)
(***************************************************************************)
PassInv(r) ==
  /\ r.phase \in {"started", "state", "ready"} =>
       r.user \in Users /\ r.clock \in Int /\ r.clock <= now
  /\ r.phase \in {"state", "ready"} => r.last \in Int /\ CreditCap(r.clock) > r.last
  /\ r.phase = "ready" => Tiles(r.rows, r.last, LastWrite(r.clock, r.last))

CoverInv ==
  \A u \in Users, t \in Times :
    /\ IsFiniteSet({r \in history[u] : Covers(r, t)})
    /\ Covering(u, t) <= IF t < cursor[u] THEN 1 + reopened[u][t] ELSE reopened[u][t]

ClosedInv ==
  \A u \in Users : \A r \in history[u] : r.end \in Int /\ r.end <= LastCompletedGrid(now)

IInv ==
  /\ now \in Int /\ cursor \in [Users -> Int]
  /\ history = [u \in Users |-> history[u]]
  /\ pass = [p \in Passes |-> pass[p]]
  /\ reopened \in [Users -> [Times -> Nat]]
  /\ \A p \in Passes : PassInv(pass[p])
  /\ CoverInv /\ ClosedInv

LEMMA IInvInit == Init => IInv
<1>. SUFFICES ASSUME Init PROVE IInv
  OBVIOUS
<1>1. \A p \in Passes : PassInv(pass[p])
  BY DEF Init, IdlePass, PassInv
<1>2. \A u \in Users, t \in Times :
        {r \in history[u] : Covers(r, t)} = {} /\ cursor[u] = 1 /\ reopened[u][t] = 0
  BY DEF Init
<1>3. CoverInv
  BY <1>2, FS_EmptySet, CoveringIsCard DEF CoverInv
<1>4. ClosedInv
  BY DEF Init, ClosedInv
<1>. QED
  BY <1>1, <1>3, <1>4 DEF Init, IInv

\* A step that only moves passes, each to a state that satisfies PassInv.
LEMMA PassFrame ==
  ASSUME IInv, UNCHANGED <<now, cursor, history, reopened>>,
         pass' = [p \in Passes |-> pass'[p]], \A p \in Passes : PassInv(pass'[p])
  PROVE  IInv'
<1>1. \A p \in Passes : PassInv(pass[p])'
  BY DEF PassInv
<1>2. CoverInv'
  BY DEF IInv, CoverInv, Covering
<1>3. ClosedInv'
  BY DEF IInv, ClosedInv
<1>. QED
  BY <1>1, <1>2, <1>3 DEF IInv

LEMMA IdleInv == PassInv(IdlePass) /\ \A r : PassInv(Finished(r))
BY DEF PassInv, IdlePass, Finished

LEMMA PassSteps ==
  ASSUME IInv, NEW p \in Passes,
         \/ \E u \in Miners : Acquire(p, u)
         \/ ReadNothing(p) \/ ReadState(p) \/ ReadSetup(p) \/ Refuse(p) \/ Release(p)
  PROVE  IInv'
<1>0. PassInv(pass[p])
  BY DEF IInv
<1>. SUFFICES /\ UNCHANGED <<now, cursor, history, reopened>>
              /\ \E r : PassInv(r) /\ pass' = [pass EXCEPT ![p] = r]
  <2>1. PICK r : PassInv(r) /\ pass' = [pass EXCEPT ![p] = r]
    OBVIOUS
  <2>2. pass' = [q \in Passes |-> pass'[q]] /\ \A q \in Passes : PassInv(pass'[q])
    BY <2>1 DEF IInv
  <2>. QED
    BY <2>2, PassFrame
<1>1. ASSUME NEW u \in Miners, Acquire(p, u)
      PROVE  /\ UNCHANGED <<now, cursor, history, reopened>>
             /\ \E r : PassInv(r) /\ pass' = [pass EXCEPT ![p] = r]
  <2>. DEFINE r == [IdlePass EXCEPT !.phase = "started", !.user = u, !.clock = now]
  <2>1. PassInv(r)
    BY MiningAssumption DEF IdlePass, PassInv, IInv
  <2>. QED
    BY <1>1, <2>1 DEF Acquire, creditVars
<1>2. CASE ReadNothing(p) \/ Refuse(p)
  BY <1>2, IdleInv DEF ReadNothing, Refuse, creditVars
<1>3. CASE Release(p)
  BY <1>3, IdleInv DEF Release, creditVars
<1>4. CASE ReadState(p)
  <2>. DEFINE q == pass[p]
              r == [IdlePass EXCEPT !.phase = "state", !.user = q.user, !.clock = q.clock,
                        !.last = cursor[q.user], !.coin = coinActive,
                        !.fallback = IF coinActive THEN FallbackYield ELSE 0,
                        !.frozen = CheckinFrozen(q.user, q.clock)]
  <2>1. pass' = [pass EXCEPT ![p] = r]
    BY <1>4 DEF ReadState
  <2>2. q.user \in Users /\ q.clock \in Int /\ q.clock <= now /\ CreditCap(q.clock) > cursor[q.user]
    BY <1>0, <1>4 DEF ReadState, PassInv
  <2>3. r.phase = "state" /\ r.user = q.user /\ r.clock = q.clock /\ r.last = cursor[q.user]
    BY DEF IdlePass
  <2>4. PassInv(r)
    BY <2>2, <2>3 DEF PassInv, IInv
  <2>. QED
    BY <1>4, <2>1, <2>4 DEF ReadState, creditVars
<1>5. CASE ReadSetup(p)
  <2>. DEFINE q == pass[p]
              running == /\ ~q.frozen /\ powered[q.user] /\ mounted[q.user]
                         /\ ~DueAt(q.user, q.clock)
              end == LastWrite(q.clock, q.last)
              r == [IdlePass EXCEPT !.phase = "ready", !.user = q.user, !.clock = q.clock,
                        !.last = q.last, !.powerOff = running /\ ~q.coin,
                        !.rows = IF running /\ q.coin
                                 THEN RowsFor(q.last, end, q.fallback) ELSE {}]
  <2>1. pass' = [pass EXCEPT ![p] = r]
    BY <1>5 DEF ReadSetup
  <2>2. /\ q.user \in Users /\ q.clock \in Int /\ q.clock <= now
        /\ q.last \in Int /\ CreditCap(q.clock) > q.last
    BY <1>0, <1>5 DEF ReadSetup, PassInv
  <2>3. Tiles(RowsFor(q.last, end, q.fallback), q.last, end)
    BY <2>2, LastWriteRange, RowsTile
  <2>4. Tiles({}, q.last, end)
    BY DEF Tiles
  <2>5. /\ r.phase = "ready" /\ r.user = q.user /\ r.clock = q.clock /\ r.last = q.last
        /\ r.rows = RowsFor(q.last, end, q.fallback) \/ r.rows = {}
    BY DEF IdlePass
  <2>6. PassInv(r)
    BY <2>2, <2>3, <2>4, <2>5 DEF PassInv
  <2>. QED
    BY <1>5, <2>1, <2>6 DEF ReadSetup, creditVars
<1>. QED
  BY <1>1, <1>2, <1>3, <1>4, <1>5

\* The rows enter the history together with the cursor's move to their end.
LEMMA CommitStep ==
  ASSUME IInv, NEW p \in Passes, Commit(p)
  PROVE  IInv'
<1>. DEFINE r == pass[p]
            end == LastWrite(r.clock, r.last)
<1>0. r.phase = "ready" /\ cursor[r.user] = r.last
  BY DEF Commit, Committable, CursorUnchanged
<1>1. /\ r.user \in Users /\ r.clock \in Int /\ r.clock <= now
      /\ r.last \in Int /\ CreditCap(r.clock) > r.last /\ Tiles(r.rows, r.last, end)
  BY <1>0 DEF IInv, PassInv
<1>2. end \in Int /\ r.last < end /\ end <= CreditCap(r.clock)
  BY <1>1, LastWriteRange
<1>3. /\ cursor' = [cursor EXCEPT ![r.user] = end]
      /\ history' = [history EXCEPT ![r.user] = @ \cup r.rows]
      /\ pass' = [pass EXCEPT ![p] = Finished(r)]
      /\ UNCHANGED <<now, reopened>>
  BY DEF Commit
<1>. HIDE DEF r, end
<1>4. \A q \in Passes : PassInv(pass[q])'
  BY <1>3, IdleInv DEF IInv, PassInv
<1>5. CoverInv'
  <2>. SUFFICES ASSUME NEW u \in Users, NEW t \in Times
                PROVE  /\ IsFiniteSet({h \in history'[u] : Covers(h, t)})
                       /\ Cardinality({h \in history'[u] : Covers(h, t)})
                            <= IF t < cursor'[u] THEN 1 + reopened[u][t] ELSE reopened[u][t]
    BY <1>3, CoveringIsCard DEF CoverInv, Covering, Covers
  <2>1. /\ IsFiniteSet({h \in history[u] : Covers(h, t)})
        /\ Cardinality({h \in history[u] : Covers(h, t)})
             <= IF t < cursor[u] THEN 1 + reopened[u][t] ELSE reopened[u][t]
    BY CoveringIsCard DEF IInv, CoverInv
  <2>2. reopened[u][t] \in Nat /\ t \in Int /\ cursor[u] \in Int
    BY MiningAssumption DEF IInv, Times
  <2>3. CASE u # r.user
    BY <1>3, <2>1, <2>3 DEF IInv
  <2>4. CASE u = r.user
    <3>. DEFINE old == {h \in history[u] : Covers(h, t)}
                own == {h \in r.rows : Covers(h, t)}
                new == {h \in history[u] \cup r.rows : Covers(h, t)}
    <3>1. history'[u] = history[u] \cup r.rows /\ cursor'[u] = end /\ cursor[u] = r.last
      BY <1>0, <1>1, <1>3, <2>4 DEF IInv, r
    <3>2. /\ IsFiniteSet(new) /\ Cardinality(old) \in Nat /\ Cardinality(new) \in Nat
          /\ Cardinality(new) <= Cardinality(old) + 1
          /\ t < r.last \/ end <= t => new = old
      <4>1. new = old \cup own /\ \A x \in own : x \in r.rows /\ Covers(x, t)
        OBVIOUS
      <4>2. IsFiniteSet(old)
        BY <2>1
      <4>. HIDE DEF old, own, new
      <4>3. /\ IsFiniteSet(old \cup own) /\ Cardinality(old) \in Nat
            /\ Cardinality(old \cup own) \in Nat
            /\ Cardinality(old \cup own) <= Cardinality(old) + 1
            /\ t < r.last \/ end <= t => old \cup own = old
        BY <1>1, <1>2, <2>2, <4>1, <4>2, OneMoreCover
      <4>. QED
        BY <4>1, <4>3
    <3>3. Cardinality(old) <= IF t < r.last THEN 1 + reopened[u][t] ELSE reopened[u][t]
      BY <2>1, <3>1
    <3>. HIDE DEF old, new
    <3>4. Cardinality(new) <= IF t < end THEN 1 + reopened[u][t] ELSE reopened[u][t]
      BY <1>1, <1>2, <2>2, <3>2, <3>3
    <3>. QED
      BY <3>1, <3>2, <3>4 DEF new
  <2>. QED
    BY <2>3, <2>4
<1>6. ClosedInv'
  <2>1. CreditCap(r.clock) <= LastCompletedGrid(now) /\ LastCompletedGrid(now) \in Int
        /\ CreditCap(r.clock) \in Int
    BY <1>1, GridMonotone DEF IInv, CreditCap
  <2>2. \A h \in r.rows : h.end \in Int /\ h.end <= LastCompletedGrid(now)
    BY <1>1, <1>2, <2>1 DEF Tiles
  <2>3. LastCompletedGrid(now)' = LastCompletedGrid(now)
    BY <1>3 DEF LastCompletedGrid
  <2>. QED
    BY <1>3, <2>2, <2>3 DEF IInv, ClosedInv
<1>. QED
  BY <1>1, <1>2, <1>3, <1>4, <1>5, <1>6 DEF IInv

\* A handler moves the cursor without paying, and the observer takes note.
LEMMA BumpStep ==
  ASSUME IInv, NEW u \in Users, NEW t \in Stamps, BumpCursor(u, t),
         UNCHANGED <<now, pass, history>>
  PROVE  IInv'
<1>0. t \in Int
  BY DEF IInv, Stamps
<1>1. /\ cursor' = [cursor EXCEPT ![u] = t]
      /\ reopened' = [reopened EXCEPT ![u] =
           [x \in Times |-> IF t <= x THEN Covering(u, x) ELSE reopened[u][x]]]
  BY DEF BumpCursor
<1>2. \A x \in Times : Covering(u, x) \in Nat
  BY CoveringIsCard, FS_CardinalityType DEF IInv, CoverInv
<1>3. reopened' \in [Users -> [Times -> Nat]]
  BY <1>1, <1>2 DEF IInv
<1>4. CoverInv'
  <2>. SUFFICES ASSUME NEW v \in Users, NEW x \in Times
                PROVE  /\ IsFiniteSet({r \in history[v] : Covers(r, x)})
                       /\ Covering(v, x) <=
                            IF x < cursor'[v] THEN 1 + reopened'[v][x] ELSE reopened'[v][x]
    BY DEF CoverInv, Covering
  <2>1. /\ IsFiniteSet({r \in history[v] : Covers(r, x)})
        /\ Covering(v, x) <=
             IF x < cursor[v] THEN 1 + reopened[v][x] ELSE reopened[v][x]
    BY DEF IInv, CoverInv
  <2>2. reopened[v][x] \in Nat /\ x \in Int /\ cursor[v] \in Int
    <3>1. x \in Int
      BY MiningAssumption DEF Times
    <3>2. reopened[v] \in [Times -> Nat]
      BY DEF IInv
    <3>3. cursor[v] \in Int
      BY DEF IInv
    <3>. QED
      BY <3>1, <3>2, <3>3
  <2>3. CASE v # u
    BY <1>1, <2>1, <2>3 DEF IInv
  <2>4. CASE v = u
    <3>1. cursor'[v] = t /\ reopened'[v][x] = IF t <= x THEN Covering(u, x) ELSE reopened[u][x]
      BY <1>1, <2>4 DEF IInv
    <3>2. Covering(v, x) \in Nat
      BY <1>2, <2>4
    <3>. QED
      BY <1>0, <2>1, <2>2, <2>4, <3>1, <3>2
  <2>. QED
    BY <2>3, <2>4
<1>5. ClosedInv' /\ \A q \in Passes : PassInv(pass[q])'
  BY DEF IInv, ClosedInv, LastCompletedGrid, PassInv
<1>. QED
  BY <1>0, <1>1, <1>3, <1>4, <1>5 DEF IInv

LEMMA IInvStep == IInv /\ [Next]_vars => IInv'
<1>. SUFFICES ASSUME IInv, [Next]_vars PROVE IInv'
  OBVIOUS
<1>. USE DEF creditVars
<1>1. ASSUME NEW p \in Passes,
             \/ \E u \in Miners : Acquire(p, u)
             \/ ReadNothing(p) \/ ReadState(p) \/ ReadSetup(p) \/ Refuse(p) \/ Release(p)
      PROVE  IInv'
  BY <1>1, PassSteps
<1>2. ASSUME NEW p \in Passes, Commit(p) PROVE IInv'
  BY <1>2, CommitStep
<1>3. CASE Crash
  <2>1. pass' = [p \in Passes |-> IdlePass] /\ UNCHANGED <<now, cursor, history, reopened>>
    BY <1>3 DEF Crash
  <2>. QED
    BY <2>1, IdleInv, PassFrame
<1>4. ASSUME NEW u \in Miners, NEW t \in Stamps, Bump(u, t) \/ CheckIn(u, t)
      PROVE  IInv'
  <2>1. BumpCursor(u, t) /\ UNCHANGED <<now, pass, history>>
    BY <1>4 DEF Bump, CheckIn
  <2>. QED
    BY <2>1, BumpStep, MiningAssumption
<1>5. ASSUME UNCHANGED <<now, cursor, history, reopened, pass>> PROVE IInv'
  BY <1>5, PassFrame DEF IInv
<1>6. ASSUME NEW u \in Users, LockExpires(u) PROVE IInv'
  BY <1>5, <1>6 DEF LockExpires
<1>7. CASE TickBegin \/ TickBoundary \/ TickTimeout \/ TickEnd
  BY <1>5, <1>7 DEF TickBegin, TickBoundary, TickTimeout, TickEnd
<1>8. ASSUME NEW u \in Users, NEW week \in Weeks, PayWeek(u, week) PROVE IInv'
  BY <1>5, <1>8 DEF PayWeek
<1>9. ASSUME NEW u \in Miners, LeaseSweep(u) \/ PowerSwitch(u) \/ SetBlocked(u) PROVE IInv'
  BY <1>5, <1>9 DEF LeaseSweep, PowerSwitch, SetBlocked
<1>10. CASE SwitchCoin
  BY <1>5, <1>10 DEF SwitchCoin
<1>11. CASE Advance
  <2>1. now' = now + 1 /\ UNCHANGED <<cursor, history, reopened, pass>>
    BY <1>11 DEF Advance
  <2>2. LastCompletedGrid(now) \in Int /\ LastCompletedGrid(now) <= LastCompletedGrid(now')
    BY <2>1, GridMonotone DEF IInv
  <2>3. LastCompletedGrid(now') \in Int
    BY <2>1, GridMonotone DEF IInv
  <2>4. ClosedInv'
    <3>1. LastCompletedGrid(now)' = LastCompletedGrid(now')
      BY DEF LastCompletedGrid
    <3>. QED
      BY <2>1, <2>2, <2>3, <3>1 DEF IInv, ClosedInv
  <2>5. CoverInv'
    BY <2>1 DEF IInv, CoverInv, Covering
  <2>6. \A p \in Passes : PassInv(pass[p])'
    <3>. SUFFICES ASSUME NEW p \in Passes PROVE PassInv(pass[p])'
      OBVIOUS
    <3>. QED
      BY <2>1 DEF IInv, PassInv
  <2>. QED
    BY <2>1, <2>4, <2>5, <2>6 DEF IInv
<1>12. CASE UNCHANGED vars
  BY <1>5, <1>12 DEF vars
<1>. QED
  BY <1>1, <1>2, <1>3, <1>4, <1>6, <1>7, <1>8, <1>9, <1>10, <1>11, <1>12 DEF Next

\* No moment of a player is paid twice, whatever passes run side by side and
\* with or without Redis locks: the transaction's own check of the cursor
\* carries it. Only a handler that moves the cursor back reopens a moment.
THEOREM PaidOnce == Spec => []CreditedOnce
<1>1. IInv => CreditedOnce
  <2>. SUFFICES ASSUME IInv, NEW u \in Users, NEW t \in Times
                PROVE  Covering(u, t) <= 1 + reopened[u][t]
    BY DEF CreditedOnce
  <2>1. reopened[u][t] \in Nat /\ Covering(u, t) \in Nat
    BY CoveringIsCard, FS_CardinalityType DEF IInv, CoverInv
  <2>2. Covering(u, t) <= IF t < cursor[u] THEN 1 + reopened[u][t] ELSE reopened[u][t]
    BY DEF IInv, CoverInv
  <2>. QED
    BY <2>1, <2>2
<1>. QED
  BY <1>1, IInvInit, IInvStep, PTL DEF Spec

\* Nothing of the open ten-minute block is ever paid: a row ends with a block
\* that was closed when the pass read its clock.
THEOREM OpenBlockUnpaid == Spec => []OnlyClosedBlocks
<1>1. IInv => OnlyClosedBlocks
  BY DEF IInv, ClosedInv, OnlyClosedBlocks
<1>. QED
  BY <1>1, IInvInit, IInvStep, PTL DEF Spec

(***************************************************************************)
(* The manager's weeks. Only the shape of the two tables is added to the   *)
(* property: whatever the shares are, a paid row is never added to.        *)
(***************************************************************************)
WeekRow(r) == r = [share |-> r.share, paid |-> r.paid] /\ r.paid \in BOOLEAN

TablesShape ==
  /\ accrual = [u \in Users |-> [w \in Weeks |-> accrual[u][w]]]
  /\ payout = [u \in Users |-> [w \in Weeks |-> payout[u][w]]]
  /\ \A u \in Users, w \in Weeks : WeekRow(accrual[u][w])

WeekInv == TablesShape /\ PaidWhatAccrued

LEMMA WeekCommit ==
  ASSUME WeekInv, NEW p \in Passes, Commit(p)
  PROVE  WeekInv'
<1>. DEFINE r == pass[p]
            amount == AmountOf(r.rows)
            week == Week(r.clock)
<1>1. payout' = payout
  BY DEF Commit
<1>2. accrual' = accrual
      \/ accrual' = [accrual EXCEPT ![r.user] = Accrue(@, week, amount)]
  BY DEF Commit
<1>. HIDE DEF r, amount, week
<1>3. CASE accrual' = accrual
  BY <1>1, <1>3 DEF WeekInv, TablesShape, PaidWhatAccrued
<1>4. CASE accrual' = [accrual EXCEPT ![r.user] = Accrue(@, week, amount)]
  <2>1. ASSUME NEW u \in Users
        PROVE  \/ accrual'[u] = accrual[u]
               \/ /\ ~accrual[u][week].paid
                  /\ accrual'[u] = [accrual[u] EXCEPT ![week].share = @ + amount]
    BY <1>4 DEF Accrue, WeekInv, TablesShape
  <2>2. ASSUME NEW u \in Users, NEW w \in Weeks
        PROVE  /\ WeekRow(accrual'[u][w])
               /\ accrual'[u][w].paid = accrual[u][w].paid
               /\ accrual[u][w].paid => accrual'[u][w] = accrual[u][w]
    <3>1. WeekRow(accrual[u][w]) /\ accrual[u] = [x \in Weeks |-> accrual[u][x]]
      BY DEF WeekInv, TablesShape
    <3>2. CASE accrual'[u] = accrual[u]
      BY <3>1, <3>2
    <3>3. CASE /\ ~accrual[u][week].paid
               /\ accrual'[u] = [accrual[u] EXCEPT ![week].share = @ + amount]
      <4>1. CASE w # week
        BY <3>1, <3>3, <4>1
      <4>2. CASE w = week
        <5>1. accrual'[u][w] = [accrual[u][w] EXCEPT !.share = @ + amount]
          BY <3>1, <3>3, <4>2
        <5>2. accrual'[u][w] = [share |-> accrual[u][w].share + amount, paid |-> accrual[u][w].paid]
          BY <3>1, <5>1 DEF WeekRow
        <5>. QED
          BY <3>1, <3>3, <4>2, <5>2 DEF WeekRow
      <4>. QED
        BY <4>1, <4>2
    <3>. QED
      BY <2>1, <3>2, <3>3
  <2>3. accrual' = [u \in Users |-> [w \in Weeks |-> accrual'[u][w]]]
    <3>1. accrual' = [u \in Users |-> accrual'[u]]
      BY <1>4 DEF WeekInv, TablesShape
    <3>2. \A u \in Users : accrual'[u] = [w \in Weeks |-> accrual'[u][w]]
      <4>1. ASSUME NEW u \in Users
            PROVE  accrual'[u] = [w \in Weeks |-> accrual'[u][w]]
        <5>1. PICK a : a = accrual[u]
          OBVIOUS
        <5>2. a = [w \in Weeks |-> a[w]]
          BY <5>1 DEF WeekInv, TablesShape
        <5>3. accrual'[u] = a \/ accrual'[u] = [a EXCEPT ![week].share = @ + amount]
          BY <2>1, <5>1
        <5>. QED
          BY <5>2, <5>3
      <4>. QED
        BY <4>1
    <3>. QED
      BY <3>1, <3>2
  <2>4. PaidWhatAccrued'
    BY <1>1, <2>2 DEF WeekInv, PaidWhatAccrued
  <2>. QED
    BY <1>1, <2>2, <2>3, <2>4 DEF WeekInv, TablesShape
<1>. QED
  BY <1>2, <1>3, <1>4

LEMMA WeekPay ==
  ASSUME WeekInv, NEW u \in Users, NEW week \in Weeks, PayWeek(u, week)
  PROVE  WeekInv'
<1>1. /\ payout' = [payout EXCEPT ![u][week] = accrual[u][week].share]
      /\ accrual' = [accrual EXCEPT ![u][week].paid = TRUE]
  BY DEF PayWeek
<1>2. ASSUME NEW v \in Users, NEW w \in Weeks
      PROVE  /\ WeekRow(accrual'[v][w])
             /\ payout'[v][w] = IF accrual'[v][w].paid THEN accrual'[v][w].share ELSE 0
  <2>1. /\ WeekRow(accrual[v][w])
        /\ payout[v][w] = IF accrual[v][w].paid THEN accrual[v][w].share ELSE 0
    BY DEF WeekInv, TablesShape, PaidWhatAccrued
  <2>2. CASE v # u \/ w # week
    <3>1. accrual'[v][w] = accrual[v][w] /\ payout'[v][w] = payout[v][w]
      BY <1>1, <2>2 DEF WeekInv, TablesShape
    <3>. QED
      BY <2>1, <3>1
  <2>3. CASE v = u /\ w = week
    <3>1. /\ payout'[v][w] = accrual[v][w].share
          /\ accrual'[v][w] = [accrual[v][w] EXCEPT !.paid = TRUE]
      BY <1>1, <2>3 DEF WeekInv, TablesShape
    <3>2. accrual'[v][w] = [share |-> accrual[v][w].share, paid |-> TRUE]
      BY <2>1, <3>1 DEF WeekRow
    <3>. QED
      BY <3>1, <3>2 DEF WeekRow
  <2>. QED
    BY <2>2, <2>3
<1>3. /\ accrual' = [v \in Users |-> [w \in Weeks |-> accrual'[v][w]]]
      /\ payout' = [v \in Users |-> [w \in Weeks |-> payout'[v][w]]]
  <2>1. /\ accrual = [v \in Users |-> [w \in Weeks |-> accrual[v][w]]]
        /\ payout = [v \in Users |-> [w \in Weeks |-> payout[v][w]]]
    BY DEF WeekInv, TablesShape
  <2>2. PICK a, s : a = [accrual[u] EXCEPT ![week].paid = TRUE]
                    /\ s = [payout[u] EXCEPT ![week] = accrual[u][week].share]
    OBVIOUS
  <2>3. accrual' = [accrual EXCEPT ![u] = a] /\ payout' = [payout EXCEPT ![u] = s]
    BY <1>1, <2>2
  <2>4. a = [w \in Weeks |-> a[w]] /\ s = [w \in Weeks |-> s[w]]
    <3>1. accrual[u] = [w \in Weeks |-> accrual[u][w]]
      BY <2>1
    <3>2. payout[u] = [w \in Weeks |-> payout[u][w]]
      BY <2>1
    <3>3. a = [w \in Weeks |-> a[w]]
      BY ONLY <2>2, <3>1
    <3>4. s = [w \in Weeks |-> s[w]]
      BY ONLY <2>2, <3>2
    <3>. QED
      BY <3>3, <3>4
  <2>5. accrual' = [v \in Users |-> [w \in Weeks |-> accrual'[v][w]]]
    BY ONLY <2>1, <2>3, <2>4
  <2>6. payout' = [v \in Users |-> [w \in Weeks |-> payout'[v][w]]]
    BY ONLY <2>1, <2>3, <2>4
  <2>. QED
    BY <2>5, <2>6
<1>. QED
  BY <1>2, <1>3 DEF WeekInv, TablesShape, PaidWhatAccrued

LEMMA WeekInit == Init => WeekInv
<1>. SUFFICES ASSUME Init PROVE WeekInv
  OBVIOUS
<1>1. /\ accrual = [u \in Users |-> [w \in Weeks |-> [share |-> 0, paid |-> FALSE]]]
      /\ payout = [u \in Users |-> [w \in Weeks |-> 0]]
  BY DEF Init
<1>2. \A u \in Users, w \in Weeks :
        accrual[u][w] = [share |-> 0, paid |-> FALSE] /\ payout[u][w] = 0
  BY <1>1
<1>3. /\ accrual = [u \in Users |-> [w \in Weeks |-> accrual[u][w]]]
      /\ payout = [u \in Users |-> [w \in Weeks |-> payout[u][w]]]
  BY <1>1
<1>4. ASSUME NEW u \in Users, NEW w \in Weeks PROVE WeekRow(accrual[u][w])
  <2>1. accrual[u][w] = [share |-> 0, paid |-> FALSE]
    BY <1>2
  <2>2. accrual[u][w].share = 0 /\ accrual[u][w].paid = FALSE
    BY <2>1
  <2>. QED
    BY <2>1, <2>2, Zenon DEF WeekRow
<1>5. PaidWhatAccrued
  <2>1. \A u \in Users, w \in Weeks : ~accrual[u][w].paid
    BY <1>2
  <2>. QED
    BY <1>2, <2>1 DEF PaidWhatAccrued
<1>. QED
  BY <1>3, <1>4, <1>5 DEF WeekInv, TablesShape

LEMMA WeekNext == WeekInv /\ [Next]_vars => WeekInv'
<1>. SUFFICES ASSUME WeekInv, [Next]_vars PROVE WeekInv'
  OBVIOUS
<1>. USE DEF creditVars
<1>1. ASSUME UNCHANGED <<accrual, payout>> PROVE WeekInv'
  BY <1>1 DEF WeekInv, TablesShape, PaidWhatAccrued
<1>2. ASSUME NEW p \in Passes,
             \/ \E u \in Miners : Acquire(p, u)
             \/ ReadNothing(p) \/ ReadState(p) \/ ReadSetup(p) \/ Refuse(p) \/ Release(p)
      PROVE  WeekInv'
  BY <1>1, <1>2 DEF Acquire, ReadNothing, ReadState, ReadSetup, Refuse, Release
<1>3. ASSUME NEW p \in Passes, Commit(p) PROVE WeekInv'
  BY <1>3, WeekCommit
<1>4. ASSUME NEW u \in Users, NEW week \in Weeks, PayWeek(u, week) PROVE WeekInv'
  BY <1>4, WeekPay
<1>5. ASSUME NEW u \in Users, LockExpires(u) PROVE WeekInv'
  BY <1>1, <1>5 DEF LockExpires
<1>6. CASE Crash \/ TickBegin \/ TickBoundary \/ TickTimeout \/ TickEnd
  BY <1>1, <1>6 DEF Crash, TickBegin, TickBoundary, TickTimeout, TickEnd
<1>7. ASSUME NEW u \in Miners, NEW t \in Stamps, Bump(u, t) \/ CheckIn(u, t)
      PROVE  WeekInv'
  BY <1>1, <1>7 DEF Bump, CheckIn
<1>8. ASSUME NEW u \in Miners, LeaseSweep(u) \/ PowerSwitch(u) \/ SetBlocked(u)
      PROVE  WeekInv'
  BY <1>1, <1>8 DEF LeaseSweep, PowerSwitch, SetBlocked
<1>9. CASE SwitchCoin \/ Advance \/ UNCHANGED vars
  BY <1>1, <1>9 DEF SwitchCoin, Advance, vars
<1>. QED
  BY <1>2, <1>3, <1>4, <1>5, <1>6, <1>7, <1>8, <1>9 DEF Next

\* A week that is marked paid was paid exactly what it accrued, however commits
\* whose clock lies in an old week and payouts interleave.
THEOREM PaidWeekIsClosed == Spec => []PaidWhatAccrued
<1>1. WeekInv => PaidWhatAccrued
  BY DEF WeekInv
<1>. QED
  BY <1>1, WeekInit, WeekNext, PTL DEF Spec

(***************************************************************************)
(* The yield history has no hole, however ticks are cancelled, the worker  *)
(* restarts and old rows are purged: first the grid, and the greatest of a *)
(* set of boundaries.                                                      *)
(***************************************************************************)
\* The last closed boundary is on the grid, not after the clock, and moves on
\* with it; the boundary after one is on the grid.
LEMMA GridPoints ==
  ASSUME NEW t \in Nat
  PROVE  /\ LastCompletedGrid(t) \in Nat
         /\ LastCompletedGrid(t) <= t
         /\ LastCompletedGrid(t) % Grid = 0
<1>1. t % Grid \in 0..(Grid - 1)
  BY MiningAssumption
<1>2. t - (t % Grid) = Grid * (t \div Grid) /\ t \div Grid \in Nat
  BY MiningAssumption
<1>3. (Grid * (t \div Grid)) % Grid = 0
  BY <1>2, MiningAssumption
<1>. QED
  BY <1>1, <1>2, <1>3, MiningAssumption, Z3 DEF LastCompletedGrid

LEMMA NextOnGrid ==
  ASSUME NEW b \in Boundaries, b + Grid <= MaxTime
  PROVE  b + Grid \in Boundaries
<1>1. b \in Nat /\ b % Grid = 0
  BY DEF Boundaries, Times
<1>2. b = Grid * (b \div Grid) /\ b \div Grid \in Nat
  BY <1>1, MiningAssumption
<1>3. b + Grid = Grid * ((b \div Grid) + 1)
  BY <1>2, MiningAssumption
<1>4. (Grid * ((b \div Grid) + 1)) % Grid = 0
  BY <1>2, MiningAssumption
<1>. QED
  BY <1>1, <1>3, <1>4, MiningAssumption DEF Boundaries, Times

\* A set of boundaries that is not empty has a greatest member, and Max finds it.
LEMMA Greatest ==
  ASSUME NEW S, S \subseteq Boundaries, S # {}
  PROVE  Max(S) \in S /\ \A c \in S : c <= Max(S)
<1> DEFINE T == {n \in Nat : MaxTime - n \in S}
<1>1. S \subseteq Int /\ \A c \in S : c <= MaxTime /\ MaxTime \in Nat
  BY MiningAssumption DEF Boundaries, Times
<1>2. T # {}
  <2>1. PICK c \in S : TRUE
    OBVIOUS
  <2>2. MaxTime - c \in Nat /\ MaxTime - (MaxTime - c) = c
    BY <1>1, <2>1
  <2>. QED
    BY <2>1, <2>2
<1>3. \E m \in T : \A n \in T : <<n, m>> \notin OpToRel(<, Nat)
  BY <1>2, NatLessThanWellFounded, WFMin, Zenon
<1>4. PICK m \in T : \A n \in T : ~(n < m)
  BY <1>3 DEF OpToRel
<1>5. /\ MaxTime - m \in S
      /\ \A c \in S : MaxTime - m >= c
  <2>1. ASSUME NEW c \in S PROVE MaxTime - m >= c
    <3>1. MaxTime - c \in Nat /\ MaxTime - (MaxTime - c) = c
      BY <1>1
    <3>2. MaxTime - c \in T
      BY <3>1
    <3>. QED
      BY <1>1, <1>4, <3>1, <3>2
  <2>. QED
    BY <2>1
<1>6. Max(S) \in S /\ \A c \in S : Max(S) >= c
  BY <1>5 DEF Max
<1>. QED
  BY <1>1, <1>6

LEMMA MinOfTwo ==
  ASSUME NEW a \in Int, NEW b \in Int
  PROVE  /\ Min({a, b}) \in {a, b}
         /\ Min({a, b}) <= a /\ Min({a, b}) <= b
<1>1. \E x \in {a, b} : \A y \in {a, b} : x =< y
  OBVIOUS
<1>. QED
  BY <1>1 DEF Min

(***************************************************************************)
(* What ticks, restarts and purges leave behind.                           *)
(***************************************************************************)
\* A boundary is settled: it was handled, or gone past without a checkpoint, or
\* lies before the first row.
Settled(b) == yield[b] # NoRow \/ b \in skipped \/ ~\E c \in Rows : c < b

\* Everything up to the checkpoint of a process is settled, and at most the next
\* boundary has a row beyond it: the one a cancelled tick left.
CheckpointInv ==
  checkpoint \in Boundaries =>
    /\ \A b \in Boundaries : b <= checkpoint => Settled(b)
    /\ \A d \in Rows : d <= checkpoint + Grid

\* A tick writes no further than the last closed boundary when it began; without a
\* checkpoint it writes that one, after all rows.
TickInv ==
  tick # IdleTick =>
    /\ tick.live \in Nat /\ tick.cap \in Int /\ tick.cap <= LastCompletedGrid(now)
    /\ checkpoint = 0 => tick.cap \in Boundaries /\ \A d \in Rows : d <= tick.cap

YieldInv ==
  /\ now \in Times /\ yield \in [Boundaries -> Int]
  /\ checkpoint \in Boundaries \cup {0}
  /\ \A d \in Rows : d <= LastCompletedGrid(now)
  /\ TickInv /\ CheckpointInv
  /\ \A b \in Boundaries, d \in Rows : b < d => Settled(b)

LEMMA BoundaryRange ==
  /\ Boundaries \subseteq Int /\ \A b \in Boundaries : 0 < b /\ b <= MaxTime
  /\ Rows \subseteq Boundaries
BY MiningAssumption DEF Boundaries, Times, Rows

LEMMA YieldInit == Init => YieldInv
<1> SUFFICES ASSUME Init PROVE YieldInv
  OBVIOUS
<1>1. Rows = {}
  BY DEF Init, Rows, NoRow
<1>2. /\ now \in Times /\ checkpoint = 0 /\ tick = IdleTick
      /\ yield \in [Boundaries -> Int]
  BY MiningAssumption DEF Init, Times, NoRow
<1>. QED
  BY <1>1, <1>2, BoundaryRange DEF YieldInv, TickInv, CheckpointInv

\* A yield per hash is a number, so that a row is never read as none.
LEMMA YieldIsNat ==
  ASSUME NEW live \in Nat
  PROVE  YieldPerHash(live) \in Nat
<1>1. CASE live = 0
  BY <1>1 DEF YieldPerHash
<1>2. CASE live > 0
  <2>1. Reward \div live \in Nat
    BY <1>2, MiningAssumption
  <2>. QED
    BY <1>2, <2>1 DEF YieldPerHash
<1>. QED
  BY <1>1, <1>2

\* Writing a boundary after all rows, with everything before it settled or now
\* listed as skipped, settles everything up to it.
LEMMA InsertSettles ==
  ASSUME yield \in [Boundaries -> Int], NEW b \in Boundaries, tick.live \in Nat,
         \A d \in Rows : d <= b,
         \A a \in Boundaries : a < b => Settled(a) \/ a \in skipped',
         yield' = Inserted(b), skipped \subseteq skipped'
  PROVE  /\ yield' \in [Boundaries -> Int]
         /\ Rows' \subseteq Rows \cup {b}
         /\ \A a \in Boundaries : a <= b => Settled(a)'
         /\ \A a \in Boundaries, d \in Rows' : a < d => Settled(a)'
<1>1. YieldPerHash(tick.live) \in Nat
  BY YieldIsNat
<1>2. /\ yield' \in [Boundaries -> Int]
      /\ \A a \in Boundaries : a # b => yield'[a] = yield[a]
      /\ yield'[b] # NoRow
      /\ yield[b] >= 0 => yield'[b] = yield[b]
  BY <1>1 DEF Inserted, NoRow, CoinOff
<1>3. Rows \subseteq Rows' /\ Rows' \subseteq Rows \cup {b}
  BY <1>2 DEF Rows
<1>4. ASSUME NEW a \in Boundaries, a <= b PROVE Settled(a)'
  <2>1. CASE a = b
    BY <1>2, <2>1 DEF Settled
  <2>2. CASE a < b
    <3>1. Settled(a) \/ a \in skipped'
      BY <2>2
    <3>2. yield'[a] = yield[a]
      BY <1>2, <2>2, BoundaryRange
    <3>3. \A d \in Rows' : d < a => d \in Rows
      BY <1>3, <2>2, BoundaryRange
    <3>. QED
      BY <3>1, <3>2, <3>3 DEF Settled
  <2>. QED
    BY <1>4, <2>1, <2>2, BoundaryRange
<1>5. ASSUME NEW a \in Boundaries, NEW d \in Rows', a < d PROVE Settled(a)'
  <2>1. d \in Boundaries /\ d <= b
    BY <1>3, BoundaryRange
  <2>. QED
    BY <1>4, <1>5, <2>1, BoundaryRange
<1>. QED
  BY <1>2, <1>3, <1>4, <1>5

\* Purging the rows before a moment cuts off a prefix.
LEMMA PurgeSettles ==
  ASSUME yield \in [Boundaries -> Int], NEW cut \in Int,
         yield' = [b \in Boundaries |-> IF b < cut THEN NoRow ELSE yield[b]],
         skipped' = skipped
  PROVE  /\ yield' \in [Boundaries -> Int] /\ Rows' \subseteq Rows
         /\ \A b \in Boundaries : Settled(b) => Settled(b)'
<1>1. /\ yield' \in [Boundaries -> Int]
      /\ Rows' = {b \in Rows : ~(b < cut)}
  BY BoundaryRange DEF Rows, NoRow
<1>2. ASSUME NEW b \in Boundaries, Settled(b) PROVE Settled(b)'
  <2>1. CASE b < cut
    <3>1. ~\E c \in Rows' : c < b
      BY <1>1, <2>1, BoundaryRange
    <3>. QED
      BY <3>1 DEF Settled
  <2>2. CASE ~(b < cut)
    <3>1. yield'[b] = yield[b]
      BY <2>2
    <3>. QED
      BY <1>1, <1>2, <3>1 DEF Settled
  <2>. QED
    BY <2>1, <2>2
<1>. QED
  BY <1>1, <1>2

(***************************************************************************)
(* The steps.                                                              *)
(***************************************************************************)
YieldKept == /\ yield' = yield /\ skipped' = skipped
             /\ checkpoint' = checkpoint /\ tick' = tick

\* The clock may move on, everything else about the tick stays.
LEMMA TimePasses ==
  ASSUME YieldInv, YieldKept, now' = now \/ (now < MaxTime /\ now' = now + 1)
  PROVE  YieldInv'
<1>1. now \in Nat /\ now' \in Times
  BY MiningAssumption DEF YieldInv, Times
<1>2. /\ LastCompletedGrid(now) \in Nat /\ LastCompletedGrid(now') \in Nat
      /\ LastCompletedGrid(now) <= LastCompletedGrid(now')
  <2>1. now \in Int /\ now' \in Int /\ now <= now'
    BY <1>1 DEF Times
  <2>. QED
    BY <1>1, <2>1, GridPoints, GridMonotone DEF Times
<1>3. Rows' = Rows /\ \A b \in Boundaries : Settled(b)' = Settled(b)
  BY DEF YieldKept, Rows, Settled
<1>4. TickInv'
  BY <1>2, <1>3 DEF YieldInv, TickInv, YieldKept
<1>5. CheckpointInv'
  BY <1>3 DEF YieldInv, CheckpointInv, YieldKept
<1>6. \A d \in Rows' : d <= LastCompletedGrid(now')
  BY <1>2, <1>3, BoundaryRange DEF YieldInv
<1>. QED
  BY <1>1, <1>3, <1>4, <1>5, <1>6 DEF YieldInv, YieldKept

\* A tick starts from the checkpoint, or a new process from the newest row, or
\* from nothing when it could not read it.
LEMMA BeginStep ==
  ASSUME YieldInv, TickBegin
  PROVE  YieldInv'
<1>. PICK open : open = LastCompletedGrid(now)
  OBVIOUS
<1>1. open \in Nat /\ open \in Boundaries /\ now \in Times
  <2>1. now \in Nat /\ now <= MaxTime
    BY MiningAssumption DEF YieldInv, Times
  <2>2. /\ LastCompletedGrid(now) \in Nat /\ LastCompletedGrid(now) <= now
        /\ LastCompletedGrid(now) % Grid = 0
    BY <2>1, GridPoints
  <2>3. LastCompletedGrid(now) > 0
    BY DEF TickBegin
  <2>. QED
    BY <2>1, <2>2, <2>3, MiningAssumption DEF YieldInv, Boundaries, Times
<1>2. /\ yield' = yield /\ skipped' = skipped /\ now' = now
      /\ checkpoint' = checkpoint \/ checkpoint' = Hydrate
      /\ tick' = [coin |-> coinActive, live |-> Live,
                  cap |-> IF checkpoint' = 0 THEN open
                          ELSE Min({open, checkpoint' + CatchUp * Grid})]
  BY DEF TickBegin, yieldVars
<1>3. Rows' = Rows /\ \A b \in Boundaries : Settled(b)' = Settled(b)
  BY <1>2 DEF Rows, Settled
<1>4. /\ checkpoint' \in Boundaries \cup {0}
      /\ checkpoint' \in Boundaries =>
           /\ \A b \in Boundaries : b <= checkpoint' => Settled(b)
           /\ \A d \in Rows : d <= checkpoint' + Grid
  <2>1. CASE checkpoint' = checkpoint
    BY <2>1 DEF YieldInv, CheckpointInv
  <2>2. CASE checkpoint' = Hydrate /\ Rows = {}
    BY <2>2 DEF Hydrate, YieldInv, CheckpointInv
  <2>3. CASE checkpoint' = Hydrate /\ Rows # {}
    <3>1. checkpoint' \in Rows /\ \A d \in Rows : d <= checkpoint'
      BY <2>3, Greatest, BoundaryRange DEF Hydrate
    <3>2. ASSUME NEW b \in Boundaries, b <= checkpoint' PROVE Settled(b)
      <4>1. CASE b < checkpoint'
        BY <3>1, <4>1 DEF YieldInv
      <4>2. CASE b = checkpoint'
        BY <3>1, <4>2 DEF Settled, Rows, NoRow
      <4>. QED
        BY <3>1, <3>2, <4>1, <4>2, BoundaryRange
    <3>3. checkpoint' \in Boundaries /\ checkpoint' \in Int /\ Rows \subseteq Int
      BY <3>1, BoundaryRange
    <3>4. ASSUME NEW d \in Rows PROVE d <= checkpoint' + Grid
      <4>1. PICK newest : newest = checkpoint'
        OBVIOUS
      <4>2. newest \in Int /\ d \in Int /\ d <= newest
        BY <3>1, <3>3, <4>1
      <4>3. d <= newest + Grid
        BY <4>2, MiningAssumption
      <4>. QED
        BY <4>1, <4>3
    <3>. QED
      BY <3>2, <3>3, <3>4
  <2>. QED
    BY <1>2, <2>1, <2>2, <2>3
<1>5. Live \in Nat
  <2>1. IsFiniteSet({u \in Users : coinActive /\ powered[u] /\ mounted[u] /\ ~blocked[u]})
    BY MiningAssumption, FS_Subset
  <2>. QED
    BY <2>1, FS_CardinalityType DEF Live
<1>6. /\ tick'.live = Live /\ tick'.cap \in Int /\ tick'.cap <= open
      /\ checkpoint' = 0 => tick'.cap = open
  <2>1. checkpoint' + CatchUp * Grid \in Int
    <3>1. checkpoint' \in Int
      BY <1>4, BoundaryRange
    <3>2. CatchUp * Grid \in Int
      BY MiningAssumption
    <3>. QED
      BY <3>1, <3>2
  <2>2. ASSUME NEW far \in Int
        PROVE  Min({open, far}) \in Int /\ Min({open, far}) <= open
    <3>1. open \in Int
      BY <1>1
    <3>2. Min({open, far}) \in {open, far} /\ Min({open, far}) <= open
      BY <2>2, <3>1, MinOfTwo, Zenon
    <3>. QED
      BY <2>2, <3>1, <3>2
  <2>. QED
    BY <1>1, <1>2, <2>1, <2>2
<1>7. \A d \in Rows : d <= open
  BY DEF YieldInv
<1>8. TickInv'
  BY <1>1, <1>2, <1>3, <1>5, <1>6, <1>7 DEF TickInv
<1>9. CheckpointInv'
  BY <1>3, <1>4 DEF CheckpointInv
<1>. QED
  BY <1>1, <1>2, <1>3, <1>4, <1>8, <1>9 DEF YieldInv

\* The boundary a tick is about to write comes after all rows, and everything
\* before it is settled or will be listed as skipped.
LEMMA PendingBoundary ==
  ASSUME YieldInv, Pending
  PROVE  LET b == NextBoundary(checkpoint, tick.cap) IN
         /\ tick # IdleTick /\ tick.live \in Nat
         /\ b \in Boundaries /\ b <= tick.cap
         /\ checkpoint # 0 => b = checkpoint + Grid
         /\ \A d \in Rows : d <= b
         /\ \A a \in Boundaries : a < b => Settled(a) \/ a \in Skips(b)
<1> DEFINE b == NextBoundary(checkpoint, tick.cap)
<1>1. /\ tick # IdleTick /\ tick.live \in Nat /\ checkpoint \in Boundaries \cup {0}
      /\ tick.cap \in Int /\ tick.cap <= LastCompletedGrid(now) /\ b <= tick.cap
  BY DEF YieldInv, TickInv, Pending
<1>2. LastCompletedGrid(now) \in Nat /\ LastCompletedGrid(now) <= MaxTime
  <2>1. now \in Nat /\ now <= MaxTime /\ MaxTime \in Nat
    BY MiningAssumption DEF YieldInv, Times
  <2>. QED
    BY <2>1, GridPoints
<1>3. CASE checkpoint = 0
  <2>1. b = tick.cap /\ tick.cap \in Boundaries /\ \A d \in Rows : d <= tick.cap
    BY <1>1, <1>3 DEF NextBoundary, YieldInv, TickInv
  <2>2. ASSUME NEW a \in Boundaries, a < b PROVE Settled(a) \/ a \in Skips(b)
    <3>1. CASE Rows = {}
      BY <3>1 DEF Settled
    <3>2. CASE Rows # {}
      <4>. PICK m : m = Max(Rows)
        OBVIOUS
      <4>1. m \in Rows /\ m \in Int /\ a \in Int
        BY <3>2, Greatest, BoundaryRange
      <4>2. CASE a < m
        BY <4>1, <4>2 DEF YieldInv
      <4>3. CASE a = m
        BY <4>1, <4>3 DEF Settled, Rows, NoRow
      <4>4. CASE m < a
        BY <1>3, <2>2, <3>2, <4>4 DEF Skips
      <4>. QED
        BY <4>1, <4>2, <4>3, <4>4
    <3>. QED
      BY <3>1, <3>2
  <2>. QED
    BY <1>1, <1>3, <2>1, <2>2
<1>4. CASE checkpoint \in Boundaries
  <2>1. checkpoint # 0 /\ b = checkpoint + Grid /\ checkpoint \in Int
    BY <1>4, BoundaryRange DEF NextBoundary
  <2>2. b \in Boundaries
    <3>1. checkpoint + Grid <= MaxTime
      BY <1>1, <1>2, <2>1, MiningAssumption
    <3>. QED
      BY <1>4, <2>1, <3>1, NextOnGrid
  <2>3. \A d \in Rows : d <= b
    BY <1>4, <2>1 DEF YieldInv, CheckpointInv
  <2>4. ASSUME NEW a \in Boundaries, a < b PROVE Settled(a)
    <3>1. a <= checkpoint
      <4>1. /\ a = Grid * (a \div Grid) /\ a \div Grid \in Int
            /\ checkpoint = Grid * (checkpoint \div Grid) /\ checkpoint \div Grid \in Int
        BY <1>4, MiningAssumption DEF Boundaries, Times
      <4>2. a \div Grid < (checkpoint \div Grid) + 1
        <5>1. SUFFICES ASSUME (checkpoint \div Grid) + 1 <= a \div Grid PROVE FALSE
          BY <4>1
        <5>2. Grid * ((checkpoint \div Grid) + 1) <= Grid * (a \div Grid)
          BY <4>1, <5>1, MiningAssumption
        <5>3. Grid * ((checkpoint \div Grid) + 1) = checkpoint + Grid
          BY <4>1, MiningAssumption
        <5>. QED
          BY <2>1, <2>4, <4>1, <5>2, <5>3, BoundaryRange, MiningAssumption
      <4>3. a \div Grid <= checkpoint \div Grid
        BY <4>1, <4>2
      <4>4. Grid * (a \div Grid) <= Grid * (checkpoint \div Grid)
        BY <4>1, <4>3, MiningAssumption
      <4>. QED
        BY <4>1, <4>4
    <3>. QED
      BY <1>4, <3>1 DEF YieldInv, CheckpointInv
  <2>. QED
    BY <1>1, <2>1, <2>2, <2>3, <2>4
<1>. QED
  BY <1>1, <1>3, <1>4

\* What the insert of a tick leaves, recorded in the checkpoint or not.
LEMMA WriteStep ==
  ASSUME YieldInv, Pending, NEW b, b = NextBoundary(checkpoint, tick.cap),
         yield' = Inserted(b), skipped' = skipped \cup Skips(b)
  PROVE  /\ b \in Boundaries /\ tick # IdleTick /\ tick.live \in Nat
         /\ b <= LastCompletedGrid(now)
         /\ checkpoint # 0 => b = checkpoint + Grid
         /\ yield' \in [Boundaries -> Int]
         /\ \A d \in Rows' : d <= b
         /\ \A a \in Boundaries : a <= b => Settled(a)'
         /\ \A a \in Boundaries, d \in Rows' : a < d => Settled(a)'
<1>1. /\ tick # IdleTick /\ tick.live \in Nat
      /\ b \in Boundaries /\ b <= tick.cap
      /\ checkpoint # 0 => b = checkpoint + Grid
      /\ \A d \in Rows : d <= b
      /\ \A a \in Boundaries : a < b => Settled(a) \/ a \in Skips(b)
  BY PendingBoundary
<1>2. b <= LastCompletedGrid(now)
  <2>1. now \in Nat
    BY MiningAssumption DEF YieldInv, Times
  <2>2. LastCompletedGrid(now) \in Int
    BY <2>1, GridPoints
  <2>3. tick.cap \in Int /\ tick.cap <= LastCompletedGrid(now)
    BY <1>1 DEF YieldInv, TickInv
  <2>. QED
    BY <1>1, <2>2, <2>3, BoundaryRange
<1>3. yield \in [Boundaries -> Int] /\ skipped \subseteq skipped'
  BY DEF YieldInv
<1>4. \A a \in Boundaries : a < b => Settled(a) \/ a \in skipped'
  BY <1>1
<1>5. /\ yield' \in [Boundaries -> Int] /\ Rows' \subseteq Rows \cup {b}
      /\ \A a \in Boundaries : a <= b => Settled(a)'
      /\ \A a \in Boundaries, d \in Rows' : a < d => Settled(a)'
  BY <1>1, <1>3, <1>4, InsertSettles
<1>6. \A d \in Rows' : d <= b
  BY <1>1, <1>5, BoundaryRange
<1>. QED
  BY <1>1, <1>2, <1>5, <1>6

LEMMA BoundaryStep ==
  ASSUME YieldInv, TickBoundary
  PROVE  YieldInv'
<1>. PICK b : b = NextBoundary(checkpoint, tick.cap)
  OBVIOUS
<1>1. /\ Pending /\ yield' = Inserted(b) /\ skipped' = skipped \cup Skips(b)
      /\ checkpoint' = b /\ now' = now /\ tick' = tick
  BY DEF TickBoundary
<1>2. /\ b \in Boundaries /\ tick # IdleTick /\ tick.live \in Nat
      /\ b <= LastCompletedGrid(now)
      /\ yield' \in [Boundaries -> Int]
      /\ \A d \in Rows' : d <= b
      /\ \A a \in Boundaries : a <= b => Settled(a)'
      /\ \A a \in Boundaries, d \in Rows' : a < d => Settled(a)'
  BY <1>1, WriteStep
<1>3. b \in Int /\ b > 0 /\ Rows' \subseteq Int
  BY <1>2, BoundaryRange, BoundaryRange' DEF Rows
<1>4. LastCompletedGrid(now) \in Int
  <2>1. now \in Nat
    BY MiningAssumption DEF YieldInv, Times
  <2>. QED
    BY <2>1, GridPoints
<1>5. \A d \in Rows' : d <= b + Grid /\ d <= LastCompletedGrid(now')
  BY <1>1, <1>2, <1>3, <1>4, MiningAssumption
<1>6. TickInv'
  BY <1>1, <1>2, <1>3 DEF YieldInv, TickInv
<1>7. CheckpointInv'
  BY <1>1, <1>2, <1>5 DEF CheckpointInv
<1>. QED
  BY <1>1, <1>2, <1>5, <1>6, <1>7 DEF YieldInv

\* A cancelled tick may have written its boundary without recording it.
LEMMA TimeoutStep ==
  ASSUME YieldInv, TickTimeout
  PROVE  YieldInv'
<1>. PICK b : b = NextBoundary(checkpoint, tick.cap)
  OBVIOUS
<1>1. tick' = IdleTick /\ now' = now /\ checkpoint' = checkpoint
  BY DEF TickTimeout
<1>2. TickInv'
  BY <1>1 DEF TickInv
<1>3. CASE UNCHANGED <<yield, skipped>>
  <2>1. Rows' = Rows /\ \A a \in Boundaries : Settled(a)' = Settled(a)
    BY <1>3 DEF Rows, Settled
  <2>2. CheckpointInv'
    BY <1>1, <2>1 DEF YieldInv, CheckpointInv
  <2>. QED
    BY <1>1, <1>2, <1>3, <2>1, <2>2 DEF YieldInv
<1>4. CASE Pending /\ yield' = Inserted(b) /\ skipped' = skipped \cup Skips(b)
  <2>1. /\ b \in Boundaries /\ b <= LastCompletedGrid(now)
        /\ checkpoint # 0 => b = checkpoint + Grid
        /\ yield' \in [Boundaries -> Int]
        /\ \A d \in Rows' : d <= b
        /\ \A a \in Boundaries : a <= b => Settled(a)'
        /\ \A a \in Boundaries, d \in Rows' : a < d => Settled(a)'
    BY <1>4, WriteStep
  <2>2. LastCompletedGrid(now) \in Int
    <3>1. now \in Nat
      BY MiningAssumption DEF YieldInv, Times
    <3>. QED
      BY <3>1, GridPoints
  <2>3. b \in Int /\ Rows' \subseteq Int
    BY <2>1, BoundaryRange DEF Rows
  <2>4. \A d \in Rows' : d <= LastCompletedGrid(now')
    BY <1>1, <2>1, <2>2, <2>3
  <2>5. CheckpointInv'
    <3>1. ASSUME checkpoint \in Boundaries
          PROVE  /\ \A a \in Boundaries : a <= checkpoint => Settled(a)'
                 /\ \A d \in Rows' : d <= checkpoint + Grid
      <4>1. checkpoint \in Int /\ checkpoint > 0 /\ b = checkpoint + Grid
        BY <2>1, <3>1, BoundaryRange
      <4>. QED
        BY <2>1, <2>3, <4>1, BoundaryRange, MiningAssumption
    <3>. QED
      BY <1>1, <3>1 DEF CheckpointInv
  <2>. QED
    BY <1>1, <1>2, <2>1, <2>4, <2>5 DEF YieldInv
<1>. QED
  BY <1>3, <1>4 DEF TickTimeout

\* The end of a tick purges old rows, a crash forgets the checkpoint.
LEMMA EndStep ==
  ASSUME YieldInv, TickEnd
  PROVE  YieldInv'
<1>1. /\ now' = now /\ tick' = IdleTick /\ checkpoint' = checkpoint /\ skipped' = skipped
      /\ yield' = [b \in Boundaries |-> IF b < now - MaxWindow THEN NoRow ELSE yield[b]]
  BY DEF TickEnd
<1>2. /\ yield' \in [Boundaries -> Int] /\ Rows' \subseteq Rows
      /\ \A b \in Boundaries : Settled(b) => Settled(b)'
  <2>1. now - MaxWindow \in Int
    BY MiningAssumption DEF YieldInv, Times
  <2>2. yield \in [Boundaries -> Int]
    BY DEF YieldInv
  <2>. QED
    BY <1>1, <2>1, <2>2, PurgeSettles
<1>3. TickInv'
  BY <1>1 DEF TickInv
<1>4. CheckpointInv'
  BY <1>1, <1>2 DEF YieldInv, CheckpointInv
<1>. QED
  BY <1>1, <1>2, <1>3, <1>4 DEF YieldInv

LEMMA CrashStep ==
  ASSUME YieldInv, Crash
  PROVE  YieldInv'
<1>1. /\ now' = now /\ yield' = yield /\ skipped' = skipped
      /\ tick' = IdleTick /\ checkpoint' = 0
  BY DEF Crash
<1>2. Rows' = Rows /\ \A b \in Boundaries : Settled(b)' = Settled(b)
  BY <1>1 DEF Rows, Settled
<1>3. 0 \notin Boundaries
  BY BoundaryRange
<1>. QED
  BY <1>1, <1>2, <1>3 DEF YieldInv, TickInv, CheckpointInv

LEMMA YieldNext == YieldInv /\ [Next]_vars => YieldInv'
<1> SUFFICES ASSUME YieldInv, [Next]_vars PROVE YieldInv'
  OBVIOUS
<1> USE DEF YieldKept, yieldVars
<1>1. ASSUME NEW p \in Passes,
             \/ \E u \in Miners : Acquire(p, u)
             \/ ReadNothing(p) \/ ReadState(p) \/ ReadSetup(p)
             \/ Refuse(p) \/ Commit(p) \/ Release(p)
      PROVE  YieldInv'
  <2>1. YieldKept /\ now' = now
    BY <1>1 DEF Acquire, ReadNothing, ReadState, ReadSetup, Refuse, Commit, Release
  <2>. QED
    BY <2>1, TimePasses
<1>2. ASSUME NEW u \in Users, LockExpires(u) \/ \E week \in Weeks : PayWeek(u, week)
      PROVE  YieldInv'
  <2>1. YieldKept /\ now' = now
    BY <1>2 DEF LockExpires, PayWeek
  <2>. QED
    BY <2>1, TimePasses
<1>3. ASSUME NEW u \in Miners,
             \/ \E t \in Stamps : Bump(u, t) \/ CheckIn(u, t)
             \/ LeaseSweep(u) \/ PowerSwitch(u) \/ SetBlocked(u)
      PROVE  YieldInv'
  <2>1. YieldKept /\ now' = now
    BY <1>3 DEF Bump, CheckIn, LeaseSweep, PowerSwitch, SetBlocked
  <2>. QED
    BY <2>1, TimePasses
<1>4. CASE SwitchCoin \/ Advance \/ UNCHANGED vars
  <2>1. YieldKept /\ (now' = now \/ (now < MaxTime /\ now' = now + 1))
    BY <1>4 DEF SwitchCoin, Advance, vars
  <2>. QED
    BY <2>1, TimePasses
<1>5. CASE Crash \/ TickBegin \/ TickBoundary \/ TickTimeout \/ TickEnd
  BY <1>5, CrashStep, BeginStep, BoundaryStep, TimeoutStep, EndStep
<1>. QED
  BY <1>1, <1>2, <1>3, <1>4, <1>5 DEF Next

\* Between two rows of mining_yield_history no boundary is missing, but those that a
\* process without a checkpoint went past.
THEOREM NoBoundarySkipped == Spec => []NoYieldGap
<1>1. YieldInv => NoYieldGap
  BY DEF YieldInv, Settled, NoYieldGap
<1>. QED
  BY <1>1, YieldInit, YieldNext, PTL DEF Spec

(***************************************************************************)
(* Types. A rate is never negative, because a row of the yield history is  *)
(* not: so a window earns a natural number, and a row that is kept more    *)
(* than nothing.                                                           *)
(***************************************************************************)
YieldType == yield \in [Boundaries -> {NoRow, CoinOff} \cup Nat]

LEMMA Least ==
  ASSUME NEW S, S \subseteq Boundaries, S # {}
  PROVE  Min(S) \in S
<1>1. S \subseteq Nat
  BY DEF Boundaries, Times
<1>2. \E m \in S : \A n \in S : <<n, m>> \notin OpToRel(<, Nat)
  BY <1>1, NatLessThanWellFounded, WFMin, Zenon
<1>3. PICK m \in S : \A n \in S : ~(n < m)
  BY <1>1, <1>2 DEF OpToRel
<1>4. \A n \in S : m <= n
  BY <1>1, <1>3
<1>. QED
  BY <1>4 DEF Min

LEMMA RateIsNat ==
  ASSUME YieldType, NEW t, NEW last
  PROVE  RateAt(t, HistoryFrom(last)) \in Nat
<1>1. PICK hist : hist = HistoryFrom(last)
  OBVIOUS
<1>2. hist \subseteq Boundaries /\ \A b \in hist : yield[b] \in Nat
  BY <1>1 DEF HistoryFrom, YieldType, NoRow, CoinOff
<1>3. PICK past : past = {b \in hist : b <= t}
  OBVIOUS
<1>4. past # {} => Max(past) \in hist
  BY <1>2, <1>3, Greatest
<1>5. hist # {} => Min(hist) \in hist
  BY <1>2, Least
<1>. QED
  BY <1>1, <1>2, <1>3, <1>4, <1>5 DEF RateAt

LEMMA FallbackIsNat == ASSUME network \in Nat PROVE FallbackYield \in Nat
<1>1. PICK n \in Nat \ {0} : FallbackYield = Reward \div n
  BY DEF FallbackYield
<1>. QED
  BY <1>1, MiningAssumption

LEMMA CutsFinite == ASSUME NEW s \in Times, NEW e \in Times
                    PROVE  Cuts(s, e) \subseteq Times /\ IsFiniteSet(CreditWindows(s, e))
<1>1. Cuts(s, e) \subseteq Times
  BY MiningAssumption DEF Cuts, Times
<1>2. IsFiniteSet(Times)
  BY FS_Interval, MiningAssumption DEF Times
<1>3. IsFiniteSet(Cuts(s, e))
  BY <1>1, <1>2, FS_Subset
<1>4. IsFiniteSet(Cuts(s, e) \X Cuts(s, e))
  BY <1>3, FS_Product
<1>5. CreditWindows(s, e) \subseteq Cuts(s, e) \X Cuts(s, e)
  BY DEF CreditWindows
<1>. QED
  BY <1>1, <1>4, <1>5, FS_Subset

LEMMA RowsType ==
  ASSUME YieldType, NEW s \in Times, NEW e \in Times, NEW fallback \in Nat
  PROVE  RowsFor(s, e, fallback) \subseteq Row /\ IsFiniteSet(RowsFor(s, e, fallback))
<1>. DEFINE hist == HistoryFrom(s)
            useHistory == \E w \in CreditWindows(s, e) : RateAt(w[1], hist) > 0
            Rate(w) == IF useHistory THEN RateAt(w[1], hist) ELSE fallback
            RowOf(w) == [start |-> w[1], end |-> w[2], amount |-> Rate(w) * (w[2] - w[1])]
            all == {RowOf(w) : w \in CreditWindows(s, e)}
<1>1. RowsFor(s, e, fallback) = {r \in all : r.amount > 0}
  BY DEF RowsFor, WindowRows
<1>2. \A w : Rate(w) \in Nat
  BY RateIsNat
<1>. HIDE DEF Rate
<1>3. ASSUME NEW w \in CreditWindows(s, e) PROVE RowOf(w) \in [start : Times, end : Times, amount : Nat]
  <2>1. w[1] \in Times /\ w[2] \in Times /\ w[1] < w[2]
    BY CutsFinite DEF CreditWindows
  <2>2. w[2] - w[1] \in Nat
    BY <2>1, MiningAssumption DEF Times
  <2>3. Rate(w) * (w[2] - w[1]) \in Nat
    BY <1>2, <2>2
  <2>. QED
    BY <2>1, <2>3
<1>. HIDE DEF RowOf
<1>4. IsFiniteSet(all)
  <2>1. PICK f : f = [w \in CreditWindows(s, e) |-> RowOf(w)]
    OBVIOUS
  <2>2. f \in Surjection(CreditWindows(s, e), all)
    BY <2>1 DEF Surjection
  <2>. QED
    BY <2>2, CutsFinite, FS_Surjection
<1>5. IsFiniteSet(RowsFor(s, e, fallback))
  BY <1>1, <1>4, FS_Subset
<1>6. RowsFor(s, e, fallback) \subseteq Row
  BY <1>1, <1>3 DEF Row
<1>. QED
  BY <1>5, <1>6

\* What a set of rows amounts to is a sum, in whatever order it is taken.
AmountFold(it, rows) ==
  it = [T \in SUBSET rows |-> IF T = {} THEN 0 ELSE Chosen(T).amount + it[T \ {Chosen(T)}]]

LEMMA AmountIsSum ==
  ASSUME NEW rows, NEW f, \A r \in rows : f[r] = r.amount
  PROVE  AmountOf(rows) = SumOver(f, rows)
<1>1. AmountOf(rows) = (CHOOSE it : AmountFold(it, rows))[rows]
  BY DEF AmountOf, MapThenSumSet, MapThenFoldSet, AmountFold, Chosen
<1>2. ASSUME NEW it PROVE Steps(it, f, rows) <=> AmountFold(it, rows)
  <2>1. \A T \in SUBSET rows : T # {} => f[Chosen(T)] = Chosen(T).amount
    BY ChosenIn
  <2>2. [T \in SUBSET rows |-> IF T = {} THEN 0 ELSE f[Chosen(T)] + it[T \ {Chosen(T)}]]
        = [T \in SUBSET rows |-> IF T = {} THEN 0 ELSE Chosen(T).amount + it[T \ {Chosen(T)}]]
    BY <2>1
  <2>. QED
    BY <2>2 DEF Steps, AmountFold
<1>3. (CHOOSE it : Steps(it, f, rows)) = (CHOOSE it : AmountFold(it, rows))
  BY <1>2, Zenon
<1>. QED
  BY <1>1, <1>3, SumIsFold DEF Fold

LEMMA AmountIsNat ==
  ASSUME NEW rows, rows \subseteq Row, IsFiniteSet(rows)
  PROVE  AmountOf(rows) \in Nat
<1>1. PICK f : f = [r \in rows |-> r.amount]
  OBVIOUS
<1>2. \A r \in rows : f[r] = r.amount /\ f[r] \in Nat
  BY <1>1 DEF Row
<1>3. AmountOf(rows) = SumOver(f, rows)
  BY <1>2, AmountIsSum
<1>. QED
  BY <1>2, <1>3, SumNat

\* Rows that were not listed before add what they amount to.
LEMMA AmountOfBoth ==
  ASSUME NEW old, old \subseteq Row, IsFiniteSet(old),
         NEW rows, rows \subseteq Row, IsFiniteSet(rows), old \cap rows = {}
  PROVE  AmountOf(old \cup rows) = AmountOf(old) + AmountOf(rows)
<1>1. PICK f : f = [r \in old \cup rows |-> r.amount]
  OBVIOUS
<1>2. \A r \in old \cup rows : f[r] = r.amount /\ f[r] \in Int
  BY <1>1 DEF Row
<1>3. /\ AmountOf(old \cup rows) = SumOver(f, old \cup rows)
      /\ AmountOf(old) = SumOver(f, old) /\ AmountOf(rows) = SumOver(f, rows)
  BY <1>2, AmountIsSum
<1>4. Ints(f, old \cup rows)
  BY <1>2 DEF Ints
<1>. QED
  BY <1>3, <1>4, SumUnion

(***************************************************************************)
(* The type invariant, in four parts, next to the invariants above: they   *)
(* bound a pass's cap by the clock and put a tick's boundary on the grid.  *)
(***************************************************************************)
WorldType ==
  /\ now \in Times /\ cursor \in [Users -> Times]
  /\ blocked \in [Users -> BOOLEAN] /\ checkin \in [Users -> Times]
  /\ mounted \in [Users -> BOOLEAN] /\ powered \in [Users -> BOOLEAN]
  /\ coinActive \in BOOLEAN
  /\ reopened \in [Users -> [Times -> Nat]] /\ events \in 0..MaxEvents

TickType ==
  /\ YieldType /\ network \in Nat
  /\ checkpoint \in Boundaries \cup {0} /\ hydrated \in BOOLEAN
  /\ skipped \subseteq Boundaries
  /\ tick \in [coin : BOOLEAN, live : Nat, cap : Times]

PassType ==
  /\ lock \in [Users -> Passes \cup {NoPass}] /\ pass \in [Passes -> Pass]
  /\ \A p \in Passes : IsFiniteSet(pass[p].rows)

CreditType ==
  /\ history \in [Users -> SUBSET Row] /\ ledger \in [Users -> SUBSET (Times \X Times)]
  /\ balance \in [Users -> Nat]
  /\ accrual \in [Users -> [Weeks -> Due]] /\ payout \in [Users -> [Weeks -> Nat]]
  /\ \A u \in Users : IsFiniteSet(history[u])

TypeInv == WorldType /\ TickType /\ PassType /\ CreditType

Base == IInv /\ YieldInv

LEMMA TimesAreNat == /\ Times \subseteq Nat /\ \A t \in Times : t <= MaxTime
                     /\ \A t \in Nat : t <= MaxTime => t \in Times
  BY MiningAssumption DEF Times

LEMMA TypeInit == Init => TypeInv
<1>. SUFFICES ASSUME Init PROVE TypeInv
  OBVIOUS
<1>. USE MiningAssumption
<1>1. 1 \in Times /\ 0 \in Times
  BY TimesAreNat
<1>2. WorldType
  BY <1>1 DEF Init, WorldType
<1>3. TickType
  BY <1>1 DEF Init, TickType, YieldType, IdleTick, NoRow
<1>4. IdlePass \in Pass /\ IdlePass.rows = {}
  BY <1>1 DEF IdlePass, Pass
<1>5. PassType
  BY <1>4, FS_EmptySet DEF Init, PassType
<1>6. [share |-> 0, paid |-> FALSE] \in Due
  BY DEF Due
<1>7. CreditType
  BY <1>6, FS_EmptySet DEF Init, CreditType
<1>. QED
  BY <1>2, <1>3, <1>5, <1>7 DEF TypeInv

\* A pass ends within the clock, in a week that is counted.
LEMMA PassEnd ==
  ASSUME NEW c \in Times, NEW last \in Times, CreditCap(c) > last
  PROVE  LastWrite(c, last) \in Times
<1>1. c \in Nat /\ last \in Nat /\ c <= MaxTime
  BY TimesAreNat
<1>2. CreditCap(c) <= c
  BY <1>1, GridPoints DEF CreditCap
<1>3. LastWrite(c, last) \in Int /\ last < LastWrite(c, last) /\ LastWrite(c, last) <= CreditCap(c)
  BY <1>1, LastWriteRange
<1>4. LastWrite(c, last) \in Nat /\ LastWrite(c, last) <= MaxTime
  <2>1. CreditCap(c) \in Int
    BY <1>1, GridPoints DEF CreditCap
  <2>. QED
    BY <1>1, <1>2, <1>3, <2>1, MiningAssumption
<1>. QED
  BY <1>4, TimesAreNat

LEMMA WeekCounted == ASSUME NEW t \in Times PROVE Week(t) \in Weeks
<1>1. t \in Nat /\ t <= MaxTime /\ MaxTime \in Nat
  BY TimesAreNat, MiningAssumption
<1>2. t \div WeekLength \in Nat /\ MaxTime \div WeekLength \in Nat
      /\ t \div WeekLength <= MaxTime \div WeekLength
  BY <1>1, MiningAssumption
<1>. QED
  BY <1>2 DEF Week, Weeks

LEMMA IdleType == IdlePass \in Pass /\ IdlePass.rows = {}
  BY TimesAreNat, MiningAssumption DEF Pass, IdlePass

LEMMA FinishedType == ASSUME NEW r \in Pass PROVE Finished(r) \in Pass /\ Finished(r).rows = {}
<1>1. r.user \in Users \cup {NoUser}
  BY DEF Pass
<1>2. PICK u : u = r.user
  OBVIOUS
<1>3. Finished(r) = [IdlePass EXCEPT !.phase = "done", !.user = u]
  BY <1>2 DEF Finished
<1>. QED
  BY <1>1, <1>2, <1>3, IdleType DEF Pass, IdlePass

\* What a pass has read and computed.
LEMMA PassTypeStep == ASSUME Base, TypeInv, Next PROVE PassType'
<1>0. /\ pass \in [Passes -> Pass] /\ lock \in [Users -> Passes \cup {NoPass}]
      /\ \A p \in Passes : IsFiniteSet(pass[p].rows)
      /\ \A p \in Passes : PassInv(pass[p])
  BY DEF TypeInv, PassType, Base, IInv
<1>1. ASSUME NEW p \in Passes, NEW r \in Pass, IsFiniteSet(r.rows),
             pass' = [pass EXCEPT ![p] = r], lock' \in [Users -> Passes \cup {NoPass}]
      PROVE  PassType'
  BY <1>0, <1>1 DEF PassType
<1>2. ASSUME UNCHANGED <<pass, lock>> PROVE PassType'
  BY <1>0, <1>2 DEF PassType
<1>3. ASSUME NEW p \in Passes, NEW u \in Miners, Acquire(p, u) PROVE PassType'
  <2>1. PICK r : r = [IdlePass EXCEPT !.phase = "started", !.user = u, !.clock = now]
    OBVIOUS
  <2>2. r \in Pass /\ r.rows = {}
    <3>1. now \in Times /\ u \in Users
      BY MiningAssumption DEF TypeInv, WorldType
    <3>. QED
      BY <2>1, <3>1, IdleType DEF IdlePass, Pass
  <2>3. lock' \in [Users -> Passes \cup {NoPass}] /\ pass' = [pass EXCEPT ![p] = r]
    BY <1>0, <1>3, <2>1 DEF Acquire
  <2>. QED
    BY <1>1, <2>2, <2>3, FS_EmptySet
<1>4. ASSUME NEW p \in Passes, ReadNothing(p) \/ Refuse(p) \/ Commit(p) PROVE PassType'
  <2>1. pass' = [pass EXCEPT ![p] = Finished(pass[p])] /\ lock' = lock
    BY <1>4 DEF ReadNothing, Refuse, Commit
  <2>2. Finished(pass[p]) \in Pass /\ Finished(pass[p]).rows = {}
    BY <1>0, FinishedType
  <2>. QED
    BY <1>0, <1>1, <2>1, <2>2, FS_EmptySet
<1>5. ASSUME NEW p \in Passes, Release(p) PROVE PassType'
  <2>1. pass' = [pass EXCEPT ![p] = IdlePass] /\ lock' \in [Users -> Passes \cup {NoPass}]
    BY <1>0, <1>5 DEF Release, ReleaseOwn
  <2>. QED
    BY <1>1, <2>1, IdleType, FS_EmptySet
<1>6. ASSUME NEW p \in Passes, ReadState(p) PROVE PassType'
  <2>0. PICK q : q = pass[p]
    OBVIOUS
  <2>9. PICK frozen : frozen = CheckinFrozen(q.user, q.clock)
    OBVIOUS
  <2>10. frozen \in BOOLEAN
    <3>1. CheckinFrozen(q.user, q.clock) \in BOOLEAN
      BY DEF CheckinFrozen
    <3>. QED
      BY <2>9, <3>1, Zenon
  <2>1. PICK r :
          r = [IdlePass EXCEPT !.phase = "state", !.user = q.user, !.clock = q.clock,
                        !.last = cursor[q.user], !.coin = coinActive,
                        !.fallback = IF coinActive THEN FallbackYield ELSE 0,
                        !.frozen = frozen]
    OBVIOUS
  <2>2. q \in Pass /\ q.user \in Users
    BY <1>0, <1>6, <2>0 DEF PassInv, ReadState
  <2>3. cursor[q.user] \in Times /\ coinActive \in BOOLEAN /\ FallbackYield \in Nat
    BY <2>2, FallbackIsNat DEF TypeInv, WorldType, TickType
  <2>4. r \in Pass /\ r.rows = {}
    <3>1. PICK fallback \in Nat : fallback = IF coinActive THEN FallbackYield ELSE 0
      BY <2>3
    <3>2. q.user \in Users /\ q.clock \in Times
      BY <2>2 DEF Pass
    <3>. QED
      BY <2>1, <2>3, <2>10, <3>1, <3>2, IdleType DEF IdlePass, Pass
  <2>5. pass' = [pass EXCEPT ![p] = r] /\ lock' = lock
    BY <1>6, <2>0, <2>1, <2>9 DEF ReadState
  <2>. QED
    BY <1>0, <1>1, <2>4, <2>5, FS_EmptySet
<1>7. ASSUME NEW p \in Passes, ReadSetup(p) PROVE PassType'
  <2>0. PICK q : q = pass[p]
    OBVIOUS
  <2>1. PICK on : on <=> /\ ~q.frozen /\ powered[q.user] /\ mounted[q.user]
                         /\ ~DueAt(q.user, q.clock)
    OBVIOUS
  <2>2. PICK rows : rows = IF on /\ q.coin
                           THEN RowsFor(q.last, LastWrite(q.clock, q.last), q.fallback) ELSE {}
    OBVIOUS
  <2>3. /\ q \in Pass /\ q.last \in Times /\ q.clock \in Times /\ q.fallback \in Nat
        /\ q.user \in Users /\ CreditCap(q.clock) > q.last
    BY <1>0, <1>7, <2>0 DEF ReadSetup, PassInv, Pass
  <2>4. LastWrite(q.clock, q.last) \in Times
    BY <2>3, PassEnd
  <2>5. rows \subseteq Row /\ IsFiniteSet(rows)
    BY <2>2, <2>3, <2>4, RowsType, FS_EmptySet DEF TypeInv, TickType
  <2>6. PICK off \in BOOLEAN : off <=> on /\ ~q.coin
    OBVIOUS
  <2>7. PICK r : r = [IdlePass EXCEPT !.phase = "ready", !.user = q.user, !.clock = q.clock,
                        !.last = q.last, !.powerOff = off, !.rows = rows]
    OBVIOUS
  <2>8. r \in Pass /\ r.rows = rows
    BY <2>3, <2>5, <2>7 DEF IdlePass, Pass
  <2>9. pass' = [pass EXCEPT ![p] = r] /\ lock' = lock
    BY <1>7, <2>0, <2>1, <2>2, <2>6, <2>7 DEF ReadSetup
  <2>. QED
    BY <1>0, <1>1, <2>5, <2>8, <2>9
<1>8. CASE Crash
  <2>1. pass' = [p \in Passes |-> IdlePass] /\ lock' = lock
    BY <1>8 DEF Crash
  <2>. QED
    BY <1>0, <2>1, IdleType, FS_EmptySet DEF PassType
<1>9. ASSUME NEW u \in Users, LockExpires(u) PROVE PassType'
  BY <1>0, <1>9 DEF LockExpires, PassType
<1>10. ASSUME TickBegin \/ TickBoundary \/ TickTimeout \/ TickEnd \/ SwitchCoin \/ Advance
       PROVE  PassType'
  BY <1>2, <1>10 DEF TickBegin, TickBoundary, TickTimeout, TickEnd, SwitchCoin, Advance
<1>11. ASSUME NEW u \in Users, NEW week \in Weeks, PayWeek(u, week) PROVE PassType'
  BY <1>2, <1>11 DEF PayWeek
<1>12. ASSUME NEW u \in Miners,
              \/ \E t \in Stamps : Bump(u, t) \/ CheckIn(u, t)
              \/ LeaseSweep(u) \/ PowerSwitch(u) \/ SetBlocked(u)
       PROVE  PassType'
  BY <1>2, <1>12 DEF Bump, CheckIn, LeaseSweep, PowerSwitch, SetBlocked
<1>. QED
  BY <1>3, <1>4, <1>5, <1>6, <1>7, <1>8, <1>9, <1>10, <1>11, <1>12 DEF Next

LEMMA WorldTypeStep == ASSUME Base, TypeInv, Base', Next PROVE WorldType'
<1>0. WorldType /\ now' \in Times /\ reopened' \in [Users -> [Times -> Nat]]
  BY DEF TypeInv, Base, IInv, YieldInv
<1>. SUFFICES /\ cursor' \in [Users -> Times] /\ blocked' \in [Users -> BOOLEAN]
              /\ checkin' \in [Users -> Times]
              /\ mounted' \in [Users -> BOOLEAN] /\ powered' \in [Users -> BOOLEAN]
              /\ coinActive' \in BOOLEAN /\ events' \in 0..MaxEvents
  BY <1>0 DEF WorldType
<1>1. \A t \in Stamps : t \in Times
  BY <1>0, MiningAssumption DEF Stamps, WorldType, Times
<1>2. Counted => events' \in 0..MaxEvents
  BY <1>0, MiningAssumption DEF Counted, WorldType
<1>. USE DEF setupVars
<1>3. ASSUME NEW p \in Passes,
             \/ \E u \in Miners : Acquire(p, u)
             \/ ReadNothing(p) \/ ReadState(p) \/ ReadSetup(p) \/ Refuse(p) \/ Release(p)
      PROVE  UNCHANGED <<cursor, blocked, setupVars, events>>
  BY <1>3 DEF Acquire, ReadNothing, ReadState, ReadSetup, Refuse, Release
<1>4. ASSUME NEW p \in Passes, Commit(p)
      PROVE  /\ cursor' \in [Users -> Times]
             /\ mounted' \in [Users -> BOOLEAN] /\ powered' \in [Users -> BOOLEAN]
             /\ UNCHANGED <<blocked, checkin, coinActive, events>>
  <2>1. PICK q, end : q = pass[p] /\ end = LastWrite(q.clock, q.last)
    OBVIOUS
  <2>2. q \in Pass /\ q.last \in Times /\ q.clock \in Times /\ CreditCap(q.clock) > q.last
    BY <1>4, <2>1 DEF Commit, TypeInv, PassType, Pass, Base, IInv, PassInv
  <2>3. end \in Times
    BY <2>1, <2>2, PassEnd
  <2>4. cursor' = [cursor EXCEPT ![q.user] = end]
    BY <1>4, <2>1 DEF Commit
  <2>5. cursor' \in [Users -> Times]
    BY <1>0, <2>3, <2>4 DEF WorldType
  <2>6. mounted' \in [Users -> BOOLEAN]
    <3>1. mounted' = [mounted EXCEPT ![q.user] = @ /\ ~DueAt(q.user, q.clock)]
      BY <1>4, <2>1 DEF Commit
    <3>. QED
      BY <1>0, <3>1 DEF WorldType
  <2>7. powered' \in [Users -> BOOLEAN]
    <3>1. powered' = [powered EXCEPT ![q.user] = @ /\ ~q.powerOff]
      BY <1>4, <2>1 DEF Commit
    <3>. QED
      BY <1>0, <3>1 DEF WorldType
  <2>. QED
    BY <1>4, <2>5, <2>6, <2>7 DEF Commit
<1>5. ASSUME NEW u \in Users, LockExpires(u)
      PROVE  UNCHANGED <<cursor, blocked, setupVars>> /\ Counted
  BY <1>5 DEF LockExpires
<1>6. ASSUME Crash \/ TickTimeout PROVE UNCHANGED <<cursor, blocked, setupVars>> /\ Counted
  BY <1>6 DEF Crash, TickTimeout
<1>7. ASSUME TickBegin \/ TickBoundary \/ TickEnd \/ Advance
      PROVE  UNCHANGED <<cursor, blocked, setupVars>> /\ (events' = events \/ Counted)
  BY <1>7 DEF TickBegin, TickBoundary, TickEnd, Advance
<1>8. ASSUME NEW u \in Users, NEW week \in Weeks, PayWeek(u, week)
      PROVE  UNCHANGED <<cursor, blocked, setupVars, events>>
  BY <1>8 DEF PayWeek
<1>9. ASSUME NEW u \in Miners, NEW t \in Stamps, Bump(u, t) \/ CheckIn(u, t)
      PROVE  /\ cursor' \in [Users -> Times] /\ checkin' \in [Users -> Times]
             /\ UNCHANGED <<blocked, mounted, powered, coinActive>> /\ Counted
  <2>1. cursor' \in [Users -> Times]
    BY <1>0, <1>1, <1>9 DEF Bump, CheckIn, BumpCursor, WorldType
  <2>2. checkin' \in [Users -> Times]
    BY <1>0, <1>1, <1>9 DEF Bump, CheckIn, WorldType
  <2>. QED
    BY <1>9, <2>1, <2>2 DEF Bump, CheckIn
<1>10. ASSUME NEW u \in Miners, LeaseSweep(u) \/ PowerSwitch(u) \/ SetBlocked(u)
       PROVE  /\ blocked' \in [Users -> BOOLEAN]
              /\ mounted' \in [Users -> BOOLEAN] /\ powered' \in [Users -> BOOLEAN]
              /\ UNCHANGED <<cursor, checkin, coinActive>> /\ (events' = events \/ Counted)
  <2>1. CASE LeaseSweep(u)
    BY <1>0, <2>1 DEF LeaseSweep, WorldType
  <2>2. CASE PowerSwitch(u)
    <3>1. /\ powered' = [powered EXCEPT ![u] = ~@] /\ Counted
          /\ UNCHANGED <<cursor, checkin, coinActive, blocked, mounted>>
      BY <2>2 DEF PowerSwitch
    <3>2. powered' \in [Users -> BOOLEAN]
      BY <1>0, <3>1 DEF WorldType
    <3>. QED
      BY <1>0, <3>1, <3>2 DEF WorldType
  <2>3. CASE SetBlocked(u)
    <3>1. /\ blocked' = [blocked EXCEPT ![u] = ~@] /\ Counted
          /\ UNCHANGED <<cursor, checkin, coinActive, powered, mounted>>
      BY <2>3 DEF SetBlocked
    <3>2. blocked' \in [Users -> BOOLEAN]
      BY <1>0, <3>1 DEF WorldType
    <3>. QED
      BY <1>0, <3>1, <3>2 DEF WorldType
  <2>. QED
    BY <1>10, <2>1, <2>2, <2>3
<1>11. ASSUME SwitchCoin
       PROVE  coinActive' \in BOOLEAN /\ Counted
              /\ UNCHANGED <<cursor, blocked, checkin, mounted, powered>>
  BY <1>11 DEF SwitchCoin
<1>12. ASSUME UNCHANGED <<cursor, blocked, setupVars>>, events' = events \/ Counted
       PROVE  /\ cursor' \in [Users -> Times] /\ blocked' \in [Users -> BOOLEAN]
              /\ checkin' \in [Users -> Times]
              /\ mounted' \in [Users -> BOOLEAN] /\ powered' \in [Users -> BOOLEAN]
              /\ coinActive' \in BOOLEAN /\ events' \in 0..MaxEvents
  BY <1>0, <1>2, <1>12 DEF WorldType
<1>13. CASE \E p \in Passes : Commit(p)
  BY <1>0, <1>4, <1>13 DEF WorldType
<1>14. CASE \E u \in Miners, t \in Stamps : Bump(u, t) \/ CheckIn(u, t)
  BY <1>0, <1>2, <1>9, <1>14 DEF WorldType
<1>15. CASE \E u \in Miners : LeaseSweep(u) \/ PowerSwitch(u) \/ SetBlocked(u)
  BY <1>0, <1>2, <1>10, <1>15 DEF WorldType
<1>16. CASE SwitchCoin
  BY <1>0, <1>2, <1>11, <1>16 DEF WorldType
<1>. QED
  BY <1>3, <1>5, <1>6, <1>7, <1>8, <1>12, <1>13, <1>14, <1>15, <1>16 DEF Next

\* What the tick writes is a yield, a boundary or a cap within the clock.
LEMMA TickTypeStep == ASSUME Base, TypeInv, Base', Next PROVE TickType'
<1>0. /\ TickType /\ checkpoint' \in Boundaries \cup {0}
      /\ now \in Nat /\ now <= MaxTime
  BY TimesAreNat DEF TypeInv, Base, YieldInv
<1>1. ASSUME UNCHANGED <<yield, network, hydrated, skipped, tick>> PROVE TickType'
  BY <1>0, <1>1 DEF TickType, YieldType
<1>2. ASSUME NEW b \in Boundaries PROVE Inserted(b) \in [Boundaries -> {NoRow, CoinOff} \cup Nat]
  <2>1. tick.live \in Nat /\ tick.coin \in BOOLEAN
    BY <1>0 DEF TickType
  <2>2. YieldPerHash(tick.live) \in Nat
    BY <2>1, YieldIsNat
  <2>. QED
    BY <1>0, <2>2 DEF Inserted, TickType, YieldType
<1>3. IdleTick \in [coin : BOOLEAN, live : Nat, cap : Times]
  BY TimesAreNat, MiningAssumption DEF IdleTick
<1>4. CASE TickBegin
  <2>1. PICK from, open : from = checkpoint' /\ open = LastCompletedGrid(now)
    OBVIOUS
  <2>2. PICK cap : cap = IF from = 0 THEN open ELSE Min({open, from + CatchUp * Grid})
    OBVIOUS
  <2>3. /\ network' = Live /\ UNCHANGED <<yield, skipped>>
        /\ hydrated' = TRUE \/ hydrated' = hydrated
        /\ tick' = [coin |-> coinActive, live |-> Live, cap |-> cap]
    BY <1>4, <2>1, <2>2 DEF TickBegin
  <2>4. open \in Nat /\ open <= now
    BY <1>0, <2>1, GridPoints
  <2>5. Live \in Nat
    <3>1. IsFiniteSet({u \in Users : coinActive /\ powered[u] /\ mounted[u] /\ ~blocked[u]})
      BY MiningAssumption, FS_Subset
    <3>. QED
      BY <3>1, FS_CardinalityType DEF Live
  <2>6. cap \in Nat /\ cap <= open
    <3>1. CASE from = 0
      BY <2>2, <2>4, <3>1
    <3>2. CASE from # 0
      <4>2. from \in Nat
        BY <1>0, <2>1, BoundaryRange DEF Boundaries, Times
      <4>3. CatchUp * Grid \in Nat
        BY MiningAssumption
      <4>4. PICK far : far = from + CatchUp * Grid
        OBVIOUS
      <4>5. far \in Nat
        BY <4>2, <4>3, <4>4
      <4>6. Min({open, far}) \in {open, far} /\ Min({open, far}) <= open
        BY <2>4, <4>5, MinOfTwo
      <4>. QED
        BY <2>2, <2>4, <3>2, <4>4, <4>5, <4>6
    <3>. QED
      BY <3>1, <3>2
  <2>7. cap \in Times
    BY <1>0, <2>4, <2>6, TimesAreNat, MiningAssumption
  <2>8. coinActive \in BOOLEAN
    BY DEF TypeInv, WorldType
  <2>. QED
    BY <1>0, <2>3, <2>5, <2>7, <2>8 DEF TickType, YieldType
<1>5. CASE TickBoundary
  <2>1. PICK b : b = NextBoundary(checkpoint, tick.cap)
    OBVIOUS
  <2>2. b \in Boundaries
    BY <1>5, <2>1, PendingBoundary DEF TickBoundary, Base
  <2>3. /\ yield' = Inserted(b) /\ skipped' = skipped \cup Skips(b)
        /\ UNCHANGED <<network, hydrated, tick>>
    BY <1>5, <2>1 DEF TickBoundary
  <2>. QED
    BY <1>0, <1>2, <2>2, <2>3 DEF TickType, YieldType, Skips
<1>6. CASE TickTimeout
  <2>1. PICK b : b = NextBoundary(checkpoint, tick.cap)
    OBVIOUS
  <2>2. tick' = IdleTick /\ network' = network /\ hydrated' = hydrated
    BY <1>6 DEF TickTimeout
  <2>3. CASE UNCHANGED <<yield, skipped>>
    BY <1>0, <1>3, <2>2, <2>3 DEF TickType, YieldType
  <2>4. CASE Pending /\ yield' = Inserted(b) /\ skipped' = skipped \cup Skips(b)
    <3>1. b \in Boundaries
      BY <2>1, <2>4, PendingBoundary DEF Base
    <3>. QED
      BY <1>0, <1>2, <1>3, <2>2, <2>4, <3>1 DEF TickType, YieldType, Skips
  <2>. QED
    BY <1>6, <2>1, <2>3, <2>4 DEF TickTimeout
<1>7. CASE TickEnd
  <2>1. /\ yield' = [b \in Boundaries |-> IF b < now - MaxWindow THEN NoRow ELSE yield[b]]
        /\ tick' = IdleTick /\ UNCHANGED <<network, hydrated, skipped>>
    BY <1>7 DEF TickEnd
  <2>. QED
    BY <1>0, <1>3, <2>1 DEF TickType, YieldType
<1>8. CASE Crash
  BY <1>0, <1>3, <1>8 DEF Crash, TickType, YieldType
<1>9. CASE ~(TickBegin \/ TickBoundary \/ TickTimeout \/ TickEnd \/ Crash)
  <2>1. UNCHANGED <<yield, network, hydrated, skipped, tick>>
    BY <1>9 DEF Next, Acquire, ReadNothing, ReadState, ReadSetup, Refuse, Commit, Release, LockExpires,
                PayWeek, Bump, CheckIn, LeaseSweep, PowerSwitch, SetBlocked, SwitchCoin, Advance, yieldVars
  <2>. QED
    BY <1>1, <2>1
<1>. QED
  BY <1>4, <1>5, <1>6, <1>7, <1>8, <1>9

(***************************************************************************)
(* The books: a commit lists the rows it credits, which the history did    *)
(* not have, and a payout the share it credits, which was not paid.        *)
(***************************************************************************)
Shares(u) == {ow \in Users \X Weeks : Manager[ow[1]] = u}
ShareTotal(table, S) == MapThenSumSet(LAMBDA ow : table[ow[1]][ow[2]], S)
PaidTo(u) == ShareTotal(payout, Shares(u))
ShareFold(it, table, S) ==
  it = [T \in SUBSET S |-> IF T = {} THEN 0
                           ELSE table[Chosen(T)[1]][Chosen(T)[2]] + it[T \ {Chosen(T)}]]

LEMMA ShareIsSum ==
  ASSUME NEW table, NEW S, NEW f, \A ow \in S : f[ow] = table[ow[1]][ow[2]]
  PROVE  ShareTotal(table, S) = SumOver(f, S)
<1>1. ShareTotal(table, S) = (CHOOSE it : ShareFold(it, table, S))[S]
  BY DEF ShareTotal, MapThenSumSet, MapThenFoldSet, ShareFold, Chosen
<1>2. ASSUME NEW it PROVE Steps(it, f, S) <=> ShareFold(it, table, S)
  <2>1. \A T \in SUBSET S : T # {} => f[Chosen(T)] = table[Chosen(T)[1]][Chosen(T)[2]]
    BY ChosenIn
  <2>2. [T \in SUBSET S |-> IF T = {} THEN 0 ELSE f[Chosen(T)] + it[T \ {Chosen(T)}]]
        = [T \in SUBSET S |-> IF T = {} THEN 0
                              ELSE table[Chosen(T)[1]][Chosen(T)[2]] + it[T \ {Chosen(T)}]]
    BY <2>1
  <2>. QED
    BY <2>2 DEF Steps, ShareFold
<1>3. (CHOOSE it : Steps(it, f, S)) = (CHOOSE it : ShareFold(it, table, S))
  BY <1>2, Zenon
<1>. QED
  BY <1>1, <1>3, SumIsFold DEF Fold

SharesPaid == [ow \in Users \X Weeks |-> payout[ow[1]][ow[2]]]

LEMMA PaidIs ==
  ASSUME NEW u, payout \in [Users -> [Weeks -> Nat]]
  PROVE  /\ IsFiniteSet(Shares(u)) /\ Ints(SharesPaid, Shares(u))
         /\ PaidTo(u) = SumOver(SharesPaid, Shares(u)) /\ PaidTo(u) \in Nat
<1>1. IsFiniteSet(Weeks)
  <2>1. MaxTime \div WeekLength \in Int
    BY MiningAssumption
  <2>. QED
    BY <2>1, FS_Interval DEF Weeks, Week
<1>2. IsFiniteSet(Users \X Weeks)
  BY <1>1, FS_Product, MiningAssumption
<1>3. Shares(u) \subseteq Users \X Weeks
  BY DEF Shares
<1>4. IsFiniteSet(Shares(u))
  BY <1>2, <1>3, FS_Subset
<1>5. \A ow \in Users \X Weeks : SharesPaid[ow] = payout[ow[1]][ow[2]] /\ SharesPaid[ow] \in Nat
  BY DEF SharesPaid
<1>. HIDE DEF SharesPaid
<1>6. Ints(SharesPaid, Shares(u))
  BY <1>3, <1>5 DEF Ints
<1>7. PaidTo(u) = SumOver(SharesPaid, Shares(u))
  BY <1>3, <1>5, ShareIsSum DEF PaidTo
<1>8. SumOver(SharesPaid, Shares(u)) \in Nat
  BY <1>3, <1>4, <1>5, SumNat
<1>. QED
  BY <1>4, <1>6, <1>7, <1>8

LEMMA BalanceSays ==
  BalanceIsHistory <=> \A u \in Users : balance[u] = AmountOf(history[u]) + PaidTo(u)
  BY DEF BalanceIsHistory, PaidTo, Shares, ShareTotal

LEMMA AmountNext == ASSUME NEW u PROVE AmountOf(history[u])' = AmountOf(history'[u])
  OBVIOUS

LEMMA CommitCredits ==
  ASSUME Base, TypeInv, NEW p \in Passes, Commit(p)
  PROVE  CreditType' /\ (BalanceIsHistory => BalanceIsHistory')
<1>1. PICK q, end : q = pass[p] /\ end = LastWrite(q.clock, q.last)
  OBVIOUS
<1>2. /\ q \in Pass /\ q.last \in Times /\ q.clock \in Times /\ CreditCap(q.clock) > q.last
      /\ q.user \in Users /\ IsFiniteSet(q.rows) /\ q.rows \subseteq Row
  BY <1>1 DEF Commit, TypeInv, PassType, Pass, Base, IInv, PassInv
<1>3. end \in Times /\ Week(q.clock) \in Weeks
  BY <1>1, <1>2, PassEnd, WeekCounted
<1>4. PICK amount : amount = AmountOf(q.rows)
  OBVIOUS
<1>5. amount \in Nat
  BY <1>2, <1>4, AmountIsNat
<1>6. /\ ledger' = [ledger EXCEPT ![q.user] = @ \cup {<<q.last, end>>}]
      /\ balance' = [balance EXCEPT ![q.user] = @ + amount]
      /\ \/ accrual' = accrual
         \/ accrual' = [accrual EXCEPT ![q.user] = Accrue(@, Week(q.clock), amount)]
      /\ history' = [history EXCEPT ![q.user] = @ \cup q.rows]
      /\ payout' = payout /\ ~AlreadyCredited(q.user, q.rows)
  BY <1>1, <1>4 DEF Commit, Committable
<1>7. CreditType
  BY DEF TypeInv
<1>8. ledger' \in [Users -> SUBSET (Times \X Times)] /\ balance' \in [Users -> Nat]
  BY <1>2, <1>3, <1>5, <1>6, <1>7 DEF CreditType
<1>9. history' \in [Users -> SUBSET Row] /\ \A u \in Users : IsFiniteSet(history'[u])
  <2>1. /\ history'[q.user] = history[q.user] \cup q.rows
        /\ \A u \in Users : u # q.user => history'[u] = history[u]
    BY <1>2, <1>6, <1>7 DEF CreditType
  <2>2. IsFiniteSet(history[q.user] \cup q.rows)
    BY <1>2, <1>7, FS_Union DEF CreditType
  <2>. QED
    BY <1>2, <1>6, <1>7, <2>1, <2>2 DEF CreditType
<1>10. accrual' \in [Users -> [Weeks -> Due]]
  <2>1. ASSUME NEW a \in [Weeks -> Due] PROVE Accrue(a, Week(q.clock), amount) \in [Weeks -> Due]
    <3>1. PICK w \in Weeks : w = Week(q.clock)
      BY <1>3
    <3>2. a[w] \in Due /\ a[w].share + amount \in Nat
      BY <1>5 DEF Due
    <3>3. [a[w] EXCEPT !.share = @ + amount] \in Due
      BY <3>2 DEF Due
    <3>. QED
      BY <3>1, <3>3 DEF Accrue
  <2>2. accrual[q.user] \in [Weeks -> Due]
    BY <1>2, <1>7 DEF CreditType
  <2>3. PICK a : a = Accrue(accrual[q.user], Week(q.clock), amount)
    OBVIOUS
  <2>4. a \in [Weeks -> Due] /\ (accrual' = accrual \/ accrual' = [accrual EXCEPT ![q.user] = a])
    BY <1>6, <2>1, <2>2, <2>3
  <2>. QED
    BY <1>7, <2>4 DEF CreditType
<1>11. CreditType'
  BY <1>6, <1>7, <1>8, <1>9, <1>10 DEF CreditType
<1>12. ASSUME BalanceIsHistory, NEW u \in Users
       PROVE  balance'[u] = AmountOf(history[u])' + PaidTo(u)'
  <2>1. PaidTo(u)' = PaidTo(u) /\ balance[u] = AmountOf(history[u]) + PaidTo(u)
    BY <1>6, <1>12, BalanceSays DEF PaidTo
  <2>2. PaidTo(u) \in Nat /\ AmountOf(history[u]) \in Nat
    BY <1>7, PaidIs, AmountIsNat DEF CreditType
  <2>3. CASE u # q.user
    <3>1. history'[u] = history[u] /\ balance'[u] = balance[u]
      BY <1>6, <1>7, <2>3 DEF CreditType
    <3>2. AmountOf(history[u])' = AmountOf(history[u])
      BY <3>1, AmountNext
    <3>. QED
      BY <2>1, <3>1, <3>2
  <2>4. CASE u = q.user
    <3>1. PICK old : old = history[u]
      OBVIOUS
    <3>2. history'[u] = old \cup q.rows /\ balance'[u] = balance[u] + amount
      BY <1>6, <1>7, <2>4, <3>1 DEF CreditType
    <3>3. old \cap q.rows = {}
      BY <1>6, <2>4, <3>1 DEF AlreadyCredited
    <3>4. old \subseteq Row /\ IsFiniteSet(old)
      BY <1>7, <3>1 DEF CreditType
    <3>5. AmountOf(old \cup q.rows) = AmountOf(old) + amount
      BY <1>2, <1>4, <3>3, <3>4, AmountOfBoth
    <3>6. AmountOf(history[u])' = AmountOf(old \cup q.rows)
      BY <3>2, AmountNext
    <3>7. PICK m, n : m = AmountOf(old) /\ n = PaidTo(u)
      OBVIOUS
    <3>8. m \in Nat /\ n \in Nat /\ balance'[u] = m + n + amount
          /\ AmountOf(history[u])' = m + amount /\ PaidTo(u)' = n
      BY <2>1, <2>2, <3>1, <3>2, <3>5, <3>6, <3>7
    <3>. QED
      BY <1>5, <3>8
  <2>. QED
    BY <2>3, <2>4
<1>13. BalanceIsHistory => BalanceIsHistory'
  <2>1. ASSUME BalanceIsHistory PROVE (\A u \in Users : balance[u] = AmountOf(history[u]) + PaidTo(u))'
    BY <1>12, <2>1
  <2>2. (BalanceIsHistory <=> \A u \in Users : balance[u] = AmountOf(history[u]) + PaidTo(u))'
    BY BalanceSays, PTL
  <2>. QED
    BY <2>1, <2>2
<1>. QED
  BY <1>11, <1>13

LEMMA PayCredits ==
  ASSUME TypeInv, WeekInv, NEW o \in Users, NEW week \in Weeks, PayWeek(o, week)
  PROVE  CreditType' /\ (BalanceIsHistory => BalanceIsHistory')
<1>1. PICK m, share : m = Manager[o] /\ share = accrual[o][week].share
  OBVIOUS
<1>2. /\ payout' = [payout EXCEPT ![o][week] = share]
      /\ balance' = [balance EXCEPT ![m] = @ + share]
      /\ accrual' = [accrual EXCEPT ![o][week].paid = TRUE]
      /\ UNCHANGED <<history, ledger>> /\ m # NoUser /\ ~accrual[o][week].paid
  BY <1>1 DEF PayWeek
<1>3. CreditType
  BY DEF TypeInv
<1>4. m \in Users /\ share \in Nat
  BY <1>1, <1>2, <1>3, MiningAssumption DEF CreditType, Due
<1>5. payout[o][week] = 0
  BY <1>2 DEF WeekInv, PaidWhatAccrued
<1>6. payout' \in [Users -> [Weeks -> Nat]] /\ balance' \in [Users -> Nat]
  BY <1>2, <1>3, <1>4 DEF CreditType
<1>7. accrual' \in [Users -> [Weeks -> Due]]
  <2>1. accrual[o][week] \in Due
    BY <1>3 DEF CreditType
  <2>2. PICK d : d = [accrual[o][week] EXCEPT !.paid = TRUE]
    OBVIOUS
  <2>3. d \in Due /\ accrual' = [accrual EXCEPT ![o][week] = d]
    BY <1>2, <2>1, <2>2 DEF Due
  <2>. QED
    BY <1>3, <2>3 DEF CreditType
<1>8. CreditType'
  BY <1>2, <1>3, <1>6, <1>7 DEF CreditType
<1>9. PICK f, f1, at : f = SharesPaid /\ f1 = SharesPaid' /\ at = <<o, week>>
  OBVIOUS
<1>10. /\ at \in Users \X Weeks /\ f[at] = 0 /\ f1[at] = share
       /\ \A ow \in Users \X Weeks : ow # at => f1[ow] = f[ow]
  <2>1. /\ payout'[o][week] = share
        /\ \A u \in Users, w \in Weeks : u # o \/ w # week => payout'[u][w] = payout[u][w]
    BY <1>2, <1>3, <1>4 DEF CreditType
  <2>. QED
    BY <1>5, <1>9, <2>1 DEF SharesPaid
<1>11. ASSUME NEW u \in Users
       PROVE  PaidTo(u)' = IF u = m THEN PaidTo(u) + share ELSE PaidTo(u)
  <2>1. PICK S : S = Shares(u)
    OBVIOUS
  <2>2. S \subseteq Users \X Weeks /\ (at \in S <=> u = m)
    BY <1>1, <1>9, <1>10, <2>1 DEF Shares
  <2>3. IsFiniteSet(S) /\ Ints(f, S) /\ PaidTo(u) = SumOver(f, S) /\ PaidTo(u) \in Nat
    BY <1>3, <1>9, <2>1, PaidIs DEF CreditType
  <2>4. Ints(f1, S)
    BY <1>4, <1>10, <2>2, <2>3 DEF Ints
  <2>5. PaidTo(u)' = SumOver(f1, S)
    <3>1. PaidTo(u)' = ShareTotal(payout', S)
      BY <2>1 DEF PaidTo, Shares
    <3>2. \A ow \in S : f1[ow] = payout'[ow[1]][ow[2]]
      BY <1>9, <2>2 DEF SharesPaid
    <3>. QED
      BY <3>1, <3>2, ShareIsSum
  <2>6. CASE u # m
    BY <1>10, <2>2, <2>3, <2>5, <2>6, SumSame
  <2>7. CASE u = m
    <3>1. SumOver(f1, S) = SumOver(f, S) + f1[at] - f[at]
      BY <1>10, <2>2, <2>3, <2>4, <2>7, SumChange
    <3>2. PICK k : k = SumOver(f, S)
      OBVIOUS
    <3>. QED
      BY <1>4, <1>10, <2>3, <2>5, <2>7, <3>1, <3>2
  <2>. QED
    BY <2>6, <2>7
<1>12. ASSUME BalanceIsHistory, NEW u \in Users
       PROVE  balance'[u] = AmountOf(history[u])' + PaidTo(u)'
  <2>1. PICK a, n : a = AmountOf(history[u]) /\ n = PaidTo(u)
    OBVIOUS
  <2>2. a \in Nat /\ n \in Nat /\ balance[u] = a + n /\ AmountOf(history[u])' = a
    <3>1. history' = history
      BY <1>2
    <3>2. AmountOf(history[u])' = AmountOf(history[u])
      BY <3>1, AmountNext
    <3>. QED
      BY <1>3, <1>12, <2>1, <3>2, BalanceSays, PaidIs, AmountIsNat DEF CreditType
  <2>3. balance'[u] = IF u = m THEN balance[u] + share ELSE balance[u]
    BY <1>2, <1>3 DEF CreditType
  <2>. QED
    BY <1>4, <1>11, <2>1, <2>2, <2>3
<1>13. BalanceIsHistory => BalanceIsHistory'
  <2>1. ASSUME BalanceIsHistory PROVE (\A u \in Users : balance[u] = AmountOf(history[u]) + PaidTo(u))'
    BY <1>12, <2>1
  <2>2. (BalanceIsHistory <=> \A u \in Users : balance[u] = AmountOf(history[u]) + PaidTo(u))'
    BY BalanceSays, PTL
  <2>. QED
    BY <2>1, <2>2
<1>. QED
  BY <1>8, <1>13

LEMMA CreditStep ==
  ASSUME Base, WeekInv, TypeInv, [Next]_vars
  PROVE  CreditType' /\ (BalanceIsHistory => BalanceIsHistory')
<1>1. CASE \E p \in Passes : Commit(p)
  BY <1>1, CommitCredits
<1>2. CASE \E u \in Users, week \in Weeks : PayWeek(u, week)
  BY <1>2, PayCredits
<1>3. ASSUME UNCHANGED <<history, ledger, balance, accrual, payout>>
      PROVE  CreditType' /\ (BalanceIsHistory => BalanceIsHistory')
  <2>1. CreditType'
    BY <1>3 DEF TypeInv, CreditType
  <2>2. \A u \in Users : AmountOf(history[u])' = AmountOf(history[u]) /\ PaidTo(u)' = PaidTo(u)
    BY <1>3, AmountNext DEF PaidTo
  <2>3. ASSUME BalanceIsHistory PROVE (\A u \in Users : balance[u] = AmountOf(history[u]) + PaidTo(u))'
    BY <1>3, <2>2, <2>3, BalanceSays
  <2>4. (BalanceIsHistory <=> \A u \in Users : balance[u] = AmountOf(history[u]) + PaidTo(u))'
    BY BalanceSays, PTL
  <2>. QED
    BY <2>1, <2>3, <2>4
<1>4. CASE /\ ~(\E p \in Passes : Commit(p))
           /\ ~(\E u \in Users, week \in Weeks : PayWeek(u, week))
  <2>1. UNCHANGED <<history, ledger, balance, accrual, payout>>
    BY <1>4 DEF Next, vars, creditVars, Acquire, ReadNothing, ReadState, ReadSetup, Refuse, Release,
                LockExpires, Crash, TickBegin, TickBoundary, TickTimeout, TickEnd, Bump, CheckIn,
                LeaseSweep, PowerSwitch, SetBlocked, SwitchCoin, Advance
  <2>. QED
    BY <1>3, <2>1
<1>. QED
  BY <1>1, <1>2, <1>4

LEMMA TypeStep == Base /\ Base' /\ WeekInv /\ TypeInv /\ [Next]_vars => TypeInv'
<1>. SUFFICES ASSUME Base, Base', WeekInv, TypeInv, [Next]_vars PROVE TypeInv'
  OBVIOUS
<1>1. CreditType'
  BY CreditStep
<1>2. CASE Next
  BY <1>1, <1>2, WorldTypeStep, TickTypeStep, PassTypeStep DEF TypeInv
<1>3. CASE UNCHANGED vars
  BY <1>1, <1>3 DEF vars, TypeInv, WorldType, TickType, YieldType, PassType
<1>. QED
  BY <1>2, <1>3

LEMMA BooksInit == Init => BalanceIsHistory
<1>. SUFFICES ASSUME Init, NEW u \in Users PROVE balance[u] = AmountOf(history[u]) + PaidTo(u)
  BY BalanceSays
<1>1. PICK f : f = [r \in {} |-> 0]
  OBVIOUS
<1>2. AmountOf({}) = 0
  <2>1. AmountOf({}) = SumOver(f, {})
    BY AmountIsSum
  <2>. QED
    BY <2>1, SumEmpty
<1>3. PaidTo(u) = 0
  <2>1. payout \in [Users -> [Weeks -> Nat]]
    BY DEF Init
  <2>2. \A ow \in Shares(u) : SharesPaid[ow] = 0
    BY DEF Init, SharesPaid, Shares
  <2>. QED
    BY <2>1, <2>2, PaidIs, SumZero
<1>. QED
  BY <1>2, <1>3 DEF Init

LEMMA BaseInit == Init => Base
  BY IInvInit, YieldInit DEF Base

LEMMA BaseStep == Base /\ [Next]_vars => Base'
  BY IInvStep, YieldNext DEF Base

\* Every variable keeps its type, whatever interleaves: no rate, share or balance
\* is negative, a pass's cap and cursor stay within the clock, every listed row
\* earned something, and boundaries are written on the grid.
THEOREM TypesHold == Spec => []TypeOK
<1>1. TypeInv => TypeOK
  BY DEF TypeInv, WorldType, TickType, YieldType, PassType, CreditType, TypeOK
<1>. QED
  BY <1>1, BaseInit, BaseStep, WeekInit, WeekNext, TypeInit, TypeStep, PTL DEF Spec

\* A balance is what the block history lists plus the shares paid to its owner as
\* a manager, for any number of passes, payouts, crashes and expired locks: a
\* commit that repeats listed rows is refused, and a paid week is not paid again.
THEOREM BalanceIsListed == Spec => []BalanceIsHistory
<1>1. Base /\ WeekInv /\ TypeInv /\ BalanceIsHistory /\ [Next]_vars => BalanceIsHistory'
  BY CreditStep
<1>. QED
  BY <1>1, BooksInit, BaseInit, BaseStep, WeekInit, WeekNext, TypeInit, TypeStep, PTL DEF Spec

=============================================================================
