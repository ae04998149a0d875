----------------------- MODULE ManagerContractsProofs -----------------------
(***************************************************************************)
(* Proofs about ManagerContracts for any number of users, contracts,       *)
(* sessions and concurrent requests.                                       *)
(***************************************************************************)
EXTENDS ManagerContracts, TLAPS

LEMMA RequestTyped ==
  ASSUME NEW step \in Steps, NEW c \in Ids \cup {NoId}, NEW u \in Users \cup {NoUser},
         NEW o \in Users \cup {NoUser}, NEW s \in Sessions \cup {NoSession}
  PROVE  Request(step, c, u, o, s) \in RequestType
BY DEF Request, RequestType

LEMMA NoRequestTyped == NoRequest \in RequestType
BY DEF NoRequest, Request, RequestType, Steps

LEMMA FlagsTyped ==
  ASSUME NEW u \in Users, NEW o \in Users \cup {NoUser}, NEW m \in BOOLEAN,
         NEW a \in Users \cup {NoUser}
  PROVE  Flags(u, o, m, a) \in FlagsType
BY DEF Flags, FlagsType

LEMMA BecomesTyped ==
  ASSUME req \in [Reqs -> RequestType], NEW r \in Reqs, NEW q \in RequestType, Becomes(r, q)
  PROVE  req' \in [Reqs -> RequestType]
BY DEF Becomes

LEMMA DoneTyped ==
  ASSUME req \in [Reqs -> RequestType], NEW r \in Reqs, Done(r)
  PROVE  req' \in [Reqs -> RequestType]
BY NoRequestTyped, BecomesTyped DEF Done

LEMMA MovesTyped ==
  ASSUME req \in [Reqs -> RequestType], NEW r \in Reqs, NEW step \in Steps, MovesTo(r, step)
  PROVE  req' \in [Reqs -> RequestType]
BY DEF MovesTo, RequestType

\* What the columns and the session flags are typed by.
LEMMA Fields ==
  ASSUME TypeOK
  PROVE  /\ \A r \in Reqs : /\ req[r].step \in Steps /\ req[r].id \in Ids \cup {NoId}
                            /\ req[r].user \in Users \cup {NoUser}
                            /\ req[r].other \in Users \cup {NoUser}
                            /\ req[r].sess \in Sessions \cup {NoSession}
                            /\ req[r].todo \in SUBSET Ids
                            /\ req[r].rivals \in SUBSET Ids /\ req[r].until \in Nat
         /\ \A s \in Sessions : /\ session[s].user \in Users
                                /\ session[s].original \in Users \cup {NoUser}
                                /\ session[s].managerMode \in BOOLEAN
                                /\ session[s].acting \in Users \cup {NoUser}
BY DEF TypeOK, RequestType, FlagsType

\* The beginning of a request only reads: it changes no row and no session.
LEMMA Beginnings ==
  ASSUME NEW r \in Reqs, Begin(r)
  PROVE  UNCHANGED <<rows, session, now, late, overtaken>> /\ Idle(r)
BY DEF Begin, Hire, Apply, Accept, Decline, Resign, Fire, AdminFire, Leave,
       StopImpersonate, Enter, StartImpersonate

-----------------------------------------------------------------------------
(* Which request holds what.  A request that has read a row remembers its id; *)
(* one inside a transaction keeps the row as it read it, because it holds it. *)

NeedsRow == {"accept", "competing", "decline", "fire", "restored"}
NeedsSession == {"enter", "entering", "leave", "impersonate", "stop"}

RequestOK(r) ==
  /\ req[r].step \in NeedsRow => req[r].id \in Ids
  /\ req[r].step \in NeedsSession => req[r].sess \in Sessions /\ req[r].user \in Users
  /\ req[r].step \in {"hire", "clearing", "apply"} =>
       req[r].user \in Users /\ req[r].other \in Users
  /\ req[r].step \in {"enter", "entering", "impersonate"} => req[r].other \in Users
  /\ req[r].step \in {"hire", "clearing"} => req[r].id = NoId
  /\ req[r].step \notin {"clearing", "competing"} => req[r].todo = {} /\ req[r].rivals = {}

Typed == TypeOK /\ \A r \in Reqs : RequestOK(r)

LEMMA TypedInit == Init => Typed
<1> SUFFICES ASSUME Init PROVE Typed
    OBVIOUS
<1>1. session \in [Sessions -> FlagsType]
      BY FlagsTyped, MCAssumption DEF Init, HomeFlags
<1>2. req \in [Reqs -> RequestType]
      BY NoRequestTyped DEF Init
<1>3. \A r \in Reqs : RequestOK(r)
      BY DEF Init, RequestOK, NoRequest, Request, NeedsRow, NeedsSession
<1> QED BY <1>1, <1>2, <1>3 DEF Init, TypeOK, Typed, Status, Open

LEMMA TypedNext == Typed /\ [Next]_vars => Typed'
<1> SUFFICES ASSUME Typed, [Next]_vars PROVE Typed'
    OBVIOUS
<1> USE DEF rows
<1>0. TypeOK /\ (\A r \in Reqs : RequestOK(r)) /\ req \in [Reqs -> RequestType]
      BY DEF Typed, TypeOK
<1>a. ASSUME NEW r \in Reqs, NEW q \in RequestType, Becomes(r, q),
             RequestOK(r)'
      PROVE  req' \in [Reqs -> RequestType] /\ \A p \in Reqs : RequestOK(p)'
  <2>1. req' \in [Reqs -> RequestType]
        BY <1>0, <1>a, BecomesTyped
  <2>2. ASSUME NEW p \in Reqs, p # r PROVE RequestOK(p)'
        BY <1>0, <1>a, <2>2 DEF Becomes, RequestOK
  <2> QED BY <2>1, <2>2, <1>a
<1>b. ASSUME NEW r \in Reqs, Done(r)
      PROVE  req' \in [Reqs -> RequestType] /\ \A p \in Reqs : RequestOK(p)'
  <2>1. Becomes(r, NoRequest)
        BY <1>b DEF Done
  <2>2. RequestOK(r)'
        BY <2>1, <1>0 DEF Becomes, RequestOK, NoRequest, Request, NeedsRow, NeedsSession
  <2> QED BY <1>a, <2>1, <2>2, NoRequestTyped
<1>1. CASE UNCHANGED vars
      BY <1>1, <1>0 DEF vars, Typed, TypeOK, RequestOK
<1>2. CASE Tick
      BY <1>2, <1>0 DEF Tick, Typed, TypeOK, RequestOK
<1>3. ASSUME NEW r \in Reqs, Begin(r) PROVE Typed'
  <2>n. nested \subseteq Sessions
        BY <1>0 DEF TypeOK
  <2>a. ASSUME NEW q \in RequestType, Becomes(r, q), RequestOK(r)',
               UNCHANGED <<rows, session, now, late, overtaken>>, nested' \subseteq Sessions
        PROVE  Typed'
        BY <2>a, <1>a, <1>0 DEF Typed, TypeOK
  <2>b. ASSUME NEW step \in Steps, NEW c \in Ids \cup {NoId}, NEW u \in Users \cup {NoUser},
               NEW o \in Users \cup {NoUser}, NEW s \in Sessions \cup {NoSession},
               step \in NeedsRow => c \in Ids, step \notin {"clearing", "competing"},
               step \in NeedsSession => s \in Sessions /\ u \in Users,
               step = "hire" => c = NoId,
               step \in {"hire", "apply"} => u \in Users /\ o \in Users,
               step \in {"enter", "entering", "impersonate"} => o \in Users,
               Becomes(r, Request(step, c, u, o, s)),
               UNCHANGED <<rows, session, now, late, overtaken>>, nested' \subseteq Sessions
        PROVE  Typed'
    <3>1. RequestOK(r)'
          BY <2>b, <1>0 DEF Becomes, Request, RequestOK
    <3> QED BY <3>1, <2>a, <2>b, RequestTyped
  <2> USE MCAssumption, <2>b, <2>n, Fields, <1>0 DEF NeedsRow, NeedsSession, Steps
  <2>1. ASSUME NEW o \in Owners, NEW m \in Managers, Hire(r, o, m) PROVE Typed'
    <3>1. o \in Users /\ m \in Users
          OBVIOUS
    <3>2. /\ Becomes(r, Request("hire", NoId, o, m, NoSession))
          /\ UNCHANGED <<rows, session, now, late, overtaken>> /\ nested' \subseteq Sessions
          BY <2>1 DEF Hire
    <3>3. /\ "hire" \in Steps /\ "hire" \notin NeedsRow \cup NeedsSession
          /\ "hire" \notin {"clearing", "competing"}
          OBVIOUS
    <3> HIDE DEF NeedsRow, NeedsSession, Steps
    <3> QED BY <3>1, <3>2, <3>3, <2>b
  <2>2. ASSUME NEW o \in Owners, NEW m \in Managers, Apply(r, o, m) PROVE Typed'
    <3>1. o \in Users /\ m \in Users
          OBVIOUS
    <3>2. /\ Becomes(r, Request("apply", NoId, o, m, NoSession))
          /\ UNCHANGED <<rows, session, now, late, overtaken>> /\ nested' \subseteq Sessions
          BY <2>2 DEF Apply
    <3>3. /\ "apply" \in Steps /\ "apply" \notin NeedsRow \cup NeedsSession
          /\ "apply" \notin {"clearing", "competing"}
          OBVIOUS
    <3> HIDE DEF NeedsRow, NeedsSession, Steps
    <3> QED BY <3>1, <3>2, <3>3, <2>b
  <2>3. ASSUME NEW c \in Ids, Accept(r, c) \/ Decline(r, c) PROVE Typed'
        BY <2>3 DEF Accept, Decline
  <2>4. ASSUME NEW c \in Ids, Resign(r, c) PROVE Typed'
        BY <2>4 DEF Resign, TypeOK
  <2>5. ASSUME NEW o \in Owners, Fire(r, o) \/ AdminFire(r, o) PROVE Typed'
    <3>1. PICK c \in Ids, u \in Users \cup {NoUser} :
                  Becomes(r, Request("fire", c, u, NoUser, NoSession))
          BY <2>5 DEF Fire, AdminFire, Rows
    <3> QED BY <3>1, <2>5 DEF Fire, AdminFire
  <2>6. ASSUME NEW s \in Sessions, Leave(r, s) PROVE Typed'
    <3>1. session[s].original \in Users
          BY <2>6 DEF Leave
    <3>2. /\ Becomes(r, Request("leave", NoId, session[s].original, NoUser, s))
          /\ UNCHANGED <<rows, session, now, late, overtaken>> /\ nested' \subseteq Sessions
          BY <2>6 DEF Leave
    <3> HIDE DEF NeedsRow, NeedsSession, Steps
    <3>3. "leave" \in Steps /\ "leave" \notin NeedsRow \cup {"clearing", "competing"}
          BY DEF Steps, NeedsRow
    <3> QED BY <3>1, <3>2, <3>3, <2>b
  <2>7. ASSUME NEW s \in Sessions, StopImpersonate(r, s) PROVE Typed'
    <3>1. session[s].original \in Users
          BY <2>7 DEF StopImpersonate
    <3>2. /\ Becomes(r, Request("stop", NoId, session[s].original, NoUser, s))
          /\ UNCHANGED <<rows, session, now, late, overtaken>> /\ nested' \subseteq Sessions
          BY <2>7 DEF StopImpersonate
    <3>3. "stop" \in Steps /\ "stop" \notin NeedsRow \cup {"clearing", "competing"}
          OBVIOUS
    <3> HIDE DEF NeedsRow, NeedsSession, Steps
    <3> QED BY <3>1, <3>2, <3>3, <2>b
  <2>8. ASSUME NEW s \in Sessions, NEW o \in Owners, Enter(r, s, o) PROVE Typed'
    <3>1. Actor(s) \in Users
          BY <2>8 DEF Enter, Actor
    <3> QED BY <3>1, <2>8 DEF Enter
  <2>9. ASSUME NEW s \in Sessions, NEW u \in Targets, StartImpersonate(r, s, u) PROVE Typed'
    <3>1. session[s].user \in Users /\ u \in Users
          OBVIOUS
    <3>2. /\ Becomes(r, Request("impersonate", NoId, session[s].user, u, s))
          /\ UNCHANGED <<rows, session, now, late, overtaken>> /\ nested' \subseteq Sessions
          BY <2>9 DEF StartImpersonate
    <3>3. "impersonate" \in Steps /\ "impersonate" \notin NeedsRow \cup {"clearing", "competing"}
          OBVIOUS
    <3> HIDE DEF NeedsRow, NeedsSession, Steps
    <3> QED BY <3>1, <3>2, <3>3, <2>b
  <2> QED BY <1>3, <2>1, <2>2, <2>3, <2>4, <2>5, <2>6, <2>7, <2>8, <2>9 DEF Begin
<1>4. ASSUME NEW r \in Reqs, Progress(r) PROVE Typed'
  <2> USE <1>0, MCAssumption DEF Typed, TypeOK, Open, Status
  <2>r. RequestOK(r) /\ req[r] \in RequestType
        OBVIOUS
  <2>1. CASE HireInsert(r) \/ ApplyInsert(r)
    <3>0. req[r].rivals \in SUBSET Ids
          BY Fields
    <3>1. PICK c \in Ids, S \in Open, ends \in SUBSET Ids :
                  Insert(c, req[r].user, req[r].other, S, ends)
          BY <2>1, <3>0 DEF HireInsert, ApplyInsert
    <3>2. req[r].user \in Users /\ req[r].other \in Users
          BY <2>1, <2>r DEF HireInsert, ApplyInsert, RequestOK
    <3> QED BY <2>1, <3>1, <3>2, <1>b DEF HireInsert, ApplyInsert, Insert
  <2>2. CASE EndCompeting(r)
    <3> DEFINE q == [req[r] EXCEPT !.step = "competing", !.todo = Competing(req[r].id),
                                   !.until = now + LockDays]
    <3>0. Competing(req[r].id) \in SUBSET Ids /\ now + LockDays \in Nat
          BY DEF Competing, Rows
    <3>1. q \in RequestType
          BY <2>r, <3>0 DEF RequestType, Steps
    <3>2. RequestOK(r)'
          BY <2>2, <2>r DEF EndCompeting, Becomes, RequestOK, NeedsRow, NeedsSession, RequestType
    <3> QED BY <2>2, <3>1, <3>2, <1>a DEF EndCompeting
  <2>10. CASE ClearApplications(r)
    <3> DEFINE q == [req[r] EXCEPT !.step = "clearing", !.todo = Rows(req[r].user, {"applied"})]
    <3>0. Rows(req[r].user, {"applied"}) \in SUBSET Ids
          BY DEF Rows
    <3>1. q \in RequestType
          BY <2>r, <3>0 DEF RequestType, Steps
    <3>2. RequestOK(r)'
          BY <2>10, <2>r DEF ClearApplications, Becomes, RequestOK, NeedsRow, NeedsSession,
                             RequestType
    <3> QED BY <2>10, <3>1, <3>2, <1>a DEF ClearApplications
  <2>11. CASE TakeRow(r)
    <3>0. PICK d \in req[r].todo :
            Becomes(r, [req[r] EXCEPT !.todo = @ \ {d},
                         !.rivals = IF status[d] \in Sought(r) THEN @ \cup {d} ELSE @])
          BY <2>11 DEF TakeRow
    <3> DEFINE q == [req[r] EXCEPT !.todo = @ \ {d},
                         !.rivals = IF status[d] \in Sought(r) THEN @ \cup {d} ELSE @]
    <3>t. /\ req[r].todo \in SUBSET Ids /\ req[r].rivals \in SUBSET Ids /\ d \in Ids
          /\ req[r].step \in {"clearing", "competing"}
          BY <2>11, Fields DEF TakeRow
    <3>1. q \in RequestType
          BY <2>r, <3>t DEF RequestType
    <3>2. /\ req'[r].step = req[r].step /\ req'[r].id = req[r].id
          /\ req'[r].user = req[r].user /\ req'[r].other = req[r].other
          /\ req'[r].sess = req[r].sess
          BY <2>r, <3>0 DEF Becomes, RequestType
    <3>3. RequestOK(r)'
          BY <2>r, <3>2, <3>t DEF RequestOK
    <3>4. Becomes(r, q) /\ UNCHANGED <<rows, session, now, late, overtaken, nested>>
          BY <2>11, <3>0 DEF TakeRow
    <3> HIDE DEF q
    <3> QED BY <3>1, <3>3, <3>4, <1>a
  <2>3. CASE AcceptCommit(r)
        BY <2>3, <2>r, <1>b DEF AcceptCommit, RequestType
  <2>4. CASE DeclineUpdate(r)
        BY <2>4, <1>b DEF DeclineUpdate, ActingFor
  <2>5. CASE RestoreSessions(r)
    <3>1. session' \in [Sessions -> FlagsType]
          BY <2>5, Fields, FlagsTyped DEF RestoreSessions, Restored, HomeFlags
    <3>2. Becomes(r, [req[r] EXCEPT !.step = "restored"])
          BY <2>5 DEF RestoreSessions, MovesTo, Becomes
    <3>3. [req[r] EXCEPT !.step = "restored"] \in RequestType
          BY <2>r DEF RequestType, Steps
    <3>4. RequestOK(r)'
          BY <2>5, <2>r, <3>2 DEF RestoreSessions, Becomes, RequestOK, NeedsRow, NeedsSession, RequestType
    <3> QED BY <2>5, <3>1, <3>2, <3>3, <3>4, <1>a DEF RestoreSessions
  <2>6. CASE EndCommit(r)
        BY <2>6, <1>b DEF EndCommit
  <2>7. CASE LoadForEntry(r)
    <3>1. CASE Done(r)
          BY <2>7, <3>1, <1>b DEF LoadForEntry
    <3>2. CASE MovesTo(r, "entering")
      <4>1. Becomes(r, [req[r] EXCEPT !.step = "entering"])
            BY <3>2 DEF MovesTo, Becomes
      <4>2. [req[r] EXCEPT !.step = "entering"] \in RequestType
            BY <2>r DEF RequestType, Steps
      <4>3. RequestOK(r)'
            BY <2>7, <2>r, <4>1 DEF LoadForEntry, Becomes, RequestOK, NeedsRow, NeedsSession, RequestType
      <4> QED BY <2>7, <4>1, <4>2, <4>3, <1>a DEF LoadForEntry
    <3> QED BY <2>7, <3>1, <3>2 DEF LoadForEntry
  <2>8. CASE EnterUpdate(r) \/ ImpersonateUpdate(r) \/ ReturnUpdate(r)
    <3>1. session' \in [Sessions -> FlagsType] /\ Done(r)
      <4>1. req[r].user \in Users
            BY <2>8, <2>r DEF EnterUpdate, ImpersonateUpdate, ReturnUpdate, RequestOK, NeedsSession
      <4>2. CASE ReturnUpdate(r)
            BY <4>2, <4>1, FlagsTyped DEF ReturnUpdate, HomeFlags
      <4>3. CASE EnterUpdate(r) \/ ImpersonateUpdate(r)
        <5>1. req[r].other \in Users
              BY <4>3, <2>r DEF EnterUpdate, ImpersonateUpdate, RequestOK
        <5>2. /\ Flags(req[r].other, req[r].user, TRUE, req[r].other) \in FlagsType
              /\ Flags(req[r].other, req[r].user, FALSE, NoUser) \in FlagsType
              BY <4>1, <5>1, FlagsTyped
        <5>3. CASE EnterUpdate(r)
              BY <5>3, <5>2 DEF EnterUpdate
        <5>4. CASE ImpersonateUpdate(r)
              BY <5>4, <5>2 DEF ImpersonateUpdate
        <5> QED BY <4>3, <5>3, <5>4
      <4> QED BY <2>8, <4>2, <4>3
    <3>2. overtaken' \subseteq Sessions
      <4>1. CASE EnterUpdate(r)
        <5>1. req[r].sess \in Sessions
              BY <4>1, <2>r DEF EnterUpdate, RequestOK, NeedsSession
        <5> QED BY <4>1, <5>1 DEF EnterUpdate
      <4> QED BY <2>8, <4>1 DEF ImpersonateUpdate, ReturnUpdate
    <3> QED BY <2>8, <3>1, <3>2, <1>b DEF EnterUpdate, ImpersonateUpdate, ReturnUpdate
  <2>9. CASE LockTimeout(r)
        BY <2>9, <1>b DEF LockTimeout
  <2> QED BY <1>4, <2>1, <2>2, <2>3, <2>4, <2>5, <2>6, <2>7, <2>8, <2>9, <2>10, <2>11
          DEF Progress
<1>5. ASSUME NEW r \in Reqs, Abort(r) PROVE Typed'
      BY <1>5, <1>b, <1>0 DEF Abort, Typed, TypeOK
<1> QED BY <1>1, <1>2, <1>3, <1>4, <1>5 DEF Next

\* Type correctness of the contracts, the sessions and every request.
THEOREM TypeCorrect == Spec => []TypeOK
<1>1. Spec => []Typed
      BY TypedInit, TypedNext, PTL DEF Spec
<1>2. Typed => TypeOK
      BY DEF Typed
<1> QED BY <1>1, <1>2, PTL

-----------------------------------------------------------------------------
(* Row locks.  A transaction finds the row it holds as it read it.          *)

RowHeld(r) ==
  /\ req[r].step \in {"accept", "competing"} => status[req[r].id] \in Open
  /\ req[r].step \in {"fire", "restored"} =>
       /\ status[req[r].id] \in Open \cup {"active"}
       /\ req[r].other = NoUser \/ req[r].other = manager[req[r].id]
       /\ req[r].user # NoUser => fireLockedUntil[req[r].id] <= now
  /\ req[r].step = "decline" => status[req[r].id] # "absent"
  /\ req[r].step \in {"clearing", "competing"} =>
       /\ req[r].id \notin req[r].rivals
       /\ \A d \in req[r].rivals : status[d] \in Open
  /\ req[r].step = "competing" => req[r].until \in LockDays .. (now + LockDays)

Disjoint == \A p, r \in Reqs : p # r => \A c \in Ids : ~(Holds(p, c) /\ Holds(r, c))

Locked == Typed /\ (\A r \in Reqs : RowHeld(r)) /\ Disjoint

\* Only its own request, and the inserting and ending of rows nobody holds,
\* write rows: a row another request holds is left as it is.
LEMMA HeldRowsKept ==
  ASSUME Locked, NEW r \in Reqs, Progress(r), NEW p \in Reqs, p # r,
         NEW c \in Ids, Holds(p, c)
  PROVE  /\ status'[c] = status[c] /\ manager'[c] = manager[c] /\ owner'[c] = owner[c]
         /\ fireLockedUntil'[c] = fireLockedUntil[c]
<1>0. /\ TypeOK /\ RequestOK(p) /\ RequestOK(r) /\ RowHeld(p) /\ RowHeld(r)
      /\ ~Holds(r, c)
      BY DEF Locked, Typed, Disjoint
<1>1. status[c] # "absent"
      BY <1>0, MCAssumption DEF Holds, InTx, RowHeld, Open, RequestOK
<1>2. ~Unlocked(c)
      BY DEF Unlocked
<1> USE <1>0, <1>1, <1>2 DEF TypeOK, rows
<1>3. ASSUME NEW d \in Ids, NEW S, NEW o, NEW m, NEW ends \in SUBSET Ids,
             status[d] = "absent", \A e \in ends : Unlocked(e), Insert(d, o, m, S, ends)
      PROVE  /\ status'[c] = status[c] /\ manager'[c] = manager[c] /\ owner'[c] = owner[c]
             /\ fireLockedUntil'[c] = fireLockedUntil[c]
      BY <1>3 DEF Insert
<1>4. CASE HireInsert(r)
  <2>1. PICK d \in Ids : /\ status[d] = "absent"
                         /\ Insert(d, req[r].user, req[r].other, "pending", req[r].rivals)
        BY <1>4 DEF HireInsert, NextId
  <2>2. c \notin req[r].rivals
        BY <1>4 DEF HireInsert, Holds, InTx
  <2> QED BY <2>1, <2>2 DEF Insert
<1>5. CASE ApplyInsert(r)
      BY <1>5, <1>3 DEF ApplyInsert, NextId
<1>6. CASE AcceptCommit(r)
      BY <1>6 DEF AcceptCommit, Holds, InTx
<1>7. CASE DeclineUpdate(r)
      BY <1>7 DEF DeclineUpdate
<1>8. CASE EndCommit(r)
      BY <1>8 DEF EndCommit, Holds, InTx
<1>9. CASE UNCHANGED rows
      BY <1>9
<1> QED BY <1>4, <1>5, <1>6, <1>7, <1>8, <1>9
        DEF Progress, ClearApplications, TakeRow, EndCompeting, RestoreSessions, LoadForEntry, EnterUpdate,
            ImpersonateUpdate, ReturnUpdate, LockTimeout

\* A row that exists stays: no step makes a row absent again, and the clock
\* does not run back.
LEMMA RowsStay ==
  ASSUME Locked, [Next]_vars, NEW c \in Ids, status[c] # "absent"
  PROVE  status'[c] # "absent" /\ owner'[c] = owner[c] /\ manager'[c] = manager[c]
<1>0. TypeOK /\ \A r \in Reqs : RequestOK(r)
      BY DEF Locked, Typed
<1> USE <1>0 DEF TypeOK, rows
<1>1. CASE UNCHANGED rows
      BY <1>1
<1>2. ASSUME NEW r \in Reqs, HireInsert(r) \/ ApplyInsert(r) \/ AcceptCommit(r)
                             \/ DeclineUpdate(r) \/ EndCommit(r)
      PROVE  status'[c] # "absent" /\ owner'[c] = owner[c] /\ manager'[c] = manager[c]
  <2>1. CASE HireInsert(r)
        BY <2>1 DEF HireInsert, Insert, NextId
  <2>2. CASE ApplyInsert(r)
        BY <2>2 DEF ApplyInsert, Insert, NextId
  <2>3. CASE AcceptCommit(r) \/ DeclineUpdate(r) \/ EndCommit(r)
        BY <2>3 DEF AcceptCommit, DeclineUpdate, EndCommit
  <2> QED BY <1>2, <2>1, <2>2, <2>3
<1> QED BY <1>1, <1>2, Beginnings
        DEF Next, vars, Tick, Abort, Progress, ClearApplications, TakeRow, EndCompeting, RestoreSessions, LoadForEntry,
            EnterUpdate, ImpersonateUpdate, ReturnUpdate, LockTimeout

LEMMA RequestsKept ==
  ASSUME Locked, NEW r \in Reqs, Begin(r) \/ Progress(r) \/ Abort(r)
  PROVE  /\ \E q : Becomes(r, q)
         /\ \A p \in Reqs : p # r => req'[p] = req[p]
<1>1. \E q : Becomes(r, q)
  <2>1. CASE Begin(r)
        BY <2>1 DEF Begin, Hire, Apply, Accept, Decline, Resign, Fire, AdminFire, Leave,
                    StopImpersonate, Enter, StartImpersonate
  <2>2. CASE Progress(r) \/ Abort(r)
        BY <2>2 DEF Progress, Abort, HireInsert, ApplyInsert, ClearApplications, TakeRow, EndCompeting, AcceptCommit,
             DeclineUpdate, RestoreSessions, EndCommit, LoadForEntry, EnterUpdate,
             ImpersonateUpdate, ReturnUpdate, LockTimeout, Done, MovesTo, Becomes
  <2> QED BY <2>1, <2>2
<1>2. req \in [Reqs -> RequestType]
      BY DEF Locked, Typed, TypeOK
<1> QED BY <1>1, <1>2 DEF Becomes

\* The other requests keep what they hold, and find it unchanged.
LEMMA OthersKept ==
  ASSUME Locked, [Next]_vars, NEW r \in Reqs, Begin(r) \/ Progress(r) \/ Abort(r),
         NEW p \in Reqs, p # r
  PROVE  RowHeld(p)' /\ \A c \in Ids : Holds(p, c)' <=> Holds(p, c)
<1>1. req'[p] = req[p]
      BY RequestsKept
<1>2. /\ RequestOK(p) /\ RowHeld(p) /\ TypeOK
      BY DEF Locked, Typed
<1>3. now' = now
      BY Beginnings DEF Progress, Abort, HireInsert, ApplyInsert, ClearApplications, TakeRow, EndCompeting, AcceptCommit,
             DeclineUpdate, RestoreSessions, EndCommit, LoadForEntry, EnterUpdate,
             ImpersonateUpdate, ReturnUpdate, LockTimeout
<1>4. ASSUME NEW c \in Ids, Holds(p, c)
      PROVE  /\ status'[c] = status[c] /\ manager'[c] = manager[c]
             /\ fireLockedUntil'[c] = fireLockedUntil[c]
      BY <1>4, HeldRowsKept, Beginnings DEF Abort, rows
<1>5. req[p].step = "decline" => status'[req[p].id] # "absent"
      BY <1>2, RowsStay DEF RequestOK, NeedsRow, RowHeld
<1>6. req[p].step \in InTx \ {"clearing"} => req[p].id \in Ids /\ Holds(p, req[p].id)
      BY <1>2 DEF RequestOK, NeedsRow, InTx, Holds
<1>7. req[p].step \in {"clearing", "competing"} =>
        \A d \in req[p].rivals : d \in Ids /\ Holds(p, d)
      BY <1>2, Fields DEF Holds, InTx
<1>8. RowHeld(p)'
      BY <1>1, <1>2, <1>3, <1>4, <1>5, <1>6, <1>7 DEF RowHeld, InTx
<1> QED BY <1>1, <1>8 DEF Holds

LEMMA LockedInit == Init => Locked
BY TypedInit DEF Init, Locked, RowHeld, Disjoint, Holds, NoRequest, Request, InTx

LEMMA LockedNext == Locked /\ [Next]_vars => Locked'
<1> SUFFICES ASSUME Locked, [Next]_vars PROVE Locked'
    OBVIOUS
<1>0. Typed' /\ Typed /\ TypeOK
      BY TypedNext DEF Locked, Typed
<1>1. CASE UNCHANGED vars
      BY <1>1, <1>0 DEF vars, rows, Locked, RowHeld, Disjoint, Holds
<1>2. CASE Tick
  <2>1. UNCHANGED <<rows, req>> /\ now' = now + 1 /\ now \in Nat
        BY <1>2, <1>0 DEF Tick, TypeOK
  <2>2. ASSUME NEW r \in Reqs PROVE RowHeld(r)'
    <3>1. RowHeld(r) /\ RequestOK(r) /\ req[r] \in RequestType
          BY <1>0 DEF Locked, Typed, TypeOK
    <3>2. req[r].id \in Ids => fireLockedUntil[req[r].id] \in Nat
          BY <1>0 DEF TypeOK
    <3>3. req[r].until \in Nat /\ LockDays \in Nat
          BY <3>1, MCAssumption DEF RequestType
    <3> QED BY <2>1, <3>1, <3>2, <3>3 DEF RowHeld, RequestOK, NeedsRow, rows
  <2>3. Disjoint'
        BY <2>1 DEF Locked, Disjoint, Holds
  <2> QED BY <1>0, <2>2, <2>3 DEF Locked
<1>a. ASSUME NEW r \in Reqs, Begin(r) \/ Progress(r) \/ Abort(r),
             RowHeld(r)', \A c \in Ids : Holds(r, c)' => Holds(r, c) \/ Unlocked(c)
      PROVE  Locked'
  <2>1. \A p \in Reqs : RowHeld(p)'
        BY <1>a, OthersKept
  <2>2. Disjoint'
    <3> SUFFICES ASSUME NEW p \in Reqs, NEW q \in Reqs, p # q, NEW c \in Ids,
                        Holds(p, c)', Holds(q, c)'
                 PROVE  FALSE
        BY DEF Disjoint
    <3>1. p # r => Holds(p, c)
          BY <1>a, OthersKept
    <3>2. q # r => Holds(q, c)
          BY <1>a, OthersKept
    <3> QED BY <1>a, <3>1, <3>2 DEF Locked, Disjoint, Unlocked
  <2> QED BY <1>0, <2>1, <2>2 DEF Locked
<1>b. ASSUME NEW r \in Reqs, Begin(r) \/ Progress(r) \/ Abort(r), Done(r) PROVE Locked'
  <2>1. req'[r] = NoRequest
        BY <1>b, <1>0 DEF Done, Becomes, TypeOK
  <2> QED BY <2>1, <1>a, <1>b DEF RowHeld, Holds, NoRequest, Request, InTx
<1>3. ASSUME NEW r \in Reqs, Begin(r) PROVE Locked'
  <2>0. UNCHANGED <<rows, now>>
        BY <1>3, Beginnings
  <2>b. ASSUME NEW step, NEW c, NEW u, NEW o, NEW s, step \notin {"clearing", "competing"},
               Becomes(r, Request(step, c, u, o, s)),
               step = "accept" => status[c] \in Open,
               step \in {"fire", "restored"} =>
                 /\ status[c] \in Open \cup {"active"}
                 /\ o = NoUser \/ o = manager[c]
                 /\ u # NoUser => fireLockedUntil[c] <= now,
               step = "decline" => status[c] # "absent",
               step \in InTx => Unlocked(c)
        PROVE  Locked'
    <3>1. req'[r] = Request(step, c, u, o, s)
          BY <2>b, <1>0 DEF Becomes, TypeOK
    <3>2. RowHeld(r)'
          BY <2>b, <2>0, <3>1 DEF RowHeld, Request, rows
    <3>3. \A d \in Ids : Holds(r, d)' => Unlocked(d)
          BY <2>b, <3>1 DEF Holds, Request
    <3> QED BY <3>2, <3>3, <1>a, <1>3
  <2> USE DEF InTx, Open
  <2>1. ASSUME NEW o \in Owners, NEW m \in Managers, Hire(r, o, m) \/ Apply(r, o, m)
        PROVE  Locked'
        BY <2>1, <2>b DEF Hire, Apply
  <2>2. ASSUME NEW c \in Ids, Accept(r, c) \/ Decline(r, c) PROVE Locked'
        BY <2>2, <2>b DEF Accept, Decline
  <2>3. ASSUME NEW c \in Ids, Resign(r, c) PROVE Locked'
        BY <2>3, <2>b DEF Resign
  <2>4. ASSUME NEW o \in Owners, Fire(r, o) PROVE Locked'
        BY <2>4, <2>b DEF Fire, Rows
  <2>5. ASSUME NEW o \in Owners, AdminFire(r, o) PROVE Locked'
        BY <2>5, <2>b DEF AdminFire, Rows
  <2>6. ASSUME NEW s \in Sessions, Leave(r, s) \/ StopImpersonate(r, s) PROVE Locked'
        BY <2>6, <2>b DEF Leave, StopImpersonate
  <2>7. ASSUME NEW s \in Sessions, NEW o \in Owners, Enter(r, s, o) PROVE Locked'
        BY <2>7, <2>b DEF Enter
  <2>8. ASSUME NEW s \in Sessions, NEW u \in Targets, StartImpersonate(r, s, u) PROVE Locked'
        BY <2>8, <2>b DEF StartImpersonate
  <2> QED BY <1>3, <2>1, <2>2, <2>3, <2>4, <2>5, <2>6, <2>7, <2>8 DEF Begin
<1>4. ASSUME NEW r \in Reqs, Progress(r) PROVE Locked'
  <2>r. RequestOK(r) /\ RowHeld(r) /\ req[r] \in RequestType
        BY <1>0 DEF Typed, Locked, TypeOK
  <2>1. CASE EndCompeting(r)
    <3>1. /\ req'[r] = [req[r] EXCEPT !.step = "competing", !.todo = Competing(req[r].id),
                                      !.until = now + LockDays]
          /\ UNCHANGED <<rows, now>> /\ req[r].step = "accept" /\ req[r].rivals = {}
          BY <2>1, <2>r, <1>0 DEF EndCompeting, Becomes, TypeOK, RequestOK
    <3>2. RowHeld(r)'
          BY <3>1, <2>r, <1>0, MCAssumption DEF RowHeld, rows, RequestType, TypeOK
    <3>3. \A d \in Ids : Holds(r, d)' => Holds(r, d)
          BY <3>1, <2>r DEF Holds, InTx, RequestType
    <3> QED BY <3>2, <3>3, <1>a, <1>4
  <2>4. CASE ClearApplications(r)
    <3>1. /\ req'[r] = [req[r] EXCEPT !.step = "clearing",
                                      !.todo = Rows(req[r].user, {"applied"})]
          /\ UNCHANGED <<rows, now>> /\ req[r].step = "hire" /\ req[r].rivals = {}
          /\ req[r].id \notin Ids
          BY <2>4, <2>r, <1>0, MCAssumption DEF ClearApplications, Becomes, TypeOK, RequestOK
    <3>2. RowHeld(r)' /\ \A d \in Ids : ~Holds(r, d)'
          BY <3>1, <2>r DEF RowHeld, RequestType, Holds, InTx
    <3> QED BY <3>2, <1>a, <1>4
  <2>5. CASE TakeRow(r)
    <3>0. /\ req[r].step \in {"clearing", "competing"} /\ UNCHANGED <<rows, now>>
          /\ req[r].todo \in SUBSET Ids
          BY <2>5, <2>r DEF TakeRow, RequestType
    <3>1. PICK d \in req[r].todo :
            /\ Unlocked(d)
            /\ Becomes(r, [req[r] EXCEPT !.todo = @ \ {d},
                            !.rivals = IF status[d] \in Sought(r) THEN @ \cup {d} ELSE @])
          BY <2>5 DEF TakeRow
    <3>s. Sought(r) \subseteq Open
          BY DEF Sought, Open
    <3>q. req'[r] = [req[r] EXCEPT !.todo = @ \ {d},
                       !.rivals = IF status[d] \in Sought(r) THEN @ \cup {d} ELSE @]
          BY <3>1, <1>0 DEF Becomes, TypeOK
    <3>c. /\ req'[r].rivals \subseteq req[r].rivals \cup {d}
          /\ d \in req'[r].rivals => d \in req[r].rivals \/ status[d] \in Sought(r)
          BY <3>q, <2>r DEF RequestType
    <3>2. /\ req'[r].step = req[r].step /\ req'[r].id = req[r].id
          /\ req'[r].until = req[r].until
          BY <3>q, <2>r DEF RequestType
    <3>3. req[r].step = "competing" => req[r].id # d
          BY <3>1, <2>r DEF Unlocked, Holds, InTx
    <3>4. req[r].step = "clearing" => req[r].id # d
          BY <3>0, <3>1, <2>r, MCAssumption DEF RequestOK
    <3>5. RowHeld(r)'
          BY <3>0, <3>2, <3>3, <3>4, <3>c, <3>s, <2>r DEF RowHeld, rows
    <3>6. \A e \in Ids : Holds(r, e)' => Holds(r, e) \/ Unlocked(e)
          BY <3>1, <3>2, <3>c DEF Holds
    <3> QED BY <3>5, <3>6, <1>a, <1>4
  <2>2. CASE RestoreSessions(r)
    <3>1. /\ req'[r] = [req[r] EXCEPT !.step = "restored"]
          /\ UNCHANGED <<rows, now>> /\ req[r].step = "fire"
          BY <2>2, <1>0 DEF RestoreSessions, MovesTo, TypeOK
    <3>2. RowHeld(r)' /\ \A d \in Ids : Holds(r, d)' => Holds(r, d)
          BY <3>1, <2>r DEF RowHeld, rows, RequestType, Holds, InTx
    <3> QED BY <3>2, <1>a, <1>4
  <2>3. CASE LoadForEntry(r) /\ MovesTo(r, "entering")
    <3>1. /\ req'[r] = [req[r] EXCEPT !.step = "entering"]
          BY <2>3, <1>0 DEF MovesTo, TypeOK
    <3>2. RowHeld(r)' /\ \A d \in Ids : Holds(r, d)' => Holds(r, d)
          BY <3>1, <2>r DEF RowHeld, RequestType, Holds, InTx
    <3> QED BY <3>2, <1>a, <1>4
  <2> QED BY <1>4, <1>b, <2>1, <2>2, <2>3, <2>4, <2>5
          DEF Progress, HireInsert, ApplyInsert, AcceptCommit, DeclineUpdate, EndCommit,
              LoadForEntry, EnterUpdate, ImpersonateUpdate, ReturnUpdate, LockTimeout
<1>5. ASSUME NEW r \in Reqs, Abort(r) PROVE Locked'
      BY <1>5, <1>b DEF Abort
<1> QED BY <1>1, <1>2, <1>3, <1>4, <1>5 DEF Next

LEMMA AlwaysLocked == Spec => []Locked
BY LockedInit, LockedNext, PTL DEF Spec

\* What the steps that write rows do to one row.
LEMMA RowSteps ==
  ASSUME Locked, [Next]_vars, NEW c \in Ids
  PROVE  \/ status'[c] = status[c] /\ fireLockedUntil'[c] = fireLockedUntil[c]
         \/ status[c] = "absent" /\ status'[c] \in Open /\ fireLockedUntil'[c] = fireLockedUntil[c]
         \/ status[c] \in Open /\ status'[c] = "active"
            /\ fireLockedUntil'[c] \in LockDays .. (now + LockDays)
         \/ status[c] # "absent" /\ status'[c] = "ended" /\ fireLockedUntil'[c] = fireLockedUntil[c]
<1>0. TypeOK /\ \A r \in Reqs : RequestOK(r) /\ RowHeld(r)
      BY DEF Locked, Typed
<1> USE <1>0 DEF TypeOK, rows, Open
<1>1. CASE UNCHANGED rows
      BY <1>1
<1>2. ASSUME NEW r \in Reqs, HireInsert(r) PROVE
         \/ status'[c] = status[c] /\ fireLockedUntil'[c] = fireLockedUntil[c]
         \/ status[c] = "absent" /\ status'[c] \in Open /\ fireLockedUntil'[c] = fireLockedUntil[c]
         \/ status[c] # "absent" /\ status'[c] = "ended" /\ fireLockedUntil'[c] = fireLockedUntil[c]
  <2>1. PICK d \in Ids : /\ status[d] = "absent"
                         /\ Insert(d, req[r].user, req[r].other, "pending", req[r].rivals)
        BY <1>2 DEF HireInsert, NextId
  <2>2. \A e \in req[r].rivals : status[e] # "absent"
        BY <1>2 DEF HireInsert, RowHeld
  <2> QED BY <2>1, <2>2 DEF Insert
<1>3. ASSUME NEW r \in Reqs, ApplyInsert(r) PROVE
         \/ status'[c] = status[c] /\ fireLockedUntil'[c] = fireLockedUntil[c]
         \/ status[c] = "absent" /\ status'[c] \in Open /\ fireLockedUntil'[c] = fireLockedUntil[c]
      BY <1>3 DEF ApplyInsert, Insert, NextId
<1>4. ASSUME NEW r \in Reqs, AcceptCommit(r) PROVE
         \/ status'[c] = status[c] /\ fireLockedUntil'[c] = fireLockedUntil[c]
         \/ status[c] \in Open /\ status'[c] = "active"
            /\ fireLockedUntil'[c] \in LockDays .. (now + LockDays)
         \/ status[c] # "absent" /\ status'[c] = "ended" /\ fireLockedUntil'[c] = fireLockedUntil[c]
      BY <1>4 DEF AcceptCommit, RowHeld, RequestOK, NeedsRow
<1>5. ASSUME NEW r \in Reqs, DeclineUpdate(r) \/ EndCommit(r) PROVE
         \/ status'[c] = status[c] /\ fireLockedUntil'[c] = fireLockedUntil[c]
         \/ status[c] # "absent" /\ status'[c] = "ended" /\ fireLockedUntil'[c] = fireLockedUntil[c]
      BY <1>5 DEF DeclineUpdate, EndCommit, RowHeld, RequestOK, NeedsRow
<1> QED BY <1>1, <1>2, <1>3, <1>4, <1>5, Beginnings
        DEF Next, vars, Tick, Abort, Progress, ClearApplications, TakeRow, EndCompeting, RestoreSessions, LoadForEntry,
            EnterUpdate, ImpersonateUpdate, ReturnUpdate, LockTimeout

\* Every contract row lives the life ContractLife describes: ended is for good,
\* and the days' lock is set by the acceptance alone.
THEOREM ContractsLive == Spec => LifeSpec
<1>1. Init => Life!LifeInit
      BY DEF Init, Life!LifeInit
<1>2. Locked /\ [Next]_vars => [Life!LifeNext]_(Life!lifeVars)
  <2> SUFFICES ASSUME Locked, [Next]_vars
               PROVE  (\A c \in Ids : Life!RowMoves(c)) /\ now' >= now
      BY DEF Life!LifeNext
  <2>1. now' >= now
    <3>1. now' = now \/ Tick
          BY Beginnings DEF Next, vars, Progress, Abort, HireInsert, ApplyInsert, ClearApplications, TakeRow, EndCompeting,
             AcceptCommit, DeclineUpdate, RestoreSessions, EndCommit, LoadForEntry, EnterUpdate,
             ImpersonateUpdate, ReturnUpdate, LockTimeout
    <3> QED BY <3>1 DEF Tick, Locked, Typed, TypeOK
  <2>2. ASSUME NEW c \in Ids PROVE Life!RowMoves(c)
    <3>1. status[c] \in Status
          BY DEF Locked, Typed, TypeOK
    <3> QED BY <3>1, RowSteps DEF Life!RowMoves, Life!Accepted, Life!Arrows, Life!Open, Open, Status
  <2> QED BY <2>1, <2>2
<1> QED BY <1>1, <1>2, AlwaysLocked, PTL DEF Spec, LifeSpec, Life!LifeSpec

\* No owner ends a contract in its first days.
THEOREM FireLockIsKept == Spec => FireLockKept
<1>1. ASSUME Locked, [Next]_vars, NEW c \in Ids,
             status[c] = "active", status'[c] = "ended", now < fireLockedUntil[c]
      PROVE  \E r \in Reqs : /\ req[r].id = c /\ req'[r] = NoRequest
                             /\ \/ req[r].step = "decline"
                                \/ req[r].step = "restored" /\ req[r].user = NoUser
  <2>0. TypeOK /\ \A r \in Reqs : RequestOK(r) /\ RowHeld(r)
        BY <1>1 DEF Locked, Typed
  <2>1. \E r \in Reqs : Progress(r)
        BY <1>1, Beginnings DEF Next, vars, rows, Tick, Abort
  <2>2. PICK r \in Reqs : Progress(r)
        BY <2>1
  <2> USE <1>1, <2>0 DEF TypeOK
  <2>3. CASE HireInsert(r)
        BY <2>3 DEF HireInsert, Insert, NextId, RowHeld, Open
  <2>4. CASE ApplyInsert(r)
        BY <2>4 DEF ApplyInsert, Insert, NextId
  <2>5. CASE AcceptCommit(r)
        BY <2>5 DEF AcceptCommit, RowHeld, Open
  <2>6. CASE DeclineUpdate(r)
        BY <2>6 DEF DeclineUpdate, Done, Becomes
  <2>7. CASE EndCommit(r)
    <3>1. req[r].id = c /\ req'[r] = NoRequest /\ req[r].step = "restored"
          BY <2>7 DEF EndCommit, Done, Becomes
    <3>2. fireLockedUntil[c] \in Nat /\ now \in Nat
          OBVIOUS
    <3>3. req[r].user = NoUser
          BY <3>1, <3>2 DEF RowHeld
    <3> QED BY <3>1, <3>3
  <2>8. CASE UNCHANGED status
        BY <2>8
  <2> QED BY <2>2, <2>3, <2>4, <2>5, <2>6, <2>7, <2>8
          DEF Progress, ClearApplications, TakeRow, EndCompeting, RestoreSessions, LoadForEntry, EnterUpdate,
              ImpersonateUpdate, ReturnUpdate, LockTimeout, rows
<1>2. Locked /\ [Next]_vars =>
        [\A c \in Ids :
           status[c] = "active" /\ status'[c] = "ended" /\ now < fireLockedUntil[c]
             => \E r \in Reqs : /\ req[r].id = c /\ req'[r] = NoRequest
                                /\ \/ req[r].step = "decline"
                                   \/ /\ req[r].step = "restored"
                                      /\ req[r].user = NoUser]_vars
      BY <1>1
<1> QED BY <1>2, AlwaysLocked, PTL DEF Spec, FireLockKept

-----------------------------------------------------------------------------
(* The way home.  A request that works on a session that has not nested      *)
(* accounts carries the user that logged in on it, whatever the session      *)
(* became since it was read.                                                 *)

CarriesHome(r) ==
  req[r].step \in NeedsSession /\ req[r].sess \notin nested =>
    /\ req[r].user = Home[req[r].sess]
    /\ req[r].step = "impersonate" => Home[req[r].sess] \in Admins

HomeInv == Typed /\ KnowsWayHome /\ \A r \in Reqs : CarriesHome(r)

\* Flags of a session that is away from its user and can go back to it.
Away(f, s) ==
  /\ f.original = Home[s]
  /\ IF f.managerMode THEN f.user = f.acting ELSE Home[s] \in Admins /\ f.acting = NoUser

LEMMA HomeFields ==
  ASSUME NEW u
  PROVE  /\ HomeFlags(u).user = u /\ HomeFlags(u).original = NoUser
         /\ ~HomeFlags(u).managerMode
BY DEF HomeFlags, Flags

LEMMA HomeInit == Init => HomeInv
BY TypedInit, MCAssumption
   DEF Init, HomeInv, KnowsWayHome, CarriesHome, NoRequest, Request, NeedsSession

LEMMA HomeNext == HomeInv /\ [Next]_vars => HomeInv'
<1> SUFFICES ASSUME HomeInv, [Next]_vars PROVE HomeInv'
    OBVIOUS
<1>0. Typed' /\ Typed /\ TypeOK /\ KnowsWayHome /\ \A r \in Reqs : CarriesHome(r)
      BY TypedNext DEF HomeInv, Typed
<1>1. CASE UNCHANGED <<session, req, nested>>
      BY <1>1, <1>0 DEF HomeInv, KnowsWayHome, Inside, CarriesHome
<1>k. \A s \in Sessions \ nested : session[s] = HomeFlags(Home[s]) \/ Away(session[s], s)
      BY <1>0 DEF KnowsWayHome, Inside, Away
<1>w. ASSUME \A s \in Sessions \ nested' :
               session'[s] = HomeFlags(Home[s]) \/ Away(session'[s], s)
      PROVE  KnowsWayHome'
      BY <1>w DEF KnowsWayHome, Inside, Away
<1>a. ASSUME NEW r \in Reqs, NEW q, Becomes(r, q), nested \subseteq nested',
             CarriesHome(r)', KnowsWayHome'
      PROVE  HomeInv'
  <2>1. \A p \in Reqs : p # r => req'[p] = req[p]
        BY <1>a, <1>0 DEF Becomes, TypeOK
  <2>2. \A p \in Reqs : CarriesHome(p)'
        BY <1>a, <1>0, <2>1 DEF CarriesHome
  <2> QED BY <1>0, <1>a, <2>2 DEF HomeInv
<1>b. ASSUME NEW r \in Reqs, Done(r), nested' = nested, KnowsWayHome' PROVE HomeInv'
  <2>1. Becomes(r, NoRequest) /\ req'[r] = NoRequest
        BY <1>b, <1>0 DEF Done, Becomes, TypeOK
  <2>2. CarriesHome(r)'
        BY <2>1 DEF CarriesHome, NoRequest, Request, NeedsSession
  <2> QED BY <2>1, <2>2, <1>a, <1>b
<1>2. ASSUME NEW r \in Reqs, Begin(r) PROVE HomeInv'
  <2>n. nested \subseteq nested'
        BY <1>2 DEF Begin, Hire, Apply, Accept, Decline, Resign, Fire, AdminFire, Leave,
                    StopImpersonate, Enter, StartImpersonate
  <2>0. KnowsWayHome'
        BY <1>2, <1>k, <1>w, <2>n, Beginnings
  <2>b. ASSUME NEW step, NEW c, NEW u, NEW o, NEW s,
               Becomes(r, Request(step, c, u, o, s)),
               step \in NeedsSession /\ s \notin nested' =>
                 u = Home[s] /\ (step = "impersonate" => Home[s] \in Admins)
        PROVE  HomeInv'
    <3>1. req'[r] = Request(step, c, u, o, s)
          BY <2>b, <1>0 DEF Becomes, TypeOK
    <3>2. CarriesHome(r)'
          BY <2>b, <3>1 DEF CarriesHome, Request
    <3> QED BY <3>2, <2>0, <2>n, <2>b, <1>a
  <2>h. \A s \in Sessions : s \notin nested =>
          \/ /\ session[s].user = Home[s] /\ session[s].original = NoUser
             /\ ~session[s].managerMode
          \/ session[s].original = Home[s] /\ Home[s] # NoUser
    <3> SUFFICES ASSUME NEW s \in Sessions, s \notin nested
                 PROVE  \/ /\ session[s].user = Home[s] /\ session[s].original = NoUser
                           /\ ~session[s].managerMode
                        \/ session[s].original = Home[s] /\ Home[s] # NoUser
        OBVIOUS
    <3>1. CASE session[s] = HomeFlags(Home[s])
          BY <3>1, HomeFields
    <3>2. CASE Away(session[s], s)
          BY <3>2, MCAssumption DEF Away
    <3> QED BY <3>1, <3>2, <1>k
  <2> USE DEF NeedsSession
  <2>1. ASSUME NEW o \in Owners, NEW m \in Managers, Hire(r, o, m) \/ Apply(r, o, m)
        PROVE  HomeInv'
        BY <2>1, <2>b DEF Hire, Apply
  <2>2. ASSUME NEW c \in Ids, Accept(r, c) \/ Decline(r, c) \/ Resign(r, c) PROVE HomeInv'
        BY <2>2, <2>b DEF Accept, Decline, Resign
  <2>3. ASSUME NEW o \in Owners, Fire(r, o) \/ AdminFire(r, o) PROVE HomeInv'
        BY <2>3, <2>b DEF Fire, AdminFire
  <2>4. ASSUME NEW s \in Sessions, Leave(r, s) PROVE HomeInv'
        BY <2>4, <2>b, <2>h DEF Leave
  <2>5. ASSUME NEW s \in Sessions, StopImpersonate(r, s) PROVE HomeInv'
        BY <2>5, <2>b, <2>h DEF StopImpersonate
  <2>6. ASSUME NEW s \in Sessions, NEW o \in Owners, Enter(r, s, o) PROVE HomeInv'
    <3>1. s \notin nested' => Actor(s) = Home[s]
      <4>1. s \notin nested' => s \notin nested /\ (session[s].original = NoUser \/ session[s].managerMode)
            BY <2>6 DEF Enter
      <4> QED BY <4>1, <2>h DEF Actor
    <3> QED BY <3>1, <2>6, <2>b DEF Enter
  <2>7. ASSUME NEW s \in Sessions, NEW u \in Targets, StartImpersonate(r, s, u) PROVE HomeInv'
    <3>1. s \notin nested' => session[s].user = Home[s] /\ Home[s] \in Admins
      <4>1. s \notin nested' => s \notin nested /\ session[s].original = NoUser
            BY <2>7 DEF StartImpersonate
      <4> QED BY <4>1, <2>7, <2>h DEF StartImpersonate
    <3> QED BY <3>1, <2>7, <2>b DEF StartImpersonate
  <2> QED BY <1>2, <2>1, <2>2, <2>3, <2>4, <2>5, <2>6, <2>7 DEF Begin
<1>3. ASSUME NEW r \in Reqs, Progress(r) PROVE HomeInv'
  <2>r. RequestOK(r) /\ CarriesHome(r) /\ session \in [Sessions -> FlagsType]
        BY <1>0 DEF Typed, TypeOK
  <2>n. nested' = nested
        BY <1>3 DEF Progress, ClearApplications, TakeRow, HireInsert, ApplyInsert, EndCompeting,
             AcceptCommit, DeclineUpdate, RestoreSessions, EndCommit, LoadForEntry, EnterUpdate,
             ImpersonateUpdate, ReturnUpdate, LockTimeout
  <2>1. CASE RestoreSessions(r)
    <3>1. KnowsWayHome'
      <4> SUFFICES ASSUME NEW s \in Sessions, s \notin nested
                   PROVE  session'[s] = HomeFlags(Home[s]) \/ Away(session'[s], s)
          BY <2>n, <1>w
      <4>1. session'[s] = IF Restored(s, owner[req[r].id], req[r].other)
                          THEN HomeFlags(session[s].original) ELSE session[s]
            BY <2>1 DEF RestoreSessions
      <4>2. CASE Restored(s, owner[req[r].id], req[r].other)
        <5>1. session[s].managerMode
              BY <4>2 DEF Restored
        <5>2. session[s].original = Home[s]
              BY <5>1, <1>k, HomeFields DEF Away
        <5> QED BY <4>1, <4>2, <5>2
      <4>3. CASE ~Restored(s, owner[req[r].id], req[r].other)
        <5>1. session'[s] = session[s]
              BY <4>1, <4>3
        <5> QED BY <5>1, <1>k
      <4> QED BY <4>2, <4>3
    <3>2. Becomes(r, [req[r] EXCEPT !.step = "restored"])
          BY <2>1 DEF RestoreSessions, MovesTo, Becomes
    <3>3. req'[r] = [req[r] EXCEPT !.step = "restored"]
          BY <3>2, <1>0 DEF Becomes, TypeOK
    <3>4. CarriesHome(r)'
          BY <3>3, <1>0 DEF CarriesHome, TypeOK, RequestType, NeedsSession
    <3> QED BY <3>1, <3>2, <3>4, <2>n, <1>a
  <2>2. CASE EnterUpdate(r) \/ ImpersonateUpdate(r) \/ ReturnUpdate(r)
    <3>0. Done(r) /\ req[r].sess \in Sessions
          BY <2>2, <2>r DEF EnterUpdate, ImpersonateUpdate, ReturnUpdate, RequestOK, NeedsSession
    <3>h. req[r].sess \notin nested => req[r].user = Home[req[r].sess]
          BY <2>2, <2>r DEF EnterUpdate, ImpersonateUpdate, ReturnUpdate, CarriesHome, NeedsSession
    <3>1. \E f : /\ session' = [session EXCEPT ![req[r].sess] = f]
                 /\ req[r].sess \notin nested =>
                      f = HomeFlags(Home[req[r].sess]) \/ Away(f, req[r].sess)
      <4>1. CASE EnterUpdate(r)
        <5> DEFINE f == Flags(req[r].other, req[r].user, TRUE, req[r].other)
        <5>1. f.managerMode /\ f.original = req[r].user /\ f.user = f.acting
              BY DEF Flags
        <5>2. session' = [session EXCEPT ![req[r].sess] = f]
              BY <4>1 DEF EnterUpdate
        <5> HIDE DEF f
        <5> QED BY <5>1, <5>2, <3>h DEF Away
      <4>2. CASE ImpersonateUpdate(r)
        <5> DEFINE f == Flags(req[r].other, req[r].user, FALSE, NoUser)
        <5>1. ~f.managerMode /\ f.original = req[r].user /\ f.acting = NoUser
              BY DEF Flags
        <5>2. session' = [session EXCEPT ![req[r].sess] = f]
              BY <4>2 DEF ImpersonateUpdate
        <5>3. req[r].sess \notin nested => Home[req[r].sess] \in Admins
              BY <4>2, <2>r DEF ImpersonateUpdate, CarriesHome, NeedsSession
        <5> HIDE DEF f
        <5> QED BY <5>1, <5>2, <5>3, <3>h DEF Away
      <4>3. CASE ReturnUpdate(r)
            BY <4>3, <3>h DEF ReturnUpdate
      <4> QED BY <2>2, <4>1, <4>2, <4>3
    <3>2. KnowsWayHome'
      <4>1. PICK f : /\ session' = [session EXCEPT ![req[r].sess] = f]
                     /\ req[r].sess \notin nested =>
                          f = HomeFlags(Home[req[r].sess]) \/ Away(f, req[r].sess)
            BY <3>1
      <4>2. \A s \in Sessions : session'[s] = IF s = req[r].sess THEN f ELSE session[s]
            BY <4>1, <2>r
      <4> QED BY <4>1, <4>2, <1>k, <1>w, <2>n
    <3> QED BY <3>0, <3>2, <2>n, <1>b
  <2>3. CASE UNCHANGED session
    <3>1. KnowsWayHome'
          BY <2>3, <2>n, <1>k, <1>w
    <3>2. CASE EndCompeting(r) \/ ClearApplications(r) \/ TakeRow(r)
      <4>1. req'[r].step \notin NeedsSession /\ \E q : Becomes(r, q)
        <5>1. CASE EndCompeting(r)
              BY <5>1, <1>0 DEF EndCompeting, Becomes, TypeOK, RequestType, NeedsSession
        <5>2. CASE ClearApplications(r)
              BY <5>2, <1>0 DEF ClearApplications, Becomes, TypeOK, RequestType, NeedsSession
        <5>3. CASE TakeRow(r)
              BY <5>3, <1>0 DEF TakeRow, Becomes, TypeOK, RequestType, NeedsSession
        <5> QED BY <3>2, <5>1, <5>2, <5>3
      <4>2. CarriesHome(r)'
            BY <4>1 DEF CarriesHome
      <4> QED BY <4>1, <4>2, <3>1, <2>n, <1>a
    <3>3. CASE LoadForEntry(r) /\ MovesTo(r, "entering")
      <4>1. /\ req'[r] = [req[r] EXCEPT !.step = "entering"] /\ req[r].step = "enter"
            /\ \E q : Becomes(r, q)
            BY <3>3, <1>0 DEF MovesTo, TypeOK, LoadForEntry, Becomes
      <4>2. CarriesHome(r)'
            BY <4>1, <2>r, <2>n, <1>0 DEF CarriesHome, TypeOK, RequestType, NeedsSession
      <4> QED BY <4>1, <4>2, <3>1, <2>n, <1>a
    <3> QED BY <1>3, <2>1, <2>2, <2>n, <3>1, <3>2, <3>3, <1>b
            DEF Progress, HireInsert, ApplyInsert, AcceptCommit, DeclineUpdate, EndCommit,
                LoadForEntry, LockTimeout
  <2> QED BY <1>3, <2>1, <2>2, <2>3
          DEF Progress, HireInsert, ApplyInsert, ClearApplications, TakeRow, EndCompeting,
              AcceptCommit, DeclineUpdate, EndCommit, LoadForEntry, LockTimeout
<1>4. ASSUME NEW r \in Reqs, Abort(r) PROVE HomeInv'
  <2>1. KnowsWayHome'
        BY <1>4, <1>k, <1>w DEF Abort
  <2> QED BY <2>1, <1>4, <1>b DEF Abort
<1> QED BY <1>1, <1>2, <1>3, <1>4 DEF Next, vars, Tick

\* Unless it has nested accounts, a session, an administrator's included, always
\* knows the way back to the user that logged in on it.
THEOREM WayHome == Spec => []KnowsWayHome
<1>1. HomeInv => KnowsWayHome
      BY DEF HomeInv
<1> QED BY <1>1, HomeInit, HomeNext, PTL DEF Spec

-----------------------------------------------------------------------------
(* One manager.  An acceptance has seen no other active contract; once it   *)
(* has looked for competitors, every open request of that owner is one it    *)
(* holds, one it still has to take, or was committed since.                 *)

Rival(c, d) == d # c /\ owner[d] = owner[c]

AloneBut(r) ==
  /\ req[r].step \in {"accept", "competing"} =>
       \A d \in Ids : Rival(req[r].id, d) /\ status[d] = "active"
                        => d \in late \/ req[r].id \in late
  /\ req[r].step = "competing" =>
       \A d \in Ids : Rival(req[r].id, d) /\ status[d] \in Open
                        => d \in req[r].todo \cup req[r].rivals \/ d \in late

Single == Locked /\ OneManager /\ \A r \in Reqs : AloneBut(r)

LEMMA SingleInit == Init => Single
BY LockedInit DEF Init, Single, OneManager, AloneBut, NoRequest, Request

\* A row becomes active by the commit of its own acceptance only, and a request
\* that appears while an acceptance of that owner is past its search is late.
LEMMA ActiveAndOpenRows ==
  ASSUME Locked, [Next]_vars
  PROVE  /\ late \subseteq late'
         /\ \A d \in Ids : status'[d] = "active" /\ status[d] # "active"
              => \E r \in Reqs : AcceptCommit(r) /\ req[r].id = d /\ status[d] \in Open
         /\ \A d \in Ids : status'[d] \in Open /\ status[d] \notin Open
              => (Accepting(owner'[d]) => d \in late')
<1>0. TypeOK /\ \A r \in Reqs : RequestOK(r) /\ RowHeld(r)
      BY DEF Locked, Typed
<1> USE <1>0 DEF TypeOK, rows, Open
<1>1. CASE UNCHANGED <<rows, late>>
      BY <1>1
<1>2. ASSUME NEW r \in Reqs, NEW c \in Ids, NEW o, NEW m, NEW S, NEW ends,
             Insert(c, o, m, S, ends), S # "active"
      PROVE  /\ late \subseteq late'
             /\ \A d \in Ids : status'[d] = "active" => status[d] = "active"
             /\ \A d \in Ids : status'[d] \in Open /\ status[d] \notin Open
                  => (Accepting(owner'[d]) => d \in late')
  <2>1. ASSUME NEW d \in Ids, d # c PROVE status'[d] = status[d] \/ status'[d] = "ended"
        BY <1>2, <2>1 DEF Insert
  <2>2. late \subseteq late' /\ status'[c] = S /\ owner'[c] = o
        BY <1>2 DEF Insert
  <2>3. Accepting(o) => c \in late'
        BY <1>2 DEF Insert
  <2> QED BY <1>2, <2>1, <2>2, <2>3
<1>3. ASSUME NEW r \in Reqs, HireInsert(r)
      PROVE  /\ late \subseteq late'
             /\ \A d \in Ids : status'[d] = "active" => status[d] = "active"
             /\ \A d \in Ids : status'[d] \in Open /\ status[d] \notin Open
                  => (Accepting(owner'[d]) => d \in late')
  <2>1. PICK c \in Ids : Insert(c, req[r].user, req[r].other, "pending", req[r].rivals)
        BY <1>3 DEF HireInsert
  <2>2. "pending" # "active"
        OBVIOUS
  <2> HIDE DEF Open
  <2> QED BY <2>1, <2>2, <1>2
<1>4. ASSUME NEW r \in Reqs, ApplyInsert(r)
      PROVE  /\ late \subseteq late'
             /\ \A d \in Ids : status'[d] = "active" => status[d] = "active"
             /\ \A d \in Ids : status'[d] \in Open /\ status[d] \notin Open
                  => (Accepting(owner'[d]) => d \in late')
  <2>1. PICK c \in Ids : Insert(c, req[r].user, req[r].other, "applied", {})
        BY <1>4 DEF ApplyInsert
  <2>2. "applied" # "active"
        OBVIOUS
  <2> HIDE DEF Open
  <2> QED BY <2>1, <2>2, <1>2
<1>5. ASSUME NEW r \in Reqs, AcceptCommit(r)
      PROVE  /\ late' = late
             /\ \A d \in Ids : status'[d] = status[d] \/ status'[d] = "ended"
                               \/ (d = req[r].id /\ status'[d] = "active" /\ status[d] \in Open)
      BY <1>5 DEF AcceptCommit, RowHeld
<1>6. ASSUME NEW r \in Reqs, DeclineUpdate(r) \/ EndCommit(r)
      PROVE  /\ late' = late
             /\ \A d \in Ids : status'[d] = status[d] \/ status'[d] = "ended"
      BY <1>6 DEF DeclineUpdate, EndCommit
<1>7. ASSUME NEW r \in Reqs, Progress(r)
      PROVE  HireInsert(r) \/ ApplyInsert(r) \/ AcceptCommit(r) \/ DeclineUpdate(r)
             \/ EndCommit(r) \/ UNCHANGED <<rows, late>>
      BY <1>7 DEF Progress, ClearApplications, TakeRow, EndCompeting, RestoreSessions, LoadForEntry, EnterUpdate,
                  ImpersonateUpdate, ReturnUpdate, LockTimeout
<1>8. \/ UNCHANGED <<rows, late>>
      \/ \E r \in Reqs : Progress(r)
      BY Beginnings DEF Next, vars, Tick, Abort
<1> QED BY <1>1, <1>3, <1>4, <1>5, <1>6, <1>7, <1>8

LEMMA SingleNext == Single /\ [Next]_vars => Single'
<1> SUFFICES ASSUME Single, [Next]_vars PROVE Single'
    OBVIOUS
<1>0. /\ Locked' /\ Locked /\ Typed /\ TypeOK /\ OneManager
      /\ \A r \in Reqs : AloneBut(r) /\ RowHeld(r) /\ RequestOK(r)
      BY LockedNext DEF Single, Locked, Typed
<1>1. late \subseteq late'
      BY <1>0, ActiveAndOpenRows
<1>2. ASSUME NEW c \in Ids, status[c] # "absent"
      PROVE  status'[c] # "absent" /\ owner'[c] = owner[c]
      BY <1>0, <1>2, RowsStay
<1>3. ASSUME NEW r \in Reqs, AcceptCommit(r), NEW d \in Ids, status[d] = "active",
             Rival(req[r].id, d)
      PROVE  d \in late \/ req[r].id \in late
      BY <1>3, <1>0 DEF AcceptCommit, AloneBut
<1>4. OneManager'
  <2> SUFFICES ASSUME NEW c \in Ids, NEW d \in Ids, c # d, owner'[c] = owner'[d],
                      status'[c] = "active", status'[d] = "active"
               PROVE  c \in late' \/ d \in late'
      BY DEF OneManager
  <2>1. CASE status[c] = "active" /\ status[d] = "active"
        BY <2>1, <1>0, <1>1, <1>2 DEF OneManager
  <2>2. CASE status[c] # "active"
    <3>1. PICK r \in Reqs : AcceptCommit(r) /\ req[r].id = c /\ status[c] \in Open
          BY <2>2, <1>0, ActiveAndOpenRows
    <3>2. status[d] = "active"
      <4>1. status'[d] = "active" /\ d # req[r].id
            BY <3>1
      <4> QED BY <4>1, <3>1, <1>0 DEF AcceptCommit, TypeOK
    <3>3. Rival(c, d)
          BY <3>1, <3>2, <1>2 DEF Rival, Open
    <3> QED BY <3>1, <3>2, <3>3, <1>3, <1>1
  <2>3. CASE status[d] # "active"
    <3>1. PICK r \in Reqs : AcceptCommit(r) /\ req[r].id = d /\ status[d] \in Open
          BY <2>3, <1>0, ActiveAndOpenRows
    <3>2. status[c] = "active"
      <4>1. status'[c] = "active" /\ c # req[r].id
            BY <3>1
      <4> QED BY <4>1, <3>1, <1>0 DEF AcceptCommit, TypeOK
    <3>3. Rival(d, c)
          BY <3>1, <3>2, <1>2 DEF Rival, Open
    <3> QED BY <3>1, <3>2, <3>3, <1>3, <1>1
  <2> QED BY <2>1, <2>2, <2>3
\* A request that keeps its record keeps what it knows.
<1>5. ASSUME NEW p \in Reqs, req'[p] = req[p] PROVE AloneBut(p)'
  <2> SUFFICES ASSUME req[p].step \in {"accept", "competing"} PROVE AloneBut(p)'
      BY <1>5 DEF AloneBut
  <2> DEFINE c == req[p].id
  <2>0. c \in Ids /\ status[c] \in Open /\ Holds(p, c)
        BY <1>0 DEF RequestOK, NeedsRow, RowHeld, Holds, InTx
  <2>1. owner'[c] = owner[c]
        BY <2>0, <1>2 DEF Open
  <2>2. ASSUME NEW d \in Ids, d # c, owner'[d] = owner'[c], status'[d] = "active"
        PROVE  d \in late' \/ c \in late'
    <3>1. CASE status[d] = "active"
          BY <3>1, <2>1, <2>2, <1>0, <1>1, <1>2 DEF AloneBut, Rival
    <3>2. CASE status[d] # "active"
      <4>1. PICK r \in Reqs : AcceptCommit(r) /\ req[r].id = d /\ status[d] \in Open
            BY <3>2, <2>2, <1>0, ActiveAndOpenRows
      <4>2. p # r
            BY <4>1, <2>2
      <4>3. c \notin req[r].rivals
            BY <4>1, <4>2, <2>0, <1>0 DEF Locked, Disjoint, Holds, AcceptCommit, InTx
      <4>4. Rival(d, c)
            BY <4>1, <2>1, <2>2, <1>2 DEF Rival, Open
      <4> QED BY <4>1, <4>3, <4>4, <2>0, <1>0, <1>1 DEF AloneBut, AcceptCommit
    <3> QED BY <3>1, <3>2
  <2>3. ASSUME req[p].step = "competing", NEW d \in Ids, d # c, owner'[d] = owner'[c],
               status'[d] \in Open
        PROVE  d \in req[p].todo \cup req[p].rivals \/ d \in late'
    <3>1. CASE status[d] \in Open
          BY <3>1, <2>1, <2>3, <1>0, <1>1, <1>2 DEF AloneBut, Rival, Open
    <3>2. CASE status[d] \notin Open
      <4>1. Accepting(owner'[d])
            BY <2>1, <2>3 DEF Accepting
      <4> QED BY <4>1, <3>2, <2>3, <1>0, ActiveAndOpenRows
    <3> QED BY <3>1, <3>2
  <2> QED BY <1>5, <2>2, <2>3 DEF AloneBut, Rival
<1>6. CASE UNCHANGED req
      BY <1>0, <1>4, <1>5, <1>6 DEF Single
<1>7. ASSUME NEW r \in Reqs, Begin(r) \/ Progress(r) \/ Abort(r) PROVE Single'
  <2>1. \A p \in Reqs : p # r => AloneBut(p)'
        BY <1>7, <1>5, <1>0, RequestsKept
  <2>2. AloneBut(r)'
    <3>1. CASE req'[r].step \notin {"accept", "competing"}
          BY <3>1 DEF AloneBut
    <3>2. ASSUME NEW c \in Ids, Accept(r, c) PROVE AloneBut(r)'
      <4>1. req'[r].step = "accept" /\ req'[r].id = c /\ UNCHANGED <<rows, late>>
            BY <3>2, <1>0 DEF Accept, Becomes, Request, TypeOK
      <4>2. \A d \in Ids : Rival(c, d) => status[d] # "active"
            BY <3>2 DEF Accept, OwnerBusy, Rows, Rival
      <4> QED BY <4>1, <4>2 DEF AloneBut, Rival, rows
    <3>3. CASE EndCompeting(r)
      <4>1. /\ req'[r] = [req[r] EXCEPT !.step = "competing", !.todo = Competing(req[r].id),
                                        !.until = now + LockDays]
            /\ UNCHANGED <<rows, late>> /\ req[r].step = "accept"
            BY <3>3, <1>0 DEF EndCompeting, Becomes, TypeOK
      <4>2. req'[r].id = req[r].id /\ req'[r].todo = Competing(req[r].id)
            BY <4>1, <1>0 DEF TypeOK, RequestType
      <4>3. \A d \in Ids : Rival(req[r].id, d) /\ status[d] \in Open => d \in Competing(req[r].id)
            BY DEF Rival, Competing, Rows
      <4>4. AloneBut(r)
            BY <1>0
      <4> QED BY <4>1, <4>2, <4>3, <4>4 DEF AloneBut, Rival, rows
    <3>8. CASE TakeRow(r)
      <4>1. CASE req[r].step = "clearing"
            BY <4>1, <3>8, <3>1, <1>0 DEF TakeRow, Becomes, TypeOK, RequestType
      <4>2. CASE req[r].step = "competing"
        <5>1. PICK d \in req[r].todo :
                /\ UNCHANGED <<rows, late>>
                /\ Becomes(r, [req[r] EXCEPT !.todo = @ \ {d},
                                !.rivals = IF status[d] \in Sought(r) THEN @ \cup {d} ELSE @])
              BY <3>8 DEF TakeRow
        <5>2. /\ req'[r].step = "competing" /\ req'[r].id = req[r].id
              /\ req'[r].todo = req[r].todo \ {d}
              /\ req'[r].rivals = IF status[d] \in Open THEN req[r].rivals \cup {d}
                                                        ELSE req[r].rivals
              BY <5>1, <4>2, <1>0 DEF Becomes, TypeOK, RequestType, Sought
        <5>3. AloneBut(r)
              BY <1>0
        <5>4. \A e \in Ids : status[e] \in Open /\ e \in req[r].todo \cup req[r].rivals
                => e \in req'[r].todo \cup req'[r].rivals
              BY <5>2
        <5> QED BY <4>2, <5>1, <5>2, <5>3, <5>4 DEF AloneBut, Rival, rows
      <4> QED BY <4>1, <4>2, <3>8 DEF TakeRow
    <3>9. CASE ClearApplications(r)
          BY <3>9, <3>1, <1>0 DEF ClearApplications, Becomes, TypeOK, RequestType
    <3>4. CASE Done(r)
          BY <3>4, <3>1, <1>0 DEF Done, Becomes, NoRequest, Request, TypeOK
    <3>5. CASE \E step \in Steps \ {"accept", "competing"} : req'[r].step = step
          BY <3>5, <3>1
    <3>6. CASE Begin(r)
      <4>1. ASSUME NEW step, NEW c, NEW u, NEW o, NEW s,
                   Becomes(r, Request(step, c, u, o, s)), step \notin {"accept", "competing"}
            PROVE  AloneBut(r)'
            BY <4>1, <3>1, <1>0 DEF Becomes, Request, TypeOK
      <4> QED BY <3>6, <3>2, <4>1
              DEF Begin, Hire, Apply, Decline, Resign, Fire, AdminFire, Leave,
                  StopImpersonate, Enter, StartImpersonate
    <3>7. CASE RestoreSessions(r) \/ (LoadForEntry(r) /\ MovesTo(r, "entering"))
          BY <3>7, <3>1, <1>0 DEF RestoreSessions, MovesTo, TypeOK, RequestType
    <3> QED BY <1>7, <3>3, <3>4, <3>6, <3>7, <3>8, <3>9
            DEF Progress, Abort, HireInsert, ApplyInsert, AcceptCommit, DeclineUpdate,
                EndCommit, LoadForEntry, EnterUpdate, ImpersonateUpdate, ReturnUpdate,
                LockTimeout
  <2> QED BY <1>0, <1>4, <2>1, <2>2 DEF Single
<1> QED BY <1>6, <1>7 DEF Next, vars, Tick

\* An owner has one active manager, but for requests committed while another
\* acceptance was past its search for competitors.
THEOREM OneManagerAtATime == Spec => []OneManager
<1>1. Single => OneManager
      BY DEF Single
<1> QED BY <1>1, SingleInit, SingleNext, PTL DEF Spec

-----------------------------------------------------------------------------
(* Sessions inside an account.  A session that was not overtaken has a       *)
(* contract behind it which no transaction that has already sent the         *)
(* sessions home is about to end.                                            *)

NotEnding(c) == \A r \in Reqs : ~(req[r].step = "restored" /\ req[r].id = c)
Backs(c, s) == /\ owner[c] = session[s].acting /\ manager[c] = session[s].original
               /\ status[c] = "active" /\ NotEnding(c)
Backed(s) ==
  Inside(s) => /\ session[s].original # NoUser
               /\ s \in overtaken \/ \E c \in Ids : Backs(c, s)
AllBacked == Locked /\ \A s \in Sessions : Backed(s)

LEMMA BackedInit == Init => AllBacked
BY LockedInit, HomeFields, MCAssumption DEF Init, AllBacked, Backed, Inside

\* An active row stops being so by a commit that ends it, or by a late decline.
LEMMA ActiveRowsEnd ==
  ASSUME Locked, NEW r \in Reqs, Progress(r), NEW c \in Ids,
         status[c] = "active", status'[c] # "active"
  PROVE  req[r].id = c /\ (EndCommit(r) \/ DeclineUpdate(r))
<1>0. TypeOK /\ RequestOK(r) /\ RowHeld(r)
      BY DEF Locked, Typed
<1> USE <1>0 DEF TypeOK, rows
<1>1. CASE HireInsert(r)
      BY <1>1 DEF HireInsert, Insert, NextId, RowHeld, Open
<1>2. CASE ApplyInsert(r)
      BY <1>2 DEF ApplyInsert, Insert, NextId
<1>3. CASE AcceptCommit(r)
      BY <1>3 DEF AcceptCommit, RowHeld, Open
<1>4. CASE DeclineUpdate(r)
      BY <1>4 DEF DeclineUpdate
<1>5. CASE EndCommit(r)
      BY <1>5 DEF EndCommit
<1>6. CASE UNCHANGED status
      BY <1>6
<1> QED BY <1>1, <1>2, <1>3, <1>4, <1>5, <1>6
        DEF Progress, ClearApplications, TakeRow, EndCompeting, RestoreSessions, LoadForEntry, EnterUpdate,
            ImpersonateUpdate, ReturnUpdate, LockTimeout

\* Only RestoreSessions makes a request one that is about to end its row.
LEMMA EndingBegins ==
  ASSUME Locked, NEW r \in Reqs, Begin(r) \/ Progress(r) \/ Abort(r), ~RestoreSessions(r),
         NEW c \in Ids, NotEnding(c)
  PROVE  NotEnding(c)'
<1>0. TypeOK /\ req \in [Reqs -> RequestType]
      BY DEF Locked, Typed, TypeOK
<1>1. \A p \in Reqs : p # r => req'[p] = req[p]
      BY RequestsKept
<1>2. req'[r].step # "restored" \/ req'[r] = req[r]
  <2>1. CASE Begin(r)
        BY <2>1, <1>0 DEF Begin, Hire, Apply, Accept, Decline, Resign, Fire, AdminFire, Leave,
             StopImpersonate, Enter, StartImpersonate, Becomes, Request
  <2>2. CASE Done(r)
        BY <2>2, <1>0 DEF Done, Becomes, NoRequest, Request
  <2>3. CASE EndCompeting(r)
        BY <2>3, <1>0 DEF EndCompeting, Becomes, RequestType
  <2>4. CASE LoadForEntry(r)
        BY <2>4, <2>2, <1>0 DEF LoadForEntry, MovesTo, RequestType
  <2>5. CASE ClearApplications(r) \/ TakeRow(r)
        BY <2>5, <1>0 DEF ClearApplications, TakeRow, Becomes, RequestType
  <2> QED BY <2>1, <2>2, <2>3, <2>4, <2>5
          DEF Progress, Abort, HireInsert, ApplyInsert, AcceptCommit, DeclineUpdate, EndCommit,
              EnterUpdate, ImpersonateUpdate, ReturnUpdate, LockTimeout
<1> QED BY <1>1, <1>2 DEF NotEnding

\* A session whose flags a step leaves alone keeps what backs it, or is overtaken.
LEMMA UntouchedBacked ==
  ASSUME Locked, [Next]_vars, NEW r \in Reqs, Begin(r) \/ Progress(r) \/ Abort(r), ~RestoreSessions(r),
         NEW s \in Sessions, Backed(s), session'[s] = session[s],
         s \in overtaken => s \in overtaken'
  PROVE  Backed(s)'
<1> SUFFICES ASSUME Inside(s), s \notin overtaken' PROVE \E c \in Ids : Backs(c, s)'
    BY DEF Backed, Inside
<1>1. PICK c \in Ids : Backs(c, s)
      BY DEF Backed
<1>2. owner'[c] = owner[c] /\ manager'[c] = manager[c] /\ NotEnding(c)'
      BY <1>1, RowsStay, EndingBegins DEF Backs
<1>3. status'[c] = "active"
  <2> SUFFICES ASSUME status'[c] # "active" PROVE FALSE
      OBVIOUS
  <2>1. Progress(r)
        BY <1>1, Beginnings DEF Backs, Abort, rows
  <2>2. req[r].id = c /\ (EndCommit(r) \/ DeclineUpdate(r))
        BY <1>1, <2>1, ActiveRowsEnd DEF Backs
  <2>3. CASE EndCommit(r)
        BY <1>1, <2>2, <2>3 DEF Backs, NotEnding, EndCommit
  <2>4. CASE DeclineUpdate(r)
        BY <1>1, <2>2, <2>4 DEF Backs, Inside, DeclineUpdate, ActingFor
  <2> QED BY <2>2, <2>3, <2>4
<1> QED BY <1>1, <1>2, <1>3 DEF Backs

LEMMA BackedNext == AllBacked /\ [Next]_vars => AllBacked'
<1> SUFFICES ASSUME AllBacked, [Next]_vars, NEW s \in Sessions PROVE Backed(s)'
    BY LockedNext DEF AllBacked
<1>0. Locked /\ TypeOK /\ Backed(s) /\ session \in [Sessions -> FlagsType]
      BY DEF AllBacked, Locked, Typed, TypeOK
<1>1. CASE UNCHANGED <<rows, session, req, overtaken>>
      BY <1>0, <1>1 DEF rows, Backed, Inside, Backs, NotEnding
<1>2. ASSUME NEW r \in Reqs, Begin(r) \/ Abort(r) PROVE Backed(s)'
  <2>1. session'[s] = session[s] /\ overtaken' = overtaken /\ ~RestoreSessions(r)
    <3>1. CASE Begin(r)
          BY <3>1, Beginnings DEF RestoreSessions, Idle
    <3>2. CASE Abort(r)
      <4>1. req' = [req EXCEPT ![r] = NoRequest] /\ req \in [Reqs -> RequestType]
            BY <1>0, <3>2 DEF Abort, Done, Becomes, TypeOK
      <4>2. RestoreSessions(r) => req'[r].step = "restored"
            BY <1>0, <4>1 DEF RestoreSessions, MovesTo, RequestType
      <4> QED BY <3>2, <4>1, <4>2 DEF Abort, NoRequest, Request
    <3> QED BY <1>2, <3>1, <3>2
  <2> QED BY <1>0, <1>2, <2>1, UntouchedBacked
<1>3. ASSUME NEW r \in Reqs, Progress(r) PROVE Backed(s)'
  <2>1. CASE RestoreSessions(r)
    <3>1. RowHeld(r) /\ RequestOK(r)
          BY <1>0 DEF Locked, Typed
    <3>2. CASE Restored(s, owner[req[r].id], req[r].other)
          BY <1>0, <2>1, <3>2, HomeFields DEF RestoreSessions, Backed, Inside
    <3>3. CASE ~Restored(s, owner[req[r].id], req[r].other)
      <4>1. session'[s] = session[s] /\ UNCHANGED <<rows, overtaken>>
            BY <2>1, <3>3 DEF RestoreSessions
      <4>2. ASSUME NEW c \in Ids, Inside(s), session[s].original # NoUser, Backs(c, s)
            PROVE  Backs(c, s)'
        <5>1. req[r].id # c
              BY <2>1, <3>1, <3>3, <4>2 DEF Restored, Backs, Inside, RowHeld, RestoreSessions
        <5>2. \A p \in Reqs : p # r => req'[p] = req[p]
              BY <1>0, <1>3, RequestsKept
        <5>3. req'[r].id = req[r].id
              BY <1>0, <2>1 DEF RestoreSessions, MovesTo, TypeOK, RequestType
        <5>4. NotEnding(c)'
              BY <4>2, <5>1, <5>2, <5>3 DEF Backs, NotEnding
        <5> QED BY <4>1, <4>2, <5>4 DEF Backs, rows
      <4> QED BY <1>0, <4>1, <4>2 DEF Backed, Inside
    <3> QED BY <3>2, <3>3
  <2>2. CASE EnterUpdate(r) /\ req[r].sess = s
    <3>1. session'[s] = Flags(req[r].other, req[r].user, TRUE, req[r].other)
          BY <1>0, <2>2 DEF EnterUpdate
    <3>2. req[r].user # NoUser
          BY <1>0, <2>2, MCAssumption DEF Locked, Typed, RequestOK, NeedsSession, EnterUpdate
    <3>3. CASE EntryOvertaken(req[r].other, req[r].user)
          BY <2>2, <3>1, <3>2, <3>3 DEF EnterUpdate, Backed, Flags
    <3>4. CASE ~EntryOvertaken(req[r].other, req[r].user)
      <4>1. PICK c \in Ids : /\ owner[c] = req[r].other /\ manager[c] = req[r].user
                             /\ status[c] = "active" /\ NotEnding(c)
            BY <3>4 DEF EntryOvertaken, Rows, NotEnding
      <4>2. ~RestoreSessions(r)
            BY <2>2 DEF EnterUpdate, RestoreSessions
      <4>3. NotEnding(c)'
            BY <1>0, <1>3, <4>1, <4>2, EndingBegins
      <4>4. UNCHANGED rows
            BY <2>2 DEF EnterUpdate
      <4>5. Backs(c, s)'
            BY <3>1, <4>1, <4>3, <4>4 DEF Backs, rows, Flags
      <4> QED BY <3>1, <3>2, <4>5 DEF Backed, Flags
    <3> QED BY <3>3, <3>4
  <2>3. CASE (ImpersonateUpdate(r) \/ ReturnUpdate(r)) /\ req[r].sess = s
        BY <1>0, <2>3, HomeFields DEF ImpersonateUpdate, ReturnUpdate, Backed, Inside, Flags
  <2>4. CASE /\ EnterUpdate(r) \/ ImpersonateUpdate(r) \/ ReturnUpdate(r)
             /\ req[r].sess # s
    <3>1. session'[s] = session[s] /\ (s \in overtaken => s \in overtaken') /\ ~RestoreSessions(r)
          BY <1>0, <2>4 DEF EnterUpdate, ImpersonateUpdate, ReturnUpdate, RestoreSessions
    <3> QED BY <1>0, <1>3, <3>1, UntouchedBacked
  <2>5. CASE /\ ~RestoreSessions(r) /\ ~EnterUpdate(r) /\ ~ImpersonateUpdate(r) /\ ~ReturnUpdate(r)
    <3>1. session'[s] = session[s] /\ (s \in overtaken => s \in overtaken')
          BY <1>3, <2>5 DEF Progress, HireInsert, ApplyInsert, ClearApplications, TakeRow, EndCompeting, AcceptCommit,
               DeclineUpdate, EndCommit, LoadForEntry, LockTimeout
    <3> QED BY <1>0, <1>3, <2>5, <3>1, UntouchedBacked
  <2> QED BY <2>1, <2>2, <2>3, <2>4, <2>5
<1> QED BY <1>1, <1>2, <1>3 DEF Next, vars, Tick

\* A session stays inside an account without a contract only when it was
\* overtaken between its check and its write, or its contract by a late decline.
THEOREM OnlyRacesStrand == Spec => []StrandedOnlyByRace
<1>1. AllBacked => StrandedOnlyByRace
      BY DEF AllBacked, Backed, Backs, StrandedOnlyByRace, Contracted, Rows
<1> QED BY <1>1, BackedInit, BackedNext, PTL DEF Spec

=============================================================================
