-------------------------- MODULE ManagerContracts --------------------------
(***************************************************************************)
(* Account managers (gerente): the rows of account_manager_contracts and   *)
(* the login sessions that act for somebody else.  An owner hires or a     *)
(* player applies, the other side accepts or declines, the contract is     *)
(* fired, resigned or ended by the support; a manager's session enters and *)
(* leaves the owner's account, and an administrator's session impersonates *)
(* a player.  Both features keep the way back in sessions.original_user_id.*)
(*                                                                         *)
(* A request is a record that remembers what it has read.  Statements that *)
(* commit at once are one step; in a transaction the rows it has changed   *)
(* stay locked, with their old committed contents, until it commits.  An    *)
(* UPDATE of many rows finds them as it starts, then waits for each and     *)
(* looks at it again (READ COMMITTED).                                      *)
(***************************************************************************)
EXTENDS Integers, FiniteSets

CONSTANTS Users, Owners, Managers, Admins,  \* who takes which part
          Targets,                          \* whom the support impersonates
          Sessions, Home,                   \* Home[s]: the user that logged in on s
          Ids, Reqs, LockDays, MaxTime,
          NoUser, NoId, NoSession

ASSUME MCAssumption ==
  /\ Owners \cup Managers \cup Admins \cup Targets \subseteq Users
  /\ Home \in [Sessions -> Users]
  /\ Ids \subseteq Nat /\ IsFiniteSet(Ids) /\ LockDays \in Nat /\ MaxTime \in Nat
  /\ NoUser \notin Users /\ NoId \notin Ids /\ NoSession \notin Sessions

VARIABLES
  owner, manager, status, fireLockedUntil,  \* the columns of a contract row
  session,     \* session row: user_id, original_user_id, manager_mode, acting_as_owner_id
  req,         \* what each request in progress has read and done
  now,         \* the clock, in days
  late,        \* history: rows committed while an acceptance of that owner had
               \* already looked for competing requests
  overtaken,   \* history: sessions whose entry, or whose contract, was overtaken
  nested       \* history: sessions that began to impersonate from inside another
               \* account, or to enter an account while impersonating

rows == <<owner, manager, status, fireLockedUntil>>
vars == <<rows, session, req, now, late, overtaken, nested>>

Open == {"pending", "applied"}
Status == Open \cup {"absent", "active", "ended"}
Steps == {"idle", "hire", "clearing", "apply", "accept", "competing", "decline", "fire",
          "restored", "enter", "entering", "leave", "impersonate", "stop"}
\* In a transaction that holds the row req.id and the rows req.rivals.
InTx == {"clearing", "accept", "competing", "fire", "restored"}

Request(step, c, u, o, s) ==
  [step |-> step, id |-> c, user |-> u, other |-> o, sess |-> s,
   todo |-> {}, rivals |-> {}, until |-> 0]
NoRequest == Request("idle", NoId, NoUser, NoUser, NoSession)

Flags(u, o, m, a) == [user |-> u, original |-> o, managerMode |-> m, acting |-> a]
HomeFlags(u) == Flags(u, NoUser, FALSE, NoUser)

RequestType == [step : Steps, id : Ids \cup {NoId}, user : Users \cup {NoUser},
                other : Users \cup {NoUser}, sess : Sessions \cup {NoSession},
                todo : SUBSET Ids, rivals : SUBSET Ids, until : Nat]
FlagsType == [user : Users, original : Users \cup {NoUser},
              managerMode : BOOLEAN, acting : Users \cup {NoUser}]

TypeOK ==
  /\ owner \in [Ids -> Users \cup {NoUser}] /\ manager \in [Ids -> Users \cup {NoUser}]
  /\ status \in [Ids -> Status]
  /\ fireLockedUntil \in [Ids -> Nat]
  /\ session \in [Sessions -> FlagsType]
  /\ req \in [Reqs -> RequestType]
  /\ now \in Nat
  /\ late \subseteq Ids /\ overtaken \subseteq Sessions /\ nested \subseteq Sessions

Init ==
  /\ owner = [c \in Ids |-> NoUser] /\ manager = [c \in Ids |-> NoUser]
  /\ status = [c \in Ids |-> "absent"]
  /\ fireLockedUntil = [c \in Ids |-> 0]
  /\ session = [s \in Sessions |-> HomeFlags(Home[s])]
  /\ req = [r \in Reqs |-> NoRequest]
  /\ now = 0 /\ late = {} /\ overtaken = {} /\ nested = {}

-----------------------------------------------------------------------------
(* Rows and locks *)

Rows(o, S) == {c \in Ids : owner[c] = o /\ status[c] \in S}
Holds(r, c) == req[r].step \in InTx /\ (req[r].id = c \/ c \in req[r].rivals)
NoRowLock(c) == TRUE                       \* fault: no FOR UPDATE
Unlocked(c) == \A r \in Reqs : ~Holds(r, c)

Idle(r) == req[r].step = "idle"
Becomes(r, q) == req' = [req EXCEPT ![r] = q]
MovesTo(r, step) == req' = [req EXCEPT ![r].step = step]
Done(r) == Becomes(r, NoRequest)

\* The UPDATE of many rows: it found req.todo as it started; it takes them one
\* by one, waiting for each, and changes those that are still what it looks for.
Sought(r) == IF req[r].step = "clearing" THEN {"applied"} ELSE Open
TakeRow(r) ==
  /\ req[r].step \in {"clearing", "competing"}
  /\ \E d \in req[r].todo :
       /\ Unlocked(d)
       /\ Becomes(r, [req[r] EXCEPT !.todo = @ \ {d},
                         !.rivals = IF status[d] \in Sought(r) THEN @ \cup {d} ELSE @])
  /\ UNCHANGED <<rows, session, now, late, overtaken, nested>>

\* An acceptance of one of o's requests is past its search for competitors.
Accepting(o) == \E r \in Reqs : req[r].step = "competing" /\ owner[req[r].id] = o

\* INSERT of the row: the first id not used, seen by others from the commit.
NextId(c) == status[c] = "absent" /\ \A d \in Ids : d < c => status[d] # "absent"
\* Bound of the model, not of the code: a proposal begins while ids are left.
IdsLeft == Cardinality({r \in Reqs : req[r].step \in {"hire", "clearing", "apply"}})
             < Cardinality({c \in Ids : status[c] = "absent"})
Insert(c, o, m, S, ends) ==
  /\ owner' = [owner EXCEPT ![c] = o]
  /\ manager' = [manager EXCEPT ![c] = m]
  /\ status' = [d \in Ids |-> IF d = c THEN S ELSE IF d \in ends THEN "ended" ELSE status[d]]
  /\ late' = IF Accepting(o) THEN late \cup {c} ELSE late
  /\ UNCHANGED fireLockedUntil

-----------------------------------------------------------------------------
(* Proposals *)

\* hireManager, the check: no invitation and no contract of this owner.
Hire(r, o, m) ==
  /\ Idle(r) /\ o # m /\ IdsLeft
  /\ Rows(o, {"pending", "active"}) = {}
  /\ Becomes(r, Request("hire", NoId, o, m, NoSession))
  /\ UNCHANGED <<rows, session, now, late, overtaken, nested>>

\* The invitation takes priority: open applications to this owner end with it.
ClearApplications(r) ==
  /\ req[r].step = "hire"
  /\ Becomes(r, [req[r] EXCEPT !.step = "clearing", !.todo = Rows(req[r].user, {"applied"})])
  /\ UNCHANGED <<rows, session, now, late, overtaken, nested>>

HireInsert(r) ==
  LET q == req[r] IN
  /\ q.step = "clearing" /\ q.todo = {}
  /\ \E c \in Ids : NextId(c) /\ Insert(c, q.user, q.other, "pending", q.rivals)
  /\ Done(r)
  /\ UNCHANGED <<session, now, overtaken, nested>>

\* applyAsManager: the owner is free and this player has not applied already.
Apply(r, o, m) ==
  /\ Idle(r) /\ o # m /\ IdsLeft
  /\ Rows(o, {"pending", "active"}) = {}
  /\ \A c \in Rows(o, {"applied"}) : manager[c] # m
  /\ Becomes(r, Request("apply", NoId, o, m, NoSession))
  /\ UNCHANGED <<rows, session, now, late, overtaken, nested>>

ApplyInsert(r) ==
  /\ req[r].step = "apply"
  /\ \E c \in Ids : NextId(c) /\ Insert(c, req[r].user, req[r].other, "applied", {})
  /\ Done(r)
  /\ UNCHANGED <<session, now, overtaken, nested>>

-----------------------------------------------------------------------------
(* Answers: an invitation is the manager's to answer, an application the owner's *)

NeverBusy(c) == FALSE                      \* fault: no look at other contracts
OwnerBusy(c) == \E d \in Rows(owner[c], {"active"}) : d # c

\* acceptContract: the row FOR UPDATE, its status, and no other manager.
Accept(r, c) ==
  /\ Idle(r) /\ Unlocked(c)
  /\ status[c] \in Open
  /\ ~OwnerBusy(c)
  /\ Becomes(r, Request("accept", c, NoUser, NoUser, NoSession))
  /\ UNCHANGED <<rows, session, now, late, overtaken, nested>>

\* endOpenCompetingForOwner: what is committed from here on is not found.
Competing(c) == Rows(owner[c], Open) \ {c}
EndCompeting(r) ==
  /\ req[r].step = "accept"
  /\ Becomes(r, [req[r] EXCEPT !.step = "competing", !.todo = Competing(req[r].id),
                               !.until = now + LockDays])
  /\ UNCHANGED <<rows, session, now, late, overtaken, nested>>

AcceptCommit(r) ==
  LET q == req[r] IN
  /\ q.step = "competing" /\ q.todo = {}
  /\ status' = [d \in Ids |-> IF d = q.id THEN "active"
                              ELSE IF d \in q.rivals THEN "ended" ELSE status[d]]
  /\ fireLockedUntil' = [fireLockedUntil EXCEPT ![q.id] = q.until]
  /\ Done(r)
  /\ UNCHANGED <<owner, manager, session, now, late, overtaken, nested>>

\* declineContract reads the row without a lock ...
Decline(r, c) ==
  /\ Idle(r) /\ status[c] \in Open
  /\ Becomes(r, Request("decline", c, NoUser, NoUser, NoSession))
  /\ UNCHANGED <<rows, session, now, late, overtaken, nested>>

ActingFor(o, m) == {s \in Sessions : /\ session[s].managerMode
                                     /\ session[s].acting = o
                                     /\ session[s].original = m}

\* ... and ends it by its id, whatever it has become meanwhile.
DeclineUpdate(r) ==
  LET c == req[r].id IN
  /\ req[r].step = "decline" /\ Unlocked(c)
  /\ status' = [status EXCEPT ![c] = "ended"]
  /\ overtaken' = IF status[c] = "active"
                  THEN overtaken \cup ActingFor(owner[c], manager[c]) ELSE overtaken
  /\ Done(r)
  /\ UNCHANGED <<owner, manager, fireLockedUntil, session, now, late, nested>>

-----------------------------------------------------------------------------
(* Endings: the row is marked ended, the sessions inside are sent home by    *)
(* the auth worker, and only then the transaction commits.                   *)

FireAnyTime(r, o) ==                       \* fault: fire_locked_until not read
  /\ Idle(r)
  /\ \E c \in Rows(o, {"active"}) :
       Unlocked(c) /\ Becomes(r, Request("fire", c, o, NoUser, NoSession))
  /\ UNCHANGED <<rows, session, now, late, overtaken, nested>>
\* fireManager, by the owner and only once the first days are over.
Fire(r, o) ==
  /\ Idle(r)
  /\ \E c \in Rows(o, {"active"}) :
       /\ Unlocked(c)
       /\ fireLockedUntil[c] <= now
       /\ Becomes(r, Request("fire", c, o, NoUser, NoSession))
  /\ UNCHANGED <<rows, session, now, late, overtaken, nested>>

\* adminFireManager, by the support: no waiting time.
AdminFire(r, o) ==
  /\ Idle(r)
  /\ \E c \in Rows(o, {"active"}) :
       /\ Unlocked(c)
       /\ Becomes(r, Request("fire", c, NoUser, NoUser, NoSession))
  /\ UNCHANGED <<rows, session, now, late, overtaken, nested>>

\* resignManager: the manager gives up a contract, or a request still open.
Resign(r, c) ==
  /\ Idle(r) /\ Unlocked(c)
  /\ status[c] \in Open \cup {"active"}
  /\ Becomes(r, Request("fire", c, NoUser, manager[c], NoSession))
  /\ UNCHANGED <<rows, session, now, late, overtaken, nested>>

\* The auth worker: sessions acting for this owner (of this manager, when the
\* manager resigns) get user_id = original_user_id.
RestoredOnResign(s, o, m) ==               \* fault: firing leaves sessions alone
  session[s].managerMode /\ session[s].acting = o /\ session[s].original = m
Restored(s, o, m) ==
  /\ session[s].managerMode /\ session[s].acting = o
  /\ session[s].original # NoUser
  /\ m # NoUser => session[s].original = m
RestoreSessions(r) ==
  LET q == req[r] IN
  /\ q.step = "fire"
  /\ session' = [s \in Sessions |-> IF Restored(s, owner[q.id], q.other)
                                    THEN HomeFlags(session[s].original) ELSE session[s]]
  /\ MovesTo(r, "restored")
  /\ UNCHANGED <<rows, now, late, overtaken, nested>>

EndCommit(r) ==
  /\ req[r].step = "restored"
  /\ status' = [status EXCEPT ![req[r].id] = "ended"]
  /\ Done(r)
  /\ UNCHANGED <<owner, manager, fireLockedUntil, session, now, late, overtaken, nested>>

-----------------------------------------------------------------------------
(* Sessions *)

\* Who is at the keyboard: inside an account, the manager and not the owner.
SessionUser(s) == session[s].user          \* fault: the owner taken for the manager
Actor(s) == IF session[s].managerMode THEN session[s].original ELSE session[s].user
Contracted(o, m) == \E c \in Rows(o, {"active"}) : manager[c] = m

\* enterManagedAccount: the contract is looked up ...
Enter(r, s, o) ==
  /\ Idle(r) /\ Actor(s) # NoUser
  /\ Contracted(o, Actor(s))
  /\ Becomes(r, Request("enter", NoId, Actor(s), o, s))
  /\ nested' = IF session[s].original # NoUser /\ ~session[s].managerMode
               THEN nested \cup {s} ELSE nested
  /\ UNCHANGED <<rows, session, now, late, overtaken>>

\* ... the session is loaded and must be the manager's own, or inside already ...
LoadForEntry(r) ==
  LET q == req[r]  f == session[q.sess] IN
  /\ q.step = "enter"
  /\ IF (f.managerMode /\ f.original = q.user) \/ f.user = q.user
     THEN MovesTo(r, "entering") ELSE Done(r)
  /\ UNCHANGED <<rows, session, now, late, overtaken, nested>>

\* ... and its flags are overwritten; the contract is not looked at again.
EntryOvertaken(o, m) ==
  \A c \in Rows(o, {"active"}) : manager[c] = m =>
     \E r \in Reqs : req[r].step = "restored" /\ req[r].id = c
EnterUpdate(r) ==
  LET q == req[r] IN
  /\ q.step = "entering"
  /\ session' = [session EXCEPT ![q.sess] = Flags(q.other, q.user, TRUE, q.other)]
  /\ overtaken' = IF EntryOvertaken(q.other, q.user)
                  THEN overtaken \cup {q.sess} ELSE overtaken \ {q.sess}
  /\ Done(r)
  /\ UNCHANGED <<rows, now, late, nested>>

LeaveAnyway(r, s) ==                       \* fault: the mode is not checked
  /\ Idle(r)
  /\ Becomes(r, Request("leave", NoId, session[s].original, NoUser, s))
  /\ UNCHANGED <<rows, session, now, late, overtaken, nested>>
\* leaveManagedAccount: load, then write the user it remembers.
Leave(r, s) ==
  /\ Idle(r) /\ session[s].managerMode /\ session[s].original # NoUser
  /\ Becomes(r, Request("leave", NoId, session[s].original, NoUser, s))
  /\ UNCHANGED <<rows, session, now, late, overtaken, nested>>

\* startAdminImpersonate: the session's user is an administrator, whether the
\* session is that administrator's own or acts for one ...
StartImpersonate(r, s, target) ==
  /\ Idle(r) /\ session[s].user \in Admins
  /\ target # session[s].user
  /\ Becomes(r, Request("impersonate", NoId, session[s].user, target, s))
  /\ nested' = IF session[s].original # NoUser THEN nested \cup {s} ELSE nested
  /\ UNCHANGED <<rows, session, now, late, overtaken>>

\* ... and becomes the player's; whom it remembered before is overwritten.
ImpersonateUpdate(r) ==
  LET q == req[r] IN
  /\ q.step = "impersonate"
  /\ session' = [session EXCEPT ![q.sess] = Flags(q.other, q.user, FALSE, NoUser)]
  /\ Done(r)
  /\ UNCHANGED <<rows, now, late, overtaken, nested>>

\* stopAdminImpersonate: whatever original_user_id holds is taken for the admin.
StopImpersonate(r, s) ==
  /\ Idle(r) /\ session[s].original # NoUser
  /\ Becomes(r, Request("stop", NoId, session[s].original, NoUser, s))
  /\ UNCHANGED <<rows, session, now, late, overtaken, nested>>

\* Leave and stop write the same flags: back to the remembered user.
ReturnUpdate(r) ==
  LET q == req[r] IN
  /\ q.step \in {"leave", "stop"}
  /\ session' = [session EXCEPT ![q.sess] = HomeFlags(q.user)]
  /\ Done(r)
  /\ UNCHANGED <<rows, now, late, overtaken, nested>>

-----------------------------------------------------------------------------
(* What ends a request early, and time *)

\* The lock_timeout of 45 s (or the deadlock detector) rolls back a transaction
\* that waits for a row somebody else holds.
LockTimeout(r) ==
  /\ req[r].step \in {"clearing", "competing"}
  /\ \E d \in req[r].todo : ~Unlocked(d)
  /\ Done(r)
  /\ UNCHANGED <<rows, session, now, late, overtaken, nested>>

\* The process stops, the auth worker does not answer, the commit fails: what
\* was not committed is gone, what the auth worker did stays done.
Abort(r) ==
  /\ ~Idle(r)
  /\ Done(r)
  /\ UNCHANGED <<rows, session, now, late, overtaken, nested>>

Tick == /\ now < MaxTime /\ now' = now + 1
        /\ UNCHANGED <<rows, session, req, late, overtaken, nested>>

Progress(r) ==
  \/ ClearApplications(r) \/ TakeRow(r) \/ HireInsert(r) \/ ApplyInsert(r)
  \/ EndCompeting(r) \/ AcceptCommit(r)
  \/ DeclineUpdate(r) \/ RestoreSessions(r) \/ EndCommit(r)
  \/ LoadForEntry(r) \/ EnterUpdate(r) \/ ImpersonateUpdate(r) \/ ReturnUpdate(r)
  \/ LockTimeout(r)

Begin(r) ==
  \/ \E o \in Owners, m \in Managers :
       Hire(r, o, m) \/ Apply(r, o, m)
  \/ \E c \in Ids : Accept(r, c) \/ Decline(r, c) \/ Resign(r, c)
  \/ \E o \in Owners : Fire(r, o) \/ AdminFire(r, o)
  \/ \E s \in Sessions :
       \/ Leave(r, s) \/ StopImpersonate(r, s)
       \/ \E o \in Owners : Enter(r, s, o)
       \/ \E u \in Targets : StartImpersonate(r, s, u)

Next == Tick \/ \E r \in Reqs : Begin(r) \/ Progress(r) \/ Abort(r)

Spec == Init /\ [][Next]_vars

-----------------------------------------------------------------------------
(* Properties *)

\* Whatever requests interleave (answers read without a lock, transactions that
\* are rolled back, waits), each contract row lives the life ContractLife
\* describes: nothing that has ended is accepted afterwards, and the first days'
\* lock is set by the acceptance only.
Life == INSTANCE ContractLife
LifeSpec == Life!LifeSpec

\* An owner has one manager.  No index guarantees it: acceptContract checks, and
\* ends the competing requests.  Two active contracts of one owner need a request
\* that was committed while the other's acceptance was past that point.
OneManager ==
  \A c, d \in Ids :
     c # d /\ owner[c] = owner[d] /\ status[c] = "active" /\ status[d] = "active"
       => c \in late \/ d \in late

\* A session acts for an owner by virtue of a contract.  Firing and resigning
\* send it home before they commit; the ways left to stay inside without a
\* contract are an entry that was overtaken between its check and its write, and
\* a decline that was overtaken by the acceptance.
Inside(s) == session[s].managerMode
StrandedOnlyByRace ==
  \A s \in Sessions :
     Inside(s) => Contracted(session[s].acting, session[s].original) \/ s \in overtaken

\* A session knows the way back to the user that logged in on it, through any
\* order of entries, hops, impersonations, returns and forced returns, of several
\* tabs: it is at that user, or inside an account or impersonating with that user
\* as the one to return to.  original_user_id has room for one user, so the ways
\* to lose it are the two that nest: an impersonation begun from inside another
\* account, and an account entered while impersonating.
KnowsWayHome ==
  \A s \in Sessions \ nested :
     \/ session[s] = HomeFlags(Home[s])
     \/ /\ session[s].original = Home[s]
        /\ IF Inside(s) THEN session[s].user = session[s].acting
                        ELSE Home[s] \in Admins /\ session[s].acting = NoUser

\* An owner cannot end a contract in its first days.  Only the manager, the
\* support, or a decline that read the row before it was accepted can.
FireLockKept ==
  [][\A c \in Ids :
       status[c] = "active" /\ status'[c] = "ended" /\ now < fireLockedUntil[c]
         => \E r \in Reqs : /\ req[r].id = c /\ req'[r] = NoRequest
                            /\ \/ req[r].step = "decline"
                               \/ /\ req[r].step = "restored"
                                  /\ req[r].user = NoUser]_vars
=============================================================================
