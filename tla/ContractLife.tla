---------------------------- MODULE ContractLife ----------------------------
(***************************************************************************)
(* What a management contract promises, whatever requests run against it.  *)
(* A row is proposed by one side, accepted at most once by the other, and  *)
(* never comes back once it has ended.  Acceptance alone sets the time     *)
(* until which the owner may not fire, and nothing moves that time later.  *)
(***************************************************************************)
EXTENDS Integers

CONSTANTS Ids,            \* rows account_manager_contracts may hold
          LockDays        \* ACCOUNT_MANAGER_FIRE_LOCK_DAYS

VARIABLES status, fireLockedUntil, now

Open == {"pending", "applied"}
Arrows == ({"absent"} \X Open) \cup (Open \X {"active", "ended"})
          \cup {<<"active", "ended">>}

lifeVars == <<status, fireLockedUntil, now>>

LifeInit == /\ status = [c \in Ids |-> "absent"]
            /\ fireLockedUntil = [c \in Ids |-> 0]
            /\ now = 0

Accepted(c) == status[c] \in Open /\ status'[c] = "active"

RowMoves(c) ==
  /\ status'[c] = status[c] \/ <<status[c], status'[c]>> \in Arrows
  /\ IF Accepted(c) THEN fireLockedUntil'[c] \in LockDays .. (now + LockDays)
                    ELSE fireLockedUntil'[c] = fireLockedUntil[c]

LifeNext == (\A c \in Ids : RowMoves(c)) /\ now' >= now
LifeSpec == LifeInit /\ [][LifeNext]_lifeVars
=============================================================================
