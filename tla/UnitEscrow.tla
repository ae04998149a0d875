----------------------------- MODULE UnitEscrow -----------------------------
(***************************************************************************)
(* What the market promises about a physical unit, whatever the listings,  *)
(* quantities, reservations and prices are: a unit is free, offered by its *)
(* holder, or owed to one buyer; it changes hands only by being delivered  *)
(* to the user it is owed to, and a unit that is owed is never withdrawn,  *)
(* offered again or owed to somebody else.                                 *)
(***************************************************************************)
CONSTANTS Users, Units, NoUser

VARIABLES holder, phase, creditor

evars == <<holder, phase, creditor>>

Phases == {"free", "offered", "owed"}

Init ==
  /\ holder \in [Units -> Users]
  /\ phase \in [Units -> {"free", "offered"}]
  /\ creditor = [u \in Units |-> NoUser]

\* The units of S go from one phase to another, the others keep theirs.
Move(S, from, to) ==
  /\ \A u \in S : phase[u] = from
  /\ phase' = [u \in Units |-> IF u \in S THEN to ELSE phase[u]]

Offer(S, x) ==
  /\ \A u \in S : holder[u] = x
  /\ Move(S, "free", "offered")
  /\ UNCHANGED <<holder, creditor>>

Withdraw(S) ==
  /\ Move(S, "offered", "free")
  /\ UNCHANGED <<holder, creditor>>

\* One sale: the units of one seller become owed to another user.
Sale(S, b) ==
  /\ \A u \in S : holder[u] # b
  /\ Move(S, "offered", "owed")
  /\ creditor' = [u \in Units |-> IF u \in S THEN b ELSE creditor[u]]
  /\ UNCHANGED holder

Deliver(S, b) ==
  /\ \A u \in S : creditor[u] = b
  /\ Move(S, "owed", "free")
  /\ holder' = [u \in Units |-> IF u \in S THEN b ELSE holder[u]]
  /\ creditor' = [u \in Units |-> IF u \in S THEN NoUser ELSE creditor[u]]

Next == \E S \in SUBSET Units :
  \/ \E x \in Users : Offer(S, x) \/ Sale(S, x) \/ Deliver(S, x)
  \/ Withdraw(S)

Spec == Init /\ [][Next]_evars
=============================================================================
