--------------------------- MODULE MCMiningCredit ---------------------------
(***************************************************************************)
(* Small instances of MiningCredit: alice mines and has bob as a manager.  *)
(***************************************************************************)
EXTENDS MiningCredit, TLC

CONSTANTS alice, bob, p1, p2

MCUsers == {alice, bob}
MCPasses == {p1, p2}
MCOnePass == {p1}
MCSymmetry == Permutations(MCPasses)
MCMiners == {alice}
MCManager == [u \in MCUsers |-> IF u = alice THEN bob ELSE NoUser]
MCNoLease == [u \in MCUsers |-> 0]
\* Alice's machine has a lease that ends within the run; bob has none.
MCMachineDue == [u \in MCUsers |-> IF u = alice THEN 4 ELSE 0]
=============================================================================
