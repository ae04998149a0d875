---------------------------- MODULE MCP2PMarket ----------------------------
(***************************************************************************)
(* P2PMarket on small instances: who owns what at the start.               *)
(***************************************************************************)
EXTENDS P2PMarket, TLC

CONSTANTS alice, bob, carol, u1, u2, u3

MCOwner0   == [u \in Units |-> alice]
MCUsdc0    == [x \in Users |-> IF x = alice THEN 0 ELSE 250]
MCReferrer == [x \in Users |-> IF x = bob THEN alice ELSE NoUser]
NoClocks   == [u \in Units |-> 0]
Clocks     == [u \in Units |-> IF u = u1 THEN 2 ELSE 4]

Symmetric == Permutations(ListingIds \ {LegacyId}) \cup Permutations(Keys)
               \cup Permutations(Requests)
=============================================================================
