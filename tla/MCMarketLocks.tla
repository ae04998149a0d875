--------------------------- MODULE MCMarketLocks ---------------------------
(***************************************************************************)
(* MarketLocks on three players who trade with each other crosswise.       *)
(***************************************************************************)
EXTENDS MarketLocks

CONSTANTS l1, l2, l3, u1, u2, u3, u4

MCSeller   == [l \in Listings |-> IF l = l2 THEN 2 ELSE 1]
NoPickup   == [l \in Listings |-> NoUser]
MCPickup   == [l \in Listings |-> IF l = l3 THEN 2 ELSE NoUser]
MCReferrer == [x \in Users |-> IF x = 2 THEN 3 ELSE NoUser]
NoReferrer == [x \in Users |-> NoUser]
MCJoined   == [l \in Listings |-> IF l = l1 THEN <<u1>> ELSE IF l = l2 THEN <<u2>> ELSE <<u3>>]
MCShelf    == [x \in Users |-> IF x = 1 THEN <<u4>> ELSE <<>>]
MCOverdue  == [x \in Users |-> IF x = 1 THEN <<u1, u4>> ELSE <<>>]
=============================================================================
