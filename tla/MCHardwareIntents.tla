------------------------- MODULE MCHardwareIntents -------------------------
(***************************************************************************)
(* HardwareIntents for a player with two chassis and one permanent machine *)
(* in stock.                                                               *)
(***************************************************************************)
EXTENDS HardwareIntents, TLC

MCInitStock == [item \in Items |-> IF item = "rig" THEN 2 ELSE IF item = "gpu" THEN 1 ELSE 0]
Symmetry == Permutations(Txs) \cup Permutations(Leases) \cup Permutations(Racks)

\* One page at a time, beside intents without a retried key, before anything is
\* listed and before a copy has overwritten a commit; few permanent items.
Bounded ==
  /\ stock["gpu"] + stock["rig"] <= 3
  /\ \A t \in Txs : Opened(t) =>
       /\ \A u \in Txs \ {t} : On(u) => intent[u].key = FreshKey
       /\ \A k \in Keys : applied[k] = 0
       /\ \A l \in Leases : lease[l].status \notin {"listed", "sold"}
       /\ ~overwritten
=============================================================================
