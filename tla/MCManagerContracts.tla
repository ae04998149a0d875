-------------------------- MODULE MCManagerContracts -------------------------
(***************************************************************************)
(* Small instances of ManagerContracts: olga owns an account, mara manages, *)
(* ada administers, owns an account and may manage as well.               *)
(***************************************************************************)
EXTENDS ManagerContracts, TLC

CONSTANTS olga, mara, ada, sMara, sAda, r1, r2

MCUsers == {olga, mara, ada}
MCHome == [s \in {sMara, sAda} |-> IF s = sMara THEN mara ELSE ada]
\* Bounds of the exploration, counted in contracts and proposals in progress: a
\* third one is olga's like the others, with every session at home; sessions
\* nest two accounts one at a time and with one contract.
Proposing == {r \in Reqs : req[r].step \in {"hire", "clearing", "apply"}}
Proposals == Cardinality({c \in Ids : status[c] # "absent"}) + Cardinality(Proposing)
AtHome == /\ \A s \in Sessions : session[s] = HomeFlags(Home[s])
          /\ \A r \in Reqs : req[r].sess = NoSession
OnlyOlga == /\ \A r \in Proposing : req[r].user = olga
            /\ \A c \in Ids : owner[c] \in {olga, NoUser}
Bounded == /\ Proposals > 2 => AtHome /\ OnlyOlga
           /\ nested # {} => Proposals < 2 /\ Cardinality(nested) = 1
MCSymmetry == Permutations({r1, r2})
=============================================================================
