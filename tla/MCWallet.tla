------------------------------ MODULE MCWallet ------------------------------
(* Two players who know one sender wallet, one key each, an exchange desk.   *)
EXTENDS Wallet, TLC

MCSenders == [d \in Deposits |-> Users]
MCPaid == [d \in Deposits |-> 1]
MCNetUsdc == [n \in 1..MaxCoins |-> n \div 2]     \* one coin is below the desk's minimum
\* One account is in debt at a time, coins or USDC of one player.
Bounded == Cardinality({u \in Users : balance[u] < 0}) + Cardinality({u \in Users : usdc[u] < 0}) <= 1
MCSymmetry == Permutations(Users) \cup Permutations(Requests) \cup Permutations(Txs)
=============================================================================
