----------------------------- MODULE WalletProofs -----------------------------
(***************************************************************************)
(* Types, that nothing in the wallet takes effect twice and that the books *)
(* balance, for every number of players, requests, deposits, keys and      *)
(* transactions.  Keys, deposits and quests are guarded by the row that is *)
(* inserted or marked; a settlement only by the lock on the request it has *)
(* read, so the invariant says what a transaction that holds a lock may    *)
(* rely on.                                                                *)
(***************************************************************************)
EXTENDS Wallet, FiniteSums

LockRows == Events \cup {UserRow(u) : u \in Users}
TxRows == [kind : {"none", "withdraw", "exchange", "deposit", "quest", "completed", "rejected"},
           user : Users \cup {NoUser}, of : Answers \cup Deposits \cup Users \cup Requests \cup {Nothing},
           amount : Int, holds : SUBSET LockRows]

\* What a transaction knows under its locks.
Knows(x) ==
  /\ x.kind = "withdraw" => x.user \in Users /\ x.of \in Answers /\ x.amount + Tolerance >= MinAmount
  /\ x.kind = "exchange" => x.user \in Users /\ x.of \in Answers \cup {Nothing}
  /\ x.kind = "deposit" => x.user \in Users /\ x.of \in Deposits
  /\ x.kind = "quest" => x.user \in Users
  /\ x.kind \in {"completed", "rejected"} =>
       x.user \in Users /\ x.of \in Requests /\ Row("request", x.of) \in x.holds
Pending(x) == x.kind \in {"completed", "rejected"} =>
                /\ request[x.of].status = "pending"
                /\ request[x.of].user = x.user /\ request[x.of].amount = x.amount

TxOK == tx \in [Txs -> TxRows] /\ \A t \in Txs : Knows(tx[t]) /\ Pending(tx[t])
Exclusive == \A t, s \in Txs : t # s => tx[t].holds \cap tx[s].holds = {}
Owned == \A r \in Requests : request[r].status # "none" => request[r].user \in Users

\* What has not taken effect yet.
Open(e) ==
  \/ \E p \in Answers \ answered : e = Row("key", p)
  \/ \E d \in Deposits : creditedTo[d] = NoUser /\ e = Row("deposit", d)
  \/ \E u \in Users \ claimed : e = Row("quest", u)
  \/ \E r \in Requests : request[r].status \in {"none", "pending"} /\ e = Row("request", r)
Fresh == \A e \in Events : times[e] <= 1 /\ (Open(e) => times[e] = 0)

IInv == TypeOK /\ TxOK /\ Exclusive /\ Owned /\ Fresh /\ RequestNearMinimum

-----------------------------------------------------------------------------

LEMMA InitHolds == Init => IInv
<1> SUFFICES ASSUME Init PROVE IInv
    OBVIOUS
<1> USE WalletAssumption
<1>1. TypeOK
      BY DEF Init, TypeOK, NoRequest, RequestRows
<1>2. NoTx \in TxRows /\ Knows(NoTx) /\ Pending(NoTx)
      BY DEF NoTx, TxRows, Knows, Pending
<1>3. TxOK /\ Exclusive
      BY <1>2 DEF Init, TxOK, Exclusive, NoTx
<1>4. Owned /\ RequestNearMinimum
      BY DEF Init, Owned, RequestNearMinimum, NoRequest
<1>5. Fresh
      BY DEF Init, Fresh
<1> QED BY <1>1, <1>3, <1>4, <1>5 DEF IInv

\* A transaction that begins holds rows nobody else holds.
LEMMA BeginHolds ==
  ASSUME IInv, NEW t \in Txs, NEW kind, NEW u, NEW of, NEW n, NEW rows,
         Lock(t, kind, u, of, n, rows),
         [kind |-> kind, user |-> u, of |-> of, amount |-> n, holds |-> rows] \in TxRows,
         Knows([kind |-> kind, user |-> u, of |-> of, amount |-> n, holds |-> rows]),
         Pending([kind |-> kind, user |-> u, of |-> of, amount |-> n, holds |-> rows])
  PROVE  IInv'
<1> DEFINE x == [kind |-> kind, user |-> u, of |-> of, amount |-> n, holds |-> rows]
<1>0. tx \in [Txs -> TxRows] /\ tx' = [tx EXCEPT ![t] = x] /\ UNCHANGED <<wallet, given, times>>
      BY DEF IInv, TxOK, Lock
<1>1. x \in TxRows /\ Knows(x) /\ Pending(x) /\ x.holds = rows
      OBVIOUS
<1> HIDE DEF x
<1>2. TypeOK' /\ Owned' /\ RequestNearMinimum' /\ Fresh'
      BY <1>0 DEF IInv, wallet, TypeOK, Owned, RequestNearMinimum, Fresh, Open
<1>3. TxOK'
  <2>1. tx' \in [Txs -> TxRows]
        BY <1>0, <1>1
  <2>2. ASSUME NEW s \in Txs PROVE Knows(tx'[s]) /\ Pending(tx'[s])
    <3>1. CASE s = t
          BY <3>1, <1>0, <1>1
    <3>2. CASE s # t
          BY <3>2, <1>0 DEF IInv, TxOK
    <3> QED BY <3>1, <3>2
  <2>3. ASSUME NEW s \in Txs PROVE Knows(tx[s])' /\ Pending(tx[s])'
        BY <2>2, <1>0 DEF Knows, Pending, wallet
  <2> QED BY <2>1, <2>3 DEF TxOK
<1>4. Exclusive'
  <2>1. \A s \in Txs : rows \cap tx[s].holds = {}
        BY DEF Lock, Lockable, Held
  <2>2. \A s \in Txs : s # t => tx'[s] = tx[s]
        BY <1>0
  <2>3. tx'[t].holds = rows
        BY <1>0, <1>1
  <2> QED BY <2>1, <2>2, <2>3 DEF IInv, Exclusive
<1> QED BY <1>2, <1>3, <1>4 DEF IInv

\* A transaction that ends leaves the others what they know, unless it changes
\* the request one of them has locked.
LEMMA EndHolds ==
  ASSUME IInv, NEW t \in Txs, End(t),
         \A r \in Requests : request'[r] = request[r] \/ request[r].status = "none"
                             \/ Row("request", r) \in tx[t].holds,
         \A r \in Requests : request[r].status = "none" => request'[r].status \in {"none", "pending"}
  PROVE  TxOK' /\ Exclusive'
<1>0. tx \in [Txs -> TxRows] /\ tx' = [tx EXCEPT ![t] = NoTx]
      BY DEF IInv, TxOK, End
<1>1. NoTx \in TxRows /\ NoTx.holds = {} /\ NoTx.kind = "none"
      BY DEF NoTx, TxRows
<1>2. tx' \in [Txs -> TxRows] /\ tx'[t] = NoTx /\ \A s \in Txs : s # t => tx'[s] = tx[s]
      BY <1>0, <1>1
<1>3. Exclusive'
      BY <1>1, <1>2 DEF IInv, Exclusive
<1>4. ASSUME NEW s \in Txs PROVE Knows(tx[s])' /\ Pending(tx[s])'
  <2>1. CASE s = t
        BY <2>1, <1>1, <1>2 DEF Knows, Pending
  <2>2. CASE s # t
    <3>1. Knows(tx[s]) /\ Pending(tx[s]) /\ tx'[s] = tx[s]
          BY <2>2, <1>2 DEF IInv, TxOK
    <3>2. Knows(tx[s])'
          BY <3>1 DEF Knows
    <3>3. Pending(tx[s])'
      <4>1. SUFFICES ASSUME tx[s].kind \in {"completed", "rejected"}
                     PROVE  request'[tx[s].of] = request[tx[s].of]
            BY <3>1 DEF Pending
      <4>2. tx[s].of \in Requests /\ Row("request", tx[s].of) \in tx[s].holds
            BY <4>1, <3>1 DEF Knows
      <4>3. request[tx[s].of].status = "pending"
            BY <4>1, <3>1 DEF Pending
      <4>4. Row("request", tx[s].of) \notin tx[t].holds
            BY <4>2, <2>2 DEF IInv, Exclusive
      <4> QED BY <4>2, <4>3, <4>4
    <3> QED BY <3>2, <3>3
  <2> QED BY <2>1, <2>2
<1> QED BY <1>2, <1>3, <1>4 DEF TxOK

\* What takes effect was open and is not any more.
LEMMA OnceHolds ==
  ASSUME IInv, NEW E, Once(E), \A e \in E : Open(e) /\ ~Open(e)',
         \A e \in Events : Open(e)' => Open(e)
  PROVE  Fresh' /\ times' \in [Events -> Nat]
<1> HIDE DEF Open
<1>1. \A e \in Events : times[e] \in Nat /\ times[e] <= 1 /\ (Open(e) => times[e] = 0)
      BY DEF IInv, TypeOK, Fresh
<1>2. \A e \in Events : times'[e] = IF e \in E THEN times[e] + 1 ELSE times[e]
      BY DEF Once
<1>3. times' \in [Events -> Nat]
      BY <1>1 DEF Once
<1>4. ASSUME NEW e \in Events PROVE times'[e] <= 1 /\ (Open(e)' => times'[e] = 0)
  <2>1. CASE e \in E
        BY <2>1, <1>1, <1>2
  <2>2. CASE e \notin E
        BY <2>2, <1>1, <1>2
  <2> QED BY <2>1, <2>2
<1> QED BY <1>3, <1>4 DEF Fresh

LEMMA WithdrawHolds == ASSUME IInv, NEW t \in Txs, WithdrawCommitted(t) PROVE IInv'
<1> USE WalletAssumption
<1>0. PICK u, p, n : u = tx[t].user /\ p = tx[t].of /\ n = Clamped(tx[t].amount, balance[u])
      OBVIOUS
<1>1. u \in Users /\ p \in Answers /\ tx[t].amount \in Int /\ tx[t].amount + Tolerance >= MinAmount
      BY <1>0 DEF IInv, TxOK, Knows, TxRows, WithdrawCommitted, IsFor
<1>2. balance[u] \in Int /\ n \in Int /\ n <= balance[u] /\ n + MaxRounding + Tolerance >= MinAmount
  <2>1. balance[u] \in Int /\ n <= balance[u]
        BY <1>0, <1>1 DEF IInv, TypeOK, WithdrawCommitted
  <2>2. tx[t].amount \in Int /\ tx[t].amount + Tolerance >= MinAmount
        BY <1>1
  <2> QED BY <2>1, <2>2, <1>0 DEF Clamped
<1>3. PICK r \in Requests : request[r] = NoRequest
        /\ request' = [request EXCEPT ![r] = [user |-> u, amount |-> n, status |-> "pending"]]
      BY <1>0 DEF WithdrawCommitted
<1>4. request \in [Requests -> RequestRows]
      BY DEF IInv, TypeOK
<1>5. request' \in [Requests -> RequestRows]
      BY <1>1, <1>2, <1>3, <1>4 DEF RequestRows
<1>6. balance' \in [Users -> Int]
  <2>1. balance' = [balance EXCEPT ![u] = @ + (-n)] /\ balance \in [Users -> Int]
        BY <1>0 DEF WithdrawCommitted, Add, IInv, TypeOK
  <2>2. balance[u] + (-n) \in Int
        BY <1>2
  <2> QED BY <2>1, <2>2
<1>7. Owned' /\ RequestNearMinimum'
  <2>1. request'[r].user = u /\ request'[r].amount = n /\ \A q \in Requests : q # r => request'[q] = request[q]
        BY <1>3, <1>4
  <2> QED BY <2>1, <1>1, <1>2 DEF IInv, Owned, RequestNearMinimum
<1>8. \A q \in Requests : q # r => request'[q] = request[q]
      BY <1>3, <1>4
<1>9. request[r].status = "none" /\ request'[r].status = "pending"
      BY <1>3, <1>4 DEF NoRequest
<1>10. TxOK' /\ Exclusive'
  <2>1. \A q \in Requests : request'[q] = request[q] \/ request[q].status = "none"
        BY <1>8, <1>9
  <2>2. \A q \in Requests : request[q].status = "none" => request'[q].status \in {"none", "pending"}
        BY <1>8, <1>9
  <2>3. End(t)
        BY DEF WithdrawCommitted
  <2> QED BY <2>1, <2>2, <2>3, EndHolds
<1>11. answered' = answered \cup {p} /\ p \notin answered /\ UNCHANGED <<creditedTo, claimed>>
       BY <1>0 DEF WithdrawCommitted, Remember
<1>12. Fresh' /\ times' \in [Events -> Nat]
  <2>1. Once({Row("key", p)})
        BY <1>0 DEF WithdrawCommitted
  <2>2. Open(Row("key", p))
        BY <1>1, <1>11 DEF Open
  <2>3. ~Open(Row("key", p))'
        BY <1>11 DEF Open, Row
  <2>4. \A e \in Events : Open(e)' => Open(e)
        BY <1>8, <1>9, <1>11 DEF Open
  <2> QED BY <2>1, <2>2, <2>3, <2>4, OnceHolds
<1> QED BY <1>1, <1>5, <1>6, <1>7, <1>10, <1>11, <1>12 DEF IInv, TypeOK, WithdrawCommitted

LEMMA SettleHolds == ASSUME IInv, NEW t \in Txs, SettleCommitted(t) PROVE IInv'
<1>0. PICK r : r = tx[t].of
      OBVIOUS
<1>1. r \in Requests /\ Row("request", r) \in tx[t].holds /\ request[r].status = "pending"
      /\ tx[t].user \in Users /\ tx[t].amount \in Int /\ tx[t].kind \in {"completed", "rejected"}
      BY <1>0 DEF IInv, TxOK, Knows, Pending, TxRows, SettleCommitted
<1>2. request \in [Requests -> RequestRows] /\ request' = [request EXCEPT ![r].status = tx[t].kind]
      BY <1>0 DEF IInv, TypeOK, SettleCommitted
<1>3. request' \in [Requests -> RequestRows] /\ request'[r].status = tx[t].kind
      /\ request'[r].user = request[r].user /\ request'[r].amount = request[r].amount
      /\ \A q \in Requests : q # r => request'[q] = request[q]
      BY <1>1, <1>2 DEF RequestRows
<1>4. balance' \in [Users -> Int]
      BY <1>1 DEF SettleCommitted, Add, IInv, TypeOK
<1>5. Owned' /\ RequestNearMinimum'
      BY <1>1, <1>3 DEF IInv, Owned, RequestNearMinimum
<1>6. TxOK' /\ Exclusive'
  <2>1. \A q \in Requests : request'[q] = request[q] \/ Row("request", q) \in tx[t].holds
        BY <1>1, <1>3
  <2>2. \A q \in Requests : request[q].status = "none" => request'[q].status \in {"none", "pending"}
        BY <1>1, <1>3
  <2>3. End(t)
        BY DEF SettleCommitted
  <2> QED BY <2>1, <2>2, <2>3, EndHolds
<1>7. UNCHANGED <<usdc, answered, creditedTo, claimed, sold, given>>
      BY DEF SettleCommitted
<1>8. Fresh' /\ times' \in [Events -> Nat]
  <2>1. Once({Row("request", r)})
        BY <1>0 DEF SettleCommitted
  <2>2. Open(Row("request", r))
        BY <1>1 DEF Open
  <2>3. ~Open(Row("request", r))'
        BY <1>1, <1>3 DEF Open, Row
  <2>4. \A e \in Events : Open(e)' => Open(e)
        BY <1>1, <1>3, <1>7 DEF Open
  <2> QED BY <2>1, <2>2, <2>3, <2>4, OnceHolds
<1> QED BY <1>3, <1>4, <1>5, <1>6, <1>7, <1>8 DEF IInv, TypeOK

\* Ends that leave the requests alone.
LEMMA EndElsewhere ==
  ASSUME IInv, NEW t \in Txs, End(t), UNCHANGED request
  PROVE  TxOK' /\ Exclusive' /\ Owned' /\ RequestNearMinimum'
<1>1. TxOK' /\ Exclusive'
      BY EndHolds
<1>2. Owned' /\ RequestNearMinimum'
      BY DEF IInv, Owned, RequestNearMinimum
<1> QED BY <1>1, <1>2

LEMMA ExchangeHolds ==
  ASSUME IInv, NEW t \in Txs, NEW n \in 1..MaxCoins, ExchangeCommitted(t, n) PROVE IInv'
<1> USE WalletAssumption
<1>0. PICK u, p : u = tx[t].user /\ p = tx[t].of
      OBVIOUS
<1>1. u \in Users /\ p \in Answers \cup {Nothing}
      BY <1>0 DEF IInv, TxOK, Knows, ExchangeCommitted, IsFor
<1>2. PICK P : P = {p} \ {Nothing}
      OBVIOUS
<1>3. P \subseteq Answers
      BY <1>1, <1>2
<1>4. TxOK' /\ Exclusive' /\ Owned' /\ RequestNearMinimum'
      BY EndElsewhere DEF ExchangeCommitted
<1>5. balance' \in [Users -> Int]
  <2>1. balance' = [balance EXCEPT ![u] = @ + (-n)] /\ balance \in [Users -> Int] /\ n <= balance[u]
        BY <1>0 DEF ExchangeCommitted, Add, IInv, TypeOK
  <2>2. balance[u] \in Int /\ n \in Nat
        BY <2>1, <1>1
  <2>3. balance[u] + (-n) \in Int
        BY <2>1, <2>2
  <2> QED BY <2>1, <2>3
<1>6. NetUsdc[n] \in Nat
      OBVIOUS
<1>7. usdc' \in [Users -> Int]
  <2>1. usdc' = [usdc EXCEPT ![u] = @ + NetUsdc[n]] /\ usdc \in [Users -> Int]
        BY <1>0 DEF ExchangeCommitted, Add, IInv, TypeOK
  <2> QED BY <2>1, <1>1, <1>6
<1>8. sold' \in [Users -> [coins : Nat, usdc : Nat]]
  <2>1. sold \in [Users -> [coins : Nat, usdc : Nat]]
        BY DEF IInv, TypeOK
  <2>2. sold' = [sold EXCEPT ![u] = [coins |-> @.coins + n, usdc |-> @.usdc + NetUsdc[n]]]
        BY <1>0 DEF ExchangeCommitted
  <2>3. sold[u].coins + n \in Nat /\ sold[u].usdc + NetUsdc[n] \in Nat
        BY <2>1, <1>1, <1>6
  <2> QED BY <2>1, <2>2, <2>3
<1>9. answered' = answered \cup P /\ P \cap answered = {} /\ UNCHANGED <<creditedTo, claimed, request, given>>
      BY <1>0, <1>2 DEF ExchangeCommitted, Remember
<1>10. Fresh' /\ times' \in [Events -> Nat]
  <2>0. PICK E : E = {Row("key", q) : q \in P}
        OBVIOUS
  <2>1. Once(E)
        BY <1>0, <1>2, <2>0 DEF ExchangeCommitted
  <2>2. \A e \in E : Open(e) /\ ~Open(e)'
        BY <1>3, <1>9, <2>0 DEF Open, Row
  <2>3. \A e \in Events : Open(e)' => Open(e)
        BY <1>9 DEF Open
  <2> QED BY <2>1, <2>2, <2>3, OnceHolds
<1> QED BY <1>3, <1>4, <1>5, <1>7, <1>8, <1>9, <1>10 DEF IInv, TypeOK

LEMMA DepositHolds == ASSUME IInv, NEW t \in Txs, DepositCommitted(t) PROVE IInv'
<1> USE WalletAssumption
<1>0. PICK u, d : u = tx[t].user /\ d = tx[t].of
      OBVIOUS
<1>1. u \in Users /\ d \in Deposits
      BY <1>0 DEF IInv, TxOK, Knows, DepositCommitted, IsFor
<1>2. TxOK' /\ Exclusive' /\ Owned' /\ RequestNearMinimum'
      BY EndElsewhere DEF DepositCommitted
<1>3. usdc' \in [Users -> Int]
  <2>1. usdc' = [usdc EXCEPT ![u] = @ + Paid[d]] /\ usdc \in [Users -> Int] /\ Paid[d] \in Nat
        BY <1>0, <1>1 DEF DepositCommitted, Add, IInv, TypeOK
  <2> QED BY <2>1, <1>1
<1>4. creditedTo \in [Deposits -> Users \cup {NoUser}] /\ creditedTo' = [creditedTo EXCEPT ![d] = u]
      /\ creditedTo[d] = NoUser /\ UNCHANGED <<balance, request, answered, claimed, sold, given>>
      BY <1>0 DEF DepositCommitted, IInv, TypeOK
<1>5. Fresh' /\ times' \in [Events -> Nat]
  <2>1. Once({Row("deposit", d)})
        BY <1>0 DEF DepositCommitted
  <2>2. creditedTo'[d] # NoUser /\ \A x \in Deposits : x # d => creditedTo'[x] = creditedTo[x]
        BY <1>1, <1>4
  <2>3. Open(Row("deposit", d)) /\ ~Open(Row("deposit", d))'
        BY <1>1, <1>4, <2>2 DEF Open, Row
  <2>4. \A e \in Events : Open(e)' => Open(e)
        BY <1>4, <2>2 DEF Open
  <2> QED BY <2>1, <2>3, <2>4, OnceHolds
<1> QED BY <1>1, <1>2, <1>3, <1>4, <1>5 DEF IInv, TypeOK

LEMMA QuestHolds == ASSUME IInv, NEW t \in Txs, QuestCommitted(t) PROVE IInv'
<1> USE WalletAssumption
<1>0. PICK u : u = tx[t].user
      OBVIOUS
<1>1. u \in Users
      BY <1>0 DEF IInv, TxOK, Knows, QuestCommitted, IsFor
<1>2. TxOK' /\ Exclusive' /\ Owned' /\ RequestNearMinimum'
      BY EndElsewhere DEF QuestCommitted
<1>3. usdc' \in [Users -> Int]
  <2>1. usdc' = [usdc EXCEPT ![u] = @ + Reward] /\ usdc \in [Users -> Int] /\ Reward \in Nat
        BY <1>0 DEF QuestCommitted, Add, IInv, TypeOK
  <2> QED BY <2>1, <1>1
<1>4. claimed' = claimed \cup {u} /\ u \notin claimed
      /\ UNCHANGED <<balance, request, answered, creditedTo, sold, given>>
      BY <1>0 DEF QuestCommitted
<1>5. Fresh' /\ times' \in [Events -> Nat]
  <2>1. Once({Row("quest", u)})
        BY <1>0 DEF QuestCommitted
  <2>2. Open(Row("quest", u)) /\ ~Open(Row("quest", u))'
        BY <1>1, <1>4 DEF Open, Row
  <2>3. \A e \in Events : Open(e)' => Open(e)
        BY <1>4 DEF Open
  <2> QED BY <2>1, <2>2, <2>3, OnceHolds
<1> QED BY <1>1, <1>2, <1>3, <1>4, <1>5 DEF IInv, TypeOK

\* What an account was given or charged from outside stays a pair of integers.
LEMMA GivenMoves ==
  ASSUME NEW g \in [coins : Int, usdc : Int]
  PROVE  /\ [g EXCEPT !.coins = @ + 1] \in [coins : Int, usdc : Int]
         /\ [g EXCEPT !.usdc = @ - 1] \in [coins : Int, usdc : Int]
<1>1. g.coins \in Int /\ g.usdc \in Int
      OBVIOUS
<1>2. PICK c, m : c = g.coins + 1 /\ m = g.usdc - 1
      OBVIOUS
<1>3. c \in Int /\ m \in Int
      BY <1>1, <1>2
<1>4. [g EXCEPT !.coins = c] \in [coins : Int, usdc : Int]
      BY <1>3
<1>5. [g EXCEPT !.usdc = m] \in [coins : Int, usdc : Int]
      BY <1>3
<1> QED BY <1>2, <1>4, <1>5

\* Other writers touch balances only.
LEMMA OthersHold == ASSUME IInv, Others PROVE IInv'
<1> USE WalletAssumption
<1>0. balance \in [Users -> Int] /\ usdc \in [Users -> Int]
      /\ given \in [Users -> [coins : Int, usdc : Int]]
      BY DEF IInv, TypeOK
<1>1. UNCHANGED <<request, answered, creditedTo, claimed, sold, tx, times>>
      BY DEF Others, Earn, Spend, AdminSet, AdminSave, AdminBulk
<1>2. balance' \in [Users -> Int] /\ usdc' \in [Users -> Int]
      /\ given' \in [Users -> [coins : Int, usdc : Int]]
  <2>0. \A u \in Users : /\ given[u].coins \in Int /\ given[u].usdc \in Int
                         /\ balance[u] \in Int /\ usdc[u] \in Int
        BY <1>0
  <2>1. CASE \E u \in Users : Earn(u)
    <3>1. PICK u \in Users : Earn(u)
          BY <2>1
    <3>2. given' \in [Users -> [coins : Int, usdc : Int]]
      <4>1. PICK r : r = [given[u] EXCEPT !.coins = @ + 1]
            OBVIOUS
      <4>2. r \in [coins : Int, usdc : Int]
            BY <4>1, <1>0, GivenMoves
      <4>3. given' = [given EXCEPT ![u] = r]
            BY <3>1, <4>1 DEF Earn
      <4> QED BY <4>2, <4>3, <1>0
    <3>3. balance' = [balance EXCEPT ![u] = @ + 1] /\ UNCHANGED usdc
          BY <3>1 DEF Earn, Add
    <3> QED BY <3>2, <3>3, <2>0, <1>0
  <2>2. CASE \E u \in Users : Spend(u)
    <3>1. PICK u \in Users : Spend(u)
          BY <2>2
    <3>2. given' \in [Users -> [coins : Int, usdc : Int]]
      <4>1. PICK r : r = [given[u] EXCEPT !.usdc = @ - 1]
            OBVIOUS
      <4>2. r \in [coins : Int, usdc : Int]
            BY <4>1, <1>0, GivenMoves
      <4>3. given' = [given EXCEPT ![u] = r]
            BY <3>1, <4>1 DEF Spend
      <4> QED BY <4>2, <4>3, <1>0
    <3>3. usdc' = [usdc EXCEPT ![u] = @ + (-1)] /\ UNCHANGED balance
          BY <3>1 DEF Spend, Add
    <3>4. usdc[u] + (-1) \in Int
          BY <3>1, <2>0 DEF Spend
    <3> QED BY <3>2, <3>3, <3>4, <1>0
  <2>3. CASE \E u \in Users, n \in -MaxDebt..MaxCoins : AdminSet(u, n)
    <3>1. PICK u \in Users, n \in -MaxDebt..MaxCoins : AdminSet(u, n)
          BY <2>3
    <3>2. n \in Int /\ given[u].coins + n - balance[u] \in Int
          BY <2>0
    <3>3. given' \in [Users -> [coins : Int, usdc : Int]]
          BY <3>1, <3>2, <1>0 DEF AdminSet
    <3> QED BY <3>1, <3>2, <3>3, <1>0 DEF AdminSet
  <2>4. CASE \E u \in Users, m \in -MaxDebt..MaxMoney, n \in -MaxDebt..MaxCoins : AdminSave(u, m, n)
    <3>1. PICK u \in Users, m \in -MaxDebt..MaxMoney, n \in -MaxDebt..MaxCoins : AdminSave(u, m, n)
          BY <2>4
    <3>2. m \in Int /\ n \in Int /\ given[u].coins + n - balance[u] \in Int /\ given[u].usdc + m - usdc[u] \in Int
          BY <2>0
    <3>3. given' \in [Users -> [coins : Int, usdc : Int]]
          BY <3>1, <3>2, <1>0 DEF AdminSave
    <3> QED BY <3>1, <3>2, <3>3, <1>0 DEF AdminSave
  <2>5. CASE \E S \in SUBSET Users, n \in {-1, 1} : AdminBulk(S, n)
    <3>1. PICK S \in SUBSET Users, n \in {-1, 1} : AdminBulk(S, n)
          BY <2>5
    <3>2. \A u \in Users : Floored(balance[u] + n) \in Int
          BY <2>0 DEF Floored
    <3>3. balance' \in [Users -> Int] /\ UNCHANGED usdc
          BY <3>1, <3>2, <1>0 DEF AdminBulk
    <3>4. \A u \in Users : given[u].coins + balance'[u] - balance[u] \in Int
          BY <3>3, <2>0
    <3>5. \A u \in Users : [given[u] EXCEPT !.coins = @ + balance'[u] - balance[u]] \in [coins : Int, usdc : Int]
          BY <3>4, <1>0
    <3> QED BY <3>1, <3>3, <3>5, <1>0 DEF AdminBulk
  <2> QED BY <2>1, <2>2, <2>3, <2>4, <2>5 DEF Others
<1> QED BY <1>1, <1>2 DEF IInv, TypeOK, TxOK, Knows, Pending, Exclusive, Owned, Fresh, Open, RequestNearMinimum

\* What each handler has read when it has its locks.
LEMMA BeginsHold == ASSUME IInv, NEW t \in Txs, Begin(t) PROVE IInv'
<1> USE WalletAssumption
<1>1. CASE \E u \in Users, k \in Keys, n \in 1..MaxCoins : WithdrawAsked(t, u, k, n)
  <2>1. PICK u \in Users, k \in Keys, n \in 1..MaxCoins : WithdrawAsked(t, u, k, n)
        BY <1>1
  <2>2. PICK p : p = Answer(u, "withdraw", k)
        OBVIOUS
  <2>3. p \in Answers
        BY <2>2 DEF Answers, Answer, Scopes
  <2>4. PICK x : x = [kind |-> "withdraw", user |-> u, of |-> p, amount |-> n,
                      holds |-> {UserRow(u), Row("key", p)}]
        OBVIOUS
  <2>5. x \in TxRows
        BY <2>3, <2>4 DEF TxRows, LockRows, Events
  <2>6. Knows(x) /\ Pending(x)
        BY <2>1, <2>3, <2>4 DEF Knows, Pending, WithdrawAsked
  <2>7. Lock(t, "withdraw", u, p, n, {UserRow(u), Row("key", p)})
        BY <2>1, <2>2 DEF WithdrawAsked
  <2> QED BY <2>4, <2>5, <2>6, <2>7, BeginHolds
<1>2. CASE \E u \in Users, k \in Keys \cup {NoKey} : ExchangeAsked(t, u, k)
  <2>1. PICK u \in Users, k \in Keys \cup {NoKey} : ExchangeAsked(t, u, k)
        BY <1>2
  <2>2. PICK p, rows : /\ Lock(t, "exchange", u, p, 0, rows)
                       /\ p \in Answers \cup {Nothing} /\ rows \subseteq LockRows
    <3>1. CASE k = NoKey
          BY <3>1, <2>1 DEF ExchangeAsked, LockRows
    <3>2. CASE k # NoKey
      <4>1. Answer(u, "exchange", k) \in Answers
            BY <3>2 DEF Answers, Answer, Scopes
      <4>2. {UserRow(u), Row("key", Answer(u, "exchange", k))} \subseteq LockRows
            BY <4>1 DEF LockRows, Events
      <4>3. Lock(t, "exchange", u, Answer(u, "exchange", k), 0,
                 {UserRow(u), Row("key", Answer(u, "exchange", k))})
            BY <3>2, <2>1 DEF ExchangeAsked
      <4> QED BY <4>1, <4>2, <4>3
    <3> QED BY <3>1, <3>2
  <2>3. PICK x : x = [kind |-> "exchange", user |-> u, of |-> p, amount |-> 0, holds |-> rows]
        OBVIOUS
  <2>4. x \in TxRows /\ Knows(x) /\ Pending(x)
        BY <2>2, <2>3 DEF TxRows, Knows, Pending
  <2> QED BY <2>2, <2>3, <2>4, BeginHolds
<1>3. CASE \E u \in Users, d \in Deposits : DepositAsked(t, u, d)
  <2>1. PICK u \in Users, d \in Deposits : DepositAsked(t, u, d)
        BY <1>3
  <2>2. PICK x : x = [kind |-> "deposit", user |-> u, of |-> d, amount |-> 0,
                      holds |-> {Row("deposit", d), UserRow(u)}]
        OBVIOUS
  <2>3. x \in TxRows /\ Knows(x) /\ Pending(x)
        BY <2>2 DEF TxRows, LockRows, Events, Knows, Pending
  <2> QED BY <2>1, <2>2, <2>3, BeginHolds DEF DepositAsked
<1>4. CASE \E u \in Users : QuestAsked(t, u)
  <2>1. PICK u \in Users : QuestAsked(t, u)
        BY <1>4
  <2>2. PICK x : x = [kind |-> "quest", user |-> u, of |-> u, amount |-> 0,
                      holds |-> {Row("quest", u)}]
        OBVIOUS
  <2>3. x \in TxRows /\ Knows(x) /\ Pending(x)
        BY <2>2 DEF TxRows, LockRows, Events, Knows, Pending
  <2> QED BY <2>1, <2>2, <2>3, BeginHolds DEF QuestAsked
<1>5. CASE \E r \in Requests, status \in {"completed", "rejected"} : SettleAsked(t, r, status)
  <2>1. PICK r \in Requests, status \in {"completed", "rejected"} : SettleAsked(t, r, status)
        BY <1>5
  <2>2. PICK u, n : u = request[r].user /\ n = request[r].amount
        OBVIOUS
  <2>3. request[r].status = "pending" /\ u \in Users /\ n \in Int
        BY <2>1, <2>2 DEF SettleAsked, IInv, Owned, TypeOK, RequestRows
  <2>4. PICK x : x = [kind |-> status, user |-> u, of |-> r, amount |-> n,
                      holds |-> {Row("request", r)}]
        OBVIOUS
  <2>5. x \in TxRows /\ Knows(x) /\ Pending(x)
        BY <2>2, <2>3, <2>4 DEF TxRows, LockRows, Events, Knows, Pending
  <2>6. Lock(t, status, u, r, n, {Row("request", r)})
        BY <2>1, <2>2 DEF SettleAsked
  <2> QED BY <2>4, <2>5, <2>6, BeginHolds
<1> QED BY <1>1, <1>2, <1>3, <1>4, <1>5 DEF Begin

LEMMA NextHolds == IInv /\ [Next]_vars => IInv'
<1> SUFFICES ASSUME IInv, [Next]_vars PROVE IInv'
    OBVIOUS
<1>1. CASE Others
      BY <1>1, OthersHold
<1>2. CASE \E t \in Txs : Begin(t)
      BY <1>2, BeginsHold
<1>3. ASSUME NEW t \in Txs, Finish(t) PROVE IInv'
  <2>1. CASE Abort(t)
    <3>1. TxOK' /\ Exclusive' /\ Owned' /\ RequestNearMinimum'
          BY <2>1, EndElsewhere DEF Abort, wallet
    <3>2. UNCHANGED <<wallet, given, times>>
          BY <2>1 DEF Abort
    <3> QED BY <3>1, <3>2 DEF IInv, TypeOK, Fresh, Open, wallet
  <2> QED BY <1>3, <2>1, WithdrawHolds, SettleHolds, ExchangeHolds, DepositHolds, QuestHolds DEF Finish
<1>4. CASE UNCHANGED vars
      BY <1>4 DEF vars, wallet, IInv, TypeOK, TxOK, Knows, Pending, Exclusive, Owned, Fresh, Open,
                  RequestNearMinimum
<1> QED BY <1>1, <1>2, <1>3, <1>4 DEF Next

-----------------------------------------------------------------------------
(* The books.  One request or deposit changes at a time, and the sums over    *)
(* the others do not.                                                         *)

Requested(u) == Sum(AmountOf, Kept(u))
Deposited(u) == Sum(Paid, DepositsOf(u))
Rewarded(u) == IF u \in claimed THEN Reward ELSE 0
Booked == /\ balance \in [Users -> Int] /\ usdc \in [Users -> Int]
          /\ given \in [Users -> [coins : Int, usdc : Int]]
          /\ sold \in [Users -> [coins : Int, usdc : Int]]
          /\ \A u \in Users : Requested(u) \in Int /\ Deposited(u) \in Int /\ Rewarded(u) \in Int

LEMMA SumIsSumOver == ASSUME NEW f, NEW S PROVE Sum(f, S) = SumOver(f, S)
  BY DEF Sum, SumOver

\* What a sum over some rows of a table may be cited with.
LEMMA Parts ==
  ASSUME NEW T, IsFiniteSet(T), NEW K, K \subseteq T, NEW f, f \in [T -> Int]
  PROVE  IsFiniteSet(K) /\ Ints(f, T) /\ Ints(f, K) /\ Sum(f, K) = SumOver(f, K) /\ SumOver(f, K) \in Int
<1>1. IsFiniteSet(K)
      BY FS_Subset
<1>2. Ints(f, T) /\ Ints(f, K)
      BY DEF Ints
<1> QED BY <1>1, <1>2, SumIsSumOver, SumType

LEMMA BookedType == TypeOK => Booked
<1> SUFFICES ASSUME TypeOK PROVE Booked
    OBVIOUS
<1>1. ASSUME NEW u \in Users PROVE Requested(u) \in Int /\ Deposited(u) \in Int /\ Rewarded(u) \in Int
  <2>1. AmountOf \in [Requests -> Int] /\ Kept(u) \subseteq Requests
        BY DEF TypeOK, RequestRows, AmountOf, Kept
  <2>2. Paid \in [Deposits -> Int] /\ DepositsOf(u) \subseteq Deposits
        BY WalletAssumption DEF DepositsOf
  <2>3. Requested(u) \in Int
        BY <2>1, Parts, WalletAssumption DEF Requested
  <2>4. Deposited(u) \in Int
        BY <2>2, Parts, WalletAssumption DEF Deposited
  <2>5. Rewarded(u) \in Int
        BY WalletAssumption DEF Rewarded
  <2> QED BY <2>3, <2>4, <2>5
<1> QED BY <1>1 DEF TypeOK, Booked

\* What leaves a balance is requested or sold, or somebody took it; what enters
\* the USDC comes from where the books say.
LEMMA Moves ==
  ASSUME BooksBalance, Booked, Booked',
         \A u \in Users :
           /\ given'[u].coins - given[u].coins
                = (balance'[u] - balance[u]) + (Requested(u)' - Requested(u))
                    + (sold'[u].coins - sold[u].coins)
           /\ usdc'[u] - usdc[u]
                = (given'[u].usdc - given[u].usdc) + (Deposited(u)' - Deposited(u))
                    + (sold'[u].usdc - sold[u].usdc) + (Rewarded(u)' - Rewarded(u))
  PROVE  BooksBalance'
<1>1. SUFFICES ASSUME NEW u \in Users
               PROVE  /\ given'[u].coins = balance'[u] + Requested(u)' + sold'[u].coins
                      /\ usdc'[u] = given'[u].usdc + Deposited(u)' + sold'[u].usdc + Rewarded(u)'
      BY DEF BooksBalance, Requested, Deposited, Rewarded
<1>2. /\ given[u].coins = balance[u] + Requested(u) + sold[u].coins
      /\ usdc[u] = given[u].usdc + Deposited(u) + sold[u].usdc + Rewarded(u)
      BY DEF BooksBalance, Requested, Deposited, Rewarded
<1>3. /\ balance[u] \in Int /\ usdc[u] \in Int /\ given[u].coins \in Int /\ given[u].usdc \in Int
      /\ sold[u].coins \in Int /\ sold[u].usdc \in Int
      /\ Requested(u) \in Int /\ Deposited(u) \in Int /\ Rewarded(u) \in Int
      BY DEF Booked
<1>4. /\ balance'[u] \in Int /\ usdc'[u] \in Int /\ given'[u].coins \in Int /\ given'[u].usdc \in Int
      /\ sold'[u].coins \in Int /\ sold'[u].usdc \in Int
      /\ Requested(u)' \in Int /\ Deposited(u)' \in Int /\ Rewarded(u)' \in Int
      BY DEF Booked
<1>5. PICK q, d, w, q1, d1, w1 : /\ q = Requested(u) /\ d = Deposited(u) /\ w = Rewarded(u)
                                 /\ q1 = Requested(u)' /\ d1 = Deposited(u)' /\ w1 = Rewarded(u)'
      OBVIOUS
<1>6. PICK g, g1, b, b1, s, s1 :
        /\ g = given[u].coins /\ b = balance[u] /\ s = sold[u].coins
        /\ g1 = given'[u].coins /\ b1 = balance'[u] /\ s1 = sold'[u].coins
      OBVIOUS
<1>7. PICK e, e1, m, m1, p, p1 :
        /\ e = given[u].usdc /\ m = usdc[u] /\ p = sold[u].usdc
        /\ e1 = given'[u].usdc /\ m1 = usdc'[u] /\ p1 = sold'[u].usdc
      OBVIOUS
<1>8. /\ g \in Int /\ g1 \in Int /\ b \in Int /\ b1 \in Int /\ s \in Int /\ s1 \in Int
      /\ q \in Int /\ q1 \in Int /\ e \in Int /\ e1 \in Int /\ m \in Int /\ m1 \in Int
      /\ p \in Int /\ p1 \in Int /\ d \in Int /\ d1 \in Int /\ w \in Int /\ w1 \in Int
      BY <1>3, <1>4, <1>5, <1>6, <1>7
<1>9. g1 = b1 + q1 + s1
  <2>1. g = b + q + s /\ g1 - g = (b1 - b) + (q1 - q) + (s1 - s)
        BY <1>2, <1>5, <1>6
  <2>2. PICK a, a1 : a = b + q /\ a1 = b1 + q1
        OBVIOUS
  <2>3. (b1 - b) + (q1 - q) = a1 - a /\ a \in Int /\ a1 \in Int
        BY <1>8, <2>2
  <2>4. g = a + s /\ g1 - g = (a1 - a) + (s1 - s)
        BY <2>1, <2>2, <2>3
  <2>5. g1 = a1 + s1
        BY <1>8, <2>3, <2>4
  <2> QED BY <2>2, <2>5
<1>10. m1 = e1 + d1 + p1 + w1
  <2>1. m = e + d + p + w /\ m1 - m = (e1 - e) + (d1 - d) + (p1 - p) + (w1 - w)
        BY <1>2, <1>5, <1>7
  <2>2. PICK a, a1, c, c1 : a = e + d /\ a1 = e1 + d1 /\ c = p + w /\ c1 = p1 + w1
        OBVIOUS
  <2>3. (e1 - e) + (d1 - d) = a1 - a /\ a \in Int /\ a1 \in Int
        BY <1>8, <2>2
  <2>4. a + p + w = a + c /\ c \in Int
        BY <1>8, <2>2, <2>3
  <2>5. a1 + p1 + w1 = a1 + c1 /\ c1 \in Int
        BY <1>8, <2>2, <2>3
  <2>6. (a1 - a) + (p1 - p) + (w1 - w) = (a1 - a) + (c1 - c)
        BY <1>8, <2>2, <2>3
  <2>7. m1 - m = (a1 - a) + (c1 - c) /\ m = a + c
        BY <2>1, <2>2, <2>3, <2>4, <2>6
  <2>8. m1 = a1 + c1
        BY <1>8, <2>3, <2>4, <2>5, <2>7
  <2> QED BY <2>2, <2>5, <2>8
<1> QED BY <1>5, <1>6, <1>7, <1>9, <1>10

\* The sums of a player stay when none of the rows they add up changes.
LEMMA SameParts ==
  ASSUME UNCHANGED <<request, creditedTo, claimed>>, NEW u
  PROVE  Requested(u)' = Requested(u) /\ Deposited(u)' = Deposited(u) /\ Rewarded(u)' = Rewarded(u)
  BY DEF Requested, Deposited, Rewarded, Kept, AmountOf, DepositsOf

\* A request that enters the books, is paid, or is given back.
LEMMA OneRequest ==
  ASSUME TypeOK, TypeOK', NEW r \in Requests, \A q \in Requests : q # r => request'[q] = request[q],
         NEW u
  PROVE  /\ r \notin Kept(u) /\ r \in Kept(u)' => Requested(u)' = Requested(u) + request'[r].amount
         /\ r \in Kept(u) /\ r \notin Kept(u)' => Requested(u) = Requested(u)' + request[r].amount
         /\ r \notin Kept(u) /\ r \notin Kept(u)' => Requested(u)' = Requested(u)
         /\ r \in Kept(u) /\ r \in Kept(u)' /\ request'[r].amount = request[r].amount
              => Requested(u)' = Requested(u)
<1>0. PICK K, K1, f, f1 : K = Kept(u) /\ K1 = Kept(u)' /\ f = AmountOf /\ f1 = AmountOf'
      OBVIOUS
<1>1. \A q \in Requests : q # r => (q \in K1 <=> q \in K) /\ f1[q] = f[q]
      BY <1>0 DEF Kept, AmountOf
<1>2. f[r] = request[r].amount /\ f1[r] = request'[r].amount
      BY <1>0 DEF AmountOf
<1>3. /\ K \subseteq Requests /\ K1 \subseteq Requests
      /\ f \in [Requests -> Int] /\ f1 \in [Requests -> Int]
      BY <1>0 DEF Kept, AmountOf, TypeOK, RequestRows
<1>4. /\ IsFiniteSet(K) /\ IsFiniteSet(K1) /\ Ints(f, K) /\ Ints(f1, K1)
      /\ Sum(f, K) = SumOver(f, K) /\ Sum(f1, K1) = SumOver(f1, K1)
      BY <1>3, Parts, WalletAssumption
<1>5. Requested(u) = SumOver(f, K) /\ Requested(u)' = SumOver(f1, K1)
      BY <1>0, <1>4 DEF Requested
<1>6. CASE r \notin K /\ r \notin K1
  <2>1. K1 = K /\ \A q \in K : f1[q] = f[q]
        BY <1>1, <1>3, <1>6
  <2>2. SumOver(f1, K) = SumOver(f, K)
        BY <1>4, <2>1, SumSame
  <2> QED BY <1>0, <1>5, <1>6, <2>1, <2>2
<1>7. CASE r \notin K /\ r \in K1
  <2>1. K1 = K \cup {r} /\ \A q \in K : f1[q] = f[q]
        BY <1>1, <1>3, <1>7
  <2>2. SumOver(f1, K) = SumOver(f, K)
        BY <1>4, <2>1, SumSame
  <2>3. SumOver(f1, K \cup {r}) = SumOver(f1, K) + f1[r]
        BY <1>4, <1>7, <2>1, SumWith
  <2> QED BY <1>0, <1>2, <1>5, <1>7, <2>1, <2>2, <2>3
<1>8. CASE r \in K /\ r \notin K1
  <2>1. K = K1 \cup {r} /\ \A q \in K1 : f[q] = f1[q]
        BY <1>1, <1>3, <1>8
  <2>2. SumOver(f, K1) = SumOver(f1, K1)
        BY <1>4, <2>1, SumSame
  <2>3. SumOver(f, K1 \cup {r}) = SumOver(f, K1) + f[r]
        BY <1>4, <1>8, <2>1, SumWith
  <2> QED BY <1>0, <1>2, <1>5, <1>8, <2>1, <2>2, <2>3
<1>9. CASE r \in K /\ r \in K1
  <2>1. SUFFICES ASSUME f1[r] = f[r] PROVE SumOver(f1, K1) = SumOver(f, K)
        BY <1>0, <1>2, <1>5, <1>9
  <2>2. K1 = K /\ \A q \in K : f1[q] = f[q]
        BY <1>1, <1>3, <1>9, <2>1
  <2> QED BY <1>4, <2>2, SumSame
<1> QED BY <1>6, <1>7, <1>8, <1>9

LEMMA WithdrawBooks ==
  ASSUME IInv, IInv', BooksBalance, NEW t \in Txs, WithdrawCommitted(t) PROVE BooksBalance'
<1>0. PICK u, n : u = tx[t].user /\ n = Clamped(tx[t].amount, balance[u])
      OBVIOUS
<1>1. PICK r \in Requests : request[r] = NoRequest
        /\ request' = [request EXCEPT ![r] = [user |-> u, amount |-> n, status |-> "pending"]]
      BY <1>0 DEF WithdrawCommitted
<1>2. TypeOK /\ TypeOK' /\ u \in Users
      BY <1>0 DEF IInv, TxOK, Knows, WithdrawCommitted, IsFor
<1>3. n \in Int /\ balance[u] \in Int
  <2>1. tx[t].amount \in Int /\ balance[u] \in Int
        BY <1>2 DEF IInv, TxOK, TxRows, TypeOK
  <2> QED BY <2>1, <1>0 DEF Clamped
<1>4. /\ request \in [Requests -> RequestRows] /\ request'[r].amount = n
      /\ \A q \in Requests : q # r => request'[q] = request[q]
      BY <1>1, <1>2 DEF TypeOK
<1>5. \A x \in Users : r \notin Kept(x)
      BY <1>1 DEF Kept, NoRequest
<1>6. r \in Kept(u)' /\ \A x \in Users : x # u => r \notin Kept(x)'
      BY <1>1, <1>4 DEF Kept
<1>7. ASSUME NEW x \in Users
      PROVE  Requested(x)' - Requested(x) = IF x = u THEN n ELSE 0
  <2>1. Requested(x) \in Int
        BY <1>2, BookedType DEF Booked
  <2>2. CASE x = u
    <3>1. Requested(x)' = Requested(x) + n
          BY <2>2, <1>2, <1>4, <1>5, <1>6, OneRequest
    <3> QED BY <2>1, <2>2, <3>1, <1>3
  <2>3. CASE x # u
    <3>1. Requested(x)' = Requested(x)
          BY <2>3, <1>2, <1>4, <1>5, <1>6, OneRequest
    <3> QED BY <2>1, <2>3, <3>1
  <2> QED BY <2>2, <2>3
<1>8. ASSUME NEW x \in Users PROVE balance'[x] - balance[x] = IF x = u THEN -n ELSE 0
  <2>1. balance' = [balance EXCEPT ![u] = @ + (-n)] /\ balance \in [Users -> Int]
        BY <1>0, <1>2 DEF WithdrawCommitted, Add, TypeOK
  <2> QED BY <2>1, <1>3
<1>9. UNCHANGED <<usdc, creditedTo, claimed, sold, given>>
      BY DEF WithdrawCommitted
<1>10. \A x \in Users : Deposited(x)' = Deposited(x) /\ Rewarded(x)' = Rewarded(x)
       BY <1>9 DEF Deposited, DepositsOf, Rewarded
<1>11. Booked /\ Booked'
       BY <1>2, BookedType, PTL
<1> QED BY <1>3, <1>7, <1>8, <1>9, <1>10, <1>11, Moves DEF Booked

\* A rejection gives back what the request took, a completion keeps it.
LEMMA SettleBooks ==
  ASSUME IInv, IInv', BooksBalance, NEW t \in Txs, SettleCommitted(t) PROVE BooksBalance'
<1>0. PICK r, u, n : r = tx[t].of /\ u = tx[t].user /\ n = tx[t].amount
      OBVIOUS
<1>1. /\ r \in Requests /\ u \in Users /\ n \in Int /\ tx[t].kind \in {"completed", "rejected"}
      /\ request[r].status = "pending" /\ request[r].user = u /\ request[r].amount = n
      BY <1>0 DEF IInv, TxOK, Knows, Pending, TxRows, SettleCommitted
<1>2. TypeOK /\ TypeOK' /\ request \in [Requests -> RequestRows]
      BY DEF IInv, TypeOK
<1>3. request' = [request EXCEPT ![r].status = tx[t].kind]
      BY <1>0 DEF SettleCommitted
<1>4. /\ request'[r].status = tx[t].kind /\ request'[r].user = u /\ request'[r].amount = n
      /\ \A q \in Requests : q # r => request'[q] = request[q]
      BY <1>1, <1>2, <1>3 DEF RequestRows
<1>5. r \in Kept(u) /\ \A x \in Users : x # u => r \notin Kept(x) /\ r \notin Kept(x)'
      BY <1>1, <1>4 DEF Kept
<1>6. r \in Kept(u)' <=> tx[t].kind = "completed"
      BY <1>1, <1>4 DEF Kept
<1>7. \A x \in Users : Requested(x) \in Int /\ Requested(x)' \in Int
  <2>1. Booked /\ Booked'
        BY <1>2, BookedType, PTL
  <2> QED BY <2>1 DEF Booked
<1>8. ASSUME NEW x \in Users
      PROVE  Requested(x)' - Requested(x) = IF x = u /\ tx[t].kind = "rejected" THEN -n ELSE 0
  <2>1. CASE x # u
    <3>1. Requested(x)' = Requested(x)
          BY <2>1, <1>1, <1>2, <1>4, <1>5, OneRequest
    <3> QED BY <2>1, <3>1, <1>7
  <2>2. CASE x = u /\ tx[t].kind = "completed"
    <3>1. Requested(x)' = Requested(x)
          BY <2>2, <1>1, <1>2, <1>4, <1>5, <1>6, OneRequest
    <3> QED BY <2>2, <3>1, <1>7
  <2>3. CASE x = u /\ tx[t].kind = "rejected"
    <3>1. Requested(x) = Requested(x)' + n
          BY <2>3, <1>1, <1>2, <1>4, <1>5, <1>6, OneRequest
    <3> QED BY <2>3, <3>1, <1>1, <1>7
  <2> QED BY <2>1, <2>2, <2>3, <1>1
<1>9. ASSUME NEW x \in Users
      PROVE  balance'[x] - balance[x] = IF x = u /\ tx[t].kind = "rejected" THEN n ELSE 0
  <2>1. /\ balance' = IF tx[t].kind = "rejected" THEN [balance EXCEPT ![u] = @ + n] ELSE balance
        /\ balance \in [Users -> Int]
        BY <1>0, <1>2 DEF SettleCommitted, IsFor, Add, TypeOK
  <2> QED BY <2>1, <1>1
<1>10. UNCHANGED <<usdc, creditedTo, claimed, sold, given>>
       BY DEF SettleCommitted
<1>11. \A x \in Users : Deposited(x)' = Deposited(x) /\ Rewarded(x)' = Rewarded(x)
       BY <1>10 DEF Deposited, DepositsOf, Rewarded
<1>12. Booked /\ Booked'
       BY <1>2, BookedType, PTL
<1> QED BY <1>1, <1>8, <1>9, <1>10, <1>11, <1>12, Moves DEF Booked

LEMMA ExchangeBooks ==
  ASSUME IInv, IInv', BooksBalance, NEW t \in Txs, NEW n \in 1..MaxCoins, ExchangeCommitted(t, n)
  PROVE  BooksBalance'
<1>0. PICK u, m : u = tx[t].user /\ m = NetUsdc[n]
      OBVIOUS
<1>1. TypeOK /\ TypeOK' /\ u \in Users /\ m \in Nat /\ n \in Nat
      BY <1>0, WalletAssumption DEF IInv, TxOK, Knows, ExchangeCommitted, IsFor
<1>2. UNCHANGED <<request, creditedTo, claimed, given>>
      BY DEF ExchangeCommitted
<1>3. \A x \in Users : Requested(x)' = Requested(x) /\ Deposited(x)' = Deposited(x)
                       /\ Rewarded(x)' = Rewarded(x)
      BY <1>2, SameParts
<1>4. ASSUME NEW x \in Users
      PROVE  balance'[x] - balance[x] = (IF x = u THEN -n ELSE 0)
  <2>1. balance' = [balance EXCEPT ![u] = @ + (-n)] /\ balance \in [Users -> Int]
        BY <1>0, <1>1 DEF ExchangeCommitted, Add, TypeOK
  <2> QED BY <2>1, <1>1
<1>5. ASSUME NEW x \in Users
      PROVE  usdc'[x] - usdc[x] = (IF x = u THEN m ELSE 0)
  <2>1. usdc' = [usdc EXCEPT ![u] = @ + m] /\ usdc \in [Users -> Int]
        BY <1>0, <1>1 DEF ExchangeCommitted, Add, TypeOK
  <2> QED BY <2>1, <1>1
<1>6. ASSUME NEW x \in Users
      PROVE  /\ sold'[x].coins - sold[x].coins = (IF x = u THEN n ELSE 0)
             /\ sold'[x].usdc - sold[x].usdc = (IF x = u THEN m ELSE 0)
  <2>1. /\ sold' = [sold EXCEPT ![u] = [coins |-> @.coins + n, usdc |-> @.usdc + m]]
        /\ sold \in [Users -> [coins : Nat, usdc : Nat]]
        BY <1>0, <1>1 DEF ExchangeCommitted, TypeOK
  <2>2. sold[x].coins \in Nat /\ sold[x].usdc \in Nat
        BY <2>1
  <2>3. CASE x = u
    <3>1. sold'[x].coins = sold[x].coins + n /\ sold'[x].usdc = sold[x].usdc + m
          BY <2>1, <2>3
    <3> QED BY <2>2, <2>3, <3>1, <1>1
  <2>4. CASE x # u
    <3>1. sold'[x] = sold[x]
          BY <2>1, <2>4
    <3> QED BY <2>2, <2>4, <3>1
  <2> QED BY <2>3, <2>4
<1>7. Booked /\ Booked'
      BY <1>1, BookedType, PTL
<1> QED BY <1>1, <1>2, <1>3, <1>4, <1>5, <1>6, <1>7, Moves DEF Booked

LEMMA DepositBooks ==
  ASSUME IInv, IInv', BooksBalance, NEW t \in Txs, DepositCommitted(t) PROVE BooksBalance'
<1>0. PICK u, d : u = tx[t].user /\ d = tx[t].of
      OBVIOUS
<1>1. TypeOK /\ TypeOK' /\ u \in Users /\ d \in Deposits /\ Paid[d] \in Nat /\ u # NoUser
      BY <1>0, WalletAssumption DEF IInv, TxOK, Knows, DepositCommitted, IsFor
<1>2. /\ creditedTo \in [Deposits -> Users \cup {NoUser}] /\ creditedTo[d] = NoUser
      /\ creditedTo' = [creditedTo EXCEPT ![d] = u]
      /\ UNCHANGED <<balance, request, claimed, sold, given>>
      BY <1>0, <1>1 DEF DepositCommitted, TypeOK
<1>3. \A x \in Users : Requested(x)' = Requested(x) /\ Rewarded(x)' = Rewarded(x)
      BY <1>2 DEF Requested, Kept, AmountOf, Rewarded
<1>4. Booked /\ Booked'
      BY <1>1, BookedType, PTL
<1>5. ASSUME NEW x \in Users
      PROVE  Deposited(x)' - Deposited(x) = IF x = u THEN Paid[d] ELSE 0
  <2>1. PICK D, D1 : D = DepositsOf(x) /\ D1 = DepositsOf(x)'
        OBVIOUS
  <2>2. D \subseteq Deposits /\ d \notin D /\ D1 = IF x = u THEN D \cup {d} ELSE D
        BY <2>1, <1>1, <1>2, WalletAssumption DEF DepositsOf
  <2>3. Deposited(x) = Sum(Paid, D) /\ Deposited(x)' = Sum(Paid, D1) /\ Deposited(x) \in Int
        BY <2>1, <1>4 DEF Deposited, Booked
  <2>4. CASE x # u
        BY <2>2, <2>3, <2>4
  <2>5. CASE x = u
    <3>1. Paid \in [Deposits -> Int] /\ D \cup {d} \subseteq Deposits /\ IsFiniteSet(Deposits)
          BY <2>2, <1>1, WalletAssumption
    <3>2. Sum(Paid, D) = SumOver(Paid, D) /\ IsFiniteSet(D)
          BY <2>2, <3>1, Parts
    <3>3. Sum(Paid, D \cup {d}) = SumOver(Paid, D \cup {d}) /\ Ints(Paid, D \cup {d})
          BY <3>1, Parts
    <3>4. SumOver(Paid, D \cup {d}) = SumOver(Paid, D) + Paid[d]
          BY <2>2, <3>2, <3>3, SumWith
    <3> QED BY <2>2, <2>3, <2>5, <3>2, <3>3, <3>4, <1>1
  <2> QED BY <2>4, <2>5
<1>6. ASSUME NEW x \in Users
      PROVE  usdc'[x] - usdc[x] = IF x = u THEN Paid[d] ELSE 0
  <2>1. usdc' = [usdc EXCEPT ![u] = @ + Paid[d]] /\ usdc \in [Users -> Int]
        BY <1>0, <1>1 DEF DepositCommitted, Add, TypeOK
  <2> QED BY <2>1, <1>1
<1> QED BY <1>1, <1>2, <1>3, <1>4, <1>5, <1>6, Moves DEF Booked

LEMMA QuestBooks ==
  ASSUME IInv, IInv', BooksBalance, NEW t \in Txs, QuestCommitted(t) PROVE BooksBalance'
<1>0. PICK u : u = tx[t].user
      OBVIOUS
<1>1. TypeOK /\ TypeOK' /\ u \in Users /\ Reward \in Nat
      BY <1>0, WalletAssumption DEF IInv, TxOK, Knows, QuestCommitted, IsFor
<1>2. /\ claimed' = claimed \cup {u} /\ u \notin claimed
      /\ UNCHANGED <<balance, request, creditedTo, sold, given>>
      BY <1>0 DEF QuestCommitted
<1>3. \A x \in Users : Requested(x)' = Requested(x) /\ Deposited(x)' = Deposited(x)
      BY <1>2 DEF Requested, Kept, AmountOf, Deposited, DepositsOf
<1>4. \A x \in Users : Rewarded(x)' - Rewarded(x) = IF x = u THEN Reward ELSE 0
      BY <1>1, <1>2 DEF Rewarded
<1>5. ASSUME NEW x \in Users
      PROVE  usdc'[x] - usdc[x] = IF x = u THEN Reward ELSE 0
  <2>1. usdc' = [usdc EXCEPT ![u] = @ + Reward] /\ usdc \in [Users -> Int]
        BY <1>0, <1>1 DEF QuestCommitted, Add, TypeOK
  <2> QED BY <2>1, <1>1
<1>6. Booked /\ Booked'
      BY <1>1, BookedType, PTL
<1> QED BY <1>1, <1>2, <1>3, <1>4, <1>5, <1>6, Moves DEF Booked

\* The others write down what they give and take.
LEMMA OthersBooks == ASSUME IInv, IInv', BooksBalance, Others PROVE BooksBalance'
<1>1. UNCHANGED <<request, creditedTo, claimed, sold>>
      BY DEF Others, Earn, Spend, AdminSet, AdminSave, AdminBulk
<1>2. /\ TypeOK /\ balance \in [Users -> Int] /\ usdc \in [Users -> Int]
      /\ given \in [Users -> [coins : Int, usdc : Int]]
      BY DEF IInv, TypeOK
<1>3. \A u \in Users : /\ balance[u] \in Int /\ usdc[u] \in Int
                       /\ given[u].coins \in Int /\ given[u].usdc \in Int
      BY <1>2
<1>4. \A u \in Users : balance'[u] \in Int /\ usdc'[u] \in Int
      BY DEF IInv, TypeOK
<1>5. \A x \in Users : /\ given'[x].coins - given[x].coins = balance'[x] - balance[x]
                       /\ usdc'[x] - usdc[x] = given'[x].usdc - given[x].usdc
  <2>1. ASSUME NEW u \in Users, Earn(u), NEW x \in Users
        PROVE  /\ given'[x].coins - given[x].coins = balance'[x] - balance[x]
               /\ usdc'[x] - usdc[x] = given'[x].usdc - given[x].usdc
    <3>1. /\ balance'[x] = IF x = u THEN balance[x] + 1 ELSE balance[x]
          /\ given'[x].coins = IF x = u THEN given[x].coins + 1 ELSE given[x].coins
          /\ given'[x].usdc = given[x].usdc /\ usdc' = usdc
          BY <2>1, <1>2 DEF Earn, Add
    <3> QED BY <3>1, <1>3
  <2>2. ASSUME NEW u \in Users, Spend(u), NEW x \in Users
        PROVE  /\ given'[x].coins - given[x].coins = balance'[x] - balance[x]
               /\ usdc'[x] - usdc[x] = given'[x].usdc - given[x].usdc
    <3>1. usdc' = [usdc EXCEPT ![u] = @ + (-1)]
          BY <2>2 DEF Spend, Add
    <3>2. /\ usdc'[x] = IF x = u THEN usdc[x] + (-1) ELSE usdc[x]
          /\ given'[x].usdc = IF x = u THEN given[x].usdc - 1 ELSE given[x].usdc
          /\ given'[x].coins = given[x].coins /\ balance' = balance
          BY <2>2, <3>1, <1>2 DEF Spend
    <3> QED BY <3>2, <1>3
  <2>3. ASSUME NEW u \in Users, NEW n \in -MaxDebt..MaxCoins, AdminSet(u, n), NEW x \in Users
        PROVE  /\ given'[x].coins - given[x].coins = balance'[x] - balance[x]
               /\ usdc'[x] - usdc[x] = given'[x].usdc - given[x].usdc
    <3>1. /\ balance'[x] = IF x = u THEN n ELSE balance[x]
          /\ given'[x].coins = IF x = u THEN given[x].coins + n - balance[x] ELSE given[x].coins
          /\ given'[x].usdc = given[x].usdc /\ usdc' = usdc
          BY <2>3, <1>2 DEF AdminSet
    <3>2. CASE x = u
          BY <3>1, <3>2, <1>3
    <3>3. CASE x # u
          BY <3>1, <3>3, <1>3
    <3> QED BY <3>2, <3>3
  <2>4. ASSUME NEW u \in Users, NEW m \in -MaxDebt..MaxMoney, NEW n \in -MaxDebt..MaxCoins, AdminSave(u, m, n),
               NEW x \in Users
        PROVE  /\ given'[x].coins - given[x].coins = balance'[x] - balance[x]
               /\ usdc'[x] - usdc[x] = given'[x].usdc - given[x].usdc
    <3>1. given' = [given EXCEPT ![u] = [coins |-> @.coins + n - balance[u],
                                         usdc |-> @.usdc + m - usdc[u]]]
          /\ balance' = [balance EXCEPT ![u] = n] /\ usdc' = [usdc EXCEPT ![u] = m]
          BY <2>4 DEF AdminSave
    <3>2. CASE x = u
      <4>1. /\ given'[x].coins = given[x].coins + n - balance[x] /\ balance'[x] = n
            /\ given'[x].usdc = given[x].usdc + m - usdc[x] /\ usdc'[x] = m
            BY <3>1, <3>2, <1>2
      <4> QED BY <4>1, <1>3
    <3>3. CASE x # u
      <4>1. given'[x] = given[x] /\ balance'[x] = balance[x] /\ usdc'[x] = usdc[x]
            BY <3>1, <3>3, <1>2
      <4> QED BY <4>1, <1>3
    <3> QED BY <3>2, <3>3
  <2>5. ASSUME NEW S \in SUBSET Users, NEW n \in {-1, 1}, AdminBulk(S, n), NEW x \in Users
        PROVE  /\ given'[x].coins - given[x].coins = balance'[x] - balance[x]
               /\ usdc'[x] - usdc[x] = given'[x].usdc - given[x].usdc
    <3>1. given'[x].coins = given[x].coins + balance'[x] - balance[x]
          /\ given'[x].usdc = given[x].usdc /\ usdc' = usdc
          BY <2>5, <1>2 DEF AdminBulk
    <3> QED BY <3>1, <1>3, <1>4
  <2> QED BY <2>1, <2>2, <2>3, <2>4, <2>5 DEF Others
<1>6. \A x \in Users : Requested(x)' = Requested(x) /\ Deposited(x)' = Deposited(x)
                       /\ Rewarded(x)' = Rewarded(x)
      BY <1>1, SameParts
<1>7. Booked /\ Booked' /\ \A x \in Users : given'[x].coins \in Int /\ given'[x].usdc \in Int
  <2>1. Booked /\ Booked'
        BY BookedType, PTL DEF IInv
  <2> QED BY <2>1 DEF Booked
<1> QED BY <1>1, <1>3, <1>4, <1>5, <1>6, <1>7, Moves DEF Booked

LEMMA BooksStep == IInv /\ IInv' /\ BooksBalance /\ [Next]_vars => BooksBalance'
<1> SUFFICES ASSUME IInv, IInv', BooksBalance, [Next]_vars PROVE BooksBalance'
    OBVIOUS
<1>1. CASE Others
      BY <1>1, OthersBooks
<1>2. ASSUME NEW t \in Txs, Begin(t) PROVE UNCHANGED <<wallet, given>>
      BY <1>2 DEF Begin, WithdrawAsked, ExchangeAsked, DepositAsked, QuestAsked, SettleAsked, Lock
<1>3. ASSUME NEW t \in Txs, Abort(t) PROVE UNCHANGED <<wallet, given>>
      BY <1>3 DEF Abort
<1>4. ASSUME UNCHANGED <<wallet, given>> PROVE BooksBalance'
      BY <1>4 DEF wallet, BooksBalance, Kept, AmountOf, DepositsOf
<1>5. ASSUME NEW t \in Txs, Finish(t) PROVE BooksBalance'
      BY <1>3, <1>4, <1>5, WithdrawBooks, SettleBooks, ExchangeBooks, DepositBooks, QuestBooks DEF Finish
<1>6. CASE UNCHANGED vars
      BY <1>4, <1>6 DEF vars
<1> QED BY <1>1, <1>2, <1>4, <1>5, <1>6 DEF Next

LEMMA BooksInit == Init => BooksBalance
<1> SUFFICES ASSUME Init, NEW u \in Users
             PROVE  /\ given[u].coins = balance[u] + Requested(u) + sold[u].coins
                    /\ usdc[u] = given[u].usdc + Deposited(u) + sold[u].usdc + Rewarded(u)
    BY DEF BooksBalance, Requested, Deposited, Rewarded
<1>1. Kept(u) = {} /\ DepositsOf(u) = {}
      BY WalletAssumption DEF Init, Kept, NoRequest, DepositsOf
<1>2. Requested(u) = 0 /\ Deposited(u) = 0
      BY <1>1, SumEmpty, SumIsSumOver DEF Requested, Deposited
<1>3. /\ balance[u] = 0 /\ usdc[u] = 0 /\ given[u].coins = 0 /\ given[u].usdc = 0
      /\ sold[u].coins = 0 /\ sold[u].usdc = 0 /\ Rewarded(u) = 0
      BY DEF Init, Rewarded
<1> QED BY <1>2, <1>3

\* Every coin and every USDC of a player is accounted for, whatever number of
\* requests, settlements, sales, deposits and administrators interleave.
THEOREM BooksAlwaysBalance == Spec => []BooksBalance
<1>1. Init => IInv /\ BooksBalance
      BY InitHolds, BooksInit
<1>2. IInv /\ BooksBalance /\ [Next]_vars => (IInv /\ BooksBalance)'
      BY NextHolds, BooksStep
<1> QED BY <1>1, <1>2, PTL DEF Spec

\* A retried key, a chain transaction claimed twice, a quest and two administrators
\* with one request: none takes effect twice, for any number of each.
THEOREM TakesEffectOnce == Spec => []NothingTwice
<1>1. IInv => NothingTwice
      BY DEF IInv, Fresh, NothingTwice
<1> QED BY <1>1, InitHolds, NextHolds, PTL DEF Spec

\* A request is below the minimum by no more than the tolerance of the comparison
\* and the absorbed rounding, for all values of both.
THEOREM MinimumKept == Spec => []RequestNearMinimum
<1>1. IInv => RequestNearMinimum
      BY DEF IInv
<1> QED BY <1>1, InitHolds, NextHolds, PTL DEF Spec

\* Tables keep their types; a balance is an integer of either sign, since an
\* administrator may set any.
THEOREM TypeCorrect == Spec => []TypeOK
<1>1. IInv => TypeOK
      BY DEF IInv
<1> QED BY <1>1, InitHolds, NextHolds, PTL DEF Spec

-----------------------------------------------------------------------------
(* Who may bring a balance below zero.                                        *)

\* An administrator's amount, or the rejection of a request below zero.
Corrected(u) ==
  \/ \E n \in -MaxDebt..MaxCoins : AdminSet(u, n)
  \/ \E m \in -MaxDebt..MaxMoney, n \in -MaxDebt..MaxCoins : AdminSave(u, m, n)
GivenBack(u) == \E r \in Requests : /\ request[r].user = u /\ request[r].amount < 0
                                    /\ request[r].status = "pending" /\ request'[r].status = "rejected"
OnlyCorrected ==
  \A u \in Users :
    /\ balance[u] >= 0 /\ balance'[u] < 0 => Corrected(u) \/ GivenBack(u)
    /\ usdc[u] >= 0 /\ usdc'[u] < 0 => Corrected(u)

LEMMA OthersLeaveDebt == ASSUME IInv, Others, NEW u \in Users, ~Corrected(u)
                         PROVE  /\ balance[u] >= 0 => balance'[u] >= 0
                                /\ usdc[u] >= 0 => usdc'[u] >= 0
<1>0. balance \in [Users -> Int] /\ usdc \in [Users -> Int]
      BY DEF IInv, TypeOK
<1>1. CASE \E x \in Users : Earn(x)
  <2>1. PICK x \in Users : balance' = [balance EXCEPT ![x] = @ + 1] /\ UNCHANGED usdc
        BY <1>1 DEF Earn, Add
  <2> QED BY <2>1, <1>0
<1>2. CASE \E x \in Users : Spend(x)
  <2>1. PICK x \in Users : /\ usdc[x] >= 1 /\ usdc' = [usdc EXCEPT ![x] = @ + (-1)]
                           /\ UNCHANGED balance
        BY <1>2 DEF Spend, Add
  <2> QED BY <2>1, <1>0
<1>3. CASE \E x \in Users, n \in -MaxDebt..MaxCoins : AdminSet(x, n)
  <2>1. PICK x \in Users, n \in -MaxDebt..MaxCoins : AdminSet(x, n)
        BY <1>3
  <2>2. x # u
        BY <2>1 DEF Corrected
  <2> QED BY <2>1, <2>2, <1>0 DEF AdminSet
<1>4. CASE \E x \in Users, m \in -MaxDebt..MaxMoney, n \in -MaxDebt..MaxCoins : AdminSave(x, m, n)
  <2>1. PICK x \in Users, m \in -MaxDebt..MaxMoney, n \in -MaxDebt..MaxCoins : AdminSave(x, m, n)
        BY <1>4
  <2>2. x # u
        BY <2>1 DEF Corrected
  <2> QED BY <2>1, <2>2, <1>0 DEF AdminSave
<1>5. CASE \E S \in SUBSET Users, n \in {-1, 1} : AdminBulk(S, n)
  <2>1. PICK S \in SUBSET Users, n \in {-1, 1} : AdminBulk(S, n)
        BY <1>5
  <2>2. Floored(balance[u] + n) >= 0
        BY <2>1, <1>0 DEF Floored
  <2> QED BY <2>1, <2>2, <1>0 DEF AdminBulk
<1> QED BY <1>1, <1>2, <1>3, <1>4, <1>5 DEF Others

LEMMA EndsLeaveDebt == ASSUME IInv, NEW t \in Txs, Finish(t), NEW u \in Users
                       PROVE  /\ balance[u] >= 0 /\ ~GivenBack(u) => balance'[u] >= 0
                              /\ usdc[u] >= 0 => usdc'[u] >= 0
<1>0. balance \in [Users -> Int] /\ usdc \in [Users -> Int]
      BY DEF IInv, TypeOK
<1>1. PICK x, a, p : x = tx[t].user /\ a = tx[t].amount /\ p = tx[t].of
      OBVIOUS
<1>2. a \in Int
      BY <1>1 DEF IInv, TxOK, TxRows
<1>3. CASE WithdrawCommitted(t)
  <2>1. PICK n : n = Clamped(a, balance[x])
        OBVIOUS
  <2>2. n <= balance[x] /\ balance' = [balance EXCEPT ![x] = @ + (-n)] /\ UNCHANGED usdc
        BY <1>1, <1>3, <2>1 DEF WithdrawCommitted, Add
  <2>3. CASE u # x
        BY <2>2, <2>3, <1>0
  <2>4. CASE u = x
    <3>1. n \in Int /\ balance[x] \in Int
          BY <2>1, <2>4, <1>0, <1>2 DEF Clamped
    <3> QED BY <2>2, <2>4, <3>1, <1>0
  <2> QED BY <2>3, <2>4
<1>4. CASE SettleCommitted(t)
  <2>1. /\ balance' = IF tx[t].kind = "rejected" THEN [balance EXCEPT ![x] = @ + a] ELSE balance
        /\ UNCHANGED usdc
        BY <1>1, <1>4 DEF SettleCommitted, IsFor, Add
  <2>2. /\ p \in Requests /\ request[p].status = "pending"
        /\ request[p].user = x /\ request[p].amount = a
        BY <1>1, <1>4 DEF IInv, TxOK, Knows, Pending, SettleCommitted
  <2>3. request' = [request EXCEPT ![p].status = tx[t].kind]
        BY <1>1, <1>4 DEF SettleCommitted
  <2>4. request'[p].status = tx[t].kind
        BY <2>2, <2>3 DEF IInv, TypeOK, RequestRows
  <2>5. u = x /\ tx[t].kind = "rejected" /\ ~GivenBack(u) => a >= 0
        BY <2>2, <2>4, <1>2 DEF GivenBack
  <2> QED BY <2>1, <2>5, <1>0, <1>2
<1>5. CASE \E n \in 1..MaxCoins : ExchangeCommitted(t, n)
  <2>1. PICK n \in 1..MaxCoins : ExchangeCommitted(t, n)
        BY <1>5
  <2>2. PICK m : m = NetUsdc[n]
        OBVIOUS
  <2>3. m \in Nat
        BY <2>2, WalletAssumption
  <2>4. /\ n <= balance[x] /\ balance' = [balance EXCEPT ![x] = @ + (-n)]
        /\ usdc' = [usdc EXCEPT ![x] = @ + m]
        BY <1>1, <2>1, <2>2 DEF ExchangeCommitted, Add
  <2>5. balance[u] >= 0 => balance'[u] >= 0
        BY <2>4, <1>0
  <2>6. usdc[u] >= 0 => usdc'[u] >= 0
        BY <2>3, <2>4, <1>0
  <2> QED BY <2>5, <2>6
<1>6. CASE DepositCommitted(t)
  <2>1. PICK m : m = Paid[p]
        OBVIOUS
  <2>2. m \in Nat
        BY <1>1, <1>6, <2>1, WalletAssumption DEF IInv, TxOK, Knows, DepositCommitted, IsFor
  <2>3. usdc' = [usdc EXCEPT ![x] = @ + m] /\ UNCHANGED balance
        BY <1>1, <1>6, <2>1 DEF DepositCommitted, Add
  <2> QED BY <2>2, <2>3, <1>0
<1>7. CASE QuestCommitted(t)
  <2>1. Reward \in Nat
        BY WalletAssumption
  <2>2. usdc' = [usdc EXCEPT ![x] = @ + Reward] /\ UNCHANGED balance
        BY <1>1, <1>7 DEF QuestCommitted, Add
  <2> QED BY <2>1, <2>2, <1>0
<1>8. CASE Abort(t)
      BY <1>8 DEF Abort, wallet
<1> QED BY <1>3, <1>4, <1>5, <1>6, <1>7, <1>8 DEF Finish

\* No withdrawal, sale, purchase, settlement or bulk change overdraws a balance,
\* however they interleave: below zero it goes only by what an administrator sets,
\* or by the rejection of a request that was itself cut to a balance below zero.
THEOREM DebtOnlyByCorrection == Spec => [][OnlyCorrected]_vars
<1>1. IInv /\ [Next]_vars => [OnlyCorrected]_vars
  <2>1. SUFFICES ASSUME IInv, Next PROVE OnlyCorrected
        OBVIOUS
  <2>2. SUFFICES ASSUME NEW u \in Users
                 PROVE  /\ balance[u] >= 0 /\ balance'[u] < 0 => Corrected(u) \/ GivenBack(u)
                        /\ usdc[u] >= 0 /\ usdc'[u] < 0 => Corrected(u)
        BY DEF OnlyCorrected
  <2>3. balance[u] \in Int /\ usdc[u] \in Int /\ balance'[u] \in Int /\ usdc'[u] \in Int
        BY <2>1, NextHolds DEF IInv, TypeOK
  <2>4. CASE Others
        BY <2>1, <2>3, <2>4, OthersLeaveDebt
  <2>5. ASSUME NEW t \in Txs, Begin(t) PROVE UNCHANGED <<balance, usdc>>
        BY <2>5 DEF Begin, WithdrawAsked, ExchangeAsked, DepositAsked, QuestAsked, SettleAsked, Lock,
                    wallet
  <2>6. ASSUME NEW t \in Txs, Finish(t)
        PROVE  /\ balance[u] >= 0 /\ balance'[u] < 0 => GivenBack(u)
               /\ ~(usdc[u] >= 0 /\ usdc'[u] < 0)
        BY <2>1, <2>3, <2>6, EndsLeaveDebt
  <2> QED BY <2>1, <2>3, <2>4, <2>5, <2>6 DEF Next
<1> QED BY <1>1, InitHolds, NextHolds, PTL DEF Spec
===============================================================================
