------------------------------- MODULE Wallet -------------------------------
(***************************************************************************)
(* The money of the players outside the game's market: a mined coin        *)
(* (coin_balances) that can be withdrawn or sold for USDC, withdrawal      *)
(* requests an administrator settles, chain deposits credited as USDC and  *)
(* quest rewards.  Each operation is one transaction of genesis-wallet in  *)
(* two steps: the locks it takes with what it reads under them, and the    *)
(* rest up to the commit, which holds every balance row it reads.  Mining, *)
(* purchases and administrators change balances in between.                *)
(***************************************************************************)
EXTENDS Integers, FiniteSetsExt

CONSTANTS Users, Requests, Deposits,      \* requests: the uuids; deposits: chain transactions
          Keys, NoKey,                    \* idempotency keys; an exchange may come without
          Txs, NoUser, Nothing,
          Senders,                        \* the players that know a deposit's sender wallet
          Paid,                           \* the USDC a deposit brings
          NetUsdc,                        \* what the desk pays for so many coins, 0: refused
          Reward, MinAmount,              \* quest reward, least withdrawal
          Tolerance, MaxRounding,         \* so much less passes; so much is cut to the balance
          MaxCoins, MaxMoney, MaxDebt     \* bounds of the model

Scopes == {"withdraw", "exchange"}

ASSUME WalletAssumption ==
  /\ IsFiniteSet(Requests) /\ IsFiniteSet(Deposits)
  /\ NoUser \notin Users /\ NoKey \notin Keys /\ Nothing \notin Users \X Scopes \X Keys
  /\ Senders \in [Deposits -> SUBSET Users] /\ Paid \in [Deposits -> Nat \ {0}]
  /\ MaxCoins \in Nat /\ MaxMoney \in Nat /\ MaxDebt \in Nat
  /\ NetUsdc \in [1..MaxCoins -> Nat]
  /\ Reward \in Nat /\ MinAmount \in Nat /\ Tolerance \in Nat /\ MaxRounding \in Nat

Answers == Users \X Scopes \X Keys           \* the primary key of wallet_idempotency

VARIABLES
  balance,     \* coin_balances.amount
  usdc,        \* game_states.usdc
  request,     \* withdrawal_requests: user_id, amount_crypto, status
  answered,    \* wallet_idempotency: the rows there are
  creditedTo,  \* user_deposit_history: whose deposit a chain transaction is
  claimed,     \* user_quest_progress: the players whose claimed_at is set
  sold,        \* wallet_ledger_entries: coins sold and USDC paid for them
  tx,          \* the transactions in progress
  given,       \* history: coins and USDC that others gave or took
  times        \* history: how often each key, deposit, claim, request took effect

wallet == <<balance, usdc, request, answered, creditedTo, claimed, sold>>
vars == <<wallet, tx, given, times>>

NoRequest == [user |-> NoUser, amount |-> 0, status |-> "none"]
NoTx == [kind |-> "none", user |-> NoUser, of |-> Nothing, amount |-> 0, holds |-> {}]
Answer(u, scope, k) == <<u, scope, k>>
Row(table, x) == <<table, x>>

RequestRows == [user : Users \cup {NoUser}, amount : Int,
                status : {"none", "pending", "completed", "rejected"}]
\* What may take effect once, named by the row that is locked for it.
Events == {Row("key", p) : p \in Answers} \cup {Row("deposit", d) : d \in Deposits}
            \cup {Row("quest", u) : u \in Users} \cup {Row("request", r) : r \in Requests}

TypeOK ==
  /\ balance \in [Users -> Int] /\ usdc \in [Users -> Int]
  /\ request \in [Requests -> RequestRows]
  /\ answered \subseteq Answers
  /\ creditedTo \in [Deposits -> Users \cup {NoUser}]
  /\ claimed \subseteq Users
  /\ sold \in [Users -> [coins : Nat, usdc : Nat]]
  /\ given \in [Users -> [coins : Int, usdc : Int]]
  /\ times \in [Events -> Nat]

Init ==
  /\ balance = [u \in Users |-> 0] /\ usdc = [u \in Users |-> 0]
  /\ request = [r \in Requests |-> NoRequest]
  /\ answered = {} /\ creditedTo = [d \in Deposits |-> NoUser] /\ claimed = {}
  /\ sold = [u \in Users |-> [coins |-> 0, usdc |-> 0]]
  /\ tx = [t \in Txs |-> NoTx]
  /\ given = [u \in Users |-> [coins |-> 0, usdc |-> 0]]
  /\ times = [e \in Events |-> 0]

-----------------------------------------------------------------------------
(* Transactions.  A commit or the end of the connection releases the locks. *)

Held == UNION {tx[t].holds : t \in Txs}
NotWaiting(rows) == TRUE                    \* fault: read without FOR UPDATE
Lockable(rows) == rows \cap Held = {}
UserRow(u) == Row("users", u)

Lock(t, kind, u, of, n, rows) ==
  /\ tx[t] = NoTx /\ Lockable(rows)
  /\ tx' = [tx EXCEPT ![t] = [kind |-> kind, user |-> u, of |-> of, amount |-> n, holds |-> rows]]
  /\ UNCHANGED <<wallet, given, times>>
End(t) == tx' = [tx EXCEPT ![t] = NoTx]
Once(E) == times' = [e \in Events |-> IF e \in E THEN times[e] + 1 ELSE times[e]]
Add(f, u, n) == [f EXCEPT ![u] = @ + n]
IsFor(t, kind) == tx[t].kind = kind

\* A statement runs into its timeout, the request is refused, the process stops.
Abort(t) == /\ tx[t] # NoTx /\ End(t) /\ UNCHANGED <<wallet, given, times>>

-----------------------------------------------------------------------------
(* Withdrawal: request, then completion or rejection                         *)

ForgetAnswer(P) == answered                \* fault: the answer is not kept
Remember(P) == answered \cup P

WithdrawAsked(t, u, k, n) ==
  /\ n + Tolerance >= MinAmount
  /\ Answer(u, "withdraw", k) \notin answered
  /\ Lock(t, "withdraw", u, Answer(u, "withdraw", k), n,
          {UserRow(u), Row("key", Answer(u, "withdraw", k))})

\* A request slightly above the balance is for the balance; the minimum was
\* compared with what was asked.
ClampAny(n, b) == IF n > b THEN b ELSE n    \* fault: any request is cut to the balance
Clamped(n, b) == IF n > b /\ n - b <= MaxRounding THEN b ELSE n

WithdrawCommitted(t) ==
  LET u == tx[t].user  p == tx[t].of  n == Clamped(tx[t].amount, balance[u]) IN
  /\ IsFor(t, "withdraw") /\ n <= balance[u] /\ p \notin answered
  /\ balance' = Add(balance, u, -n)
  /\ \E r \in Requests :
       /\ request[r] = NoRequest
       /\ request' = [request EXCEPT ![r] = [user |-> u, amount |-> n, status |-> "pending"]]
  /\ answered' = Remember({p})
  /\ Once({Row("key", p)}) /\ End(t)
  /\ UNCHANGED <<usdc, creditedTo, claimed, sold, given>>

\* run_admin_withdrawal_status: the row is locked, then refunded or not, then written.
SettleAsked(t, r, status) ==
  /\ request[r].status = "pending"
  /\ Lock(t, status, request[r].user, r, request[r].amount, {Row("request", r)})
SettleCommitted(t) ==
  LET r == tx[t].of IN
  /\ tx[t].kind \in {"completed", "rejected"}
  /\ balance' = IF IsFor(t, "rejected") THEN Add(balance, tx[t].user, tx[t].amount) ELSE balance
  /\ request' = [request EXCEPT ![r].status = tx[t].kind]
  /\ Once({Row("request", r)}) /\ End(t)
  /\ UNCHANGED <<usdc, answered, creditedTo, claimed, sold, given>>

-----------------------------------------------------------------------------
(* Exchange: coins for USDC *)

ExchangeAsked(t, u, k) ==
  LET p == Answer(u, "exchange", k) IN
  IF k = NoKey THEN Lock(t, "exchange", u, Nothing, 0, {UserRow(u)})
  ELSE /\ p \notin answered
       /\ Lock(t, "exchange", u, p, 0, {UserRow(u), Row("key", p)})
ExchangeCommitted(t, n) ==
  LET u == tx[t].user  P == {tx[t].of} \ {Nothing} IN
  /\ IsFor(t, "exchange") /\ n <= balance[u] /\ NetUsdc[n] > 0 /\ P \cap answered = {}
  /\ balance' = Add(balance, u, -n)
  /\ usdc' = Add(usdc, u, NetUsdc[n])
  /\ sold' = [sold EXCEPT ![u] = [coins |-> @.coins + n, usdc |-> @.usdc + NetUsdc[n]]]
  /\ answered' = Remember(P)
  /\ Once({Row("key", p) : p \in P}) /\ End(t)
  /\ UNCHANGED <<request, creditedTo, claimed, given>>

-----------------------------------------------------------------------------
(* Deposits and quest rewards *)

\* The chain transaction is locked, then the player; either refuses a known one.
DepositAsked(t, u, d) ==
  /\ u \in Senders[d] /\ creditedTo[d] = NoUser
  /\ Lock(t, "deposit", u, d, 0, {Row("deposit", d), UserRow(u)})
DepositCommitted(t) ==
  LET u == tx[t].user  d == tx[t].of IN
  /\ IsFor(t, "deposit") /\ creditedTo[d] = NoUser
  /\ creditedTo' = [creditedTo EXCEPT ![d] = u]
  /\ usdc' = Add(usdc, u, Paid[d])
  /\ Once({Row("deposit", d)}) /\ End(t)
  /\ UNCHANGED <<balance, request, answered, claimed, sold, given>>

QuestAsked(t, u) ==
  /\ u \notin claimed
  /\ Lock(t, "quest", u, u, 0, {Row("quest", u)})
QuestCommitted(t) ==
  LET u == tx[t].user IN
  /\ IsFor(t, "quest") /\ u \notin claimed
  /\ claimed' = claimed \cup {u}
  /\ usdc' = Add(usdc, u, Reward)
  /\ Once({Row("quest", u)}) /\ End(t)
  /\ UNCHANGED <<balance, request, answered, creditedTo, sold, given>>

-----------------------------------------------------------------------------
(* What else changes the balances: one statement or transaction each.  What is *)
(* given to a player, spent and owed is bounded by MaxCoins, MaxMoney, MaxDebt. *)

Within == /\ \A u \in Users : given'[u].coins <= MaxCoins
          /\ \A u \in Users : given'[u].usdc \in -MaxMoney..0

\* Mining, a box, a manager's week: an increment.
Earn(u) ==
  /\ balance' = Add(balance, u, 1)
  /\ given' = [given EXCEPT ![u].coins = @ + 1]
  /\ Within
  /\ UNCHANGED <<usdc, request, answered, creditedTo, claimed, sold, tx, times>>

\* A purchase: a decrement that leaves no debt.
Spend(u) ==
  /\ usdc[u] >= 1
  /\ usdc' = Add(usdc, u, -1)
  /\ given' = [given EXCEPT ![u].usdc = @ - 1]
  /\ Within
  /\ UNCHANGED <<balance, request, answered, creditedTo, claimed, sold, tx, times>>

\* run_admin_set_coin_balance: the amount typed in, whatever there is; it need
\* only be finite and may be below zero.
AdminSet(u, n) ==
  /\ balance' = [balance EXCEPT ![u] = n]
  /\ given' = [given EXCEPT ![u].coins = @ + n - balance[u]]
  /\ Within
  /\ UNCHANGED <<usdc, request, answered, creditedTo, claimed, sold, tx, times>>

\* run_admin_save_game_balances: USDC and coins, of either sign too.
AdminSave(u, m, n) ==
  /\ usdc' = [usdc EXCEPT ![u] = m] /\ balance' = [balance EXCEPT ![u] = n]
  /\ given' = [given EXCEPT ![u] = [coins |-> @.coins + n - balance[u], usdc |-> @.usdc + m - usdc[u]]]
  /\ Within
  /\ UNCHANGED <<request, answered, creditedTo, claimed, sold, tx, times>>

\* run_admin_bulk_coin_balance: everybody listed, miners and holders, not below 0.
Floored(n) == IF n < 0 THEN 0 ELSE n
AdminBulk(S, n) ==
  /\ balance' = [u \in Users |-> IF u \in S THEN Floored(balance[u] + n) ELSE balance[u]]
  /\ given' = [u \in Users |-> [given[u] EXCEPT !.coins = @ + balance'[u] - balance[u]]]
  /\ Within
  /\ UNCHANGED <<usdc, request, answered, creditedTo, claimed, sold, tx, times>>

Begin(t) ==
  \/ \E u \in Users :
       \/ \E k \in Keys, n \in 1..MaxCoins : WithdrawAsked(t, u, k, n)
       \/ \E k \in Keys \cup {NoKey} : ExchangeAsked(t, u, k)
       \/ \E d \in Deposits : DepositAsked(t, u, d)
       \/ QuestAsked(t, u)
  \/ \E r \in Requests, status \in {"completed", "rejected"} : SettleAsked(t, r, status)
Finish(t) ==
  \/ WithdrawCommitted(t) \/ SettleCommitted(t)
  \/ \E n \in 1..MaxCoins : ExchangeCommitted(t, n)
  \/ DepositCommitted(t) \/ QuestCommitted(t) \/ Abort(t)
Others ==
  \/ \E u \in Users : Earn(u) \/ Spend(u)
  \/ \E u \in Users, n \in -MaxDebt..MaxCoins : AdminSet(u, n)
  \/ \E u \in Users, m \in -MaxDebt..MaxMoney, n \in -MaxDebt..MaxCoins : AdminSave(u, m, n)
  \/ \E S \in SUBSET Users, n \in {-1, 1} : AdminBulk(S, n)

Next == Others \/ \E t \in Txs : Begin(t) \/ Finish(t)

Spec == Init /\ [][Next]_vars

-----------------------------------------------------------------------------
(* Properties *)

Sum(f, S) == MapThenSumSet(LAMBDA x : f[x], S)
AmountOf == [r \in Requests |-> request[r].amount]
Kept(u) == {r \in Requests : request[r].user = u /\ request[r].status \in {"pending", "completed"}}
DepositsOf(u) == {d \in Deposits : creditedTo[d] = u}

\* However requests, settlements, sales, credits and aborted attempts interleave, a
\* player's coins are what was given less what is requested, paid out or sold, and
\* the USDC what deposits, the desk, quests and others brought: none is lost in a
\* clamp, refunded next to a payment or credited twice.
BooksBalance ==
  \A u \in Users :
    /\ given[u].coins = balance[u] + Sum(AmountOf, Kept(u)) + sold[u].coins
    /\ usdc[u] = given[u].usdc + Sum(Paid, DepositsOf(u)) + sold[u].usdc
                   + (IF u \in claimed THEN Reward ELSE 0)

\* A retried key debits once, also while the first attempt runs; one chain
\* transaction is credited once whoever claims it, a quest rewarded once, and of
\* two administrators that settle one request only one does.
NothingTwice == \A e \in Events : times[e] <= 1

\* Although the minimum is checked before the amount is clamped, and the balance may
\* change in between, no request is below the minimum by more than the tolerance of
\* the check and the rounding.
RequestNearMinimum ==
  \A r \in Requests : request[r].status # "none" =>
    request[r].amount + MaxRounding + Tolerance >= MinAmount
=============================================================================
