\* Two players, two requests, one key, one deposit both may claim.
SPECIFICATION Spec
CONSTANTS
  Users = {u1, u2}
  Requests = {r1, r2}
  Deposits = {d1}
  Keys = {k1}
  NoKey = NoKey
  Txs = {t1, t2}
  NoUser = NoUser
  Nothing = Nothing
  Senders <- MCSenders
  Paid <- MCPaid
  NetUsdc <- MCNetUsdc
  Reward = 1
  MinAmount = 3
  Tolerance = 1
  MaxRounding = 1
  MaxCoins = 2
  MaxMoney = 1
  MaxDebt = 1
CONSTRAINT Bounded
SYMMETRY MCSymmetry
INVARIANTS BooksBalance NothingTwice RequestNearMinimum
