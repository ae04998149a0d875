------------------------- MODULE MarketLocksProofs --------------------------
(***************************************************************************)
(* No circle of waits among buys, reservations and cash-outs, and none     *)
(* among the other handlers of a player either, for every number of        *)
(* connections, users, listings and units.  A handler is a list of rows    *)
(* and how far it has come (LInv); a row that is only locked behind        *)
(* another one is never waited for, and what is left has an order.         *)
(***************************************************************************)
EXTENDS MarketLocks, FiniteSums, SequenceTheorems

UnitRow(e) == <<"item_instances", e>>
Rows == ({"player_listings"} \X Listings) \cup ({"users", "game_states", "stock"} \X Users)
          \cup ({"item_instances"} \X Units)

LEMMA RowTypes ==
  /\ \A l \in Listings : ListingRow(l) \in Rows
  /\ \A x \in Users : UserRow(x) \in Rows /\ GameRow(x) \in Rows /\ StockRow(x) \in Rows
  /\ \A e \in Units : UnitRow(e) \in Rows
  BY DEF Rows, ListingRow, UserRow, GameRow, StockRow, UnitRow

LEMMA RowsDiffer ==
  ASSUME NEW x, NEW y
  PROVE  /\ UserRow(x) # ListingRow(y) /\ UserRow(x) # GameRow(y) /\ UserRow(x) # StockRow(y)
         /\ UserRow(x) # UnitRow(y) /\ GameRow(x) # ListingRow(y) /\ GameRow(x) # StockRow(y)
         /\ GameRow(x) # UnitRow(y) /\ StockRow(x) # ListingRow(y) /\ StockRow(x) # UnitRow(y)
         /\ UnitRow(x) # ListingRow(y)
         /\ UserRow(x) = UserRow(y) => x = y
         /\ GameRow(x) = GameRow(y) => x = y
         /\ StockRow(x) = StockRow(y) => x = y
         /\ UnitRow(x) = UnitRow(y) => x = y
         /\ ListingRow(x) = ListingRow(y) => x = y
  BY DEF ListingRow, UserRow, GameRow, StockRow, UnitRow

LEMMA UnitRowsParts ==
  ASSUME NEW s \in Seq(Units)
  PROVE  /\ UnitRows(s) \in Seq(Rows) /\ Len(UnitRows(s)) = Len(s)
         /\ \A i \in 1..Len(s) : s[i] \in Range(s) /\ s[i] \in Units /\ UnitRows(s)[i] = UnitRow(s[i])
<1>1. DOMAIN s = 1..Len(s) /\ Len(s) \in Nat
      OBVIOUS
<1>2. \A i \in 1..Len(s) : s[i] \in Range(s) /\ s[i] \in Units
      BY <1>1 DEF Range
<1>3. PICK q, n : q = UnitRows(s) /\ n = Len(s)
      OBVIOUS
<1>4. q = [i \in 1..n |-> UnitRow(s[i])]
      BY <1>1, <1>3 DEF UnitRows, UnitRow
<1>5. \A i \in 1..n : UnitRow(s[i]) \in Rows
      BY <1>2, <1>3, RowTypes
<1>6. q \in Seq(Rows) /\ Len(q) = n
      BY <1>1, <1>3, <1>4, <1>5
<1> QED BY <1>2, <1>3, <1>4, <1>6

-----------------------------------------------------------------------------
(* The ids of a buy, in ascending order. *)

Ascending(q) == \A i, j \in DOMAIN q : i < j => q[i] < q[j]

LEMMA PairCount ==
  ASSUME NEW a, NEW b, a # b
  PROVE  IsFiniteSet({a, b}) /\ Cardinality({a, b}) = 2
<1>1. PICK S, T : S = {a} /\ T = {a, b}
      OBVIOUS
<1>2. IsFiniteSet({a}) /\ Cardinality({a}) = 1
      BY FS_Singleton
<1>3. b \notin S /\ T = S \cup {b} /\ IsFiniteSet(S) /\ Cardinality(S) = 1
      BY <1>1, <1>2
<1>4. IsFiniteSet(S \cup {b}) /\ Cardinality(S \cup {b}) = Cardinality(S) + 1
      BY <1>3, FS_AddElement
<1> QED BY <1>1, <1>3, <1>4

LEMMA TwoAscend ==
  ASSUME NEW a \in Int, NEW b \in Int, a < b
  PROVE  \E q \in SetToSeqs({a, b}) : Ascending(q)
<1>1. Cardinality({a, b}) = 2
  <2>1. a # b
        OBVIOUS
  <2> QED BY <2>1, PairCount
<1>2. PICK q : q = [i \in 1..2 |-> IF i = 1 THEN a ELSE b]
      OBVIOUS
<1>3. q \in [1..2 -> {a, b}] /\ Ascending(q) /\ \A i, j \in 1..2 : i # j => q[i] # q[j]
      BY <1>2 DEF Ascending
<1> QED BY <1>1, <1>3 DEF SetToSeqs

LEMMA ThreeAscend ==
  ASSUME NEW a \in Int, NEW b \in Int, NEW c \in Int, a < b, b < c
  PROVE  \E q \in SetToSeqs({a, b, c}) : Ascending(q)
<1>1. Cardinality({a, b, c}) = 3
  <2>1. a # b
        OBVIOUS
  <2>2. IsFiniteSet({a, b}) /\ Cardinality({a, b}) = 2
        BY <2>1, PairCount
  <2>3. PICK S, T : S = {a, b} /\ T = {a, b, c}
        OBVIOUS
  <2>4. c \notin S /\ T = S \cup {c} /\ IsFiniteSet(S) /\ Cardinality(S) = 2
        BY <2>2, <2>3
  <2>5. Cardinality(T) = 3
        BY <2>4, FS_AddElement
  <2> QED BY <2>3, <2>5
<1>2. PICK q : q = [i \in 1..3 |-> IF i = 1 THEN a ELSE IF i = 2 THEN b ELSE c]
      OBVIOUS
<1>3. q \in [1..3 -> {a, b, c}]
      BY <1>2
<1>4. q[1] = a /\ q[2] = b /\ q[3] = c /\ DOMAIN q = 1..3
      BY <1>2
<1>5. \A i \in 1..3 : i = 1 \/ i = 2 \/ i = 3
      OBVIOUS
<1>6. Ascending(q) /\ \A i, j \in 1..3 : i # j => q[i] # q[j]
      BY <1>4, <1>5 DEF Ascending
<1> QED BY <1>1, <1>3, <1>6 DEF SetToSeqs

LEMMA PayeesAscend ==
  ASSUME NEW b \in Users, NEW s \in Users, b # s
  PROVE  \E q \in SetToSeqs(Payees(b, s)) : Ascending(q)
<1>1. b \in Int /\ s \in Int /\ Users \subseteq Int /\ Referrer[b] \in Users \cup {NoUser}
      BY LocksAssumption
<1>2. ASSUME NEW P, P = {b, s} PROVE \E q \in SetToSeqs(P) : Ascending(q)
  <2>1. CASE b < s
        BY <1>1, <1>2, <2>1, TwoAscend
  <2>2. CASE s < b
    <3>1. P = {s, b}
          BY <1>2
    <3> QED BY <1>1, <2>2, <3>1, TwoAscend
  <2> QED BY <1>1, <2>1, <2>2
<1>3. ASSUME NEW P, NEW r \in Int, r # b, r # s, P = {b, s, r} PROVE \E q \in SetToSeqs(P) : Ascending(q)
  <2>1. ASSUME NEW x \in Int, NEW y \in Int, NEW z \in Int, x < y, y < z, P = {x, y, z}
        PROVE  \E q \in SetToSeqs(P) : Ascending(q)
        BY <2>1, ThreeAscend
  <2>2. /\ P = {b, s, r} /\ P = {b, r, s} /\ P = {r, b, s} /\ P = {s, b, r}
        /\ P = {s, r, b} /\ P = {r, s, b}
        BY <1>3
  <2>3. \/ b < s /\ s < r
        \/ b < r /\ r < s
        \/ r < b /\ b < s
        \/ s < b /\ b < r
        \/ s < r /\ r < b
        \/ r < s /\ s < b
        BY <1>1, <1>3
  <2> QED BY <1>1, <2>1, <2>2, <2>3
<1>4. CASE Referrer[b] \in {NoUser, b, s}
  <2>1. Payees(b, s) = {b, s}
        BY <1>4, LocksAssumption DEF Payees
  <2> QED BY <1>2, <2>1
<1>5. CASE Referrer[b] \notin {NoUser, b, s}
  <2>1. Payees(b, s) = {b, s, Referrer[b]}
        BY <1>5 DEF Payees
  <2> QED BY <1>1, <1>3, <1>5, <2>1
<1> QED BY <1>4, <1>5

LEMMA GameRowsParts ==
  ASSUME NEW b \in Users, NEW s \in Users, b # s
  PROVE  \E q : /\ q \in Seq(Users) /\ Ascending(q) /\ GameRows(b, s) \in Seq(Rows)
                /\ Len(GameRows(b, s)) = Len(q)
                /\ \A i \in 1..Len(q) : GameRows(b, s)[i] = GameRow(q[i])
<1>1. PICK P, q : P = Payees(b, s) /\ q = CHOOSE p \in SetToSeqs(P) : Ascending(p)
      OBVIOUS
<1>2. q \in SetToSeqs(P) /\ Ascending(q)
      BY <1>1, PayeesAscend
<1>3. P \subseteq Users
      BY <1>1, LocksAssumption DEF Payees
<1>4. PICK n : n = Cardinality(P)
      OBVIOUS
<1>5. q \in [1..n -> P]
      BY <1>2, <1>4 DEF SetToSeqs
<1>6. IsFiniteSet(P) /\ n \in Nat
      BY <1>3, <1>4, LocksAssumption, FS_Subset, FS_CardinalityType
<1>7. q \in Seq(Users) /\ Len(q) = n /\ DOMAIN q = 1..n
      BY <1>3, <1>5, <1>6
<1>8. PICK g : g = GameRows(b, s)
      OBVIOUS
<1>9. g = [i \in DOMAIN q |-> GameRow(q[i])]
      BY <1>1, <1>8 DEF GameRows, Ascending
<1>10. \A i \in 1..n : GameRow(q[i]) \in Rows
      BY <1>7, RowTypes
<1>11. g \in Seq(Rows) /\ Len(g) = n
      BY <1>6, <1>7, <1>9, <1>10
<1> QED BY <1>2, <1>7, <1>8, <1>9, <1>11

-----------------------------------------------------------------------------
(* What is locked behind what.  A unit that is listed is only locked behind *)
(* its listing, one in stock and a player's balance and stock row only      *)
(* behind the player's account, but for the balances of a buy.              *)

BehindListing(r, g) == \E e \in Units, l \in Listings :
  r = UnitRow(e) /\ g = ListingRow(l) /\ e \in Range(Joined[l])
BehindUser(r, g) == \E x \in Users :
  /\ g = UserRow(x)
  /\ r \in {GameRow(x), StockRow(x)} \/ \E e \in Units : r = UnitRow(e) /\ e \in Range(Shelf[x])
Behind(r, g) == BehindListing(r, g) \/ BehindUser(r, g)

LEMMA OneGuard ==
  ASSUME NEW r, NEW g, NEW h, Behind(r, g), Behind(r, h)
  PROVE  g = h
<1>1. CASE BehindListing(r, g) /\ BehindListing(r, h)
  <2>1. PICK e \in Units, l \in Listings : r = UnitRow(e) /\ g = ListingRow(l) /\ e \in Range(Joined[l])
        BY <1>1 DEF BehindListing
  <2>2. PICK d \in Units, m \in Listings : r = UnitRow(d) /\ h = ListingRow(m) /\ d \in Range(Joined[m])
        BY <1>1 DEF BehindListing
  <2>3. d = e
        BY <2>1, <2>2, RowsDiffer
  <2> QED BY <2>1, <2>2, <2>3, LocksAssumption
<1>2. ASSUME BehindUser(r, g), BehindUser(r, h) PROVE g = h
  <2>1. PICK x \in Users : /\ g = UserRow(x)
                           /\ r \in {GameRow(x), StockRow(x)} \/ \E e \in Units : r = UnitRow(e) /\ e \in Range(Shelf[x])
        BY <1>2 DEF BehindUser
  <2>2. PICK y \in Users : /\ h = UserRow(y)
                           /\ r \in {GameRow(y), StockRow(y)} \/ \E e \in Units : r = UnitRow(e) /\ e \in Range(Shelf[y])
        BY <1>2 DEF BehindUser
  <2>3. x = y
    <3>1. CASE r \in {GameRow(x), StockRow(x)}
          BY <2>2, <3>1, RowsDiffer
    <3>2. CASE \E e \in Units : r = UnitRow(e) /\ e \in Range(Shelf[x])
      <4>1. PICK e \in Units : r = UnitRow(e) /\ e \in Range(Shelf[x])
            BY <3>2
      <4>2. PICK d \in Units : r = UnitRow(d) /\ d \in Range(Shelf[y])
            BY <2>2, <4>1, RowsDiffer
      <4>3. d = e
            BY <4>1, <4>2, RowsDiffer
      <4> QED BY <4>1, <4>2, <4>3, LocksAssumption
    <3> QED BY <2>1, <3>1, <3>2
  <2> QED BY <2>1, <2>2, <2>3
<1>3. ASSUME NEW a, NEW b, BehindListing(r, a), BehindUser(r, b) PROVE FALSE
  <2>1. PICK e \in Units, l \in Listings : r = UnitRow(e) /\ e \in Range(Joined[l])
        BY <1>3 DEF BehindListing
  <2>2. PICK x \in Users : r \in {GameRow(x), StockRow(x)} \/ \E d \in Units : r = UnitRow(d) /\ d \in Range(Shelf[x])
        BY <1>3 DEF BehindUser
  <2>3. PICK d \in Units : r = UnitRow(d) /\ d \in Range(Shelf[x])
        BY <2>1, <2>2, RowsDiffer
  <2>4. d = e
        BY <2>1, <2>3, RowsDiffer
  <2> QED BY <2>1, <2>3, <2>4, LocksAssumption
<1> QED BY <1>1, <1>2, <1>3 DEF Behind

\* The lists of a player's own handlers: an account first, a listing once, the
\* rest behind one of them.
OwnOrder(q) == \A i \in 1..Len(q) :
  \/ i = 1 /\ \E x \in Users : q[i] = UserRow(x)
  \/ /\ \E l \in Listings : q[i] = ListingRow(l)
     /\ \A j \in 1..(i-1) : \A m \in Listings : q[j] # ListingRow(m)
  \/ \E j \in 1..(i-1) : Behind(q[i], q[j])

\* The lists of buys, reservations and cash-outs: a listing, an account, balances
\* in ascending order, units behind the listing.
BuyOrder(q) == \A i \in 1..Len(q) :
  \/ i = 1 /\ \E l \in Listings : q[i] = ListingRow(l)
  \/ /\ \E x \in Users : q[i] = UserRow(x)
     /\ \A j \in 1..(i-1) : \E l \in Listings : q[j] = ListingRow(l)
  \/ \E x \in Users : /\ q[i] = GameRow(x)
                      /\ \A j \in 1..(i-1) : \A y \in Users : q[j] = GameRow(y) => y < x
  \/ \E j \in 1..(i-1) : BehindListing(q[i], q[j])

-----------------------------------------------------------------------------
(* The lists. *)

LEMMA ReserveList ==
  ASSUME NEW l \in Listings
  PROVE  LET q == <<ListingRow(l)>> IN q \in Seq(Rows) /\ Len(q) = 1 /\ OwnOrder(q) /\ BuyOrder(q)
<1>1. PICK q : q = <<ListingRow(l)>>
      OBVIOUS
<1>2. q \in Seq(Rows) /\ Len(q) = 1 /\ q[1] = ListingRow(l)
      BY <1>1, RowTypes
<1>3. \A i \in 1..1 : i = 1
      OBVIOUS
<1> QED BY <1>1, <1>2, <1>3 DEF OwnOrder, BuyOrder

LEMMA ProceedsList ==
  ASSUME NEW x \in Users
  PROVE  ProceedsRows(x) \in Seq(Rows) /\ OwnOrder(ProceedsRows(x)) /\ BuyOrder(ProceedsRows(x))
<1>1. PICK q : q = ProceedsRows(x)
      OBVIOUS
<1>2. q \in Seq(Rows) /\ Len(q) = 2 /\ q[1] = UserRow(x) /\ q[2] = GameRow(x)
      BY <1>1, RowTypes DEF ProceedsRows
<1>3. \A i \in 1..2 : i = 1 \/ i = 2
      OBVIOUS
<1>4. Behind(q[2], q[1])
      BY <1>2 DEF Behind, BehindUser
<1>5. OwnOrder(q)
      BY <1>2, <1>3, <1>4 DEF OwnOrder
<1>6. \A j \in 1..(2-1) : \A y \in Users : q[j] # GameRow(y)
      BY <1>2, RowsDiffer
<1>7. \A j \in 1..(1-1) : FALSE
      OBVIOUS
<1>8. BuyOrder(q)
      BY <1>2, <1>3, <1>6, <1>7 DEF BuyOrder
<1> QED BY <1>1, <1>2, <1>5, <1>8

\* Where the rows of a list put together from three parts are.
LEMMA Parts3 ==
  ASSUME NEW p \in Seq(Rows), NEW s \in Seq(Rows), NEW z \in Seq(Rows)
  PROVE  LET q == p \o s \o z IN
         /\ q \in Seq(Rows) /\ Len(q) = Len(p) + Len(s) + Len(z)
         /\ \A i \in 1..Len(q) :
              q[i] = IF i <= Len(p) THEN p[i] ELSE IF i <= Len(p) + Len(s) THEN s[i - Len(p)]
                     ELSE z[i - Len(p) - Len(s)]
  OBVIOUS

LEMMA SellList ==
  ASSUME NEW x \in Users
  PROVE  SellRows(x) \in Seq(Rows) /\ OwnOrder(SellRows(x))
<1>1. PICK p, s, z, q : /\ p = <<UserRow(x), GameRow(x), StockRow(x)>> /\ s = UnitRows(Shelf[x])
                        /\ z = <<>> /\ q = p \o s
      OBVIOUS
<1>2. PICK w : w = Shelf[x]
      OBVIOUS
<1>3. w \in Seq(Units)
      BY <1>2, LocksAssumption
<1>4. /\ s \in Seq(Rows) /\ Len(s) = Len(w) /\ Len(w) \in Nat
      /\ \A i \in 1..Len(w) : w[i] \in Range(w) /\ w[i] \in Units /\ s[i] = UnitRow(w[i])
      BY <1>1, <1>2, <1>3, UnitRowsParts
<1>5. /\ p \in Seq(Rows) /\ Len(p) = 3
      /\ p[1] = UserRow(x) /\ p[2] = GameRow(x) /\ p[3] = StockRow(x)
      BY <1>1, RowTypes
<1>6. /\ q \in Seq(Rows) /\ Len(q) = 3 + Len(w)
      /\ \A i \in 1..Len(q) : q[i] = IF i <= 3 THEN p[i] ELSE s[i - 3]
      BY <1>1, <1>4, <1>5
<1>7. ASSUME NEW i \in 1..Len(q)
      PROVE  i = 1 \/ \E j \in 1..(i-1) : Behind(q[i], q[j])
  <2>1. q[1] = UserRow(x)
        BY <1>5, <1>6
  <2>2. CASE i = 2 \/ i = 3
    <3>1. q[i] \in {GameRow(x), StockRow(x)}
          BY <1>4, <1>5, <1>6, <2>2
    <3>2. Behind(q[i], q[1])
          BY <2>1, <3>1 DEF Behind, BehindUser
    <3> QED BY <2>2, <3>2
  <2>3. CASE i > 3
    <3>1. PICK k : k = i - 3
          OBVIOUS
    <3>2. k \in 1..Len(w) /\ q[i] = s[k]
          BY <1>4, <1>6, <2>3, <3>1
    <3>3. \E e \in Units : q[i] = UnitRow(e) /\ e \in Range(Shelf[x])
          BY <1>2, <1>4, <3>2
    <3>4. Behind(q[i], q[1])
          BY <2>1, <3>3 DEF Behind, BehindUser
    <3> QED BY <2>3, <3>4
  <2> QED BY <2>2, <2>3
<1>8. q[1] = UserRow(x)
      BY <1>4, <1>5, <1>6
<1>9. OwnOrder(q)
      BY <1>7, <1>8 DEF OwnOrder
<1>10. q = SellRows(x)
      BY <1>1 DEF SellRows
<1> QED BY <1>6, <1>9, <1>10

LEMMA CancelList ==
  ASSUME NEW x \in Users, NEW l \in Listings
  PROVE  CancelRows(x, l) \in Seq(Rows) /\ OwnOrder(CancelRows(x, l))
<1>1. PICK p, s, z, q : /\ p = <<UserRow(x), GameRow(x), ListingRow(l)>> /\ s = UnitRows(Joined[l])
                        /\ z = <<StockRow(x)>> /\ q = p \o s \o z
      OBVIOUS
<1>2. PICK w, n : w = Joined[l] /\ n = Len(w)
      OBVIOUS
<1>3. w \in Seq(Units) /\ n \in Nat
      BY <1>2, LocksAssumption
<1>4. /\ s \in Seq(Rows) /\ Len(s) = n
      /\ \A i \in 1..n : w[i] \in Range(w) /\ w[i] \in Units /\ s[i] = UnitRow(w[i])
      BY <1>1, <1>2, <1>3, UnitRowsParts
<1>5. /\ p \in Seq(Rows) /\ Len(p) = 3
      /\ p[1] = UserRow(x) /\ p[2] = GameRow(x) /\ p[3] = ListingRow(l)
      /\ z \in Seq(Rows) /\ Len(z) = 1 /\ z[1] = StockRow(x)
      BY <1>1, RowTypes
<1>6. /\ q \in Seq(Rows) /\ Len(q) = n + 4
      /\ \A i \in 1..(n + 4) : q[i] = IF i <= 3 THEN p[i] ELSE IF i <= 3 + n THEN s[i - 3] ELSE z[i - 3 - n]
  <2>1. /\ q \in Seq(Rows) /\ Len(q) = Len(p) + Len(s) + Len(z)
        /\ \A i \in 1..Len(q) :
             q[i] = IF i <= Len(p) THEN p[i] ELSE IF i <= Len(p) + Len(s) THEN s[i - Len(p)]
                    ELSE z[i - Len(p) - Len(s)]
        BY <1>1, <1>4, <1>5, Parts3
  <2>2. Len(q) = n + 4
        BY <1>3, <1>4, <1>5, <2>1
  <2> QED BY <1>4, <1>5, <2>1, <2>2
<1>7. q[1] = UserRow(x) /\ q[2] = GameRow(x) /\ q[3] = ListingRow(l)
      BY <1>3, <1>5, <1>6
<1>8. ASSUME NEW i \in 1..(n + 4), i # 1, i # 3
      PROVE  \E j \in 1..(i-1) : Behind(q[i], q[j])
  <2>1. CASE i = 2
        BY <1>7, <2>1 DEF Behind, BehindUser
  <2>2. CASE i > 3 /\ i <= 3 + n
    <3>1. PICK k : k = i - 3
          OBVIOUS
    <3>2. k \in 1..n /\ q[i] = s[k]
          BY <1>3, <1>6, <2>2, <3>1
    <3>3. q[i] = UnitRow(w[k]) /\ w[k] \in Units /\ w[k] \in Range(Joined[l])
          BY <1>2, <1>4, <3>2
    <3>4. Behind(q[i], q[3])
          BY <1>7, <3>3 DEF Behind, BehindListing
    <3> QED BY <1>3, <2>2, <3>4
  <2>3. CASE i > 3 + n
    <3>1. i = 4 + n
          BY <1>3, <2>3
    <3>2. q[i] = StockRow(x)
          BY <1>3, <1>5, <1>6, <3>1
    <3>3. Behind(q[i], q[1])
          BY <1>7, <3>2 DEF Behind, BehindUser
    <3> QED BY <1>3, <2>3, <3>3
  <2> QED BY <1>3, <1>8, <2>1, <2>2, <2>3
<1>9. \A j \in 1..(3-1), m \in Listings : q[j] # ListingRow(m)
  <2>1. \A j \in 1..(3-1) : j = 1 \/ j = 2
        OBVIOUS
  <2> QED BY <1>7, <2>1, RowsDiffer
<1>10. OwnOrder(q)
      BY <1>6, <1>7, <1>8, <1>9 DEF OwnOrder
<1>11. q = CancelRows(x, l)
      BY <1>1 DEF CancelRows
<1> QED BY <1>6, <1>10, <1>11

LEMMA BuyList ==
  ASSUME NEW b \in Users, NEW l \in Listings, b # Seller[l]
  PROVE  BuyRows(b, l) \in Seq(Rows) /\ BuyOrder(BuyRows(b, l))
<1>1. PICK p, g, s, q : /\ p = <<ListingRow(l), UserRow(b)>> /\ g = GameRows(b, Seller[l])
                        /\ s = UnitRows(Joined[l]) /\ q = p \o g \o s
      OBVIOUS
<1>2. PICK w, n : w = Joined[l] /\ n = Len(w)
      OBVIOUS
<1>3. w \in Seq(Units) /\ n \in Nat
      BY <1>2, LocksAssumption
<1>4. /\ s \in Seq(Rows) /\ Len(s) = n
      /\ \A i \in 1..n : w[i] \in Range(w) /\ w[i] \in Units /\ s[i] = UnitRow(w[i])
      BY <1>1, <1>2, <1>3, UnitRowsParts
<1>5. PICK ids : /\ ids \in Seq(Users) /\ Ascending(ids) /\ g \in Seq(Rows)
                 /\ Len(g) = Len(ids)
                 /\ \A i \in 1..Len(ids) : g[i] = GameRow(ids[i])
  <2>1. PICK x : x = Seller[l]
        OBVIOUS
  <2>2. x \in Users /\ b # x /\ g = GameRows(b, x)
        BY <1>1, <2>1, LocksAssumption
  <2>3. \E ids : /\ ids \in Seq(Users) /\ Ascending(ids) /\ GameRows(b, x) \in Seq(Rows)
                /\ Len(GameRows(b, x)) = Len(ids)
                /\ \A i \in 1..Len(ids) : GameRows(b, x)[i] = GameRow(ids[i])
        BY <2>2, GameRowsParts
  <2> QED BY <2>2, <2>3
<1>6. PICK k : k = Len(ids)
      OBVIOUS
<1>7. /\ p \in Seq(Rows) /\ Len(p) = 2 /\ p[1] = ListingRow(l) /\ p[2] = UserRow(b) /\ k \in Nat
      BY <1>1, <1>5, <1>6, RowTypes
<1>8. /\ q \in Seq(Rows) /\ Len(q) = 2 + k + n
      /\ \A i \in 1..(2 + k + n) : q[i] = IF i <= 2 THEN p[i] ELSE IF i <= 2 + k THEN g[i - 2] ELSE s[i - 2 - k]
  <2>1. /\ q \in Seq(Rows) /\ Len(q) = Len(p) + Len(g) + Len(s)
        /\ \A i \in 1..Len(q) :
             q[i] = IF i <= Len(p) THEN p[i] ELSE IF i <= Len(p) + Len(g) THEN g[i - Len(p)]
                    ELSE s[i - Len(p) - Len(g)]
        BY <1>1, <1>4, <1>5, <1>7, Parts3
  <2> QED BY <1>4, <1>5, <1>6, <1>7, <2>1
<1>9. q[1] = ListingRow(l) /\ q[2] = UserRow(b)
      BY <1>3, <1>7, <1>8
<1>10. ASSUME NEW i \in 1..(2 + k + n), i > 2, i <= 2 + k
       PROVE  i - 2 \in 1..k /\ q[i] = GameRow(ids[i - 2]) /\ ids[i - 2] \in Users
  <2>1. i - 2 \in 1..k /\ q[i] = g[i - 2]
        BY <1>3, <1>7, <1>8, <1>10
  <2> QED BY <1>5, <1>6, <2>1
<1>11. ASSUME NEW i \in 1..(2 + k + n), i > 2, i <= 2 + k, NEW j \in 1..(i-1), NEW y \in Users, q[j] = GameRow(y)
       PROVE  y < ids[i - 2]
  <2>1. j > 2
        BY <1>3, <1>7, <1>9, <1>11, RowsDiffer
  <2>2. j \in 1..(2 + k + n) /\ j <= 2 + k
        BY <1>3, <1>7, <1>11
  <2>3. j - 2 \in 1..k /\ q[j] = GameRow(ids[j - 2])
        BY <1>10, <2>1, <2>2
  <2>4. y = ids[j - 2]
        BY <1>11, <2>3, RowsDiffer
  <2>5. i - 2 \in 1..k /\ j - 2 < i - 2
        BY <1>10, <1>11, <2>1
  <2> QED BY <1>5, <1>6, <2>3, <2>4, <2>5 DEF Ascending
<1>12. ASSUME NEW i \in 1..(2 + k + n), i > 2 + k
       PROVE  \E j \in 1..(i-1) : BehindListing(q[i], q[j])
  <2>1. PICK h : h = i - 2 - k
        OBVIOUS
  <2>2. h \in 1..n /\ q[i] = s[h]
        BY <1>3, <1>7, <1>8, <1>12, <2>1
  <2>3. q[i] = UnitRow(w[h]) /\ w[h] \in Units /\ w[h] \in Range(Joined[l])
        BY <1>2, <1>4, <2>2
  <2>4. BehindListing(q[i], q[1])
        BY <1>9, <2>3 DEF BehindListing
  <2> QED BY <1>7, <1>12, <2>4
<1>13. \A j \in 1..(2-1) : j = 1
       OBVIOUS
<1>14. BuyOrder(q)
  <2> SUFFICES ASSUME NEW i \in 1..(2 + k + n)
               PROVE  \/ i = 1 /\ \E m \in Listings : q[i] = ListingRow(m)
                      \/ /\ \E x \in Users : q[i] = UserRow(x)
                         /\ \A j \in 1..(i-1) : \E m \in Listings : q[j] = ListingRow(m)
                      \/ \E x \in Users : /\ q[i] = GameRow(x)
                                          /\ \A j \in 1..(i-1) : \A y \in Users : q[j] = GameRow(y) => y < x
                      \/ \E j \in 1..(i-1) : BehindListing(q[i], q[j])
      BY <1>8 DEF BuyOrder
  <2>1. CASE i = 1
        BY <1>9, <2>1
  <2>2. CASE i = 2
        BY <1>9, <1>13, <2>2
  <2>3. CASE i > 2 /\ i <= 2 + k
        BY <1>10, <1>11, <2>3
  <2>4. CASE i > 2 + k
        BY <1>12, <2>4
  <2> QED BY <1>7, <2>1, <2>2, <2>3, <2>4
<1>15. q = BuyRows(b, l)
       BY <1>1 DEF BuyRows
<1> QED BY <1>8, <1>14, <1>15

-----------------------------------------------------------------------------
(* The invariant: a connection has locked the first n rows of its handler's *)
(* list and has the others to lock; no row is locked twice.                 *)

Kinds == {"idle", "buy", "reserve", "proceeds", "cancel", "claim", "sell", "sweep", "reclaim"}
Listed(k, q) ==
  \/ k = "idle" /\ q = <<>>
  \/ k = "buy" /\ \E b \in Users, l \in Listings : b # Seller[l] /\ q = BuyRows(b, l)
  \/ k = "reserve" /\ \E l \in Listings : q = <<ListingRow(l)>>
  \/ k = "proceeds" /\ \E x \in Users : q = ProceedsRows(x)
  \/ k \in {"cancel", "claim"} /\ \E x \in Users, l \in Listings : q = CancelRows(x, l)
  \/ k = "sell" /\ \E x \in Users : q = SellRows(x)
  \/ k = "sweep" /\ \E x \in Users : q = SweepRows(x)
  \/ k = "reclaim" /\ \E l \in Listings : q = <<ListingRow(l)>> \o ReclaimRows(l)

At(q, n, rest, has) ==
  /\ n \in 0..Len(q) /\ Len(rest) = Len(q) - n
  /\ \A i \in 1..Len(rest) : rest[i] = q[n + i]
  /\ has = {q[i] : i \in 1..n}
Ran(t) == \E q \in Seq(Rows), n \in Nat : Listed(kind[t], q) /\ At(q, n, todo[t], held[t])

LInv == /\ TypeOK /\ kind \in [Txs -> Kinds] /\ held \in [Txs -> SUBSET Rows] /\ todo \in [Txs -> Seq(Rows)]
        /\ \A t \in Txs : Ran(t)

LEMMA OwnLists ==
  ASSUME NEW k, k \notin {"buy", "sweep", "reclaim"}, NEW q, Listed(k, q)
  PROVE  q \in Seq(Rows) /\ OwnOrder(q)
<1>1. CASE k = "idle"
  <2>1. q = <<>>
        BY <1>1 DEF Listed
  <2> QED BY <2>1 DEF OwnOrder
<1>2. CASE k = "reserve"
  <2>1. PICK l \in Listings : q = <<ListingRow(l)>>
        BY <1>2 DEF Listed
  <2> QED BY <2>1, ReserveList
<1>3. CASE k = "proceeds"
        BY <1>3, ProceedsList DEF Listed
<1>4. CASE k \in {"cancel", "claim"}
        BY <1>4, CancelList DEF Listed
<1>5. CASE k = "sell"
        BY <1>5, SellList DEF Listed
<1> QED BY <1>1, <1>2, <1>3, <1>4, <1>5 DEF Listed

LEMMA BuyLists ==
  ASSUME NEW k \in {"idle", "buy", "reserve", "proceeds"}, NEW q, Listed(k, q)
  PROVE  q \in Seq(Rows) /\ BuyOrder(q)
<1>1. CASE k = "idle"
  <2>1. q = <<>>
        BY <1>1 DEF Listed
  <2> QED BY <2>1 DEF BuyOrder
<1>2. CASE k = "reserve"
  <2>1. PICK l \in Listings : q = <<ListingRow(l)>>
        BY <1>2 DEF Listed
  <2> QED BY <2>1, ReserveList
<1>3. CASE k = "proceeds"
        BY <1>3, ProceedsList DEF Listed
<1>4. CASE k = "buy"
        BY <1>4, BuyList DEF Listed
<1> QED BY <1>1, <1>2, <1>3, <1>4

LEMMA SweepList == ASSUME NEW x \in Users PROVE SweepRows(x) \in Seq(Rows)
<1>1. PICK s, z : s = UnitRows(Overdue[x]) /\ z = <<StockRow(x)>>
      OBVIOUS
<1>2. s \in Seq(Rows)
      BY <1>1, UnitRowsParts, LocksAssumption
<1>3. z \in Seq(Rows)
      BY <1>1, RowTypes
<1> QED BY <1>1, <1>2, <1>3 DEF SweepRows

LEMMA ReclaimList ==
  ASSUME NEW l \in Listings
  PROVE  /\ ReclaimRows(l) \in Seq(Rows) /\ <<ListingRow(l)>> \o ReclaimRows(l) \in Seq(Rows)
         /\ At(<<ListingRow(l)>> \o ReclaimRows(l), 1, ReclaimRows(l), {ListingRow(l)})
<1>1. PICK s, z, r, p, q : /\ s = UnitRows(Joined[l]) /\ z = <<StockRow(Seller[l])>> /\ r = s \o z
                           /\ p = <<ListingRow(l)>> /\ q = p \o r
      OBVIOUS
<1>2. s \in Seq(Rows)
      BY <1>1, UnitRowsParts, LocksAssumption
<1>3. z \in Seq(Rows)
  <2>1. Seller[l] \in Users
        BY LocksAssumption
  <2> QED BY <1>1, <2>1, RowTypes
<1>4. p \in Seq(Rows) /\ Len(p) = 1 /\ p[1] = ListingRow(l)
      BY <1>1, RowTypes
<1>5. r \in Seq(Rows) /\ r = ReclaimRows(l)
      BY <1>1, <1>2, <1>3 DEF ReclaimRows
<1>6. /\ q \in Seq(Rows) /\ Len(q) = Len(r) + 1 /\ Len(r) \in Nat
      /\ q[1] = p[1] /\ \A i \in 1..Len(r) : r[i] = q[1 + i]
      BY <1>1, <1>4, <1>5
<1>7. {q[i] : i \in 1..1} = {ListingRow(l)}
      BY <1>4, <1>6
<1>8. At(q, 1, r, {ListingRow(l)})
      BY <1>6, <1>7 DEF At
<1> QED BY <1>1, <1>5, <1>6, <1>8

\* A list from its first row, and one row further.
LEMMA AtStart ==
  ASSUME NEW q \in Seq(Rows)
  PROVE  At(q, 0, q, {})
<1>1. {q[i] : i \in 1..0} = {}
      OBVIOUS
<1> QED BY <1>1 DEF At

LEMMA AtNext ==
  ASSUME NEW q \in Seq(Rows), NEW n \in Nat, NEW rest \in Seq(Rows), rest # <<>>, NEW has, At(q, n, rest, has)
  PROVE  /\ n + 1 \in 1..Len(q) /\ Head(rest) = q[n + 1] /\ Head(rest) \in Rows
         /\ Tail(rest) \in Seq(Rows) /\ At(q, n + 1, Tail(rest), has \cup {Head(rest)})
<1>1. /\ n \in 0..Len(q) /\ Len(rest) = Len(q) - n /\ Len(q) \in Nat
      /\ \A i \in 1..Len(rest) : rest[i] = q[n + i]
      /\ has = {q[i] : i \in 1..n}
      BY DEF At
<1>2. PICK tail, h : tail = Tail(rest) /\ h = Head(rest)
      OBVIOUS
<1>3. /\ tail \in Seq(Rows) /\ Len(tail) = Len(rest) - 1 /\ h = rest[1] /\ h \in Rows
      /\ Len(rest) >= 1 /\ \A i \in 1..Len(tail) : tail[i] = rest[i + 1]
      BY <1>2
<1>4. n + 1 \in 1..Len(q) /\ h = q[n + 1]
      BY <1>1, <1>3
<1>5. \A i \in 1..Len(tail) : tail[i] = q[(n + 1) + i]
  <2>1. ASSUME NEW i \in 1..Len(tail) PROVE tail[i] = q[(n + 1) + i]
    <3>1. i + 1 \in 1..Len(rest) /\ n + (i + 1) = (n + 1) + i
          BY <1>1, <1>3
    <3> QED BY <1>1, <1>3, <3>1
  <2> QED BY <2>1
<1>6. has \cup {h} = {q[i] : i \in 1..(n + 1)}
  <2>1. \A i \in 1..(n + 1) : i \in 1..n \/ i = n + 1
        OBVIOUS
  <2>2. 1..n \subseteq 1..(n + 1) /\ n + 1 \in 1..(n + 1)
        OBVIOUS
  <2> QED BY <1>1, <1>4, <2>1, <2>2
<1>7. Len(tail) = Len(q) - (n + 1) /\ n + 1 \in 0..Len(q)
      BY <1>1, <1>3, <1>4
<1>8. At(q, n + 1, tail, has \cup {h})
      BY <1>5, <1>6, <1>7 DEF At
<1> QED BY <1>2, <1>3, <1>4, <1>8

-----------------------------------------------------------------------------
(* The steps. *)

\* One connection moves on; what it has locked is locked by no other.
LEMMA Moved ==
  ASSUME LInv, NEW t \in Txs, NEW k \in Kinds, NEW h \in SUBSET Rows, NEW r \in Seq(Rows),
         kind' = [kind EXCEPT ![t] = k], held' = [held EXCEPT ![t] = h], todo' = [todo EXCEPT ![t] = r],
         \A u \in Txs : u # t => h \cap held[u] = {},
         NEW q \in Seq(Rows), NEW n \in Nat, Listed(k, q), At(q, n, r, h)
  PROVE  LInv'
<1>1. kind' \in [Txs -> Kinds] /\ held' \in [Txs -> SUBSET Rows] /\ todo' \in [Txs -> Seq(Rows)]
      BY DEF LInv
<1>2. kind'[t] = k /\ held'[t] = h /\ todo'[t] = r
      BY DEF LInv
<1>3. \A u \in Txs : u # t => kind'[u] = kind[u] /\ held'[u] = held[u] /\ todo'[u] = todo[u]
      BY DEF LInv
<1>4. ASSUME NEW u \in Txs, NEW v \in Txs, u # v PROVE held'[u] \cap held'[v] = {}
  <2>1. held[u] \cap held[v] = {}
        BY <1>4 DEF LInv, TypeOK
  <2> QED BY <1>2, <1>3, <1>4, <2>1
<1>5. TypeOK'
      BY <1>1, <1>4 DEF TypeOK, Kinds
<1>6. ASSUME NEW u \in Txs PROVE Ran(u)'
  <2>1. CASE u = t
        BY <1>2, <2>1 DEF Ran
  <2>2. CASE u # t
    <3>1. Ran(u)
          BY DEF LInv
    <3> QED BY <1>3, <2>2, <3>1 DEF Ran
  <2> QED BY <2>1, <2>2
<1> QED BY <1>1, <1>5, <1>6 DEF LInv

LEMMA IdleHolds ==
  ASSUME LInv, NEW t \in Txs, kind[t] = "idle"
  PROVE  held[t] = {} /\ todo[t] = <<>>
<1>1. PICK q \in Seq(Rows), n \in Nat : Listed(kind[t], q) /\ At(q, n, todo[t], held[t])
      BY DEF LInv, Ran
<1>2. q = <<>>
      BY <1>1 DEF Listed
<1>3. Len(q) = 0 /\ n = 0
      BY <1>1, <1>2 DEF At
<1>4. Len(todo[t]) = 0 /\ held[t] = {} /\ todo[t] \in Seq(Rows)
      BY <1>1, <1>3 DEF At, LInv
<1> QED BY <1>4

LEMMA BeginHolds ==
  ASSUME LInv, NEW t \in Txs, NEW k \in Kinds, NEW q \in Seq(Rows), Listed(k, q), Begin(t, k, q)
  PROVE  LInv'
<1>1. PICK h : h = {}
      OBVIOUS
<1>2. held[t] = h /\ held \in [Txs -> SUBSET Rows]
      BY <1>1, IdleHolds DEF Begin, LInv
<1>3. held' = [held EXCEPT ![t] = h]
      BY <1>2 DEF Begin
<1>4. kind' = [kind EXCEPT ![t] = k] /\ todo' = [todo EXCEPT ![t] = q]
      BY DEF Begin
<1>5. At(q, 0, q, h) /\ h \in SUBSET Rows /\ \A u \in Txs : u # t => h \cap held[u] = {}
      BY <1>1, AtStart
<1> QED BY <1>3, <1>4, <1>5, Moved

LEMMA ReleaseHolds ==
  ASSUME LInv, NEW t \in Txs, Release(t)
  PROVE  LInv'
<1>1. PICK k, h, q : k = "idle" /\ h = {} /\ q = <<>>
      OBVIOUS
<1>2. /\ kind' = [kind EXCEPT ![t] = k] /\ held' = [held EXCEPT ![t] = h]
      /\ todo' = [todo EXCEPT ![t] = q]
      BY <1>1 DEF Release
<1>3. /\ q \in Seq(Rows) /\ h \in SUBSET Rows /\ k \in Kinds /\ Listed(k, q)
      /\ \A u \in Txs : u # t => h \cap held[u] = {}
      BY <1>1 DEF Kinds, Listed
<1>4. At(q, 0, q, h)
      BY <1>1, <1>3, AtStart
<1> QED BY <1>2, <1>3, <1>4, Moved

LEMMA LockHolds ==
  ASSUME LInv, NEW t \in Txs, Lock(t)
  PROVE  LInv' /\ kind' = kind
<1>1. PICK q \in Seq(Rows), n \in Nat : Listed(kind[t], q) /\ At(q, n, todo[t], held[t])
      BY DEF LInv, Ran
<1>2. PICK k, rest, has, row : k = kind[t] /\ rest = todo[t] /\ has = held[t] /\ row = Head(rest)
      OBVIOUS
<1>3. /\ k \in Kinds /\ rest \in Seq(Rows) /\ has \in SUBSET Rows /\ rest # <<>>
      /\ Listed(k, q) /\ At(q, n, rest, has)
      BY <1>1, <1>2 DEF LInv, Lock
<1>4. PICK r, h, m : r = Tail(rest) /\ h = has \cup {row} /\ m = n + 1
      OBVIOUS
<1>5. row \in Rows /\ r \in Seq(Rows) /\ At(q, m, r, h) /\ m \in Nat
      BY <1>2, <1>3, <1>4, AtNext
<1>6. /\ kind' = [kind EXCEPT ![t] = k] /\ held' = [held EXCEPT ![t] = h]
      /\ todo' = [todo EXCEPT ![t] = r]
      BY <1>2, <1>4 DEF Lock, LInv
<1>7. \A u \in Txs : u # t => h \cap held[u] = {}
  <2>1. ASSUME NEW u \in Txs, u # t PROVE h \cap held[u] = {}
    <3>1. has \cap held[u] = {}
          BY <1>2, <2>1 DEF LInv, TypeOK
    <3>2. row \notin held[u]
          BY <1>2, <2>1 DEF Lock, Waiting, Waits
    <3> QED BY <1>4, <3>1, <3>2
  <2> QED BY <2>1
<1>8. h \in SUBSET Rows
      BY <1>3, <1>4, <1>5
<1>9. LInv'
      BY <1>3, <1>5, <1>6, <1>7, <1>8, Moved
<1> QED BY <1>9 DEF Lock

LEMMA ReclaimHolds ==
  ASSUME LInv, NEW t \in Txs, ReclaimTx(t)
  PROVE  LInv'
<1>1. PICK l \in Actives : /\ Unheld(ListingRow(l))
                           /\ kind' = [kind EXCEPT ![t] = "reclaim"]
                           /\ held' = [held EXCEPT ![t] = {ListingRow(l)}]
                           /\ todo' = [todo EXCEPT ![t] = ReclaimRows(l)]
      BY DEF ReclaimTx
<1>2. PICK k, h, r, q : /\ k = "reclaim" /\ h = {ListingRow(l)} /\ r = ReclaimRows(l)
                        /\ q = <<ListingRow(l)>> \o ReclaimRows(l)
      OBVIOUS
<1>3. l \in Listings
      BY DEF Actives
<1>4. /\ r \in Seq(Rows) /\ q \in Seq(Rows) /\ At(q, 1, r, h) /\ k \in Kinds /\ h \in SUBSET Rows
      BY <1>2, <1>3, ReclaimList, RowTypes DEF Kinds
<1>5. Listed(k, q)
      BY <1>2, <1>3 DEF Listed
<1>6. \A u \in Txs : u # t => h \cap held[u] = {}
      BY <1>1, <1>2 DEF Unheld
<1>7. /\ kind' = [kind EXCEPT ![t] = k] /\ held' = [held EXCEPT ![t] = h]
      /\ todo' = [todo EXCEPT ![t] = r]
      BY <1>1, <1>2
<1> QED BY <1>4, <1>5, <1>6, <1>7, Moved

\* What a transaction of the market begins with is the list of its kind.
LEMMA BeginsHold ==
  ASSUME LInv, NEW t \in Txs,
         BuyTx(t) \/ ReserveTx(t) \/ ProceedsTx(t) \/ CancelTx(t) \/ ClaimTx(t) \/ SellTx(t) \/ SweepTx(t)
  PROVE  LInv'
<1>1. CASE BuyTx(t)
  <2>1. PICK b \in Users, l \in Actives : b # Seller[l] /\ Begin(t, "buy", BuyRows(b, l))
        BY <1>1 DEF BuyTx
  <2>2. PICK k, q : k = "buy" /\ q = BuyRows(b, l)
        OBVIOUS
  <2>3. l \in Listings
        BY DEF Actives
  <2>4. k \in Kinds /\ Listed(k, q) /\ q \in Seq(Rows) /\ Begin(t, k, q)
        BY <2>1, <2>2, <2>3, BuyList DEF Kinds, Listed
  <2> QED BY <2>4, BeginHolds
<1>2. CASE ReserveTx(t)
  <2>1. PICK l \in Actives : Begin(t, "reserve", <<ListingRow(l)>>)
        BY <1>2 DEF ReserveTx
  <2>2. PICK k, q : k = "reserve" /\ q = <<ListingRow(l)>>
        OBVIOUS
  <2>3. l \in Listings
        BY DEF Actives
  <2>4. q \in Seq(Rows)
        BY <2>2, <2>3, RowTypes
  <2>5. k \in Kinds /\ Listed(k, q) /\ Begin(t, k, q)
        BY <2>1, <2>2, <2>3 DEF Kinds, Listed
  <2> QED BY <2>4, <2>5, BeginHolds
<1>3. CASE ProceedsTx(t)
  <2>1. PICK x \in Users : Begin(t, "proceeds", ProceedsRows(x))
        BY <1>3 DEF ProceedsTx
  <2>2. PICK k, q : k = "proceeds" /\ q = ProceedsRows(x)
        OBVIOUS
  <2>3. k \in Kinds /\ Listed(k, q) /\ q \in Seq(Rows) /\ Begin(t, k, q)
        BY <2>1, <2>2, ProceedsList DEF Kinds, Listed
  <2> QED BY <2>3, BeginHolds
<1>4. CASE CancelTx(t) \/ ClaimTx(t)
  <2>1. PICK x \in Users, l \in Listings, k \in {"cancel", "claim"} : Begin(t, k, CancelRows(x, l))
    <3>1. CASE CancelTx(t)
      <4>1. PICK l \in Actives : Begin(t, "cancel", CancelRows(Seller[l], l))
            BY <3>1 DEF CancelTx
      <4>2. l \in Listings /\ Seller[l] \in Users
            BY LocksAssumption DEF Actives
      <4> QED BY <4>1, <4>2
    <3>2. CASE ClaimTx(t)
      <4>1. PICK l \in Custodies : Begin(t, "claim", CancelRows(Pickup[l], l))
            BY <3>2 DEF ClaimTx, ClaimRows
      <4>2. l \in Listings /\ Pickup[l] \in Users
            BY LocksAssumption DEF Actives, Custodies
      <4> QED BY <4>1, <4>2
    <3> QED BY <1>4, <3>1, <3>2
  <2>2. PICK q : q = CancelRows(x, l)
        OBVIOUS
  <2>3. k \in Kinds /\ Listed(k, q) /\ q \in Seq(Rows) /\ Begin(t, k, q)
        BY <2>1, <2>2, CancelList DEF Kinds, Listed
  <2> QED BY <2>3, BeginHolds
<1>5. CASE SellTx(t)
  <2>1. PICK x \in Users : Begin(t, "sell", SellRows(x))
        BY <1>5 DEF SellTx
  <2>2. PICK k, q : k = "sell" /\ q = SellRows(x)
        OBVIOUS
  <2>3. k \in Kinds /\ Listed(k, q) /\ q \in Seq(Rows) /\ Begin(t, k, q)
        BY <2>1, <2>2, SellList DEF Kinds, Listed
  <2> QED BY <2>3, BeginHolds
<1>6. CASE SweepTx(t)
  <2>1. PICK x \in Users : Begin(t, "sweep", SweepRows(x))
        BY <1>6 DEF SweepTx
  <2>2. PICK k, q : k = "sweep" /\ q = SweepRows(x)
        OBVIOUS
  <2>3. k \in Kinds /\ Listed(k, q) /\ q \in Seq(Rows) /\ Begin(t, k, q)
        BY <2>1, <2>2, SweepList DEF Kinds, Listed
  <2> QED BY <2>3, BeginHolds
<1> QED BY <1>1, <1>2, <1>3, <1>4, <1>5, <1>6

LEMMA InitRuns == Init => LInv
<1> SUFFICES ASSUME Init PROVE LInv
    OBVIOUS
<1>1. PICK q : q = <<>>
      OBVIOUS
<1>2. q \in Seq(Rows)
      BY <1>1
<1>3. At(q, 0, q, {})
      BY <1>2, AtStart
<1>4. ASSUME NEW t \in Txs PROVE Ran(t)
  <2>1. kind[t] = "idle" /\ held[t] = {} /\ todo[t] = q
        BY <1>1 DEF Init
  <2>2. Listed("idle", q)
        BY <1>1 DEF Listed
  <2> QED BY <1>2, <1>3, <2>1, <2>2 DEF Ran
<1>5. /\ kind \in [Txs -> Kinds] /\ held \in [Txs -> SUBSET Rows] /\ todo \in [Txs -> Seq(Rows)]
      BY <1>1, <1>2 DEF Init, Kinds
<1>6. TypeOK
      BY <1>5 DEF TypeOK, Init, Kinds
<1> QED BY <1>4, <1>5, <1>6 DEF LInv

LEMMA StepRuns == LInv /\ [Next]_lvars => LInv'
<1> SUFFICES ASSUME LInv, [Next]_lvars PROVE LInv'
    OBVIOUS
<1>1. CASE UNCHANGED lvars
      BY <1>1 DEF lvars, LInv, TypeOK, Ran
<1>2. ASSUME NEW t \in Txs, Commit(t) \/ Rollback(t) \/ LockTimeout(t) PROVE LInv'
      BY <1>2, ReleaseHolds DEF Commit, Rollback, LockTimeout
<1>3. ASSUME NEW t \in Txs, Lock(t) \/ ReclaimTx(t) PROVE LInv'
      BY <1>3, LockHolds, ReclaimHolds
<1> QED BY <1>1, <1>2, <1>3, BeginsHold DEF Next

\* No row is locked by two connections at a time, whatever handlers they run.
THEOREM TypeCorrect == Spec => []TypeOK
<1>1. LInv => TypeOK
      BY DEF LInv
<1> QED BY <1>1, InitRuns, StepRuns, PTL DEF Spec

-----------------------------------------------------------------------------
(* Who waits for what. *)

LEMMA NoGuard ==
  ASSUME NEW x, NEW g
  PROVE  ~Behind(UserRow(x), g) /\ ~Behind(ListingRow(x), g) /\ ~BehindListing(GameRow(x), g)
  BY RowsDiffer DEF Behind, BehindListing, BehindUser

\* How far a connection that waits, and the one it waits for, have come.
LEMMA WaitParts ==
  ASSUME LInv, NEW t \in Txs, NEW u \in Txs, Waits(t, u)
  PROVE  \E q \in Seq(Rows), n \in Nat, p \in Seq(Rows), i \in Nat, m \in Nat :
           /\ Listed(kind[t], q) /\ Listed(kind[u], p)
           /\ n + 1 \in 1..Len(q) /\ q[n + 1] = Head(todo[t]) /\ held[t] = {q[j] : j \in 1..n}
           /\ i \in 1..Len(p) /\ p[i] = Head(todo[t]) /\ i <= m /\ held[u] = {p[j] : j \in 1..m}
           /\ held[t] \cap held[u] = {}
<1>1. PICK q \in Seq(Rows), n \in Nat : Listed(kind[t], q) /\ At(q, n, todo[t], held[t])
      BY DEF LInv, Ran
<1>2. PICK p \in Seq(Rows), m \in Nat : Listed(kind[u], p) /\ At(p, m, todo[u], held[u])
      BY DEF LInv, Ran
<1>3. PICK rest : rest = todo[t]
      OBVIOUS
<1>4. rest \in Seq(Rows) /\ rest # <<>> /\ Head(rest) \in held[u] /\ t # u
      BY <1>3 DEF Waits, LInv
<1>5. At(q, n, rest, held[t])
      BY <1>1, <1>3
<1>6. n + 1 \in 1..Len(q) /\ Head(rest) = q[n + 1]
      BY <1>4, <1>5, AtNext
<1>7. held[t] = {q[j] : j \in 1..n} /\ held[u] = {p[j] : j \in 1..m}
      BY <1>1, <1>2 DEF At
<1>11. m \in 0..Len(p) /\ Len(p) \in Nat
      BY <1>2 DEF At
<1>8. PICK i \in 1..m : p[i] = Head(rest)
      BY <1>4, <1>7
<1>9. i \in 1..Len(p) /\ i <= m
      BY <1>11
<1>10. held[t] \cap held[u] = {}
      BY <1>4 DEF LInv, TypeOK
<1>12. /\ Listed(kind[t], q) /\ Listed(kind[u], p)
       /\ n + 1 \in 1..Len(q) /\ q[n + 1] = Head(todo[t]) /\ held[t] = {q[j] : j \in 1..n}
       /\ i \in 1..Len(p) /\ p[i] = Head(todo[t]) /\ i <= m /\ held[u] = {p[j] : j \in 1..m}
       /\ held[t] \cap held[u] = {}
      BY <1>1, <1>2, <1>3, <1>6, <1>7, <1>8, <1>9, <1>10
<1>13. i \in Nat
      BY <1>9
<1> WITNESS q \in Seq(Rows), n \in Nat, p \in Seq(Rows), i \in Nat, m \in Nat
<1> QED BY <1>12

\* A row that both have to lock behind another one is not waited for.
LEMMA GuardedNotAwaited ==
  ASSUME NEW q, NEW n \in Nat, NEW p, NEW i \in Nat, NEW m \in Nat, i <= m, q[n + 1] = p[i],
         {q[j] : j \in 1..n} \cap {p[j] : j \in 1..m} = {},
         NEW j \in 1..n, Behind(q[n + 1], q[j]), NEW h \in 1..(i-1), Behind(p[i], p[h])
  PROVE  FALSE
<1>1. q[j] = p[h]
      BY OneGuard
<1>2. h \in 1..m
      OBVIOUS
<1> QED BY <1>1, <1>2

\* A player's own handlers wait for an account while they hold nothing, and for a
\* listing while they hold none.
LEMMA OwnWaits ==
  ASSUME LInv, NEW t \in Txs, NEW u \in Txs, Waits(t, u),
         kind[t] \notin {"buy", "sweep", "reclaim"}, kind[u] \notin {"buy", "sweep", "reclaim"}
  PROVE  \/ held[t] = {} /\ \E x \in Users : Head(todo[t]) = UserRow(x)
         \/ /\ \E l \in Listings : Head(todo[t]) = ListingRow(l)
            /\ \A l \in Listings : ListingRow(l) \notin held[t]
<1>1. PICK q \in Seq(Rows), n \in Nat, p \in Seq(Rows), i \in Nat, m \in Nat :
           /\ Listed(kind[t], q) /\ Listed(kind[u], p)
           /\ n + 1 \in 1..Len(q) /\ q[n + 1] = Head(todo[t]) /\ held[t] = {q[j] : j \in 1..n}
           /\ i \in 1..Len(p) /\ p[i] = Head(todo[t]) /\ i <= m /\ held[u] = {p[j] : j \in 1..m}
           /\ held[t] \cap held[u] = {}
      BY WaitParts
<1>2. OwnOrder(q) /\ OwnOrder(p)
      BY <1>1, OwnLists
<1>3. PICK a : a = n + 1
      OBVIOUS
<1>4. 1..(a - 1) = 1..n /\ a \in 1..Len(q) /\ q[a] = Head(todo[t])
      BY <1>1, <1>3
<1>5. CASE a = 1 /\ \E x \in Users : q[a] = UserRow(x)
  <2>1. 1..n = {}
        BY <1>3, <1>5
  <2> QED BY <1>1, <1>4, <1>5, <2>1
<1>6. CASE /\ \E l \in Listings : q[a] = ListingRow(l)
           /\ \A j \in 1..n : \A l \in Listings : q[j] # ListingRow(l)
      BY <1>1, <1>4, <1>6
<1>7. ASSUME NEW j \in 1..n, Behind(q[a], q[j]) PROVE FALSE
  <2>1. \A x : q[a] # UserRow(x) /\ q[a] # ListingRow(x)
        BY <1>7, NoGuard
  <2>2. PICK h \in 1..(i-1) : Behind(p[i], p[h])
        BY <1>1, <1>2, <1>4, <2>1 DEF OwnOrder
  <2>3. i \in Nat /\ q[n + 1] = p[i] /\ {q[k] : k \in 1..n} \cap {p[k] : k \in 1..m} = {}
        BY <1>1
  <2>4. Behind(q[n + 1], q[j])
        BY <1>3, <1>7
  <2> QED BY <1>1, <2>2, <2>3, <2>4, GuardedNotAwaited
<1> QED BY <1>2, <1>4, <1>5, <1>6, <1>7 DEF OwnOrder

\* A buy waits for a listing while it holds nothing, it or a cash-out for an account
\* while it holds no account and no balance, and for a balance while it holds
\* lower ones only.
LEMMA BuyWaits ==
  ASSUME LInv, NEW t \in Txs, NEW u \in Txs, Waits(t, u),
         kind[t] \in {"idle", "buy", "reserve", "proceeds"},
         kind[u] \in {"idle", "buy", "reserve", "proceeds"}
  PROVE  \/ held[t] = {} /\ \E l \in Listings : Head(todo[t]) = ListingRow(l)
         \/ /\ \E x \in Users : Head(todo[t]) = UserRow(x)
            /\ \A y \in Users : UserRow(y) \notin held[t] /\ GameRow(y) \notin held[t]
         \/ \E x \in Users : /\ Head(todo[t]) = GameRow(x)
                             /\ \A y \in Users : GameRow(y) \in held[t] => y < x
<1>1. PICK q \in Seq(Rows), n \in Nat, p \in Seq(Rows), i \in Nat, m \in Nat :
           /\ Listed(kind[t], q) /\ Listed(kind[u], p)
           /\ n + 1 \in 1..Len(q) /\ q[n + 1] = Head(todo[t]) /\ held[t] = {q[j] : j \in 1..n}
           /\ i \in 1..Len(p) /\ p[i] = Head(todo[t]) /\ i <= m /\ held[u] = {p[j] : j \in 1..m}
           /\ held[t] \cap held[u] = {}
      BY WaitParts
<1>2. BuyOrder(q) /\ BuyOrder(p)
      BY <1>1, BuyLists
<1>3. PICK a : a = n + 1
      OBVIOUS
<1>4. 1..(a - 1) = 1..n /\ a \in 1..Len(q) /\ q[a] = Head(todo[t])
      BY <1>1, <1>3
<1>5. CASE a = 1 /\ \E l \in Listings : q[a] = ListingRow(l)
  <2>1. 1..n = {}
        BY <1>3, <1>5
  <2> QED BY <1>1, <1>4, <1>5, <2>1
<1>6. CASE /\ \E x \in Users : q[a] = UserRow(x)
           /\ \A j \in 1..n : \E l \in Listings : q[j] = ListingRow(l)
  <2>1. \A y \in Users, j \in 1..n : q[j] # UserRow(y) /\ q[j] # GameRow(y)
        BY <1>6, RowsDiffer
  <2> QED BY <1>1, <1>4, <1>6, <2>1
<1>7. CASE \E x \in Users : /\ q[a] = GameRow(x)
                            /\ \A j \in 1..n : \A y \in Users : q[j] = GameRow(y) => y < x
      BY <1>1, <1>4, <1>7
<1>8. ASSUME NEW j \in 1..n, BehindListing(q[a], q[j]) PROVE FALSE
  <2>1. \A x : q[a] # UserRow(x) /\ q[a] # ListingRow(x) /\ q[a] # GameRow(x)
        BY <1>8, NoGuard DEF Behind
  <2>2. PICK h \in 1..(i-1) : Behind(p[i], p[h])
        BY <1>1, <1>2, <1>4, <2>1 DEF BuyOrder, Behind
  <2>3. i \in Nat /\ q[n + 1] = p[i] /\ {q[k] : k \in 1..n} \cap {p[k] : k \in 1..m} = {}
        BY <1>1
  <2>4. Behind(q[n + 1], q[j])
        BY <1>3, <1>8 DEF Behind
  <2> QED BY <1>1, <2>2, <2>3, <2>4, GuardedNotAwaited
<1> QED BY <1>2, <1>4, <1>5, <1>6, <1>7, <1>8 DEF BuyOrder

-----------------------------------------------------------------------------
(* No circles. *)

LEMMA OwnCircles == LInv => CirclesAreKnown
<1> SUFFICES ASSUME LInv, NEW D \in SUBSET Txs, Circle(D),
                    \A t \in D : kind[t] \notin {"buy", "sweep", "reclaim"}
             PROVE  FALSE
    BY DEF CirclesAreKnown
<1>1. ASSUME NEW t \in D
      PROVE  \E u \in D :
               /\ Head(todo[t]) \in held[u]
               /\ \/ held[t] = {} /\ \E x \in Users : Head(todo[t]) = UserRow(x)
                  \/ /\ \E l \in Listings : Head(todo[t]) = ListingRow(l)
                     /\ \A l \in Listings : ListingRow(l) \notin held[t]
  <2>1. PICK u \in D : Waits(t, u)
        BY DEF Circle
  <2>2. Head(todo[t]) \in held[u]
        BY <2>1 DEF Waits
  <2> QED BY <2>1, <2>2, OwnWaits
<1>2. \A t \in D : ~(\E l \in Listings : Head(todo[t]) = ListingRow(l))
      BY <1>1
<1>3. \A t \in D : held[t] = {}
      BY <1>1, <1>2
<1>4. D # {}
      BY DEF Circle
<1> QED BY <1>1, <1>3, <1>4

BuyInv == LInv /\ kind \in [Txs -> {"idle", "buy", "reserve", "proceeds"}]

LEMMA NoBuyCircle == BuyInv => NoDeadlock
<1> SUFFICES ASSUME BuyInv, NEW D \in SUBSET Txs, Circle(D) PROVE FALSE
    BY DEF NoDeadlock
<1>1. ASSUME NEW t \in D
      PROVE  \E u \in D :
               /\ Head(todo[t]) \in held[u]
               /\ \/ held[t] = {} /\ \E l \in Listings : Head(todo[t]) = ListingRow(l)
                  \/ /\ \E x \in Users : Head(todo[t]) = UserRow(x)
                     /\ \A y \in Users : UserRow(y) \notin held[t] /\ GameRow(y) \notin held[t]
                  \/ \E x \in Users : /\ Head(todo[t]) = GameRow(x)
                                      /\ \A y \in Users : GameRow(y) \in held[t] => y < x
  <2>1. PICK u \in D : Waits(t, u)
        BY DEF Circle
  <2>2. Head(todo[t]) \in held[u]
        BY <2>1 DEF Waits
  <2>3. LInv /\ t \in Txs /\ u \in Txs /\ kind[t] \in {"idle", "buy", "reserve", "proceeds"}
        /\ kind[u] \in {"idle", "buy", "reserve", "proceeds"}
        BY DEF BuyInv
  <2> QED BY <2>1, <2>2, <2>3, BuyWaits
<1> DEFINE G == {x \in Users : \E t \in D : Head(todo[t]) = GameRow(x)}
<1>2. G # {}
  <2>1. PICK t \in D : t \in D
        BY DEF Circle
  <2>2. PICK u \in D : Head(todo[t]) \in held[u]
        BY <1>1
  <2>3. PICK v \in D : Head(todo[u]) \in held[v]
        BY <1>1
  <2>4. \A w \in D : held[w] # {} =>
          \/ \E x \in Users : Head(todo[w]) = UserRow(x) /\ \A y \in Users : UserRow(y) \notin held[w]
          \/ \E x \in Users : Head(todo[w]) = GameRow(x)
        BY <1>1
  <2>5. CASE \E x \in Users : Head(todo[u]) = GameRow(x)
        BY <2>5
  <2>6. CASE \E x \in Users : Head(todo[u]) = UserRow(x)
    <3>1. \E x \in Users : Head(todo[v]) = GameRow(x)
          BY <2>3, <2>4, <2>6
    <3> QED BY <3>1
  <2> QED BY <2>2, <2>4, <2>5, <2>6
<1>3. IsFiniteSet(G) /\ G \subseteq Int
      BY LocksAssumption, FS_Subset
<1>4. PICK x \in G : \A y \in G : y <= x
      BY <1>2, <1>3, MaxExists
<1>5. PICK t \in D : Head(todo[t]) = GameRow(x)
      BY <1>4
<1>6. PICK u \in D : GameRow(x) \in held[u]
      BY <1>1, <1>5
<1>7. x \in Users /\ x \in Int
      BY <1>3
<1>8. PICK y \in Users : Head(todo[u]) = GameRow(y) /\ x < y
      BY <1>1, <1>6, <1>7
<1>9. y \in G /\ y \in Int
      BY <1>3, <1>8
<1> QED BY <1>4, <1>7, <1>8, <1>9

LEMMA BuyStep == BuyInv /\ [BuyOnlyNext]_lvars => BuyInv'
<1> SUFFICES ASSUME BuyInv, [BuyOnlyNext]_lvars PROVE BuyInv'
    OBVIOUS
<1>1. [Next]_lvars
      BY DEF BuyOnlyNext, Next
<1>2. LInv'
      BY <1>1, StepRuns DEF BuyInv
<1>3. kind' \in [Txs -> {"idle", "buy", "reserve", "proceeds"}]
      BY DEF BuyInv, BuyOnlyNext, BuyTx, ReserveTx, ProceedsTx, Begin, Lock, Commit, Rollback,
             Release, lvars
<1> QED BY <1>2, <1>3 DEF BuyInv

\* However many players buy one another's listings, reserve and cash out at a time,
\* with the same or crossed sellers and referrers, they never wait for each other in
\* a circle: the listing, the buyer's account, the balances in ascending order and
\* the units are one order.
THEOREM BuysNeverDeadlock == BuySpec => []NoDeadlock
<1>1. Init => BuyInv
      BY InitRuns DEF Init, BuyInv
<1> QED BY <1>1, BuyStep, NoBuyCircle, PTL DEF BuySpec

\* Every circle of waits, among any number of handlers of any kind, goes through a
\* buy, a reclaim or a sweep: the handlers of one's own listings, stock and proceeds
\* (reserve, sell, cancel, claim, claim_proceeds) never deadlock among themselves.
THEOREM CirclesGoThroughBuys == Spec => []CirclesAreKnown
  BY InitRuns, StepRuns, OwnCircles, PTL DEF Spec

=============================================================================
