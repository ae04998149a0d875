----------------------------- MODULE FiniteSums ------------------------------
(***************************************************************************)
(* Sums of a function over a finite set: what a balance sheet adds up.     *)
(* The fold of FiniteSetsExt picks the elements in an order of its own;    *)
(* the lemmas say that the order does not matter, so that a sum changes by *)
(* what one element changes.  A smallest counterexample takes the place of *)
(* an induction over sets.                                                 *)
(***************************************************************************)
EXTENDS Integers, FiniteSets, FiniteSetsExt, FiniteSetTheorems, WellFoundedInduction, TLAPS

SumOver(f, S) == MapThenSumSet(LAMBDA x : f[x], S)

\* The function the fold is defined by, and what makes a function of sets a sum.
Chosen(T) == CHOOSE x \in T : TRUE
Steps(it, f, S) == it = [T \in SUBSET S |-> IF T = {} THEN 0
                                            ELSE f[Chosen(T)] + it[T \ {Chosen(T)}]]
Fold(f, S) == CHOOSE it : Steps(it, f, S)
Adds(g, f, S) == /\ g = [T \in SUBSET S |-> g[T]] /\ g[{}] = 0
                 /\ \A T \in SUBSET S : g[T] \in Int
                 /\ \A T \in SUBSET S : \A x \in T : g[T] = f[x] + g[T \ {x}]
Ints(f, S) == \A x \in S : f[x] \in Int

-----------------------------------------------------------------------------

\* Some set of a family of finite sets has no other member of the family in it.
LEMMA SmallestSet ==
  ASSUME NEW S, IsFiniteSet(S), NEW B, B \subseteq SUBSET S, B # {}
  PROVE  \E T \in B : \A U \in B : U \subseteq T => U = T
<1>1. IsWellFoundedOn(StrictSubsetOrdering(S), SUBSET S)
      BY FS_StrictSubsetOrderingWellFounded, FS_FiniteSubsetsOfFinite
<1>2. \E T \in B : \A U \in B : ~(<<U, T>> \in StrictSubsetOrdering(S))
      BY <1>1, WFMin
<1>3. PICK T \in B : \A U \in B : ~(<<U, T>> \in StrictSubsetOrdering(S))
      BY <1>2
<1>4. ASSUME NEW U \in B, U \subseteq T, U # T PROVE FALSE
      BY <1>3, <1>4 DEF StrictSubsetOrdering
<1> QED BY <1>4

\* Of the sets a function gives the members of a finite set, one holds no other.
LEMMA SmallestImage ==
  ASSUME NEW S, IsFiniteSet(S), S # {}, NEW F, F \in [S -> SUBSET S]
  PROVE  \E x \in S : \A y \in S : F[y] \subseteq F[x] => F[y] = F[x]
<1>1. PICK B : B = {F[x] : x \in S}
      OBVIOUS
<1>2. B \subseteq SUBSET S
      BY <1>1
<1>3. B # {}
      BY <1>1
<1>4. PICK T \in B : \A U \in B : U \subseteq T => U = T
      BY <1>2, <1>3, SmallestSet
<1>5. PICK x \in S : T = F[x]
      BY <1>1
<1>6. \A y \in S : F[y] \in B
      BY <1>1
<1> QED BY <1>4, <1>5, <1>6

\* A finite set of integers that has a member has a largest one.
LEMMA MaxExists ==
  ASSUME NEW S, IsFiniteSet(S), S # {}
  PROVE  S \subseteq Int => \E x \in S : \A y \in S : y <= x
<1>1. PICK F : F = [x \in S |-> {y \in S : y >= x}]
      OBVIOUS
<1>2. F \in [S -> SUBSET S]
      BY <1>1
<1>3. PICK x \in S : \A y \in S : F[y] \subseteq F[x] => F[y] = F[x]
      BY <1>2, SmallestImage
<1>4. ASSUME S \subseteq Int, NEW y \in S, ~(y <= x) PROVE FALSE
  <2>1. y > x /\ y \in Int /\ x \in Int
        BY <1>4
  <2>2. x \notin F[y] /\ x \in F[x]
        BY <1>1, <2>1
  <2>3. ASSUME NEW z \in F[y] PROVE z \in F[x]
    <3>1. z \in S /\ z >= y /\ z \in Int
          BY <1>1, <1>4
    <3>2. z >= x
          BY <2>1, <3>1
    <3> QED BY <1>1, <3>1, <3>2
  <2> QED BY <1>3, <2>2, <2>3
<1> QED BY <1>4

LEMMA SumIsFold == ASSUME NEW f, NEW S PROVE SumOver(f, S) = Fold(f, S)[S]
  BY DEF SumOver, MapThenSumSet, MapThenFoldSet, Fold, Steps, Chosen

LEMMA ChosenIn == ASSUME NEW T, T # {} PROVE Chosen(T) \in T
  BY DEF Chosen

\* A sum for the sets without x is one for the sets with x.
LEMMA AddsOneMore ==
  ASSUME NEW f, NEW S, NEW x \in S, Ints(f, S), NEW g, Adds(g, f, S \ {x})
  PROVE  \E h : Adds(h, f, S)
<1> DEFINE h == [T \in SUBSET S |-> IF x \in T THEN f[x] + g[T \ {x}] ELSE g[T]]
<1>1. \A T \in SUBSET S : T \ {x} \in SUBSET (S \ {x}) /\ (x \notin T => T \in SUBSET (S \ {x}))
      OBVIOUS
<1>2. \A T \in SUBSET S : h[T] = IF x \in T THEN f[x] + g[T \ {x}] ELSE g[T]
      OBVIOUS
<1>3. h = [T \in SUBSET S |-> h[T]] /\ h[{}] = 0
      BY DEF Adds
<1> HIDE DEF h
<1>4. ASSUME NEW T \in SUBSET S PROVE h[T] \in Int
  <2>1. CASE x \in T
    <3>1. PICK k : k = g[T \ {x}]
          OBVIOUS
    <3>2. k \in Int /\ f[x] \in Int
          BY <1>1, <3>1 DEF Adds, Ints
    <3>3. h[T] = f[x] + k
          BY <1>2, <2>1, <3>1
    <3> QED BY <3>2, <3>3
  <2>2. CASE x \notin T
        BY <1>1, <1>2, <2>2 DEF Adds
  <2> QED BY <2>1, <2>2
<1>5. ASSUME NEW T \in SUBSET S, NEW y \in T PROVE h[T] = f[y] + h[T \ {y}]
  <2>1. CASE x \notin T
    <3>1. h[T] = g[T] /\ h[T \ {y}] = g[T \ {y}] /\ T \in SUBSET (S \ {x})
          BY <1>1, <1>2, <2>1
    <3> QED BY <3>1 DEF Adds
  <2>2. CASE x = y
    <3>1. h[T] = f[x] + g[T \ {x}] /\ h[T \ {x}] = g[T \ {x}]
          BY <1>2, <2>2
    <3> QED BY <2>2, <3>1
  <2>3. CASE x \in T /\ x # y
    <3>1. h[T] = f[x] + g[T \ {x}]
          BY <1>2, <2>3
    <3>2. h[T \ {y}] = f[x] + g[(T \ {y}) \ {x}]
      <4>1. T \ {y} \in SUBSET S /\ x \in T \ {y}
            BY <2>3
      <4> QED BY <1>2, <4>1
    <3>3. y \in T \ {x} /\ T \ {x} \in SUBSET (S \ {x}) /\ (T \ {x}) \ {y} \in SUBSET (S \ {x})
          BY <2>3
    <3>4. g[T \ {x}] = f[y] + g[(T \ {x}) \ {y}] /\ g[(T \ {x}) \ {y}] \in Int
          BY <3>3 DEF Adds
    <3>5. (T \ {x}) \ {y} = (T \ {y}) \ {x}
          OBVIOUS
    <3>6. f[x] \in Int /\ f[y] \in Int
          BY DEF Ints
    <3>7. PICK k : k = g[(T \ {x}) \ {y}]
          OBVIOUS
    <3>8. h[T] = f[x] + (f[y] + k) /\ h[T \ {y}] = f[x] + k /\ k \in Int
          BY <3>1, <3>2, <3>4, <3>5, <3>7
    <3> QED BY <3>6, <3>8
  <2> QED BY <2>1, <2>2, <2>3
<1> QED BY <1>3, <1>4, <1>5 DEF Adds

LEMMA AddsExists ==
  ASSUME NEW f, NEW S, IsFiniteSet(S), Ints(f, S)
  PROVE  \E g : Adds(g, f, S)
<1>1. PICK Bad : Bad = {T \in SUBSET S : ~(\E g : Adds(g, f, T))}
      OBVIOUS
<1>2. SUFFICES ASSUME Bad # {} PROVE FALSE
      BY <1>1
<1>0. Bad \subseteq SUBSET S
      BY <1>1
<1>3. PICK T \in Bad : \A U \in Bad : U \subseteq T => U = T
      BY <1>0, <1>2, SmallestSet
<1>4. CASE T = {}
  <2>1. PICK g : g = [U \in SUBSET T |-> 0]
        OBVIOUS
  <2>2. g = [U \in SUBSET T |-> g[U]] /\ g[{}] = 0 /\ \A U \in SUBSET T : g[U] \in Int
        BY <2>1
  <2>3. Adds(g, f, T)
        BY <1>4, <2>2 DEF Adds
  <2> QED BY <1>1, <1>3, <2>3
<1>5. CASE T # {}
  <2>1. PICK x \in T : TRUE
        BY <1>5
  <2>2. T \ {x} \notin Bad /\ T \ {x} \in SUBSET S
        BY <1>1, <1>3, <2>1
  <2>3. PICK g : Adds(g, f, T \ {x})
        BY <1>1, <2>2
  <2>4. Ints(f, T)
        BY <1>0, <1>3 DEF Ints
  <2>5. \E h : Adds(h, f, T)
        BY <2>1, <2>3, <2>4, AddsOneMore
  <2> QED BY <1>1, <1>3, <2>5
<1> QED BY <1>4, <1>5

\* A sum is the fold, whatever order the fold takes.
LEMMA AddsIsFold ==
  ASSUME NEW f, NEW S, IsFiniteSet(S), NEW g, Adds(g, f, S)
  PROVE  SumOver(f, S) = g[S]
<1>1. Steps(g, f, S)
  <2>1. ASSUME NEW T \in SUBSET S
        PROVE  g[T] = IF T = {} THEN 0 ELSE f[Chosen(T)] + g[T \ {Chosen(T)}]
        BY ChosenIn DEF Adds
  <2> QED BY <2>1 DEF Steps, Adds
<1>2. PICK it : it = Fold(f, S)
      OBVIOUS
<1>3. Steps(it, f, S)
      BY <1>1, <1>2 DEF Fold
<1>4. \A T \in SUBSET S : it[T] = IF T = {} THEN 0 ELSE f[Chosen(T)] + it[T \ {Chosen(T)}]
      BY <1>3 DEF Steps
<1>5. {T \in SUBSET S : it[T] # g[T]} = {}
  <2>0. PICK Bad : Bad = {T \in SUBSET S : it[T] # g[T]}
        OBVIOUS
  <2>9. Bad \subseteq SUBSET S
        BY <2>0
  <2>1. SUFFICES ASSUME Bad # {} PROVE FALSE
        BY <2>0
  <2>2. PICK T \in Bad : \A U \in Bad : U \subseteq T => U = T
        BY <2>9, <2>1, SmallestSet
  <2>3. T # {}
        BY <1>4, <2>0, <2>2 DEF Adds
  <2>4. PICK x : x = Chosen(T)
        OBVIOUS
  <2>5. x \in T /\ T \in SUBSET S /\ T \ {x} \in SUBSET S
        BY <2>0, <2>2, <2>3, <2>4, ChosenIn
  <2>6. it[T \ {x}] = g[T \ {x}]
        BY <2>0, <2>2, <2>5
  <2>7. it[T] = f[x] + it[T \ {x}]
        BY <1>4, <2>3, <2>4, <2>5
  <2>8. g[T] = f[x] + g[T \ {x}]
        BY <2>5 DEF Adds
  <2> QED BY <2>0, <2>2, <2>6, <2>7, <2>8
<1>6. it[S] = g[S]
      BY <1>5
<1> QED BY <1>2, <1>6, SumIsFold

\* So all sums over parts of a set are read off one function.
LEMMA SumsOfParts ==
  ASSUME NEW f, NEW S, IsFiniteSet(S), Ints(f, S)
  PROVE  \E g : Adds(g, f, S) /\ \A T \in SUBSET S : SumOver(f, T) = g[T]
<1>1. PICK g : Adds(g, f, S)
      BY AddsExists
<1>2. ASSUME NEW T \in SUBSET S PROVE SumOver(f, T) = g[T]
  <2>1. PICK h : h = [U \in SUBSET T |-> g[U]]
        OBVIOUS
  <2>2. h = [U \in SUBSET T |-> h[U]] /\ \A U \in SUBSET T : h[U] = g[U]
        BY <2>1
  <2>3. \A U \in SUBSET T : U \in SUBSET S /\ \A x \in U : U \ {x} \in SUBSET T
        OBVIOUS
  <2>4. Adds(h, f, T)
        BY <1>1, <2>2, <2>3 DEF Adds
  <2>5. IsFiniteSet(T)
        BY FS_Subset
  <2> QED BY <2>2, <2>4, <2>5, AddsIsFold
<1> QED BY <1>1, <1>2

-----------------------------------------------------------------------------
(* What the proofs about sums cite. *)

LEMMA SumEmpty == ASSUME NEW f PROVE SumOver(f, {}) = 0
<1>1. PICK g : Adds(g, f, {}) /\ \A T \in SUBSET {} : SumOver(f, T) = g[T]
      BY SumsOfParts, FS_EmptySet DEF Ints
<1> QED BY <1>1 DEF Adds

LEMMA SumType ==
  ASSUME NEW f, NEW S, IsFiniteSet(S), Ints(f, S)
  PROVE  SumOver(f, S) \in Int
<1>1. PICK g : Adds(g, f, S) /\ \A T \in SUBSET S : SumOver(f, T) = g[T]
      BY SumsOfParts
<1> QED BY <1>1 DEF Adds

LEMMA SumWithout ==
  ASSUME NEW f, NEW S, IsFiniteSet(S), Ints(f, S), NEW x \in S
  PROVE  SumOver(f, S) = f[x] + SumOver(f, S \ {x})
<1>1. PICK g : Adds(g, f, S) /\ \A T \in SUBSET S : SumOver(f, T) = g[T]
      BY SumsOfParts
<1>2. S \in SUBSET S /\ S \ {x} \in SUBSET S
      OBVIOUS
<1> QED BY <1>1, <1>2 DEF Adds

LEMMA SumWith ==
  ASSUME NEW f, NEW S, IsFiniteSet(S), NEW x, x \notin S, Ints(f, S \cup {x})
  PROVE  SumOver(f, S \cup {x}) = SumOver(f, S) + f[x]
<1>1. IsFiniteSet(S \cup {x}) /\ (S \cup {x}) \ {x} = S
      BY FS_AddElement
<1>2. SumOver(f, S) \in Int /\ f[x] \in Int
      BY SumType DEF Ints
<1>3. PICK Z : Z = S \cup {x}
      OBVIOUS
<1>4. IsFiniteSet(Z) /\ Ints(f, Z) /\ x \in Z /\ Z \ {x} = S
      BY <1>1, <1>3
<1>5. SumOver(f, Z) = f[x] + SumOver(f, Z \ {x})
      BY <1>4, SumWithout
<1>6. SumOver(f, Z) = f[x] + SumOver(f, S)
      BY <1>4, <1>5
<1>7. PICK k : k = SumOver(f, S)
      OBVIOUS
<1>8. SumOver(f, Z) = k + f[x]
      BY <1>2, <1>6, <1>7
<1> QED BY <1>3, <1>7, <1>8

\* Only the values on the set count.
LEMMA SumSame ==
  ASSUME NEW f, NEW h, NEW S, IsFiniteSet(S), Ints(f, S), \A x \in S : h[x] = f[x]
  PROVE  SumOver(h, S) = SumOver(f, S)
<1>1. PICK g : Adds(g, f, S) /\ \A T \in SUBSET S : SumOver(f, T) = g[T]
      BY SumsOfParts
<1>2. Adds(g, h, S)
      BY <1>1 DEF Adds
<1> QED BY <1>1, <1>2, AddsIsFold

\* A sum changes by what one element changes.
LEMMA SumChange ==
  ASSUME NEW f, NEW h, NEW S, IsFiniteSet(S), NEW y \in S, Ints(f, S), Ints(h, S),
         \A x \in S : x # y => h[x] = f[x]
  PROVE  SumOver(h, S) = SumOver(f, S) + h[y] - f[y]
<1>1. PICK Z : Z = S \ {y}
      OBVIOUS
<1>2. IsFiniteSet(Z) /\ Ints(f, Z) /\ \A x \in Z : h[x] = f[x]
      BY <1>1, FS_RemoveElement DEF Ints
<1>3. SumOver(h, Z) = SumOver(f, Z) /\ SumOver(f, Z) \in Int
      BY <1>2, SumSame, SumType
<1>4. SumOver(f, S) = f[y] + SumOver(f, Z) /\ SumOver(h, S) = h[y] + SumOver(h, Z)
      BY <1>1, SumWithout
<1>5. f[y] \in Int /\ h[y] \in Int
      BY DEF Ints
<1> QED BY <1>3, <1>4, <1>5

LEMMA SumZero ==
  ASSUME NEW f, NEW S, IsFiniteSet(S), \A x \in S : f[x] = 0
  PROVE  SumOver(f, S) = 0
<1>1. PICK g : g = [T \in SUBSET S |-> 0]
      OBVIOUS
<1>2. Adds(g, f, S) /\ g[S] = 0
      BY <1>1 DEF Adds
<1> QED BY <1>2, AddsIsFold

LEMMA SumNat ==
  ASSUME NEW f, NEW S, IsFiniteSet(S), \A x \in S : f[x] \in Nat
  PROVE  SumOver(f, S) \in Nat
<1>1. Ints(f, S)
      BY DEF Ints
<1>2. PICK g : Adds(g, f, S) /\ \A T \in SUBSET S : SumOver(f, T) = g[T]
      BY <1>1, SumsOfParts
<1>3. {T \in SUBSET S : g[T] \notin Nat} = {}
  <2>0. PICK Bad : Bad = {T \in SUBSET S : g[T] \notin Nat}
        OBVIOUS
  <2>9. Bad \subseteq SUBSET S
        BY <2>0
  <2>1. SUFFICES ASSUME Bad # {} PROVE FALSE
        BY <2>0
  <2>2. PICK T \in Bad : \A U \in Bad : U \subseteq T => U = T
        BY <2>9, <2>1, SmallestSet
  <2>3. T # {}
    <3>1. g[{}] = 0
          BY <1>2 DEF Adds
    <3>2. T = {} => g[T] = 0
          BY <3>1
    <3>3. g[T] \notin Nat
          BY <2>0, <2>2
    <3> QED BY <3>2, <3>3
  <2>4. PICK x \in T : TRUE
        BY <2>3
  <2>5. T \ {x} \in SUBSET S /\ T \ {x} \notin Bad
        BY <2>0, <2>2, <2>4
  <2>6. g[T \ {x}] \in Nat /\ g[T] = f[x] + g[T \ {x}] /\ f[x] \in Nat
    <3>1. g[T \ {x}] \in Nat
          BY <2>0, <2>5
    <3>2. T \in SUBSET S /\ f[x] \in Nat
          BY <2>2, <2>4, <2>9
    <3> QED BY <1>2, <2>4, <3>1, <3>2 DEF Adds
  <2>7. g[T] \in Nat
        BY <2>6
  <2> QED BY <2>0, <2>2, <2>7
<1> QED BY <1>2, <1>3

\* Sums over sets that have nothing in common add up.
LEMMA SumUnion ==
  ASSUME NEW f, NEW S, NEW T, IsFiniteSet(S), IsFiniteSet(T), S \cap T = {}, Ints(f, S \cup T)
  PROVE  SumOver(f, S \cup T) = SumOver(f, S) + SumOver(f, T)
<1>1. IsFiniteSet(S \cup T)
      BY FS_Union
<1>2. PICK g : Adds(g, f, S \cup T) /\ \A U \in SUBSET (S \cup T) : SumOver(f, U) = g[U]
      BY <1>1, SumsOfParts
<1>3. {U \in SUBSET T : g[S \cup U] # g[S] + g[U]} = {}
  <2>0. PICK Bad : Bad = {U \in SUBSET T : g[S \cup U] # g[S] + g[U]}
        OBVIOUS
  <2>10. Bad \subseteq SUBSET T
        BY <2>0
  <2>1. SUFFICES ASSUME Bad # {} PROVE FALSE
        BY <2>0
  <2>2. PICK U \in Bad : \A V \in Bad : V \subseteq U => V = U
        BY <2>10, <2>1, SmallestSet
  <2>3. U # {}
    <3>1. g[{}] = 0 /\ g[S] \in Int
          BY <1>2 DEF Adds
    <3>2. U = {} => g[S \cup U] = g[S] /\ g[U] = 0
          BY <3>1
    <3>3. g[S \cup U] # g[S] + g[U]
          BY <2>0, <2>2
    <3> QED BY <3>1, <3>2, <3>3
  <2>4. PICK x \in U : TRUE
        BY <2>3
  <2>5. U \in SUBSET T /\ U \ {x} \in SUBSET T /\ U \ {x} \notin Bad
        BY <2>0, <2>2, <2>4
  <2>6. g[S \cup (U \ {x})] = g[S] + g[U \ {x}]
        BY <2>0, <2>5
  <2>7. g[U] = f[x] + g[U \ {x}]
        BY <1>2, <2>4, <2>5 DEF Adds
  <2>8. g[S \cup U] = f[x] + g[S \cup (U \ {x})]
    <3>1. S \cup U \in SUBSET (S \cup T) /\ x \in S \cup U /\ (S \cup U) \ {x} = S \cup (U \ {x})
          BY <2>4, <2>5
    <3> QED BY <1>2, <3>1 DEF Adds
  <2>9. f[x] \in Int /\ g[S] \in Int /\ g[U \ {x}] \in Int
        BY <1>2, <2>4, <2>5 DEF Adds, Ints
  <2> QED BY <2>0, <2>2, <2>6, <2>7, <2>8, <2>9
<1> QED BY <1>2, <1>3
=============================================================================
