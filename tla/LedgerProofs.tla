----------------------------- MODULE LedgerProofs -----------------------------
(***************************************************************************)
(* Theorems about the books, for every number of Engagements, handlers and *)
(* professionals, every price and every percentage.                        *)
(***************************************************************************)
EXTENDS Ledger, FiniteSetTheorems, TLAPS

-----------------------------------------------------------------------------
(* Sums.  A fold over a finite set is the value of a function that is      *)
(* defined by recursion over its subsets; what is proved of it by          *)
(* induction is proved of a smallest counterexample.                       *)

Body(g, f, s) == IF s = {} THEN 0
                 ELSE LET x == CHOOSE x \in s : TRUE IN g[x] + f[s \ {x}]
IsFold(g, f, S) == f = [s \in SUBSET S |-> Body(g, f, s)]
SumOf(g, S) == (CHOOSE f : IsFold(g, f, S))[S]

\* A set of finite sets has a smallest one, a set of numbers a least one.
LEMMA SmallestSet ==
  ASSUME NEW S, IsFiniteSet(S), NEW T \in SUBSET (SUBSET S), T # {}
  PROVE  \E x \in T : \A y \in T : y \subseteq x => y = x
<1>1. IsWellFoundedOn(StrictSubsetOrdering(S), FiniteSubsetsOf(S))
  BY FS_StrictSubsetOrderingWellFounded
<1>2. FiniteSubsetsOf(S) = SUBSET S
  BY FS_FiniteSubsetsOfFinite
<1>3. \E x \in T : \A y \in T : ~ (<<y, x>> \in StrictSubsetOrdering(S))
  BY <1>1, <1>2, WFMin
<1>4. \A x, y \in SUBSET S : y \subseteq x /\ y # x => <<y, x>> \in StrictSubsetOrdering(S)
  BY DEF StrictSubsetOrdering
<1> QED BY <1>3, <1>4

\* A set of numbers that is not empty has a smallest one.
LEMMA SmallestNumber ==
  ASSUME NEW T \in SUBSET Nat, T # {}
  PROVE  \E x \in T : \A y \in T : x <= y
<1>0. PICK R : R = {ss \in Nat \X Nat : ss[1] < ss[2]}
  OBVIOUS
<1>1. \E x \in T : \A y \in T : ~ (<<y, x>> \in R)
  <2>1. IsWellFoundedOn(R, Nat)
    BY <1>0, NatLessThanWellFounded DEF OpToRel
  <2> QED BY <2>1, WFMin
<1>2. \A x, y \in Nat : y < x => <<y, x>> \in R
  BY <1>0
<1>3. PICK x \in T : \A y \in T : ~ (<<y, x>> \in R)
  BY <1>1
<1>4. ASSUME NEW y \in T
      PROVE  x <= y
  <2>1. x \in Nat /\ y \in Nat /\ ~ (y < x)
    BY <1>2, <1>3
  <2> QED BY <2>1
<1> QED BY <1>4

\* Over a finite set there is a function that adds up each of its subsets.
LEMMA FoldsExists ==
  ASSUME NEW g, NEW S, IsFiniteSet(S)
  PROVE  \E f : IsFold(g, f, S)
<1> DEFINE Upto(f, k) == \A s \in SUBSET S : Cardinality(s) <= k => f[s] = Body(g, f, s)
           Fcn(f) == f = [s \in SUBSET S |-> f[s]]
           Bad == {k \in Nat : ~ \E f : Fcn(f) /\ Upto(f, k)}
<1>1. ASSUME NEW s \in SUBSET S
      PROVE  /\ Cardinality(s) \in Nat /\ (Cardinality(s) = 0 => s = {})
             /\ \A x \in s : s \ {x} \in SUBSET S /\ Cardinality(s \ {x}) = Cardinality(s) - 1
  <2>1. IsFiniteSet(s)
    BY FS_Subset
  <2> QED BY <2>1, FS_CardinalityType, FS_EmptySet, FS_RemoveElement
<1>2. 0 \notin Bad
  <2> DEFINE f0 == [s \in SUBSET S |-> 0]
  <2>1. Fcn(f0)
    OBVIOUS
  <2>2. Upto(f0, 0)
    BY <1>1 DEF Body
  <2> QED BY <2>1, <2>2
<1>3. ASSUME NEW k \in Nat, k \notin Bad
      PROVE  k + 1 \notin Bad
  <2>1. PICK f : Fcn(f) /\ Upto(f, k)
    BY <1>3
  <2>2. PICK h : h = [s \in SUBSET S |-> Body(g, f, s)]
    OBVIOUS
  <2>3. Fcn(h)
    BY <2>2
  <2>4. ASSUME NEW s \in SUBSET S, Cardinality(s) <= k + 1
        PROVE  h[s] = Body(g, h, s)
    <3>1. CASE s = {}
      BY <2>2, <3>1 DEF Body
    <3>2. CASE s # {}
      <4>1. PICK x \in s : x = CHOOSE y \in s : TRUE
        BY <3>2
      <4>2. s \ {x} \in SUBSET S /\ Cardinality(s \ {x}) <= k
        BY <1>1, <2>4
      <4>3. f[s \ {x}] = h[s \ {x}]
        BY <2>1, <2>2, <4>2
      <4> QED BY <2>2, <3>2, <4>1, <4>3 DEF Body
    <3> QED BY <3>1, <3>2
  <2> QED BY <2>3, <2>4
<1>4. Bad = {}
  <2>1. SUFFICES ASSUME Bad # {} PROVE FALSE
    OBVIOUS
  <2>2. PICK k \in Bad : \A j \in Bad : k <= j
    <3>1. Bad \in SUBSET Nat
      OBVIOUS
    <3> HIDE DEF Bad
    <3> QED BY <2>1, <3>1, SmallestNumber
  <2>3. k \in Nat /\ k # 0
    <3>1. Bad \in SUBSET Nat
      OBVIOUS
    <3> HIDE DEF Bad
    <3> QED BY <1>2, <3>1
  <2>4. k - 1 \in Nat /\ k - 1 \notin Bad
    <3> HIDE DEF Bad
    <3> QED BY <2>2, <2>3
  <2>5. (k - 1) + 1 \notin Bad
    BY <1>3, <2>4
  <2>6. (k - 1) + 1 = k
    BY <2>3
  <2> QED BY <2>2, <2>5, <2>6
<1>5. PICK f : Fcn(f) /\ Upto(f, Cardinality(S))
  <2>1. Cardinality(S) \in Nat
    BY FS_CardinalityType
  <2> QED BY <1>4, <2>1
<1>6. \A s \in SUBSET S : f[s] = Body(g, f, s)
  BY <1>5, FS_Subset
<1>7. f = [s \in SUBSET S |-> Body(g, f, s)]
  BY <1>5, <1>6
<1> QED BY <1>7 DEF IsFold

\* Two folds that agree on the values agree.
LEMMA FoldsAgree ==
  ASSUME NEW S, IsFiniteSet(S), NEW W \in SUBSET S, NEW g, NEW h, \A x \in W : g[x] = h[x],
         NEW f, IsFold(g, f, S), NEW e, IsFold(h, e, W)
  PROVE  f[W] = e[W]
<1> DEFINE Bad == {s \in SUBSET W : f[s] # e[s]}
<1>1. ASSUME Bad # {}
      PROVE  FALSE
  <2>1. IsFiniteSet(W) /\ Bad \in SUBSET (SUBSET W)
    BY FS_Subset
  <2>2. PICK s \in Bad : \A t \in Bad : t \subseteq s => t = s
    <3> HIDE DEF Bad
    <3> QED BY <1>1, <2>1, SmallestSet
  <2>3. f[s] = Body(g, f, s) /\ e[s] = Body(h, e, s)
    BY DEF IsFold
  <2>4. CASE s = {}
    BY <2>3, <2>4 DEF Body
  <2>5. CASE s # {}
    <3>1. PICK x \in s : x = CHOOSE y \in s : TRUE
      BY <2>5
    <3>2. s \ {x} \notin Bad /\ s \ {x} \in SUBSET W
      BY <2>2
    <3>3. f[s \ {x}] = e[s \ {x}] /\ g[x] = h[x]
      BY <3>2
    <3> QED BY <2>3, <2>5, <3>1, <3>3 DEF Body
  <2> QED BY <2>4, <2>5
<1> QED BY <1>1

\* Every such function gives the sum, also for values that agree on the set.
LEMMA SumIs ==
  ASSUME NEW S, IsFiniteSet(S), NEW W \in SUBSET S, NEW g, NEW h, \A x \in W : g[x] = h[x],
         NEW f, IsFold(g, f, S)
  PROVE  f[W] = SumOf(h, W)
<1>1. IsFiniteSet(W)
  BY FS_Subset
<1>2. IsFold(h, CHOOSE e : IsFold(h, e, W), W)
  BY <1>1, FoldsExists
<1> QED BY <1>2, FoldsAgree DEF SumOf

\* Nothing adds up to zero.
LEMMA SumEmpty == \A g : SumOf(g, {}) = 0
<1> SUFFICES ASSUME NEW g PROVE SumOf(g, {}) = 0
  OBVIOUS
<1>1. PICK f : IsFold(g, f, {}) /\ f = CHOOSE e : IsFold(g, e, {})
  BY FoldsExists, FS_EmptySet
<1>2. f[{}] = Body(g, f, {})
  BY <1>1 DEF IsFold
<1> QED BY <1>1, <1>2 DEF SumOf, Body

\* Equal values have equal sums.
LEMMA SumSame ==
  ASSUME NEW S, IsFiniteSet(S), NEW g, NEW h, \A x \in S : g[x] = h[x]
  PROVE  SumOf(g, S) = SumOf(h, S)
<1>1. PICK f : IsFold(g, f, S)
  BY FoldsExists
<1>2. \A x \in S : g[x] = g[x]
  OBVIOUS
<1>3. f[S] = SumOf(h, S)
  BY <1>1, SumIs
<1>4. f[S] = SumOf(g, S)
  BY <1>1, <1>2, SumIs
<1> QED BY <1>3, <1>4

\* The sum of a set that is not empty is one of its values and the sum of the rest.
LEMMA SumStep ==
  ASSUME NEW S, IsFiniteSet(S), S # {}, NEW g
  PROVE  \E x \in S : SumOf(g, S) = g[x] + SumOf(g, S \ {x})
<1>1. PICK f : IsFold(g, f, S)
  BY FoldsExists
<1>2. \A W \in SUBSET S : f[W] = SumOf(g, W)
  BY <1>1, SumIs
<1>3. PICK x \in S : x = CHOOSE y \in S : TRUE
  OBVIOUS
<1>4. f[S] = g[x] + f[S \ {x}]
  BY <1>1, <1>3 DEF IsFold, Body
<1>5. S \ {x} \in SUBSET S /\ S \in SUBSET S
  OBVIOUS
<1> QED BY <1>2, <1>3, <1>4, <1>5

\* The sum of numbers is a number, whatever is added first.
LEMMA SumType ==
  ASSUME NEW S, IsFiniteSet(S), NEW g, \A x \in S : g[x] \in Int
  PROVE  SumOf(g, S) \in Int
<1> DEFINE Bad == {s \in SUBSET S : SumOf(g, s) \notin Int}
<1>1. ASSUME Bad # {}
      PROVE  FALSE
  <2>1. PICK s \in Bad : \A t \in Bad : t \subseteq s => t = s
    <3>1. Bad \in SUBSET (SUBSET S)
      OBVIOUS
    <3> HIDE DEF Bad
    <3> QED BY <1>1, <3>1, SmallestSet
  <2>2. IsFiniteSet(s)
    BY FS_Subset
  <2>3. s # {}
    BY SumEmpty
  <2>4. PICK x \in s : SumOf(g, s) = g[x] + SumOf(g, s \ {x})
    BY <2>2, <2>3, SumStep
  <2>5. s \ {x} \notin Bad /\ s \ {x} \in SUBSET S
    BY <2>1
  <2>6. SumOf(g, s \ {x}) \in Int /\ g[x] \in Int
    BY <2>5
  <2> QED BY <2>4, <2>6
<1> QED BY <1>1

\* Any value can be taken out of a sum first.
LEMMA SumRemove ==
  ASSUME NEW S, IsFiniteSet(S), NEW g, \A x \in S : g[x] \in Int, NEW y \in S
  PROVE  SumOf(g, S) = g[y] + SumOf(g, S \ {y})
<1> DEFINE Bad == {s \in SUBSET S : \E z \in s : SumOf(g, s) # g[z] + SumOf(g, s \ {z})}
<1>1. ASSUME Bad # {}
      PROVE  FALSE
  <2>1. PICK s \in Bad : \A t \in Bad : t \subseteq s => t = s
    <3>1. Bad \in SUBSET (SUBSET S)
      OBVIOUS
    <3> HIDE DEF Bad
    <3> QED BY <1>1, <3>1, SmallestSet
  <2>2. PICK z \in s : SumOf(g, s) # g[z] + SumOf(g, s \ {z})
    OBVIOUS
  <2>3. IsFiniteSet(s) /\ s \in SUBSET S
    BY FS_Subset
  <2>4. PICK x \in s : SumOf(g, s) = g[x] + SumOf(g, s \ {x})
    BY <2>2, <2>3, SumStep
  <2>5. x # z
    BY <2>2, <2>4
  <2>6. /\ s \ {x} \notin Bad /\ s \ {z} \notin Bad
        /\ s \ {x} \in SUBSET S /\ s \ {z} \in SUBSET S
    BY <2>1, <2>3
  <2>7. SumOf(g, s \ {x}) = g[z] + SumOf(g, (s \ {x}) \ {z})
    BY <2>2, <2>5, <2>6
  <2>8. SumOf(g, s \ {z}) = g[x] + SumOf(g, (s \ {z}) \ {x})
    BY <2>4, <2>5, <2>6
  <2>9. (s \ {x}) \ {z} = (s \ {z}) \ {x}
    OBVIOUS
  <2>10. SumOf(g, (s \ {z}) \ {x}) \in Int
    <3>1. (s \ {z}) \ {x} \in SUBSET S
      BY <2>3
    <3>2. IsFiniteSet((s \ {z}) \ {x})
      BY <3>1, FS_Subset
    <3> QED BY <3>1, <3>2, SumType
  <2>11. g[x] \in Int /\ g[z] \in Int
    BY <2>2, <2>3, <2>4
  <2>12. PICK c \in Int : c = SumOf(g, (s \ {z}) \ {x})
    BY <2>10
  <2>13. SumOf(g, s) = g[x] + (g[z] + c) /\ SumOf(g, s \ {z}) = g[x] + c
    BY <2>4, <2>7, <2>8, <2>9, <2>12
  <2>14. g[x] + (g[z] + c) = g[z] + (g[x] + c)
    BY <2>11
  <2> QED BY <2>2, <2>13, <2>14
<1> QED BY <1>1

\* A new member adds its value to a sum.
LEMMA SumAdd ==
  ASSUME NEW S, IsFiniteSet(S), NEW g, NEW y, y \notin S, \A x \in S \cup {y} : g[x] \in Int
  PROVE  SumOf(g, S \cup {y}) = g[y] + SumOf(g, S)
<1>1. IsFiniteSet(S \cup {y}) /\ (S \cup {y}) \ {y} = S
  BY FS_AddElement
<1> QED BY <1>1, SumRemove

\* Zeros add up to zero.
LEMMA SumZero ==
  ASSUME NEW S, IsFiniteSet(S), NEW g, \A x \in S : g[x] = 0
  PROVE  SumOf(g, S) = 0
<1> DEFINE Bad == {s \in SUBSET S : SumOf(g, s) # 0}
<1>1. ASSUME Bad # {}
      PROVE  FALSE
  <2>1. PICK s \in Bad : \A t \in Bad : t \subseteq s => t = s
    <3>1. Bad \in SUBSET (SUBSET S)
      OBVIOUS
    <3> HIDE DEF Bad
    <3> QED BY <1>1, <3>1, SmallestSet
  <2>2. IsFiniteSet(s)
    BY FS_Subset
  <2>3. s # {}
    BY SumEmpty
  <2>4. PICK x \in s : SumOf(g, s) = g[x] + SumOf(g, s \ {x})
    BY <2>2, <2>3, SumStep
  <2>5. s \ {x} \notin Bad /\ s \ {x} \in SUBSET S
    BY <2>1
  <2>6. SumOf(g, s \ {x}) = 0 /\ g[x] = 0
    BY <2>5
  <2> QED BY <2>4, <2>6
<1> QED BY <1>1

\* One term changes.
LEMMA SumChanges ==
  ASSUME NEW S, IsFiniteSet(S), NEW g, NEW h, \A x \in S : g[x] \in Int /\ h[x] \in Int,
         NEW y \in S, \A x \in S \ {y} : g[x] = h[x]
  PROVE  SumOf(h, S) = SumOf(g, S) - g[y] + h[y]
<1>1. IsFiniteSet(S \ {y})
  BY FS_RemoveElement
<1>2. SumOf(h, S \ {y}) = SumOf(g, S \ {y})
  BY <1>1, SumSame
<1>3. /\ SumOf(g, S) = g[y] + SumOf(g, S \ {y})
      /\ SumOf(h, S) = h[y] + SumOf(h, S \ {y})
  BY SumRemove
<1>4. SumOf(g, S \ {y}) \in Int
  BY <1>1, SumType
<1> QED BY <1>2, <1>3, <1>4

-----------------------------------------------------------------------------
(* The sums of the books                                                   *)

\* What the aggregates of the database add up.
LEMMA AmountIs ==
  ASSUME NEW S, IsFiniteSet(S)
  PROVE  Amount(S) = SumOf([r \in S |-> r.amount], S)
<1>1. PICK g : g = [r \in S |-> r.amount]
  OBVIOUS
<1>2. PICK f : IsFold(g, f, S)
  BY FoldsExists
<1> DEFINE Adds(e) == e = [s \in SUBSET S |->
             IF s = {} THEN 0
             ELSE LET x == CHOOSE x \in s : TRUE IN x.amount + e[s \ {x}]]
<1>3. ASSUME NEW e
      PROVE  Adds(e) <=> IsFold(g, e, S)
  <2>1. ASSUME NEW s \in SUBSET S, s # {}
        PROVE  (CHOOSE x \in s : TRUE).amount = g[CHOOSE x \in s : TRUE]
    BY <1>1, <2>1
  <2>2. [s \in SUBSET S |-> IF s = {} THEN 0
                            ELSE LET x == CHOOSE x \in s : TRUE IN x.amount + e[s \ {x}]]
        = [s \in SUBSET S |-> Body(g, e, s)]
    BY <2>1 DEF Body
  <2> QED BY <2>2 DEF IsFold
<1>4. Amount(S) = (CHOOSE e : Adds(e))[S]
  BY DEF Amount, MapThenSumSet, MapThenFoldSet
<1>5. IsFold(g, CHOOSE e : Adds(e), S)
  <2> HIDE DEF Adds
  <2> QED BY <1>2, <1>3
<1>6. (CHOOSE e : Adds(e))[S] = SumOf(g, S)
  <2>1. \A x \in S : g[x] = g[x]
    OBVIOUS
  <2> HIDE DEF Adds
  <2> QED BY <1>5, <2>1, SumIs
<1> QED BY <1>1, <1>4, <1>6

\* A row that is added to rows of the books.
LEMMA AmountEmpty == Amount({}) = 0
  BY AmountIs, SumEmpty, FS_EmptySet

\* Rows of amounts have an amount together.
LEMMA AmountType ==
  ASSUME NEW S, IsFiniteSet(S), \A r \in S : r.amount \in Int
  PROVE  Amount(S) \in Int
<1>1. PICK g : g = [r \in S |-> r.amount]
  OBVIOUS
<1>2. SumOf(g, S) \in Int
  BY <1>1, SumType
<1> QED BY <1>1, <1>2, AmountIs

\* Another row adds its amount.
LEMMA AmountAdd ==
  ASSUME NEW S, IsFiniteSet(S), NEW y, y \notin S, \A r \in S \cup {y} : r.amount \in Int
  PROVE  Amount(S \cup {y}) = y.amount + Amount(S)
<1>1. PICK g : g = [r \in S \cup {y} |-> r.amount]
  OBVIOUS
<1>2. IsFiniteSet(S \cup {y})
  BY FS_AddElement
<1>3. Amount(S \cup {y}) = SumOf(g, S \cup {y})
  BY <1>1, <1>2, AmountIs
<1>4. Amount(S) = SumOf(g, S)
  <2>1. PICK h : h = [r \in S |-> r.amount]
    OBVIOUS
  <2>2. SumOf(h, S) = SumOf(g, S)
    BY <1>1, <2>1, SumSame
  <2> QED BY <2>1, <2>2, AmountIs
<1>5. SumOf(g, S \cup {y}) = g[y] + SumOf(g, S)
  BY <1>1, SumAdd
<1> QED BY <1>1, <1>3, <1>4, <1>5

\* The rows of a kind among them: with the new one, or as they were.
Some(S, T, P) == {r \in S : r.type \in T /\ r.professional \in P}

\* The rows of some types and professionals have an amount together.
LEMMA SomeType ==
  ASSUME NEW S, IsFiniteSet(S), S \subseteq Entry, NEW T, NEW P
  PROVE  Amount(Some(S, T, P)) \in Int
<1>1. IsFiniteSet(Some(S, T, P)) /\ \A r \in Some(S, T, P) : r.amount \in Int
  BY FS_Subset DEF Some, Entry
<1> QED BY <1>1, AmountType

\* Another row adds its amount where it is of these types and professionals.
LEMMA AmountOfSome ==
  ASSUME NEW S, IsFiniteSet(S), S \subseteq Entry, NEW y \in Entry, y \notin S, NEW T, NEW P
  PROVE  Amount(Some(S \cup {y}, T, P)) =
           Amount(Some(S, T, P)) + IF y.type \in T /\ y.professional \in P THEN y.amount ELSE 0
<1> DEFINE A == Some(S, T, P)
           B == Some(S \cup {y}, T, P)
<1>1. IsFiniteSet(A) /\ A \subseteq Entry /\ y \notin A
  BY FS_Subset DEF Some
<1>2. \A r \in A \cup {y} : r.amount \in Int
  BY <1>1 DEF Entry
<1>3. Amount(A) \in Int
  BY SomeType
<1>4. CASE y.type \in T /\ y.professional \in P
  <2>1. B = A \cup {y}
    BY <1>4 DEF Some
  <2>2. Amount(A \cup {y}) = y.amount + Amount(A)
    <3> HIDE DEF A
    <3> QED BY <1>1, <1>2, AmountAdd
  <2>3. y.amount \in Int
    BY <1>2
  <2>4. Amount(B) = Amount(A) + y.amount
    <3> HIDE DEF A, B
    <3> QED BY <1>3, <2>1, <2>2, <2>3
  <2>5. (IF y.type \in T /\ y.professional \in P THEN y.amount ELSE 0) = y.amount
    BY <1>4
  <2> QED BY <2>4, <2>5
<1>5. CASE ~ (y.type \in T /\ y.professional \in P)
  <2>1. B = A
    BY <1>5 DEF Some
  <2>2. Amount(B) = Amount(A) + 0
    <3> HIDE DEF A, B
    <3> QED BY <1>3, <2>1
  <2>3. (IF y.type \in T /\ y.professional \in P THEN y.amount ELSE 0) = 0
    BY <1>5
  <2> QED BY <2>2, <2>3
<1> QED BY <1>4, <1>5

\* The three sums of the books, over any rows.
PlatformRows == {"PLATFORM_COMMISSION", "CASH_COMMISSION_DEBT"}
PaidRows == {"CUSTOMER_CHARGE", "CUSTOMER_CANCELLATION_FEE"}
OfTypes(S, T) == {r \in S : r.type \in T}
Platform(S) == Amount(OfTypes(S, PlatformRows))
Paid(S) == Amount(OfTypes(S, PaidRows))
Balances(S) == MapThenSumSet(LAMBDA p : Balance(S, p), Professionals)
Books(S) == Platform(S) + Balances(S) + Paid(S)

\* What a row is worth in all of them together: a debt is the platform's and is
\* taken from a balance, a refund is in none.
Worth(r) == IF r.type \in {"CASH_COMMISSION_DEBT", "REFUND"} THEN 0 ELSE r.amount

\* Another row adds its amount where it is of these types.
LEMMA TypesOfRows ==
  ASSUME NEW S, IsFiniteSet(S), S \subseteq Entry, NEW y \in Entry, y \notin S, NEW T
  PROVE  /\ Amount(OfTypes(S, T)) \in Int
         /\ Amount(OfTypes(S \cup {y}, T)) = Amount(OfTypes(S, T)) + IF y.type \in T THEN y.amount ELSE 0
<1>1. PICK Q : Q = Professionals \cup {Nil}
  OBVIOUS
<1>2. /\ Some(S, T, Q) = OfTypes(S, T)
      /\ Some(S \cup {y}, T, Q) = OfTypes(S \cup {y}, T)
      /\ y.professional \in Q
  BY <1>1 DEF Entry, Some, OfTypes
<1>3. Amount(Some(S, T, Q)) \in Int
  BY SomeType
<1>4. Amount(Some(S \cup {y}, T, Q))
        = Amount(Some(S, T, Q)) + IF y.type \in T /\ y.professional \in Q THEN y.amount ELSE 0
  BY AmountOfSome, SMTT(30)
<1> QED BY <1>2, <1>3, <1>4

\* Both sums of a balance, and the balance, are numbers.
LEMMA PartsType ==
  ASSUME NEW S, IsFiniteSet(S), S \subseteq Entry, NEW p
  PROVE  /\ Credited(S, p) \in Int /\ SumCashCommissionDebt(S, p) \in Int /\ Balance(S, p) \in Int
<1>1. ASSUME NEW t
      PROVE  Amount(OfType(S, t, p)) \in Int
  <2>1. OfType(S, t, p) = Some(S, {t}, {p})
    BY DEF OfType, Some
  <2>2. Amount(Some(S, {t}, {p})) \in Int
    BY SomeType
  <2> QED BY <2>1, <2>2
<1>2. Credited(S, p) \in Int /\ SumCashCommissionDebt(S, p) \in Int
  BY <1>1 DEF Credited, SumCashCommissionDebt
<1> QED BY <1>2 DEF Balance

\* A row changes the balance of its professional alone: by its credit, or by its debt.
LEMMA BalanceAdd ==
  ASSUME NEW S, IsFiniteSet(S), S \subseteq Entry, NEW y \in Entry, y \notin S, NEW p
  PROVE  /\ y.professional # p \/ y.type \notin {"PROFESSIONAL_NET_CREDIT", "CASH_COMMISSION_DEBT"} =>
              Balance(S \cup {y}, p) = Balance(S, p)
         /\ y.professional = p /\ y.type = "PROFESSIONAL_NET_CREDIT" =>
              Balance(S \cup {y}, p) = Balance(S, p) + y.amount
         /\ y.professional = p /\ y.type = "CASH_COMMISSION_DEBT" =>
              Balance(S \cup {y}, p) = Balance(S, p) - y.amount
<1>1. ASSUME NEW t
      PROVE  Amount(OfType(S \cup {y}, t, p)) = Amount(OfType(S, t, p))
               + IF y.type = t /\ y.professional = p THEN y.amount ELSE 0
  <2>1. /\ OfType(S, t, p) = Some(S, {t}, {p})
        /\ OfType(S \cup {y}, t, p) = Some(S \cup {y}, {t}, {p})
    BY DEF OfType, Some
  <2>2. Amount(Some(S \cup {y}, {t}, {p}))
          = Amount(Some(S, {t}, {p}))
            + IF y.type \in {t} /\ y.professional \in {p} THEN y.amount ELSE 0
    BY AmountOfSome
  <2>3. (y.type \in {t} /\ y.professional \in {p}) <=> (y.type = t /\ y.professional = p)
    OBVIOUS
  <2> QED BY <2>1, <2>2, <2>3
<1>2. y.amount \in Int /\ "PROFESSIONAL_NET_CREDIT" # "CASH_COMMISSION_DEBT"
  BY DEF Entry
<1>3. Credited(S, p) \in Int /\ SumCashCommissionDebt(S, p) \in Int
  BY PartsType
<1>4. Credited(S \cup {y}, p) = Credited(S, p)
        + IF y.type = "PROFESSIONAL_NET_CREDIT" /\ y.professional = p THEN y.amount ELSE 0
  BY <1>1 DEF Credited
<1>5. SumCashCommissionDebt(S \cup {y}, p) = SumCashCommissionDebt(S, p)
        + IF y.type = "CASH_COMMISSION_DEBT" /\ y.professional = p THEN y.amount ELSE 0
  BY <1>1 DEF SumCashCommissionDebt
<1> QED BY <1>2, <1>3, <1>4, <1>5 DEF Balance

\* All balances together are the sum over the professionals.
LEMMA BalancesAre ==
  ASSUME NEW S, IsFiniteSet(Professionals)
  PROVE  Balances(S) = SumOf([p \in Professionals |-> Balance(S, p)], Professionals)
<1>1. PICK g : g = [p \in Professionals |-> Balance(S, p)]
  OBVIOUS
<1>2. PICK f : IsFold(g, f, Professionals)
  BY FoldsExists
<1> DEFINE Adds(e) == e = [s \in SUBSET Professionals |->
             IF s = {} THEN 0
             ELSE LET x == CHOOSE x \in s : TRUE IN Balance(S, x) + e[s \ {x}]]
<1>3. ASSUME NEW e
      PROVE  Adds(e) <=> IsFold(g, e, Professionals)
  <2>1. ASSUME NEW s \in SUBSET Professionals, s # {}
        PROVE  Balance(S, CHOOSE x \in s : TRUE) = g[CHOOSE x \in s : TRUE]
    BY <1>1, <2>1
  <2>2. [s \in SUBSET Professionals |->
             IF s = {} THEN 0
             ELSE LET x == CHOOSE x \in s : TRUE IN Balance(S, x) + e[s \ {x}]]
        = [s \in SUBSET Professionals |-> Body(g, e, s)]
    BY <2>1 DEF Body
  <2> QED BY <2>2 DEF IsFold
<1>4. Balances(S) = (CHOOSE e : Adds(e))[Professionals]
  BY DEF Balances, MapThenSumSet, MapThenFoldSet
<1>5. IsFold(g, CHOOSE e : Adds(e), Professionals)
  <2> HIDE DEF Adds
  <2> QED BY <1>2, <1>3
<1>6. (CHOOSE e : Adds(e))[Professionals] = SumOf(g, Professionals)
  <2>1. \A x \in Professionals : g[x] = g[x]
    OBVIOUS
  <2> HIDE DEF Adds
  <2> QED BY <1>5, <2>1, SumIs
<1> QED BY <1>1, <1>4, <1>6

\* The books with one row more.
LEMMA BalancesAdd ==
  ASSUME NEW S, IsFiniteSet(S), S \subseteq Entry, NEW y \in Entry, y \notin S,
         y.type # "REFUND" => y.professional \in Professionals
  PROVE  /\ Balances(S) \in Int
         /\ Balances(S \cup {y}) = Balances(S) +
              (IF y.type = "PROFESSIONAL_NET_CREDIT" THEN y.amount
               ELSE IF y.type = "CASH_COMMISSION_DEBT" THEN - y.amount ELSE 0)
<1>1. PICK g : g = [p \in Professionals |-> Balance(S, p)]
  OBVIOUS
<1>2. PICK h : h = [p \in Professionals |-> Balance(S \cup {y}, p)]
  OBVIOUS
<1>3. IsFiniteSet(Professionals)
  BY LedgerAssumption
<1>4. Balances(S) = SumOf(g, Professionals) /\ Balances(S \cup {y}) = SumOf(h, Professionals)
  BY <1>1, <1>2, <1>3, BalancesAre
<1>5. IsFiniteSet(S \cup {y}) /\ S \cup {y} \subseteq Entry
  BY FS_AddElement
<1>6. \A p \in Professionals : g[p] \in Int /\ h[p] \in Int
  <2>1. SUFFICES ASSUME NEW p \in Professionals PROVE g[p] \in Int /\ h[p] \in Int
    OBVIOUS
  <2>2. Balance(S, p) \in Int
    BY PartsType
  <2>3. Balance(S \cup {y}, p) \in Int
    BY <1>5, PartsType
  <2> QED BY <1>1, <1>2, <2>2, <2>3
<1>7. SumOf(g, Professionals) \in Int
  BY <1>3, <1>6, SumType
<1>8. y.amount \in Int
  BY DEF Entry
<1>9. CASE y.type \in {"PROFESSIONAL_NET_CREDIT", "CASH_COMMISSION_DEBT"}
  <2>1. PICK q \in Professionals : q = y.professional
    BY <1>9
  <2>2. \A p \in Professionals \ {q} : g[p] = h[p]
    <3>1. SUFFICES ASSUME NEW p \in Professionals \ {q} PROVE g[p] = h[p]
      OBVIOUS
    <3>2. y.professional # p
      BY <2>1
    <3>3. Balance(S \cup {y}, p) = Balance(S, p)
      BY <3>2, BalanceAdd
    <3> QED BY <1>1, <1>2, <3>3
  <2>3. SumOf(h, Professionals) = SumOf(g, Professionals) - g[q] + h[q]
    BY <1>3, <1>6, <2>2, SumChanges
  <2>4. g[q] = Balance(S, q) /\ h[q] = Balance(S \cup {y}, q) /\ g[q] \in Int
    BY <1>1, <1>2, <1>6
  <2>5. CASE y.type = "PROFESSIONAL_NET_CREDIT"
    <3>1. h[q] = g[q] + y.amount
      BY <2>1, <2>4, <2>5, BalanceAdd
    <3> QED BY <1>4, <1>7, <1>8, <2>3, <2>4, <2>5, <3>1
  <2>6. CASE y.type = "CASH_COMMISSION_DEBT"
    <3>1. h[q] = g[q] - y.amount
      BY <2>1, <2>4, <2>6, BalanceAdd
    <3> QED BY <1>4, <1>7, <1>8, <2>3, <2>4, <2>6, <3>1
  <2> QED BY <1>9, <2>5, <2>6
<1>10. CASE y.type \notin {"PROFESSIONAL_NET_CREDIT", "CASH_COMMISSION_DEBT"}
  <2>1. \A p \in Professionals : g[p] = h[p]
    <3>1. SUFFICES ASSUME NEW p \in Professionals PROVE g[p] = h[p]
      OBVIOUS
    <3>2. Balance(S \cup {y}, p) = Balance(S, p)
      BY <1>10, BalanceAdd
    <3> QED BY <1>1, <1>2, <3>2
  <2>2. SumOf(g, Professionals) = SumOf(h, Professionals)
    BY <1>3, <2>1, SumSame
  <2> QED BY <1>4, <1>7, <1>10, <2>2
<1> QED BY <1>9, <1>10

\* A row changes what is in the books by what it is worth.
LEMMA AddRow ==
  ASSUME NEW S, IsFiniteSet(S), S \subseteq Entry, NEW y \in Entry, y \notin S,
         y.type # "REFUND" => y.professional \in Professionals
  PROVE  Books(S) \in Int /\ Books(S \cup {y}) = Books(S) + Worth(y)
<1>1. Platform(S) \in Int /\ Platform(S \cup {y}) = Platform(S) + IF y.type \in PlatformRows THEN y.amount ELSE 0
  BY TypesOfRows DEF Platform
<1>2. Paid(S) \in Int /\ Paid(S \cup {y}) = Paid(S) + IF y.type \in PaidRows THEN y.amount ELSE 0
  BY TypesOfRows DEF Paid
<1>3. /\ Balances(S) \in Int
      /\ Balances(S \cup {y}) = Balances(S) +
              (IF y.type = "PROFESSIONAL_NET_CREDIT" THEN y.amount
               ELSE IF y.type = "CASH_COMMISSION_DEBT" THEN - y.amount ELSE 0)
  BY BalancesAdd
<1>4. y.amount \in Int /\ y.type \in Types
  BY DEF Entry
<1>5. PICK a \in Int : a = IF y.type \in PlatformRows THEN y.amount ELSE 0
  BY <1>4
<1>6. PICK b \in Int : b = IF y.type = "PROFESSIONAL_NET_CREDIT" THEN y.amount
                         ELSE IF y.type = "CASH_COMMISSION_DEBT" THEN - y.amount ELSE 0
  BY <1>4
<1>7. PICK c \in Int : c = IF y.type \in PaidRows THEN y.amount ELSE 0
  BY <1>4
<1>8. Worth(y) = a + b + c
  <2>1. CASE y.type \in {"CUSTOMER_CHARGE", "CUSTOMER_CANCELLATION_FEE"}
    <3>1. a = 0 /\ b = 0 /\ c = y.amount /\ Worth(y) = y.amount
      BY <2>1, <1>5, <1>6, <1>7 DEF Worth, PlatformRows, PaidRows
    <3> QED BY <1>4, <3>1
  <2>2. CASE y.type = "PLATFORM_COMMISSION"
    <3>1. a = y.amount /\ b = 0 /\ c = 0 /\ Worth(y) = y.amount
      BY <2>2, <1>5, <1>6, <1>7 DEF Worth, PlatformRows, PaidRows
    <3> QED BY <1>4, <3>1
  <2>3. CASE y.type = "PROFESSIONAL_NET_CREDIT"
    <3>1. a = 0 /\ b = y.amount /\ c = 0 /\ Worth(y) = y.amount
      BY <2>3, <1>5, <1>6, <1>7 DEF Worth, PlatformRows, PaidRows
    <3> QED BY <1>4, <3>1
  <2>4. CASE y.type = "REFUND"
    <3>1. a = 0 /\ b = 0 /\ c = 0 /\ Worth(y) = 0
      BY <2>4, <1>5, <1>6, <1>7 DEF Worth, PlatformRows, PaidRows
    <3> QED BY <3>1
  <2>5. CASE y.type = "CASH_COMMISSION_DEBT"
    <3>1. a = y.amount /\ b = - y.amount /\ c = 0 /\ Worth(y) = 0
      BY <2>5, <1>5, <1>6, <1>7 DEF Worth, PlatformRows, PaidRows
    <3> QED BY <1>4, <3>1
  <2> QED BY <1>4, <2>1, <2>2, <2>3, <2>4, <2>5 DEF Types
<1>9. Platform(S \cup {y}) = Platform(S) + a
  BY <1>1, <1>5
<1>13. Paid(S \cup {y}) = Paid(S) + c
  BY <1>2, <1>7
<1>14. Balances(S \cup {y}) = Balances(S) + b
  BY <1>3, <1>6
<1>10. Platform(S) \in Int /\ Balances(S) \in Int /\ Paid(S) \in Int
  BY <1>1, <1>2, <1>3
<1>11. Books(S) = Platform(S) + Balances(S) + Paid(S)
  BY DEF Books
<1>12. Books(S \cup {y}) = (Platform(S) + a) + (Balances(S) + b) + (Paid(S) + c)
  BY <1>9, <1>13, <1>14 DEF Books
<1> QED BY <1>8, <1>10, <1>11, <1>12

-----------------------------------------------------------------------------
(* The inductive invariant.  An event of an Engagement was written whole,  *)
(* or not at all; it was not written yet when the payment or the           *)
(* cancellation that writes it can still happen; and what a balance was    *)
(* added up from are rows of the books as they were, with whole events.    *)

EventRows(e, k) == {r \in RowsOf(e) : r.by = k}

IsRow(r, type) == r.type = type /\ (type # "REFUND" => r.professional \in Professionals)

\* A charge or a fee: the three rows add up.
IsSplit(R, type) == \E a, b, c \in R :
  /\ R = {a, b, c}
  /\ IsRow(a, type) /\ IsRow(b, "PLATFORM_COMMISSION") /\ IsRow(c, "PROFESSIONAL_NET_CREDIT")
  /\ type = "CUSTOMER_CHARGE" => - a.amount \in Nat
  /\ a.amount + b.amount + c.amount = 0
  /\ a.at = b.at /\ b.at = c.at

Whole(R, k) ==
  CASE k = "DIGITAL_PAYMENT" -> IsSplit(R, "CUSTOMER_CHARGE")
    [] k = "CUSTOMER_CANCELLATION" -> IsSplit(R, "CUSTOMER_CANCELLATION_FEE")
    [] k = "PROFESSIONAL_CANCELLATION" -> \E a \in R : R = {a} /\ IsRow(a, "REFUND") /\ a.amount \in Nat \ {0}
    [] OTHER -> \E a \in R : R = {a} /\ IsRow(a, "CASH_COMMISSION_DEBT")

LedgerTyped ==
  /\ job \in [Engagements -> Job]
  /\ commission \in Percents \cup {Nil}
  /\ ledger \subseteq Entry /\ IsFiniteSet(ledger)
  /\ now \in 0..MaxNow /\ changes \in 0..MaxChanges
  /\ booking \in [Bookers -> Booking]

EventsAreWhole ==
  \A e \in Engagements, k \in EventKinds : EventRows(e, k) = {} \/ Whole(EventRows(e, k), k)

NotWrittenYet == \A e \in Engagements :
  /\ job[e].paid = "NO" => EventRows(e, "DIGITAL_PAYMENT") = {} /\ EventRows(e, "CASH_PAYMENT") = {}
  /\ job[e].status # "CANCELLED" =>
       EventRows(e, "CUSTOMER_CANCELLATION") = {} /\ EventRows(e, "PROFESSIONAL_CANCELLATION") = {}

HandlersRead == \A r \in Bookers :
  booking[r].pc \in {"cash", "byCustomer", "byProfessional"} =>
    booking[r].e \in Engagements /\ booking[r].price \in Prices

\* A balance that is being added up, after the first sum and after both.
Follows(h, rows) ==
  /\ h.pc \in {"credits", "debts", "balance"} => h.before \subseteq rows /\ IsWhole(h.before, rows)
  /\ h.pc = "debts" => h.sum = Credited(h.before, h.p)
  /\ h.pc = "credits" => h.sum = SumCashCommissionDebt(h.before, h.p)
  /\ h.pc = "balance" =>
       /\ h.before \subseteq h.after /\ h.after \subseteq rows
       /\ \/ h.sum = Credited(h.before, h.p) - SumCashCommissionDebt(h.after, h.p)
          \/ h.sum = Credited(h.after, h.p) - SumCashCommissionDebt(h.before, h.p)
BalanceIsFollowed == \A r \in Bookers : Follows(booking[r], ledger)

LedgerInv == /\ LedgerTyped /\ EventsAreWhole /\ NotWrittenYet /\ HandlersRead
             /\ Books(ledger) = 0 /\ BalanceIsFollowed

\* Rows that can be written now: one event of an Engagement that has none of its kind.
CanBeWritten(e, k, R) ==
  /\ e \in Engagements /\ k \in EventKinds
  /\ R \subseteq Entry /\ Whole(R, k)
  /\ \A r \in R : r.e = e /\ r.by = k
  /\ EventRows(e, k) = {}

\* A whole event is worth nothing.
LEMMA WholeIsWorthNothing ==
  ASSUME NEW S, IsFiniteSet(S), S \subseteq Entry, NEW R, R \subseteq Entry, NEW k \in EventKinds, Whole(R, k),
         S \cap R = {}
  PROVE  IsFiniteSet(S \cup R) /\ Books(S \cup R) = Books(S)
<1>1. ASSUME NEW type \in {"CUSTOMER_CHARGE", "CUSTOMER_CANCELLATION_FEE"}, IsSplit(R, type)
      PROVE  IsFiniteSet(S \cup R) /\ Books(S \cup R) = Books(S)
  <2>1. PICK a, b, c \in R :
          /\ R = {a, b, c}
          /\ IsRow(a, type) /\ IsRow(b, "PLATFORM_COMMISSION") /\ IsRow(c, "PROFESSIONAL_NET_CREDIT")
          /\ a.amount + b.amount + c.amount = 0
    BY <1>1 DEF IsSplit
  <2>2. a \in Entry /\ b \in Entry /\ c \in Entry /\ a # b /\ b # c /\ a # c
    BY <2>1 DEF IsRow
  <2>3. PICK S1 : S1 = S \cup {a}
    OBVIOUS
  <2>4. PICK S2 : S2 = S1 \cup {b}
    OBVIOUS
  <2>5. /\ a \notin S /\ b \notin S1 /\ c \notin S2
        /\ S \cup R = S2 \cup {c} /\ S1 \subseteq Entry /\ S2 \subseteq Entry
    BY <2>1, <2>2, <2>3, <2>4
  <2>6. IsFiniteSet(S1) /\ IsFiniteSet(S2) /\ IsFiniteSet(S \cup R)
    <3>1. IsFiniteSet(S1)
      BY <2>3, FS_AddElement
    <3>2. IsFiniteSet(S2)
      BY <2>4, <3>1, FS_AddElement
    <3> QED BY <2>5, <3>1, <3>2, FS_AddElement
  <2>7. /\ a.type # "REFUND" /\ a.professional \in Professionals
        /\ b.type # "REFUND" /\ b.professional \in Professionals
        /\ c.type # "REFUND" /\ c.professional \in Professionals
    BY <2>1 DEF IsRow
  <2>8. Books(S) \in Int /\ Books(S1) = Books(S) + Worth(a)
    BY <2>2, <2>3, <2>5, <2>7, AddRow
  <2>9. Books(S1) \in Int /\ Books(S2) = Books(S1) + Worth(b)
    BY <2>2, <2>4, <2>5, <2>6, <2>7, AddRow
  <2>10. Books(S2) \in Int /\ Books(S \cup R) = Books(S2) + Worth(c)
    BY <2>2, <2>5, <2>6, <2>7, AddRow
  <2>11. Worth(a) = a.amount /\ Worth(b) = b.amount /\ Worth(c) = c.amount
    BY <2>1 DEF Worth, IsRow
  <2>12. a.amount \in Int /\ b.amount \in Int /\ c.amount \in Int
    BY <2>2 DEF Entry
  <2> QED BY <2>1, <2>6, <2>8, <2>9, <2>10, <2>11, <2>12
<1>2. ASSUME NEW type \in {"REFUND", "CASH_COMMISSION_DEBT"}, NEW a \in R, R = {a}, IsRow(a, type)
      PROVE  IsFiniteSet(S \cup R) /\ Books(S \cup R) = Books(S)
  <2>1. a \in Entry /\ a \notin S /\ S \cup R = S \cup {a}
    BY <1>2
  <2>2. a.type # "REFUND" => a.professional \in Professionals
    BY <1>2 DEF IsRow
  <2>3. Books(S) \in Int /\ Books(S \cup {a}) = Books(S) + Worth(a)
    BY <2>1, <2>2, AddRow
  <2>4. Worth(a) = 0
    BY <1>2 DEF Worth, IsRow
  <2>5. IsFiniteSet(S \cup {a})
    BY FS_AddElement
  <2>6. Books(S \cup {a}) = Books(S)
    BY <2>3, <2>4
  <2> QED BY <2>1, <2>5, <2>6
<1>3. CASE k = "DIGITAL_PAYMENT"
  BY <1>1, <1>3 DEF Whole
<1>4. CASE k = "CUSTOMER_CANCELLATION"
  <2>1. IsSplit(R, "CUSTOMER_CANCELLATION_FEE")
    BY <1>4 DEF Whole
  <2> QED BY <1>1, <2>1
<1>5. CASE k = "PROFESSIONAL_CANCELLATION"
  <2>1. PICK a \in R : R = {a} /\ IsRow(a, "REFUND")
    BY <1>5 DEF Whole
  <2> QED BY <1>2, <2>1
<1>6. CASE k = "CASH_PAYMENT"
  <2>1. PICK a \in R : R = {a} /\ IsRow(a, "CASH_COMMISSION_DEBT")
    BY <1>6 DEF Whole
  <2> QED BY <1>2, <2>1
<1> QED BY <1>3, <1>4, <1>5, <1>6 DEF EventKinds

\* The rows of the other events stay, those of this one are now there.
LEMMA WrittenWhole ==
  ASSUME LedgerInv, NEW e, NEW k, NEW R, CanBeWritten(e, k, R), ledger' = ledger \cup R
  PROVE  /\ ledger' \subseteq Entry /\ IsFiniteSet(ledger')
         /\ Books(ledger') = 0
         /\ EventsAreWhole'
         /\ \A f \in Engagements, j \in EventKinds : f # e \/ j # k => EventRows(f, j)' = EventRows(f, j)
<1>1. ledger \cap R = {}
  BY DEF CanBeWritten, EventRows, RowsOf
<1>2. IsFiniteSet(ledger \cup R) /\ Books(ledger \cup R) = Books(ledger)
  BY <1>1, WholeIsWorthNothing DEF CanBeWritten, LedgerInv, LedgerTyped
<1>3. EventRows(e, k)' = R
  BY <1>1 DEF CanBeWritten, EventRows, RowsOf
<1>4. \A f \in Engagements, j \in EventKinds : f # e \/ j # k => EventRows(f, j)' = EventRows(f, j)
  BY DEF CanBeWritten, EventRows, RowsOf
<1>5. EventsAreWhole'
  <2>1. SUFFICES ASSUME NEW f \in Engagements, NEW j \in EventKinds
                 PROVE  EventRows(f, j)' = {} \/ Whole(EventRows(f, j)', j)
    BY DEF EventsAreWhole
  <2>2. CASE f = e /\ j = k
    BY <1>3, <2>2 DEF CanBeWritten
  <2>3. CASE f # e \/ j # k
    BY <1>4, <2>3 DEF LedgerInv, EventsAreWhole
  <2> QED BY <2>2, <2>3
<1>6. ledger' \subseteq Entry
  BY DEF CanBeWritten, LedgerInv, LedgerTyped
<1> QED BY <1>2, <1>4, <1>5, <1>6 DEF LedgerInv

\* A handler with nothing in hand.
LEMMA IdleBooking == NotBooking \in Booking
  BY DEF NotBooking, Booking, BookingPcs

\* What was read of the books stays in them through a transaction, and no event of
\* it gets another row; each handler is where it was, or done.
LEMMA RecordFollows ==
  ASSUME LedgerInv, NEW R, NEW rest, Record(R, rest),
         \A x \in R, y \in ledger : x.e # y.e \/ x.by # y.by,
         rest \in [Bookers -> Booking], \A r \in Bookers : rest[r] = booking[r] \/ rest[r] = NotBooking
  PROVE  /\ booking' \in [Bookers -> Booking]
         /\ HandlersRead' /\ BalanceIsFollowed'
<1>1. ledger' = ledger \cup R /\ booking' = rest
  BY DEF Record
<1>2. HandlersRead'
  <2>1. SUFFICES ASSUME NEW r \in Bookers, booking'[r].pc \in {"cash", "byCustomer", "byProfessional"}
                 PROVE  booking'[r].e \in Engagements /\ booking'[r].price \in Prices
    BY DEF HandlersRead
  <2>2. booking'[r] = booking[r]
    BY <1>1, <2>1 DEF NotBooking
  <2> QED BY <2>1, <2>2 DEF LedgerInv, HandlersRead
<1>3. BalanceIsFollowed'
  <2>1. SUFFICES ASSUME NEW r \in Bookers, NEW h, h = booking'[r]
                 PROVE  Follows(h, ledger')
    BY DEF BalanceIsFollowed
  <2>2. CASE h.pc \notin {"credits", "debts", "balance"}
    BY <2>2 DEF Follows
  <2>3. CASE h.pc \in {"credits", "debts", "balance"}
    <3>1. h = booking[r]
      BY <1>1, <2>1, <2>3 DEF NotBooking
    <3>2. Follows(h, ledger)
      BY <3>1 DEF LedgerInv, BalanceIsFollowed
    <3>3. h.before \subseteq ledger /\ IsWhole(h.before, ledger)
      BY <2>3, <3>2 DEF Follows
    <3>4. h.before \subseteq ledger' /\ IsWhole(h.before, ledger')
      BY <1>1, <3>3 DEF IsWhole
    <3> QED BY <1>1, <3>2, <3>4 DEF Follows
  <2> QED BY <2>2, <2>3
<1> QED BY <1>1, <1>2, <1>3

-----------------------------------------------------------------------------
(* The steps keep the invariant                                            *)

\* A percentage of an amount is one, or a credit of one.
LEMMA PercentType ==
  ASSUME NEW amount \in Int, NEW percent \in Int
  PROVE  Percent(amount, percent) \in Int
<1>1. amount * percent \in Int
  OBVIOUS
<1>2. 2 * amount * percent + 100 \in Int
  BY <1>1
<1> QED BY <1>2 DEF Percent

\* The rows of a charge or a fee are one whole event.
LEMMA SplitIsWhole ==
  ASSUME LedgerTyped, NEW e \in Engagements, NEW amount \in Int, NEW t, Stamp(t), commission # Nil,
         NEW k \in EventKinds, NEW type, type = "CUSTOMER_CHARGE" => amount \in Nat,
         <<k, type>> \in {<<"DIGITAL_PAYMENT", "CUSTOMER_CHARGE">>,
                          <<"CUSTOMER_CANCELLATION", "CUSTOMER_CANCELLATION_FEE">>}
  PROVE  /\ Split(e, type, amount, t, k) \subseteq Entry
         /\ Whole(Split(e, type, amount, t, k), k)
         /\ \A r \in Split(e, type, amount, t, k) : r.e = e /\ r.by = k
<1>1. PICK fee : fee = Percent(amount, commission)
  OBVIOUS
<1>2. fee \in Int
  <2>1. commission \in Int
    BY LedgerAssumption DEF LedgerTyped
  <2> QED BY <1>1, <2>1, PercentType
<1>3. PICK a : a = EntryOf(e, type, - amount, t, k)
  OBVIOUS
<1>4. PICK b : b = EntryOf(e, "PLATFORM_COMMISSION", fee, t, k)
  OBVIOUS
<1>5. PICK c : c = EntryOf(e, "PROFESSIONAL_NET_CREDIT", amount - fee, t, k)
  OBVIOUS
<1>6. Split(e, type, amount, t, k) = {a, b, c}
  BY <1>1, <1>3, <1>4, <1>5 DEF Split, Net
<1>7. t \in 0..MaxNow
  BY LedgerAssumption DEF Stamp, LedgerTyped
<1>8. job[e].professional \in Professionals
  BY DEF LedgerTyped, Job
<1>9. type \in {"CUSTOMER_CHARGE", "CUSTOMER_CANCELLATION_FEE"}
  OBVIOUS
<1>10. /\ a = [type |-> type, e |-> e, professional |-> job[e].professional, amount |-> - amount, at |-> t, by |-> k]
       /\ b = [type |-> "PLATFORM_COMMISSION", e |-> e, professional |-> job[e].professional, amount |-> fee,
               at |-> t, by |-> k]
       /\ c = [type |-> "PROFESSIONAL_NET_CREDIT", e |-> e, professional |-> job[e].professional,
               amount |-> amount - fee, at |-> t, by |-> k]
  BY <1>3, <1>4, <1>5, <1>9 DEF EntryOf
<1>11. a \in Entry /\ b \in Entry /\ c \in Entry
  BY <1>2, <1>7, <1>8, <1>9, <1>10 DEF Entry, Types
<1>12. IsSplit({a, b, c}, type)
  <2>1. IsRow(a, type) /\ IsRow(b, "PLATFORM_COMMISSION") /\ IsRow(c, "PROFESSIONAL_NET_CREDIT")
    BY <1>8, <1>10 DEF IsRow
  <2>2. (type = "CUSTOMER_CHARGE" => - a.amount \in Nat) /\ a.amount + b.amount + c.amount = 0
    BY <1>2, <1>10
  <2>3. a.at = b.at /\ b.at = c.at
    BY <1>10
  <2> QED BY <2>1, <2>2, <2>3 DEF IsSplit
<1>13. Whole({a, b, c}, k)
  <2>1. CASE k = "DIGITAL_PAYMENT"
    BY <1>12, <2>1 DEF Whole
  <2>2. CASE k = "CUSTOMER_CANCELLATION"
    BY <1>12, <2>2 DEF Whole
  <2> QED BY <2>1, <2>2
<1>14. \A r \in {a, b, c} : r.e = e /\ r.by = k
  BY <1>10
<1> QED BY <1>6, <1>11, <1>13, <1>14

\* A cash debt, and a refund, are events of a single row.
LEMMA OneRowIsWhole ==
  ASSUME LedgerTyped, NEW e \in Engagements, NEW amount \in Int, NEW t, Stamp(t),
         NEW k \in EventKinds, NEW type,
         \/ k = "CASH_PAYMENT" /\ type = "CASH_COMMISSION_DEBT"
         \/ k = "PROFESSIONAL_CANCELLATION" /\ type = "REFUND" /\ amount \in Nat \ {0}
  PROVE  /\ {EntryOf(e, type, amount, t, k)} \subseteq Entry
         /\ Whole({EntryOf(e, type, amount, t, k)}, k)
         /\ \A r \in {EntryOf(e, type, amount, t, k)} : r.e = e /\ r.by = k
<1>1. PICK a : a = EntryOf(e, type, amount, t, k)
  OBVIOUS
<1>2. t \in 0..MaxNow
  BY LedgerAssumption DEF Stamp, LedgerTyped
<1>3. job[e].professional \in Professionals
  BY DEF LedgerTyped, Job
<1>4. a = [type |-> type, e |-> e, professional |-> IF type = "REFUND" THEN Nil ELSE job[e].professional,
           amount |-> amount, at |-> t, by |-> k]
  BY <1>1 DEF EntryOf
<1>5. a \in Entry
  BY <1>2, <1>3, <1>4 DEF Entry, Types
<1>6. Whole({a}, k)
  <2>1. CASE k = "CASH_PAYMENT"
    BY <1>3, <1>4, <2>1 DEF Whole, IsRow
  <2>2. CASE k = "PROFESSIONAL_CANCELLATION"
    BY <1>4, <2>2 DEF Whole, IsRow
  <2> QED BY <2>1, <2>2
<1>7. a.e = e /\ a.by = k
  BY <1>4
<1> QED BY <1>1, <1>5, <1>6, <1>7

\* The event that is written is one that could be, and cannot be written again.
LEMMA RecordStep ==
  ASSUME LedgerInv, NEW e, NEW k, NEW R, CanBeWritten(e, k, R), NEW rest, Record(R, rest),
         rest \in [Bookers -> Booking], \A r \in Bookers : rest[r] = booking[r] \/ rest[r] = NotBooking,
         job' \in [Engagements -> Job], UNCHANGED <<commission, now, changes>>,
         \A f \in Engagements :
           /\ job'[f].paid = "NO" => job[f].paid = "NO"
           /\ job'[f].status # "CANCELLED" => job[f].status # "CANCELLED",
         k \in {"DIGITAL_PAYMENT", "CASH_PAYMENT"} => job'[e].paid # "NO",
         k \in {"CUSTOMER_CANCELLATION", "PROFESSIONAL_CANCELLATION"} => job'[e].status = "CANCELLED"
  PROVE  LedgerInv'
<1>1. ledger' = ledger \cup R
  BY DEF Record
<1>2. /\ ledger' \subseteq Entry /\ IsFiniteSet(ledger')
      /\ Books(ledger') = 0
      /\ EventsAreWhole'
      /\ \A f \in Engagements, j \in EventKinds : f # e \/ j # k => EventRows(f, j)' = EventRows(f, j)
  BY <1>1, WrittenWhole
<1>3. NotWrittenYet'
  BY <1>2 DEF NotWrittenYet, LedgerInv, EventKinds
<1>4. /\ booking' \in [Bookers -> Booking]
      /\ HandlersRead' /\ BalanceIsFollowed'
  <2>1. \A x \in R, y \in ledger : x.e # y.e \/ x.by # y.by
    BY DEF CanBeWritten, EventRows, RowsOf
  <2> QED BY <2>1, RecordFollows
<1>5. LedgerTyped'
  BY <1>2, <1>4 DEF LedgerTyped, LedgerInv
<1> QED BY <1>2, <1>3, <1>4, <1>5 DEF LedgerInv

\* Nothing is written, and no handler moves.
LEMMA QuietStep ==
  ASSUME LedgerInv, UNCHANGED <<ledger, booking>>,
         job' \in [Engagements -> Job], commission' \in Percents \cup {Nil},
         now' \in 0..MaxNow, changes' \in 0..MaxChanges,
         \A f \in Engagements :
           /\ job'[f].paid = "NO" => job[f].paid = "NO"
           /\ job'[f].status # "CANCELLED" => job[f].status # "CANCELLED"
  PROVE  LedgerInv'
<1>1. LedgerTyped'
  BY DEF LedgerInv, LedgerTyped
<1>2. \A e, k : EventRows(e, k)' = EventRows(e, k)
  BY DEF EventRows, RowsOf
<1>3. EventsAreWhole' /\ NotWrittenYet'
  BY <1>2 DEF LedgerInv, EventsAreWhole, NotWrittenYet
<1>4. HandlersRead' /\ BalanceIsFollowed' /\ Books(ledger)' = 0
  BY DEF LedgerInv, HandlersRead, BalanceIsFollowed
<1> QED BY <1>1, <1>3, <1>4 DEF LedgerInv

\* Only a handler moves.
LEMMA HandlerStep ==
  ASSUME LedgerInv, UNCHANGED <<job, commission, ledger, now, changes>>,
         booking' \in [Bookers -> Booking], HandlersRead', BalanceIsFollowed'
  PROVE  LedgerInv'
<1>1. LedgerTyped'
  BY DEF LedgerInv, LedgerTyped
<1>2. \A e, k : EventRows(e, k)' = EventRows(e, k)
  BY DEF EventRows, RowsOf
<1>3. EventsAreWhole' /\ NotWrittenYet'
  BY <1>2 DEF LedgerInv, EventsAreWhole, NotWrittenYet
<1>4. Books(ledger)' = 0
  BY DEF LedgerInv
<1> QED BY <1>1, <1>3, <1>4 DEF LedgerInv

\* What writes no row of the ledger keeps its invariant.
LEMMA QuietActions ==
  ASSUME LedgerInv,
         \/ \E e \in Engagements : CreatePending(e) \/ Reject(e) \/ Work(e)
         \/ \E e \in Engagements, price \in Prices : Renegotiate(e, price)
         \/ \E percent \in Percents \cup {Nil} : SetCommission(percent)
         \/ Tick
  PROVE  LedgerInv'
<1>0. LedgerTyped
  BY DEF LedgerInv
<1> DEFINE Waits == \A f \in Engagements :
             /\ job'[f].paid = "NO" => job[f].paid = "NO"
             /\ job'[f].status # "CANCELLED" => job[f].status # "CANCELLED"
<1>1. ASSUME NEW e \in Engagements, CreatePending(e)
      PROVE  LedgerInv'
  <2>1. job' \in [Engagements -> Job] /\ Waits
    BY <1>0, <1>1 DEF CreatePending, LedgerTyped, Job
  <2>2. /\ UNCHANGED <<ledger, booking>> /\ commission' \in Percents \cup {Nil}
        /\ now' \in 0..MaxNow /\ changes' \in 0..MaxChanges
    BY <1>0, <1>1 DEF CreatePending, LedgerTyped
  <2> QED BY <2>1, <2>2, QuietStep
<1>2. ASSUME NEW e \in Engagements, Reject(e)
      PROVE  LedgerInv'
  <2>1. job' \in [Engagements -> Job] /\ Waits
    BY <1>0, <1>2 DEF Reject, LedgerTyped, Job
  <2>2. /\ UNCHANGED <<ledger, booking>> /\ commission' \in Percents \cup {Nil}
        /\ now' \in 0..MaxNow /\ changes' \in 0..MaxChanges
    BY <1>0, <1>2 DEF Reject, LedgerTyped
  <2> QED BY <2>1, <2>2, QuietStep
<1>3. ASSUME NEW e \in Engagements, Work(e)
      PROVE  LedgerInv'
  <2>0. PICK step \in {<<"ACCEPTED", "IN_PROGRESS">>, <<"IN_PROGRESS", "COMPLETED">>} :
               job[e].status = step[1] /\ job' = [job EXCEPT ![e].status = step[2]]
    BY <1>3 DEF Work
  <2>1. job' \in [Engagements -> Job] /\ Waits
    BY <1>0, <2>0 DEF LedgerTyped, Job, JobStatuses
  <2>2. /\ UNCHANGED <<ledger, booking>> /\ commission' \in Percents \cup {Nil}
        /\ now' \in 0..MaxNow /\ changes' \in 0..MaxChanges
    BY <1>0, <1>3 DEF Work, LedgerTyped
  <2> QED BY <2>1, <2>2, QuietStep
<1>4. ASSUME NEW e \in Engagements, NEW price \in Prices, Renegotiate(e, price)
      PROVE  LedgerInv'
  <2>1. job' \in [Engagements -> Job] /\ Waits
    BY <1>0, <1>4 DEF Renegotiate, LedgerTyped, Job
  <2>2. /\ UNCHANGED <<ledger, booking>> /\ commission' \in Percents \cup {Nil}
        /\ now' \in 0..MaxNow /\ changes' \in 0..MaxChanges
    BY <1>0, <1>4, LedgerAssumption DEF Renegotiate, Change, LedgerTyped
  <2> QED BY <2>1, <2>2, QuietStep
<1>5. ASSUME NEW percent \in Percents \cup {Nil}, SetCommission(percent)
      PROVE  LedgerInv'
  <2>1. job' \in [Engagements -> Job] /\ Waits
    BY <1>0, <1>5 DEF SetCommission, LedgerTyped
  <2>2. /\ UNCHANGED <<ledger, booking>> /\ commission' \in Percents \cup {Nil}
        /\ now' \in 0..MaxNow /\ changes' \in 0..MaxChanges
    BY <1>0, <1>5, LedgerAssumption DEF SetCommission, Change, LedgerTyped
  <2> QED BY <2>1, <2>2, QuietStep
<1>6. ASSUME Tick
      PROVE  LedgerInv'
  <2>1. job' \in [Engagements -> Job] /\ Waits
    BY <1>0, <1>6 DEF Tick, LedgerTyped
  <2>2. /\ UNCHANGED <<ledger, booking>> /\ commission' \in Percents \cup {Nil}
        /\ now' \in 0..MaxNow /\ changes' \in 0..MaxChanges
    BY <1>0, <1>6, LedgerAssumption DEF Tick, LedgerTyped
  <2> QED BY <2>1, <2>2, QuietStep
<1> HIDE DEF Waits
<1> QED BY <1>1, <1>2, <1>3, <1>4, <1>5, <1>6

\* A digital payment and a confirmed cash payment write whole events.
LEMMA PaymentActions ==
  ASSUME LedgerInv, NEW t \in 0..MaxNow,
         \/ \E e \in Engagements : RecordDigitalPayment(e, t)
         \/ \E r \in Bookers : RecordCommissionDebt(r, t)
  PROVE  LedgerInv'
<1>0. LedgerTyped /\ HandlersRead /\ NotWrittenYet
  BY DEF LedgerInv
<1>1. ASSUME NEW e \in Engagements, RecordDigitalPayment(e, t)
      PROVE  LedgerInv'
  <2>1. PICK R : R = Split(e, "CUSTOMER_CHARGE", job[e].charge, t, "DIGITAL_PAYMENT")
    OBVIOUS
  <2>2. job[e].charge \in Nat
    <3>1. job[e] \in Job
      BY <1>0 DEF LedgerTyped
    <3>2. job[e].charge \in Prices \cup {0}
      BY <3>1 DEF Job
    <3>3. Prices \cup {0} \subseteq Nat
      BY LedgerAssumption
    <3> QED BY <3>2, <3>3
  <2>3. Record(R, booking) /\ Stamp(t) /\ commission # Nil /\ job[e].paid = "NO"
    BY <1>1, <2>1 DEF RecordDigitalPayment
  <2>4. CanBeWritten(e, "DIGITAL_PAYMENT", R)
    <3>1. R \subseteq Entry /\ Whole(R, "DIGITAL_PAYMENT") /\ \A r \in R : r.e = e /\ r.by = "DIGITAL_PAYMENT"
      BY <1>0, <2>1, <2>2, <2>3, SplitIsWhole DEF EventKinds
    <3>2. EventRows(e, "DIGITAL_PAYMENT") = {}
      BY <1>0, <2>3 DEF NotWrittenYet
    <3> QED BY <3>1, <3>2 DEF CanBeWritten, EventKinds
  <2>5. /\ job' \in [Engagements -> Job] /\ job'[e].paid # "NO"
        /\ UNCHANGED <<commission, now, changes>>
        /\ \A f \in Engagements :
             /\ job'[f].paid = "NO" => job[f].paid = "NO"
             /\ job'[f].status # "CANCELLED" => job[f].status # "CANCELLED"
    BY <1>0, <1>1 DEF RecordDigitalPayment, LedgerTyped, Job
  <2>6. booking \in [Bookers -> Booking]
    BY <1>0 DEF LedgerTyped
  <2> QED BY <2>3, <2>4, <2>5, <2>6, RecordStep
<1>2. ASSUME NEW r \in Bookers, RecordCommissionDebt(r, t)
      PROVE  LedgerInv'
  <2>0. PICK e : e = booking[r].e
    OBVIOUS
  <2>1. PICK amount : amount = Percent(booking[r].price, commission)
    OBVIOUS
  <2>2. PICK R : R = {EntryOf(e, "CASH_COMMISSION_DEBT", amount, t, "CASH_PAYMENT")}
    OBVIOUS
  <2>3. /\ Record(R, FinishBooking(r)) /\ Stamp(t) /\ commission # Nil /\ job[e].paid = "NO"
        /\ booking[r].pc = "cash" /\ job' = [job EXCEPT ![e].paid = "CASH"]
        /\ UNCHANGED <<commission, now, changes>>
    BY <1>2, <2>0, <2>1, <2>2 DEF RecordCommissionDebt
  <2>4. e \in Engagements /\ amount \in Int
    <3>1. booking[r].e \in Engagements /\ booking[r].price \in Prices
      BY <1>0, <2>3 DEF HandlersRead
    <3>2. booking[r].price \in Int /\ commission \in Int
      BY <1>0, <2>3, <3>1, LedgerAssumption DEF LedgerTyped
    <3>3. Percent(booking[r].price, commission) \in Int
      BY <3>2, PercentType
    <3> QED BY <2>0, <2>1, <3>1, <3>3
  <2>5. CanBeWritten(e, "CASH_PAYMENT", R)
    <3>0. LedgerTyped /\ Stamp(t) /\ "CASH_PAYMENT" \in EventKinds
      BY <1>0, <2>3 DEF EventKinds
    <3>1. R \subseteq Entry /\ Whole(R, "CASH_PAYMENT") /\ \A x \in R : x.e = e /\ x.by = "CASH_PAYMENT"
      BY <2>2, <2>4, <3>0, OneRowIsWhole
    <3>2. EventRows(e, "CASH_PAYMENT") = {}
      BY <1>0, <2>3, <2>4 DEF NotWrittenYet
    <3> QED BY <2>4, <3>1, <3>2 DEF CanBeWritten, EventKinds
  <2>6. /\ job' \in [Engagements -> Job] /\ job'[e].paid # "NO"
        /\ \A f \in Engagements :
             /\ job'[f].paid = "NO" => job[f].paid = "NO"
             /\ job'[f].status # "CANCELLED" => job[f].status # "CANCELLED"
    BY <1>0, <2>3, <2>4 DEF LedgerTyped, Job
  <2>7. /\ FinishBooking(r) \in [Bookers -> Booking]
        /\ \A q \in Bookers : FinishBooking(r)[q] = booking[q] \/ FinishBooking(r)[q] = NotBooking
    BY <1>0, IdleBooking DEF FinishBooking, LedgerTyped
  <2> QED BY <2>3, <2>5, <2>6, <2>7, RecordStep
<1> QED BY <1>1, <1>2

\* Cancellations write whole events.
LEMMA CancelActions ==
  ASSUME LedgerInv, NEW t \in 0..MaxNow, NEW r \in Bookers,
         CancelByCustomer(r, t) \/ CancelByProfessional(r, t)
  PROVE  LedgerInv'
<1>0. LedgerTyped /\ HandlersRead /\ NotWrittenYet
  BY DEF LedgerInv
<1>1. PICK e : e = booking[r].e
  OBVIOUS
<1>2. /\ job[e].status \in {"ACCEPTED", "IN_PROGRESS"} /\ Stamp(t)
      /\ booking[r].pc \in {"byCustomer", "byProfessional"}
      /\ job' = [job EXCEPT ![e].status = "CANCELLED"]
      /\ UNCHANGED <<commission, now, changes>>
  BY <1>1 DEF CancelByCustomer, CancelByProfessional, Cancellable
<1>3. e \in Engagements /\ booking[r].price \in Nat \ {0} /\ booking[r].price \in Int
  <2>1. booking[r].e \in Engagements /\ booking[r].price \in Prices
    BY <1>0, <1>2 DEF HandlersRead
  <2>2. Prices \subseteq Nat \ {0}
    BY LedgerAssumption
  <2>3. booking[r].price \in Nat \ {0}
    BY <2>1, <2>2
  <2> QED BY <1>1, <2>1, <2>3
<1>4. /\ job' \in [Engagements -> Job] /\ job'[e].status = "CANCELLED"
      /\ \A f \in Engagements :
           /\ job'[f].paid = "NO" => job[f].paid = "NO"
           /\ job'[f].status # "CANCELLED" => job[f].status # "CANCELLED"
  BY <1>0, <1>2, <1>3 DEF LedgerTyped, Job, JobStatuses
<1>5. /\ FinishBooking(r) \in [Bookers -> Booking]
      /\ \A q \in Bookers : FinishBooking(r)[q] = booking[q] \/ FinishBooking(r)[q] = NotBooking
  BY <1>0, IdleBooking DEF FinishBooking, LedgerTyped
<1>6. EventRows(e, "CUSTOMER_CANCELLATION") = {} /\ EventRows(e, "PROFESSIONAL_CANCELLATION") = {}
  BY <1>0, <1>2, <1>3 DEF NotWrittenYet
<1>7. CASE CancelByCustomer(r, t) /\ booking[r].status = "IN_PROGRESS"
  <2>1. PICK fee : fee = Percent(booking[r].price, commission)
    OBVIOUS
  <2>2. PICK R : R = Split(e, "CUSTOMER_CANCELLATION_FEE", fee, t, "CUSTOMER_CANCELLATION")
    OBVIOUS
  <2>3. commission # Nil /\ Record(R, FinishBooking(r))
    BY <1>1, <1>7, <2>1, <2>2 DEF CancelByCustomer
  <2>4. commission \in Int
    BY <1>0, <2>3, LedgerAssumption DEF LedgerTyped
  <2>5. fee \in Int
    BY <1>3, <2>1, <2>4, PercentType
  <2>6. /\ R \subseteq Entry /\ Whole(R, "CUSTOMER_CANCELLATION")
        /\ \A x \in R : x.e = e /\ x.by = "CUSTOMER_CANCELLATION"
    BY <1>0, <1>2, <1>3, <2>2, <2>3, <2>5, SplitIsWhole DEF EventKinds
  <2>7. CanBeWritten(e, "CUSTOMER_CANCELLATION", R)
    BY <1>3, <1>6, <2>6 DEF CanBeWritten, EventKinds
  <2> QED BY <1>2, <1>4, <1>5, <2>3, <2>7, RecordStep
<1>8. CASE CancelByCustomer(r, t) /\ booking[r].status # "IN_PROGRESS"
  <2>1. Record({}, FinishBooking(r))
    BY <1>8 DEF CancelByCustomer
  <2>2. ledger' = ledger /\ ledger \cup {} = ledger
    BY <2>1 DEF Record
  <2>3. /\ booking' \in [Bookers -> Booking]
        /\ HandlersRead' /\ BalanceIsFollowed'
    <3>1. \A x \in {}, y \in ledger : x.e # y.e \/ x.by # y.by
      OBVIOUS
    <3> QED BY <1>5, <2>1, <3>1, RecordFollows
  <2>4. \A f, k : EventRows(f, k)' = EventRows(f, k)
    BY <2>2 DEF EventRows, RowsOf
  <2>5. EventsAreWhole' /\ NotWrittenYet'
    BY <1>4, <2>4 DEF LedgerInv, EventsAreWhole, NotWrittenYet
  <2>6. LedgerTyped'
    BY <1>0, <1>2, <1>4, <2>2, <2>3 DEF LedgerTyped
  <2>7. Books(ledger)' = 0
    BY <2>2 DEF LedgerInv
  <2> QED BY <2>3, <2>5, <2>6, <2>7 DEF LedgerInv
<1>9. CASE CancelByProfessional(r, t)
  <2>1. PICK R : R = {EntryOf(e, "REFUND", booking[r].price, t, "PROFESSIONAL_CANCELLATION")}
    OBVIOUS
  <2>2. Record(R, FinishBooking(r))
    BY <1>1, <1>9, <2>1 DEF CancelByProfessional
  <2>3. /\ R \subseteq Entry /\ Whole(R, "PROFESSIONAL_CANCELLATION")
        /\ \A x \in R : x.e = e /\ x.by = "PROFESSIONAL_CANCELLATION"
    BY <1>0, <1>2, <1>3, <2>1, OneRowIsWhole DEF EventKinds
  <2>4. CanBeWritten(e, "PROFESSIONAL_CANCELLATION", R)
    BY <1>3, <1>6, <2>3 DEF CanBeWritten, EventKinds
  <2> QED BY <1>2, <1>4, <1>5, <2>2, <2>4, RecordStep
<1> QED BY <1>7, <1>8, <1>9

\* The other sum of a balance makes its answer.
LEMMA AnsweringIs ==
  ASSUME LedgerTyped, NEW h \in Booking
  PROVE  /\ Answering(h) \in Booking /\ Answering(h).pc = "balance"
         /\ Answering(h).sum = IF h.pc = "debts" THEN h.sum - SumCashCommissionDebt(ledger, h.p)
                                                  ELSE Credited(ledger, h.p) - h.sum
         /\ Answering(h).p = h.p /\ Answering(h).before = h.before /\ Answering(h).after = ledger
<1>1. PICK sum : sum = IF h.pc = "debts" THEN h.sum - SumCashCommissionDebt(ledger, h.p)
                                         ELSE Credited(ledger, h.p) - h.sum
  OBVIOUS
<1>2. Answering(h) = [h EXCEPT !.pc = "balance", !.sum = sum, !.after = ledger]
  BY <1>1 DEF Answering, Less
<1>3. sum \in Int
  BY <1>1, PartsType DEF LedgerTyped, Booking
<1> QED BY <1>1, <1>2, <1>3 DEF Booking, BookingPcs, LedgerTyped

\* Who only reads the ledger keeps its invariant.
LEMMA ReaderActions ==
  ASSUME LedgerInv, NEW r \in Bookers,
         \/ \E e \in Engagements, pc \in {"cash", "byCustomer", "byProfessional"} : ReadBilling(r, pc, e)
         \/ \E p \in Professionals : ReadFirstSum(r, p)
         \/ ReadOtherSum(r) \/ Drop(r)
  PROVE  LedgerInv'
<1>0. LedgerTyped /\ HandlersRead /\ BalanceIsFollowed
  BY DEF LedgerInv
<1>1. PICK h \in Booking : booking' = [booking EXCEPT ![r] = h] /\ h = booking'[r]
  <2>1. ASSUME NEW e \in Engagements, NEW pc \in {"cash", "byCustomer", "byProfessional"}
        PROVE  Reading(pc, e) \in Booking
    <3>1. job[e].price \in Prices /\ job[e].status \in JobStatuses
      BY <1>0 DEF LedgerTyped, Job
    <3> QED BY <3>1 DEF Reading, Booking, BookingPcs
  <2>2. ASSUME NEW p \in Professionals
        PROVE  /\ Adding("debts", p, Credited(ledger, p)) \in Booking
               /\ Adding("credits", p, SumCashCommissionDebt(ledger, p)) \in Booking
    <3>1. Credited(ledger, p) \in Int /\ SumCashCommissionDebt(ledger, p) \in Int /\ ledger \subseteq Entry
      BY <1>0, PartsType DEF LedgerTyped
    <3> QED BY <3>1 DEF Adding, Booking, BookingPcs
  <2>5. CASE \E e \in Engagements, pc \in {"cash", "byCustomer", "byProfessional"} : ReadBilling(r, pc, e)
    BY <1>0, <2>1, <2>5 DEF ReadBilling, LedgerTyped
  <2>6. CASE \E p \in Professionals : ReadFirstSum(r, p)
    BY <1>0, <2>2, <2>6 DEF ReadFirstSum, LedgerTyped
  <2>7. CASE ReadOtherSum(r)
    <3>1. booking[r] \in Booking
      BY <1>0 DEF LedgerTyped
    <3>2. PICK x \in Booking : x = Answering(booking[r])
      BY <1>0, <3>1, AnsweringIs
    <3> QED BY <1>0, <2>7, <3>2 DEF ReadOtherSum, LedgerTyped
  <2>8. CASE Drop(r)
    BY <1>0, <2>8, IdleBooking DEF Drop, FinishBooking, LedgerTyped
  <2> QED BY <2>5, <2>6, <2>7, <2>8
<1>2. UNCHANGED <<job, commission, ledger, now, changes>>
  BY DEF ReadBilling, ReadFirstSum, ReadOtherSum, Drop
<1>3. booking' \in [Bookers -> Booking] /\ \A q \in Bookers \ {r} : booking'[q] = booking[q]
  BY <1>0, <1>1 DEF LedgerTyped
<1>4. /\ h.pc \in {"cash", "byCustomer", "byProfessional"} => h.e \in Engagements /\ h.price \in Prices
      /\ Follows(h, ledger)
  <2>1. CASE \E e \in Engagements, pc \in {"cash", "byCustomer", "byProfessional"} : ReadBilling(r, pc, e)
    <3>1. PICK e \in Engagements, pc \in {"cash", "byCustomer", "byProfessional"} : ReadBilling(r, pc, e)
      BY <2>1
    <3>2. h = Reading(pc, e)
      BY <1>0, <1>1, <3>1 DEF ReadBilling, LedgerTyped
    <3>3. h.pc = pc /\ h.e = e /\ h.price = job[e].price
      BY <3>2 DEF Reading
    <3>4. job[e].price \in Prices
      BY <1>0 DEF LedgerTyped, Job
    <3> QED BY <3>3, <3>4 DEF Follows
  <2>2. CASE \E p \in Professionals : ReadFirstSum(r, p)
    <3>1. PICK p \in Professionals : ReadFirstSum(r, p)
      BY <2>2
    <3>2. \/ h = Adding("debts", p, Credited(ledger, p))
          \/ h = Adding("credits", p, SumCashCommissionDebt(ledger, p))
      BY <1>0, <1>1, <3>1 DEF ReadFirstSum, LedgerTyped
    <3>3. /\ h.p = p /\ h.before = ledger
          /\ \/ h.pc = "debts" /\ h.sum = Credited(ledger, p)
             \/ h.pc = "credits" /\ h.sum = SumCashCommissionDebt(ledger, p)
      BY <3>2 DEF Adding
    <3>4. h.pc \in {"credits", "debts"} /\ IsWhole(h.before, ledger)
      BY <3>3 DEF IsWhole
    <3> QED BY <3>3, <3>4 DEF Follows
  <2>3. CASE ReadOtherSum(r)
    <3>1. PICK g \in Booking : g = booking[r] /\ g.pc \in {"credits", "debts"} /\ h = Answering(g)
      BY <1>0, <1>1, <2>3 DEF ReadOtherSum, LedgerTyped
    <3>2. /\ h.pc = "balance" /\ h.p = g.p /\ h.before = g.before /\ h.after = ledger
          /\ g.pc = "debts" => h.sum = g.sum - SumCashCommissionDebt(ledger, g.p)
          /\ g.pc = "credits" => h.sum = Credited(ledger, g.p) - g.sum
      BY <1>0, <3>1, AnsweringIs
    <3>3. Follows(g, ledger)
      BY <1>0, <3>1 DEF BalanceIsFollowed
    <3>4. g.before \subseteq ledger /\ IsWhole(g.before, ledger)
      BY <3>1, <3>3 DEF Follows
    <3>5. \/ h.sum = Credited(h.before, h.p) - SumCashCommissionDebt(h.after, h.p)
          \/ h.sum = Credited(h.after, h.p) - SumCashCommissionDebt(h.before, h.p)
      BY <3>1, <3>2, <3>3 DEF Follows
    <3> QED BY <3>2, <3>4, <3>5 DEF Follows
  <2>4. CASE Drop(r)
    BY <1>0, <1>1, <2>4 DEF Drop, FinishBooking, NotBooking, LedgerTyped, Follows
  <2> QED BY <2>1, <2>2, <2>3, <2>4
<1>5. HandlersRead'
  BY <1>0, <1>1, <1>3, <1>4 DEF HandlersRead
<1>6. BalanceIsFollowed'
  BY <1>0, <1>1, <1>2, <1>3, <1>4 DEF BalanceIsFollowed
<1> QED BY <1>2, <1>3, <1>5, <1>6, HandlerStep

\* The books begin empty.
LEMMA LedgerInvInit == LedgerInit => LedgerInv
<1> SUFFICES ASSUME LedgerInit PROVE LedgerInv
  OBVIOUS
<1>1. LedgerTyped
  BY LedgerAssumption, FS_EmptySet
     DEF LedgerInit, LedgerTyped, Job, JobStatuses, NotBooking, Booking, BookingPcs
<1>2. EventsAreWhole /\ NotWrittenYet
  BY DEF LedgerInit, EventsAreWhole, NotWrittenYet, EventRows, RowsOf
<1>3. HandlersRead /\ BalanceIsFollowed
  BY DEF LedgerInit, HandlersRead, BalanceIsFollowed, NotBooking, Follows
<1>4. Books({}) = 0
  <2>1. Platform({}) = 0 /\ Paid({}) = 0
    <3>1. OfTypes({}, PlatformRows) = {} /\ OfTypes({}, PaidRows) = {}
      BY DEF OfTypes
    <3> QED BY <3>1, AmountEmpty DEF Platform, Paid
  <2>2. \A p : Balance({}, p) = 0
    <3>1. \A t, p : OfType({}, t, p) = {}
      BY DEF OfType
    <3> QED BY <3>1, AmountEmpty DEF Balance, Credited, SumCashCommissionDebt
  <2>3. Balances({}) = 0
    <3>1. IsFiniteSet(Professionals)
      BY LedgerAssumption
    <3>2. PICK g : g = [p \in Professionals |-> Balance({}, p)]
      OBVIOUS
    <3>3. Balances({}) = SumOf(g, Professionals)
      BY <3>1, <3>2, BalancesAre
    <3> QED BY <2>2, <3>1, <3>2, <3>3, SumZero
  <2> QED BY <2>1, <2>3 DEF Books
<1> QED BY <1>1, <1>2, <1>3, <1>4 DEF LedgerInv, LedgerInit

\* Each step keeps the invariant of the ledger.
LEMMA LedgerInvStep == LedgerInv /\ [LedgerNext]_ledgerVars => LedgerInv'
<1> SUFFICES ASSUME LedgerInv, [LedgerNext]_ledgerVars PROVE LedgerInv'
  OBVIOUS
<1>1. CASE \/ \E e \in Engagements : CreatePending(e) \/ Reject(e) \/ Work(e)
           \/ \E e \in Engagements, price \in Prices : Renegotiate(e, price)
           \/ \E percent \in Percents \cup {Nil} : SetCommission(percent)
           \/ Tick
  BY <1>1, QuietActions
<1>2. ASSUME NEW e \in Engagements, NEW t \in 0..MaxNow, RecordDigitalPayment(e, t)
      PROVE  LedgerInv'
  BY <1>2, PaymentActions
<1>3. ASSUME NEW r \in Bookers, NEW t \in 0..MaxNow, RecordCommissionDebt(r, t)
      PROVE  LedgerInv'
  BY <1>3, PaymentActions
<1>4. ASSUME NEW r \in Bookers, NEW t \in 0..MaxNow, CancelByCustomer(r, t) \/ CancelByProfessional(r, t)
      PROVE  LedgerInv'
  BY <1>4, CancelActions
<1>5. ASSUME NEW r \in Bookers,
             \/ \E e \in Engagements, pc \in {"cash", "byCustomer", "byProfessional"} : ReadBilling(r, pc, e)
             \/ \E p \in Professionals : ReadFirstSum(r, p)
             \/ ReadOtherSum(r) \/ Drop(r)
      PROVE  LedgerInv'
  BY <1>5, ReaderActions
<1>6. CASE UNCHANGED ledgerVars
  <2>1. /\ UNCHANGED <<ledger, booking>> /\ job' = job /\ commission' = commission
        /\ now' = now /\ changes' = changes
    BY <1>6 DEF ledgerVars
  <2>2. LedgerTyped
    BY DEF LedgerInv
  <2> QED BY <2>1, <2>2, QuietStep DEF LedgerTyped
<1>7. CASE LedgerNext
  BY <1>1, <1>2, <1>3, <1>4, <1>5, <1>7 DEF LedgerNext
<1> QED BY <1>6, <1>7

\* The books, the events in them and the balances that are read keep together.
THEOREM LedgerInvariant == LedgerSpec => []LedgerInv
<1> QED BY LedgerInvInit, LedgerInvStep, PTL DEF LedgerSpec

-----------------------------------------------------------------------------
(* What follows from it                                                    *)

\* What customers paid is what the platform and the professionals have.
THEOREM BooksBalanceHolds == LedgerSpec => []BooksBalance
<1>1. LedgerInv => BooksBalance
  BY DEF LedgerInv, Books, Platform, OfTypes, Balances, Paid, PlatformRows, PaidRows, BooksBalance, SumPlatformBalance
<1> QED BY <1>1, LedgerInvariant, PTL

\* The debts are the rows of the cash payments.
LEMMA DebtsAreOfCash ==
  ASSUME LedgerInv, NEW r \in ledger
  PROVE  r.type = "CASH_COMMISSION_DEBT" <=> r.by = "CASH_PAYMENT"
<1>1. r.e \in Engagements /\ r.by \in EventKinds
  BY DEF LedgerInv, LedgerTyped, Entry
<1>2. PICK R : R = EventRows(r.e, r.by)
  OBVIOUS
<1>3. r \in R /\ Whole(R, r.by)
  BY <1>1, <1>2 DEF LedgerInv, EventsAreWhole, EventRows, RowsOf
<1>4. CASE r.by = "DIGITAL_PAYMENT"
  BY <1>3, <1>4 DEF Whole, IsSplit, IsRow
<1>5. CASE r.by = "CUSTOMER_CANCELLATION"
  <2>1. IsSplit(R, "CUSTOMER_CANCELLATION_FEE")
    BY <1>3, <1>5 DEF Whole
  <2> QED BY <1>3, <1>5, <2>1 DEF IsSplit, IsRow
<1>6. CASE r.by = "PROFESSIONAL_CANCELLATION"
  BY <1>3, <1>6 DEF Whole, IsRow
<1>7. CASE r.by = "CASH_PAYMENT"
  BY <1>3, <1>7 DEF Whole, IsRow
<1> QED BY <1>1, <1>4, <1>5, <1>6, <1>7 DEF EventKinds

\* A balance that is answered is that of books with whole events: those there were
\* when the first sum was read, and those of the other sum's kind until it was.
THEOREM BalanceIsOfWholeEventsHolds == LedgerSpec => []BalanceIsOfWholeEvents
<1>1. ASSUME LedgerInv, NEW r \in Bookers, NEW h, h = booking[r], h.pc = "balance"
      PROVE  \E late \in SUBSET (h.after \ h.before) :
               LET rows == h.before \cup late IN IsWhole(rows, h.after) /\ Balance(rows, h.p) = h.sum
  <2>0. Follows(h, ledger)
    BY <1>1 DEF LedgerInv, BalanceIsFollowed
  <2>1. h.before \subseteq h.after /\ h.after \subseteq ledger /\ IsWhole(h.before, ledger)
    BY <1>1, <2>0 DEF Follows
  <2>2. \A x \in h.after : x.type = "CASH_COMMISSION_DEBT" <=> x.by = "CASH_PAYMENT"
    BY <1>1, <2>1, DebtsAreOfCash
  <2>3. CASE h.sum = Credited(h.before, h.p) - SumCashCommissionDebt(h.after, h.p)
    <3>1. PICK late : late = {x \in h.after \ h.before : x.by = "CASH_PAYMENT"}
      OBVIOUS
    <3>2. PICK rows : rows = h.before \cup late
      OBVIOUS
    <3>3. IsWhole(rows, h.after)
      BY <2>1, <3>1, <3>2 DEF IsWhole
    <3>4. OfType(rows, "CASH_COMMISSION_DEBT", h.p) = OfType(h.after, "CASH_COMMISSION_DEBT", h.p)
      BY <2>1, <2>2, <3>1, <3>2 DEF OfType
    <3>5. OfType(rows, "PROFESSIONAL_NET_CREDIT", h.p) = OfType(h.before, "PROFESSIONAL_NET_CREDIT", h.p)
      BY <2>1, <2>2, <3>1, <3>2 DEF OfType
    <3>6. Balance(rows, h.p) = h.sum
      BY <2>3, <3>4, <3>5 DEF Balance, Credited, SumCashCommissionDebt
    <3> QED BY <3>1, <3>2, <3>3, <3>6
  <2>4. CASE h.sum = Credited(h.after, h.p) - SumCashCommissionDebt(h.before, h.p)
    <3>1. PICK late : late = {x \in h.after \ h.before : x.by # "CASH_PAYMENT"}
      OBVIOUS
    <3>2. PICK rows : rows = h.before \cup late
      OBVIOUS
    <3>3. IsWhole(rows, h.after)
      BY <2>1, <3>1, <3>2 DEF IsWhole
    <3>4. OfType(rows, "CASH_COMMISSION_DEBT", h.p) = OfType(h.before, "CASH_COMMISSION_DEBT", h.p)
      BY <2>1, <2>2, <3>1, <3>2 DEF OfType
    <3>5. OfType(rows, "PROFESSIONAL_NET_CREDIT", h.p) = OfType(h.after, "PROFESSIONAL_NET_CREDIT", h.p)
      BY <2>1, <2>2, <3>1, <3>2 DEF OfType
    <3>6. Balance(rows, h.p) = h.sum
      BY <2>4, <3>4, <3>5 DEF Balance, Credited, SumCashCommissionDebt
    <3> QED BY <3>1, <3>2, <3>3, <3>6
  <2> QED BY <1>1, <2>0, <2>3, <2>4 DEF Follows
<1>2. LedgerInv => BalanceIsOfWholeEvents
  BY <1>1 DEF BalanceIsOfWholeEvents
<1> QED BY <1>2, LedgerInvariant, PTL

\* The amount of the only row of a type.
LEMMA AmountOfOne ==
  ASSUME NEW R, NEW x \in R, \A r \in R : r.type = x.type => r = x
  PROVE  AmountOf(R, x.type) = x.amount /\ Has(R, x.type)
  BY DEF AmountOf, Has

\* Rows without a type have no amount of it.
LEMMA AmountOfNone ==
  ASSUME NEW R, NEW type, \A r \in R : r.type # type
  PROVE  AmountOf(R, type) = 0 /\ ~ Has(R, type)
  BY DEF AmountOf, Has

\* A whole event is classified as what it is, and its figures add up, but for the
\* sign of a fee that is a credit.
LEMMA WholeIsClassified ==
  ASSUME NEW R, R \subseteq Entry, NEW k \in EventKinds, Whole(R, k), NEW price \in Nat
  PROVE  /\ Kind(R) = k
         /\ Classified(R, price).paid = Abs(Classified(R, price).platform + Classified(R, price).net)
         /\ Classified(R, price).platform + Classified(R, price).net < 0 => k = "CUSTOMER_CANCELLATION"
         /\ k = "PROFESSIONAL_CANCELLATION" => AmountOf(R, "REFUND") > 0
         /\ \A r, s \in R : r.at = s.at
<1>1. ASSUME NEW type \in {"CUSTOMER_CHARGE", "CUSTOMER_CANCELLATION_FEE"}, IsSplit(R, type)
      PROVE  /\ Abs(AmountOf(R, type)) =
                   Abs(AmountOf(R, "PLATFORM_COMMISSION") + AmountOf(R, "PROFESSIONAL_NET_CREDIT"))
             /\ type = "CUSTOMER_CHARGE" =>
                  AmountOf(R, "PLATFORM_COMMISSION") + AmountOf(R, "PROFESSIONAL_NET_CREDIT") >= 0
             /\ AmountOf(R, "PLATFORM_COMMISSION") \in Int /\ AmountOf(R, "PROFESSIONAL_NET_CREDIT") \in Int
             /\ \A t : Has(R, t) <=> t \in {type, "PLATFORM_COMMISSION", "PROFESSIONAL_NET_CREDIT"}
             /\ \A r, s \in R : r.at = s.at
  <2>1. PICK a, b, c \in R :
          /\ R = {a, b, c}
          /\ IsRow(a, type) /\ IsRow(b, "PLATFORM_COMMISSION") /\ IsRow(c, "PROFESSIONAL_NET_CREDIT")
          /\ type = "CUSTOMER_CHARGE" => - a.amount \in Nat
          /\ a.amount + b.amount + c.amount = 0
          /\ a.at = b.at /\ b.at = c.at
    BY <1>1 DEF IsSplit
  <2>2. a.type = type /\ b.type = "PLATFORM_COMMISSION" /\ c.type = "PROFESSIONAL_NET_CREDIT"
    BY <2>1 DEF IsRow
  <2>3. a.amount \in Int /\ b.amount \in Int /\ c.amount \in Int
    BY DEF Entry
  <2>4. AmountOf(R, a.type) = a.amount
    BY <2>1, <2>2, AmountOfOne
  <2>5. AmountOf(R, b.type) = b.amount
    BY <2>1, <2>2, AmountOfOne
  <2>6. AmountOf(R, c.type) = c.amount
    BY <2>1, <2>2, AmountOfOne
  <2>7. /\ Abs(a.amount) = Abs(b.amount + c.amount)
        /\ type = "CUSTOMER_CHARGE" => b.amount + c.amount >= 0
    BY <2>1, <2>3 DEF Abs
  <2>8. \A t : Has(R, t) <=> t \in {type, "PLATFORM_COMMISSION", "PROFESSIONAL_NET_CREDIT"}
    BY <2>1, <2>2 DEF Has
  <2> QED BY <2>1, <2>2, <2>3, <2>4, <2>5, <2>6, <2>7, <2>8
<1>2. CASE k = "DIGITAL_PAYMENT"
  <2>1. IsSplit(R, "CUSTOMER_CHARGE")
    BY <1>2 DEF Whole
  <2>2. Kind(R) = k
    BY <1>1, <1>2, <2>1 DEF Kind
  <2>3. Classified(R, price) = ReadSplit(R, AmountOf(R, "CUSTOMER_CHARGE"))
    BY <1>2, <2>2 DEF Classified
  <2>4. /\ Classified(R, price).paid = Abs(AmountOf(R, "CUSTOMER_CHARGE"))
        /\ Classified(R, price).platform = AmountOf(R, "PLATFORM_COMMISSION")
        /\ Classified(R, price).net = AmountOf(R, "PROFESSIONAL_NET_CREDIT")
    BY <2>3 DEF ReadSplit
  <2>5. /\ Abs(AmountOf(R, "CUSTOMER_CHARGE")) =
             Abs(AmountOf(R, "PLATFORM_COMMISSION") + AmountOf(R, "PROFESSIONAL_NET_CREDIT"))
        /\ AmountOf(R, "PLATFORM_COMMISSION") + AmountOf(R, "PROFESSIONAL_NET_CREDIT") >= 0
        /\ \A r, s \in R : r.at = s.at
    BY <1>1, <2>1
  <2>6. /\ AmountOf(R, "PLATFORM_COMMISSION") \in Int
        /\ AmountOf(R, "PROFESSIONAL_NET_CREDIT") \in Int
    BY <1>1, <2>1
  <2>7. ~ (AmountOf(R, "PLATFORM_COMMISSION") + AmountOf(R, "PROFESSIONAL_NET_CREDIT") < 0)
    BY <2>5, <2>6
  <2> QED BY <1>2, <2>2, <2>4, <2>5, <2>7
<1>3. CASE k = "CUSTOMER_CANCELLATION"
  <2>1. IsSplit(R, "CUSTOMER_CANCELLATION_FEE")
    BY <1>3 DEF Whole
  <2>2. Kind(R) = k
    BY <1>1, <1>3, <2>1 DEF Kind
  <2>3. Classified(R, price) = ReadSplit(R, AmountOf(R, "CUSTOMER_CANCELLATION_FEE"))
    BY <1>3, <2>2 DEF Classified
  <2>4. /\ Classified(R, price).paid = Abs(AmountOf(R, "CUSTOMER_CANCELLATION_FEE"))
        /\ Classified(R, price).platform = AmountOf(R, "PLATFORM_COMMISSION")
        /\ Classified(R, price).net = AmountOf(R, "PROFESSIONAL_NET_CREDIT")
    BY <2>3 DEF ReadSplit
  <2>5. Abs(AmountOf(R, "CUSTOMER_CANCELLATION_FEE")) =
          Abs(AmountOf(R, "PLATFORM_COMMISSION") + AmountOf(R, "PROFESSIONAL_NET_CREDIT"))
    BY <1>1, <2>1
  <2>6. \A r, s \in R : r.at = s.at
    BY <1>1, <2>1
  <2> QED BY <1>3, <2>2, <2>4, <2>5, <2>6
<1>4. CASE k = "PROFESSIONAL_CANCELLATION"
  <2>1. PICK a \in R : R = {a} /\ a.type = "REFUND" /\ a.amount \in Nat \ {0}
    BY <1>4 DEF Whole, IsRow
  <2>2. AmountOf(R, "REFUND") = a.amount /\ \A t : Has(R, t) <=> t = "REFUND"
    BY <2>1 DEF AmountOf, Has
  <2>3. Kind(R) = k
    BY <1>4, <2>2 DEF Kind
  <2>4. Classified(R, price) = [paid |-> 0, platform |-> 0, net |-> 0, debt |-> 0]
    BY <1>4, <2>3 DEF Classified
  <2>5. Abs(0 + 0) = 0 /\ ~ (0 + 0 < 0)
    BY DEF Abs
  <2> QED BY <1>4, <2>1, <2>2, <2>3, <2>4, <2>5
<1>5. CASE k = "CASH_PAYMENT"
  <2>1. PICK a \in R : R = {a} /\ a.type = "CASH_COMMISSION_DEBT" /\ a.amount \in Int
    BY <1>5 DEF Whole, IsRow, Entry
  <2>2. AmountOf(R, "CASH_COMMISSION_DEBT") = a.amount /\ Has(R, "CASH_COMMISSION_DEBT")
    BY <2>1 DEF AmountOf, Has
  <2>3. Kind(R) = k
    BY <1>5, <2>2 DEF Kind
  <2>4. Classified(R, price) =
          [paid |-> price, platform |-> a.amount, net |-> price - a.amount, debt |-> a.amount]
    BY <1>5, <2>2, <2>3 DEF Classified
  <2>5. /\ Classified(R, price).paid = price /\ Classified(R, price).platform = a.amount
        /\ Classified(R, price).net = price - a.amount
    BY <2>4
  <2>6. price = Abs(a.amount + (price - a.amount)) /\ ~ (a.amount + (price - a.amount) < 0)
    BY <2>1 DEF Abs
  <2> QED BY <1>5, <2>1, <2>3, <2>5, <2>6
<1> QED BY <1>2, <1>3, <1>4, <1>5 DEF EventKinds

\* Rows of an Engagement with a stamp that no other event shares are one event.
LEMMA UntiedIsEvent ==
  ASSUME LedgerInv, NEW r \in ledger, NEW rows, r \in rows, ~ Tied(rows),
         \A s : s \in rows <=> s \in ledger /\ s.e = r.e /\ s.at = r.at
  PROVE  /\ IsEvent(rows)
         /\ Kind(rows) = "PROFESSIONAL_CANCELLATION" => AmountOf(rows, "REFUND") > 0
<1>1. ledger \subseteq Entry /\ EventsAreWhole /\ job \in [Engagements -> Job]
  BY DEF LedgerInv, LedgerTyped
<1>2. r.e \in Engagements /\ r.by \in EventKinds
  BY <1>1 DEF Entry
<1>3. PICK R : R = EventRows(r.e, r.by)
  OBVIOUS
<1>4. r \in R /\ R \subseteq Entry /\ Whole(R, r.by)
  BY <1>1, <1>2, <1>3 DEF EventsAreWhole, EventRows, RowsOf
<1>5. job[r.e].price \in Nat
  <2>1. job[r.e].price \in Prices
    BY <1>1, <1>2 DEF Job
  <2>2. \A x \in Prices : x \in Nat
    BY LedgerAssumption
  <2> QED BY <2>1, <2>2, Zenon
<1>6. /\ Kind(R) = r.by
      /\ Classified(R, job[r.e].price).paid
           = Abs(Classified(R, job[r.e].price).platform + Classified(R, job[r.e].price).net)
      /\ Classified(R, job[r.e].price).platform + Classified(R, job[r.e].price).net < 0
           => r.by = "CUSTOMER_CANCELLATION"
      /\ r.by = "PROFESSIONAL_CANCELLATION" => AmountOf(R, "REFUND") > 0
      /\ \A x, s \in R : x.at = s.at
  BY <1>2, <1>4, <1>5, WholeIsClassified
<1>7. rows = R
  <2>1. ASSUME NEW s \in rows
        PROVE  s \in R
    <3>1. s \in RowsOf(r.e) /\ s.at = r.at
      BY DEF RowsOf
    <3>2. s.by = r.by
      BY <3>1 DEF Tied
    <3> QED BY <1>3, <3>1, <3>2 DEF EventRows
  <2>2. ASSUME NEW s \in R
        PROVE  s \in rows
    BY <1>3, <1>4, <1>6 DEF EventRows, RowsOf
  <2> QED BY <2>1, <2>2
<1> QED BY <1>3, <1>6, <1>7 DEF IsEvent, EventRows

\* A fetch ends within a stamp, and has every later row.
LEMMA FetchedUpToACut ==
  ASSUME LedgerInv, NEW S \in Fetches
  PROVE  /\ S \subseteq ledger
         /\ Size <= Cap => S = ledger
         /\ Size > Cap => \E cut \in Int :
              /\ \A r \in S : r.at >= cut
              /\ \A r \in ledger : r.at > cut => r \in S
<1>0. ledger \subseteq Entry /\ IsFiniteSet(ledger)
  BY DEF LedgerInv, LedgerTyped
<1>1. Cap \in Nat \ {0} /\ MaxNow \in Nat
  BY LedgerAssumption
<1>2. Size \in Nat
  BY <1>0, FS_CardinalityType DEF Size
<1>3. \A r \in ledger : r.at \in 0..MaxNow
  BY <1>0 DEF Entry
<1>4. CASE Size <= Cap
  BY <1>1, <1>2, <1>4 DEF Fetches
<1>5. CASE ~ (Size <= Cap)
  <2> DEFINE Few == {t \in Nat : Cardinality(After(t)) < Cap}
             Ends(t) == Cardinality(After(t)) < Cap /\ Cardinality(After(t) \cup At(t)) >= Cap
  <2>1. \A t : Cardinality(After(t)) \in Nat
    <3>1. \A t : IsFiniteSet(After(t))
      BY <1>0, FS_Subset DEF After
    <3> QED BY <3>1, FS_CardinalityType
  <2>2. MaxNow \in Few
    <3>1. After(MaxNow) = {}
      BY <1>1, <1>3 DEF After
    <3>2. Cardinality({}) = 0
      BY FS_EmptySet
    <3> QED BY <1>1, <3>1, <3>2
  <2>3. PICK t \in Few : \A s \in Few : t <= s
    <3>1. Few \in SUBSET Nat /\ Few # {}
      BY <2>2
    <3> HIDE DEF Few
    <3> QED BY <3>1, SmallestNumber
  <2>4. t \in Nat /\ t <= MaxNow /\ t \in 0..MaxNow
    BY <1>1, <2>2, <2>3
  <2>5. Ends(t)
    <3>1. CASE t = 0
      <4>1. After(0) \cup At(0) = ledger
        BY <1>3 DEF After, At
      <4> QED BY <1>1, <1>2, <1>5, <2>3, <3>1, <4>1 DEF Size
    <3>2. CASE t # 0
      <4>1. t - 1 \in Nat /\ ~ (t <= t - 1)
        BY <2>4, <3>2
      <4>2. t - 1 \notin Few
        BY <2>3, <4>1
      <4>3. ~ (Cardinality(After(t - 1)) < Cap)
        BY <4>1, <4>2
      <4>4. After(t - 1) = After(t) \cup At(t)
        BY <1>3, <2>4 DEF After, At
      <4>5. Cardinality(After(t - 1)) >= Cap
        BY <1>1, <2>1, <4>3
      <4> QED BY <2>3, <4>4, <4>5
    <3> QED BY <3>1, <3>2
  <2>6. PICK cut \in 0..MaxNow : cut = CHOOSE s \in 0..MaxNow : Ends(s)
    BY <2>4, <2>5
  <2>7. PICK P \in kSubset(Cap - Cardinality(After(cut)), At(cut)) : S = After(cut) \cup P
    BY <1>5, <2>6 DEF Fetches
  <2>8. P \subseteq At(cut)
    BY <2>7 DEF kSubset
  <2>9. S \subseteq ledger
    BY <2>7, <2>8 DEF After, At
  <2>10. \A r \in S : r.at >= cut
    BY <1>3, <2>7, <2>8, <2>9 DEF After, At
  <2>11. \A r \in ledger : r.at > cut => r \in S
    BY <2>7 DEF After
  <2> QED BY <1>5, <2>9, <2>10, <2>11
<1> QED BY <1>4, <1>5

\* A line of the administrators' list, and a summary, is one whole event, unless two
\* events share a stamp or the fetch was cut there.
THEOREM LinesAreEventsHolds == LedgerSpec => []LinesAreEvents
<1>1. ASSUME LedgerInv, NEW S \in Fetches, NEW r \in S, BeforeTheCut(S, r), ~ Tied(Group(S, r))
      PROVE  IsEvent(Group(S, r))
  <2>1. ledger \subseteq Entry
    BY <1>1 DEF LedgerInv, LedgerTyped
  <2>2. S \subseteq ledger /\ (Size <= Cap => S = ledger)
    BY <1>1, FetchedUpToACut
  <2>3. ASSUME NEW s \in ledger, s.e = r.e, s.at = r.at
        PROVE  s \in S
    <3>1. CASE Size <= Cap
      BY <2>2, <3>1
    <3>2. CASE ~ (Size <= Cap)
      <4>1. Size > Cap
        <5>1. Size \in Nat /\ Cap \in Nat
          BY <1>1, LedgerAssumption, FS_CardinalityType DEF Size, LedgerInv, LedgerTyped
        <5> QED BY <3>2, <5>1
      <4>2. PICK cut \in Int : (\A x \in S : x.at >= cut) /\ (\A x \in ledger : x.at > cut => x \in S)
        BY <1>1, <4>1, FetchedUpToACut
      <4>3. PICK x \in S : x.at < r.at
        BY <1>1, <3>2 DEF BeforeTheCut
      <4>4. x.at \in Int /\ r.at \in Int /\ s.at \in Int
        BY <2>1, <2>2 DEF Entry
      <4>5. s.at > cut
        BY <2>3, <4>2, <4>3, <4>4
      <4> QED BY <4>2, <4>5
    <3> QED BY <3>1, <3>2
  <2>4. \A s : s \in Group(S, r) <=> s \in ledger /\ s.e = r.e /\ s.at = r.at
    BY <2>2, <2>3 DEF Group
  <2> QED BY <1>1, <2>2, <2>4, UntiedIsEvent
<1>2. ASSUME LedgerInv, NEW e \in Engagements, LastEvent(e) # {}, ~ Tied(LastEvent(e))
      PROVE  /\ IsEvent(LastEvent(e))
             /\ CustomerView(e).total = ProfessionalView(e).gross
             /\ CustomerView(e).refund > 0 <=> Kind(LastEvent(e)) = "PROFESSIONAL_CANCELLATION"
  <2>1. PICK rows : rows = LastEvent(e)
    OBVIOUS
  <2>2. PICK r \in rows : TRUE
    BY <1>2, <2>1
  <2>3. r \in ledger /\ r.e = e /\ \A s \in RowsOf(e) : s.at <= r.at
    BY <2>1, <2>2 DEF LastEvent, RowsOf
  <2>4. \A s \in ledger : s.at \in Int
    BY <1>2 DEF LedgerInv, LedgerTyped, Entry
  <2>5. \A s : s \in rows <=> s \in ledger /\ s.e = r.e /\ s.at = r.at
    BY <2>1, <2>2, <2>3, <2>4 DEF LastEvent, RowsOf
  <2>6. IsEvent(rows) /\ (Kind(rows) = "PROFESSIONAL_CANCELLATION" => AmountOf(rows, "REFUND") > 0)
    BY <1>2, <2>1, <2>2, <2>3, <2>5, UntiedIsEvent
  <2>7. /\ CustomerView(e).total = Classified(rows, job[e].price).paid
        /\ ProfessionalView(e).gross = Classified(rows, job[e].price).paid
        /\ CustomerView(e).refund = IF Kind(rows) = "PROFESSIONAL_CANCELLATION" THEN AmountOf(rows, "REFUND") ELSE 0
    BY <1>2, <2>1 DEF CustomerView, ProfessionalView
  <2> QED BY <2>1, <2>6, <2>7
<1>3. LedgerInv => LinesAreEvents
  BY <1>1, <1>2 DEF LinesAreEvents
<1> QED BY <1>3, LedgerInvariant, PTL

\* The figures of a summary are amounts.
LEMMA FiguresType ==
  ASSUME LedgerInv, NEW R, R \subseteq ledger, NEW price \in Prices
  PROVE  /\ Classified(R, price).paid \in Nat /\ Classified(R, price).platform \in Int
         /\ Classified(R, price).net \in Int /\ Classified(R, price).debt \in Int
         /\ AmountOf(R, "REFUND") \in Nat
<1>1. ledger \subseteq Entry /\ EventsAreWhole
  BY DEF LedgerInv, LedgerTyped
<1>2. ASSUME NEW r \in ledger
      PROVE  r.amount \in Int /\ (r.type = "REFUND" => r.amount \in Nat)
  <2>1. r.e \in Engagements /\ r.by \in EventKinds /\ r.amount \in Int
    BY <1>1 DEF Entry
  <2>2. PICK E : E = EventRows(r.e, r.by)
    OBVIOUS
  <2>3. r \in E /\ Whole(E, r.by)
    BY <1>1, <2>1, <2>2 DEF EventsAreWhole, EventRows, RowsOf
  <2>4. ASSUME NEW type \in {"CUSTOMER_CHARGE", "CUSTOMER_CANCELLATION_FEE"}, IsSplit(E, type)
        PROVE  r.type # "REFUND"
    BY <2>3, <2>4 DEF IsSplit, IsRow
  <2>5. CASE r.by = "DIGITAL_PAYMENT"
    BY <2>1, <2>3, <2>4, <2>5 DEF Whole
  <2>6. CASE r.by = "CUSTOMER_CANCELLATION"
    <3>1. IsSplit(E, "CUSTOMER_CANCELLATION_FEE")
      BY <2>3, <2>6 DEF Whole
    <3> QED BY <2>1, <2>4, <3>1
  <2>7. CASE r.by = "PROFESSIONAL_CANCELLATION"
    BY <2>1, <2>3, <2>7 DEF Whole, IsRow
  <2>8. CASE r.by = "CASH_PAYMENT"
    BY <2>1, <2>3, <2>8 DEF Whole, IsRow
  <2> QED BY <2>1, <2>5, <2>6, <2>7, <2>8 DEF EventKinds
<1>3. ASSUME NEW type
      PROVE  AmountOf(R, type) \in Int /\ (type = "REFUND" => AmountOf(R, type) \in Nat)
  <2>1. CASE \E r \in R : r.type = type
    <3>1. PICK r \in R : r.type = type /\ AmountOf(R, type) = r.amount
      BY <2>1 DEF AmountOf
    <3> QED BY <1>2, <3>1
  <2>2. CASE ~ \E r \in R : r.type = type
    <3>1. AmountOf(R, type) = 0
      BY <2>2 DEF AmountOf
    <3> QED BY <3>1
  <2> QED BY <2>1, <2>2
<1>4. price \in Nat
  BY LedgerAssumption
<1>5. ASSUME NEW type \in {"CUSTOMER_CHARGE", "CUSTOMER_CANCELLATION_FEE"}
      PROVE  LET f == ReadSplit(R, AmountOf(R, type)) IN
             f.paid \in Nat /\ f.platform \in Int /\ f.net \in Int /\ f.debt \in Int
  BY <1>3 DEF ReadSplit, Abs
<1>6. CASE Kind(R) = "CASH_PAYMENT"
  <2>1. PICK debt \in Int : debt = AmountOf(R, "CASH_COMMISSION_DEBT")
    BY <1>3
  <2>2. Classified(R, price) = [paid |-> price, platform |-> debt, net |-> price - debt, debt |-> debt]
    BY <1>6, <2>1 DEF Classified
  <2> QED BY <1>3, <1>4, <2>2
<1>7. CASE Kind(R) = "CUSTOMER_CANCELLATION"
  <2>1. Classified(R, price) = ReadSplit(R, AmountOf(R, "CUSTOMER_CANCELLATION_FEE"))
    BY <1>7 DEF Classified
  <2> QED BY <1>3, <1>5, <2>1
<1>8. CASE Kind(R) = "PROFESSIONAL_CANCELLATION"
  <2>1. Classified(R, price) = [paid |-> 0, platform |-> 0, net |-> 0, debt |-> 0]
    BY <1>8 DEF Classified
  <2> QED BY <1>3, <2>1
<1>9. CASE Kind(R) = "DIGITAL_PAYMENT"
  <2>1. Classified(R, price) = ReadSplit(R, AmountOf(R, "CUSTOMER_CHARGE"))
    BY <1>9 DEF Classified
  <2> QED BY <1>3, <1>5, <2>1
<1> QED BY <1>6, <1>7, <1>8, <1>9 DEF Kind

\* The types of the books and of what is read from them.
THEOREM LedgerTypeCorrect == LedgerSpec => []LedgerTypeOK
<1>1. ASSUME LedgerInv, NEW e \in Engagements
      PROVE  CustomerView(e) \in CustomerModel /\ ProfessionalView(e) \in ProfessionalModel
  <2>1. PICK rows : rows = LastEvent(e)
    OBVIOUS
  <2>2. PICK price : price = job[e].price
    OBVIOUS
  <2>3. rows \subseteq ledger /\ price \in Prices /\ price \in Nat
    BY <1>1, <2>1, <2>2, LedgerAssumption DEF LastEvent, RowsOf, LedgerInv, LedgerTyped, Job
  <2>4. PICK f : f = Classified(rows, price)
    OBVIOUS
  <2>5. /\ f.paid \in Nat /\ f.platform \in Int /\ f.net \in Int /\ f.debt \in Int
        /\ AmountOf(rows, "REFUND") \in Nat
    BY <1>1, <2>3, <2>4, FiguresType
  <2>6. CustomerView(e) \in CustomerModel
    BY <2>1, <2>2, <2>3, <2>4, <2>5 DEF CustomerView, CustomerModel
  <2>7. ProfessionalView(e) \in ProfessionalModel
    BY <2>1, <2>2, <2>3, <2>4, <2>5 DEF ProfessionalView, ProfessionalModel
  <2> QED BY <2>6, <2>7
<1>2. LedgerInv => LedgerTypeOK
  BY <1>1 DEF LedgerTypeOK, LedgerInv, LedgerTyped
<1> QED BY <1>2, LedgerInvariant, PTL
====
