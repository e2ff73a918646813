------------------------- MODULE DiskEnsembleProofs -------------------------
(***************************************************************************)
(* Proofs about the ranking of DiskEnsemble, for any finite population,    *)
(* drafts, limits, list and chunk sizes.                                   *)
(*                                                                         *)
(* EnsembleInv has one part for each pass: what was read belongs to all    *)
(* ledgers (ReadInv), the q-values made so far are those of the validation *)
(* from the largest p-value down to the place the loop is at (AdjustInv),  *)
(* the list of Tier B is the best of what was read (TierInv), rows and     *)
(* chunks hold what was read (EmitInv), and what is ranked comes before    *)
(* all that waits in heap and chunks (MergeInv).  The parts are proved     *)
(* apart and meet in PublishedIsExpected.                                  *)
(***************************************************************************)
EXTENDS DiskEnsemble, FiniteSetTheorems, TLAPS

(***************************************************************************)
(* Orders                                                                  *)
(***************************************************************************)

\* A total order has a first element on every finite set: of the sets of
\* predecessors one is minimal.
LEMMA FirstExists ==
  ASSUME NEW P, IsFiniteSet(P), P # {}, NEW R,
         \A x \in P : <<x, x>> \notin R,
         \A x, y, z \in P : <<x, y>> \in R /\ <<y, z>> \in R => <<x, z>> \in R,
         \A x, y \in P : x = y \/ <<x, y>> \in R \/ <<y, x>> \in R
  PROVE  \E m \in P : \A r \in P : r = m \/ <<m, r>> \in R
<1> DEFINE Pred(x) == {y \in P : <<y, x>> \in R}
           F == {Pred(x) : x \in P}
<1>1. IsWellFoundedOn(StrictSubsetOrdering(P), SUBSET P)
  BY FS_StrictSubsetOrderingWellFounded, FS_FiniteSubsetsOfFinite
<1>2. F \subseteq SUBSET P /\ F # {}
  <2>1. \A x \in P : Pred(x) \in SUBSET P
    OBVIOUS
  <2>2. PICK x \in P : TRUE
    OBVIOUS
  <2>3. Pred(x) \in F
    OBVIOUS
  <2> HIDE DEF Pred
  <2> QED BY <2>1, <2>3
<1> HIDE DEF F
<1>3. PICK T \in F : \A U \in F : <<U, T>> \notin StrictSubsetOrdering(P)
  BY <1>1, <1>2, WFMin
<1>4. PICK m \in P : T = Pred(m)
  BY <1>3 DEF F
<1>5. ASSUME NEW r \in P, r # m, <<m, r>> \notin R
      PROVE  FALSE
  <2>1. <<r, m>> \in R
    BY <1>5
  <2>2. Pred(r) \subseteq Pred(m)
    BY <2>1
  <2>3. r \in Pred(m) /\ r \notin Pred(r)
    BY <2>1
  <2>4. Pred(r) \in F /\ Pred(r) \in SUBSET P /\ Pred(m) \in SUBSET P
    BY DEF F
  <2>5. <<Pred(r), Pred(m)>> \in StrictSubsetOrdering(P)
    BY <2>2, <2>3, <2>4 DEF StrictSubsetOrdering
  <2> QED BY <1>3, <1>4, <2>4, <2>5
<1> QED BY <1>5

\* What the assumption says of one draft.
LEMMA DraftFacts ==
  ASSUME EnsembleTypeOK, NEW p \in Pair
  PROVE  /\ draft[p].score \in Nat /\ p \in Nat
         /\ \A s \in Scope : draft[p].p[s] \in 0..One
         /\ \A s \in Scope, k \in 1..Cardinality(Pair) : draft[p].p[s] % k = 0
<1>1. draft[p] \in Draft /\ p \in Nat
  BY EnsembleAssumption DEF EnsembleTypeOK
<1>2. draft[p].score \in Nat /\ draft[p].p \in [Scope -> 0..One]
  BY <1>1, EnsembleAssumption
<1>3. \A s \in Scope, k \in 1..Cardinality(Pair) : draft[p].p[s] % k = 0
  BY <1>1, EnsembleAssumption
<1> QED BY <1>1, <1>2, <1>3

\* Every part of the population is finite, and its size a number.
LEMMA PairsAreFinite ==
  ASSUME NEW P \in SUBSET Pair
  PROVE  IsFiniteSet(P) /\ Cardinality(P) \in Nat /\ Cardinality(P) <= Cardinality(Pair)
         /\ Cardinality(Pair) \in Nat
BY EnsembleAssumption, FS_Subset, FS_CardinalityType

\* The order of the ranking is total and strict.
LEMMA BeforeIsOrder ==
  ASSUME EnsembleTypeOK
  PROVE  /\ \A p \in Pair : ~Before(p, p)
         /\ \A p, r, t \in Pair : Before(p, r) /\ Before(r, t) => Before(p, t)
         /\ \A p, r \in Pair : p = r \/ Before(p, r) \/ Before(r, p)
         /\ \A p, r \in Pair : ~(Before(p, r) /\ Before(r, p))
BY DraftFacts DEF Before

\* So is the order of the p-values of a scope.
LEMMA SmallerIsOrder ==
  ASSUME EnsembleTypeOK, NEW s \in Scope
  PROVE  /\ \A p \in Pair : ~Smaller(s, p, p)
         /\ \A p, r, t \in Pair : Smaller(s, p, r) /\ Smaller(s, r, t) => Smaller(s, p, t)
         /\ \A p, r \in Pair : p = r \/ Smaller(s, p, r) \/ Smaller(s, r, p)
         /\ \A p, r \in Pair : ~(Smaller(s, p, r) /\ Smaller(s, r, p))
<1>1. \A p \in Pair : p \in Nat /\ draft[p].p[s] \in Nat
  BY DraftFacts, EnsembleAssumption
<1> QED BY <1>1 DEF Smaller

\* A set of pairs has a least identifier: the one the ledgers come to next.
LEMMA LeastPairExists ==
  ASSUME NEW P \in SUBSET Pair, P # {}
  PROVE  \E m \in P : \A r \in P : m <= r
<1> DEFINE R == {x \in P \X P : x[1] < x[2]}
<1>1. IsFiniteSet(P) /\ \A x \in P : x \in Nat
  BY PairsAreFinite, EnsembleAssumption
<1>2. \A x, y \in P : <<x, y>> \in R <=> x < y
  OBVIOUS
<1> HIDE DEF R
<1>3. \E m \in P : \A r \in P : r = m \/ <<m, r>> \in R
  <2>1. /\ \A x \in P : <<x, x>> \notin R
        /\ \A x, y, z \in P : <<x, y>> \in R /\ <<y, z>> \in R => <<x, z>> \in R
        /\ \A x, y \in P : x = y \/ <<x, y>> \in R \/ <<y, x>> \in R
    BY <1>1, <1>2
  <2> QED BY <1>1, <2>1, FirstExists
<1>4. PICK m \in P : \A r \in P : r = m \/ <<m, r>> \in R
  BY <1>3
<1>5. ASSUME NEW r \in P PROVE m <= r
  <2>1. m \in Nat /\ r \in Nat
    BY <1>1
  <2>2. CASE r = m
    BY <2>1, <2>2
  <2>3. CASE <<m, r>> \in R
    <3>1. m < r
      BY <1>2, <2>3
    <3> QED BY <2>1, <3>1
  <2> QED BY <1>4, <2>2, <2>3
<1> QED BY <1>5

\* A set of pairs has one that every other is before.
LEMMA LastExists ==
  ASSUME EnsembleTypeOK, NEW P \in SUBSET Pair, P # {}
  PROVE  \E m \in P : \A r \in P : r = m \/ Before(r, m)
<1> DEFINE R == {x \in P \X P : Before(x[2], x[1])}
<1>1. IsFiniteSet(P)
  BY PairsAreFinite
<1>2. \A x, y \in P : <<x, y>> \in R <=> Before(y, x)
  OBVIOUS
<1> HIDE DEF R
<1>3. \E m \in P : \A r \in P : r = m \/ <<m, r>> \in R
  <2>1. /\ \A x \in P : <<x, x>> \notin R
        /\ \A x, y, z \in P : <<x, y>> \in R /\ <<y, z>> \in R => <<x, z>> \in R
        /\ \A x, y \in P : x = y \/ <<x, y>> \in R \/ <<y, x>> \in R
    BY <1>2, BeforeIsOrder
  <2> QED BY <1>1, <2>1, FirstExists
<1> QED BY <1>2, <1>3

(***************************************************************************)
(* The bounded list                                                        *)
(***************************************************************************)

\* T is the best of P, as many as the list holds.
Top(T, P) ==
  /\ T \subseteq P
  /\ \A t \in T, p \in P \ T : Before(t, p)
  /\ Cardinality(T) <= TierBSize
  /\ T # P => Cardinality(T) = TierBSize

\* A list that is too long is cut to its size, by its last.
LEMMA TrimDropsLast ==
  ASSUME EnsembleTypeOK, NEW P \in SUBSET Pair, Cardinality(P) > TierBSize
  PROVE  \E m \in P : /\ \A r \in P : r = m \/ Before(r, m)
                      /\ Trimmed(P) = P \ {m}
<1>1. IsFiniteSet(P) /\ P # {}
  BY PairsAreFinite, FS_EmptySet, EnsembleAssumption
<1>2. PICK m \in P : \A r \in P : r = m \/ Before(r, m)
  BY <1>1, LastExists
<1>3. {r \in P : \E x \in P : Before(r, x)} = P \ {m}
  BY <1>2, BeforeIsOrder
<1> QED BY <1>2, <1>3 DEF Trimmed

\* The list stays the best of the pairs seen when one more is offered.
LEMMA TopGrows ==
  ASSUME EnsembleTypeOK, NEW P \in SUBSET Pair, NEW T, Top(T, P),
         NEW p \in Pair \ P
  PROVE  Top(Trimmed(T \cup {p}), P \cup {p})
<1> DEFINE U == T \cup {p}
<1>1. T \subseteq P /\ T \subseteq Pair /\ U \in SUBSET Pair
  BY DEF Top
<1>2. Cardinality(U) = Cardinality(T) + 1 /\ Cardinality(T) \in Nat
  BY <1>1, PairsAreFinite, FS_AddElement
<1>3. TierBSize \in Nat
  BY EnsembleAssumption
<1>4. CASE Cardinality(U) <= TierBSize
  <2>1. Trimmed(U) = U
    BY <1>2, <1>3, <1>4 DEF Trimmed
  <2>2. T = P
    BY <1>2, <1>3, <1>4 DEF Top
  <2> QED BY <1>4, <2>1, <2>2 DEF Top
<1>5. CASE Cardinality(U) > TierBSize
  <2>1. PICK m \in U : /\ \A r \in U : r = m \/ Before(r, m)
                       /\ Trimmed(U) = U \ {m}
    BY <1>1, <1>5, TrimDropsLast
  <2>2. Cardinality(T) = TierBSize
    BY <1>2, <1>3, <1>5 DEF Top
  <2>3. Cardinality(U \ {m}) = TierBSize
    BY <1>1, <1>2, <2>1, <2>2, <1>3, PairsAreFinite, FS_RemoveElement
  <2>4. ASSUME NEW t \in U \ {m}, NEW x \in (P \cup {p}) \ (U \ {m})
        PROVE  Before(t, x)
    <3>1. Before(t, m)
      BY <2>1, <2>4
    <3>2. CASE x = m
      BY <3>1, <3>2
    <3>3. CASE x # m
      <4>1. x \in P \ T
        BY <2>4, <3>3
      <4>2. CASE t = p
        <5>1. m \in T
          BY <2>4, <4>2
        <5>2. Before(m, x)
          BY <4>1, <5>1 DEF Top
        <5> QED BY <3>1, <5>2, <1>1, <4>1, <2>4, BeforeIsOrder
      <4>3. CASE t # p
        BY <4>1, <4>3, <2>4 DEF Top
      <4> QED BY <4>2, <4>3
    <3> QED BY <3>2, <3>3
  <2> QED BY <1>1, <2>1, <2>3, <2>4, <1>3 DEF Top
<1> QED BY <1>2, <1>3, <1>4, <1>5

\* The members of the list are the pairs whose place in the pool is small
\* enough, and their place in the list is their place in the pool.
LEMMA TopIsExpected ==
  ASSUME EnsembleTypeOK, NEW P \in SUBSET Pair, NEW T, Top(T, P)
  PROVE  /\ T = {p \in P : ExpectedPlace(P, p) <= TierBSize}
         /\ \A p \in T : ExpectedPlace(P, p) = Cardinality({r \in T : Before(r, p)}) + 1
<1> DEFINE Pre(p) == {r \in P : Before(r, p)}
<1>1. T \subseteq P /\ T \in SUBSET Pair /\ TierBSize \in Nat
  BY EnsembleAssumption DEF Top
<1>2. ASSUME NEW p \in T
      PROVE  /\ Pre(p) = {r \in T : Before(r, p)}
             /\ Cardinality(Pre(p)) + 1 <= TierBSize
  <2>1. Pre(p) = {r \in T : Before(r, p)}
    BY <1>1, <1>2, BeforeIsOrder DEF Top
  <2>2. Pre(p) \subseteq T \ {p}
    BY <1>1, <1>2, <2>1, BeforeIsOrder
  <2>3. Cardinality(T \ {p}) = Cardinality(T) - 1 /\ Cardinality(T) \in Nat
        /\ IsFiniteSet(T \ {p})
    BY <1>1, <1>2, PairsAreFinite, FS_RemoveElement
  <2>4. Cardinality(Pre(p)) <= Cardinality(T \ {p}) /\ Cardinality(Pre(p)) \in Nat
    BY <2>2, <2>3, FS_Subset, FS_CardinalityType
  <2> QED BY <1>1, <2>1, <2>3, <2>4 DEF Top
<1>3. ASSUME NEW p \in P \ T
      PROVE  ~(Cardinality(Pre(p)) + 1 <= TierBSize)
  <2>1. T \subseteq Pre(p) /\ Cardinality(T) = TierBSize
    BY <1>1, <1>3 DEF Top
  <2>2. Pre(p) \in SUBSET Pair
    OBVIOUS
  <2>3. IsFiniteSet(Pre(p)) /\ Cardinality(Pre(p)) \in Nat
    BY <2>2, PairsAreFinite
  <2>4. Cardinality(T) <= Cardinality(Pre(p))
    BY <2>1, <2>3, FS_Subset
  <2> QED BY <1>1, <2>1, <2>3, <2>4
<1>4. \A p : ExpectedPlace(P, p) = Cardinality(Pre(p)) + 1
  BY DEF ExpectedPlace
<1> QED BY <1>1, <1>2, <1>3, <1>4

(***************************************************************************)
(* Places and quotients                                                    *)
(***************************************************************************)

\* A multiple divided is exact.
LEMMA Exact ==
  ASSUME NEW a \in Nat, NEW k \in Nat \ {0}, a % k = 0
  PROVE  a \div k \in Nat /\ a = k * (a \div k)
OBVIOUS

\* To multiply by a positive number keeps the order.
LEMMA Scaling ==
  ASSUME NEW a \in Nat, NEW b \in Nat, NEW k \in Nat \ {0}
  PROVE  a <= b <=> k * a <= k * b
OBVIOUS

\* Places lie between 1 and the size of the population, in the order of the p-values.
LEMMA PlaceIsOrder ==
  ASSUME EnsembleTypeOK, NEW s \in Scope, NEW p \in Population, NEW r \in Population
  PROVE  /\ PlaceOf(s, p) \in 1..Cardinality(Population)
         /\ PlaceOf(s, p) \in 1..Cardinality(Pair)
         /\ PlaceOf(s, p) <= PlaceOf(s, r) <=> (r = p \/ Smaller(s, p, r))
<1> DEFINE Upto(x) == {y \in Population : y = x \/ Smaller(s, y, x)}
<1>1. Population \in SUBSET Pair
  BY DEF EnsembleTypeOK, Population, Ledger
<1>2. \A x \in Population : /\ Upto(x) \in SUBSET Population /\ x \in Upto(x)
                           /\ IsFiniteSet(Upto(x)) /\ Cardinality(Upto(x)) \in Nat
  BY <1>1, PairsAreFinite
<1>3. ASSUME NEW x \in Population, NEW y \in Population, Smaller(s, x, y)
      PROVE  Cardinality(Upto(x)) < Cardinality(Upto(y))
  <2>1. Upto(x) \subseteq Upto(y)
    BY <1>1, <1>3, SmallerIsOrder
  <2>2. y \notin Upto(x)
    BY <1>1, <1>3, SmallerIsOrder
  <2>3. Upto(x) # Upto(y)
    BY <1>2, <2>2
  <2> QED BY <1>2, <2>1, <2>3, FS_Subset
<1>4. \A x : PlaceOf(s, x) = Cardinality(Upto(x))
  BY DEF PlaceOf
<1>5. /\ Cardinality(Upto(p)) # 0
      /\ Cardinality(Upto(p)) <= Cardinality(Population)
      /\ Cardinality(Upto(p)) <= Cardinality(Pair)
      /\ Cardinality(Population) \in Nat /\ Cardinality(Pair) \in Nat
  <2>1. IsFiniteSet(Population) /\ IsFiniteSet(Pair)
    BY <1>1, PairsAreFinite
  <2>2. Upto(p) # {}
    BY <1>2
  <2> QED BY <1>1, <1>2, <2>1, <2>2, FS_EmptySet, FS_Subset, FS_CardinalityType
<1>6. p = r \/ Smaller(s, p, r) \/ Smaller(s, r, p)
  BY <1>1, SmallerIsOrder
<1>7. Cardinality(Upto(p)) \in Nat /\ Cardinality(Upto(r)) \in Nat
  BY <1>2
<1>8. Smaller(s, p, r) => Cardinality(Upto(p)) < Cardinality(Upto(r))
  BY <1>3
<1>9. Smaller(s, r, p) => Cardinality(Upto(r)) < Cardinality(Upto(p))
  BY <1>3
<1> HIDE DEF Upto
<1> QED BY <1>4, <1>5, <1>6, <1>7, <1>8, <1>9

\* The whole share of a place, and what it comes to for the population.
LEMMA ShareFacts ==
  ASSUME EnsembleTypeOK, NEW s \in Scope, NEW p \in Population
  PROVE  /\ draft[p].p[s] \div PlaceOf(s, p) \in Nat
         /\ draft[p].p[s] = PlaceOf(s, p) * (draft[p].p[s] \div PlaceOf(s, p))
         /\ Cardinality(Population) * (draft[p].p[s] \div PlaceOf(s, p)) \in Nat
         /\ Quotient(s, p) \in 0..One
<1>1. p \in Pair
  BY DEF EnsembleTypeOK, Population, Ledger
<1>2. PlaceOf(s, p) \in 1..Cardinality(Pair) /\ PlaceOf(s, p) \in Nat \ {0}
      /\ Cardinality(Population) \in Nat
  <2>1. Population \in SUBSET Pair
    BY DEF EnsembleTypeOK, Population, Ledger
  <2>2. Cardinality(Population) \in Nat /\ Cardinality(Pair) \in Nat
    BY <2>1, PairsAreFinite
  <2>3. PlaceOf(s, p) \in 1..Cardinality(Pair)
    BY PlaceIsOrder
  <2> QED BY <2>2, <2>3
<1>3. draft[p].p[s] \in Nat /\ draft[p].p[s] % PlaceOf(s, p) = 0 /\ One \in Nat
  BY <1>1, <1>2, DraftFacts, EnsembleAssumption
<1> DEFINE t == draft[p].p[s] \div PlaceOf(s, p)
<1>4. t \in Nat /\ draft[p].p[s] = PlaceOf(s, p) * t
  BY <1>2, <1>3, Exact
<1> HIDE DEF t
<1>5. Cardinality(Population) * t \in Nat
  BY <1>2, <1>4
<1>6. AtMost(Cardinality(Population) * t, One) \in 0..One
  BY <1>3, <1>5 DEF AtMost
<1> QED BY <1>4, <1>5, <1>6 DEF t, Quotient

\* q is the least quotient from the place of p on.
IsAdjusted(s, p, q) ==
  /\ \A r \in Population : r = p \/ Smaller(s, p, r) => q <= Quotient(s, r)
  /\ \E r \in Population : (r = p \/ Smaller(s, p, r)) /\ q = Quotient(s, r)

\* Adjusted values are the q-values of the validation.
LEMMA AdjustedIsExpected ==
  ASSUME EnsembleTypeOK, NEW s \in Scope, NEW p \in Population, NEW q,
         IsAdjusted(s, p, q)
  PROVE  ExpectedQ(s, p) = q
<1> DEFINE Q == {Quotient(s, r) : r \in {x \in Population : PlaceOf(s, x) >= PlaceOf(s, p)}}
<1>1. \A r \in Population : PlaceOf(s, r) >= PlaceOf(s, p) <=> (r = p \/ Smaller(s, p, r))
  <2>1. \A r \in Population : PlaceOf(s, r) \in 1..Cardinality(Pair)
    BY PlaceIsOrder
  <2>2. Cardinality(Pair) \in Nat
    BY PairsAreFinite
  <2> QED BY <2>1, <2>2, PlaceIsOrder
<1>2. \A x \in Q : \E r \in Population : (r = p \/ Smaller(s, p, r)) /\ x = Quotient(s, r)
  BY <1>1
<1>3. \A r \in Population : (r = p \/ Smaller(s, p, r)) => Quotient(s, r) \in Q
  BY <1>1
<1>4. ExpectedQ(s, p) = CHOOSE x \in Q : \A y \in Q : x <= y
  BY DEF ExpectedQ
<1>5. \A x \in Q : x \in Nat
  <2>1. \A r \in Population : Quotient(s, r) \in Nat
    BY ShareFacts, EnsembleAssumption
  <2> QED BY <1>2, <2>1
<1> HIDE DEF Q
<1>6. q \in Q /\ \A x \in Q : q <= x
  BY <1>2, <1>3 DEF IsAdjusted
<1>7. \A x \in Q : (\A y \in Q : x <= y) => x = q
  BY <1>5, <1>6
<1> QED BY <1>4, <1>6, <1>7

\* The adjusted value is within the limit when some pair at this place or a
\* later one has a p-value within its place's share of it.
LEMMA AdjustedIsStepUp ==
  ASSUME EnsembleTypeOK, NEW s \in Scope, NEW p \in Population, NEW q,
         IsAdjusted(s, p, q)
  PROVE  q <= QLimit <=>
           \E r \in Population :
             /\ PlaceOf(s, p) <= PlaceOf(s, r)
             /\ Cardinality(Population) * draft[r].p[s] <= QLimit * PlaceOf(s, r)
<1>1. QLimit \in Nat /\ One \in Nat /\ QLimit < One
  BY EnsembleAssumption
<1>2. ASSUME NEW r \in Population
      PROVE  Quotient(s, r) <= QLimit <=>
               Cardinality(Population) * draft[r].p[s] <= QLimit * PlaceOf(s, r)
  <2> DEFINE t == draft[r].p[s] \div PlaceOf(s, r)
             k == PlaceOf(s, r)
             n == Cardinality(Population)
  <2>1. t \in Nat /\ draft[r].p[s] = k * t /\ n * t \in Nat
    BY ShareFacts
  <2>2. k \in Nat \ {0} /\ n \in Nat
    <3>1. Population \in SUBSET Pair
      BY DEF EnsembleTypeOK, Population, Ledger
    <3>2. n \in Nat /\ Cardinality(Pair) \in Nat
      BY <3>1, PairsAreFinite
    <3>3. k \in 1..Cardinality(Pair)
      BY PlaceIsOrder
    <3> QED BY <3>2, <3>3
  <2>3. Quotient(s, r) = AtMost(n * t, One)
    BY DEF Quotient
  <2> HIDE DEF t, k, n
  <2>4. Quotient(s, r) <= QLimit <=> n * t <= QLimit
    BY <1>1, <2>1, <2>3 DEF AtMost
  <2>5. n * t <= QLimit <=> k * (n * t) <= k * QLimit
    BY <1>1, <2>1, <2>2, Scaling
  <2>6. k * (n * t) = n * draft[r].p[s] /\ k * QLimit = QLimit * k
    <3>1. k * (n * t) = n * (k * t)
      BY <2>1, <2>2
    <3>2. k * QLimit = QLimit * k
      BY <1>1, <2>2
    <3> QED BY <2>1, <3>1, <3>2
  <2>7. Quotient(s, r) <= QLimit <=> n * draft[r].p[s] <= QLimit * k
    BY <2>4, <2>5, <2>6
  <2> QED BY <2>7 DEF k, n
<1>3. \A r \in Population : Quotient(s, r) \in Nat
  BY ShareFacts, EnsembleAssumption
<1>4. \A r \in Population : PlaceOf(s, p) <= PlaceOf(s, r) <=> (r = p \/ Smaller(s, p, r))
  BY PlaceIsOrder
<1>5. q \in Nat
  BY <1>3 DEF IsAdjusted
<1>6. q <= QLimit <=>
        \E r \in Population : (r = p \/ Smaller(s, p, r)) /\ Quotient(s, r) <= QLimit
  BY <1>1, <1>3, <1>5 DEF IsAdjusted
<1> QED BY <1>2, <1>4, <1>6

(***************************************************************************)
(* The inductive invariant                                                 *)
(***************************************************************************)

\* What the passes have read, and what they know when they have read it all.
ReadInv ==
  /\ phase \in {"gather", "tier", "emit"} => \A l \in Ledger : read \subseteq ledger[l]
  /\ phase = "gather" => read \cap faulty = {} /\ Cardinality(read) <= MaximumPairs
  /\ phase = "adjust" => read = Population
  /\ phase \notin {"gather", "refused"} => Sound /\ count = Cardinality(Population)
  /\ phase = "refused" => ~Sound

\* The pairs whose q-value of a scope is made.
Adjusted(s) ==
  {p \in Population :
     /\ phase \notin {"gather", "refused"}
     /\ phase = "adjust" => IF s = scope THEN p \notin left ELSE s = "full"}

\* What is left are the smallest p-values, the running minimum is the value of
\* the one before them, and every value made is the least quotient from there on.
AdjustInv ==
  /\ phase = "adjust" =>
       /\ left \subseteq Population
       /\ \A p \in left, r \in Population : Smaller(scope, r, p) => r \in left
       /\ \/ left = Population /\ running = One
          \/ \E p \in Population \ left :
               /\ running = qValue[scope][p]
               /\ \A r \in Population \ left : r = p \/ Smaller(scope, p, r)
  /\ \A s \in Scope : \A p \in Adjusted(s) : IsAdjusted(s, p, qValue[s][p])

\* The pairs of P that may be in Tier B.
PoolOf(P) == {p \in P : Reasons(p) # {} /\ draft[p].unknown /\ ~draft[p].basic}

TiersOf(P) == tierA = {p \in P : Reasons(p) = {}} /\ Top(tierB, PoolOf(P))

TierInv ==
  /\ phase \in {"gather", "adjust"} => tierA = {} /\ tierB = {}
  /\ phase = "tier" => TiersOf(read)
  /\ phase \in {"emit", "merge", "published", "validated"} => TiersOf(Population)

\* The pairs of P are in the buffer or in one of the chunks, none in two places.
Spread(P) ==
  /\ buffer \subseteq P
  /\ \A i \in 1..Len(chunk) : chunk[i] \subseteq P \ buffer
  /\ \A i, j \in 1..Len(chunk) : i # j => chunk[i] \cap chunk[j] = {}
  /\ \A p \in P : p \in buffer \/ \E i \in 1..Len(chunk) : p \in chunk[i]

EmitInv ==
  /\ phase \in {"gather", "adjust", "tier"} => lines = {} /\ buffer = {} /\ chunk = <<>>
  /\ phase = "emit" => lines = {Row(p) : p \in read} /\ Spread(read)
  /\ phase \in {"merge", "published", "validated"} => lines = {Row(p) : p \in Population}
  /\ phase \in {"gather", "adjust", "tier", "emit"} =>
       opened = 0 /\ heap = {} /\ merged = <<>>

\* What a chunk has left is behind its line in the heap, and every pair that is
\* not ranked is in one place.
Waiting ==
  /\ \A i, j \in 1..Len(chunk) : i # j => chunk[i] \cap chunk[j] = {}
  /\ \A i \in 1..Len(chunk) : chunk[i] \subseteq Population \ Ranked
  /\ \A h \in heap : /\ h[2] <= opened /\ h[1] \in Population \ Ranked
                     /\ \A p \in chunk[h[2]] : Before(h[1], p)
                     /\ \A i \in 1..Len(chunk) : h[1] \notin chunk[i]
  /\ \A g, h \in heap : g # h => g[1] # h[1] /\ g[2] # h[2]
  /\ \A i \in 1..opened : chunk[i] = {} \/ \E h \in heap : h[2] = i
  /\ \A p \in Population \ Ranked :
       (\E h \in heap : h[1] = p) \/ \E i \in 1..Len(chunk) : p \in chunk[i]
  /\ opened # Len(chunk) => merged = <<>>

\* What is ranked is before all the rest, and each in its place.
Placed ==
  /\ Ranked \subseteq Population /\ Cardinality(Ranked) = Len(merged)
  /\ \A p \in Ranked, r \in Population \ Ranked : Before(p, r)
  /\ \A i \in 1..Len(merged) : i = ExpectedPlace(Population, merged[i])

MergeInv ==
  /\ phase = "merge" => Waiting
  /\ phase \in {"merge", "published", "validated"} => Placed
  /\ phase \in {"published", "validated"} => Ranked = Population

\* The adjustment before it starts.
StartInv == phase = "gather" => scope = "full" /\ running = One

EnsembleInv ==
  /\ EnsembleTypeOK /\ ReadInv /\ StartInv /\ AdjustInv /\ TierInv /\ EmitInv /\ MergeInv
  /\ findings = {}

(***************************************************************************)
(* What does not change                                                    *)
(***************************************************************************)

\* No step changes what the ledgers hold.
LEMMA InputsStay ==
  ASSUME [EnsembleNext]_ensembleVars
  PROVE  UNCHANGED inputs
BY DEF EnsembleNext, ensembleVars, Gather, EndGather, Adjust, EndAdjust, Tier, EndTier, Emit,
       EndEmit, OpenChunk, Pop, StreamBreaks, PublishRanking, ValidateRanking

\* So all that is said of the ledgers alone stays.
LEMMA InputsSame ==
  ASSUME UNCHANGED inputs
  PROVE  /\ ledger' = ledger /\ draft' = draft /\ faulty' = faulty /\ claimed' = claimed
         /\ Population' = Population /\ Sound' = Sound
         /\ \A p, r : Before(p, r)' <=> Before(p, r)
         /\ \A s, p, r : Smaller(s, p, r)' <=> Smaller(s, p, r)
         /\ \A s, p : Quotient(s, p)' = Quotient(s, p)
         /\ \A s, p, q : IsAdjusted(s, p, q)' <=> IsAdjusted(s, p, q)
<1>1. ledger' = ledger /\ draft' = draft /\ faulty' = faulty /\ claimed' = claimed
  BY DEF inputs
<1>2. Population' = Population
  BY <1>1 DEF Population
<1>3. Sound' = Sound
  BY <1>1, <1>2 DEF Sound
<1>4. /\ \A p, r : Before(p, r)' <=> Before(p, r)
      /\ \A s, p, r : Smaller(s, p, r)' <=> Smaller(s, p, r)
  BY <1>1 DEF Before, Smaller
<1>5. \A s, p : PlaceOf(s, p)' = PlaceOf(s, p)
  BY <1>2, <1>4 DEF PlaceOf
<1>6. \A s, p : Quotient(s, p)' = Quotient(s, p)
  BY <1>1, <1>2, <1>5 DEF Quotient
<1>7. \A s, p, q : IsAdjusted(s, p, q)' <=> IsAdjusted(s, p, q)
  BY <1>2, <1>4, <1>6 DEF IsAdjusted
<1> QED BY <1>1, <1>2, <1>3, <1>4, <1>6, <1>7

\* Reasons depend on drafts and q-values only,
LEMMA ReasonsSame ==
  ASSUME UNCHANGED inputs, UNCHANGED qValue
  PROVE  \A p : Reasons(p)' = Reasons(p)
BY DEF inputs, Reasons

\* and rows on the list of Tier B besides.
LEMMA RowsSame ==
  ASSUME UNCHANGED inputs, UNCHANGED qValue, UNCHANGED tierB
  PROVE  \A p : TierBRank(p)' = TierBRank(p) /\ Row(p)' = Row(p)
<1>1. \A p, r : Before(p, r)' <=> Before(p, r)
  BY InputsSame
<1>2. \A p : TierBRank(p)' = TierBRank(p)
  BY <1>1 DEF TierBRank
<1> QED BY <1>2, ReasonsSame DEF Row

(***************************************************************************)
(* Types                                                                   *)
(***************************************************************************)

\* A turn of the loop keeps the q-values within 0 and One.
LEMMA AdjustType ==
  ASSUME EnsembleTypeOK, NEW p \in Pair, Adjust(p)
  PROVE  running' \in 0..One /\ qValue' = [qValue EXCEPT ![scope][p] = running']
<1> DEFINE t == draft[p].p[scope] \div Cardinality(left)
<1>1. Cardinality(left) \in Nat \ {0} /\ Cardinality(left) \in 1..Cardinality(Pair)
  BY PairsAreFinite, FS_EmptySet DEF EnsembleTypeOK, Adjust
<1>2. draft[p].p[scope] \in Nat /\ draft[p].p[scope] % Cardinality(left) = 0
  BY <1>1, DraftFacts, EnsembleAssumption DEF EnsembleTypeOK
<1>3. t \in Nat
  BY <1>1, <1>2, Exact
<1> HIDE DEF t
<1>4. count * t \in Nat /\ running \in 0..One /\ One \in Nat
  BY <1>3, EnsembleAssumption DEF EnsembleTypeOK
<1>5. AtMost(running, count * t) \in 0..One
  BY <1>4 DEF AtMost
<1> QED BY <1>5 DEF Adjust, t

\* Types hold at first,
LEMMA TypeInit ==
  EnsembleInit => EnsembleTypeOK
<1> SUFFICES ASSUME EnsembleInit PROVE EnsembleTypeOK
  OBVIOUS
<1>1. Cardinality(Pair) \in Nat /\ One \in Nat
  BY EnsembleAssumption, FS_CardinalityType
<1>2. qValue \in [Scope -> [Pair -> 0..One]]
  BY <1>1 DEF EnsembleInit
<1>3. chunk \in Seq(SUBSET Pair) /\ merged \in Seq(Pair) /\ Len(chunk) = 0
  BY DEF EnsembleInit
<1>4. claimed \in Nat
  BY <1>1 DEF EnsembleInit
<1> QED BY <1>1, <1>2, <1>3, <1>4 DEF EnsembleInit, EnsembleTypeOK, Phase, Scope

\* and every step keeps them.
LEMMA TypeStep ==
  ASSUME EnsembleTypeOK, [EnsembleNext]_ensembleVars
  PROVE  EnsembleTypeOK'
<1>0. UNCHANGED inputs
  BY InputsStay
<1> USE <1>0
<1>1. ASSUME NEW p \in Pair, Gather(p) PROVE EnsembleTypeOK'
  BY <1>1 DEF EnsembleTypeOK, Gather, Refuse, Phase, inputs, adjustment, tiers, chunks, merge
<1>2. ASSUME NEW p \in Pair, Adjust(p) PROVE EnsembleTypeOK'
  <2>1. running' \in 0..One /\ qValue' = [qValue EXCEPT ![scope][p] = running']
    BY <1>2, AdjustType
  <2>2. qValue' \in [Scope -> [Pair -> 0..One]]
    BY <2>1, <1>2 DEF EnsembleTypeOK
  <2> QED BY <1>2, <2>1, <2>2 DEF EnsembleTypeOK, Adjust, inputs, tiers, chunks, merge
<1>3. ASSUME NEW p \in Pair, Tier(p) PROVE EnsembleTypeOK'
  <2>1. tierB' \subseteq Pair /\ tierA' \subseteq Pair
    BY <1>3 DEF EnsembleTypeOK, Tier, Trimmed
  <2> QED BY <1>3, <2>1 DEF EnsembleTypeOK, Tier, inputs, adjustment, chunks, merge
<1>4. ASSUME NEW p \in Pair, Emit(p) PROVE EnsembleTypeOK'
  <2>1. CASE phase' = "refused" /\ UNCHANGED <<read, count, adjustment, tiers, chunks, merge>>
    BY <2>1 DEF EnsembleTypeOK, Phase, inputs, adjustment, tiers, chunks, merge
  <2>2. CASE /\ read' = read \cup {p} /\ UNCHANGED <<phase, count, adjustment, tiers, merge>>
             /\ chunk' = Append(chunk, buffer \cup {p}) /\ buffer' = {}
    <3>1. chunk' \in Seq(SUBSET Pair) /\ Len(chunk') = Len(chunk) + 1 /\ Len(chunk) \in Nat
      BY <2>2 DEF EnsembleTypeOK
    <3>2. opened' \in 0..Len(chunk') /\ heap' \subseteq Pair \X (1..Len(chunk'))
      BY <2>2, <3>1 DEF EnsembleTypeOK, merge
    <3> QED BY <2>2, <3>1, <3>2 DEF EnsembleTypeOK, inputs, adjustment, tiers, merge
  <2>3. CASE /\ read' = read \cup {p} /\ UNCHANGED <<phase, count, adjustment, tiers, merge>>
             /\ buffer' = buffer \cup {p} /\ UNCHANGED chunk
    BY <2>3 DEF EnsembleTypeOK, inputs, adjustment, tiers, merge
  <2> QED BY <1>4, <2>1, <2>2, <2>3 DEF Emit, Refuse
<1>5. ASSUME NEW p \in Pair, OpenChunk(p) PROVE EnsembleTypeOK'
  <2> DEFINE i == opened + 1
  <2>1. i \in 1..Len(chunk) /\ Len(chunk) \in Nat
    BY <1>5 DEF OpenChunk, EnsembleTypeOK
  <2>2. chunk' \in Seq(SUBSET Pair) /\ Len(chunk') = Len(chunk)
    <3>1. chunk[i] \ {p} \in SUBSET Pair
      BY <2>1 DEF EnsembleTypeOK
    <3> QED BY <1>5, <2>1, <3>1 DEF OpenChunk, EnsembleTypeOK
  <2>3. opened' \in 0..Len(chunk') /\ heap' \subseteq Pair \X (1..Len(chunk'))
    BY <1>5, <2>1, <2>2 DEF OpenChunk, EnsembleTypeOK
  <2> QED BY <1>5, <2>2, <2>3 DEF OpenChunk, EnsembleTypeOK, inputs, adjustment, tiers
<1>6. ASSUME NEW h \in heap, Pop(h) PROVE EnsembleTypeOK'
  <2>1. h[1] \in Pair /\ h[2] \in 1..Len(chunk)
    BY DEF EnsembleTypeOK
  <2>2. CASE phase' = "refused" /\ UNCHANGED <<read, count, adjustment, tiers, chunks, merge>>
    BY <2>2, <1>6 DEF Pop, EnsembleTypeOK, Phase, inputs, adjustment, tiers, chunks, merge
  <2>3. CASE /\ merged' = Append(merged, h[1]) /\ Refill(h)
             /\ UNCHANGED <<phase, read, count, adjustment, tiers, lines, buffer, opened>>
    <3>1. merged' \in Seq(Pair)
      BY <2>1, <2>3 DEF EnsembleTypeOK
    <3>2. /\ chunk' \in Seq(SUBSET Pair) /\ Len(chunk') = Len(chunk)
          /\ heap' \subseteq Pair \X (1..Len(chunk))
      <4>1. CASE heap' = heap \ {h} /\ UNCHANGED chunk
        BY <4>1 DEF EnsembleTypeOK
      <4>2. ASSUME NEW p \in chunk[h[2]], heap' = (heap \ {h}) \cup {<<p, h[2]>>},
                   chunk' = [chunk EXCEPT ![h[2]] = @ \ {p}]
            PROVE  /\ chunk' \in Seq(SUBSET Pair) /\ Len(chunk') = Len(chunk)
                   /\ heap' \subseteq Pair \X (1..Len(chunk))
        <5>1. chunk[h[2]] \in SUBSET Pair /\ chunk[h[2]] \ {p} \in SUBSET Pair
          BY <2>1 DEF EnsembleTypeOK
        <5> QED BY <2>1, <4>2, <5>1 DEF EnsembleTypeOK
      <4> QED BY <2>3, <4>1, <4>2 DEF Refill
    <3> QED BY <1>6, <2>3, <3>1, <3>2 DEF Pop, EnsembleTypeOK, inputs, adjustment, tiers
  <2> QED BY <1>6, <2>2, <2>3 DEF Pop, Refuse
<1>7. CASE StreamBreaks
  BY <1>7 DEF EnsembleTypeOK, StreamBreaks, Refuse, Phase, inputs, adjustment, tiers, chunks, merge
<1>8. CASE EndGather
  <2>1. Cardinality(read) \in Nat
    BY PairsAreFinite DEF EnsembleTypeOK
  <2> QED BY <1>8, <2>1 DEF EnsembleTypeOK, EndGather, Refuse, Phase, inputs, adjustment, tiers,
                            chunks, merge
<1>9. CASE EndAdjust
  <2>1. One \in 0..One
    BY EnsembleAssumption
  <2>2. scope' \in Scope /\ left' \subseteq Pair /\ running' \in 0..One
    BY <1>9, <2>1 DEF EnsembleTypeOK, EndAdjust, Scope, adjustment
  <2>3. qValue' = qValue /\ phase' \in Phase /\ read' \subseteq Pair
    BY <1>9 DEF EnsembleTypeOK, EndAdjust, Phase, adjustment
  <2> QED BY <1>9, <2>2, <2>3 DEF EnsembleTypeOK, EndAdjust, inputs, tiers, chunks, merge
<1>10. CASE EndTier
  BY <1>10 DEF EnsembleTypeOK, EndTier, Refuse, Phase, inputs, adjustment, tiers, chunks, merge
<1>11. CASE EndEmit
  <2>1. CASE phase' = "refused" /\ UNCHANGED <<read, count, adjustment, tiers, chunks, merge>>
    BY <2>1 DEF EnsembleTypeOK, Phase, inputs, adjustment, tiers, chunks, merge
  <2>2. CASE /\ phase' = "merge" /\ buffer' = {}
             /\ chunk' = IF buffer = {} THEN chunk ELSE Append(chunk, buffer)
             /\ UNCHANGED <<read, count, adjustment, tiers, lines, merge>>
    <3>1. chunk' \in Seq(SUBSET Pair) /\ Len(chunk') >= Len(chunk) /\ Len(chunk) \in Nat
          /\ Len(chunk') \in Nat
      BY <2>2 DEF EnsembleTypeOK
    <3>2. opened' \in 0..Len(chunk') /\ heap' \subseteq Pair \X (1..Len(chunk'))
      BY <2>2, <3>1 DEF EnsembleTypeOK, merge
    <3> QED BY <2>2, <3>1, <3>2 DEF EnsembleTypeOK, Phase, inputs, adjustment, tiers, merge
  <2> QED BY <1>11, <2>1, <2>2 DEF EndEmit, Refuse
<1>12. CASE PublishRanking
  BY <1>12 DEF EnsembleTypeOK, PublishRanking, Phase, inputs, adjustment, tiers, chunks, merge
<1>13. CASE ValidateRanking
  BY <1>13 DEF EnsembleTypeOK, ValidateRanking, Phase, inputs, adjustment, tiers, chunks, merge
<1>14. CASE UNCHANGED ensembleVars
  BY <1>14 DEF EnsembleTypeOK, ensembleVars, inputs, adjustment, tiers, chunks, merge
<1> QED BY <1>1, <1>2, <1>3, <1>4, <1>5, <1>6, <1>7, <1>8, <1>9, <1>10, <1>11, <1>12, <1>13,
           <1>14 DEF EnsembleNext

(***************************************************************************)
(* The passes                                                              *)
(***************************************************************************)

\* While ledgers that belong together have something unread, the first pair
\* of it can be drafted.
LEMMA SoundIsDrafted ==
  ASSUME EnsembleTypeOK, ReadInv, phase \in {"gather", "tier", "emit"}, Sound, ~Exhausted
  PROVE  \E p \in Pair : Drafted(p)
<1>1. \A l \in Ledger : ledger[l] = Population
  BY DEF Sound, Ledger, Population
<1>2. Population \subseteq Pair
  BY DEF EnsembleTypeOK, Population, Ledger
<1> DEFINE U == Population \ read
<1>3. \A l \in Ledger : Unread(l) = U
  BY <1>1 DEF Unread
<1>4. U # {} /\ U \in SUBSET Pair
  BY <1>2, <1>3 DEF Exhausted
<1>5. PICK p \in U : \A r \in U : p <= r
  BY <1>4, LeastPairExists
<1>6. p \in Pair /\ p \notin faulty
  BY <1>2 DEF Sound
<1> QED BY <1>3, <1>5, <1>6 DEF Drafted, Leads

\* When all is read, what was read is the population of every ledger.
LEMMA ReadIsPopulation ==
  ASSUME ReadInv, phase \in {"gather", "tier", "emit"}, Exhausted
  PROVE  read = Population /\ \A l \in Ledger : ledger[l] = read
BY DEF ReadInv, Exhausted, Unread, Ledger, Population

\* What was read belongs to every ledger, after every step.
LEMMA ReadStep ==
  ASSUME EnsembleInv, [EnsembleNext]_ensembleVars
  PROVE  ReadInv'
<1>1. /\ ledger' = ledger /\ faulty' = faulty /\ Population' = Population /\ Sound' = Sound
      /\ EnsembleTypeOK /\ ReadInv
  BY InputsStay, InputsSame DEF EnsembleInv
<1>2. ASSUME NEW p \in Pair, Gather(p) PROVE ReadInv'
  <2>1. /\ phase = "gather" /\ p \notin read /\ p \notin faulty
        /\ \A l \in Ledger : p \in ledger[l]
    BY <1>2 DEF Gather, Drafted, Leads, Unread, Ledger
  <2>2. IsFiniteSet(read) /\ Cardinality(read) \in Nat /\ MaximumPairs \in Nat
    BY <1>1, PairsAreFinite, EnsembleAssumption DEF EnsembleTypeOK
  <2>3. Cardinality(read \cup {p}) = Cardinality(read) + 1
    BY <2>1, <2>2, FS_AddElement
  <2>4. CASE Cardinality(read) >= MaximumPairs
    <3>1. read \cup {p} \subseteq Population /\ Population \in SUBSET Pair
      BY <1>1, <2>1 DEF ReadInv, Population, Ledger, EnsembleTypeOK
    <3>2. IsFiniteSet(Population) /\ Cardinality(Population) \in Nat
      BY <3>1, PairsAreFinite
    <3>3. Cardinality(read \cup {p}) <= Cardinality(Population)
      BY <3>1, <3>2, FS_Subset
    <3>4. ~Sound
      BY <2>2, <2>3, <2>4, <3>2, <3>3 DEF Sound
    <3> QED BY <1>1, <1>2, <2>4, <3>4 DEF Gather, Refuse, ReadInv
  <2>5. CASE ~(Cardinality(read) >= MaximumPairs)
    <3>1. read' = read \cup {p} /\ phase' = "gather"
      BY <1>2, <2>1, <2>5 DEF Gather
    <3>2. Cardinality(read') <= MaximumPairs
      BY <2>2, <2>3, <2>5, <3>1
    <3> QED BY <1>1, <2>1, <3>1, <3>2 DEF ReadInv
  <2> QED BY <2>4, <2>5
<1>3. ASSUME NEW p \in Pair, Adjust(p) PROVE ReadInv'
  BY <1>1, <1>3 DEF Adjust, ReadInv
<1>4. ASSUME NEW p \in Pair, Tier(p) PROVE ReadInv'
  <2>1. \A l \in Ledger : p \in ledger[l]
    BY <1>4 DEF Tier, Drafted, Leads, Unread, Ledger
  <2> QED BY <1>1, <1>4, <2>1 DEF Tier, ReadInv
<1>5. ASSUME NEW p \in Pair, Emit(p) PROVE ReadInv'
  <2>1. (\A l \in Ledger : p \in ledger[l]) /\ phase = "emit" /\ p \in Population /\ Sound
    BY <1>1, <1>5 DEF Emit, Drafted, Leads, Unread, Ledger, Population, ReadInv
  <2>2. ~(Reasons(p) = {} /\ TierBRank(p) # 0) /\ (p \in tierA) = (Reasons(p) = {})
    <3>1. tierA = {x \in Population : Reasons(x) = {}} /\ tierB \subseteq PoolOf(Population)
      BY <2>1 DEF EnsembleInv, TierInv, TiersOf, Top
    <3>2. TierBRank(p) # 0 => p \in tierB
      BY DEF TierBRank
    <3> QED BY <2>1, <3>1, <3>2 DEF PoolOf
  <2>3. read' = read \cup {p} /\ phase' = phase /\ count' = count
    BY <1>5, <2>2 DEF Emit
  <2> QED BY <1>1, <2>1, <2>3 DEF ReadInv
<1>6. ASSUME NEW p \in Pair, OpenChunk(p) PROVE ReadInv'
  BY <1>1, <1>6 DEF OpenChunk, ReadInv
<1>7. ASSUME NEW h \in heap, Pop(h) PROVE ReadInv'
  <2>1. phase = "merge" /\ Sound /\ Ranked \subseteq Population /\ h[1] \in Population \ Ranked
        /\ \A x \in Ranked, r \in Population \ Ranked : Before(x, r)
    BY <1>1, <1>7 DEF Pop, EnsembleInv, MergeInv, Waiting, Placed, ReadInv
  <2>2. merged # <<>> => Before(merged[Len(merged)], h[1])
    <3>1. merged # <<>> => merged[Len(merged)] \in Ranked
      BY <1>1 DEF Ranked, EnsembleTypeOK
    <3> QED BY <2>1, <3>1
  <2>3. UNCHANGED <<phase, read, count>>
    BY <1>7, <2>2 DEF Pop
  <2> QED BY <1>1, <2>1, <2>3 DEF ReadInv
<1>8. CASE StreamBreaks
  <2>1. ~Sound
    BY <1>1, <1>8, SoundIsDrafted DEF StreamBreaks
  <2> QED BY <1>1, <1>8, <2>1 DEF StreamBreaks, Refuse, ReadInv
<1>9. CASE EndGather
  <2>1. read = Population /\ (\A l \in Ledger : ledger[l] = read) /\ phase = "gather"
    BY <1>1, <1>9, ReadIsPopulation DEF EndGather
  <2>2. CASE read = {} \/ claimed # Cardinality(read)
    <3>1. ~Sound
      BY <2>1, <2>2 DEF Sound
    <3> QED BY <1>1, <1>9, <2>2, <3>1 DEF EndGather, Refuse, ReadInv
  <2>3. CASE ~(read = {} \/ claimed # Cardinality(read))
    <3>1. Sound
      BY <1>1, <2>1, <2>3 DEF Sound, ReadInv, Ledger
    <3> QED BY <1>1, <1>9, <2>1, <2>3, <3>1 DEF EndGather, ReadInv
  <2> QED BY <2>2, <2>3
<1>10. CASE EndAdjust
  BY <1>1, <1>10 DEF EndAdjust, ReadInv
<1>11. CASE EndTier
  <2>1. read = Population /\ phase = "tier"
    BY <1>1, <1>11, ReadIsPopulation DEF EndTier
  <2>2. Cardinality(read) = count /\ Sound
    BY <1>1, <2>1 DEF ReadInv
  <2>3. phase' = "emit" /\ read' = {} /\ count' = count
    BY <1>11, <2>2 DEF EndTier
  <2> QED BY <1>1, <2>1, <2>2, <2>3 DEF ReadInv
<1>12. CASE EndEmit
  <2>1. read = Population /\ phase = "emit" /\ Sound
    BY <1>1, <1>12, ReadIsPopulation DEF EndEmit, ReadInv
  <2>2. ~(chunk = <<>> /\ buffer = {})
    <3>1. Spread(Population) /\ Population # {}
      BY <2>1 DEF EnsembleInv, EmitInv, Sound
    <3> QED BY <3>1 DEF Spread
  <2>3. phase' = "merge" /\ count' = count
    BY <1>12, <2>2 DEF EndEmit, merge
  <2> QED BY <1>1, <2>1, <2>3 DEF ReadInv
<1>13. CASE PublishRanking
  <2>1. phase = "merge" /\ opened = Len(chunk) /\ heap = {}
    BY <1>13 DEF PublishRanking
  <2>2. Ranked = Population
    <3>1. \A i \in 1..Len(chunk) : chunk[i] = {}
      BY <2>1 DEF EnsembleInv, MergeInv, Waiting, Placed
    <3> QED BY <2>1, <3>1 DEF EnsembleInv, MergeInv, Waiting, Placed
  <2>3. Len(merged) = count
    BY <1>1, <2>1, <2>2 DEF EnsembleInv, MergeInv, Waiting, Placed, ReadInv
  <2>4. phase' = "published" /\ count' = count
    BY <1>13, <2>3 DEF PublishRanking
  <2> QED BY <1>1, <2>1, <2>4 DEF ReadInv
<1>14. CASE ValidateRanking
  BY <1>1, <1>14 DEF ValidateRanking, ReadInv
<1>15. CASE UNCHANGED ensembleVars
  BY <1>1, <1>15 DEF ensembleVars, ReadInv
<1> QED BY <1>2, <1>3, <1>4, <1>5, <1>6, <1>7, <1>8, <1>9, <1>10, <1>11, <1>12, <1>13,
           <1>14, <1>15 DEF EnsembleNext

(***************************************************************************)
(* The adjustment                                                          *)
(***************************************************************************)

\* A step that leaves the adjustment alone keeps what is known of it.
LEMMA AdjustFrame ==
  ASSUME AdjustInv, UNCHANGED inputs, UNCHANGED adjustment,
         \/ phase' = phase \/ phase' = "refused"
         \/ phase \notin {"gather", "adjust", "refused"} /\ phase' # "adjust"
  PROVE  AdjustInv'
<1>1. /\ Population' = Population /\ \A s, p, r : Smaller(s, p, r)' <=> Smaller(s, p, r)
      /\ \A s, p, q : IsAdjusted(s, p, q)' <=> IsAdjusted(s, p, q)
  BY InputsSame
<1>2. scope' = scope /\ left' = left /\ running' = running /\ qValue' = qValue
  BY DEF adjustment
<1>3. \A s \in Scope : Adjusted(s)' \subseteq Adjusted(s)
  BY <1>1, <1>2 DEF Adjusted
<1>4. \A s \in Scope : \A p \in Adjusted(s)' : IsAdjusted(s, p, qValue[s][p])'
  BY <1>1, <1>2, <1>3 DEF AdjustInv
<1>5. phase' = "adjust" => phase = "adjust"
  OBVIOUS
<1> QED BY <1>1, <1>2, <1>4, <1>5 DEF AdjustInv

\* One turn of the loop makes the value of the place it is at.
LEMMA TurnAdjusts ==
  ASSUME EnsembleTypeOK, ReadInv, AdjustInv, NEW p \in Pair, Adjust(p)
  PROVE  /\ p \in Population
         /\ IsAdjusted(scope, p, running')
<1>1. /\ phase = "adjust" /\ p \in left /\ left \subseteq Population /\ scope \in Scope
      /\ Population \in SUBSET Pair /\ running \in 0..One /\ One \in Nat
      /\ count = Cardinality(Population)
      /\ \A r \in left : r = p \/ Smaller(scope, r, p)
  BY EnsembleAssumption
     DEF Adjust, AdjustInv, ReadInv, EnsembleTypeOK, Population, Ledger
<1>2. left = {r \in Population : r = p \/ Smaller(scope, r, p)}
  BY <1>1 DEF AdjustInv
<1>3. PlaceOf(scope, p) = Cardinality(left)
  BY <1>2 DEF PlaceOf
<1> DEFINE x == Cardinality(Population) * (draft[p].p[scope] \div PlaceOf(scope, p))
<1>4. /\ running' = AtMost(running, x) /\ Quotient(scope, p) = AtMost(x, One) /\ x \in Nat
  BY <1>1, <1>3, ShareFacts DEF Adjust, Quotient
<1>5. \A r \in Population : Quotient(scope, r) \in 0..One
  BY <1>1, ShareFacts
<1>6. \A r \in Population : Smaller(scope, p, r) => r \notin left
  BY <1>1, SmallerIsOrder
<1> HIDE DEF x
<1>7. running' = AtMost(running, Quotient(scope, p))
  BY <1>1, <1>4 DEF AtMost
<1>8. CASE left = Population /\ running = One
  <2>1. running' = Quotient(scope, p)
    BY <1>1, <1>5, <1>7, <1>8 DEF AtMost
  <2> QED BY <1>1, <1>5, <1>6, <1>8, <2>1 DEF IsAdjusted
<1>9. ASSUME NEW w \in Population \ left, running = qValue[scope][w],
             \A r \in Population \ left : r = w \/ Smaller(scope, w, r)
      PROVE  IsAdjusted(scope, p, running')
  <2>1. Smaller(scope, p, w)
    BY <1>1, <1>2, <1>9, SmallerIsOrder
  <2>2. IsAdjusted(scope, w, running)
    BY <1>1, <1>9 DEF AdjustInv, Adjusted
  <2>3. \A r \in Population : Smaller(scope, p, r) => running <= Quotient(scope, r)
    BY <1>6, <1>9, <2>2 DEF IsAdjusted
  <2>4. PICK v \in Population : (v = w \/ Smaller(scope, w, v)) /\ running = Quotient(scope, v)
    BY <2>2 DEF IsAdjusted
  <2>5. Smaller(scope, p, v)
    BY <1>1, <2>1, <2>4, SmallerIsOrder
  <2>6. running' \in Int /\ running' <= running /\ running' <= Quotient(scope, p)
        /\ (running' = running \/ running' = Quotient(scope, p))
    BY <1>1, <1>5, <1>7 DEF AtMost
  <2>7. \A r \in Population : r = p \/ Smaller(scope, p, r) => running' <= Quotient(scope, r)
    BY <1>1, <1>5, <2>3, <2>6
  <2>8. \E r \in Population : (r = p \/ Smaller(scope, p, r)) /\ running' = Quotient(scope, r)
    BY <1>1, <2>4, <2>5, <2>6
  <2> QED BY <2>7, <2>8 DEF IsAdjusted
<1> QED BY <1>1, <1>8, <1>9 DEF AdjustInv

\* The q-values of the places passed are final, after every step.
LEMMA AdjustStep ==
  ASSUME EnsembleInv, [EnsembleNext]_ensembleVars
  PROVE  AdjustInv'
<1>1. UNCHANGED inputs
  BY InputsStay
<1>2. /\ Population' = Population /\ \A s, p, r : Smaller(s, p, r)' <=> Smaller(s, p, r)
      /\ \A s, p, q : IsAdjusted(s, p, q)' <=> IsAdjusted(s, p, q)
      /\ EnsembleTypeOK /\ ReadInv /\ AdjustInv
      /\ Population \in SUBSET Pair
  BY <1>1, InputsSame DEF EnsembleInv, EnsembleTypeOK, Population, Ledger
<1>3. ASSUME NEW p \in Pair, Adjust(p) PROVE AdjustInv'
  <2>1. /\ phase = "adjust" /\ phase' = "adjust" /\ p \in left /\ scope' = scope
        /\ left' = left \ {p} /\ scope \in Scope /\ left \subseteq Population
        /\ \A r \in left : r = p \/ Smaller(scope, r, p)
    BY <1>2, <1>3 DEF Adjust, AdjustInv, EnsembleTypeOK
  <2>2. qValue' = [qValue EXCEPT ![scope][p] = running']
    BY <1>2, <1>3, AdjustType
  <2>3. qValue \in [Scope -> [Pair -> 0..One]]
    BY <1>2 DEF EnsembleTypeOK
  <2>4. /\ qValue'[scope][p] = running'
        /\ \A s \in Scope, r \in Pair : s # scope \/ r # p => qValue'[s][r] = qValue[s][r]
    BY <2>1, <2>2, <2>3
  <2>5. IsAdjusted(scope, p, running')
    BY <1>2, <1>3, TurnAdjusts
  <2>6. \A r \in left', x \in Population : Smaller(scope, x, r) => x \in left'
    BY <1>2, <2>1, SmallerIsOrder DEF AdjustInv
  <2>7. /\ p \in Population \ left' /\ running' = qValue'[scope][p]
        /\ \A r \in Population \ left' : r = p \/ Smaller(scope, p, r)
    <3>1. ASSUME NEW r \in Population \ left PROVE Smaller(scope, p, r)
      BY <1>2, <2>1, <3>1, SmallerIsOrder DEF AdjustInv
    <3> QED BY <2>1, <2>4, <3>1
  <2>8. ASSUME NEW s \in Scope, NEW r \in Adjusted(s)' PROVE IsAdjusted(s, r, qValue[s][r])'
    <3>1. r \in Population /\ r \in Pair
      BY <1>2, <2>8 DEF Adjusted
    <3>2. CASE s = scope /\ r = p
      BY <1>2, <2>4, <2>5, <3>2
    <3>3. CASE ~(s = scope /\ r = p)
      <4>1. r \in Adjusted(s)
        BY <1>2, <2>1, <2>8, <3>1, <3>3 DEF Adjusted
      <4>2. IsAdjusted(s, r, qValue[s][r])
        BY <1>2, <4>1 DEF AdjustInv
      <4>3. qValue'[s][r] = qValue[s][r]
        BY <2>4, <3>1, <3>3
      <4> QED BY <1>2, <4>2, <4>3
    <3> QED BY <3>2, <3>3
  <2>9. left' \subseteq Population'
    BY <1>2, <2>1
  <2> QED BY <1>2, <2>1, <2>6, <2>7, <2>8, <2>9 DEF AdjustInv
<1>4. CASE EndGather
  <2>1. CASE phase' = "refused" /\ UNCHANGED adjustment
    BY <1>1, <1>2, <2>1, AdjustFrame
  <2>2. CASE phase' = "adjust" /\ left' = read /\ UNCHANGED <<scope, running, qValue>>
    <3>1. phase = "gather" /\ read = Population
      BY <1>2, <1>4, ReadIsPopulation DEF EndGather
    <3>2. scope = "full" /\ running = One
      BY <3>1 DEF EnsembleInv, StartInv
    <3>3. \A s \in Scope : Adjusted(s)' = {}
      BY <1>2, <2>2, <3>1, <3>2 DEF Adjusted, Scope
    <3> QED BY <1>2, <2>2, <3>1, <3>2, <3>3 DEF AdjustInv
  <2> QED BY <1>4, <2>1, <2>2 DEF EndGather, Refuse
<1>5. CASE EndAdjust
  <2>1. phase = "adjust" /\ left = {} /\ read = Population /\ qValue' = qValue
    BY <1>2, <1>5 DEF EndAdjust, ReadInv, adjustment
  <2>2. CASE scope = "full"
    <3>1. scope' = "remove_all_english" /\ left' = Population /\ running' = One /\ phase' = "adjust"
      BY <1>5, <2>1, <2>2 DEF EndAdjust
    <3>2. \A s \in Scope : Adjusted(s)' \subseteq Adjusted(s)
      BY <1>2, <2>1, <2>2, <3>1 DEF Adjusted, Scope
    <3>3. \A s \in Scope : \A p \in Adjusted(s)' : IsAdjusted(s, p, qValue[s][p])'
      BY <1>2, <2>1, <3>2 DEF AdjustInv
    <3> QED BY <1>2, <3>1, <3>3 DEF AdjustInv
  <2>3. CASE scope # "full"
    <3>1. phase' = "tier" /\ scope' = scope /\ left' = left
      BY <1>5, <2>3 DEF EndAdjust, adjustment
    <3>2. \A s \in Scope : Adjusted(s)' \subseteq Adjusted(s)
      BY <1>2, <2>1, <2>3, <3>1 DEF Adjusted, Scope, EnsembleTypeOK
    <3>3. \A s \in Scope : \A p \in Adjusted(s)' : IsAdjusted(s, p, qValue[s][p])'
      BY <1>2, <2>1, <3>2 DEF AdjustInv
    <3> QED BY <1>2, <3>1, <3>3 DEF AdjustInv
  <2> QED BY <2>2, <2>3
<1>6. CASE UNCHANGED adjustment /\ (phase' \in {phase, "refused"} \/
             (phase \in {"tier", "emit", "merge", "published"} /\ phase' # "adjust"))
  BY <1>1, <1>2, <1>6, AdjustFrame
<1>7. ASSUME NEW p \in Pair, Gather(p) \/ Tier(p) \/ Emit(p) \/ OpenChunk(p)
      PROVE  UNCHANGED adjustment /\ phase' \in {phase, "refused"}
  BY <1>7 DEF Gather, Tier, Emit, OpenChunk, Refuse
<1>8. ASSUME NEW h \in heap, Pop(h)
      PROVE  UNCHANGED adjustment /\ phase' \in {phase, "refused"}
  BY <1>8 DEF Pop, Refuse
<1>9. ASSUME StreamBreaks \/ EndTier \/ EndEmit \/ PublishRanking \/ ValidateRanking
      PROVE  UNCHANGED adjustment /\ (phase' \in {phase, "refused"} \/
               (phase \in {"tier", "emit", "merge", "published"} /\ phase' # "adjust"))
  BY <1>9 DEF StreamBreaks, EndTier, EndEmit, PublishRanking, ValidateRanking, Refuse
<1>10. ASSUME UNCHANGED ensembleVars
       PROVE  UNCHANGED adjustment /\ phase' = phase
  BY <1>10 DEF ensembleVars
<1> QED BY <1>3, <1>4, <1>5, <1>6, <1>7, <1>8, <1>9, <1>10 DEF EnsembleNext

\* What a later pass makes is empty before that pass.
LEMMA StartStep ==
  ASSUME EnsembleInv, [EnsembleNext]_ensembleVars
  PROVE  StartInv'
<1>1. phase' = "gather" => phase = "gather" /\ UNCHANGED adjustment
  BY DEF EnsembleNext, ensembleVars, Gather, EndGather, Adjust, EndAdjust, Tier, EndTier, Emit,
         EndEmit, OpenChunk, Pop, StreamBreaks, PublishRanking, ValidateRanking, Refuse
<1> QED BY <1>1 DEF EnsembleInv, StartInv, adjustment

(***************************************************************************)
(* The tiers                                                               *)
(***************************************************************************)

\* A step that reads nothing keeps what is known of the tiers.
LEMMA TiersFrame ==
  ASSUME UNCHANGED inputs, UNCHANGED qValue, UNCHANGED tiers, NEW P, TiersOf(P)
  PROVE  TiersOf(P)'
<1>1. /\ draft' = draft /\ tierA' = tierA /\ tierB' = tierB
      /\ \A p, r : Before(p, r)' <=> Before(p, r)
      /\ \A p : Reasons(p)' = Reasons(p)
  BY InputsSame, ReasonsSame DEF tiers
<1>2. PoolOf(P)' = PoolOf(P)
  BY <1>1 DEF PoolOf
<1> QED BY <1>1, <1>2 DEF TiersOf, Top

\* Tier A and the best of the others are those of what was read, after every step.
LEMMA TierStep ==
  ASSUME EnsembleInv, [EnsembleNext]_ensembleVars
  PROVE  TierInv'
<1>1. UNCHANGED inputs
  BY InputsStay
<1>2. /\ Population' = Population /\ draft' = draft
      /\ \A p, r : Before(p, r)' <=> Before(p, r)
      /\ EnsembleTypeOK /\ ReadInv /\ TierInv
  BY <1>1, InputsSame DEF EnsembleInv
<1>3. ASSUME NEW p \in Pair, Tier(p) PROVE TierInv'
  <2>1. /\ phase = "tier" /\ phase' = "tier" /\ p \notin read /\ read' = read \cup {p}
        /\ qValue' = qValue /\ TiersOf(read) /\ read \subseteq Pair
    BY <1>2, <1>3 DEF Tier, TierInv, Drafted, Leads, Unread, Ledger, adjustment, EnsembleTypeOK
  <2>2. \A x : Reasons(x)' = Reasons(x)
    BY <1>1, <2>1, ReasonsSame
  <2>3. tierA' = {x \in read' : Reasons(x)' = {}}
    BY <1>3, <2>1, <2>2 DEF Tier, TiersOf
  <2>4. CASE Reasons(p) # {} /\ draft[p].unknown /\ ~draft[p].basic
    <3>1. PoolOf(read)' = PoolOf(read) \cup {p}
      BY <1>2, <2>1, <2>2, <2>4 DEF PoolOf
    <3>2. tierB' = Trimmed(tierB \cup {p})
      BY <1>3, <2>4 DEF Tier
    <3>3. PoolOf(read) \in SUBSET Pair /\ p \in Pair \ PoolOf(read)
      BY <2>1 DEF PoolOf
    <3>4. Top(tierB', PoolOf(read) \cup {p})
      BY <1>2, <2>1, <3>2, <3>3, TopGrows DEF TiersOf
    <3>5. Top(tierB, PoolOf(read))'
      BY <1>2, <3>1, <3>4 DEF Top
    <3> QED BY <2>1, <2>3, <3>5 DEF TierInv, TiersOf
  <2>5. CASE ~(Reasons(p) # {} /\ draft[p].unknown /\ ~draft[p].basic)
    <3>1. PoolOf(read)' = PoolOf(read)
      BY <1>2, <2>1, <2>2, <2>5 DEF PoolOf
    <3>2. tierB' = tierB
      BY <1>3, <2>5 DEF Tier
    <3>3. Top(tierB, PoolOf(read))'
      BY <1>2, <2>1, <3>1, <3>2 DEF TiersOf, Top
    <3> QED BY <2>1, <2>3, <3>3 DEF TierInv, TiersOf
  <2> QED BY <2>4, <2>5
<1>4. CASE EndAdjust
  <2>1. UNCHANGED tiers /\ phase = "adjust" /\ phase' \in {"adjust", "tier"}
        /\ (phase' = "tier" => read' = {})
    BY <1>4 DEF EndAdjust
  <2>2. tierA' = {} /\ tierB' = {}
    BY <1>2, <2>1 DEF TierInv, tiers
  <2>3. phase' = "tier" => TiersOf(read)'
    <3>1. Cardinality({}) = 0 /\ TierBSize \in Nat
      BY FS_EmptySet, EnsembleAssumption
    <3>2. phase' = "tier" => read' = {} /\ PoolOf(read)' = {}
      BY <2>1 DEF PoolOf
    <3> QED BY <2>2, <3>1, <3>2 DEF TiersOf, Top
  <2> QED BY <2>1, <2>2, <2>3 DEF TierInv
<1>5. CASE EndTier
  <2>1. /\ phase = "tier" /\ read = Population /\ TiersOf(read)
        /\ phase' \in {"emit", "refused"} /\ UNCHANGED tiers /\ UNCHANGED qValue
    BY <1>2, <1>5, ReadIsPopulation DEF EndTier, Refuse, TierInv, adjustment
  <2>2. TiersOf(Population)'
    <3>1. TiersOf(Population)
      BY <2>1
    <3>2. \A P : TiersOf(P) => TiersOf(P)'
      BY <1>1, <2>1, TiersFrame
    <3> QED BY <1>2, <3>1, <3>2
  <2> QED BY <2>1, <2>2 DEF TierInv
<1>6. ASSUME UNCHANGED tiers, 
             \/ phase' = phase /\ (phase = "tier" => read' = read)
             \/ phase' = "refused"
             \/ phase = "gather" /\ phase' = "adjust"
             \/ /\ phase \in {"emit", "merge", "published"}
                /\ phase' \in {"merge", "published", "validated"},
             phase \in {"tier", "emit", "merge", "published", "validated"} => UNCHANGED qValue
      PROVE  TierInv'
  <2>1. CASE phase \in {"gather", "adjust"}
    BY <1>2, <1>6, <2>1 DEF TierInv, tiers
  <2>2. CASE phase = "tier"
    <3>1. \A P : TiersOf(P) => TiersOf(P)'
      BY <1>1, <1>6, <2>2, TiersFrame
    <3> QED BY <1>2, <1>6, <2>2, <3>1 DEF TierInv
  <2>3. CASE phase \in {"emit", "merge", "published", "validated"}
    <3>1. \A P : TiersOf(P) => TiersOf(P)'
      BY <1>1, <1>6, <2>3, TiersFrame
    <3> QED BY <1>2, <1>6, <2>3, <3>1 DEF TierInv
  <2>4. CASE phase = "refused"
    BY <1>6, <2>4 DEF TierInv
  <2> QED BY <1>2, <2>1, <2>2, <2>3, <2>4 DEF EnsembleTypeOK, Phase
<1>7. ASSUME NEW p \in Pair, Gather(p) \/ Adjust(p) \/ Emit(p) \/ OpenChunk(p)
      PROVE  /\ UNCHANGED tiers /\ phase \in {"gather", "adjust", "emit", "merge"}
             /\ phase' \in {phase, "refused"} /\ (phase \in {"emit", "merge"} => qValue' = qValue)
  BY <1>7 DEF Gather, Adjust, Emit, OpenChunk, Refuse, adjustment
<1>8. ASSUME NEW h \in heap, Pop(h)
      PROVE  /\ UNCHANGED tiers /\ phase = "merge"
             /\ phase' \in {phase, "refused"} /\ qValue' = qValue
  BY <1>8 DEF Pop, Refuse, adjustment
<1>9. ASSUME StreamBreaks PROVE UNCHANGED tiers /\ phase' = "refused" /\ qValue' = qValue
  BY <1>9 DEF StreamBreaks, Refuse, adjustment
<1>10. ASSUME EndGather \/ EndEmit \/ PublishRanking \/ ValidateRanking
       PROVE  /\ UNCHANGED tiers /\ qValue' = qValue
              /\ \/ phase' = "refused"
                 \/ phase = "gather" /\ phase' = "adjust"
                 \/ phase \in {"emit", "merge", "published"}
                    /\ phase' \in {"merge", "published", "validated"}
  BY <1>10 DEF EndGather, EndEmit, PublishRanking, ValidateRanking, Refuse, adjustment
<1>11. ASSUME UNCHANGED ensembleVars
       PROVE  UNCHANGED tiers /\ phase' = phase /\ read' = read /\ qValue' = qValue
  BY <1>11 DEF ensembleVars, adjustment
<1> QED BY <1>3, <1>4, <1>5, <1>6, <1>7, <1>8, <1>9, <1>10, <1>11 DEF EnsembleNext

(***************************************************************************)
(* The chunks                                                              *)
(***************************************************************************)

\* Rows, buffer and chunks hold what the third pass read, after every step.
LEMMA EmitStep ==
  ASSUME EnsembleInv, [EnsembleNext]_ensembleVars
  PROVE  EmitInv'
<1>1. UNCHANGED inputs
  BY InputsStay
<1>2. Population' = Population /\ EnsembleTypeOK /\ ReadInv /\ EmitInv
  BY <1>1, InputsSame DEF EnsembleInv
<1>3. UNCHANGED qValue /\ UNCHANGED tierB => \A p : Row(p)' = Row(p)
  BY <1>1, RowsSame
<1>4. ASSUME NEW p \in Pair, Emit(p) PROVE EmitInv'
  <2>1. CASE phase' = "refused"
    BY <2>1 DEF EmitInv
  <2>2. CASE phase' # "refused"
    <3>1. /\ phase = "emit" /\ phase' = "emit" /\ read' = read \cup {p} /\ p \notin read
          /\ lines' = lines \cup {Row(p)} /\ UNCHANGED merge /\ UNCHANGED <<qValue, tierB>>
      BY <1>4, <2>2 DEF Emit, Refuse, Drafted, Leads, Unread, Ledger, adjustment, tiers
    <3>2. lines' = {Row(x)' : x \in read'}
      <4>1. \A x : Row(x)' = Row(x)
        BY <1>3, <3>1
      <4>2. lines = {Row(x) : x \in read}
        BY <1>2, <3>1 DEF EmitInv
      <4>3. {Row(x)' : x \in read'} = {Row(x) : x \in read'}
        BY <4>1
      <4> QED BY <3>1, <4>2, <4>3
    <3>3. Spread(read) /\ chunk \in Seq(SUBSET Pair) /\ Len(chunk) \in Nat
      BY <1>2, <3>1 DEF EmitInv, EnsembleTypeOK
    <3>4. CASE chunk' = Append(chunk, buffer \cup {p}) /\ buffer' = {}
      <4>1. /\ Len(chunk') = Len(chunk) + 1 /\ chunk'[Len(chunk) + 1] = buffer \cup {p}
            /\ \A i \in 1..Len(chunk) : chunk'[i] = chunk[i]
        BY <3>3, <3>4
      <4>2. \A i \in 1..Len(chunk') : i \in 1..Len(chunk) \/ i = Len(chunk) + 1
        BY <3>3, <4>1
      <4>3. \A i \in 1..Len(chunk') : chunk'[i] \subseteq read'
        BY <3>1, <3>3, <4>1, <4>2 DEF Spread
      <4>4. \A i \in 1..Len(chunk) : chunk[i] \cap (buffer \cup {p}) = {}
        BY <3>1, <3>3 DEF Spread
      <4>5. \A i, j \in 1..Len(chunk') : i # j => chunk'[i] \cap chunk'[j] = {}
        BY <3>3, <4>1, <4>2, <4>4 DEF Spread
      <4>6. \A x \in read' : \E i \in 1..Len(chunk') : x \in chunk'[i]
        <5>1. ASSUME NEW x \in read' PROVE \E i \in 1..Len(chunk') : x \in chunk'[i]
          <6>1. CASE x \in buffer \cup {p}
            <7>1. Len(chunk) + 1 \in 1..Len(chunk')
              BY <3>3, <4>1
            <7> QED BY <4>1, <6>1, <7>1
          <6>2. CASE x \notin buffer \cup {p}
            <7>1. PICK i \in 1..Len(chunk) : x \in chunk[i]
              BY <3>1, <3>3, <6>2 DEF Spread
            <7>2. i \in 1..Len(chunk')
              BY <3>3, <4>1
            <7> QED BY <4>1, <7>1, <7>2
          <6> QED BY <6>1, <6>2
        <5> QED BY <5>1
      <4>7. Spread(read)'
        BY <3>4, <4>3, <4>5, <4>6 DEF Spread
      <4> QED BY <1>2, <3>1, <3>2, <4>7 DEF EmitInv, merge
    <3>5. CASE buffer' = buffer \cup {p} /\ UNCHANGED chunk
      <4>1. Spread(read)'
        BY <3>1, <3>3, <3>5 DEF Spread
      <4> QED BY <1>2, <3>1, <3>2, <4>1 DEF EmitInv, merge
    <3> QED BY <1>4, <2>2, <3>4, <3>5 DEF Emit, Refuse
  <2> QED BY <2>1, <2>2
<1>5. CASE EndTier
  <2>1. /\ phase = "tier" /\ phase' \in {"emit", "refused"} /\ (phase' = "emit" => read' = {})
        /\ UNCHANGED <<chunks, merge>>
    BY <1>5 DEF EndTier, Refuse
  <2>2. lines' = {} /\ buffer' = {} /\ chunk' = <<>> /\ opened' = 0 /\ heap' = {} /\ merged' = <<>>
    BY <1>2, <2>1 DEF EmitInv, chunks, merge
  <2>3. phase' = "emit" => Spread(read)' /\ lines' = {Row(x)' : x \in read'}
    <3>1. Len(chunk') = 0
      BY <2>2
    <3> QED BY <2>1, <2>2, <3>1 DEF Spread
  <2> QED BY <2>1, <2>2, <2>3 DEF EmitInv
<1>6. CASE EndEmit
  <2>1. /\ phase = "emit" /\ read = Population /\ phase' \in {"merge", "refused"}
        /\ UNCHANGED <<qValue, tierB>> /\ lines' = lines
    BY <1>2, <1>6, ReadIsPopulation DEF EndEmit, Refuse, adjustment, tiers, chunks
  <2>2. lines' = {Row(x)' : x \in Population'}
    <3>1. lines = {Row(x) : x \in Population}
      BY <1>2, <2>1 DEF EmitInv
    <3>2. \A x : Row(x)' = Row(x)
      BY <1>3, <2>1
    <3>3. {Row(x)' : x \in Population} = {Row(x) : x \in Population}
      BY <3>2
    <3> QED BY <1>2, <2>1, <3>1, <3>3
  <2> QED BY <2>1, <2>2 DEF EmitInv
<1>7. ASSUME phase \in {"gather", "adjust", "tier"},
             phase' \in {"gather", "adjust", "tier", "refused"},
             UNCHANGED <<chunks, merge>>
      PROVE  EmitInv'
  BY <1>2, <1>7 DEF EmitInv, chunks, merge
<1>8. ASSUME phase \in {"merge", "published", "validated"},
             phase' \in {"merge", "published", "validated", "refused"},
             UNCHANGED <<lines, qValue, tierB>>
      PROVE  EmitInv'
  <2>1. lines = {Row(x) : x \in Population}
    BY <1>2, <1>8 DEF EmitInv
  <2>2. \A x : Row(x)' = Row(x)
    BY <1>3, <1>8
  <2>3. {Row(x)' : x \in Population} = {Row(x) : x \in Population}
    BY <2>2
  <2> QED BY <1>2, <1>8, <2>1, <2>3 DEF EmitInv
<1>9. ASSUME phase' = "refused" PROVE EmitInv'
  BY <1>9 DEF EmitInv
<1>10. ASSUME NEW p \in Pair, Gather(p) \/ Adjust(p) \/ Tier(p)
       PROVE  /\ phase \in {"gather", "adjust", "tier"} /\ phase' \in {phase, "refused"}
              /\ UNCHANGED <<chunks, merge>>
  BY <1>10 DEF Gather, Adjust, Tier, Refuse
<1>11. ASSUME EndGather \/ EndAdjust
       PROVE  /\ phase \in {"gather", "adjust"} /\ phase' \in {"adjust", "tier", "refused"}
              /\ UNCHANGED <<chunks, merge>>
  BY <1>11 DEF EndGather, EndAdjust, Refuse
<1>12. ASSUME NEW p \in Pair, OpenChunk(p)
       PROVE  phase = "merge" /\ phase' = "merge" /\ UNCHANGED <<lines, qValue, tierB>>
  BY <1>12 DEF OpenChunk, adjustment, tiers
<1>13. ASSUME NEW h \in heap, Pop(h)
       PROVE  /\ phase = "merge" /\ phase' \in {"merge", "refused"}
              /\ UNCHANGED <<lines, qValue, tierB>>
  BY <1>13 DEF Pop, Refuse, adjustment, tiers, chunks
<1>14. ASSUME PublishRanking \/ ValidateRanking
       PROVE  /\ phase \in {"merge", "published"}
              /\ phase' \in {"published", "validated", "refused"}
              /\ UNCHANGED <<lines, qValue, tierB>>
  BY <1>14 DEF PublishRanking, ValidateRanking, adjustment, tiers, chunks
<1>15. CASE StreamBreaks
  BY <1>9, <1>15 DEF StreamBreaks, Refuse
<1>16. CASE UNCHANGED ensembleVars
  <2>1. UNCHANGED <<chunks, merge>> /\ UNCHANGED <<lines, qValue, tierB>> /\ phase' = phase
        /\ read' = read
    BY <1>16 DEF ensembleVars, chunks, adjustment, tiers
  <2>2. CASE phase = "emit"
    <3>1. \A x : Row(x)' = Row(x)
      BY <1>3, <2>1
    <3>2. {Row(x)' : x \in read} = {Row(x) : x \in read}
      BY <3>1
    <3> QED BY <1>2, <2>1, <2>2, <3>2 DEF EmitInv, Spread, chunks, merge
  <2> QED BY <1>2, <1>7, <1>8, <1>9, <2>1, <2>2 DEF EnsembleTypeOK, Phase
<1> QED BY <1>4, <1>5, <1>6, <1>7, <1>8, <1>9, <1>10, <1>11, <1>12, <1>13, <1>14, <1>15, <1>16
        DEF EnsembleNext

(***************************************************************************)
(* The merge                                                               *)
(***************************************************************************)

\* The line taken from the heap is before all the rest.
LEMMA PoppedIsFirst ==
  ASSUME EnsembleTypeOK, Waiting, NEW h \in heap, opened = Len(chunk),
         \A g \in heap : ~Before(g[1], h[1])
  PROVE  /\ h[1] \in Population \ Ranked /\ h[1] \in Pair /\ h[2] \in 1..Len(chunk)
         /\ \A r \in Population \ Ranked : r = h[1] \/ Before(h[1], r)
<1>1. /\ h[1] \in Population \ Ranked /\ h[1] \in Pair /\ h[2] \in 1..Len(chunk)
      /\ Population \subseteq Pair
  BY DEF EnsembleTypeOK, Waiting, Population, Ledger
<1>2. ASSUME NEW g \in heap PROVE g[1] = h[1] \/ Before(h[1], g[1])
  <2>1. g[1] \in Pair
    BY DEF EnsembleTypeOK
  <2> QED BY <1>1, <2>1, BeforeIsOrder
<1>3. ASSUME NEW r \in Population \ Ranked PROVE r = h[1] \/ Before(h[1], r)
  <2>1. CASE \E g \in heap : g[1] = r
    BY <1>2, <2>1
  <2>2. CASE \E i \in 1..Len(chunk) : r \in chunk[i]
    <3>1. PICK i \in 1..Len(chunk) : r \in chunk[i]
      BY <2>2
    <3>2. PICK g \in heap : g[2] = i
      BY <3>1 DEF Waiting
    <3>3. Before(g[1], r) /\ g[1] \in Pair
      BY <3>1, <3>2 DEF Waiting, EnsembleTypeOK
    <3> QED BY <1>1, <1>2, <1>3, <3>3, BeforeIsOrder
  <2> QED BY <1>3, <2>1, <2>2 DEF Waiting
<1> QED BY <1>1, <1>3

\* A line that is before all the rest comes to its place in the ranking.
LEMMA PlacedGrows ==
  ASSUME EnsembleTypeOK, Placed, UNCHANGED inputs, NEW p \in Population \ Ranked,
         \A r \in Population \ Ranked : r = p \/ Before(p, r),
         merged' = Append(merged, p)
  PROVE  Placed' /\ Ranked' = Ranked \cup {p}
<1>1. /\ Population' = Population /\ Population \in SUBSET Pair
      /\ \A x, r : Before(x, r)' <=> Before(x, r)
      /\ merged \in Seq(Pair) /\ Len(merged) \in Nat
  BY InputsSame DEF EnsembleTypeOK, Population, Ledger
<1> DEFINE n == Len(merged)
<1>2. /\ Len(merged') = n + 1 /\ merged'[n + 1] = p
      /\ \A i \in 1..n : merged'[i] = merged[i]
      /\ \A i \in 1..(n + 1) : i \in 1..n \/ i = n + 1
      /\ 1..n \subseteq 1..(n + 1) /\ n + 1 \in 1..(n + 1)
  BY <1>1
<1> HIDE DEF n
<1>3. Ranked' = Ranked \cup {p}
  <2>1. Ranked' = {merged'[i] : i \in 1..(n + 1)}
    BY <1>2 DEF Ranked
  <2>2. Ranked = {merged[i] : i \in 1..n}
    BY DEF Ranked, n
  <2> QED BY <1>2, <2>1, <2>2
<1>4. IsFiniteSet(Ranked) /\ Cardinality(Ranked) = n
  <2>1. Ranked \in SUBSET Pair
    BY <1>1 DEF Placed
  <2> QED BY <2>1, PairsAreFinite DEF Placed, n
<1>5. Cardinality(Ranked') = Len(merged')
  BY <1>2, <1>3, <1>4, FS_AddElement
<1>6. \A x \in Ranked', r \in Population \ Ranked' : Before(x, r)
  BY <1>3 DEF Placed
<1>7. {r \in Population : Before(r, p)} = Ranked
  BY <1>1, BeforeIsOrder DEF Placed
<1>8. \A x : ExpectedPlace(Population, x)' = ExpectedPlace(Population, x)
  BY <1>1 DEF ExpectedPlace
<1>9. ExpectedPlace(Population, p) = n + 1
  BY <1>4, <1>7 DEF ExpectedPlace
<1>10. \A i \in 1..n : i = ExpectedPlace(Population, merged[i])
  BY DEF Placed, n
<1>11. \A i \in 1..(n + 1) : i = ExpectedPlace(Population, merged'[i])
  BY <1>2, <1>9, <1>10
<1>12. \A i \in 1..Len(merged') : i = ExpectedPlace(Population, merged[i])'
  BY <1>1, <1>2, <1>8, <1>11 DEF ExpectedPlace
<1> QED BY <1>1, <1>3, <1>5, <1>6, <1>12 DEF Placed

\* A step that ranks nothing keeps the places.
LEMMA PlacedFrame ==
  ASSUME UNCHANGED inputs, UNCHANGED merged, Placed
  PROVE  Placed' /\ Ranked' = Ranked
<1>1. Population' = Population /\ \A x, r : Before(x, r)' <=> Before(x, r)
  BY InputsSame
<1>2. \A x : ExpectedPlace(Population, x)' = ExpectedPlace(Population, x)
  BY <1>1 DEF ExpectedPlace
<1>3. Ranked' = Ranked
  BY DEF Ranked
<1>4. \A i \in 1..Len(merged') : i = ExpectedPlace(Population, merged[i])'
  BY <1>1, <1>2 DEF Placed, ExpectedPlace
<1> QED BY <1>1, <1>3, <1>4 DEF Placed

\* The merge starts with all lines in the chunks.
LEMMA MergeStarts ==
  ASSUME EnsembleTypeOK, ReadInv, EmitInv, EndEmit, UNCHANGED inputs, phase' = "merge"
  PROVE  Waiting' /\ Placed'
<1>1. /\ phase = "emit" /\ read = Population /\ Spread(Population) /\ Population' = Population
      /\ opened' = 0 /\ heap' = {} /\ merged' = <<>> /\ buffer \in SUBSET Pair
      /\ chunk \in Seq(SUBSET Pair) /\ Len(chunk) \in Nat
      /\ chunk' = IF buffer = {} THEN chunk ELSE Append(chunk, buffer)
  BY ReadIsPopulation, InputsSame DEF EndEmit, Refuse, EmitInv, EnsembleTypeOK, merge
<1>2. Ranked' = {} /\ Len(merged') = 0
  BY <1>1 DEF Ranked
<1>3. /\ \A i, j \in 1..Len(chunk') : i # j => chunk'[i] \cap chunk'[j] = {}
      /\ \A i \in 1..Len(chunk') : chunk'[i] \subseteq Population
      /\ \A p \in Population : \E i \in 1..Len(chunk') : p \in chunk'[i]
  <2>1. CASE buffer = {}
    BY <1>1, <2>1 DEF Spread
  <2>2. CASE buffer # {}
    <3>1. /\ Len(chunk') = Len(chunk) + 1 /\ chunk'[Len(chunk) + 1] = buffer
          /\ \A i \in 1..Len(chunk) : chunk'[i] = chunk[i]
      BY <1>1, <2>2
    <3>2. \A i \in 1..Len(chunk') : i \in 1..Len(chunk) \/ i = Len(chunk) + 1
      BY <1>1, <3>1
    <3>3. \A i \in 1..Len(chunk) : i \in 1..Len(chunk')
      BY <1>1, <3>1
    <3>4. Len(chunk) + 1 \in 1..Len(chunk')
      BY <1>1, <3>1
    <3>5. \A i, j \in 1..Len(chunk') : i # j => chunk'[i] \cap chunk'[j] = {}
      BY <1>1, <3>1, <3>2 DEF Spread
    <3>6. \A i \in 1..Len(chunk') : chunk'[i] \subseteq Population
      BY <1>1, <3>1, <3>2 DEF Spread
    <3>7. \A p \in Population : \E i \in 1..Len(chunk') : p \in chunk'[i]
      BY <1>1, <3>1, <3>3, <3>4 DEF Spread
    <3> QED BY <3>5, <3>6, <3>7
  <2> QED BY <2>1, <2>2
<1>4. Cardinality({}) = 0
  BY FS_EmptySet
<1>5. Waiting'
  BY <1>1, <1>2, <1>3 DEF Waiting
<1> QED BY <1>1, <1>2, <1>4, <1>5 DEF Placed

\* Opening a chunk keeps every unranked pair in one place,
LEMMA OpenKeeps ==
  ASSUME EnsembleTypeOK, Waiting, Placed, UNCHANGED inputs, NEW p \in Pair, OpenChunk(p)
  PROVE  Waiting' /\ Placed'
<1> DEFINE i == opened + 1
<1>1. /\ merged' = merged /\ opened' = i /\ i \in 1..Len(chunk) /\ opened \in Nat
      /\ p \in chunk[i] /\ \A r \in chunk[i] : r = p \/ Before(p, r)
      /\ heap' = heap \cup {<<p, i>>} /\ chunk' = [chunk EXCEPT ![i] = @ \ {p}]
      /\ Len(chunk) \in Nat /\ opened # Len(chunk) /\ merged = <<>>
      /\ \A h \in heap : h[2] <= opened /\ h[2] \in 1..Len(chunk)
  BY DEF OpenChunk, IsFirst, EnsembleTypeOK, Waiting
<1>2. /\ Len(chunk') = Len(chunk) /\ chunk'[i] = chunk[i] \ {p}
      /\ \A j \in 1..Len(chunk) : j # i => chunk'[j] = chunk[j]
      /\ \A j \in 1..Len(chunk) : chunk'[j] \subseteq chunk[j]
  BY <1>1 DEF EnsembleTypeOK
<1>3. /\ Placed' /\ Ranked' = Ranked /\ Population' = Population
      /\ \A x, r : Before(x, r)' <=> Before(x, r)
  BY <1>1, PlacedFrame, InputsSame
<1>4. p \in Population \ Ranked /\ \A j \in 1..Len(chunk) : p \in chunk[j] => j = i
  BY <1>1 DEF Waiting
<1> HIDE DEF i
<1>5. /\ \A j, k \in 1..Len(chunk') : j # k => chunk'[j] \cap chunk'[k] = {}
      /\ \A j \in 1..Len(chunk') : chunk'[j] \subseteq Population \ Ranked
  BY <1>2 DEF Waiting
<1>6. ASSUME NEW h \in heap'
      PROVE  /\ h[2] <= opened' /\ h[1] \in Population \ Ranked
             /\ \A r \in chunk'[h[2]] : Before(h[1], r)
             /\ \A j \in 1..Len(chunk') : h[1] \notin chunk'[j]
  <2>1. CASE h = <<p, i>>
    <3>1. h[1] = p /\ h[2] = i /\ i <= opened'
      BY <1>1, <2>1
    <3>2. \A j \in 1..Len(chunk) : p \notin chunk'[j]
      BY <1>2, <1>4
    <3>3. \A r \in chunk'[i] : Before(p, r)
      BY <1>1, <1>2
    <3> QED BY <1>2, <1>4, <3>1, <3>2, <3>3
  <2>2. CASE h \in heap
    <3>1. h[2] <= opened' /\ h[2] \in 1..Len(chunk)
      BY <1>1, <2>2 DEF i
    <3> QED BY <1>2, <2>2, <3>1 DEF Waiting
  <2> QED BY <1>1, <1>6, <2>1, <2>2
<1>7. \A g, h \in heap' : g # h => g[1] # h[1] /\ g[2] # h[2]
  <2>1. \A h \in heap : h[1] # p /\ h[2] # i
    BY <1>1 DEF Waiting, i
  <2> QED BY <1>1, <2>1 DEF Waiting
<1>8. \A j \in 1..opened' : chunk'[j] = {} \/ \E h \in heap' : h[2] = j
  <2>1. \A j \in 1..opened' : j = i \/ (j \in 1..opened /\ j \in 1..Len(chunk) /\ j # i)
    BY <1>1 DEF i
  <2>2. <<p, i>> \in heap' /\ <<p, i>>[2] = i
    BY <1>1
  <2> QED BY <1>1, <1>2, <2>1, <2>2 DEF Waiting
<1>9. ASSUME NEW r \in Population \ Ranked
      PROVE  (\E h \in heap' : h[1] = r) \/ \E j \in 1..Len(chunk') : r \in chunk'[j]
  <2>1. CASE r = p
    <3>1. <<p, i>> \in heap' /\ <<p, i>>[1] = p
      BY <1>1
    <3> QED BY <2>1, <3>1
  <2>2. CASE r # p /\ \E h \in heap : h[1] = r
    BY <1>1, <2>2
  <2>3. CASE r # p /\ \E j \in 1..Len(chunk) : r \in chunk[j]
    BY <1>2, <2>3
  <2> QED BY <1>9, <2>1, <2>2, <2>3 DEF Waiting
<1>10. Waiting'
  BY <1>1, <1>3, <1>5, <1>6, <1>7, <1>8, <1>9 DEF Waiting
<1> QED BY <1>3, <1>10

\* and so does popping the heap and filling it from the chunk of the line.
LEMMA PopKeeps ==
  ASSUME EnsembleTypeOK, Waiting, Placed, UNCHANGED inputs, NEW h \in heap, Pop(h),
         phase' = "merge"
  PROVE  Waiting' /\ Placed'
<1> DEFINE i == h[2]
<1>1. /\ opened = Len(chunk) /\ opened' = opened /\ merged' = Append(merged, h[1]) /\ Refill(h)
      /\ \A g \in heap : ~Before(g[1], h[1])
  BY DEF Pop, Refuse
<1>2. /\ h[1] \in Population \ Ranked /\ h[1] \in Pair /\ i \in 1..Len(chunk)
      /\ \A r \in Population \ Ranked : r = h[1] \/ Before(h[1], r)
  BY <1>1, PoppedIsFirst
<1>3. /\ Placed' /\ Ranked' = Ranked \cup {h[1]} /\ Population' = Population
      /\ \A x, r : Before(x, r)' <=> Before(x, r)
  BY <1>1, <1>2, PlacedGrows, InputsSame
<1>4. /\ Len(chunk) \in Nat /\ opened \in Nat
      /\ \A g \in heap : g[2] \in 1..Len(chunk) /\ g[2] <= opened
      /\ \A g \in heap : g # h => g[1] # h[1] /\ g[2] # i
      /\ \A j \in 1..Len(chunk) : h[1] \notin chunk[j]
  BY DEF EnsembleTypeOK, Waiting
<1>5. CASE chunk[i] = {} /\ heap' = heap \ {h} /\ UNCHANGED chunk
  <2>1. \A j \in 1..Len(chunk') : chunk'[j] \subseteq Population \ Ranked'
    BY <1>3, <1>4, <1>5 DEF Waiting
  <2>2. \A g \in heap' : /\ g[2] <= opened' /\ g[1] \in Population \ Ranked'
                         /\ \A r \in chunk'[g[2]] : Before(g[1], r)
                         /\ \A j \in 1..Len(chunk') : g[1] \notin chunk'[j]
    BY <1>1, <1>3, <1>4, <1>5 DEF Waiting
  <2>3. \A g, k \in heap' : g # k => g[1] # k[1] /\ g[2] # k[2]
    BY <1>5 DEF Waiting
  <2>4. \A j \in 1..opened' : chunk'[j] = {} \/ \E g \in heap' : g[2] = j
    BY <1>1, <1>5 DEF Waiting
  <2>5. \A r \in Population \ Ranked' :
          (\E g \in heap' : g[1] = r) \/ \E j \in 1..Len(chunk') : r \in chunk'[j]
    BY <1>3, <1>5 DEF Waiting
  <2>6. \A j, k \in 1..Len(chunk') : j # k => chunk'[j] \cap chunk'[k] = {}
    BY <1>5 DEF Waiting
  <2>7. opened' = Len(chunk')
    BY <1>1, <1>5
  <2>8. Waiting'
    BY <1>3, <2>1, <2>2, <2>3, <2>4, <2>5, <2>6, <2>7 DEF Waiting
  <2> QED BY <1>3, <2>8
<1>6. ASSUME NEW p \in chunk[i], IsFirst(p, chunk[i]),
             heap' = (heap \ {h}) \cup {<<p, i>>}, chunk' = [chunk EXCEPT ![i] = @ \ {p}]
      PROVE  Waiting' /\ Placed'
  <2>1. /\ Len(chunk') = Len(chunk) /\ chunk'[i] = chunk[i] \ {p}
        /\ \A j \in 1..Len(chunk) : j # i => chunk'[j] = chunk[j]
        /\ \A j \in 1..Len(chunk) : chunk'[j] \subseteq chunk[j]
    BY <1>2, <1>6 DEF EnsembleTypeOK
  <2>2. /\ p \in Population \ Ranked /\ p # h[1]
        /\ \A j \in 1..Len(chunk) : p \in chunk[j] => j = i
        /\ \A r \in chunk[i] : r = p \/ Before(p, r)
    BY <1>2, <1>4, <1>6 DEF Waiting, IsFirst
  <2> HIDE DEF i
  <2>3. /\ \A j, k \in 1..Len(chunk') : j # k => chunk'[j] \cap chunk'[k] = {}
        /\ \A j \in 1..Len(chunk') : chunk'[j] \subseteq Population \ Ranked'
    BY <1>3, <1>4, <2>1 DEF Waiting
  <2>4. ASSUME NEW g \in heap'
        PROVE  /\ g[2] <= opened' /\ g[1] \in Population \ Ranked'
               /\ \A r \in chunk'[g[2]] : Before(g[1], r)
               /\ \A j \in 1..Len(chunk') : g[1] \notin chunk'[j]
    <3>1. CASE g = <<p, i>>
      BY <1>1, <1>2, <1>3, <1>4, <2>1, <2>2, <3>1
    <3>2. CASE g \in heap /\ g # h
      BY <1>1, <1>3, <1>4, <2>1, <3>2 DEF Waiting
    <3> QED BY <1>6, <2>4, <3>1, <3>2
  <2>5. \A g, k \in heap' : g # k => g[1] # k[1] /\ g[2] # k[2]
    <3>1. \A g \in heap : g # h => g[1] # p /\ g[2] # i
      BY <1>2, <1>4, <1>6 DEF Waiting
    <3> QED BY <1>6, <3>1 DEF Waiting
  <2>6. \A j \in 1..opened' : chunk'[j] = {} \/ \E g \in heap' : g[2] = j
    <3>1. <<p, i>> \in heap' /\ <<p, i>>[2] = i
      BY <1>6
    <3>2. \A j \in 1..opened' : j # i /\ chunk'[j] # {} => \E g \in heap : g # h /\ g[2] = j
      BY <1>1, <2>1 DEF Waiting, i
    <3> QED BY <1>6, <3>1, <3>2
  <2>7. ASSUME NEW r \in Population \ Ranked'
        PROVE  (\E g \in heap' : g[1] = r) \/ \E j \in 1..Len(chunk') : r \in chunk'[j]
    <3>1. r \in Population \ Ranked /\ r # h[1]
      BY <1>3, <2>7
    <3>2. CASE r = p
      <4>1. <<p, i>> \in heap' /\ <<p, i>>[1] = p
        BY <1>6
      <4> QED BY <3>2, <4>1
    <3>3. CASE \E g \in heap : g[1] = r
      BY <1>6, <3>1, <3>3
    <3>4. CASE r # p /\ \E j \in 1..Len(chunk) : r \in chunk[j]
      BY <2>1, <3>4
    <3> QED BY <3>1, <3>2, <3>3, <3>4 DEF Waiting
  <2>8. opened' = Len(chunk')
    BY <1>1, <2>1
  <2>9. Waiting'
    BY <1>3, <2>3, <2>4, <2>5, <2>6, <2>7, <2>8 DEF Waiting
  <2> QED BY <1>3, <2>9
<1> QED BY <1>1, <1>5, <1>6 DEF Refill

\* With the heap empty everything is ranked.
LEMMA EmptyHeapIsAll ==
  ASSUME EnsembleTypeOK, Waiting, Placed, opened = Len(chunk), heap = {}
  PROVE  Ranked = Population
<1>1. \A i \in 1..Len(chunk) : chunk[i] = {}
  BY DEF Waiting
<1> QED BY <1>1 DEF Waiting, Placed

\* What is ranked is before all the rest, after every step.
LEMMA MergeStep ==
  ASSUME EnsembleInv, [EnsembleNext]_ensembleVars
  PROVE  MergeInv'
<1>1. UNCHANGED inputs /\ Population' = Population
  BY InputsStay, InputsSame
<1>2. EnsembleTypeOK /\ ReadInv /\ EmitInv /\ MergeInv
  BY DEF EnsembleInv
<1>3. CASE EndEmit
  <2>1. phase' \in {"merge", "refused"}
    BY <1>3 DEF EndEmit, Refuse
  <2>2. phase' = "merge" => Waiting' /\ Placed'
    BY <1>1, <1>2, <1>3, MergeStarts
  <2> QED BY <2>1, <2>2 DEF MergeInv
<1>4. ASSUME NEW p \in Pair, OpenChunk(p) PROVE MergeInv'
  <2>1. phase = "merge" /\ phase' = "merge"
    BY <1>4 DEF OpenChunk
  <2> QED BY <1>1, <1>2, <1>4, <2>1, OpenKeeps DEF MergeInv
<1>5. ASSUME NEW h \in heap, Pop(h) PROVE MergeInv'
  <2>1. phase = "merge" /\ phase' \in {"merge", "refused"}
    BY <1>5 DEF Pop, Refuse
  <2>2. phase' = "merge" => Waiting' /\ Placed'
    BY <1>1, <1>2, <1>5, <2>1, PopKeeps DEF MergeInv
  <2> QED BY <2>1, <2>2 DEF MergeInv
<1>6. CASE PublishRanking
  <2>1. /\ phase = "merge" /\ opened = Len(chunk) /\ heap = {} /\ UNCHANGED merged
        /\ phase' \in {"published", "refused"}
    BY <1>6 DEF PublishRanking, merge
  <2>2. Ranked = Population /\ Placed
    BY <1>2, <2>1, EmptyHeapIsAll DEF MergeInv
  <2>3. Placed' /\ Ranked' = Ranked
    BY <1>1, <2>1, <2>2, PlacedFrame
  <2> QED BY <1>1, <2>1, <2>2, <2>3 DEF MergeInv
<1>7. CASE ValidateRanking
  <2>1. phase = "published" /\ phase' = "validated" /\ UNCHANGED merged
    BY <1>7 DEF ValidateRanking, merge
  <2>2. Placed' /\ Ranked' = Ranked
    BY <1>1, <1>2, <2>1, PlacedFrame DEF MergeInv
  <2> QED BY <1>1, <1>2, <2>1, <2>2 DEF MergeInv
<1>8. CASE UNCHANGED ensembleVars
  <2>1. /\ phase' = phase /\ UNCHANGED merged /\ UNCHANGED <<chunk, opened, heap>>
    BY <1>8 DEF ensembleVars, chunks, merge
  <2>2. Placed => Placed' /\ Ranked' = Ranked
    BY <1>1, <2>1, PlacedFrame
  <2>3. \A x, r : Before(x, r)' <=> Before(x, r)
    BY <1>1, InputsSame
  <2>4. phase = "merge" => Waiting'
    BY <1>1, <1>2, <2>1, <2>2, <2>3 DEF MergeInv, Waiting
  <2> QED BY <1>1, <1>2, <2>1, <2>2, <2>4 DEF MergeInv
<1>9. ASSUME phase' \notin {"merge", "published", "validated"} PROVE MergeInv'
  BY <1>9 DEF MergeInv
<1>10. ASSUME NEW p \in Pair, Gather(p) \/ Adjust(p) \/ Tier(p) \/ Emit(p)
       PROVE  phase' \notin {"merge", "published", "validated"}
  BY <1>10 DEF Gather, Adjust, Tier, Emit, Refuse
<1>11. ASSUME StreamBreaks \/ EndGather \/ EndAdjust \/ EndTier
       PROVE  phase' \notin {"merge", "published", "validated"}
  BY <1>11 DEF StreamBreaks, EndGather, EndAdjust, EndTier, Refuse
<1> QED BY <1>3, <1>4, <1>5, <1>6, <1>7, <1>8, <1>9, <1>10, <1>11 DEF EnsembleNext

(***************************************************************************)
(* What is published                                                       *)
(***************************************************************************)

\* When all q-values are made they are those of the validation, and so are
\* the reasons, the pool of Tier B and its members with their places.
LEMMA PassesAgree ==
  ASSUME EnsembleTypeOK, AdjustInv,
         phase \in {"tier", "emit", "merge", "published", "validated"}
  PROVE  /\ \A s \in Scope, p \in Population :
              IsAdjusted(s, p, qValue[s][p]) /\ ExpectedQ(s, p) = qValue[s][p]
         /\ \A p \in Population : ExpectedReasons(p) = Reasons(p)
         /\ Pool = PoolOf(Population)
<1>1. \A s \in Scope : Adjusted(s) = Population
  BY DEF Adjusted
<1>2. \A s \in Scope, p \in Population : IsAdjusted(s, p, qValue[s][p])
  BY <1>1 DEF AdjustInv
<1>3. \A s \in Scope, p \in Population : ExpectedQ(s, p) = qValue[s][p]
  BY <1>2, AdjustedIsExpected
<1>4. \A p \in Population : ExpectedReasons(p) = Reasons(p)
  BY <1>3 DEF ExpectedReasons, Reasons, Scope
<1>5. Pool = PoolOf(Population)
  BY <1>4 DEF Pool, PoolOf
<1> QED BY <1>2, <1>3, <1>4, <1>5

\* The list of the second pass is the Tier B of the validation, and its ranks are.
LEMMA TierBAgrees ==
  ASSUME EnsembleTypeOK, AdjustInv, TierInv,
         phase \in {"emit", "merge", "published", "validated"}
  PROVE  /\ tierB = ExpectedTierB /\ tierB \in SUBSET Population
         /\ \A p \in tierB : TierBRank(p) = ExpectedPlace(Pool, p) /\ TierBRank(p) \in Nat \ {0}
<1>1. Pool = PoolOf(Population) /\ Top(tierB, Pool) /\ Pool \in SUBSET Population
      /\ Population \in SUBSET Pair
  BY PassesAgree DEF TierInv, TiersOf, PoolOf, EnsembleTypeOK, Population, Ledger
<1>2. Pool \in SUBSET Pair /\ tierB \in SUBSET Population
  BY <1>1 DEF Top
<1>3. /\ tierB = {p \in Pool : ExpectedPlace(Pool, p) <= TierBSize}
      /\ \A p \in tierB : ExpectedPlace(Pool, p) = Cardinality({r \in tierB : Before(r, p)}) + 1
  BY <1>1, <1>2, TopIsExpected
<1>4. \A p \in tierB : TierBRank(p) = ExpectedPlace(Pool, p) /\ TierBRank(p) \in Nat \ {0}
  <2>1. ASSUME NEW p \in tierB PROVE Cardinality({r \in tierB : Before(r, p)}) \in Nat
    <3>1. {r \in tierB : Before(r, p)} \in SUBSET Pair
      BY <1>1, <1>2
    <3> QED BY <3>1, PairsAreFinite
  <2> QED BY <1>3, <2>1 DEF TierBRank
<1> QED BY <1>2, <1>3, <1>4 DEF ExpectedTierB

\* What is published is what the validation expects: it reports nothing.
LEMMA PublishedIsExpected ==
  ASSUME EnsembleInv, phase = "published"
  PROVE  Findings = {}
<1>1. /\ EnsembleTypeOK /\ AdjustInv /\ TierInv /\ Placed /\ Ranked = Population
      /\ lines = {Row(p) : p \in Population} /\ Population \in SUBSET Pair
  BY DEF EnsembleInv, MergeInv, EmitInv, EnsembleTypeOK, Population, Ledger
<1>2. /\ \A s \in Scope, p \in Population : ExpectedQ(s, p) = qValue[s][p]
      /\ \A p \in Population : ExpectedReasons(p) = Reasons(p)
      /\ tierB = ExpectedTierB /\ tierB \in SUBSET Population
      /\ \A p \in tierB : TierBRank(p) = ExpectedPlace(Pool, p) /\ TierBRank(p) \in Nat \ {0}
  BY <1>1, PassesAgree, TierBAgrees
<1>3. \A p : Row(p).pair = p /\ Row(p).rank = TierBRank(p)
  BY DEF Row
<1>4. Written = lines
  BY <1>1, <1>3 DEF Written
<1>5. ASSUME NEW p \in Population PROVE Row(p) = ExpectedRow(p)
  <2>1. [s \in Scope |-> qValue[s][p]] = [s \in Scope |-> ExpectedQ(s, p)]
    BY <1>2
  <2>2. TierBRank(p) = IF p \in ExpectedTierB THEN ExpectedPlace(Pool, p) ELSE 0
    BY <1>2 DEF TierBRank
  <2> QED BY <1>2, <2>1, <2>2 DEF Row, ExpectedRow
<1>6. \A row \in Written : row = ExpectedRow(row.pair)
  BY <1>1, <1>3, <1>4, <1>5
<1>7. Cardinality({row \in Written : row.rank # 0}) = Cardinality(ExpectedTierB)
  <2> DEFINE f == [p \in tierB |-> Row(p)]
             W == {row \in Written : row.rank # 0}
  <2>1. \A p \in Population : Row(p).rank # 0 <=> p \in tierB
    BY <1>2, <1>3 DEF TierBRank
  <2>2. W = {Row(p) : p \in tierB}
    BY <1>1, <1>2, <1>4, <2>1
  <2>3. f \in Bijection(tierB, W)
    <3>1. f \in [tierB -> W] /\ \A w \in W : \E p \in tierB : f[p] = w
      BY <2>2
    <3>2. \A p, r \in tierB : f[p] = f[r] => p = r
      BY <1>3
    <3> HIDE DEF f, W
    <3> QED BY <3>1, <3>2 DEF Bijection, Injection, Surjection, IsInjective
  <2>4. IsFiniteSet(tierB) /\ ExistsBijection(tierB, W)
    BY <1>1, <1>2, <2>3, PairsAreFinite DEF ExistsBijection
  <2> QED BY <1>2, <2>4, FS_Bijection
<1>8. /\ Len(merged) = Cardinality(Ranked)
      /\ \A i \in 1..Len(merged) : i = ExpectedPlace(Population, merged[i])
  BY <1>1 DEF Placed
<1> QED BY <1>1, <1>6, <1>7, <1>8 DEF Findings

\* The validation has reported nothing, after every step.
LEMMA FindingsStep ==
  ASSUME EnsembleInv, [EnsembleNext]_ensembleVars
  PROVE  findings' = {}
<1>1. findings = {} /\ (phase = "published" => Findings = {})
  BY PublishedIsExpected DEF EnsembleInv
<1>2. CASE ValidateRanking
  BY <1>1, <1>2 DEF ValidateRanking
<1>3. CASE ~ValidateRanking
  BY <1>1, <1>3
     DEF EnsembleNext, ensembleVars, Gather, EndGather, Adjust, EndAdjust, Tier, EndTier, Emit,
         EndEmit, OpenChunk, Pop, StreamBreaks, PublishRanking
<1> QED BY <1>2, <1>3

\* The passes of disk_ensemble.py keep EnsembleInv, from any ledgers on.
THEOREM EnsembleIsInductive == EnsembleSpec => []EnsembleInv
<1>1. EnsembleInit => EnsembleInv
  <2> SUFFICES ASSUME EnsembleInit PROVE EnsembleInv
    OBVIOUS
  <2>1. EnsembleTypeOK
    BY TypeInit
  <2>2. Cardinality({}) = 0 /\ MaximumPairs \in Nat
    BY FS_EmptySet, EnsembleAssumption
  <2>3. ReadInv /\ StartInv
    BY <2>2 DEF EnsembleInit, ReadInv, StartInv
  <2>4. AdjustInv
    BY DEF EnsembleInit, AdjustInv, Adjusted
  <2>5. TierInv /\ EmitInv /\ MergeInv /\ findings = {}
    BY DEF EnsembleInit, TierInv, EmitInv, MergeInv
  <2> QED BY <2>1, <2>3, <2>4, <2>5 DEF EnsembleInv
<1>2. EnsembleInv /\ [EnsembleNext]_ensembleVars => EnsembleInv'
  <2> SUFFICES ASSUME EnsembleInv, [EnsembleNext]_ensembleVars PROVE EnsembleInv'
    OBVIOUS
  <2>1. EnsembleTypeOK'
    BY TypeStep DEF EnsembleInv
  <2> QED BY <2>1, ReadStep, StartStep, AdjustStep, TierStep, EmitStep, MergeStep, FindingsStep
          DEF EnsembleInv
<1> QED BY <1>1, <1>2, PTL DEF EnsembleSpec

\* The state of a ranking keeps its types.
THEOREM EnsembleTypes == EnsembleSpec => []EnsembleTypeOK
<1>1. EnsembleInv => EnsembleTypeOK
  BY DEF EnsembleInv
<1> QED BY <1>1, EnsembleIsInductive, PTL

\* Ledgers that belong together are never refused by build_final_candidates_disk_backed,
\* others always; and disk_validation.py finds nothing to report in what it publishes.
THEOREM EnsembleOutcome == EnsembleSpec => []OutcomeIsRight
<1>1. EnsembleInv => OutcomeIsRight
  BY DEF EnsembleInv, ReadInv, OutcomeIsRight
<1> QED BY <1>1, EnsembleIsInductive, PTL

\* The q-values within the limit are the discoveries of the step-up procedure, with
\* ties and the running minimum of benjamini_hochberg.
THEOREM EnsembleStepUp == EnsembleSpec => []DiscoveriesAreStepUp
<1>1. EnsembleInv => DiscoveriesAreStepUp
  <2> SUFFICES ASSUME EnsembleInv, phase \in {"tier", "emit", "merge", "published", "validated"},
                      NEW s \in Scope, NEW p \in Population
               PROVE  qValue[s][p] <= QLimit <=>
                        \E r \in Population :
                          /\ PlaceOf(s, p) <= PlaceOf(s, r)
                          /\ Cardinality(Population) * draft[r].p[s] <= QLimit * PlaceOf(s, r)
    BY DEF DiscoveriesAreStepUp
  <2>1. EnsembleTypeOK /\ IsAdjusted(s, p, qValue[s][p])
    BY PassesAgree DEF EnsembleInv
  <2> QED BY <2>1, AdjustedIsStepUp
<1> QED BY <1>1, EnsembleIsInductive, PTL

=============================================================================
