---------------------------- MODULE TrialLedgerProofs ---------------------------
(***************************************************************************)
(* The trial ledger for every set of trials, writers and p-values: its     *)
(* rows are well-formed, corrected unless the family is known to be        *)
(* behind, and the corrections are those of Holm and of Benjamini and      *)
(* Hochberg.                                                               *)
(***************************************************************************)
EXTENDS TrialLedger, SequenceTheorems, FiniteSetTheorems, TLAPS

-----------------------------------------------------------------------------
(* Least and greatest elements *)

(* The sets of what is below the elements of T are finite, so one of them is *)
(* smallest under inclusion.                                                 *)
LEMMA LeastExists ==
  ASSUME NEW n \in Nat, NEW T \in SUBSET (0 .. n), T # {}
  PROVE  \E x \in T : \A y \in T : x <= y
<1> DEFINE Under(x) == {y \in T : y < x}
           F == {Under(x) : x \in T}
<1>1. IsFiniteSet(T)
  <2>1. IsFiniteSet(0 .. n)
    BY FS_Interval
  <2> QED BY <2>1, FS_Subset
<1>2. F \subseteq FiniteSubsetsOf(T)
  BY <1>1, FS_FiniteSubsetsOfFinite
<1>3. F # {}
  OBVIOUS
<1>4. PICK u \in F : \A v \in F : ~(<<v, u>> \in StrictSubsetOrdering(T))
  BY <1>2, <1>3, FS_StrictSubsetOrderingWellFounded, WFMin
<1>5. PICK x \in T : u = Under(x)
  OBVIOUS
<1>6. ASSUME NEW y \in T, ~(x <= y)
      PROVE  FALSE
  <2>1. Under(y) \in F
    OBVIOUS
  <2>2. y < x /\ y \in Under(x) /\ y \notin Under(y)
    BY <1>6
  <2>3. Under(y) \subseteq Under(x)
    <3>1. \A z \in T : z < y => z < x
      BY <2>2
    <3> QED BY <3>1
  <2>4. <<Under(y), Under(x)>> \in StrictSubsetOrdering(T)
    BY <2>2, <2>3 DEF StrictSubsetOrdering
  <2> QED BY <1>4, <1>5, <2>1, <2>4
<1> QED BY <1>6

LEMMA GreatestExists ==
  ASSUME NEW n \in Nat, NEW T \in SUBSET (0 .. n), T # {}
  PROVE  \E x \in T : \A y \in T : y <= x
<1> DEFINE U == {n - x : x \in T}
<1>1. U # {}
  OBVIOUS
<1>2. U \in SUBSET (0 .. n)
  OBVIOUS
<1> HIDE DEF U
<1>3. PICK u \in U : \A v \in U : u <= v
  BY <1>1, <1>2, LeastExists
<1> USE DEF U
<1>4. PICK x \in T : u = n - x
  OBVIOUS
<1>5. ASSUME NEW y \in T
      PROVE  y <= x
  <2>1. n - y \in U
    OBVIOUS
  <2>2. u <= n - y
    BY <1>3, <2>1
  <2> HIDE DEF U
  <2> QED BY <1>4, <2>2
<1> QED BY <1>5

LEMMA MinIsLeast ==
  ASSUME NEW n \in Nat, NEW T \in SUBSET (0 .. n), T # {}
  PROVE  Min(T) \in T /\ \A y \in T : Min(T) <= y
BY LeastExists DEF Min

LEMMA MaxIsGreatest ==
  ASSUME NEW n \in Nat, NEW T \in SUBSET (0 .. n), T # {}
  PROVE  Max(T) \in T /\ \A y \in T : y <= Max(T)
<1>1. \E x \in T : \A y \in T : x >= y
  BY GreatestExists
<1> QED BY <1>1 DEF Max

-----------------------------------------------------------------------------
(* The corrections of one family *)

USE TestingAssumption, LedgerAssumption

LEMMA FamilyFacts ==
  ASSUME NEW family \in Families
  PROVE  /\ DOMAIN family \in SUBSET Signatures
         /\ IsFiniteSet(DOMAIN family)
         /\ Cardinality(DOMAIN family) \in Nat
         /\ \A s \in DOMAIN family : family[s] \in Raw
         /\ \A s \in Valid(family) :
              s \in DOMAIN family /\ family[s] \in PValues
                /\ family[s] \in 0 .. Unit
<1>1. PICK S \in SUBSET Signatures : family \in [S -> Raw]
  BY DEF Families
<1>2. DOMAIN family = S /\ IsFiniteSet(S)
  BY <1>1, FS_Subset
<1>3. Cardinality(S) \in Nat
  BY <1>2, FS_CardinalityType
<1>4. \A s \in Valid(family) : s \in S /\ family[s] \in PValues
  BY <1>1 DEF Valid, Raw
<1> QED BY <1>1, <1>2, <1>3, <1>4

(* How many of a family are picked out is a number, and 0 only of none. *)
LEMMA Counted ==
  ASSUME NEW family \in Families, NEW P \in SUBSET Valid(family)
  PROVE  /\ IsFiniteSet(P)
         /\ Cardinality(P) \in 0 .. Cardinality(Signatures)
         /\ P # {} => Cardinality(P) >= 1
<1>1. Valid(family) \subseteq Signatures
  BY FamilyFacts DEF Valid
<1>2. P \in SUBSET Signatures
  BY <1>1
<1>3. IsFiniteSet(P) /\ Cardinality(P) <= Cardinality(Signatures)
  BY <1>2, FS_Subset
<1>4. Cardinality(P) \in Nat /\ Cardinality(Signatures) \in Nat
  BY <1>3, FS_CardinalityType
<1>5. P # {} => Cardinality(P) # 0
  BY <1>3, FS_EmptySet
<1> QED BY <1>3, <1>4, <1>5

LEMMA AtMostOneInRange ==
  ASSUME NEW v \in Nat
  PROVE  AtMostOne(v) \in 0 .. Unit
BY DEF AtMostOne

LEMMA ProductIsNat ==
  ASSUME NEW i \in Nat, NEW j \in Nat
  PROVE  i * j \in Nat
OBVIOUS

LEMMA HolmTermInRange ==
  ASSUME NEW family \in Families, NEW t \in Valid(family)
  PROVE  HolmTerm(family, t) \in 0 .. Unit
<1>1. Cardinality(Valid(family) \ Below(family, t)) \in Nat
  BY Counted
<1>2. family[t] \in Nat
  BY FamilyFacts
<1>3. Cardinality(Valid(family) \ Below(family, t)) * family[t] \in Nat
  BY <1>1, <1>2, ProductIsNat
<1> QED BY <1>3, AtMostOneInRange DEF HolmTerm

LEMMA QTermInRange ==
  ASSUME NEW family \in Families, NEW t \in Valid(family)
  PROVE  QTerm(family, t) \in 0 .. Unit
<1>1. Cardinality(Valid(family)) \in Nat
  BY Counted
<1>2. family[t] \in Nat
  BY FamilyFacts
<1>3. UpTo(family, t) # {} /\ UpTo(family, t) \in SUBSET Valid(family)
  BY <1>2 DEF UpTo
<1>4. Cardinality(UpTo(family, t)) \in Nat /\ Cardinality(UpTo(family, t)) >= 1
  BY <1>3, Counted
<1>5. family[t] * Cardinality(Valid(family)) \in Nat
  BY <1>1, <1>2, ProductIsNat
<1>6. \A x \in Nat, r \in Nat : r >= 1 => x \div r \in Nat
  OBVIOUS
<1>7. (family[t] * Cardinality(Valid(family)))
        \div Cardinality(UpTo(family, t)) \in Nat
  BY <1>4, <1>5, <1>6
<1> QED BY <1>7, AtMostOneInRange DEF QTerm

(* The value of Holm's correction is one of its terms, and the greatest. *)
LEMMA HolmIsGreatest ==
  ASSUME NEW family \in Families, NEW s \in Valid(family)
  PROVE  /\ Holm(family, s) \in 0 .. Unit
         /\ \E t \in UpTo(family, s) : Holm(family, s) = HolmTerm(family, t)
         /\ \A t \in UpTo(family, s) : HolmTerm(family, t) <= Holm(family, s)
<1> DEFINE T == {HolmTerm(family, t) : t \in UpTo(family, s)}
<1>1. s \in UpTo(family, s) /\ UpTo(family, s) \subseteq Valid(family)
  BY FamilyFacts DEF UpTo
<1>2. T \in SUBSET (0 .. Unit)
  BY <1>1, HolmTermInRange
<1>3. T # {}
  BY <1>1
<1>4. Holm(family, s) = Max(T)
  BY DEF Holm, Valid
<1> HIDE DEF T
<1>5. Max(T) \in T /\ \A v \in T : v <= Max(T)
  BY <1>2, <1>3, MaxIsGreatest
<1> QED BY <1>2, <1>4, <1>5 DEF T

(* The value of Benjamini and Hochberg's is one of its terms, and the least. *)
LEMMA BenjaminiHochbergIsLeast ==
  ASSUME NEW family \in Families, NEW s \in Valid(family)
  PROVE  /\ BenjaminiHochberg(family, s) \in 0 .. Unit
         /\ \E t \in From(family, s) :
              BenjaminiHochberg(family, s) = QTerm(family, t)
         /\ \A t \in From(family, s) :
              BenjaminiHochberg(family, s) <= QTerm(family, t)
<1> DEFINE T == {QTerm(family, t) : t \in From(family, s)}
<1>1. s \in From(family, s) /\ From(family, s) \subseteq Valid(family)
  BY FamilyFacts DEF From
<1>2. T \in SUBSET (0 .. Unit)
  BY <1>1, QTermInRange
<1>3. T # {}
  BY <1>1
<1>4. BenjaminiHochberg(family, s) = Min(T)
  BY DEF BenjaminiHochberg, Valid
<1> HIDE DEF T
<1>5. Min(T) \in T /\ \A v \in T : Min(T) <= v
  BY <1>2, <1>3, MinIsLeast
<1> QED BY <1>2, <1>4, <1>5 DEF T

LEMMA CapBelowLevel ==
  ASSUME NEW v \in Nat, NEW level \in 0 .. Unit - 1
  PROVE  AtMostOne(v) <= level <=> v <= level
BY DEF AtMostOne

(* Holm's correction is at most a level exactly for the trials that Holm's   *)
(* step-down test rejects at this level (holm_bonferroni_adjust), for every  *)
(* family.                                                                   *)
THEOREM HolmIsStepDown ==
  ASSUME NEW family \in Families, NEW s \in Valid(family),
         NEW level \in 0 .. Unit - 1
  PROVE  Holm(family, s) <= level <=> StepDownRejects(family, s, level)
<1>1. ASSUME NEW t \in UpTo(family, s)
      PROVE  HolmTerm(family, t) <= level
               <=> family[t] * Cardinality(From(family, t)) <= level
  <2>1. t \in Valid(family) /\ family[t] \in Nat
    BY FamilyFacts DEF UpTo
  <2>2. Valid(family) \ Below(family, t) = From(family, t)
    BY <2>1, FamilyFacts DEF Below, From
  <2>3. Cardinality(From(family, t)) \in Nat
    BY Counted DEF From
  <2>4. /\ Cardinality(From(family, t)) * family[t] \in Nat
        /\ Cardinality(From(family, t)) * family[t]
             = family[t] * Cardinality(From(family, t))
    BY <2>1, <2>3, ProductIsNat
  <2>5. HolmTerm(family, t) = AtMostOne(Cardinality(From(family, t)) * family[t])
    BY <2>2 DEF HolmTerm
  <2> QED BY <2>4, <2>5, CapBelowLevel
<1>2. \A t \in UpTo(family, s) : HolmTerm(family, t) \in Int
  BY HolmTermInRange DEF UpTo
<1>3. /\ Holm(family, s) \in 0 .. Unit
      /\ \E t \in UpTo(family, s) : Holm(family, s) = HolmTerm(family, t)
      /\ \A t \in UpTo(family, s) : HolmTerm(family, t) <= Holm(family, s)
  BY HolmIsGreatest
<1>4. Holm(family, s) <= level
        <=> \A t \in UpTo(family, s) : HolmTerm(family, t) <= level
  BY <1>2, <1>3
<1> QED BY <1>1, <1>4 DEF StepDownRejects

LEMMA ProductMonotone ==
  ASSUME NEW i \in Nat, NEW j \in Nat, NEW v \in Nat
  PROVE  /\ i <= j => i * v <= j * v
         /\ (v >= 1 /\ i < j) => i * v < j * v
<1>1. ASSUME i <= j
      PROVE  i * v <= j * v
  <2>1. PICK k \in Nat : j = i + k
    BY <1>1
  <2>2. j * v = i * v + k * v
    BY <2>1
  <2> QED BY <2>2, ProductIsNat
<1>2. ASSUME v >= 1, i < j
      PROVE  i * v < j * v
  <2>1. PICK k \in Nat : j = i + 1 + k
    BY <1>2
  <2>2. j * v = i * v + v + k * v
    BY <2>1
  <2> QED BY <1>2, <2>2, ProductIsNat
<1> QED BY <1>1, <1>2

(* The q-value is at most a level exactly for the trials that Benjamini and  *)
(* Hochberg's step-up test rejects at this level                             *)
(* (benjamini_hochberg_q_values), for every family.                          *)
THEOREM BenjaminiHochbergIsStepUp ==
  ASSUME NEW family \in Families, NEW s \in Valid(family),
         NEW level \in 0 .. Unit - 1
  PROVE  BenjaminiHochberg(family, s) <= level <=> StepUpRejects(family, s, level)
<1>1. ASSUME NEW t \in From(family, s)
      PROVE  QTerm(family, t) <= level
               <=> family[t] * Cardinality(Valid(family))
                     <= level * Cardinality(UpTo(family, t))
  <2> DEFINE m == Cardinality(Valid(family))
             rank == Cardinality(UpTo(family, t))
             q == (family[t] * m) \div rank
  <2>1. t \in Valid(family) /\ family[t] \in PValues /\ family[t] \in Nat
    BY FamilyFacts DEF From
  <2>2. t \in UpTo(family, t) /\ UpTo(family, t) \in SUBSET Valid(family)
    BY <2>1 DEF UpTo
  <2>3. m \in 1 .. Cardinality(Signatures) /\ rank \in 1 .. Cardinality(Signatures)
    BY <2>1, <2>2, Counted
  <2>4. m \in Nat /\ rank \in Nat /\ rank >= 1
    BY <2>3
  <2>5. q * rank = family[t] * m
    BY <2>1, <2>3, EvenDivisions
  <2>6. QTerm(family, t) = AtMostOne(q)
    BY DEF QTerm
  <2>7. family[t] * m \in Nat
    BY <2>1, <2>4, ProductIsNat
  <2>8. \A x \in Nat, r \in Nat : r >= 1 => x \div r \in Nat
    OBVIOUS
  <2>9. q \in Nat
    BY <2>4, <2>7, <2>8
  <2> HIDE DEF m, rank, q
  <2>10. q <= level <=> q * rank <= level * rank
    <3>1. q * rank \in Nat /\ level * rank \in Nat
      BY <2>4, <2>9, ProductIsNat
    <3>2. q <= level => q * rank <= level * rank
      BY <2>4, <2>9, ProductMonotone
    <3>3. level < q => level * rank < q * rank
      BY <2>4, <2>9, ProductMonotone
    <3> QED BY <2>9, <3>1, <3>2, <3>3
  <2>11. AtMostOne(q) <= level <=> q <= level
    BY <2>9, CapBelowLevel
  <2>12. QTerm(family, t) <= level <=> family[t] * m <= level * rank
    BY <2>5, <2>6, <2>10, <2>11
  <2> QED BY <2>12 DEF m, rank
<1>2. \A t \in From(family, s) : QTerm(family, t) \in Int
  BY QTermInRange DEF From
<1>3. /\ BenjaminiHochberg(family, s) \in 0 .. Unit
      /\ \E t \in From(family, s) :
           BenjaminiHochberg(family, s) = QTerm(family, t)
      /\ \A t \in From(family, s) :
           BenjaminiHochberg(family, s) <= QTerm(family, t)
  BY BenjaminiHochbergIsLeast
<1>4. BenjaminiHochberg(family, s) <= level
        <=> \E t \in From(family, s) : QTerm(family, t) <= level
  BY <1>2, <1>3
<1> QED BY <1>1, <1>4 DEF StepUpRejects

LEMMA CapMonotone ==
  ASSUME NEW v \in Nat, NEW w \in Nat, v <= w
  PROVE  AtMostOne(v) <= AtMostOne(w)
BY DEF AtMostOne

LEMMA ProductsOrdered ==
  ASSUME NEW i \in Nat, NEW j \in Nat, NEW v \in Nat, NEW w \in Nat, i <= j, v <= w
  PROVE  i * v <= j * w
<1>1. i * v <= j * v /\ v * j <= w * j
  BY ProductMonotone
<1>2. i * v \in Nat /\ j * v \in Nat /\ j * w \in Nat
  BY ProductIsNat
<1> QED BY <1>1, <1>2

(* The terms of a trial, without the minimum and maximum over the others. *)
LEMMA TermsOf ==
  ASSUME NEW family \in Families, NEW t \in Valid(family)
  PROVE  /\ t \in UpTo(family, t) /\ t \in From(family, t)
         /\ Cardinality(Valid(family)) \in 1 .. Cardinality(Signatures)
         /\ Cardinality(UpTo(family, t)) \in 1 .. Cardinality(Valid(family))
         /\ Cardinality(From(family, t)) \in 1 .. Cardinality(Valid(family))
         /\ HolmTerm(family, t) = AtMostOne(Cardinality(From(family, t)) * family[t])
<1>1. family[t] \in Nat /\ t \in UpTo(family, t) /\ t \in From(family, t)
  BY FamilyFacts DEF UpTo, From
<1>2. /\ UpTo(family, t) \in SUBSET Valid(family)
      /\ From(family, t) \in SUBSET Valid(family)
  BY DEF UpTo, From
<1>3. /\ IsFiniteSet(Valid(family))
      /\ Cardinality(Valid(family)) \in 1 .. Cardinality(Signatures)
      /\ Cardinality(UpTo(family, t)) \in Nat /\ Cardinality(UpTo(family, t)) >= 1
      /\ Cardinality(From(family, t)) \in Nat /\ Cardinality(From(family, t)) >= 1
  BY <1>1, <1>2, Counted
<1>4. /\ Cardinality(UpTo(family, t)) <= Cardinality(Valid(family))
      /\ Cardinality(From(family, t)) <= Cardinality(Valid(family))
  BY <1>2, <1>3, FS_Subset
<1>5. Valid(family) \ Below(family, t) = From(family, t)
  BY <1>1, FamilyFacts DEF Below, From
<1>6. HolmTerm(family, t) = AtMostOne(Cardinality(From(family, t)) * family[t])
  BY <1>5, Zenon DEF HolmTerm
<1>7. Cardinality(Valid(family)) \in Nat
  BY <1>3
<1>8. /\ Cardinality(UpTo(family, t)) \in 1 .. Cardinality(Valid(family))
      /\ Cardinality(From(family, t)) \in 1 .. Cardinality(Valid(family))
  BY <1>3, <1>4, <1>7
<1> QED BY <1>1, <1>3, <1>6, <1>8

(* A rank and the number of those not below it cover the family, and share   *)
(* the trial itself.                                                         *)
LEMMA RanksCover ==
  ASSUME NEW family \in Families, NEW t \in Valid(family)
  PROVE  Cardinality(Valid(family)) + 1
           <= Cardinality(UpTo(family, t)) + Cardinality(From(family, t))
<1> DEFINE V == Valid(family)
           A == UpTo(family, t)
           B == From(family, t)
<1>1. IsFiniteSet(V) /\ IsFiniteSet(A) /\ IsFiniteSet(B)
  BY Counted DEF UpTo, From
<1>2. V = A \cup B
  BY FamilyFacts DEF UpTo, From
<1>3. IsFiniteSet(A \cap B) /\ A \cap B # {}
  BY <1>1, TermsOf, FS_Intersection
<1>4. Cardinality(A \cap B) \in Nat /\ Cardinality(A \cap B) # 0
  BY <1>3, FS_CardinalityType, FS_EmptySet
<1>5. Cardinality(A) \in Nat /\ Cardinality(B) \in Nat
  BY <1>1, FS_CardinalityType
<1>6. Cardinality(V) = Cardinality(A) + Cardinality(B) - Cardinality(A \cap B)
  BY <1>1, <1>2, FS_Union
<1> HIDE DEF V, A, B
<1>7. Cardinality(V) + 1 <= Cardinality(A) + Cardinality(B)
  BY <1>4, <1>5, <1>6
<1> QED BY <1>7 DEF V, A, B

(* k(m - k + 1) is never below m, for a rank k of m. *)
LEMMA RankTimesRest ==
  ASSUME NEW m \in Nat, NEW k \in 1 .. m, NEW n \in Nat, m + 1 <= k + n
  PROVE  m <= n * k
<1>1. PICK a \in Nat : k = a + 1
  <2>1. k - 1 \in Nat /\ k = (k - 1) + 1
    OBVIOUS
  <2> QED BY <2>1
<1>2. PICK b \in Nat : n = b + 1 /\ m <= a + b + 1
  <2>1. n - 1 \in Nat /\ n = (n - 1) + 1 /\ m <= a + (n - 1) + 1
    BY <1>1
  <2> QED BY <2>1
<1>3. n * k = (b + 1) * (a + 1)
  BY <1>1, <1>2
<1>4. (b + 1) * (a + 1) = b * a + b + a + 1
  OBVIOUS
<1>5. b * a \in Nat
  BY ProductIsNat
<1> QED BY <1>2, <1>3, <1>4, <1>5

(* What the division of QTerm leaves of a p-value p, of m trials, at rank k. *)
LEMMA QuotientBounds ==
  ASSUME NEW p \in PValues, NEW m \in 1 .. Cardinality(Signatures),
         NEW k \in 1 .. m, NEW n \in Nat, m + 1 <= k + n
  PROVE  /\ (p * m) \div k \in Nat
         /\ p <= (p * m) \div k
         /\ (p * m) \div k <= n * p
<1> DEFINE q == (p * m) \div k
<1>1. p \in Nat /\ m \in Nat /\ k \in Nat /\ k >= 1 /\ Cardinality(Signatures) \in Nat
  BY FS_CardinalityType
<1>2. k \in 1 .. Cardinality(Signatures)
  BY <1>1
<1>3. q * k = p * m
  BY <1>2, EvenDivisions
<1>4. p * m \in Nat /\ p * k \in Nat /\ n * p \in Nat /\ n * k \in Nat
  BY <1>1, ProductIsNat
<1>5. q \in Nat
  <2>1. \A x \in Nat, r \in Nat : r >= 1 => x \div r \in Nat
    OBVIOUS
  <2> QED BY <1>1, <1>4, <2>1
<1> HIDE DEF q
<1>6. p <= q
  <2>1. k * p <= m * p
    BY <1>1, ProductMonotone
  <2>2. q < p => q * k < p * k
    BY <1>1, <1>5, ProductMonotone
  <2> QED BY <1>1, <1>3, <1>4, <1>5, <2>1, <2>2
<1>7. q <= n * p
  <2>1. m <= n * k
    BY <1>1, RankTimesRest
  <2>2. m * p <= (n * k) * p
    BY <1>1, <1>4, <2>1, ProductMonotone
  <2>3. (n * k) * p = (n * p) * k /\ m * p = p * m
    BY <1>1
  <2>4. n * p < q => (n * p) * k < q * k
    BY <1>1, <1>4, <1>5, ProductMonotone
  <2>5. (n * p) * k \in Nat /\ q * k \in Nat
    BY <1>1, <1>4, <1>5, ProductIsNat
  <2> QED BY <1>3, <1>4, <1>5, <2>2, <2>3, <2>4, <2>5
<1> QED BY <1>5, <1>6, <1>7 DEF q

(* The three corrections of one trial come in one order, in every family:    *)
(* the q-value is between the p-value and Holm's value, and Holm's is never  *)
(* above Bonferroni's, which counts the trials without a p-value too.  So a  *)
(* trial that survives_multiple_testing, which is Bonferroni, survives all.  *)
THEOREM CorrectionsAreOrdered ==
  ASSUME NEW family \in Families, NEW s \in Valid(family)
  PROVE  /\ family[s] <= BenjaminiHochberg(family, s)
         /\ BenjaminiHochberg(family, s) <= Holm(family, s)
         /\ Holm(family, s) <= Bonferroni(family[s], Cardinality(DOMAIN family))
<1> DEFINE m == Cardinality(Valid(family))
<1>1. /\ BenjaminiHochberg(family, s) \in 0 .. Unit
      /\ Holm(family, s) \in 0 .. Unit
      /\ family[s] \in 0 .. Unit /\ family[s] # Missing
  BY BenjaminiHochbergIsLeast, HolmIsGreatest, FamilyFacts DEF Valid
<1>2. ASSUME NEW t \in Valid(family)
      PROVE  /\ family[t] <= QTerm(family, t)
             /\ QTerm(family, t) <= HolmTerm(family, t)
  <2> DEFINE k == Cardinality(UpTo(family, t))
             n == Cardinality(From(family, t))
             q == (family[t] * m) \div k
  <2>1. m \in 1 .. Cardinality(Signatures) /\ k \in 1 .. m /\ n \in 1 .. m
    BY TermsOf
  <2>2. n \in Nat /\ m + 1 <= k + n
    BY <2>1, RanksCover
  <2>3. family[t] \in PValues /\ family[t] \in 0 .. Unit
    BY FamilyFacts
  <2>4. QTerm(family, t) = AtMostOne(q) /\ HolmTerm(family, t) = AtMostOne(n * family[t])
    BY TermsOf DEF QTerm
  <2> HIDE DEF m, k, n
  <2>5. q \in Nat /\ family[t] <= q /\ q <= n * family[t]
    BY <2>1, <2>2, <2>3, QuotientBounds
  <2>6. n * family[t] \in Nat
    BY <2>2, <2>3, ProductIsNat
  <2> HIDE DEF q
  <2>7. AtMostOne(q) <= AtMostOne(n * family[t])
    BY <2>5, <2>6, CapMonotone
  <2>8. family[t] <= AtMostOne(q)
    BY <2>3, <2>5 DEF AtMostOne
  <2> QED BY <2>4, <2>7, <2>8
<1>3. family[s] <= BenjaminiHochberg(family, s)
  <2>1. PICK t \in From(family, s) : BenjaminiHochberg(family, s) = QTerm(family, t)
    BY BenjaminiHochbergIsLeast
  <2>2. t \in Valid(family) /\ family[s] <= family[t]
    BY <1>1, <2>1, FamilyFacts DEF From
  <2>3. family[t] <= QTerm(family, t) /\ family[t] \in 0 .. Unit
    BY <1>2, <2>2, FamilyFacts
  <2> QED BY <1>1, <2>1, <2>2, <2>3
<1>4. BenjaminiHochberg(family, s) <= Holm(family, s)
  <2>1. s \in From(family, s) /\ s \in UpTo(family, s)
    BY TermsOf
  <2>2. /\ BenjaminiHochberg(family, s) <= QTerm(family, s)
        /\ HolmTerm(family, s) <= Holm(family, s)
    BY <2>1, BenjaminiHochbergIsLeast, HolmIsGreatest
  <2>3. QTerm(family, s) \in 0 .. Unit /\ HolmTerm(family, s) \in 0 .. Unit
    BY QTermInRange, HolmTermInRange
  <2> QED BY <1>1, <1>2, <2>2, <2>3
<1>5. Holm(family, s) <= Bonferroni(family[s], Cardinality(DOMAIN family))
  <2>1. PICK t \in UpTo(family, s) : Holm(family, s) = HolmTerm(family, t)
    BY HolmIsGreatest
  <2>2. t \in Valid(family) /\ family[t] <= family[s] /\ family[t] \in 0 .. Unit
    BY <2>1, FamilyFacts DEF UpTo
  <2>3. Cardinality(From(family, t)) \in Nat
        /\ Cardinality(From(family, t)) <= Cardinality(Valid(family))
        /\ Cardinality(Valid(family)) \in Nat
    BY <2>2, TermsOf
  <2>4. Cardinality(Valid(family)) <= Cardinality(DOMAIN family)
        /\ Cardinality(DOMAIN family) \in Nat
    BY FamilyFacts, FS_Subset DEF Valid
  <2>5. family[t] * Cardinality(From(family, t)) <= family[s] * Cardinality(DOMAIN family)
    BY <1>1, <2>2, <2>3, <2>4, ProductsOrdered
  <2>6. /\ Cardinality(From(family, t)) * family[t] \in Nat
        /\ family[s] * Cardinality(DOMAIN family) \in Nat
        /\ Cardinality(From(family, t)) * family[t]
             = family[t] * Cardinality(From(family, t))
    BY <1>1, <2>2, <2>3, <2>4, ProductIsNat
  <2>7. AtMostOne(Cardinality(From(family, t)) * family[t])
          <= AtMostOne(family[s] * Cardinality(DOMAIN family))
    BY <2>5, <2>6, CapMonotone
  <2> QED BY <1>1, <2>1, <2>2, <2>7, TermsOf DEF Bonferroni
<1> QED BY <1>3, <1>4, <1>5

(* Trying more never makes an earlier trial more significant: with trials    *)
(* added to a family, Bonferroni's and Holm's values of those it had only    *)
(* grow.  Benjamini and Hochberg's may fall, as theirs is a share of all     *)
(* that is rejected.                                                         *)
THEOREM MoreTrialsNeverHelp ==
  ASSUME NEW family \in Families, NEW larger \in Families,
         DOMAIN family \subseteq DOMAIN larger,
         \A u \in DOMAIN family : larger[u] = family[u],
         NEW s \in Valid(family)
  PROVE  /\ Holm(family, s) <= Holm(larger, s)
         /\ Bonferroni(family[s], Cardinality(DOMAIN family))
              <= Bonferroni(larger[s], Cardinality(DOMAIN larger))
<1>1. /\ Valid(family) \subseteq Valid(larger)
      /\ \A u \in Valid(family) : larger[u] = family[u]
  BY DEF Valid
<1>2. /\ family[s] \in 0 .. Unit /\ family[s] # Missing
      /\ larger[s] = family[s] /\ s \in Valid(larger)
  BY <1>1, FamilyFacts DEF Valid
<1>3. Holm(family, s) <= Holm(larger, s)
  <2>1. PICK t \in UpTo(family, s) : Holm(family, s) = HolmTerm(family, t)
    BY HolmIsGreatest
  <2>2. /\ t \in Valid(family) /\ t \in Valid(larger) /\ t \in UpTo(larger, s)
        /\ larger[t] = family[t] /\ family[t] \in 0 .. Unit
    BY <1>1, <1>2, <2>1, FamilyFacts DEF UpTo
  <2>3. From(family, t) \subseteq From(larger, t) /\ IsFiniteSet(From(larger, t))
    BY <1>1, <2>2, Counted DEF From
  <2>4. /\ Cardinality(From(family, t)) <= Cardinality(From(larger, t))
        /\ Cardinality(From(family, t)) \in Nat /\ Cardinality(From(larger, t)) \in Nat
    BY <2>2, <2>3, FS_Subset, TermsOf
  <2>5. /\ Cardinality(From(family, t)) * family[t] \in Nat
        /\ Cardinality(From(larger, t)) * family[t] \in Nat
        /\ Cardinality(From(family, t)) * family[t]
             <= Cardinality(From(larger, t)) * family[t]
    BY <2>2, <2>4, ProductIsNat, ProductMonotone
  <2>6. HolmTerm(family, t) <= HolmTerm(larger, t)
    BY <2>2, <2>5, CapMonotone, TermsOf
  <2>7. HolmTerm(larger, t) <= Holm(larger, s)
    BY <1>2, <2>2, HolmIsGreatest
  <2>8. /\ HolmTerm(family, t) \in 0 .. Unit /\ HolmTerm(larger, t) \in 0 .. Unit
        /\ Holm(larger, s) \in 0 .. Unit
    BY <1>2, <2>2, HolmTermInRange, HolmIsGreatest
  <2> QED BY <2>1, <2>6, <2>7, <2>8
<1>4. /\ Cardinality(DOMAIN family) <= Cardinality(DOMAIN larger)
      /\ Cardinality(DOMAIN family) \in Nat /\ Cardinality(DOMAIN larger) \in Nat
  BY FamilyFacts, FS_Subset
<1>5. /\ family[s] * Cardinality(DOMAIN family) <= family[s] * Cardinality(DOMAIN larger)
      /\ family[s] * Cardinality(DOMAIN family) \in Nat
      /\ family[s] * Cardinality(DOMAIN larger) \in Nat
  BY <1>2, <1>4, ProductsOrdered, ProductIsNat
<1>6. AtMostOne(family[s] * Cardinality(DOMAIN family))
        <= AtMostOne(family[s] * Cardinality(DOMAIN larger))
  BY <1>5, CapMonotone
<1> QED BY <1>2, <1>3, <1>6 DEF Bonferroni

(* A correction is a row's correction, and never a pending one. *)
LEMMA CorrectionTyped ==
  ASSUME NEW family \in Families, NEW s \in DOMAIN family
  PROVE  /\ CorrectionOf(family, s) \in Correction
         /\ CorrectionOf(family, s).label # "pending"
<1>1. Cardinality(DOMAIN family) \in Nat /\ family[s] \in Raw
  BY FamilyFacts
<1>2. family[s] # Missing => s \in Valid(family) /\ family[s] \in Nat
  BY FamilyFacts DEF Valid
<1>3. Bonferroni(family[s], Cardinality(DOMAIN family)) \in Corrected
  BY <1>1, <1>2, ProductIsNat, AtMostOneInRange DEF Bonferroni, Corrected
<1>4. Holm(family, s) \in Corrected
  BY <1>2, HolmIsGreatest DEF Holm, Corrected
<1>5. BenjaminiHochberg(family, s) \in Corrected
  BY <1>2, BenjaminiHochbergIsLeast DEF BenjaminiHochberg, Corrected
<1>6. ASSUME NEW p, NEW adjusted
      PROVE  /\ SignificanceLabel(p, adjusted) \in Labels
             /\ SignificanceLabel(p, adjusted) # "pending"
  BY DEF SignificanceLabel, Labels
<1> QED BY <1>1, <1>3, <1>4, <1>5, <1>6 DEF CorrectionOf, Correction

-----------------------------------------------------------------------------
(* The rows *)

LEMMA RowsIndexed ==
  ASSUME NEW rows \in Seq(Row)
  PROVE  /\ Len(rows) \in Nat
         /\ DOMAIN rows = 1 .. Len(rows)
         /\ \A i \in DOMAIN rows :
              /\ rows[i] \in Row
              /\ rows[i].signature \in Signatures
              /\ rows[i].raw \in Raw
              /\ rows[i].signature \in SignaturesOf(rows)
         /\ SignaturesOf(rows) \in SUBSET Signatures
<1>1. Len(rows) \in Nat /\ DOMAIN rows = 1 .. Len(rows)
  OBVIOUS
<1>2. \A i \in DOMAIN rows : rows[i] \in Row
  BY <1>1
<1>3. \A i \in DOMAIN rows :
        rows[i].signature \in Signatures /\ rows[i].raw \in Raw
  BY <1>2 DEF Row
<1> QED BY <1>1, <1>2, <1>3 DEF SignaturesOf

(* Every signature of the family has a last row, and only one. *)
LEMMA LastRowExists ==
  ASSUME NEW rows \in Seq(Row), NEW s \in SignaturesOf(rows)
  PROVE  /\ LastRow(rows, s) \in DOMAIN rows
         /\ rows[LastRow(rows, s)].signature = s
         /\ IsLast(rows, LastRow(rows, s))
<1> DEFINE T == {i \in DOMAIN rows : rows[i].signature = s}
<1>1. T # {} /\ T \in SUBSET (0 .. Len(rows)) /\ Len(rows) \in Nat
  BY RowsIndexed DEF SignaturesOf
<1>2. \E i \in T : \A j \in T : j <= i
  BY <1>1, GreatestExists
<1>3. \E i \in DOMAIN rows : rows[i].signature = s /\ IsLast(rows, i)
  BY <1>2 DEF IsLast
<1> QED BY <1>3 DEF LastRow

LEMMA FamilyTyped ==
  ASSUME NEW rows \in Seq(Row)
  PROVE  /\ Family(rows) \in Families
         /\ DOMAIN Family(rows) = SignaturesOf(rows)
<1>1. \A s \in SignaturesOf(rows) : rows[LastRow(rows, s)].raw \in Raw
  BY LastRowExists, RowsIndexed
<1>2. SignaturesOf(rows) \in SUBSET Signatures
  BY RowsIndexed
<1>3. Family(rows) \in [SignaturesOf(rows) -> Raw]
  BY <1>1 DEF Family
<1> QED BY <1>2, <1>3 DEF Families, Family

(* What a refresh changes of the rows, and what it leaves. *)
LEMMA RefreshFacts ==
  ASSUME NEW rows \in Seq(Row), NEW family \in Families
  PROVE  /\ Refresh(rows, family) \in Seq(Row)
         /\ DOMAIN Refresh(rows, family) = DOMAIN rows
         /\ \A i \in DOMAIN rows :
              LET new == Refresh(rows, family)[i]
              IN /\ new.signature = rows[i].signature
                 /\ new.raw = rows[i].raw
                 /\ new.by = rows[i].by
                 /\ IF rows[i].signature \in DOMAIN family
                    THEN /\ new.correction
                              = CorrectionOf(family, rows[i].signature)
                         /\ new.correction.label # "pending"
                    ELSE new.correction = rows[i].correction
<1>1. DOMAIN Refresh(rows, family) = DOMAIN rows
  BY DEF Refresh
<1>2. ASSUME NEW i \in DOMAIN rows
      PROVE  /\ Refresh(rows, family)[i] \in Row
             /\ LET new == Refresh(rows, family)[i]
                IN /\ new.signature = rows[i].signature
                   /\ new.raw = rows[i].raw
                   /\ new.by = rows[i].by
                   /\ IF rows[i].signature \in DOMAIN family
                      THEN /\ new.correction
                                = CorrectionOf(family, rows[i].signature)
                           /\ new.correction.label # "pending"
                      ELSE new.correction = rows[i].correction
  <2>1. rows[i] \in Row
    BY RowsIndexed
  <2>2. CASE rows[i].signature \in DOMAIN family
    <3>1. /\ CorrectionOf(family, rows[i].signature) \in Correction
          /\ CorrectionOf(family, rows[i].signature).label # "pending"
      BY <2>2, CorrectionTyped
    <3>2. Refresh(rows, family)[i]
            = [rows[i] EXCEPT !.correction
                 = CorrectionOf(family, rows[i].signature)]
      BY <2>2 DEF Refresh
    <3> QED BY <2>1, <2>2, <3>1, <3>2 DEF Row
  <2>3. CASE rows[i].signature \notin DOMAIN family
    BY <2>1, <2>3 DEF Refresh
  <2> QED BY <2>2, <2>3
<1>3. Refresh(rows, family) \in [1 .. Len(rows) -> Row]
  BY <1>1, <1>2, RowsIndexed DEF Refresh
<1>4. Refresh(rows, family) \in Seq(Row)
  BY <1>3, RowsIndexed
<1> QED BY <1>1, <1>2, <1>4

(* A refresh changes neither signatures nor p-values, so the family stays. *)
LEMMA RefreshKeepsFamily ==
  ASSUME NEW rows \in Seq(Row), NEW family \in Families
  PROVE  /\ SignaturesOf(Refresh(rows, family)) = SignaturesOf(rows)
         /\ Family(Refresh(rows, family)) = Family(rows)
<1> DEFINE new == Refresh(rows, family)
<1>1. /\ new \in Seq(Row)
      /\ DOMAIN new = DOMAIN rows
      /\ \A i \in DOMAIN rows :
           new[i].signature = rows[i].signature /\ new[i].raw = rows[i].raw
  BY RefreshFacts
<1> HIDE DEF new
<1>2. SignaturesOf(new) = SignaturesOf(rows)
  BY <1>1 DEF SignaturesOf
<1>3. ASSUME NEW s \in SignaturesOf(rows)
      PROVE  LastRow(new, s) = LastRow(rows, s)
  <2> DEFINE a == LastRow(new, s)
             b == LastRow(rows, s)
  <2>1. a \in DOMAIN new /\ new[a].signature = s /\ IsLast(new, a)
    BY <1>1, <1>2, LastRowExists
  <2>2. b \in DOMAIN rows /\ rows[b].signature = s /\ IsLast(rows, b)
    BY LastRowExists
  <2> HIDE DEF a, b
  <2>3. a <= b /\ b <= a
    BY <1>1, <2>1, <2>2 DEF IsLast
  <2>4. a \in Int /\ b \in Int
    BY <1>1, <2>1, <2>2, RowsIndexed
  <2>5. a = b
    BY <2>3, <2>4
  <2> QED BY <2>5 DEF a, b
<1>4. \A s \in SignaturesOf(rows) :
        new[LastRow(new, s)].raw = rows[LastRow(rows, s)].raw
  BY <1>1, <1>3, LastRowExists
<1>5. Family(new) = Family(rows)
  BY <1>2, <1>4 DEF Family
<1> QED BY <1>2, <1>5 DEF new

(* Rows corrected from their own family are corrected for all of it. *)
LEMMA RefreshedAreCorrected ==
  ASSUME NEW rows \in Seq(Row)
  PROVE  LET new == Refresh(rows, Family(rows))
         IN \A i \in DOMAIN new :
              /\ new[i].correction.count = Cardinality(SignaturesOf(new))
              /\ new[i].correction = CorrectionOf(Family(new), new[i].signature)
              /\ new[i].correction.label # "pending"
<1> DEFINE family == Family(rows)
           new == Refresh(rows, family)
<1>1. family \in Families /\ DOMAIN family = SignaturesOf(rows)
  BY FamilyTyped
<1>2. SignaturesOf(new) = SignaturesOf(rows) /\ Family(new) = family
  BY <1>1, RefreshKeepsFamily
<1>3. ASSUME NEW i \in DOMAIN new
      PROVE  /\ new[i].correction = CorrectionOf(family, new[i].signature)
             /\ new[i].correction.label # "pending"
  <2>1. i \in DOMAIN rows
    BY <1>1, RefreshFacts
  <2>2. rows[i].signature \in DOMAIN family
    BY <1>1, <2>1, RowsIndexed
  <2> QED BY <1>1, <2>1, <2>2, RefreshFacts
<1>4. \A s : CorrectionOf(family, s).count = Cardinality(DOMAIN family)
  BY DEF CorrectionOf
<1> HIDE DEF family, new
<1>5. \A i \in DOMAIN new :
        /\ new[i].correction.count = Cardinality(SignaturesOf(new))
        /\ new[i].correction = CorrectionOf(Family(new), new[i].signature)
        /\ new[i].correction.label # "pending"
  BY <1>1, <1>2, <1>3, <1>4
<1> QED BY <1>5 DEF new, family

LEMMA NewRowTyped ==
  ASSUME NEW s \in Signatures, NEW raw \in Raw,
         NEW by \in {"record", "evaluator", "preflight"}, NEW label \in Labels
  PROVE  /\ NewRow(s, raw, by, label) \in Row
         /\ NewRow(s, raw, by, label).by = by
         /\ NewRow(s, raw, by, label).signature = s
BY DEF NewRow, Row, Uncorrected, Correction, Corrected

LEMMA AppendFacts ==
  ASSUME NEW rows \in Seq(Row), NEW row \in Row
  PROVE  /\ Append(rows, row) \in Seq(Row)
         /\ DOMAIN Append(rows, row) = 1 .. Len(rows) + 1
         /\ \A i \in 1 .. Len(rows) : Append(rows, row)[i] = rows[i]
         /\ Append(rows, row)[Len(rows) + 1] = row
OBVIOUS

LEMMA RemoveAtFacts ==
  ASSUME NEW rows \in Seq(Row), NEW k \in 1 .. Len(rows)
  PROVE  /\ RemoveAt(rows, k) \in Seq(Row)
         /\ Len(RemoveAt(rows, k)) = Len(rows) - 1
         /\ \A i \in 1 .. Len(rows) - 1 :
              RemoveAt(rows, k)[i] = IF i < k THEN rows[i] ELSE rows[i + 1]
<1> DEFINE s1 == SubSeq(rows, 1, k - 1)
           s2 == SubSeq(rows, k + 1, Len(rows))
<1>1. Len(rows) \in Nat /\ k \in Int /\ \A i \in 1 .. Len(rows) : rows[i] \in Row
  BY RowsIndexed
<1>2. /\ s1 \in Seq(Row) /\ Len(s1) = k - 1
      /\ \A i \in 1 .. k - 1 : s1[i] = rows[i]
  BY <1>1
<1>3. /\ s2 \in Seq(Row) /\ Len(s2) = Len(rows) - k
      /\ \A i \in 1 .. Len(rows) - k : s2[i] = rows[i + k]
  BY <1>1
<1>4. RemoveAt(rows, k) = s1 \o s2
  BY DEF RemoveAt
<1> HIDE DEF s1, s2
<1>5. s1 \o s2 \in Seq(Row) /\ Len(s1 \o s2) = Len(rows) - 1
  <2>0. s1 \in Seq(Row) /\ s2 \in Seq(Row)
    BY <1>2, <1>3
  <2>1. /\ s1 \o s2 \in Seq(Row)
        /\ Len(s1 \o s2) = Len(s1) + Len(s2)
    BY <2>0, ConcatProperties, Zenon
  <2> QED BY <1>1, <1>2, <1>3, <2>1
<1>6. ASSUME NEW i \in 1 .. Len(rows) - 1
      PROVE  (s1 \o s2)[i] = IF i < k THEN rows[i] ELSE rows[i + 1]
  <2>1. CASE i < k
    <3>1. i \in 1 .. Len(s1) /\ s1[i] = rows[i]
      BY <1>1, <1>2, <2>1
    <3>2. (s1 \o s2)[i] = s1[i]
      BY <1>2, <1>3, <3>1
    <3> QED BY <2>1, <3>1, <3>2
  <2>2. CASE ~(i < k)
    <3>1. i - (k - 1) \in 1 .. Len(s2)
      BY <1>1, <1>3, <2>2
    <3>2. (s1 \o s2)[i] = s2[i - (k - 1)]
      BY <1>1, <1>2, <1>3, <2>2, <3>1
    <3>3. s2[i - (k - 1)] = rows[i - (k - 1) + k] /\ i - (k - 1) + k = i + 1
      BY <1>1, <1>3, <3>1
    <3> QED BY <2>2, <3>2, <3>3
  <2> QED BY <2>1, <2>2
<1> QED BY <1>4, <1>5, <1>6

(* The rows that a record is appended to have none of its signature. *)
LEMMA ReplacedFacts ==
  ASSUME trials \in Seq(Row), NEW s \in Signatures,
         \A i, j \in DOMAIN trials :
           trials[i].by = "record" =>
             /\ trials[i].correction.label # "pending"
             /\ trials[j].by = "record"
                  /\ trials[j].signature = trials[i].signature => i = j
  PROVE  /\ Replaced(s) \in Seq(Row)
         /\ \A i \in DOMAIN Replaced(s) :
              ~(Replaced(s)[i].by = "record" /\ Replaced(s)[i].signature = s)
         /\ \A i, j \in DOMAIN Replaced(s) :
              Replaced(s)[i].by = "record" =>
                /\ Replaced(s)[i].correction.label # "pending"
                /\ Replaced(s)[j].by = "record"
                     /\ Replaced(s)[j].signature = Replaced(s)[i].signature
                     => i = j
<1>1. CASE RecordedAt(s) = {}
  BY <1>1 DEF Replaced, RecordedAt
<1>2. CASE RecordedAt(s) # {}
  <2> DEFINE k == CHOOSE i \in RecordedAt(s) : TRUE
             rest == RemoveAt(trials, k)
  <2>1. k \in DOMAIN trials /\ trials[k].by = "record" /\ trials[k].signature = s
    BY <1>2 DEF RecordedAt
  <2>2. Replaced(s) = rest
    BY <1>2 DEF Replaced
  <2> HIDE DEF k
  <2>3. k \in 1 .. Len(trials) /\ Len(trials) \in Nat
    BY <2>1, RowsIndexed
  <2>4. /\ rest \in Seq(Row)
        /\ Len(rest) = Len(trials) - 1
        /\ \A i \in 1 .. Len(trials) - 1 :
             rest[i] = IF i < k THEN trials[i] ELSE trials[i + 1]
    BY <2>3, RemoveAtFacts
  <2> HIDE DEF rest
  <2> DEFINE at(i) == IF i < k THEN i ELSE i + 1
  <2>5. \A i \in DOMAIN rest :
          i \in Int /\ at(i) \in DOMAIN trials /\ at(i) # k /\ rest[i] = trials[at(i)]
    BY <2>3, <2>4
  <2>6. \A i, j \in DOMAIN rest : at(i) = at(j) => i = j
    BY <2>3, <2>5
  <2> HIDE DEF at
  <2>7. \A i \in DOMAIN rest : ~(rest[i].by = "record" /\ rest[i].signature = s)
    BY <2>1, <2>5
  <2>8. ASSUME NEW i \in DOMAIN rest, NEW j \in DOMAIN rest,
               rest[i].by = "record"
        PROVE  /\ rest[i].correction.label # "pending"
               /\ rest[j].by = "record" /\ rest[j].signature = rest[i].signature
                    => i = j
    BY <2>5, <2>6, <2>8
  <2> QED BY <2>2, <2>4, <2>7, <2>8
<1> QED BY <1>1, <1>2

-----------------------------------------------------------------------------
(* Type correctness *)

LEMMA DraftTyped ==
  /\ AtRest \in Draft
  /\ NoFamily \in Families
<1>1. NoFamily \in [{} -> Raw]
  BY DEF NoFamily
<1>2. NoFamily \in Families
  BY <1>1 DEF Families
<1> QED BY <1>2 DEF AtRest, Draft, Raw

(* The family is appended a row that is no record. *)
LEMMA AppendKeepsRows ==
  ASSUME TypeOK, NEW row \in Row, row.by # "record",
         trials' = Append(trials, row)
  PROVE  /\ trials' \in Seq(Row)
         /\ \A i, j \in DOMAIN trials' :
              trials'[i].by = "record" =>
                /\ trials'[i].correction.label # "pending"
                /\ trials'[j].by = "record"
                     /\ trials'[j].signature = trials'[i].signature => i = j
<1>1. trials \in Seq(Row) /\ DOMAIN trials = 1 .. Len(trials) /\ Len(trials) \in Nat
  BY RowsIndexed DEF TypeOK
<1>2. /\ trials' \in Seq(Row)
      /\ DOMAIN trials' = 1 .. Len(trials) + 1
      /\ \A i \in 1 .. Len(trials) : trials'[i] = trials[i]
      /\ trials'[Len(trials) + 1].by # "record"
  BY <1>1, AppendFacts
<1>3. \A i \in DOMAIN trials' :
        trials'[i].by = "record" => i \in DOMAIN trials /\ trials'[i] = trials[i]
  BY <1>1, <1>2
<1> QED BY <1>2, <1>3 DEF TypeOK

(* The part of the type invariant that is about the writers. *)
WorkTyped ==
  /\ work \in [Writers -> Draft]
  /\ \A w \in Writers :
       /\ work[w].pc \in IF w \in Recorders THEN {"idle", "count", "insert"}
                        ELSE {"idle", "read", "write"}
       /\ work[w].pc \in {"count", "insert"} => work[w].signature \in Signatures

LEMMA WorkKept ==
  ASSUME TypeOK, NEW w \in Writers, NEW draft \in Draft,
         draft.pc \in IF w \in Recorders THEN {"idle", "count", "insert"}
                     ELSE {"idle", "read", "write"},
         draft.pc \in {"count", "insert"} => draft.signature \in Signatures,
         work' = [work EXCEPT ![w] = draft]
  PROVE  WorkTyped'
<1>1. work \in [Writers -> Draft]
  BY DEF TypeOK
<1>2. /\ work' \in [Writers -> Draft]
      /\ \A v \in Writers : work'[v] = IF v = w THEN draft ELSE work[v]
  BY <1>1
<1> QED BY <1>2 DEF WorkTyped, TypeOK

(* The part that is about the rows. *)
RowsTyped(rows) ==
  /\ rows \in Seq(Row)
  /\ \A i, j \in DOMAIN rows :
       rows[i].by = "record" =>
         /\ rows[i].correction.label # "pending"
         /\ rows[j].by = "record" /\ rows[j].signature = rows[i].signature
              => i = j

LEMMA TypeOKParts ==
  TypeOK <=> /\ RowsTyped(trials)
             /\ WorkTyped
             /\ behind \in BOOLEAN
             /\ records \in 0 .. MaxRecords /\ kills \in 0 .. MaxKills
BY DEF TypeOK, RowsTyped, WorkTyped

LEMMA TypeOKNext ==
  ASSUME RowsTyped(trials'), WorkTyped', behind' \in BOOLEAN,
         records' \in 0 .. MaxRecords, kills' \in 0 .. MaxKills
  PROVE  TypeOK'
BY DEF TypeOK, RowsTyped, WorkTyped

LEMMA TypeInitially == Init => TypeOK
<1>1. <<>> \in Seq(Row) /\ DOMAIN <<>> = {}
  OBVIOUS
<1>2. Init => RowsTyped(trials)
  BY <1>1 DEF Init, RowsTyped
<1>3. Init => WorkTyped
  BY DraftTyped DEF Init, WorkTyped, AtRest
<1>4. Init => behind \in BOOLEAN
  BY DEF Init
<1>5. Init => records \in 0 .. MaxRecords /\ kills \in 0 .. MaxKills
  BY DEF Init
<1> QED BY <1>2, <1>3, <1>4, <1>5, TypeOKParts

(* The rows of a record that is appended in place of its predecessor. *)
LEMMA RecordKeepsRows ==
  ASSUME TypeOK, NEW s \in Signatures, NEW raw \in Raw
  PROVE  LET rows == Append(Replaced(s), NewRow(s, raw, "record", "pending"))
         IN /\ rows \in Seq(Row)
            /\ RowsTyped(Refresh(rows, Family(rows)))
<1> DEFINE rest == Replaced(s)
           row == NewRow(s, raw, "record", "pending")
           rows == Append(rest, row)
           new == Refresh(rows, Family(rows))
<1>1. /\ rest \in Seq(Row)
      /\ \A i \in DOMAIN rest : ~(rest[i].by = "record" /\ rest[i].signature = s)
      /\ \A i, j \in DOMAIN rest :
           rest[i].by = "record" /\ rest[j].by = "record"
             /\ rest[j].signature = rest[i].signature => i = j
  BY ReplacedFacts DEF TypeOK
<1>2. row \in Row /\ row.by = "record" /\ row.signature = s
  BY NewRowTyped DEF Labels
<1> HIDE DEF rest, row
<1>3. /\ rows \in Seq(Row)
      /\ DOMAIN rows = 1 .. Len(rest) + 1
      /\ \A i \in 1 .. Len(rest) : rows[i] = rest[i]
      /\ rows[Len(rest) + 1] = row
      /\ DOMAIN rest = 1 .. Len(rest) /\ Len(rest) \in Nat
  BY <1>1, <1>2, AppendFacts, RowsIndexed
<1> HIDE DEF rows
<1>4. ASSUME NEW i \in DOMAIN rows, NEW j \in DOMAIN rows,
             rows[i].by = "record", rows[j].by = "record",
             rows[j].signature = rows[i].signature
      PROVE  i = j
  <2>1. CASE i \in DOMAIN rest /\ j \in DOMAIN rest
    BY <1>1, <1>3, <1>4, <2>1
  <2>2. CASE i \in DOMAIN rest /\ j = Len(rest) + 1
    BY <1>1, <1>2, <1>3, <1>4, <2>2
  <2>3. CASE i = Len(rest) + 1 /\ j \in DOMAIN rest
    BY <1>1, <1>2, <1>3, <1>4, <2>3
  <2> QED BY <1>3, <2>1, <2>2, <2>3
<1>5. Family(rows) \in Families
  BY <1>3, FamilyTyped
<1>6. /\ new \in Seq(Row) /\ DOMAIN new = DOMAIN rows
      /\ \A i \in DOMAIN rows :
           new[i].signature = rows[i].signature /\ new[i].by = rows[i].by
  BY <1>3, <1>5, RefreshFacts
<1>7. \A i \in DOMAIN new : new[i].correction.label # "pending"
  BY <1>3, RefreshedAreCorrected
<1> HIDE DEF new
<1>8. RowsTyped(new)
  BY <1>4, <1>6, <1>7 DEF RowsTyped
<1> QED BY <1>3, <1>8 DEF new, rows, rest, row

(* A refresh keeps the rows typed, from whatever family it comes. *)
LEMMA RefreshKeepsRows ==
  ASSUME NEW rows, RowsTyped(rows), NEW family \in Families
  PROVE  RowsTyped(Refresh(rows, family))
<1> DEFINE new == Refresh(rows, family)
<1>1. rows \in Seq(Row)
  BY DEF RowsTyped
<1>2. /\ new \in Seq(Row) /\ DOMAIN new = DOMAIN rows
      /\ \A i \in DOMAIN rows :
           /\ new[i].signature = rows[i].signature
           /\ new[i].by = rows[i].by
           /\ \/ new[i].correction.label # "pending"
              \/ new[i].correction = rows[i].correction
  BY <1>1, RefreshFacts
<1> HIDE DEF new
<1>3. RowsTyped(new)
  BY <1>2 DEF RowsTyped
<1> QED BY <1>3 DEF new

LEMMA KindsApart == \A w \in Evaluators : w \notin Recorders
BY LedgerAssumption

LEMMA TypeKept == TypeOK /\ [Next]_vars => TypeOK'
<1> SUFFICES ASSUME TypeOK, [Next]_vars
             PROVE  TypeOK'
  OBVIOUS
<1>1. /\ trials \in Seq(Row)
      /\ work \in [Writers -> Draft]
      /\ records \in Nat /\ kills \in Nat
  BY DEF TypeOK
<1>2. ASSUME NEW w \in Recorders, ReadExisting(w)
      PROVE  TypeOK'
  <2>1. PICK signature \in Signatures, raw \in Raw :
          LET trial == [AtRest EXCEPT !.signature = signature, !.raw = raw]
          IN \/ work' = [work EXCEPT ![w] = [trial EXCEPT !.pc = "insert"]]
             \/ \E i \in RecordedAt(signature) :
                  work' = [work EXCEPT ![w] =
                    [trial EXCEPT !.pc = "count",
                                  !.existing = trials[i].correction.count]]
    BY <1>2 DEF ReadExisting
  <2>3. \A i \in RecordedAt(signature) : trials[i].correction.count \in Nat
    BY <1>1, RowsIndexed DEF RecordedAt, Row, Correction
  <2>4. \E draft \in Draft :
          /\ draft.pc \in {"count", "insert"}
          /\ draft.signature \in Signatures
          /\ work' = [work EXCEPT ![w] = draft]
    BY <2>1, <2>3, DraftTyped DEF AtRest, Draft
  <2>5. PICK draft \in Draft :
          /\ draft.pc \in {"count", "insert"}
          /\ draft.signature \in Signatures
          /\ work' = [work EXCEPT ![w] = draft]
    BY <2>4
  <2>6. WorkTyped'
    BY <2>5, WorkKept, KindsApart DEF Writers
  <2>7. records' \in 0 .. MaxRecords
    <3>1. records < MaxRecords /\ records' = records + 1
      BY <1>2 DEF ReadExisting
    <3> QED BY <1>1, <3>1
  <2>8. UNCHANGED <<trials, behind, kills>>
    BY <1>2 DEF ReadExisting
  <2> QED BY <2>6, <2>7, <2>8, TypeOKParts, TypeOKNext
<1>3. ASSUME NEW w \in Recorders, CountFamily(w)
      PROVE  TypeOK'
  <2>1. \E draft \in Draft :
          /\ draft.pc \in {"idle", "insert"}
          /\ draft.pc = "insert" => draft.signature \in Signatures
          /\ work' = [work EXCEPT ![w] = draft]
    <3>1. work[w] \in Draft /\ work[w].signature \in Signatures
      BY <1>1, <1>3 DEF CountFamily, TypeOK, Writers
    <3>2. CASE work' = [work EXCEPT ![w] = AtRest]
      BY <3>2, DraftTyped DEF AtRest
    <3>3. CASE work' = [work EXCEPT ![w].pc = "insert"]
      <4>1. [work[w] EXCEPT !.pc = "insert"] \in Draft
        BY <3>1 DEF Draft
      <4>2. work' = [work EXCEPT ![w] = [work[w] EXCEPT !.pc = "insert"]]
        BY <3>3
      <4> QED BY <3>1, <4>1, <4>2 DEF Draft
    <3> QED BY <1>3, <3>2, <3>3 DEF CountFamily
  <2>2. PICK draft \in Draft :
          /\ draft.pc \in {"idle", "insert"}
          /\ draft.pc = "insert" => draft.signature \in Signatures
          /\ work' = [work EXCEPT ![w] = draft]
    BY <2>1
  <2>3. WorkTyped'
    BY <2>2, WorkKept, KindsApart DEF Writers
  <2>4. UNCHANGED <<trials, behind, records, kills>>
    BY <1>3 DEF CountFamily
  <2> QED BY <2>3, <2>4, TypeOKParts, TypeOKNext
<1>4. ASSUME NEW w \in Recorders, Record(w)
      PROVE  TypeOK'
  <2>1. work[w].signature \in Signatures /\ work[w].raw \in Raw
    BY <1>1, <1>4 DEF Record, TypeOK, Writers, Draft
  <2>2. RowsTyped(trials')
    BY <1>4, <2>1, RecordKeepsRows DEF Record
  <2>3. WorkTyped'
    <3>1. work' = [work EXCEPT ![w] = AtRest] /\ AtRest.pc = "idle"
      BY <1>4 DEF Record, AtRest
    <3> QED BY <3>1, DraftTyped, WorkKept DEF Writers
  <2>4. behind' = FALSE /\ UNCHANGED <<records, kills>>
    BY <1>4 DEF Record
  <2> QED BY <2>2, <2>3, <2>4, TypeOKParts, TypeOKNext
<1>5. ASSUME NEW w \in Evaluators, InsertTrial(w)
      PROVE  TypeOK'
  <2>1. PICK s \in Signatures, raw \in Raw :
          trials' = Append(trials, NewRow(s, raw, "evaluator", "pending"))
    BY <1>5 DEF InsertTrial
  <2>3. /\ NewRow(s, raw, "evaluator", "pending") \in Row
        /\ NewRow(s, raw, "evaluator", "pending").by # "record"
    BY NewRowTyped DEF Labels
  <2>4. RowsTyped(trials')
    BY <2>1, <2>3, AppendKeepsRows DEF RowsTyped
  <2>5. WorkTyped'
    <3> DEFINE draft == [work[w] EXCEPT !.pc = "read"]
    <3>1. work[w] \in Draft
      BY <1>1 DEF Writers
    <3>2. draft \in Draft /\ draft.pc = "read"
      BY <3>1 DEF Draft
    <3>3. work' = [work EXCEPT ![w] = draft]
      BY <1>5 DEF InsertTrial, Advance
    <3>4. draft.pc \in {"idle", "read", "write"}
            /\ draft.pc \notin {"count", "insert"}
      BY <3>2
    <3> HIDE DEF draft
    <3>5. w \in Writers /\ w \notin Recorders
      BY KindsApart DEF Writers
    <3> QED BY <3>2, <3>3, <3>4, <3>5, WorkKept
  <2>6. behind' = TRUE /\ UNCHANGED <<records, kills>>
    BY <1>5 DEF InsertTrial
  <2> QED BY <2>4, <2>5, <2>6, TypeOKParts, TypeOKNext
<1>6. ASSUME NEW w \in Evaluators, ReadFamily(w)
      PROVE  TypeOK'
  <2>1. WorkTyped'
    <3> DEFINE draft == [work[w] EXCEPT !.pc = "write", !.family = Family(trials)]
    <3>1. work[w] \in Draft /\ Family(trials) \in Families
      BY <1>1, FamilyTyped DEF Writers
    <3>2. draft \in Draft /\ draft.pc = "write"
      BY <3>1 DEF Draft
    <3>3. work' = [work EXCEPT ![w] = draft]
      BY <1>6 DEF ReadFamily
    <3>4. draft.pc \in {"idle", "read", "write"}
            /\ draft.pc \notin {"count", "insert"}
      BY <3>2
    <3> HIDE DEF draft
    <3>5. w \in Writers /\ w \notin Recorders
      BY KindsApart DEF Writers
    <3> QED BY <3>2, <3>3, <3>4, <3>5, WorkKept
  <2>2. UNCHANGED <<trials, behind, records, kills>>
    BY <1>6 DEF ReadFamily
  <2> QED BY <2>1, <2>2, TypeOKParts, TypeOKNext
<1>7. ASSUME NEW w \in Evaluators, WriteCorrections(w)
      PROVE  TypeOK'
  <2>1. work[w].family \in Families
    BY <1>1 DEF Draft, Writers
  <2>2. RowsTyped(trials')
    BY <1>7, <2>1, RefreshKeepsRows, TypeOKParts DEF WriteCorrections
  <2>3. WorkTyped'
    <3>1. work' = [work EXCEPT ![w] = AtRest] /\ AtRest.pc = "idle"
      BY <1>7 DEF WriteCorrections, AtRest
    <3> QED BY <3>1, DraftTyped, WorkKept DEF Writers
  <2>4. behind' \in BOOLEAN /\ UNCHANGED <<records, kills>>
    BY <1>7 DEF WriteCorrections
  <2> QED BY <2>2, <2>3, <2>4, TypeOKParts, TypeOKNext
<1>8. ASSUME NEW w \in Evaluators, Kill(w)
      PROVE  TypeOK'
  <2>1. WorkTyped'
    <3>1. work' = [work EXCEPT ![w] = AtRest] /\ AtRest.pc = "idle"
      BY <1>8 DEF Kill, AtRest
    <3> QED BY <3>1, DraftTyped, WorkKept DEF Writers
  <2>2. kills' \in 0 .. MaxKills /\ UNCHANGED <<trials, behind, records>>
    BY <1>8 DEF Kill, TypeOK
  <2> QED BY <2>1, <2>2, TypeOKParts, TypeOKNext
<1>9. ASSUME NEW signature \in Signatures, RecordBlockedRun(signature)
      PROVE  TypeOK'
  <2>1. /\ NewRow(signature, Missing, "preflight", "blocked") \in Row
        /\ NewRow(signature, Missing, "preflight", "blocked").by # "record"
    BY NewRowTyped DEF Labels, Raw
  <2>2. RowsTyped(trials')
    BY <1>9, <2>1, AppendKeepsRows DEF RecordBlockedRun, RowsTyped
  <2>3. behind' = TRUE /\ UNCHANGED <<work, records, kills>>
    BY <1>9 DEF RecordBlockedRun
  <2>4. WorkTyped'
    BY <2>3, TypeOKParts DEF WorkTyped
  <2> QED BY <2>2, <2>3, <2>4, TypeOKParts, TypeOKNext
<1>10. CASE UNCHANGED vars
  BY <1>10 DEF vars, TypeOK
<1> QED BY <1>2, <1>3, <1>4, <1>5, <1>6, <1>7, <1>8, <1>9, <1>10
        DEF Next, RecorderStep, EvaluatorStep

(* The rows, the drafts and the counters stay of their kinds, and a record   *)
(* stays the only one of its signature and is never left uncorrected.        *)
THEOREM TrialsTypeCorrect == Spec => []TypeOK
<1> QED BY TypeInitially, TypeKept, PTL DEF Spec

-----------------------------------------------------------------------------
(* What the corrections say *)

(* Only writes that correct for the whole family end the ghost's TRUE.       *)
LEMMA CorrectedKept ==
  TypeOK /\ CorrectedUnlessBehind /\ [Next]_vars => CorrectedUnlessBehind'
<1> SUFFICES ASSUME TypeOK, CorrectedUnlessBehind, [Next]_vars
             PROVE  CorrectedUnlessBehind'
  OBVIOUS
<1>1. trials \in Seq(Row) /\ work \in [Writers -> Draft]
  BY DEF TypeOK
<1>2. ASSUME NEW rows \in Seq(Row), trials' = Refresh(rows, Family(rows))
      PROVE  CorrectedUnlessBehind'
  BY <1>2, RefreshedAreCorrected DEF CorrectedUnlessBehind
<1>3. ASSUME NEW w \in Recorders, Record(w)
      PROVE  CorrectedUnlessBehind'
  <2>1. work[w].signature \in Signatures /\ work[w].raw \in Raw
    BY <1>1, <1>3 DEF Record, TypeOK, Writers, Draft
  <2>2. Append(Replaced(work[w].signature),
               NewRow(work[w].signature, work[w].raw, "record", "pending"))
          \in Seq(Row)
    BY <2>1, RecordKeepsRows
  <2> QED BY <1>2, <1>3, <2>2 DEF Record
<1>4. ASSUME NEW w \in Evaluators, WriteCorrections(w)
      PROVE  CorrectedUnlessBehind'
  <2>1. CASE Family(trials) = work[w].family
    BY <1>1, <1>2, <1>4, <2>1 DEF WriteCorrections
  <2>2. CASE Family(trials) # work[w].family
    BY <1>4, <2>2 DEF WriteCorrections, CorrectedUnlessBehind
  <2> QED BY <2>1, <2>2
<1>5. CASE \/ \E w \in Evaluators : InsertTrial(w)
           \/ \E signature \in Signatures : RecordBlockedRun(signature)
  BY <1>5 DEF InsertTrial, RecordBlockedRun, CorrectedUnlessBehind
<1>6. CASE UNCHANGED <<trials, behind>>
  BY <1>6 DEF CorrectedUnlessBehind
<1>7. CASE \/ \E w \in Recorders : ReadExisting(w) \/ CountFamily(w)
           \/ \E w \in Evaluators : ReadFamily(w) \/ Kill(w)
           \/ UNCHANGED vars
  BY <1>6, <1>7 DEF ReadExisting, CountFamily, ReadFamily, Kill, vars
<1> QED BY <1>3, <1>4, <1>5, <1>7 DEF Next, RecorderStep, EvaluatorStep

(* Unless the family is behind, every row carries the correction for all its *)
(* trials, whatever writers were killed or overlapped before.                *)
THEOREM TrialsCorrected == Spec => []CorrectedUnlessBehind
<1>1. Init => CorrectedUnlessBehind
  BY DEF Init, CorrectedUnlessBehind
<1> QED BY <1>1, TypeInitially, TypeKept, CorrectedKept, PTL DEF Spec

(* The corrections of the family in the table are those of the two           *)
(* procedures at every level.                                                *)
THEOREM CorrectionsAreRight == Spec => []CorrectionsAreTheProcedures
<1>1. TypeOK /\ Levels \subseteq 0 .. Unit - 1 => CorrectionsAreTheProcedures
  BY FamilyTyped, HolmIsStepDown, BenjaminiHochbergIsStepUp
     DEF TypeOK, CorrectionsAreTheProcedures
<1> QED BY <1>1, TypeInitially, TypeKept, PTL DEF Spec

-----------------------------------------------------------------------------
(* Overlapping backtests *)

Writing == {w \in Evaluators : work[w].pc = "write"}

(* Uncorrected backtests that none of S is about to correct.                *)
Missed(S) ==
  {i \in Uncorrecteds : \A w \in S : trials[i].signature \notin DOMAIN work[w].family}

(* A backtest does not remember which row is its own, and may be corrected  *)
(* by any other, so rows cannot be paired with the backtests under way.     *)
(* What is inductive is a count: whichever backtests write next, those they *)
(* miss are no more than were killed or are under way besides them.         *)
CountInv ==
  /\ IsFiniteSet(UnderWay)
  /\ \A S \in SUBSET Writing :
       Cardinality(Missed(S)) <= kills + Cardinality(UnderWay \ S)

LEMMA CountTyped ==
  ASSUME TypeOK, NEW S
  PROVE  /\ IsFiniteSet(Uncorrecteds) /\ IsFiniteSet(Missed(S))
         /\ Cardinality(Missed(S)) \in Nat /\ kills \in Nat
         /\ IsFiniteSet(UnderWay) =>
              IsFiniteSet(UnderWay \ S) /\ Cardinality(UnderWay \ S) \in Nat
<1>1. Uncorrecteds \subseteq 1 .. Len(trials) /\ Len(trials) \in Nat /\ kills \in Nat
  BY RowsIndexed DEF TypeOK, Uncorrecteds
<1>2. IsFiniteSet(Uncorrecteds)
  <2>1. IsFiniteSet(1 .. Len(trials))
    BY <1>1, FS_Interval
  <2> QED BY <1>1, <2>1, FS_Subset
<1>3. IsFiniteSet(Missed(S))
  BY <1>2, FS_Subset DEF Missed
<1> QED BY <1>1, <1>2, <1>3, FS_CardinalityType, FS_Difference

(* What S misses is counted within what T may miss.                         *)
LEMMA CountWithin ==
  ASSUME TypeOK, CountInv, NEW T \in SUBSET Writing
  PROVE  /\ Cardinality(Missed(T)) \in Nat /\ kills \in Nat
         /\ IsFiniteSet(Missed(T)) /\ IsFiniteSet(UnderWay \ T)
         /\ Cardinality(UnderWay \ T) \in Nat
         /\ Cardinality(Missed(T)) <= kills + Cardinality(UnderWay \ T)
         /\ \A P : P \subseteq Missed(T) =>
              Cardinality(P) \in Nat /\ Cardinality(P) <= Cardinality(Missed(T))
<1>1. /\ Cardinality(Missed(T)) \in Nat /\ kills \in Nat
      /\ IsFiniteSet(Missed(T)) /\ IsFiniteSet(UnderWay \ T)
      /\ Cardinality(UnderWay \ T) \in Nat
  BY CountTyped DEF CountInv
<1>2. Cardinality(Missed(T)) <= kills + Cardinality(UnderWay \ T)
  BY DEF CountInv
<1>3. \A P : P \subseteq Missed(T) =>
         Cardinality(P) \in Nat /\ Cardinality(P) <= Cardinality(Missed(T))
  BY <1>1, FS_Subset, FS_CardinalityType
<1> QED BY <1>1, <1>2, <1>3

(* Where no backtest moves and nothing more is left uncorrected.            *)
LEMMA CountKeptByOthers ==
  ASSUME TypeOK, TypeOK', CountInv, kills' = kills,
         \A w \in Evaluators : work'[w] = work[w],
         \A i \in Uncorrecteds' :
           i \in Uncorrecteds /\ trials'[i].signature = trials[i].signature
  PROVE  CountInv'
<1>1. UnderWay' = UnderWay /\ Writing' = Writing
  BY DEF UnderWay, Writing
<1>2. ASSUME NEW S \in SUBSET Writing'
      PROVE  Cardinality(Missed(S)') <= kills' + Cardinality(UnderWay' \ S)
  <2>1. S \in SUBSET Writing /\ \A w \in S : work'[w] = work[w]
    BY <1>1, <1>2 DEF Writing
  <2>2. Missed(S)' \subseteq Missed(S)
    BY <2>1 DEF Missed
  <2>3. /\ Cardinality(Missed(S)') \in Nat
        /\ Cardinality(Missed(S)') <= Cardinality(Missed(S))
        /\ Cardinality(Missed(S)) \in Nat /\ kills \in Nat
        /\ Cardinality(UnderWay \ S) \in Nat
        /\ Cardinality(Missed(S)) <= kills + Cardinality(UnderWay \ S)
    BY <2>1, <2>2, CountWithin
  <2> QED BY <1>1, <2>3
<1> QED BY <1>1, <1>2 DEF CountInv

(* The backtest's own row is one more to correct, and it is under way.      *)
LEMMA CountKeptByInsert ==
  ASSUME TypeOK, TypeOK', CountInv, NEW w \in Evaluators, InsertTrial(w)
  PROVE  CountInv'
<1>1. PICK s \in Signatures, raw \in Raw :
        trials' = Append(trials, NewRow(s, raw, "evaluator", "pending"))
  BY DEF InsertTrial
<1>2. /\ trials \in Seq(Row) /\ Len(trials) \in Nat /\ DOMAIN trials = 1 .. Len(trials)
      /\ DOMAIN trials' = 1 .. Len(trials) + 1
      /\ \A i \in 1 .. Len(trials) : trials'[i] = trials[i]
  <2>1. trials \in Seq(Row) /\ NewRow(s, raw, "evaluator", "pending") \in Row
    BY NewRowTyped DEF TypeOK, Labels
  <2> QED BY <1>1, <2>1, AppendFacts, RowsIndexed
<1>3. /\ work[w].pc = "idle" /\ work'[w].pc = "read" /\ kills' = kills
      /\ \A v \in Evaluators : v # w => work'[v] = work[v]
  BY DEF InsertTrial, Advance, TypeOK, Writers, Draft
<1>4. UnderWay' = UnderWay \cup {w} /\ w \notin UnderWay /\ Writing' = Writing
      /\ w \notin Writing
  BY <1>3 DEF UnderWay, Writing
<1>5. IsFiniteSet(UnderWay')
  BY <1>4, FS_AddElement DEF CountInv
<1>6. ASSUME NEW S \in SUBSET Writing'
      PROVE  Cardinality(Missed(S)') <= kills' + Cardinality(UnderWay' \ S)
  <2>1. S \in SUBSET Writing /\ \A v \in S : work'[v] = work[v]
    BY <1>3, <1>4, <1>6 DEF Writing
  <2>2. Missed(S)' \subseteq Missed(S) \cup {Len(trials) + 1}
    BY <1>2, <2>1 DEF Missed, Uncorrecteds
  <2>3. /\ IsFiniteSet(Missed(S) \cup {Len(trials) + 1})
        /\ Cardinality(Missed(S) \cup {Len(trials) + 1}) <= Cardinality(Missed(S)) + 1
        /\ Cardinality(Missed(S) \cup {Len(trials) + 1}) \in Nat
    <3>1. IsFiniteSet(Missed(S)) /\ Cardinality(Missed(S)) \in Nat
      BY CountTyped
    <3> HIDE DEF Missed
    <3>2. \/ Cardinality(Missed(S) \cup {Len(trials) + 1}) = Cardinality(Missed(S))
          \/ Cardinality(Missed(S) \cup {Len(trials) + 1}) = Cardinality(Missed(S)) + 1
      BY <3>1, FS_AddElement
    <3> QED BY <3>1, <3>2, FS_AddElement
  <2>4. /\ Cardinality(Missed(S)') <= Cardinality(Missed(S) \cup {Len(trials) + 1})
        /\ Cardinality(Missed(S)') \in Nat
    BY <2>2, <2>3, FS_Subset, FS_CardinalityType
  <2>5. UnderWay' \ S = (UnderWay \ S) \cup {w} /\ w \notin UnderWay \ S
    BY <1>4, <2>1
  <2>6. Cardinality(UnderWay' \ S) = Cardinality(UnderWay \ S) + 1
    BY <2>5, CountTyped, FS_AddElement DEF CountInv
  <2>7. /\ Cardinality(Missed(S)) <= kills + Cardinality(UnderWay \ S)
        /\ Cardinality(Missed(S)) \in Nat /\ kills \in Nat
        /\ Cardinality(UnderWay \ S) \in Nat
    BY <2>1, CountWithin
  <2> QED BY <1>3, <2>3, <2>4, <2>6, <2>7
<1> QED BY <1>5, <1>6 DEF CountInv

(* Who has just read the family misses nobody.                              *)
LEMMA CountKeptByRead ==
  ASSUME TypeOK, TypeOK', CountInv, NEW w \in Evaluators, ReadFamily(w)
  PROVE  CountInv'
<1>1. trials \in Seq(Row) /\ DOMAIN Family(trials) = SignaturesOf(trials)
  BY FamilyTyped DEF TypeOK
<1>2. /\ work[w].pc = "read" /\ work'[w].pc = "write" /\ trials' = trials
      /\ work'[w].family = Family(trials) /\ kills' = kills
      /\ \A v \in Evaluators : v # w => work'[v] = work[v]
  BY DEF ReadFamily, TypeOK, Writers, Draft
<1>3. UnderWay' = UnderWay /\ Writing' = Writing \cup {w}
  BY <1>2 DEF UnderWay, Writing
<1>4. ASSUME NEW S \in SUBSET Writing'
      PROVE  Cardinality(Missed(S)') <= kills' + Cardinality(UnderWay' \ S)
  <2>1. CASE w \in S
    <3>1. Missed(S)' = {}
      BY <1>1, <1>2, <2>1, RowsIndexed DEF Missed, Uncorrecteds
    <3>2. Cardinality(Missed(S)') = 0
      BY <3>1, FS_EmptySet
    <3>3. kills \in Nat /\ Cardinality(UnderWay \ S) \in Nat
      BY CountTyped DEF CountInv
    <3> QED BY <1>2, <1>3, <3>2, <3>3
  <2>2. CASE w \notin S
    <3>1. S \in SUBSET Writing /\ \A v \in S : work'[v] = work[v]
      BY <1>2, <1>3, <1>4, <2>2 DEF Writing
    <3>2. Missed(S)' = Missed(S)
      BY <1>2, <3>1 DEF Missed, Uncorrecteds
    <3> QED BY <1>2, <1>3, <3>1, <3>2 DEF CountInv
  <2> QED BY <2>1, <2>2
<1> QED BY <1>3, <1>4 DEF CountInv

(* Before it wrote, w was one of those that write next.                     *)
LEMMA CountKeptByWrite ==
  ASSUME TypeOK, TypeOK', CountInv, NEW w \in Evaluators, WriteCorrections(w)
  PROVE  CountInv'
<1>1. /\ trials \in Seq(Row) /\ work[w].family \in Families
      /\ trials' = Refresh(trials, work[w].family)
      /\ work[w].pc = "write" /\ work'[w].pc = "idle" /\ kills' = kills
      /\ \A v \in Evaluators : v # w => work'[v] = work[v]
  BY DEF WriteCorrections, TypeOK, Writers, Draft, AtRest
<1>2. UnderWay' = UnderWay \ {w} /\ Writing' = Writing \ {w} /\ w \in Writing
  BY <1>1 DEF UnderWay, Writing
<1>3. \A i \in Uncorrecteds' :
        /\ i \in Uncorrecteds /\ trials'[i].signature = trials[i].signature
        /\ trials[i].signature \notin DOMAIN work[w].family
  BY <1>1, RefreshFacts DEF Uncorrecteds
<1>4. ASSUME NEW S \in SUBSET Writing'
      PROVE  Cardinality(Missed(S)') <= kills' + Cardinality(UnderWay' \ S)
  <2> DEFINE T == S \cup {w}
  <2>1. T \in SUBSET Writing /\ \A v \in S : work'[v] = work[v]
    BY <1>1, <1>2, <1>4 DEF Writing
  <2>2. Missed(S)' \subseteq Missed(T)
    BY <1>3, <2>1 DEF Missed
  <2>3. UnderWay' \ S = UnderWay \ T
    BY <1>2
  <2> HIDE DEF T
  <2>4. /\ Cardinality(Missed(S)') \in Nat
        /\ Cardinality(Missed(S)') <= Cardinality(Missed(T))
        /\ Cardinality(Missed(T)) \in Nat /\ kills \in Nat
        /\ Cardinality(UnderWay \ T) \in Nat
        /\ Cardinality(Missed(T)) <= kills + Cardinality(UnderWay \ T)
    BY <2>1, <2>2, CountWithin
  <2>5. kills' = kills
    BY <1>1
  <2> QED BY <2>3, <2>4, <2>5
<1>5. IsFiniteSet(UnderWay')
  BY <1>2, FS_Difference DEF CountInv
<1> QED BY <1>4, <1>5 DEF CountInv

(* One less is under way, and one more was killed.                          *)
LEMMA CountKeptByKill ==
  ASSUME TypeOK, TypeOK', CountInv, NEW w \in Evaluators, Kill(w)
  PROVE  CountInv'
<1>1. /\ work[w].pc # "idle" /\ work'[w].pc = "idle" /\ kills' = kills + 1
      /\ trials' = trials
      /\ \A v \in Evaluators : v # w => work'[v] = work[v]
  BY DEF Kill, TypeOK, Writers, AtRest
<1>2. UnderWay' = UnderWay \ {w} /\ Writing' = Writing \ {w} /\ w \in UnderWay
  BY <1>1 DEF UnderWay, Writing
<1>3. ASSUME NEW S \in SUBSET Writing'
      PROVE  Cardinality(Missed(S)') <= kills' + Cardinality(UnderWay' \ S)
  <2>1. S \in SUBSET Writing /\ \A v \in S : work'[v] = work[v]
    BY <1>1, <1>2, <1>3 DEF Writing
  <2>2. Missed(S)' = Missed(S)
    BY <1>1, <2>1 DEF Missed, Uncorrecteds
  <2>3. UnderWay' \ S = (UnderWay \ S) \ {w} /\ w \in UnderWay \ S
    BY <1>2, <1>3
  <2>4. Cardinality(UnderWay' \ S) = Cardinality(UnderWay \ S) - 1
    <3>1. IsFiniteSet(UnderWay \ S)
      BY CountTyped DEF CountInv
    <3> QED BY <2>3, <3>1, FS_RemoveElement
  <2>5. /\ Cardinality(Missed(S)) <= kills + Cardinality(UnderWay \ S)
        /\ Cardinality(Missed(S)) \in Nat /\ kills \in Nat
        /\ Cardinality(UnderWay \ S) \in Nat
    BY <2>1, CountWithin
  <2> QED BY <1>1, <2>2, <2>4, <2>5
<1>4. IsFiniteSet(UnderWay')
  BY <1>2, FS_Difference DEF CountInv
<1> QED BY <1>3, <1>4 DEF CountInv

LEMMA CountKept == TypeOK /\ TypeOK' /\ CountInv /\ [Next]_vars => CountInv'
<1> SUFFICES ASSUME TypeOK, TypeOK', CountInv, [Next]_vars
             PROVE  CountInv'
  OBVIOUS
<1>1. trials \in Seq(Row) /\ work \in [Writers -> Draft]
  BY DEF TypeOK
<1>2. ASSUME NEW w \in Recorders, RecorderStep(w)
      PROVE  CountInv'
  <2>1. kills' = kills /\ \A v \in Evaluators : work'[v] = work[v]
    BY <1>1, <1>2, KindsApart
    DEF RecorderStep, ReadExisting, CountFamily, Record, Writers
  <2>2. CASE ReadExisting(w) \/ CountFamily(w)
    BY <2>1, <2>2, CountKeptByOthers DEF ReadExisting, CountFamily, Uncorrecteds
  <2>3. CASE Record(w)
    <3> DEFINE rows == Append(Replaced(work[w].signature),
                         NewRow(work[w].signature, work[w].raw, "record", "pending"))
    <3>1. work[w].signature \in Signatures /\ work[w].raw \in Raw
      BY <1>1, <2>3 DEF Record, TypeOK, Writers, Draft
    <3>2. rows \in Seq(Row) /\ trials' = Refresh(rows, Family(rows))
      BY <2>3, <3>1, RecordKeepsRows DEF Record
    <3> HIDE DEF rows
    <3>3. Uncorrecteds' = {}
      BY <3>2, RefreshedAreCorrected DEF Uncorrecteds
    <3> QED BY <2>1, <3>3, CountKeptByOthers
  <2> QED BY <1>2, <2>2, <2>3 DEF RecorderStep
<1>3. ASSUME NEW s \in Signatures, RecordBlockedRun(s)
      PROVE  CountInv'
  <2>1. kills' = kills /\ work' = work
    BY <1>3 DEF RecordBlockedRun
  <2>2. NewRow(s, Missing, "preflight", "blocked") \in Row
        /\ NewRow(s, Missing, "preflight", "blocked").by # "evaluator"
    BY NewRowTyped DEF Labels, Raw
  <2>3. \A i \in DOMAIN trials' :
          trials'[i].by = "evaluator" => i \in DOMAIN trials /\ trials'[i] = trials[i]
    BY <1>1, <1>3, <2>2, AppendFacts, RowsIndexed DEF RecordBlockedRun
  <2> QED BY <2>1, <2>3, CountKeptByOthers DEF Uncorrecteds
<1>4. CASE UNCHANGED vars
  BY <1>4, CountKeptByOthers DEF vars, Uncorrecteds
<1> QED
  BY <1>2, <1>3, <1>4, CountKeptByInsert, CountKeptByRead, CountKeptByWrite,
     CountKeptByKill DEF Next, EvaluatorStep

(* Overlapping backtests leave no more trials uncorrected than were killed   *)
(* or are still at work, in whatever order they read the family and write    *)
(* its corrections (evaluator.py commits the row first).  With no backtest   *)
(* under way and none ever killed, none is uncorrected.                      *)
THEOREM BacktestsLeaveNothing == Spec => []UncorrectedAreUnderWay
<1>1. Init => CountInv
  <2> SUFFICES ASSUME Init PROVE CountInv
    OBVIOUS
  <2>1. UnderWay = {} /\ Writing = {} /\ Uncorrecteds = {} /\ kills = 0
    BY DEF Init, UnderWay, Writing, Uncorrecteds, AtRest, Writers
  <2>2. \A S : Missed(S) = {} /\ UnderWay \ S = {}
    BY <2>1 DEF Missed
  <2> QED BY <2>1, <2>2, FS_EmptySet DEF CountInv
<1>2. TypeOK /\ CountInv => UncorrectedAreUnderWay
  <2>1. Missed({}) = Uncorrecteds /\ UnderWay \ {} = UnderWay
    BY DEF Missed
  <2> QED BY <2>1 DEF CountInv, UncorrectedAreUnderWay
<1> QED BY <1>1, <1>2, TypeInitially, TypeKept, CountKept, PTL DEF Spec
================================================================================
