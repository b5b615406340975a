----------------------------- MODULE MultipleTesting ---------------------------
(***************************************************************************)
(* The corrections of p-values for the number of trials, after             *)
(* multiple_testing.py.  A family's p-values are a function from the       *)
(* trials' signatures; a trial without one has Missing.  P-values are      *)
(* multiples of 1/Unit, and such that the divisions come out even.         *)
(***************************************************************************)
EXTENDS Integers, FiniteSets, FiniteSetsExt

CONSTANTS
  Unit,       \* a p-value of 1
  Alpha,      \* the level of significance
  PValues,    \* the p-values trials may have
  Missing     \* no p-value

ASSUME TestingAssumption ==
  /\ Unit \in Nat \ {0}
  /\ Alpha \in 0 .. Unit
  /\ PValues \subseteq 0 .. Unit
  /\ Missing \notin Int

Raw == PValues \cup {Missing}
Corrected == 0 .. Unit \cup {Missing}

Valid(family) == {s \in DOMAIN family : family[s] # Missing}

AtMostOne(value) == IF value > Unit THEN Unit ELSE value

(* bonferroni_p_value: trials counts all, those without a p-value too. *)
Bonferroni(p, trials) ==
  IF p = Missing THEN Missing ELSE AtMostOne(p * trials)

Below(family, t) == {u \in Valid(family) : family[u] < family[t]}
UpTo(family, t)  == {u \in Valid(family) : family[u] <= family[t]}
From(family, t)  == {u \in Valid(family) : family[u] >= family[t]}

HolmTerm(family, t) ==
  AtMostOne(Cardinality(Valid(family) \ Below(family, t)) * family[t])

(* holm_bonferroni_adjust: in ascending order each p-value is multiplied by  *)
(* the number of those not before it, and never less than the one before.    *)
Holm(family, s) ==
  IF family[s] = Missing THEN Missing
  ELSE Max({HolmTerm(family, t) : t \in UpTo(family, s)})

(* Defect: the rank is taken from the other end. *)
QTermReversed(family, t) ==
  AtMostOne((family[t] * Cardinality(Valid(family)))
              \div Cardinality(From(family, t)))

QTerm(family, t) ==
  AtMostOne((family[t] * Cardinality(Valid(family)))
              \div Cardinality(UpTo(family, t)))

(* benjamini_hochberg_q_values: in descending order each p-value is          *)
(* multiplied by their number over its rank, and never more than the one     *)
(* before.                                                                   *)
BenjaminiHochberg(family, s) ==
  IF family[s] = Missing THEN Missing
  ELSE Min({QTerm(family, t) : t \in From(family, s)})

SignificanceLabel(p, adjusted) ==
  IF p = Missing THEN "missing"
  ELSE IF p > Alpha THEN "raw_not_significant"
  ELSE IF adjusted <= Alpha THEN "survives_multiple_testing"
  ELSE "fails_multiple_testing"

-----------------------------------------------------------------------------
(* The procedures the corrections stand for, as the books state them *)

(* Holm's step-down test at a level: the hypotheses are rejected from the    *)
(* smallest p-value on, up to the first that fails its share of the level.   *)
StepDownRejects(family, s, level) ==
  \A t \in UpTo(family, s) :
    family[t] * Cardinality(From(family, t)) <= level

(* Benjamini and Hochberg's step-up test: rejected is everything up to the   *)
(* largest p-value that passes its share of the level.                       *)
StepUpRejects(family, s, level) ==
  \E t \in From(family, s) :
    family[t] * Cardinality(Valid(family))
      <= level * Cardinality(UpTo(family, t))
================================================================================
