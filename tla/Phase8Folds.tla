------------------------------ MODULE Phase8Folds ------------------------------
(***************************************************************************)
(* build_phase8_folds: the expanding training windows and the validation   *)
(* blocks a Phase 8 search evaluates a candidate on.  Distinct dates are   *)
(* numbered in order from 0; a configuration gives the number of dates of  *)
(* the data, the position of the first holdout date and the sizes.         *)
(***************************************************************************)
EXTENDS Integers

FoldConfigs ==
  [calendar : Nat, holdout_start : Nat, fold_count : Nat \ {0, 1},
   minimum_training_periods : Nat \ {0, 1}, validation_periods : Nat \ {0},
   purge_periods : Nat, embargo_periods : Nat]

(* The dates of the data before the holdout: 0 .. Dates(c) - 1. *)
Dates(c) == IF c.calendar < c.holdout_start THEN c.calendar ELSE c.holdout_start

Positions(c, first, last) == {d \in 0 .. Dates(c) - 1 : first <= d /\ d < last}

FirstValidation(c) == Dates(c) - c.fold_count * c.validation_periods

RequiredGap(c) == c.purge_periods + c.embargo_periods

SufficientHistory(c) ==
  FirstValidation(c) - RequiredGap(c) >= c.minimum_training_periods

ValidationStart(c, index) == FirstValidation(c) + index * c.validation_periods

(* Defect: training goes on up to the embargo. *)
TrainingUpToEmbargo(c, index) ==
  FirstValidation(c) + index * c.validation_periods - c.embargo_periods

TrainingEnd(c, index) == ValidationStart(c, index) - RequiredGap(c)

Fold(c, index) ==
  LET validation_start == ValidationStart(c, index)
      embargo_start == TrainingEnd(c, index) + c.purge_periods
  IN [training   |-> Positions(c, 0, TrainingEnd(c, index)),
      purge      |-> Positions(c, TrainingEnd(c, index), embargo_start),
      embargo    |-> Positions(c, embargo_start, validation_start),
      validation |-> Positions(c, validation_start,
                               validation_start + c.validation_periods)]

Folds(c) == [index \in 0 .. c.fold_count - 1 |-> Fold(c, index)]

(* _validate_fold_geometry accepts the fold: the last training date lies     *)
(* before the validation, the validation before the holdout, and the dates   *)
(* given up lie strictly in between.                                         *)
ValidGeometry(c, fold) ==
  /\ \A t \in fold.training, v \in fold.validation : t < v
  /\ \A v \in fold.validation : v < c.holdout_start
  /\ \A g \in fold.purge \cup fold.embargo :
       /\ \A t \in fold.training : t < g
       /\ \A v \in fold.validation : g < v

-----------------------------------------------------------------------------
(* What the folds are for *)

(* No slice runs over an end of the dates, or counts from the end: training  *)
(* has its minimum, every validation block its full length.                  *)
SlicesInRange(c) ==
  \A index \in DOMAIN Folds(c) :
    /\ TrainingEnd(c, index) >= c.minimum_training_periods
    /\ ValidationStart(c, index) + c.validation_periods <= Dates(c)

(* The label of a training date may look ahead by as many dates as are       *)
(* purged and embargoed without touching a validation date.                  *)
GapIsKept(c) ==
  \A index \in DOMAIN Folds(c) :
    \A t \in Folds(c)[index].training, v \in Folds(c)[index].validation :
      v - t > RequiredGap(c)

(* No fold touches the holdout. *)
HoldoutIsKeptOut(c) ==
  \A index \in DOMAIN Folds(c) :
    \A d \in Folds(c)[index].training \cup Folds(c)[index].validation :
      d < c.holdout_start

(* Every fold validates on its own dates: none is scored twice. *)
ValidationsAreDisjoint(c) ==
  \A i, j \in DOMAIN Folds(c) :
    i # j => Folds(c)[i].validation \cap Folds(c)[j].validation = {}

(* The blocks leave no date of the last stretch of development unscored. *)
ValidationsTile(c) ==
  \A d \in FirstValidation(c) .. Dates(c) - 1 :
    \E index \in DOMAIN Folds(c) : d \in Folds(c)[index].validation
================================================================================
