---------------------------- MODULE MCPhase8Search ----------------------------
(***************************************************************************)
(* Two protocols for one study id: a trade-off between a return and a risk *)
(* with an adaptive sampler, and a single return sampled at random by a    *)
(* search with a timeout.                                                  *)
(***************************************************************************)
EXTENDS Phase8Search, TLC

CONSTANTS tradeOff, single, process1, process2

MCDirections ==
  (tradeOff :> <<"maximize", "minimize">>) @@ (single :> <<"maximize">>)

MCEvaluations ==
  (tradeOff :> {[feasible |-> TRUE, values |-> <<1, 1>>],
                [feasible |-> TRUE, values |-> <<2, 2>>]}) @@
  (single :> {[feasible |-> TRUE, values |-> <<1>>],
              [feasible |-> FALSE, values |-> <<2>>]})

MCMaxTrials == (tradeOff :> 2) @@ (single :> 2)

MCPriority == (tradeOff :> <<2, 1>>) @@ (single :> <<1>>)

MCFoldConfig ==
  (tradeOff :> [calendar |-> 10, holdout_start |-> 9, fold_count |-> 2,
                minimum_training_periods |-> 2, validation_periods |-> 2,
                purge_periods |-> 1, embargo_periods |-> 2]) @@
  (single :> [calendar |-> 6, holdout_start |-> 8, fold_count |-> 3,
              minimum_training_periods |-> 2, validation_periods |-> 1,
              purge_periods |-> 0, embargo_periods |-> 1])
===============================================================================
