------------------------------ MODULE StudyRunner ------------------------------
(***************************************************************************)
(* OptimizationStudyRunner.run and the OptimizationStudyStore behind it: a *)
(* study's row in the research registry, Optuna's own database of trials,  *)
(* and the two JSON files a finished study leaves, which are never         *)
(* rewritten.  Each of the four is committed by itself, so that a process  *)
(* that dies leaves any prefix of them, and the next run of the same study *)
(* picks up what it finds.                                                 *)
(*                                                                         *)
(* A protocol stands for the fingerprints of everything a study freezes.   *)
(* A study is the pair run_with_random_baseline makes of one study id.     *)
(***************************************************************************)
EXTENDS Integers, Sequences, FiniteSets

CONSTANTS
  Processes,      \* processes that run searches and holdouts
  Protocols,      \* what may be asked of the study id
  NoProtocol,     \* a database that has not seen the study
  Directions,     \* [Protocols -> Seq({"maximize", "minimize"})]
  Evaluations,    \* [Protocols -> what the evaluator may return]
  MaxTrials,      \* [Protocols -> the trial budget]
  RandomSampled,  \* protocols whose own sampler is the random one
  StopsEarly      \* protocols with a timeout, or a sampler that runs dry

Studies == {"random_baseline", "challenger"}

ASSUME StudyAssumption ==
  /\ NoProtocol \notin Protocols
  /\ RandomSampled \subseteq Protocols
  /\ StopsEarly \subseteq Protocols
  /\ \A p \in Protocols :
       /\ Directions[p] \in Seq({"maximize", "minimize"})
       /\ Len(Directions[p]) > 0
       /\ Evaluations[p] \subseteq [feasible : BOOLEAN, values : Seq(Int)]
       /\ \A e \in Evaluations[p] : Len(e.values) = Len(Directions[p])
       /\ MaxTrials[p] \in Nat \ {0}

VARIABLES
  registry,  \* optimization_studies and optimization_candidates, by study
  optuna,    \* the trials of each study, and the fingerprint on it
  files,     \* study_result.json and trials.json of each study
  work       \* what each process holds in memory

studyVars == <<registry, optuna, files>>

Trial == [state : {"RUNNING", "COMPLETE", "FAIL"}, feasible : BOOLEAN,
          values : Seq(Int)]

RunningTrial == [state |-> "RUNNING", feasible |-> FALSE, values |-> <<>>]
FailedTrial == [RunningTrial EXCEPT !.state = "FAIL"]
CompleteTrial(e) ==
  [state |-> "COMPLETE", feasible |-> e.feasible, values |-> e.values]

(* A file is torn when its writer died between open and close.  "of" is the  *)
(* history its text was made from.                                           *)
File == [state : {"absent", "torn", "whole"}, of : Seq(Trial)]
NoFile == [state |-> "absent", of |-> <<>>]

NoRow == [inputs |-> NoProtocol, status |-> "none", completed |-> 0,
          candidates |-> {}]

NoCandidate == [inputs |-> NoProtocol, trial |-> 0, values |-> <<>>,
                frozen_at |-> 0]

RunStages == {"register", "open", "trials", "evaluate", "result_file",
              "trials_file", "complete"}

AtRest == [pc |-> "idle", study |-> "challenger", inputs |-> NoProtocol,
           remaining |-> 0, seen |-> <<>>, search |-> 0,
           candidate |-> NoCandidate]

-----------------------------------------------------------------------------
(* What a study's trials come to *)

Completed(trials) == {n \in DOMAIN trials : trials[n].state = "COMPLETE"}
Feasible(trials) == {n \in Completed(trials) : trials[n].feasible}
Failed(trials) == {n \in DOMAIN trials : trials[n].state = "FAIL"}

Better(left, right, direction) ==
  IF direction = "maximize" THEN left > right ELSE left < right

Dominates(left, right, directions) ==
  /\ \A k \in DOMAIN directions : ~Better(right[k], left[k], directions[k])
  /\ \E k \in DOMAIN directions : Better(left[k], right[k], directions[k])

(* _select_candidates: the best trial of a single objective, the earliest of *)
(* equals, or the Pareto front of several.                                   *)
SelectCandidates(trials, directions) ==
  LET Value(n) == trials[n].values
  IN IF Len(directions) = 1
     THEN {n \in Feasible(trials) :
             \A m \in Feasible(trials) \ {n} :
               \/ Better(Value(n)[1], Value(m)[1], directions[1])
               \/ Value(n)[1] = Value(m)[1] /\ n < m}
     ELSE {n \in Feasible(trials) :
             ~ \E m \in Feasible(trials) \ {n} :
                 Dominates(Value(m), Value(n), directions)}

(* What study_result.json says, as far as two texts can differ. *)
Result(trials, p) ==
  [candidates |-> SelectCandidates(trials, Directions[p]),
   completed  |-> Cardinality(Completed(trials)),
   feasible   |-> Cardinality(Feasible(trials)),
   failed     |-> Cardinality(Failed(trials)),
   total      |-> Len(trials)]

-----------------------------------------------------------------------------
(* OptimizationStudyRunner.run, one action per commit *)

Stage(r, pc) == work' = [work EXCEPT ![r].pc = pc]
Raise(r) == work' = [work EXCEPT ![r] = AtRest]

(* The call _preflight lets through, in the n-th search. *)
Enter(r, p, study, n) ==
  work' = [work EXCEPT ![r] = [AtRest EXCEPT !.pc = "register",
                                             !.study = study, !.inputs = p,
                                             !.search = n]]

(* Defect: the row takes whatever fingerprint comes. *)
RegisterAnyway(r) ==
  /\ work[r].pc = "register"
  /\ registry' = [registry EXCEPT ![work[r].study] =
                    [@ EXCEPT !.inputs = work[r].inputs, !.status = "running"]]
  /\ Stage(r, "open")
  /\ UNCHANGED <<optuna, files>>

RegisterStart(r) ==
  LET s == work[r].study
  IN /\ work[r].pc = "register"
     /\ registry[s].inputs \in {NoProtocol, work[r].inputs}
     /\ registry' = [registry EXCEPT ![s] =
                       [@ EXCEPT !.inputs = work[r].inputs,
                                 !.status = "running"]]
     /\ Stage(r, "open")
     /\ UNCHANGED <<optuna, files>>

RegisterRefused(r) ==
  /\ work[r].pc = "register"
  /\ registry[work[r].study].inputs \notin {NoProtocol, work[r].inputs}
  /\ Raise(r)
  /\ UNCHANGED studyVars

(* Defect: every run has the whole budget. *)
OpenStudyAfresh(r) ==
  LET s == work[r].study
      p == work[r].inputs
  IN /\ work[r].pc = "open"
     /\ optuna[s].inputs \in {NoProtocol, p}
     /\ optuna' = [optuna EXCEPT ![s].inputs = p]
     /\ work' = [work EXCEPT ![r] =
                   [@ EXCEPT !.pc = "trials", !.remaining = MaxTrials[p]]]
     /\ UNCHANGED <<registry, files>>

(* create_study, _validate_or_initialize_study and the one reading of how    *)
(* many trials are left.  Trials that failed, or that a dead process left    *)
(* RUNNING, do not count.  A study under another fingerprint would be        *)
(* refused here too; the registry refuses it first.                          *)
OpenStudy(r) ==
  LET s == work[r].study
      p == work[r].inputs
      left == MaxTrials[p] - Cardinality(Completed(optuna[s].trials))
  IN /\ work[r].pc = "open"
     /\ optuna[s].inputs \in {NoProtocol, p}
     /\ optuna' = [optuna EXCEPT ![s].inputs = p]
     /\ work' = [work EXCEPT ![r] =
                   [@ EXCEPT !.pc = "trials",
                             !.remaining = IF left > 0 THEN left ELSE 0]]
     /\ UNCHANGED <<registry, files>>

AskTrial(r) ==
  LET s == work[r].study
  IN /\ work[r].pc = "trials"
     /\ work[r].remaining > 0
     /\ optuna' = [optuna EXCEPT ![s].trials = Append(@, RunningTrial)]
     /\ work' = [work EXCEPT ![r] =
                   [@ EXCEPT !.pc = "evaluate",
                             !.remaining = work[r].remaining - 1]]
     /\ UNCHANGED <<registry, files>>

TellTrial(r, outcome) ==
  LET s == work[r].study
  IN /\ optuna' = [optuna EXCEPT ![s].trials =
                     [@ EXCEPT ![Len(@)] = outcome]]
     /\ Stage(r, "trials")
     /\ UNCHANGED <<registry, files>>

TrialEvaluated(r) ==
  /\ work[r].pc = "evaluate"
  /\ \E e \in Evaluations[work[r].inputs] : TellTrial(r, CompleteTrial(e))

(* catch=(Exception,): the study goes on, one attempt of the budget spent. *)
TrialRaised(r) ==
  /\ work[r].pc = "evaluate"
  /\ TellTrial(r, FailedTrial)

(* _build_result reads the trials; the objects made of them are what the     *)
(* rest of the call works with.                                              *)
StopTrials(r) ==
  /\ work[r].pc = "trials"
  /\ \/ work[r].remaining = 0
     \/ work[r].inputs \in StopsEarly
  /\ work' = [work EXCEPT ![r] =
                [@ EXCEPT !.pc = "result_file",
                          !.seen = optuna[work[r].study].trials]]
  /\ UNCHANGED studyVars

(* Defect: a file that is there is taken to be the same. *)
IsThere(file, trials, p) == file.state = "whole"

SaysTheSame(file, trials, p) ==
  file.state = "whole" /\ Result(file.of, p) = Result(trials, p)

Written(file, trials) ==
  IF file.state = "absent" THEN [state |-> "whole", of |-> trials] ELSE file

(* Defect: a file that is there is never accepted, the same or not. *)
WriteResultFileOnce(r) ==
  LET s == work[r].study
  IN /\ work[r].pc = "result_file"
     /\ files[s].result.state = "absent"
     /\ files' = [files EXCEPT ![s].result = Written(@, work[r].seen)]
     /\ Stage(r, "trials_file")
     /\ UNCHANGED <<registry, optuna>>

WriteResultFile(r) ==
  LET s == work[r].study
  IN /\ work[r].pc = "result_file"
     /\ \/ files[s].result.state = "absent"
        \/ SaysTheSame(files[s].result, work[r].seen, work[r].inputs)
     /\ files' = [files EXCEPT ![s].result = Written(@, work[r].seen)]
     /\ Stage(r, "trials_file")
     /\ UNCHANGED <<registry, optuna>>

ResultFileRefused(r) ==
  /\ work[r].pc = "result_file"
  /\ files[work[r].study].result.state # "absent"
  /\ ~SaysTheSame(files[work[r].study].result, work[r].seen, work[r].inputs)
  /\ Raise(r)
  /\ UNCHANGED studyVars

WriteTrialsFile(r) ==
  LET s == work[r].study
  IN /\ work[r].pc = "trials_file"
     /\ \/ files[s].trials.state = "absent"
        \/ files[s].trials = [state |-> "whole", of |-> work[r].seen]
     /\ files' = [files EXCEPT ![s].trials = Written(@, work[r].seen)]
     /\ Stage(r, "complete")
     /\ UNCHANGED <<registry, optuna>>

TrialsFileRefused(r) ==
  /\ work[r].pc = "trials_file"
  /\ files[work[r].study].trials.state # "absent"
  /\ files[work[r].study].trials # [state |-> "whole", of |-> work[r].seen]
  /\ Raise(r)
  /\ UNCHANGED studyVars

(* Defect: a status nobody reads. *)
FinishedRow(r) ==
  LET result == Result(work[r].seen, work[r].inputs)
  IN [registry EXCEPT ![work[r].study] =
        [@ EXCEPT !.status = "finished",
                  !.completed = result.completed,
                  !.candidates = result.candidates]]

(* One transaction: the row, and the candidates deleted and inserted. *)
CompletedRow(r) ==
  LET result == Result(work[r].seen, work[r].inputs)
  IN [registry EXCEPT ![work[r].study] =
        [@ EXCEPT !.status = "complete",
                  !.completed = result.completed,
                  !.candidates = result.candidates]]

(* run_with_random_baseline: the baseline returns and the challenger starts, *)
(* or the challenger's result goes to the caller.                            *)
RegisterComplete(r) ==
  /\ work[r].pc = "complete"
  /\ registry' = CompletedRow(r)
  /\ IF work[r].study = "random_baseline"
     THEN Enter(r, work[r].inputs, "challenger", work[r].search)
     ELSE Stage(r, "searched")
  /\ UNCHANGED <<optuna, files>>

RunStep(r) ==
  \/ RegisterStart(r)
  \/ RegisterRefused(r)
  \/ OpenStudy(r)
  \/ AskTrial(r)
  \/ TrialEvaluated(r)
  \/ TrialRaised(r)
  \/ StopTrials(r)
  \/ WriteResultFile(r)
  \/ ResultFileRefused(r)
  \/ WriteTrialsFile(r)
  \/ TrialsFileRefused(r)
  \/ RegisterComplete(r)

StudyInit ==
  /\ registry = [s \in Studies |-> NoRow]
  /\ optuna = [s \in Studies |-> [inputs |-> NoProtocol, trials |-> <<>>]]
  /\ files = [s \in Studies |-> [result |-> NoFile, trials |-> NoFile]]
  /\ work = [r \in Processes |-> AtRest]
================================================================================
