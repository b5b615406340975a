------------------------------- MODULE TrialLedger -----------------------------
(***************************************************************************)
(* The trials of one research family, the table research_trials: every     *)
(* trial's p-value is corrected for the number of trials of its family, so *)
(* that each new trial changes the corrections of all.                     *)
(*                                                                         *)
(* Three writers share the table.  record_research_trial writes a trial    *)
(* and the corrections in one transaction.  A backtest's evaluator commits *)
(* the trial, then reads the family, then writes the corrections it        *)
(* computed from what it read.  A blocked preflight only adds its row.     *)
(***************************************************************************)
EXTENDS MultipleTesting, Sequences, SequencesExt

CONSTANTS
  Signatures,   \* what distinguishes trials from each other
  Recorders,    \* processes that call record_research_trial
  Evaluators,   \* processes that run backtests
  RawOf,        \* [Signatures -> SUBSET Raw], the p-values a trial and its
                \* reruns may have
  Levels,       \* the levels at which the procedures are compared
  MaxTrials,    \* bound on the rows of the table
  MaxRecords,   \* bound on how often record_research_trial is called
  MaxKills      \* bound on how many backtests are killed

Writers == Recorders \cup Evaluators

ASSUME LedgerAssumption ==
  /\ Recorders \cap Evaluators = {}
  /\ IsFiniteSet(Signatures)
  /\ RawOf \in [Signatures -> SUBSET Raw]
  /\ Levels \subseteq 0 .. Unit - 1
  /\ MaxTrials \in Nat /\ MaxRecords \in Nat /\ MaxKills \in Nat

(* The p-values are such that the divisions of QTerm come out even. *)
ASSUME EvenDivisions ==
  \A p \in PValues, m, rank \in 1 .. Cardinality(Signatures) :
    ((p * m) \div rank) * rank = p * m

VARIABLES
  trials,   \* the family's rows, by trial_id
  work,     \* what each writer holds in memory
  behind,   \* ghost: a row was added, or corrections were written from an
            \* older family, and nobody has corrected the family since
  records,  \* calls of record_research_trial
  kills     \* backtests killed

vars == <<trials, work, behind, records, kills>>

(* by tells the rows that a second call for the same signature replaces.     *)
Labels == {"pending", "blocked", "missing", "raw_not_significant",
           "survives_multiple_testing", "fails_multiple_testing"}

Correction == [count : Nat, bonferroni : Corrected, holm : Corrected,
               fdr : Corrected, label : Labels]

Row == [signature : Signatures, raw : Raw,
        by : {"record", "evaluator", "preflight"}, correction : Correction]

Uncorrected(label) == [count |-> 1, bonferroni |-> Missing, holm |-> Missing,
                       fdr |-> Missing, label |-> label]

NewRow(signature, raw, by, label) ==
  [signature |-> signature, raw |-> raw, by |-> by,
   correction |-> Uncorrected(label)]

NoFamily == [s \in {} |-> Missing]

AtRest == [pc |-> "idle", signature |-> Missing, raw |-> Missing,
           existing |-> 0, family |-> NoFamily]

Init ==
  /\ trials = <<>>
  /\ work = [w \in Writers |-> AtRest]
  /\ behind = FALSE
  /\ records = 0
  /\ kills = 0

-----------------------------------------------------------------------------
(* refresh_multiple_testing_adjustments *)

SignaturesOf(rows) == {rows[i].signature : i \in DOMAIN rows}

IsLast(rows, i) ==
  \A j \in DOMAIN rows : rows[j].signature = rows[i].signature => j <= i

LastRow(rows, s) ==
  CHOOSE i \in DOMAIN rows : rows[i].signature = s /\ IsLast(rows, i)

(* latest_by_signature *)
Family(rows) == [s \in SignaturesOf(rows) |-> rows[LastRow(rows, s)].raw]

CorrectionOf(family, s) ==
  LET count == Cardinality(DOMAIN family)
      bonferroni == Bonferroni(family[s], count)
  IN [count |-> count, bonferroni |-> bonferroni, holm |-> Holm(family, s),
      fdr |-> BenjaminiHochberg(family, s),
      label |-> SignificanceLabel(family[s], bonferroni)]

(* Defect: a row once corrected is left alone. *)
RefreshPending(rows, family) ==
  [i \in DOMAIN rows |->
     IF rows[i].signature \in DOMAIN family /\ rows[i].correction.label = "pending"
     THEN [rows[i] EXCEPT !.correction = CorrectionOf(family, rows[i].signature)]
     ELSE rows[i]]

(* Every row of a signature gets the correction of the signature's last row. *)
Refresh(rows, family) ==
  [i \in DOMAIN rows |->
     IF rows[i].signature \in DOMAIN family
     THEN [rows[i] EXCEPT !.correction = CorrectionOf(family, rows[i].signature)]
     ELSE rows[i]]

Advance(w, pc) == work' = [work EXCEPT ![w].pc = pc]

-----------------------------------------------------------------------------
(* record_research_trial *)

RecordedAt(signature) ==
  {i \in DOMAIN trials : trials[i].by = "record"
                         /\ trials[i].signature = signature}

ReadExisting(w) ==
  /\ work[w].pc = "idle"
  /\ records < MaxRecords
  /\ records' = records + 1
  /\ \E signature \in Signatures : \E raw \in RawOf[signature] :
       LET trial == [AtRest EXCEPT !.signature = signature, !.raw = raw]
       IN \/ /\ RecordedAt(signature) = {}
             /\ work' = [work EXCEPT ![w] = [trial EXCEPT !.pc = "insert"]]
          \/ \E i \in RecordedAt(signature) :
               work' = [work EXCEPT ![w] =
                 [trial EXCEPT !.pc = "count",
                               !.existing = trials[i].correction.count]]
  /\ UNCHANGED <<trials, behind, kills>>

(* A row corrected for as many trials as there are is answered as it is. *)
CountFamily(w) ==
  /\ work[w].pc = "count"
  /\ work' = IF work[w].existing = Cardinality(SignaturesOf(trials))
             THEN [work EXCEPT ![w] = AtRest]
             ELSE [work EXCEPT ![w].pc = "insert"]
  /\ UNCHANGED <<trials, behind, records, kills>>

(* Defect: a plain INSERT. *)
NothingReplaced(signature) == trials

(* INSERT OR REPLACE: run_id is unique, and the row gets a new trial_id. *)
Replaced(signature) ==
  IF RecordedAt(signature) = {} THEN trials
  ELSE RemoveAt(trials, CHOOSE i \in RecordedAt(signature) : TRUE)

Record(w) ==
  LET mine == work[w]
      rows == Append(Replaced(mine.signature),
                     NewRow(mine.signature, mine.raw, "record", "pending"))
  IN /\ mine.pc = "insert"
     /\ RecordedAt(mine.signature) # {} \/ Len(trials) < MaxTrials
     /\ trials' = Refresh(rows, Family(rows))
     /\ work' = [work EXCEPT ![w] = AtRest]
     /\ behind' = FALSE
     /\ UNCHANGED <<records, kills>>

-----------------------------------------------------------------------------
(* The evaluator: log_option_backtest_result and _log_to_db.  Every backtest *)
(* has a run id, and so a row, of its own.                                   *)

(* Defect: the family is read before the trial is in it. *)
InsertTrialAfterReading(w) ==
  /\ work[w].pc = "idle"
  /\ Len(trials) < MaxTrials
  /\ \E signature \in Signatures : \E raw \in RawOf[signature] :
       trials' = Append(trials, NewRow(signature, raw, "evaluator", "pending"))
  /\ work' = [work EXCEPT ![w].pc = "write", ![w].family = Family(trials)]
  /\ behind' = TRUE
  /\ UNCHANGED <<records, kills>>

InsertTrial(w) ==
  /\ work[w].pc = "idle"
  /\ Len(trials) < MaxTrials
  /\ \E signature \in Signatures : \E raw \in RawOf[signature] :
       trials' = Append(trials, NewRow(signature, raw, "evaluator", "pending"))
  /\ Advance(w, "read")
  /\ behind' = TRUE
  /\ UNCHANGED <<records, kills>>

ReadFamily(w) ==
  /\ work[w].pc = "read"
  /\ work' = [work EXCEPT ![w].pc = "write", ![w].family = Family(trials)]
  /\ UNCHANGED <<trials, behind, records, kills>>

WriteCorrections(w) ==
  /\ work[w].pc = "write"
  /\ trials' = Refresh(trials, work[w].family)
  /\ work' = [work EXCEPT ![w] = AtRest]
  /\ behind' = (Family(trials) # work[w].family)
  /\ UNCHANGED <<records, kills>>

Kill(w) ==
  /\ work[w].pc # "idle"
  /\ kills < MaxKills
  /\ kills' = kills + 1
  /\ work' = [work EXCEPT ![w] = AtRest]
  /\ UNCHANGED <<trials, behind, records>>

(* record_blocked_run, once for one plan item. *)
RecordBlockedRun(signature) ==
  /\ Len(trials) < MaxTrials
  /\ \A i \in DOMAIN trials :
       trials[i].by = "preflight" => trials[i].signature # signature
  /\ trials' = Append(trials, NewRow(signature, Missing, "preflight", "blocked"))
  /\ behind' = TRUE
  /\ UNCHANGED <<work, records, kills>>

RecorderStep(w) == ReadExisting(w) \/ CountFamily(w) \/ Record(w)

EvaluatorStep(w) ==
  InsertTrial(w) \/ ReadFamily(w) \/ WriteCorrections(w)

Next ==
  \/ \E w \in Recorders : RecorderStep(w)
  \/ \E w \in Evaluators : EvaluatorStep(w) \/ Kill(w)
  \/ \E signature \in Signatures : RecordBlockedRun(signature)

Spec == Init /\ [][Next]_vars

(* A backtest that has started finishes. *)
FairSpec ==
  Spec /\ \A w \in Evaluators : WF_vars(ReadFamily(w) \/ WriteCorrections(w))

-----------------------------------------------------------------------------
(* Properties *)

Families == UNION {[S -> Raw] : S \in SUBSET Signatures}

Draft == [pc : {"idle", "count", "insert", "read", "write"},
          signature : Signatures \cup {Missing}, raw : Raw,
          existing : Nat, family : Families]

(* The table's rows and what the writers hold are of the kinds above, and a  *)
(* row written by record_research_trial is never left uncorrected, nor is    *)
(* there a second one of its signature.                                      *)
TypeOK ==
  /\ trials \in Seq(Row)
  /\ \A i, j \in DOMAIN trials :
       trials[i].by = "record" =>
         /\ trials[i].correction.label # "pending"
         /\ trials[j].by = "record" /\ trials[j].signature = trials[i].signature
              => i = j
  /\ work \in [Writers -> Draft]
  /\ \A w \in Writers :
       /\ work[w].pc \in IF w \in Recorders THEN {"idle", "count", "insert"}
                        ELSE {"idle", "read", "write"}
       /\ work[w].pc \in {"count", "insert"} => work[w].signature \in Signatures
  /\ behind \in BOOLEAN
  /\ records \in 0 .. MaxRecords /\ kills \in 0 .. MaxKills

(* Unless the family is behind, every row is corrected for every trial of    *)
(* the family, with the p-value its signature had last.                      *)
CorrectedUnlessBehind ==
  behind \/ \A i \in DOMAIN trials :
    /\ trials[i].correction.count = Cardinality(SignaturesOf(trials))
    /\ trials[i].correction = CorrectionOf(Family(trials), trials[i].signature)

(* The corrected values are the levels from which on the step-down and the   *)
(* step-up procedure reject a trial.                                         *)
CorrectionsAreTheProcedures ==
  LET family == Family(trials)
  IN \A s \in Valid(family), level \in Levels :
       /\ Holm(family, s) <= level <=> StepDownRejects(family, s, level)
       /\ BenjaminiHochberg(family, s) <= level
            <=> StepUpRejects(family, s, level)

Uncorrecteds ==
  {i \in DOMAIN trials : /\ trials[i].by = "evaluator"
                         /\ trials[i].correction.label = "pending"}

(* Backtests that committed their trial and are at work on the corrections.  *)
UnderWay == {w \in Evaluators : work[w].pc # "idle"}

(* Of the backtests left uncorrected, each was killed or is under way: when  *)
(* one of several that overlap corrects from a family it read long ago, the  *)
(* trials it misses are those of backtests that have yet to write.           *)
UncorrectedAreUnderWay ==
  Cardinality(Uncorrecteds) <= kills + Cardinality(UnderWay)

(* In the end no more backtests are left uncorrected than were killed.       *)
BacktestsAreCorrected == <>[](Cardinality(Uncorrecteds) <= kills)
================================================================================
