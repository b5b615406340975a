-------------------------- MODULE Phase8SearchProofs ---------------------------
(***************************************************************************)
(* Proofs about Phase8Search, for any number of processes, any protocols,  *)
(* budgets and fold configurations, and any number of searches and kills.  *)
(***************************************************************************)
EXTENDS Phase8Search, FiniteSetTheorems, SequenceTheorems, TLAPS

-----------------------------------------------------------------------------
(* The inner folds, for every length of the data, every place of the holdout *)
(* and every fold configuration *)

(* A product grows with its first factor. *)
LEMMA ProductMonotone ==
  ASSUME NEW i \in Nat, NEW j \in Nat, NEW v \in Nat, i <= j
  PROVE  i * v <= j * v
<1>1. PICK k \in Nat : j = i + k
  BY SMT
<1>2. j * v = i * v + k * v
  BY <1>1, SMT
<1>3. k * v \in Nat /\ i * v \in Nat
  BY SMT
<1> QED BY <1>2, <1>3, SMT

(* Where the windows of a fold lie among the dates. *)
LEMMA WindowBounds ==
  ASSUME NEW c \in FoldConfigs, SufficientHistory(c),
         NEW i \in DOMAIN Folds(c)
  PROVE  /\ i \in Nat
         /\ i < c.fold_count
         /\ Dates(c) \in Nat
         /\ Dates(c) <= c.holdout_start
         /\ RequiredGap(c) \in Nat
         /\ FirstValidation(c) \in Int
         /\ i * c.validation_periods \in Nat
         /\ ValidationStart(c, i) \in Int
         /\ TrainingEnd(c, i) = ValidationStart(c, i) - RequiredGap(c)
         /\ TrainingEnd(c, i) >= c.minimum_training_periods
         /\ ValidationStart(c, i) + c.validation_periods <= Dates(c)
<1> DEFINE v == c.validation_periods
           n == c.fold_count
<1>1. /\ v \in Nat /\ n \in Nat /\ c.holdout_start \in Nat
      /\ c.calendar \in Nat /\ c.minimum_training_periods \in Nat
      /\ c.purge_periods \in Nat /\ c.embargo_periods \in Nat
  BY DEF FoldConfigs
<1>2. i \in Nat /\ i + 1 <= n
  BY <1>1 DEF Folds
<1>3. Dates(c) \in Nat /\ Dates(c) <= c.holdout_start
  BY <1>1 DEF Dates
<1>4. RequiredGap(c) \in Nat
  BY <1>1 DEF RequiredGap
<1>5. n * v \in Nat /\ i * v \in Nat /\ (i + 1) * v = i * v + v
  BY <1>1, <1>2, SMT
<1>6. (i + 1) * v <= n * v
  BY <1>1, <1>2, ProductMonotone
<1>7. FirstValidation(c) = Dates(c) - n * v
  BY DEF FirstValidation
<1>8. ValidationStart(c, i) = FirstValidation(c) + i * v
  BY DEF ValidationStart
<1>9. TrainingEnd(c, i) = ValidationStart(c, i) - RequiredGap(c)
  BY DEF TrainingEnd
<1>10. FirstValidation(c) - RequiredGap(c) >= c.minimum_training_periods
  BY DEF SufficientHistory
<1> HIDE DEF v, n
<1> QED BY <1>1, <1>2, <1>3, <1>4, <1>5, <1>6, <1>7, <1>8, <1>9, <1>10, SMT
           DEF v, n

(* The windows as positions. *)
LEMMA WindowMembers ==
  ASSUME NEW c \in FoldConfigs, NEW i \in DOMAIN Folds(c)
  PROVE  /\ \A t \in Folds(c)[i].training : t \in Int /\ t < TrainingEnd(c, i)
         /\ \A u \in Folds(c)[i].validation :
              /\ u \in Int
              /\ u < Dates(c)
              /\ ValidationStart(c, i) <= u
              /\ u < ValidationStart(c, i) + c.validation_periods
         /\ \A g \in Folds(c)[i].purge :
              /\ g \in Int
              /\ TrainingEnd(c, i) <= g
              /\ g < TrainingEnd(c, i) + c.purge_periods
         /\ \A g \in Folds(c)[i].embargo :
              /\ g \in Int
              /\ TrainingEnd(c, i) + c.purge_periods <= g
              /\ g < ValidationStart(c, i)
<1>1. Folds(c)[i] = Fold(c, i)
  BY DEF Folds
<1>2. Dates(c) \in Int
  BY DEF Dates, FoldConfigs
<1>3. ASSUME NEW first, NEW last, NEW d \in Positions(c, first, last)
      PROVE  d \in Int /\ first <= d /\ d < last /\ d < Dates(c)
  BY <1>2 DEF Positions
<1> QED BY <1>1, <1>3 DEF Fold

(* No slice of build_phase8_folds leaves the dates or has a negative end. *)
THEOREM FoldSlicesInRange ==
  ASSUME NEW c \in FoldConfigs, SufficientHistory(c)
  PROVE  SlicesInRange(c)
  BY WindowBounds DEF SlicesInRange

(* Between the last training date and the first validation date of a fold    *)
(* lie at least as many dates as are purged and embargoed.                   *)
THEOREM FoldGapsKept ==
  ASSUME NEW c \in FoldConfigs, SufficientHistory(c)
  PROVE  GapIsKept(c)
<1> SUFFICES ASSUME NEW i \in DOMAIN Folds(c),
                    NEW t \in Folds(c)[i].training,
                    NEW u \in Folds(c)[i].validation
             PROVE  u - t > RequiredGap(c)
  BY DEF GapIsKept
<1>1. t \in Int /\ t < TrainingEnd(c, i)
  BY WindowMembers
<1>2. u \in Int /\ ValidationStart(c, i) <= u
  BY WindowMembers
<1> QED BY <1>1, <1>2, WindowBounds

(* No training or validation date of any fold is a holdout date. *)
THEOREM FoldsExcludeHoldout ==
  ASSUME NEW c \in FoldConfigs, SufficientHistory(c)
  PROVE  HoldoutIsKeptOut(c)
<1> SUFFICES ASSUME NEW i \in DOMAIN Folds(c),
                    NEW d \in Folds(c)[i].training \cup Folds(c)[i].validation
             PROVE  d < c.holdout_start
  BY DEF HoldoutIsKeptOut
<1>1. /\ c.holdout_start \in Nat /\ c.validation_periods \in Nat
      /\ RequiredGap(c) \in Nat
  BY WindowBounds DEF FoldConfigs
<1>2. CASE d \in Folds(c)[i].training
  <2>1. d \in Int /\ d < TrainingEnd(c, i)
    BY <1>2, WindowMembers
  <2> QED BY <1>1, <2>1, WindowBounds
<1>3. CASE d \in Folds(c)[i].validation
  <2>1. d \in Int /\ d < Dates(c)
    BY <1>3, WindowMembers
  <2> QED BY <1>1, <2>1, WindowBounds
<1> QED BY <1>2, <1>3

(* Two folds never validate on one date. *)
THEOREM FoldValidationsDisjoint ==
  ASSUME NEW c \in FoldConfigs, SufficientHistory(c)
  PROVE  ValidationsAreDisjoint(c)
<1> DEFINE v == c.validation_periods
<1>1. ASSUME NEW i \in DOMAIN Folds(c), NEW j \in DOMAIN Folds(c), i < j,
             NEW d \in Folds(c)[i].validation
      PROVE  d \notin Folds(c)[j].validation
  <2>1. d \in Int /\ d < ValidationStart(c, i) + v
    BY WindowMembers
  <2>2. i \in Nat /\ j \in Nat /\ v \in Nat /\ i + 1 <= j
    BY <1>1, WindowBounds DEF FoldConfigs
  <2>3. (i + 1) * v <= j * v
    BY <2>2, ProductMonotone
  <2>4. (i + 1) * v = i * v + v /\ i * v \in Nat /\ j * v \in Nat
    BY <2>2, SMT
  <2>5. /\ ValidationStart(c, i) = FirstValidation(c) + i * v
        /\ ValidationStart(c, j) = FirstValidation(c) + j * v
        /\ FirstValidation(c) \in Int
    BY WindowBounds DEF ValidationStart
  <2> HIDE DEF v
  <2>6. d < ValidationStart(c, j)
    BY <2>1, <2>2, <2>3, <2>4, <2>5, SMT
  <2>7. ~(ValidationStart(c, j) <= d)
    BY <2>1, <2>2, <2>4, <2>5, <2>6, SMT
  <2> QED BY <2>7, WindowMembers
<1>2. ASSUME NEW i \in DOMAIN Folds(c), NEW j \in DOMAIN Folds(c), i # j
      PROVE  Folds(c)[i].validation \cap Folds(c)[j].validation = {}
  <2>1. i < j \/ j < i
    BY <1>2, WindowBounds
  <2> QED BY <1>1, <2>1
<1> QED BY <1>2 DEF ValidationsAreDisjoint

(* Every number lies in one of the blocks of length v. *)
LEMMA BlockOf ==
  ASSUME NEW x \in Nat, NEW v \in Nat \ {0}
  PROVE  \E q \in Nat : q * v <= x /\ x < q * v + v
<1>1. /\ x \div v \in Int /\ x % v \in Int /\ 0 <= x % v /\ x % v < v
      /\ x = v * (x \div v) + (x % v)
  BY Z3T(30)
<1> DEFINE q == x \div v
<1>2. q \in Int /\ q * v <= x /\ x < q * v + v
  BY <1>1, Z3T(30)
<1>3. q \in Nat
  BY <1>1, Z3T(30)
<1> QED BY <1>2, <1>3

(* The validation blocks leave no gap: every development date from the first *)
(* validation date on is scored by some fold.                                *)
THEOREM FoldValidationsTile ==
  ASSUME NEW c \in FoldConfigs, SufficientHistory(c)
  PROVE  ValidationsTile(c)
<1> DEFINE v == c.validation_periods
           n == c.fold_count
<1>1. /\ v \in Nat \ {0} /\ n \in Nat /\ Dates(c) \in Nat
      /\ RequiredGap(c) \in Nat /\ c.minimum_training_periods \in Nat
  BY DEF FoldConfigs, Dates, RequiredGap
<1>2. n * v \in Nat /\ FirstValidation(c) = Dates(c) - n * v
  BY <1>1, SMT DEF FirstValidation
<1>3. FirstValidation(c) \in Nat
  <2>1. FirstValidation(c) - RequiredGap(c) >= c.minimum_training_periods
    BY DEF SufficientHistory
  <2> QED BY <1>1, <1>2, <2>1
<1>4. ASSUME NEW d \in FirstValidation(c) .. Dates(c) - 1
      PROVE  \E i \in DOMAIN Folds(c) : d \in Folds(c)[i].validation
  <2>1. d \in Nat /\ FirstValidation(c) <= d /\ d < Dates(c)
    BY <1>1, <1>3
  <2>2. d - FirstValidation(c) \in Nat /\ d - FirstValidation(c) < n * v
    BY <1>1, <1>2, <1>3, <2>1
  <2>3. PICK q \in Nat : /\ q * v <= d - FirstValidation(c)
                         /\ d - FirstValidation(c) < q * v + v
    BY <1>1, <2>2, BlockOf
  <2>4. q * v \in Nat
    BY <1>1, SMT
  <2>5. q < n
    <3>1. SUFFICES ASSUME n <= q PROVE FALSE
      BY <1>1
    <3>2. n * v <= q * v
      BY <1>1, <3>1, ProductMonotone
    <3> QED BY <1>2, <2>2, <2>3, <2>4, <3>2
  <2>6. q \in DOMAIN Folds(c)
    BY <1>1, <2>5 DEF Folds
  <2>7. ValidationStart(c, q) = FirstValidation(c) + q * v
    BY DEF ValidationStart
  <2>8. d \in Positions(c, ValidationStart(c, q), ValidationStart(c, q) + v)
    <3> HIDE DEF v
    <3>1. ValidationStart(c, q) <= d /\ d < ValidationStart(c, q) + v
      BY <1>1, <1>3, <2>1, <2>3, <2>4, <2>7
    <3> QED BY <1>1, <2>1, <3>1 DEF Positions
  <2>9. Folds(c)[q].validation
          = Positions(c, ValidationStart(c, q), ValidationStart(c, q) + v)
    BY <2>6 DEF Folds, Fold
  <2> QED BY <2>6, <2>8, <2>9
<1> QED BY <1>4 DEF ValidationsTile

(* _validate_fold_geometry accepts every fold: once the history suffices,    *)
(* build_phase8_folds does not raise.                                        *)
THEOREM FoldGeometryValid ==
  ASSUME NEW c \in FoldConfigs, SufficientHistory(c),
         NEW i \in DOMAIN Folds(c)
  PROVE  ValidGeometry(c, Folds(c)[i])
<1> DEFINE fold == Folds(c)[i]
<1>1. /\ c.purge_periods \in Nat /\ c.embargo_periods \in Nat
      /\ c.holdout_start \in Nat /\ c.validation_periods \in Nat
      /\ RequiredGap(c) = c.purge_periods + c.embargo_periods
  BY DEF FoldConfigs, RequiredGap
<1>2. ASSUME NEW t \in fold.training, NEW u \in fold.validation
      PROVE  t < u
  <2>1. t \in Int /\ t < TrainingEnd(c, i)
    BY <1>2, WindowMembers
  <2>2. u \in Int /\ ValidationStart(c, i) <= u
    BY <1>2, WindowMembers
  <2> QED BY <2>1, <2>2, WindowBounds
<1>3. ASSUME NEW u \in fold.validation
      PROVE  u < c.holdout_start
  <2>1. u \in Int /\ u < Dates(c)
    BY <1>3, WindowMembers
  <2> QED BY <1>1, <2>1, WindowBounds
<1>4. ASSUME NEW g \in fold.purge \cup fold.embargo
      PROVE  g \in Int /\ TrainingEnd(c, i) <= g /\ g < ValidationStart(c, i)
  <2>1. CASE g \in fold.purge
    <3>1. /\ g \in Int /\ TrainingEnd(c, i) <= g
          /\ g < TrainingEnd(c, i) + c.purge_periods
      BY <2>1, WindowMembers
    <3> QED BY <1>1, <3>1, WindowBounds
  <2>2. CASE g \in fold.embargo
    <3>1. /\ g \in Int /\ TrainingEnd(c, i) + c.purge_periods <= g
          /\ g < ValidationStart(c, i)
      BY <2>2, WindowMembers
    <3> QED BY <1>1, <3>1, WindowBounds
  <2> QED BY <1>4, <2>1, <2>2
<1>5. ASSUME NEW g \in fold.purge \cup fold.embargo
      PROVE  /\ \A t \in fold.training : t < g
             /\ \A u \in fold.validation : g < u
  <2>1. ASSUME NEW t \in fold.training PROVE t < g
    <3>1. t \in Int /\ t < TrainingEnd(c, i)
      BY <2>1, WindowMembers
    <3> QED BY <1>4, <1>5, <3>1, WindowBounds
  <2>2. ASSUME NEW u \in fold.validation PROVE g < u
    <3>1. u \in Int /\ ValidationStart(c, i) <= u
      BY <2>2, WindowMembers
    <3> QED BY <1>4, <1>5, <3>1, WindowBounds
  <2> QED BY <2>1, <2>2
<1> QED BY <1>2, <1>3, <1>5 DEF ValidGeometry

-----------------------------------------------------------------------------
(* Searches *)

Protocol == Protocols \cup {NoProtocol}

(* How often trials completed is a number, and the candidates are trials. *)
LEMMA ResultType ==
  ASSUME NEW trials \in Seq(Trial), NEW p
  PROVE  /\ IsFiniteSet(Completed(trials))
         /\ Cardinality(Completed(trials)) \in Nat
         /\ Result(trials, p).completed = Cardinality(Completed(trials))
         /\ Result(trials, p).candidates = SelectCandidates(trials, Directions[p])
         /\ Result(trials, p).total = Len(trials)
         /\ SelectCandidates(trials, Directions[p]) \subseteq DOMAIN trials
         /\ SelectCandidates(trials, Directions[p]) \subseteq Nat
<1>1. Completed(trials) \subseteq 1 .. Len(trials) /\ Len(trials) \in Nat
  BY DEF Completed
<1>2. IsFiniteSet(1 .. Len(trials))
  BY <1>1, FS_Interval
<1>3. IsFiniteSet(Completed(trials))
  BY <1>1, <1>2, FS_Subset
<1>4. SelectCandidates(trials, Directions[p]) \subseteq Completed(trials)
  BY DEF SelectCandidates, Feasible
<1>5. DOMAIN trials = 1 .. Len(trials)
  OBVIOUS
<1> QED BY <1>1, <1>3, <1>4, <1>5, FS_CardinalityType DEF Result

(* The records the actions write. *)
LEMMA RecordTypes ==
  /\ RunningTrial \in Trial
  /\ FailedTrial \in Trial
  /\ NoFile \in File
  /\ NoCandidate \in Candidates
  /\ AtRest \in Work
<1>1. <<>> \in Seq(Int) /\ <<>> \in Seq(Trial)
  OBVIOUS
<1>2. RunningTrial \in Trial /\ FailedTrial \in Trial
  BY <1>1 DEF RunningTrial, FailedTrial, Trial
<1>3. NoFile \in File
  BY <1>1 DEF NoFile, File
<1>4. NoCandidate \in Candidates
  BY <1>1 DEF NoCandidate, Candidates
<1>5. AtRest \in Work
  BY <1>1, <1>4 DEF AtRest, Work, Studies
<1> QED BY <1>2, <1>3, <1>4, <1>5

Row == [inputs : Protocol, status : {"none", "running", "complete"},
        completed : Nat, candidates : SUBSET Nat]

LEMMA InitType == Init => TypeOK
<1> SUFFICES ASSUME Init PROVE TypeOK
  OBVIOUS
<1>1. <<>> \in Seq(Trial)
  OBVIOUS
<1>2. registry \in [Studies -> Row]
  <2>1. NoRow \in Row
    BY DEF NoRow, Protocol, Row
  <2> QED BY <2>1 DEF Init, StudyInit
<1>3. /\ optuna \in [Studies -> [inputs : Protocol, trials : Seq(Trial)]]
      /\ files \in [Studies -> [result : File, trials : File]]
      /\ work \in [Processes -> Work]
  BY <1>1, RecordTypes DEF Init, StudyInit, Protocol
<1>4. dir \in [search : File,
              frozen : [state : FileStates, candidate : Candidates],
              access : FileStates, result : FileStates, failure : FileStates]
  BY RecordTypes DEF Init, FileStates, NoFrozen
<1>5. openings \in Nat /\ raced \in BOOLEAN /\ overlapped \in BOOLEAN
  BY DEF Init
<1>6. searches \in 0 .. MaxSearches /\ kills \in 0 .. MaxKills
  BY Phase8Assumption DEF Init
<1> QED
  BY <1>2, <1>3, <1>4, <1>5, <1>6 DEF TypeOK, Protocol, Row

(* A run is always of a protocol, on enough dates, and only the challenger's *)
(* result reaches the caller.                                                *)
Asked ==
  \A r \in Processes :
    work[r].pc # "idle" =>
      /\ work[r].inputs \in Protocols
      /\ SufficientHistory(FoldConfig[work[r].inputs])
      /\ work[r].pc \notin RunStages => work[r].study = "challenger"

WellFormed == TypeOK /\ Asked

(* What a process may become keeps the types and what was asked. *)
LEMMA WorkStep ==
  ASSUME WellFormed, NEW r \in Processes, NEW new \in Work,
         work' = [work EXCEPT ![r] = new],
         new.pc # "idle" =>
           /\ new.inputs \in Protocols
           /\ SufficientHistory(FoldConfig[new.inputs])
           /\ new.pc \notin RunStages => new.study = "challenger"
  PROVE  work' \in [Processes -> Work] /\ Asked'
<1>1. work \in [Processes -> Work]
  BY DEF WellFormed, TypeOK
<1> QED BY <1>1 DEF WellFormed, Asked

LEMMA RaiseStep ==
  ASSUME WellFormed, NEW r \in Processes, Raise(r)
  PROVE  work' \in [Processes -> Work] /\ Asked'
  BY RecordTypes, WorkStep DEF Raise, AtRest

LEMMA StageStep ==
  ASSUME WellFormed, NEW r \in Processes, NEW pc, Stage(r, pc),
         work[r].pc # "idle",
         \/ pc \in RunStages /\ work[r].pc \in RunStages
         \/ /\ work[r].study = "challenger"
            /\ pc \in {"searched", "writing", "written", "frozen", "opening",
                       "holdout"}
  PROVE  work' \in [Processes -> Work] /\ Asked'
<1> DEFINE new == [work[r] EXCEPT !.pc = pc]
<1>1. work[r] \in Work
  BY DEF WellFormed, TypeOK
<1>2. new \in Work
  BY <1>1 DEF Work
<1>3. work' = [work EXCEPT ![r] = new]
  BY DEF Stage, WellFormed, TypeOK
<1>4. /\ new.pc = pc /\ new.inputs = work[r].inputs
      /\ new.study = work[r].study
  BY <1>1 DEF Work
<1>5. /\ work[r].inputs \in Protocols
      /\ SufficientHistory(FoldConfig[work[r].inputs])
  BY DEF WellFormed, Asked
<1> HIDE DEF new
<1> QED BY <1>2, <1>3, <1>4, <1>5, WorkStep

LEMMA EnterStep ==
  ASSUME WellFormed, NEW r \in Processes, NEW p \in Protocols,
         NEW s \in Studies, NEW n \in Nat, Enter(r, p, s, n),
         SufficientHistory(FoldConfig[p])
  PROVE  work' \in [Processes -> Work] /\ Asked'
<1> DEFINE new == [AtRest EXCEPT !.pc = "register", !.study = s, !.inputs = p,
                                 !.search = n]
<1>1. new \in Work
  BY RecordTypes DEF Work, RunStages
<1>2. work' = [work EXCEPT ![r] = new]
  BY DEF Enter
<1>3. new.pc = "register" /\ new.inputs = p
  BY DEF AtRest
<1>4. "register" \in RunStages
  BY DEF RunStages
<1> HIDE DEF new
<1> QED BY <1>1, <1>2, <1>3, <1>4, WorkStep

(* The registry and Optuna's database as one step writes them. *)
LEMMA RegistryStep ==
  ASSUME WellFormed, NEW s \in Studies, NEW row \in Row,
         registry' = [registry EXCEPT ![s] = row]
  PROVE  registry' \in [Studies -> Row]
  BY DEF WellFormed, TypeOK, Row, Protocol

LEMMA FileStep ==
  ASSUME WellFormed, NEW r \in Processes, NEW file \in File
  PROVE  Written(file, work[r].seen) \in File /\ Torn(file) \in File
<1>1. work[r].seen \in Seq(Trial)
  BY DEF WellFormed, TypeOK, Work
<1> QED BY <1>1 DEF Written, Torn, File

(* The last trial is told. *)
LEMMA LastReplaced ==
  ASSUME NEW trials \in Seq(Trial), NEW outcome \in Trial
  PROVE  /\ [trials EXCEPT ![Len(trials)] = outcome] \in Seq(Trial)
         /\ Len([trials EXCEPT ![Len(trials)] = outcome]) = Len(trials)
         /\ \A n \in 1 .. Len(trials) - 1 :
              [trials EXCEPT ![Len(trials)] = outcome][n] = trials[n]
<1>1. CASE Len(trials) = 0
  <2>1. [trials EXCEPT ![Len(trials)] = outcome] = trials
    BY <1>1
  <2> QED BY <1>1, <2>1
<1>2. CASE Len(trials) # 0
  <2>1. Len(trials) \in 1 .. Len(trials)
    BY <1>2
  <2> QED BY <2>1, ExceptSeq
<1> QED BY <1>1, <1>2

LEMMA TrialsStep ==
  ASSUME WellFormed, NEW s \in Studies, NEW history \in Seq(Trial),
         optuna' = [optuna EXCEPT ![s].trials = history]
  PROVE  optuna' \in [Studies -> [inputs : Protocol, trials : Seq(Trial)]]
<1>1. optuna \in [Studies -> [inputs : Protocol, trials : Seq(Trial)]]
  BY DEF WellFormed, TypeOK, Protocol
<1> QED BY <1>1

(* The types through one step of run, action by action. *)
LEMMA RunStepType ==
  ASSUME WellFormed, NEW r \in Processes, RunStep(r)
  PROVE  /\ registry' \in [Studies -> Row]
         /\ optuna' \in [Studies -> [inputs : Protocol, trials : Seq(Trial)]]
         /\ files' \in [Studies -> [result : File, trials : File]]
         /\ work' \in [Processes -> Work] /\ Asked'
<1> DEFINE s == work[r].study
           p == work[r].inputs
           trials == optuna[s].trials
<1>1. /\ registry \in [Studies -> Row]
      /\ optuna \in [Studies -> [inputs : Protocol, trials : Seq(Trial)]]
      /\ files \in [Studies -> [result : File, trials : File]]
      /\ work \in [Processes -> Work]
  BY DEF WellFormed, TypeOK, Row, Protocol
<1>2. /\ work[r] \in Work /\ s \in Studies /\ p \in Protocol
      /\ work[r].seen \in Seq(Trial) /\ work[r].search \in Nat
      /\ work[r].remaining \in Nat
      /\ trials \in Seq(Trial)
  BY <1>1 DEF Work, Protocol
<1>3. work[r].pc # "idle" =>
        p \in Protocols /\ SufficientHistory(FoldConfig[p])
  BY DEF WellFormed, Asked
<1>4. p \in Protocols => MaxTrials[p] \in Nat
  BY StudyAssumption
<1>5. registry[s] \in Row
  BY <1>1, <1>2
<1>6. CASE RegisterStart(r)
  <2>1. [registry[s] EXCEPT !.inputs = p, !.status = "running"] \in Row
    BY <1>2, <1>5 DEF Row
  <2>2. registry' \in [Studies -> Row]
    BY <1>2, <1>6, <2>1, RegistryStep DEF RegisterStart
  <2>3. work' \in [Processes -> Work] /\ Asked'
    BY <1>6, StageStep DEF RegisterStart, RunStages
  <2> QED BY <1>1, <1>6, <2>2, <2>3 DEF RegisterStart
<1>7. CASE RegisterRefused(r)
  BY <1>1, <1>7, RaiseStep DEF RegisterRefused, studyVars
<1>8. CASE OpenStudy(r)
  <2> DEFINE left == MaxTrials[p] - Cardinality(Completed(trials))
             new == [work[r] EXCEPT !.pc = "trials",
                                    !.remaining = IF left > 0 THEN left ELSE 0]
  <2>1. optuna' \in [Studies -> [inputs : Protocol, trials : Seq(Trial)]]
    BY <1>1, <1>2, <1>8 DEF OpenStudy
  <2>2. left \in Int
    <3>1. work[r].pc = "open"
      BY <1>8 DEF OpenStudy
    <3>2. MaxTrials[p] \in Nat
      BY <1>3, <1>4, <3>1
    <3>3. Cardinality(Completed(trials)) \in Nat
      BY <1>2, ResultType
    <3> QED BY <3>2, <3>3
  <2>3. new \in Work
    <3> DEFINE rest == IF left > 0 THEN left ELSE 0
    <3>1. rest \in Nat
      <4> HIDE DEF left
      <4> QED BY <2>2
    <3> HIDE DEF rest
    <3>2. [work[r] EXCEPT !.pc = "trials", !.remaining = rest] \in Work
      BY <1>2, <3>1 DEF Work, RunStages
    <3> QED BY <3>2 DEF rest
  <2>4. work' = [work EXCEPT ![r] = new]
    BY <1>8 DEF OpenStudy
  <2>5. new.inputs = p /\ new.pc = "trials" /\ "trials" \in RunStages
    BY <1>2 DEF Work, RunStages
  <2>6. work' \in [Processes -> Work] /\ Asked'
    <3> HIDE DEF new
    <3> QED BY <1>3, <1>8, <2>3, <2>4, <2>5, WorkStep DEF OpenStudy
  <2> QED BY <1>1, <1>8, <2>1, <2>6 DEF OpenStudy
<1>9. CASE AskTrial(r)
  <2> DEFINE new == [work[r] EXCEPT !.pc = "evaluate",
                                    !.remaining = work[r].remaining - 1]
  <2>1. Append(trials, RunningTrial) \in Seq(Trial)
    BY <1>2, RecordTypes
  <2>2. optuna' \in [Studies -> [inputs : Protocol, trials : Seq(Trial)]]
    <3>1. optuna' = [optuna EXCEPT ![s].trials = Append(trials, RunningTrial)]
      BY <1>1, <1>2, <1>9 DEF AskTrial
    <3> QED BY <1>2, <2>1, <3>1, TrialsStep
  <2>3. new \in Work
    <3>1. work[r].remaining - 1 \in Nat
      BY <1>2, <1>9 DEF AskTrial
    <3>2. [work[r] EXCEPT !.pc = "evaluate",
                          !.remaining = work[r].remaining - 1] \in Work
      BY <1>2, <3>1 DEF Work, RunStages
    <3> QED BY <3>2
  <2>4. work' = [work EXCEPT ![r] = new]
    BY <1>1, <1>9 DEF AskTrial
  <2>5. new.inputs = p /\ new.pc = "evaluate" /\ "evaluate" \in RunStages
    BY <1>2 DEF Work, RunStages
  <2>6. work' \in [Processes -> Work] /\ Asked'
    <3> HIDE DEF new
    <3> QED BY <1>3, <1>9, <2>3, <2>4, <2>5, WorkStep DEF AskTrial
  <2> QED BY <1>1, <1>9, <2>2, <2>6 DEF AskTrial
<1>10. CASE TrialEvaluated(r) \/ TrialRaised(r)
  <2>1. PICK outcome \in Trial : TellTrial(r, outcome)
    <3>1. CASE TrialRaised(r)
      BY <3>1, RecordTypes DEF TrialRaised
    <3>2. CASE TrialEvaluated(r)
      <4>1. PICK e \in Evaluations[p] : TellTrial(r, CompleteTrial(e))
        BY <3>2 DEF TrialEvaluated
      <4>2. e \in [feasible : BOOLEAN, values : Seq(Int)]
        BY <1>3, <3>2, StudyAssumption DEF TrialEvaluated
      <4>3. CompleteTrial(e) \in Trial
        BY <4>2 DEF CompleteTrial, Trial
      <4> QED BY <4>1, <4>3
    <3> QED BY <1>10, <3>1, <3>2
  <2>2. [trials EXCEPT ![Len(trials)] = outcome] \in Seq(Trial)
    BY <1>2, LastReplaced
  <2>3. optuna' \in [Studies -> [inputs : Protocol, trials : Seq(Trial)]]
    <3>1. optuna' = [optuna EXCEPT
                       ![s].trials = [trials EXCEPT ![Len(trials)] = outcome]]
      BY <1>1, <1>2, <2>1 DEF TellTrial
    <3> QED BY <1>2, <2>2, <3>1, TrialsStep
  <2>4. work[r].pc = "evaluate"
    BY <1>10 DEF TrialEvaluated, TrialRaised
  <2>5. work' \in [Processes -> Work] /\ Asked'
    BY <2>1, <2>4, StageStep DEF TellTrial, RunStages
  <2> QED BY <1>1, <2>1, <2>3, <2>5 DEF TellTrial
<1>11. CASE StopTrials(r)
  <2> DEFINE new == [work[r] EXCEPT !.pc = "result_file", !.seen = trials]
  <2>1. new \in Work
    BY <1>2 DEF Work, RunStages
  <2>2. work' = [work EXCEPT ![r] = new]
    BY <1>11 DEF StopTrials
  <2>3. new.inputs = p /\ new.pc = "result_file" /\ "result_file" \in RunStages
    BY <1>2 DEF Work, RunStages
  <2>4. work' \in [Processes -> Work] /\ Asked'
    <3> HIDE DEF new
    <3> QED BY <1>3, <1>11, <2>1, <2>2, <2>3, WorkStep DEF StopTrials
  <2> QED BY <1>1, <1>11, <2>4 DEF StopTrials, studyVars
<1>12. CASE WriteResultFile(r)
  <2>1. Written(files[s].result, work[r].seen) \in File
    BY <1>1, <1>2, FileStep
  <2>2. files' \in [Studies -> [result : File, trials : File]]
    BY <1>1, <1>2, <1>12, <2>1 DEF WriteResultFile
  <2>3. work' \in [Processes -> Work] /\ Asked'
    BY <1>12, StageStep DEF WriteResultFile, RunStages
  <2> QED BY <1>1, <1>12, <2>2, <2>3 DEF WriteResultFile
<1>13. CASE ResultFileRefused(r)
  BY <1>1, <1>13, RaiseStep DEF ResultFileRefused, studyVars
<1>14. CASE WriteTrialsFile(r)
  <2>1. Written(files[s].trials, work[r].seen) \in File
    BY <1>1, <1>2, FileStep
  <2>2. files' \in [Studies -> [result : File, trials : File]]
    BY <1>1, <1>2, <1>14, <2>1 DEF WriteTrialsFile
  <2>3. work' \in [Processes -> Work] /\ Asked'
    BY <1>14, StageStep DEF WriteTrialsFile, RunStages
  <2> QED BY <1>1, <1>14, <2>2, <2>3 DEF WriteTrialsFile
<1>15. CASE TrialsFileRefused(r)
  BY <1>1, <1>15, RaiseStep DEF TrialsFileRefused, studyVars
<1>16. CASE RegisterComplete(r)
  <2> DEFINE result == Result(work[r].seen, p)
  <2>1. result.completed \in Nat /\ result.candidates \in SUBSET Nat
    BY <1>2, ResultType
  <2>2. [registry[s] EXCEPT !.status = "complete",
                            !.completed = result.completed,
                            !.candidates = result.candidates] \in Row
    <3> HIDE DEF result
    <3> QED BY <1>5, <2>1 DEF Row
  <2>3. registry' \in [Studies -> Row]
    BY <1>2, <1>16, <2>2, RegistryStep DEF RegisterComplete, CompletedRow
  <2>4. work' \in [Processes -> Work] /\ Asked'
    <3>1. CASE s = "random_baseline"
      BY <1>2, <1>3, <1>16, <3>1, EnterStep DEF RegisterComplete, Studies
    <3>2. CASE s # "random_baseline"
      <4>1. s = "challenger" /\ Stage(r, "searched")
        BY <1>2, <1>16, <3>2 DEF RegisterComplete, Studies
      <4> QED BY <1>16, <4>1, StageStep DEF RegisterComplete
    <3> QED BY <3>1, <3>2
  <2> QED BY <1>1, <1>16, <2>3, <2>4 DEF RegisterComplete
<1> QED
  BY <1>6, <1>7, <1>8, <1>9, <1>10, <1>11, <1>12, <1>13, <1>14, <1>15, <1>16
  DEF RunStep

Dir == [search : File, frozen : [state : FileStates, candidate : Candidates],
        access : FileStates, result : FileStates, failure : FileStates]

(* The candidate a process freezes. *)
LEMMA CandidateType ==
  ASSUME WellFormed, NEW r \in Processes, work[r].pc \in {"searched", "written"},
         NEW n \in Selected(work[r].seen, work[r].inputs),
         NEW stamp \in {0, work[r].search}
  PROVE  /\ Candidate(r, n, stamp) \in Candidates
         /\ Candidate(r, n, stamp) # NoCandidate
         /\ Candidate(r, n, stamp).trial = n
         /\ n \in SelectCandidates(work[r].seen, Directions[work[r].inputs])
<1>1. work[r].seen \in Seq(Trial) /\ work[r].search \in Nat
  BY DEF WellFormed, TypeOK, Work
<1>2. work[r].inputs \in Protocols
  BY DEF WellFormed, Asked
<1>3. n \in SelectCandidates(work[r].seen, Directions[work[r].inputs])
  BY DEF Selected
<1>4. n \in DOMAIN work[r].seen /\ n \in Nat
  BY <1>1, <1>3, ResultType
<1>5. work[r].seen[n] \in Trial
  BY <1>1, <1>4
<1>6. work[r].seen[n].values \in Seq(Int)
  BY <1>5 DEF Trial
<1>7. NoProtocol # work[r].inputs
  BY <1>2, StudyAssumption
<1> QED BY <1>1, <1>2, <1>3, <1>4, <1>6, <1>7 DEF Candidate, Candidates, NoCandidate

LEMMA TypeStep == WellFormed /\ [Next]_vars => WellFormed'
<1> SUFFICES ASSUME WellFormed, [Next]_vars PROVE WellFormed'
  OBVIOUS
<1>1. /\ registry \in [Studies -> Row]
      /\ optuna \in [Studies -> [inputs : Protocol, trials : Seq(Trial)]]
      /\ files \in [Studies -> [result : File, trials : File]]
      /\ work \in [Processes -> Work] /\ Asked
      /\ dir \in Dir
      /\ openings \in Nat /\ raced \in BOOLEAN /\ overlapped \in BOOLEAN
      /\ searches \in 0 .. MaxSearches /\ kills \in 0 .. MaxKills
  BY DEF WellFormed, TypeOK, Row, Protocol, Dir
<1> DEFINE StoresOK == /\ registry' \in [Studies -> Row]
                       /\ optuna' \in [Studies -> [inputs : Protocol,
                                                   trials : Seq(Trial)]]
                       /\ files' \in [Studies -> [result : File, trials : File]]
           WorkOK == work' \in [Processes -> Work] /\ Asked'
           CountsOK == /\ openings' \in Nat /\ raced' \in BOOLEAN
                       /\ overlapped' \in BOOLEAN
                       /\ searches' \in 0 .. MaxSearches
                       /\ kills' \in 0 .. MaxKills
<1>2. ASSUME StoresOK, WorkOK, dir' \in Dir, CountsOK PROVE WellFormed'
  BY <1>2 DEF WellFormed, TypeOK, Row, Protocol, Dir
<1>3. CASE UNCHANGED vars
  BY <1>1, <1>2, <1>3 DEF vars, ghosts, Asked
<1>4. ASSUME NEW r \in Processes, NEW p \in Protocols, StartSearch(r, p)
      PROVE  WellFormed'
  <2>1. WorkOK
    BY <1>1, <1>4, Phase8Assumption, EnterStep DEF StartSearch, Studies
  <2>2. searches' \in 0 .. MaxSearches
    BY <1>1, <1>4, Phase8Assumption DEF StartSearch
  <2> QED BY <1>1, <1>2, <1>4, <2>1, <2>2 DEF StartSearch, ghosts
<1>5. ASSUME NEW r \in Processes, SearchStep(r) PROVE WellFormed'
  <2>1. RunStep(r)
    BY <1>5 DEF SearchStep
  <2> QED BY <1>1, <1>2, <1>5, <2>1, RunStepType DEF SearchStep, ghosts
<1>6. ASSUME NEW r \in Processes, Raise(r), UNCHANGED <<registry, optuna>>,
             files' \in [Studies -> [result : File, trials : File]],
             dir' \in Dir, CountsOK
      PROVE  WellFormed'
  BY <1>1, <1>2, <1>6, RaiseStep
<1>7. ASSUME NEW r \in Processes, NEW pc, Stage(r, pc), work[r].pc # "idle",
             work[r].study = "challenger",
             pc \in {"searched", "writing", "written", "frozen", "opening",
                     "holdout"},
             UNCHANGED <<registry, optuna, files>>, dir' \in Dir, CountsOK
      PROVE  WellFormed'
  BY <1>1, <1>2, <1>7, StageStep
<1>8. ASSUME NEW r \in Processes,
             work[r].pc \in {"searched", "writing", "written", "freezing",
                             "frozen", "opening"}
      PROVE  work[r].study = "challenger" /\ work[r].pc # "idle"
  BY <1>1, <1>8 DEF Asked, RunStages
<1>10. ASSUME UNCHANGED <<ghosts, searches, kills>> PROVE CountsOK
  BY <1>1, <1>10 DEF ghosts
<1>11. ASSUME NEW r \in Processes, CheckSearch(r) \/ WriteSearch(r)
       PROVE  WellFormed'
  <2>1. [state |-> "whole", of |-> work[r].seen] \in File
    BY <1>1 DEF Work, File
  <2>2. dir' \in Dir
    <3> DEFINE written == [state |-> "whole", of |-> work[r].seen]
    <3>1. dir' = dir \/ dir' = [dir EXCEPT !.search = written]
      BY <1>11 DEF CheckSearch, WriteSearch
    <3> HIDE DEF written
    <3> QED BY <1>1, <2>1, <3>1 DEF Dir, written
  <2>3. /\ UNCHANGED <<registry, optuna, files>>
        /\ UNCHANGED <<ghosts, searches, kills>>
        /\ Stage(r, "writing") \/ Stage(r, "written")
        /\ work[r].pc \in {"searched", "writing"}
    BY <1>11 DEF CheckSearch, WriteSearch
  <2> QED BY <1>7, <1>8, <1>10, <2>2, <2>3
<1>12. ASSUME NEW r \in Processes,
              SearchRefused(r) \/ FreezeRefused(r) \/ Leave(r) \/ HoldoutRefused(r)
       PROVE  WellFormed'
  BY <1>1, <1>6, <1>10, <1>12
  DEF SearchRefused, FreezeRefused, Leave, HoldoutRefused
<1>13. ASSUME NEW r \in Processes, CheckFrozen(r) PROVE WellFormed'
  <2>1. PICK n \in Selected(work[r].seen, work[r].inputs),
             stamp \in {0, work[r].search} :
          LET c == Candidate(r, n, stamp)
          IN FreezeNew(r, c) \/ FrozenBefore(r, c)
    BY <1>13 DEF CheckFrozen
  <2> DEFINE c == Candidate(r, n, stamp)
             new(pc) == [work[r] EXCEPT !.pc = pc, !.candidate = c]
  <2>2. c \in Candidates
    BY <1>13, CandidateType DEF CheckFrozen
  <2>3. PICK pc \in {"freezing", "frozen"} : work' = [work EXCEPT ![r] = new(pc)]
    BY <2>1 DEF FreezeNew, FrozenBefore
  <2>4. work[r] \in Work
    BY <1>1
  <2>5. new(pc) \in Work
    <3> HIDE DEF c
    <3> QED BY <2>2, <2>4 DEF Work
  <2>6. new(pc).inputs = work[r].inputs /\ new(pc).study = work[r].study
    BY <2>4 DEF Work
  <2>7. WorkOK
    <3>1. /\ work[r].study = "challenger" /\ work[r].inputs \in Protocols
          /\ SufficientHistory(FoldConfig[work[r].inputs])
      BY <1>1, <1>13 DEF Asked, CheckFrozen, RunStages
    <3> HIDE DEF new
    <3> QED BY <2>3, <2>5, <2>6, <3>1, WorkStep
  <2>8. StoresOK /\ dir' \in Dir /\ CountsOK
    <3> HIDE DEF c
    <3> QED BY <1>1, <2>1 DEF FreezeNew, FrozenBefore, ghosts, c
  <2> QED BY <1>2, <2>7, <2>8
<1>14. ASSUME NEW r \in Processes, WriteFrozen(r) PROVE WellFormed'
  <2>1. Frozen(work[r].candidate) \in [state : FileStates, candidate : Candidates]
    BY <1>1 DEF Work, Frozen, FileStates
  <2>2. dir' \in Dir
    <3>1. dir' = [dir EXCEPT !.frozen = Frozen(work[r].candidate)]
      BY <1>14 DEF WriteFrozen
    <3> QED BY <1>1, <2>1, <3>1 DEF Dir
  <2> QED BY <1>1, <1>7, <1>8, <1>10, <1>14, <2>2 DEF WriteFrozen, Freezing
<1>15. ASSUME NEW r \in Processes, CheckHoldout(r) PROVE WellFormed'
  <2>1. raced' \in BOOLEAN
    BY <1>1, <1>15 DEF CheckHoldout
  <2> QED BY <1>1, <1>7, <1>8, <1>15, <2>1 DEF CheckHoldout
<1>16. ASSUME NEW r \in Processes, OpenHoldout(r) PROVE WellFormed'
  <2>1. dir' \in Dir
    BY <1>1, <1>16 DEF OpenHoldout, Dir, FileStates
  <2>2. openings' \in Nat
    BY <1>1, <1>16 DEF OpenHoldout
  <2> QED BY <1>1, <1>7, <1>8, <1>16, <2>1, <2>2 DEF OpenHoldout, Opening
<1>9. ASSUME NEW state \in FileStates,
             NEW mine \in FileStates, NEW left \in Leaves(state, mine)
      PROVE  left \in FileStates
  BY <1>9 DEF Leaves
<1>22. ASSUME NEW mine \in FileStates,
              \/ \E state \in Leaves(dir.result, mine) :
                   dir' = [dir EXCEPT !.result = state]
              \/ \E state \in Leaves(dir.failure, mine) :
                   dir' = [dir EXCEPT !.failure = state]
       PROVE  dir' \in Dir
  <2>1. dir.result \in FileStates /\ dir.failure \in FileStates
    BY <1>1 DEF Dir
  <2>2. \E state \in FileStates : \/ dir' = [dir EXCEPT !.result = state]
                                 \/ dir' = [dir EXCEPT !.failure = state]
    BY <1>9, <1>22, <2>1
  <2> QED BY <1>1, <2>2 DEF Dir
<1>23. ASSUME NEW r \in Processes, HoldoutEvaluated(r) \/ HoldoutFailed(r)
       PROVE  WellFormed'
  <2>1. dir' \in Dir
    BY <1>22, <1>23 DEF HoldoutEvaluated, HoldoutFailed, FileStates
  <2> QED BY <1>1, <1>6, <1>10, <1>23, <2>1 DEF HoldoutEvaluated, HoldoutFailed
<1>17. ASSUME NEW r \in Processes, Dies(r),
              files' \in [Studies -> [result : File, trials : File]], dir' \in Dir
       PROVE  WellFormed'
  <2>1. kills' \in 0 .. MaxKills
    BY <1>1, <1>17, Phase8Assumption DEF Dies
  <2> QED BY <1>1, <1>6, <1>17, <2>1 DEF Dies, ghosts
<1>18. ASSUME NEW r \in Processes, Kill(r) PROVE WellFormed'
  BY <1>1, <1>17, <1>18 DEF Kill
<1>19. ASSUME NEW r \in Processes, KillWritingStudy(r) PROVE WellFormed'
  <2>1. work[r].study \in Studies
    BY <1>1 DEF Work
  <2>2. /\ Torn(files[work[r].study].result) \in File
        /\ Torn(files[work[r].study].trials) \in File
    BY <1>1, <2>1, FileStep
  <2>3. files' \in [Studies -> [result : File, trials : File]]
    <3> DEFINE pair == files[work[r].study]
    <3>1. pair \in [result : File, trials : File]
      BY <1>1, <2>1
    <3>2. /\ [pair EXCEPT !.result = Torn(pair.result)]
               \in [result : File, trials : File]
          /\ [pair EXCEPT !.trials = Torn(pair.trials)]
               \in [result : File, trials : File]
      BY <2>2, <3>1
    <3>3. \/ files' = [files EXCEPT ![work[r].study] =
                        [pair EXCEPT !.result = Torn(pair.result)]]
          \/ files' = [files EXCEPT ![work[r].study] =
                        [pair EXCEPT !.trials = Torn(pair.trials)]]
      BY <1>1, <1>19 DEF KillWritingStudy
    <3> HIDE DEF pair
    <3> QED BY <1>1, <3>2, <3>3
  <2> QED BY <1>1, <1>17, <1>19, <2>3 DEF KillWritingStudy
<1>20. ASSUME NEW r \in Processes, KillWritingDir(r) PROVE WellFormed'
  <2> DEFINE search == [NoFile EXCEPT !.state = "torn"]
             freeze == [NoFrozen EXCEPT !.state = "torn"]
  <2>1. search \in File
    BY RecordTypes DEF File
  <2>2. freeze \in [state : FileStates, candidate : Candidates]
    BY RecordTypes DEF NoFrozen, FileStates
  <2>3. CASE dir' = [dir EXCEPT !.search = search]
    <3> HIDE DEF search
    <3>1. dir' \in Dir
      BY <1>1, <2>1, <2>3 DEF Dir
    <3> QED BY <1>1, <1>17, <1>20, <3>1 DEF KillWritingDir
  <2>4. CASE dir' = [dir EXCEPT !.frozen = freeze]
    <3> HIDE DEF freeze
    <3>1. dir' \in Dir
      BY <1>1, <2>2, <2>4 DEF Dir
    <3> QED BY <1>1, <1>17, <1>20, <3>1 DEF KillWritingDir
  <2>5. CASE dir' = [dir EXCEPT !.access = "torn"]
    <3>1. dir' \in Dir
      BY <1>1, <2>5 DEF Dir, FileStates
    <3> QED BY <1>1, <1>17, <1>20, <3>1 DEF KillWritingDir
  <2>6. CASE \/ \E state \in Leaves(dir.result, "torn") :
                  dir' = [dir EXCEPT !.result = state]
             \/ \E state \in Leaves(dir.failure, "torn") :
                  dir' = [dir EXCEPT !.failure = state]
    <3>1. dir' \in Dir
      BY <1>22, <2>6 DEF FileStates
    <3> QED BY <1>1, <1>17, <1>20, <3>1 DEF KillWritingDir
  <2> QED BY <1>20, <2>3, <2>4, <2>5, <2>6 DEF KillWritingDir
<1>21. CASE Next
  BY <1>4, <1>5, <1>11, <1>12, <1>13, <1>14, <1>15, <1>16, <1>18, <1>19, <1>20,
     <1>21, <1>23 DEF Next
<1> QED BY <1>3, <1>21

(* Every reachable state is well-formed: for any processes, protocols,       *)
(* budgets, searches and kills.                                              *)
THEOREM SearchTypeCorrect == Spec => []TypeOK
<1>1. Init => WellFormed
  BY InitType DEF WellFormed, Asked, Init, StudyInit, AtRest
<1>2. WellFormed /\ [Next]_vars => WellFormed'
  BY TypeStep
<1>3. WellFormed => TypeOK
  BY DEF WellFormed
<1> QED BY <1>1, <1>2, <1>3, PTL DEF Spec

(* Every fold of every study that was opened is sound. *)
THEOREM SearchFoldsSound == Spec => []FoldsAreSound
<1>1. Init => WellFormed
  BY InitType DEF WellFormed, Asked, Init, StudyInit, AtRest
<1>2. WellFormed /\ [Next]_vars => WellFormed'
  BY TypeStep
<1>3. WellFormed => FoldsAreSound
  <2> SUFFICES ASSUME WellFormed, NEW r \in Processes, work[r].pc = "open"
               PROVE  LET c == FoldConfig[work[r].inputs]
                      IN /\ SlicesInRange(c)
                         /\ GapIsKept(c)
                         /\ HoldoutIsKeptOut(c)
                         /\ ValidationsAreDisjoint(c)
                         /\ ValidationsTile(c)
                         /\ \A index \in DOMAIN Folds(c) :
                              ValidGeometry(c, Folds(c)[index])
    BY DEF FoldsAreSound
  <2> DEFINE c == FoldConfig[work[r].inputs]
  <2>1. SufficientHistory(c) /\ c \in FoldConfigs
    BY Phase8Assumption DEF WellFormed, Asked
  <2> HIDE DEF c
  <2>2. /\ SlicesInRange(c) /\ GapIsKept(c) /\ HoldoutIsKeptOut(c)
        /\ ValidationsAreDisjoint(c) /\ ValidationsTile(c)
        /\ \A index \in DOMAIN Folds(c) : ValidGeometry(c, Folds(c)[index])
    BY <2>1, FoldSlicesInRange, FoldGapsKept, FoldsExcludeHoldout,
       FoldValidationsDisjoint, FoldValidationsTile, FoldGeometryValid
  <2> QED BY <2>2 DEF c
<1> QED BY <1>1, <1>2, <1>3, PTL DEF Spec

-----------------------------------------------------------------------------
(* Who may change what.  The steps of a study are taken one by one below;    *)
(* all others leave the databases alone and no run under way behind.         *)

StudyStep(r) ==
  \/ RegisterStart(r)
  \/ OpenStudy(r)
  \/ AskTrial(r)
  \/ TrialEvaluated(r) \/ TrialRaised(r)
  \/ StopTrials(r)
  \/ WriteResultFile(r)
  \/ WriteTrialsFile(r)
  \/ RegisterComplete(r)

QuietStep(r) ==
  /\ UNCHANGED <<registry, optuna>>
  /\ \A s \in Studies :
       /\ files'[s].result \in {files[s].result, Torn(files[s].result)}
       /\ files'[s].trials \in {files[s].trials, Torn(files[s].trials)}
  /\ \A q \in Processes \ {r} : work'[q] = work[q]
  /\ work'[r].pc \notin RunStages
  /\ work'[r].pc # "idle" =>
       /\ work[r].pc \in {"searched", "writing", "written", "freezing",
                          "frozen", "opening"}
       /\ work'[r].study = work[r].study
       /\ work'[r].inputs = work[r].inputs
       /\ work'[r].seen = work[r].seen

LEMMA QuietRaise ==
  ASSUME WellFormed, NEW r \in Processes, Raise(r),
         UNCHANGED <<registry, optuna, files>>
  PROVE  QuietStep(r)
  BY DEF WellFormed, TypeOK, Raise, AtRest, RunStages, QuietStep

LEMMA QuietStage ==
  ASSUME WellFormed, NEW r \in Processes, NEW pc, Stage(r, pc),
         UNCHANGED <<registry, optuna, files>>,
         pc \in {"writing", "written", "frozen", "opening", "holdout"},
         work[r].pc \in {"searched", "writing", "written", "freezing", "frozen",
                         "opening"}
  PROVE  QuietStep(r)
<1>1. work[r] \in Work /\ work \in [Processes -> Work]
  BY DEF WellFormed, TypeOK
<1>2. /\ work'[r].pc = pc /\ work'[r].study = work[r].study
      /\ work'[r].inputs = work[r].inputs /\ work'[r].seen = work[r].seen
      /\ \A q \in Processes \ {r} : work'[q] = work[q]
  BY <1>1 DEF Stage, Work
<1> QED BY <1>2 DEF QuietStep, RunStages

(* Every step is the start of a search, a step of a study, or quiet. *)
LEMMA StepKinds ==
  ASSUME WellFormed, Next
  PROVE  \E r \in Processes :
           \/ \E p \in Protocols : StartSearch(r, p)
           \/ StudyStep(r) /\ UNCHANGED <<dir, ghosts>>
           \/ QuietStep(r)
<1> PICK r \in Processes :
      \/ \E p \in Protocols : StartSearch(r, p)
      \/ SearchStep(r)
      \/ CheckSearch(r) \/ SearchRefused(r) \/ WriteSearch(r)
      \/ CheckFrozen(r) \/ FreezeRefused(r) \/ WriteFrozen(r) \/ Leave(r)
      \/ CheckHoldout(r) \/ HoldoutRefused(r) \/ OpenHoldout(r)
      \/ HoldoutEvaluated(r) \/ HoldoutFailed(r)
      \/ Kill(r) \/ KillWritingStudy(r) \/ KillWritingDir(r)
  BY DEF Next
<1>1. /\ work[r] \in Work /\ work \in [Processes -> Work]
      /\ files \in [Studies -> [result : File, trials : File]]
  BY DEF WellFormed, TypeOK
<1>2. CASE SearchStep(r)
  <2>1. CASE RegisterRefused(r) \/ ResultFileRefused(r) \/ TrialsFileRefused(r)
    <3>1. Raise(r) /\ UNCHANGED <<registry, optuna, files>>
      BY <2>1 DEF RegisterRefused, ResultFileRefused, TrialsFileRefused, studyVars
    <3> QED BY <3>1, QuietRaise
  <2>2. CASE StudyStep(r)
    BY <1>2, <2>2 DEF SearchStep
  <2> QED BY <1>2, <2>1, <2>2 DEF SearchStep, RunStep, StudyStep
<1>3. CASE SearchRefused(r) \/ FreezeRefused(r) \/ Leave(r) \/ HoldoutRefused(r)
           \/ HoldoutEvaluated(r) \/ HoldoutFailed(r)
  <2>1. Raise(r) /\ UNCHANGED <<registry, optuna, files>>
    BY <1>3 DEF SearchRefused, FreezeRefused, Leave, HoldoutRefused,
                HoldoutEvaluated, HoldoutFailed
  <2> QED BY <2>1, QuietRaise
<1>4. CASE CheckSearch(r) \/ WriteSearch(r) \/ WriteFrozen(r)
           \/ CheckHoldout(r) \/ OpenHoldout(r)
  BY <1>4, QuietStage DEF CheckSearch, WriteSearch, WriteFrozen, Freezing,
                          CheckHoldout, OpenHoldout, Opening
<1>5. CASE CheckFrozen(r)
  <2>1. PICK c \in Candidates : FreezeNew(r, c) \/ FrozenBefore(r, c)
    BY <1>5, CandidateType DEF CheckFrozen
  <2>2. PICK pc \in {"freezing", "frozen"} :
          work' = [work EXCEPT ![r] = [work[r] EXCEPT !.pc = pc, !.candidate = c]]
    BY <2>1 DEF FreezeNew, FrozenBefore
  <2>3. /\ work'[r].pc = pc /\ work'[r].study = work[r].study
        /\ work'[r].inputs = work[r].inputs /\ work'[r].seen = work[r].seen
        /\ \A q \in Processes \ {r} : work'[q] = work[q]
    BY <1>1, <2>2 DEF Work
  <2>4. UNCHANGED <<registry, optuna, files>>
    BY <2>1 DEF FreezeNew, FrozenBefore
  <2> QED BY <1>5, <2>3, <2>4 DEF CheckFrozen, QuietStep, RunStages
<1>6. CASE Kill(r) \/ KillWritingDir(r)
  <2>1. Raise(r) /\ UNCHANGED <<registry, optuna, files>>
    BY <1>6 DEF Kill, KillWritingDir, Dies
  <2> QED BY <2>1, QuietRaise
<1>7. CASE KillWritingStudy(r)
  <2>1. Raise(r) /\ UNCHANGED <<registry, optuna>>
    BY <1>7 DEF KillWritingStudy, Dies
  <2>2. \A s \in Studies :
          /\ files'[s].result \in {files[s].result, Torn(files[s].result)}
          /\ files'[s].trials \in {files[s].trials, Torn(files[s].trials)}
    <3> DEFINE t == work[r].study
    <3>1. t \in Studies
      BY <1>1 DEF Work
    <3>2. \/ files' = [files EXCEPT ![t] =
                         [files[t] EXCEPT !.result = Torn(files[t].result)]]
          \/ files' = [files EXCEPT ![t] =
                         [files[t] EXCEPT !.trials = Torn(files[t].trials)]]
      BY <1>1, <1>7, <3>1 DEF KillWritingStudy
    <3>3. \A s \in Studies : files[s] \in [result : File, trials : File]
      BY <1>1
    <3> HIDE DEF t
    <3> QED BY <1>1, <3>1, <3>2, <3>3
  <2>3. work'[r] = AtRest /\ \A q \in Processes \ {r} : work'[q] = work[q]
    BY <1>1, <2>1 DEF Raise
  <2>4. AtRest.pc = "idle" /\ "idle" \notin RunStages
    BY DEF AtRest, RunStages
  <2> QED BY <2>1, <2>2, <2>3, <2>4 DEF QuietStep
<1> QED BY <1>2, <1>3, <1>4, <1>5, <1>6, <1>7

-----------------------------------------------------------------------------
(* One protocol, one budget.  The count of completed trials is kept below    *)
(* the budget by what the process at work still means to ask for.            *)

OneSearch ==
  \A q, r \in Processes : Searching(q) /\ Searching(r) => q = r

UntouchedIsEmpty ==
  \A s \in Studies :
    registry[s].inputs = NoProtocol => optuna[s].trials = <<>>

Planned(r) == work[r].remaining + (IF work[r].pc = "evaluate" THEN 1 ELSE 0)

PlanFitsBudget ==
  \A r \in Processes :
    work[r].pc \in {"trials", "evaluate"} =>
      Cardinality(Completed(optuna[work[r].study].trials)) + Planned(r)
        <= MaxTrials[work[r].inputs]

Accounted ==
  /\ OneSearch
  /\ OneProtocolPerStudy
  /\ UntouchedIsEmpty
  /\ BudgetKept
  /\ PlanFitsBudget

LEMMA CompletedEmpty == Cardinality(Completed(<<>>)) = 0
<1>1. Completed(<<>>) = {}
  BY DEF Completed
<1> QED BY <1>1, FS_EmptySet

LEMMA CompletedAsked ==
  ASSUME NEW trials \in Seq(Trial)
  PROVE  Completed(Append(trials, RunningTrial)) = Completed(trials)
<1>1. DOMAIN Append(trials, RunningTrial) = 1 .. Len(trials) + 1
  OBVIOUS
<1>2. \A n \in 1 .. Len(trials) : Append(trials, RunningTrial)[n] = trials[n]
  OBVIOUS
<1>3. Append(trials, RunningTrial)[Len(trials) + 1] = RunningTrial
  OBVIOUS
<1>4. RunningTrial.state = "RUNNING"
  BY DEF RunningTrial
<1>5. DOMAIN trials = 1 .. Len(trials) /\ Len(trials) \in Nat
  OBVIOUS
<1> QED BY <1>1, <1>2, <1>3, <1>4, <1>5 DEF Completed

LEMMA CompletedTold ==
  ASSUME NEW trials \in Seq(Trial), NEW outcome \in Trial
  PROVE  Cardinality(Completed([trials EXCEPT ![Len(trials)] = outcome]))
           <= Cardinality(Completed(trials)) + 1
<1> DEFINE told == [trials EXCEPT ![Len(trials)] = outcome]
           before == Completed(trials)
<1>1. told \in Seq(Trial) /\ Len(told) = Len(trials)
  BY LastReplaced
<1>2. \A n \in 1 .. Len(trials) - 1 : told[n] = trials[n]
  BY LastReplaced
<1>3. Completed(told) \subseteq before \cup {Len(trials)}
  <2> HIDE DEF told
  <2> QED BY <1>1, <1>2 DEF Completed
<1>4. IsFiniteSet(before) /\ Cardinality(before) \in Nat
  BY ResultType
<1>5. /\ IsFiniteSet(before \cup {Len(trials)})
      /\ Cardinality(before \cup {Len(trials)}) <= Cardinality(before) + 1
  <2> DEFINE last == Len(trials)
  <2> HIDE DEF before, last
  <2>1. /\ IsFiniteSet(before \cup {last})
        /\ Cardinality(before \cup {last})
             = IF last \in before THEN Cardinality(before)
               ELSE Cardinality(before) + 1
    BY <1>4, FS_AddElement, Zenon
  <2>2. Cardinality(before \cup {last}) <= Cardinality(before) + 1
    BY <1>4, <2>1
  <2> QED BY <2>1, <2>2 DEF last
<1>6. /\ Cardinality(Completed(told)) <= Cardinality(before \cup {Len(trials)})
      /\ Cardinality(Completed(told)) \in Nat
      /\ Cardinality(before \cup {Len(trials)}) \in Nat
  <2> HIDE DEF told, before
  <2> QED BY <1>3, <1>5, FS_Subset, FS_CardinalityType
<1> HIDE DEF told, before
<1>7. Cardinality(Completed(told)) <= Cardinality(before) + 1
  BY <1>4, <1>5, <1>6
<1> QED BY <1>7 DEF told, before

(* A quiet step leaves the accounts as they are. *)
LEMMA QuietAccounted ==
  ASSUME WellFormed, Accounted, NEW r \in Processes, QuietStep(r)
  PROVE  Accounted'
<1>1. \A q \in Processes : Searching(q)' => Searching(q) /\ work'[q] = work[q]
  BY DEF QuietStep, Searching
<1>2. \A q \in Processes :
        work'[q].pc \notin {"idle", "register"} =>
          /\ work[q].pc \notin {"idle", "register"}
          /\ work'[q].study = work[q].study /\ work'[q].inputs = work[q].inputs
  BY <1>1 DEF QuietStep, RunStages
<1>3. OneSearch'
  BY <1>1 DEF Accounted, OneSearch
<1>4. OneProtocolPerStudy'
  BY <1>2 DEF Accounted, OneProtocolPerStudy, QuietStep
<1>5. UntouchedIsEmpty' /\ BudgetKept'
  BY DEF Accounted, UntouchedIsEmpty, BudgetKept, QuietStep
<1>6. PlanFitsBudget'
  <2> SUFFICES ASSUME NEW q \in Processes, work'[q].pc \in {"trials", "evaluate"}
               PROVE  (Cardinality(Completed(optuna[work[q].study].trials))
                         + Planned(q) <= MaxTrials[work[q].inputs])'
    BY DEF PlanFitsBudget
  <2>1. work'[q] = work[q] /\ optuna' = optuna
    BY <1>1 DEF Searching, RunStages, QuietStep
  <2> QED BY <2>1 DEF Accounted, PlanFitsBudget, Planned
<1> QED BY <1>3, <1>4, <1>5, <1>6 DEF Accounted

LEMMA StartAccounted ==
  ASSUME WellFormed, Accounted, NEW r \in Processes, NEW p \in Protocols,
         StartSearch(r, p)
  PROVE  Accounted'
<1>1. /\ work'[r].pc = "register"
      /\ \A q \in Processes \ {r} : work'[q] = work[q] /\ ~Searching(q)
  BY DEF StartSearch, Enter, AtRest, WellFormed, TypeOK
<1>2. OneSearch'
  BY <1>1 DEF OneSearch, Searching
<1>3. OneProtocolPerStudy'
  BY <1>1 DEF Accounted, OneProtocolPerStudy, StartSearch
<1>4. UntouchedIsEmpty' /\ BudgetKept'
  BY DEF Accounted, UntouchedIsEmpty, BudgetKept, StartSearch
<1>5. PlanFitsBudget'
  BY <1>1 DEF PlanFitsBudget, Searching, RunStages
<1> QED BY <1>2, <1>3, <1>4, <1>5 DEF Accounted

(* The process of a step after it. *)
LEMMA StageFields ==
  ASSUME WellFormed, NEW r \in Processes, NEW pc, Stage(r, pc)
  PROVE  /\ work'[r].pc = pc
         /\ work'[r].study = work[r].study
         /\ work'[r].inputs = work[r].inputs
         /\ work'[r].remaining = work[r].remaining
         /\ work'[r].seen = work[r].seen
         /\ \A q \in Processes \ {r} : work'[q] = work[q]
<1>1. work[r] \in Work /\ work \in [Processes -> Work]
  BY DEF WellFormed, TypeOK
<1> QED BY <1>1 DEF Stage, Work

(* What the accounts need to know of a step of a study: the stage it was in, *)
(* what becomes of the process, and that nobody else moves.                  *)
LEMMA StudyStepFrame ==
  ASSUME WellFormed, NEW r \in Processes, StudyStep(r)
  PROVE  /\ Searching(r) /\ work[r].pc # "idle"
         /\ work[r].study \in Studies /\ work[r].inputs \in Protocols
         /\ \A q \in Processes \ {r} : work'[q] = work[q]
         /\ work'[r].inputs = work[r].inputs
         /\ work'[r].pc # "register" => work'[r].study = work[r].study
         /\ work'[r].pc # "idle"
         /\ work'[r].pc \in RunStages \cup {"searched"}
<1>1. work[r] \in Work /\ work \in [Processes -> Work]
  BY DEF WellFormed, TypeOK
<1>2. Searching(r) /\ work[r].pc # "idle"
  BY DEF StudyStep, RegisterStart, OpenStudy, AskTrial, TrialEvaluated,
         TrialRaised, StopTrials, WriteResultFile, WriteTrialsFile,
         RegisterComplete, Searching, RunStages
<1>3. work[r].study \in Studies /\ work[r].inputs \in Protocols
  BY <1>1, <1>2 DEF Work, WellFormed, Asked
<1>4. CASE \E pc \in {"open", "trials", "trials_file", "complete", "searched"} :
             Stage(r, pc)
  BY <1>2, <1>3, <1>4, StageFields DEF RunStages
<1>5. CASE OpenStudy(r)
  BY <1>1, <1>2, <1>3, <1>5 DEF OpenStudy, Work, RunStages
<1>6. CASE AskTrial(r)
  BY <1>1, <1>2, <1>3, <1>6 DEF AskTrial, Work, RunStages
<1>7. CASE StopTrials(r)
  BY <1>1, <1>2, <1>3, <1>7 DEF StopTrials, Work, RunStages
<1>8. CASE Enter(r, work[r].inputs, "challenger", work[r].search)
  <2>1. work'[r].pc = "register" /\ work'[r].inputs = work[r].inputs
    BY <1>1, <1>8 DEF Enter, AtRest
  <2>2. \A q \in Processes \ {r} : work'[q] = work[q]
    BY <1>1, <1>8 DEF Enter
  <2> QED BY <1>2, <1>3, <2>1, <2>2 DEF RunStages
<1>9. CASE TrialEvaluated(r) \/ TrialRaised(r)
  BY <1>4, <1>9 DEF TrialEvaluated, TrialRaised, TellTrial
<1>10. CASE RegisterStart(r) \/ WriteResultFile(r) \/ WriteTrialsFile(r)
  BY <1>4, <1>10 DEF RegisterStart, WriteResultFile, WriteTrialsFile
<1>11. CASE RegisterComplete(r)
  BY <1>4, <1>8, <1>11 DEF RegisterComplete
<1> QED BY <1>5, <1>6, <1>7, <1>9, <1>10, <1>11 DEF StudyStep

(* The databases in a step of a study. *)
LEMMA StudyStepStores ==
  ASSUME WellFormed, NEW r \in Processes, StudyStep(r)
  PROVE  /\ \A s \in Studies : s # work[r].study =>
              registry'[s] = registry[s] /\ optuna'[s] = optuna[s]
                /\ files'[s] = files[s]
         /\ \A s \in Studies : registry'[s].inputs =
              IF RegisterStart(r) /\ s = work[r].study
              THEN work[r].inputs ELSE registry[s].inputs
         /\ OpenStudy(r) =>
              /\ optuna'[work[r].study].inputs = work[r].inputs
              /\ optuna'[work[r].study].trials = optuna[work[r].study].trials
         /\ ~OpenStudy(r) =>
              \A s \in Studies : optuna'[s].inputs = optuna[s].inputs
<1> DEFINE s == work[r].study
<1>1. /\ registry \in [Studies -> Row]
      /\ optuna \in [Studies -> [inputs : Protocol, trials : Seq(Trial)]]
      /\ files \in [Studies -> [result : File, trials : File]]
  BY DEF WellFormed, TypeOK, Row, Protocol
<1>2. s \in Studies
  BY StudyStepFrame
<1>3. CASE RegisterStart(r)
  <2>1. /\ registry' = [registry EXCEPT ![s] =
                          [registry[s] EXCEPT !.inputs = work[r].inputs,
                                              !.status = "running"]]
        /\ UNCHANGED <<optuna, files>> /\ work[r].pc = "register"
    BY <1>3 DEF RegisterStart
  <2>2. ~OpenStudy(r)
    BY <2>1 DEF OpenStudy
  <2> HIDE DEF s
  <2>3. registry[s] \in Row
    BY <1>1, <1>2
  <2>4. registry'[s].inputs = work[r].inputs
    BY <1>1, <1>2, <2>1, <2>3 DEF Row
  <2>5. \A t \in Studies : t # s => registry'[t] = registry[t]
    BY <1>1, <1>2, <2>1
  <2> QED BY <1>3, <2>1, <2>2, <2>4, <2>5 DEF s
<1>4. CASE RegisterComplete(r)
  <2>1. /\ registry' = [registry EXCEPT ![s] =
                          [registry[s] EXCEPT
                             !.status = "complete",
                             !.completed =
                               Result(work[r].seen, work[r].inputs).completed,
                             !.candidates =
                               Result(work[r].seen, work[r].inputs).candidates]]
        /\ UNCHANGED <<optuna, files>> /\ work[r].pc = "complete"
    BY <1>4 DEF RegisterComplete, CompletedRow
  <2>2. ~OpenStudy(r) /\ ~RegisterStart(r)
    BY <2>1 DEF OpenStudy, RegisterStart
  <2> HIDE DEF s
  <2>3. registry[s] \in Row
    BY <1>1, <1>2
  <2>4. registry'[s].inputs = registry[s].inputs
    BY <1>1, <1>2, <2>1, <2>3 DEF Row
  <2>5. \A t \in Studies : t # s => registry'[t] = registry[t]
    BY <1>1, <1>2, <2>1
  <2> QED BY <2>1, <2>2, <2>4, <2>5 DEF s
<1>5. CASE OpenStudy(r)
  <2>1. /\ optuna' = [optuna EXCEPT ![s].inputs = work[r].inputs]
        /\ UNCHANGED <<registry, files>> /\ ~RegisterStart(r)
    BY <1>5 DEF OpenStudy, RegisterStart
  <2> HIDE DEF s
  <2>2. optuna[s] \in [inputs : Protocol, trials : Seq(Trial)]
    BY <1>1, <1>2
  <2>3. /\ optuna'[s].inputs = work[r].inputs
        /\ optuna'[s].trials = optuna[s].trials
        /\ \A t \in Studies : t # s => optuna'[t] = optuna[t]
    BY <1>1, <1>2, <2>1, <2>2
  <2> QED BY <1>5, <2>1, <2>3 DEF s
<1>6. ASSUME NEW history,
             optuna' = [optuna EXCEPT ![s].trials = history]
      PROVE  /\ \A t \in Studies : t # s => optuna'[t] = optuna[t]
             /\ \A t \in Studies : optuna'[t].inputs = optuna[t].inputs
  <2> HIDE DEF s
  <2>1. optuna[s] \in [inputs : Protocol, trials : Seq(Trial)]
    BY <1>1, <1>2
  <2> QED BY <1>1, <1>2, <1>6, <2>1
<1>7. CASE AskTrial(r)
  <2>1. \E h : optuna' = [optuna EXCEPT ![s].trials = h]
    BY <1>1, <1>2, <1>7 DEF AskTrial
  <2>2. /\ UNCHANGED <<registry, files>> /\ ~RegisterStart(r) /\ ~OpenStudy(r)
    BY <1>7 DEF AskTrial, RegisterStart, OpenStudy
  <2> QED BY <1>6, <2>1, <2>2
<1>8. CASE TrialEvaluated(r) \/ TrialRaised(r)
  <2>1. \E h : optuna' = [optuna EXCEPT ![s].trials = h]
    BY <1>1, <1>2, <1>8 DEF TrialEvaluated, TrialRaised, TellTrial
  <2>2. /\ UNCHANGED <<registry, files>> /\ ~RegisterStart(r) /\ ~OpenStudy(r)
    BY <1>8 DEF TrialEvaluated, TrialRaised, TellTrial, RegisterStart, OpenStudy
  <2> QED BY <1>6, <2>1, <2>2
<1>9. CASE StopTrials(r)
  BY <1>9 DEF StopTrials, studyVars, RegisterStart, OpenStudy
<1>10. CASE WriteResultFile(r) \/ WriteTrialsFile(r)
  <2>1. /\ \E f : \/ files' = [files EXCEPT ![s].result = f]
                  \/ files' = [files EXCEPT ![s].trials = f]
        /\ UNCHANGED <<registry, optuna>> /\ ~RegisterStart(r) /\ ~OpenStudy(r)
    BY <1>1, <1>2, <1>10
       DEF WriteResultFile, WriteTrialsFile, RegisterStart, OpenStudy
  <2>2. \A t \in Studies : t # s => files'[t] = files[t]
    <3> HIDE DEF s
    <3> QED BY <1>1, <1>2, <2>1
  <2> QED BY <2>1, <2>2
<1> QED BY <1>3, <1>4, <1>5, <1>7, <1>8, <1>9, <1>10 DEF StudyStep

LEMMA StudyAccounted ==
  ASSUME WellFormed, Accounted, NEW r \in Processes, StudyStep(r)
  PROVE  Accounted'
<1> DEFINE s == work[r].study
           p == work[r].inputs
           Count(t) == Cardinality(Completed(t))
<1>1. /\ work[r] \in Work /\ work \in [Processes -> Work]
      /\ registry \in [Studies -> Row]
      /\ optuna \in [Studies -> [inputs : Protocol, trials : Seq(Trial)]]
  BY DEF WellFormed, TypeOK, Row, Protocol
<1>2. /\ Searching(r) /\ work[r].pc # "idle" /\ s \in Studies /\ p \in Protocols
      /\ \A q \in Processes \ {r} : work'[q] = work[q] /\ ~Searching(q)
      /\ p # NoProtocol
  BY StudyStepFrame, StudyAssumption DEF Accounted, OneSearch
<1>3. MaxTrials[p] \in Nat
  BY <1>2, StudyAssumption
<1>4. Count(optuna[s].trials) \in Nat
  BY <1>1, <1>2, ResultType
<1>5. OneSearch'
  BY <1>2 DEF OneSearch, Searching
<1>6. registry[s].inputs \in {NoProtocol, p}
  <2>1. CASE RegisterStart(r)
    BY <2>1 DEF RegisterStart
  <2>2. CASE ~RegisterStart(r)
    <3>1. work[r].pc # "register"
      BY <2>2 DEF StudyStep, OpenStudy, AskTrial, TrialEvaluated, TrialRaised,
                  StopTrials, WriteResultFile, WriteTrialsFile, RegisterComplete
    <3> QED BY <1>2, <3>1 DEF Accounted, OneProtocolPerStudy
  <2> QED BY <2>1, <2>2
<1>7. ~RegisterStart(r) => registry[s].inputs = p
  <2>1. ~RegisterStart(r) => work[r].pc # "register"
    BY DEF StudyStep, OpenStudy, AskTrial, TrialEvaluated, TrialRaised,
           StopTrials, WriteResultFile, WriteTrialsFile, RegisterComplete
  <2> QED BY <1>2, <2>1 DEF Accounted, OneProtocolPerStudy
<1>8. /\ registry'[s].inputs = p
      /\ \A t \in Studies : t # s => registry'[t].inputs = registry[t].inputs
  BY <1>2, <1>7, StudyStepStores
<1>9. OneProtocolPerStudy'
  <2>1. ASSUME NEW t \in Studies
        PROVE  optuna'[t].inputs \in {NoProtocol, registry'[t].inputs}
    <3>1. CASE t # s
      BY <3>1, StudyStepStores DEF Accounted, OneProtocolPerStudy
    <3>2. CASE t = s
      <4>1. optuna[s].inputs \in {NoProtocol, p}
        BY <1>2, <1>6 DEF Accounted, OneProtocolPerStudy
      <4> QED BY <1>2, <1>8, <3>2, <4>1, StudyStepStores
    <3> QED BY <3>1, <3>2
  <2>2. ASSUME NEW q \in Processes, work'[q].pc \notin {"idle", "register"}
        PROVE  registry'[work'[q].study].inputs = work'[q].inputs
    <3>1. CASE q = r
      BY <1>2, <1>8, <2>2, <3>1, StudyStepFrame
    <3>2. CASE q # r
      <4>1. /\ work'[q] = work[q] /\ work[q] \in Work
            /\ work[q].study \in Studies
        BY <1>1, <1>2, <3>2 DEF Work
      <4>2. registry[work[q].study].inputs = work[q].inputs
        BY <2>2, <4>1 DEF Accounted, OneProtocolPerStudy
      <4>3. work[q].inputs \in Protocols /\ work[q].inputs # NoProtocol
        BY <2>2, <4>1, StudyAssumption DEF WellFormed, Asked
      <4>4. work[q].study = s => work[q].inputs = p
        BY <1>6, <4>2, <4>3
      <4> QED BY <1>8, <4>1, <4>2, <4>4
    <3> QED BY <3>1, <3>2
  <2> QED BY <2>1, <2>2 DEF OneProtocolPerStudy
<1>10. \A t \in Studies : t # s => optuna'[t] = optuna[t]
  BY StudyStepStores
<1>11. UntouchedIsEmpty'
  BY <1>2, <1>8, <1>10 DEF Accounted, UntouchedIsEmpty
<1>12. work'[r].inputs = p /\ (work'[r].pc # "register" => work'[r].study = s)
  BY StudyStepFrame
<1>13. ASSUME Count(optuna'[s].trials) <= MaxTrials[p],
              work'[r].pc \in {"trials", "evaluate"} =>
                Count(optuna'[s].trials) + Planned(r)' <= MaxTrials[p]
       PROVE  BudgetKept' /\ PlanFitsBudget'
  <2>1. BudgetKept'
    BY <1>8, <1>10, <1>13 DEF Accounted, BudgetKept
  <2>2. PlanFitsBudget'
    BY <1>2, <1>12, <1>13 DEF PlanFitsBudget, Searching, RunStages
  <2> QED BY <2>1, <2>2
<1>14. Count(optuna[s].trials) <= MaxTrials[p]
  <2>1. CASE registry[s].inputs = NoProtocol
    BY <1>2, <1>3, <2>1, CompletedEmpty DEF Accounted, UntouchedIsEmpty
  <2>2. CASE registry[s].inputs = p
    BY <1>2, <2>2 DEF Accounted, BudgetKept
  <2> QED BY <1>6, <2>1, <2>2
<1>15. work[r].pc \in {"trials", "evaluate"} =>
         Count(optuna[s].trials) + Planned(r) <= MaxTrials[p]
  BY DEF Accounted, PlanFitsBudget
<1>16. work[r].remaining \in Nat
  BY <1>1 DEF Work
<1> HIDE DEF Count
<1>17. BudgetKept' /\ PlanFitsBudget'
  <2>1. CASE OpenStudy(r)
    <3> DEFINE left == MaxTrials[p] - Count(optuna[s].trials)
    <3>1. /\ work'[r].pc = "trials"
          /\ work'[r].remaining = IF left > 0 THEN left ELSE 0
      BY <1>1, <2>1 DEF OpenStudy, Work, Count
    <3>2. optuna'[s].trials = optuna[s].trials
      BY <2>1, StudyStepStores
    <3>3. Planned(r)' = IF left > 0 THEN left ELSE 0
      BY <1>3, <1>4, <3>1 DEF Planned
    <3> QED BY <1>3, <1>4, <1>13, <1>14, <3>2, <3>3
  <2>2. CASE AskTrial(r)
    <3>1. /\ work'[r].pc = "evaluate"
          /\ work'[r].remaining = work[r].remaining - 1
          /\ work[r].pc = "trials"
      BY <1>1, <2>2 DEF AskTrial, Work
    <3>2. optuna'[s].trials = Append(optuna[s].trials, RunningTrial)
      BY <1>1, <1>2, <2>2 DEF AskTrial
    <3>3. Count(optuna'[s].trials) = Count(optuna[s].trials)
      BY <1>1, <1>2, <3>2, CompletedAsked DEF Count
    <3>4. Planned(r)' = Planned(r)
      BY <1>16, <3>1 DEF Planned
    <3> QED BY <1>13, <1>14, <1>15, <3>1, <3>3, <3>4
  <2>3. CASE TrialEvaluated(r) \/ TrialRaised(r)
    <3>1. \E outcome \in Trial : TellTrial(r, outcome)
      <4>1. CASE TrialRaised(r)
        BY <4>1, RecordTypes DEF TrialRaised
      <4>2. CASE TrialEvaluated(r)
        <5>1. PICK e \in Evaluations[p] : TellTrial(r, CompleteTrial(e))
          BY <4>2 DEF TrialEvaluated
        <5>2. e \in [feasible : BOOLEAN, values : Seq(Int)]
          BY <1>2, StudyAssumption
        <5>3. CompleteTrial(e) \in Trial
          BY <5>2 DEF CompleteTrial, Trial
        <5> QED BY <5>1, <5>3
      <4> QED BY <2>3, <4>1, <4>2
    <3>2. PICK outcome \in Trial : TellTrial(r, outcome)
      BY <3>1
    <3>3. work[r].pc = "evaluate"
      BY <2>3 DEF TrialEvaluated, TrialRaised
    <3>4. work'[r].pc = "trials" /\ work'[r].remaining = work[r].remaining
      BY <3>2, StageFields DEF TellTrial
    <3>5. optuna'[s].trials
            = [optuna[s].trials EXCEPT ![Len(optuna[s].trials)] = outcome]
      BY <1>1, <1>2, <3>2 DEF TellTrial
    <3>6. Count(optuna'[s].trials) <= Count(optuna[s].trials) + 1
      BY <1>1, <1>2, <3>5, CompletedTold DEF Count
    <3>7. Planned(r) = work[r].remaining + 1 /\ Planned(r)' = work[r].remaining
      BY <1>16, <3>3, <3>4 DEF Planned
    <3>8. optuna'[s].trials \in Seq(Trial)
      BY <1>1, <1>2, <3>5, LastReplaced
    <3>9. Count(optuna'[s].trials) \in Nat
      BY <3>8, ResultType DEF Count
    <3> QED BY <1>3, <1>4, <1>13, <1>15, <1>16, <3>3, <3>6, <3>7, <3>9
  <2>4. ASSUME UNCHANGED optuna, work'[r].pc \notin {"trials", "evaluate"}
        PROVE  BudgetKept' /\ PlanFitsBudget'
    BY <1>13, <1>14, <2>4
  <2>5. CASE StopTrials(r)
    <3>1. work'[r].pc = "result_file"
      BY <1>1, <2>5 DEF StopTrials, Work
    <3> QED BY <2>4, <2>5, <3>1 DEF StopTrials, studyVars
  <2>6. CASE RegisterStart(r) \/ WriteResultFile(r) \/ WriteTrialsFile(r)
    <3>1. work'[r].pc \in {"open", "trials_file", "complete"}
      BY <2>6, StageFields DEF RegisterStart, WriteResultFile, WriteTrialsFile
    <3> QED BY <2>4, <2>6, <3>1
            DEF RegisterStart, WriteResultFile, WriteTrialsFile
  <2>7. CASE RegisterComplete(r)
    <3>1. CASE Stage(r, "searched")
      BY <2>4, <2>7, <3>1, StageFields DEF RegisterComplete
    <3>2. CASE Enter(r, work[r].inputs, "challenger", work[r].search)
      <4>1. work'[r].pc = "register"
        BY <1>1, <3>2 DEF Enter, AtRest
      <4> QED BY <2>4, <2>7, <4>1 DEF RegisterComplete
    <3> QED BY <2>7, <3>1, <3>2 DEF RegisterComplete
  <2> QED BY <2>1, <2>2, <2>3, <2>5, <2>6, <2>7 DEF StudyStep
<1> QED BY <1>5, <1>9, <1>11, <1>17 DEF Accounted

LEMMA AccountedInit == Init => Accounted
<1> SUFFICES ASSUME Init PROVE Accounted
  OBVIOUS
<1>1. /\ \A r \in Processes : work[r].pc = "idle"
      /\ \A s \in Studies : /\ registry[s].inputs = NoProtocol
                            /\ optuna[s].inputs = NoProtocol
                            /\ optuna[s].trials = <<>>
  BY DEF Init, StudyInit, AtRest, NoRow
<1>2. NoProtocol \notin Protocols
  BY StudyAssumption
<1> QED BY <1>1, <1>2 DEF Accounted, OneSearch, OneProtocolPerStudy, BudgetKept,
           UntouchedIsEmpty, PlanFitsBudget, Searching, RunStages

LEMMA AccountedStep == WellFormed /\ Accounted /\ [Next]_vars => Accounted'
<1> SUFFICES ASSUME WellFormed, Accounted, [Next]_vars PROVE Accounted'
  OBVIOUS
<1>1. CASE Next
  BY <1>1, StepKinds, StartAccounted, StudyAccounted, QuietAccounted
<1>2. CASE UNCHANGED vars
  BY <1>2 DEF vars, Accounted, OneSearch, OneProtocolPerStudy, BudgetKept,
              UntouchedIsEmpty, PlanFitsBudget, Searching, Planned
<1> QED BY <1>1, <1>2

(* However often searches are started and killed, no study completes more    *)
(* trials than its budget has.                                               *)
THEOREM SearchKeepsBudget == Spec => []BudgetKept
<1>1. Init => WellFormed /\ Accounted
  BY InitType, AccountedInit DEF WellFormed, Asked, Init, StudyInit, AtRest
<1>2. WellFormed /\ Accounted /\ [Next]_vars => (WellFormed /\ Accounted)'
  BY TypeStep, AccountedStep
<1>3. WellFormed /\ Accounted => BudgetKept
  BY DEF Accounted
<1> QED BY <1>1, <1>2, <1>3, PTL DEF Spec

(* One study id never mixes two protocols. *)
THEOREM SearchKeepsProtocol == Spec => []OneProtocolPerStudy
<1>1. Init => WellFormed /\ Accounted
  BY InitType, AccountedInit DEF WellFormed, Asked, Init, StudyInit, AtRest
<1>2. WellFormed /\ Accounted /\ [Next]_vars => (WellFormed /\ Accounted)'
  BY TypeStep, AccountedStep
<1>3. WellFormed /\ Accounted => OneProtocolPerStudy
  BY DEF Accounted
<1> QED BY <1>1, <1>2, <1>3, PTL DEF Spec

-----------------------------------------------------------------------------
(* What is published.  Every file holds a beginning of the study's history,  *)
(* so that files and memory that say the same are the same.                  *)

Begins(h, trials) ==
  /\ Len(h) <= Len(trials)
  /\ \A n \in 1 .. Len(h) : h[n] = trials[n]

FilesBegin ==
  \A s \in Studies :
    /\ Begins(files[s].result.of, optuna[s].trials)
    /\ Begins(files[s].trials.of, optuna[s].trials)

(* The trial under evaluation is in no file yet. *)
EvaluatedIsNew ==
  \A r \in Processes :
    work[r].pc = "evaluate" =>
      LET s == work[r].study
      IN /\ Len(files[s].result.of) < Len(optuna[s].trials)
         /\ Len(files[s].trials.of) < Len(optuna[s].trials)

(* What a run has written so far, stage by stage. *)
ReportsHistory ==
  \A r \in Processes :
    work[r].pc \in {"result_file", "trials_file", "complete"} =>
      work[r].seen = optuna[work[r].study].trials

ResultIsOut ==
  \A r \in Processes :
    work[r].pc \notin {"idle", "register", "open", "trials", "evaluate",
                       "result_file"} =>
      SaysTheSame(files[work[r].study].result, work[r].seen, work[r].inputs)

TrialsAreOut ==
  \A r \in Processes :
    work[r].pc \notin {"idle", "register", "open", "trials", "evaluate",
                       "result_file", "trials_file"} =>
      files[work[r].study].trials = [state |-> "whole", of |-> work[r].seen]

RunsAreRunning ==
  \A r \in Processes :
    Searching(r) /\ work[r].pc # "register" =>
      registry[work[r].study].status = "running"

(* A study nobody asked for has no result. *)
ResultsAreAsked ==
  \A s \in Studies :
    files[s].result.state = "whole" => registry[s].inputs \in Protocols

Recorded ==
  /\ FilesBegin
  /\ EvaluatedIsNew
  /\ ReportsHistory
  /\ ResultIsOut
  /\ TrialsAreOut
  /\ RunsAreRunning
  /\ ResultsAreAsked
  /\ CompleteIsPublished

LEMMA TornKept ==
  ASSUME NEW file \in File
  PROVE  /\ Torn(file).of = file.of
         /\ Torn(file).state = "whole" <=> file.state = "whole"
         /\ file.state = "whole" => Torn(file) = file
  BY DEF Torn, File

(* Histories with one beginning and one length are one. *)
LEMMA SameHistory ==
  ASSUME NEW h \in Seq(Trial), NEW trials \in Seq(Trial),
         Begins(h, trials), Len(h) = Len(trials)
  PROVE  h = trials
  BY SeqEqual DEF Begins

(* A step that tears at most an absent file changes nothing a file says. *)
LEMMA QuietFiles ==
  ASSUME WellFormed, NEW r \in Processes, QuietStep(r), NEW s \in Studies
  PROVE  /\ files'[s].result.of = files[s].result.of
         /\ files'[s].trials.of = files[s].trials.of
         /\ files'[s].result.state = "whole" <=> files[s].result.state = "whole"
         /\ files[s].result.state = "whole" =>
              files'[s].result = files[s].result
         /\ files[s].trials.state = "whole" =>
              files'[s].trials = files[s].trials
<1>1. files[s].result \in File /\ files[s].trials \in File
  BY DEF WellFormed, TypeOK
<1> QED BY <1>1, TornKept DEF QuietStep

LEMMA QuietRecorded ==
  ASSUME WellFormed, Recorded, NEW r \in Processes, QuietStep(r)
  PROVE  Recorded'
<1>1. work \in [Processes -> Work] /\ registry' = registry /\ optuna' = optuna
  BY DEF WellFormed, TypeOK, QuietStep
<1>2. \A q \in Processes : work[q].study \in Studies
  BY <1>1 DEF Work
<1>3. \A q \in Processes : work'[q].pc \in RunStages => work'[q] = work[q]
  BY DEF QuietStep
<1>4. \A q \in Processes :
        work'[q].pc \notin RunStages /\ work'[q].pc # "idle" =>
          /\ work[q].pc \notin RunStages /\ work[q].pc # "idle"
          /\ work'[q].study = work[q].study
          /\ work'[q].inputs = work[q].inputs
          /\ work'[q].seen = work[q].seen
  BY DEF QuietStep, RunStages
<1>5. FilesBegin'
  BY <1>1, QuietFiles DEF Recorded, FilesBegin
<1>6. EvaluatedIsNew'
  BY <1>1, <1>2, <1>3, QuietFiles, SMTT(20) DEF Recorded, EvaluatedIsNew, RunStages
<1>7. ReportsHistory'
  BY <1>1, <1>3 DEF Recorded, ReportsHistory, RunStages
<1>8. RunsAreRunning'
  BY <1>1, <1>3 DEF Recorded, RunsAreRunning, RunStages, Searching
<1>9. ASSUME NEW q \in Processes,
             work'[q].pc \notin {"idle", "register", "open", "trials",
                                 "evaluate", "result_file"}
      PROVE  /\ work[q].pc \notin {"idle", "register", "open", "trials",
                                   "evaluate", "result_file"}
             /\ work'[q].study = work[q].study
             /\ work'[q].inputs = work[q].inputs
             /\ work'[q].seen = work[q].seen
             /\ work'[q].pc # "trials_file" => work[q].pc # "trials_file"
  BY <1>3, <1>4, <1>9 DEF RunStages
<1>10. ResultIsOut'
  <2> SUFFICES ASSUME NEW q \in Processes,
                      work'[q].pc \notin {"idle", "register", "open", "trials",
                                          "evaluate", "result_file"}
               PROVE  SaysTheSame(files[work[q].study].result,
                                  work[q].seen, work[q].inputs)'
    BY DEF ResultIsOut
  <2>1. SaysTheSame(files[work[q].study].result, work[q].seen, work[q].inputs)
    BY <1>9 DEF Recorded, ResultIsOut
  <2>2. files'[work[q].study].result = files[work[q].study].result
    BY <1>2, <2>1, QuietFiles DEF SaysTheSame
  <2> QED BY <1>9, <2>1, <2>2 DEF SaysTheSame
<1>11. TrialsAreOut'
  <2> SUFFICES ASSUME NEW q \in Processes,
                      work'[q].pc \notin {"idle", "register", "open", "trials",
                                          "evaluate", "result_file",
                                          "trials_file"}
               PROVE  files'[work'[q].study].trials
                        = [state |-> "whole", of |-> work'[q].seen]
    BY DEF TrialsAreOut
  <2>1. files[work[q].study].trials = [state |-> "whole", of |-> work[q].seen]
    BY <1>9 DEF Recorded, TrialsAreOut
  <2>2. files'[work[q].study].trials = files[work[q].study].trials
    BY <1>2, <2>1, QuietFiles
  <2> QED BY <1>9, <2>1, <2>2
<1>12. ResultsAreAsked'
  BY <1>1, QuietFiles DEF Recorded, ResultsAreAsked
<1>13. CompleteIsPublished'
  <2> SUFFICES ASSUME NEW s \in Studies, registry'[s].status = "complete"
               PROVE  (/\ files[s].result.state = "whole"
                       /\ files[s].trials = files[s].result
                       /\ LET result == Result(files[s].result.of,
                                               registry[s].inputs)
                          IN /\ registry[s].completed = result.completed
                             /\ registry[s].candidates = result.candidates)'
    BY DEF CompleteIsPublished
  <2>1. /\ files[s].result.state = "whole" /\ files[s].trials = files[s].result
        /\ LET result == Result(files[s].result.of, registry[s].inputs)
           IN /\ registry[s].completed = result.completed
              /\ registry[s].candidates = result.candidates
    BY <1>1 DEF Recorded, CompleteIsPublished
  <2>2. files'[s].result = files[s].result /\ files'[s].trials = files[s].trials
    BY <2>1, QuietFiles
  <2> QED BY <1>1, <2>1, <2>2
<1> QED BY <1>5, <1>6, <1>7, <1>8, <1>10, <1>11, <1>12, <1>13 DEF Recorded

LEMMA StartRecorded ==
  ASSUME WellFormed, Recorded, NEW r \in Processes, NEW p \in Protocols,
         StartSearch(r, p)
  PROVE  Recorded'
<1>1. /\ work'[r].pc = "register" /\ UNCHANGED <<registry, optuna, files>>
      /\ \A q \in Processes \ {r} : work'[q] = work[q]
  BY DEF StartSearch, Enter, AtRest, WellFormed, TypeOK
<1>2. FilesBegin' /\ ResultsAreAsked' /\ CompleteIsPublished'
  BY <1>1 DEF Recorded, FilesBegin, ResultsAreAsked, CompleteIsPublished
<1>3. EvaluatedIsNew' /\ ReportsHistory' /\ RunsAreRunning'
  BY <1>1 DEF Recorded, EvaluatedIsNew, ReportsHistory, RunsAreRunning, Searching
<1>4. ResultIsOut' /\ TrialsAreOut'
  BY <1>1 DEF Recorded, ResultIsOut, TrialsAreOut, SaysTheSame
<1> QED BY <1>2, <1>3, <1>4 DEF Recorded

(* The study of a step has the protocol of the process that takes it. *)
LEMMA StudyStepProtocol ==
  ASSUME WellFormed, Accounted, NEW r \in Processes, StudyStep(r)
  PROVE  /\ registry'[work[r].study].inputs = work[r].inputs
         /\ ~RegisterStart(r) => registry[work[r].study].inputs = work[r].inputs
<1>1. ~RegisterStart(r) => work[r].pc # "register"
  BY DEF StudyStep, OpenStudy, AskTrial, TrialEvaluated, TrialRaised,
         StopTrials, WriteResultFile, WriteTrialsFile, RegisterComplete
<1>2. ~RegisterStart(r) => registry[work[r].study].inputs = work[r].inputs
  BY <1>1, StudyStepFrame DEF Accounted, OneProtocolPerStudy
<1> QED BY <1>2, StudyStepFrame, StudyStepStores

(* What a process has to show after a step, in the new state. *)
Shown(r) ==
  LET s == work[r].study
      mine == files[s]
      trials == optuna[s].trials
  IN /\ work[r].pc = "evaluate" =>
          Len(mine.result.of) < Len(trials) /\ Len(mine.trials.of) < Len(trials)
     /\ work[r].pc \in {"result_file", "trials_file", "complete"} =>
          work[r].seen = trials
     /\ work[r].pc \notin {"idle", "register", "open", "trials", "evaluate",
                           "result_file"} =>
          SaysTheSame(mine.result, work[r].seen, work[r].inputs)
     /\ work[r].pc \notin {"idle", "register", "open", "trials", "evaluate",
                           "result_file", "trials_file"} =>
          mine.trials = [state |-> "whole", of |-> work[r].seen]
     /\ work[r].pc \in RunStages \ {"register"} =>
          registry[s].status = "running"

CompleteHere(s) ==
  registry[s].status = "complete" =>
    /\ files[s].result.state = "whole"
    /\ files[s].trials = files[s].result
    /\ LET result == Result(files[s].result.of, registry[s].inputs)
       IN /\ registry[s].completed = result.completed
          /\ registry[s].candidates = result.candidates

LEMMA RecordedByProcess ==
  Recorded <=> /\ FilesBegin
               /\ \A r \in Processes : Shown(r)
               /\ ResultsAreAsked
               /\ \A s \in Studies : CompleteHere(s)
  BY DEF Recorded, Shown, CompleteHere, EvaluatedIsNew, ReportsHistory,
         ResultIsOut, TrialsAreOut, RunsAreRunning, CompleteIsPublished, Searching

(* Whole files are kept by a step of a study, and the process that took it   *)
(* and its study are all there is to look at.                                *)
LEMMA StudyRecordedHere ==
  ASSUME WellFormed, Accounted, Recorded, NEW r \in Processes, StudyStep(r),
         NEW s \in Studies, s = work[r].study,
         files[s].result.state = "whole" => files'[s].result = files[s].result,
         files[s].trials.state = "whole" => files'[s].trials = files[s].trials,
         Begins(files'[s].result.of, optuna'[s].trials),
         Begins(files'[s].trials.of, optuna'[s].trials),
         CompleteHere(s)', Shown(r)'
  PROVE  Recorded'
<1>1. /\ Searching(r) /\ s \in Studies /\ work[r].inputs \in Protocols
      /\ \A q \in Processes \ {r} : work'[q] = work[q] /\ ~Searching(q)
      /\ work \in [Processes -> Work]
  BY StudyStepFrame DEF Accounted, OneSearch, WellFormed, TypeOK
<1>2. \A t \in Studies : t # s => /\ registry'[t] = registry[t]
                                  /\ optuna'[t] = optuna[t]
                                  /\ files'[t] = files[t]
  BY StudyStepStores
<1>3. \A t \in Studies :
        /\ files[t].result.state = "whole" => files'[t].result = files[t].result
        /\ files[t].trials.state = "whole" => files'[t].trials = files[t].trials
  BY <1>2
<1>4. FilesBegin'
  BY <1>2 DEF Recorded, FilesBegin
<1>5. ResultsAreAsked'
  BY <1>1, <1>2, StudyStepProtocol DEF Recorded, ResultsAreAsked
<1>6. \A t \in Studies : CompleteHere(t)'
  <2> SUFFICES ASSUME NEW t \in Studies PROVE CompleteHere(t)'
    OBVIOUS
  <2>1. CASE t = s
    BY <2>1
  <2>2. CASE t # s
    <3>1. CompleteHere(t)
      BY RecordedByProcess
    <3> QED BY <1>2, <2>2, <3>1 DEF CompleteHere
  <2> QED BY <2>1, <2>2
<1>7. ASSUME NEW q \in Processes \ {r} PROVE Shown(q)'
  <2>1. /\ work'[q] = work[q] /\ work[q].pc \notin RunStages
        /\ work[q].study \in Studies /\ Shown(q)
    BY <1>1, RecordedByProcess DEF Searching, Work
  <2>2. CASE work[q].pc = "idle"
    BY <2>1, <2>2 DEF Shown, RunStages
  <2>3. CASE work[q].pc # "idle"
    <3>1. /\ SaysTheSame(files[work[q].study].result, work[q].seen,
                         work[q].inputs)
          /\ files[work[q].study].trials
               = [state |-> "whole", of |-> work[q].seen]
      BY <2>1, <2>3 DEF Shown, RunStages
    <3>2. /\ files'[work[q].study].result = files[work[q].study].result
          /\ files'[work[q].study].trials = files[work[q].study].trials
      <4>1. files[work[q].study].result.state = "whole"
        BY <3>1 DEF SaysTheSame
      <4>2. files[work[q].study].trials.state = "whole"
        BY <3>1
      <4> QED BY <1>3, <2>1, <4>1, <4>2
    <3> QED BY <2>1, <2>3, <3>1, <3>2 DEF Shown, RunStages, SaysTheSame
  <2> QED BY <2>2, <2>3
<1>8. \A q \in Processes : Shown(q)'
  BY <1>7
<1> QED BY <1>4, <1>5, <1>6, <1>8
        DEF Recorded, Shown, CompleteHere, EvaluatedIsNew, ReportsHistory,
            ResultIsOut, TrialsAreOut, RunsAreRunning, CompleteIsPublished,
            Searching

LEMMA BeginsTypes ==
  ASSUME WellFormed, NEW s \in Studies
  PROVE  /\ files[s].result \in File /\ files[s].trials \in File
         /\ files[s].result.of \in Seq(Trial) /\ files[s].trials.of \in Seq(Trial)
         /\ optuna[s].trials \in Seq(Trial)
         /\ files[s] \in [result : File, trials : File]
         /\ optuna[s] \in [inputs : Protocol, trials : Seq(Trial)]
         /\ registry[s] \in Row
  BY DEF WellFormed, TypeOK, File, Row, Protocol

LEMMA BeginsItself ==
  ASSUME NEW trials \in Seq(Trial)
  PROVE  Begins(trials, trials)
<1>1. Len(trials) \in Nat
  OBVIOUS
<1> QED BY <1>1 DEF Begins

LEMMA BeginsAppended ==
  ASSUME NEW trials \in Seq(Trial), NEW h \in Seq(Trial), Begins(h, trials)
  PROVE  /\ Begins(h, Append(trials, RunningTrial))
         /\ Len(h) < Len(Append(trials, RunningTrial))
<1>1. /\ Len(Append(trials, RunningTrial)) = Len(trials) + 1
      /\ \A n \in 1 .. Len(trials) : Append(trials, RunningTrial)[n] = trials[n]
      /\ Len(h) \in Nat /\ Len(trials) \in Nat
  OBVIOUS
<1> HIDE DEF RunningTrial
<1> QED BY <1>1 DEF Begins

LEMMA BeginsTold ==
  ASSUME NEW trials \in Seq(Trial), NEW h \in Seq(Trial), Begins(h, trials),
         Len(h) < Len(trials), NEW outcome \in Trial
  PROVE  Begins(h, [trials EXCEPT ![Len(trials)] = outcome])
<1> DEFINE told == [trials EXCEPT ![Len(trials)] = outcome]
<1>1. /\ Len(told) = Len(trials)
      /\ \A n \in 1 .. Len(trials) - 1 : told[n] = trials[n]
      /\ Len(h) \in Nat /\ Len(trials) \in Nat
  BY LastReplaced
<1> HIDE DEF told
<1>2. Begins(h, told)
  BY <1>1 DEF Begins
<1> QED BY <1>2 DEF told

LEMMA StudyRecorded ==
  ASSUME WellFormed, Accounted, Recorded, NEW r \in Processes, StudyStep(r),
         NEW s \in Studies, s = work[r].study
  PROVE  Recorded'
<1> DEFINE p == work[r].inputs
           trials == optuna[s].trials
           seen == work[r].seen
<1>1. /\ work[r] \in Work /\ work \in [Processes -> Work]
      /\ registry \in [Studies -> Row]
      /\ optuna \in [Studies -> [inputs : Protocol, trials : Seq(Trial)]]
      /\ files \in [Studies -> [result : File, trials : File]]
  BY DEF WellFormed, TypeOK, Row, Protocol
<1>2. s \in Studies /\ p \in Protocols /\ work'[r].inputs = p
  BY StudyStepFrame
<1>3. /\ files[s].result \in File /\ files[s].trials \in File
      /\ files[s].result.of \in Seq(Trial) /\ files[s].trials.of \in Seq(Trial)
      /\ trials \in Seq(Trial)
      /\ files[s] \in [result : File, trials : File]
      /\ optuna[s] \in [inputs : Protocol, trials : Seq(Trial)]
      /\ registry[s] \in Row
      /\ seen \in Seq(Trial)
  BY <1>1, <1>2, BeginsTypes DEF Work
<1>4. /\ Begins(files[s].result.of, trials) /\ Begins(files[s].trials.of, trials)
      /\ Shown(r) /\ CompleteHere(s)
  BY <1>2, RecordedByProcess DEF Recorded, FilesBegin
<1>5. registry'[s].inputs = p /\ (~RegisterStart(r) => registry[s].inputs = p)
  BY StudyStepProtocol
<1>6. CASE RegisterStart(r)
  <2>1. /\ work'[r].pc = "open" /\ work'[r].study = s
        /\ UNCHANGED <<optuna, files>> /\ registry'[s].status = "running"
    BY <1>1, <1>2, <1>3, <1>6, StageFields DEF RegisterStart, Row
  <2>2. Shown(r)' /\ CompleteHere(s)'
    BY <2>1 DEF Shown, CompleteHere, RunStages
  <2> QED BY <1>4, <2>1, <2>2, StudyRecordedHere
<1>7. CASE OpenStudy(r)
  <2>1. /\ work'[r].pc = "trials" /\ work'[r].study = s
        /\ UNCHANGED <<registry, files>> /\ work[r].pc = "open"
    BY <1>1, <1>7 DEF OpenStudy, Work
  <2>2. optuna'[s].trials = trials
    BY <1>7, StudyStepStores
  <2>3. Shown(r)' /\ CompleteHere(s)'
    BY <1>4, <2>1 DEF Shown, CompleteHere, RunStages
  <2> QED BY <1>4, <2>1, <2>2, <2>3, StudyRecordedHere
<1>8. CASE AskTrial(r)
  <2>1. /\ work'[r].pc = "evaluate" /\ work'[r].study = s
        /\ UNCHANGED <<registry, files>> /\ work[r].pc = "trials"
    BY <1>1, <1>8 DEF AskTrial, Work
  <2>2. optuna'[s].trials = Append(trials, RunningTrial)
    BY <1>1, <1>2, <1>8 DEF AskTrial
  <2>3. /\ Begins(files[s].result.of, optuna'[s].trials)
        /\ Begins(files[s].trials.of, optuna'[s].trials)
        /\ Len(files[s].result.of) < Len(optuna'[s].trials)
        /\ Len(files[s].trials.of) < Len(optuna'[s].trials)
    BY <1>3, <1>4, <2>2, BeginsAppended
  <2>4. Shown(r)' /\ CompleteHere(s)'
    BY <1>4, <2>1, <2>3 DEF Shown, CompleteHere, RunStages
  <2> QED BY <2>1, <2>3, <2>4, StudyRecordedHere
<1>9. CASE TrialEvaluated(r) \/ TrialRaised(r)
  <2>1. \E outcome \in Trial : TellTrial(r, outcome)
    <3>1. CASE TrialRaised(r)
      BY <3>1, RecordTypes DEF TrialRaised
    <3>2. CASE TrialEvaluated(r)
      <4>1. PICK e \in Evaluations[p] : TellTrial(r, CompleteTrial(e))
        BY <3>2 DEF TrialEvaluated
      <4>2. e \in [feasible : BOOLEAN, values : Seq(Int)]
        BY <1>2, StudyAssumption
      <4>3. CompleteTrial(e) \in Trial
        BY <4>2 DEF CompleteTrial, Trial
      <4> QED BY <4>1, <4>3
    <3> QED BY <1>9, <3>1, <3>2
  <2>2. PICK outcome \in Trial : TellTrial(r, outcome)
    BY <2>1
  <2>3. work[r].pc = "evaluate"
    BY <1>9 DEF TrialEvaluated, TrialRaised
  <2>4. /\ work'[r].pc = "trials" /\ work'[r].study = s
        /\ UNCHANGED <<registry, files>>
    BY <2>2, StageFields DEF TellTrial
  <2>5. optuna'[s].trials = [trials EXCEPT ![Len(trials)] = outcome]
    BY <1>1, <1>2, <2>2 DEF TellTrial
  <2>6. /\ Len(files[s].result.of) < Len(trials)
        /\ Len(files[s].trials.of) < Len(trials)
    BY <1>4, <2>3 DEF Shown
  <2>7. /\ Begins(files[s].result.of, optuna'[s].trials)
        /\ Begins(files[s].trials.of, optuna'[s].trials)
    <3> HIDE DEF trials
    <3>1. ASSUME NEW h \in Seq(Trial), Begins(h, trials), Len(h) < Len(trials)
          PROVE  Begins(h, optuna'[s].trials)
      BY <1>3, <2>5, <3>1, BeginsTold
    <3> QED BY <1>3, <1>4, <2>6, <3>1
  <2>8. Shown(r)' /\ CompleteHere(s)'
    BY <1>4, <2>3, <2>4 DEF Shown, CompleteHere, RunStages
  <2> QED BY <2>4, <2>7, <2>8, StudyRecordedHere
<1>10. CASE StopTrials(r)
  <2>1. /\ work'[r].pc = "result_file" /\ work'[r].study = s
        /\ work'[r].seen = trials
        /\ UNCHANGED <<registry, optuna, files>> /\ work[r].pc = "trials"
    BY <1>1, <1>10 DEF StopTrials, Work, studyVars
  <2>2. Shown(r)' /\ CompleteHere(s)'
    BY <1>4, <2>1 DEF Shown, CompleteHere, RunStages
  <2> QED BY <1>4, <2>1, <2>2, StudyRecordedHere
<1>11. CASE WriteResultFile(r)
  <2> DEFINE new == Written(files[s].result, seen)
  <2>1. /\ work'[r].pc = "trials_file" /\ work'[r].study = s
        /\ work'[r].seen = seen
        /\ UNCHANGED <<registry, optuna>> /\ work[r].pc = "result_file"
    BY <1>11, StageFields DEF WriteResultFile
  <2>2. files'[s].result = new /\ files'[s].trials = files[s].trials
    <3>1. files' = [files EXCEPT ![s].result = new]
      BY <1>11 DEF WriteResultFile
    <3> HIDE DEF new
    <3> QED BY <1>1, <1>2, <1>3, <3>1
  <2>3. seen = trials
    BY <1>4, <2>1 DEF Shown
  <2>4. Begins(new.of, trials)
    <3>1. new = files[s].result \/ new.of = trials
      BY <2>3 DEF Written
    <3> HIDE DEF new
    <3> QED BY <1>3, <1>4, <3>1, BeginsItself
  <2>5. SaysTheSame(new, seen, p)
    <3>1. CASE files[s].result.state = "absent"
      BY <3>1 DEF Written, SaysTheSame
    <3>2. CASE files[s].result.state # "absent"
      BY <1>11, <3>2 DEF WriteResultFile, Written
    <3> QED BY <3>1, <3>2
  <2>6. files[s].result.state = "whole" => new = files[s].result
    BY DEF Written
  <2> HIDE DEF new
  <2>7. Shown(r)' /\ CompleteHere(s)'
    BY <1>2, <1>4, <2>1, <2>2, <2>5, <2>6 DEF Shown, CompleteHere, RunStages, SaysTheSame
  <2> QED BY <1>4, <2>1, <2>2, <2>4, <2>6, <2>7, StudyRecordedHere
<1>12. CASE WriteTrialsFile(r)
  <2> DEFINE new == Written(files[s].trials, seen)
  <2>1. /\ work'[r].pc = "complete" /\ work'[r].study = s
        /\ work'[r].seen = seen
        /\ UNCHANGED <<registry, optuna>> /\ work[r].pc = "trials_file"
    BY <1>12, StageFields DEF WriteTrialsFile
  <2>2. files'[s].trials = new /\ files'[s].result = files[s].result
    <3>1. files' = [files EXCEPT ![s].trials = new]
      BY <1>12 DEF WriteTrialsFile
    <3> HIDE DEF new
    <3> QED BY <1>1, <1>2, <1>3, <3>1
  <2>3. seen = trials
    BY <1>4, <2>1 DEF Shown
  <2>4. new = [state |-> "whole", of |-> seen]
    BY <1>12 DEF WriteTrialsFile, Written
  <2>5. Begins(new.of, trials)
    BY <1>3, <2>3, <2>4, BeginsItself
  <2>6. files[s].trials.state = "whole" => new = files[s].trials
    BY DEF Written
  <2> HIDE DEF new
  <2>7. Shown(r)' /\ CompleteHere(s)'
    BY <1>2, <1>4, <2>1, <2>2, <2>3, <2>4, <2>6
       DEF Shown, CompleteHere, RunStages, SaysTheSame
  <2> QED BY <1>4, <2>1, <2>2, <2>5, <2>6, <2>7, StudyRecordedHere
<1>13. CASE RegisterComplete(r)
  <2> DEFINE result == Result(seen, p)
  <2>1. /\ UNCHANGED <<optuna, files>> /\ work[r].pc = "complete"
    BY <1>13 DEF RegisterComplete
  <2>2. /\ registry'[s].completed = result.completed
        /\ registry'[s].candidates = result.candidates
    <3>1. registry' = [registry EXCEPT ![s] =
                         [registry[s] EXCEPT !.status = "complete",
                                             !.completed = result.completed,
                                             !.candidates = result.candidates]]
      BY <1>13 DEF RegisterComplete, CompletedRow
    <3> HIDE DEF result
    <3> QED BY <1>1, <1>2, <1>3, <3>1 DEF Row
  <2>3. /\ seen = trials /\ SaysTheSame(files[s].result, seen, p)
        /\ files[s].trials = [state |-> "whole", of |-> seen]
    BY <1>4, <2>1 DEF Shown
  <2>4. files[s].result.of = seen
    <3>1. /\ Result(files[s].result.of, p).total = Len(files[s].result.of)
          /\ Result(seen, p).total = Len(seen)
      BY <1>3, ResultType
    <3>2. Len(files[s].result.of) = Len(seen)
      BY <2>3, <3>1 DEF SaysTheSame
    <3> QED BY <1>3, <1>4, <2>3, <3>2, SameHistory
  <2>5. files[s].result = files[s].trials
    BY <1>3, <2>3, <2>4 DEF SaysTheSame, File
  <2>6. CompleteHere(s)'
    <3>1. /\ files[s].result.state = "whole"
          /\ files[s].trials = files[s].result
          /\ result = Result(files[s].result.of, p)
      BY <2>3, <2>4, <2>5 DEF SaysTheSame
    <3>2. registry'[s].inputs = p /\ files' = files
      BY <1>5, <2>1
    <3> HIDE DEF result, p
    <3> QED BY <2>2, <3>1, <3>2 DEF CompleteHere
  <2>7. Shown(r)'
    <3>1. CASE Stage(r, "searched")
      <4>1. /\ work'[r].pc = "searched" /\ work'[r].study = s
            /\ work'[r].seen = seen
        BY <3>1, StageFields
      <4> QED BY <1>2, <2>1, <2>3, <4>1 DEF Shown, RunStages, SaysTheSame
    <3>2. CASE Enter(r, work[r].inputs, "challenger", work[r].search)
      <4>1. work'[r].pc = "register"
        BY <1>1, <3>2 DEF Enter, AtRest
      <4> QED BY <4>1 DEF Shown
    <3> QED BY <1>13, <3>1, <3>2 DEF RegisterComplete
  <2> QED BY <1>4, <2>1, <2>6, <2>7, StudyRecordedHere
<1> QED BY <1>6, <1>7, <1>8, <1>9, <1>10, <1>11, <1>12, <1>13 DEF StudyStep

LEMMA RecordedInit == Init => Recorded
<1> SUFFICES ASSUME Init PROVE Recorded
  OBVIOUS
<1>1. /\ \A r \in Processes : work[r].pc = "idle"
      /\ \A s \in Studies :
           /\ registry[s].status = "none"
           /\ files[s].result = NoFile /\ files[s].trials = NoFile
           /\ optuna[s].trials = <<>>
  BY DEF Init, StudyInit, AtRest, NoRow
<1>2. NoFile.of = <<>> /\ NoFile.state = "absent" /\ Begins(<<>>, <<>>)
  BY DEF NoFile, Begins
<1> QED BY <1>1, <1>2 DEF Recorded, FilesBegin, EvaluatedIsNew, ReportsHistory,
           ResultIsOut, TrialsAreOut, RunsAreRunning, ResultsAreAsked,
           CompleteIsPublished, Searching, RunStages

LEMMA RecordedStep ==
  WellFormed /\ Accounted /\ Recorded /\ [Next]_vars => Recorded'
<1> SUFFICES ASSUME WellFormed, Accounted, Recorded, [Next]_vars PROVE Recorded'
  OBVIOUS
<1>1. CASE Next
  <2>1. ASSUME NEW r \in Processes, StudyStep(r) PROVE Recorded'
    <3>1. work[r].study \in Studies
      BY <2>1 DEF WellFormed, TypeOK, Work
    <3> QED BY <2>1, <3>1, StudyRecorded
  <2> QED BY <1>1, <2>1, StepKinds, StartRecorded, QuietRecorded
<1>2. CASE UNCHANGED vars
  BY <1>2 DEF vars, Recorded, FilesBegin, EvaluatedIsNew, ReportsHistory,
              ResultIsOut, TrialsAreOut, RunsAreRunning, ResultsAreAsked,
              CompleteIsPublished, Searching, SaysTheSame
<1> QED BY <1>1, <1>2

(* What the registry calls complete is in both files, and they say what the  *)
(* registry says, whoever died on the way and however often it was run.      *)
THEOREM SearchPublishesComplete == Spec => []CompleteIsPublished
<1> DEFINE IInv == WellFormed /\ Accounted /\ Recorded
<1>1. Init => IInv
  BY InitType, AccountedInit, RecordedInit
     DEF WellFormed, Asked, Init, StudyInit, AtRest
<1>2. IInv /\ [Next]_vars => IInv'
  BY TypeStep, AccountedStep, RecordedStep
<1>3. IInv => CompleteIsPublished
  BY DEF Recorded
<1> QED BY <1>1, <1>2, <1>3, PTL DEF Spec

-----------------------------------------------------------------------------
(* A run at its budget is completed, not refused *)

(* What a run of the study does to it. *)
LEMMA ResumedStep ==
  ASSUME WellFormed, Accounted, NEW r \in Processes, NEW s \in Studies,
         Resuming(r, s), RunStep(r)
  PROVE  Resuming(r, s)' \/ registry'[s].status = "complete"
<1> DEFINE p == work[r].inputs
           trials == optuna[s].trials
<1>1. /\ work[r] \in Work /\ work \in [Processes -> Work]
      /\ registry \in [Studies -> Row]
      /\ optuna \in [Studies -> [inputs : Protocol, trials : Seq(Trial)]]
      /\ files \in [Studies -> [result : File, trials : File]]
  BY DEF WellFormed, TypeOK, Row, Protocol
<1>2. /\ work[r].study = s /\ Resumable(s)
      /\ work[r].pc \in {"open", "trials", "result_file", "trials_file", "complete"}
      /\ work[r].pc = "trials" => work[r].remaining = 0
      /\ work[r].pc \in {"result_file", "trials_file", "complete"} =>
           work[r].seen = trials
  BY DEF Resuming
<1>3. /\ registry[s].inputs = p /\ p \in Protocols
  BY <1>1, <1>2 DEF Accounted, OneProtocolPerStudy, WellFormed, Asked
<1>4. /\ Cardinality(Completed(trials)) = MaxTrials[p]
      /\ MaxTrials[p] \in Nat
      /\ files[s].result.state # "absent" => SaysTheSame(files[s].result, trials, p)
      /\ files[s].trials \in {NoFile, [state |-> "whole", of |-> trials]}
  BY <1>2, <1>3, StudyAssumption DEF Resumable
<1>5. CASE OpenStudy(r)
  <2>1. /\ work[r].pc = "open" /\ UNCHANGED <<registry, files>>
        /\ optuna' = [optuna EXCEPT ![s].inputs = p]
        /\ work' = [work EXCEPT ![r] = [work[r] EXCEPT !.pc = "trials",
                                                       !.remaining = 0]]
    <3> DEFINE left == MaxTrials[p] - Cardinality(Completed(trials))
    <3>1. left = 0 /\ (IF left > 0 THEN left ELSE 0) = 0
      BY <1>4
    <3>2. /\ work[r].pc = "open" /\ UNCHANGED <<registry, files>>
          /\ optuna' = [optuna EXCEPT ![s].inputs = p]
          /\ work' = [work EXCEPT ![r] =
                        [work[r] EXCEPT !.pc = "trials",
                                        !.remaining = IF left > 0 THEN left ELSE 0]]
      BY <1>2, <1>5 DEF OpenStudy
    <3> HIDE DEF left
    <3> QED BY <3>1, <3>2
  <2>2. optuna'[s].trials = optuna[s].trials
    BY <1>1, <2>1
  <2>3. /\ work'[r].pc = "trials" /\ work'[r].remaining = 0 /\ work'[r].study = s
    BY <1>1, <1>2, <2>1 DEF Work
  <2> QED BY <1>2, <2>1, <2>2, <2>3 DEF Resuming, Resumable, SaysTheSame
<1>6. CASE AskTrial(r) \/ TrialEvaluated(r) \/ TrialRaised(r)
           \/ RegisterStart(r) \/ RegisterRefused(r)
  BY <1>2, <1>6 DEF AskTrial, TrialEvaluated, TrialRaised, RegisterStart, RegisterRefused
<1>7. CASE StopTrials(r)
  <2>1. /\ UNCHANGED studyVars
        /\ work' = [work EXCEPT ![r] = [work[r] EXCEPT !.pc = "result_file",
                                                       !.seen = trials]]
    BY <1>2, <1>7 DEF StopTrials
  <2>2. work'[r].pc = "result_file" /\ work'[r].seen = trials /\ work'[r].study = s
    BY <1>1, <1>2, <2>1 DEF Work
  <2> QED BY <1>2, <2>1, <2>2 DEF studyVars, Resuming, Resumable, SaysTheSame
<1>8. CASE ResultFileRefused(r) \/ TrialsFileRefused(r)
  BY <1>2, <1>4, <1>8 DEF ResultFileRefused, TrialsFileRefused, NoFile
<1>9. CASE WriteResultFile(r)
  <2>1. /\ work[r].pc = "result_file" /\ UNCHANGED <<registry, optuna>>
        /\ files' = [files EXCEPT ![s].result = Written(files[s].result, trials)]
        /\ Stage(r, "trials_file")
    BY <1>1, <1>2, <1>9 DEF WriteResultFile
  <2>2. /\ files'[s].result = Written(files[s].result, trials)
        /\ files'[s].trials = files[s].trials
    BY <1>1, <2>1
  <2>3. /\ work'[r].pc = "trials_file" /\ work'[r].study = s
        /\ work'[r].seen = trials
    BY <1>2, <2>1, StageFields
  <2>4. SaysTheSame(files'[s].result, trials, p)
    BY <1>4, <2>2 DEF Written, SaysTheSame
  <2> QED BY <1>3, <1>4, <2>1, <2>2, <2>3, <2>4 DEF Resuming, Resumable, SaysTheSame
<1>10. CASE WriteTrialsFile(r)
  <2>1. /\ work[r].pc = "trials_file" /\ UNCHANGED <<registry, optuna>>
        /\ files' = [files EXCEPT ![s].trials = Written(files[s].trials, trials)]
        /\ Stage(r, "complete")
    BY <1>1, <1>2, <1>10 DEF WriteTrialsFile
  <2>2. /\ files'[s].trials = Written(files[s].trials, trials)
        /\ files'[s].result = files[s].result
    BY <1>1, <2>1
  <2>3. /\ work'[r].pc = "complete" /\ work'[r].study = s
        /\ work'[r].seen = trials
    BY <1>2, <2>1, StageFields
  <2>4. files'[s].trials = [state |-> "whole", of |-> trials]
    BY <1>4, <2>2 DEF Written, NoFile
  <2> QED BY <1>3, <1>4, <2>1, <2>2, <2>3, <2>4 DEF Resuming, Resumable, SaysTheSame
<1>11. CASE RegisterComplete(r)
  <2>1. registry[s] \in Row
    BY <1>1
  <2>2. registry' = [registry EXCEPT ![s] =
                       [registry[s] EXCEPT
                          !.status = "complete",
                          !.completed = Result(work[r].seen, p).completed,
                          !.candidates = Result(work[r].seen, p).candidates]]
    BY <1>2, <1>11 DEF RegisterComplete, CompletedRow
  <2> QED BY <1>1, <2>1, <2>2 DEF Row
<1> QED BY <1>5, <1>6, <1>7, <1>8, <1>9, <1>10, <1>11 DEF RunStep

(* A study whose budget was spent, and whose files say what its trials say,  *)
(* is completed by the run that opens it: the run tries nothing more and no  *)
(* file refuses it, whoever else is at work on the experiment.               *)
THEOREM SearchResumes == Spec => ResumedStudyGoesOn
<1> DEFINE A == \A r \in Processes, s \in Studies :
                  Resuming(r, s) /\ kills' = kills
                  => Resuming(r, s)' \/ registry'[s].status = "complete"
<1>1. ASSUME WellFormed, Accounted, Next, NEW r \in Processes, NEW s \in Studies,
             Resuming(r, s), kills' = kills
      PROVE  Resuming(r, s)' \/ registry'[s].status = "complete"
  <2>1. Searching(r) /\ work \in [Processes -> Work] /\ kills \in Nat
    BY <1>1, Phase8Assumption DEF Resuming, Searching, RunStages, WellFormed, TypeOK
  <2>2. PICK q \in Processes :
          \/ \E p \in Protocols : StartSearch(q, p)
          \/ SearchStep(q)
          \/ CheckSearch(q) \/ SearchRefused(q) \/ WriteSearch(q)
          \/ CheckFrozen(q) \/ FreezeRefused(q) \/ WriteFrozen(q) \/ Leave(q)
          \/ CheckHoldout(q) \/ HoldoutRefused(q) \/ OpenHoldout(q)
          \/ HoldoutEvaluated(q) \/ HoldoutFailed(q)
          \/ Kill(q) \/ KillWritingStudy(q) \/ KillWritingDir(q)
    BY <1>1 DEF Next
  <2>3. ~ \E p \in Protocols : StartSearch(q, p)
    BY <2>1 DEF StartSearch
  <2>4. ~(Kill(q) \/ KillWritingStudy(q) \/ KillWritingDir(q))
    BY <1>1, <2>1 DEF Kill, KillWritingStudy, KillWritingDir, Dies
  <2>5. CASE SearchStep(q)
    <3>1. RunStep(q) /\ Searching(q)
      BY <2>5 DEF SearchStep, RunStep, RegisterStart, RegisterRefused, OpenStudy,
                  AskTrial, TrialEvaluated, TrialRaised, StopTrials, WriteResultFile,
                  ResultFileRefused, WriteTrialsFile, TrialsFileRefused,
                  RegisterComplete, Searching, RunStages
    <3>2. q = r
      BY <1>1, <2>1, <3>1 DEF Accounted, OneSearch
    <3> QED BY <1>1, <3>1, <3>2, ResumedStep
  <2>6. CASE \/ CheckSearch(q) \/ SearchRefused(q) \/ WriteSearch(q)
             \/ CheckFrozen(q) \/ FreezeRefused(q) \/ WriteFrozen(q) \/ Leave(q)
             \/ CheckHoldout(q) \/ HoldoutRefused(q) \/ OpenHoldout(q)
             \/ HoldoutEvaluated(q) \/ HoldoutFailed(q)
    <3>1. work[q].pc \notin RunStages /\ UNCHANGED <<registry, optuna, files>>
      BY <2>6 DEF CheckSearch, SearchRefused, WriteSearch, CheckFrozen, FreezeNew,
                  FrozenBefore, FreezeRefused, WriteFrozen, Freezing, Leave,
                  CheckHoldout, HoldoutRefused, OpenHoldout, Opening,
                  HoldoutEvaluated, HoldoutFailed, RunStages
    <3>2. \E w : work' = [work EXCEPT ![q] = w]
      BY <2>6 DEF CheckSearch, SearchRefused, WriteSearch, CheckFrozen, FreezeNew,
                  FrozenBefore, FreezeRefused, WriteFrozen, Leave,
                  CheckHoldout, HoldoutRefused, OpenHoldout,
                  HoldoutEvaluated, HoldoutFailed, Stage, Raise
    <3>3. work'[r] = work[r]
      BY <2>1, <3>1, <3>2 DEF Searching
    <3> QED BY <1>1, <3>1, <3>3 DEF Resuming, Resumable, SaysTheSame
  <2> QED BY <2>2, <2>3, <2>4, <2>5, <2>6
<1>2. WellFormed /\ Accounted /\ [Next]_vars => [A]_vars
  BY <1>1
<1>3. Init => WellFormed /\ Accounted
  BY InitType, AccountedInit DEF WellFormed, Asked, Init, StudyInit, AtRest
<1>4. WellFormed /\ Accounted /\ [Next]_vars => (WellFormed /\ Accounted)'
  BY TypeStep, AccountedStep
<1> HIDE DEF A
<1>5. Spec => [][A]_vars
  BY <1>2, <1>3, <1>4, PTL DEF Spec
<1> QED BY <1>5 DEF A, ResumedStudyGoesOn

-----------------------------------------------------------------------------
(* What a step does to the frozen and to the access file.                    *)

(* Steps that have no part in either. *)
Aside(r) ==
  /\ work[r].pc \notin {"freezing", "opening"}
  /\ work'[r].pc \notin {"freezing", "opening"}
  /\ work'[r].pc = "frozen" => dir.frozen.state = "whole"
  /\ dir'.frozen = dir.frozen
  /\ dir'.access = dir.access
  /\ UNCHANGED ghosts

(* A look that finds no frozen file. *)
LooksToFreeze(r) ==
  /\ work[r].pc \in {"searched", "written"}
  /\ \E n \in Selected(work[r].seen, work[r].inputs),
       stamp \in {0, work[r].search} : FreezeNew(r, Candidate(r, n, stamp))

(* Deaths between look and write. *)
StopsFreezing(r) ==
  /\ Freezing(r)
  /\ Raise(r)
  /\ dir'.frozen \in {dir.frozen, [NoFrozen EXCEPT !.state = "torn"]}
  /\ dir'.access = dir.access
  /\ UNCHANGED ghosts

StopsOpening(r) ==
  /\ Opening(r)
  /\ Raise(r)
  /\ dir'.frozen = dir.frozen
  /\ dir'.access \in {dir.access, "torn"}
  /\ UNCHANGED ghosts

Kinds(r) ==
  \/ Aside(r)
  \/ LooksToFreeze(r) \/ WriteFrozen(r) \/ StopsFreezing(r)
  \/ CheckHoldout(r) \/ OpenHoldout(r) \/ StopsOpening(r)

LEMMA SealKinds ==
  ASSUME WellFormed, Next
  PROVE  \E r \in Processes :
           Kinds(r) /\ \A q \in Processes \ {r} : work'[q] = work[q]
<1> PICK r \in Processes :
      \/ \E p \in Protocols : StartSearch(r, p)
      \/ SearchStep(r)
      \/ CheckSearch(r) \/ SearchRefused(r) \/ WriteSearch(r)
      \/ CheckFrozen(r) \/ FreezeRefused(r) \/ WriteFrozen(r) \/ Leave(r)
      \/ CheckHoldout(r) \/ HoldoutRefused(r) \/ OpenHoldout(r)
      \/ HoldoutEvaluated(r) \/ HoldoutFailed(r)
      \/ Kill(r) \/ KillWritingStudy(r) \/ KillWritingDir(r)
  BY DEF Next
<1> DEFINE Others == \A q \in Processes \ {r} : work'[q] = work[q]
<1>1. /\ work[r] \in Work /\ work \in [Processes -> Work]
      /\ dir \in Dir /\ AtRest.pc = "idle"
  BY DEF WellFormed, TypeOK, Dir, AtRest
<1>2. ASSUME Raise(r) PROVE Others /\ work'[r].pc = "idle"
  BY <1>1, <1>2 DEF Raise
<1>3. ASSUME NEW pc, Stage(r, pc) PROVE Others /\ work'[r].pc = pc
  BY <1>3, StageFields
<1>4. CASE \E p \in Protocols : StartSearch(r, p)
  <2>1. work'[r].pc = "register" /\ Others /\ work[r].pc = "idle"
    BY <1>1, <1>4, ZenonT(40) DEF StartSearch, Enter, AtRest
  <2>2. UNCHANGED dir /\ UNCHANGED ghosts
    BY <1>4 DEF StartSearch
  <2> QED BY <2>1, <2>2 DEF Kinds, Aside
<1>5. CASE SearchStep(r)
  <2>1. UNCHANGED dir /\ UNCHANGED ghosts
    BY <1>5 DEF SearchStep
  <2>2. CASE RegisterRefused(r) \/ ResultFileRefused(r) \/ TrialsFileRefused(r)
    <3>1. Raise(r) /\ work[r].pc \in RunStages
      BY <2>2 DEF RegisterRefused, ResultFileRefused, TrialsFileRefused, RunStages
    <3> QED BY <1>2, <2>1, <3>1 DEF Kinds, Aside, RunStages
  <2>3. CASE StudyStep(r)
    <3>1. /\ work'[r].pc \in RunStages \cup {"searched"} /\ Others
          /\ work[r].pc \in RunStages
      BY <2>3, StudyStepFrame DEF Searching
    <3> QED BY <2>1, <3>1 DEF Kinds, Aside, RunStages
  <2> QED BY <1>5, <2>2, <2>3 DEF SearchStep, RunStep, StudyStep
<1>6. CASE CheckSearch(r) \/ WriteSearch(r)
  <2>1. dir'.frozen = dir.frozen /\ dir'.access = dir.access /\ UNCHANGED ghosts
    BY <1>1, <1>6 DEF CheckSearch, WriteSearch, Dir
  <2>2. /\ Stage(r, "writing") \/ Stage(r, "written")
        /\ work[r].pc \in {"searched", "writing"}
    BY <1>6 DEF CheckSearch, WriteSearch
  <2> QED BY <1>3, <2>1, <2>2 DEF Kinds, Aside
<1>7. CASE SearchRefused(r) \/ FreezeRefused(r) \/ Leave(r) \/ HoldoutRefused(r)
  <2>1. /\ Raise(r) /\ UNCHANGED dir /\ UNCHANGED ghosts
        /\ work[r].pc \notin {"freezing", "opening"}
    BY <1>7 DEF SearchRefused, FreezeRefused, Leave, HoldoutRefused
  <2> QED BY <1>2, <2>1 DEF Kinds, Aside
<1>8. CASE HoldoutEvaluated(r) \/ HoldoutFailed(r)
  <2>1. dir'.frozen = dir.frozen /\ dir'.access = dir.access
    BY <1>1, <1>8 DEF HoldoutEvaluated, HoldoutFailed, Dir
  <2>2. Raise(r) /\ UNCHANGED ghosts /\ work[r].pc = "holdout"
    BY <1>8 DEF HoldoutEvaluated, HoldoutFailed
  <2> QED BY <1>2, <2>1, <2>2 DEF Kinds, Aside
<1>9. CASE WriteFrozen(r) \/ CheckHoldout(r) \/ OpenHoldout(r)
  <2>1. \E pc : Stage(r, pc)
    BY <1>9 DEF WriteFrozen, CheckHoldout, OpenHoldout
  <2> QED BY <1>3, <1>9, <2>1 DEF Kinds
<1>10. CASE CheckFrozen(r)
  <2>1. PICK n \in Selected(work[r].seen, work[r].inputs),
             stamp \in {0, work[r].search} :
          LET c == Candidate(r, n, stamp)
          IN FreezeNew(r, c) \/ FrozenBefore(r, c)
    BY <1>10 DEF CheckFrozen
  <2> DEFINE c == Candidate(r, n, stamp)
  <2>2. Others
    <3> HIDE DEF c
    <3> QED BY <1>1, <2>1 DEF FreezeNew, FrozenBefore, c
  <2>3. CASE FreezeNew(r, c)
    <3>1. LooksToFreeze(r)
      BY <1>10, <2>3 DEF LooksToFreeze, CheckFrozen
    <3> QED BY <2>2, <3>1 DEF Kinds
  <2>4. CASE FrozenBefore(r, c)
    <3>1. /\ work'[r].pc = "frozen" /\ dir.frozen.state = "whole"
          /\ UNCHANGED dir /\ UNCHANGED ghosts
      <4> HIDE DEF c
      <4> QED BY <1>1, <2>4 DEF FrozenBefore, Frozen, Work
    <3> QED BY <1>10, <2>2, <3>1 DEF Kinds, Aside, CheckFrozen
  <2> QED BY <2>1, <2>3, <2>4
<1>11. CASE Kill(r) \/ KillWritingStudy(r)
  <2>1. Raise(r) /\ UNCHANGED dir /\ UNCHANGED ghosts
    BY <1>11 DEF Kill, KillWritingStudy, Dies
  <2> QED BY <1>2, <2>1 DEF Kinds, Aside, StopsFreezing, StopsOpening,
                            Freezing, Opening
<1>12. CASE KillWritingDir(r)
  <2>1. Raise(r) /\ UNCHANGED ghosts
    BY <1>12 DEF KillWritingDir, Dies
  <2>2. CASE work[r].pc = "writing" \/ work[r].pc = "holdout"
    <3>1. dir'.frozen = dir.frozen /\ dir'.access = dir.access
      BY <1>1, <1>12, <2>2 DEF KillWritingDir, Freezing, Opening, Dir
    <3> QED BY <1>2, <2>1, <2>2, <3>1 DEF Kinds, Aside
  <2>3. CASE Freezing(r)
    <3>1. dir' = [dir EXCEPT !.frozen = [NoFrozen EXCEPT !.state = "torn"]]
      BY <1>12, <2>3 DEF KillWritingDir, Freezing, Opening
    <3>2. /\ dir'.frozen = [NoFrozen EXCEPT !.state = "torn"]
          /\ dir'.access = dir.access
      BY <1>1, <3>1 DEF Dir
    <3> QED BY <1>2, <2>1, <2>3, <3>2 DEF Kinds, StopsFreezing
  <2>4. CASE Opening(r)
    <3>1. dir' = [dir EXCEPT !.access = "torn"]
      BY <1>12, <2>4 DEF KillWritingDir, Freezing, Opening
    <3>2. dir'.frozen = dir.frozen /\ dir'.access = "torn"
      BY <1>1, <3>1 DEF Dir
    <3> QED BY <1>2, <2>1, <2>4, <3>2 DEF Kinds, StopsOpening
  <2> QED BY <1>12, <2>2, <2>3, <2>4 DEF KillWritingDir
<1> QED BY <1>4, <1>5, <1>6, <1>7, <1>8, <1>9, <1>10, <1>11, <1>12

-----------------------------------------------------------------------------
(* The seal.  Nobody is given the holdout before the access file is there,   *)
(* and unless two processes overlapped between check and access file, at     *)
(* most one is there, before the file is.                                    *)

Unraced ==
  /\ openings <= 1
  /\ \A r \in Processes : Opening(r) => dir.access = "absent"
  /\ \A q, r \in Processes : Opening(q) /\ Opening(r) => q = r

SealKept ==
  /\ dir.access = "absent" => openings = 0
  /\ raced \/ Unraced

LEMMA SealStep == WellFormed /\ SealKept /\ [Next]_vars => SealKept'
<1> SUFFICES ASSUME WellFormed, SealKept, [Next]_vars PROVE SealKept'
  OBVIOUS
<1>1. work \in [Processes -> Work] /\ dir \in Dir /\ openings \in Nat
  BY DEF WellFormed, TypeOK, Dir
<1>2. ASSUME UNCHANGED <<openings, raced>>, dir'.access = dir.access,
             \A q \in Processes : Opening(q)' => Opening(q)
      PROVE  SealKept'
  BY <1>2 DEF SealKept, Unraced
<1>3. ASSUME NEW r \in Processes, CheckHoldout(r) PROVE SealKept'
  <2>1. /\ work'[r].pc = "opening"
        /\ \A q \in Processes \ {r} : work'[q] = work[q]
        /\ dir.access = "absent" /\ UNCHANGED <<dir, openings>>
        /\ raced' = (raced \/ \E other \in Processes \ {r} : Opening(other))
    BY <1>1, <1>3 DEF CheckHoldout, Stage, Work
  <2>2. CASE raced'
    BY <2>1, <2>2 DEF SealKept
  <2>3. CASE ~raced'
    BY <2>1, <2>3 DEF SealKept, Unraced, Opening
  <2> QED BY <2>2, <2>3
<1>4. ASSUME NEW r \in Processes, OpenHoldout(r) PROVE SealKept'
  <2>1. /\ work'[r].pc = "holdout" /\ Opening(r)
        /\ \A q \in Processes \ {r} : work'[q] = work[q]
        /\ raced' = raced /\ openings' = openings + 1
        /\ dir'.access = "whole"
    BY <1>1, <1>4 DEF OpenHoldout, Stage, Work, Dir
  <2> QED BY <1>1, <2>1 DEF SealKept, Unraced, Opening
<1>5. ASSUME NEW r \in Processes, StopsOpening(r) PROVE SealKept'
  <2>1. /\ work'[r].pc = "idle" /\ UNCHANGED <<openings, raced>>
        /\ \A q \in Processes \ {r} : work'[q] = work[q]
        /\ Opening(r) /\ dir'.access \in {dir.access, "torn"}
    BY <1>1, <1>5 DEF StopsOpening, Raise, AtRest, ghosts
  <2> QED BY <2>1 DEF SealKept, Unraced, Opening
<1>6. ASSUME NEW r \in Processes, \A q \in Processes \ {r} : work'[q] = work[q],
             Aside(r) \/ LooksToFreeze(r) \/ WriteFrozen(r) \/ StopsFreezing(r)
      PROVE  SealKept'
  <2>1. UNCHANGED <<openings, raced>>
    BY <1>6 DEF Aside, LooksToFreeze, FreezeNew, WriteFrozen, StopsFreezing, ghosts
  <2>2. dir'.access = dir.access
    BY <1>1, <1>6 DEF Aside, LooksToFreeze, FreezeNew, WriteFrozen,
                      StopsFreezing, Dir
  <2>3. work'[r].pc # "opening"
    <3>1. CASE Aside(r)
      BY <3>1 DEF Aside
    <3>2. CASE LooksToFreeze(r)
      <4>1. PICK c : FreezeNew(r, c)
        BY <3>2 DEF LooksToFreeze
      <4> QED BY <1>1, <4>1 DEF FreezeNew, Work
    <3>3. CASE WriteFrozen(r)
      BY <3>3, StageFields DEF WriteFrozen
    <3>4. CASE StopsFreezing(r)
      BY <1>1, <3>4 DEF StopsFreezing, Raise, AtRest
    <3> QED BY <1>6, <3>1, <3>2, <3>3, <3>4
  <2> QED BY <1>2, <1>6, <2>1, <2>2, <2>3 DEF Opening
<1>7. CASE UNCHANGED vars
  BY <1>7 DEF vars, ghosts, SealKept, Unraced, Opening
<1> QED BY <1>3, <1>4, <1>5, <1>6, <1>7, SealKinds DEF Kinds

(* The holdout is opened once: the access file is written before the         *)
(* evaluator runs, and whatever happens after that, to a process or to its   *)
(* result, the file refuses the next one.                                    *)
THEOREM SearchOpensOnce == Spec => []OpenedOnceUnlessRaced
<1>1. Init => WellFormed /\ SealKept
  BY InitType DEF WellFormed, Asked, Init, StudyInit, AtRest, SealKept, Unraced,
                  Opening
<1>2. WellFormed /\ SealKept /\ [Next]_vars => (WellFormed /\ SealKept)'
  BY TypeStep, SealStep
<1>3. WellFormed /\ SealKept => OpenedOnceUnlessRaced
  BY DEF SealKept, Unraced, OpenedOnceUnlessRaced
<1> QED BY <1>1, <1>2, <1>3, PTL DEF Spec
================================================================================
