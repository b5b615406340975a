------------------------------ MODULE Phase8Search -----------------------------
(***************************************************************************)
(* A Phase 8 experiment from search to holdout.  run_phase8_search runs the *)
(* study with its random baseline; its caller writes the search down,      *)
(* freezes the candidate and evaluates it on the sealed holdout.  What     *)
(* the last three leave is a directory of files that are never rewritten   *)
(* on purpose, shared by every process that works on the experiment.       *)
(*                                                                         *)
(* Any process may be killed at any point, with the file it was writing    *)
(* torn.  One search runs at a time, by hand on one workstation; what      *)
(* follows a search may overlap with anything.                             *)
(***************************************************************************)
EXTENDS StudyRunner, Phase8Folds

CONSTANTS
  FoldConfig,   \* [Protocols -> FoldConfigs]
  Priority,     \* [Protocols -> the objectives' positions, most important
                \* first]
  MaxSearches,  \* bound on how often a search is started
  MaxKills      \* bound on how many processes are killed

ASSUME Phase8Assumption ==
  /\ FoldConfig \in [Protocols -> FoldConfigs]
  /\ \A p \in Protocols :
       /\ Priority[p] \in Seq(DOMAIN Directions[p])
       /\ \A k \in DOMAIN Directions[p] :
            \E j \in DOMAIN Priority[p] : Priority[p][j] = k
  /\ MaxSearches \in Nat
  /\ MaxKills \in Nat

VARIABLES
  dir,       \* the output directory
  openings,  \* ghost: how often an evaluator was given the holdout
  raced,     \* ghost: two processes overlapped between check and access file
  overlapped, \* ghost: two overlapped between check and frozen file
  searches,  \* searches started
  kills      \* processes killed

ghosts == <<openings, raced, overlapped>>
dirVars == <<dir, ghosts>>
vars == <<registry, optuna, files, work, dir, ghosts, searches, kills>>

NoFrozen == [state |-> "absent", candidate |-> NoCandidate]

Init ==
  /\ StudyInit
  /\ dir = [search |-> NoFile, frozen |-> NoFrozen, access |-> "absent",
            result |-> "absent", failure |-> "absent"]
  /\ openings = 0
  /\ raced = FALSE
  /\ overlapped = FALSE
  /\ searches = 0
  /\ kills = 0

-----------------------------------------------------------------------------
(* run_phase8_search.  The gates before the folds raise without leaving      *)
(* anything behind, and so do too few dates.                                 *)

Searching(r) == work[r].pc \in RunStages

StartSearch(r, p) ==
  /\ work[r].pc = "idle"
  /\ \A other \in Processes : ~Searching(other)
  /\ searches < MaxSearches
  /\ SufficientHistory(FoldConfig[p])
  /\ Enter(r, p, IF p \in RandomSampled THEN "challenger" ELSE "random_baseline",
           searches + 1)
  /\ searches' = searches + 1
  /\ UNCHANGED <<registry, optuna, files, dir, ghosts, kills>>

SearchStep(r) ==
  /\ RunStep(r)
  /\ UNCHANGED <<dir, ghosts, searches, kills>>

(* _select_frozen_candidate: by the objectives in their priority, then the   *)
(* earlier trial.                                                            *)
Precedes(left, right, p) ==
  \E k \in DOMAIN Priority[p] :
    LET o == Priority[p][k]
    IN /\ Better(left[o], right[o], Directions[p][o])
       /\ \A j \in 1 .. k - 1 :
            left[Priority[p][j]] = right[Priority[p][j]]

(* Defect: the first of the front, whatever the priority. *)
FirstOfTheFront(trials, p) ==
  LET candidates == SelectCandidates(trials, Directions[p])
  IN {n \in candidates : \A m \in candidates : n <= m}

Selected(trials, p) ==
  LET candidates == SelectCandidates(trials, Directions[p])
  IN {n \in candidates :
        \A m \in candidates \ {n} :
          \/ Precedes(trials[n].values, trials[m].values, p)
          \/ trials[n].values = trials[m].values /\ n < m}

-----------------------------------------------------------------------------
(* write_phase8_search_result and freeze_phase8_candidate *)

(* _write_immutable_json: a look whether the file is there, whose text has   *)
(* then to be the same, or a write, which truncates whatever another process *)
(* wrote since that look.  Protocol, manifest and the two candidate files    *)
(* are one file here: every search of the experiment writes them one after   *)
(* the other, and a killed writer can tear any of them.                      *)
CheckSearch(r) ==
  /\ work[r].pc = "searched"
  /\ \/ dir.search.state = "absent" /\ Stage(r, "writing")
     \/ SaysTheSame(dir.search, work[r].seen, work[r].inputs) /\ Stage(r, "written")
  /\ UNCHANGED <<registry, optuna, files, dir, ghosts, searches, kills>>

SearchRefused(r) ==
  /\ work[r].pc = "searched"
  /\ dir.search.state # "absent"
  /\ ~SaysTheSame(dir.search, work[r].seen, work[r].inputs)
  /\ Raise(r)
  /\ UNCHANGED <<registry, optuna, files, dir, ghosts, searches, kills>>

WriteSearch(r) ==
  /\ work[r].pc = "writing"
  /\ dir' = [dir EXCEPT !.search = [state |-> "whole", of |-> work[r].seen]]
  /\ Stage(r, "written")
  /\ UNCHANGED <<registry, optuna, files, ghosts, searches, kills>>

(* A frozen candidate carries a time: one the caller declares, the same for  *)
(* every search of the experiment, or else the time of the call, which is    *)
(* told apart by the search it ends.                                         *)
Candidate(r, n, stamp) ==
  [inputs |-> work[r].inputs, trial |-> n, values |-> work[r].seen[n].values,
   frozen_at |-> stamp]

Freezing(r) == work[r].pc = "freezing"

Frozen(candidate) == [state |-> "whole", candidate |-> candidate]

(* Defect: a file that is there is overwritten. *)
FreezeOver(r, candidate) ==
  /\ dir.frozen.state # "torn"
  /\ work' = [work EXCEPT ![r] =
                [@ EXCEPT !.pc = "freezing", !.candidate = candidate]]
  /\ overlapped' = (overlapped \/ \E other \in Processes \ {r} : Freezing(other))
  /\ UNCHANGED <<registry, optuna, files, dir, openings, raced, searches, kills>>

FreezeNew(r, candidate) ==
  /\ dir.frozen = NoFrozen
  /\ work' = [work EXCEPT ![r] =
                [@ EXCEPT !.pc = "freezing", !.candidate = candidate]]
  /\ overlapped' = (overlapped \/ \E other \in Processes \ {r} : Freezing(other))
  /\ UNCHANGED <<registry, optuna, files, dir, openings, raced, searches, kills>>

FrozenBefore(r, candidate) ==
  /\ dir.frozen = Frozen(candidate)
  /\ work' = [work EXCEPT ![r] =
                [@ EXCEPT !.pc = "frozen", !.candidate = candidate]]
  /\ UNCHANGED <<registry, optuna, files, dir, ghosts, searches, kills>>

CheckFrozen(r) ==
  /\ work[r].pc \in {"searched", "written"}
  /\ \E n \in Selected(work[r].seen, work[r].inputs), stamp \in {0, work[r].search} :
       LET candidate == Candidate(r, n, stamp)
       IN FreezeNew(r, candidate) \/ FrozenBefore(r, candidate)

(* No feasible candidate, a torn file, or a candidate frozen before with     *)
(* another trial or time.                                                    *)
FreezeRefused(r) ==
  /\ work[r].pc \in {"searched", "written"}
  /\ \E stamp \in {0, work[r].search} :
       \A n \in Selected(work[r].seen, work[r].inputs) :
         dir.frozen \notin {NoFrozen, Frozen(Candidate(r, n, stamp))}
  /\ Raise(r)
  /\ UNCHANGED <<registry, optuna, files, dir, ghosts, searches, kills>>

WriteFrozen(r) ==
  /\ Freezing(r)
  /\ dir' = [dir EXCEPT !.frozen = Frozen(work[r].candidate)]
  /\ Stage(r, "frozen")
  /\ UNCHANGED <<registry, optuna, files, ghosts, searches, kills>>

(* The caller keeps what it has and goes no further. *)
Leave(r) ==
  /\ work[r].pc \in {"searched", "written", "frozen"}
  /\ Raise(r)
  /\ UNCHANGED <<registry, optuna, files, dir, ghosts, searches, kills>>

-----------------------------------------------------------------------------
(* evaluate_final_holdout_once *)

Opening(r) == work[r].pc = "opening"

(* Defect: only a result counts as an access. *)
CheckResultOnly(r) ==
  /\ work[r].pc = "frozen"
  /\ dir.result = "absent"
  /\ Stage(r, "opening")
  /\ raced' = (raced \/ \E other \in Processes \ {r} : Opening(other))
  /\ UNCHANGED <<registry, optuna, files, dir, openings, overlapped, searches, kills>>

(* Both looks at the access file, the function's own and the one of the      *)
(* writer just after it, with the same outcome.  The write itself truncates  *)
(* whatever another process wrote since.                                     *)
CheckHoldout(r) ==
  /\ work[r].pc = "frozen"
  /\ dir.access = "absent"
  /\ dir.result = "absent"
  /\ Stage(r, "opening")
  /\ raced' = (raced \/ \E other \in Processes \ {r} : Opening(other))
  /\ UNCHANGED <<registry, optuna, files, dir, openings, overlapped, searches, kills>>

HoldoutRefused(r) ==
  /\ work[r].pc = "frozen"
  /\ ~(dir.access = "absent" /\ dir.result = "absent")
  /\ Raise(r)
  /\ UNCHANGED <<registry, optuna, files, dir, ghosts, searches, kills>>

OpenHoldout(r) ==
  /\ Opening(r)
  /\ dir' = [dir EXCEPT !.access = "whole"]
  /\ openings' = openings + 1
  /\ Stage(r, "holdout")
  /\ UNCHANGED <<registry, optuna, files, raced, overlapped, searches, kills>>

(* A file another process wrote has another time, so writing it raises and   *)
(* leaves it as it is, unless the writer looked before it was there.         *)
Leaves(state, mine) ==
  {IF state = "absent" THEN mine ELSE state} \cup (IF raced THEN {mine} ELSE {})

HoldoutEvaluated(r) ==
  /\ work[r].pc = "holdout"
  /\ \E state \in Leaves(dir.result, "whole") : dir' = [dir EXCEPT !.result = state]
  /\ Raise(r)
  /\ UNCHANGED <<registry, optuna, files, ghosts, searches, kills>>

HoldoutFailed(r) ==
  /\ work[r].pc = "holdout"
  /\ \E state \in Leaves(dir.failure, "whole") : dir' = [dir EXCEPT !.failure = state]
  /\ Raise(r)
  /\ UNCHANGED <<registry, optuna, files, ghosts, searches, kills>>

-----------------------------------------------------------------------------
(* A process is killed *)

Torn(file) == IF file.state = "absent" THEN [file EXCEPT !.state = "torn"] ELSE file

Dies(r) ==
  /\ work[r].pc # "idle"
  /\ kills < MaxKills
  /\ kills' = kills + 1
  /\ Raise(r)
  /\ UNCHANGED <<registry, optuna, ghosts, searches>>

Kill(r) == Dies(r) /\ UNCHANGED <<files, dir>>

KillWritingStudy(r) ==
  LET s == work[r].study
  IN /\ \/ /\ work[r].pc = "result_file"
           /\ files' = [files EXCEPT ![s].result = Torn(@)]
        \/ /\ work[r].pc = "trials_file"
           /\ files' = [files EXCEPT ![s].trials = Torn(@)]
     /\ Dies(r)
     /\ UNCHANGED dir

(* A killed writer leaves part of its text, whatever the file held.          *)
KillWritingDir(r) ==
  /\ \/ /\ work[r].pc = "writing"
        /\ dir' = [dir EXCEPT !.search = [NoFile EXCEPT !.state = "torn"]]
     \/ /\ Freezing(r)
        /\ dir' = [dir EXCEPT !.frozen = [NoFrozen EXCEPT !.state = "torn"]]
     \/ /\ Opening(r)
        /\ dir' = [dir EXCEPT !.access = "torn"]
     \/ /\ work[r].pc = "holdout"
        /\ \/ \E state \in Leaves(dir.result, "torn") :
                dir' = [dir EXCEPT !.result = state]
           \/ \E state \in Leaves(dir.failure, "torn") :
                dir' = [dir EXCEPT !.failure = state]
  /\ Dies(r)
  /\ UNCHANGED files

Next ==
  \E r \in Processes :
    \/ \E p \in Protocols : StartSearch(r, p)
    \/ SearchStep(r)
    \/ CheckSearch(r)
    \/ SearchRefused(r)
    \/ WriteSearch(r)
    \/ CheckFrozen(r)
    \/ FreezeRefused(r)
    \/ WriteFrozen(r)
    \/ Leave(r)
    \/ CheckHoldout(r)
    \/ HoldoutRefused(r)
    \/ OpenHoldout(r)
    \/ HoldoutEvaluated(r)
    \/ HoldoutFailed(r)
    \/ Kill(r)
    \/ KillWritingStudy(r)
    \/ KillWritingDir(r)

Spec == Init /\ [][Next]_vars

(* A process that runs a study goes on with it. *)
FairSpec == Spec /\ \A r \in Processes : WF_vars(SearchStep(r))

-----------------------------------------------------------------------------
(* Properties *)

FileStates == {"absent", "torn", "whole"}

Candidates == [inputs : Protocols \cup {NoProtocol}, trial : Nat,
               values : Seq(Int), frozen_at : Nat]

Work == [pc : RunStages \cup {"idle", "searched", "writing", "written",
                              "freezing", "frozen", "opening", "holdout"},
         study : Studies, inputs : Protocols \cup {NoProtocol},
         remaining : Nat, seen : Seq(Trial), search : Nat,
         candidate : Candidates]

(* The registry, Optuna's database, the files and every process hold what    *)
(* their readers expect.                                                     *)
TypeOK ==
  /\ registry \in [Studies -> [inputs : Protocols \cup {NoProtocol},
                               status : {"none", "running", "complete"},
                               completed : Nat, candidates : SUBSET Nat]]
  /\ optuna \in [Studies -> [inputs : Protocols \cup {NoProtocol},
                             trials : Seq(Trial)]]
  /\ files \in [Studies -> [result : File, trials : File]]
  /\ work \in [Processes -> Work]
  /\ dir \in [search : File,
              frozen : [state : FileStates, candidate : Candidates],
              access : FileStates, result : FileStates, failure : FileStates]
  /\ openings \in Nat
  /\ raced \in BOOLEAN
  /\ overlapped \in BOOLEAN
  /\ searches \in 0 .. MaxSearches
  /\ kills \in 0 .. MaxKills

(* However often a study is killed and run again, and whatever attempts      *)
(* fail, no more trials complete than its protocol's budget has.             *)
BudgetKept ==
  \A s \in Studies :
    registry[s].inputs \in Protocols =>
      Cardinality(Completed(optuna[s].trials)) <= MaxTrials[registry[s].inputs]

(* A study the registry calls complete has both files whole, both made from  *)
(* the same history, and the registry's count and candidates are theirs.     *)
CompleteIsPublished ==
  \A s \in Studies :
    registry[s].status = "complete" =>
      /\ files[s].result.state = "whole"
      /\ files[s].trials = files[s].result
      /\ LET result == Result(files[s].result.of, registry[s].inputs)
         IN /\ registry[s].completed = result.completed
            /\ registry[s].candidates = result.candidates

(* One study id, one protocol: the trials in Optuna's database, the registry *)
(* and every process at work on them agree, through kills and through other  *)
(* protocols being asked of the same id.                                     *)
OneProtocolPerStudy ==
  /\ \A s \in Studies :
       optuna[s].inputs \in {NoProtocol, registry[s].inputs}
  /\ \A r \in Processes :
       work[r].pc \notin {"idle", "register"} =>
         registry[work[r].study].inputs = work[r].inputs

(* The frozen candidate is a feasible trial of the published history that no *)
(* other dominates, and of those the best by the declared priority,          *)
(* whichever search froze it.                                                *)
FrozenIsBest ==
  dir.frozen.state = "whole" =>
    LET frozen == dir.frozen.candidate
        published == files["challenger"].trials
    IN /\ published.state = "whole"
       /\ frozen.trial \in Feasible(published.of)
       /\ frozen.values = published.of[frozen.trial].values
       /\ \A n \in Feasible(published.of) \ {frozen.trial} :
            LET values == published.of[n].values
            IN /\ ~Dominates(values, frozen.values, Directions[frozen.inputs])
               /\ ~Precedes(values, frozen.values, frozen.inputs)

(* The holdout is given to an evaluator at most once, whatever fails and     *)
(* whoever dies, unless two processes passed the check together.             *)
OpenedOnceUnlessRaced == raced \/ openings <= 1

(* The folds a study is opened with leave out the holdout and the gap, score *)
(* every date of the last stretch of development once, and pass the          *)
(* function's own validation.                                                *)
FoldsAreSound ==
  \A r \in Processes :
    work[r].pc = "open" =>
      LET c == FoldConfig[work[r].inputs]
      IN /\ SlicesInRange(c)
         /\ GapIsKept(c)
         /\ HoldoutIsKeptOut(c)
         /\ ValidationsAreDisjoint(c)
         /\ ValidationsTile(c)
         /\ \A index \in DOMAIN Folds(c) : ValidGeometry(c, Folds(c)[index])

(* The result of a study, as the abstract specification knows it. *)
Published(s) ==
  IF files[s].result.state = "whole"
  THEN Result(files[s].result.of, registry[s].inputs)
  ELSE [candidates |-> {}, completed |-> -1]

Sealed ==
  INSTANCE SealedHoldout WITH
    Challenger <- "challenger",
    Unpublished <- [candidates |-> {}, completed |-> -1],
    Unfrozen <- NoCandidate,
    published <- [s \in Studies |-> Published(s)],
    frozen <- dir.frozen.candidate,
    freezing <- {r \in Processes : Freezing(r)},
    opening <- {r \in Processes : Opening(r)}

(* Results stay as published; a candidate is frozen from them, and stays     *)
(* unless two processes looked for the file together; the holdout is opened  *)
(* for a frozen candidate, and once unless two looked for that file together.*)
HoldoutSealed == Sealed!SealedSpec

(* A study killed anywhere after its last trial is completed by the next     *)
(* run, once nobody is killed any more: unless a file was torn, what the     *)
(* files say is what the run says again.                                     *)
Resumable(s) ==
  LET p == registry[s].inputs
      trials == optuna[s].trials
  IN /\ Cardinality(Completed(trials)) = MaxTrials[p]
     /\ files[s].result.state # "absent" =>
          SaysTheSame(files[s].result, trials, p)
     /\ files[s].trials \in {NoFile, [state |-> "whole", of |-> trials]}

ResumedStudyCompletes ==
  \A s \in Studies :
    ( /\ kills = MaxKills
      /\ \E r \in Processes : work[r].pc = "open" /\ work[r].study = s
      /\ Resumable(s) )
    ~> registry[s].status = "complete"

(* A run that has nothing left to try, and what it will find said already.   *)
Resuming(r, s) ==
  /\ work[r].study = s
  /\ \/ work[r].pc = "open"
     \/ work[r].pc = "trials" /\ work[r].remaining = 0
     \/ /\ work[r].pc \in {"result_file", "trials_file", "complete"}
        /\ work[r].seen = optuna[s].trials
  /\ Resumable(s)

(* Such a run evaluates no further trial and is refused at no file: whatever *)
(* happens but its death, it stays on its way until the study is complete.   *)
ResumedStudyGoesOn ==
  [][\A r \in Processes, s \in Studies :
       Resuming(r, s) /\ kills' = kills
       => Resuming(r, s)' \/ registry'[s].status = "complete"]_vars
================================================================================
