-------------------------- MODULE SealedHoldoutProofs --------------------------
(***************************************************************************)
(* Phase8Search implements SealedHoldout, for any number of processes, any *)
(* protocols, and any number of searches and kills: through torn files and *)
(* overlapping processes, results stay as published; and unless two        *)
(* processes were between look and write of the same file, the candidate   *)
(* stays as frozen and the holdout is opened only for it, and once.  And   *)
(* what is frozen is always best: undominated, and first among its equals  *)
(* by the priority.                                                        *)
(***************************************************************************)
EXTENDS Phase8SearchProofs

(* The candidate a process is about to write down is one it selected.        *)
Held(r) ==
  LET c == work[r].candidate
  IN /\ c.inputs = work[r].inputs
     /\ c.trial \in Selected(work[r].seen, work[r].inputs)
     /\ c.values = work[r].seen[c.trial].values

(* Where no two processes looked for the frozen file together, one that is   *)
(* about to write it finds it absent still, and one on its way to the        *)
(* holdout has seen it whole.                                                *)
Unoverlapped ==
  /\ \A r \in Processes :
       work[r].pc \in {"frozen", "opening"} => dir.frozen.state = "whole"
  /\ \A r \in Processes : Freezing(r) => dir.frozen = NoFrozen
  /\ \A q, r \in Processes : Freezing(q) /\ Freezing(r) => q = r

FreezerSaw ==
  /\ dir.frozen.state = "whole" <=> dir.frozen.candidate # NoCandidate
  /\ \A r \in Processes : Freezing(r) => Held(r)
  /\ overlapped \/ Unoverlapped

Settled == WellFormed /\ Accounted /\ Recorded /\ FreezerSaw /\ SealKept

Nothing == [candidates |-> {}, completed |-> -1]

LEMMA PublishedIsSomething ==
  ASSUME WellFormed, NEW s \in Studies, files[s].result.state = "whole"
  PROVE  /\ Published(s) # Nothing
         /\ Published(s) = Result(files[s].result.of, registry[s].inputs)
<1>1. files[s].result.of \in Seq(Trial)
  BY DEF WellFormed, TypeOK, File
<1>2. Result(files[s].result.of, registry[s].inputs).completed \in Nat
  BY <1>1, ResultType
<1>3. Published(s) = Result(files[s].result.of, registry[s].inputs)
  BY DEF Published
<1>4. Nothing.completed = -1
  BY DEF Nothing
<1> QED BY <1>2, <1>3, <1>4

(* What is published stays, whoever steps. *)
LEMMA QuietPublished ==
  ASSUME WellFormed, NEW r \in Processes, QuietStep(r), NEW s \in Studies
  PROVE  Published(s)' = Published(s)
<1>1. /\ files'[s].result.state = "whole" <=> files[s].result.state = "whole"
      /\ files'[s].result.of = files[s].result.of
      /\ registry' = registry
  BY QuietFiles DEF QuietStep
<1> QED BY <1>1 DEF Published

LEMMA StudyPublished ==
  ASSUME WellFormed, Accounted, Recorded, NEW r \in Processes, StudyStep(r),
         NEW s \in Studies
  PROVE  /\ s # work[r].study => Published(s)' = Published(s)
         /\ files[s].result.state = "whole" => Published(s)' = Published(s)
<1>1. /\ files \in [Studies -> [result : File, trials : File]]
      /\ work[r].study \in Studies
  BY StudyStepFrame DEF WellFormed, TypeOK
<1>2. s # work[r].study => Published(s)' = Published(s)
  BY StudyStepStores DEF Published
<1>3. ASSUME files[s].result.state = "whole" PROVE Published(s)' = Published(s)
  <2>1. CASE s # work[r].study
    BY <1>2, <2>1
  <2>2. CASE s = work[r].study
    <3>1. registry'[s].inputs = registry[s].inputs
      <4>1. registry'[s].inputs = work[r].inputs
        BY <2>2, StudyStepProtocol
      <4>2. CASE RegisterStart(r)
        <5>1. registry[s].inputs \in {NoProtocol, work[r].inputs}
          BY <2>2, <4>2 DEF RegisterStart
        <5>2. registry[s].inputs \in Protocols
          BY <1>3 DEF Recorded, ResultsAreAsked
        <5> QED BY <4>1, <5>1, <5>2, StudyAssumption
      <4>3. CASE ~RegisterStart(r)
        BY <2>2, <4>1, <4>3, StudyStepProtocol
      <4> QED BY <4>2, <4>3
    <3>2. files'[s].result = files[s].result
      <4>1. CASE WriteResultFile(r)
        <5>1. files' = [files EXCEPT ![s] = [files[s] EXCEPT
                          !.result = Written(files[s].result, work[r].seen)]]
          BY <2>2, <4>1 DEF WriteResultFile
        <5>2. Written(files[s].result, work[r].seen) = files[s].result
          BY <1>3 DEF Written
        <5>3. files[s] \in [result : File, trials : File]
          BY <1>1
        <5> QED BY <1>1, <5>1, <5>2, <5>3
      <4>2. CASE WriteTrialsFile(r)
        <5>1. files' = [files EXCEPT ![s] = [files[s] EXCEPT
                          !.trials = Written(files[s].trials, work[r].seen)]]
          BY <2>2, <4>2 DEF WriteTrialsFile
        <5>2. files[s] \in [result : File, trials : File]
          BY <1>1
        <5> QED BY <1>1, <5>1, <5>2
      <4>3. CASE ~WriteResultFile(r) /\ ~WriteTrialsFile(r)
        BY <4>3 DEF StudyStep, RegisterStart, OpenStudy, AskTrial,
             TrialEvaluated, TrialRaised, TellTrial, StopTrials,
             RegisterComplete, studyVars
      <4> QED BY <4>1, <4>2, <4>3
    <3> QED BY <3>1, <3>2 DEF Published
  <2> QED BY <2>1, <2>2
<1> QED BY <1>2, <1>3

-----------------------------------------------------------------------------
(* Who freezes and who opens. *)

(* What a process holds is something. *)
LEMMA HeldIsSomething ==
  ASSUME WellFormed, NEW r \in Processes, Freezing(r), Held(r)
  PROVE  work[r].candidate # NoCandidate
<1>1. work[r].inputs \in Protocols
  BY DEF WellFormed, Asked, Freezing
<1> QED BY <1>1, StudyAssumption DEF Held, NoCandidate

LEMMA LooksHeld ==
  ASSUME WellFormed, NEW r \in Processes, LooksToFreeze(r)
  PROVE  Freezing(r)' /\ Held(r)'
<1>1. PICK n \in Selected(work[r].seen, work[r].inputs),
           stamp \in {0, work[r].search} : FreezeNew(r, Candidate(r, n, stamp))
  BY DEF LooksToFreeze
<1> DEFINE c == Candidate(r, n, stamp)
<1>2. work[r] \in Work /\ work \in [Processes -> Work]
  BY DEF WellFormed, TypeOK
<1>3. work' = [work EXCEPT ![r] =
                 [work[r] EXCEPT !.pc = "freezing", !.candidate = c]]
  BY <1>1 DEF FreezeNew
<1>4. /\ c.inputs = work[r].inputs /\ c.trial = n
      /\ c.values = work[r].seen[n].values
  BY DEF Candidate
<1> HIDE DEF c
<1>5. /\ work'[r].pc = "freezing" /\ work'[r].candidate = c
      /\ work'[r].inputs = work[r].inputs /\ work'[r].seen = work[r].seen
  BY <1>2, <1>3 DEF Work
<1> QED BY <1>1, <1>4, <1>5 DEF Freezing, Held

LEMMA FreezerStep == WellFormed /\ FreezerSaw /\ [Next]_vars => FreezerSaw'
<1> SUFFICES ASSUME WellFormed, FreezerSaw, [Next]_vars PROVE FreezerSaw'
  OBVIOUS
<1>1. CASE UNCHANGED vars
  BY <1>1 DEF vars, ghosts, FreezerSaw, Unoverlapped, Freezing, Held
<1>2. CASE Next
  <2>1. PICK r \in Processes :
          Kinds(r) /\ \A q \in Processes \ {r} : work'[q] = work[q]
    BY <1>2, SealKinds
  <2>2. work \in [Processes -> Work] /\ dir \in Dir /\ AtRest.pc = "idle"
    BY DEF WellFormed, TypeOK, Dir, AtRest
  <2>3. ASSUME dir'.frozen.state = "whole"
                 <=> dir'.frozen.candidate # NoCandidate,
               Freezing(r)' => Held(r)',
               overlapped' \/ Unoverlapped'
        PROVE  FreezerSaw'
    <3>1. \A q \in Processes \ {r} : Freezing(q)' => Held(q)'
      BY <2>1 DEF FreezerSaw, Freezing, Held
    <3> QED BY <2>3, <3>1 DEF FreezerSaw
  <2>4. ASSUME dir'.frozen = dir.frozen, overlapped' = overlapped,
               work'[r].pc # "freezing",
               work'[r].pc \in {"frozen", "opening"} =>
                 dir.frozen.state = "whole" \/ overlapped
        PROVE  FreezerSaw'
    <3>1. overlapped' \/ Unoverlapped'
      BY <2>1, <2>4 DEF FreezerSaw, Unoverlapped, Freezing
    <3> QED BY <2>3, <2>4, <3>1 DEF FreezerSaw, Freezing
  <2>5. CASE Aside(r)
    BY <2>4, <2>5 DEF Aside, ghosts
  <2>6. CASE LooksToFreeze(r)
    <3>1. /\ UNCHANGED dir /\ dir.frozen = NoFrozen
          /\ overlapped' = (overlapped
                             \/ \E other \in Processes \ {r} : Freezing(other))
      BY <2>6 DEF LooksToFreeze, FreezeNew
    <3>2. Freezing(r)' /\ Held(r)'
      BY <2>6, LooksHeld
    <3>3. overlapped' \/ Unoverlapped'
      BY <2>1, <3>1, <3>2 DEF FreezerSaw, Unoverlapped, Freezing
    <3> QED BY <2>3, <3>1, <3>2, <3>3 DEF FreezerSaw
  <2>7. CASE WriteFrozen(r)
    <3>1. /\ dir'.frozen = Frozen(work[r].candidate) /\ Freezing(r)
          /\ overlapped' = overlapped
      BY <2>2, <2>7 DEF WriteFrozen, Dir, ghosts
    <3>2. work[r].candidate # NoCandidate
      BY <3>1, HeldIsSomething DEF FreezerSaw
    <3>3. work'[r].pc = "frozen"
      BY <2>7, StageFields DEF WriteFrozen
    <3>4. overlapped' \/ Unoverlapped'
      BY <2>1, <3>1, <3>3 DEF FreezerSaw, Unoverlapped, Freezing, Frozen
    <3> QED BY <2>3, <3>1, <3>2, <3>3, <3>4 DEF Frozen, Freezing
  <2>8. CASE StopsFreezing(r)
    <3>1. work'[r].pc = "idle" /\ overlapped' = overlapped /\ Freezing(r)
      BY <2>2, <2>8 DEF StopsFreezing, Raise, ghosts
    <3>2. CASE dir'.frozen = dir.frozen
      BY <2>4, <3>1, <3>2
    <3>3. CASE dir'.frozen = [NoFrozen EXCEPT !.state = "torn"]
      <4>1. dir'.frozen.state = "torn" /\ dir'.frozen.candidate = NoCandidate
        BY <3>3 DEF NoFrozen
      <4>2. overlapped' \/ Unoverlapped'
        BY <2>1, <3>1 DEF FreezerSaw, Unoverlapped, Freezing, NoFrozen
      <4> QED BY <2>3, <3>1, <4>1, <4>2 DEF Freezing
    <3> QED BY <2>8, <3>2, <3>3 DEF StopsFreezing
  <2>9. CASE CheckHoldout(r)
    <3>1. /\ UNCHANGED dir /\ overlapped' = overlapped
          /\ work[r].pc = "frozen"
      BY <2>9 DEF CheckHoldout
    <3>2. work'[r].pc = "opening"
      BY <2>9, StageFields DEF CheckHoldout
    <3> QED BY <2>4, <3>1, <3>2 DEF FreezerSaw, Unoverlapped
  <2>10. CASE OpenHoldout(r)
    <3>1. dir'.frozen = dir.frozen /\ overlapped' = overlapped
      BY <2>2, <2>10 DEF OpenHoldout, Dir
    <3>2. work'[r].pc = "holdout"
      BY <2>10, StageFields DEF OpenHoldout
    <3> QED BY <2>4, <3>1, <3>2
  <2>11. CASE StopsOpening(r)
    <3>1. /\ work'[r].pc = "idle" /\ overlapped' = overlapped
          /\ dir'.frozen = dir.frozen
      BY <2>2, <2>11 DEF StopsOpening, Raise, ghosts
    <3> QED BY <2>4, <3>1
  <2> QED BY <2>1, <2>5, <2>6, <2>7, <2>8, <2>9, <2>10, <2>11 DEF Kinds
<1> QED BY <1>1, <1>2

(* The candidate a process is about to freeze is in the published result. *)
LEMMA FreezesPublished ==
  ASSUME Settled, NEW r \in Processes,
         work[r].pc \in {"searched", "written", "freezing"},
         NEW n \in Selected(work[r].seen, work[r].inputs)
  PROVE  /\ Published("challenger") # Nothing
         /\ n \in Published("challenger").candidates
<1>1. "challenger" \in Studies /\ work[r].study = "challenger"
  BY DEF Settled, WellFormed, Asked, Studies, RunStages
<1>2. SaysTheSame(files["challenger"].result, work[r].seen, work[r].inputs)
  BY <1>1 DEF Settled, Recorded, ResultIsOut
<1>3. registry["challenger"].inputs = work[r].inputs
  BY <1>1 DEF Settled, Accounted, OneProtocolPerStudy
<1>4. /\ Published("challenger") # Nothing
      /\ Published("challenger")
           = Result(files["challenger"].result.of, registry["challenger"].inputs)
  BY <1>1, <1>2, PublishedIsSomething DEF SaysTheSame, Settled
<1>5. Published("challenger") = Result(work[r].seen, work[r].inputs)
  BY <1>2, <1>3, <1>4 DEF SaysTheSame
<1>6. work[r].seen \in Seq(Trial)
  BY DEF Settled, WellFormed, TypeOK, Work
<1>7. n \in SelectCandidates(work[r].seen, Directions[work[r].inputs])
  BY DEF Selected
<1> QED BY <1>4, <1>5, <1>6, <1>7, ResultType

-----------------------------------------------------------------------------
(* The mapping, step by step. *)

published == [s \in Studies |-> Published(s)]
freezing == {r \in Processes : Freezing(r)}
opening == {r \in Processes : Opening(r)}

(* Who is between look and write, after a step of one process. *)
LEMMA SetStep ==
  ASSUME NEW r \in Processes, \A q \in Processes \ {r} : work'[q] = work[q]
  PROVE  /\ work'[r].pc = "freezing" => freezing' = freezing \cup {r}
         /\ work'[r].pc # "freezing" => freezing' = freezing \ {r}
         /\ work'[r].pc = "opening" => opening' = opening \cup {r}
         /\ work'[r].pc # "opening" => opening' = opening \ {r}
         /\ work[r].pc # "freezing" => freezing \ {r} = freezing
         /\ work[r].pc # "opening" => opening \ {r} = opening
  BY DEF freezing, opening, Freezing, Opening

LEMMA PublishedStep ==
  ASSUME Settled, Next
  PROVE  \/ published' = published
         \/ /\ UNCHANGED <<dir, ghosts, freezing, opening>>
            /\ \E s \in Studies :
                 /\ Published(s) = Nothing
                 /\ Published(s)' # Nothing
                 /\ published' = [published EXCEPT ![s] = Published(s)']
<1> PICK r \in Processes : \/ \E p \in Protocols : StartSearch(r, p)
                           \/ StudyStep(r) /\ UNCHANGED <<dir, ghosts>>
                           \/ QuietStep(r)
  BY StepKinds DEF Settled
<1>1. CASE \E p \in Protocols : StartSearch(r, p)
  BY <1>1 DEF StartSearch, published, Published
<1>2. CASE QuietStep(r)
  BY <1>2, QuietPublished DEF published, Settled
<1>3. CASE StudyStep(r) /\ UNCHANGED <<dir, ghosts>>
  <2>1. PICK s \in Studies : s = work[r].study
    BY <1>3, StudyStepFrame DEF Settled
  <2>2. \A t \in Studies :
          /\ t # s => Published(t)' = Published(t)
          /\ files[t].result.state = "whole" => Published(t)' = Published(t)
    <3> TAKE t \in Studies
    <3>1. WellFormed /\ Accounted /\ Recorded /\ StudyStep(r)
      BY <1>3 DEF Settled
    <3> HIDE DEF Published
    <3> QED BY <2>1, <3>1, StudyPublished
  <2>3. CASE Published(s)' = Published(s)
    BY <2>2, <2>3 DEF published
  <2>4. CASE Published(s)' # Published(s)
    <3>1. Published(s) = Nothing
      BY <2>1, <2>2, <2>4 DEF Published, Nothing
    <3>2. Published(s)' # Nothing
      BY <2>4, <3>1
    <3>3. published' = [published EXCEPT ![s] = Published(s)']
      BY <2>1, <2>2 DEF published
    <3>4. /\ work'[r].pc \in RunStages \cup {"searched"}
          /\ work[r].pc \in RunStages
          /\ \A q \in Processes \ {r} : work'[q] = work[q]
      BY <1>3, StudyStepFrame DEF Settled, Searching
    <3>5. UNCHANGED <<freezing, opening>>
      BY <3>4, SetStep DEF RunStages
    <3> QED BY <1>3, <2>1, <3>1, <3>2, <3>3, <3>5
  <2> QED BY <2>3, <2>4
<1> QED BY <1>1, <1>2, <1>3

(* A step of the freezer. *)
LEMMA FreezingMapped ==
  ASSUME Settled, NEW r \in Processes,
         \A q \in Processes \ {r} : work'[q] = work[q], published' = published,
         LooksToFreeze(r) \/ WriteFrozen(r) \/ StopsFreezing(r)
  PROVE  Sealed!SealedNext
<1>1. /\ work \in [Processes -> Work] /\ dir \in Dir /\ AtRest.pc = "idle"
      /\ "challenger" \in Studies /\ WellFormed /\ FreezerSaw
  BY DEF Settled, WellFormed, TypeOK, Dir, AtRest, Studies
<1>2. UNCHANGED <<openings, raced>>
  BY DEF LooksToFreeze, FreezeNew, WriteFrozen, StopsFreezing, ghosts
<1>3. work'[r].pc # "opening" /\ work[r].pc # "opening" => opening' = opening
  BY SetStep
<1>4. CASE LooksToFreeze(r)
  <2>1. PICK n \in Selected(work[r].seen, work[r].inputs) :
          work[r].pc \in {"searched", "written"}
    BY <1>4 DEF LooksToFreeze
  <2>2. /\ UNCHANGED dir /\ dir.frozen = NoFrozen
        /\ overlapped' = (overlapped
                           \/ \E other \in Processes \ {r} : Freezing(other))
    BY <1>4 DEF LooksToFreeze, FreezeNew
  <2>3. work'[r].pc = "freezing"
    BY <1>1, <1>4, LooksHeld DEF Freezing
  <2>4. freezing' = freezing \cup {r} /\ opening' = opening
    BY <1>3, <2>1, <2>3, SetStep
  <2>5. overlapped' = (overlapped \/ freezing # {})
    <3>1. (\E other \in Processes \ {r} : Freezing(other)) <=> freezing # {}
      BY <2>1 DEF freezing, Freezing
    <3> QED BY <2>2, <3>1
  <2>6. published["challenger"] # Nothing
    BY <1>1, <2>1, FreezesPublished DEF published
  <2>7. dir.frozen.candidate = NoCandidate
    BY <2>2 DEF NoFrozen
  <2>8. Sealed!StartFreezing(r)
    BY <1>2, <2>2, <2>4, <2>5, <2>6, <2>7
       DEF Sealed!StartFreezing, Sealed!openVars, published, freezing, opening,
           Nothing
  <2> QED BY <2>8 DEF Sealed!SealedNext
<1>5. CASE WriteFrozen(r)
  <2>1. /\ dir'.frozen = Frozen(work[r].candidate) /\ Freezing(r)
        /\ overlapped' = overlapped
    BY <1>1, <1>5 DEF WriteFrozen, Dir, ghosts
  <2>2. work'[r].pc = "frozen"
    BY <1>1, <1>5, StageFields DEF WriteFrozen
  <2>3. /\ freezing' = freezing \ {r} /\ opening' = opening /\ r \in freezing
    BY <1>3, <2>1, <2>2, SetStep DEF Freezing, freezing
  <2>4. dir'.frozen.candidate.trial \in published["challenger"].candidates
    <3>1. work[r].candidate.trial \in Selected(work[r].seen, work[r].inputs)
      BY <1>1, <2>1 DEF FreezerSaw, Held
    <3>2. work[r].candidate.trial \in Published("challenger").candidates
      BY <2>1, <3>1, FreezesPublished DEF Freezing
    <3> QED BY <1>1, <2>1, <3>2 DEF Frozen, published
  <2>5. dir.frozen.candidate = NoCandidate \/ overlapped
    BY <1>1, <2>1 DEF FreezerSaw, Unoverlapped, NoFrozen
  <2>6. Sealed!Freeze(r)
    BY <1>2, <2>1, <2>3, <2>4, <2>5
       DEF Sealed!Freeze, Sealed!openVars, published, freezing, opening
  <2> QED BY <2>6 DEF Sealed!SealedNext
<1>6. CASE StopsFreezing(r)
  <2>1. work'[r].pc = "idle" /\ overlapped' = overlapped /\ Freezing(r)
    BY <1>1, <1>6 DEF StopsFreezing, Raise, ghosts
  <2>2. /\ freezing' = freezing \ {r} /\ opening' = opening /\ r \in freezing
    BY <1>3, <2>1, SetStep DEF Freezing, freezing
  <2>3. \/ dir'.frozen.candidate = dir.frozen.candidate
        \/ overlapped /\ dir'.frozen.candidate = NoCandidate
    <3>1. CASE dir'.frozen = dir.frozen
      BY <3>1
    <3>2. CASE dir'.frozen = [NoFrozen EXCEPT !.state = "torn"]
      <4>1. dir'.frozen.candidate = NoCandidate
        BY <3>2 DEF NoFrozen
      <4>2. overlapped \/ dir.frozen.candidate = NoCandidate
        BY <1>1, <2>1 DEF FreezerSaw, Unoverlapped, NoFrozen
      <4> QED BY <4>1, <4>2
    <3> QED BY <1>6, <3>1, <3>2 DEF StopsFreezing
  <2>4. Sealed!AbandonFreezing(r)
    BY <1>2, <2>1, <2>2, <2>3
       DEF Sealed!AbandonFreezing, Sealed!openVars, published, freezing, opening
  <2> QED BY <2>4 DEF Sealed!SealedNext
<1> QED BY <1>4, <1>5, <1>6

(* A step of one that opens the holdout. *)
LEMMA OpeningMapped ==
  ASSUME Settled, NEW r \in Processes,
         \A q \in Processes \ {r} : work'[q] = work[q], published' = published,
         CheckHoldout(r) \/ OpenHoldout(r) \/ StopsOpening(r)
  PROVE  Sealed!SealedNext
<1>1. /\ work \in [Processes -> Work] /\ dir \in Dir /\ AtRest.pc = "idle"
      /\ WellFormed /\ FreezerSaw /\ SealKept
  BY DEF Settled, WellFormed, TypeOK, Dir, AtRest
<1>2. overlapped' = overlapped /\ dir'.frozen = dir.frozen
  BY <1>1 DEF CheckHoldout, OpenHoldout, StopsOpening, ghosts, Dir
<1>3. work'[r].pc # "freezing" /\ work[r].pc # "freezing" => freezing' = freezing
  BY SetStep
<1>4. CASE CheckHoldout(r)
  <2>1. /\ work[r].pc = "frozen" /\ dir.access = "absent" /\ openings' = openings
        /\ raced' = (raced \/ \E other \in Processes \ {r} : Opening(other))
    BY <1>4 DEF CheckHoldout
  <2>2. work'[r].pc = "opening"
    BY <1>1, <1>4, StageFields DEF CheckHoldout
  <2>3. opening' = opening \cup {r} /\ freezing' = freezing
    BY <1>3, <2>1, <2>2, SetStep
  <2>4. raced' = (raced \/ opening # {})
    <3>1. (\E other \in Processes \ {r} : Opening(other)) <=> opening # {}
      BY <2>1 DEF opening, Opening
    <3> QED BY <2>1, <3>1
  <2>5. dir.frozen.candidate # NoCandidate \/ overlapped
    BY <1>1, <2>1 DEF FreezerSaw, Unoverlapped
  <2>6. openings = 0
    BY <1>1, <2>1 DEF SealKept
  <2>7. Sealed!StartOpening(r)
    BY <1>2, <2>1, <2>3, <2>4, <2>5, <2>6
       DEF Sealed!StartOpening, Sealed!freezeVars, published, freezing, opening
  <2> QED BY <2>7 DEF Sealed!SealedNext
<1>5. CASE OpenHoldout(r)
  <2>1. Opening(r) /\ openings' = openings + 1 /\ raced' = raced
    BY <1>5 DEF OpenHoldout
  <2>2. work'[r].pc = "holdout"
    BY <1>1, <1>5, StageFields DEF OpenHoldout
  <2>3. opening' = opening \ {r} /\ freezing' = freezing /\ r \in opening
    BY <1>3, <2>1, <2>2, SetStep DEF opening, Opening
  <2>4. openings = 0 \/ raced
    BY <1>1, <2>1 DEF SealKept, Unraced
  <2>5. Sealed!Open(r)
    BY <1>2, <2>1, <2>3, <2>4
       DEF Sealed!Open, Sealed!freezeVars, published, freezing, opening
  <2> QED BY <2>5 DEF Sealed!SealedNext
<1>6. CASE StopsOpening(r)
  <2>1. /\ work'[r].pc = "idle" /\ Opening(r) /\ UNCHANGED <<raced, openings>>
    BY <1>1, <1>6 DEF StopsOpening, Raise, ghosts
  <2>2. opening' = opening \ {r} /\ freezing' = freezing /\ r \in opening
    BY <1>3, <2>1, SetStep DEF opening, Opening
  <2>3. Sealed!AbandonOpening(r)
    BY <1>2, <2>1, <2>2
       DEF Sealed!AbandonOpening, Sealed!freezeVars, published, freezing, opening
  <2> QED BY <2>3 DEF Sealed!SealedNext
<1> QED BY <1>4, <1>5, <1>6

LEMMA MappedStep ==
  Settled /\ [Next]_vars => [Sealed!SealedNext]_(Sealed!governed)
<1> SUFFICES ASSUME Settled, [Next]_vars
             PROVE  Sealed!SealedNext \/ UNCHANGED Sealed!governed
  OBVIOUS
<1>1. CASE UNCHANGED vars
  BY <1>1 DEF vars, ghosts, Sealed!governed, Sealed!freezeVars, Sealed!openVars,
              Published, Freezing, Opening
<1>2. ASSUME Next, UNCHANGED <<dir, ghosts, freezing, opening>>, NEW s \in Studies,
             Published(s) = Nothing, Published(s)' # Nothing,
             published' = [published EXCEPT ![s] = Published(s)']
      PROVE  Sealed!SealedNext
  <2>1. UNCHANGED <<Sealed!freezeVars, Sealed!openVars>>
    BY <1>2 DEF Sealed!freezeVars, Sealed!openVars, ghosts, freezing, opening
  <2>2. /\ published[s] = Nothing /\ published'[s] # Nothing
        /\ published' = [published EXCEPT ![s] = published'[s]]
    BY <1>2 DEF published
  <2>3. Sealed!Publish(s)
    BY <2>1, <2>2 DEF Sealed!Publish, published, Nothing
  <2> QED BY <2>3 DEF Sealed!SealedNext
<1>3. ASSUME Next, published' = published
      PROVE  Sealed!SealedNext \/ UNCHANGED Sealed!governed
  <2>1. PICK r \in Processes :
          Kinds(r) /\ \A q \in Processes \ {r} : work'[q] = work[q]
    BY <1>3, SealKinds DEF Settled
  <2>2. CASE Aside(r)
    <3>1. freezing' = freezing /\ opening' = opening
      <4>1. /\ work[r].pc # "freezing" /\ work'[r].pc # "freezing"
            /\ work[r].pc # "opening" /\ work'[r].pc # "opening"
        BY <2>2 DEF Aside
      <4>2. freezing' = freezing \ {r} /\ opening' = opening \ {r}
        BY <2>1, <4>1, SetStep
      <4>3. freezing \ {r} = freezing /\ opening \ {r} = opening
        BY <2>1, <4>1, SetStep
      <4> QED BY <4>2, <4>3
    <3>2. dir'.frozen = dir.frozen /\ UNCHANGED <<openings, raced, overlapped>>
      BY <2>2 DEF Aside, ghosts
    <3> QED BY <1>3, <3>1, <3>2
            DEF Sealed!governed, Sealed!freezeVars, Sealed!openVars, published,
                freezing, opening
  <2>3. CASE LooksToFreeze(r) \/ WriteFrozen(r) \/ StopsFreezing(r)
    BY <1>3, <2>1, <2>3, FreezingMapped
  <2>4. CASE CheckHoldout(r) \/ OpenHoldout(r) \/ StopsOpening(r)
    BY <1>3, <2>1, <2>4, OpeningMapped
  <2> QED BY <2>1, <2>2, <2>3, <2>4 DEF Kinds
<1> QED BY <1>1, <1>2, <1>3, PublishedStep

LEMMA SettledInit == Init => Settled
<1> SUFFICES ASSUME Init PROVE Settled
  OBVIOUS
<1>1. FreezerSaw
  BY DEF Init, StudyInit, AtRest, NoFrozen, FreezerSaw, Unoverlapped, Freezing
<1>2. WellFormed
  BY InitType DEF WellFormed, Asked, Init, StudyInit, AtRest
<1>3. SealKept
  BY DEF Init, StudyInit, AtRest, SealKept, Unraced, Opening
<1> QED BY <1>1, <1>2, <1>3, AccountedInit, RecordedInit DEF Settled

LEMMA SettledStep == Settled /\ [Next]_vars => Settled'
  BY TypeStep, AccountedStep, RecordedStep, FreezerStep, SealStep DEF Settled

(* The studies, files and processes of Phase 8 do what the abstract          *)
(* specification says: one result per search; a candidate frozen from the    *)
(* published result; a holdout opened only for a frozen candidate.  Where    *)
(* look and write of one process lie apart, the candidate stays and the      *)
(* holdout is opened once; where two looked together, that and no more is    *)
(* lost.                                                                     *)
THEOREM SearchImplementsSeal == Spec => HoldoutSealed
<1>1. Init => Sealed!SealedInit
  BY DEF Init, StudyInit, AtRest, NoFile, NoFrozen, Sealed!SealedInit, Published,
         Freezing, Opening
<1> QED BY <1>1, SettledInit, SettledStep, MappedStep, PTL
        DEF Spec, HoldoutSealed, Sealed!SealedSpec

-----------------------------------------------------------------------------
(* What is frozen is best.  A finite set has a minimal element under any     *)
(* strict order.                                                             *)

LEMMA MinimalExists ==
  ASSUME NEW T, IsFiniteSet(T), T # {}, NEW R,
         \A x \in T : <<x, x>> \notin R,
         \A x, y, z \in T : <<x, y>> \in R /\ <<y, z>> \in R => <<x, z>> \in R
  PROVE  \E x \in T : \A y \in T : <<y, x>> \notin R
<1> DEFINE Under(x) == {y \in T : <<y, x>> \in R}
           F == {Under(x) : x \in T}
<1>1. F \subseteq FiniteSubsetsOf(T)
  <2>1. \A x \in T : Under(x) \in SUBSET T
    OBVIOUS
  <2> HIDE DEF Under
  <2> QED BY <2>1, FS_FiniteSubsetsOfFinite
<1>2. F # {}
  <2>1. PICK x \in T : TRUE
    OBVIOUS
  <2>2. Under(x) \in F
    OBVIOUS
  <2> QED BY <2>2
<1>3. PICK u \in F : \A v \in F : ~(<<v, u>> \in StrictSubsetOrdering(T))
  BY <1>1, <1>2, FS_StrictSubsetOrderingWellFounded, WFMin
<1>4. PICK x \in T : u = Under(x)
  OBVIOUS
<1>5. ASSUME NEW y \in T, <<y, x>> \in R
      PROVE  FALSE
  <2>1. Under(y) \in F
    OBVIOUS
  <2>2. y \in Under(x) /\ y \notin Under(y) /\ Under(y) \subseteq Under(x)
    BY <1>5
  <2>3. <<Under(y), Under(x)>> \in StrictSubsetOrdering(T)
    BY <2>2 DEF StrictSubsetOrdering
  <2> QED BY <1>3, <1>4, <2>1, <2>3
<1> QED BY <1>5

LEMMA FirstIndex ==
  ASSUME NEW k \in Nat, NEW T \in SUBSET (1 .. k), T # {}
  PROVE  \E j \in T : \A i \in T : j <= i
<1> DEFINE R == {e \in T \X T : e[1] < e[2]}
<1>1. IsFiniteSet(T)
  <2>1. IsFiniteSet(1 .. k)
    BY FS_Interval
  <2>2. T \subseteq 1 .. k
    OBVIOUS
  <2> HIDE DEF R
  <2> QED BY <2>1, <2>2, FS_Subset, Zenon
<1>2. \A x, y \in T : <<x, y>> \in R <=> x < y
  OBVIOUS
<1> HIDE DEF R
<1>3. \A x \in T : <<x, x>> \notin R
  BY <1>2
<1>4. \A x, y, z \in T : <<x, y>> \in R /\ <<y, z>> \in R => <<x, z>> \in R
  BY <1>2
<1>5. PICK j \in T : \A i \in T : <<i, j>> \notin R
  BY <1>1, <1>3, <1>4, MinimalExists
<1>6. ASSUME NEW i \in T PROVE j <= i
  <2>1. i \in Int /\ j \in Int
    OBVIOUS
  <2>2. ~(i < j)
    BY <1>2, <1>5
  <2> QED BY <2>1, <2>2
<1> QED BY <1>6

(* Values of a trial of p, one for each objective. *)
Measures(p) == {v \in Seq(Int) : Len(v) = Len(Directions[p])}

Objectives(p) == DOMAIN Directions[p]

LEMMA MeasureFacts ==
  ASSUME NEW p \in Protocols
  PROVE  /\ Objectives(p) = 1 .. Len(Directions[p])
         /\ Len(Directions[p]) \in Nat
         /\ Len(Directions[p]) > 0
         /\ \A v \in Measures(p), o \in Objectives(p) : v[o] \in Int
         /\ Len(Priority[p]) \in Nat
         /\ DOMAIN Priority[p] = 1 .. Len(Priority[p])
         /\ \A k \in DOMAIN Priority[p] : Priority[p][k] \in Objectives(p)
         /\ \A o \in Objectives(p) :
              \E k \in DOMAIN Priority[p] : Priority[p][k] = o
<1>1. Directions[p] \in Seq({"maximize", "minimize"}) /\ Len(Directions[p]) > 0
  BY StudyAssumption
<1>2. Priority[p] \in Seq(Objectives(p))
  BY Phase8Assumption DEF Objectives
<1>3. \A o \in Objectives(p) : \E k \in DOMAIN Priority[p] : Priority[p][k] = o
  BY Phase8Assumption DEF Objectives
<1> QED BY <1>1, <1>2, <1>3 DEF Objectives, Measures

LEMMA DominatesOrders ==
  ASSUME NEW p \in Protocols
  PROVE  /\ \A v \in Measures(p) : ~Dominates(v, v, Directions[p])
         /\ \A u, v, w \in Measures(p) :
              Dominates(u, v, Directions[p]) /\ Dominates(v, w, Directions[p])
                => Dominates(u, w, Directions[p])
<1>1. \A v \in Measures(p), o \in DOMAIN Directions[p] : v[o] \in Int
  BY MeasureFacts DEF Objectives
<1> QED BY <1>1 DEF Dominates, Better

(* The priority order: strict, and no two measures precede each other. *)
LEMMA PrecedesOrders ==
  ASSUME NEW p \in Protocols, NEW u \in Measures(p), NEW v \in Measures(p),
         Precedes(u, v, p)
  PROVE  u # v /\ ~Precedes(v, u, p)
<1>1. /\ \A o \in Objectives(p) : u[o] \in Int /\ v[o] \in Int
      /\ DOMAIN Priority[p] = 1 .. Len(Priority[p]) /\ Len(Priority[p]) \in Nat
      /\ \A k \in DOMAIN Priority[p] : Priority[p][k] \in Objectives(p)
  BY MeasureFacts
<1>2. PICK k \in DOMAIN Priority[p] :
        /\ Better(u[Priority[p][k]], v[Priority[p][k]],
                  Directions[p][Priority[p][k]])
        /\ \A j \in 1 .. k - 1 : u[Priority[p][j]] = v[Priority[p][j]]
  BY DEF Precedes
<1>3. u[Priority[p][k]] # v[Priority[p][k]]
  BY <1>1, <1>2 DEF Better
<1>4. ASSUME NEW l \in DOMAIN Priority[p],
             Better(v[Priority[p][l]], u[Priority[p][l]],
                    Directions[p][Priority[p][l]]),
             \A j \in 1 .. l - 1 : v[Priority[p][j]] = u[Priority[p][j]]
      PROVE  FALSE
  <2>1. v[Priority[p][l]] # u[Priority[p][l]]
    BY <1>1, <1>4 DEF Better
  <2>2. k = l
    <3>1. ~(k \in 1 .. l - 1) /\ ~(l \in 1 .. k - 1)
      BY <1>2, <1>3, <1>4, <2>1
    <3>2. k \in Int /\ l \in Int /\ 1 <= k /\ 1 <= l
      BY <1>1
    <3> QED BY <3>1, <3>2
  <2> QED BY <1>1, <1>2, <1>4, <2>2 DEF Better
<1> QED BY <1>3, <1>4 DEF Precedes

(* Whoever dominates, or equals, one that precedes, precedes as well. *)
LEMMA DominatorPrecedes ==
  ASSUME NEW p \in Protocols, NEW u \in Measures(p), NEW v \in Measures(p),
         NEW w \in Measures(p),
         Dominates(u, v, Directions[p]), Precedes(v, w, p)
  PROVE  Precedes(u, w, p)
<1> DEFINE At(x, j) == x[Priority[p][j]]
           Beats(x, y, j) == Better(At(x, j), At(y, j),
                                    Directions[p][Priority[p][j]])
<1>1. /\ DOMAIN Priority[p] = 1 .. Len(Priority[p]) /\ Len(Priority[p]) \in Nat
      /\ \A j \in DOMAIN Priority[p] :
           /\ Priority[p][j] \in DOMAIN Directions[p]
           /\ At(u, j) \in Int /\ At(v, j) \in Int /\ At(w, j) \in Int
  BY MeasureFacts DEF Objectives
<1>2. PICK k \in DOMAIN Priority[p] :
        Beats(v, w, k) /\ \A j \in 1 .. k - 1 : At(v, j) = At(w, j)
  BY DEF Precedes
<1>3. \A j \in DOMAIN Priority[p] : ~Beats(v, u, j)
  BY <1>1 DEF Dominates
<1>4. k \in Nat /\ k \in 1 .. k /\ 1 .. k \subseteq DOMAIN Priority[p]
  BY <1>1
<1> DEFINE T == {j \in 1 .. k : At(u, j) # At(w, j)}
<1>5. k \in T
  BY <1>1, <1>2, <1>3, <1>4 DEF Better
<1>6. PICK first \in T : \A i \in T : first <= i
  BY <1>4, <1>5, FirstIndex
<1>7. \A j \in 1 .. first - 1 : At(u, j) = At(w, j)
  <2> SUFFICES ASSUME NEW j \in 1 .. first - 1 PROVE At(u, j) = At(w, j)
    OBVIOUS
  <2>1. j \in 1 .. k /\ ~(first <= j)
    BY <1>4, <1>6
  <2> QED BY <1>6, <2>1
<1>8. Beats(u, w, first)
  <2>1. first \in DOMAIN Priority[p] /\ At(u, first) # At(w, first)
    BY <1>4, <1>6
  <2>2. CASE first = k
    BY <1>1, <1>2, <1>3, <2>1, <2>2 DEF Better
  <2>3. CASE first # k
    <3>1. first \in 1 .. k - 1
      BY <1>4, <1>6, <2>3
    <3>2. At(v, first) = At(w, first)
      BY <1>2, <3>1
    <3> QED BY <1>1, <1>3, <2>1, <3>2 DEF Better
  <2> QED BY <2>2, <2>3
<1> QED BY <1>7, <1>8, <1>4, <1>6 DEF Precedes

(* Every feasible trial is in the front or behind one that is. *)
LEMMA FrontDominates ==
  ASSUME NEW p \in Protocols, NEW trials \in Seq(Trial),
         \A n \in Completed(trials) : trials[n].values \in Measures(p),
         Len(Directions[p]) # 1,
         NEW n \in Feasible(trials)
  PROVE  \E m \in SelectCandidates(trials, Directions[p]) :
           m = n \/ Dominates(trials[m].values, trials[n].values, Directions[p])
<1> DEFINE Ahead(m, l) == Dominates(trials[m].values, trials[l].values,
                                    Directions[p])
           T == {m \in Feasible(trials) : m = n \/ Ahead(m, n)}
           R == {e \in T \X T : Ahead(e[1], e[2])}
<1>1. \A m \in Feasible(trials) : trials[m].values \in Measures(p)
  BY DEF Feasible
<1>2. IsFiniteSet(T)
  <2>1. IsFiniteSet(Completed(trials))
    BY ResultType
  <2> QED BY <2>1, FS_Subset DEF Feasible
<1>3. \A m \in Feasible(trials) : ~Ahead(m, m)
  BY <1>1, DominatesOrders
<1>4. \A j, m, l \in Feasible(trials) : Ahead(j, m) /\ Ahead(m, l) => Ahead(j, l)
  BY <1>1, DominatesOrders
<1> HIDE DEF Ahead
<1>5. \A x \in T : <<x, x>> \notin R
  BY <1>3
<1>6. \A x, y, z \in T : <<x, y>> \in R /\ <<y, z>> \in R => <<x, z>> \in R
  BY <1>4
<1>7. n \in T
  OBVIOUS
<1>8. PICK m \in T : \A y \in T : <<y, m>> \notin R
  <2> HIDE DEF T, R
  <2> QED BY <1>2, <1>5, <1>6, <1>7, MinimalExists
<1>9. ASSUME NEW l \in Feasible(trials), Ahead(l, m)
      PROVE  FALSE
  <2>1. l \in T
    BY <1>4, <1>9
  <2> QED BY <1>8, <1>9, <2>1
<1>10. m \in SelectCandidates(trials, Directions[p])
  BY <1>9 DEF SelectCandidates, Ahead
<1> QED BY <1>10 DEF Ahead

(* What _select_frozen_candidate picks is undominated and unpreceded among   *)
(* all feasible trials, not only in the front.                               *)
LEMMA SelectedIsBest ==
  ASSUME NEW p \in Protocols, NEW trials \in Seq(Trial),
         \A n \in Completed(trials) : trials[n].values \in Measures(p),
         NEW best \in Selected(trials, p),
         NEW n \in Feasible(trials) \ {best}
  PROVE  /\ best \in Feasible(trials)
         /\ ~Dominates(trials[n].values, trials[best].values, Directions[p])
         /\ ~Precedes(trials[n].values, trials[best].values, p)
<1> DEFINE Value(m) == trials[m].values
<1>1. /\ best \in SelectCandidates(trials, Directions[p])
      /\ \A m \in SelectCandidates(trials, Directions[p]) \ {best} :
           Precedes(Value(best), Value(m), p) \/ Value(best) = Value(m)
  BY DEF Selected
<1>2. best \in Feasible(trials)
  BY <1>1 DEF SelectCandidates
<1>3. \A m \in Feasible(trials) : Value(m) \in Measures(p)
  BY DEF Feasible
<1>4. CASE Len(Directions[p]) = 1
  <2>1. ~Better(Value(n)[1], Value(best)[1], Directions[p][1])
    <3>1. \/ Better(Value(best)[1], Value(n)[1], Directions[p][1])
          \/ Value(best)[1] = Value(n)[1]
      BY <1>1, <1>4 DEF SelectCandidates
    <3>2. Value(best)[1] \in Int /\ Value(n)[1] \in Int
      BY <1>2, <1>3, <1>4, MeasureFacts
    <3> QED BY <3>1, <3>2 DEF Better
  <2>2. Objectives(p) = {1}
    BY <1>4, MeasureFacts
  <2>3. \A k \in DOMAIN Priority[p] : Priority[p][k] = 1
    BY <2>2, MeasureFacts
  <2> QED BY <1>2, <2>1, <2>2, <2>3 DEF Dominates, Precedes, Objectives
<1>5. CASE Len(Directions[p]) # 1
  <2>1. ~Dominates(Value(n), Value(best), Directions[p])
    BY <1>1, <1>5 DEF SelectCandidates
  <2>2. ASSUME Precedes(Value(n), Value(best), p)
        PROVE  FALSE
    <3>1. PICK m \in SelectCandidates(trials, Directions[p]) :
            m = n \/ Dominates(Value(m), Value(n), Directions[p])
      BY <1>5, FrontDominates
    <3>2. m \in Feasible(trials)
      BY <1>5 DEF SelectCandidates
    <3>3. Precedes(Value(m), Value(best), p)
      BY <1>2, <1>3, <2>2, <3>1, <3>2, DominatorPrecedes
    <3>4. Value(m) # Value(best) /\ ~Precedes(Value(best), Value(m), p)
      BY <1>2, <1>3, <3>2, <3>3, PrecedesOrders
    <3> QED BY <1>1, <3>4
  <2> QED BY <1>2, <2>1, <2>2
<1> QED BY <1>4, <1>5

-----------------------------------------------------------------------------
(* Every completed trial has a value for each objective of its study.        *)

MeasuredTrials(trials, p) ==
  \A n \in Completed(trials) : trials[n].values \in Measures(p)

Measured ==
  \A s \in Studies : MeasuredTrials(optuna[s].trials, registry[s].inputs)

LEMMA MeasuredHistory ==
  ASSUME WellFormed, Accounted, Measured, NEW r \in Processes,
         NEW s \in Studies, s = work[r].study,
         AskTrial(r) \/ TrialEvaluated(r) \/ TrialRaised(r)
  PROVE  MeasuredTrials(optuna'[s].trials, work[r].inputs)
<1> DEFINE trials == optuna[s].trials
           p == work[r].inputs
<1>1. /\ optuna \in [Studies -> [inputs : Protocol, trials : Seq(Trial)]]
      /\ optuna[s] \in [inputs : Protocol, trials : Seq(Trial)]
      /\ trials \in Seq(Trial)
  BY DEF WellFormed, TypeOK, Protocol
<1>2. work[r].pc \in {"trials", "evaluate"}
  BY DEF AskTrial, TrialEvaluated, TrialRaised
<1>3. p \in Protocols /\ registry[s].inputs = p
  BY <1>2 DEF WellFormed, Asked, Accounted, OneProtocolPerStudy
<1>4. MeasuredTrials(trials, p)
  BY <1>3 DEF Measured
<1>5. CASE AskTrial(r)
  <2>1. optuna'[s].trials = Append(trials, RunningTrial)
    BY <1>1, <1>5 DEF AskTrial
  <2>2. Completed(Append(trials, RunningTrial)) = Completed(trials)
    BY <1>1, CompletedAsked
  <2>3. \A n \in Completed(trials) : Append(trials, RunningTrial)[n] = trials[n]
    BY <1>1 DEF Completed
  <2> QED BY <1>4, <2>1, <2>2, <2>3 DEF MeasuredTrials
<1>6. ASSUME NEW outcome \in Trial, TellTrial(r, outcome),
             outcome.state = "COMPLETE" => outcome.values \in Measures(p)
      PROVE  MeasuredTrials(optuna'[s].trials, p)
  <2> DEFINE told == [trials EXCEPT ![Len(trials)] = outcome]
  <2>1. optuna' = [optuna EXCEPT ![s] = [optuna[s] EXCEPT !.trials = told]]
    BY <1>1, <1>6 DEF TellTrial
  <2>2. optuna'[s].trials = told
    <3> HIDE DEF told
    <3> QED BY <1>1, <2>1
  <2>3. /\ told \in Seq(Trial) /\ Len(told) = Len(trials)
        /\ \A n \in 1 .. Len(trials) - 1 : told[n] = trials[n]
    BY <1>1, LastReplaced
  <2>4. Len(trials) \in DOMAIN trials => told[Len(trials)] = outcome
    BY <1>1
  <2>5. DOMAIN told = 1 .. Len(trials) /\ DOMAIN trials = 1 .. Len(trials)
        /\ Len(trials) \in Nat
    <3> HIDE DEF told
    <3> QED BY <1>1, <2>3
  <2> HIDE DEF told
  <2>6. ASSUME NEW n \in Completed(told) PROVE told[n].values \in Measures(p)
    <3>1. n \in 1 .. Len(trials) /\ told[n].state = "COMPLETE"
      BY <2>5 DEF Completed
    <3>2. CASE n = Len(trials)
      BY <1>6, <2>4, <2>5, <3>1, <3>2
    <3>3. CASE n # Len(trials)
      <4>1. n \in 1 .. Len(trials) - 1
        BY <2>5, <3>1, <3>3
      <4>2. n \in Completed(trials)
        BY <2>3, <2>5, <3>1, <4>1 DEF Completed
      <4> QED BY <1>4, <2>3, <4>1, <4>2 DEF MeasuredTrials
    <3> QED BY <3>2, <3>3
  <2> QED BY <2>2, <2>6 DEF MeasuredTrials
<1>7. CASE TrialRaised(r)
  <2>1. FailedTrial \in Trial /\ FailedTrial.state # "COMPLETE"
    BY RecordTypes DEF FailedTrial, RunningTrial
  <2> QED BY <1>6, <1>7, <2>1 DEF TrialRaised
<1>8. CASE TrialEvaluated(r)
  <2>1. PICK e \in Evaluations[p] : TellTrial(r, CompleteTrial(e))
    BY <1>8 DEF TrialEvaluated
  <2>2. /\ e \in [feasible : BOOLEAN, values : Seq(Int)]
        /\ Len(e.values) = Len(Directions[p])
    BY <1>3, StudyAssumption
  <2>3. CompleteTrial(e) \in Trial /\ CompleteTrial(e).values \in Measures(p)
    BY <2>2 DEF CompleteTrial, Trial, Measures
  <2> QED BY <1>6, <2>1, <2>3
<1> QED BY <1>5, <1>7, <1>8

LEMMA MeasuredStep ==
  WellFormed /\ Accounted /\ Measured /\ [Next]_vars => Measured'
<1> SUFFICES ASSUME WellFormed, Accounted, Measured, [Next]_vars
             PROVE  Measured'
  OBVIOUS
<1>1. ASSUME UNCHANGED <<registry, optuna>> PROVE Measured'
  BY <1>1 DEF Measured
<1>2. ASSUME NEW r \in Processes, StudyStep(r) PROVE Measured'
  <2>1. PICK s \in Studies : s = work[r].study
    BY <1>2, StudyStepFrame
  <2>2. \A t \in Studies : t # s =>
          registry'[t] = registry[t] /\ optuna'[t] = optuna[t]
    BY <1>2, <2>1, StudyStepStores
  <2>3. registry'[s].inputs = work[r].inputs
    BY <1>2, <2>1, StudyStepProtocol
  <2>4. MeasuredTrials(optuna'[s].trials, work[r].inputs)
    <3>1. CASE AskTrial(r) \/ TrialEvaluated(r) \/ TrialRaised(r)
      BY <2>1, <3>1, MeasuredHistory
    <3>2. CASE RegisterStart(r)
      <4>1. /\ optuna' = optuna
            /\ registry[s].inputs \in {NoProtocol, work[r].inputs}
        BY <2>1, <3>2 DEF RegisterStart
      <4>2. registry[s].inputs = NoProtocol => Completed(optuna[s].trials) = {}
        BY DEF Accounted, UntouchedIsEmpty, Completed
      <4>3. CASE registry[s].inputs = NoProtocol
        BY <4>1, <4>2, <4>3 DEF MeasuredTrials
      <4>4. CASE registry[s].inputs = work[r].inputs
        BY <4>1, <4>4 DEF Measured
      <4> QED BY <4>1, <4>3, <4>4
    <3>3. CASE /\ ~RegisterStart(r)
               /\ ~(AskTrial(r) \/ TrialEvaluated(r) \/ TrialRaised(r))
      <4>1. optuna'[s].trials = optuna[s].trials
        <5>1. CASE OpenStudy(r)
          BY <1>2, <2>1, <5>1, StudyStepStores
        <5>2. CASE ~OpenStudy(r)
          BY <1>2, <3>3, <5>2 DEF StudyStep, StopTrials, studyVars,
             WriteResultFile, WriteTrialsFile, RegisterComplete
        <5> QED BY <5>1, <5>2
      <4>2. registry[s].inputs = work[r].inputs
        BY <1>2, <2>1, <3>3, StudyStepProtocol
      <4> QED BY <4>1, <4>2 DEF Measured
    <3> QED BY <3>1, <3>2, <3>3
  <2>5. ASSUME NEW t \in Studies
        PROVE  MeasuredTrials(optuna'[t].trials, registry'[t].inputs)
    BY <2>2, <2>3, <2>4 DEF Measured
  <2> QED BY <2>5 DEF Measured
<1>3. CASE UNCHANGED vars
  BY <1>1, <1>3 DEF vars
<1> QED BY <1>1, <1>2, <1>3, StepKinds DEF StartSearch, QuietStep

(* The frozen candidate was selected from the trials in the file, which      *)
(* stays as it is.                                                           *)
FrozenSelected ==
  dir.frozen.state = "whole" =>
    LET f == dir.frozen.candidate
        out == files["challenger"].trials
    IN /\ f.inputs \in Protocols
       /\ out.state = "whole"
       /\ MeasuredTrials(out.of, f.inputs)
       /\ f.trial \in Selected(out.of, f.inputs)
       /\ f.values = out.of[f.trial].values

LEMMA TrialsFileStays ==
  ASSUME WellFormed, Next, files["challenger"].trials.state = "whole"
  PROVE  files'["challenger"].trials = files["challenger"].trials
<1> PICK r \in Processes : \/ \E p \in Protocols : StartSearch(r, p)
                           \/ StudyStep(r) \/ QuietStep(r)
  BY StepKinds
<1> DEFINE s == "challenger"
<1>1. /\ files \in [Studies -> [result : File, trials : File]]
      /\ files[s] \in [result : File, trials : File] /\ s \in Studies
  BY DEF WellFormed, TypeOK, Studies
<1>2. CASE \E p \in Protocols : StartSearch(r, p)
  BY <1>2 DEF StartSearch
<1>3. CASE QuietStep(r)
  BY <1>1, <1>3, QuietFiles
<1>4. CASE StudyStep(r) /\ s # work[r].study
  BY <1>1, <1>4, StudyStepStores
<1>5. CASE StudyStep(r) /\ s = work[r].study
  <2>1. CASE WriteResultFile(r)
    BY <1>1, <1>5, <2>1 DEF WriteResultFile
  <2>2. CASE WriteTrialsFile(r)
    <3>1. Written(files[s].trials, work[r].seen) = files[s].trials
      BY DEF Written
    <3>2. files' = [files EXCEPT ![s] = [files[s] EXCEPT
                      !.trials = Written(files[s].trials, work[r].seen)]]
      BY <1>5, <2>2 DEF WriteTrialsFile
    <3> QED BY <1>1, <3>1, <3>2
  <2>3. CASE ~WriteResultFile(r) /\ ~WriteTrialsFile(r)
    BY <1>5, <2>3 DEF StudyStep, RegisterStart, OpenStudy, AskTrial,
         TrialEvaluated, TrialRaised, TellTrial, StopTrials,
         RegisterComplete, studyVars
  <2> QED BY <2>1, <2>2, <2>3
<1> QED BY <1>2, <1>3, <1>4, <1>5

LEMMA FrozenStep ==
  Settled /\ Measured /\ FrozenSelected /\ [Next]_vars => FrozenSelected'
<1> SUFFICES ASSUME Settled, Measured, FrozenSelected, [Next]_vars
             PROVE  FrozenSelected'
  OBVIOUS
<1>1. CASE UNCHANGED vars
  BY <1>1 DEF vars, FrozenSelected
<1>2. ASSUME Next,
             dir'.frozen = dir.frozen \/ dir'.frozen.state # "whole"
      PROVE  FrozenSelected'
  BY <1>2, TrialsFileStays DEF FrozenSelected, Settled
<1>3. ASSUME Next, NEW r \in Processes, WriteFrozen(r) PROVE FrozenSelected'
  <2> DEFINE seen == work[r].seen
             p == work[r].inputs
             c == work[r].candidate
  <2>1. /\ work[r].pc = "freezing" /\ work[r].study = "challenger"
        /\ p \in Protocols /\ "challenger" \in Studies
    BY <1>3 DEF WriteFrozen, Freezing, Settled, WellFormed, Asked, RunStages,
                Studies
  <2>2. files["challenger"].trials = [state |-> "whole", of |-> seen]
    BY <2>1 DEF Settled, Recorded, TrialsAreOut
  <2>3. files'["challenger"].trials = [state |-> "whole", of |-> seen]
    BY <1>3, <2>2, TrialsFileStays DEF Settled
  <2>4. registry["challenger"].inputs = p
    BY <2>1 DEF Settled, Accounted, OneProtocolPerStudy
  <2>5. MeasuredTrials(seen, p)
    <3>1. MeasuredTrials(optuna["challenger"].trials, p)
      BY <2>1, <2>4 DEF Measured
    <3>2. Begins(seen, optuna["challenger"].trials)
      BY <2>1, <2>2 DEF Settled, Recorded, FilesBegin
    <3>3. /\ seen \in Seq(Trial)
          /\ optuna["challenger"].trials \in Seq(Trial)
      BY <2>1 DEF Settled, WellFormed, TypeOK, Work
    <3>4. \A m \in Completed(seen) :
            /\ m \in Completed(optuna["challenger"].trials)
            /\ seen[m] = optuna["challenger"].trials[m]
      BY <3>2, <3>3 DEF Begins, Completed
    <3> QED BY <3>1, <3>4 DEF MeasuredTrials
  <2>6. /\ c.inputs = p /\ c.trial \in Selected(seen, p)
        /\ c.values = seen[c.trial].values
    BY <2>1 DEF Settled, FreezerSaw, Freezing, Held
  <2>7. dir'.frozen.candidate = c
    BY <1>3 DEF Settled, WellFormed, TypeOK, WriteFrozen, Frozen
  <2> QED BY <2>1, <2>3, <2>5, <2>6, <2>7 DEF FrozenSelected
<1>4. ASSUME Next, NEW r \in Processes, Kinds(r), ~WriteFrozen(r)
      PROVE  FrozenSelected'
  <2>1. dir'.frozen = dir.frozen \/ dir'.frozen.state # "whole"
    BY <1>4 DEF Kinds, Aside, LooksToFreeze, FreezeNew, StopsFreezing,
                CheckHoldout, OpenHoldout, StopsOpening, NoFrozen,
                Settled, WellFormed, TypeOK
  <2> QED BY <1>2, <1>4, <2>1
<1> QED BY <1>1, <1>3, <1>4, SealKinds DEF Settled

LEMMA FrozenInit == Init => Measured /\ FrozenSelected
<1> SUFFICES ASSUME Init PROVE Measured /\ FrozenSelected
  OBVIOUS
<1>1. \A s \in Studies : optuna[s].trials = <<>>
  BY DEF Init, StudyInit
<1>2. Completed(<<>>) = {}
  BY DEF Completed
<1>3. dir.frozen.state = "absent"
  BY DEF Init, NoFrozen
<1> QED BY <1>1, <1>2, <1>3 DEF Measured, MeasuredTrials, FrozenSelected

(* Whichever search froze it, whoever was killed and whatever was torn, the  *)
(* frozen candidate is a feasible trial of the published history that no     *)
(* other dominates or precedes.                                              *)
THEOREM SearchFreezesBest == Spec => []FrozenIsBest
<1> DEFINE IInv == Settled /\ Measured /\ FrozenSelected
<1>1. Init => IInv
  BY SettledInit, FrozenInit
<1>2. IInv /\ [Next]_vars => IInv'
  BY SettledStep, MeasuredStep, FrozenStep DEF Settled
<1>3. IInv => FrozenIsBest
  <2> SUFFICES ASSUME IInv, dir.frozen.state = "whole" PROVE FrozenIsBest
    BY DEF FrozenIsBest
  <2> DEFINE f == dir.frozen.candidate
             out == files["challenger"].trials
  <2>1. /\ f.inputs \in Protocols
        /\ out.state = "whole"
        /\ MeasuredTrials(out.of, f.inputs)
        /\ f.trial \in Selected(out.of, f.inputs)
        /\ f.values = out.of[f.trial].values
    BY DEF FrozenSelected
  <2>2. out.of \in Seq(Trial)
    BY DEF Settled, WellFormed, TypeOK, Studies, File
  <2>3. f.trial \in Feasible(out.of)
    BY <2>1 DEF Selected, SelectCandidates
  <2>4. \A n \in Feasible(out.of) \ {f.trial} :
          /\ ~Dominates(out.of[n].values, f.values, Directions[f.inputs])
          /\ ~Precedes(out.of[n].values, f.values, f.inputs)
    BY <2>1, <2>2, SelectedIsBest DEF MeasuredTrials
  <2> QED BY <2>1, <2>3, <2>4 DEF FrozenIsBest
<1> QED BY <1>1, <1>2, <1>3, PTL DEF Spec
================================================================================
