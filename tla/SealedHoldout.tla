----------------------------- MODULE SealedHoldout -----------------------------
(***************************************************************************)
(* What a Phase 8 study promises, without files and databases: results are *)
(* published once and stay; a candidate is frozen only from the published  *)
(* result of the challenger and stays; and the holdout is opened only for  *)
(* a frozen candidate, and once.  Freezing and opening take two steps, to  *)
(* look and to write, and the last two promises hold unless two processes  *)
(* are between their look and their write together.                        *)
(***************************************************************************)
EXTENDS Naturals

CONSTANTS
  Processes,    \* those that freeze and open
  Studies,      \* the searches whose results are published
  Challenger,   \* the one a candidate is chosen from
  Unpublished,  \* no result yet
  Unfrozen      \* no candidate yet

VARIABLES
  published,   \* the result of each search, a record with its candidates,
               \* or Unpublished
  frozen,      \* the candidate chosen, a record with its trial, or Unfrozen
  freezing,    \* processes that found no candidate and write theirs
  overlapped,  \* whether two of them ever were at it together
  opening,     \* processes that found the holdout closed and open it
  raced,       \* whether two of them ever were at it together
  openings     \* how often the holdout was opened

freezeVars == <<frozen, freezing, overlapped>>
openVars == <<opening, raced, openings>>
governed == <<published, freezeVars, openVars>>

SealedInit ==
  /\ published = [s \in Studies |-> Unpublished]
  /\ frozen = Unfrozen
  /\ freezing = {}
  /\ overlapped = FALSE
  /\ opening = {}
  /\ raced = FALSE
  /\ openings = 0

Publish(s) ==
  /\ published[s] = Unpublished
  /\ published'[s] # Unpublished
  /\ published' = [published EXCEPT ![s] = published'[s]]
  /\ UNCHANGED <<freezeVars, openVars>>

StartFreezing(r) ==
  /\ frozen = Unfrozen
  /\ published[Challenger] # Unpublished
  /\ freezing' = freezing \cup {r}
  /\ overlapped' = (overlapped \/ freezing # {})
  /\ UNCHANGED <<published, frozen, openVars>>

Freeze(r) ==
  /\ r \in freezing
  /\ frozen = Unfrozen \/ overlapped
  /\ frozen'.trial \in published[Challenger].candidates
  /\ freezing' = freezing \ {r}
  /\ UNCHANGED <<published, overlapped, openVars>>

(* The process dies; its half-written file replaces what was there.         *)
AbandonFreezing(r) ==
  /\ r \in freezing
  /\ \/ frozen' = frozen
     \/ overlapped /\ frozen' = Unfrozen
  /\ freezing' = freezing \ {r}
  /\ UNCHANGED <<published, overlapped, openVars>>

StartOpening(r) ==
  /\ frozen # Unfrozen \/ overlapped
  /\ openings = 0
  /\ opening' = opening \cup {r}
  /\ raced' = (raced \/ opening # {})
  /\ UNCHANGED <<published, freezeVars, openings>>

Open(r) ==
  /\ r \in opening
  /\ openings = 0 \/ raced
  /\ openings' = openings + 1
  /\ opening' = opening \ {r}
  /\ UNCHANGED <<published, freezeVars, raced>>

AbandonOpening(r) ==
  /\ r \in opening
  /\ opening' = opening \ {r}
  /\ UNCHANGED <<published, freezeVars, raced, openings>>

SealedNext ==
  \/ \E s \in Studies : Publish(s)
  \/ \E r \in Processes :
       \/ StartFreezing(r) \/ Freeze(r) \/ AbandonFreezing(r)
       \/ StartOpening(r) \/ Open(r) \/ AbandonOpening(r)

SealedSpec == SealedInit /\ [][SealedNext]_governed
================================================================================
