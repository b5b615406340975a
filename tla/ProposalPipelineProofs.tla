------------------------- MODULE ProposalPipelineProofs -------------------------
(***************************************************************************)
(* What the proposal pipeline keeps for any number of runners, reviewers   *)
(* and proposals, whoever is killed when; and what only a runner that      *)
(* works alone keeps: one review per proposal, and the daily cap.          *)
(***************************************************************************)
EXTENDS ProposalPipeline, FiniteSetTheorems, SequenceTheorems, TLAPS

-----------------------------------------------------------------------------
(* Type correctness *)

(* A command that is at work has a proposal in hand.                        *)
HasWork == \A c \in Commands : command[c].pc # "idle" => command[c].todo # <<>>

TypeInv == TypeOK /\ HasWork

LEMMA CurrentIsProposal ==
  ASSUME TypeInv, NEW c \in Commands, command[c].pc # "idle"
  PROVE  /\ Current(c) \in Proposals
         /\ command[c].todo \in Seq(Proposals)
         /\ command[c].todo # <<>>
<1>1. command[c].todo \in Seq(Proposals) /\ command[c].todo # <<>>
  BY DEF TypeInv, TypeOK, PipelineTypeOK, Command, HasWork
<1> QED
  BY <1>1, HeadTailProperties DEF Current

(* Going on to the next proposal, or ending, leaves a well-formed command.  *)
LEMMA AdvanceType ==
  ASSUME TypeInv, NEW c \in Commands, command[c].pc # "idle",
         NEW used \in Nat, Advance(c, used)
  PROVE  command' \in [Commands -> Command] /\ HasWork'
<1> DEFINE todo == command[c].todo
<1>1. todo \in Seq(Proposals) /\ todo # <<>>
  BY CurrentIsProposal
<1>2. Tail(todo) \in Seq(Proposals) /\ Len(Tail(todo)) = Len(todo) - 1
  BY <1>1, HeadTailProperties
<1>3. Len(todo) # 1 => Tail(todo) # <<>>
  <2>1. \A s \in Seq(Proposals) : s # <<>> => Len(s) \in Nat \ {0}
    BY EmptySeq, Zenon
  <2>2. Len(todo) \in Nat
    BY <1>1, <2>1
  <2>3. Len(<<>>) = 0
    BY EmptySeq, Zenon
  <2>4. ASSUME Len(todo) # 1 PROVE Len(Tail(todo)) # Len(<<>>)
    BY <1>2, <2>2, <2>3, <2>4
  <2> QED
    BY <2>4, Zenon
<1>4. Ended \in Command /\ Ended.pc = "idle"
  BY EmptySeq, LedgerAssumption DEF Ended, Command, Stages
<1> DEFINE next == [pc |-> IF c \in Runners THEN "proposal" ELSE "review",
                    todo |-> Tail(todo),
                    reviewed |-> command[c].reviewed,
                    used |-> used,
                    at |-> 0,
                    ready |-> FALSE]
<1>5. next \in Command /\ next.todo = Tail(todo)
  <2>1. command[c] \in Command
    BY DEF TypeInv, TypeOK, PipelineTypeOK
  <2>2. 0 \in 0 .. MaxSecond
    BY LedgerAssumption
  <2> QED
    BY <1>2, <2>1, <2>2 DEF Command, Stages
<1>6. command' = [command EXCEPT ![c] = IF Len(todo) = 1 THEN Ended ELSE next]
  BY DEF Advance
<1> HIDE DEF next, todo
<1> QED
  BY <1>3, <1>4, <1>5, <1>6 DEF TypeInv, TypeOK, PipelineTypeOK, HasWork

LEMMA MoveToType ==
  ASSUME TypeInv, NEW c \in Commands, command[c].pc # "idle",
         NEW pc \in Stages, MoveTo(c, pc)
  PROVE  command' \in [Commands -> Command] /\ HasWork'
  BY DEF TypeInv, TypeOK, PipelineTypeOK, HasWork, MoveTo, Command

LEMMA InitType == Init => TypeInv
<1> SUFFICES ASSUME Init PROVE TypeInv
  OBVIOUS
<1>1. LedgerTypeOK
  BY LedgerAssumption
  DEF Init, LedgerInit, LedgerTypeOK, Seconds, Decisions, NoRow, Row, NoMetadata,
      Metadata, Marks
<1>2. PipelineTypeOK /\ HasWork
  BY LedgerAssumption, PipelineAssumption, EmptySeq
  DEF Init, PipelineInit, PipelineTypeOK, Command, Stages, Ended, HasWork
<1> QED
  BY <1>1, <1>2 DEF TypeInv, TypeOK

(* What the clock and the operator change stays of its type. *)
LEMMA EnvironmentType ==
  ASSUME LedgerTypeOK, Environment
  PROVE  now' \in Seconds /\ registry' \in [Strategies -> RegistryStates]
<1>1. CASE \E s \in Strategies, state \in {"running", "halted"} :
             UpsertPaperStrategy(s, state)
  BY <1>1 DEF LedgerTypeOK, UpsertPaperStrategy, RegistryStates
<1>2. CASE Tick
  BY <1>2, LedgerAssumption DEF LedgerTypeOK, Tick, Seconds
<1> QED
  BY <1>1, <1>2 DEF Environment

(* One step per action.                                                     *)
LEMMA StepType ==
  ASSUME TypeInv, [Next]_vars
  PROVE  TypeInv'
<1> USE DEF TypeInv, TypeOK, LedgerTypeOK, PipelineTypeOK, ledgerVars, pipelineVars
<1>0. 0 \in 0 .. MaxSecond /\ Seconds \subseteq 0 .. MaxSecond
  BY LedgerAssumption DEF Seconds
<1>1. ASSUME NEW p \in Proposals, WriteTradeProposalArtifact(p)
      PROVE  TypeInv'
  <2>1. <<p>> \in Seq(Proposals)
    OBVIOUS
  <2>2. <<p>> \o artifacts \in Seq(Proposals)
    BY <2>1, ConcatProperties
  <2> QED
    BY <1>1, <2>2 DEF WriteTradeProposalArtifact, HasWork
<1>2. ASSUME NEW c \in Commands, Begin(c)
      PROVE  TypeInv'
  <2>1. LoadedProposals \in Seq(Proposals)
    <3>1. CASE Len(artifacts) <= MaxFiles
      BY <3>1 DEF LoadedProposals
    <3>2. CASE ~(Len(artifacts) <= MaxFiles)
      <4>1. \A i \in 1 .. MaxFiles : artifacts[i] \in Proposals
        BY <3>2, PipelineAssumption, ElementOfSeq, LenProperties
      <4> QED
        BY <3>2, <4>1, PipelineAssumption, SubSeqProperties DEF LoadedProposals
    <3> QED
      BY <3>1, <3>2
  <2>2. PICK ids \in IF c \in Runners \ IncludesReviewed
                     THEN ReviewedProposalIds ELSE {{}} :
          command' = [command EXCEPT ![c] = [Ended EXCEPT
                        !.pc = "daily", !.todo = LoadedProposals, !.reviewed = ids]]
    BY <1>2 DEF Begin
  <2>3. ids \subseteq Proposals
    <3>1. ASSUME NEW S \in LatestPaperExecutionReviews(ReviewLimit)
          PROVE  {k[1] : k \in S} \subseteq Proposals
      <4>1. S \subseteq Proposals \X Seconds
        BY DEF LatestPaperExecutionReviews, Newest
      <4> QED
        BY <4>1
    <3> QED
      BY <2>2, <3>1 DEF ReviewedProposalIds
  <2>4. [Ended EXCEPT !.pc = "daily", !.todo = LoadedProposals, !.reviewed = ids]
          \in Command
    BY <1>0, <2>1, <2>3 DEF Ended, Command, Stages
  <2>5. LoadedProposals # <<>>
    BY <1>2 DEF Begin
  <2> HIDE DEF LoadedProposals
  <2>6. command' \in [Commands -> Command] /\ HasWork'
    BY <2>2, <2>4, <2>5 DEF HasWork, Ended
  <2> QED
    BY <1>2, <2>6 DEF Begin
<1>3. ASSUME NEW c \in Commands, ReadDailyUsed(c)
      PROVE  TypeInv'
  <2>1. PaperOrderNotionalToday \in Nat
    BY LedgerAssumption DEF PaperOrderNotionalToday, IsSum, Ticketed
  <2> DEFINE pc == IF c \in Runners THEN "proposal" ELSE "review"
             next == [command[c] EXCEPT !.used = PaperOrderNotionalToday, !.pc = pc]
  <2>2. command' = [command EXCEPT ![c] = next] /\ command[c].todo # <<>>
    BY <1>3 DEF ReadDailyUsed, HasWork
  <2>3. next \in Command /\ next.todo = command[c].todo
    BY <2>1 DEF Command, Stages
  <2> HIDE DEF next
  <2>4. command' \in [Commands -> Command] /\ HasWork'
    BY <2>2, <2>3 DEF HasWork
  <2> QED
    BY <1>3, <2>4 DEF ReadDailyUsed
<1>4. ASSUME NEW c \in Commands, SkipOrTake(c)
      PROVE  TypeInv'
  <2>1. command[c].pc # "idle" /\ command[c].used \in Nat
    BY <1>4 DEF SkipOrTake, Command
  <2>2. MoveTo(c, "review") \/ Advance(c, command[c].used)
    BY <1>4 DEF SkipOrTake
  <2>3. command' \in [Commands -> Command] /\ HasWork'
    BY <2>1, <2>2, MoveToType, AdvanceType DEF Stages
  <2> QED
    BY <1>4, <2>3 DEF SkipOrTake
<1>5. ASSUME NEW c \in Commands, WriteReview(c)
      PROVE  TypeInv'
  <2>1. Current(c) \in Proposals
    BY <1>5, CurrentIsProposal DEF WriteReview
  <2>2. reviews' \in [Proposals \X Seconds -> Decisions]
    BY <1>5, <2>1 DEF WriteReview, WritePaperExecutionReview, Decisions
  <2>3. ReviewPasses(Current(c), command[c].used) \in BOOLEAN
    BY DEF ReviewPasses
  <2> DEFINE ready == ReviewPasses(Current(c), command[c].used)
             next == [command[c] EXCEPT !.pc = "review_events", !.at = now,
                                        !.ready = ready]
  <2>4. command' = [command EXCEPT ![c] = next] /\ command[c].todo # <<>>
    BY <1>5 DEF WriteReview, HasWork
  <2>5. next \in Command /\ next.todo = command[c].todo
    BY <1>0, <2>3 DEF Command, Stages
  <2> HIDE DEF next
  <2>6. command' \in [Commands -> Command] /\ HasWork'
    BY <2>4, <2>5 DEF HasWork
  <2> QED
    BY <1>5, <2>2, <2>6 DEF WriteReview
<1>6. ASSUME NEW c \in Commands, WriteReviewEvents(c)
      PROVE  TypeInv'
  <2>1. command[c].pc # "idle" /\ command[c].used \in Nat
    BY <1>6 DEF WriteReviewEvents, Command
  <2>2. MoveTo(c, "gate") \/ Advance(c, command[c].used)
    BY <1>6 DEF WriteReviewEvents
  <2>3. command' \in [Commands -> Command] /\ HasWork'
    BY <2>1, <2>2, MoveToType, AdvanceType DEF Stages
  <2>4. events' \subseteq EventKinds \X Orders
    BY <1>6
    DEF WriteReviewEvents, WriteAccountTradeEvents, ReviewEvents, EventKinds, TicketsOf
  <2> QED
    BY <1>6, <2>3, <2>4 DEF WriteReviewEvents
<1>7. ASSUME NEW c \in Commands, TicketGate(c)
      PROVE  TypeInv'
  <2>1. command[c].pc # "idle" /\ command[c].used \in Nat
    BY <1>7 DEF TicketGate, Command
  <2>2. MoveTo(c, "tickets") \/ Advance(c, command[c].used)
    BY <1>7 DEF TicketGate
  <2>3. command' \in [Commands -> Command] /\ HasWork'
    BY <2>1, <2>2, MoveToType, AdvanceType DEF Stages
  <2> QED
    BY <1>7, <2>3 DEF TicketGate
<1>8. ASSUME NEW c \in Commands, WriteTickets(c)
      PROVE  TypeInv'
  <2>1. command[c].pc # "idle" /\ MoveTo(c, "ticket_events")
    BY <1>8 DEF WriteTickets
  <2>2. command' \in [Commands -> Command] /\ HasWork'
    BY <2>1, MoveToType DEF Stages
  <2>3. DryRunTicket(command[c].at) \in Row
    BY DEF DryRunTicket, Row, Metadata, Marks, TicketStatus, Command
  <2>4. orders' \in [Orders -> Row]
    BY <1>8, <2>3 DEF WriteTickets, WritePaperOrderTickets
  <2> QED
    BY <1>8, <2>2, <2>4 DEF WriteTickets
<1>9. ASSUME NEW c \in Commands, WriteTicketEvents(c)
      PROVE  TypeInv'
  <2>1. command[c].pc # "idle" /\ command[c].used \in Nat
    BY <1>9 DEF WriteTicketEvents, Command
  <2>2. Estimated[{Current(c)}] \in Nat
    BY <2>1, CurrentIsProposal, PipelineAssumption DEF IsSum
  <2>3. PICK used \in Nat : Advance(c, used)
    BY <1>9, <2>1, <2>2 DEF WriteTicketEvents
  <2>4. command' \in [Commands -> Command] /\ HasWork'
    BY <2>1, <2>3, AdvanceType
  <2>5. events' \subseteq EventKinds \X Orders
    BY <1>9 DEF WriteTicketEvents, WriteAccountTradeEvents, EventKinds, TicketsOf
  <2> QED
    BY <1>9, <2>4, <2>5 DEF WriteTicketEvents
<1>10. ASSUME NEW c \in Commands, Kill(c)
       PROVE  TypeInv'
  <2>1. Ended \in Command
    BY <1>0, EmptySeq DEF Ended, Command, Stages
  <2>2. kills' \in 0 .. MaxKills
    BY <1>10, PipelineAssumption DEF Kill
  <2>3. command' \in [Commands -> Command] /\ HasWork'
    BY <1>10, <2>1 DEF Kill, HasWork, Ended
  <2> QED
    BY <1>10, <2>2, <2>3 DEF Kill
<1>11. CASE Environment
  <2>1. UNCHANGED <<reviews, orders, events, artifacts, command, kills>>
    BY <1>11 DEF Environment, UpsertPaperStrategy, Tick
  <2>2. now' \in Seconds /\ registry' \in [Strategies -> RegistryStates]
    BY <1>11, EnvironmentType
  <2>3. LedgerTypeOK'
    BY <2>1, <2>2 DEF LedgerTypeOK
  <2> QED
    BY <2>1, <2>3 DEF HasWork
<1>12. CASE UNCHANGED vars
  BY <1>12 DEF vars, HasWork
<1> QED
  BY <1>1, <1>2, <1>3, <1>4, <1>5, <1>6, <1>7, <1>8, <1>9, <1>10, <1>11, <1>12
  DEF Next, PipelineNext, Step

(* Every reachable state of the pipeline is well-formed, for any number of  *)
(* commands and proposals.                                                  *)
THEOREM PipelineTypeCorrect == Spec => []TypeOK
<1>1. TypeInv => TypeOK
  BY DEF TypeInv
<1> QED
  BY <1>1, InitType, StepType, PTL DEF Spec

-----------------------------------------------------------------------------
(* No row, event or ticket runs ahead of what it rests on *)

PastReview == {"review_events", "gate", "tickets", "ticket_events"}

OnFile(p, t) == t \in Seconds /\ reviews[<<p, t>>] # "none"

(* What a command between its commits relies on is in the ledger.           *)
Backed(c) ==
  /\ command[c].pc \in PastReview => OnFile(Current(c), command[c].at)
  /\ command[c].pc = "ticket_events" => \A o \in TicketsOf(Current(c)) : HasTicket(o)

TicketsBacked ==
  \A o \in Orders : HasTicket(o) => OnFile(ProposalOf[o], orders[o].created_at)

FilesInv ==
  /\ TypeInv
  /\ TicketsBacked
  /\ NoEventWithoutRow
  /\ \A c \in Commands : Backed(c)

(* No statement of the pipeline deletes a row.                              *)
RowsStay ==
  /\ \A k \in Proposals \X Seconds : reviews[k] # "none" => reviews'[k] # "none"
  /\ \A o \in Orders : HasTicket(o) => HasTicket(o)'

LEMMA RowsStayInPlace ==
  ASSUME TypeInv, [Next]_vars
  PROVE  RowsStay
<1> USE DEF TypeInv, TypeOK, LedgerTypeOK, HasTicket, ledgerVars, RowsStay
<1>1. ASSUME NEW c \in Commands, WriteReview(c)
      PROVE  RowsStay
  BY <1>1 DEF WriteReview, WritePaperExecutionReview
<1>2. ASSUME NEW c \in Commands, WriteTickets(c)
      PROVE  RowsStay
  BY <1>2 DEF WriteTickets, WritePaperOrderTickets, DryRunTicket
<1>3. CASE UNCHANGED <<reviews, orders>>
  BY <1>3
<1>4. ASSUME NEW c \in Commands, Step(c) \/ Kill(c), ~WriteReview(c), ~WriteTickets(c)
      PROVE  UNCHANGED <<reviews, orders>>
  BY <1>4 DEF Step, Begin, ReadDailyUsed, SkipOrTake, WriteReviewEvents,
              TicketGate, WriteTicketEvents, Kill
<1>5. ASSUME NEW p \in Proposals, WriteTradeProposalArtifact(p)
      PROVE  UNCHANGED <<reviews, orders>>
  BY <1>5 DEF WriteTradeProposalArtifact
<1>6. Environment \/ UNCHANGED vars => UNCHANGED <<reviews, orders>>
  BY DEF Environment, UpsertPaperStrategy, Tick, vars
<1> QED
  BY <1>1, <1>2, <1>3, <1>4, <1>5, <1>6 DEF Next, PipelineNext

(* A command that does nothing stays backed, because rows stay.             *)
LEMMA StaysBacked ==
  ASSUME FilesInv, RowsStay, NEW c \in Commands,
         \/ command'[c] = command[c]
         \/ command'[c].pc \notin PastReview
         \/ /\ command[c].pc \in PastReview
            /\ command'[c].pc \in {"gate", "tickets"}
            /\ command'[c].todo = command[c].todo
            /\ command'[c].at = command[c].at
  PROVE  Backed(c)'
<1>1. CASE command'[c].pc \notin PastReview
  BY <1>1 DEF Backed, PastReview
<1>2. CASE command'[c].pc \in PastReview
  <2>1. /\ command[c].pc \in PastReview
        /\ Current(c)' = Current(c)
        /\ command'[c].at = command[c].at
    BY <1>2 DEF Current, PastReview
  <2>2. Current(c) \in Proposals
    BY <2>1, CurrentIsProposal DEF FilesInv, PastReview
  <2>3. OnFile(Current(c), command[c].at)'
    BY <2>1, <2>2 DEF FilesInv, Backed, OnFile, RowsStay
  <2>4. ASSUME command'[c].pc = "ticket_events", NEW o \in TicketsOf(Current(c))
        PROVE  HasTicket(o)'
    <3>1. command[c].pc = "ticket_events"
      BY <1>2, <2>4 DEF PastReview
    <3>2. HasTicket(o) /\ o \in Orders
      BY <2>4, <3>1 DEF FilesInv, Backed, TicketsOf
    <3> QED
      BY <3>2 DEF RowsStay
  <2> QED
    BY <2>1, <2>3, <2>4 DEF Backed, TicketsOf
<1> QED
  BY <1>1, <1>2

LEMMA AdvanceLeavesReview ==
  ASSUME TypeInv, NEW c \in Commands, NEW used, Advance(c, used)
  PROVE  /\ command'[c].pc \notin PastReview
         /\ \A d \in Commands \ {c} : command'[d] = command[d]
BY DEF TypeInv, TypeOK, PipelineTypeOK, Advance, Ended, PastReview

LEMMA BeginsWithReads ==
  ASSUME TypeInv, NEW c \in Commands, Begin(c)
  PROVE  /\ command'[c].pc = "daily"
         /\ \A d \in Commands \ {c} : command'[d] = command[d]
<1>1. PICK ids :
        command' = [command EXCEPT ![c] = [Ended EXCEPT
                      !.pc = "daily", !.todo = LoadedProposals, !.reviewed = ids]]
  BY DEF Begin
<1>2. \A loaded :
        [Ended EXCEPT !.pc = "daily", !.todo = loaded, !.reviewed = ids].pc = "daily"
  BY DEF Ended
<1> QED
  BY <1>1, <1>2 DEF TypeInv, TypeOK, PipelineTypeOK

LEMMA MoveToMoves ==
  ASSUME TypeInv, NEW c \in Commands, NEW pc, MoveTo(c, pc)
  PROVE  /\ command'[c].pc = pc
         /\ command'[c].todo = command[c].todo
         /\ command'[c].at = command[c].at
         /\ \A d \in Commands \ {c} : command'[d] = command[d]
BY DEF TypeInv, TypeOK, PipelineTypeOK, MoveTo, Command

(* The steps that write neither a row nor an event.                         *)
LEMMA QuietStep ==
  ASSUME FilesInv, RowsStay, TypeInv', UNCHANGED <<reviews, orders, events>>,
         \A c \in Commands : Backed(c)'
  PROVE  FilesInv'
<1>1. TicketsBacked'
  BY DEF FilesInv, TicketsBacked, OnFile, HasTicket
<1>2. NoEventWithoutRow'
  BY DEF FilesInv, NoEventWithoutRow, HasTicket, Reviewed
<1> QED
  BY <1>1, <1>2 DEF FilesInv

LEMMA FilesStep ==
  ASSUME FilesInv, [Next]_vars
  PROVE  FilesInv'
<1>1. TypeInv /\ TypeInv' /\ RowsStay
  BY StepType, RowsStayInPlace DEF FilesInv
<1>2. ASSUME NEW c \in Commands,
             \/ Begin(c) \/ ReadDailyUsed(c) \/ SkipOrTake(c)
             \/ TicketGate(c) \/ Kill(c)
      PROVE  FilesInv'
  <2>1. UNCHANGED <<reviews, orders, events>>
    BY <1>2 DEF Begin, ReadDailyUsed, SkipOrTake, TicketGate, Kill, ledgerVars
  <2>2. /\ \A d \in Commands \ {c} : command'[d] = command[d]
        /\ \/ command'[c].pc \notin PastReview
           \/ /\ command[c].pc \in PastReview
              /\ command'[c].pc = "tickets"
              /\ command'[c].todo = command[c].todo
              /\ command'[c].at = command[c].at
    <3>1. CASE Begin(c)
      BY <1>1, <3>1, BeginsWithReads DEF PastReview
    <3>2. CASE Kill(c)
      BY <1>1, <3>2 DEF TypeInv, TypeOK, PipelineTypeOK, Kill, Ended, PastReview
    <3>3. CASE ReadDailyUsed(c)
      BY <1>1, <3>3
      DEF TypeInv, TypeOK, PipelineTypeOK, Command, ReadDailyUsed, PastReview
    <3>4. CASE SkipOrTake(c)
      BY <1>1, <3>4, AdvanceLeavesReview, MoveToMoves DEF SkipOrTake, PastReview
    <3>5. CASE TicketGate(c)
      BY <1>1, <3>5, AdvanceLeavesReview, MoveToMoves DEF TicketGate, PastReview
    <3> QED
      BY <1>2, <3>1, <3>2, <3>3, <3>4, <3>5
  <2>3. \A d \in Commands : Backed(d)'
    BY <1>1, <2>2, StaysBacked
  <2> QED
    BY <1>1, <2>1, <2>3, QuietStep
<1>3. ASSUME NEW c \in Commands, WriteReview(c)
      PROVE  FilesInv'
  <2>1. Current(c) \in Proposals
    BY <1>1, <1>3, CurrentIsProposal DEF WriteReview
  <2>2. /\ command'[c].pc = "review_events"
        /\ command'[c].at = now
        /\ Current(c)' = Current(c)
        /\ \A d \in Commands \ {c} : command'[d] = command[d]
    BY <1>1, <1>3
    DEF TypeInv, TypeOK, PipelineTypeOK, Command, WriteReview, Current
  <2>3. PICK decision \in {"ready", "blocked"} :
          reviews' = [reviews EXCEPT ![<<Current(c), now>>] = decision]
    BY <1>3 DEF WriteReview, WritePaperExecutionReview
  <2>4. Backed(c)'
    <3>1. <<Current(c), now>> \in Proposals \X Seconds
      BY <1>1, <2>1 DEF TypeInv, TypeOK, LedgerTypeOK
    <3>2. reviews'[<<Current(c), now>>] # "none"
      BY <1>1, <2>3, <3>1 DEF TypeInv, TypeOK, LedgerTypeOK
    <3> QED
      BY <1>1, <2>2, <3>1, <3>2 DEF Backed, OnFile
  <2>5. \A d \in Commands : Backed(d)'
    BY <1>1, <2>2, <2>4, StaysBacked
  <2>6. orders' = orders /\ events' = events
    BY <1>3 DEF WriteReview
  <2>7. TicketsBacked'
    BY <1>1, <2>6, LedgerAssumption
    DEF FilesInv, TicketsBacked, OnFile, HasTicket, RowsStay
  <2>8. NoEventWithoutRow'
    BY <1>1, <2>6, LedgerAssumption
    DEF FilesInv, NoEventWithoutRow, HasTicket, Reviewed, RowsStay
  <2> QED
    BY <1>1, <2>5, <2>7, <2>8 DEF FilesInv
<1>4. ASSUME NEW c \in Commands, WriteReviewEvents(c)
      PROVE  FilesInv'
  <2>1. Current(c) \in Proposals /\ Reviewed(Current(c))
    BY <1>1, <1>4, CurrentIsProposal
    DEF FilesInv, Backed, OnFile, PastReview, Reviewed, WriteReviewEvents
  <2>2. /\ \A d \in Commands \ {c} : command'[d] = command[d]
        /\ \/ command'[c].pc \notin PastReview
           \/ /\ command[c].pc \in PastReview
              /\ command'[c].pc = "gate"
              /\ command'[c].todo = command[c].todo
              /\ command'[c].at = command[c].at
    BY <1>1, <1>4, AdvanceLeavesReview, MoveToMoves DEF WriteReviewEvents, PastReview
  <2>3. \A d \in Commands : Backed(d)'
    BY <1>1, <2>2, StaysBacked
  <2>4. TicketsBacked'
    BY <1>4 DEF WriteReviewEvents, FilesInv, TicketsBacked, OnFile, HasTicket
  <2>5. NoEventWithoutRow'
    BY <1>4, <2>1
    DEF WriteReviewEvents, WriteAccountTradeEvents, ReviewEvents, TicketsOf, FilesInv,
        NoEventWithoutRow, HasTicket, Reviewed
  <2> QED
    BY <1>1, <2>3, <2>4, <2>5 DEF FilesInv
<1>5. ASSUME NEW c \in Commands, WriteTickets(c)
      PROVE  FilesInv'
  <2>1. Current(c) \in Proposals /\ OnFile(Current(c), command[c].at)
    BY <1>1, <1>5, CurrentIsProposal
    DEF FilesInv, Backed, PastReview, WriteTickets
  <2>2. /\ command'[c].pc = "ticket_events"
        /\ command'[c].at = command[c].at
        /\ Current(c)' = Current(c)
        /\ \A d \in Commands \ {c} : command'[d] = command[d]
    BY <1>1, <1>5, MoveToMoves DEF WriteTickets, Current
  <2>3. \A o \in TicketsOf(Current(c)) : HasTicket(o)'
    BY <1>5 DEF WriteTickets, WritePaperOrderTickets, DryRunTicket, TicketsOf, HasTicket
  <2>4. reviews' = reviews /\ events' = events
    BY <1>5 DEF WriteTickets
  <2>5. Backed(c)'
    BY <2>1, <2>2, <2>3, <2>4 DEF Backed, OnFile, TicketsOf
  <2>6. \A d \in Commands : Backed(d)'
    BY <1>1, <2>2, <2>5, StaysBacked
  <2>7. TicketsBacked'
    BY <1>5, <2>1, <2>4
    DEF WriteTickets, WritePaperOrderTickets, DryRunTicket, FilesInv, TicketsBacked,
        OnFile, HasTicket
  <2>8. NoEventWithoutRow'
    BY <1>1, <2>4 DEF FilesInv, NoEventWithoutRow, RowsStay, Reviewed
  <2> QED
    BY <1>1, <2>6, <2>7, <2>8 DEF FilesInv
<1>6. ASSUME NEW c \in Commands, WriteTicketEvents(c)
      PROVE  FilesInv'
  <2>1. \A o \in TicketsOf(Current(c)) : HasTicket(o)
    BY <1>6 DEF FilesInv, Backed, WriteTicketEvents
  <2>2. PICK used : Advance(c, used)
    BY <1>6 DEF WriteTicketEvents
  <2>3. \A d \in Commands : Backed(d)'
    BY <1>1, <2>2, AdvanceLeavesReview, StaysBacked
  <2>4. TicketsBacked'
    BY <1>6 DEF WriteTicketEvents, FilesInv, TicketsBacked, OnFile, HasTicket
  <2>5. NoEventWithoutRow'
    BY <1>6, <2>1
    DEF WriteTicketEvents, WriteAccountTradeEvents, FilesInv, NoEventWithoutRow,
        HasTicket, Reviewed
  <2> QED
    BY <1>1, <2>3, <2>4, <2>5 DEF FilesInv
<1>7. CASE \/ \E p \in Proposals : WriteTradeProposalArtifact(p)
           \/ Environment
           \/ UNCHANGED vars
  <2>1. UNCHANGED <<reviews, orders, events, command>>
    BY <1>7 DEF WriteTradeProposalArtifact, Environment, UpsertPaperStrategy, Tick,
                ledgerVars, pipelineVars, vars
  <2>2. \A d \in Commands : Backed(d)'
    BY <1>1, <2>1, StaysBacked
  <2> QED
    BY <1>1, <2>1, <2>2, QuietStep
<1> QED
  BY <1>2, <1>3, <1>4, <1>5, <1>6, <1>7 DEF Next, PipelineNext, Step

(* A ticket rests on a review that was committed before it, and an event on *)
(* the row it reports, for any mix of runners and reviewers and any kills.  *)
THEOREM RowsBehindTicketsAndEvents == Spec => [](ReviewBehindTicket /\ NoEventWithoutRow)
<1>1. Init => FilesInv
  <2> SUFFICES ASSUME Init PROVE FilesInv
    OBVIOUS
  <2>1. TypeInv
    BY InitType
  <2>2. TicketsBacked /\ NoEventWithoutRow
    BY DEF Init, LedgerInit, TicketsBacked, NoEventWithoutRow, HasTicket, NoRow
  <2>3. \A c \in Commands : Backed(c)
    BY DEF Init, PipelineInit, Backed, PastReview, Ended
  <2> QED
    BY <2>1, <2>2, <2>3 DEF FilesInv
<1>2. FilesInv => ReviewBehindTicket /\ NoEventWithoutRow
  BY DEF FilesInv, TicketsBacked, OnFile, ReviewBehindTicket
<1> QED
  BY <1>1, <1>2, FilesStep, PTL DEF Spec

-----------------------------------------------------------------------------
(* What has a row has its event, unless a command was killed in between *)

Reporting(c, stage, p) == command[c].pc = stage /\ Current(c) = p

(* A row without its event has a command that will write the event next.    *)
TicketsReported ==
  \A o \in Orders : HasTicket(o) =>
    \/ <<"paper_order_ticket", o>> \in events
    \/ \E c \in Commands : Reporting(c, "ticket_events", ProposalOf[o])

ReviewsReported ==
  \A p \in Proposals, t \in Seconds : OnFile(p, t) =>
    \/ ReviewEvents(p) \subseteq events
    \/ \E c \in Commands : Reporting(c, "review_events", p)

ReportInv == kills = 0 => TicketsReported /\ ReviewsReported

(* The steps of a command that has nothing to report.                       *)
LEMMA NothingToReport ==
  ASSUME ReportInv, NEW c \in Commands, kills' >= kills, kills \in Nat, kills' \in Nat,
         kills' = kills => command[c].pc \notin {"review_events", "ticket_events"},
         \A d \in Commands \ {c} : command'[d] = command[d],
         UNCHANGED <<reviews, orders, events>>
  PROVE  ReportInv'
<1> SUFFICES ASSUME kills' = 0 PROVE TicketsReported' /\ ReviewsReported'
  BY DEF ReportInv
<1>1. TicketsReported /\ ReviewsReported
      /\ command[c].pc \notin {"review_events", "ticket_events"}
  BY DEF ReportInv
<1>2. \A d \in Commands, p \in Proposals, stage \in {"review_events", "ticket_events"} :
        Reporting(d, stage, p) => Reporting(d, stage, p)'
  BY <1>1 DEF Reporting, Current
<1>3. TicketsReported'
  BY <1>1, <1>2, LedgerAssumption DEF TicketsReported, HasTicket
<1>4. ReviewsReported'
  BY <1>1, <1>2 DEF ReviewsReported, OnFile
<1> QED
  BY <1>3, <1>4

LEMMA ReportStep ==
  ASSUME TypeInv, ReportInv, [Next]_vars
  PROVE  ReportInv'
<1>1. kills \in Nat
  BY PipelineAssumption DEF TypeInv, TypeOK, PipelineTypeOK
<1>2. ASSUME NEW c \in Commands,
             \/ Begin(c) \/ ReadDailyUsed(c) \/ SkipOrTake(c)
             \/ TicketGate(c) \/ Kill(c)
      PROVE  ReportInv'
  <2>1. UNCHANGED <<reviews, orders, events>>
    BY <1>2 DEF Begin, ReadDailyUsed, SkipOrTake, TicketGate, Kill, ledgerVars
  <2>2. \/ kills' = kills /\ command[c].pc \notin {"review_events", "ticket_events"}
        \/ kills' = kills + 1
    BY <1>2 DEF Begin, ReadDailyUsed, SkipOrTake, TicketGate, Kill
  <2>3. \A d \in Commands \ {c} : command'[d] = command[d]
    <3>1. CASE Begin(c)
      BY <3>1, BeginsWithReads
    <3>2. CASE Kill(c) \/ ReadDailyUsed(c)
      BY <3>2 DEF TypeInv, TypeOK, PipelineTypeOK, Kill, ReadDailyUsed
    <3>3. CASE SkipOrTake(c) \/ TicketGate(c)
      BY <3>3, AdvanceLeavesReview, MoveToMoves DEF SkipOrTake, TicketGate
    <3> QED
      BY <1>2, <3>1, <3>2, <3>3
  <2>4. /\ kills' \in Nat /\ kills' >= kills
        /\ kills' = kills => command[c].pc \notin {"review_events", "ticket_events"}
    BY <1>1, <2>2
  <2> QED
    BY <1>1, <2>1, <2>3, <2>4, NothingToReport
<1>3. ASSUME NEW c \in Commands, WriteReview(c)
      PROVE  ReportInv'
  <2> SUFFICES ASSUME kills' = 0 PROVE TicketsReported' /\ ReviewsReported'
    BY DEF ReportInv
  <2>1. /\ command[c].pc = "review"
        /\ UNCHANGED <<orders, events>>
        /\ TicketsReported /\ ReviewsReported
    BY <1>3 DEF WriteReview, ReportInv
  <2>2. /\ command'[c].pc = "review_events"
        /\ Current(c)' = Current(c)
        /\ \A d \in Commands \ {c} : command'[d] = command[d]
    BY <1>3 DEF TypeInv, TypeOK, PipelineTypeOK, Command, WriteReview, Current
  <2>3. \A d \in Commands, p \in Proposals, stage \in {"review_events", "ticket_events"} :
          Reporting(d, stage, p) => Reporting(d, stage, p)'
    BY <2>1, <2>2 DEF Reporting, Current
  <2>4. TicketsReported'
    BY <2>1, <2>3, LedgerAssumption DEF TicketsReported, HasTicket
  <2>5. \A p \in Proposals, t \in Seconds :
          p # Current(c) => reviews'[<<p, t>>] = reviews[<<p, t>>]
    BY <1>3
    DEF WriteReview, WritePaperExecutionReview, TypeInv, TypeOK, LedgerTypeOK
  <2>6. Reporting(c, "review_events", Current(c))'
    BY <2>2 DEF Reporting
  <2>7. ASSUME NEW p \in Proposals, NEW t \in Seconds, OnFile(p, t)'
        PROVE  \/ ReviewEvents(p) \subseteq events'
               \/ \E d \in Commands : Reporting(d, "review_events", p)'
    <3>1. CASE p = Current(c)
      BY <2>2, <3>1 DEF Reporting
    <3>2. CASE p # Current(c)
      BY <2>1, <2>3, <2>5, <2>7, <3>2 DEF ReviewsReported, OnFile
    <3> QED
      BY <3>1, <3>2
  <2> QED
    BY <2>4, <2>7 DEF ReviewsReported
<1>4. ASSUME NEW c \in Commands, WriteTickets(c)
      PROVE  ReportInv'
  <2> SUFFICES ASSUME kills' = 0 PROVE TicketsReported' /\ ReviewsReported'
    BY DEF ReportInv
  <2>1. /\ command[c].pc = "tickets"
        /\ UNCHANGED <<reviews, events>>
        /\ TicketsReported /\ ReviewsReported
    BY <1>4 DEF WriteTickets, ReportInv
  <2>2. /\ command'[c].pc = "ticket_events"
        /\ Current(c)' = Current(c)
        /\ \A d \in Commands \ {c} : command'[d] = command[d]
    BY <1>4, MoveToMoves DEF WriteTickets, Current
  <2>3. \A d \in Commands, p \in Proposals, stage \in {"review_events", "ticket_events"} :
          Reporting(d, stage, p) => Reporting(d, stage, p)'
    BY <2>1, <2>2 DEF Reporting, Current
  <2>4. ReviewsReported'
    BY <2>1, <2>3 DEF ReviewsReported, OnFile
  <2>5. \A o \in Orders : ProposalOf[o] # Current(c) => orders'[o] = orders[o]
    BY <1>4 DEF WriteTickets, WritePaperOrderTickets
  <2>6. ASSUME NEW o \in Orders, HasTicket(o)'
        PROVE  \/ <<"paper_order_ticket", o>> \in events'
               \/ \E d \in Commands : Reporting(d, "ticket_events", ProposalOf[o])'
    <3>1. CASE ProposalOf[o] = Current(c)
      BY <2>2, <3>1 DEF Reporting
    <3>2. CASE ProposalOf[o] # Current(c)
      BY <2>1, <2>3, <2>5, <2>6, <3>2, LedgerAssumption DEF TicketsReported, HasTicket
    <3> QED
      BY <3>1, <3>2
  <2> QED
    BY <2>4, <2>6 DEF TicketsReported
<1>5. ASSUME NEW c \in Commands, WriteReviewEvents(c) \/ WriteTicketEvents(c)
      PROVE  ReportInv'
  <2> SUFFICES ASSUME kills' = 0 PROVE TicketsReported' /\ ReviewsReported'
    BY DEF ReportInv
  <2>1. /\ UNCHANGED <<reviews, orders>>
        /\ events \subseteq events'
        /\ TicketsReported /\ ReviewsReported
    BY <1>5 DEF WriteReviewEvents, WriteTicketEvents, WriteAccountTradeEvents, ReportInv
  <2>2. \A d \in Commands \ {c} : command'[d] = command[d]
    BY <1>5, AdvanceLeavesReview, MoveToMoves DEF WriteReviewEvents, WriteTicketEvents
  <2>3. \A d \in Commands \ {c}, p \in Proposals,
           stage \in {"review_events", "ticket_events"} :
          Reporting(d, stage, p) => Reporting(d, stage, p)'
    BY <2>2 DEF Reporting, Current
  <2>4. \A o \in Orders :
          Reporting(c, "ticket_events", ProposalOf[o]) =>
            <<"paper_order_ticket", o>> \in events'
    BY <1>5
    DEF Reporting, WriteReviewEvents, WriteTicketEvents, WriteAccountTradeEvents, TicketsOf
  <2>5. \A p \in Proposals :
          Reporting(c, "review_events", p) => ReviewEvents(p) \subseteq events'
    BY <1>5 DEF Reporting, WriteReviewEvents, WriteTicketEvents, WriteAccountTradeEvents
  <2>6. TicketsReported'
    BY <2>1, <2>3, <2>4, LedgerAssumption DEF TicketsReported, HasTicket
  <2>7. ReviewsReported'
    BY <2>1, <2>3, <2>5 DEF ReviewsReported, OnFile
  <2> QED
    BY <2>6, <2>7
<1>6. CASE \/ \E p \in Proposals : WriteTradeProposalArtifact(p)
           \/ Environment
           \/ UNCHANGED vars
  <2>1. UNCHANGED <<reviews, orders, events, command, kills>>
    BY <1>6 DEF WriteTradeProposalArtifact, Environment, UpsertPaperStrategy, Tick,
                ledgerVars, pipelineVars, vars
  <2> QED
    BY <2>1
    DEF ReportInv, TicketsReported, ReviewsReported, HasTicket, OnFile, Reporting, Current
<1> QED
  BY <1>2, <1>3, <1>4, <1>5, <1>6 DEF Next, PipelineNext, Step

(* Once every command has ended and none was killed, each row has its event *)
(* and each event its row, for any mix of runners and reviewers.            *)
THEOREM QuietLedgersAgree == Spec => []LedgersAgree
<1>1. Init => ReportInv
  BY DEF Init, LedgerInit, PipelineInit, ReportInv, TicketsReported, ReviewsReported,
         HasTicket, NoRow, OnFile
<1>2. TypeInv /\ NoEventWithoutRow /\ ReportInv => LedgersAgree
  BY LedgerAssumption
  DEF LedgersAgree, NoEventWithoutRow, ReportInv, TicketsReported, ReviewsReported,
         Reporting, OnFile, Reviewed, ReviewEvents, TicketsOf
<1>3. Spec => []NoEventWithoutRow
  BY RowsBehindTicketsAndEvents, PTL
<1> QED
  BY <1>1, <1>2, <1>3, InitType, StepType, ReportStep, PTL DEF Spec

-----------------------------------------------------------------------------
(* What passed is ticketed *)

(* Commands that stay where they are keep what they carry to its tickets.   *)
LEMMA StillTicketing ==
  ASSUME NEW p \in Proposals, PassedIsTicketedOrUnderWay(p),
         UNCHANGED reviews,
         \A o \in Orders : HasTicket(o) => HasTicket(o)',
         \A c \in Commands : Ticketing(c, p) => Ticketing(c, p)' \/ p \in Ticketed'
  PROVE  PassedIsTicketedOrUnderWay(p)'
<1>1. p \in Ticketed => p \in Ticketed'
  BY DEF Ticketed, TicketsOf
<1>2. Passed(p)' => Passed(p)
  BY DEF Passed
<1> QED
  BY <1>1, <1>2 DEF PassedIsTicketedOrUnderWay

LEMMA TicketingStep ==
  ASSUME TypeInv, [Next]_vars, Reviewers \subseteq CreatesTickets,
         NEW p \in Proposals, TicketsOf(p) # {},
         PaperStrategyGate(p), kills = 0, kills' = 0,
         PassedIsTicketedOrUnderWay(p)
  PROVE  PassedIsTicketedOrUnderWay(p)'
<1>1. \A o \in Orders : HasTicket(o) => HasTicket(o)'
  BY RowsStayInPlace DEF RowsStay
<1>2. \A c \in Commands : c \in Runners \cup CreatesTickets
  BY DEF Commands
<1>3. ASSUME NEW c \in Commands,
             \/ Begin(c) \/ ReadDailyUsed(c) \/ SkipOrTake(c)
             \/ WriteReviewEvents(c) \/ TicketGate(c) \/ WriteTicketEvents(c)
      PROVE  PassedIsTicketedOrUnderWay(p)'
  <2>1. UNCHANGED reviews
    BY <1>3 DEF Begin, ReadDailyUsed, SkipOrTake, WriteReviewEvents, TicketGate,
                WriteTicketEvents, ledgerVars
  <2>2. \A d \in Commands \ {c} : command'[d] = command[d]
    <3>1. CASE Begin(c)
      BY <3>1, BeginsWithReads
    <3>2. CASE ReadDailyUsed(c)
      BY <3>2 DEF TypeInv, TypeOK, PipelineTypeOK, ReadDailyUsed
    <3>3. CASE SkipOrTake(c) \/ WriteReviewEvents(c) \/ TicketGate(c) \/ WriteTicketEvents(c)
      BY <3>3, AdvanceLeavesReview, MoveToMoves
      DEF SkipOrTake, WriteReviewEvents, TicketGate, WriteTicketEvents
    <3> QED
      BY <1>3, <3>1, <3>2, <3>3
  <2>3. \A d \in Commands \ {c} : Ticketing(d, p) => Ticketing(d, p)'
    BY <2>2 DEF Ticketing, Current
  <2>4. Ticketing(c, p) => Ticketing(c, p)'
    <3> SUFFICES ASSUME Ticketing(c, p) PROVE Ticketing(c, p)'
      OBVIOUS
    <3>1. CASE WriteReviewEvents(c)
      <4>1. MoveTo(c, "gate")
        BY <1>2, <3>1 DEF WriteReviewEvents, Ticketing
      <4> QED
        BY <4>1, MoveToMoves DEF Ticketing, Current
    <3>2. CASE TicketGate(c)
      <4>1. MoveTo(c, "tickets")
        BY <3>2 DEF TicketGate, Ticketing
      <4> QED
        BY <4>1, MoveToMoves DEF Ticketing, Current
    <3>3. command[c].pc \notin {"idle", "daily", "proposal", "ticket_events"}
      BY DEF Ticketing
    <3> QED
      BY <1>3, <3>1, <3>2, <3>3
      DEF Begin, ReadDailyUsed, SkipOrTake, WriteTicketEvents
  <2> QED
    BY <1>1, <2>1, <2>3, <2>4, StillTicketing
<1>4. ASSUME NEW c \in Commands, WriteReview(c)
      PROVE  PassedIsTicketedOrUnderWay(p)'
  <2>1. /\ command[c].pc = "review" /\ UNCHANGED orders
        /\ reviews' = [reviews EXCEPT ![<<Current(c), now>>] =
                         IF ReviewPasses(Current(c), command[c].used)
                         THEN "ready" ELSE "blocked"]
    BY <1>4 DEF WriteReview, WritePaperExecutionReview
  <2>2. /\ command'[c].pc = "review_events"
        /\ command'[c].ready = ReviewPasses(Current(c), command[c].used)
        /\ Current(c)' = Current(c)
        /\ \A d \in Commands \ {c} : command'[d] = command[d]
    BY <1>4 DEF TypeInv, TypeOK, PipelineTypeOK, Command, WriteReview, Current
  <2>3. \A d \in Commands : Ticketing(d, p) => Ticketing(d, p)'
    BY <2>1, <2>2 DEF Ticketing, Current
  <2>4. p \in Ticketed => p \in Ticketed'
    BY <1>1 DEF Ticketed, TicketsOf
  <2>5. Passed(p)' => Passed(p) \/ Ticketing(c, p)'
    <3> SUFFICES ASSUME NEW t \in Seconds, reviews'[<<p, t>>] = "ready",
                        reviews[<<p, t>>] # "ready"
                 PROVE  Ticketing(c, p)'
      BY DEF Passed
    <3>1. <<p, t>> = <<Current(c), now>> /\ ReviewPasses(Current(c), command[c].used)
      BY <2>1 DEF TypeInv, TypeOK, LedgerTypeOK
    <3> QED
      BY <2>2, <3>1 DEF Ticketing
  <2> QED
    BY <2>3, <2>4, <2>5 DEF PassedIsTicketedOrUnderWay
<1>5. ASSUME NEW c \in Commands, WriteTickets(c)
      PROVE  PassedIsTicketedOrUnderWay(p)'
  <2>1. /\ UNCHANGED reviews
        /\ command[c].pc = "tickets"
        /\ orders' = [o \in Orders |->
                        IF ProposalOf[o] = Current(c) THEN DryRunTicket(command[c].at)
                                                      ELSE orders[o]]
    BY <1>5 DEF WriteTickets, WritePaperOrderTickets
  <2>2. \A d \in Commands \ {c} : command'[d] = command[d]
    BY <1>5, MoveToMoves DEF WriteTickets
  <2>3. \A d \in Commands \ {c} : Ticketing(d, p) => Ticketing(d, p)'
    BY <2>2 DEF Ticketing, Current
  <2>4. Ticketing(c, p) => p \in Ticketed'
    <3> SUFFICES ASSUME Ticketing(c, p) PROVE p \in Ticketed'
      OBVIOUS
    <3>1. PICK o \in Orders : ProposalOf[o] = p
      BY DEF TicketsOf
    <3>2. HasTicket(o)'
      BY <2>1, <3>1 DEF Ticketing, HasTicket, DryRunTicket
    <3> QED
      BY <3>1, <3>2 DEF Ticketed, TicketsOf
  <2> QED
    BY <1>1, <2>1, <2>3, <2>4, StillTicketing
<1>6. ASSUME NEW c \in Commands PROVE ~Kill(c)
  BY DEF Kill
<1>7. CASE \/ \E q \in Proposals : WriteTradeProposalArtifact(q)
           \/ Environment
           \/ UNCHANGED vars
  <2>1. UNCHANGED <<reviews, orders, command>>
    BY <1>7 DEF WriteTradeProposalArtifact, Environment, UpsertPaperStrategy, Tick,
                ledgerVars, pipelineVars, vars
  <2>2. \A c \in Commands : Ticketing(c, p) => Ticketing(c, p)'
    BY <2>1 DEF Ticketing, Current
  <2> QED
    BY <1>1, <2>1, <2>2, StillTicketing
<1> QED
  BY <1>3, <1>4, <1>5, <1>6, <1>7 DEF Next, PipelineNext, Step

(* A proposal without intents never passes a review. *)
PassedHasIntents(p) == Passed(p) => TicketsOf(p) # {}

LEMMA PassedStep ==
  ASSUME NEW p \in Proposals, TypeInv, [Next]_vars, PassedHasIntents(p)
  PROVE  PassedHasIntents(p)'
<1>1. ASSUME NEW c \in Commands, WriteReview(c)
      PROVE  PassedHasIntents(p)'
  <2> SUFFICES ASSUME NEW t \in Seconds, reviews'[<<p, t>>] = "ready"
               PROVE  TicketsOf(p) # {}
    BY DEF PassedHasIntents, Passed, TicketsOf
  <2>1. reviews' = [reviews EXCEPT ![<<Current(c), now>>] =
                      IF ReviewPasses(Current(c), command[c].used)
                      THEN "ready" ELSE "blocked"]
    BY <1>1 DEF WriteReview, WritePaperExecutionReview
  <2>2. CASE reviews[<<p, t>>] = "ready"
    BY <2>2 DEF PassedHasIntents, Passed
  <2>3. CASE reviews[<<p, t>>] # "ready"
    <3>1. p = Current(c) /\ ReviewPasses(Current(c), command[c].used)
      BY <2>1, <2>3 DEF TypeInv, TypeOK, LedgerTypeOK
    <3> QED
      BY <3>1 DEF ReviewPasses
  <2> QED
    BY <2>2, <2>3
<1>2. CASE UNCHANGED reviews
  BY <1>2 DEF PassedHasIntents, Passed, TicketsOf
<1>3. ASSUME NEW c \in Commands, Step(c) \/ Kill(c), ~WriteReview(c)
      PROVE  UNCHANGED reviews
  BY <1>3 DEF Step, Begin, ReadDailyUsed, SkipOrTake, WriteReviewEvents,
              TicketGate, WriteTickets, WriteTicketEvents, Kill, ledgerVars
<1>4. ASSUME NEW q \in Proposals, WriteTradeProposalArtifact(q)
      PROVE  UNCHANGED reviews
  BY <1>4 DEF WriteTradeProposalArtifact, ledgerVars
<1>5. Environment \/ UNCHANGED vars => UNCHANGED reviews
  BY DEF Environment, UpsertPaperStrategy, Tick, vars, ledgerVars
<1> QED
  BY <1>1, <1>2, <1>3, <1>4, <1>5 DEF Next, PipelineNext

(* While its strategy runs and no command is killed, a proposal whose       *)
(* review passed has its tickets or a command is about to write them, for   *)
(* any runners and any reviewers that create tickets: no second review, of  *)
(* whichever command and whatever its verdict, loses the first one's.       *)
THEOREM PassedReviewsGetTickets ==
  ASSUME Reviewers \subseteq CreatesTickets, NEW p \in Proposals
  PROVE  Spec /\ []PaperStrategyGate(p) /\ [](kills = 0) => []PassedIsTicketedOrUnderWay(p)
<1>1. Init => PassedIsTicketedOrUnderWay(p) /\ PassedHasIntents(p)
  BY DEF Init, LedgerInit, PassedIsTicketedOrUnderWay, PassedHasIntents, Passed
<1>2. /\ TypeInv /\ [Next]_vars /\ PaperStrategyGate(p) /\ kills = 0 /\ (kills = 0)'
      /\ PassedIsTicketedOrUnderWay(p) /\ PassedHasIntents(p)
      => PassedIsTicketedOrUnderWay(p)' /\ PassedHasIntents(p)'
  <2>1. TypeInv /\ [Next]_vars /\ PassedHasIntents(p) => PassedHasIntents(p)'
    BY PassedStep
  <2>2. CASE TicketsOf(p) # {}
    BY <2>1, <2>2, TicketingStep
  <2>3. CASE TicketsOf(p) = {}
    <3>1. PassedHasIntents(p)' => ~Passed(p)'
      BY <2>3 DEF PassedHasIntents, TicketsOf
    <3> QED
      BY <2>1, <3>1 DEF PassedIsTicketedOrUnderWay
  <2> QED
    BY <2>2, <2>3
<1> QED
  BY <1>1, <1>2, InitType, StepType, PTL DEF Spec

-----------------------------------------------------------------------------
(* What is passed over *)

(* The ids a run has read are of proposals with a review. *)
IdsAreReviewed == \A c \in Commands : \A p \in command[c].reviewed : Reviewed(p)

LEMMA IdsStep ==
  ASSUME TypeInv, IdsAreReviewed, [Next]_vars
  PROVE  IdsAreReviewed'
<1>1. \A p \in Proposals : Reviewed(p) => Reviewed(p)'
  BY RowsStayInPlace DEF RowsStay, Reviewed
<1>2. \A c \in Commands : command[c].reviewed \subseteq Proposals
  BY DEF TypeInv, TypeOK, PipelineTypeOK, Command
<1>3. ASSUME \A c \in Commands :
               command'[c].reviewed \subseteq command[c].reviewed \/ command'[c].reviewed = {}
      PROVE  IdsAreReviewed'
  BY <1>1, <1>2, <1>3 DEF IdsAreReviewed
<1>4. ASSUME NEW c \in Commands, Begin(c)
      PROVE  IdsAreReviewed'
  <2>1. PICK ids \in ReviewedProposalIds \cup {{}} :
          command' = [command EXCEPT ![c] = [Ended EXCEPT
                        !.pc = "daily", !.todo = LoadedProposals, !.reviewed = ids]]
    BY <1>4 DEF Begin
  <2>2. UNCHANGED reviews
    BY <1>4 DEF Begin, ledgerVars
  <2>3. \A loaded :
          [Ended EXCEPT !.pc = "daily", !.todo = loaded, !.reviewed = ids].reviewed = ids
    BY DEF Ended
  <2>4. /\ command'[c].reviewed = ids
        /\ \A d \in Commands \ {c} : command'[d] = command[d]
    BY <2>1, <2>3 DEF TypeInv, TypeOK, PipelineTypeOK
  <2>5. \A p \in ids : Reviewed(p)
    <3>1. CASE ids \in ReviewedProposalIds
      <4>1. PICK S \in SUBSET {k \in Proposals \X Seconds : reviews[k] # "none"} :
              ids = {k[1] : k \in S}
        BY <3>1 DEF ReviewedProposalIds, LatestPaperExecutionReviews, Newest
      <4> QED
        BY <4>1 DEF Reviewed
    <3>2. CASE ids = {}
      BY <3>2
    <3> QED
      BY <3>1, <3>2
  <2> QED
    BY <2>2, <2>4, <2>5 DEF IdsAreReviewed, Reviewed
<1>5. ASSUME NEW c \in Commands, Step(c) \/ Kill(c), ~Begin(c)
      PROVE  \A d \in Commands :
               command'[d].reviewed = command[d].reviewed \/ command'[d].reviewed = {}
  <2>1. ASSUME NEW used, Advance(c, used)
        PROVE  \A d \in Commands :
                 command'[d].reviewed = command[d].reviewed \/ command'[d].reviewed = {}
    BY <2>1 DEF TypeInv, TypeOK, PipelineTypeOK, Advance, Ended
  <2>2. ASSUME NEW pc, MoveTo(c, pc)
        PROVE  \A d \in Commands : command'[d].reviewed = command[d].reviewed
    BY <2>2 DEF TypeInv, TypeOK, PipelineTypeOK, Command, MoveTo
  <2>3. CASE ReadDailyUsed(c) \/ WriteReview(c)
    <3>1. command[c] \in Command /\ command \in [Commands -> Command]
      BY DEF TypeInv, TypeOK, PipelineTypeOK
    <3>2. CASE ReadDailyUsed(c)
      BY <3>1, <3>2 DEF Command, ReadDailyUsed
    <3>3. CASE WriteReview(c)
      BY <3>1, <3>3 DEF Command, WriteReview
    <3> QED
      BY <2>3, <3>2, <3>3
  <2>4. CASE Kill(c)
    BY <2>4 DEF TypeInv, TypeOK, PipelineTypeOK, Kill, Ended
  <2>5. CASE \/ SkipOrTake(c) \/ WriteReviewEvents(c) \/ TicketGate(c)
             \/ WriteTickets(c) \/ WriteTicketEvents(c)
    BY <2>1, <2>2, <2>5
    DEF SkipOrTake, WriteReviewEvents, TicketGate, WriteTickets, WriteTicketEvents
  <2> QED
    BY <1>5, <2>3, <2>4, <2>5 DEF Step
<1>6. CASE \/ \E p \in Proposals : WriteTradeProposalArtifact(p)
           \/ Environment
           \/ UNCHANGED vars
  <2>1. UNCHANGED command
    BY <1>6 DEF WriteTradeProposalArtifact, Environment, pipelineVars, vars
  <2> QED
    BY <1>3, <2>1
<1> QED
  BY <1>3, <1>4, <1>5, <1>6 DEF Next, PipelineNext

(* No run passes over a proposal that has no review while its strategy runs *)
(* and its size is within limits, whoever else reviews and halts meanwhile. *)
THEOREM RunsPassOverNothingElse == Spec => NothingElsePassedOver
<1> DEFINE A == \A c \in Commands :
                  /\ command[c].pc = "proposal" /\ command'[c] # command[c]
                  /\ command'[c].pc # "review" /\ kills' = kills
                  => Reviewed(Current(c)) \/ ~PaperStrategyGate(Current(c))
<1>1. ASSUME TypeInv, IdsAreReviewed, Next, NEW c \in Commands,
             command[c].pc = "proposal", command'[c] # command[c],
             command'[c].pc # "review", kills' = kills
      PROVE  Reviewed(Current(c)) \/ ~PaperStrategyGate(Current(c))
  <2>1. PICK d \in Commands : Step(d) \/ Kill(d)
    <3>1. UNCHANGED command => FALSE
      BY <1>1
    <3>2. ~(Environment \/ \E p \in Proposals : WriteTradeProposalArtifact(p))
      BY <3>1 DEF Environment, WriteTradeProposalArtifact, pipelineVars
    <3> QED
      BY <1>1, <3>2 DEF Next, PipelineNext
  <2>2. ~Kill(d) /\ Step(d)
    BY <1>1, <2>1, PipelineAssumption DEF Kill, TypeInv, TypeOK, PipelineTypeOK
  <2>3. \A e \in Commands \ {d} : command'[e] = command[e]
    <3>1. CASE Begin(d)
      BY <1>1, <3>1, BeginsWithReads
    <3>2. CASE ReadDailyUsed(d) \/ WriteReview(d)
      BY <1>1, <3>2 DEF TypeInv, TypeOK, PipelineTypeOK, ReadDailyUsed, WriteReview
    <3>3. CASE \/ SkipOrTake(d) \/ WriteReviewEvents(d) \/ TicketGate(d)
               \/ WriteTickets(d) \/ WriteTicketEvents(d)
      BY <1>1, <3>3, AdvanceLeavesReview, MoveToMoves
      DEF SkipOrTake, WriteReviewEvents, TicketGate, WriteTickets, WriteTicketEvents
    <3> QED
      BY <2>2, <3>1, <3>2, <3>3 DEF Step
  <2>4. SkipOrTake(c)
    <3>1. d = c
      BY <1>1, <2>3
    <3> QED
      BY <1>1, <2>2, <3>1 DEF Step, Begin, ReadDailyUsed, WriteReview, WriteReviewEvents,
                              TicketGate, WriteTickets, WriteTicketEvents
  <2>5. ~MoveTo(c, "review")
    BY <1>1, MoveToMoves
  <2> QED
    BY <1>1, <2>4, <2>5 DEF SkipOrTake, IdsAreReviewed
<1>2. TypeInv /\ IdsAreReviewed /\ [Next]_vars => [A]_vars
  BY <1>1
<1>3. Init => IdsAreReviewed
  BY DEF Init, PipelineInit, Ended, IdsAreReviewed
<1> HIDE DEF A
<1>4. Spec => [][A]_vars
  BY <1>2, <1>3, InitType, StepType, IdsStep, PTL DEF Spec
<1> QED
  BY <1>4 DEF A, NothingElsePassedOver

-----------------------------------------------------------------------------
(* A runner that works alone reviews once and tickets what passed *)

Distinct(s) == \A i, j \in 1 .. Len(s) : s[i] = s[j] => i = j

(* What the loop has still to come to is not reviewed, or will be skipped.  *)
Ahead(r) ==
  \A i \in 1 .. Len(command[r].todo) :
    Reviewed(command[r].todo[i]) =>
      \/ command[r].todo[i] \in command[r].reviewed
      \/ i = 1 /\ command[r].pc \in PastReview

(* The review of the current proposal passed, and is the one on file.       *)
PassedOnFile(r) == reviews[<<Current(r), command[r].at>>] = "ready"

LoopInv(r) ==
  /\ Distinct(command[r].todo)
  /\ command[r].pc # "idle" => Ahead(r)
  /\ command[r].pc = "review" => Current(r) \notin command[r].reviewed
  /\ command[r].pc \in PastReview => OnFile(Current(r), command[r].at)
  /\ command[r].pc = "review_events" /\ command[r].ready => PassedOnFile(r)
  /\ command[r].pc \in {"gate", "tickets", "ticket_events"} => PassedOnFile(r)
  /\ command[r].pc \in {"review_events", "gate", "tickets"} =>
       \A o \in TicketsOf(Current(r)) : ~HasTicket(o)

(* No proposal has reviews of two seconds.                                  *)
Once ==
  \A p \in Proposals, t, u \in Seconds : OnFile(p, t) /\ OnFile(p, u) => t = u

TicketsReady ==
  \A o \in Orders :
    HasTicket(o) => /\ orders[o].created_at \in Seconds
                    /\ reviews[<<ProposalOf[o], orders[o].created_at>>] = "ready"

OnceInv(r) == Once /\ TicketsReady /\ Distinct(artifacts) /\ LoopInv(r)

(* The limit under which reviewed ids are read is no limit for this runner. *)
AloneAndSkipping(r) ==
  /\ Commands = {r}
  /\ r \notin IncludesReviewed
  /\ Cardinality(Proposals) <= ReviewLimit

(* While no proposal has two rows, all of them are read.                    *)
LEMMA AllReviewedRead ==
  ASSUME TypeInv, Once, Cardinality(Proposals) <= ReviewLimit,
         NEW ids \in ReviewedProposalIds, NEW p \in Proposals, Reviewed(p)
  PROVE  p \in ids
<1> DEFINE rows == {k \in Proposals \X Seconds : reviews[k] # "none"}
<1>1. PICK S \in SUBSET rows :
        /\ ids = {k[1] : k \in S}
        /\ Cardinality(S) = IF Cardinality(rows) < ReviewLimit
                            THEN Cardinality(rows) ELSE ReviewLimit
  BY DEF ReviewedProposalIds, LatestPaperExecutionReviews, Newest
<1>2. IsFiniteSet(rows) /\ Cardinality(rows) <= Cardinality(Proposals)
  <2> DEFINE f == [k \in rows |-> k[1]]
  <2>1. f \in [rows -> Proposals]
    OBVIOUS
  <2>2. \A k, l \in rows : f[k] = f[l] => k = l
    BY DEF Once, OnFile
  <2>3. f \in Injection(rows, Proposals)
    BY <2>1, <2>2 DEF Injection, IsInjective
  <2> HIDE DEF f, rows
  <2> QED
    BY <2>3, FS_Injection, LedgerAssumption
<1>3. S = rows
  <2> HIDE DEF rows
  <2>1. Cardinality(rows) \in Nat /\ Cardinality(Proposals) \in Nat
    BY <1>2, FS_CardinalityType, LedgerAssumption
  <2>2. Cardinality(S) = Cardinality(rows)
    BY <1>1, <1>2, <2>1, PipelineAssumption
  <2> QED
    BY <1>2, <2>2, FS_Subset
<1>4. PICK t \in Seconds : <<p, t>> \in rows
  BY DEF Reviewed
<1> QED
  BY <1>1, <1>3, <1>4

(* Goes on to the next proposal, or ends.                                   *)
LEMMA AdvanceLoop ==
  ASSUME TypeInv, NEW r \in Runners, LoopInv(r), command[r].pc # "idle",
         NEW used, Advance(r, used), reviews' = reviews
  PROVE  LoopInv(r)'
<1> DEFINE todo == command[r].todo
<1>1. r \in Commands
  BY DEF Commands
<1>2. /\ todo \in Seq(Proposals) /\ todo # <<>>
      /\ Len(Tail(todo)) = Len(todo) - 1 /\ Len(todo) \in Nat
      /\ \A i \in 1 .. Len(Tail(todo)) : Tail(todo)[i] = todo[i + 1]
  BY <1>1, CurrentIsProposal, HeadTailProperties, LenProperties
<1>3. CASE command'[r] = Ended
  BY <1>3 DEF Ended, LoopInv, Distinct, PastReview
<1>4. CASE /\ command'[r].pc = "proposal"
           /\ command'[r].todo = Tail(todo)
           /\ command'[r].reviewed = command[r].reviewed
  <2>1. Distinct(command'[r].todo)
    <3>1. \A i, j \in 1 .. Len(Tail(todo)) :
            i + 1 \in 1 .. Len(todo) /\ j + 1 \in 1 .. Len(todo)
      BY <1>2
    <3>2. \A i, j \in 1 .. Len(Tail(todo)) :
            Tail(todo)[i] = Tail(todo)[j] => i + 1 = j + 1
      BY <1>2, <3>1 DEF LoopInv, Distinct
    <3>3. \A i, j \in 1 .. Len(Tail(todo)) : i + 1 = j + 1 => i = j
      OBVIOUS
    <3>4. Distinct(Tail(todo))
      BY <3>2, <3>3, Zenon DEF Distinct
    <3> QED
      BY <1>4, <3>4, Zenon
  <2>2. ASSUME NEW i \in 1 .. Len(Tail(todo)), Reviewed(Tail(todo)[i])
        PROVE  Tail(todo)[i] \in command[r].reviewed
    <3>1. i + 1 \in 1 .. Len(todo) /\ i + 1 # 1
      BY <1>2
    <3> QED
      BY <1>2, <2>2, <3>1 DEF LoopInv, Ahead
  <2>3. Ahead(r)'
    BY <1>4, <2>2 DEF Ahead, Reviewed
  <2> QED
    BY <1>4, <2>1, <2>3 DEF LoopInv, PastReview
<1> HIDE DEF todo
<1>5. command'[r] = Ended \/ command'[r] =
        [pc |-> "proposal", todo |-> Tail(todo), reviewed |-> command[r].reviewed,
         used |-> used, at |-> 0, ready |-> FALSE]
  BY <1>1 DEF Advance, TypeInv, TypeOK, PipelineTypeOK, todo
<1> QED
  BY <1>3, <1>4, <1>5

(* Stays with its proposal.                                                 *)
LEMMA MoveToLoop ==
  ASSUME TypeInv, NEW r \in Commands, LoopInv(r), NEW pc, MoveTo(r, pc),
         UNCHANGED <<reviews, orders>>,
         \/ /\ command[r].pc = "proposal" /\ pc = "review"
            /\ Current(r) \notin command[r].reviewed
         \/ command[r].pc = "review_events" /\ pc = "gate" /\ command[r].ready
         \/ command[r].pc = "gate" /\ pc = "tickets"
  PROVE  LoopInv(r)'
<1>1. /\ command'[r].pc = pc
      /\ command'[r].todo = command[r].todo
      /\ command'[r].at = command[r].at
      /\ command'[r].reviewed = command[r].reviewed
  BY DEF TypeInv, TypeOK, PipelineTypeOK, MoveTo, Command
<1>2. Ahead(r)'
  BY <1>1 DEF LoopInv, Ahead, Reviewed, PastReview
<1> QED
  BY <1>1, <1>2
  DEF LoopInv, PassedOnFile, OnFile, Current, HasTicket, TicketsOf, PastReview

LEMMA OnceStep ==
  ASSUME NEW r \in Runners, AloneAndSkipping(r), TypeInv, OnceInv(r), [Next]_vars
  PROVE  OnceInv(r)'
<1>1. r \in Commands /\ \A c \in Commands : c = r
  BY DEF AloneAndSkipping
<1>2. ASSUME UNCHANGED <<reviews, orders>>, Distinct(artifacts)', LoopInv(r)'
      PROVE  OnceInv(r)'
  BY <1>2 DEF OnceInv, Once, OnFile, TicketsReady, HasTicket
<1>3. ASSUME Begin(r)
      PROVE  OnceInv(r)'
  <2>1. UNCHANGED <<reviews, orders, artifacts>>
    BY <1>3 DEF Begin, ledgerVars
  <2>2. PICK ids \in ReviewedProposalIds :
          command' = [command EXCEPT ![r] = [Ended EXCEPT
                        !.pc = "daily", !.todo = LoadedProposals, !.reviewed = ids]]
    BY <1>3 DEF Begin, AloneAndSkipping
  <2> DEFINE loaded == LoadedProposals
  <2>3. /\ loaded \in Seq(Proposals)
        /\ Distinct(loaded)
    <3>1. artifacts \in Seq(Proposals) /\ Len(artifacts) \in Nat
      BY LenProperties DEF TypeInv, TypeOK, PipelineTypeOK
    <3>2. CASE Len(artifacts) <= MaxFiles
      BY <3>1, <3>2 DEF OnceInv, LoadedProposals
    <3>3. CASE ~(Len(artifacts) <= MaxFiles)
      <4>1. MaxFiles \in Nat /\ 1 <= MaxFiles /\ MaxFiles < Len(artifacts)
        BY <3>1, <3>3, PipelineAssumption
      <4>2. \A i \in 1 .. MaxFiles : artifacts[i] \in Proposals
        BY <3>1, <4>1, LenProperties
      <4>3. /\ SubSeq(artifacts, 1, MaxFiles) \in Seq(Proposals)
            /\ Len(SubSeq(artifacts, 1, MaxFiles)) = MaxFiles
            /\ \A i \in 1 .. MaxFiles : SubSeq(artifacts, 1, MaxFiles)[i] = artifacts[i]
        BY <4>1, <4>2, SubSeqProperties
      <4> QED
        BY <3>1, <3>3, <4>1, <4>3 DEF OnceInv, LoadedProposals, Distinct
    <3> QED
      BY <3>2, <3>3
  <2> HIDE DEF loaded
  <2>4. /\ command'[r].pc = "daily"
        /\ command'[r].todo = loaded
        /\ command'[r].reviewed = ids
    <3> DEFINE next == [Ended EXCEPT !.pc = "daily", !.todo = loaded, !.reviewed = ids]
    <3>1. next.pc = "daily" /\ next.todo = loaded /\ next.reviewed = ids
      BY DEF Ended
    <3>2. command' = [command EXCEPT ![r] = next]
      BY <2>2 DEF loaded
    <3> HIDE DEF next
    <3> QED
      BY <1>1, <3>1, <3>2 DEF TypeInv, TypeOK, PipelineTypeOK
  <2>5. ASSUME NEW i \in 1 .. Len(loaded), Reviewed(loaded[i])
        PROVE  loaded[i] \in ids
    <3>1. loaded[i] \in Proposals
      BY <2>3, LenProperties
    <3> QED
      BY <2>5, <3>1, AllReviewedRead DEF OnceInv, AloneAndSkipping
  <2>6. Ahead(r)'
    BY <2>1, <2>4, <2>5 DEF Ahead, Reviewed
  <2> QED
    BY <1>2, <2>1, <2>3, <2>4, <2>6 DEF OnceInv, LoopInv, PastReview, Distinct
<1>4. ASSUME ReadDailyUsed(r)
      PROVE  OnceInv(r)'
  <2>1. UNCHANGED <<reviews, orders, artifacts>>
    BY <1>4 DEF ReadDailyUsed, ledgerVars
  <2>2. /\ command[r].pc = "daily" /\ command'[r].pc = "proposal"
        /\ command'[r].todo = command[r].todo
        /\ command'[r].reviewed = command[r].reviewed
    BY <1>1, <1>4 DEF ReadDailyUsed, TypeInv, TypeOK, PipelineTypeOK, Command
  <2>3. Ahead(r)'
    BY <2>1, <2>2 DEF OnceInv, LoopInv, Ahead, Reviewed, PastReview
  <2> QED
    BY <1>2, <2>1, <2>2, <2>3 DEF OnceInv, LoopInv, PastReview, Distinct
<1>5. ASSUME SkipOrTake(r) \/ TicketGate(r) \/ WriteReviewEvents(r) \/ WriteTicketEvents(r)
      PROVE  OnceInv(r)'
  <2>1. UNCHANGED <<reviews, orders, artifacts>>
    BY <1>5
    DEF SkipOrTake, TicketGate, WriteReviewEvents, WriteTicketEvents, ledgerVars
  <2>2. ASSUME NEW used, Advance(r, used)
        PROVE  LoopInv(r)'
    BY <1>5, <2>1, <2>2, AdvanceLoop
    DEF OnceInv, SkipOrTake, TicketGate, WriteReviewEvents, WriteTicketEvents
  <2>3. LoopInv(r)'
    <3>1. CASE SkipOrTake(r)
      BY <1>1, <2>1, <2>2, <3>1, MoveToLoop DEF OnceInv, SkipOrTake
    <3>2. CASE TicketGate(r)
      BY <1>1, <2>1, <2>2, <3>2, MoveToLoop DEF OnceInv, TicketGate
    <3>3. CASE WriteReviewEvents(r)
      BY <1>1, <2>1, <2>2, <3>3, MoveToLoop DEF OnceInv, WriteReviewEvents
    <3>4. CASE WriteTicketEvents(r)
      BY <2>2, <3>4 DEF WriteTicketEvents
    <3> QED
      BY <1>5, <3>1, <3>2, <3>3, <3>4
  <2> QED
    BY <1>2, <2>1, <2>3 DEF OnceInv
<1>6. ASSUME WriteReview(r)
      PROVE  OnceInv(r)'
  <2>1. PICK p \in Proposals : p = Current(r)
    BY <1>1, <1>6, CurrentIsProposal DEF WriteReview
  <2>2. /\ command[r].todo \in Seq(Proposals) /\ command[r].todo # <<>>
        /\ Len(command[r].todo) \in Nat \ {0}
        /\ command[r].todo[1] = p
        /\ \A i \in 1 .. Len(command[r].todo) : command[r].todo[i] \in Proposals
    <3>1. command[r].todo \in Seq(Proposals) /\ command[r].todo # <<>>
      BY <1>1, <1>6, CurrentIsProposal DEF WriteReview
    <3>2. Len(command[r].todo) \in Nat \ {0}
      BY <3>1, EmptySeq, Zenon
    <3> QED
      BY <2>1, <3>1, <3>2, LenProperties DEF Current
  <2>3. ~Reviewed(p)
    BY <1>6, <2>1, <2>2 DEF OnceInv, LoopInv, Ahead, WriteReview, PastReview
  <2>4. /\ command'[r].pc = "review_events"
        /\ command'[r].todo = command[r].todo
        /\ command'[r].reviewed = command[r].reviewed
        /\ command'[r].at = now
        /\ command'[r].ready = ReviewPasses(p, command[r].used)
    BY <1>1, <1>6, <2>1 DEF WriteReview, TypeInv, TypeOK, PipelineTypeOK, Command
  <2>5. /\ now \in Seconds
        /\ reviews'[<<p, now>>] # "none"
        /\ command'[r].ready => reviews'[<<p, now>>] = "ready"
        /\ \A q \in Proposals, t \in Seconds :
             <<q, t>> # <<p, now>> => reviews'[<<q, t>>] = reviews[<<q, t>>]
    BY <1>6, <2>1, <2>4
    DEF WriteReview, WritePaperExecutionReview, TypeInv, TypeOK, LedgerTypeOK
  <2>6. UNCHANGED <<orders, artifacts>>
    BY <1>6 DEF WriteReview
  <2>7. \A o \in Orders : HasTicket(o) => ProposalOf[o] # p
    BY <2>3, LedgerAssumption DEF OnceInv, TicketsReady, Reviewed
  <2>8. Once'
    BY <2>3, <2>5 DEF OnceInv, Once, OnFile, Reviewed
  <2>9. TicketsReady'
    BY <2>5, <2>6, <2>7, LedgerAssumption DEF OnceInv, TicketsReady, HasTicket
  <2>10. Ahead(r)'
    <3>1. ASSUME NEW i \in 1 .. Len(command[r].todo), i # 1,
                 Reviewed(command[r].todo[i])'
          PROVE  command[r].todo[i] \in command[r].reviewed
      <4>1. command[r].todo[i] # p /\ command[r].todo[i] \in Proposals
        BY <2>2, <3>1 DEF OnceInv, LoopInv, Distinct
      <4>2. Reviewed(command[r].todo[i])
        BY <2>4, <2>5, <3>1, <4>1 DEF Reviewed
      <4> QED
        BY <1>6, <3>1, <4>2 DEF OnceInv, LoopInv, Ahead, WriteReview
    <3> QED
      BY <2>4, <3>1 DEF Ahead, PastReview
  <2>11. Current(r)' = p
    BY <2>1, <2>4 DEF Current
  <2>12. \A o \in TicketsOf(p) : ~HasTicket(o)'
    BY <2>6, <2>7 DEF TicketsOf, HasTicket
  <2>13. LoopInv(r)'
    BY <2>4, <2>5, <2>10, <2>11, <2>12
    DEF OnceInv, LoopInv, PassedOnFile, OnFile, PastReview, TicketsOf, Distinct
  <2> QED
    BY <2>6, <2>8, <2>9, <2>13 DEF OnceInv
<1>7. ASSUME WriteTickets(r)
      PROVE  OnceInv(r)'
  <2>1. UNCHANGED <<reviews, artifacts>>
    BY <1>7 DEF WriteTickets
  <2>2. /\ command'[r].pc = "ticket_events"
        /\ command'[r].todo = command[r].todo
        /\ command'[r].reviewed = command[r].reviewed
        /\ command'[r].at = command[r].at
    BY <1>1, <1>7
    DEF WriteTickets, MoveTo, TypeInv, TypeOK, PipelineTypeOK, Command
  <2>3. Ahead(r)'
    BY <1>7, <2>1, <2>2 DEF OnceInv, LoopInv, Ahead, Reviewed, WriteTickets, PastReview
  <2>4. PassedOnFile(r) /\ OnFile(Current(r), command[r].at)
    BY <1>7 DEF OnceInv, LoopInv, WriteTickets, PastReview
  <2>5. LoopInv(r)'
    BY <2>1, <2>2, <2>3, <2>4
    DEF OnceInv, LoopInv, PassedOnFile, OnFile, Current, PastReview, Distinct
  <2>6. TicketsReady'
    BY <1>7, <2>1, <2>4
    DEF OnceInv, TicketsReady, WriteTickets, WritePaperOrderTickets, DryRunTicket,
        HasTicket, PassedOnFile, OnFile
  <2> QED
    BY <2>1, <2>5, <2>6 DEF OnceInv, Once, OnFile
<1>8. ASSUME Kill(r)
      PROVE  OnceInv(r)'
  <2>1. UNCHANGED <<reviews, orders, artifacts>> /\ command'[r] = Ended
    BY <1>1, <1>8 DEF Kill, ledgerVars, TypeInv, TypeOK, PipelineTypeOK
  <2>2. LoopInv(r)'
    BY <2>1 DEF Ended, LoopInv, Distinct, PastReview
  <2> QED
    BY <1>2, <2>1, <2>2 DEF OnceInv
<1>9. ASSUME UNCHANGED <<reviews, orders, command>>
      PROVE  LoopInv(r)'
  BY <1>9
  DEF OnceInv, LoopInv, Ahead, Reviewed, PassedOnFile, OnFile, Current, HasTicket,
      TicketsOf, Distinct
<1>10. ASSUME NEW p \in Proposals, WriteTradeProposalArtifact(p)
       PROVE  OnceInv(r)'
  <2>1. UNCHANGED <<reviews, orders, command>>
    BY <1>10 DEF WriteTradeProposalArtifact, ledgerVars
  <2>2. Distinct(artifacts)'
    <3>1. artifacts \in Seq(Proposals) /\ Len(artifacts) \in Nat
          /\ DOMAIN artifacts = 1 .. Len(artifacts)
      BY LenProperties DEF TypeInv, TypeOK, PipelineTypeOK
    <3>2. <<p>> \in Seq(Proposals) /\ Len(<<p>>) = 1 /\ <<p>>[1] = p
      OBVIOUS
    <3>3. /\ Len(artifacts') = 1 + Len(artifacts)
          /\ \A i \in 1 .. 1 + Len(artifacts) :
               artifacts'[i] = IF i <= 1 THEN <<p>>[i] ELSE artifacts[i - 1]
      <4>1. artifacts' = <<p>> \o artifacts
        BY <1>10 DEF WriteTradeProposalArtifact
      <4> QED
        BY <3>1, <3>2, <4>1, ConcatProperties, Zenon
    <3>4. artifacts'[1] = p
          /\ \A i \in 2 .. 1 + Len(artifacts) :
               i - 1 \in 1 .. Len(artifacts) /\ artifacts'[i] = artifacts[i - 1]
      BY <3>1, <3>2, <3>3
    <3>5. \A i \in 1 .. Len(artifacts) : artifacts[i] # p
      BY <1>10, <3>1 DEF WriteTradeProposalArtifact
    <3>6. ASSUME NEW i \in 1 .. 1 + Len(artifacts), NEW j \in 1 .. 1 + Len(artifacts),
                 artifacts'[i] = artifacts'[j]
          PROVE  i = j
      <4>1. CASE i = 1 \/ j = 1
        <5>1. \A k \in 2 .. 1 + Len(artifacts) : artifacts'[k] # p
          BY <3>4, <3>5
        <5> QED
          BY <3>1, <3>4, <3>6, <4>1, <5>1
      <4>2. CASE i # 1 /\ j # 1
        <5>1. /\ i - 1 \in 1 .. Len(artifacts) /\ j - 1 \in 1 .. Len(artifacts)
              /\ artifacts[i - 1] = artifacts[j - 1]
          BY <3>1, <3>4, <3>6, <4>2
        <5>2. i - 1 = j - 1
          BY <5>1 DEF OnceInv, Distinct
        <5> QED
          BY <5>2
      <4> QED
        BY <4>1, <4>2
    <3> QED
      BY <3>3, <3>6 DEF Distinct
  <2> QED
    BY <1>2, <1>9, <2>1, <2>2
<1>11. CASE Environment \/ UNCHANGED vars
  <2>1. UNCHANGED <<reviews, orders, command, artifacts>>
    BY <1>11 DEF Environment, UpsertPaperStrategy, Tick, pipelineVars, vars, ledgerVars
  <2> QED
    BY <1>2, <1>9, <2>1 DEF OnceInv
<1> QED
  BY <1>1, <1>3, <1>4, <1>5, <1>6, <1>7, <1>8, <1>10, <1>11
  DEF Next, PipelineNext, Step

LEMMA OnceAtInit ==
  ASSUME NEW r \in Runners, Init
  PROVE  OnceInv(r)
<1>1. command[r] = Ended /\ artifacts = <<>> /\ \A o \in Orders : ~HasTicket(o)
  BY DEF Init, PipelineInit, LedgerInit, Commands, HasTicket, NoRow
<1>2. LoopInv(r) /\ Distinct(artifacts)
  BY <1>1 DEF Ended, LoopInv, Distinct, PastReview
<1> QED
  BY <1>1, <1>2 DEF OnceInv, Once, TicketsReady, OnFile, Init, LedgerInit

(* No two rows, no two seconds of review.                                   *)
LEMMA OnceIsReviewedOnce ==
  ASSUME NEW r \in Runners, OnceInv(r)
  PROVE  ReviewedOnce
<1> SUFFICES ASSUME NEW p \in Proposals
             PROVE  Cardinality({t \in Seconds : reviews[<<p, t>>] # "none"}) <= 1
  BY DEF ReviewedOnce
<1> DEFINE rows == {t \in Seconds : reviews[<<p, t>>] # "none"}
<1>1. \A t, u \in rows : t = u
  BY DEF OnceInv, Once, OnFile
<1>2. rows = {} \/ \E t : rows = {t}
  BY <1>1
<1> HIDE DEF rows
<1>3. Cardinality(rows) = 0 \/ Cardinality(rows) = 1
  BY <1>2, FS_EmptySet, FS_Singleton
<1> QED
  BY <1>3 DEF rows

(* A single runner that skips what it reviewed reviews nothing twice, over  *)
(* all its runs and kills, if its read of reviewed ids is not cut short.    *)
THEOREM RunnerReviewsOnce ==
  ASSUME NEW r \in Runners, AloneAndSkipping(r)
  PROVE  Spec => []ReviewedOnce
BY InitType, StepType, OnceAtInit, OnceStep, OnceIsReviewedOnce, PTL DEF Spec

(* And every ticket it wrote names a review that passed and still says so.  *)
THEOREM RunnerTicketsReady ==
  ASSUME NEW r \in Runners, AloneAndSkipping(r)
  PROVE  Spec => []ReadyReviewBehindTicket
<1>1. OnceInv(r) => ReadyReviewBehindTicket
  BY DEF OnceInv, TicketsReady, ReadyReviewBehindTicket
<1> QED
  BY <1>1, InitType, StepType, OnceAtInit, OnceStep, PTL DEF Spec

-----------------------------------------------------------------------------
(* A runner that works alone keeps the daily cap *)

Total(S) == Estimated[S]

CapInv(r) ==
  LET pc == command[r].pc
      used == command[r].used
      this == Total({Current(r)})
  IN /\ Total(Ticketed) <= MaxDailyNotional
     /\ pc \in {"proposal", "review", "review_events", "gate", "tickets"} =>
          Total(Ticketed) <= used
     /\ pc = "review_events" /\ command[r].ready => used + this <= MaxDailyNotional
     /\ pc \in {"gate", "tickets"} => used + this <= MaxDailyNotional
     /\ pc = "ticket_events" => Total(Ticketed) <= used + this

(* A proposal's tickets add its notional to the day's, or nothing.          *)
LEMMA TicketingAdds ==
  ASSUME NEW p \in Proposals, NEW S \in SUBSET Proposals, NEW T \in {S, S \cup {p}}
  PROVE  /\ Total(T) \in Nat
         /\ Total(T) <= Total(S) + Total({p})
<1>1. Total(S) \in Nat /\ Total(S \cup {p}) \in Nat /\ Total({p}) \in Nat
  BY PipelineAssumption DEF IsSum, Total
<1>2. CASE p \in S
  <2>1. T = S
    BY <1>2
  <2> QED
    BY <1>1, <2>1
<1>3. CASE p \notin S
  <2>1. Total(S \cup {p}) = Total(S) + Total({p})
    BY <1>3, PipelineAssumption DEF IsSum, Total
  <2> QED
    BY <1>1, <2>1
<1> QED
  BY <1>2, <1>3

LEMMA AdvanceCap ==
  ASSUME NEW r \in Commands, TypeInv, CapInv(r), NEW used \in Nat, Advance(r, used),
         orders' = orders, r \in Runners, Total(Ticketed) <= used
  PROVE  CapInv(r)'
<1>1. Ticketed' = Ticketed
  BY DEF Ticketed, HasTicket
<1>2. \/ command'[r].pc = "idle"
      \/ command'[r].pc = "proposal" /\ command'[r].used = used
  BY DEF TypeInv, TypeOK, PipelineTypeOK, Advance, Ended
<1> HIDE DEF Ticketed
<1> QED
  BY <1>1, <1>2 DEF CapInv, Total

LEMMA MoveToCap ==
  ASSUME NEW r \in Commands, TypeInv, CapInv(r), orders' = orders,
         NEW pc, MoveTo(r, pc),
         \/ command[r].pc = "proposal" /\ pc = "review"
         \/ command[r].pc = "review_events" /\ command[r].ready /\ pc = "gate"
         \/ command[r].pc = "gate" /\ pc = "tickets"
  PROVE  CapInv(r)'
<1>1. Ticketed' = Ticketed
  BY DEF Ticketed, HasTicket
<1>2. /\ command'[r].pc = pc
      /\ command'[r].used = command[r].used
      /\ Current(r)' = Current(r)
  BY DEF TypeInv, TypeOK, PipelineTypeOK, Command, MoveTo, Current
<1> QED
  BY <1>1, <1>2 DEF CapInv, Total

LEMMA CapStep ==
  ASSUME NEW r \in Runners, Commands = {r}, Counted = Estimated,
         TypeInv, CapInv(r), [Next]_vars
  PROVE  CapInv(r)'
<1> DEFINE used == command[r].used
           this == Total({Current(r)})
<1>1. r \in Commands /\ used \in Nat /\ TypeInv'
  BY StepType DEF TypeInv, TypeOK, PipelineTypeOK, Command
<1>2. Ticketed \in SUBSET Proposals /\ Total(Ticketed) \in Nat
  <2>1. Ticketed \in SUBSET Proposals
    BY DEF Ticketed
  <2> QED
    BY <2>1, PipelineAssumption DEF IsSum, Total
<1>3. orders' = orders => Ticketed' = Ticketed
  BY DEF Ticketed, HasTicket
<1>4. command[r].pc # "idle" => Current(r) \in Proposals /\ this \in Nat
  BY <1>1, CurrentIsProposal, PipelineAssumption DEF IsSum, Total
<1>5. CASE Begin(r) \/ Kill(r)
  <2>1. command'[r].pc \in {"daily", "idle"}
    BY <1>1, <1>5, BeginsWithReads
    DEF TypeInv, TypeOK, PipelineTypeOK, Kill, Ended
  <2>2. Ticketed' = Ticketed
    BY <1>3, <1>5 DEF Begin, Kill, ledgerVars
  <2> QED
    BY <2>1, <2>2 DEF CapInv, Total
<1>6. CASE ReadDailyUsed(r)
  <2>1. command'[r].pc = "proposal" /\ command'[r].used = Total(Ticketed)
    BY <1>1, <1>6
    DEF TypeInv, TypeOK, PipelineTypeOK, Command, ReadDailyUsed,
        PaperOrderNotionalToday, Total
  <2>2. Ticketed' = Ticketed
    BY <1>3, <1>6 DEF ReadDailyUsed, ledgerVars
  <2> QED
    BY <1>2, <2>1, <2>2 DEF CapInv, Total
<1>7. CASE SkipOrTake(r)
  BY <1>1, <1>7, AdvanceCap, MoveToCap DEF SkipOrTake, CapInv, ledgerVars
<1>8. CASE WriteReview(r)
  <2>1. /\ command'[r].pc = "review_events"
        /\ command'[r].used = used
        /\ command'[r].ready = ReviewPasses(Current(r), used)
        /\ Current(r)' = Current(r)
    BY <1>1, <1>8
    DEF TypeInv, TypeOK, PipelineTypeOK, Command, WriteReview, Current
  <2>2. Ticketed' = Ticketed /\ Total(Ticketed) <= used
    BY <1>3, <1>8 DEF WriteReview, CapInv
  <2> QED
    BY <2>1, <2>2 DEF CapInv, ReviewPasses, Total
<1>9. CASE WriteReviewEvents(r)
  BY <1>1, <1>9, AdvanceCap, MoveToCap DEF WriteReviewEvents, CapInv
<1>10. CASE TicketGate(r)
  BY <1>1, <1>10, AdvanceCap, MoveToCap DEF TicketGate, CapInv, ledgerVars
<1>11. CASE WriteTickets(r)
  <2>1. /\ command'[r].pc = "ticket_events"
        /\ command'[r].used = used
        /\ Current(r)' = Current(r)
    BY <1>1, <1>11
    DEF TypeInv, TypeOK, PipelineTypeOK, Command, WriteTickets, MoveTo, Current
  <2>2. Ticketed' \in {Ticketed, Ticketed \cup {Current(r)}}
    BY <1>11
    DEF WriteTickets, WritePaperOrderTickets, DryRunTicket, Ticketed, TicketsOf,
        HasTicket
  <2>3. Total(Ticketed') <= Total(Ticketed) + this /\ Total(Ticketed') \in Nat
    BY <1>2, <1>4, <1>11, <2>2, TicketingAdds DEF WriteTickets
  <2>4. Total(Ticketed) <= used /\ used + this <= MaxDailyNotional
    BY <1>11 DEF WriteTickets, CapInv
  <2>5. Total(Ticketed') <= used + this /\ Total(Ticketed') <= MaxDailyNotional
    BY <1>1, <1>2, <1>4, <1>11, <2>3, <2>4, PipelineAssumption DEF WriteTickets
  <2> QED
    BY <2>1, <2>5 DEF CapInv, Total
<1>12. CASE WriteTicketEvents(r)
  <2>1. Advance(r, used + this) /\ used + this \in Nat
    BY <1>1, <1>4, <1>12 DEF WriteTicketEvents, Total
  <2>2. Total(Ticketed) <= used + this /\ orders' = orders
    BY <1>12 DEF WriteTicketEvents, CapInv
  <2> QED
    BY <1>1, <2>1, <2>2, AdvanceCap
<1>13. CASE \/ \E p \in Proposals : WriteTradeProposalArtifact(p)
            \/ Environment
            \/ UNCHANGED vars
  <2>1. UNCHANGED <<orders, command>>
    BY <1>13 DEF WriteTradeProposalArtifact, Environment, UpsertPaperStrategy, Tick,
                 ledgerVars, pipelineVars, vars
  <2> QED
    BY <1>3, <2>1 DEF CapInv, Current, Total
<1> QED
  BY <1>5, <1>6, <1>7, <1>8, <1>9, <1>10, <1>11, <1>12, <1>13
  DEF Next, PipelineNext, Step

LEMMA CapAtInit ==
  ASSUME NEW r \in Runners, Commands = {r}, Init
  PROVE  CapInv(r)
<1>1. Ticketed = {}
  BY DEF Init, LedgerInit, Ticketed, TicketsOf, HasTicket, NoRow
<1>2. Total({}) = 0
  BY PipelineAssumption DEF IsSum, Total
<1>3. command[r].pc = "idle"
  BY DEF Init, PipelineInit, Ended
<1> QED
  BY <1>1, <1>2, <1>3, PipelineAssumption DEF CapInv

(* With one runner, no reviewer and rows whose quantity times limit price   *)
(* is the notional the safety check estimated (a multiplier of 1), the day  *)
(* stays within PAPER_MAX_DAILY_NOTIONAL through every kill and restart.    *)
THEOREM RunnerKeepsDailyCap ==
  ASSUME NEW r \in Runners, Commands = {r}, Counted = Estimated
  PROVE  Spec => []DailyCapKept
<1>1. Init => TypeInv /\ CapInv(r)
  BY InitType, CapAtInit
<1>2. TypeInv /\ CapInv(r) /\ [Next]_vars => TypeInv' /\ CapInv(r)'
  BY StepType, CapStep
<1>3. CapInv(r) => DailyCapKept
  BY DEF CapInv, DailyCapKept, Total
<1> QED
  BY <1>1, <1>2, <1>3, PTL DEF Spec
=============================================================================
