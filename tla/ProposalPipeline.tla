--------------------------- MODULE ProposalPipeline ---------------------------
(***************************************************************************)
(* The two commands that turn trade proposals into dry-run tickets:        *)
(*                                                                         *)
(*   Runners    run_paper_strategy_runner, started by a timer; skips what  *)
(*              has a review unless it was given --include-reviewed        *)
(*   Reviewers  the proposal review command, started by hand; writes       *)
(*              tickets only with --create-dry-run-tickets                 *)
(*                                                                         *)
(* A command is a process of its own.  It reads the newest artifacts, the  *)
(* reviewed ids and the notional used today once, then works through its   *)
(* proposals one commit at a time, and may be killed between any two.      *)
(***************************************************************************)
EXTENDS PaperLedger, Sequences

CONSTANTS
  Runners,            \* strategy runner processes
  Reviewers,          \* proposal review processes
  IncludesReviewed,   \* runners started with --include-reviewed
  CreatesTickets,     \* reviewers started with --create-dry-run-tickets
  Malformed,          \* proposals whose artifact does not parse
  Eligible,           \* proposals that pass every safety check but the cap
  WithinLimits,       \* proposals within their strategy's symbols and size
  Estimated,          \* the estimated notional of some proposals
  MaxDailyNotional,   \* PAPER_MAX_DAILY_NOTIONAL
  MaxFiles,           \* --max-files
  ReviewLimit,        \* the LIMIT under which reviewed ids are read
  MaxKills            \* bound: commands killed before they end

Commands == Runners \cup Reviewers

ASSUME PipelineAssumption ==
  /\ Runners \cap Reviewers = {}
  /\ IncludesReviewed \subseteq Runners
  /\ CreatesTickets \subseteq Reviewers
  /\ Malformed \subseteq Proposals
  /\ Eligible \subseteq Proposals
  /\ WithinLimits \subseteq Proposals
  /\ IsSum(Estimated)
  /\ MaxDailyNotional \in Nat
  /\ MaxFiles \in Nat \ {0}
  /\ ReviewLimit \in Nat \ {0}
  /\ MaxKills \in Nat

VARIABLES
  artifacts,   \* the proposal files, newest first
  command,     \* what each process remembers: [Commands -> Command]
  kills        \* how many commands were killed before they ended

pipelineVars == <<artifacts, command, kills>>

Stages == {"idle", "daily", "proposal", "review", "review_events",
           "gate", "tickets", "ticket_events"}

Command == [pc : Stages,
            todo : Seq(Proposals),
            reviewed : SUBSET Proposals,
            used : Nat,
            at : 0 .. MaxSecond,
            ready : BOOLEAN]

Ended == [pc |-> "idle", todo |-> <<>>, reviewed |-> {}, used |-> 0,
          at |-> 0, ready |-> FALSE]

PipelineTypeOK ==
  /\ artifacts \in Seq(Proposals)
  /\ command \in [Commands -> Command]
  /\ kills \in 0 .. MaxKills

PipelineInit ==
  /\ artifacts = <<>>
  /\ command = [c \in Commands |-> Ended]
  /\ kills = 0

Current(c) == Head(command[c].todo)

(* The for loop goes on to its next proposal, or the command ends. *)
Advance(c, used) ==
  command' = [command EXCEPT
    ![c] = IF Len(command[c].todo) = 1
           THEN Ended
           ELSE [pc |-> IF c \in Runners THEN "proposal" ELSE "review",
                 todo |-> Tail(command[c].todo),
                 reviewed |-> command[c].reviewed,
                 used |-> used,
                 at |-> 0,
                 ready |-> FALSE]]

MoveTo(c, pc) == command' = [command EXCEPT ![c].pc = pc]

-----------------------------------------------------------------------------
(* Proposals arrive from research *)

WriteTradeProposalArtifact(p) ==
  /\ \A i \in DOMAIN artifacts : artifacts[i] # p
  /\ artifacts' = <<p>> \o artifacts
  /\ UNCHANGED <<command, kills>>
  /\ UNCHANGED ledgerVars

-----------------------------------------------------------------------------
(* A command starts: the newest max_files artifacts, all or nothing *)

LoadedProposals ==
  IF Len(artifacts) <= MaxFiles THEN artifacts ELSE SubSeq(artifacts, 1, MaxFiles)

(* One artifact that does not parse among them, and the command raises.     *)
ArtifactsParse ==
  \A i \in DOMAIN LoadedProposals : LoadedProposals[i] \notin Malformed

(* A defect: the ids of the last review only. *)
LastReviewedProposalId ==
  {{k[1] : k \in S} : S \in LatestPaperExecutionReviews(1)}

ReviewedProposalIds ==
  {{k[1] : k \in S} : S \in LatestPaperExecutionReviews(ReviewLimit)}

Begin(c) ==
  /\ command[c].pc = "idle"
  /\ LoadedProposals # <<>>
  /\ ArtifactsParse
  /\ \E ids \in IF c \in Runners \ IncludesReviewed
                THEN ReviewedProposalIds ELSE {{}} :
       command' = [command EXCEPT ![c] = [Ended EXCEPT
                     !.pc = "daily", !.todo = LoadedProposals, !.reviewed = ids]]
  /\ UNCHANGED <<artifacts, kills>>
  /\ UNCHANGED ledgerVars

(* daily_used is read once and never again in this run. *)
ReadDailyUsed(c) ==
  /\ command[c].pc = "daily"
  /\ command' = [command EXCEPT
       ![c].used = PaperOrderNotionalToday,
       ![c].pc = IF c \in Runners THEN "proposal" ELSE "review"]
  /\ UNCHANGED <<artifacts, kills>>
  /\ UNCHANGED ledgerVars

-----------------------------------------------------------------------------
(* The loop over proposals *)

PaperStrategyGate(p) == StrategyRunning(p) /\ p \in WithinLimits

(* A defect of the loop's head: the first skipped proposal ends the run.    *)
StopAtFirstSkip(c) ==
  /\ command[c].pc = "proposal"
  /\ IF /\ Current(c) \notin command[c].reviewed
        /\ PaperStrategyGate(Current(c))
     THEN MoveTo(c, "review")
     ELSE command' = [command EXCEPT ![c] = Ended]
  /\ UNCHANGED <<artifacts, kills>>
  /\ UNCHANGED ledgerVars

(* The runner skips what was reviewed before it started, and what its       *)
(* strategy's gate stops; neither leaves a trace.                           *)
SkipOrTake(c) ==
  /\ command[c].pc = "proposal"
  /\ IF /\ Current(c) \notin command[c].reviewed
        /\ PaperStrategyGate(Current(c))
     THEN MoveTo(c, "review")
     ELSE Advance(c, command[c].used)
  /\ UNCHANGED <<artifacts, kills>>
  /\ UNCHANGED ledgerVars

(* A proposal without intents is blocked, whatever else it says.            *)
ReviewPasses(p, used) ==
  /\ p \in Eligible
  /\ TicketsOf(p) # {}
  /\ used + Estimated[{p}] <= MaxDailyNotional

WriteReview(c) ==
  LET p == Current(c)
      ready == ReviewPasses(p, command[c].used)
  IN /\ command[c].pc = "review"
     /\ WritePaperExecutionReview(p, now, IF ready THEN "ready" ELSE "blocked")
     /\ command' = [command EXCEPT ![c].pc = "review_events",
                                   ![c].at = now,
                                   ![c].ready = ready]
     /\ UNCHANGED <<now, orders, registry, events, artifacts, kills>>

(* One event for each intent: none for a proposal without.                  *)
ReviewEvents(p) == {<<"paper_review", o>> : o \in TicketsOf(p)}

(* Defects of the step below: a blocked review goes on to tickets; a        *)
(* blocked review leaves no event; the runner needs the reviewers' flag.    *)
WriteReviewEventsTakingBlocked(c) ==
  /\ command[c].pc = "review_events"
  /\ WriteAccountTradeEvents(ReviewEvents(Current(c)))
  /\ MoveTo(c, "gate")
  /\ UNCHANGED <<now, reviews, orders, registry, artifacts, kills>>

WriteReviewEventsIfReady(c) ==
  /\ command[c].pc = "review_events"
  /\ IF command[c].ready
     THEN WriteAccountTradeEvents(ReviewEvents(Current(c)))
     ELSE UNCHANGED events
  /\ IF command[c].ready /\ c \in Runners \cup CreatesTickets
     THEN MoveTo(c, "gate")
     ELSE Advance(c, command[c].used)
  /\ UNCHANGED <<now, reviews, orders, registry, artifacts, kills>>

WriteReviewEventsByFlag(c) ==
  /\ command[c].pc = "review_events"
  /\ WriteAccountTradeEvents(ReviewEvents(Current(c)))
  /\ IF command[c].ready /\ c \in CreatesTickets
     THEN MoveTo(c, "gate")
     ELSE Advance(c, command[c].used)
  /\ UNCHANGED <<now, reviews, orders, registry, artifacts, kills>>

(* After the events, tickets are attempted only on a review that passed.     *)
WriteReviewEvents(c) ==
  /\ command[c].pc = "review_events"
  /\ WriteAccountTradeEvents(ReviewEvents(Current(c)))
  /\ IF command[c].ready /\ c \in Runners \cup CreatesTickets
     THEN MoveTo(c, "gate")
     ELSE Advance(c, command[c].used)
  /\ UNCHANGED <<now, reviews, orders, registry, artifacts, kills>>

(* A defect: the tickets' events are written before the tickets are.        *)
TicketEventsFirst(c) ==
  /\ command[c].pc = "gate"
  /\ IF PaperStrategyGate(Current(c))
     THEN /\ MoveTo(c, "tickets")
          /\ WriteAccountTradeEvents(
               {<<"paper_order_ticket", o>> : o \in TicketsOf(Current(c))})
     ELSE /\ Advance(c, command[c].used)
          /\ UNCHANGED events
  /\ UNCHANGED <<now, reviews, orders, registry, artifacts, kills>>

(* create_dry_run_order_tickets reads the strategy's record once more.      *)
TicketGate(c) ==
  /\ command[c].pc = "gate"
  /\ IF PaperStrategyGate(Current(c))
     THEN MoveTo(c, "tickets")
     ELSE Advance(c, command[c].used)
  /\ UNCHANGED <<artifacts, kills>>
  /\ UNCHANGED ledgerVars

(* A defect: the tickets carry the second they are written in.              *)
WriteTicketsNow(c) ==
  /\ command[c].pc = "tickets"
  /\ WritePaperOrderTickets(Current(c), now)
  /\ MoveTo(c, "ticket_events")
  /\ UNCHANGED <<now, reviews, registry, events, artifacts, kills>>

WriteTickets(c) ==
  /\ command[c].pc = "tickets"
  /\ WritePaperOrderTickets(Current(c), command[c].at)
  /\ MoveTo(c, "ticket_events")
  /\ UNCHANGED <<now, reviews, registry, events, artifacts, kills>>

(* A defect: the runner, too, keeps comparing with what it read at first.   *)
WriteTicketEventsUncounted(c) ==
  /\ command[c].pc = "ticket_events"
  /\ WriteAccountTradeEvents(
       {<<"paper_order_ticket", o>> : o \in TicketsOf(Current(c))})
  /\ Advance(c, command[c].used)
  /\ UNCHANGED <<now, reviews, orders, registry, artifacts, kills>>

(* Only the runner adds what it ticketed to the notional it compares next.  *)
WriteTicketEvents(c) ==
  LET p == Current(c)
      used == IF c \in Runners THEN command[c].used + Estimated[{p}]
                               ELSE command[c].used
  IN /\ command[c].pc = "ticket_events"
     /\ WriteAccountTradeEvents({<<"paper_order_ticket", o>> : o \in TicketsOf(p)})
     /\ Advance(c, used)
     /\ UNCHANGED <<now, reviews, orders, registry, artifacts, kills>>

(* A process dies, or an exception leaves its loop: what it committed stays. *)
Kill(c) ==
  /\ command[c].pc # "idle"
  /\ kills < MaxKills
  /\ kills' = kills + 1
  /\ command' = [command EXCEPT ![c] = Ended]
  /\ UNCHANGED artifacts
  /\ UNCHANGED ledgerVars

Step(c) ==
  \/ Begin(c)
  \/ ReadDailyUsed(c)
  \/ SkipOrTake(c)
  \/ WriteReview(c)
  \/ WriteReviewEvents(c)
  \/ TicketGate(c)
  \/ WriteTickets(c)
  \/ WriteTicketEvents(c)

PipelineNext ==
  \/ \E p \in Proposals : WriteTradeProposalArtifact(p)
  \/ \E c \in Commands : Step(c) \/ Kill(c)

-----------------------------------------------------------------------------
(* The pipeline with the operator and the clock, and nobody at the desk *)

Environment ==
  /\ \/ \E s \in Strategies, state \in {"running", "halted"} :
          UpsertPaperStrategy(s, state)
     \/ Tick
  /\ UNCHANGED pipelineVars

vars == <<ledgerVars, pipelineVars>>

Init == LedgerInit /\ PipelineInit

Next == PipelineNext \/ Environment

(* A timer starts the runner again and again, and a started command runs    *)
(* on unless it is killed; nothing is assumed of people and of the clock.   *)
Fairness == \A r \in Runners : WF_vars(Step(r))

Spec == Init /\ [][Next]_vars

FairSpec == Spec /\ Fairness

-----------------------------------------------------------------------------
(* Properties *)

TypeOK == LedgerTypeOK /\ PipelineTypeOK

Reviewed(p) == \E t \in Seconds : reviews[<<p, t>>] # "none"

(* The review a ticket names is on file and passed: order_router.py turns   *)
(* only safety-approved proposals into tickets, and a later review of the   *)
(* same proposal must not take that record away (the INSERT OR REPLACE of   *)
(* write_paper_execution_review takes the row of the same second).          *)
ReadyReviewBehindTicket ==
  \A o \in Orders :
    HasTicket(o) => reviews[<<ProposalOf[o], orders[o].created_at>>] = "ready"

(* The weaker fact every mix of commands keeps: the review a ticket names   *)
(* was committed before the ticket was, whatever it says now.  A command    *)
(* that blocks the proposal within the same second may replace the row, but *)
(* no ticket ever names a second without a review.                          *)
ReviewBehindTicket ==
  \A o \in Orders :
    HasTicket(o) => reviews[<<ProposalOf[o], orders[o].created_at>>] # "none"

(* A runner that skips reviewed proposals reviews none of them twice, over  *)
(* all its runs and through kills (reviewed_ids is read once a run).        *)
ReviewedOnce ==
  \A p \in Proposals :
    Cardinality({t \in Seconds : reviews[<<p, t>>] # "none"}) <= 1

(* The tickets of the day stay within PAPER_MAX_DAILY_NOTIONAL, although    *)
(* the notional used is read once per run and counted on from there.        *)
DailyCapKept == Estimated[Ticketed] <= MaxDailyNotional

(* The two databases tell one story whenever no command is at work and      *)
(* none was ever killed: each ticket has its event, and each intent of a    *)
(* reviewed proposal has the review's, and the reverse.  (The review of a   *)
(* proposal without intents is in one of the two only.)                     *)
LedgersAgree ==
  (kills = 0 /\ \A c \in Commands : command[c].pc = "idle") =>
    /\ \A o \in Orders : HasTicket(o) <=> <<"paper_order_ticket", o>> \in events
    /\ \A o \in Orders :
         Reviewed(ProposalOf[o]) <=> <<"paper_review", o>> \in events

(* An event never runs ahead of the row it reports, not even when commands  *)
(* are killed between the two files' commits.                               *)
NoEventWithoutRow ==
  /\ \A o \in Orders : <<"paper_order_ticket", o>> \in events => HasTicket(o)
  /\ \A o \in Orders :
       <<"paper_review", o>> \in events => Reviewed(ProposalOf[o])

(* The timer's runs review every proposal whose strategy comes to stay      *)
(* running, whatever halts, resumptions and kills happened before, as long  *)
(* as its artifact stays among the newest and those all parse.              *)
RunningProposalsAreReviewed ==
  \A p \in Proposals :
    <>[](/\ ArtifactsParse
         /\ p \in {LoadedProposals[i] : i \in DOMAIN LoadedProposals}
         /\ PaperStrategyGate(p))
      => <>Reviewed(p)

(* The loop passes over a proposal only if it has a review or its           *)
(* strategy's gate is closed as the loop comes to it: the ids read when the *)
(* run began name no proposal without a review.                             *)
NothingElsePassedOver ==
  [][\A c \in Commands :
       /\ command[c].pc = "proposal" /\ command'[c] # command[c]
       /\ command'[c].pc # "review" /\ kills' = kills
       => Reviewed(Current(c)) \/ ~PaperStrategyGate(Current(c))]_vars

Passed(p) == \E t \in Seconds : reviews[<<p, t>>] = "ready"

(* c has committed the review of p that passed, and goes on to its tickets. *)
Ticketing(c, p) ==
  /\ command[c].pc \in {"review_events", "gate", "tickets"}
  /\ command[c].pc = "review_events" => command[c].ready
  /\ Current(c) = p

(* A review that passed is never left behind: its proposal has its tickets, *)
(* or a command is on its way to write them.                                *)
PassedIsTicketedOrUnderWay(p) ==
  Passed(p) => p \in Ticketed \/ \E c \in Commands : Ticketing(c, p)

(* What passes the safety review gets its tickets while its strategy runs,  *)
(* if no command is ever killed between the two commits.                    *)
PassedReviewsAreTicketedUnlessKilled ==
  \A p \in Proposals :
    []PaperStrategyGate(p) /\ [](kills = 0) => (Passed(p) ~> p \in Ticketed)
=============================================================================
