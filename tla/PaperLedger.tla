------------------------------ MODULE PaperLedger ------------------------------
(***************************************************************************)
(* The two SQLite files the paper-trading commands share, and the          *)
(* statements they run on them.                                            *)
(*                                                                         *)
(*   paper_trading.db   paper_execution_reviews, paper_orders and          *)
(*                      paper_strategy_registry                            *)
(*   account_ledger.db  account_trade_events                               *)
(*                                                                         *)
(* Every function of ledger.py opens a connection of its own and commits   *)
(* once, so an operator below is one commit: an action of a command uses   *)
(* at most one of the writers.  Nothing ties commits of the two files, nor *)
(* two commits of one file, together.                                      *)
(***************************************************************************)
EXTENDS Integers, FiniteSets

CONSTANTS
  Proposals,     \* ids of trade proposals
  Orders,        \* ids of order tickets, one for each intent of a proposal;
                 \* a proposal may have no intents
  Strategies,    \* strategy ids
  ProposalOf,    \* [Orders -> Proposals], what the ticket id is built from
  StrategyOf,    \* [Proposals -> Strategies]
  Counted,       \* SUM(quantity * limit_price) of the rows of some proposals
  MaxSecond      \* bound: the seconds the wall clock shows

(* Sums over sets of proposals are given as functions on those sets, of     *)
(* which only this much is used.                                            *)
IsSum(f) ==
  /\ f \in [SUBSET Proposals -> Nat]
  /\ f[{}] = 0
  /\ \A S \in SUBSET Proposals : \A p \in Proposals \ S :
       f[S \cup {p}] = f[S] + f[{p}]

ASSUME LedgerAssumption ==
  /\ IsFiniteSet(Proposals)
  /\ IsFiniteSet(Orders)
  /\ ProposalOf \in [Orders -> Proposals]
  /\ StrategyOf \in [Proposals -> Strategies]
  /\ IsSum(Counted)
  /\ MaxSecond \in Nat \ {0}

VARIABLES
  now,        \* the wall clock, in the whole seconds review ids are made of
  reviews,    \* paper_execution_reviews: [Proposals \X Seconds -> Decision]
  orders,     \* paper_orders: [Orders -> Row]
  registry,   \* paper_strategy_registry: what the gates learn of a strategy
  events      \* account_trade_events: its kind and intent (or its ticket)

ledgerVars == <<now, reviews, orders, registry, events>>

Seconds == 1 .. MaxSecond

Decisions == {"none", "ready", "blocked"}

(***************************************************************************)
(* A row of paper_orders.  created_at is the second of the review that     *)
(* wrote the row; metadata is a JSON document beside the status, of which  *)
(* the review id and the marks left by approval, rejection and submission  *)
(* are kept.  "none" stands for the absence of the row.                    *)
(***************************************************************************)
TicketStatus ==
  {"dry_run", "approved_for_submit", "rejected", "submitted_to_broker"}

Marks == {"approved_at", "rejected_at", "broker_order_id"}

Metadata == [review : 0 .. MaxSecond, marks : SUBSET Marks]

Row == [status : TicketStatus \cup {"none"},
        created_at : 0 .. MaxSecond,
        meta : Metadata]

NoMetadata == [review |-> 0, marks |-> {}]
NoRow == [status |-> "none", created_at |-> 0, meta |-> NoMetadata]

(* A defect: the ticket is born approved.                                   *)
ApprovedTicket(t) ==
  [status |-> "approved_for_submit", created_at |-> t,
   meta |-> [review |-> t, marks |-> {}]]

DryRunTicket(t) ==
  [status |-> "dry_run", created_at |-> t,
   meta |-> [review |-> t, marks |-> {}]]

(***************************************************************************)
(* What is_paper_strategy_running makes of a strategy's record: no record, *)
(* a record that is paper_running with the kill switch off, any other.     *)
(***************************************************************************)
RegistryStates == {"missing", "running", "halted"}

EventKinds == {"paper_review", "paper_order_ticket",
               "paper_order_ticket_approved", "paper_order_ticket_rejected",
               "paper_order_submission_preflight", "paper_order_submitted"}

LedgerTypeOK ==
  /\ now \in Seconds
  /\ reviews \in [Proposals \X Seconds -> Decisions]
  /\ orders \in [Orders -> Row]
  /\ registry \in [Strategies -> RegistryStates]
  /\ events \subseteq EventKinds \X Orders

LedgerInit ==
  /\ now = 1
  /\ reviews = [k \in Proposals \X Seconds |-> "none"]
  /\ orders = [o \in Orders |-> NoRow]
  /\ registry \in [Strategies -> RegistryStates]
  /\ events = {}

-----------------------------------------------------------------------------
(* Reads *)

HasTicket(o) == orders[o].status # "none"

TicketsOf(p) == {o \in Orders : ProposalOf[o] = p}

Ticketed == {p \in Proposals : \E o \in TicketsOf(p) : HasTicket(o)}

StrategyRunning(p) == registry[StrategyOf[p]] = "running"

(* The rows a SELECT ... ORDER BY <second> DESC LIMIT n may return: rows of *)
(* one second come in an order the query does not fix.                      *)
Newest(rows, second(_), n) ==
  {S \in SUBSET rows :
     /\ Cardinality(S) = IF Cardinality(rows) < n THEN Cardinality(rows) ELSE n
     /\ \A x \in S, y \in rows \ S : second(x) >= second(y)}

LatestPaperExecutionReviews(n) ==
  Newest({k \in Proposals \X Seconds : reviews[k] # "none"},
         LAMBDA k : k[2], n)

LatestPaperOrders(n) ==
  Newest({o \in Orders : HasTicket(o)}, LAMBDA o : orders[o].created_at, n)

(* Every row of the day counts, whatever its status. *)
PaperOrderNotionalToday == Counted[Ticketed]

-----------------------------------------------------------------------------
(* Writes, one commit each *)

(* The review id is the proposal id and the second: INSERT OR REPLACE. *)
WritePaperExecutionReview(p, t, decision) ==
  reviews' = [reviews EXCEPT ![<<p, t>>] = decision]

(* All tickets of a proposal in one transaction, INSERT OR REPLACE by an    *)
(* order id that does not depend on the review.                             *)
WritePaperOrderTickets(p, t) ==
  orders' = [o \in Orders |->
               IF ProposalOf[o] = p THEN DryRunTicket(t) ELSE orders[o]]

(* A defect of the UPDATE below: metadata built afresh instead of merged.   *)
UpdateForgettingMetadata(o, status, meta, mark) ==
  orders' = [orders EXCEPT
               ![o] = [status |-> status,
                       created_at |-> orders[o].created_at,
                       meta |-> [review |-> 0, marks |-> {mark}]]]

(* The UPDATE of update_paper_order_ticket_status.  It has no guard on the  *)
(* status it replaces and writes back the metadata an earlier SELECT read.  *)
UpdatePaperOrderTicketStatus(o, status, meta, mark) ==
  orders' = [orders EXCEPT
               ![o] = [status |-> status,
                       created_at |-> orders[o].created_at,
                       meta |-> [review |-> meta.review,
                                 marks |-> meta.marks \cup {mark}]]]

WriteAccountTradeEvents(es) == events' = events \cup es

-----------------------------------------------------------------------------
(* The operator's side of the registry, and the clock *)

(* An operator registers, resumes, pauses, retires or kill-switches a       *)
(* strategy: one upsert, whatever the record said.                          *)
UpsertPaperStrategy(s, state) ==
  /\ state \in {"running", "halted"}
  /\ registry[s] # state
  /\ registry' = [registry EXCEPT ![s] = state]
  /\ UNCHANGED <<now, reviews, orders, events>>

Tick ==
  /\ now < MaxSecond
  /\ now' = now + 1
  /\ UNCHANGED <<reviews, orders, registry, events>>
=============================================================================
