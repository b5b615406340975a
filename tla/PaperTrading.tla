------------------------------ MODULE PaperTrading ------------------------------
(***************************************************************************)
(* The paper-trading lane: proposals become dry-run tickets in the         *)
(* pipeline, tickets become broker orders at the desk, an operator moves   *)
(* strategies in and out of running, and all of it meets only in the two   *)
(* SQLite files of PaperLedger.                                            *)
(***************************************************************************)
EXTENDS ProposalPipeline, TicketDesk

tradingVars == <<ledgerVars, pipelineVars, deskVars>>

TradingInit == Init /\ DeskInit

TradingNext ==
  \/ Next /\ UNCHANGED deskVars
  \/ DeskNext /\ UNCHANGED pipelineVars

TradingSpec == TradingInit /\ [][TradingNext]_tradingVars

TradingTypeOK == TypeOK /\ DeskTypeOK

-----------------------------------------------------------------------------
(* Who has what in hand *)

(* Submitters that hold a broker order for o they have not marked yet.      *)
Marking(o) ==
  {s \in Submitters : desk[s].order = o /\ desk[s].pc \in {"select", "mark"}}

(* Submitters whose preflight of o passed and who will place it next.       *)
Placing(o) ==
  {s \in Submitters : desk[s].order = o /\ desk[s].pc \in {"connect", "place"}}

DeskIdle == \A d \in Desks : desk[d].pc = "idle"

-----------------------------------------------------------------------------
(* Safety of the desk, in the company of everybody else *)

(* No order reaches the broker for a ticket that nobody ever approved,      *)
(* however tickets are rewritten, rejected or resubmitted and whatever      *)
(* processes die in between.                                                *)
OnlyApprovedReachBroker ==
  \A o \in Orders : placed[o] > 0 => approvals[o] > 0

(* A ticket shown as submitted_to_broker has an order at the broker and     *)
(* carries the broker's id for it (submitter.py marks it after place_order).*)
SubmittedReachedBroker ==
  \A o \in Orders :
    orders[o].status = "submitted_to_broker" =>
      /\ placed[o] > 0
      /\ "broker_order_id" \in orders[o].meta.marks

(* One approval buys at most one broker order, while a single submission    *)
(* runner is in use and none died: rejections, re-approvals, new reviews    *)
(* and stale reads of the approver make no second one.                      *)
OneOrderPerApproval ==
  deaths = 0 => \A o \in Orders : placed[o] <= approvals[o]

(* With several submission runners at once each of them may pass preflight  *)
(* before the first one marks the ticket, and one that dies before its mark *)
(* leaves the ticket as approved as it was: an approval costs at most one   *)
(* broker order for each runner that places, and each death one more.       *)
PlacedWithinApprovals ==
  \A o \in Orders :
    placed[o] <= Cardinality(SubmitsApproved) * approvals[o] + deaths

(* When the desk is at rest and nobody died, every order at the broker is   *)
(* in the account ledger, and everything said to be submitted was.          *)
BrokerOrdersAreLogged ==
  \A o \in Orders :
    /\ <<"paper_order_submitted", o>> \in events => placed[o] > 0
    /\ (deaths = 0 /\ DeskIdle /\ placed[o] > 0) =>
         <<"paper_order_submitted", o>> \in events

(* What a person or the broker made of a ticket stands: no later review     *)
(* makes it a dry run again or puts its own second on it.                   *)
DecisionsStand ==
  [][\A o \in Orders :
       orders[o].status \notin {"none", "dry_run"} =>
         /\ orders'[o].status \notin {"none", "dry_run"}
         /\ orders'[o].created_at = orders[o].created_at]_orders

-----------------------------------------------------------------------------
(* The desk implements OrderAuthority *)

(* A ticket has authority when a submitter is about to place it, whatever   *)
(* its row says by now; it has none while its order waits to be marked, as  *)
(* the mark will overwrite the row; otherwise the row tells.                *)
HasAuthority(o) ==
  IF Placing(o) # {} THEN TRUE
  ELSE IF Marking(o) # {} THEN FALSE
  ELSE orders[o].status = "approved_for_submit"

Authority == INSTANCE OrderAuthority WITH
  authority <- {o \in Orders : HasAuthority(o)},
  grants <- approvals,
  sent <- placed

(* With one submission runner that never dies, every step of the lane is a  *)
(* step of OrderAuthority: authority never returns without an approval.     *)
AuthorityKept == Authority!AuthoritySpec

-----------------------------------------------------------------------------
(* The desk leaves the pipeline alone *)

(* What the pipeline can tell of a ticket: that its row is there, and the   *)
(* second of the review that wrote it, as if it had just been written; and  *)
(* of the account ledger, the events of its own kinds.                      *)
TicketsAsWritten ==
  [o \in Orders |->
     IF HasTicket(o) THEN DryRunTicket(orders[o].created_at) ELSE NoRow]

PipelineKinds == {"paper_review", "paper_order_ticket"}

EventsAsWritten == {e \in events : e[1] \in PipelineKinds}

Pipeline == INSTANCE ProposalPipeline WITH
  orders <- TicketsAsWritten,
  events <- EventsAsWritten

(* With its UPDATEs of shared rows the desk never changes what a runner or  *)
(* a reviewer reads: every behaviour of the lane is one of the pipeline on  *)
(* its own, in which the desk does nothing at all.                          *)
PipelineUndisturbed == Pipeline!Spec

-----------------------------------------------------------------------------
(* What the documents say of the desk, and the code does not keep *)

(* "This path requires ... strategy registry status running": so says the   *)
(* paper-trading README of placing an order.  The record is read before the *)
(* ticket, and a kill switch thrown after that stops nothing.               *)
PlacedOnlyWhileRunning ==
  [][\A o \in Orders :
       placed'[o] > placed[o] => StrategyRunning(ProposalOf[o])]_placed

(* "Submit one approved ticket": one approved ticket is one broker order,   *)
(* also when the submission runner is started again after it died.          *)
OneOrderPerApprovalThroughDeaths ==
  \A o \in Orders : placed[o] <= approvals[o]
=============================================================================
