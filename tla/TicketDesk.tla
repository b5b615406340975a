------------------------------ MODULE TicketDesk ------------------------------
(***************************************************************************)
(* The two commands that take a dry-run ticket to the broker:              *)
(*                                                                         *)
(*   Approvers    a person approves or rejects one ticket                  *)
(*   Submitters   the submission runner scans the newest tickets for       *)
(*                approved ones; with --submit-approved it places them at  *)
(*                the broker, otherwise it records what would block them   *)
(*                                                                         *)
(* The broker is the IBKR paper gateway, known only through what the       *)
(* submitter does with it: it connects or not, and an order it is given is *)
(* accepted or refused with an exception.                                  *)
(***************************************************************************)
EXTENDS PaperLedger

CONSTANTS
  Approvers,        \* ticket approval processes
  Submitters,       \* submission runner processes
  SubmitsApproved,  \* submitters started with --submit-approved
  NoOrder,          \* no ticket in hand
  OrderLimit,       \* --limit, the newest tickets scanned
  SubmitEnabled,    \* settings and broker profile allow paper submission
  MaxApprovals,     \* bound: approvals of one ticket
  MaxPlaced,        \* bound: broker orders for one ticket
  MaxDeaths         \* bound: desk commands that die before they end

Desks == Approvers \cup Submitters

ASSUME DeskAssumption ==
  /\ Approvers \cap Submitters = {}
  /\ SubmitsApproved \subseteq Submitters
  /\ IsFiniteSet(SubmitsApproved)
  /\ NoOrder \notin Orders
  /\ OrderLimit \in Nat \ {0}
  /\ SubmitEnabled \in BOOLEAN
  /\ MaxApprovals \in Nat
  /\ MaxPlaced \in Nat
  /\ MaxDeaths \in Nat

VARIABLES
  desk,        \* what each process remembers: [Desks -> Desk]
  placed,      \* the broker: orders accepted for each ticket
  approvals,   \* history: approvals committed for each ticket
  deaths       \* how many desk commands died before they ended

deskVars == <<desk, placed, approvals, deaths>>

DeskStages == {"idle", "update", "event",
               "record", "load", "connect", "place", "select", "mark", "submitted"}

Desk == [pc : DeskStages,
         todo : SUBSET Orders,
         order : Orders \cup {NoOrder},
         decision : {"approved_for_submit", "rejected"},
         running : BOOLEAN,
         meta : Metadata]

AtRest == [pc |-> "idle", todo |-> {}, order |-> NoOrder,
           decision |-> "rejected", running |-> FALSE, meta |-> NoMetadata]

DeskTypeOK ==
  /\ desk \in [Desks -> Desk]
  /\ placed \in [Orders -> Nat]
  /\ approvals \in [Orders -> Nat]
  /\ deaths \in 0 .. MaxDeaths

DeskInit ==
  /\ desk = [d \in Desks |-> AtRest]
  /\ placed = [o \in Orders |-> 0]
  /\ approvals = [o \in Orders |-> 0]
  /\ deaths = 0

Stage(d, pc) == desk' = [desk EXCEPT ![d].pc = pc]

-----------------------------------------------------------------------------
(* set_paper_order_ticket_approval *)

(* The ticket must exist; its status is not looked at.  The SELECT of the   *)
(* update follows, and its metadata is what the UPDATE will write back.     *)
SelectForApproval(a, o, decision) ==
  /\ desk[a].pc = "idle"
  /\ HasTicket(o)
  /\ decision = "approved_for_submit" => approvals[o] < MaxApprovals
  /\ desk' = [desk EXCEPT ![a] = [AtRest EXCEPT
                !.pc = "update", !.order = o, !.decision = decision,
                !.meta = orders[o].meta]]
  /\ UNCHANGED <<placed, approvals, deaths>>
  /\ UNCHANGED ledgerVars

Approve(a) ==
  LET o == desk[a].order
  IN /\ desk[a].pc = "update"
     /\ desk[a].decision = "approved_for_submit"
     /\ UpdatePaperOrderTicketStatus(o, "approved_for_submit", desk[a].meta,
                                     "approved_at")
     /\ approvals' = [approvals EXCEPT ![o] = @ + 1]
     /\ Stage(a, "event")
     /\ UNCHANGED <<now, reviews, registry, events, placed, deaths>>

(* A defect: the rejected ticket's row is deleted.                          *)
RejectByDeleting(a) ==
  /\ desk[a].pc = "update"
  /\ desk[a].decision = "rejected"
  /\ orders' = [orders EXCEPT ![desk[a].order] = NoRow]
  /\ Stage(a, "event")
  /\ UNCHANGED <<now, reviews, registry, events, placed, approvals, deaths>>

Reject(a) ==
  /\ desk[a].pc = "update"
  /\ desk[a].decision = "rejected"
  /\ UpdatePaperOrderTicketStatus(desk[a].order, "rejected", desk[a].meta,
                                  "rejected_at")
  /\ Stage(a, "event")
  /\ UNCHANGED <<now, reviews, registry, events, placed, approvals, deaths>>

WriteApprovalEvent(a) ==
  /\ desk[a].pc = "event"
  /\ WriteAccountTradeEvents(
       {<<IF desk[a].decision = "approved_for_submit"
          THEN "paper_order_ticket_approved"
          ELSE "paper_order_ticket_rejected", desk[a].order>>})
  /\ desk' = [desk EXCEPT ![a] = AtRest]
  /\ UNCHANGED <<now, reviews, orders, registry, placed, approvals, deaths>>

-----------------------------------------------------------------------------
(* The submission runner *)

(* On to the next ticket of the scan, or the command ends. *)
NextTicket(s) ==
  desk' = [desk EXCEPT
    ![s] = IF desk[s].todo = {}
           THEN AtRest
           ELSE [AtRest EXCEPT !.pc = "record", !.todo = desk[s].todo]]

(* One read of the newest tickets decides which are looked at in this run.  *)
ScanApproved(s) ==
  /\ desk[s].pc = "idle"
  /\ \E latest \in LatestPaperOrders(OrderLimit) :
       LET approved == {o \in latest : orders[o].status = "approved_for_submit"}
       IN /\ approved # {}
          /\ desk' = [desk EXCEPT ![s].pc = "record", ![s].todo = approved]
  /\ UNCHANGED <<placed, approvals, deaths>>
  /\ UNCHANGED ledgerVars

LoadStrategyRecord(s) ==
  /\ desk[s].pc = "record"
  /\ \E o \in desk[s].todo :
       desk' = [desk EXCEPT ![s].pc = "load",
                            ![s].order = o,
                            ![s].todo = @ \ {o},
                            ![s].running = StrategyRunning(ProposalOf[o])]
  /\ UNCHANGED <<placed, approvals, deaths>>
  /\ UNCHANGED ledgerVars

(* Without --submit-approved: the scanned row is judged and the verdict     *)
(* recorded.                                                                *)
RecordPreflight(s) ==
  /\ desk[s].pc = "load"
  /\ s \notin SubmitsApproved
  /\ WriteAccountTradeEvents({<<"paper_order_submission_preflight", desk[s].order>>})
  /\ NextTicket(s)
  /\ UNCHANGED <<now, reviews, orders, registry, placed, approvals, deaths>>

(* A defect: the scan is trusted for the ticket's status.                   *)
PreflightTrustsScan(s) ==
  /\ desk[s].running
  /\ SubmitEnabled

(* review_paper_order_submission, on the row as it is now and the record as *)
(* it was loaded.                                                           *)
PreflightPasses(s) ==
  /\ orders[desk[s].order].status = "approved_for_submit"
  /\ desk[s].running
  /\ SubmitEnabled

LoadTicket(s) ==
  /\ desk[s].pc = "load"
  /\ s \in SubmitsApproved
  /\ IF PreflightPasses(s) THEN Stage(s, "connect") ELSE NextTicket(s)
  /\ UNCHANGED <<placed, approvals, deaths>>
  /\ UNCHANGED ledgerVars

Connect(s) ==
  /\ desk[s].pc = "connect"
  /\ Stage(s, "place")
  /\ UNCHANGED <<placed, approvals, deaths>>
  /\ UNCHANGED ledgerVars

(* A defect: the exception of place_order is swallowed.                     *)
BrokerErrorIgnored(s) ==
  /\ desk[s].pc \in {"connect", "place"}
  /\ Stage(s, "select")
  /\ UNCHANGED <<placed, approvals, deaths>>
  /\ UNCHANGED ledgerVars

(* Not connected, or place_order raised: an error result, the ticket stays  *)
(* as it is.                                                                *)
BrokerError(s) ==
  /\ desk[s].pc \in {"connect", "place"}
  /\ NextTicket(s)
  /\ UNCHANGED <<placed, approvals, deaths>>
  /\ UNCHANGED ledgerVars

PlaceOrder(s) ==
  LET o == desk[s].order
  IN /\ desk[s].pc = "place"
     /\ placed[o] < MaxPlaced
     /\ placed' = [placed EXCEPT ![o] = @ + 1]
     /\ Stage(s, "select")
     /\ UNCHANGED <<approvals, deaths>>
     /\ UNCHANGED ledgerVars

SelectForSubmission(s) ==
  /\ desk[s].pc = "select"
  /\ desk' = [desk EXCEPT ![s].pc = "mark",
                          ![s].meta = orders[desk[s].order].meta]
  /\ UNCHANGED <<placed, approvals, deaths>>
  /\ UNCHANGED ledgerVars

(* Defects of the mark: the broker's id is kept but the status stays; the   *)
(* account event is left out.                                               *)
MarkMetadataOnly(s) ==
  /\ desk[s].pc = "mark"
  /\ UpdatePaperOrderTicketStatus(desk[s].order, orders[desk[s].order].status,
                                  desk[s].meta, "broker_order_id")
  /\ Stage(s, "submitted")
  /\ UNCHANGED <<now, reviews, registry, events, placed, approvals, deaths>>

MarkWithoutEvent(s) ==
  /\ desk[s].pc = "mark"
  /\ UpdatePaperOrderTicketStatus(desk[s].order, "submitted_to_broker",
                                  desk[s].meta, "broker_order_id")
  /\ NextTicket(s)
  /\ UNCHANGED <<now, reviews, registry, events, placed, approvals, deaths>>

MarkSubmitted(s) ==
  /\ desk[s].pc = "mark"
  /\ UpdatePaperOrderTicketStatus(desk[s].order, "submitted_to_broker",
                                  desk[s].meta, "broker_order_id")
  /\ Stage(s, "submitted")
  /\ UNCHANGED <<now, reviews, registry, events, placed, approvals, deaths>>

WriteSubmissionEvent(s) ==
  /\ desk[s].pc = "submitted"
  /\ WriteAccountTradeEvents({<<"paper_order_submitted", desk[s].order>>})
  /\ NextTicket(s)
  /\ UNCHANGED <<now, reviews, orders, registry, placed, approvals, deaths>>

-----------------------------------------------------------------------------

(* The process dies: the rows it committed and the orders it placed stay.   *)
Die(d) ==
  /\ desk[d].pc # "idle"
  /\ deaths < MaxDeaths
  /\ deaths' = deaths + 1
  /\ desk' = [desk EXCEPT ![d] = AtRest]
  /\ UNCHANGED <<placed, approvals>>
  /\ UNCHANGED ledgerVars

ApproverStep(a) ==
  \/ \E o \in Orders, decision \in {"approved_for_submit", "rejected"} :
       SelectForApproval(a, o, decision)
  \/ Approve(a)
  \/ Reject(a)
  \/ WriteApprovalEvent(a)

SubmitterStep(s) ==
  \/ ScanApproved(s)
  \/ LoadStrategyRecord(s)
  \/ RecordPreflight(s)
  \/ LoadTicket(s)
  \/ Connect(s)
  \/ BrokerError(s)
  \/ PlaceOrder(s)
  \/ SelectForSubmission(s)
  \/ MarkSubmitted(s)
  \/ WriteSubmissionEvent(s)

DeskNext ==
  \/ \E a \in Approvers : ApproverStep(a)
  \/ \E s \in Submitters : SubmitterStep(s)
  \/ \E d \in Desks : Die(d)
=============================================================================
