--------------------------- MODULE PaperTradingProofs ---------------------------
(***************************************************************************)
(* What the desk keeps in the company of the pipeline, for any number of   *)
(* approvers, submitters, runners and reviewers; and that a desk with one  *)
(* placing submitter that never dies implements OrderAuthority.            *)
(***************************************************************************)
EXTENDS TicketHistory, ProposalPipelineProofs

-----------------------------------------------------------------------------
(* Type correctness *)

(* Past the choice of a ticket, a desk command has one in hand.             *)
OrderInHand ==
  \A d \in Desks : desk[d].pc \notin {"idle", "record"} => desk[d].order \in Orders

DeskInv == TypeInv /\ DeskTypeOK /\ OrderInHand

LEMMA AtRestIsDesk == AtRest \in Desk
BY LedgerAssumption
DEF AtRest, Desk, DeskStages, NoMetadata, Metadata, Marks

(* A command that moves on with the ticket it has.                          *)
LEMMA StageType ==
  ASSUME DeskInv, NEW d \in Desks, desk[d].pc \notin {"idle", "record"},
         NEW pc \in DeskStages, Stage(d, pc)
  PROVE  desk' \in [Desks -> Desk] /\ OrderInHand'
BY DEF DeskInv, DeskTypeOK, OrderInHand, Stage, Desk

(* A submitter that goes on to its next ticket, or ends.                    *)
LEMMA NextTicketType ==
  ASSUME DeskInv, NEW s \in Desks, NextTicket(s)
  PROVE  /\ desk' \in [Desks -> Desk]
         /\ OrderInHand'
         /\ desk'[s].pc \in {"idle", "record"}
         /\ \A d \in Desks \ {s} : desk'[d] = desk[d]
<1> DEFINE next == IF desk[s].todo = {} THEN AtRest
                   ELSE [AtRest EXCEPT !.pc = "record", !.todo = desk[s].todo]
<1>1. next \in Desk /\ next.pc \in {"idle", "record"}
  <2>1. desk[s].todo \in SUBSET Orders
    BY DEF DeskInv, DeskTypeOK, Desk
  <2>2. \A todo \in SUBSET Orders :
          /\ [AtRest EXCEPT !.pc = "record", !.todo = todo] \in Desk
          /\ [AtRest EXCEPT !.pc = "record", !.todo = todo].pc = "record"
    BY AtRestIsDesk DEF AtRest, Desk, DeskStages
  <2>3. AtRest.pc = "idle"
    BY DEF AtRest
  <2> QED
    BY <2>1, <2>2, <2>3, AtRestIsDesk
<1>2. desk' = [desk EXCEPT ![s] = next]
  BY DEF NextTicket
<1> HIDE DEF next
<1> QED
  BY <1>1, <1>2 DEF DeskInv, DeskTypeOK, OrderInHand

(* The UPDATE of a ticket leaves a well-formed row.                         *)
LEMMA UpdateType ==
  ASSUME LedgerTypeOK, NEW o \in Orders, NEW status \in TicketStatus,
         NEW meta \in Metadata, NEW mark \in Marks,
         UpdatePaperOrderTicketStatus(o, status, meta, mark)
  PROVE  orders' \in [Orders -> Row]
<1>1. [status |-> status, created_at |-> orders[o].created_at,
       meta |-> [review |-> meta.review, marks |-> meta.marks \cup {mark}]] \in Row
  BY DEF LedgerTypeOK, Row, Metadata
<1> QED
  BY <1>1 DEF UpdatePaperOrderTicketStatus, LedgerTypeOK

LEMMA DeskStepType ==
  ASSUME DeskInv, [TradingNext]_tradingVars
  PROVE  DeskInv'
<1> USE DEF DeskInv, DeskTypeOK, deskVars
<1>1. CASE UNCHANGED deskVars /\ [Next]_vars
  BY <1>1, StepType DEF OrderInHand
<1>2. ASSUME UNCHANGED pipelineVars, LedgerTypeOK'
      PROVE  TypeInv'
  BY <1>2 DEF TypeInv, TypeOK, PipelineTypeOK, HasWork, pipelineVars
<1>3. TypeOK /\ LedgerTypeOK
  BY DEF TypeInv, TypeOK
<1>4. ASSUME NEW d \in Desks, desk[d].pc \notin {"idle", "record"}
      PROVE  desk[d].order \in Orders /\ desk[d].meta \in Metadata
  BY <1>4 DEF OrderInHand, Desk
<1>5. ASSUME UNCHANGED pipelineVars, NEW a \in Approvers, ApproverStep(a)
      PROVE  DeskInv'
  <2>1. a \in Desks
    BY DEF Desks
  <2>2. ASSUME NEW o \in Orders, NEW decision \in {"approved_for_submit", "rejected"},
               SelectForApproval(a, o, decision)
        PROVE  DeskInv'
    <3> DEFINE next == [AtRest EXCEPT !.pc = "update", !.order = o,
                          !.decision = decision, !.meta = orders[o].meta]
    <3>1. orders[o].meta \in Metadata
      BY <1>3 DEF LedgerTypeOK, Row
    <3>2. next \in Desk /\ next.order = o
      BY <3>1, AtRestIsDesk DEF AtRest, Desk, DeskStages
    <3>3. desk' = [desk EXCEPT ![a] = next]
      BY <2>2 DEF SelectForApproval
    <3> HIDE DEF next
    <3>4. desk' \in [Desks -> Desk] /\ OrderInHand'
      BY <2>1, <3>2, <3>3 DEF OrderInHand
    <3>5. LedgerTypeOK' /\ UNCHANGED <<placed, approvals, deaths>>
      BY <1>3, <2>2 DEF SelectForApproval, ledgerVars, LedgerTypeOK
    <3> QED
      BY <1>2, <1>5, <3>4, <3>5
  <2>3. CASE Approve(a)
    <3>1. desk[a].order \in Orders /\ desk[a].meta \in Metadata
      BY <1>4, <2>1, <2>3 DEF Approve
    <3>2. orders' \in [Orders -> Row]
      BY <1>3, <2>3, <3>1, UpdateType DEF Approve, TicketStatus, Marks
    <3>3. LedgerTypeOK'
      BY <1>3, <2>3, <3>2 DEF Approve, LedgerTypeOK
    <3>4. desk' \in [Desks -> Desk] /\ OrderInHand'
      BY <2>1, <2>3, StageType DEF Approve, DeskStages
    <3>5. approvals' \in [Orders -> Nat] /\ UNCHANGED <<placed, deaths>>
      <4> DEFINE o == desk[a].order
      <4>1. approvals' = [approvals EXCEPT ![o] = approvals[o] + 1]
        BY <2>3 DEF Approve
      <4> HIDE DEF o
      <4> QED
        BY <2>3, <3>1, <4>1 DEF Approve, o
    <3> QED
      BY <1>2, <1>5, <3>3, <3>4, <3>5
  <2>4. CASE Reject(a)
    <3>1. desk[a].order \in Orders /\ desk[a].meta \in Metadata
      BY <1>4, <2>1, <2>4 DEF Reject
    <3>2. orders' \in [Orders -> Row]
      BY <1>3, <2>4, <3>1, UpdateType DEF Reject, TicketStatus, Marks
    <3>3. LedgerTypeOK'
      BY <1>3, <2>4, <3>2 DEF Reject, LedgerTypeOK
    <3>4. desk' \in [Desks -> Desk] /\ OrderInHand'
      BY <2>1, <2>4, StageType DEF Reject, DeskStages
    <3>5. UNCHANGED <<placed, approvals, deaths>>
      BY <2>4 DEF Reject
    <3> QED
      BY <1>2, <1>5, <3>3, <3>4, <3>5
  <2>5. CASE WriteApprovalEvent(a)
    <3>1. desk[a].order \in Orders
      BY <1>4, <2>1, <2>5 DEF WriteApprovalEvent
    <3>2. LedgerTypeOK'
      BY <1>3, <2>5, <3>1
      DEF WriteApprovalEvent, WriteAccountTradeEvents, LedgerTypeOK, EventKinds
    <3>3. desk' \in [Desks -> Desk] /\ OrderInHand'
      BY <2>1, <2>5, AtRestIsDesk DEF WriteApprovalEvent, OrderInHand, AtRest
    <3>4. UNCHANGED <<placed, approvals, deaths>>
      BY <2>5 DEF WriteApprovalEvent
    <3> QED
      BY <1>2, <1>5, <3>2, <3>3, <3>4
  <2> QED
    BY <1>5, <2>2, <2>3, <2>4, <2>5 DEF ApproverStep
<1>6. ASSUME UNCHANGED pipelineVars, NEW s \in Submitters, SubmitterStep(s)
      PROVE  DeskInv'
  <2>1. s \in Desks
    BY DEF Desks
  <2>2. CASE ScanApproved(s)
    <3>1. PICK latest \in LatestPaperOrders(OrderLimit) :
            desk' = [desk EXCEPT ![s].pc = "record",
                       ![s].todo = {o \in latest :
                                      orders[o].status = "approved_for_submit"}]
      BY <2>2 DEF ScanApproved
    <3>2. latest \subseteq Orders
      BY DEF LatestPaperOrders, Newest
    <3> DEFINE next == [desk[s] EXCEPT !.pc = "record",
                          !.todo = {o \in latest :
                                      orders[o].status = "approved_for_submit"}]
    <3>3. next \in Desk /\ next.pc = "record"
      BY <2>1, <3>2 DEF Desk, DeskStages
    <3>4. desk' = [desk EXCEPT ![s] = next]
      BY <3>1
    <3> HIDE DEF next
    <3>5. desk' \in [Desks -> Desk] /\ OrderInHand'
      BY <2>1, <3>3, <3>4 DEF OrderInHand
    <3>6. LedgerTypeOK' /\ UNCHANGED <<placed, approvals, deaths>>
      BY <1>3, <2>2 DEF ScanApproved, ledgerVars, LedgerTypeOK
    <3> QED
      BY <1>2, <1>6, <3>5, <3>6
  <2>3. CASE LoadStrategyRecord(s)
    <3>1. PICK o \in desk[s].todo :
            desk' = [desk EXCEPT ![s].pc = "load", ![s].order = o,
                       ![s].todo = @ \ {o},
                       ![s].running = StrategyRunning(ProposalOf[o])]
      BY <2>3 DEF LoadStrategyRecord
    <3>2. o \in Orders /\ desk[s].todo \subseteq Orders
      BY <2>1, <3>1 DEF Desk
    <3> DEFINE running == StrategyRunning(ProposalOf[o])
               next == [desk[s] EXCEPT !.pc = "load", !.order = o,
                          !.todo = desk[s].todo \ {o}, !.running = running]
    <3>3. running \in BOOLEAN
      BY DEF StrategyRunning
    <3> HIDE DEF running
    <3>4. next \in Desk /\ next.order = o
      BY <2>1, <3>2, <3>3 DEF Desk, DeskStages
    <3>5. desk' = [desk EXCEPT ![s] = next]
      BY <3>1 DEF running
    <3> HIDE DEF next
    <3>6. desk' \in [Desks -> Desk] /\ OrderInHand'
      BY <2>1, <3>2, <3>4, <3>5 DEF OrderInHand
    <3>7. LedgerTypeOK' /\ UNCHANGED <<placed, approvals, deaths>>
      BY <1>3, <2>3 DEF LoadStrategyRecord, ledgerVars, LedgerTypeOK
    <3> QED
      BY <1>2, <1>6, <3>6, <3>7
  <2>4. CASE RecordPreflight(s) \/ WriteSubmissionEvent(s)
    <3>1. desk[s].order \in Orders
      BY <1>4, <2>1, <2>4 DEF RecordPreflight, WriteSubmissionEvent
    <3>2. LedgerTypeOK'
      BY <1>3, <2>4, <3>1
      DEF RecordPreflight, WriteSubmissionEvent, WriteAccountTradeEvents,
          LedgerTypeOK, EventKinds
    <3>3. desk' \in [Desks -> Desk] /\ OrderInHand'
      BY <2>1, <2>4, NextTicketType DEF RecordPreflight, WriteSubmissionEvent
    <3>4. UNCHANGED <<placed, approvals, deaths>>
      BY <2>4 DEF RecordPreflight, WriteSubmissionEvent
    <3> QED
      BY <1>2, <1>6, <3>2, <3>3, <3>4
  <2>5. CASE LoadTicket(s) \/ Connect(s) \/ BrokerError(s)
    <3>1. NextTicket(s) \/ Stage(s, "connect") \/ Stage(s, "place")
      BY <2>5 DEF LoadTicket, Connect, BrokerError
    <3>2. desk[s].pc \notin {"idle", "record"}
      BY <2>5 DEF LoadTicket, Connect, BrokerError
    <3>3. desk' \in [Desks -> Desk] /\ OrderInHand'
      BY <2>1, <3>1, <3>2, NextTicketType, StageType DEF DeskStages
    <3>4. LedgerTypeOK' /\ UNCHANGED <<placed, approvals, deaths>>
      BY <1>3, <2>5 DEF LoadTicket, Connect, BrokerError, ledgerVars, LedgerTypeOK
    <3> QED
      BY <1>2, <1>6, <3>3, <3>4
  <2>6. CASE PlaceOrder(s)
    <3>1. desk' \in [Desks -> Desk] /\ OrderInHand'
      BY <2>1, <2>6, StageType DEF PlaceOrder, DeskStages
    <3>2. placed' \in [Orders -> Nat] /\ UNCHANGED <<approvals, deaths>>
      <4> DEFINE o == desk[s].order
      <4>1. o \in Orders
        BY <1>4, <2>1, <2>6 DEF PlaceOrder
      <4>2. placed' = [placed EXCEPT ![o] = placed[o] + 1]
        BY <2>6 DEF PlaceOrder
      <4> HIDE DEF o
      <4> QED
        BY <2>6, <4>1, <4>2 DEF PlaceOrder
    <3>3. LedgerTypeOK'
      BY <1>3, <2>6 DEF PlaceOrder, ledgerVars, LedgerTypeOK
    <3> QED
      BY <1>2, <1>6, <3>1, <3>2, <3>3
  <2>7. CASE SelectForSubmission(s)
    <3> DEFINE meta == orders[desk[s].order].meta
               next == [desk[s] EXCEPT !.pc = "mark", !.meta = meta]
    <3>1. desk[s].order \in Orders /\ meta \in Metadata
      BY <1>3, <1>4, <2>1, <2>7 DEF SelectForSubmission, LedgerTypeOK, Row
    <3> HIDE DEF meta
    <3>2. next \in Desk /\ next.order = desk[s].order
      BY <2>1, <3>1 DEF Desk, DeskStages
    <3>3. desk' = [desk EXCEPT ![s] = next]
      BY <2>7 DEF SelectForSubmission, meta
    <3> HIDE DEF next
    <3>4. desk' \in [Desks -> Desk] /\ OrderInHand'
      BY <2>1, <3>1, <3>2, <3>3 DEF OrderInHand
    <3>5. LedgerTypeOK' /\ UNCHANGED <<placed, approvals, deaths>>
      BY <1>3, <2>7 DEF SelectForSubmission, ledgerVars, LedgerTypeOK
    <3> QED
      BY <1>2, <1>6, <3>4, <3>5
  <2>8. CASE MarkSubmitted(s)
    <3>1. desk[s].order \in Orders /\ desk[s].meta \in Metadata
      BY <1>4, <2>1, <2>8 DEF MarkSubmitted
    <3>2. orders' \in [Orders -> Row]
      BY <1>3, <2>8, <3>1, UpdateType DEF MarkSubmitted, TicketStatus, Marks
    <3>3. LedgerTypeOK'
      BY <1>3, <2>8, <3>2 DEF MarkSubmitted, LedgerTypeOK
    <3>4. desk' \in [Desks -> Desk] /\ OrderInHand'
      BY <2>1, <2>8, StageType DEF MarkSubmitted, DeskStages
    <3>5. UNCHANGED <<placed, approvals, deaths>>
      BY <2>8 DEF MarkSubmitted
    <3> QED
      BY <1>2, <1>6, <3>3, <3>4, <3>5
  <2> QED
    BY <1>6, <2>2, <2>3, <2>4, <2>5, <2>6, <2>7, <2>8 DEF SubmitterStep
<1>7. ASSUME UNCHANGED pipelineVars, NEW d \in Desks, Die(d)
      PROVE  DeskInv'
  <2>1. desk' \in [Desks -> Desk] /\ OrderInHand'
    BY <1>7, AtRestIsDesk DEF Die, OrderInHand, AtRest
  <2>2. deaths' \in 0 .. MaxDeaths /\ UNCHANGED <<placed, approvals>>
    BY <1>7, DeskAssumption DEF Die
  <2>3. LedgerTypeOK'
    BY <1>3, <1>7 DEF Die, ledgerVars, LedgerTypeOK
  <2> QED
    BY <1>2, <1>7, <2>1, <2>2, <2>3
<1>8. UNCHANGED tradingVars => UNCHANGED deskVars /\ [Next]_vars
  BY DEF tradingVars, vars
<1> QED
  BY <1>1, <1>5, <1>6, <1>7, <1>8 DEF TradingNext, DeskNext

LEMMA DeskInitType == TradingInit => DeskInv
<1> SUFFICES ASSUME TradingInit PROVE DeskInv
  OBVIOUS
<1>1. TypeInv
  BY InitType DEF TradingInit
<1>2. DeskTypeOK
  BY AtRestIsDesk, DeskAssumption DEF TradingInit, DeskInit, DeskTypeOK
<1>3. OrderInHand
  BY DEF TradingInit, DeskInit, OrderInHand, AtRest
<1> QED
  BY <1>1, <1>2, <1>3 DEF DeskInv

(* Every reachable state of the whole lane is well-formed.                  *)
THEOREM TradingTypeCorrect == TradingSpec => []TradingTypeOK
<1>1. DeskInv => TradingTypeOK
  BY DEF DeskInv, TypeInv, TradingTypeOK
<1> QED
  BY <1>1, DeskInitType, DeskStepType, PTL DEF TradingSpec

-----------------------------------------------------------------------------
(* What steps do to a row and to a submitter *)

(* The pipeline leaves a row as it is or writes it as a fresh dry run.      *)
LEMMA PipelineRows ==
  ASSUME TypeInv, [Next]_vars, NEW o \in Orders
  PROVE  orders'[o] = orders[o] \/ orders'[o].status = "dry_run"
<1>1. ASSUME NEW c \in Commands, WriteTickets(c)
      PROVE  orders'[o] = orders[o] \/ orders'[o].status = "dry_run"
  BY <1>1 DEF WriteTickets, WritePaperOrderTickets, DryRunTicket
<1>2. ASSUME NEW c \in Commands, Step(c) \/ Kill(c), ~WriteTickets(c)
      PROVE  orders' = orders
  BY <1>2 DEF Step, Begin, ReadDailyUsed, SkipOrTake, WriteReview, WriteReviewEvents,
              TicketGate, WriteTicketEvents, Kill, ledgerVars
<1>3. \/ \E p \in Proposals : WriteTradeProposalArtifact(p)
      \/ Environment
      \/ UNCHANGED vars
      => orders' = orders
  BY DEF WriteTradeProposalArtifact, Environment, UpsertPaperStrategy, Tick, vars,
         ledgerVars
<1> QED
  BY <1>1, <1>2, <1>3 DEF Next, PipelineNext

(* The UPDATE of one ticket, and of no other.                               *)
LEMMA UpdateRow ==
  ASSUME DeskInv, NEW o \in Orders, NEW status, NEW meta, NEW mark,
         UpdatePaperOrderTicketStatus(o, status, meta, mark)
  PROVE  /\ orders'[o].status = status
         /\ mark \in orders'[o].meta.marks
         /\ \A x \in Orders \ {o} : orders'[x] = orders[x]
BY DEF UpdatePaperOrderTicketStatus, DeskInv, TypeInv, TypeOK, LedgerTypeOK

LEMMA StageMoves ==
  ASSUME DeskInv, NEW d \in Desks, NEW pc, Stage(d, pc)
  PROVE  /\ desk'[d].pc = pc
         /\ desk'[d].order = desk[d].order
         /\ \A e \in Desks \ {d} : desk'[e] = desk[e]
BY DEF DeskInv, DeskTypeOK, Desk, Stage

AtBroker == {"connect", "place", "select", "mark"}

(* The steps that keep a submitter clear of the broker.                     *)
LEMMA QuietDesk ==
  ASSUME DeskInv, NEW s \in Submitters,
         ScanApproved(s) \/ LoadStrategyRecord(s) \/ RecordPreflight(s) \/
         WriteSubmissionEvent(s)
  PROVE  /\ desk[s].pc \notin AtBroker
         /\ desk'[s].pc \in {"idle", "record", "load"} \ AtBroker
         /\ \A e \in Desks \ {s} : desk'[e] = desk[e]
         /\ UNCHANGED <<orders, placed, approvals>>
<1>1. s \in Desks
  BY DEF Desks
<1>2. CASE ScanApproved(s)
  <2>1. desk'[s].pc = "record" /\ \A e \in Desks \ {s} : desk'[e] = desk[e]
    BY <1>1, <1>2 DEF ScanApproved, DeskInv, DeskTypeOK, Desk
  <2> QED
    BY <1>2, <2>1 DEF ScanApproved, ledgerVars, AtBroker
<1>3. CASE LoadStrategyRecord(s)
  <2>1. PICK next : desk' = [desk EXCEPT ![s] = next] /\ next.pc = "load"
    <3>1. PICK o \in desk[s].todo :
            desk' = [desk EXCEPT ![s].pc = "load", ![s].order = o,
                       ![s].todo = @ \ {o},
                       ![s].running = StrategyRunning(ProposalOf[o])]
      BY <1>3 DEF LoadStrategyRecord
    <3> DEFINE next == [desk[s] EXCEPT !.pc = "load", !.order = o,
                          !.todo = desk[s].todo \ {o},
                          !.running = StrategyRunning(ProposalOf[o])]
    <3>2. next.pc = "load"
      BY <1>1 DEF DeskInv, DeskTypeOK, Desk
    <3>3. desk' = [desk EXCEPT ![s] = next]
      BY <3>1
    <3> QED
      BY <3>2, <3>3
  <2>2. desk'[s].pc = "load" /\ \A e \in Desks \ {s} : desk'[e] = desk[e]
    BY <1>1, <2>1 DEF DeskInv, DeskTypeOK
  <2> QED
    BY <1>3, <2>2 DEF LoadStrategyRecord, ledgerVars, AtBroker
<1>4. CASE RecordPreflight(s) \/ WriteSubmissionEvent(s)
  BY <1>1, <1>4, NextTicketType DEF RecordPreflight, WriteSubmissionEvent, AtBroker
<1> QED
  BY <1>2, <1>3, <1>4

-----------------------------------------------------------------------------
(* Nothing unapproved reaches the broker *)

ApprovalInv ==
  /\ OnlyApprovedReachBroker
  /\ SubmittedReachedBroker
  /\ \A o \in Orders : orders[o].status = "approved_for_submit" => approvals[o] > 0
  /\ \A s \in Submitters :
       /\ desk[s].pc \in {"connect", "place"} => approvals[desk[s].order] > 0
       /\ desk[s].pc \in {"select", "mark"} => placed[desk[s].order] > 0

LEMMA ApprovalStep ==
  ASSUME DeskInv, ApprovalInv, [TradingNext]_tradingVars
  PROVE  ApprovalInv'
<1> USE DEF ApprovalInv, OnlyApprovedReachBroker, SubmittedReachedBroker
<1>1. /\ placed \in [Orders -> Nat] /\ approvals \in [Orders -> Nat]
      /\ \A d \in Desks : desk[d].pc \notin {"idle", "record"} => desk[d].order \in Orders
      /\ Submitters \subseteq Desks /\ Approvers \subseteq Desks
      /\ TypeInv
  BY DEF DeskInv, DeskTypeOK, OrderInHand, Desks
<1>2. CASE UNCHANGED deskVars /\ [Next]_vars
  <2>1. UNCHANGED <<desk, placed, approvals>>
    BY <1>2 DEF deskVars
  <2>2. \A o \in Orders : orders'[o] = orders[o] \/ orders'[o].status = "dry_run"
    BY <1>1, <1>2, PipelineRows
  <2> QED
    BY <2>1, <2>2
<1>3. ASSUME NEW a \in Approvers, ApproverStep(a)
      PROVE  ApprovalInv'
  <2>1. a \notin Submitters
    BY DeskAssumption
  <2>2. ASSUME NEW o \in Orders, NEW decision, SelectForApproval(a, o, decision)
        PROVE  ApprovalInv'
    <3>1. \A s \in Submitters : desk'[s] = desk[s]
      BY <1>1, <2>1, <2>2 DEF SelectForApproval, DeskInv, DeskTypeOK
    <3> QED
      BY <2>2, <3>1 DEF SelectForApproval, ledgerVars
  <2>3. CASE Approve(a)
    <3> DEFINE o == desk[a].order
    <3>1. o \in Orders
      BY <1>1, <2>3 DEF Approve
    <3>2. /\ orders'[o].status = "approved_for_submit"
          /\ \A x \in Orders \ {o} : orders'[x] = orders[x]
      BY <2>3, <3>1, UpdateRow DEF Approve
    <3>3. approvals' = [approvals EXCEPT ![o] = approvals[o] + 1] /\ placed' = placed
      BY <2>3 DEF Approve
    <3>4. \A s \in Submitters : desk'[s] = desk[s]
      BY <1>1, <2>1, <2>3, StageMoves DEF Approve
    <3> HIDE DEF o
    <3>5. \A x \in Orders : approvals'[x] >= approvals[x] /\ approvals'[x] \in Nat
      BY <1>1, <3>1, <3>3
    <3>6. approvals'[o] > 0
      BY <1>1, <3>1, <3>3
    <3>7. \A s \in Submitters :
            desk[s].pc \in {"connect", "place"} => approvals'[desk[s].order] > 0
      BY <1>1, <3>5
    <3> QED
      BY <1>1, <3>2, <3>3, <3>4, <3>5, <3>6, <3>7
  <2>4. CASE Reject(a)
    <3>1. desk[a].order \in Orders
      BY <1>1, <2>4 DEF Reject
    <3>2. /\ orders'[desk[a].order].status = "rejected"
          /\ \A x \in Orders \ {desk[a].order} : orders'[x] = orders[x]
      BY <2>4, <3>1, UpdateRow DEF Reject
    <3>3. \A s \in Submitters : desk'[s] = desk[s]
      BY <1>1, <2>1, <2>4, StageMoves DEF Reject
    <3> QED
      BY <2>4, <3>2, <3>3 DEF Reject
  <2>5. CASE WriteApprovalEvent(a)
    <3>1. \A s \in Submitters : desk'[s] = desk[s]
      BY <1>1, <2>1, <2>5 DEF WriteApprovalEvent, DeskInv, DeskTypeOK
    <3> QED
      BY <2>5, <3>1 DEF WriteApprovalEvent
  <2> QED
    BY <1>3, <2>2, <2>3, <2>4, <2>5 DEF ApproverStep
<1>4. ASSUME NEW s \in Submitters, SubmitterStep(s)
      PROVE  ApprovalInv'
  <2>1. CASE ScanApproved(s) \/ LoadStrategyRecord(s) \/ RecordPreflight(s) \/
             WriteSubmissionEvent(s)
    BY <1>1, <2>1, QuietDesk DEF AtBroker
  <2>2. CASE LoadTicket(s) \/ Connect(s) \/ BrokerError(s)
    <3>1. UNCHANGED <<orders, placed, approvals>>
      BY <2>2 DEF LoadTicket, Connect, BrokerError, ledgerVars
    <3>2. \/ desk'[s].pc \in {"idle", "record"}
          \/ /\ desk'[s].pc \in {"connect", "place"}
             /\ desk'[s].order = desk[s].order
             /\ approvals[desk[s].order] > 0
      <4>1. CASE NextTicket(s)
        BY <1>1, <4>1, NextTicketType
      <4>2. CASE Connect(s)
        BY <1>1, <4>2, StageMoves DEF Connect
      <4>3. CASE PreflightPasses(s) /\ desk[s].pc = "load" /\ Stage(s, "connect")
        BY <1>1, <4>3, StageMoves DEF PreflightPasses
      <4> QED
        BY <2>2, <4>1, <4>2, <4>3 DEF LoadTicket, BrokerError
    <3>3. \A e \in Desks \ {s} : desk'[e] = desk[e]
      BY <1>1, <2>2, NextTicketType, StageMoves DEF LoadTicket, Connect, BrokerError
    <3> QED
      BY <1>1, <3>1, <3>2, <3>3
  <2>3. CASE PlaceOrder(s)
    <3> DEFINE o == desk[s].order
    <3>1. o \in Orders /\ approvals[o] > 0
      BY <1>1, <2>3 DEF PlaceOrder
    <3>2. placed' = [placed EXCEPT ![o] = placed[o] + 1]
      BY <2>3 DEF PlaceOrder
    <3>3. UNCHANGED <<orders, approvals>>
      BY <2>3 DEF PlaceOrder, ledgerVars
    <3>4. /\ desk'[s].pc = "select" /\ desk'[s].order = o
          /\ \A e \in Desks \ {s} : desk'[e] = desk[e]
      BY <1>1, <2>3, StageMoves DEF PlaceOrder
    <3> HIDE DEF o
    <3>5. placed'[o] > 0 /\ \A x \in Orders \ {o} : placed'[x] = placed[x]
      BY <1>1, <3>1, <3>2
    <3>6. \A e \in Submitters : desk[e].pc \in {"select", "mark"} =>
            placed'[desk[e].order] > 0
      BY <1>1, <3>5
    <3> QED
      BY <1>1, <3>1, <3>3, <3>4, <3>5, <3>6
  <2>4. CASE SelectForSubmission(s)
    <3>1. /\ desk'[s].pc = "mark" /\ desk'[s].order = desk[s].order
          /\ \A e \in Desks \ {s} : desk'[e] = desk[e]
      BY <1>1, <2>4 DEF SelectForSubmission, DeskInv, DeskTypeOK, Desk
    <3> QED
      BY <1>1, <2>4, <3>1 DEF SelectForSubmission, ledgerVars
  <2>5. CASE MarkSubmitted(s)
    <3> DEFINE o == desk[s].order
    <3>1. o \in Orders /\ placed[o] > 0
      BY <1>1, <2>5 DEF MarkSubmitted
    <3>2. /\ orders'[o].status = "submitted_to_broker"
          /\ "broker_order_id" \in orders'[o].meta.marks
          /\ \A x \in Orders \ {o} : orders'[x] = orders[x]
      BY <2>5, <3>1, UpdateRow DEF MarkSubmitted
    <3>3. /\ desk'[s].pc = "submitted"
          /\ \A e \in Desks \ {s} : desk'[e] = desk[e]
      BY <1>1, <2>5, StageMoves DEF MarkSubmitted
    <3>4. UNCHANGED <<placed, approvals>>
      BY <2>5 DEF MarkSubmitted
    <3> HIDE DEF o
    <3> QED
      BY <1>1, <3>1, <3>2, <3>3, <3>4
  <2> QED
    BY <1>4, <2>1, <2>2, <2>3, <2>4, <2>5 DEF SubmitterStep
<1>5. ASSUME NEW d \in Desks, Die(d)
      PROVE  ApprovalInv'
  <2>1. desk'[d].pc = "idle" /\ \A e \in Desks \ {d} : desk'[e] = desk[e]
    BY <1>5 DEF Die, AtRest, DeskInv, DeskTypeOK
  <2> QED
    BY <1>1, <1>5, <2>1 DEF Die, ledgerVars
<1>6. UNCHANGED tradingVars => UNCHANGED deskVars /\ [Next]_vars
  BY DEF tradingVars, vars
<1> QED
  BY <1>2, <1>3, <1>4, <1>5, <1>6 DEF TradingNext, DeskNext

LEMMA ApprovalInit == TradingInit => ApprovalInv
BY DEF TradingInit, Init, LedgerInit, DeskInit, NoRow, AtRest, ApprovalInv, Desks,
       OnlyApprovedReachBroker, SubmittedReachedBroker

(* Whatever is rewritten, rejected, re-approved or killed: no order reaches *)
(* the broker for a ticket that was never approved.                         *)
THEOREM OnlyApprovedTicketsPlaced == TradingSpec => []OnlyApprovedReachBroker
<1>1. ApprovalInv => OnlyApprovedReachBroker
  BY DEF ApprovalInv
<1> QED
  BY <1>1, DeskInitType, DeskStepType, ApprovalInit, ApprovalStep, PTL DEF TradingSpec

(* A ticket that says submitted_to_broker has an order there and its id.    *)
THEOREM SubmittedTicketsPlaced == TradingSpec => []SubmittedReachedBroker
<1>1. ApprovalInv => SubmittedReachedBroker
  BY DEF ApprovalInv
<1> QED
  BY <1>1, DeskInitType, DeskStepType, ApprovalInit, ApprovalStep, PTL DEF TradingSpec

-----------------------------------------------------------------------------
(* Orders at the broker are in the account ledger *)

Submitted(o) == <<"paper_order_submitted", o>> \in events

(* From the broker's acceptance to the event a submitter holds the order.   *)
Holding == {"select", "mark", "submitted"}

Owed(s, o) == desk[s].pc \in Holding /\ desk[s].order = o

LogInv ==
  /\ \A s \in Submitters, o \in Orders : Owed(s, o) => placed[o] > 0
  /\ \A o \in Orders : Submitted(o) => placed[o] > 0
  /\ deaths = 0 => \A o \in Orders :
       placed[o] > 0 => Submitted(o) \/ \E s \in Submitters : Owed(s, o)

(* The pipeline writes events of its own kinds only.                        *)
LEMMA PipelineEvents ==
  ASSUME [Next]_vars, NEW o \in Orders
  PROVE  Submitted(o)' <=> Submitted(o)
<1>1. ASSUME NEW c \in Commands, WriteReviewEvents(c) \/ WriteTicketEvents(c)
      PROVE  Submitted(o)' <=> Submitted(o)
  BY <1>1
  DEF WriteReviewEvents, WriteTicketEvents, WriteAccountTradeEvents, ReviewEvents,
      Submitted
<1>2. ASSUME NEW c \in Commands, Step(c) \/ Kill(c),
             ~WriteReviewEvents(c), ~WriteTicketEvents(c)
      PROVE  events' = events
  BY <1>2 DEF Step, Begin, ReadDailyUsed, SkipOrTake, WriteReview, TicketGate,
              WriteTickets, Kill, ledgerVars
<1>3. \/ \E p \in Proposals : WriteTradeProposalArtifact(p)
      \/ Environment
      \/ UNCHANGED vars
      => events' = events
  BY DEF WriteTradeProposalArtifact, Environment, UpsertPaperStrategy, Tick, vars,
         ledgerVars
<1> QED
  BY <1>1, <1>2, <1>3 DEF Next, PipelineNext, Submitted

(* A step after which every submitter owes the event it owed before.        *)
LEMMA OwedAsBefore ==
  ASSUME LogInv, UNCHANGED <<placed, deaths>>,
         \A o \in Orders : Submitted(o)' <=> Submitted(o),
         \A s \in Submitters, o \in Orders : Owed(s, o)' <=> Owed(s, o)
  PROVE  LogInv'
BY DEF LogInv

LEMMA LogStep ==
  ASSUME DeskInv, LogInv, [TradingNext]_tradingVars
  PROVE  LogInv'
<1>1. /\ placed \in [Orders -> Nat] /\ deaths \in Nat
      /\ \A d \in Desks : desk[d].pc \notin {"idle", "record"} => desk[d].order \in Orders
      /\ Submitters \subseteq Desks /\ Approvers \subseteq Desks
  BY DeskAssumption DEF DeskInv, DeskTypeOK, OrderInHand, Desks
<1>2. CASE UNCHANGED deskVars /\ [Next]_vars
  <2>1. UNCHANGED <<desk, placed, deaths>>
    BY <1>2 DEF deskVars
  <2>2. \A o \in Orders : Submitted(o)' <=> Submitted(o)
    BY <1>2, PipelineEvents
  <2>3. \A s \in Submitters, o \in Orders : Owed(s, o)' <=> Owed(s, o)
    BY <2>1 DEF Owed
  <2> QED
    BY <2>1, <2>2, <2>3, OwedAsBefore
<1>3. ASSUME NEW a \in Approvers, ApproverStep(a)
      PROVE  LogInv'
  <2>1. UNCHANGED <<placed, deaths>>
    BY <1>3
    DEF ApproverStep, SelectForApproval, Approve, Reject, WriteApprovalEvent
  <2>2. \A o \in Orders : Submitted(o)' <=> Submitted(o)
    <3>1. CASE WriteApprovalEvent(a)
      BY <3>1 DEF WriteApprovalEvent, WriteAccountTradeEvents, Submitted
    <3>2. ~WriteApprovalEvent(a) => events' = events
      BY <1>3 DEF ApproverStep, SelectForApproval, Approve, Reject, ledgerVars
    <3> QED
      BY <3>1, <3>2 DEF Submitted
  <2>3. \A s \in Submitters : desk'[s] = desk[s]
    <3>1. /\ a \notin Submitters
          /\ \E next : desk' = [desk EXCEPT ![a] = next]
      BY <1>3, DeskAssumption
      DEF ApproverStep, SelectForApproval, Approve, Reject, WriteApprovalEvent, Stage
    <3> QED
      BY <1>1, <3>1 DEF DeskInv, DeskTypeOK
  <2>4. \A s \in Submitters, o \in Orders : Owed(s, o)' <=> Owed(s, o)
    BY <2>3 DEF Owed
  <2> QED
    BY <2>1, <2>2, <2>4, OwedAsBefore
<1>4. ASSUME NEW s \in Submitters, SubmitterStep(s)
      PROVE  LogInv'
  <2>1. CASE \/ ScanApproved(s) \/ LoadStrategyRecord(s) \/ RecordPreflight(s)
             \/ LoadTicket(s) \/ Connect(s) \/ BrokerError(s)
    <3>1. UNCHANGED <<placed, deaths>>
      BY <2>1 DEF ScanApproved, LoadStrategyRecord, RecordPreflight, LoadTicket,
                  Connect, BrokerError
    <3>2. \A o \in Orders : Submitted(o)' <=> Submitted(o)
      <4>1. CASE RecordPreflight(s)
        BY <4>1 DEF RecordPreflight, WriteAccountTradeEvents, Submitted
      <4>2. ~RecordPreflight(s) => events' = events
        BY <2>1 DEF ScanApproved, LoadStrategyRecord, LoadTicket, Connect, BrokerError,
                    ledgerVars
      <4> QED
        BY <4>1, <4>2 DEF Submitted
    <3>3. desk[s].pc \notin Holding
      BY <2>1 DEF ScanApproved, LoadStrategyRecord, RecordPreflight, LoadTicket,
                  Connect, BrokerError, Holding
    <3>4. /\ desk'[s].pc \notin Holding
          /\ \A e \in Desks \ {s} : desk'[e] = desk[e]
      <4>1. CASE ScanApproved(s)
        BY <1>1, <4>1 DEF ScanApproved, DeskInv, DeskTypeOK, Desk, Holding
      <4>2. CASE LoadStrategyRecord(s)
        <5>1. PICK o : desk' = [desk EXCEPT ![s] = [desk[s] EXCEPT !.pc = "load",
                                  !.order = o, !.todo = @ \ {o},
                                  !.running = StrategyRunning(ProposalOf[o])]]
          BY <4>2 DEF LoadStrategyRecord
        <5>2. [desk[s] EXCEPT !.pc = "load", !.order = o, !.todo = @ \ {o},
                 !.running = StrategyRunning(ProposalOf[o])].pc = "load"
          BY <1>1 DEF DeskInv, DeskTypeOK, Desk
        <5> QED
          BY <1>1, <5>1, <5>2 DEF DeskInv, DeskTypeOK, Holding
      <4>3. CASE NextTicket(s)
        BY <1>1, <4>3, NextTicketType DEF Holding
      <4>4. CASE Stage(s, "connect") \/ Stage(s, "place")
        BY <1>1, <4>4, StageMoves DEF Holding
      <4> QED
        BY <2>1, <4>1, <4>2, <4>3, <4>4
        DEF RecordPreflight, LoadTicket, Connect, BrokerError
    <3>5. \A t \in Submitters, o \in Orders : Owed(t, o)' <=> Owed(t, o)
      BY <1>1, <3>3, <3>4 DEF Owed
    <3> QED
      BY <3>1, <3>2, <3>5, OwedAsBefore
  <2>2. CASE SelectForSubmission(s) \/ MarkSubmitted(s)
    <3>1. UNCHANGED <<placed, deaths, events>>
      BY <2>2 DEF SelectForSubmission, MarkSubmitted, ledgerVars
    <3>2. /\ desk[s].pc \in Holding /\ desk'[s].pc \in Holding
          /\ desk'[s].order = desk[s].order
          /\ \A e \in Desks \ {s} : desk'[e] = desk[e]
      <4>1. CASE SelectForSubmission(s)
        BY <1>1, <4>1 DEF SelectForSubmission, DeskInv, DeskTypeOK, Desk, Holding
      <4>2. CASE MarkSubmitted(s)
        BY <1>1, <4>2, StageMoves DEF MarkSubmitted, Holding
      <4> QED
        BY <2>2, <4>1, <4>2
    <3>3. \A t \in Submitters, o \in Orders : Owed(t, o)' <=> Owed(t, o)
      BY <1>1, <3>2 DEF Owed
    <3> QED
      BY <3>1, <3>3, OwedAsBefore DEF Submitted
  <2>3. CASE PlaceOrder(s)
    <3>1. PICK o \in Orders : desk[s].pc = "place" /\ desk[s].order = o
      BY <1>1, <2>3 DEF PlaceOrder
    <3>2. /\ placed' = [placed EXCEPT ![o] = placed[o] + 1]
          /\ UNCHANGED <<deaths, events>>
      BY <2>3, <3>1 DEF PlaceOrder, ledgerVars
    <3>3. /\ desk'[s].pc = "select" /\ desk'[s].order = o
          /\ \A e \in Desks \ {s} : desk'[e] = desk[e]
      BY <1>1, <2>3, <3>1, StageMoves DEF PlaceOrder
    <3>4. placed'[o] > 0 /\ \A x \in Orders \ {o} : placed'[x] = placed[x]
      BY <1>1, <3>1, <3>2
    <3>5. Owed(s, o)' /\ \A x \in Orders : Owed(s, x)' => x = o
      BY <3>3 DEF Owed, Holding
    <3>6. /\ \A x \in Orders : ~Owed(s, x)
          /\ \A t \in Submitters \ {s}, x \in Orders : Owed(t, x)' <=> Owed(t, x)
      BY <1>1, <3>1, <3>3 DEF Owed, Holding
    <3>7. \A x \in Orders : Submitted(x)' <=> Submitted(x)
      BY <3>2 DEF Submitted
    <3> QED
      BY <3>1, <3>2, <3>4, <3>5, <3>6, <3>7 DEF LogInv
  <2>4. CASE WriteSubmissionEvent(s)
    <3>1. PICK o \in Orders : desk[s].pc = "submitted" /\ desk[s].order = o
      BY <1>1, <2>4 DEF WriteSubmissionEvent
    <3>2. UNCHANGED <<placed, deaths>>
      BY <2>4 DEF WriteSubmissionEvent
    <3>3. \A x \in Orders : Submitted(x)' <=> x = o \/ Submitted(x)
      BY <2>4, <3>1 DEF WriteSubmissionEvent, WriteAccountTradeEvents, Submitted
    <3>4. /\ desk'[s].pc \in {"idle", "record"}
          /\ \A e \in Desks \ {s} : desk'[e] = desk[e]
      BY <1>1, <2>4, <3>1, NextTicketType DEF WriteSubmissionEvent
    <3>5. \A x \in Orders : (Owed(s, x) <=> x = o) /\ ~Owed(s, x)'
      BY <3>1, <3>4 DEF Owed, Holding
    <3>6. \A t \in Submitters \ {s}, x \in Orders : Owed(t, x)' <=> Owed(t, x)
      BY <1>1, <3>4 DEF Owed
    <3> QED
      BY <3>1, <3>2, <3>3, <3>5, <3>6 DEF LogInv
  <2> QED
    BY <1>4, <2>1, <2>2, <2>3, <2>4 DEF SubmitterStep
<1>5. ASSUME NEW d \in Desks, Die(d)
      PROVE  LogInv'
  <2>1. /\ desk'[d].pc = "idle" /\ \A e \in Desks \ {d} : desk'[e] = desk[e]
        /\ UNCHANGED <<placed, events>> /\ deaths' # 0
    BY <1>1, <1>5 DEF Die, AtRest, DeskInv, DeskTypeOK, ledgerVars
  <2>2. \A s \in Submitters, o \in Orders : Owed(s, o)' => Owed(s, o)
    BY <1>1, <2>1 DEF Owed, Holding
  <2> QED
    BY <2>1, <2>2 DEF LogInv, Submitted
<1>6. UNCHANGED tradingVars => UNCHANGED deskVars /\ [Next]_vars
  BY DEF tradingVars, vars
<1> QED
  BY <1>2, <1>3, <1>4, <1>5, <1>6 DEF TradingNext, DeskNext

(* Nothing is said to be submitted that was not placed, and with the desk   *)
(* at rest and no death every placed order is in the account ledger.        *)
THEOREM PlacedOrdersLogged == TradingSpec => []BrokerOrdersAreLogged
<1>1. TradingInit => LogInv
  BY DEF TradingInit, Init, LedgerInit, DeskInit, AtRest, Desks, LogInv, Owed, Holding,
         Submitted
<1>2. LogInv => BrokerOrdersAreLogged
  BY DEF LogInv, BrokerOrdersAreLogged, DeskIdle, Desks, Owed, Holding, Submitted
<1> QED
  BY <1>1, <1>2, DeskInitType, DeskStepType, LogStep, PTL DEF TradingSpec

-----------------------------------------------------------------------------
(* The desk is nothing the pipeline can see *)

(* A command works on tickets that exist.                                   *)
TicketInHand(d) ==
  /\ desk[d].pc \notin {"idle", "record"} => HasTicket(desk[d].order)
  /\ \A o \in desk[d].todo : HasTicket(o)

TicketsInHand == \A d \in Desks : TicketInHand(d)

SameTickets ==
  \A o \in Orders :
    /\ HasTicket(o)' <=> HasTicket(o)
    /\ orders'[o].created_at = orders[o].created_at

(* What a step of a desk command d takes up or keeps in hand.               *)
Carries(d) ==
  \/ desk'[d].pc \in {"idle", "record"}
  \/ HasTicket(desk'[d].order)

(* A step of one command that leaves every ticket in place.                 *)
LEMMA InHandAfter ==
  ASSUME DeskInv, TicketsInHand, SameTickets, NEW d \in Desks,
         \A e \in Desks \ {d} : desk'[e] = desk[e],
         Carries(d), desk'[d].pc \notin {"idle", "record"} => desk'[d].order \in Orders,
         \A o \in desk'[d].todo : o \in Orders /\ HasTicket(o)
  PROVE  TicketsInHand'
<1>1. TicketInHand(d)'
  BY DEF Carries, TicketInHand, SameTickets, HasTicket
<1>2. ASSUME NEW e \in Desks \ {d}
      PROVE  TicketInHand(e)'
  <2>1. /\ desk[e].todo \subseteq Orders
        /\ desk[e].pc \notin {"idle", "record"} => desk[e].order \in Orders
    BY DEF DeskInv, DeskTypeOK, OrderInHand, Desk
  <2>2. desk'[e] = desk[e] /\ TicketInHand(e)
    BY DEF TicketsInHand
  <2> QED
    BY <2>1, <2>2 DEF TicketInHand, SameTickets, HasTicket
<1> QED
  BY <1>1, <1>2 DEF TicketsInHand

(* The steps after which the command has the ticket and the scan it had, or *)
(* no ticket.                                                               *)
LEMMA StepInHand ==
  ASSUME DeskInv, TicketsInHand, SameTickets, NEW d \in Desks,
         desk[d].pc \notin {"idle", "record"},
         NextTicket(d) \/ \E pc : Stage(d, pc)
  PROVE  TicketsInHand'
<1>1. /\ desk[d].order \in Orders /\ HasTicket(desk[d].order)
      /\ desk[d].todo \subseteq Orders /\ \A o \in desk[d].todo : HasTicket(o)
  BY DEF DeskInv, DeskTypeOK, OrderInHand, Desk, TicketsInHand, TicketInHand
<1>2. CASE NextTicket(d)
  <2>1. desk'[d].todo \subseteq desk[d].todo
    <3> DEFINE next == [AtRest EXCEPT !.pc = "record", !.todo = desk[d].todo]
    <3>1. next.todo = desk[d].todo /\ AtRest.todo = {}
      BY DEF AtRest
    <3>2. desk' = [desk EXCEPT ![d] = IF desk[d].todo = {} THEN AtRest ELSE next]
      BY <1>2 DEF NextTicket
    <3> HIDE DEF next
    <3> QED
      BY <3>1, <3>2 DEF DeskInv, DeskTypeOK
  <2> QED
    BY <1>1, <1>2, <2>1, NextTicketType, InHandAfter DEF Carries
<1>3. ASSUME NEW pc, Stage(d, pc)
      PROVE  TicketsInHand'
  <2>1. desk'[d].todo = desk[d].todo
    BY <1>3 DEF DeskInv, DeskTypeOK, Desk, Stage
  <2> QED
    BY <1>1, <1>3, <2>1, StageMoves, InHandAfter DEF Carries
<1> QED
  BY <1>2, <1>3

(* The UPDATE of a ticket that exists moves no ticket.                      *)
LEMMA UpdateKeepsTickets ==
  ASSUME DeskInv, NEW o \in Orders, HasTicket(o), NEW status \in TicketStatus,
         NEW meta, NEW mark, UpdatePaperOrderTicketStatus(o, status, meta, mark)
  PROVE  SameTickets
<1>1. /\ orders'[o].status = status
      /\ orders'[o].created_at = orders[o].created_at
      /\ \A x \in Orders \ {o} : orders'[x] = orders[x]
  BY DEF UpdatePaperOrderTicketStatus, DeskInv, TypeInv, TypeOK, LedgerTypeOK
<1>2. status # "none"
  BY DEF TicketStatus
<1> QED
  BY <1>1, <1>2 DEF SameTickets, HasTicket

LEMMA DeskKeepsTickets ==
  ASSUME DeskInv, TicketsInHand, DeskNext
  PROVE  SameTickets /\ TicketsInHand'
<1>1. /\ Submitters \subseteq Desks /\ Approvers \subseteq Desks
      /\ desk \in [Desks -> Desk]
      /\ \A d \in Desks : desk[d].pc \notin {"idle", "record"} => desk[d].order \in Orders
      /\ \A d \in Desks : desk[d].todo \subseteq Orders
  BY DEF DeskInv, DeskTypeOK, OrderInHand, Desks, Desk
<1>2. UNCHANGED orders => SameTickets
  BY DEF SameTickets, HasTicket
<1>3. ASSUME NEW d \in Desks, desk[d].pc \notin {"idle", "record"},
             NEW status \in TicketStatus, NEW mark, NEW pc, Stage(d, pc),
             UpdatePaperOrderTicketStatus(desk[d].order, status, desk[d].meta, mark)
      PROVE  SameTickets /\ TicketsInHand'
  <2>1. desk[d].order \in Orders /\ HasTicket(desk[d].order)
    BY <1>1, <1>3 DEF TicketsInHand, TicketInHand
  <2>2. SameTickets
    BY <1>3, <2>1, UpdateKeepsTickets
  <2> QED
    BY <1>3, <2>2, StepInHand
<1>4. ASSUME NEW d \in Desks, UNCHANGED orders, desk' = [desk EXCEPT ![d] = AtRest]
      PROVE  SameTickets /\ TicketsInHand'
  <2>1. desk'[d].pc = "idle" /\ desk'[d].todo = {}
        /\ \A e \in Desks \ {d} : desk'[e] = desk[e]
    BY <1>1, <1>4 DEF AtRest
  <2> QED
    BY <1>2, <1>4, <2>1, InHandAfter DEF Carries
<1>5. ASSUME NEW a \in Approvers, ApproverStep(a)
      PROVE  SameTickets /\ TicketsInHand'
  <2>1. a \in Desks
    BY <1>1
  <2>2. ASSUME NEW o \in Orders, NEW decision, SelectForApproval(a, o, decision)
        PROVE  SameTickets /\ TicketsInHand'
    <3>1. UNCHANGED orders /\ HasTicket(o)
      BY <2>2 DEF SelectForApproval, ledgerVars
    <3> DEFINE next == [AtRest EXCEPT !.pc = "update", !.order = o,
                          !.decision = decision, !.meta = orders[o].meta]
    <3>2. next.order = o /\ next.todo = {}
      BY DEF AtRest
    <3>3. desk' = [desk EXCEPT ![a] = next]
      BY <2>2 DEF SelectForApproval
    <3> HIDE DEF next
    <3>4. desk'[a] = next /\ \A e \in Desks \ {a} : desk'[e] = desk[e]
      BY <1>1, <2>1, <3>3
    <3> QED
      BY <1>2, <2>1, <3>1, <3>2, <3>4, InHandAfter DEF Carries
  <2>3. CASE Approve(a)
    BY <1>3, <2>1, <2>3 DEF Approve, TicketStatus
  <2>4. CASE Reject(a)
    BY <1>3, <2>1, <2>4 DEF Reject, TicketStatus
  <2>5. CASE WriteApprovalEvent(a)
    BY <1>4, <2>1, <2>5 DEF WriteApprovalEvent
  <2> QED
    BY <1>5, <2>2, <2>3, <2>4, <2>5 DEF ApproverStep
<1>6. ASSUME NEW s \in Submitters, SubmitterStep(s)
      PROVE  SameTickets /\ TicketsInHand'
  <2>1. s \in Desks
    BY <1>1
  <2>2. CASE ScanApproved(s)
    <3>1. PICK latest \in LatestPaperOrders(OrderLimit) :
            desk' = [desk EXCEPT ![s].pc = "record",
                       ![s].todo = {o \in latest :
                                      orders[o].status = "approved_for_submit"}]
      BY <2>2 DEF ScanApproved
    <3> DEFINE approved == {o \in latest : orders[o].status = "approved_for_submit"}
    <3>2. \A o \in approved : HasTicket(o)
      BY DEF HasTicket
    <3> HIDE DEF approved
    <3>3. /\ desk'[s].pc = "record" /\ desk'[s].todo = approved
          /\ \A e \in Desks \ {s} : desk'[e] = desk[e]
      BY <1>1, <2>1, <3>1 DEF Desk, approved
    <3>4. latest \subseteq Orders
      BY <3>1 DEF LatestPaperOrders, Newest
    <3>5. approved \subseteq Orders
      BY <3>4 DEF approved
    <3> QED
      BY <1>2, <2>1, <2>2, <3>2, <3>3, <3>5, InHandAfter
      DEF Carries, ScanApproved, ledgerVars
  <2>3. CASE LoadStrategyRecord(s)
    <3>1. PICK o \in desk[s].todo :
            desk' = [desk EXCEPT ![s].pc = "load", ![s].order = o,
                       ![s].todo = @ \ {o},
                       ![s].running = StrategyRunning(ProposalOf[o])]
      BY <2>3 DEF LoadStrategyRecord
    <3>2. HasTicket(o) /\ \A x \in desk[s].todo : HasTicket(x)
      BY <2>1, <3>1 DEF TicketsInHand, TicketInHand
    <3> DEFINE running == StrategyRunning(ProposalOf[o])
               next == [desk[s] EXCEPT !.pc = "load", !.order = o,
                          !.todo = desk[s].todo \ {o}, !.running = running]
    <3> HIDE DEF running
    <3>3. next.order = o /\ next.todo = desk[s].todo \ {o}
      BY <1>1, <2>1 DEF Desk
    <3>4. desk' = [desk EXCEPT ![s] = next]
      BY <3>1 DEF running
    <3> HIDE DEF next
    <3>5. desk'[s] = next /\ \A e \in Desks \ {s} : desk'[e] = desk[e]
      BY <1>1, <2>1, <3>4
    <3>6. UNCHANGED orders
      BY <2>3 DEF LoadStrategyRecord, ledgerVars
    <3> QED
      BY <1>1, <1>2, <2>1, <3>1, <3>2, <3>3, <3>5, <3>6, InHandAfter DEF Carries
  <2>4. CASE \/ RecordPreflight(s) \/ LoadTicket(s) \/ Connect(s) \/ BrokerError(s)
             \/ PlaceOrder(s) \/ WriteSubmissionEvent(s)
    <3>1. UNCHANGED orders /\ desk[s].pc \notin {"idle", "record"}
      BY <2>4 DEF RecordPreflight, LoadTicket, Connect, BrokerError, PlaceOrder,
                  WriteSubmissionEvent, ledgerVars
    <3>2. NextTicket(s) \/ \E pc : Stage(s, pc)
      BY <2>4 DEF RecordPreflight, LoadTicket, Connect, BrokerError, PlaceOrder,
                  WriteSubmissionEvent
    <3> QED
      BY <1>2, <2>1, <3>1, <3>2, StepInHand
  <2>5. CASE SelectForSubmission(s)
    <3>1. UNCHANGED orders /\ desk[s].pc = "select"
      BY <2>5 DEF SelectForSubmission, ledgerVars
    <3>2. /\ desk'[s].order = desk[s].order /\ desk'[s].todo = desk[s].todo
          /\ \A e \in Desks \ {s} : desk'[e] = desk[e]
      BY <1>1, <2>1, <2>5 DEF SelectForSubmission, Desk
    <3>3. TicketInHand(s) /\ desk[s].order \in Orders /\ desk[s].todo \subseteq Orders
      BY <1>1, <2>1, <3>1 DEF TicketsInHand
    <3> QED
      BY <1>2, <2>1, <3>1, <3>2, <3>3, InHandAfter DEF Carries, TicketInHand
  <2>6. CASE MarkSubmitted(s)
    BY <1>3, <2>1, <2>6 DEF MarkSubmitted, TicketStatus
  <2> QED
    BY <1>6, <2>2, <2>3, <2>4, <2>5, <2>6 DEF SubmitterStep
<1>7. ASSUME NEW d \in Desks, Die(d)
      PROVE  SameTickets /\ TicketsInHand'
  BY <1>4, <1>7 DEF Die, ledgerVars
<1> QED
  BY <1>5, <1>6, <1>7 DEF DeskNext

-----------------------------------------------------------------------------
(* The lane keeps what the pipeline keeps *)

(* What a step of the desk leaves alone: everything the pipeline reads, and *)
(* every event of its kinds.                                                *)
Unseen ==
  /\ SameTickets
  /\ UNCHANGED <<now, reviews, registry, pipelineVars>>
  /\ UNCHANGED EventsAsWritten

LEMMA DeskIsUnseen ==
  ASSUME DeskInv, TicketsInHand, DeskNext, UNCHANGED pipelineVars
  PROVE  Unseen
<1>1. SameTickets
  BY DeskKeepsTickets
<1>2. UNCHANGED <<now, reviews, registry>>
  BY DEF DeskNext, ApproverStep, SelectForApproval, Approve, Reject, WriteApprovalEvent,
         SubmitterStep, ScanApproved, LoadStrategyRecord, RecordPreflight, LoadTicket,
         Connect, BrokerError, PlaceOrder, SelectForSubmission, MarkSubmitted,
         WriteSubmissionEvent, Die, ledgerVars
<1>3. UNCHANGED EventsAsWritten
  <2>1. CASE \E a \in Approvers : WriteApprovalEvent(a)
    BY <2>1 DEF WriteApprovalEvent, WriteAccountTradeEvents, EventsAsWritten, PipelineKinds
  <2>2. CASE \E s \in Submitters : RecordPreflight(s) \/ WriteSubmissionEvent(s)
    BY <2>2 DEF RecordPreflight, WriteSubmissionEvent, WriteAccountTradeEvents,
                EventsAsWritten, PipelineKinds
  <2>3. CASE UNCHANGED events
    BY <2>3 DEF EventsAsWritten
  <2> QED
    BY <2>1, <2>2, <2>3
    DEF DeskNext, ApproverStep, SelectForApproval, Approve, Reject, SubmitterStep,
        ScanApproved, LoadStrategyRecord, LoadTicket, Connect, BrokerError, PlaceOrder,
        SelectForSubmission, MarkSubmitted, Die, ledgerVars
<1> QED
  BY <1>1, <1>2, <1>3 DEF Unseen

(* A step of the lane is the pipeline's, or the pipeline cannot tell it     *)
(* from none.                                                               *)
LEMMA LaneCases ==
  ASSUME DeskInv, TicketsInHand, [TradingNext]_tradingVars
  PROVE  (UNCHANGED deskVars /\ [Next]_vars) \/ Unseen
<1>1. UNCHANGED tradingVars => UNCHANGED deskVars /\ [Next]_vars
  BY DEF tradingVars, vars
<1> QED
  BY <1>1, DeskIsUnseen DEF TradingNext

LEMMA InHandStep ==
  ASSUME DeskInv, TicketsInHand, [TradingNext]_tradingVars
  PROVE  TicketsInHand'
<1>1. CASE UNCHANGED deskVars /\ [Next]_vars
  <2>1. UNCHANGED desk /\ RowsStay
    BY <1>1, RowsStayInPlace DEF deskVars, DeskInv
  <2>2. ASSUME NEW d \in Desks
        PROVE  TicketInHand(d)'
    <3>1. /\ desk[d].todo \subseteq Orders
          /\ desk[d].pc \notin {"idle", "record"} => desk[d].order \in Orders
      BY DEF DeskInv, DeskTypeOK, OrderInHand, Desk
    <3> QED
      BY <2>1, <3>1 DEF TicketsInHand, TicketInHand, RowsStay
  <2> QED
    BY <2>2 DEF TicketsInHand
<1>2. CASE DeskNext
  BY <1>2, DeskKeepsTickets
<1>3. UNCHANGED tradingVars => UNCHANGED deskVars /\ [Next]_vars
  BY DEF tradingVars, vars
<1> QED
  BY <1>1, <1>2, <1>3 DEF TradingNext

(* What every behaviour of the lane has.                                    *)
LaneInv == DeskInv /\ TicketsInHand

LEMMA LaneInitially == TradingInit => LaneInv
<1>1. TradingInit => TicketsInHand
  BY DEF TradingInit, DeskInit, AtRest, TicketsInHand, TicketInHand
<1> QED
  BY <1>1, DeskInitType DEF LaneInv

LEMMA LaneKept == LaneInv /\ [TradingNext]_tradingVars => LaneInv'
BY DeskStepType, InHandStep DEF LaneInv

(* The rows and events of the pipeline are as they were.                    *)
LEMMA UnseenRows ==
  ASSUME Unseen
  PROVE  /\ \A o \in Orders : HasTicket(o)' <=> HasTicket(o)
         /\ \A p \in Proposals : \A t : OnFile(p, t)' <=> OnFile(p, t)
         /\ \A p \in Proposals : Reviewed(p)' <=> Reviewed(p)
         /\ Ticketed' = Ticketed
         /\ \A o \in Orders : <<"paper_order_ticket", o>> \in events' <=>
                                <<"paper_order_ticket", o>> \in events
         /\ \A o \in Orders : <<"paper_review", o>> \in events' <=>
                                <<"paper_review", o>> \in events
         /\ UNCHANGED <<artifacts, command, kills>>
<1>1. \A o \in Orders : HasTicket(o)' <=> HasTicket(o)
  BY DEF Unseen, SameTickets
<1>2. Ticketed' = Ticketed
  BY <1>1 DEF Ticketed, TicketsOf
<1>3. /\ \A p \in Proposals : \A t : OnFile(p, t)' <=> OnFile(p, t)
      /\ \A p \in Proposals : Reviewed(p)' <=> Reviewed(p)
  BY DEF Unseen, OnFile, Reviewed
<1>4. UNCHANGED <<artifacts, command, kills>>
  BY DEF Unseen, pipelineVars
<1>5. \A kind \in PipelineKinds : \A x :
         <<kind, x>> \in events <=> <<kind, x>> \in EventsAsWritten
  BY DEF EventsAsWritten
<1>6. \A kind \in PipelineKinds : \A x :
         <<kind, x>> \in events' <=> <<kind, x>> \in events
  BY <1>5 DEF EventsAsWritten, Unseen
<1>7. "paper_order_ticket" \in PipelineKinds /\ "paper_review" \in PipelineKinds
  BY DEF PipelineKinds
<1> QED
  BY <1>1, <1>2, <1>3, <1>4, <1>6, <1>7

LEMMA LaneFiles ==
  ASSUME LaneInv, FilesInv, [TradingNext]_tradingVars
  PROVE  FilesInv'
<1>1. LaneInv'
  BY LaneKept
<1>2. CASE [Next]_vars
  BY <1>2, FilesStep
<1>3. CASE Unseen
  <2>1. TicketsBacked'
    BY <1>3, UnseenRows, LedgerAssumption DEF FilesInv, TicketsBacked, Unseen, SameTickets
  <2>2. NoEventWithoutRow'
    BY <1>3, UnseenRows, LedgerAssumption DEF FilesInv, NoEventWithoutRow
  <2>3. ASSUME NEW c \in Commands
        PROVE  Backed(c)'
    <3>1. command[c].pc \in PastReview => Current(c) \in Proposals
      BY CurrentIsProposal DEF FilesInv, PastReview
    <3> QED
      BY <1>3, <3>1, UnseenRows DEF FilesInv, Backed, Current, TicketsOf
  <2> QED
    BY <1>1, <2>1, <2>2, <2>3 DEF FilesInv, LaneInv, DeskInv
<1> QED
  BY <1>2, <1>3, LaneCases DEF LaneInv

(* Whatever the desk rewrites, a ticket rests on a review on file and an    *)
(* event on the row it reports.                                             *)
THEOREM LaneRowsBehind == TradingSpec => [](ReviewBehindTicket /\ NoEventWithoutRow)
<1>1. TradingInit => FilesInv
  <2> SUFFICES ASSUME TradingInit PROVE FilesInv
    OBVIOUS
  <2>1. Init
    BY DEF TradingInit
  <2>2. TicketsBacked /\ NoEventWithoutRow
    BY <2>1 DEF Init, LedgerInit, TicketsBacked, NoEventWithoutRow, HasTicket, NoRow
  <2>3. \A c \in Commands : Backed(c)
    BY <2>1 DEF Init, PipelineInit, Backed, PastReview, Ended
  <2> QED
    BY <2>1, <2>2, <2>3, InitType DEF FilesInv
<1>2. FilesInv => ReviewBehindTicket /\ NoEventWithoutRow
  BY DEF FilesInv, TicketsBacked, OnFile, ReviewBehindTicket
<1> QED
  BY <1>1, <1>2, LaneInitially, LaneKept, LaneFiles, PTL DEF TradingSpec

LEMMA LaneReports ==
  ASSUME LaneInv, ReportInv, [TradingNext]_tradingVars
  PROVE  ReportInv'
<1>1. CASE [Next]_vars
  BY <1>1, ReportStep DEF LaneInv, DeskInv
<1>2. CASE Unseen
  <2> SUFFICES ASSUME kills' = 0 PROVE TicketsReported' /\ ReviewsReported'
    BY DEF ReportInv
  <2>1. TicketsReported /\ ReviewsReported /\ UNCHANGED command
    BY <1>2, UnseenRows DEF ReportInv, Unseen, pipelineVars
  <2>2. \A c \in Commands : \A stage, p : Reporting(c, stage, p) <=> Reporting(c, stage, p)'
    BY <2>1 DEF Reporting, Current
  <2>3. TicketsReported'
    BY <1>2, <2>1, <2>2, UnseenRows, LedgerAssumption DEF TicketsReported
  <2>4. \A p \in Proposals : ReviewEvents(p) \subseteq events => ReviewEvents(p) \subseteq events'
    BY <1>2, UnseenRows DEF ReviewEvents, TicketsOf
  <2>5. ReviewsReported'
    BY <1>2, <2>1, <2>2, <2>4, UnseenRows DEF ReviewsReported
  <2> QED
    BY <2>3, <2>5
<1> QED
  BY <1>1, <1>2, LaneCases DEF LaneInv

(* The two databases agree about reviews and tickets whenever no pipeline   *)
(* command is at work and none was killed, whatever the desk is doing.      *)
THEOREM LaneLedgersAgree == TradingSpec => []LedgersAgree
<1>1. TradingInit => ReportInv
  BY DEF TradingInit, Init, LedgerInit, PipelineInit, ReportInv, TicketsReported,
         ReviewsReported, HasTicket, NoRow, OnFile
<1>2. LaneInv /\ NoEventWithoutRow /\ ReportInv => LedgersAgree
  BY LedgerAssumption
  DEF LedgersAgree, NoEventWithoutRow, ReportInv, TicketsReported, ReviewsReported,
      Reporting, OnFile, Reviewed, ReviewEvents, TicketsOf
<1>3. TradingSpec => []NoEventWithoutRow
  BY LaneRowsBehind, PTL
<1> QED
  BY <1>1, <1>2, <1>3, LaneInitially, LaneKept, LaneReports, PTL DEF TradingSpec

LEMMA LaneOnce ==
  ASSUME NEW r \in Runners, AloneAndSkipping(r), LaneInv, OnceInv(r),
         [TradingNext]_tradingVars
  PROVE  OnceInv(r)'
<1>1. CASE [Next]_vars
  BY <1>1, OnceStep DEF LaneInv, DeskInv
<1>2. CASE Unseen
  <2>1. UNCHANGED <<reviews, command, artifacts>> /\ SameTickets
    BY <1>2 DEF Unseen, pipelineVars
  <2>2. LoopInv(r)'
    BY <2>1
    DEF OnceInv, LoopInv, Ahead, Reviewed, PassedOnFile, OnFile, Current, TicketsOf,
        SameTickets
  <2>3. Once' /\ TicketsReady' /\ Distinct(artifacts)'
    BY <2>1 DEF OnceInv, Once, OnFile, TicketsReady, SameTickets
  <2> QED
    BY <2>2, <2>3 DEF OnceInv
<1> QED
  BY <1>1, <1>2, LaneCases DEF LaneInv

(* A single runner that skips what it reviewed reviews nothing twice, and   *)
(* each of its tickets names a review that passed and still says so, also   *)
(* after approvals, rejections and submissions rewrote the tickets.         *)
THEOREM LaneReviewsOnce ==
  ASSUME NEW r \in Runners, AloneAndSkipping(r)
  PROVE  TradingSpec => [](ReviewedOnce /\ ReadyReviewBehindTicket)
<1>1. LaneInv /\ OnceInv(r) => ReviewedOnce
  BY OnceIsReviewedOnce DEF LaneInv, DeskInv
<1>2. OnceInv(r) => ReadyReviewBehindTicket
  BY DEF OnceInv, TicketsReady, ReadyReviewBehindTicket
<1>3. TradingInit => OnceInv(r)
  BY OnceAtInit DEF TradingInit
<1> QED
  BY <1>1, <1>2, <1>3, LaneInitially, LaneKept, LaneOnce, PTL DEF TradingSpec

LEMMA LaneCap ==
  ASSUME NEW r \in Runners, Commands = {r}, Counted = Estimated, LaneInv, CapInv(r),
         [TradingNext]_tradingVars
  PROVE  CapInv(r)'
<1>1. CASE [Next]_vars
  BY <1>1, CapStep DEF LaneInv, DeskInv
<1>2. CASE Unseen
  <2>1. Ticketed' = Ticketed /\ UNCHANGED command
    BY <1>2, UnseenRows
  <2> QED
    BY <2>1 DEF CapInv, Current, Total
<1> QED
  BY <1>1, <1>2, LaneCases DEF LaneInv

(* The day's tickets stay within PAPER_MAX_DAILY_NOTIONAL in the whole      *)
(* lane: a rejected or submitted ticket goes on counting.                   *)
THEOREM LaneKeepsDailyCap ==
  ASSUME NEW r \in Runners, Commands = {r}, Counted = Estimated
  PROVE  TradingSpec => []DailyCapKept
<1>1. TradingInit => CapInv(r)
  BY CapAtInit DEF TradingInit
<1>2. CapInv(r) => DailyCapKept
  BY DEF CapInv, DailyCapKept, Total
<1>3. LaneInv /\ CapInv(r) /\ [TradingNext]_tradingVars => CapInv(r)'
  BY LaneCap
<1> QED
  BY <1>1, <1>2, <1>3, LaneInitially, LaneKept, PTL DEF TradingSpec

-----------------------------------------------------------------------------
(* What a ticket's document says is not lost *)

(* A command whose row was left alone since its SELECT holds the document   *)
(* that is still beside the ticket.                                         *)
HeldIsCurrent ==
  \A d \in Desks :
    HoldsDocument(d) /\ d \notin overtaken => desk[d].meta = orders[desk[d].order].meta

(* A command comes to hold a document by the SELECT that reads it.          *)
LEMMA SelectReadsDocument ==
  ASSUME DeskInv, DeskNext, NEW d \in Desks, desk'[d] # desk[d], HoldsDocument(d)'
  PROVE  desk'[d].meta = orders'[desk'[d].order].meta
<1> DEFINE Goal == desk'[d].meta = orders'[desk'[d].order].meta
           Others(e) == \A x \in Desks \ {e} : desk'[x] = desk[x]
<1>1. /\ Submitters \subseteq Desks /\ Approvers \subseteq Desks
      /\ desk \in [Desks -> Desk]
  BY DEF DeskInv, DeskTypeOK, Desks
<1>2. ASSUME NEW e \in Desks, Others(e), desk'[e].pc \notin {"update", "mark"}
      PROVE  Goal
  BY <1>2 DEF HoldsDocument
<1>3. ASSUME NEW e \in Desks, NEW pc, pc \notin {"update", "mark"},
             Stage(e, pc)
      PROVE  Goal
  <2>1. Others(e) /\ desk'[e].pc = pc
    BY <1>1, <1>3, StageMoves
  <2> QED
    BY <1>2, <1>3, <2>1
<1>4. ASSUME NEW a \in Approvers, ApproverStep(a)
      PROVE  Goal
  <2>1. a \in Desks
    BY <1>1
  <2>2. ASSUME NEW o \in Orders, NEW decision, SelectForApproval(a, o, decision)
        PROVE  Goal
    <3> DEFINE next == [AtRest EXCEPT !.pc = "update", !.order = o,
                          !.decision = decision, !.meta = orders[o].meta]
    <3>1. next.order = o /\ next.meta = orders[o].meta
      BY DEF AtRest
    <3>2. desk' = [desk EXCEPT ![a] = next] /\ UNCHANGED orders
      BY <2>2 DEF SelectForApproval, ledgerVars
    <3> HIDE DEF next
    <3>3. desk'[a] = next /\ Others(a)
      BY <1>1, <2>1, <3>2
    <3>4. d = a
      BY <3>3
    <3> QED
      BY <3>1, <3>2, <3>3, <3>4
  <2>3. CASE Approve(a) \/ Reject(a)
    BY <1>3, <2>1, <2>3 DEF Approve, Reject
  <2>4. CASE WriteApprovalEvent(a)
    BY <1>1, <1>2, <2>1, <2>4 DEF WriteApprovalEvent, AtRest
  <2> QED
    BY <1>4, <2>2, <2>3, <2>4 DEF ApproverStep
<1>5. ASSUME NEW s \in Submitters, SubmitterStep(s)
      PROVE  Goal
  <2>1. s \in Desks
    BY <1>1
  <2>2. CASE \/ ScanApproved(s) \/ LoadStrategyRecord(s) \/ RecordPreflight(s)
             \/ WriteSubmissionEvent(s)
    <3>1. desk'[s].pc \in {"idle", "record", "load"} /\ Others(s)
      BY <2>2, QuietDesk
    <3> QED
      BY <1>2, <2>1, <3>1
  <2>3. CASE LoadTicket(s) \/ Connect(s) \/ BrokerError(s) \/ PlaceOrder(s)
    <3>1. NextTicket(s) \/ \E pc \in {"connect", "place", "select"} : Stage(s, pc)
      BY <2>3 DEF LoadTicket, Connect, BrokerError, PlaceOrder
    <3>2. CASE NextTicket(s)
      <4>1. desk'[s].pc \in {"idle", "record"} /\ Others(s)
        BY <1>1, <2>1, <3>2, NextTicketType
      <4> QED
        BY <1>2, <2>1, <4>1
    <3> QED
      BY <1>3, <2>1, <3>1, <3>2
  <2>4. CASE SelectForSubmission(s)
    <3>1. /\ UNCHANGED orders
          /\ desk'[s].order = desk[s].order
          /\ desk'[s].meta = orders[desk[s].order].meta
          /\ Others(s)
      BY <1>1, <2>1, <2>4 DEF SelectForSubmission, Desk, ledgerVars
    <3> QED
      BY <3>1
  <2>5. CASE MarkSubmitted(s)
    BY <1>3, <2>1, <2>5 DEF MarkSubmitted
  <2> QED
    BY <1>5, <2>2, <2>3, <2>4, <2>5 DEF SubmitterStep
<1>6. ASSUME NEW e \in Desks, Die(e)
      PROVE  Goal
  BY <1>1, <1>2, <1>6 DEF Die, AtRest
<1> QED
  BY <1>4, <1>5, <1>6 DEF DeskNext

LEMMA HeldStaysCurrent ==
  ASSUME DeskInv, HeldIsCurrent, [HistoryNext]_historyVars
  PROVE  HeldIsCurrent'
<1>1. CASE HistoryNext
  <2> SUFFICES ASSUME NEW d \in Desks, HoldsDocument(d)', d \notin overtaken'
               PROVE  desk'[d].meta = orders'[desk'[d].order].meta
    BY DEF HeldIsCurrent
  <2>1. CASE desk'[d] = desk[d]
    <3>1. HoldsDocument(d)
      BY <2>1 DEF HoldsDocument
    <3>2. d \notin overtaken /\ orders'[desk[d].order] = orders[desk[d].order]
      BY <1>1, <2>1, <3>1 DEF HistoryNext
    <3> QED
      BY <2>1, <3>1, <3>2 DEF HeldIsCurrent
  <2>2. CASE desk'[d] # desk[d]
    <3>1. DeskNext
      BY <1>1, <2>2 DEF HistoryNext, TradingNext, deskVars
    <3> QED
      BY <2>2, <3>1, SelectReadsDocument
  <2> QED
    BY <2>1, <2>2
<1>2. CASE UNCHANGED historyVars
  BY <1>2 DEF historyVars, tradingVars, ledgerVars, deskVars, HeldIsCurrent, HoldsDocument
<1> QED
  BY <1>1, <1>2

(* The pipeline writes tickets of a proposal only as its review does.       *)
LEMMA PipelineRewrites ==
  ASSUME [Next]_vars, NEW o \in Orders
  PROVE  orders'[o] = orders[o] \/ RewrittenByReview(o)
<1>1. ASSUME NEW c \in Commands, WriteTickets(c)
      PROVE  orders'[o] = orders[o] \/ RewrittenByReview(o)
  BY <1>1 DEF WriteTickets, WritePaperOrderTickets, RewrittenByReview
<1>2. ASSUME NEW c \in Commands, Step(c) \/ Kill(c), ~WriteTickets(c)
      PROVE  orders' = orders
  BY <1>2 DEF Step, Begin, ReadDailyUsed, SkipOrTake, WriteReview, WriteReviewEvents,
              TicketGate, WriteTicketEvents, Kill, ledgerVars
<1>3. \/ \E p \in Proposals : WriteTradeProposalArtifact(p)
      \/ Environment
      \/ UNCHANGED vars
      => orders' = orders
  BY DEF WriteTradeProposalArtifact, Environment, UpsertPaperStrategy, Tick, vars,
         ledgerVars
<1> QED
  BY <1>1, <1>2, <1>3 DEF Next, PipelineNext

(* An UPDATE adds to the document it was made from.                         *)
LEMMA DeskAddsToDocument ==
  ASSUME DeskInv, HeldIsCurrent, DeskNext, NEW o \in Orders
  PROVE  \/ /\ orders'[o].meta.review = orders[o].meta.review
            /\ orders[o].meta.marks \subseteq orders'[o].meta.marks
         \/ WrittenByOvertaken(o)
<1> DEFINE Goal == \/ /\ orders'[o].meta.review = orders[o].meta.review
                      /\ orders[o].meta.marks \subseteq orders'[o].meta.marks
                   \/ WrittenByOvertaken(o)
<1>1. /\ Submitters \subseteq Desks /\ Approvers \subseteq Desks
      /\ desk \in [Desks -> Desk] /\ orders \in [Orders -> Row]
      /\ \A d \in Desks : desk[d].pc \notin {"idle", "record"} => desk[d].order \in Orders
  BY DEF DeskInv, DeskTypeOK, OrderInHand, TypeInv, TypeOK, LedgerTypeOK, Desks
<1>2. ASSUME NEW d \in Desks, HoldsDocument(d), NEW status, NEW mark,
             UpdatePaperOrderTicketStatus(desk[d].order, status, desk[d].meta, mark),
             NEW pc, pc \notin {"update", "mark"},
             Stage(d, pc)
      PROVE  Goal
  <2>1. desk'[d] # desk[d]
    BY <1>1, <1>2, StageMoves DEF HoldsDocument
  <2>2. desk[d].order \in Orders
    BY <1>1, <1>2 DEF HoldsDocument
  <2>3. CASE o # desk[d].order
    <3>1. orders'[o] = orders[o]
      BY <1>2, <2>2, <2>3 DEF UpdatePaperOrderTicketStatus
    <3> QED
      BY <3>1
  <2>4. CASE o = desk[d].order
    <3>1. /\ orders'[o].meta.review = desk[d].meta.review
          /\ orders'[o].meta.marks = desk[d].meta.marks \cup {mark}
      BY <1>1, <1>2, <2>4 DEF UpdatePaperOrderTicketStatus
    <3>2. CASE d \in overtaken
      BY <1>2, <2>1, <2>4, <3>2 DEF WrittenByOvertaken
    <3>3. CASE d \notin overtaken
      <4>1. desk[d].meta = orders[o].meta
        BY <1>2, <2>4, <3>3 DEF HeldIsCurrent
      <4> QED
        BY <3>1, <4>1
    <3> QED
      BY <3>2, <3>3
  <2> QED
    BY <2>3, <2>4
<1>3. ASSUME NEW a \in Approvers, Approve(a) \/ Reject(a)
      PROVE  Goal
  BY <1>1, <1>2, <1>3 DEF Approve, Reject, HoldsDocument
<1>4. ASSUME NEW s \in Submitters, MarkSubmitted(s)
      PROVE  Goal
  BY <1>1, <1>2, <1>4 DEF MarkSubmitted, HoldsDocument
<1>5. CASE UNCHANGED orders
  BY <1>5
<1> QED
  BY <1>3, <1>4, <1>5
  DEF DeskNext, ApproverStep, SelectForApproval, WriteApprovalEvent, SubmitterStep,
      ScanApproved, LoadStrategyRecord, RecordPreflight, LoadTicket, Connect, BrokerError,
      PlaceOrder, SelectForSubmission, WriteSubmissionEvent, Die, ledgerVars

(* For any commands, at the desk and in the pipeline, that review a ticket  *)
(* again, decide it and mark it in any order: its document loses nothing    *)
(* but to a review that makes it afresh, and to an update whose row was     *)
(* changed between its SELECT and its UPDATE.                               *)
THEOREM DocumentsLoseNothing == HistorySpec => NothingForgotten
<1> DEFINE Kept == \A o \in Orders :
                     HasTicket(o) =>
                       \/ /\ orders'[o].meta.review = orders[o].meta.review
                          /\ orders[o].meta.marks \subseteq orders'[o].meta.marks
                       \/ RewrittenByReview(o)
                       \/ WrittenByOvertaken(o)
<1>1. HistoryInit => HeldIsCurrent
  BY DEF HistoryInit, TradingInit, DeskInit, AtRest, HeldIsCurrent, HoldsDocument
<1>2. LaneInv /\ HeldIsCurrent /\ [HistoryNext]_historyVars => HeldIsCurrent'
  BY HeldStaysCurrent DEF LaneInv
<1>3. [HistoryNext]_historyVars => [TradingNext]_tradingVars
  BY DEF HistoryNext, historyVars
<1>4. LaneInv /\ HeldIsCurrent /\ [HistoryNext]_historyVars => [Kept]_historyVars
  <2> SUFFICES ASSUME LaneInv, HeldIsCurrent, HistoryNext PROVE Kept
    OBVIOUS
  <2>1. CASE Next /\ UNCHANGED deskVars
    <3>1. \A o \in Orders : orders'[o] = orders[o] \/ RewrittenByReview(o)
      BY <2>1, PipelineRewrites
    <3> QED
      BY <3>1
  <2>2. CASE DeskNext
    BY <2>2, DeskAddsToDocument DEF LaneInv
  <2> QED
    BY <2>1, <2>2 DEF HistoryNext, TradingNext
<1>5. HistoryInit => LaneInv
  BY LaneInitially DEF HistoryInit
<1> HIDE DEF Kept
<1>6. HistorySpec => [][Kept]_historyVars
  BY <1>1, <1>2, <1>3, <1>4, <1>5, LaneKept, PTL DEF HistorySpec
<1> QED
  BY <1>6 DEF Kept, NothingForgotten

-----------------------------------------------------------------------------
(* Decided tickets stay decided *)

(* A single runner writes the tickets of a proposal only where none are.    *)
LEMMA PipelineWritesWhereNone ==
  ASSUME NEW r \in Runners, AloneAndSkipping(r), OnceInv(r), [Next]_vars
  PROVE  \A o \in Orders : orders'[o] = orders[o] \/ ~HasTicket(o)
<1> SUFFICES ASSUME NEW o \in Orders, orders'[o] # orders[o] PROVE ~HasTicket(o)
  OBVIOUS
<1>1. RewrittenByReview(o)
  BY PipelineRewrites
<1>2. command[r].pc = "tickets" /\ Current(r) = ProposalOf[o]
  BY <1>1 DEF RewrittenByReview, AloneAndSkipping
<1> QED
  BY <1>2 DEF OnceInv, LoopInv, TicketsOf

(* The desk's UPDATEs know three statuses, none of them a dry run.          *)
LEMMA DeskDecides ==
  ASSUME DeskInv, DeskNext, NEW o \in Orders
  PROVE  \/ orders'[o] = orders[o]
         \/ orders'[o].status \in {"approved_for_submit", "rejected", "submitted_to_broker"}
<1>1. \A d \in Desks : desk[d].pc \notin {"idle", "record"} => desk[d].order \in Orders
  BY DEF DeskInv, OrderInHand
<1>2. ASSUME NEW d \in Desks, desk[d].pc \in {"update", "mark"}, NEW mark,
             NEW status \in {"approved_for_submit", "rejected", "submitted_to_broker"},
             UpdatePaperOrderTicketStatus(desk[d].order, status, desk[d].meta, mark)
      PROVE  orders'[o] = orders[o] \/ orders'[o].status = status
  BY <1>1, <1>2, UpdateRow
<1>3. ASSUME NEW a \in Approvers, Approve(a) \/ Reject(a)
      PROVE  \/ orders'[o] = orders[o]
             \/ orders'[o].status \in {"approved_for_submit", "rejected"}
  BY <1>2, <1>3 DEF Approve, Reject, Desks
<1>4. ASSUME NEW s \in Submitters, MarkSubmitted(s)
      PROVE  orders'[o] = orders[o] \/ orders'[o].status = "submitted_to_broker"
  BY <1>2, <1>4 DEF MarkSubmitted, Desks
<1>5. CASE UNCHANGED orders
  BY <1>5
<1> QED
  BY <1>3, <1>4, <1>5
  DEF DeskNext, ApproverStep, SelectForApproval, WriteApprovalEvent, SubmitterStep,
      ScanApproved, LoadStrategyRecord, RecordPreflight, LoadTicket, Connect, BrokerError,
      PlaceOrder, SelectForSubmission, WriteSubmissionEvent, Die, ledgerVars

(* With one runner that skips what it reviewed, the INSERT OR REPLACE of    *)
(* write_paper_order_tickets never takes back an approval, a rejection or a *)
(* submission: it writes the tickets of a proposal where there are none.    *)
THEOREM DecidedTicketsStay ==
  ASSUME NEW r \in Runners, AloneAndSkipping(r)
  PROVE  TradingSpec => DecisionsStand
<1> DEFINE Inv == LaneInv /\ OnceInv(r)
           Stands == \A o \in Orders :
                       orders[o].status \notin {"none", "dry_run"} =>
                         /\ orders'[o].status \notin {"none", "dry_run"}
                         /\ orders'[o].created_at = orders[o].created_at
<1>1. TradingInit => Inv
  BY OnceAtInit, LaneInitially DEF TradingInit
<1>2. Inv /\ [TradingNext]_tradingVars => Inv'
  BY LaneKept, LaneOnce
<1>3. Inv /\ [TradingNext]_tradingVars => Stands
  <2> SUFFICES ASSUME Inv, [TradingNext]_tradingVars PROVE Stands
    OBVIOUS
  <2>1. CASE UNCHANGED deskVars /\ [Next]_vars
    <3>1. \A o \in Orders : orders'[o] = orders[o] \/ ~HasTicket(o)
      BY <2>1, PipelineWritesWhereNone
    <3> QED
      BY <3>1 DEF HasTicket
  <2>2. CASE DeskNext
    <3>1. SameTickets
      BY <2>2, DeskKeepsTickets DEF LaneInv
    <3>2. \A o \in Orders :
            \/ orders'[o] = orders[o]
            \/ orders'[o].status \in {"approved_for_submit", "rejected",
                                      "submitted_to_broker"}
      BY <2>2, DeskDecides DEF LaneInv
    <3> QED
      BY <3>1, <3>2 DEF SameTickets, HasTicket
  <2>3. UNCHANGED tradingVars => UNCHANGED deskVars /\ [Next]_vars
    BY DEF tradingVars, vars
  <2> QED
    BY <2>1, <2>2, <2>3 DEF TradingNext
<1>4. Inv /\ [TradingNext]_tradingVars => [Stands]_orders
  BY <1>3
<1> HIDE DEF Inv
<1> QED
  BY <1>1, <1>2, <1>4, PTL DEF TradingSpec, DecisionsStand

-----------------------------------------------------------------------------
(* A desk with one placing submitter that never dies implements             *)
(* OrderAuthority                                                           *)

(* Only submitters started with --submit-approved come near the broker.     *)
PlacersOnly ==
  \A t \in Submitters : desk[t].pc \in AtBroker => t \in SubmitsApproved

LEMMA PlacersOnlyStep ==
  ASSUME DeskInv, PlacersOnly, [TradingNext]_tradingVars
  PROVE  PlacersOnly'
<1> USE DEF PlacersOnly
<1>1. Submitters \subseteq Desks /\ Approvers \subseteq Desks
  BY DEF Desks
<1>2. CASE UNCHANGED deskVars
  BY <1>2 DEF deskVars
<1>3. ASSUME NEW a \in Approvers, ApproverStep(a)
      PROVE  PlacersOnly'
  <2>1. \A t \in Submitters : desk'[t] = desk[t]
    BY <1>1, <1>3, DeskAssumption
    DEF ApproverStep, SelectForApproval, Approve, Reject, WriteApprovalEvent, Stage,
        DeskInv, DeskTypeOK
  <2> QED
    BY <2>1
<1>4. ASSUME NEW s \in Submitters, SubmitterStep(s)
      PROVE  PlacersOnly'
  <2>1. CASE ScanApproved(s) \/ LoadStrategyRecord(s) \/ RecordPreflight(s) \/
             WriteSubmissionEvent(s)
    BY <1>1, <2>1, QuietDesk
  <2>2. CASE \E pc \in DeskStages : Stage(s, pc) /\ (s \in SubmitsApproved)
    BY <1>1, <2>2, StageMoves
  <2>3. CASE NextTicket(s)
    BY <1>1, <2>3, NextTicketType DEF AtBroker
  <2>4. CASE SelectForSubmission(s)
    <3>1. s \in SubmitsApproved
      BY <2>4 DEF SelectForSubmission, AtBroker
    <3>2. \A e \in Desks \ {s} : desk'[e] = desk[e]
      BY <1>1, <2>4 DEF SelectForSubmission, DeskInv, DeskTypeOK
    <3> QED
      BY <1>1, <3>1, <3>2
  <2> QED
    BY <1>4, <2>1, <2>2, <2>3, <2>4
    DEF SubmitterStep, LoadTicket, Connect, BrokerError, PlaceOrder, MarkSubmitted,
        AtBroker, DeskStages
<1>5. ASSUME NEW d \in Desks, Die(d)
      PROVE  PlacersOnly'
  <2>1. desk'[d].pc = "idle" /\ \A e \in Desks \ {d} : desk'[e] = desk[e]
    BY <1>5 DEF Die, AtRest, DeskInv, DeskTypeOK
  <2> QED
    BY <1>1, <2>1 DEF AtBroker
<1>6. UNCHANGED tradingVars => UNCHANGED deskVars
  BY DEF tradingVars
<1> QED
  BY <1>2, <1>3, <1>4, <1>5, <1>6 DEF TradingNext, DeskNext

(* What HasAuthority says where s is the only placing submitter.            *)
Holds(s, o) ==
  IF desk[s].order = o /\ desk[s].pc \in {"connect", "place"} THEN TRUE
  ELSE IF desk[s].order = o /\ desk[s].pc \in {"select", "mark"} THEN FALSE
  ELSE orders[o].status = "approved_for_submit"

LEMMA OneHolder ==
  ASSUME NEW s \in Submitters, SubmitsApproved = {s}, PlacersOnly, NEW o \in Orders
  PROVE  HasAuthority(o) <=> Holds(s, o)
<1>1. Placing(o) \subseteq {s} /\ Marking(o) \subseteq {s}
  BY DEF PlacersOnly, Placing, Marking, AtBroker
<1>2. /\ s \in Placing(o) <=> desk[s].order = o /\ desk[s].pc \in {"connect", "place"}
      /\ s \in Marking(o) <=> desk[s].order = o /\ desk[s].pc \in {"select", "mark"}
  BY DEF Placing, Marking
<1>3. /\ Placing(o) # {} <=> s \in Placing(o)
      /\ Marking(o) # {} <=> s \in Marking(o)
  BY <1>1
<1> QED
  BY <1>2, <1>3 DEF HasAuthority, Holds

(* The refinement mapping of authority. *)
Authorized == {o \in Orders : HasAuthority(o)}

AuthorityStepOfLane ==
  \/ \E o \in Orders :
       \/ /\ approvals' = [approvals EXCEPT ![o] = @ + 1]
          /\ Authorized' \in {Authorized, Authorized \cup {o}}
          /\ UNCHANGED placed
       \/ /\ o \in Authorized
          /\ Authorized' = Authorized \ {o}
          /\ placed' = [placed EXCEPT ![o] = @ + 1]
          /\ UNCHANGED approvals
  \/ /\ Authorized' \subseteq Authorized
     /\ UNCHANGED <<approvals, placed>>

LEMMA LaneStep ==
  ASSUME NEW s \in Submitters, SubmitsApproved = {s}, MaxDeaths = 0,
         DeskInv, PlacersOnly, [TradingNext]_tradingVars
  PROVE  AuthorityStepOfLane
<1>1. /\ Submitters \subseteq Desks /\ Approvers \subseteq Desks
      /\ \A d \in Desks : desk[d].pc \notin {"idle", "record"} => desk[d].order \in Orders
      /\ TypeInv
  BY DEF DeskInv, OrderInHand, Desks
<1>2. PlacersOnly'
  BY PlacersOnlyStep
<1>3. /\ \A o \in Orders : o \in Authorized <=> Holds(s, o)
      /\ Authorized \subseteq Orders
  BY OneHolder DEF Authorized
<1>4. /\ \A o \in Orders : o \in Authorized' <=> Holds(s, o)'
      /\ Authorized' \subseteq Orders
  <2>1. \A o \in Orders : HasAuthority(o)' <=> Holds(s, o)'
    <3>1. ASSUME NEW o \in Orders
          PROVE  HasAuthority(o)' <=> Holds(s, o)'
      <4>1. /\ Placing(o)' \subseteq {s} /\ Marking(o)' \subseteq {s}
        BY <1>2 DEF PlacersOnly, Placing, Marking, AtBroker
      <4>2. /\ s \in Placing(o)' <=>
                 desk'[s].order = o /\ desk'[s].pc \in {"connect", "place"}
            /\ s \in Marking(o)' <=>
                 desk'[s].order = o /\ desk'[s].pc \in {"select", "mark"}
        BY DEF Placing, Marking
      <4>3. /\ Placing(o)' # {} <=> s \in Placing(o)'
            /\ Marking(o)' # {} <=> s \in Marking(o)'
        BY <4>1
      <4> QED
        BY <4>2, <4>3 DEF HasAuthority, Holds
    <3> QED
      BY <3>1
  <2> QED
    BY <2>1 DEF Authorized
<1> HIDE DEF Authorized
<1>5. ASSUME desk'[s] = desk[s] \/ (desk[s].pc \notin AtBroker /\ desk'[s].pc \notin AtBroker),
             \A o \in Orders : orders'[o].status = "approved_for_submit" =>
                                 orders[o].status = "approved_for_submit",
             UNCHANGED <<approvals, placed>>
      PROVE  AuthorityStepOfLane
  <2>1. Authorized' \subseteq Authorized
    BY <1>3, <1>4, <1>5 DEF Holds, AtBroker
  <2> QED
    BY <1>5, <2>1 DEF AuthorityStepOfLane
<1>6. CASE UNCHANGED deskVars /\ [Next]_vars
  <2>1. \A o \in Orders : orders'[o] = orders[o] \/ orders'[o].status = "dry_run"
    BY <1>1, <1>6, PipelineRows
  <2> QED
    BY <1>5, <1>6, <2>1 DEF deskVars
<1>7. ASSUME NEW a \in Approvers, ApproverStep(a)
      PROVE  AuthorityStepOfLane
  <2>1. a # s /\ a \in Desks /\ s \in Desks
    BY <1>1, DeskAssumption
  <2>2. desk'[s] = desk[s]
    BY <1>7, <2>1
    DEF ApproverStep, SelectForApproval, Approve, Reject, WriteApprovalEvent, Stage,
        DeskInv, DeskTypeOK
  <2>3. CASE Approve(a)
    <3> DEFINE o == desk[a].order
    <3>1. o \in Orders
      BY <1>1, <2>1, <2>3 DEF Approve
    <3>2. /\ orders'[o].status = "approved_for_submit"
          /\ \A x \in Orders \ {o} : orders'[x] = orders[x]
      BY <2>3, <3>1, UpdateRow DEF Approve
    <3>3. approvals' = [approvals EXCEPT ![o] = @ + 1] /\ placed' = placed
      BY <2>3 DEF Approve
    <3> HIDE DEF o
    <3>4. /\ \A x \in Orders \ {o} : x \in Authorized' <=> x \in Authorized
          /\ o \in Authorized => o \in Authorized'
      BY <1>3, <1>4, <2>2, <3>1, <3>2 DEF Holds
    <3>5. Authorized' \in {Authorized, Authorized \cup {o}}
      BY <1>3, <1>4, <3>4
    <3> QED
      BY <3>1, <3>3, <3>5 DEF AuthorityStepOfLane
  <2>4. CASE Reject(a)
    <3>1. desk[a].order \in Orders
      BY <1>1, <2>1, <2>4 DEF Reject
    <3>2. /\ orders'[desk[a].order].status = "rejected"
          /\ \A x \in Orders \ {desk[a].order} : orders'[x] = orders[x]
      BY <2>4, <3>1, UpdateRow DEF Reject
    <3> QED
      BY <1>5, <2>2, <2>4, <3>2 DEF Reject
  <2>5. CASE ~Approve(a) /\ ~Reject(a)
    <3>1. UNCHANGED <<orders, approvals, placed>>
      BY <1>7, <2>5 DEF ApproverStep, SelectForApproval, WriteApprovalEvent, ledgerVars
    <3> QED
      BY <1>5, <2>2, <3>1
  <2> QED
    BY <2>3, <2>4, <2>5
<1>8. ASSUME NEW t \in Submitters, SubmitterStep(t)
      PROVE  AuthorityStepOfLane
  <2>1. t \in Desks /\ s \in Desks
    BY <1>1
  <2>2. CASE ScanApproved(t) \/ LoadStrategyRecord(t) \/ RecordPreflight(t) \/
             WriteSubmissionEvent(t)
    BY <1>5, <2>1, <2>2, QuietDesk
  <2>3. CASE LoadTicket(t)
    <3>1. t = s
      BY <2>3 DEF LoadTicket
    <3>2. UNCHANGED <<orders, approvals, placed>>
      BY <2>3 DEF LoadTicket, ledgerVars
    <3>3. CASE PreflightPasses(s) /\ Stage(s, "connect")
      <4>1. /\ orders[desk[s].order].status = "approved_for_submit"
            /\ desk[s].pc \notin AtBroker
            /\ desk'[s].pc = "connect" /\ desk'[s].order = desk[s].order
        BY <2>1, <2>3, <3>1, <3>3, StageMoves DEF PreflightPasses, LoadTicket, AtBroker
      <4>2. Authorized' \subseteq Authorized
        BY <1>3, <1>4, <3>2, <4>1 DEF Holds, AtBroker
      <4> QED
        BY <3>2, <4>2 DEF AuthorityStepOfLane
    <3>4. CASE NextTicket(s)
      BY <1>5, <2>1, <2>3, <3>1, <3>2, <3>4, NextTicketType DEF LoadTicket, AtBroker
    <3> QED
      BY <2>3, <3>1, <3>3, <3>4 DEF LoadTicket
  <2>4. CASE Connect(t)
    <3>1. t = s /\ desk[s].pc = "connect" /\ UNCHANGED <<orders, approvals, placed>>
      BY <2>4 DEF Connect, PlacersOnly, AtBroker, ledgerVars
    <3>2. desk'[s].pc = "place" /\ desk'[s].order = desk[s].order
      BY <2>1, <2>4, <3>1, StageMoves DEF Connect
    <3>3. Authorized' \subseteq Authorized
      BY <1>3, <1>4, <3>1, <3>2 DEF Holds
    <3> QED
      BY <3>1, <3>3 DEF AuthorityStepOfLane
  <2>5. CASE BrokerError(t)
    <3>1. /\ t = s /\ desk[s].pc \in {"connect", "place"}
          /\ UNCHANGED <<orders, approvals, placed>>
      BY <2>5 DEF BrokerError, PlacersOnly, AtBroker, ledgerVars
    <3>2. desk'[s].pc \in {"idle", "record"}
      BY <2>1, <2>5, <3>1, NextTicketType DEF BrokerError
    <3>3. Authorized' \subseteq Authorized
      BY <1>3, <1>4, <3>1, <3>2 DEF Holds
    <3> QED
      BY <3>1, <3>3 DEF AuthorityStepOfLane
  <2>6. CASE PlaceOrder(t)
    <3> DEFINE o == desk[s].order
    <3>1. t = s /\ desk[s].pc = "place" /\ o \in Orders
      BY <1>1, <2>1, <2>6 DEF PlaceOrder, PlacersOnly, AtBroker
    <3>2. /\ placed' = [placed EXCEPT ![o] = @ + 1]
          /\ UNCHANGED <<orders, approvals>>
      BY <2>6, <3>1 DEF PlaceOrder, ledgerVars
    <3>3. desk'[s].pc = "select" /\ desk'[s].order = o
      BY <2>1, <2>6, <3>1, StageMoves DEF PlaceOrder
    <3>4. /\ o \in Authorized /\ o \notin Authorized'
          /\ \A x \in Orders \ {o} : x \in Authorized' <=> x \in Authorized
      BY <1>3, <1>4, <3>1, <3>2, <3>3 DEF Holds
    <3>5. Authorized' = Authorized \ {o}
      BY <1>3, <1>4, <3>4
    <3> QED
      BY <3>1, <3>2, <3>4, <3>5 DEF AuthorityStepOfLane
  <2>7. CASE SelectForSubmission(t)
    <3>1. /\ t = s /\ desk[s].pc = "select"
          /\ UNCHANGED <<orders, approvals, placed>>
      BY <2>7 DEF SelectForSubmission, PlacersOnly, AtBroker, ledgerVars
    <3>2. desk'[s].pc = "mark" /\ desk'[s].order = desk[s].order
      BY <2>1, <2>7, <3>1 DEF SelectForSubmission, DeskInv, DeskTypeOK, Desk
    <3>3. Authorized' \subseteq Authorized
      BY <1>3, <1>4, <3>1, <3>2 DEF Holds
    <3> QED
      BY <3>1, <3>3 DEF AuthorityStepOfLane
  <2>8. CASE MarkSubmitted(t)
    <3> DEFINE o == desk[s].order
    <3>1. /\ t = s /\ desk[s].pc = "mark" /\ o \in Orders
          /\ UNCHANGED <<approvals, placed>>
      BY <1>1, <2>1, <2>8 DEF MarkSubmitted, PlacersOnly, AtBroker
    <3>2. /\ orders'[o].status = "submitted_to_broker"
          /\ \A x \in Orders \ {o} : orders'[x] = orders[x]
      BY <2>8, <3>1, UpdateRow DEF MarkSubmitted
    <3>3. desk'[s].pc = "submitted" /\ desk'[s].order = o
      BY <2>1, <2>8, <3>1, StageMoves DEF MarkSubmitted
    <3>4. Authorized' \subseteq Authorized
      BY <1>3, <1>4, <3>1, <3>2, <3>3 DEF Holds
    <3> QED
      BY <3>1, <3>4 DEF AuthorityStepOfLane
  <2> QED
    BY <1>8, <2>2, <2>3, <2>4, <2>5, <2>6, <2>7, <2>8 DEF SubmitterStep
<1>9. ~ \E d \in Desks : Die(d)
  BY DEF Die, DeskInv, DeskTypeOK
<1>10. UNCHANGED tradingVars => UNCHANGED deskVars /\ [Next]_vars
  BY DEF tradingVars, vars
<1> QED
  BY <1>6, <1>7, <1>8, <1>9, <1>10 DEF TradingNext, DeskNext

(* The lane implements OrderAuthority: authority to place a ticket returns  *)
(* only with an approval, whatever the approver's stale reads, the reviews  *)
(* that reset tickets and the submitter's own late mark do to the row.      *)
THEOREM LaneImplementsAuthority ==
  ASSUME NEW s \in Submitters, SubmitsApproved = {s}, MaxDeaths = 0
  PROVE  TradingSpec => AuthorityKept
<1>1. TradingInit => PlacersOnly /\ Authority!AuthorityInit
  <2> SUFFICES ASSUME TradingInit PROVE PlacersOnly /\ Authority!AuthorityInit
    OBVIOUS
  <2>1. /\ \A t \in Submitters : desk[t].pc = "idle"
        /\ placed = [o \in Orders |-> 0] /\ approvals = [o \in Orders |-> 0]
    BY DEF TradingInit, DeskInit, AtRest, Desks
  <2>2. \A o \in Orders : ~HasAuthority(o)
    BY <2>1 DEF TradingInit, Init, LedgerInit, NoRow, HasAuthority, Placing, Marking
  <2> QED
    BY <2>1, <2>2 DEF PlacersOnly, AtBroker, Authority!AuthorityInit
<1>2. DeskInv /\ PlacersOnly /\ [TradingNext]_tradingVars =>
        PlacersOnly' /\ [Authority!AuthorityNext]_(Authority!authorityVars)
  BY PlacersOnlyStep, LaneStep
  DEF AuthorityStepOfLane, Authorized, Authority!AuthorityNext, Authority!Grant,
      Authority!Send, Authority!Withdraw
<1> QED
  BY <1>1, <1>2, DeskInitType, DeskStepType, PTL
  DEF TradingSpec, AuthorityKept, Authority!AuthoritySpec

(* Hence one approval buys at most one broker order: what was proved of     *)
(* OrderAuthority, read through the mapping.                                *)
THEOREM OneApprovalOneOrder ==
  ASSUME NEW s \in Submitters, SubmitsApproved = {s}, MaxDeaths = 0
  PROVE  TradingSpec => []OneOrderPerApproval
<1>1. AuthorityKept => []Authority!SentWithinGrants
  BY Authority!AuthorityNeverOverspent DEF AuthorityKept
<1>2. Authority!SentWithinGrants => OneOrderPerApproval
  BY DEF Authority!SentWithinGrants, OneOrderPerApproval
<1> QED
  BY <1>1, <1>2, LaneImplementsAuthority, PTL

-----------------------------------------------------------------------------
(* Any number of placing submitters, and any number of deaths *)

(* The submitters that may still place o without another approval. *)
Chances(o) == {s \in SubmitsApproved : Holds(s, o)}

(* What was placed, and what still may be, is paid for by approvals and     *)
(* deaths.  The bound on what was placed is not inductive by itself: while  *)
(* the row stays approved it does not see the submitters on their way.      *)
Spending ==
  \A o \in Orders :
    placed[o] + Cardinality(Chances(o)) <=
      Cardinality(SubmitsApproved) * approvals[o] + deaths

(* What a step does to the chances of one ticket. *)
ChanceStep(o) ==
  \/ /\ Chances(o)' \subseteq Chances(o)
     /\ placed'[o] = placed[o] /\ approvals'[o] = approvals[o] /\ deaths' = deaths
  \/ approvals'[o] = approvals[o] + 1 /\ placed'[o] = placed[o] /\ deaths' = deaths
  \/ /\ \E s \in Chances(o) : Chances(o)' \subseteq Chances(o) \ {s}
     /\ placed'[o] = placed[o] + 1 /\ approvals'[o] = approvals[o] /\ deaths' = deaths
  \/ /\ \E d : Chances(o)' \subseteq Chances(o) \cup {d}
     /\ placed'[o] = placed[o] /\ approvals'[o] = approvals[o] /\ deaths' = deaths + 1

(* Where submitters away from the broker stay away from it, those at it     *)
(* stand still and no row becomes approved, no chance arises.               *)
LEMMA NoNewChance ==
  ASSUME NEW o \in Orders,
         \A s \in SubmitsApproved :
           desk'[s] = desk[s] \/ (desk[s].pc \notin AtBroker /\ desk'[s].pc \notin AtBroker),
         orders'[o].status = "approved_for_submit" =>
           orders[o].status = "approved_for_submit"
  PROVE  Chances(o)' \subseteq Chances(o)
BY DEF Chances, Holds, AtBroker

LEMMA ChancesMove ==
  ASSUME DeskInv, PlacersOnly, [TradingNext]_tradingVars, NEW o \in Orders
  PROVE  ChanceStep(o)
<1>1. /\ SubmitsApproved \subseteq Submitters
      /\ Submitters \subseteq Desks /\ Approvers \subseteq Desks
      /\ \A d \in Desks : desk[d].pc \notin {"idle", "record"} => desk[d].order \in Orders
      /\ TypeInv
      /\ placed \in [Orders -> Nat] /\ approvals \in [Orders -> Nat]
  BY DeskAssumption DEF DeskInv, DeskTypeOK, OrderInHand, Desks
<1>2. ASSUME Chances(o)' \subseteq Chances(o), UNCHANGED <<placed, approvals, deaths>>
      PROVE  ChanceStep(o)
  BY <1>2 DEF ChanceStep
<1>3. CASE UNCHANGED deskVars /\ [Next]_vars
  <2>1. orders'[o] = orders[o] \/ orders'[o].status = "dry_run"
    BY <1>1, <1>3, PipelineRows
  <2>2. Chances(o)' \subseteq Chances(o)
    BY <1>3, <2>1, NoNewChance DEF deskVars
  <2> QED
    BY <1>2, <1>3, <2>2 DEF deskVars
<1>4. ASSUME NEW a \in Approvers, ApproverStep(a)
      PROVE  ChanceStep(o)
  <2>1. \A s \in SubmitsApproved : desk'[s] = desk[s]
    BY <1>1, <1>4, DeskAssumption
    DEF ApproverStep, SelectForApproval, Approve, Reject, WriteApprovalEvent, Stage,
        DeskInv, DeskTypeOK
  <2>2. CASE Approve(a)
    <3> DEFINE x == desk[a].order
    <3>1. x \in Orders
      BY <1>1, <2>2 DEF Approve
    <3>2. /\ approvals' = [approvals EXCEPT ![x] = @ + 1]
          /\ placed' = placed /\ deaths' = deaths
      BY <2>2 DEF Approve
    <3>3. \A y \in Orders \ {x} : orders'[y] = orders[y]
      BY <2>2, <3>1, UpdateRow DEF Approve
    <3> HIDE DEF x
    <3>4. CASE x = o
      BY <1>1, <3>2, <3>4 DEF ChanceStep
    <3>5. CASE x # o
      <4>1. Chances(o)' \subseteq Chances(o)
        BY <2>1, <3>3, <3>5, NoNewChance
      <4> QED
        BY <1>1, <3>1, <3>2, <3>5, <4>1 DEF ChanceStep
    <3> QED
      BY <3>4, <3>5
  <2>3. CASE Reject(a)
    <3>1. desk[a].order \in Orders
      BY <1>1, <2>3 DEF Reject
    <3>2. orders'[o] = orders[o] \/ orders'[o].status = "rejected"
      BY <2>3, <3>1, UpdateRow DEF Reject
    <3>3. Chances(o)' \subseteq Chances(o)
      BY <2>1, <3>2, NoNewChance
    <3> QED
      BY <1>2, <2>3, <3>3 DEF Reject
  <2>4. CASE ~Approve(a) /\ ~Reject(a)
    <3>1. UNCHANGED <<orders, placed, approvals, deaths>>
      BY <1>4, <2>4 DEF ApproverStep, SelectForApproval, WriteApprovalEvent, ledgerVars
    <3>2. Chances(o)' \subseteq Chances(o)
      BY <2>1, <3>1, NoNewChance
    <3> QED
      BY <1>2, <3>1, <3>2
  <2> QED
    BY <2>2, <2>3, <2>4
<1>5. ASSUME NEW s \in Submitters, SubmitterStep(s)
      PROVE  ChanceStep(o)
  <2>1. s \in Desks /\ \A t \in SubmitsApproved : t \in Desks
    BY <1>1
  <2>2. CASE ScanApproved(s) \/ LoadStrategyRecord(s) \/ RecordPreflight(s) \/
             WriteSubmissionEvent(s)
    <3>1. Chances(o)' \subseteq Chances(o)
      BY <2>1, <2>2, QuietDesk, NoNewChance
    <3> QED
      BY <1>2, <2>2, <3>1, QuietDesk
      DEF ScanApproved, LoadStrategyRecord, RecordPreflight, WriteSubmissionEvent
  <2>3. CASE LoadTicket(s)
    <3>1. UNCHANGED <<orders, placed, approvals, deaths>>
      BY <2>3 DEF LoadTicket, ledgerVars
    <3>2. CASE PreflightPasses(s) /\ Stage(s, "connect")
      <4>1. /\ orders[desk[s].order].status = "approved_for_submit"
            /\ desk[s].pc \notin AtBroker
            /\ desk'[s].pc = "connect" /\ desk'[s].order = desk[s].order
            /\ \A e \in Desks \ {s} : desk'[e] = desk[e]
        BY <2>1, <2>3, <3>2, StageMoves DEF PreflightPasses, LoadTicket, AtBroker
      <4>2. Chances(o)' \subseteq Chances(o)
        BY <2>1, <3>1, <4>1 DEF Chances, Holds, AtBroker
      <4> QED
        BY <1>2, <3>1, <4>2
    <3>3. CASE NextTicket(s)
      <4>1. desk[s].pc \notin AtBroker /\ desk'[s].pc \notin AtBroker
        BY <2>1, <2>3, <3>3, NextTicketType DEF LoadTicket, AtBroker
      <4>2. \A e \in Desks \ {s} : desk'[e] = desk[e]
        BY <2>1, <3>3, NextTicketType
      <4>3. Chances(o)' \subseteq Chances(o)
        BY <2>1, <3>1, <4>1, <4>2, NoNewChance
      <4> QED
        BY <1>2, <3>1, <4>3
    <3> QED
      BY <2>3, <3>2, <3>3 DEF LoadTicket
  <2>4. CASE Connect(s)
    <3>1. desk[s].pc = "connect" /\ UNCHANGED <<orders, placed, approvals, deaths>>
      BY <2>4 DEF Connect, ledgerVars
    <3>2. /\ desk'[s].pc = "place" /\ desk'[s].order = desk[s].order
          /\ \A e \in Desks \ {s} : desk'[e] = desk[e]
      BY <2>1, <2>4, <3>1, StageMoves DEF Connect
    <3>3. Chances(o)' \subseteq Chances(o)
      BY <2>1, <3>1, <3>2 DEF Chances, Holds
    <3> QED
      BY <1>2, <3>1, <3>3
  <2>5. CASE BrokerError(s)
    <3>1. /\ desk[s].pc \in {"connect", "place"}
          /\ UNCHANGED <<orders, placed, approvals, deaths>>
      BY <2>5 DEF BrokerError, ledgerVars
    <3>2. /\ desk'[s].pc \in {"idle", "record"}
          /\ \A e \in Desks \ {s} : desk'[e] = desk[e]
      BY <2>1, <2>5, NextTicketType DEF BrokerError
    <3>3. Chances(o)' \subseteq Chances(o)
      BY <2>1, <3>1, <3>2 DEF Chances, Holds
    <3> QED
      BY <1>2, <3>1, <3>3
  <2>6. CASE PlaceOrder(s)
    <3> DEFINE x == desk[s].order
    <3>1. s \in SubmitsApproved /\ desk[s].pc = "place" /\ x \in Orders
      BY <1>1, <2>1, <2>6 DEF PlaceOrder, PlacersOnly, AtBroker
    <3>2. /\ placed' = [placed EXCEPT ![x] = @ + 1]
          /\ UNCHANGED <<orders, approvals, deaths>>
      BY <2>6 DEF PlaceOrder, ledgerVars
    <3>3. /\ desk'[s].pc = "select" /\ desk'[s].order = x
          /\ \A e \in Desks \ {s} : desk'[e] = desk[e]
      BY <2>1, <2>6, <3>1, StageMoves DEF PlaceOrder
    <3>4. /\ x = o => s \in Chances(o) /\ Chances(o)' \subseteq Chances(o) \ {s}
          /\ x # o => Chances(o)' \subseteq Chances(o)
      BY <2>1, <3>1, <3>2, <3>3 DEF Chances, Holds
    <3> HIDE DEF x
    <3> QED
      BY <1>1, <3>1, <3>2, <3>4 DEF ChanceStep
  <2>7. CASE SelectForSubmission(s)
    <3>1. desk[s].pc = "select" /\ UNCHANGED <<orders, placed, approvals, deaths>>
      BY <2>7 DEF SelectForSubmission, ledgerVars
    <3>2. /\ desk'[s].pc = "mark" /\ desk'[s].order = desk[s].order
          /\ \A e \in Desks \ {s} : desk'[e] = desk[e]
      BY <2>1, <2>7 DEF SelectForSubmission, DeskInv, DeskTypeOK, Desk
    <3>3. Chances(o)' \subseteq Chances(o)
      BY <2>1, <3>1, <3>2 DEF Chances, Holds
    <3> QED
      BY <1>2, <3>1, <3>3
  <2>8. CASE MarkSubmitted(s)
    <3> DEFINE x == desk[s].order
    <3>1. desk[s].pc = "mark" /\ x \in Orders /\ UNCHANGED <<placed, approvals, deaths>>
      BY <1>1, <2>1, <2>8 DEF MarkSubmitted
    <3>2. /\ orders'[x].status = "submitted_to_broker"
          /\ \A y \in Orders \ {x} : orders'[y] = orders[y]
      BY <2>8, <3>1, UpdateRow DEF MarkSubmitted
    <3>3. /\ desk'[s].pc = "submitted" /\ desk'[s].order = x
          /\ \A e \in Desks \ {s} : desk'[e] = desk[e]
      BY <2>1, <2>8, <3>1, StageMoves DEF MarkSubmitted
    <3>4. Chances(o)' \subseteq Chances(o)
      BY <2>1, <3>1, <3>2, <3>3 DEF Chances, Holds
    <3> QED
      BY <1>2, <3>1, <3>4
  <2> QED
    BY <1>5, <2>2, <2>3, <2>4, <2>5, <2>6, <2>7, <2>8 DEF SubmitterStep
<1>6. ASSUME NEW d \in Desks, Die(d)
      PROVE  ChanceStep(o)
  <2>1. deaths' = deaths + 1 /\ UNCHANGED <<orders, placed, approvals>>
    BY <1>6 DEF Die, ledgerVars
  <2>2. \A e \in Desks \ {d} : desk'[e] = desk[e]
    BY <1>6 DEF Die, DeskInv, DeskTypeOK
  <2>3. Chances(o)' \subseteq Chances(o) \cup {d}
    BY <1>1, <2>1, <2>2 DEF Chances, Holds
  <2> QED
    BY <2>1, <2>3 DEF ChanceStep
<1>7. UNCHANGED tradingVars => UNCHANGED deskVars /\ [Next]_vars
  BY DEF tradingVars, vars
<1> QED
  BY <1>3, <1>4, <1>5, <1>6, <1>7 DEF TradingNext, DeskNext

(* Sizes of the sets of chances.                                            *)
LEMMA ChanceSizes ==
  ASSUME NEW S, IsFiniteSet(S)
  PROVE  /\ Cardinality(S) \in Nat
         /\ \A T \in SUBSET S : Cardinality(T) \in Nat /\ Cardinality(T) <= Cardinality(S)
         /\ \A x \in S : Cardinality(S \ {x}) = Cardinality(S) - 1
         /\ \A x : Cardinality(S \cup {x}) <= Cardinality(S) + 1
<1>1. Cardinality(S) \in Nat
  BY FS_CardinalityType
<1>2. \A T \in SUBSET S : Cardinality(T) \in Nat /\ Cardinality(T) <= Cardinality(S)
  BY FS_Subset, FS_CardinalityType
<1>3. \A x \in S : Cardinality(S \ {x}) = Cardinality(S) - 1
  BY FS_RemoveElement
<1>4. ASSUME NEW x
      PROVE  Cardinality(S \cup {x}) <= Cardinality(S) + 1
  <2>1. CASE x \in S
    <3>1. S \cup {x} = S
      BY <2>1
    <3> QED
      BY <1>1, <3>1
  <2>2. CASE x \notin S
    <3>1. Cardinality(S \cup {x}) = Cardinality(S) + 1
      BY <2>2, FS_AddElement
    <3> QED
      BY <1>1, <3>1
  <2> QED
    BY <2>1, <2>2
<1> QED
  BY <1>1, <1>2, <1>3, <1>4

LEMMA SpendingStep ==
  ASSUME DeskInv, DeskInv', PlacersOnly, Spending, [TradingNext]_tradingVars
  PROVE  Spending'
<1> SUFFICES ASSUME NEW o \in Orders
             PROVE  placed'[o] + Cardinality(Chances(o)') <=
                      Cardinality(SubmitsApproved) * approvals'[o] + deaths'
  BY DEF Spending
<1> DEFINE n == Cardinality(SubmitsApproved)
           before == Cardinality(Chances(o))
           after == Cardinality(Chances(o)')
<1>1. /\ Chances(o) \subseteq SubmitsApproved
      /\ Chances(o)' \subseteq SubmitsApproved
  BY DEF Chances
<1>2. IsFiniteSet(SubmitsApproved) /\ IsFiniteSet(Chances(o))
  BY <1>1, DeskAssumption, FS_Subset
<1>3. n \in Nat /\ before \in Nat /\ after \in Nat /\ after <= n
  BY <1>1, <1>2, ChanceSizes
<1>4. /\ placed[o] \in Nat /\ approvals[o] \in Nat /\ deaths \in Nat
      /\ placed[o] + before <= n * approvals[o] + deaths
  BY DEF Spending, DeskInv, DeskTypeOK
<1>5. n * (approvals[o] + 1) = n * approvals[o] + n /\ n * approvals[o] \in Nat
  BY <1>3, <1>4
<1>6. ChanceStep(o)
  BY ChancesMove
<1>7. /\ Chances(o)' \subseteq Chances(o) => after <= before
      /\ \A s \in Chances(o) : Chances(o)' \subseteq Chances(o) \ {s} => after <= before - 1
      /\ \A d : Chances(o)' \subseteq Chances(o) \cup {d} => after <= before + 1
  <2> DEFINE S == Chances(o)
             T == Chances(o)'
  <2>1. T \subseteq S => after <= before
    BY <1>2, ChanceSizes
  <2>2. ASSUME NEW s \in S, T \subseteq S \ {s}
        PROVE  after <= before - 1
    <3>1. Cardinality(S \ {s}) = before - 1 /\ IsFiniteSet(S \ {s})
      BY <1>2, ChanceSizes, FS_RemoveElement
    <3> HIDE DEF S, T
    <3>2. Cardinality(T) <= Cardinality(S \ {s})
      BY <2>2, <3>1, ChanceSizes
    <3> QED
      BY <3>1, <3>2 DEF S, T
  <2>3. ASSUME NEW d, T \subseteq S \cup {d}
        PROVE  after <= before + 1
    <3>1. Cardinality(S \cup {d}) <= before + 1 /\ IsFiniteSet(S \cup {d})
      BY <1>2, ChanceSizes, FS_AddElement
    <3>2. Cardinality(S \cup {d}) \in Nat
      BY <3>1, FS_CardinalityType
    <3> HIDE DEF S, T
    <3>3. Cardinality(T) <= Cardinality(S \cup {d})
      BY <2>3, <3>1, ChanceSizes
    <3> QED
      BY <1>3, <3>1, <3>2, <3>3 DEF S, T
  <2> QED
    BY <2>1, <2>2, <2>3
<1> HIDE DEF n, before, after
<1>8. placed'[o] + after <= n * approvals'[o] + deaths'
  BY <1>3, <1>4, <1>5, <1>6, <1>7 DEF ChanceStep
<1> QED
  BY <1>8 DEF n, after

(* However many submission runners place orders at once, and whichever of   *)
(* them die between the broker and the mark, an approval costs at most one  *)
(* broker order for each of them, and a death at most one.                  *)
THEOREM PlacedIsPaidFor == TradingSpec => []PlacedWithinApprovals
<1>1. TradingInit => PlacersOnly /\ Spending
  <2> SUFFICES ASSUME TradingInit PROVE PlacersOnly /\ Spending
    OBVIOUS
  <2>1. /\ \A t \in Submitters : desk[t].pc = "idle"
        /\ placed = [o \in Orders |-> 0] /\ approvals = [o \in Orders |-> 0]
        /\ deaths = 0
    BY DEF TradingInit, DeskInit, AtRest, Desks
  <2>2. \A o \in Orders : Chances(o) = {}
    BY <2>1, DeskAssumption
    DEF TradingInit, Init, LedgerInit, NoRow, Chances, Holds
  <2>3. Cardinality(SubmitsApproved) \in Nat /\ Cardinality({}) = 0
    BY DeskAssumption, FS_CardinalityType, FS_EmptySet
  <2>4. Spending
    <3> SUFFICES ASSUME NEW o \in Orders
                 PROVE  placed[o] + Cardinality(Chances(o)) <=
                          Cardinality(SubmitsApproved) * approvals[o] + deaths
      BY DEF Spending
    <3>1. Cardinality(Chances(o)) = 0
      BY <2>2, <2>3
    <3>2. placed[o] = 0 /\ approvals[o] = 0
      BY <2>1
    <3> QED
      BY <2>1, <2>3, <3>1, <3>2
  <2> QED
    BY <2>1, <2>4 DEF PlacersOnly, AtBroker
<1>2. DeskInv /\ DeskInv' /\ PlacersOnly /\ Spending /\ [TradingNext]_tradingVars =>
        PlacersOnly' /\ Spending'
  BY PlacersOnlyStep, SpendingStep
<1>3. DeskInv /\ Spending => PlacedWithinApprovals
  <2> SUFFICES ASSUME DeskInv, Spending, NEW o \in Orders
               PROVE  placed[o] <= Cardinality(SubmitsApproved) * approvals[o] + deaths
    BY DEF PlacedWithinApprovals
  <2>1. Cardinality(Chances(o)) \in Nat /\ Cardinality(SubmitsApproved) \in Nat
    BY DeskAssumption, ChanceSizes DEF Chances
  <2> HIDE DEF Chances
  <2> DEFINE paid == Cardinality(SubmitsApproved) * approvals[o]
  <2>2. placed[o] \in Nat /\ deaths \in Nat /\ paid \in Nat
    BY <2>1 DEF DeskInv, DeskTypeOK
  <2>3. placed[o] + Cardinality(Chances(o)) <= paid + deaths
    BY DEF Spending
  <2> HIDE DEF paid
  <2>4. placed[o] <= paid + deaths
    BY <2>1, <2>2, <2>3
  <2> QED
    BY <2>4 DEF paid
<1> QED
  BY <1>1, <1>2, <1>3, DeskInitType, DeskStepType, PTL DEF TradingSpec

-----------------------------------------------------------------------------
(* The lane implements the pipeline *)

(* The refinement mapping depends on the rows and the events alone.         *)
LEMMA MappingStays ==
  /\ UNCHANGED orders => UNCHANGED TicketsAsWritten
  /\ UNCHANGED events => UNCHANGED EventsAsWritten
BY DEF TicketsAsWritten, HasTicket, EventsAsWritten

(* A ticket is seen where one is.                                           *)
LEMMA MappedTickets ==
  /\ \A o \in Orders : Pipeline!HasTicket(o) <=> HasTicket(o)
  /\ Pipeline!Ticketed = Ticketed
<1>1. \A o \in Orders : Pipeline!HasTicket(o) <=> HasTicket(o)
  BY DEF Pipeline!HasTicket, TicketsAsWritten, DryRunTicket, NoRow
<1>2. Pipeline!Ticketed = Ticketed
  BY <1>1 DEF Pipeline!Ticketed, Pipeline!TicketsOf, Ticketed, TicketsOf
<1> QED
  BY <1>1, <1>2

(* A command loads the same artifacts and reads the same reviews.           *)
LEMMA MappedReads ==
  /\ Pipeline!LoadedProposals = LoadedProposals
  /\ Pipeline!ReviewedProposalIds = ReviewedProposalIds
<1>1. Pipeline!LoadedProposals = LoadedProposals
  BY DEF LoadedProposals, Pipeline!LoadedProposals
<1>2. \A S : Pipeline!Cardinality(S) = Cardinality(S)
  BY DEF Cardinality, Pipeline!Cardinality
<1>3. Pipeline!ReviewedProposalIds = ReviewedProposalIds
  BY <1>2
  DEF ReviewedProposalIds, LatestPaperExecutionReviews, Newest, Seconds,
      Pipeline!ReviewedProposalIds, Pipeline!LatestPaperExecutionReviews,
      Pipeline!Newest, Pipeline!Seconds
<1> QED
  BY <1>1, <1>3

LEMMA MappedInit == TradingInit => Pipeline!Init
<1> SUFFICES ASSUME TradingInit PROVE Pipeline!Init
  OBVIOUS
<1>1. TicketsAsWritten = [o \in Orders |-> NoRow] /\ EventsAsWritten = {}
  BY DEF TradingInit, Init, LedgerInit, TicketsAsWritten, HasTicket, NoRow,
         EventsAsWritten
<1> QED
  BY <1>1
  DEF TradingInit, Init, LedgerInit, PipelineInit, Ended, NoRow, NoMetadata,
      Pipeline!Init, Pipeline!LedgerInit, Pipeline!PipelineInit, Pipeline!Ended,
      Pipeline!NoRow, Pipeline!NoMetadata, Seconds, Pipeline!Seconds, Commands,
      Pipeline!Commands, RegistryStates, Pipeline!RegistryStates

(* The pipeline's steps that write neither tickets nor events.              *)
LEMMA MappedQuiet ==
  ASSUME UNCHANGED <<orders, events>>,
         NEW c \in Commands
  PROVE  /\ Begin(c) => Pipeline!Begin(c)
         /\ ReadDailyUsed(c) => Pipeline!ReadDailyUsed(c)
         /\ SkipOrTake(c) => Pipeline!SkipOrTake(c)
         /\ WriteReview(c) => Pipeline!WriteReview(c)
         /\ TicketGate(c) => Pipeline!TicketGate(c)
         /\ Kill(c) => Pipeline!Kill(c)
<1>1. UNCHANGED <<TicketsAsWritten, EventsAsWritten>>
  BY MappingStays
<1> HIDE DEF TicketsAsWritten, EventsAsWritten
<1>2. Begin(c) => Pipeline!Begin(c)
  <2>1. Pipeline!ReviewedProposalIds = ReviewedProposalIds
    BY MappedReads
  <2>2. Pipeline!LoadedProposals = LoadedProposals
    BY MappedReads
  <2> HIDE DEF LoadedProposals, ReviewedProposalIds
  <2> QED
    BY <1>1, <2>1, <2>2
    DEF Begin, ArtifactsParse, Ended, ledgerVars, Seconds,
        Pipeline!Begin, Pipeline!ArtifactsParse, Pipeline!Ended,
        Pipeline!ledgerVars, Pipeline!Seconds
<1>3. ReadDailyUsed(c) => Pipeline!ReadDailyUsed(c)
  BY <1>1, MappedTickets
  DEF ReadDailyUsed, PaperOrderNotionalToday, ledgerVars, Pipeline!ReadDailyUsed,
      Pipeline!PaperOrderNotionalToday, Pipeline!ledgerVars
<1>4. SkipOrTake(c) => Pipeline!SkipOrTake(c)
  BY <1>1
  DEF SkipOrTake, Current, PaperStrategyGate, StrategyRunning, MoveTo, Advance, Ended,
      ledgerVars, Pipeline!SkipOrTake, Pipeline!Current, Pipeline!PaperStrategyGate,
      Pipeline!StrategyRunning, Pipeline!MoveTo, Pipeline!Advance, Pipeline!Ended,
      Pipeline!ledgerVars
<1>5. WriteReview(c) => Pipeline!WriteReview(c)
  BY <1>1
  DEF WriteReview, Current, ReviewPasses, TicketsOf, WritePaperExecutionReview,
      Pipeline!WriteReview, Pipeline!Current, Pipeline!ReviewPasses,
      Pipeline!TicketsOf, Pipeline!WritePaperExecutionReview
<1>6. TicketGate(c) => Pipeline!TicketGate(c)
  BY <1>1
  DEF TicketGate, Current, PaperStrategyGate, StrategyRunning, MoveTo, Advance, Ended,
      ledgerVars, Pipeline!TicketGate, Pipeline!Current, Pipeline!PaperStrategyGate,
      Pipeline!StrategyRunning, Pipeline!MoveTo, Pipeline!Advance, Pipeline!Ended,
      Pipeline!ledgerVars
<1>7. Kill(c) => Pipeline!Kill(c)
  BY <1>1 DEF Kill, Ended, ledgerVars, Pipeline!Kill, Pipeline!Ended, Pipeline!ledgerVars
<1> QED
  BY <1>2, <1>3, <1>4, <1>5, <1>6, <1>7

(* The tickets of a proposal, written anew, are seen as they are written.   *)
LEMMA MappedTicketing ==
  ASSUME DeskInv, NEW p, NEW t, WritePaperOrderTickets(p, t)
  PROVE  Pipeline!WritePaperOrderTickets(p, t)
<1>1. ASSUME NEW o \in Orders, ProposalOf[o] = p
      PROVE  TicketsAsWritten'[o] = DryRunTicket(t)
  <2>1. orders'[o] = DryRunTicket(t)
    BY <1>1 DEF WritePaperOrderTickets
  <2> QED
    BY <2>1 DEF TicketsAsWritten, HasTicket, DryRunTicket
<1>2. ASSUME NEW o \in Orders, ProposalOf[o] # p
      PROVE  TicketsAsWritten'[o] = TicketsAsWritten[o]
  <2>1. orders'[o] = orders[o]
    BY <1>2 DEF WritePaperOrderTickets
  <2> QED
    BY <2>1 DEF TicketsAsWritten, HasTicket
<1>3. TicketsAsWritten' =
        [o \in Orders |-> IF ProposalOf[o] = p THEN DryRunTicket(t) ELSE TicketsAsWritten[o]]
  <2> DEFINE g == [o \in Orders |->
                     IF ProposalOf[o] = p THEN DryRunTicket(t) ELSE TicketsAsWritten[o]]
  <2>1. \A o \in Orders : TicketsAsWritten'[o] = g[o]
    BY <1>1, <1>2
  <2>2. DOMAIN TicketsAsWritten' = Orders /\ DOMAIN g = Orders
    BY DEF TicketsAsWritten
  <2>3. TicketsAsWritten' = [o \in Orders |-> TicketsAsWritten'[o]]
    BY DEF TicketsAsWritten
  <2> HIDE DEF TicketsAsWritten
  <2> QED
    BY <2>1, <2>3
<1> QED
  BY <1>3
  DEF Pipeline!WritePaperOrderTickets, Pipeline!DryRunTicket, DryRunTicket

LEMMA MappedEvents ==
  ASSUME NEW es, \A e \in es : e[1] \in PipelineKinds, WriteAccountTradeEvents(es)
  PROVE  Pipeline!WriteAccountTradeEvents(es)
BY DEF WriteAccountTradeEvents, Pipeline!WriteAccountTradeEvents, EventsAsWritten

(* The pipeline's steps that write tickets or events.                       *)
LEMMA MappedWrites ==
  ASSUME DeskInv, NEW c \in Commands
  PROVE  /\ WriteReviewEvents(c) => Pipeline!WriteReviewEvents(c)
         /\ WriteTickets(c) => Pipeline!WriteTickets(c)
         /\ WriteTicketEvents(c) => Pipeline!WriteTicketEvents(c)
<1>1. WriteReviewEvents(c) => Pipeline!WriteReviewEvents(c)
  <2> SUFFICES ASSUME WriteReviewEvents(c) PROVE Pipeline!WriteReviewEvents(c)
    OBVIOUS
  <2> DEFINE es == ReviewEvents(Current(c))
  <2>1. Pipeline!WriteAccountTradeEvents(es)
    <3>1. \A e \in es : e[1] \in PipelineKinds
      BY DEF PipelineKinds, ReviewEvents
    <3>2. WriteAccountTradeEvents(es)
      BY DEF WriteReviewEvents
    <3> HIDE DEF es
    <3> QED
      BY <3>1, <3>2, MappedEvents
  <2>2. UNCHANGED TicketsAsWritten
    BY MappingStays DEF WriteReviewEvents
  <2> HIDE DEF TicketsAsWritten, EventsAsWritten
  <2> QED
    BY <2>1, <2>2
    DEF WriteReviewEvents, ReviewEvents, TicketsOf, Current, MoveTo, Advance, Ended,
        Pipeline!WriteReviewEvents, Pipeline!ReviewEvents, Pipeline!TicketsOf,
        Pipeline!Current, Pipeline!MoveTo, Pipeline!Advance, Pipeline!Ended
<1>2. WriteTickets(c) => Pipeline!WriteTickets(c)
  <2> SUFFICES ASSUME WriteTickets(c) PROVE Pipeline!WriteTickets(c)
    OBVIOUS
  <2>1. Pipeline!WritePaperOrderTickets(Current(c), command[c].at)
    BY MappedTicketing DEF WriteTickets
  <2>2. UNCHANGED EventsAsWritten
    BY MappingStays DEF WriteTickets
  <2> HIDE DEF TicketsAsWritten, EventsAsWritten
  <2> QED
    BY <2>1, <2>2
    DEF WriteTickets, Current, MoveTo, Pipeline!WriteTickets, Pipeline!Current,
        Pipeline!MoveTo
<1>3. WriteTicketEvents(c) => Pipeline!WriteTicketEvents(c)
  <2> SUFFICES ASSUME WriteTicketEvents(c) PROVE Pipeline!WriteTicketEvents(c)
    OBVIOUS
  <2> DEFINE es == {<<"paper_order_ticket", o>> : o \in TicketsOf(Current(c))}
  <2>1. Pipeline!WriteAccountTradeEvents(es)
    <3>1. \A e \in es : e[1] \in PipelineKinds
      BY DEF PipelineKinds
    <3>2. WriteAccountTradeEvents(es)
      BY DEF WriteTicketEvents
    <3> HIDE DEF es
    <3> QED
      BY <3>1, <3>2, MappedEvents
  <2>2. UNCHANGED TicketsAsWritten
    BY MappingStays DEF WriteTicketEvents
  <2> HIDE DEF TicketsAsWritten, EventsAsWritten
  <2> QED
    BY <2>1, <2>2
    DEF WriteTicketEvents, Current, TicketsOf, Advance, Ended,
        Pipeline!WriteTicketEvents, Pipeline!Current, Pipeline!TicketsOf,
        Pipeline!Advance, Pipeline!Ended
<1> QED
  BY <1>1, <1>2, <1>3

LEMMA MappedStep ==
  ASSUME DeskInv, [Next]_vars
  PROVE  [Pipeline!Next]_(Pipeline!vars)
<1>1. ASSUME NEW c \in Commands, Step(c) \/ Kill(c)
      PROVE  Pipeline!Step(c) \/ Pipeline!Kill(c)
  <2>1. CASE \/ Begin(c) \/ ReadDailyUsed(c) \/ SkipOrTake(c) \/ WriteReview(c)
             \/ TicketGate(c) \/ Kill(c)
    <3>1. UNCHANGED <<orders, events>>
      BY <2>1 DEF Begin, ReadDailyUsed, SkipOrTake, WriteReview, TicketGate, Kill,
                  ledgerVars
    <3> QED
      BY <2>1, <3>1, MappedQuiet DEF Pipeline!Step
  <2>2. CASE WriteReviewEvents(c) \/ WriteTickets(c) \/ WriteTicketEvents(c)
    BY <2>2, MappedWrites DEF Pipeline!Step
  <2> QED
    BY <1>1, <2>1, <2>2 DEF Step
<1>2. ASSUME NEW p \in Proposals, WriteTradeProposalArtifact(p)
      PROVE  Pipeline!WriteTradeProposalArtifact(p)
  <2>1. UNCHANGED <<TicketsAsWritten, EventsAsWritten>>
    BY <1>2, MappingStays DEF WriteTradeProposalArtifact, ledgerVars
  <2> HIDE DEF TicketsAsWritten, EventsAsWritten
  <2> QED
    BY <1>2, <2>1
    DEF WriteTradeProposalArtifact, ledgerVars, Pipeline!WriteTradeProposalArtifact,
        Pipeline!ledgerVars
<1>3. ASSUME Environment
      PROVE  Pipeline!Environment
  <2>1. UNCHANGED <<TicketsAsWritten, EventsAsWritten>>
    BY <1>3, MappingStays DEF Environment, UpsertPaperStrategy, Tick
  <2> HIDE DEF TicketsAsWritten, EventsAsWritten
  <2> QED
    BY <1>3, <2>1
    DEF Environment, UpsertPaperStrategy, Tick, pipelineVars,
        Pipeline!Environment, Pipeline!UpsertPaperStrategy, Pipeline!Tick,
        Pipeline!pipelineVars
<1>4. ASSUME UNCHANGED vars
      PROVE  UNCHANGED Pipeline!vars
  <2>1. UNCHANGED <<TicketsAsWritten, EventsAsWritten>>
    BY <1>4, MappingStays DEF vars, ledgerVars
  <2> HIDE DEF TicketsAsWritten, EventsAsWritten
  <2> QED
    BY <1>4, <2>1 DEF vars, ledgerVars, pipelineVars, Pipeline!vars,
                      Pipeline!ledgerVars, Pipeline!pipelineVars
<1>5. Pipeline!Commands = Commands
  BY DEF Commands, Pipeline!Commands
<1> QED
  BY <1>1, <1>2, <1>3, <1>4, <1>5
  DEF Next, PipelineNext, Pipeline!Next, Pipeline!PipelineNext

(* A step the pipeline cannot tell from none is none through the mapping.   *)
LEMMA MappedStutter ==
  ASSUME Unseen
  PROVE  UNCHANGED Pipeline!vars
<1>1. TicketsAsWritten' = TicketsAsWritten
  BY DEF Unseen, SameTickets, TicketsAsWritten
<1>2. EventsAsWritten' = EventsAsWritten
  BY DEF Unseen
<1> HIDE DEF TicketsAsWritten, EventsAsWritten
<1> QED
  BY <1>1, <1>2 DEF Unseen, pipelineVars, Pipeline!vars, Pipeline!ledgerVars,
                    Pipeline!pipelineVars

(* The desk's UPDATEs of the rows both use never change what a runner or a  *)
(* reviewer reads: through the mapping, every behaviour of the lane is one  *)
(* of the pipeline alone.                                                   *)
THEOREM LaneImplementsPipeline == TradingSpec => PipelineUndisturbed
<1>1. LaneInv /\ [TradingNext]_tradingVars => [Pipeline!Next]_(Pipeline!vars)
  BY LaneCases, MappedStep, MappedStutter DEF LaneInv
<1> QED
  BY <1>1, MappedInit, LaneInitially, LaneKept, PTL
  DEF TradingSpec, PipelineUndisturbed, Pipeline!Spec
=============================================================================
