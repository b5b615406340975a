----------------------------- MODULE TicketHistory -----------------------------
(***************************************************************************)
(* The paper-trading lane with a history variable, for what may become of  *)
(* the document beside a ticket.  update_paper_order_ticket_status reads   *)
(* the document, adds to it and writes it back in two statements; between  *)
(* them a review may replace the row, and another command may update it.   *)
(***************************************************************************)
EXTENDS PaperTrading

VARIABLE overtaken   \* history: the desk commands whose ticket's row was
                     \* changed between their SELECT and their UPDATE

historyVars == <<tradingVars, overtaken>>

HoldsDocument(d) == desk[d].pc \in {"update", "mark"}

HistoryInit == TradingInit /\ overtaken = {}

HistoryNext ==
  /\ TradingNext
  /\ overtaken' = {d \in Desks :
       /\ HoldsDocument(d) /\ desk'[d] = desk[d]
       /\ \/ d \in overtaken
          \/ orders'[desk[d].order] # orders[desk[d].order]}

HistorySpec == HistoryInit /\ [][HistoryNext]_historyVars

-----------------------------------------------------------------------------

(* A command commits the tickets of its review over what the row was.       *)
RewrittenByReview(o) ==
  \E c \in Commands :
    /\ command[c].pc = "tickets" /\ Current(c) = ProposalOf[o]
    /\ orders'[o] = DryRunTicket(command[c].at)

(* An overtaken command writes its ticket's old document back.              *)
WrittenByOvertaken(o) ==
  \E d \in overtaken : desk[d].order = o /\ HoldsDocument(d) /\ desk'[d] # desk[d]

(* What a ticket's document says is not lost: approval, rejection and the   *)
(* broker's id stay on it, and it stays that of the review it came from,    *)
(* through approvals, rejections and marks of any number of desk commands.  *)
(* The exceptions are a review that makes the ticket afresh, and an update  *)
(* whose row was changed between its SELECT and its UPDATE.                 *)
NothingForgotten ==
  [][\A o \in Orders :
       HasTicket(o) =>
         \/ /\ orders'[o].meta.review = orders[o].meta.review
            /\ orders[o].meta.marks \subseteq orders'[o].meta.marks
         \/ RewrittenByReview(o)
         \/ WrittenByOvertaken(o)]_historyVars
=============================================================================
