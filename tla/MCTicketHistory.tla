---------------------------- MODULE MCTicketHistory ----------------------------
(* Instances of TicketHistory for TLC, with the constants of MCPaperTrading.  *)
EXTENDS TicketHistory, MCPaperTrading
=============================================================================
