---------------------------- MODULE MCPaperTrading ----------------------------
(* Instances of PaperTrading for TLC: two proposals of one strategy, the      *)
(* first with one intent, the second with one.                                *)
EXTENDS PaperTrading, TLC

CONSTANTS p1, p2, s1, o1, o2, runner, reviewer, approver, submitter, submitter2

MCProposalOf == [o \in Orders |-> IF o = o1 THEN p1 ELSE p2]
MCStrategyOf == [p \in Proposals |-> s1]
MCEstimated == [S \in SUBSET Proposals |-> Cardinality(S)]

MCSymmetry == Permutations({submitter, submitter2})
=============================================================================
