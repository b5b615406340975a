-------------------------- MODULE MCProposalPipeline --------------------------
(* Instances of ProposalPipeline for TLC: three proposals of one or two       *)
(* strategies, the first of them with two intents, the second with one or     *)
(* none.                                                                      *)
EXTENDS ProposalPipeline, FiniteSetsExt

CONSTANTS p1, p2, p3, s1, s2, o1, o2, o3, o4, runner, reviewer

MCProposalOf ==
  [o \in Orders |-> CASE o \in {o1, o2} -> p1 [] o = o3 -> p2 [] o = o4 -> p3]

MCStrategyOf == [p \in Proposals |-> IF p = p1 THEN s1 ELSE s2]

MCOneStrategy == [p \in Proposals |-> s1]

(* The cap of 4 holds any two of the proposals, never all three.              *)
MCEstimated ==
  [S \in SUBSET Proposals |-> MapThenSumSet(LAMBDA p : IF p = p3 THEN 1 ELSE 2, S)]
=============================================================================
