----------------------------- MODULE OrderAuthority -----------------------------
(***************************************************************************)
(* What the desk owes the people who approve tickets, without databases,   *)
(* processes or reads that go stale: an approval gives a ticket authority  *)
(* to be sent once, sending uses the authority up, and it may be lost      *)
(* before that - to a rejection, a new review, or a submission it came too *)
(* late for - but never returns unless somebody approves again.            *)
(***************************************************************************)
EXTENDS Integers, TLAPS

CONSTANT Orders

VARIABLES
  authority,   \* tickets that may still be sent
  grants,      \* approvals given to each ticket
  sent         \* orders sent to the broker for each ticket

authorityVars == <<authority, grants, sent>>

AuthorityInit ==
  /\ authority = {}
  /\ grants = [o \in Orders |-> 0]
  /\ sent = [o \in Orders |-> 0]

Grant(o) ==
  /\ grants' = [grants EXCEPT ![o] = @ + 1]
  /\ authority' \in {authority, authority \cup {o}}
  /\ UNCHANGED sent

Withdraw ==
  /\ authority' \subseteq authority
  /\ UNCHANGED <<grants, sent>>

Send(o) ==
  /\ o \in authority
  /\ authority' = authority \ {o}
  /\ sent' = [sent EXCEPT ![o] = @ + 1]
  /\ UNCHANGED grants

AuthorityNext ==
  \/ \E o \in Orders : Grant(o) \/ Send(o)
  \/ Withdraw

AuthoritySpec == AuthorityInit /\ [][AuthorityNext]_authorityVars

-----------------------------------------------------------------------------

AuthorityTypeOK ==
  /\ authority \subseteq Orders
  /\ grants \in [Orders -> Nat]
  /\ sent \in [Orders -> Nat]

(* What an approval is worth: one order at most, and none beyond those that *)
(* were sent while another could still be.                                  *)
SentWithinGrants ==
  \A o \in Orders :
    /\ sent[o] <= grants[o]
    /\ o \in authority => sent[o] < grants[o]

-----------------------------------------------------------------------------
(* The contract never sends a ticket more often than it was approved *)

AuthorityInv == AuthorityTypeOK /\ SentWithinGrants

(* AuthorityInv is inductive: a Send needs authority, which says that one   *)
(* grant is still unspent, and uses it up in the same step.                 *)
LEMMA AuthorityStep ==
  AuthorityInv /\ [AuthorityNext]_authorityVars => AuthorityInv'
<1> SUFFICES ASSUME AuthorityInv, [AuthorityNext]_authorityVars
             PROVE  AuthorityInv'
  OBVIOUS
<1> USE DEF AuthorityInv, AuthorityTypeOK, SentWithinGrants
<1>1. CASE \E o \in Orders : Grant(o)
  BY <1>1 DEF Grant
<1>2. CASE \E o \in Orders : Send(o)
  BY <1>2 DEF Send
<1>3. CASE Withdraw
  BY <1>3 DEF Withdraw
<1>4. CASE UNCHANGED authorityVars
  BY <1>4 DEF authorityVars
<1> QED
  BY <1>1, <1>2, <1>3, <1>4 DEF AuthorityNext

(* Every behaviour of the contract keeps the orders sent for a ticket       *)
(* within the approvals it got.                                             *)
THEOREM AuthorityNeverOverspent == AuthoritySpec => []SentWithinGrants
<1>1. AuthorityInit => AuthorityInv
  BY DEF AuthorityInit, AuthorityInv, AuthorityTypeOK, SentWithinGrants
<1>2. AuthorityInv => SentWithinGrants
  BY DEF AuthorityInv
<1> QED
  BY <1>1, <1>2, AuthorityStep, PTL DEF AuthoritySpec
=============================================================================
