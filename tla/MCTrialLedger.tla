----------------------------- MODULE MCTrialLedger -----------------------------
(***************************************************************************)
(* One trial has two p-values in its reruns, with one of which it ties     *)
(* with the second; the third is far from significant.  A trial without a  *)
(* p-value is one that a blocked preflight recorded.                       *)
(***************************************************************************)
EXTENDS TrialLedger

CONSTANTS s1, s2, s3, lab, run1, run2

MCRawOf == [s \in Signatures |-> IF s = s1 THEN {24, 36}
                                 ELSE IF s = s2 THEN {36} ELSE {600}]
================================================================================
