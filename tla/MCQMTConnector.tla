--------------------------- MODULE MCQMTConnector ---------------------------
(* Instances of QMTConnector for TLC.  Handler threads are inter- *)
(* changeable, and so are the two order terms the connector accepts.        *)
EXTENDS QMTConnector, TLC

CONSTANTS caller, caller2, key, key2, terms, terms2, badTerms, thread1, thread2

MCSymmetry == Permutations(Threads) \cup Permutations(Acceptable)
=============================================================================
