------------------------------ MODULE MCLiveAccounts ---------------------------
(***************************************************************************)
(* Two texts of the file.  In the first a foreign position has a cost and  *)
(* no rate and a domestic one states its values; in the second there is    *)
(* more of the foreign one, with a rate, and the domestic one is sold.     *)
(***************************************************************************)
EXTENDS LiveAccounts, TLC

CONSTANTS abroad, home, job, refresher, capture

AtCost(quantity, price, rate) ==
  [quantity |-> quantity, price |-> price, rate |-> rate,
   method |-> "manual_cost", active |-> TRUE,
   local |-> Missing, base |-> Missing]

MCPortfolios ==
  { (abroad :> AtCost(1, 1, Missing)) @@
      (home :> [AtCost(1, 2, Missing) EXCEPT !.local = 5, !.base = 6]),
    (abroad :> AtCost(2, 1, 2)) }

MCDateOf == [s \in 1 .. MaxSecond |-> IF s = 1 THEN 1 ELSE 2]

MCBooksAt == [s \in 1 .. MaxSecond |-> {[nav |-> s, held |-> s]}]
===============================================================================
