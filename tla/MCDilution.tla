---------------------------- MODULE MCDilution ----------------------------
(* A draw's first request costs one token and its second, which repeats the *)
(* first and adds to it, two. The budgets are what nine draws and one       *)
(* replacement need, a request or a token less, and one that is soon used   *)
(* up.                                                                      *)
EXTENDS Dilution

MCCosts == [request \in 0..PerDraw |-> {request + 1}]
MCBudgets == {[requests |-> 20, tokens |-> 30], [requests |-> 19, tokens |-> 30],
              [requests |-> 20, tokens |-> 29], [requests |-> 5, tokens |-> 30]}
===========================================================================
