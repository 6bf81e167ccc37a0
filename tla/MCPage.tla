------------------------------ MODULE MCPage ------------------------------
(* What a page does depends on the state of its check and not on its        *)
(* figures: the runs end without a request.                                 *)
EXTENDS Page

MCBudget == [c \in Checks |-> 0]
===========================================================================
