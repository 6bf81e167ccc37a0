--------------------------- MODULE MCCheckStore ---------------------------
(* One check sends two requests, so that one may fail and end the run with  *)
(* the other under way, or be retried after the end; the others send one.   *)
EXTENDS CheckStore

CONSTANTS c1

MCBudget == [c \in Checks |-> IF c = c1 THEN 2 ELSE 1]
===========================================================================
