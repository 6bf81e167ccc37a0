--------------------------- MODULE MCRunSession ---------------------------
(* Three probes: a fan-out of two shared requests; one that asks the first  *)
(* of them again and then sends a request of its own, with the key; and one *)
(* that asks the second again.                                              *)
EXTENDS RunSession

CONSTANTS a, b, k

MCProgram == << << <<a, b>> >>, << <<a>>, <<k>> >>, << <<b>> >> >>
MCCost == [r \in {a, b, k} |-> IF r = k THEN 2 ELSE 1]
===========================================================================
