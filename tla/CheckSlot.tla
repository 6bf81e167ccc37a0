----------------------------- MODULE CheckSlot -----------------------------
(***************************************************************************)
(* What the daemon promises about its checks, whatever it keeps to do so:  *)
(* one slot for the check that may still spend, and, of those that left    *)
(* it, how each ended. An end is told once and never changed; it may be    *)
(* forgotten later, but not by the step that makes it.                     *)
(***************************************************************************)
CONSTANTS Checks, NoCheck

VARIABLES slot,      \* the check that may spend, or NoCheck
          running,   \* whether it was started
          ended      \* how each check ended: "none" before, "evicted" once forgotten

slotVars == <<slot, running, ended>>

Ends == {"finished", "cancelled", "stopped", "failed"}

Init ==
    /\ slot = NoCheck
    /\ running = FALSE
    /\ ended = [c \in Checks |-> "none"]

\* Any ends but that of c may be forgotten along with a step.
Forgetting(after, c) ==
    \E F \in SUBSET {d \in Checks \ {c} : after[d] \in Ends} :
        ended' = [d \in Checks |-> IF d \in F THEN "evicted" ELSE after[d]]

\* A new estimate, which ends the one it replaces.
Offer(c) ==
    /\ ~running /\ slot # c /\ ended[c] = "none"
    /\ slot' = c
    /\ running' = FALSE
    /\ IF slot = NoCheck THEN Forgetting(ended, c)
       ELSE Forgetting([ended EXCEPT ![slot] = "cancelled"], slot)

Begin ==
    /\ slot # NoCheck /\ ~running
    /\ running' = TRUE
    /\ UNCHANGED <<slot, ended>>

\* The estimate is cancelled, expires, or goes with the daemon.
Withdraw ==
    /\ slot # NoCheck /\ ~running
    /\ slot' = NoCheck
    /\ ended' = [ended EXCEPT ![slot] = "cancelled"]
    /\ UNCHANGED running

Conclude(end) ==
    /\ running
    /\ slot' = NoCheck
    /\ running' = FALSE
    /\ Forgetting([ended EXCEPT ![slot] = end], slot)

Next ==
    \/ \E c \in Checks : Offer(c)
    \/ Begin
    \/ Withdraw
    \/ \E end \in Ends : Conclude(end)

Spec == Init /\ [][Next]_slotVars
===========================================================================
