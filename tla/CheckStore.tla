---------------------------- MODULE CheckStore ----------------------------
(***************************************************************************)
(* The daemon's checks (packages/cli/src/daemon/checks.ts), from an        *)
(* accepted estimate to a report or its absence, with the key each         *)
(* prepared check holds and the asynchronous run it starts                 *)
(* (packages/core/src/service/check.ts).                                   *)
(*                                                                         *)
(* The daemon is one event loop: a handler is one step, and a handler that *)
(* awaits (create, run) is one step per stretch between two awaits.        *)
(***************************************************************************)
EXTENDS Naturals, FiniteSets

CONSTANTS Checks,       \* the checks that may be asked for, each an id never drawn twice
          MaxFinished,  \* MAX_FINISHED_CHECKS: ended checks kept for their reports
          MaxStored,    \* MAX_STORED_EVENTS: events kept of one check
          Budget,       \* the requests the run of each check may send
          NoCheck       \* no check: nothing is being prepared, nothing is live

ASSUME BoundsAssumption ==
    /\ IsFiniteSet(Checks)
    /\ MaxFinished \in Nat \ {0}
    /\ MaxStored \in Nat
    /\ Budget \in [Checks -> Nat]
    /\ NoCheck \notin Checks

Final == {"finished", "cancelled", "stopped", "failed"}
States == {"absent", "prepared", "running", "evicted"} \cup Final
Tasks == {"none", "probing", "reporting"}

VARIABLES
    state,      \* what the entry of each check says; "absent" before it has one
    inserted,   \* its place in the Map's insertion order
    clock,      \* the last place given out
    timers,     \* checks whose expiry timer is armed
    key,        \* where a check's key is: nowhere, held by the prepare() of a create and
                \* then by its PreparedCheck, or lent to its run (a request under way has
                \* a copy in its headers, which goes with its answer)
    task,       \* how far the asynchronous run() of a check has come
    aborted,    \* checks whose AbortController has fired
    sent,       \* the requests its session has charged
    flight,     \* those of them whose event is still to come
    returned,   \* the requests runProbes() came back with, while the report is being built
    stored,     \* the length of each event log
    counted,    \* the requests of each entry's progress
    pending,    \* the check whose prepare() has not come back
    preparing,
    closed

entryVars == <<state, inserted, clock>>
runVars == <<task, aborted>>
wireVars == <<sent, flight>>
figureVars == <<stored, counted>>
eventVars == <<wireVars, returned, figureVars>>
createVars == <<pending, preparing>>
vars == <<state, inserted, clock, timers, key, task, aborted,
          sent, flight, returned, stored, counted, pending, preparing, closed>>

Has(c) == state[c] \notin {"absent", "evicted"}
InState(s) == {c \in Checks : state[c] = s}
IsActive == InState("running") # {}

---------------------------------------------------------------------------
(* Pruning, on the states and the insertion order a handler is about to    *)
(* store: of the ended checks, all but the MaxFinished newest.             *)

Ended(st) == {c \in Checks : st[c] \in Final}

EvictedLate(st, ins) ==    \* mutated form: one check too many is kept
    {c \in Ended(st) : Cardinality({d \in Ended(st) : ins[d] > ins[c]}) > MaxFinished}
Evicted(st, ins) ==
    {c \in Ended(st) : Cardinality({d \in Ended(st) : ins[d] > ins[c]}) >= MaxFinished}

Pruned(st, ins) ==
    [c \in Checks |-> IF c \in Evicted(st, ins) THEN "evicted" ELSE st[c]]

\* An evicted check takes its log and its progress with it.
WithoutEvicted(figure, st, ins) ==
    [c \in Checks |-> IF c \in Evicted(st, ins) THEN 0 ELSE figure[c]]

\* drop() of every check of D: the key discarded, the timer cleared, the entry cancelled.
DropState(D) == [c \in Checks |-> IF c \in D /\ Has(c) THEN "cancelled" ELSE state[c]]
DropKeys(D) == [c \in Checks |-> IF c \in D /\ key[c] = "held" THEN "nowhere" ELSE key[c]]

\* clearTimeout of the check's expiry.
TimerCleared(c) == timers \ {c}

---------------------------------------------------------------------------
(* create()                                                                *)

\* The check of admit(), after the await: the one made before it is stale by now.
MayAdmitUnchecked == ~closed    \* mutated form: isActive() is not asked again
MayAdmit == ~closed /\ ~IsActive

\* The finally clause of create().
PrepareNeverOver == pending' = NoCheck /\ UNCHANGED preparing    \* mutated form
PrepareOver == pending' = NoCheck /\ preparing' = FALSE

\* A create that is not busy: prepare() is called and awaited.
CreateBegin(c) ==
    /\ ~closed /\ ~preparing /\ ~IsActive
    /\ state[c] = "absent" /\ key[c] = "nowhere"
    /\ preparing' = TRUE
    /\ pending' = c
    /\ key' = [key EXCEPT ![c] = "held"]
    /\ UNCHANGED <<entryVars, timers, runVars, eventVars, closed>>

\* prepare() answers with a refusal, or rejects: either way the finally clause runs.
PrepareFails ==
    /\ pending # NoCheck
    /\ key' = [key EXCEPT ![pending] = "nowhere"]
    /\ PrepareOver
    /\ UNCHANGED <<entryVars, timers, runVars, eventVars, closed>>

\* discard() of the check that was prepared and is not let in.
NotDiscarded == key    \* mutated form: it is left with its key
Discarded == [key EXCEPT ![pending] = "nowhere"]

\* admit(), when a check started or the daemon closed during the await.
AdmitBusy ==
    /\ pending # NoCheck
    /\ ~MayAdmit
    /\ key' = Discarded
    /\ PrepareOver
    /\ UNCHANGED <<entryVars, timers, runVars, eventVars, closed>>

\* The timers of the replaced cleared, the new check's armed.
Rearmed(D, c) == (timers \ D) \cup {c}

\* admit(), when it may: any estimate still waiting is replaced by this one.
Admit ==
    LET c == pending
        replaced == InState("prepared")
        st == [DropState(replaced) EXCEPT ![c] = "prepared"]
        ins == [inserted EXCEPT ![c] = clock + 1]
    IN  /\ pending # NoCheck
        /\ MayAdmit
        /\ state' = Pruned(st, ins)
        /\ stored' = WithoutEvicted(stored, st, ins)
        /\ counted' = WithoutEvicted(counted, st, ins)
        /\ inserted' = ins
        /\ clock' = clock + 1
        /\ timers' = Rearmed(replaced, c)
        /\ key' = [DropKeys(replaced) EXCEPT ![c] = "held"]
        /\ PrepareOver
        /\ UNCHANGED <<runVars, wireVars, returned, closed>>

---------------------------------------------------------------------------
(* The expiry timer, start(), cancel() and close()                         *)

\* The timer's callback is drop(), which asks nothing of the entry's state.
Expire(c) ==
    /\ c \in timers
    /\ timers' = timers \ {c}
    /\ state' = DropState({c})
    /\ key' = DropKeys({c})
    /\ UNCHANGED <<inserted, clock, runVars, eventVars, createVars, closed>>

\* start() calls run(), which calls execute() before it returns.
Start(c) ==
    /\ state[c] = "prepared" /\ key[c] = "held" /\ ~closed
    /\ timers' = TimerCleared(c)
    /\ state' = [state EXCEPT ![c] = "running"]
    /\ key' = [key EXCEPT ![c] = "lent"]
    /\ task' = [task EXCEPT ![c] = "probing"]
    /\ UNCHANGED <<inserted, clock, aborted, eventVars, createVars, closed>>

CancelPrepared(c) ==
    /\ state[c] = "prepared"
    /\ timers' = TimerCleared(c)
    /\ state' = DropState({c})
    /\ key' = DropKeys({c})
    /\ UNCHANGED <<inserted, clock, runVars, eventVars, createVars, closed>>

\* The run is asked to stop; the entry stays as it is until the run settles it.
CancelRunning(c) ==
    /\ state[c] = "running"
    /\ aborted' = aborted \cup {c}
    /\ UNCHANGED <<entryVars, timers, key, task, eventVars, createVars, closed>>

Close ==
    /\ ~closed
    /\ closed' = TRUE
    /\ timers' = timers \ InState("prepared")
    /\ state' = DropState(InState("prepared"))
    /\ key' = DropKeys(InState("prepared"))
    /\ aborted' = aborted \cup InState("running")
    /\ UNCHANGED <<inserted, clock, task, eventVars, createVars>>

---------------------------------------------------------------------------
(* The asynchronous run of a started check                                 *)

LogAfter(n) == IF n < MaxStored THEN n + 1 ELSE n

\* record(), which asks for the entry and its log and for nothing else: it does not
\* know whether the check has ended. Past MaxStored the log stops growing and
\* progress still counts.
RecordedAlways(c, requests) ==    \* mutated form: a log that is gone is begun again
    /\ stored' = [stored EXCEPT ![c] = LogAfter(@)]
    /\ counted' = [counted EXCEPT ![c] = @ + requests]
Recorded(c, requests) ==
    /\ stored' = [stored EXCEPT ![c] = IF Has(c) THEN LogAfter(@) ELSE @]
    /\ counted' = [counted EXCEPT ![c] = IF Has(c) THEN @ + requests ELSE @]

\* Who can still send: the run, and what it left behind. A Promise.all that rejected
\* gave up the other requests but did not stop them, and each may still be retried;
\* RunSession has which, here it is any run that sent one.
MaySend(c) == task[c] = "probing" \/ sent[c] > 0

\* A request is charged and goes out, unless the signal fired. Nobody can fire it
\* once settle() has dropped the controller.
Send(c) ==
    /\ MaySend(c)
    /\ c \notin aborted
    /\ sent[c] < Budget[c]
    /\ sent' = [sent EXCEPT ![c] = @ + 1]
    /\ flight' = [flight EXCEPT ![c] = @ + 1]
    /\ UNCHANGED <<entryVars, timers, key, runVars, returned, figureVars, createVars, closed>>

\* It was answered or failed, and its event is recorded.
Answer(c) ==
    /\ flight[c] > 0
    /\ flight' = [flight EXCEPT ![c] = @ - 1]
    /\ Recorded(c, 1)
    /\ UNCHANGED <<entryVars, timers, key, runVars, sent, returned, createVars, closed>>

\* Any other event: a probe's, or the wait before a retry.
Tell(c) ==
    /\ task[c] = "probing" \/ (MaySend(c) /\ c \notin aborted)
    /\ Recorded(c, 0)
    /\ UNCHANGED <<entryVars, timers, key, runVars, wireVars, returned, createVars, closed>>

\* runProbes() came back and says it was not aborted: scored, and the report is
\* being built. The signal is not asked again.
ProbesFinish(c) ==
    /\ task[c] = "probing"
    /\ task' = [task EXCEPT ![c] = "reporting"]
    /\ returned' = [returned EXCEPT ![c] = sent[c]]
    /\ UNCHANGED <<entryVars, timers, key, aborted, wireVars, figureVars, createVars, closed>>

\* How a run may end from where it stands: check.ts run() and settle().
OutcomeAllowed(c, outcome) ==
    \/ outcome = "cancelled" /\ task[c] = "probing" /\ c \in aborted
    \/ outcome = "stopped" /\ task[c] = "probing"
    \/ outcome = "finished" /\ task[c] = "reporting"
    \/ outcome = "failed" /\ task[c] # "none"

\* The requests the entry is left with: runProbes() told them, or progress stays.
CountAtEnd(c, outcome) ==
    CASE outcome = "finished" -> returned[c]
      [] outcome = "cancelled" -> sent[c]
      [] OTHER -> counted[c]

\* settle() of the store, in the continuation of execute(): the entry becomes
\* final and the oldest ended checks are pruned.
Settle(c, outcome) ==
    LET st == [state EXCEPT ![c] = IF Has(c) THEN outcome ELSE @]
    IN  /\ OutcomeAllowed(c, outcome)
        /\ state' = Pruned(st, inserted)
        /\ stored' = WithoutEvicted(stored, st, inserted)
        /\ counted' = WithoutEvicted([counted EXCEPT ![c] = CountAtEnd(c, outcome)], st, inserted)
        /\ task' = [task EXCEPT ![c] = "none"]
        /\ returned' = [returned EXCEPT ![c] = 0]
        /\ key' = [key EXCEPT ![c] = "nowhere"]
        /\ UNCHANGED <<inserted, clock, timers, aborted, wireVars, createVars, closed>>

RunEnds(c) == ProbesFinish(c) \/ \E o \in Final : Settle(c, o)

---------------------------------------------------------------------------
Init ==
    /\ state = [c \in Checks |-> "absent"]
    /\ inserted = [c \in Checks |-> 0]
    /\ clock = 0
    /\ timers = {}
    /\ key = [c \in Checks |-> "nowhere"]
    /\ task = [c \in Checks |-> "none"]
    /\ aborted = {}
    /\ sent = [c \in Checks |-> 0]
    /\ flight = [c \in Checks |-> 0]
    /\ returned = [c \in Checks |-> 0]
    /\ stored = [c \in Checks |-> 0]
    /\ counted = [c \in Checks |-> 0]
    /\ pending = NoCheck
    /\ preparing = FALSE
    /\ closed = FALSE

PrepareEnds == PrepareFails \/ AdmitBusy \/ Admit

Next ==
    \/ PrepareFails \/ AdmitBusy \/ Admit
    \/ Close
    \/ \E c \in Checks :
          \/ CreateBegin(c) \/ Start(c) \/ CancelPrepared(c) \/ CancelRunning(c)
          \/ Expire(c) \/ Send(c) \/ Answer(c) \/ Tell(c) \/ ProbesFinish(c)
          \/ \E o \in Final : Settle(c, o)

Spec == Init /\ [][Next]_vars

\* Timers fire, prepare() comes back and a run ends: what the daemon itself must
\* do, of the one check that waits or runs. What a client may do (create, start,
\* cancel, close) is never fair.
Fairness ==
    /\ WF_vars(PrepareEnds)
    /\ WF_vars(\E c \in Checks : Expire(c))
    /\ WF_vars(\E c \in Checks : RunEnds(c))

FairSpec == Spec /\ Fairness

---------------------------------------------------------------------------
(* Properties                                                              *)

\* Every variable has its type; the clock bounds the places it gave out.
TypeOK ==
    /\ state \in [Checks -> States]
    /\ clock \in Nat
    /\ inserted \in [Checks -> 0..clock]
    /\ timers \subseteq Checks
    /\ key \in [Checks -> {"nowhere", "held", "lent"}]
    /\ task \in [Checks -> Tasks]
    /\ aborted \subseteq Checks
    /\ sent \in [Checks -> Nat] /\ \A c \in Checks : sent[c] <= Budget[c]
    /\ flight \in [Checks -> Nat]
    /\ returned \in [Checks -> Nat]
    /\ stored \in [Checks -> 0..MaxStored]
    /\ counted \in [Checks -> Nat]
    /\ pending \in Checks \cup {NoCheck}
    /\ preparing \in BOOLEAN
    /\ closed \in BOOLEAN

Live == InState("prepared") \cup InState("running")

\* One check at a time, an estimate included: whatever is started, replaced or
\* cancelled while prepare() is awaited, the buyer never has two checks that
\* could spend money.
AtMostOneLive == \A c, d \in Live : c = d

\* An entry says running exactly while its run is executing: no timer, cancel or
\* close ends the entry under a run that is still probing or reporting.
RunsMatchEntries == \A c \in Checks : task[c] # "none" <=> state[c] = "running"

\* So no two runs ever execute at once: one check is live, and a run is the run of
\* the live one. (Requests that a run left behind may outlast it.)
OnlyOneSpends == AtMostOneLive /\ RunsMatchEntries

\* The API key is kept only while its check is prepared, for an estimate that can
\* still be started and for the run it was lent to: every way out of each forgets it,
\* the check prepared in vain included.
KeyOnlyWhileLive ==
    \A c \in Checks :
        /\ key[c] = "held" <=> state[c] = "prepared" \/ c = pending
        /\ key[c] = "lent" <=> state[c] = "running"

\* A bounded few entries: an estimate that is dropped without a prune leaves at
\* most one more than MaxFinished.
MemoryBounded == Cardinality({c \in Checks : Has(c)}) <= MaxFinished + 1

\* After close() no estimate can be started and every run was told to stop, even
\* when a prepare() was in flight at the time.
ClosedIsQuiet == closed => InState("prepared") = {} /\ InState("running") \subseteq aborted

\* The prune of settle() never takes the check that just ended: its report can be
\* read once it is there.
JustSettledIsKept ==
    [][\A c \in Checks : task[c] # "none" /\ task'[c] = "none" => state'[c] \in Final]_vars

\* An end is told for good, and what is told of it is never taken back: the log and
\* the count may still grow, by what the run left behind, until both go with the
\* entry; and a late event does not bring an evicted check back.
FinalIsFinal ==
    [][\A c \in Checks :
          /\ state[c] \in Final =>
                \/ state'[c] = state[c] /\ stored'[c] >= stored[c] /\ counted'[c] >= counted[c]
                \/ state'[c] = "evicted" /\ stored'[c] = 0 /\ counted'[c] = 0
          /\ state[c] = "evicted" =>
                state'[c] = "evicted" /\ stored'[c] = stored[c] /\ counted'[c] = counted[c]]_vars

\* The store opens again: after any create that failed and any run that broke, a
\* create is not busy forever.
Reopens == []<>(closed \/ (~preparing /\ ~IsActive))

\* Every key is forgotten in the end, without the buyer doing anything.
KeyForgotten == \A c \in Checks : key[c] # "nowhere" ~> key[c] = "nowhere"

\* So no key lingers: not beyond its estimate or its run, and not in a daemon that
\* was closed.
NothingLingers == KeyOnlyWhileLive /\ ClosedIsQuiet

\* And an end, once reached, can be read, is never revised and loses nothing.
EndsAreKept == JustSettledIsKept /\ FinalIsFinal

\* Whatever failed, the store recovers by itself.
Recovers == Reopens /\ KeyForgotten

\* "One check at a time: a run ... has the endpoint's rate limits to itself, and two
\* at once would share both" (checks.ts:4): nothing is being prepared - detection
\* sends requests - while a run probes.
AloneOnTheWire == ~(pending # NoCheck /\ \E c \in Checks : task[c] = "probing")

\* The figures of an ended check are those of its report. It does not hold: requests
\* left behind by a rejected Promise.all are recorded after the end, and those
\* under way at the end, which runProbes() had counted, a second time.
FiguresAreFinal ==
    [][\A c \in Checks : state[c] \in Final /\ state'[c] = state[c]
                             => stored'[c] = stored[c] /\ counted'[c] = counted[c]]_vars

\* What the comment on cancel() says: a running check that was cancelled reports
\* `cancelled` once it has stopped.
CancelReported ==
    [][\A c \in aborted : ~closed /\ state[c] = "running" /\ state'[c] # "running"
                             => state'[c] = "cancelled"]_vars

\* The store seen from outside is one slot (CheckSlot): its live check, and how
\* the others ended.
SlotOf == IF Live = {} THEN NoCheck ELSE CHOOSE c \in Live : TRUE
EndedOf(c) == IF state[c] \in {"absent", "prepared", "running"} THEN "none" ELSE state[c]

Slot == INSTANCE CheckSlot WITH
    slot <- SlotOf, running <- IsActive, ended <- [c \in Checks |-> EndedOf(c)]

\* Every handler is one step of the slot or invisible to it: an end, once told, is
\* never revised, and the estimate a new one replaces is told as cancelled.
SlotSpec == Slot!Spec
===========================================================================
