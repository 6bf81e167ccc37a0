----------------------------- MODULE Dilution -----------------------------
(***************************************************************************)
(* Group F (packages/core/src/runner/dilution.ts): one reading, repeated,  *)
(* over session.send() as it treats a request that belongs to a draw       *)
(* (packages/core/src/runner/session.ts): a transient failure is waited    *)
(* out and then loses the draw, which may be run again whole.              *)
(*                                                                         *)
(* Draws go out one at a time, so the only concurrency is the abort, which *)
(* comes while something is awaited. The readings themselves are not       *)
(* modelled, only how many draws came to one.                              *)
(***************************************************************************)
EXTENDS Integers

CONSTANTS N,           \* config.draws: the repetitions planned
          PerDraw,     \* probe.requestsPerDraw, and the requests of probe.cost
          DrawTokens,  \* the tokens of probe.cost: one draw at its dearest
          Costs,       \* what request.tokens may be, of each request of a draw in turn
          Budgets      \* what the budget may have left once the probe is prepared

ASSUME DilutionAssumption ==
    /\ N \in Nat \ {0}
    /\ PerDraw \in Nat \ {0}
    /\ DrawTokens \in Nat
    /\ Costs \in [0..PerDraw -> SUBSET Nat]
    /\ Budgets \subseteq [requests : Nat, tokens : Nat]

\* replacementAllowance()
Allowance == N \div 9

Connections == {"fresh", "reused", "unobserved"}
Waits == {"preparing", "spread", "out", "backoff"}
Phases == Waits \cup {"slot", "ask", "judge", "ended"}
Results == {"none", "ran", "budget-exceeded", "unsupported-by-transport", "not-applicable",
            "endpoint-error", "probe-error", "blocked", "aborted", "stopped"}

VARIABLES
    phase,
    planned,    \* planned draws begun
    owed,       \* replacements still to send
    replaced,
    excluded,   \* draws on a reused connection
    lost,       \* draws that brought no reading
    readings,   \* draws that brought one
    budget,     \* the requests and tokens the budget has left for the draws
    sent,       \* requests the draws have sent
    charged,    \* tokens they were charged at
    asked,      \* requests of this draw
    drawn,      \* tokens of this draw
    seen,       \* connections they travelled on
    heard,      \* what plan.read() came to: "reading", "unreadable" or "lost"
    signal,     \* the abort signal
    result

loopVars == <<planned, owed, replaced, excluded, lost, readings>>
drawVars == <<sent, charged, asked, drawn, seen, heard>>
vars == <<phase, loopVars, budget, drawVars, signal, result>>

Taken == excluded + lost + readings

\* run.ts skipReasonFor(): an abort is why, unless the run was stopped.
SkipReason(reason) == IF signal /\ reason # "stopped" THEN "aborted" ELSE reason

Conclude(reason) == phase' = "ended" /\ result' = reason
ThrowOut(reason) == Conclude(SkipReason(reason))

---------------------------------------------------------------------------
(* probe.prepare(): requests outside any draw, sent as RunSession has them.*)

Prepared ==
    /\ phase = "preparing"
    /\ budget' \in Budgets
    /\ phase' = "slot"
    /\ UNCHANGED <<loopVars, drawVars, signal, result>>

PrepareThrows ==
    /\ phase = "preparing"
    /\ \E reason \in {"endpoint-error", "not-applicable", "probe-error", "blocked",
                      "budget-exceeded", "stopped"} : ThrowOut(reason)
    /\ UNCHANGED <<loopVars, budget, drawVars, signal>>

---------------------------------------------------------------------------
(* drawAll(), awaitSlot(): a replacement goes out at once, a planned draw  *)
(* may have to wait for its moment of the spread.                          *)

StartDraw(next) ==
    /\ phase' = next
    /\ asked' = 0
    /\ drawn' = 0
    /\ seen' = {}

Replace ==
    /\ phase = "slot" /\ owed > 0
    /\ owed' = owed - 1
    /\ StartDraw("ask")
    /\ UNCHANGED <<planned, replaced, excluded, lost, readings, budget, sent, charged, heard, signal, result>>

NextPlanned ==
    /\ phase = "slot" /\ owed = 0 /\ planned < N
    /\ planned' = planned + 1
    /\ \E next \in {"ask", "spread"} : StartDraw(next)
    /\ UNCHANGED <<owed, replaced, excluded, lost, readings, budget, sent, charged, heard, signal, result>>

AllDrawn ==
    /\ phase = "slot" /\ owed = 0 /\ planned = N
    /\ Conclude("ran")
    /\ UNCHANGED <<loopVars, budget, drawVars, signal>>

\* session.wait() throws before it and after it, once aborted.
MomentComes ==
    /\ phase = "spread"
    /\ IF signal THEN ThrowOut("aborted") ELSE phase' = "ask" /\ UNCHANGED result
    /\ UNCHANGED <<loopVars, budget, drawVars, signal>>

---------------------------------------------------------------------------
(* takeDraw(): the probe's requests, one after the other                   *)

SignalIgnored == FALSE    \* mutated form: attempt() does not ask the signal
ThrowIfAborted == signal

\* What the probe declares of one draw: its requests within it cost no more than
\* DrawTokens together (differential-count.ts DRAW_TOKENS). The runner counts the
\* requests of a draw, not its tokens.
AsDeclared(cost) == asked < PerDraw => drawn + cost <= DrawTokens

Affordable(cost) == sent < budget.requests /\ charged + cost <= budget.tokens

\* attempt() charges the request and its tokens, and sends it.
Ask ==
    /\ phase = "ask" /\ ~ThrowIfAborted
    /\ \E cost \in Costs[asked] :
          /\ AsDeclared(cost) /\ Affordable(cost)
          /\ charged' = charged + cost
          /\ drawn' = drawn + cost
    /\ sent' = sent + 1
    /\ asked' = asked + 1
    /\ phase' = "out"
    /\ UNCHANGED <<loopVars, budget, seen, heard, signal, result>>

AskAborted ==
    /\ phase = "ask"
    /\ ThrowIfAborted
    /\ ThrowOut("aborted")
    /\ UNCHANGED <<loopVars, budget, drawVars, signal>>

\* Requests or tokens, whichever is short.
AskOverBudget ==
    /\ phase = "ask" /\ ~ThrowIfAborted
    /\ \E cost \in Costs[asked] : AsDeclared(cost) /\ ~Affordable(cost)
    /\ Conclude("budget-exceeded")
    /\ UNCHANGED <<loopVars, budget, drawVars, signal>>

\* What travelled is in the evidence log, whatever came back on it.
Travelled == \E connection \in Connections : seen' = seen \cup {connection}

Hear(what) == heard' = what /\ phase' = "judge"

\* A probe asks for the next request of a draw only with the answer to the last;
\* one that asks for more than it declares is caught when the draw is judged.
GoesOn ==
    /\ phase = "out"
    /\ asked <= PerDraw
    /\ Travelled
    /\ phase' = "ask"
    /\ UNCHANGED <<loopVars, budget, sent, charged, asked, drawn, heard, signal, result>>

Heard ==
    /\ phase = "out"
    /\ Travelled
    /\ \E what \in {"reading", "unreadable", "lost"} : Hear(what)
    /\ UNCHANGED <<loopVars, budget, sent, charged, asked, drawn, signal, result>>

\* A transient failure. The wait is kept, the request is not sent again.
BacksOff ==
    /\ phase = "out"
    /\ Travelled
    /\ IF signal THEN ThrowOut("aborted") ELSE phase' = "backoff" /\ UNCHANGED result
    /\ UNCHANGED <<loopVars, budget, sent, charged, asked, drawn, heard, signal>>

RetriedInPlace ==    \* mutated form: as if the request belonged to no draw
    /\ phase = "backoff"
    /\ IF signal THEN ThrowOut("aborted") /\ UNCHANGED <<sent, charged, heard>>
       ELSE sent' = sent + 1 /\ charged' = charged + drawn /\ Hear("lost") /\ UNCHANGED result
    /\ UNCHANGED <<loopVars, budget, asked, drawn, seen, signal>>
BackoffEnds ==
    /\ phase = "backoff"
    /\ IF signal THEN ThrowOut("aborted") /\ UNCHANGED heard
       ELSE Hear("lost") /\ UNCHANGED result
    /\ UNCHANGED <<loopVars, budget, sent, charged, asked, drawn, seen, signal>>

\* Anything but a lost request ends the group, and a stop ends the run.
Thrown ==
    /\ phase = "out"
    /\ Travelled
    /\ \E reason \in {"blocked", "stopped", "probe-error"} : ThrowOut(reason)
    /\ UNCHANGED <<loopVars, budget, sent, charged, asked, drawn, heard, signal>>

AbortHangs ==    \* mutated form: a request under way is forgotten by the abort
    phase = "out" /\ ~signal /\ (GoesOn \/ Heard \/ BacksOff \/ Thrown)
Answered == GoesOn \/ Heard \/ BacksOff \/ Thrown

---------------------------------------------------------------------------
(* tally(), in the order takeDraw() tells the four kinds apart             *)

SentTooMany == asked > PerDraw
CannotTell == heard # "lost" /\ "unobserved" \in seen
AllReused == seen \cap {"fresh"} = {}    \* mutated form: every() for some()
NotIndependent == seen \ {"fresh"} # {}

AlwaysReplaces ==    \* mutated form: what was replaced is not counted
    /\ owed' = owed + 1
    /\ UNCHANGED replaced
MayReplace ==
    IF replaced < Allowance
    THEN replaced' = replaced + 1 /\ owed' = owed + 1
    ELSE UNCHANGED <<replaced, owed>>

JudgeBug ==
    /\ phase = "judge" /\ SentTooMany
    /\ ThrowOut("probe-error")
    /\ UNCHANGED <<loopVars, budget, drawVars, signal>>

JudgeUnobserved ==
    /\ phase = "judge" /\ ~SentTooMany /\ CannotTell
    /\ Conclude("unsupported-by-transport")
    /\ UNCHANGED <<loopVars, budget, drawVars, signal>>

TooManyExcluded(count) == count > Allowance

JudgeExcluded ==
    /\ phase = "judge" /\ ~SentTooMany /\ ~CannotTell /\ NotIndependent
    /\ excluded' = excluded + 1
    /\ IF TooManyExcluded(excluded + 1)
       THEN Conclude("unsupported-by-transport") /\ UNCHANGED <<replaced, owed>>
       ELSE MayReplace /\ phase' = "slot" /\ UNCHANGED result
    /\ UNCHANGED <<planned, lost, readings, budget, drawVars, signal>>

JudgeLost ==
    /\ phase = "judge" /\ ~SentTooMany /\ ~CannotTell /\ ~NotIndependent
    /\ heard # "reading"
    /\ lost' = lost + 1
    /\ MayReplace
    /\ phase' = "slot"
    /\ UNCHANGED <<planned, excluded, readings, budget, drawVars, signal, result>>

JudgeReading ==
    /\ phase = "judge" /\ ~SentTooMany /\ ~CannotTell /\ ~NotIndependent
    /\ heard = "reading"
    /\ readings' = readings + 1
    /\ phase' = "slot"
    /\ UNCHANGED <<planned, owed, replaced, excluded, lost, budget, drawVars, signal, result>>

---------------------------------------------------------------------------
Abort ==
    /\ phase \in Waits /\ ~signal
    /\ signal' = TRUE
    /\ UNCHANGED <<phase, loopVars, budget, drawVars, result>>

Init ==
    /\ phase = "preparing"
    /\ planned = 0 /\ owed = 0 /\ replaced = 0
    /\ excluded = 0 /\ lost = 0 /\ readings = 0
    /\ budget = [requests |-> 0, tokens |-> 0]
    /\ sent = 0 /\ charged = 0 /\ asked = 0 /\ drawn = 0 /\ seen = {} /\ heard = "lost"
    /\ signal \in BOOLEAN
    /\ result = "none"

Step ==
    \/ Prepared \/ PrepareThrows
    \/ Replace \/ NextPlanned \/ AllDrawn \/ MomentComes
    \/ Ask \/ AskAborted \/ AskOverBudget
    \/ Answered \/ BackoffEnds
    \/ JudgeBug \/ JudgeUnobserved \/ JudgeExcluded \/ JudgeLost \/ JudgeReading

Next == Step \/ Abort

Spec == Init /\ [][Next]_vars

\* The transport answers every request and every wait is over some time.
FairSpec == Spec /\ WF_vars(Step)

---------------------------------------------------------------------------
(* Properties                                                              *)

TypeOK ==
    /\ phase \in Phases
    /\ planned \in Nat /\ owed \in Nat /\ replaced \in Nat
    /\ excluded \in Nat /\ lost \in Nat /\ readings \in Nat
    /\ budget \in [requests : Nat, tokens : Nat]
    /\ sent \in Nat /\ charged \in Nat /\ asked \in Nat /\ drawn \in Nat
    /\ seen \subseteq Connections
    /\ heard \in {"reading", "unreadable", "lost"}
    /\ signal \in BOOLEAN
    /\ result \in Results

\* A group that ran took every planned draw and every replacement it owed, and
\* what it is short of is what failed beyond the allowance: no draw is left out
\* of the count and none is counted twice (dilution.ts drawAll, tally).
RanIsComplete ==
    result = "ran" =>
        /\ Taken = N + replaced
        /\ excluded <= Allowance
        /\ replaced < Allowance => readings = N

\* However many draws fail, the group sends and is charged no more than the planner
\* budgeted for them (planner/plan.ts probeCost): a budget with that much left, of
\* requests and of tokens, never cuts short a probe that keeps to what it declares.
EstimateSuffices ==
    result = "budget-exceeded" /\ planned > 0 /\ asked < PerDraw =>
        \/ budget.requests < PerDraw * (N + Allowance)
        \/ budget.tokens < DrawTokens * (N + Allowance)

\* Once aborted, the group sends nothing more: no next draw, no replacement.
NoDrawAfterAbort == [][signal => sent' = sent]_vars

\* A reading is counted only when every request of its draw is known to have
\* travelled alone, failed ones included.
CountedIsIndependent ==
    [][readings' > readings => seen = {"fresh"} /\ asked <= PerDraw]_vars

\* The group ends, however the endpoint answers and whenever it is aborted.
GroupEnds == <>(phase = "ended")

\* "Re-running stops as soon as that is certain, at m > N / 9 ... At N = 30 that
\* allows three lost repetitions ...; the fourth ends Group F"
\* (docs/scoring.md:386-390).
LostBeyondNinthEnds == 9 * lost > N => phase = "ended"
===========================================================================
