---------------------------- MODULE RunSession ----------------------------
(***************************************************************************)
(* One run of a planned list of probes (packages/core/src/runner/run.ts)   *)
(* over the one path their requests take (runner/session.ts, retry.ts):    *)
(* the loop over probes, the shared cache, the budget, the single retry,   *)
(* the evidence log and the abort signal. Group F has its own module,      *)
(* Dilution.                                                               *)
(*                                                                         *)
(* A probe is a list of stages; it sends the requests of a stage together  *)
(* (one, or a Promise.all) and goes on when all have answered. What a      *)
(* synchronous stretch of the program does is not interleaved with         *)
(* anything: events from outside wait until the run is Quiet.              *)
(***************************************************************************)
EXTENDS Naturals, Sequences, FiniteSets

CONSTANTS Requests,     \* the requests of the planned probes
          Program,      \* for each probe, in plan order, its stages: sequences of requests
          Shared,       \* requests made through context.shared(), under a key of their own
          CanStop,      \* requests that carry the buyer's key or generate: an answer may end the run
          Cost,         \* tokens a request takes from the budget
          MaxRequests,
          MaxTokens

Planned == DOMAIN Program
RequestsOf(stageRequests) == {stageRequests[i] : i \in DOMAIN stageRequests}

\* The requests sent together are those of openai/route-serializers.ts: shared,
\* without the key, generating nothing.
ASSUME PlanAssumption ==
    /\ Program \in Seq(Seq(Seq(Requests)))
    /\ \A p \in DOMAIN Program : Program[p] # <<>>
    /\ \A p \in DOMAIN Program : \A s \in DOMAIN Program[p] :
          Len(Program[p][s]) > 1 => RequestsOf(Program[p][s]) \subseteq Shared \ CanStop
    /\ IsFiniteSet(Requests)
    /\ Shared \subseteq Requests /\ CanStop \subseteq Requests
    /\ Cost \in [Requests -> Nat]
    /\ MaxRequests \in Nat /\ MaxTokens \in Nat

InFlight == {"first", "second"}
Failures == {"lost", "stop", "blocked", "aborted", "budget"}
CallStates == {"idle", "waiting", "done"} \cup InFlight \cup Failures
Reasons == {"ran", "not-applicable", "probe-error", "endpoint-error", "blocked",
            "aborted", "budget-exceeded"}

VARIABLES
    phase,      \* "next" between probes, "probe" while one runs, "ended"
    at,         \* the probe of the loop
    stage,      \* its stage
    launch,     \* requests of the stage the program has not called send() for yet
    call,       \* how far the latest send() of each request has come
    sentAt,     \* when it last went out, by how many answers were in by then
    requests,
    tokens,
    evidence,   \* the log: when each request went out, and what came back
    reached,
    signal,     \* the abort signal
    aborted,    \* what the loop knows of it
    outcomes,
    result

loopVars == <<phase, at, stage, launch>>
sessionVars == <<call, sentAt, requests, tokens, evidence, reached>>
endVars == <<aborted, outcomes, result>>
vars == <<loopVars, sessionVars, signal, endVars>>

---------------------------------------------------------------------------
Awaited == RequestsOf(Program[at][stage])

StageFailed == phase = "probe" /\ launch = <<>> /\ \E r \in Awaited : call[r] \in Failures
StageDone == phase = "probe" /\ launch = <<>> /\ \A r \in Awaited : call[r] = "done"

Quiet == phase # "next" /\ launch = <<>> /\ ~StageFailed /\ ~StageDone

\* The budget check of attempt(): against what was charged, answered or not.
AlwaysAffordable(r) == TRUE    \* mutated form
Affordable(r) == requests + 1 <= MaxRequests /\ tokens + Cost[r] <= MaxTokens

Charge(r) ==
    /\ requests' = requests + 1
    /\ tokens' = tokens + Cost[r]
    /\ sentAt' = [sentAt EXCEPT ![r] = Len(evidence)]

\* attempt(), up to the await of the transport: throws, or charges and sends.
AttemptUnchecked(r, order) ==    \* mutated form: the signal is not asked
    IF ~Affordable(r)
    THEN call' = [call EXCEPT ![r] = "budget"] /\ UNCHANGED <<requests, tokens, sentAt>>
    ELSE call' = [call EXCEPT ![r] = order] /\ Charge(r)
Attempt(r, order) ==
    IF signal \/ ~Affordable(r)
    THEN /\ call' = [call EXCEPT ![r] = IF signal THEN "aborted" ELSE "budget"]
         /\ UNCHANGED <<requests, tokens, sentAt>>
    ELSE call' = [call EXCEPT ![r] = order] /\ Charge(r)

\* sharedCache(): a computation is kept while it is pending or done. A failed one
\* is forgotten, and the next probe gets its own attempt.
CachedOnceAsked(r) == r \in Shared /\ call[r] # "idle"    \* mutated form
Cached(r) == r \in Shared /\ call[r] \in InFlight \cup {"waiting", "done"}

Launch ==
    /\ launch # <<>>
    /\ launch' = Tail(launch)
    /\ IF Cached(Head(launch))
       THEN UNCHANGED <<call, requests, tokens, sentAt>>
       ELSE Attempt(Head(launch), "first")
    /\ UNCHANGED <<phase, at, stage, evidence, reached, signal, endVars>>

---------------------------------------------------------------------------
(* What comes back from the transport, as responseAttempt(), refusalOf()   *)
(* and failureAttempt() read it: "done" for the probe to read; "stop" for  *)
(* a 401 on the key or a 404 naming the model; "lost" for a 403, a         *)
(* retry-after past the limit or a failure not worth repeating; "retry"    *)
(* for a transient status or failure; "blocked" and "aborted" from the     *)
(* transport itself.                                                       *)

Answers == {"done", "stop", "lost", "retry", "blocked", "aborted"}

MayAnswer(r, answer) ==
    /\ answer = "stop" => r \in CanStop
    /\ answer = "aborted" => signal

\* A response reached the endpoint; a failure says whether its request did.
MayReach(answer, reaches) ==
    /\ answer \in {"done", "stop"} => reaches
    /\ answer = "blocked" => ~reaches

\* One retry, after a wait that an abort refuses or cuts short.
AfterAnswer(r, answer) ==
    IF answer # "retry" THEN answer
    ELSE IF call[r] = "second" THEN "lost"
    ELSE IF signal THEN "aborted" ELSE "waiting"

\* record(): failures are evidence too.
RecordedOnlyAnswered(r, answer) ==    \* mutated form
    IF answer = "lost" THEN evidence ELSE Append(evidence, [sent |-> sentAt[r], answer |-> answer])
Recorded(r, answer) == Append(evidence, [sent |-> sentAt[r], answer |-> answer])

\* The answer is in, digested, logged and classified.
Answered(r) ==
    /\ Quiet /\ call[r] \in InFlight
    /\ \E answer \in Answers, reaches \in BOOLEAN :
          /\ MayAnswer(r, answer) /\ MayReach(answer, reaches)
          /\ evidence' = Recorded(r, answer)
          /\ reached' = (reached \/ reaches)
          /\ call' = [call EXCEPT ![r] = AfterAnswer(r, answer)]
    /\ UNCHANGED <<loopVars, sentAt, requests, tokens, signal, endVars>>

\* The wait before the retry is over, or the abort ended it.
WakeUnlessAborted(r) ==    \* mutated form: the abort clears the timer and nobody is told
    /\ Quiet /\ call[r] = "waiting" /\ ~signal
    /\ Attempt(r, "second")
    /\ UNCHANGED <<loopVars, evidence, reached, signal, endVars>>
Wake(r) ==
    /\ Quiet /\ call[r] = "waiting"
    /\ Attempt(r, "second")
    /\ UNCHANGED <<loopVars, evidence, reached, signal, endVars>>

Abort ==
    /\ Quiet /\ ~signal /\ phase # "ended"
    /\ signal' = TRUE
    /\ UNCHANGED <<loopVars, sessionVars, endVars>>

---------------------------------------------------------------------------
(* The loop over the probes                                                *)

\* settle(): one outcome, and on to the next probe.
Settled(reason) ==
    /\ outcomes' = Append(outcomes, reason)
    /\ at' = at + 1
    /\ phase' = "next"

BeginProbe ==
    /\ phase = "next" /\ at \in Planned
    /\ ~aborted /\ ~signal
    /\ phase' = "probe"
    /\ stage' = 1
    /\ launch' = Program[at][1]
    /\ UNCHANGED <<at, sessionVars, signal, endVars>>

\* Once aborted, what is left of the plan is skipped, probe by probe.
SkipProbe ==
    /\ phase = "next" /\ at \in Planned
    /\ aborted \/ signal
    /\ aborted' = TRUE
    /\ Settled("aborted")
    /\ UNCHANGED <<stage, launch, sessionVars, signal, result>>

NextStage ==
    /\ StageDone /\ stage < Len(Program[at])
    /\ stage' = stage + 1
    /\ launch' = Program[at][stage + 1]
    /\ UNCHANGED <<phase, at, sessionVars, signal, endVars>>

\* The probe returned its signals, and checkSignals() passed them.
ProbeRan ==
    /\ StageDone /\ stage = Len(Program[at])
    /\ Settled("ran")
    /\ UNCHANGED <<stage, launch, sessionVars, signal, aborted, result>>

\* skipReasonFor(): whatever was thrown, an abort is why.
SkipReason(reason) == IF signal THEN "aborted" ELSE reason

Skip(reason) ==
    /\ Settled(SkipReason(reason))
    /\ aborted' = (aborted \/ SkipReason(reason) = "aborted")

\* The probe found nothing to measure, or failed, on what it was answered.
ProbeThrew ==
    /\ StageDone
    /\ \E reason \in {"not-applicable", "probe-error"} : Skip(reason)
    /\ UNCHANGED <<stage, launch, sessionVars, signal, result>>

ReasonOf(failure) ==
    CASE failure = "lost" -> "endpoint-error"
      [] failure = "budget" -> "budget-exceeded"
      [] OTHER -> failure

StopSkipped == {}    \* mutated form: a stop is recorded like any other failure
Stopping == {"stop"}

\* A request failed the probe. The others it sent are not waited for.
ProbeFailed ==
    /\ StageFailed
    /\ \E r \in Awaited :
          /\ call[r] \in Failures \ Stopping
          /\ Skip(ReasonOf(call[r]))
    /\ UNCHANGED <<stage, launch, sessionVars, signal, result>>

RunStopped ==
    /\ StageFailed
    /\ \E r \in Awaited : call[r] \in Stopping
    /\ phase' = "ended"
    /\ result' = "stopped"
    /\ UNCHANGED <<at, stage, launch, sessionVars, signal, aborted, outcomes>>

RunReturns ==
    /\ phase = "next" /\ at = Len(Program) + 1
    /\ phase' = "ended"
    /\ result' = IF requests > 0 /\ ~reached /\ ~aborted THEN "unreachable"
                 ELSE IF aborted THEN "aborted" ELSE "complete"
    /\ UNCHANGED <<at, stage, launch, sessionVars, signal, aborted, outcomes>>

---------------------------------------------------------------------------
Init ==
    /\ phase = "next" /\ at = 1 /\ stage = 1 /\ launch = <<>>
    /\ call = [r \in Requests |-> "idle"]
    /\ sentAt = [r \in Requests |-> 0]
    /\ requests = 0 /\ tokens = 0 /\ evidence = <<>> /\ reached = FALSE
    /\ signal = FALSE
    /\ aborted = FALSE /\ outcomes = <<>> /\ result = "none"

\* What the program does by itself, without waiting for anything.
Step ==
    \/ Launch
    \/ BeginProbe \/ SkipProbe \/ NextStage
    \/ ProbeRan \/ ProbeThrew \/ ProbeFailed
    \/ RunStopped \/ RunReturns

Next == Step \/ Abort \/ \E r \in Requests : Answered(r) \/ Wake(r)

Spec == Init /\ [][Next]_vars

\* The program goes on, the transport answers every request (it has a timeout)
\* and every wait is over some time. Nobody has to abort.
Fairness ==
    /\ WF_vars(Step)
    /\ \A r \in Requests : WF_vars(Answered(r)) /\ WF_vars(Wake(r))

FairSpec == Spec /\ Fairness

---------------------------------------------------------------------------
(* Properties                                                              *)

EntryType == [sent : Nat, answer : Answers]

TypeOK ==
    /\ phase \in {"next", "probe", "ended"}
    /\ at \in Nat \ {0} /\ stage \in Nat \ {0} /\ launch \in Seq(Requests)
    /\ call \in [Requests -> CallStates]
    /\ sentAt \in [Requests -> Nat]
    /\ requests \in Nat /\ tokens \in Nat
    /\ evidence \in Seq(EntryType)
    /\ reached \in BOOLEAN /\ signal \in BOOLEAN /\ aborted \in BOOLEAN
    /\ outcomes \in Seq(Reasons)
    /\ result \in {"none", "complete", "aborted", "stopped", "unreachable"}

Pending == {r \in Requests : call[r] \in InFlight}

\* Retries, failures and requests sent together included, a run never spends
\* more than its budget (session.ts attempt).
BudgetKept == requests <= MaxRequests /\ tokens <= MaxTokens

\* Every request the run was charged for is in the log or still out: none is
\* spent without evidence, none logged twice (session.ts attempt, record).
EvidenceAccounts == requests = Len(evidence) + Cardinality(Pending)

\* Once the buyer aborts, nothing more goes out: not the next probe, not the
\* retry being waited for, not what is left of a fan-out.
NoSendAfterAbort == [][signal => requests' = requests]_vars

\* An abort is not held against the endpoint: a probe it interrupts is recorded
\* as aborted, whatever the transport or the probe made of it ...
AbortBlamesNobody ==
    [][signal /\ outcomes' # outcomes =>
          outcomes'[Len(outcomes')] \in {"ran", "aborted"}]_vars

\* ... and an aborted run never says that nothing could be reached.
AbortIsNotUnreachable == ~(signal /\ result = "unreachable")

\* A wrong key or a wrong model ends the run without a report, even if it was
\* aborted meanwhile.
StopIsReported ==
    phase = "ended" /\ (\E i \in DOMAIN evidence : evidence[i].answer = "stop") =>
        result = "stopped"

\* So a run that did not come to its end says why, and says it truly.
StopsAreTold == AbortIsNotUnreachable /\ StopIsReported

\* And an abort costs nothing more, of the buyer's money or of the endpoint's name.
AbortIsClean == NoSendAfterAbort /\ AbortBlamesNobody

\* One lost answer costs one probe at most, though probes share requests: the
\* next one gets its own attempt (run.ts sharedCache, retry.ts).
LossBlamedOnce ==
    Cardinality({i \in DOMAIN outcomes : outcomes[i] = "endpoint-error"}) <=
        Cardinality({i \in DOMAIN evidence : evidence[i].answer \in {"lost", "retry"}})

\* Every run ends, however the endpoint answers and whenever it is aborted, and so
\* does everything it started, what a failed fan-out left behind included.
RunEnds == <>[](phase = "ended" /\ \A r \in Requests : call[r] \notin InFlight \cup {"waiting"})

\* "`evidence` is in send order" (docs/report-format.md:140, runner/types.ts:129).
EvidenceInSendOrder ==
    \A i, j \in DOMAIN evidence : i < j => evidence[i].sent <= evidence[j].sent

\* Every place of the plan that sends a request.
Places == UNION {UNION {{<<p, s, i>> : i \in DOMAIN Program[p][s]}
                            : s \in DOMAIN Program[p]} : p \in Planned}

\* "Upper bounds for the planned probes" (service/contract.ts:240), "spending up
\* to ... requests" (check/command.ts:125): the requests the probes declare.
SpendsWithinEstimate == requests <= Cardinality(Places)
===========================================================================
