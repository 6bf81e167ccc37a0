------------------------------- MODULE Command -------------------------------
(***************************************************************************)
(* `verifai check` (packages/cli/src/check/command.ts, bin.ts), with what  *)
(* it prepares (packages/core/src/service/target.ts, check.ts): the buyer  *)
(* is asked, the protocol detected with three requests at once, the        *)
(* estimate confirmed, the run executed and its report delivered - and     *)
(* Ctrl+C may come anywhere, twice.                                        *)
(*                                                                         *)
(* What is not awaited is one step. Planning, the run and the report       *)
(* itself are left out: RunSession models the run, which ends one of four  *)
(* ways.                                                                   *)
(***************************************************************************)
EXTENDS Detection

VARIABLES
    request,      \* what the buyer asks for
    interactive,  \* there is a terminal to ask in
    yes,          \* --yes
    stage,        \* what the command awaits
    interrupts,   \* signals that came: the first aborts, the second kills
    attempts,     \* what each detection request met with
    wired,        \* those of them that went out to the endpoint
    target,       \* the protocol to probe
    agreed,       \* the buyer confirmed the estimate
    key,          \* the prepared check's: "held", "lent" to the run, "nowhere"
    ran,          \* the run was started
    report,       \* how much of it was delivered
    exit          \* the exit status

asked == <<request, interactive, yes>>
detection == <<attempts, wired, target>>
spending == <<agreed, key, ran>>
vars == <<asked, stage, interrupts, detection, spending, report, exit>>

\* A problem of its shape is told by the schema, one of a field, of the address
\* or of the vendor by resolveTarget(). The protocol is the buyer's choice or the
\* pasted URL's; the model's name may name a vendor.
Requests == [problem  : {"none", "shape", "field"},
             protocol : Protocols \cup {"auto"},
             named    : Vendors \cup {"none"},
             auth     : {"auto", "x-api-key", "bearer"}]

Stages == {"called", "detecting", "confirming", "running", "writing", "exited"}
ExitCodes == {"verdict", "internal", "usage", "stopped", "cancelled"}
Attempts == {"unsent", "out"} \cup FailureKinds \cup Outcomes

Interrupted == interrupts > 0

Exit(code) == stage' = "exited" /\ exit' = code

---------------------------------------------------------------------------
(* prepareCheck() came back                                                *)

\* authOf(): the schemes the protocol documents.
TakesAuth(p) == request.auth # "x-api-key" \/ Owner[p] = "anthropic"

\* INPUT_REFUSALS are the buyer's to mend.
InputRefusals == {"invalid-request", "blocked-target"}
RefusalCode(why) == IF why \in InputRefusals THEN "usage" ELSE "stopped"

Discarded == key' = "nowhere"
Started == stage' = "running" /\ key' = "lent" /\ ran' = TRUE /\ UNCHANGED exit

\* Mutated form: a refusal is told before the signal is looked at.
RefusedEvenIfStopped(why) == Exit(RefusalCode(why))
Refused(why) == Exit(IF interrupts' > 0 THEN "cancelled" ELSE RefusalCode(why))

\* protocolOf() found p, or the buyer chose it.
Resolved(p) ==
    IF ~TakesAuth(p)
    THEN Refused("invalid-request") /\ UNCHANGED <<target, spending>>
    ELSE /\ target' = p
         /\ UNCHANGED agreed
         /\ \/ interrupts' > 0 /\ Exit("cancelled") /\ Discarded /\ UNCHANGED ran
            \/ interrupts' = 0 /\ yes /\ Started
            \/ /\ interrupts' = 0 /\ ~yes
               /\ stage' = "confirming" /\ key' = "held" /\ UNCHANGED <<ran, exit>>

---------------------------------------------------------------------------
(* detectProtocol(), and what protocolOf() makes of it                     *)

Unresolved(why) == Refused(why) /\ UNCHANGED <<target, spending>>

\* Promise.all waits for the last of them.
AllSucceeded(outcomes) == \A p \in Protocols : outcomes[p] \in Outcomes    \* mutated form
AllAnswered(outcomes) == \A p \in Protocols : outcomes[p] # "out"

Concluded(outcomes) ==
    LET failures == {p \in Protocols : outcomes[p] \in FailureKinds} IN
    IF ~AllAnswered(outcomes) THEN UNCHANGED <<stage, exit, target, spending>>
    ELSE IF Candidates(outcomes) # {} THEN Resolved(Detected(outcomes, request.named))
    ELSE IF \E p \in failures : outcomes[p] = "blocked-target" THEN Unresolved("blocked-target")
    ELSE IF failures = Protocols THEN Unresolved("unreachable")
    ELSE Unresolved("detection-failed")

\* A response, or none: and then the request went out or not.
Answered(p) ==
    /\ stage = "detecting" /\ attempts[p] = "out"
    /\ \/ /\ \E a \in HttpAnswers : attempts' = [attempts EXCEPT ![p] = Classify(p, a)]
          /\ wired' = wired \cup {p}
       \/ /\ attempts' = [attempts EXCEPT ![p] = "blocked-target"]
          /\ UNCHANGED wired
       \/ /\ attempts' = [attempts EXCEPT ![p] = "failed"]
          /\ wired' \in {wired, wired \cup {p}}
    /\ UNCHANGED <<asked, interrupts, report>>
    /\ Concluded(attempts')

\* A transport that rejects is a bug, told by main().
SendRejects ==
    /\ stage = "detecting"
    /\ Exit("internal")
    /\ UNCHANGED <<asked, interrupts, detection, spending, report>>

---------------------------------------------------------------------------
(* runCheck()                                                              *)

NeedsYes ==
    /\ stage = "called" /\ ~interactive /\ ~yes
    /\ Exit("usage")
    /\ UNCHANGED <<asked, interrupts, detection, spending, report>>

CancelPrompt ==
    /\ stage = "called" /\ interactive
    /\ Exit("cancelled")
    /\ UNCHANGED <<asked, interrupts, detection, spending, report>>

\* completeRequest(), and prepareCheck() up to what it awaits. A signal that came
\* before fails every request of the detection at once.
Complete ==
    /\ stage = "called" /\ (interactive \/ yes)
    /\ UNCHANGED <<asked, interrupts, report>>
    /\ \/ /\ request.problem = "shape"
          /\ Exit("usage")
          /\ UNCHANGED <<detection, spending>>
       \/ /\ request.problem = "field"
          /\ Unresolved("invalid-request")
          /\ UNCHANGED <<attempts, wired>>
       \/ /\ request.problem = "none" /\ request.protocol # "auto"
          /\ Resolved(request.protocol)
          /\ UNCHANGED <<attempts, wired>>
       \/ /\ request.problem = "none" /\ request.protocol = "auto"
          /\ attempts' = [p \in Protocols |-> IF Interrupted THEN "aborted" ELSE "out"]
          /\ UNCHANGED wired
          /\ IF Interrupted THEN Concluded(attempts')
             ELSE stage' = "detecting" /\ UNCHANGED <<exit, target, spending>>

Decline ==
    /\ stage = "confirming"
    /\ Exit("cancelled") /\ Discarded
    /\ UNCHANGED <<asked, interrupts, detection, agreed, ran, report>>

RunsThough == FALSE    \* mutated form: the signal is not looked at again
StopsThere == Interrupted

Agree ==
    /\ stage = "confirming"
    /\ agreed' = TRUE
    /\ IF StopsThere THEN Exit("cancelled") /\ Discarded /\ UNCHANGED ran ELSE Started
    /\ UNCHANGED <<asked, interrupts, detection, report>>

\* The run comes back finished, cancelled - which takes a signal - stopped or failed,
\* and a report is written out at once or to a file.
RunEnds ==
    /\ stage = "running"
    /\ key' = "nowhere"
    /\ \/ report' = "whole" /\ Exit("verdict")
       \/ report' = "partial" /\ stage' = "writing" /\ UNCHANGED exit
       \/ Interrupted /\ Exit("cancelled") /\ UNCHANGED report
       \/ Exit("stopped") /\ UNCHANGED report
       \/ Exit("internal") /\ UNCHANGED report
    /\ UNCHANGED <<asked, interrupts, detection, agreed, ran>>

Written ==
    \/ report' = "whole" /\ Exit("verdict")
    \/ UNCHANGED report /\ Exit("internal")

WriteEnds ==
    /\ stage = "writing"
    /\ Written
    /\ UNCHANGED <<asked, interrupts, detection, spending>>

---------------------------------------------------------------------------
(* bin.ts: the first signal aborts what is under way, the second exits     *)

\* The detection's requests fail, and are the last it waited for.
DetectionStops ==
    /\ attempts' = [p \in Protocols |-> IF attempts[p] = "out" THEN "aborted" ELSE attempts[p]]
    /\ wired' \in {wired \cup sent : sent \in SUBSET {p \in Protocols : attempts[p] = "out"}}
    /\ Concluded(attempts')

\* Nothing comes between the start and the first wait: a prompt, or the endpoint.
FirstSignal ==
    /\ stage # "exited" /\ interrupts = 0
    /\ stage = "called" => interactive
    /\ interrupts' = 1
    /\ IF stage = "detecting" THEN DetectionStops ELSE UNCHANGED <<stage, exit, detection, spending>>
    /\ UNCHANGED <<asked, report>>

\* What was being written may be whole.
SecondSignal ==
    /\ stage # "exited" /\ interrupts = 1
    /\ interrupts' = 2
    /\ Exit("cancelled")
    /\ report' \in IF stage = "writing" THEN {"partial", "whole"} ELSE {report}
    /\ UNCHANGED <<asked, detection, spending>>

---------------------------------------------------------------------------
Init ==
    /\ request \in Requests /\ interactive \in BOOLEAN /\ yes \in BOOLEAN
    /\ stage = "called" /\ interrupts = 0
    /\ attempts = [p \in Protocols |-> "unsent"] /\ wired = {} /\ target = "none"
    /\ agreed = FALSE /\ key = "nowhere" /\ ran = FALSE
    /\ report = "none" /\ exit = "none"

\* The terminal's part is the buyer's.
Buyer == (interactive /\ Complete) \/ CancelPrompt \/ Decline \/ Agree \/ FirstSignal \/ SecondSignal
System ==
    \/ NeedsYes \/ (~interactive /\ Complete)
    \/ \E p \in Protocols : Answered(p)
    \/ RunEnds \/ WriteEnds

Next == Buyer \/ System \/ SendRejects

Spec == Init /\ [][Next]_vars

\* Every request is answered (NodeTransport), every run ends (RunSession), and a
\* file is written or is not. The buyer may leave the terminal alone.
FairSpec == Spec /\ WF_vars(System)

---------------------------------------------------------------------------
(* Properties                                                              *)

TypeOK ==
    /\ request \in Requests /\ interactive \in BOOLEAN /\ yes \in BOOLEAN
    /\ stage \in Stages /\ interrupts \in 0..2
    /\ attempts \in [Protocols -> Attempts] /\ wired \subseteq Protocols
    /\ target \in Protocols \cup {"none"}
    /\ agreed \in BOOLEAN /\ key \in {"nowhere", "held", "lent"} /\ ran \in BOOLEAN
    /\ report \in {"none", "partial", "whole"}
    /\ exit \in ExitCodes \cup {"none"} /\ (exit = "none" <=> stage # "exited")

\* The buyer's money is spent only on a yes, and never by one that was given before
\* or while the command was told to stop.
RunsOnlyAgreed ==
    [][~ran /\ ran' => (yes \/ agreed') /\ interrupts' = 0]_vars

\* An interrupted check is told as cancelled: its failed requests are not passed off
\* as an endpoint that could not be reached, nor as input that was wrong - but for a
\* request refused before anything was asked of the signal.
InterruptIsNotBlamed ==
    exit \in {"stopped", "usage"} /\ ~ran => interrupts = 0 \/ request.problem = "shape"

\* A script that reads a verdict from the exit status has its report, and one that
\* got a report has its verdict, unless it killed the command.
VerdictHasReport ==
    stage = "exited" =>
        /\ exit = "verdict" => report = "whole"
        /\ report = "whole" => exit = "verdict" \/ interrupts = 2

\* So the exit status tells a script what became of the check.
ExitIsTrue == InterruptIsNotBlamed /\ VerdictHasReport

\* Whatever order the answers came in, the probes go where the endpoint speaks best:
\* no other route answered more like a server of its protocol, and none as well that
\* is the claimed vendor's own while this one is not.
ProbesTheBest ==
    target # "none" /\ request.protocol = "auto" =>
        /\ attempts[target] \in {"own", "foreign", "generates", "refuses"}
        /\ \A p \in Protocols :
              /\ RankOf(attempts[p]) <= RankOf(attempts[target])
              /\ attempts[p] = attempts[target] /\ Owner[p] = request.named =>
                    Owner[target] = request.named

\* A command that asks nobody ends by itself, and any other waits for its buyer only.
CommandEnds ==
    /\ <>[](stage \in {"called", "confirming", "exited"})
    /\ ~interactive => <>(stage = "exited")

\* It "prints the estimate and asks before it sends anything" (README.md:124).
NothingSentUnasked == wired # {} => yes \/ agreed
=============================================================================
