-------------------------- MODULE RunSessionProofs --------------------------
(***************************************************************************)
(* What RunSession promises, for every program of probes, every budget and *)
(* every way the endpoint may answer.                                      *)
(***************************************************************************)
EXTENDS RunSession, FiniteSetTheorems, SequenceTheorems, TLAPS

\* Requests only ever sent alone: what can stop the run, and what no probe shares.
Sole == (Requests \ Shared) \cup CanStop

ProgramPlace == at \in Planned /\ stage \in DOMAIN Program[at]

\* What is still to launch belongs to the stage, and is short of it by what was.
LaunchOrder ==
    /\ phase = "probe" => ProgramPlace
    /\ phase # "probe" => launch = <<>>
    /\ \A i \in DOMAIN launch : launch[i] \in Awaited
    /\ phase = "probe" => Len(launch) <= Len(Program[at][stage])

\* A failed fan-out leaves shared requests behind and no other: a sole request
\* under way is all that its probe waits for.
OnlySharedLinger ==
    \A r \in Sole : call[r] \in InFlight \cup {"waiting"} =>
        phase = "probe" /\ launch = <<>> /\ Awaited = {r}

\* Answers a probe can read, and stops, came from the endpoint.
DoneIsReached == \A r \in Requests : call[r] \in {"done", "stop"} => reached

\* The abort is known to the loop, or will be when the probe under way fails.
AbortIsSeen ==
    signal => \/ aborted \/ reached
              \/ phase = "probe" /\ launch = <<>> /\ \E r \in Awaited : call[r] # "done"

\* A stop was thrown, or is about to be.
StopInLog == \E i \in DOMAIN evidence : evidence[i].answer = "stop"
StopComes == phase = "probe" /\ launch = <<>> /\ \E r \in Sole : Awaited = {r} /\ call[r] = "stop"
StopCame == phase = "ended" /\ result = "stopped"
StopIsThrown == StopInLog => StopCame \/ StopComes

\* The probes recorded as the endpoint's fault, and the answers that were lost.
Blames == {i \in DOMAIN outcomes : outcomes[i] = "endpoint-error"}
Losses == {i \in DOMAIN evidence : evidence[i].answer \in {"lost", "retry"}}

\* A loss in the stage under way is one no probe was blamed for yet; what an earlier
\* probe lost is asked again before the stage waits for it.
LossIsNew ==
    phase = "probe" =>
        \A r \in Awaited : call[r] = "lost" =>
            \/ \E i \in DOMAIN launch : launch[i] = r
            \/ launch = <<>> /\ Cardinality(Blames) + 1 <= Cardinality(Losses)

ResultIsLast == phase = "ended" <=> result # "none"

IInv ==
    /\ TypeOK /\ BudgetKept /\ EvidenceAccounts
    /\ LaunchOrder /\ OnlySharedLinger
    /\ DoneIsReached /\ AbortIsSeen /\ StopIsThrown /\ ResultIsLast
    /\ AbortIsNotUnreachable
    /\ LossIsNew /\ LossBlamedOnce

---------------------------------------------------------------------------
\* The plan is finitely many probes, each with a first stage, of finitely many requests.
LEMMA ConstantFacts ==
    /\ IsFiniteSet(Requests)
    /\ Planned = 1..Len(Program) /\ Len(Program) \in Nat
    /\ \A p \in Planned : Program[p] \in Seq(Seq(Requests)) /\ Program[p] # <<>>
    /\ \A p \in Planned : \A s \in DOMAIN Program[p] :
          /\ Program[p][s] \in Seq(Requests)
          /\ RequestsOf(Program[p][s]) \subseteq Requests
          /\ RequestsOf(Program[p][s]) \cap Sole # {} => Len(Program[p][s]) = 1
    /\ Sole \subseteq Requests
<1>1. /\ Planned = 1..Len(Program) /\ Len(Program) \in Nat
      /\ \A p \in Planned : Program[p] \in Seq(Seq(Requests)) /\ Program[p] # <<>>
  BY PlanAssumption DEF Planned
<1>2. ASSUME NEW p \in Planned, NEW s \in DOMAIN Program[p]
      PROVE  /\ Program[p][s] \in Seq(Requests)
             /\ RequestsOf(Program[p][s]) \subseteq Requests
             /\ RequestsOf(Program[p][s]) \cap Sole # {} => Len(Program[p][s]) = 1
  <2>1. Program[p][s] \in Seq(Requests)
    BY <1>1
  <2>2. RequestsOf(Program[p][s]) \subseteq Requests
    BY <2>1 DEF RequestsOf
  <2>3. ASSUME RequestsOf(Program[p][s]) \cap Sole # {}
        PROVE  Len(Program[p][s]) = 1
    <3>1. ~(Len(Program[p][s]) > 1)
      BY <2>3, PlanAssumption DEF Planned, Sole
    <3>2. Len(Program[p][s]) # 0
      BY <2>1, <2>3 DEF RequestsOf
    <3>3. Len(Program[p][s]) \in Nat
      BY <2>1
    <3>4. \A n \in Nat : ~(n > 1) /\ n # 0 => n = 1
      OBVIOUS
    <3>. QED  BY <3>1, <3>2, <3>3, <3>4, Zenon
  <2>. QED  BY <2>1, <2>2, <2>3
<1>. QED  BY <1>1, <1>2, PlanAssumption DEF Sole

\* The steps of a run, one case each.
LEMMA StepCases ==
    ASSUME [Next]_vars
    PROVE  \/ Launch \/ BeginProbe \/ SkipProbe \/ NextStage \/ ProbeRan \/ ProbeThrew
           \/ ProbeFailed \/ RunStopped \/ RunReturns \/ Abort
           \/ \E r \in Requests : Answered(r) \/ Wake(r)
           \/ UNCHANGED vars
BY DEF Next, Step

\* The requests under way, as one of them goes out or comes back.
LEMMA PendingAfter ==
    ASSUME TypeOK, NEW r \in Requests, NEW x \in CallStates, call' = [call EXCEPT ![r] = x]
    PROVE  Pending' = IF x \in InFlight THEN Pending \cup {r} ELSE Pending \ {r}
BY DEF TypeOK, Pending

\* The requests under way can be counted.
LEMMA PendingIsFinite == IsFiniteSet(Pending) /\ Cardinality(Pending) \in Nat
<1>1. IsFiniteSet(Pending)
  BY ConstantFacts, FS_Subset DEF Pending
<1>. QED  BY <1>1, FS_CardinalityType

\* What attempt() does to the ledger: nothing, or one request more under way.
LEMMA AttemptLedger ==
    ASSUME TypeOK, BudgetKept, EvidenceAccounts, NEW r \in Requests, r \notin Pending,
           NEW order \in InFlight, Attempt(r, order), evidence' = evidence
    PROVE  BudgetKept' /\ EvidenceAccounts'
<1>1. CASE signal \/ ~Affordable(r)
  <2>1. Pending' = Pending
    <3>. DEFINE x == IF signal THEN "aborted" ELSE "budget"
    <3>1. call' = [call EXCEPT ![r] = x] /\ x \in {"aborted", "budget"}
      BY <1>1 DEF Attempt
    <3>2. x \in CallStates /\ x \notin InFlight
      BY DEF CallStates, Failures, InFlight
    <3>. HIDE DEF x
    <3>. QED  BY <3>1, <3>2, PendingAfter
  <2>. QED  BY <1>1, <2>1 DEF Attempt, BudgetKept, EvidenceAccounts
<1>2. CASE ~(signal \/ ~Affordable(r))
  <2>1. call' = [call EXCEPT ![r] = order] /\ Charge(r) /\ Affordable(r)
    BY <1>2 DEF Attempt
  <2>2. Pending' = Pending \cup {r}
    BY <2>1, PendingAfter DEF CallStates
  <2>3. Cardinality(Pending') = Cardinality(Pending) + 1
    BY <2>2, PendingIsFinite, FS_AddElement
  <2>4. BudgetKept'
    BY <2>1 DEF Charge, Affordable, BudgetKept
  <2>5. requests' = requests + 1
    BY <2>1 DEF Charge
  <2>6. EvidenceAccounts'
    BY <2>3, <2>5, PendingIsFinite DEF EvidenceAccounts, TypeOK
  <2>. QED  BY <2>4, <2>6
<1>. QED  BY <1>1, <1>2

\* An attempt to send keeps the types of what it writes.
LEMMA AttemptTypes ==
    ASSUME TypeOK, NEW r \in Requests, NEW order \in InFlight, Attempt(r, order)
    PROVE  /\ call' \in [Requests -> CallStates] /\ sentAt' \in [Requests -> Nat]
           /\ requests' \in Nat /\ tokens' \in Nat
           /\ \A q \in Requests \ {r} : call'[q] = call[q]
           /\ call'[r] \in InFlight \cup {"aborted", "budget"}
<1>1. CASE signal \/ ~Affordable(r)
  <2>. DEFINE x == IF signal THEN "aborted" ELSE "budget"
  <2>1. call' = [call EXCEPT ![r] = x] /\ x \in {"aborted", "budget"}
    BY <1>1 DEF Attempt
  <2>. HIDE DEF x
  <2>. QED  BY <1>1, <2>1 DEF TypeOK, Attempt, CallStates, Failures
<1>2. CASE ~(signal \/ ~Affordable(r))
  <2>1. call' = [call EXCEPT ![r] = order] /\ Charge(r)
    BY <1>2 DEF Attempt
  <2>2. Len(evidence) \in Nat /\ Cost[r] \in Nat
    BY PlanAssumption DEF TypeOK
  <2>3. requests' \in Nat /\ tokens' \in Nat /\ sentAt' \in [Requests -> Nat]
    BY <2>1, <2>2 DEF TypeOK, Charge
  <2>. QED  BY <2>1, <2>3 DEF TypeOK, CallStates
<1>. QED  BY <1>1, <1>2

---------------------------------------------------------------------------
\* The stage a probe starts with, or goes on to.
LEMMA StageIsSeq ==
    ASSUME NEW p \in Planned, NEW s \in DOMAIN Program[p]
    PROVE  /\ Program[p][s] \in Seq(Requests)
           /\ s \in Nat \ {0}
           /\ Len(Program[p]) \in Nat /\ DOMAIN Program[p] = 1..Len(Program[p])
BY ConstantFacts

\* Every probe has a first stage.
LEMMA FirstStage == \A p \in Planned : 1 \in DOMAIN Program[p]
BY ConstantFacts

\* A probe that settles adds its outcome and moves the run to the next.
LEMMA OutcomeAppended ==
    ASSUME TypeOK, NEW reason \in Reasons, Settled(reason)
    PROVE  outcomes' \in Seq(Reasons) /\ at' \in Nat \ {0} /\ phase' = "next"
BY DEF TypeOK, Settled

\* So does one that is skipped.
LEMMA SkipFacts ==
    ASSUME TypeOK, NEW reason \in Reasons, Skip(reason)
    PROVE  /\ outcomes' \in Seq(Reasons) /\ at' \in Nat \ {0} /\ phase' = "next"
           /\ aborted' \in BOOLEAN
           /\ aborted => aborted'
           /\ signal => aborted'
           /\ signal => outcomes' = Append(outcomes, "aborted")
<1>1. SkipReason(reason) \in Reasons
  BY DEF SkipReason, Reasons
<1>2. Settled(SkipReason(reason)) /\ aborted' = (aborted \/ SkipReason(reason) = "aborted")
  BY DEF Skip
<1>3. signal => SkipReason(reason) = "aborted"
  BY DEF SkipReason
<1>. QED  BY <1>1, <1>2, <1>3, OutcomeAppended DEF TypeOK, Settled

\* What a probe that threw does, whatever it threw.
LEMMA Skips ==
    ASSUME TypeOK, ProbeThrew \/ ProbeFailed
    PROVE  /\ \E reason \in Reasons : Skip(reason)
           /\ phase = "probe" /\ launch = <<>>
           /\ StageDone \/ StageFailed
           /\ UNCHANGED <<stage, launch, sessionVars, signal, result>>
<1>1. CASE ProbeThrew
  BY <1>1 DEF ProbeThrew, StageDone, Reasons
<1>2. CASE ProbeFailed
  <2>1. PICK r \in Awaited : call[r] \in Failures \ Stopping /\ Skip(ReasonOf(call[r]))
    BY <1>2 DEF ProbeFailed
  <2>2. ReasonOf(call[r]) \in Reasons
    BY <2>1 DEF ReasonOf, Failures, Stopping, Reasons
  <2>. QED  BY <1>2, <2>1, <2>2 DEF ProbeFailed, StageFailed
<1>. QED  BY <1>1, <1>2

\* A skipped probe keeps the types.
LEMMA SkipsType ==
    ASSUME TypeOK, ProbeThrew \/ ProbeFailed
    PROVE  TypeOK'
<1>1. PICK reason \in Reasons : Skip(reason)
  BY Skips
<1>2. UNCHANGED <<stage, launch, sessionVars, signal, result>>
  BY Skips
<1>. QED  BY <1>1, <1>2, SkipFacts DEF TypeOK, sessionVars

\* What an answer writes, whatever it is.
LEMMA AnsweredFacts ==
    ASSUME TypeOK, NEW r \in Requests, Answered(r)
    PROVE  \E answer \in Answers, reaches \in BOOLEAN :
              /\ MayAnswer(r, answer) /\ MayReach(answer, reaches)
              /\ evidence' = Append(evidence, [sent |-> sentAt[r], answer |-> answer])
              /\ reached' = (reached \/ reaches)
              /\ call' = [call EXCEPT ![r] = AfterAnswer(r, answer)]
              /\ AfterAnswer(r, answer) \in CallStates \ InFlight
              /\ AfterAnswer(r, answer) \in {"done", "stop"} => AfterAnswer(r, answer) = answer
              /\ answer = "stop" => AfterAnswer(r, answer) = "stop"
<1>1. PICK answer \in Answers, reaches \in BOOLEAN :
          /\ MayAnswer(r, answer) /\ MayReach(answer, reaches)
          /\ evidence' = Recorded(r, answer)
          /\ reached' = (reached \/ reaches)
          /\ call' = [call EXCEPT ![r] = AfterAnswer(r, answer)]
  BY DEF Answered
<1>2. /\ AfterAnswer(r, answer) \in CallStates \ InFlight
      /\ AfterAnswer(r, answer) \in {"done", "stop"} => AfterAnswer(r, answer) = answer
      /\ answer = "stop" => AfterAnswer(r, answer) = "stop"
  BY DEF AfterAnswer, Answers, CallStates, InFlight, Failures
<1>. QED  BY <1>1, <1>2 DEF Recorded

\* Every step keeps the types.
LEMMA TypeStep ==
    ASSUME TypeOK, LaunchOrder, [Next]_vars
    PROVE  TypeOK'
<1>1. CASE Launch
  <2>1. launch' \in Seq(Requests) /\ Head(launch) \in Requests
    BY <1>1 DEF TypeOK, Launch
  <2>2. CASE Cached(Head(launch))
    BY <1>1, <2>1, <2>2 DEF TypeOK, Launch, endVars
  <2>3. CASE ~Cached(Head(launch))
    <3>1. Attempt(Head(launch), "first")
      BY <1>1, <2>3 DEF Launch
    <3>. QED  BY <1>1, <2>1, <3>1, AttemptTypes DEF TypeOK, Launch, endVars, InFlight
  <2>. QED  BY <2>2, <2>3
<1>2. CASE BeginProbe
  <2>1. launch' \in Seq(Requests)
    BY <1>2, StageIsSeq, FirstStage DEF BeginProbe
  <2>. QED  BY <1>2, <2>1 DEF TypeOK, BeginProbe, sessionVars, endVars
<1>3. CASE SkipProbe
  <2>1. Settled("aborted") /\ "aborted" \in Reasons
    BY <1>3 DEF SkipProbe, Reasons
  <2>. QED  BY <1>3, <2>1, OutcomeAppended DEF TypeOK, SkipProbe, sessionVars
<1>4. CASE NextStage
  <2>1. at \in Planned /\ stage + 1 \in DOMAIN Program[at]
    BY <1>4, ConstantFacts DEF NextStage, StageDone, LaunchOrder, ProgramPlace, TypeOK
  <2>2. launch' \in Seq(Requests)
    BY <1>4, <2>1, StageIsSeq DEF NextStage
  <2>. QED  BY <1>4, <2>2 DEF TypeOK, NextStage, sessionVars, endVars
<1>5. CASE ProbeRan
  <2>1. Settled("ran") /\ "ran" \in Reasons
    BY <1>5 DEF ProbeRan, Reasons
  <2>. QED  BY <1>5, <2>1, OutcomeAppended DEF TypeOK, ProbeRan, sessionVars
<1>6. CASE ProbeThrew \/ ProbeFailed
  BY <1>6, SkipsType
<1>7. CASE RunStopped
  BY <1>7 DEF TypeOK, RunStopped, sessionVars
<1>8. CASE RunReturns
  BY <1>8 DEF TypeOK, RunReturns, sessionVars
<1>9. CASE Abort
  BY <1>9 DEF TypeOK, Abort, loopVars, sessionVars, endVars
<1>10. ASSUME NEW r \in Requests, Answered(r) PROVE TypeOK'
  <2>1. UNCHANGED <<loopVars, sentAt, requests, tokens, signal, endVars>>
    BY <1>10 DEF Answered
  <2>2. PICK answer \in Answers, reaches \in BOOLEAN :
              /\ evidence' = Append(evidence, [sent |-> sentAt[r], answer |-> answer])
              /\ reached' = (reached \/ reaches)
              /\ call' = [call EXCEPT ![r] = AfterAnswer(r, answer)]
              /\ AfterAnswer(r, answer) \in CallStates \ InFlight
    BY <1>10, AnsweredFacts
  <2>3. evidence' \in Seq(EntryType)
    <3>. DEFINE entry == [sent |-> sentAt[r], answer |-> answer]
    <3>1. entry \in EntryType
      BY DEF TypeOK, EntryType
    <3>. HIDE DEF entry
    <3>. QED  BY <2>2, <3>1 DEF TypeOK, entry
  <2>4. call' \in [Requests -> CallStates]
    BY <2>2 DEF TypeOK
  <2>. QED  BY <2>1, <2>2, <2>3, <2>4 DEF TypeOK, loopVars, endVars
<1>11. ASSUME NEW r \in Requests, Wake(r) PROVE TypeOK'
  <2>1. Attempt(r, "second") /\ "second" \in InFlight
    BY <1>11 DEF Wake, InFlight
  <2>. QED  BY <1>11, <2>1, AttemptTypes DEF TypeOK, Wake, loopVars, endVars
<1>12. CASE UNCHANGED vars
  BY <1>12 DEF TypeOK, vars, loopVars, sessionVars, endVars
<1>. QED  BY StepCases, <1>1, <1>2, <1>3, <1>4, <1>5, <1>6, <1>7, <1>8, <1>9, <1>10, <1>11, <1>12

---------------------------------------------------------------------------
\* Two ways a step leaves the probe: to the next one, or to the end of the run.
LEMMA OrderStep ==
    ASSUME TypeOK, LaunchOrder, [Next]_vars
    PROVE  LaunchOrder'
<1>1. CASE Launch
  <2>1. /\ phase' = phase /\ at' = at /\ stage' = stage
        /\ launch # <<>> /\ launch' = Tail(launch) /\ launch \in Seq(Requests)
    BY <1>1 DEF Launch, TypeOK
  <2>2. /\ Len(launch') = Len(launch) - 1 /\ Len(launch) \in Nat
        /\ \A i \in DOMAIN launch' : i + 1 \in DOMAIN launch /\ launch'[i] = launch[i + 1]
    BY <2>1
  <2>3. phase = "probe" /\ at \in Planned /\ stage \in DOMAIN Program[at]
    BY <2>1 DEF LaunchOrder, ProgramPlace
  <2>4. Len(Program[at][stage]) \in Nat
    BY <2>3, StageIsSeq
  <2>5. Awaited' = Awaited
    BY <2>1 DEF Awaited
  <2>6. \A i \in DOMAIN launch' : launch'[i] \in Awaited'
    BY <2>2, <2>5 DEF LaunchOrder
  <2>7. Len(launch') <= Len(Program[at'][stage'])
    BY <2>1, <2>2, <2>3, <2>4 DEF LaunchOrder
  <2>. QED  BY <2>1, <2>3, <2>6, <2>7 DEF LaunchOrder, ProgramPlace
<1>2. ASSUME phase' = "probe", at' \in Planned, stage' \in DOMAIN Program[at'],
             launch' = Program[at'][stage']
      PROVE  LaunchOrder'
  <2>1. launch' \in Seq(Requests)
    BY <1>2, StageIsSeq
  <2>2. \A i \in DOMAIN launch' : launch'[i] \in Awaited'
    BY <1>2 DEF Awaited, RequestsOf
  <2>. QED  BY <1>2, <2>1, <2>2 DEF LaunchOrder, ProgramPlace
<1>3. CASE BeginProbe
  BY <1>3, <1>2, FirstStage DEF BeginProbe
<1>4. CASE NextStage
  <2>1. at \in Planned /\ stage + 1 \in DOMAIN Program[at]
    BY <1>4, ConstantFacts DEF NextStage, StageDone, LaunchOrder, ProgramPlace, TypeOK
  <2>. QED  BY <1>4, <2>1, <1>2 DEF NextStage, StageDone
<1>5. ASSUME phase' # "probe", launch' = <<>>
      PROVE  LaunchOrder'
  BY <1>5 DEF LaunchOrder
<1>6. CASE SkipProbe \/ ProbeRan
  BY <1>6, <1>5 DEF SkipProbe, ProbeRan, Settled, StageDone, LaunchOrder
<1>7. CASE ProbeThrew \/ ProbeFailed
  <2>1. PICK reason \in Reasons : Skip(reason)
    BY <1>7, Skips
  <2>. QED  BY <1>5, <1>7, <2>1, Skips, SkipFacts
<1>8. CASE RunStopped \/ RunReturns
  BY <1>8, <1>5 DEF RunStopped, RunReturns, StageFailed, LaunchOrder
<1>9. ASSUME UNCHANGED loopVars
      PROVE  LaunchOrder'
  BY <1>9 DEF loopVars, LaunchOrder, ProgramPlace, Awaited
<1>10. CASE Abort \/ (\E r \in Requests : Answered(r) \/ Wake(r)) \/ UNCHANGED vars
  BY <1>10, <1>9 DEF Abort, Answered, Wake, vars
<1>. QED  BY StepCases, <1>1, <1>3, <1>4, <1>6, <1>7, <1>8, <1>10

\* A sole request the program is to launch is all its stage holds.
LEMMA SoleIsAlone ==
    ASSUME TypeOK, LaunchOrder, phase = "probe", NEW r \in Awaited, r \in Sole
    PROVE  Awaited = {r} /\ Len(Program[at][stage]) = 1
<1>1. at \in Planned /\ stage \in DOMAIN Program[at]
  BY DEF LaunchOrder, ProgramPlace
<1>2. Len(Program[at][stage]) = 1 /\ Program[at][stage] \in Seq(Requests)
  BY <1>1, ConstantFacts DEF Awaited
<1>. QED  BY <1>2 DEF Awaited, RequestsOf

\* Launching one request, or finding it cached: it is of the stage, and a sole
\* one leaves nothing else to launch.
LEMMA LaunchFacts ==
    ASSUME TypeOK, LaunchOrder, OnlySharedLinger, Launch
    PROVE  /\ Head(launch) \in Requests /\ Head(launch) \in Awaited
           /\ phase = "probe" /\ Awaited' = Awaited
           /\ Head(launch) \in Sole => launch' = <<>> /\ Awaited = {Head(launch)}
           /\ ~Cached(Head(launch)) => Head(launch) \notin Pending
<1>1. launch # <<>> /\ launch \in Seq(Requests) /\ launch' = Tail(launch)
  BY DEF TypeOK, Launch
<1>2. 1 \in DOMAIN launch /\ Head(launch) = launch[1]
  BY <1>1
<1>3. Head(launch) \in Requests /\ Head(launch) \in Awaited /\ phase = "probe"
  BY <1>1, <1>2 DEF LaunchOrder
<1>4. Awaited' = Awaited
  BY DEF Launch, Awaited
<1>5. ASSUME Head(launch) \in Sole
      PROVE  launch' = <<>> /\ Awaited = {Head(launch)}
  <2>1. Awaited = {Head(launch)} /\ Len(Program[at][stage]) = 1
    BY <1>3, <1>5, SoleIsAlone
  <2>2. Len(launch) <= 1
    BY <1>3, <2>1 DEF LaunchOrder
  <2>. QED  BY <1>1, <2>1, <2>2
<1>6. ASSUME ~Cached(Head(launch)), Head(launch) \in Pending
      PROVE  FALSE
  <2>1. Head(launch) \in Sole /\ call[Head(launch)] \in InFlight
    BY <1>3, <1>6 DEF Cached, Sole, Pending
  <2>. QED  BY <1>1, <2>1 DEF OnlySharedLinger
<1>. QED  BY <1>3, <1>4, <1>5, <1>6

\* Before it asks for more, or ends, a probe has its sole request answered.
LEMMA SoleIsAnswered ==
    ASSUME OnlySharedLinger, phase # "probe" \/ StageDone \/ StageFailed, NEW q \in Sole
    PROVE  call[q] \notin InFlight \cup {"waiting"}
<1>. SUFFICES ASSUME call[q] \in InFlight \cup {"waiting"} PROVE FALSE
  OBVIOUS
<1>1. phase = "probe" /\ launch = <<>> /\ Awaited = {q}
  BY DEF OnlySharedLinger
<1>2. call[q] \notin Failures /\ call[q] # "done"
  BY DEF InFlight, Failures
<1>. QED  BY <1>1, <1>2 DEF StageDone, StageFailed

\* Wake sends the retry, unless the budget or the signal refuses it.
LEMMA WakeFacts ==
    ASSUME TypeOK, NEW r \in Requests, Wake(r)
    PROVE  /\ Attempt(r, "second") /\ "second" \in InFlight /\ r \notin Pending
           /\ call[r] = "waiting"
           /\ UNCHANGED <<loopVars, evidence, reached, signal, endVars>>
BY DEF Wake, Pending, InFlight

\* A step of the loop that sends nothing comes when nothing sole is under way.
LEMMA LoopStep ==
    ASSUME TypeOK,
           BeginProbe \/ SkipProbe \/ NextStage \/ ProbeRan \/ ProbeThrew \/ ProbeFailed
              \/ RunStopped \/ RunReturns
    PROVE  /\ phase # "probe" \/ StageDone \/ StageFailed
           /\ UNCHANGED <<sessionVars, signal>>
<1>1. CASE BeginProbe \/ SkipProbe \/ RunReturns
  BY <1>1 DEF BeginProbe, SkipProbe, RunReturns
<1>2. CASE NextStage \/ ProbeRan \/ RunStopped
  BY <1>2 DEF NextStage, ProbeRan, RunStopped
<1>3. CASE ProbeThrew \/ ProbeFailed
  BY <1>3, Skips
<1>. QED  BY <1>1, <1>2, <1>3

\* A request left under way by a probe that ended is one that another shares.
LEMMA LingerStep ==
    ASSUME TypeOK, LaunchOrder, OnlySharedLinger, [Next]_vars
    PROVE  OnlySharedLinger'
<1>. SUFFICES ASSUME NEW q \in Sole, call'[q] \in InFlight \cup {"waiting"}
              PROVE  phase' = "probe" /\ launch' = <<>> /\ Awaited' = {q}
  BY DEF OnlySharedLinger, Sole
<1>1. q \in Requests
  BY ConstantFacts
<1>2. ASSUME UNCHANGED loopVars, call[q] \in InFlight \cup {"waiting"}
      PROVE  phase' = "probe" /\ launch' = <<>> /\ Awaited' = {q}
  BY <1>2 DEF OnlySharedLinger, loopVars, Awaited
<1>3. CASE Launch
  <2>1. call'[q] # call[q] => q = Head(launch)
    <3>1. CASE Cached(Head(launch))
      BY <1>3, <3>1 DEF Launch
    <3>2. CASE ~Cached(Head(launch))
      BY <1>1, <1>3, <3>2, LaunchFacts, AttemptTypes DEF Launch, InFlight
    <3>. QED  BY <3>1, <3>2
  <2>2. call[q] \notin InFlight \cup {"waiting"}
    BY <1>3 DEF Launch, OnlySharedLinger
  <2>3. q = Head(launch)
    BY <2>1, <2>2
  <2>. QED  BY <1>3, <2>3, LaunchFacts DEF Launch
<1>4. CASE BeginProbe \/ SkipProbe \/ NextStage \/ ProbeRan \/ ProbeThrew \/ ProbeFailed
              \/ RunStopped \/ RunReturns
  <2>1. UNCHANGED call
    BY <1>4, LoopStep DEF sessionVars
  <2>. QED  BY <1>4, <2>1, LoopStep, SoleIsAnswered
<1>5. CASE Abort \/ UNCHANGED vars
  BY <1>2, <1>5 DEF Abort, vars, loopVars, sessionVars
<1>6. ASSUME NEW r \in Requests, Answered(r)
      PROVE  phase' = "probe" /\ launch' = <<>> /\ Awaited' = {q}
  <2>1. call[r] \in InFlight /\ UNCHANGED loopVars
    BY <1>6 DEF Answered
  <2>2. call'[q] # call[q] => q = r
    BY <1>1, <1>6, AnsweredFacts DEF TypeOK
  <2>. QED  BY <1>2, <2>1, <2>2
<1>7. ASSUME NEW r \in Requests, Wake(r)
      PROVE  phase' = "probe" /\ launch' = <<>> /\ Awaited' = {q}
  <2>1. call'[q] # call[q] => q = r
    BY <1>1, <1>7, WakeFacts, AttemptTypes
  <2>. QED  BY <1>2, <1>7, <2>1, WakeFacts
<1>. QED  BY StepCases, <1>3, <1>4, <1>5, <1>6, <1>7

---------------------------------------------------------------------------
\* An answer takes one request from those under way and puts one entry in the log.
LEMMA LedgerStep ==
    ASSUME TypeOK, LaunchOrder, OnlySharedLinger, BudgetKept, EvidenceAccounts, [Next]_vars
    PROVE  BudgetKept' /\ EvidenceAccounts'
<1>1. ASSUME UNCHANGED <<call, requests, tokens, evidence>>
      PROVE  BudgetKept' /\ EvidenceAccounts'
  BY <1>1 DEF BudgetKept, EvidenceAccounts, Pending
<1>2. CASE Launch
  <2>1. CASE Cached(Head(launch))
    BY <1>1, <1>2, <2>1 DEF Launch
  <2>2. CASE ~Cached(Head(launch))
    <3>1. Attempt(Head(launch), "first") /\ evidence' = evidence
      BY <1>2, <2>2 DEF Launch
    <3>. QED  BY <1>2, <2>2, <3>1, LaunchFacts, AttemptLedger DEF InFlight
  <2>. QED  BY <2>1, <2>2
<1>3. CASE BeginProbe \/ SkipProbe \/ NextStage \/ ProbeRan \/ ProbeThrew \/ ProbeFailed
              \/ RunStopped \/ RunReturns
  BY <1>1, <1>3, LoopStep DEF sessionVars
<1>4. CASE Abort \/ UNCHANGED vars
  BY <1>1, <1>4 DEF Abort, vars, sessionVars
<1>5. ASSUME NEW r \in Requests, Answered(r)
      PROVE  BudgetKept' /\ EvidenceAccounts'
  <2>1. PICK answer \in Answers :
            /\ evidence' = Append(evidence, [sent |-> sentAt[r], answer |-> answer])
            /\ call' = [call EXCEPT ![r] = AfterAnswer(r, answer)]
            /\ AfterAnswer(r, answer) \in CallStates \ InFlight
    BY <1>5, AnsweredFacts
  <2>2. r \in Pending /\ UNCHANGED <<requests, tokens>>
    BY <1>5 DEF Answered, Pending
  <2>3. Pending' = Pending \ {r}
    BY <2>1, PendingAfter
  <2>4. Cardinality(Pending') = Cardinality(Pending) - 1
    BY <2>2, <2>3, PendingIsFinite, FS_RemoveElement
  <2>5. Len(evidence') = Len(evidence) + 1 /\ Len(evidence) \in Nat
    <3>. DEFINE entry == [sent |-> sentAt[r], answer |-> answer]
    <3>1. entry \in EntryType
      BY DEF TypeOK, EntryType
    <3>2. evidence' = Append(evidence, entry)
      BY <2>1
    <3>. HIDE DEF entry
    <3>. QED  BY <3>1, <3>2 DEF TypeOK
  <2>. QED  BY <2>2, <2>4, <2>5, PendingIsFinite DEF BudgetKept, EvidenceAccounts, TypeOK
<1>6. ASSUME NEW r \in Requests, Wake(r)
      PROVE  BudgetKept' /\ EvidenceAccounts'
  BY <1>6, WakeFacts, AttemptLedger
<1>. QED  BY StepCases, <1>2, <1>3, <1>4, <1>5, <1>6

---------------------------------------------------------------------------
\* A response the program reads, or ends the run on, reached the endpoint first.
LEMMA ReachedStep ==
    ASSUME TypeOK, LaunchOrder, OnlySharedLinger, DoneIsReached, [Next]_vars
    PROVE  DoneIsReached'
<1>. SUFFICES ASSUME NEW q \in Requests, call'[q] \in {"done", "stop"}
              PROVE  reached'
  BY DEF DoneIsReached
<1>1. ASSUME call'[q] = call[q], reached => reached'
      PROVE  reached'
  BY <1>1 DEF DoneIsReached
<1>2. CASE Launch
  <2>1. UNCHANGED reached
    BY <1>2 DEF Launch
  <2>2. CASE Cached(Head(launch))
    BY <1>1, <1>2, <2>1, <2>2 DEF Launch
  <2>3. CASE ~Cached(Head(launch))
    <3>1. call'[q] = call[q] \/ call'[q] \in InFlight \cup {"aborted", "budget"}
      BY <1>2, <2>3, LaunchFacts, AttemptTypes DEF Launch, InFlight
    <3>. QED  BY <1>1, <2>1, <3>1 DEF InFlight
  <2>. QED  BY <2>2, <2>3
<1>3. CASE BeginProbe \/ SkipProbe \/ NextStage \/ ProbeRan \/ ProbeThrew \/ ProbeFailed
              \/ RunStopped \/ RunReturns
  BY <1>1, <1>3, LoopStep DEF sessionVars
<1>4. CASE Abort \/ UNCHANGED vars
  BY <1>1, <1>4 DEF Abort, vars, sessionVars
<1>5. ASSUME NEW r \in Requests, Answered(r)
      PROVE  reached'
  <2>1. PICK answer \in Answers, reaches \in BOOLEAN :
            /\ MayReach(answer, reaches) /\ reached' = (reached \/ reaches)
            /\ call' = [call EXCEPT ![r] = AfterAnswer(r, answer)]
            /\ AfterAnswer(r, answer) \in {"done", "stop"} => AfterAnswer(r, answer) = answer
    BY <1>5, AnsweredFacts
  <2>2. CASE q = r
    <3>1. answer \in {"done", "stop"}
      BY <2>1, <2>2 DEF TypeOK
    <3>. QED  BY <2>1, <3>1 DEF MayReach
  <2>3. CASE q # r
    BY <1>1, <2>1, <2>3 DEF TypeOK
  <2>. QED  BY <2>2, <2>3
<1>6. ASSUME NEW r \in Requests, Wake(r)
      PROVE  reached'
  <2>1. UNCHANGED reached /\ (call'[q] = call[q] \/ call'[q] \in InFlight \cup {"aborted", "budget"})
    BY <1>6, WakeFacts, AttemptTypes
  <2>. QED  BY <1>1, <2>1 DEF InFlight
<1>. QED  BY StepCases, <1>2, <1>3, <1>4, <1>5, <1>6

\* The result is written by the last step only.
LEMMA ResultStep ==
    ASSUME TypeOK, ResultIsLast, [Next]_vars
    PROVE  ResultIsLast'
<1>1. ASSUME UNCHANGED <<phase, result>>
      PROVE  ResultIsLast'
  BY <1>1 DEF ResultIsLast
<1>2. ASSUME phase # "ended", phase' # "ended", UNCHANGED result
      PROVE  ResultIsLast'
  BY <1>2 DEF ResultIsLast
<1>3. CASE Launch \/ NextStage \/ Abort \/ UNCHANGED vars
  BY <1>1, <1>3 DEF Launch, NextStage, Abort, vars, loopVars, endVars
<1>4. CASE BeginProbe \/ SkipProbe \/ ProbeRan
  BY <1>2, <1>4 DEF BeginProbe, SkipProbe, ProbeRan, StageDone, Settled, endVars
<1>5. CASE ProbeThrew \/ ProbeFailed
  BY <1>2, <1>5, Skips, SkipFacts
<1>6. CASE RunStopped \/ RunReturns
  BY <1>6 DEF RunStopped, RunReturns, ResultIsLast
<1>7. CASE \E r \in Requests : Answered(r) \/ Wake(r)
  BY <1>1, <1>7 DEF Answered, Wake, loopVars, endVars
<1>. QED  BY StepCases, <1>3, <1>4, <1>5, <1>6, <1>7

\* A stage awaits requests of the plan only.
LEMMA AwaitedIsAsked ==
    ASSUME LaunchOrder, phase = "probe"
    PROVE  Awaited \subseteq Requests
BY ConstantFacts DEF LaunchOrder, ProgramPlace, Awaited

\* An abort is seen by the loop before it goes on.
LEMMA AbortStep ==
    ASSUME TypeOK, LaunchOrder, DoneIsReached, DoneIsReached', AbortIsSeen, [Next]_vars
    PROVE  AbortIsSeen'
<1>. SUFFICES ASSUME signal' PROVE AbortIsSeen'
  BY DEF AbortIsSeen
<1>1. ASSUME aborted \/ reached, aborted => aborted', reached => reached'
      PROVE  AbortIsSeen'
  BY <1>1 DEF AbortIsSeen
<1>2. CASE Launch
  BY <1>1, <1>2 DEF Launch, AbortIsSeen, endVars
<1>3. CASE BeginProbe \/ SkipProbe
  BY <1>3 DEF BeginProbe, SkipProbe, AbortIsSeen
<1>4. CASE NextStage \/ ProbeRan
  <2>1. signal /\ StageDone /\ UNCHANGED <<aborted, reached>>
    BY <1>4 DEF NextStage, ProbeRan, sessionVars, endVars
  <2>. QED  BY <1>1, <2>1 DEF StageDone, AbortIsSeen
<1>5. CASE ProbeThrew \/ ProbeFailed
  <2>1. signal
    BY <1>5, Skips
  <2>. QED  BY <1>5, <2>1, Skips, SkipFacts DEF AbortIsSeen
<1>6. CASE RunStopped
  <2>1. StageFailed /\ UNCHANGED <<aborted, reached>> /\ \E r \in Awaited : call[r] = "stop"
    BY <1>6 DEF RunStopped, Stopping, sessionVars
  <2>2. reached
    BY <2>1, AwaitedIsAsked DEF StageFailed, DoneIsReached
  <2>. QED  BY <1>1, <2>1, <2>2
<1>7. CASE RunReturns
  BY <1>1, <1>7 DEF RunReturns, AbortIsSeen, sessionVars
<1>8. CASE Abort
  <2>1. phase = "probe" /\ launch = <<>> /\ ~StageDone /\ UNCHANGED <<loopVars, call>>
    BY <1>8 DEF Abort, Quiet, TypeOK, sessionVars
  <2>. QED  BY <2>1 DEF StageDone, AbortIsSeen, loopVars, Awaited
<1>9. ASSUME signal, UNCHANGED <<loopVars, aborted>>, reached => reached'
      PROVE  AbortIsSeen'
  <2>1. CASE aborted \/ reached
    BY <1>1, <1>9, <2>1
  <2>2. CASE ~(aborted \/ reached)
    <3>1. phase = "probe" /\ launch = <<>> /\ \E r \in Awaited : call[r] # "done"
      BY <1>9, <2>2 DEF AbortIsSeen
    <3>2. PICK r \in Awaited : call[r] # "done"
      BY <3>1
    <3>3. r \in Requests
      BY <3>1, <3>2, AwaitedIsAsked
    <3>4. call'[r] = "done" => reached'
      BY <3>3 DEF DoneIsReached
    <3>5. r \in Awaited'
      BY <1>9 DEF loopVars, Awaited
    <3>. QED  BY <1>9, <3>1, <3>4, <3>5 DEF AbortIsSeen, loopVars
  <2>. QED  BY <2>1, <2>2
<1>10. CASE \E r \in Requests : Answered(r) \/ Wake(r)
  <2>1. UNCHANGED <<signal, loopVars, aborted>>
    BY <1>10 DEF Answered, Wake, endVars
  <2>2. ASSUME reached PROVE reached'
    <3>1. ASSUME NEW r \in Requests, Answered(r) PROVE reached'
      BY <2>2, <3>1, AnsweredFacts
    <3>. QED  BY <1>10, <2>2, <3>1, WakeFacts
  <2>. QED  BY <1>9, <2>1, <2>2
<1>11. CASE UNCHANGED vars
  BY <1>9, <1>11 DEF vars, endVars, sessionVars
<1>. QED  BY StepCases, <1>2, <1>3, <1>4, <1>5, <1>6, <1>7, <1>8, <1>10, <1>11

\* An aborted run is not told as one out of reach.
LEMMA UnreachableStep ==
    ASSUME TypeOK, ResultIsLast, AbortIsSeen, AbortIsNotUnreachable, [Next]_vars
    PROVE  AbortIsNotUnreachable'
<1>1. ASSUME UNCHANGED <<signal, result>>
      PROVE  AbortIsNotUnreachable'
  BY <1>1 DEF AbortIsNotUnreachable
<1>2. CASE RunReturns
  BY <1>2 DEF RunReturns, AbortIsSeen, AbortIsNotUnreachable
<1>3. CASE RunStopped
  BY <1>3 DEF RunStopped, AbortIsNotUnreachable
<1>4. CASE Abort
  BY <1>4 DEF Abort, endVars, ResultIsLast, AbortIsNotUnreachable
<1>5. CASE ProbeThrew \/ ProbeFailed
  BY <1>1, <1>5, Skips
<1>6. CASE Launch \/ BeginProbe \/ SkipProbe \/ NextStage \/ ProbeRan \/ UNCHANGED vars
  BY <1>1, <1>6 DEF Launch, BeginProbe, SkipProbe, NextStage, ProbeRan, vars, endVars
<1>7. CASE \E r \in Requests : Answered(r) \/ Wake(r)
  BY <1>1, <1>7 DEF Answered, Wake, endVars
<1>. QED  BY StepCases, <1>2, <1>3, <1>4, <1>5, <1>6, <1>7

---------------------------------------------------------------------------
\* A stop that is about to be thrown is what the next step of the loop throws.
LEMMA StopComesStep ==
    ASSUME TypeOK, StopComes, [Next]_vars
    PROVE  StopComes' \/ StopCame'
<1>1. PICK r \in Sole : Awaited = {r} /\ call[r] = "stop"
  BY DEF StopComes
<1>2. r \in Requests
  BY <1>1, ConstantFacts
<1>3. StageFailed /\ ~StageDone /\ phase = "probe" /\ launch = <<>>
  BY <1>1 DEF StopComes, StageFailed, StageDone, Failures
<1>4. ASSUME UNCHANGED loopVars, call'[r] = "stop"
      PROVE  StopComes'
  BY <1>1, <1>3, <1>4 DEF StopComes, loopVars, Awaited
<1>5. CASE Launch \/ BeginProbe \/ SkipProbe \/ NextStage \/ ProbeRan \/ RunReturns
  BY <1>3, <1>5 DEF Launch, BeginProbe, SkipProbe, NextStage, ProbeRan, RunReturns
<1>6. CASE ProbeThrew
  BY <1>3, <1>6 DEF ProbeThrew
<1>7. CASE ProbeFailed
  BY <1>1, <1>7 DEF ProbeFailed, Stopping
<1>8. CASE RunStopped
  BY <1>8 DEF RunStopped, StopCame
<1>9. CASE Abort \/ UNCHANGED vars
  BY <1>1, <1>4, <1>9 DEF Abort, vars, sessionVars
<1>10. ASSUME NEW q \in Requests, Answered(q) \/ Wake(q)
       PROVE  StopComes'
  <2>1. ~Quiet
    BY <1>3 DEF Quiet
  <2>. QED  BY <1>10, <2>1 DEF Answered, Wake
<1>. QED  BY StepCases, <1>5, <1>6, <1>7, <1>8, <1>9, <1>10

\* A run that ended with a stop keeps it.
LEMMA StopCameStep ==
    ASSUME TypeOK, LaunchOrder, StopCame, [Next]_vars
    PROVE  StopCame'
<1>1. phase = "ended" /\ result = "stopped" /\ launch = <<>>
  BY DEF StopCame, LaunchOrder
<1>2. ~StageDone /\ ~StageFailed
  BY <1>1 DEF StageDone, StageFailed
<1>3. CASE Launch \/ BeginProbe \/ SkipProbe \/ NextStage \/ ProbeRan \/ RunStopped \/ RunReturns
  BY <1>1, <1>2, <1>3 DEF Launch, BeginProbe, SkipProbe, NextStage, ProbeRan, RunStopped, RunReturns
<1>4. CASE ProbeThrew \/ ProbeFailed
  BY <1>2, <1>4 DEF ProbeThrew, ProbeFailed
<1>5. CASE Abort \/ UNCHANGED vars
  BY <1>5 DEF Abort, vars, loopVars, endVars, StopCame
<1>6. CASE \E r \in Requests : Answered(r) \/ Wake(r)
  BY <1>6 DEF Answered, Wake, loopVars, endVars, StopCame
<1>. QED  BY StepCases, <1>3, <1>4, <1>5, <1>6

\* A stop in the log is thrown by the probe that has it or was told.
LEMMA StopStep ==
    ASSUME TypeOK, LaunchOrder, OnlySharedLinger, StopIsThrown, [Next]_vars
    PROVE  StopIsThrown'
<1>1. CASE StopInLog
  BY <1>1, StopComesStep, StopCameStep DEF StopIsThrown
<1>2. ASSUME ~StopInLog, evidence' = evidence
      PROVE  StopIsThrown'
  BY <1>2 DEF StopIsThrown, StopInLog
<1>3. ASSUME ~StopInLog, NEW r \in Requests, Answered(r)
      PROVE  StopIsThrown'
  <2>1. PICK answer \in Answers :
            /\ MayAnswer(r, answer)
            /\ evidence' = Append(evidence, [sent |-> sentAt[r], answer |-> answer])
            /\ call' = [call EXCEPT ![r] = AfterAnswer(r, answer)]
            /\ answer = "stop" => AfterAnswer(r, answer) = "stop"
    BY <1>3, AnsweredFacts
  <2>2. CASE answer = "stop"
    <3>1. r \in Sole /\ call[r] \in InFlight
      BY <1>3, <2>1, <2>2 DEF MayAnswer, Sole, Answered
    <3>2. phase = "probe" /\ launch = <<>> /\ Awaited = {r}
      BY <3>1 DEF OnlySharedLinger
    <3>3. UNCHANGED loopVars /\ call'[r] = "stop"
      BY <1>3, <2>1, <2>2 DEF Answered, TypeOK
    <3>4. StopComes'
      BY <3>1, <3>2, <3>3 DEF StopComes, loopVars, Awaited
    <3>. QED  BY <3>4 DEF StopIsThrown
  <2>3. CASE answer # "stop"
    <3>. DEFINE entry == [sent |-> sentAt[r], answer |-> answer]
    <3>1. entry \in EntryType /\ entry.answer # "stop" /\ evidence' = Append(evidence, entry)
      BY <2>1, <2>3 DEF TypeOK, EntryType
    <3>. HIDE DEF entry
    <3>2. \A i \in DOMAIN evidence' : evidence'[i] = entry \/
              (i \in DOMAIN evidence /\ evidence'[i] = evidence[i])
      BY <3>1 DEF TypeOK
    <3>3. ~StopInLog'
      BY <1>3, <3>1, <3>2 DEF StopInLog
    <3>. QED  BY <3>3 DEF StopIsThrown
  <2>. QED  BY <2>2, <2>3
<1>4. CASE ~StopInLog /\ Launch
  BY <1>2, <1>4 DEF Launch
<1>5. CASE ~StopInLog /\ (BeginProbe \/ SkipProbe \/ NextStage \/ ProbeRan \/ ProbeThrew
              \/ ProbeFailed \/ RunStopped \/ RunReturns)
  BY <1>2, <1>5, LoopStep DEF sessionVars
<1>6. CASE ~StopInLog /\ (Abort \/ UNCHANGED vars)
  BY <1>2, <1>6 DEF Abort, vars, sessionVars
<1>7. ASSUME ~StopInLog, NEW r \in Requests, Wake(r)
      PROVE  StopIsThrown'
  BY <1>2, <1>7, WakeFacts
<1>. QED  BY StepCases, <1>1, <1>3, <1>4, <1>5, <1>6, <1>7

---------------------------------------------------------------------------
\* Both are counts.
LEMMA CountsType ==
    ASSUME TypeOK
    PROVE  /\ IsFiniteSet(Blames) /\ Cardinality(Blames) \in Nat
           /\ IsFiniteSet(Losses) /\ Cardinality(Losses) \in Nat
<1>1. /\ Len(outcomes) \in Nat /\ DOMAIN outcomes = 1..Len(outcomes)
      /\ Len(evidence) \in Nat /\ DOMAIN evidence = 1..Len(evidence)
  BY DEF TypeOK
<1>2. IsFiniteSet(DOMAIN outcomes) /\ IsFiniteSet(DOMAIN evidence)
  BY <1>1, FS_Interval
<1>3. IsFiniteSet(Blames) /\ IsFiniteSet(Losses)
  BY <1>2, FS_Subset DEF Blames, Losses
<1>. QED  BY <1>3, FS_CardinalityType

\* One more outcome is one blame more if it is one.
LEMMA BlamesAfter ==
    ASSUME TypeOK, NEW reason \in Reasons, outcomes' = Append(outcomes, reason)
    PROVE  Cardinality(Blames') =
              IF reason = "endpoint-error" THEN Cardinality(Blames) + 1 ELSE Cardinality(Blames)
<1>1. /\ outcomes \in Seq(Reasons) /\ Len(outcomes) \in Nat
      /\ DOMAIN outcomes = 1..Len(outcomes) /\ DOMAIN outcomes' = 1..(Len(outcomes) + 1)
      /\ \A i \in DOMAIN outcomes : outcomes'[i] = outcomes[i]
      /\ outcomes'[Len(outcomes) + 1] = reason
  BY DEF TypeOK
<1>2. Len(outcomes) + 1 \notin Blames
  BY <1>1 DEF Blames
<1>3. CASE reason = "endpoint-error"
  <2>1. Blames' = Blames \cup {Len(outcomes) + 1}
    BY <1>1, <1>3 DEF Blames
  <2>. QED  BY <1>2, <1>3, <2>1, CountsType, FS_AddElement
<1>4. CASE reason # "endpoint-error"
  <2>1. Blames' = Blames
    BY <1>1, <1>4 DEF Blames
  <2>. QED  BY <1>4, <2>1
<1>. QED  BY <1>3, <1>4

\* One more entry in the log is one loss more if it is one.
LEMMA LossesAfter ==
    ASSUME TypeOK, NEW entry \in EntryType, evidence' = Append(evidence, entry)
    PROVE  Cardinality(Losses') =
              IF entry.answer \in {"lost", "retry"} THEN Cardinality(Losses) + 1
              ELSE Cardinality(Losses)
<1>1. /\ evidence \in Seq(EntryType) /\ Len(evidence) \in Nat
      /\ DOMAIN evidence = 1..Len(evidence) /\ DOMAIN evidence' = 1..(Len(evidence) + 1)
      /\ \A i \in DOMAIN evidence : evidence'[i] = evidence[i]
      /\ evidence'[Len(evidence) + 1] = entry
  BY DEF TypeOK
<1>2. Len(evidence) + 1 \notin Losses
  BY <1>1 DEF Losses
<1>3. CASE entry.answer \in {"lost", "retry"}
  <2>1. Losses' = Losses \cup {Len(evidence) + 1}
    BY <1>1, <1>3 DEF Losses
  <2>. QED  BY <1>2, <1>3, <2>1, CountsType, FS_AddElement
<1>4. CASE entry.answer \notin {"lost", "retry"}
  <2>1. Losses' = Losses
    BY <1>1, <1>4 DEF Losses
  <2>. QED  BY <1>4, <2>1
<1>. QED  BY <1>3, <1>4

\* Nothing is blamed and nothing lost while both sequences stay.
LEMMA CountsStay ==
    ASSUME UNCHANGED <<outcomes, evidence>>
    PROVE  Blames' = Blames /\ Losses' = Losses
BY DEF Blames, Losses

\* A stage that was just begun has all of its requests to launch.
LEMMA BegunIsNew ==
    ASSUME launch' = Program[at'][stage']
    PROVE  LossIsNew'
BY DEF LossIsNew, Awaited, RequestsOf

\* A probe is blamed for a loss that no probe was blamed for.
LEMMA BlameStep ==
    ASSUME TypeOK, LossIsNew, LossBlamedOnce, ProbeThrew \/ ProbeFailed
    PROVE  LossBlamedOnce'
<1>. USE DEF LossBlamedOnce
<1>1. Cardinality(Blames) <= Cardinality(Losses)
  BY DEF Blames, Losses
<1>2. evidence' = evidence /\ Losses' = Losses
  BY Skips DEF sessionVars, Losses
<1>3. PICK reason \in Reasons :
          /\ outcomes' = Append(outcomes, reason)
          /\ reason = "endpoint-error" => Cardinality(Blames) + 1 <= Cardinality(Losses)
  <2>1. CASE ProbeThrew
    <3>1. PICK reason \in {"not-applicable", "probe-error"} : Skip(reason)
      BY <2>1 DEF ProbeThrew
    <3>2. SkipReason(reason) \in Reasons /\ SkipReason(reason) # "endpoint-error"
      BY <3>1 DEF SkipReason, Reasons
    <3>. QED  BY <3>1, <3>2 DEF Skip, Settled
  <2>2. CASE ProbeFailed
    <3>1. PICK r \in Awaited : call[r] \in Failures \ Stopping /\ Skip(ReasonOf(call[r]))
      BY <2>2 DEF ProbeFailed
    <3>2. phase = "probe" /\ launch = <<>>
      BY <2>2 DEF ProbeFailed, StageFailed
    <3>3. SkipReason(ReasonOf(call[r])) \in Reasons
      BY <3>1 DEF SkipReason, ReasonOf, Failures, Stopping, Reasons
    <3>4. SkipReason(ReasonOf(call[r])) = "endpoint-error" => call[r] = "lost"
      BY <3>1 DEF SkipReason, ReasonOf, Failures, Stopping
    <3>5. call[r] = "lost" => Cardinality(Blames) + 1 <= Cardinality(Losses)
      BY <3>1, <3>2 DEF LossIsNew
    <3>. QED  BY <3>1, <3>3, <3>4, <3>5 DEF Skip, Settled
  <2>. QED  BY <2>1, <2>2
<1>4. Cardinality(Blames') =
        IF reason = "endpoint-error" THEN Cardinality(Blames) + 1 ELSE Cardinality(Blames)
  BY <1>3, BlamesAfter
<1>5. Cardinality(Blames') <= Cardinality(Losses')
  BY <1>1, <1>2, <1>3, <1>4
<1>. QED  BY <1>5 DEF Blames, Losses

\* An answer that fails the probe under way is one loss more than there are blames.
LEMMA LossAnswered ==
    ASSUME TypeOK, LaunchOrder, LossIsNew, LossBlamedOnce, NEW r \in Requests, Answered(r)
    PROVE  LossIsNew' /\ LossBlamedOnce'
<1>1. PICK answer \in Answers :
          /\ evidence' = Append(evidence, [sent |-> sentAt[r], answer |-> answer])
          /\ call' = [call EXCEPT ![r] = AfterAnswer(r, answer)]
  BY AnsweredFacts
<1>2. UNCHANGED <<loopVars, outcomes>> /\ Awaited' = Awaited /\ launch = <<>>
  BY DEF Answered, Quiet, endVars, loopVars, Awaited
<1>3. Cardinality(Blames) <= Cardinality(Losses) /\ Blames' = Blames
  BY <1>2 DEF LossBlamedOnce, Blames, Losses
<1>4. Cardinality(Losses') =
        IF answer \in {"lost", "retry"} THEN Cardinality(Losses) + 1 ELSE Cardinality(Losses)
  <2>. DEFINE entry == [sent |-> sentAt[r], answer |-> answer]
  <2>1. entry \in EntryType /\ entry.answer = answer /\ evidence' = Append(evidence, entry)
    BY <1>1 DEF TypeOK, EntryType
  <2>. HIDE DEF entry
  <2>. QED  BY <2>1, LossesAfter
<1>5. Cardinality(Blames) \in Nat /\ Cardinality(Losses) \in Nat
  BY CountsType
<1>6. Cardinality(Blames') <= Cardinality(Losses')
  BY <1>3, <1>4, <1>5
<1>7. ASSUME NEW q \in Awaited, phase = "probe", call'[q] = "lost"
      PROVE  Cardinality(Blames') + 1 <= Cardinality(Losses')
  <2>1. call[q] # "lost"
    BY <1>2, <1>7 DEF Answered, Quiet, StageFailed, Failures
  <2>2. q \in Requests
    BY <1>7, ConstantFacts DEF LaunchOrder, ProgramPlace, Awaited
  <2>3. q = r /\ AfterAnswer(r, answer) = "lost"
    BY <1>1, <1>7, <2>1, <2>2 DEF TypeOK
  <2>4. answer \in {"lost", "retry"}
    BY <2>3 DEF AfterAnswer
  <2>. QED  BY <1>3, <1>4, <1>5, <2>4
<1>8. LossIsNew'
  BY <1>2, <1>7 DEF LossIsNew, loopVars
<1>. QED  BY <1>6, <1>8 DEF LossBlamedOnce, Blames, Losses

\* What goes out, or is found cached, is not lost any more.
LEMMA LossLaunched ==
    ASSUME TypeOK, LaunchOrder, OnlySharedLinger, LossIsNew, Launch
    PROVE  LossIsNew'
<1>1. /\ launch # <<>> /\ launch \in Seq(Requests) /\ launch' = Tail(launch)
      /\ phase = "probe" /\ Awaited' = Awaited /\ Head(launch) \in Requests
  BY LaunchFacts DEF Launch, TypeOK
<1>2. ASSUME NEW r \in Awaited, call'[r] = "lost"
      PROVE  r # Head(launch) /\ call[r] = "lost"
  <2>1. r \in Requests
    BY <1>1, ConstantFacts DEF LaunchOrder, ProgramPlace, Awaited
  <2>2. CASE Cached(Head(launch))
    BY <1>2, <2>2 DEF Launch, Cached, InFlight
  <2>3. CASE ~Cached(Head(launch))
    <3>1. Attempt(Head(launch), "first") /\ "first" \in InFlight
      BY <2>3 DEF Launch, InFlight
    <3>2. /\ \A q \in Requests \ {Head(launch)} : call'[q] = call[q]
          /\ call'[Head(launch)] \in InFlight \cup {"aborted", "budget"}
      BY <1>1, <3>1, AttemptTypes
    <3>3. r # Head(launch)
      BY <1>2, <3>2 DEF InFlight
    <3>. QED  BY <1>2, <2>1, <3>2, <3>3
  <2>. QED  BY <2>2, <2>3
<1>3. ASSUME NEW r \in Awaited, call'[r] = "lost"
      PROVE  \E i \in DOMAIN launch' : launch'[i] = r
  <2>1. r # Head(launch) /\ call[r] = "lost"
    BY <1>2, <1>3
  <2>2. PICK i \in DOMAIN launch : launch[i] = r
    BY <1>1, <2>1 DEF LossIsNew
  <2>3. i # 1 /\ i \in 1..Len(launch) /\ Len(launch) \in Nat
    BY <1>1, <2>1, <2>2
  <2>4. i - 1 \in 1..Len(launch) - 1 /\ (i - 1) + 1 = i
    BY <2>3
  <2>5. i - 1 \in DOMAIN launch' /\ launch'[i - 1] = launch[(i - 1) + 1]
    BY <1>1, <2>4
  <2>. QED  BY <2>2, <2>4, <2>5
<1>. QED  BY <1>1, <1>3 DEF LossIsNew

\* Every step keeps the losses of the stage under way new, and no loss blamed on two probes.
LEMMA LossStep ==
    ASSUME TypeOK, LaunchOrder, OnlySharedLinger, LossIsNew, LossBlamedOnce, [Next]_vars
    PROVE  LossIsNew' /\ LossBlamedOnce'
<1>1. ASSUME UNCHANGED <<outcomes, evidence>>
      PROVE  LossBlamedOnce'
  BY <1>1 DEF LossBlamedOnce
<1>2. ASSUME phase' # "probe"
      PROVE  LossIsNew'
  BY <1>2 DEF LossIsNew
<1>3. CASE Launch
  <2>1. UNCHANGED <<outcomes, evidence>>
    BY <1>3 DEF Launch, endVars
  <2>. QED  BY <1>1, <1>3, <2>1, LossLaunched
<1>4. CASE BeginProbe \/ NextStage
  <2>1. launch' = Program[at'][stage'] /\ UNCHANGED <<outcomes, evidence>>
    BY <1>4 DEF BeginProbe, NextStage, sessionVars, endVars
  <2>. QED  BY <1>1, <2>1, BegunIsNew
<1>5. CASE SkipProbe \/ ProbeRan
  <2>1. PICK reason \in {"ran", "aborted"} :
            outcomes' = Append(outcomes, reason) /\ phase' = "next" /\ evidence' = evidence
    BY <1>5 DEF SkipProbe, ProbeRan, Settled, sessionVars
  <2>2. Cardinality(Blames') = Cardinality(Blames) /\ Losses' = Losses
    BY <2>1, BlamesAfter DEF Reasons, Losses
  <2>. QED  BY <1>2, <2>1, <2>2 DEF LossBlamedOnce, Blames, Losses
<1>6. CASE ProbeThrew \/ ProbeFailed
  <2>1. phase' = "next"
    BY <1>6, Skips, SkipFacts
  <2>. QED  BY <1>2, <1>6, <2>1, BlameStep
<1>7. CASE RunStopped \/ RunReturns
  BY <1>1, <1>2, <1>7 DEF RunStopped, RunReturns, sessionVars
<1>8. CASE Abort \/ UNCHANGED vars
  <2>1. UNCHANGED <<loopVars, call, outcomes, evidence>>
    BY <1>8 DEF Abort, vars, sessionVars, endVars
  <2>. QED  BY <1>1, <2>1, CountsStay DEF LossIsNew, loopVars, Awaited
<1>9. ASSUME NEW r \in Requests, Answered(r) PROVE LossIsNew' /\ LossBlamedOnce'
  BY <1>9, LossAnswered
<1>10. ASSUME NEW r \in Requests, Wake(r) PROVE LossIsNew' /\ LossBlamedOnce'
  <2>1. /\ UNCHANGED <<loopVars, evidence, outcomes>> /\ Awaited' = Awaited
        /\ Attempt(r, "second") /\ "second" \in InFlight
    BY <1>10, WakeFacts DEF endVars, loopVars, Awaited
  <2>2. ASSUME NEW q \in Awaited, phase = "probe" PROVE call'[q] # "lost"
    <3>1. call[q] # "lost"
      BY <1>10, <2>2 DEF Wake, Quiet, StageFailed, Failures
    <3>2. q \in Requests
      BY <2>2, ConstantFacts DEF LaunchOrder, ProgramPlace, Awaited
    <3>. QED  BY <2>1, <3>1, <3>2, AttemptTypes DEF InFlight
  <2>. QED  BY <1>1, <2>1, <2>2 DEF LossIsNew, loopVars
<1>. QED  BY StepCases, <1>3, <1>4, <1>5, <1>6, <1>7, <1>8, <1>9, <1>10

---------------------------------------------------------------------------
\* The run starts with it.
LEMMA InvInit == Init => IInv
<1>. SUFFICES ASSUME Init PROVE IInv
  OBVIOUS
<1>1. TypeOK
  <2>1. <<>> \in Seq(Requests) /\ <<>> \in Seq(EntryType) /\ <<>> \in Seq(Reasons)
    OBVIOUS
  <2>2. call \in [Requests -> CallStates] /\ sentAt \in [Requests -> Nat]
    BY DEF Init, CallStates
  <2>3. launch \in Seq(Requests) /\ evidence \in Seq(EntryType) /\ outcomes \in Seq(Reasons)
    BY <2>1 DEF Init
  <2>4. phase \in {"next", "probe", "ended"} /\ result = "none"
    BY DEF Init
  <2>5. at \in Nat \ {0} /\ stage \in Nat \ {0} /\ requests \in Nat /\ tokens \in Nat
    BY DEF Init
  <2>6. reached \in BOOLEAN /\ signal \in BOOLEAN /\ aborted \in BOOLEAN
    BY Zenon DEF Init
  <2>. QED  BY <2>2, <2>3, <2>4, <2>5, <2>6 DEF TypeOK
<1>2. Pending = {} /\ Cardinality(Pending) = 0
  BY FS_EmptySet DEF Init, Pending, InFlight
<1>3. BudgetKept /\ EvidenceAccounts
  BY <1>2, PlanAssumption DEF Init, BudgetKept, EvidenceAccounts
<1>4. LaunchOrder /\ OnlySharedLinger
  BY ConstantFacts DEF Init, LaunchOrder, OnlySharedLinger, InFlight
<1>5. DoneIsReached /\ AbortIsSeen /\ StopIsThrown /\ ResultIsLast /\ AbortIsNotUnreachable
  BY DEF Init, DoneIsReached, AbortIsSeen, StopIsThrown, StopInLog, ResultIsLast,
         AbortIsNotUnreachable
<1>6. LossIsNew /\ LossBlamedOnce
  <2>1. {i \in DOMAIN outcomes : outcomes[i] = "endpoint-error"} = {}
    BY DEF Init
  <2>2. {i \in DOMAIN evidence : evidence[i].answer \in {"lost", "retry"}} = {}
    BY DEF Init
  <2>3. LossIsNew
    BY DEF Init, LossIsNew
  <2>. QED  BY <2>1, <2>2, <2>3, FS_EmptySet DEF LossBlamedOnce
<1>. QED  BY <1>1, <1>3, <1>4, <1>5, <1>6 DEF IInv

\* Every step keeps the strengthening, a conjunct at a time.
LEMMA InvStep == IInv /\ [Next]_vars => IInv'
<1>. SUFFICES ASSUME IInv, [Next]_vars PROVE IInv'
  OBVIOUS
<1>. USE DEF IInv
<1>1. TypeOK' /\ LaunchOrder' /\ OnlySharedLinger'
  BY TypeStep, OrderStep, LingerStep
<1>2. BudgetKept' /\ EvidenceAccounts'
  BY LedgerStep
<1>3. DoneIsReached' /\ ResultIsLast' /\ StopIsThrown' /\ AbortIsNotUnreachable'
  BY ReachedStep, ResultStep, StopStep, UnreachableStep
<1>4. AbortIsSeen'
  BY <1>3, AbortStep
<1>5. LossIsNew' /\ LossBlamedOnce'
  BY LossStep
<1>. QED  BY <1>1, <1>2, <1>3, <1>4, <1>5

\* So it holds throughout.
LEMMA Inductive == Spec => []IInv
BY InvInit, InvStep, PTL DEF Spec

---------------------------------------------------------------------------
\* Every variable keeps its type: the log holds entries, the outcomes reasons.
THEOREM TypeCorrect == Spec => []TypeOK
<1>1. IInv => TypeOK
  BY DEF IInv
<1>. QED  BY <1>1, Inductive, PTL

\* attempt(): however requests are sent together, shared and retried, no run of
\* any plan spends more than its budget.
THEOREM BudgetIsKept == Spec => []BudgetKept
<1>1. IInv => BudgetKept
  BY DEF IInv
<1>. QED  BY <1>1, Inductive, PTL

\* attempt() and record(): what a run was charged for is in its evidence, once,
\* or is still out.
THEOREM EvidenceIsComplete == Spec => []EvidenceAccounts
<1>1. IInv => EvidenceAccounts
  BY DEF IInv
<1>. QED  BY <1>1, Inductive, PTL

\* runProbes(): a run the buyer aborted does not say nothing could be reached.
THEOREM AbortedIsNotUnreachable == Spec => []AbortIsNotUnreachable
<1>1. IInv => AbortIsNotUnreachable
  BY DEF IInv
<1>. QED  BY <1>1, Inductive, PTL

\* refusalOf() and settle(): a run that was refused for its key or its model ends
\* with that, and with nothing else.
THEOREM StopEndsTheRun == Spec => []StopIsReported
<1>1. IInv => StopIsReported
  BY DEF IInv, StopIsThrown, StopInLog, StopComes, StopCame, StopIsReported
<1>. QED  BY <1>1, Inductive, PTL

\* throwIfAborted() and wait(): after the abort no request is charged, be it the
\* rest of a fan-out, another probe's or a retry.
THEOREM AbortStopsRequests == Spec => NoSendAfterAbort
<1>1. ASSUME NEW r \in Requests, NEW order, Attempt(r, order), signal
      PROVE  requests' = requests
  BY <1>1 DEF Attempt
<1>2. IInv /\ [Next]_vars => [signal => requests' = requests]_vars
  <2>. SUFFICES ASSUME IInv, [Next]_vars, signal PROVE requests' = requests
    OBVIOUS
  <2>1. CASE Launch
    BY <1>1, <2>1, LaunchFacts DEF Launch, IInv
  <2>2. CASE BeginProbe \/ SkipProbe \/ NextStage \/ ProbeRan \/ ProbeThrew \/ ProbeFailed
                \/ RunStopped \/ RunReturns
    BY <2>2, LoopStep DEF sessionVars, IInv
  <2>3. CASE Abort \/ UNCHANGED vars
    BY <2>3 DEF Abort, vars, sessionVars
  <2>4. CASE \E r \in Requests : Answered(r) \/ Wake(r)
    BY <1>1, <2>4 DEF Answered, Wake
  <2>. QED  BY StepCases, <2>1, <2>2, <2>3, <2>4
<1>. QED  BY <1>2, Inductive, PTL DEF Spec, NoSendAfterAbort

\* skipReasonFor(): a probe that fails once the run is aborted is recorded as
\* aborted, and the endpoint is not blamed.
THEOREM AbortIsNotBlamed == Spec => AbortBlamesNobody
<1>1. IInv /\ [Next]_vars =>
        [signal /\ outcomes' # outcomes => outcomes'[Len(outcomes')] \in {"ran", "aborted"}]_vars
  <2>. SUFFICES ASSUME IInv, [Next]_vars, signal, outcomes' # outcomes
                PROVE  outcomes'[Len(outcomes')] \in {"ran", "aborted"}
    OBVIOUS
  <2>1. outcomes \in Seq(Reasons) /\ {"ran", "aborted"} \subseteq Reasons
    BY DEF IInv, TypeOK, Reasons
  <2>2. ASSUME NEW reason \in {"ran", "aborted"}, outcomes' = Append(outcomes, reason)
        PROVE  outcomes'[Len(outcomes')] \in {"ran", "aborted"}
    BY <2>1, <2>2
  <2>3. CASE SkipProbe \/ ProbeRan
    BY <2>2, <2>3 DEF SkipProbe, ProbeRan, Settled
  <2>4. CASE ProbeThrew \/ ProbeFailed
    BY <2>2, <2>4, Skips, SkipFacts DEF IInv
  <2>5. CASE Launch \/ BeginProbe \/ NextStage \/ RunStopped \/ RunReturns \/ Abort \/ UNCHANGED vars
    BY <2>5 DEF Launch, BeginProbe, NextStage, RunStopped, RunReturns, Abort, vars, endVars
  <2>6. CASE \E r \in Requests : Answered(r) \/ Wake(r)
    BY <2>6 DEF Answered, Wake, endVars
  <2>. QED  BY StepCases, <2>3, <2>4, <2>5, <2>6
<1>. QED  BY <1>1, Inductive, PTL DEF Spec, AbortBlamesNobody

\* ProbeFailed and sharedCache(): for every probe recorded as the endpoint's fault
\* there is an answer of its own in the log that was lost.
THEOREM LossesBlameOnce == Spec => []LossBlamedOnce
<1>1. IInv => LossBlamedOnce
  BY DEF IInv
<1>. QED  BY <1>1, Inductive, PTL

\* A refused key or model ends the run as that, and an abort never as an endpoint out
\* of reach.
THEOREM StopsAreTrue == Spec => []StopsAreTold
BY AbortedIsNotUnreachable, StopEndsTheRun, PTL DEF StopsAreTold

\* After the abort nothing is charged and no probe is blamed.
THEOREM AbortsAreClean == Spec => AbortIsClean
BY AbortStopsRequests, AbortIsNotBlamed DEF AbortIsClean
===========================================================================
