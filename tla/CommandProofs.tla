---------------------------- MODULE CommandProofs ----------------------------
(***************************************************************************)
(* The invariants of Command, for every request, order of the answers and  *)
(* moment of the signals.                                                  *)
(*                                                                         *)
(* They are inductive once it is said how far the command is at each       *)
(* stage: what is chosen, run and written by then (StageIsTrue). That the  *)
(* ranking has a first is a fact about Precedes (DetectedIsFirst).         *)
(***************************************************************************)
EXTENDS Command, TLAPS

Early == {"called", "detecting", "confirming"}

StageIsTrue ==
    /\ stage \in {"called", "detecting"} => target = "none"
    /\ stage \in Early => ~ran
    /\ stage \in {"running", "writing"} => ran
    /\ stage \in Early \cup {"running"} => report = "none"
    /\ stage = "writing" => report = "partial"
    /\ stage = "called" /\ ~interactive => interrupts = 0

IInv ==
    /\ TypeOK
    /\ StageIsTrue
    /\ InterruptIsNotBlamed
    /\ VerdictHasReport
    /\ ProbesTheBest

---------------------------------------------------------------------------
(* The ranking                                                             *)

\* Ranks are numbers: an outcome that is none of the four ranks zero.
LEMMA RankIsNat == \A outcome : RankOf(outcome) \in 0..4
<1> TAKE outcome
<1>1. CASE outcome \in {"own", "foreign", "generates", "refuses"}
    BY <1>1 DEF RankOf, Ranks
<1>2. CASE outcome \notin {"own", "foreign", "generates", "refuses"}
    BY <1>2 DEF RankOf, Ranks
<1> QED BY <1>1, <1>2

\* Of two protocols one goes before the other.
LEMMA PrecedesIsTotal ==
    ASSUME NEW outcomes, NEW vendor,
           NEW p \in Protocols, NEW q \in Protocols, p # q
    PROVE  Precedes(p, q, outcomes, vendor) \/ Precedes(q, p, outcomes, vendor)
<1>1. RankOf(outcomes[p]) \in Nat /\ RankOf(outcomes[q]) \in Nat
    BY RankIsNat
<1>2. Place[p] \in Nat /\ Place[q] \in Nat /\ Place[p] # Place[q]
    BY DEF Place, Protocols
<1> QED BY <1>1, <1>2 DEF Precedes, TieBreak

\* ... and goes before what the other goes before.
LEMMA PrecedesIsTransitive ==
    ASSUME NEW outcomes, NEW vendor,
           NEW p \in Protocols, NEW q \in Protocols, NEW r \in Protocols,
           Precedes(p, q, outcomes, vendor), Precedes(q, r, outcomes, vendor)
    PROVE  Precedes(p, r, outcomes, vendor)
<1>1. /\ RankOf(outcomes[p]) \in Nat
      /\ RankOf(outcomes[q]) \in Nat
      /\ RankOf(outcomes[r]) \in Nat
    BY RankIsNat
<1>2. Place[p] \in Nat /\ Place[q] \in Nat /\ Place[r] \in Nat
    BY DEF Place, Protocols
<1> QED BY <1>1, <1>2 DEF Precedes, TieBreak

\* So where any route answers there is a first, and Detected is it.
LEMMA DetectedIsFirst ==
    ASSUME NEW outcomes, NEW vendor, Candidates(outcomes) # {}
    PROVE  /\ Detected(outcomes, vendor) \in Candidates(outcomes)
           /\ \A q \in Candidates(outcomes) \ {Detected(outcomes, vendor)} :
                 Precedes(Detected(outcomes, vendor), q, outcomes, vendor)
<1> DEFINE C == Candidates(outcomes)
           Before(p, q) == Precedes(p, q, outcomes, vendor)
           First(p, S) == p \in S /\ \A q \in S \ {p} : Before(p, q)
           A == "anthropic-messages"
           B == "openai-chat"
           R == "openai-responses"
<1>1. C \subseteq Protocols /\ Protocols = {A, B, R}
    BY DEF Candidates, Protocols
<1>2. \A p, q \in Protocols : p # q => Before(p, q) \/ Before(q, p)
    BY PrecedesIsTotal
<1>3. \A p, q, r \in Protocols : Before(p, q) /\ Before(q, r) => Before(p, r)
    BY PrecedesIsTransitive
<1> HIDE DEF C, Before
\* The first of two of them, and then of it and the third.
<1>4. ASSUME C \cap {A, B} # {}
      PROVE  \E p \in C \cap {A, B} : First(p, C \cap {A, B})
    BY <1>1, <1>2, <1>4
<1>5. \E p \in C : First(p, C)
  <2>1. CASE C \cap {A, B} = {}
    BY <2>1, <1>1 DEF C
  <2>2. CASE C \cap {A, B} # {}
    <3>1. PICK p \in C \cap {A, B} : First(p, C \cap {A, B})
        BY <2>2, <1>4
    <3>2. CASE R \notin C \/ Before(p, R)
        BY <3>1, <3>2, <1>1
    <3>3. CASE R \in C /\ ~Before(p, R)
      <4>1. Before(R, p)
          BY <3>3, <3>1, <1>1, <1>2
      <4>2. \A q \in C \ {R} : Before(R, q)
          BY <4>1, <3>1, <1>1, <1>3
      <4> QED BY <4>2, <3>3
    <3> QED BY <3>2, <3>3
  <2> QED BY <2>1, <2>2
<1>6. First(Detected(outcomes, vendor), C)
    BY <1>5 DEF Detected, C, Before
<1> QED BY <1>6 DEF C, Before

---------------------------------------------------------------------------
(* What an answered detection leads to                                     *)

\* What a step that ends the preparation may have done: told a refusal, or
\* settled on a protocol and then stopped, begun the run or asked.
Refusal ==
    /\ stage' = "exited" /\ UNCHANGED <<target, agreed, key, ran>>
    /\ exit' \in {"usage", "stopped", "cancelled"}
    /\ exit' # "cancelled" => interrupts' = 0
Settlement(p) ==
    /\ target' = p /\ UNCHANGED agreed
    /\ \/ /\ stage' = "exited" /\ exit' = "cancelled" /\ key' = "nowhere" /\ UNCHANGED ran
       \/ /\ stage' = "running" /\ key' = "lent" /\ ran' = TRUE /\ UNCHANGED exit
          /\ yes /\ interrupts' = 0
       \/ stage' = "confirming" /\ key' = "held" /\ UNCHANGED <<ran, exit>>

\* A refusal of the arguments, the key or the target is one for the exit status.
LEMMA RefusedIsRefusal ==
    ASSUME NEW why, interrupts' \in 0..2, Refused(why), UNCHANGED <<target, spending>>
    PROVE  Refusal
BY DEF Refused, Exit, RefusalCode, Refusal, spending

\* Resolving a protocol refuses the request or settles it.
LEMMA ResolvedEither ==
    ASSUME NEW p, interrupts' \in 0..2, Resolved(p)
    PROVE  Refusal \/ Settlement(p)
<1>1. CASE ~TakesAuth(p)
    BY <1>1, RefusedIsRefusal DEF Resolved
<1>2. CASE TakesAuth(p)
    BY <1>2 DEF Resolved, Settlement, Exit, Discarded, Started
<1> QED BY <1>1, <1>2

\* Detection goes on, is refused, or settles.
LEMMA ConcludedEither ==
    ASSUME NEW outcomes, interrupts' \in 0..2, Concluded(outcomes)
    PROVE  \/ UNCHANGED <<stage, exit, target, spending>> /\ ~AllAnswered(outcomes)
           \/ Refusal
           \/ /\ Candidates(outcomes) # {}
              /\ Settlement(Detected(outcomes, request.named))
<1>1. CASE ~AllAnswered(outcomes)
    BY <1>1 DEF Concluded
<1>2. CASE AllAnswered(outcomes) /\ Candidates(outcomes) # {}
    BY <1>2, ResolvedEither DEF Concluded
<1>3. CASE AllAnswered(outcomes) /\ Candidates(outcomes) = {}
  <2>1. PICK why : Unresolved(why)
      BY <1>3 DEF Concluded
  <2> QED BY <2>1, RefusedIsRefusal DEF Unresolved
<1> QED BY <1>1, <1>2, <1>3

\* The protocol detected is the best of those that answered.
BestOf(p, outcomes, vendor) ==
    /\ outcomes[p] \in {"own", "foreign", "generates", "refuses"}
    /\ \A q \in Protocols :
          /\ RankOf(outcomes[q]) <= RankOf(outcomes[p])
          /\ outcomes[q] = outcomes[p] /\ Owner[q] = vendor => Owner[p] = vendor

\* What detection picks is a protocol, and the best answered of them.
LEMMA DetectedIsBest ==
    ASSUME NEW outcomes, NEW vendor, Candidates(outcomes) # {}
    PROVE  /\ Detected(outcomes, vendor) \in Protocols
           /\ BestOf(Detected(outcomes, vendor), outcomes, vendor)
<1> DEFINE d == Detected(outcomes, vendor)
<1>1. /\ d \in Candidates(outcomes)
      /\ \A q \in Candidates(outcomes) \ {d} : Precedes(d, q, outcomes, vendor)
    BY DetectedIsFirst
<1> HIDE DEF d
<1>2. d \in Protocols /\ RankOf(outcomes[d]) > 0
    BY <1>1 DEF Candidates
<1>3. outcomes[d] \in {"own", "foreign", "generates", "refuses"}
    BY <1>2 DEF RankOf, Ranks
<1>4. ASSUME NEW q \in Protocols
      PROVE  /\ RankOf(outcomes[q]) <= RankOf(outcomes[d])
             /\ outcomes[q] = outcomes[d] /\ Owner[q] = vendor => Owner[d] = vendor
  <2>1. RankOf(outcomes[q]) \in 0..4 /\ RankOf(outcomes[d]) \in 0..4
      BY RankIsNat
  <2>2. CASE q \notin Candidates(outcomes)
      BY <2>1, <2>2, <1>2 DEF Candidates
  <2>3. CASE q = d
      BY <2>1, <2>3
  <2>4. CASE q \in Candidates(outcomes) \ {d}
      BY <2>1, <2>4, <1>1 DEF Precedes, TieBreak
  <2> QED BY <2>2, <2>3, <2>4
<1>5. d \in Protocols /\ BestOf(d, outcomes, vendor)
    BY <1>2, <1>3, <1>4 DEF BestOf
<1> QED BY <1>5 DEF d

---------------------------------------------------------------------------
(* The invariant                                                           *)

\* The end of the preparation keeps it, whichever end it is.
LEMMA PreparedKeeps ==
    ASSUME IInv, UNCHANGED <<asked, report>>,
           stage \in {"called", "detecting"},
           attempts' \in [Protocols -> Attempts], wired' \subseteq Protocols,
           interrupts' \in 0..2,
           \/ Refusal
           \/ \E p \in Protocols :
                 /\ Settlement(p)
                 /\ request.protocol = "auto" => BestOf(p, attempts', request.named)
    PROVE  IInv'
<1> USE DEF IInv, asked
<1>0. /\ ~ran /\ ran \in BOOLEAN /\ report = "none" /\ target = "none" /\ exit = "none"
      /\ agreed \in BOOLEAN /\ key \in {"nowhere", "held", "lent"}
      /\ request \in Requests /\ interactive \in BOOLEAN /\ yes \in BOOLEAN
    BY DEF StageIsTrue, TypeOK, Early, Stages
<1>1. CASE Refusal
  <2>1. TypeOK'
      BY <1>0, <1>1 DEF TypeOK, Refusal, Stages, ExitCodes
  <2>2. StageIsTrue' /\ InterruptIsNotBlamed' /\ VerdictHasReport' /\ ProbesTheBest'
      BY <1>0, <1>1 DEF Refusal, StageIsTrue, Early, InterruptIsNotBlamed, VerdictHasReport,
                        ProbesTheBest
  <2> QED BY <2>1, <2>2
<1>2. ASSUME NEW p \in Protocols, Settlement(p),
             request.protocol = "auto" => BestOf(p, attempts', request.named)
      PROVE  IInv'
  <2>1. TypeOK'
      BY <1>0, <1>2 DEF TypeOK, Settlement, Stages, ExitCodes
  <2>2. StageIsTrue' /\ InterruptIsNotBlamed' /\ VerdictHasReport'
      BY <1>0, <1>2 DEF Settlement, StageIsTrue, Early, InterruptIsNotBlamed, VerdictHasReport
  <2>3. ProbesTheBest'
      BY <1>2 DEF Settlement, ProbesTheBest, BestOf
  <2> QED BY <2>1, <2>2, <2>3
<1> QED BY <1>1, <1>2

\* So does what a detection came to.
LEMMA ConcludedKeeps ==
    ASSUME IInv, UNCHANGED <<asked, report>>, stage = "detecting",
           attempts' \in [Protocols -> Attempts], wired' \subseteq Protocols,
           interrupts' \in 0..2, Concluded(attempts')
    PROVE  IInv'
<1>1. CASE Refusal \/ (/\ Candidates(attempts') # {}
                       /\ Settlement(Detected(attempts', request.named)))
    BY <1>1, DetectedIsBest, PreparedKeeps
<1>2. CASE UNCHANGED <<stage, exit, target, spending>>
  <2>1. TypeOK'
      BY <1>2 DEF IInv, TypeOK, asked, spending
  <2>2. StageIsTrue' /\ InterruptIsNotBlamed' /\ VerdictHasReport' /\ ProbesTheBest'
      BY <1>2 DEF IInv, TypeOK, asked, spending, StageIsTrue, Early, InterruptIsNotBlamed,
                  VerdictHasReport, ProbesTheBest
  <2> QED BY <2>1, <2>2 DEF IInv
<1> QED BY <1>1, <1>2, ConcludedEither

\* The strengthening holds of a command just called.
LEMMA InitIInv == Init => IInv
<1> SUFFICES ASSUME Init PROVE IInv
    OBVIOUS
<1>1. TypeOK
  <2>1. request \in Requests /\ interactive \in BOOLEAN /\ yes \in BOOLEAN /\ agreed \in BOOLEAN
        /\ ran \in BOOLEAN
      BY DEF Init
  <2>2. attempts \in [Protocols -> Attempts] /\ wired \subseteq Protocols
      BY DEF Init, Attempts
  <2>3. /\ stage \in Stages /\ interrupts \in 0..2 /\ target \in Protocols \cup {"none"}
        /\ key \in {"nowhere", "held", "lent"} /\ report \in {"none", "partial", "whole"}
        /\ exit \in ExitCodes \cup {"none"} /\ (exit = "none" <=> stage # "exited")
      BY DEF Init, Stages
  <2> QED BY <2>1, <2>2, <2>3 DEF TypeOK
<1>2. StageIsTrue /\ InterruptIsNotBlamed /\ VerdictHasReport /\ ProbesTheBest
    BY DEF Init, StageIsTrue, Early, InterruptIsNotBlamed, VerdictHasReport, ProbesTheBest
<1> QED BY <1>1, <1>2 DEF IInv

\* What an answer may be made of is an attempt's end.
LEMMA ClassifyIsOutcome == \A p, a : Classify(p, a) \in Attempts
BY DEF Classify, Attempts, Outcomes

\* An answer to a detection request keeps the strengthening.
LEMMA AnsweredKeeps ==
    ASSUME IInv, NEW p \in Protocols, Answered(p)
    PROVE  IInv'
<1>1. attempts' \in [Protocols -> Attempts]
    BY ClassifyIsOutcome DEF Answered, IInv, TypeOK, Attempts, FailureKinds
<1>2. wired' \subseteq Protocols
    BY DEF Answered, IInv, TypeOK
<1>3. interrupts' \in 0..2 /\ stage = "detecting" /\ Concluded(attempts')
    BY DEF Answered, IInv, TypeOK
<1>4. UNCHANGED <<asked, report>>
    BY DEF Answered
<1> QED BY <1>1, <1>2, <1>3, <1>4, ConcludedKeeps

\* The first interrupt keeps it.
LEMMA FirstSignalKeeps ==
    ASSUME IInv, FirstSignal
    PROVE  IInv'
<1>1. interrupts' = 1 /\ UNCHANGED <<asked, report>> /\ stage # "exited"
    BY DEF FirstSignal
<1>2. CASE stage = "detecting"
  <2>1. DetectionStops
      BY <1>2 DEF FirstSignal
  <2>2. attempts' \in [Protocols -> Attempts] /\ wired' \subseteq Protocols
      BY <2>1 DEF DetectionStops, IInv, TypeOK, Attempts, FailureKinds
  <2>3. Concluded(attempts')
      BY <2>1 DEF DetectionStops
  <2> QED BY <1>1, <1>2, <2>2, <2>3, ConcludedKeeps
<1>3. CASE stage # "detecting"
  <2>1. UNCHANGED <<stage, exit, detection, spending>>
      BY <1>3 DEF FirstSignal
  <2>2. TypeOK'
      BY <1>1, <2>1 DEF IInv, TypeOK, asked, detection, spending
  <2>3. StageIsTrue' /\ VerdictHasReport' /\ ProbesTheBest'
      BY <1>1, <2>1 DEF IInv, StageIsTrue, Early, VerdictHasReport, ProbesTheBest,
                        FirstSignal, asked, detection, spending
  <2>4. InterruptIsNotBlamed'
      BY <1>1, <2>1 DEF IInv, TypeOK, InterruptIsNotBlamed
  <2> QED BY <2>2, <2>3, <2>4 DEF IInv
<1> QED BY <1>2, <1>3

\* Reading the arguments keeps it.
LEMMA CompleteKeeps ==
    ASSUME IInv, Complete
    PROVE  IInv'
<1>1. stage = "called" /\ UNCHANGED <<asked, interrupts, report>>
    BY DEF Complete
<1>2. /\ interrupts' \in 0..2 /\ ~ran /\ report = "none" /\ target = "none" /\ exit = "none"
      /\ attempts \in [Protocols -> Attempts] /\ wired \subseteq Protocols
      /\ request \in Requests
    BY <1>1 DEF IInv, TypeOK, StageIsTrue, Early
<1>3. CASE request.problem = "shape"
  <2>1. stage' = "exited" /\ exit' = "usage" /\ UNCHANGED <<detection, spending>>
      BY <1>3 DEF Complete, Exit
  <2>2. TypeOK'
      BY <1>1, <2>1 DEF IInv, TypeOK, asked, detection, spending, Stages, ExitCodes
  <2>3. StageIsTrue' /\ InterruptIsNotBlamed' /\ VerdictHasReport' /\ ProbesTheBest'
      BY <1>1, <1>2, <1>3, <2>1 DEF asked, detection, spending, StageIsTrue, Early,
            InterruptIsNotBlamed, VerdictHasReport, ProbesTheBest
  <2> QED BY <2>2, <2>3 DEF IInv
<1>4. CASE request.problem = "field"
  <2>1. Refusal /\ UNCHANGED <<attempts, wired>>
      BY <1>2, <1>4, RefusedIsRefusal DEF Complete, Unresolved
  <2> QED BY <1>1, <1>2, <2>1, PreparedKeeps
<1>5. CASE request.problem = "none" /\ request.protocol # "auto"
  <2>1. Resolved(request.protocol) /\ UNCHANGED <<attempts, wired>>
      BY <1>5 DEF Complete
  <2>2. request.protocol \in Protocols
      BY <1>2, <1>5 DEF Requests
  <2> QED BY <1>1, <1>2, <1>5, <2>1, <2>2, ResolvedEither, PreparedKeeps
<1>6. CASE request.problem = "none" /\ request.protocol = "auto"
  <2>1. attempts' \in [Protocols -> Attempts] /\ UNCHANGED wired
      BY <1>6 DEF Complete, Attempts, FailureKinds
  <2>2. CASE Interrupted
    <3>1. Concluded(attempts')
        BY <1>6, <2>2 DEF Complete
    <3>2. AllAnswered(attempts')
        BY <1>6, <2>2 DEF Complete, AllAnswered
    <3> QED BY <1>1, <1>2, <2>1, <3>1, <3>2, ConcludedEither, DetectedIsBest, PreparedKeeps
  <2>3. CASE ~Interrupted
    <3>1. stage' = "detecting" /\ UNCHANGED <<exit, target, spending>>
        BY <1>6, <2>3 DEF Complete
    <3>2. TypeOK'
        BY <1>1, <1>2, <2>1, <3>1 DEF IInv, TypeOK, asked, spending, Stages
    <3>3. StageIsTrue' /\ InterruptIsNotBlamed' /\ VerdictHasReport' /\ ProbesTheBest'
        BY <1>1, <1>2, <3>1 DEF asked, spending, StageIsTrue, Early, InterruptIsNotBlamed,
              VerdictHasReport, ProbesTheBest
    <3> QED BY <3>2, <3>3 DEF IInv
  <2> QED BY <2>2, <2>3
<1> QED BY <1>2, <1>3, <1>4, <1>5, <1>6 DEF Requests

\* Every action keeps it.
LEMMA StepIInv == IInv /\ [Next]_vars => IInv'
<1> SUFFICES ASSUME IInv, [Next]_vars PROVE IInv'
    OBVIOUS
<1> USE DEF IInv, asked, detection, spending
<1>1. CASE CancelPrompt \/ NeedsYes \/ Decline \/ SendRejects
  <2>1. TypeOK'
      BY <1>1 DEF TypeOK, CancelPrompt, NeedsYes, Decline, SendRejects, Exit, Discarded,
                  Stages, ExitCodes
  <2>2. StageIsTrue' /\ VerdictHasReport' /\ ProbesTheBest'
      BY <1>1 DEF TypeOK, CancelPrompt, NeedsYes, Decline, SendRejects, Exit, StageIsTrue,
                  Early, VerdictHasReport, ProbesTheBest
  <2>3. InterruptIsNotBlamed'
      BY <1>1 DEF CancelPrompt, NeedsYes, Decline, SendRejects, Exit, StageIsTrue,
                  InterruptIsNotBlamed
  <2> QED BY <2>1, <2>2, <2>3
<1>2. CASE Complete
    BY <1>2, CompleteKeeps
<1>3. CASE Agree
  <2>1. TypeOK'
      BY <1>3 DEF TypeOK, Agree, Exit, Discarded, Started, Stages, ExitCodes
  <2>2. StageIsTrue' /\ VerdictHasReport' /\ ProbesTheBest' /\ InterruptIsNotBlamed'
      BY <1>3 DEF TypeOK, Agree, Exit, Started, StageIsTrue, Early, VerdictHasReport,
                  ProbesTheBest, InterruptIsNotBlamed
  <2> QED BY <2>1, <2>2
<1>4. CASE FirstSignal
    BY <1>4, FirstSignalKeeps
<1>5. CASE SecondSignal
  <2>1. TypeOK'
      BY <1>5 DEF TypeOK, SecondSignal, Exit, Stages, ExitCodes
  <2>2. StageIsTrue' /\ VerdictHasReport' /\ ProbesTheBest' /\ InterruptIsNotBlamed'
      BY <1>5 DEF SecondSignal, Exit, StageIsTrue, Early, VerdictHasReport, ProbesTheBest,
                  InterruptIsNotBlamed
  <2> QED BY <2>1, <2>2
<1>6. ASSUME NEW p \in Protocols, Answered(p)
      PROVE  IInv'
    BY <1>6, AnsweredKeeps
<1>7. CASE RunEnds
  <2>1. TypeOK'
      BY <1>7 DEF TypeOK, RunEnds, Exit, Stages, ExitCodes
  <2>2. StageIsTrue' /\ VerdictHasReport' /\ ProbesTheBest' /\ InterruptIsNotBlamed'
      BY <1>7 DEF RunEnds, Exit, StageIsTrue, Early, VerdictHasReport, ProbesTheBest,
                  InterruptIsNotBlamed
  <2> QED BY <2>1, <2>2
<1>8. CASE WriteEnds
  <2>1. TypeOK'
      BY <1>8 DEF TypeOK, WriteEnds, Written, Exit, Stages, ExitCodes
  <2>2. StageIsTrue' /\ VerdictHasReport' /\ ProbesTheBest' /\ InterruptIsNotBlamed'
      BY <1>8 DEF WriteEnds, Written, Exit, StageIsTrue, Early, VerdictHasReport,
                  ProbesTheBest, InterruptIsNotBlamed
  <2> QED BY <2>1, <2>2
<1>9. CASE UNCHANGED vars
  <2>1. TypeOK'
      BY <1>9 DEF TypeOK, vars
  <2>2. StageIsTrue' /\ VerdictHasReport' /\ ProbesTheBest' /\ InterruptIsNotBlamed'
      BY <1>9 DEF vars, StageIsTrue, Early, VerdictHasReport, ProbesTheBest,
                  InterruptIsNotBlamed
  <2> QED BY <2>1, <2>2
<1> QED BY <1>1, <1>2, <1>3, <1>4, <1>5, <1>6, <1>7, <1>8, <1>9 DEF Next, Buyer, System

\* So it holds throughout.
LEMMA SpecIInv == Spec => []IInv
BY InitIInv, StepIInv, PTL DEF Spec

---------------------------------------------------------------------------
(* The theorems                                                            *)

\* The exit status is one of those documented, and there from the end on.
THEOREM CommandTypes == Spec => []TypeOK
BY SpecIInv, PTL DEF IInv

\* Whenever the signal comes, a check it interrupted is told as cancelled.
THEOREM InterruptsAreTold == Spec => []InterruptIsNotBlamed
BY SpecIInv, PTL DEF IInv

\* The exit status speaks of a verdict exactly when its report is there.
THEOREM VerdictsAreDelivered == Spec => []VerdictHasReport
BY SpecIInv, PTL DEF IInv

\* The order of the answers and the failures among them never make the probes go
\* where the endpoint speaks worse.
THEOREM BestIsProbed == Spec => []ProbesTheBest
BY SpecIInv, PTL DEF IInv

\* Nothing is spent but on a yes, and not once told to stop.
THEOREM SpendingIsAgreed == Spec => RunsOnlyAgreed
<1>1. ASSUME IInv, [Next]_vars, ~ran, ran'
      PROVE  (yes \/ agreed') /\ interrupts' = 0
  <2> USE DEF IInv, spending
  <2>1. CASE Agree
    <3>1. agreed'
        BY <2>1 DEF Agree
    <3>2. ASSUME Interrupted PROVE FALSE
      <4>1. UNCHANGED ran
          BY <2>1, <3>2, Zenon DEF Agree, StopsThere
      <4> QED BY <1>1, <4>1, Zenon
    <3>3. interrupts' = interrupts /\ interrupts \in 0..2
        BY <1>1, <2>1 DEF TypeOK, Agree
    <3> QED BY <3>1, <3>2, <3>3 DEF Interrupted
  <2>2. ASSUME stage \in {"called", "detecting"}, interrupts' \in 0..2,
               \/ \E outcomes : Concluded(outcomes)
               \/ \E p : Resolved(p)
               \/ \E why : Unresolved(why)
        PROVE  yes /\ interrupts' = 0
    <3>1. Refusal => FALSE
        BY <1>1 DEF Refusal
    <3>2. \A p : Settlement(p) => yes /\ interrupts' = 0
        BY <1>1 DEF Settlement
    <3>3. (\E why : Unresolved(why)) => FALSE
        BY <1>1 DEF Unresolved
    <3> QED BY <1>1, <2>2, <3>1, <3>2, <3>3, ConcludedEither, ResolvedEither
  <2>3. CASE Complete
      BY <1>1, <2>2, <2>3 DEF Complete, TypeOK
  <2>4. CASE FirstSignal
    <3>1. CASE stage = "detecting"
      <4>1. Concluded(attempts')
          BY <2>4, <3>1 DEF FirstSignal, DetectionStops
      <4>2. interrupts' \in 0..2
          BY <2>4 DEF FirstSignal
      <4> QED BY <2>2, <3>1, <4>1, <4>2
    <3>2. CASE stage # "detecting"
        BY <1>1, <2>4, <3>2, Zenon DEF FirstSignal
    <3> QED BY <3>1, <3>2
  <2>5. ASSUME NEW p \in Protocols, Answered(p)
        PROVE  yes /\ interrupts' = 0
      BY <1>1, <2>2, <2>5 DEF Answered, TypeOK
  <2>6. CASE \/ CancelPrompt \/ NeedsYes \/ Decline \/ SendRejects \/ SecondSignal
             \/ RunEnds \/ WriteEnds \/ UNCHANGED vars
      BY <1>1, <2>6 DEF CancelPrompt, NeedsYes, Decline, SendRejects, SecondSignal, RunEnds,
                        WriteEnds, vars
  <2> QED BY <1>1, <2>1, <2>3, <2>4, <2>5, <2>6 DEF Next, Buyer, System
<1>2. IInv /\ [Next]_vars => [~ran /\ ran' => (yes \/ agreed') /\ interrupts' = 0]_vars
    BY <1>1
<1> QED BY <1>2, SpecIInv, PTL DEF Spec, RunsOnlyAgreed

\* The exit status tells what became of the check, whenever the signal came and
\* whatever became of the report file.
THEOREM ExitsAreTrue == Spec => []ExitIsTrue
BY InterruptsAreTold, VerdictsAreDelivered, PTL DEF ExitIsTrue
=============================================================================
