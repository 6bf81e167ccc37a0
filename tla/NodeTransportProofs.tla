------------------------ MODULE NodeTransportProofs ------------------------
(***************************************************************************)
(* Proofs about NodeTransport: whatever the resolver, the endpoint, the    *)
(* deadline and the caller do, and for every limit, what send() tells is   *)
(* what happened, a response is whole, and nothing outlives the call.      *)
(***************************************************************************)
EXTENDS NodeTransport, TLAPS

\* Nothing has happened before the exchange, and it is not over while it lasts.
StepsAgree ==
    /\ step \in {"called", "resolving", "admitted"} =>
          phase = "connecting" /\ body = "none" /\ ~socket /\ result = NoResult
    /\ step = "exchanging" => result = NoResult
    /\ step \in {"returning", "returned"} => result # NoResult /\ ~socket

\* A stop ends what it meets, so that only the moment between the resolver's answer
\* and the exchange can be stopped already.
StoppedIsOver == step \in {"called", "resolving", "exchanging"} => reason = "none"

\* Nothing is armed before it is begun.
NotArmedYet == step = "called" => ~timer /\ ~listening

\* What fail() tells is read off the phase.
PhaseTells ==
    /\ phase = "exchanging" <=> handed
    /\ phase = "connecting" <=> connection = "unobserved"

\* Every unit that arrived is kept, or in the decoder.
NoneIsLost ==
    /\ body = "none" => came = 0 /\ held = 0 /\ kept = 0 /\ ~ended
    /\ body # "none" => handed
    /\ step = "exchanging" /\ body = "identity" => held = 0 /\ kept = came
    /\ step = "exchanging" /\ body = "coded" => held + kept = Ratio * came

IInv ==
    /\ TypeOK
    /\ StepsAgree
    /\ StoppedIsOver
    /\ NotArmedYet
    /\ PhaseTells
    /\ NoneIsLost
    /\ ResultIsTrue
    /\ WholeBody
    /\ NothingOutlives

---------------------------------------------------------------------------
(* The steps                                                               *)

\* Decoding multiplies by the ratio, a byte at a time.
LEMMA RatioTimes ==
    /\ Ratio * 0 = 0
    /\ \A n \in Nat : Ratio * n \in Nat /\ Ratio * (n + 1) = Ratio * n + Ratio
BY TransportAssumption

\* The strengthening holds of a call not made yet.
LEMMA InitIInv == Init => IInv
<1> SUFFICES ASSUME Init PROVE IInv
    OBVIOUS
<1> USE DEF Init
<1>1. TypeOK
  <2>1. 0 \in 0..MaxUnits /\ 0 \in 0..MaxBytes /\ 0 \in Nat
    BY TransportAssumption
  <2>2. step \in Steps /\ phase \in {"connecting", "handshaking", "exchanging"}
    BY DEF Steps
  <2> QED
    BY <2>1, <2>2, Zenon DEF TypeOK
<1>2. StepsAgree /\ StoppedIsOver /\ NotArmedYet /\ PhaseTells /\ NoneIsLost
    BY DEF StepsAgree, StoppedIsOver, NotArmedYet, PhaseTells, NoneIsLost
<1>3. ResultIsTrue /\ WholeBody /\ NothingOutlives
    BY DEF ResultIsTrue, WholeBody, NothingOutlives, Settled
<1> QED
    BY <1>1, <1>2, <1>3 DEF IInv

\* No outcome is the absence of one.
LEMMA NoneIsNoOutcome == \A o : o.kind \in Failures \cup {"response"} => o # NoResult
BY DEF NoResult, Failures, Reasons

\* What refuse() leaves.
LEMMA RefuseKeeps ==
    ASSUME NEW kind \in Failures, Refuse(kind)
    PROVE  /\ step' = "returning" /\ result' \in Outcomes /\ result' # NoResult
           /\ result'.kind = kind /\ ~result'.sent /\ result'.connection = "unobserved"
           /\ UNCHANGED <<socket, phase, connection, handed, body, came, held, kept, ended>>
<1>1. FALSE \in BOOLEAN /\ "unobserved" \in {"unobserved", "fresh"} /\ kind \in Failures \cup {"response"}
    OBVIOUS
<1>2. result' = [kind |-> kind, sent |-> FALSE, connection |-> "unobserved"]
    BY DEF Refuse
<1>3. result'.kind = kind /\ (result'.sent <=> FALSE) /\ result'.connection = "unobserved"
    BY <1>2
<1>4. result' \in Outcomes
    BY <1>1, <1>2 DEF Outcomes
<1>5. result' # NoResult
    BY <1>1, <1>3, NoneIsNoOutcome
<1> QED
    BY <1>3, <1>4, <1>5 DEF Refuse, wireVars, bodyVars

\* What settle() leaves, of a failure ...
LEMMA FailKeeps ==
    ASSUME NEW kind \in Failures, TypeOK, Fail(kind)
    PROVE  /\ step' = "returning" /\ result' \in Outcomes /\ result' # NoResult
           /\ result'.kind = kind /\ (result'.sent <=> phase = "exchanging")
           /\ result'.connection = connection
           /\ socket' = FALSE /\ UNCHANGED <<phase, connection, handed>>
<1>1. (phase = "exchanging") \in BOOLEAN /\ connection \in {"unobserved", "fresh"}
      /\ kind \in Failures \cup {"response"}
    BY DEF TypeOK
<1>2. result' = [kind |-> kind, sent |-> phase = "exchanging", connection |-> connection]
    BY DEF Fail, SettleAs
<1>3. result'.kind = kind /\ (result'.sent <=> (phase = "exchanging")) /\ result'.connection = connection
    BY <1>2
<1>4. result' \in Outcomes
    BY <1>1, <1>2 DEF Outcomes
<1>5. result' # NoResult
    BY <1>1, <1>3, NoneIsNoOutcome
<1> QED
    BY <1>3, <1>4, <1>5 DEF Fail, SettleAs, SocketDestroyed

\* ... and of a response.
LEMMA FinishKeeps ==
    ASSUME TypeOK, Finish
    PROVE  /\ step' = "returning" /\ result' \in Outcomes /\ result' # NoResult
           /\ result'.kind = "response" /\ result'.sent /\ result'.connection = connection
           /\ socket' = FALSE /\ UNCHANGED <<phase, connection, handed>>
<1>1. TRUE \in BOOLEAN /\ connection \in {"unobserved", "fresh"}
      /\ "response" \in Failures \cup {"response"}
    BY DEF TypeOK
<1>2. result' = [kind |-> "response", sent |-> TRUE, connection |-> connection]
    BY DEF Finish, SettleAs
<1>3. result'.kind = "response" /\ (result'.sent <=> TRUE) /\ result'.connection = connection
    BY <1>2
<1>4. result' \in Outcomes
    BY <1>1, <1>2 DEF Outcomes
<1>5. result' # NoResult
    BY <1>1, <1>3, NoneIsNoOutcome
<1> QED
    BY <1>3, <1>4, <1>5 DEF Finish, SettleAs, SocketDestroyed

---------------------------------------------------------------------------
(* Every step preserves the invariant                                      *)

\* What a step may do to the stop and the body, whatever else it does.
StopTyped ==
    /\ signal' \in BOOLEAN /\ reason' \in {"none"} \cup Reasons
    /\ timer' \in BOOLEAN /\ listening' \in BOOLEAN
BodyTyped ==
    /\ body' \in {"none", "identity", "coded"}
    /\ came' \in 0..MaxUnits /\ held' \in Nat /\ kept' \in 0..MaxBytes
    /\ ended' \in BOOLEAN

\* A refusal before anything was sent keeps the strengthening.
LEMMA RefuseIInv ==
    ASSUME IInv, NEW kind \in Failures, Refuse(kind), UNCHANGED target, StopTyped,
           step \in {"called", "resolving"}, kind \in Reasons => reason' = kind
    PROVE  IInv'
<1>1. /\ step' = "returning" /\ result' \in Outcomes /\ result' # NoResult
      /\ result'.kind = kind /\ ~result'.sent /\ result'.connection = "unobserved"
      /\ UNCHANGED <<socket, phase, connection, handed, body, came, held, kept, ended>>
    BY RefuseKeeps
<1>2. phase = "connecting" /\ body = "none" /\ ~socket /\ kind # "response"
    BY DEF IInv, StepsAgree, Failures, Reasons
<1>3. TypeOK'
    BY <1>1 DEF IInv, TypeOK, StopTyped, Steps
<1>4. StepsAgree' /\ StoppedIsOver' /\ NotArmedYet' /\ PhaseTells' /\ NoneIsLost'
    BY <1>1, <1>2 DEF IInv, StepsAgree, StoppedIsOver, NotArmedYet, PhaseTells, NoneIsLost
<1>5. ResultIsTrue'
    BY <1>1, <1>2 DEF IInv, PhaseTells, ResultIsTrue, Settled
<1>6. WholeBody' /\ NothingOutlives'
    BY <1>1, <1>2 DEF WholeBody, NothingOutlives, Settled
<1> QED
    BY <1>3, <1>4, <1>5, <1>6 DEF IInv

\* A failure of the exchange keeps it.
LEMMA FailIInv ==
    ASSUME IInv, NEW kind \in Failures, Fail(kind), UNCHANGED target, StopTyped, BodyTyped,
           kind \in Reasons => reason' = kind,
           body' = "none" => UNCHANGED bodyVars, body' # "none" => handed
    PROVE  IInv'
<1>1. /\ step' = "returning" /\ result' \in Outcomes /\ result' # NoResult
      /\ result'.kind = kind /\ (result'.sent <=> phase = "exchanging")
      /\ result'.connection = connection
      /\ socket' = FALSE /\ UNCHANGED <<phase, connection, handed>>
    BY FailKeeps DEF IInv
<1>2. kind # "response"
    BY DEF Failures, Reasons
<1>3. TypeOK'
    BY <1>1 DEF IInv, TypeOK, StopTyped, BodyTyped, Steps
<1>4. StepsAgree' /\ StoppedIsOver' /\ NotArmedYet' /\ PhaseTells' /\ NoneIsLost'
    BY <1>1 DEF IInv, StepsAgree, StoppedIsOver, NotArmedYet, PhaseTells, NoneIsLost, bodyVars
<1>5. ResultIsTrue'
    BY <1>1 DEF IInv, PhaseTells, ResultIsTrue, Settled
<1>6. WholeBody' /\ NothingOutlives'
    BY <1>1, <1>2 DEF WholeBody, NothingOutlives, Settled
<1> QED
    BY <1>3, <1>4, <1>5, <1>6 DEF IInv

\* A body that ends well keeps it.
LEMMA FinishIInv ==
    ASSUME IInv, Finish, UNCHANGED <<target, stopVars>>, BodyTyped, step = "exchanging",
           body # "none", UNCHANGED <<body, came, held, kept>>, ended', held = 0,
           kept = IF body = "coded" THEN Ratio * came ELSE came
    PROVE  IInv'
<1>1. /\ step' = "returning" /\ result' \in Outcomes /\ result' # NoResult
      /\ result'.kind = "response" /\ result'.sent /\ result'.connection = connection
      /\ socket' = FALSE /\ UNCHANGED <<phase, connection, handed>>
    BY FinishKeeps DEF IInv
<1>2. handed /\ "response" \notin Reasons
    BY DEF IInv, NoneIsLost, Reasons
<1>3. TypeOK'
    BY <1>1 DEF IInv, TypeOK, stopVars, BodyTyped, Steps
<1>4. StepsAgree' /\ StoppedIsOver' /\ NotArmedYet' /\ PhaseTells' /\ NoneIsLost'
    BY <1>1 DEF IInv, StepsAgree, StoppedIsOver, NotArmedYet, PhaseTells, NoneIsLost
<1>5. ResultIsTrue'
    BY <1>1, <1>2 DEF ResultIsTrue
<1>6. kept <= MaxBytes
    BY TransportAssumption DEF IInv, TypeOK
<1>7. WholeBody' /\ NothingOutlives'
    BY <1>1, <1>6 DEF WholeBody, NothingOutlives
<1> QED
    BY <1>3, <1>4, <1>5, <1>7 DEF IInv

\* A stop: it refuses, fails, or nobody listens to it any more.
LEMMA StoppedIInv ==
    ASSUME IInv, NEW why \in Reasons, Stopped(why), UNCHANGED target,
           signal' \in BOOLEAN, timer' \in BOOLEAN, listening' \in BOOLEAN,
           step = "returned" => ~timer' /\ ~listening', step # "called"
    PROVE  IInv'
<1>1. why \in Failures /\ reason' = IF reason = "none" THEN why ELSE reason
    BY DEF Stopped, FirstReason, Failures
<1>2. StopTyped
    BY <1>1 DEF IInv, TypeOK, StopTyped
<1>3. CASE reason = "none" /\ step = "resolving"
  <2>1. Refuse(why)
      BY <1>3 DEF Stopped
  <2> QED
      BY <1>1, <1>2, <1>3, <2>1, RefuseIInv
<1>4. CASE reason = "none" /\ step = "exchanging"
  <2>1. Fail(why) /\ UNCHANGED bodyVars
      BY <1>4 DEF Stopped
  <2>2. BodyTyped /\ (body' # "none" => handed)
      BY <2>1 DEF IInv, TypeOK, BodyTyped, bodyVars, NoneIsLost
  <2> QED
      BY <1>1, <1>2, <1>4, <2>1, <2>2, FailIInv
<1>5. CASE ~(reason = "none" /\ step \in {"resolving", "exchanging"})
  <2>1. UNCHANGED <<step, wireVars, bodyVars, result>>
      BY <1>5 DEF Stopped
  <2>2. TypeOK'
      BY <1>2, <2>1 DEF IInv, TypeOK, StopTyped, wireVars, bodyVars
  <2>3. StepsAgree' /\ PhaseTells' /\ NoneIsLost' /\ WholeBody'
      BY <2>1 DEF IInv, StepsAgree, PhaseTells, NoneIsLost, WholeBody, Settled, wireVars, bodyVars
  <2>4. StoppedIsOver' /\ NotArmedYet' /\ NothingOutlives'
      BY <1>1, <1>5, <2>1 DEF IInv, StoppedIsOver, NotArmedYet, NothingOutlives, wireVars
  <2>5. ResultIsTrue'
    <3>1. Settled /\ result.kind \in Reasons => reason = result.kind /\ reason # "none"
        BY DEF IInv, ResultIsTrue, Reasons
    <3> QED
        BY <1>1, <2>1, <3>1 DEF IInv, ResultIsTrue, Settled, wireVars
  <2> QED
      BY <2>2, <2>3, <2>4, <2>5 DEF IInv
<1> QED
    BY <1>3, <1>4, <1>5

\* What every step of the exchange starts from, and what the stop stays.
LEMMA Exchanging ==
    ASSUME IInv, step = "exchanging", UNCHANGED stopVars
    PROVE  StopTyped /\ result = NoResult /\ reason = "none"
BY DEF IInv, TypeOK, StopTyped, stopVars, StepsAgree, StoppedIsOver

\* A step of the exchange that fails, and leaves the body as it is.
LEMMA FailsInPlace ==
    ASSUME IInv, step = "exchanging", NEW kind \in Failures \ Reasons, Fail(kind),
           UNCHANGED <<target, stopVars, bodyVars>>
    PROVE  IInv'
<1>1. StopTyped
    BY Exchanging
<1>2. BodyTyped /\ (body' # "none" => handed)
    BY DEF IInv, TypeOK, BodyTyped, bodyVars, NoneIsLost
<1> QED
    BY <1>1, <1>2, FailIInv

\* A step that goes on: the invariant holds of a send() that is not over.
LEMMA GoesOn ==
    ASSUME IInv, UNCHANGED <<target, result>>, StopTyped, BodyTyped,
           step' \in {"admitted", "exchanging"}, result = NoResult,
           socket' \in BOOLEAN, phase' \in {"connecting", "handshaking", "exchanging"},
           connection' \in {"unobserved", "fresh"}, handed' \in BOOLEAN,
           StepsAgree', StoppedIsOver', NotArmedYet', PhaseTells', NoneIsLost'
    PROVE  IInv'
<1>1. TypeOK'
    BY DEF IInv, TypeOK, StopTyped, BodyTyped, Steps
<1>2. ResultIsTrue' /\ WholeBody' /\ NothingOutlives'
    BY DEF ResultIsTrue, WholeBody, NothingOutlives, Settled
<1> QED
    BY <1>1, <1>2 DEF IInv

\* accept() of a unit, which the caller has counted in came or taken from held.
LEMMA AcceptIInv ==
    ASSUME IInv, Reading, Accept(1), UNCHANGED <<target, stopVars, body, ended>>,
           came' \in 0..MaxUnits, held' \in Nat,
           body = "identity" => held' = 0 /\ came' = kept + 1,
           body = "coded" => (held' + kept) + 1 = Ratio * came'
    PROVE  IInv'
<1> USE DEF Reading
<1>1. StopTyped /\ result = NoResult /\ reason = "none" /\ kept \in Nat /\ handed
    BY Exchanging DEF IInv, TypeOK, NoneIsLost
<1>2. CASE TooMany(kept + 1)
  <2>1. Fail("response-too-large") /\ kept' = kept
      BY <1>2 DEF Accept
  <2>2. BodyTyped
      BY <2>1 DEF IInv, TypeOK, BodyTyped
  <2>3. "response-too-large" \in Failures \ Reasons
      BY DEF Failures, Reasons
  <2> QED
      BY <1>1, <2>1, <2>2, <2>3, FailIInv
<1>3. CASE ~TooMany(kept + 1)
  <2>1. kept' = kept + 1 /\ UNCHANGED <<step, wireVars, result>>
      BY <1>3 DEF Accept
  <2>2. kept' \in 0..MaxBytes
      BY <1>1, <1>3, <2>1, TransportAssumption DEF TooMany
  <2>3. BodyTyped
      BY <2>2 DEF IInv, TypeOK, BodyTyped
  <2>4. NoneIsLost'
      BY <1>1, <2>1 DEF NoneIsLost, wireVars
  <2>5. StepsAgree' /\ StoppedIsOver' /\ NotArmedYet' /\ PhaseTells'
      BY <2>1 DEF IInv, StepsAgree, StoppedIsOver, NotArmedYet, PhaseTells, wireVars, stopVars
  <2> QED
      BY <1>1, <2>1, <2>3, <2>4, <2>5, GoesOn DEF IInv, TypeOK, wireVars
<1> QED
    BY <1>2, <1>3

\* Every step keeps it.
LEMMA NextIInv == IInv /\ [Next]_vars => IInv'
<1> SUFFICES ASSUME IInv, [Next]_vars PROVE IInv'
    OBVIOUS
<1> USE DEF IInv
<1>1. CASE RefuseLiteral /\ UNCHANGED target
  <2>1. Refuse("blocked-target") /\ "blocked-target" \in Failures \ Reasons /\ step = "called"
      BY <1>1 DEF RefuseLiteral, Failures, Reasons
  <2>2. StopTyped
      BY <1>1 DEF RefuseLiteral, stopVars, TypeOK, StopTyped
  <2> QED
      BY <1>1, <2>1, <2>2, RefuseIInv
<1>2. CASE Begin /\ UNCHANGED target
  <2>1. step = "called" /\ reason = "none" /\ timer' /\ listening' /\ signal' = signal
      BY <1>2 DEF Begin, StoppedIsOver
  <2>2. CASE signal
    <3>1. Refuse("aborted") /\ reason' = "aborted" /\ "aborted" \in Failures
        BY <1>2, <2>2 DEF Begin, Failures, Reasons
    <3>2. StopTyped
        BY <1>2, <2>1, <3>1 DEF Begin, TypeOK, StopTyped, Reasons
    <3> QED
        BY <1>2, <2>1, <3>1, <3>2, RefuseIInv
  <2>3. CASE ~signal
    <3>1. step' \in {"admitted", "resolving"} /\ UNCHANGED <<reason, wireVars, bodyVars, result>>
        BY <1>2, <2>3 DEF Begin
    <3>2. TypeOK'
        BY <1>2, <2>1, <3>1 DEF Begin, TypeOK, Steps, wireVars, bodyVars
    <3>3. StepsAgree' /\ StoppedIsOver' /\ NotArmedYet' /\ PhaseTells' /\ NoneIsLost'
        BY <2>1, <3>1 DEF StepsAgree, StoppedIsOver, NotArmedYet, PhaseTells, NoneIsLost, wireVars, bodyVars
    <3>4. ResultIsTrue' /\ WholeBody' /\ NothingOutlives'
        BY <2>1, <3>1 DEF StepsAgree, ResultIsTrue, WholeBody, NothingOutlives, Settled
    <3> QED
        BY <3>2, <3>3, <3>4
  <2> QED
      BY <2>2, <2>3 DEF TypeOK
<1>3. CASE Resolved /\ UNCHANGED target
  <2>1. StopTyped /\ step = "resolving"
      BY <1>3 DEF Resolved, stopVars, TypeOK, StopTyped
  <2>2. CASE Refuse("blocked-target")
    <3>1. "blocked-target" \in Failures \ Reasons
        BY DEF Failures, Reasons
    <3> QED
        BY <1>3, <2>1, <2>2, <3>1, RefuseIInv
  <2>3. CASE Refuse("dns-failure")
    <3>1. "dns-failure" \in Failures \ Reasons
        BY DEF Failures, Reasons
    <3> QED
        BY <1>3, <2>1, <2>3, <3>1, RefuseIInv
  <2>4. CASE step' = "admitted" /\ UNCHANGED <<wireVars, bodyVars, result>>
    <3>1. StepsAgree' /\ StoppedIsOver' /\ NotArmedYet' /\ PhaseTells' /\ NoneIsLost'
        BY <2>1, <2>4 DEF StepsAgree, StoppedIsOver, NotArmedYet, PhaseTells, NoneIsLost, wireVars, bodyVars
    <3>2. BodyTyped /\ result = NoResult
        BY <2>1, <2>4 DEF TypeOK, BodyTyped, bodyVars, StepsAgree
    <3> QED
        BY <1>3, <2>1, <2>4, <3>1, <3>2, GoesOn DEF TypeOK, wireVars
  <2> QED
      BY <1>3, <2>2, <2>3, <2>4 DEF Resolved
<1>4. CASE Exchange /\ UNCHANGED target
  <2>1. StopTyped /\ BodyTyped /\ step = "admitted" /\ result = NoResult
      BY <1>4 DEF Exchange, stopVars, bodyVars, TypeOK, StopTyped, BodyTyped, StepsAgree
  <2>2. CASE reason # "none"
    <3>1. reason \in Failures /\ Fail(reason) /\ reason' = reason
        BY <1>4, <2>2 DEF Exchange, stopVars, TypeOK, Failures
    <3> QED
        BY <1>4, <2>1, <3>1, FailIInv DEF Exchange, bodyVars, NoneIsLost
  <2>3. CASE reason = "none"
    <3>1. /\ step' = "exchanging" /\ socket' = TRUE
          /\ UNCHANGED <<phase, connection, handed, result, body, came, held, kept, ended, reason>>
        BY <1>4, <2>3 DEF Exchange, bodyVars, stopVars
    <3>2. StepsAgree' /\ StoppedIsOver' /\ NotArmedYet' /\ PhaseTells' /\ NoneIsLost'
        BY <2>1, <2>3, <3>1 DEF StepsAgree, StoppedIsOver, NotArmedYet, PhaseTells, NoneIsLost
    <3> QED
        BY <1>4, <2>1, <3>1, <3>2, GoesOn DEF TypeOK
  <2> QED
      BY <2>2, <2>3
<1>5. CASE Return /\ UNCHANGED target
  <2>1. /\ step = "returning" /\ step' = "returned" /\ timer' = FALSE /\ listening' = FALSE
        /\ UNCHANGED <<signal, reason, wireVars, bodyVars, result>>
      BY <1>5 DEF Return, TimerCleared
  <2>2. TypeOK'
      BY <1>5, <2>1, ZenonT(60) DEF TypeOK, Steps, wireVars, bodyVars
  <2>3. StepsAgree' /\ StoppedIsOver' /\ NotArmedYet' /\ PhaseTells' /\ NoneIsLost'
      BY <2>1 DEF StepsAgree, StoppedIsOver, NotArmedYet, PhaseTells, NoneIsLost, wireVars, bodyVars
  <2>4. ResultIsTrue' /\ WholeBody' /\ NothingOutlives'
      BY <2>1 DEF StepsAgree, ResultIsTrue, WholeBody, NothingOutlives, Settled, wireVars, bodyVars
  <2> QED
      BY <2>2, <2>3, <2>4
<1>6. CASE Timeout /\ UNCHANGED target
  <2>1. /\ Stopped("timeout") /\ "timeout" \in Reasons /\ signal' \in BOOLEAN
        /\ timer' \in BOOLEAN /\ listening' \in BOOLEAN
        /\ step = "returned" => ~timer' /\ ~listening'
      BY <1>6 DEF Timeout, Reasons, TypeOK, NothingOutlives
  <2>2. step # "called"
      BY <1>6 DEF Timeout, NotArmedYet
  <2> QED
      BY <1>6, <2>1, <2>2, StoppedIInv
<1>7. CASE Abort /\ UNCHANGED target
  <2>1. CASE listening
    <3>1. /\ Stopped("aborted") /\ "aborted" \in Reasons /\ signal' \in BOOLEAN
          /\ timer' \in BOOLEAN /\ listening' \in BOOLEAN
          /\ step = "returned" => ~timer' /\ ~listening'
        BY <1>7, <2>1 DEF Abort, Reasons, TypeOK, NothingOutlives
    <3>2. step # "called"
        BY <2>1 DEF NotArmedYet
    <3> QED
        BY <1>7, <3>1, <3>2, StoppedIInv
  <2>2. CASE ~listening
    <3>1. signal' = TRUE /\ UNCHANGED <<target, step, timer, listening, reason, wireVars, bodyVars, result>>
        BY <1>7, <2>2 DEF Abort
    <3>2. TypeOK'
        BY <3>1 DEF TypeOK, wireVars, bodyVars
    <3> QED
        BY <3>1, <3>2 DEF StepsAgree, StoppedIsOver, NotArmedYet, PhaseTells, NoneIsLost, ResultIsTrue,
                          WholeBody, NothingOutlives, Settled, wireVars, bodyVars, NotArmedYet
  <2> QED
      BY <2>1, <2>2 DEF TypeOK
<1>8. CASE (Connected \/ Secured) /\ UNCHANGED target
  <2>1. /\ step = "exchanging" /\ result = NoResult /\ StopTyped
        /\ UNCHANGED <<step, stopVars, socket, bodyVars, result>>
      BY <1>8, Exchanging DEF Connected, Secured, NoneIsLost
  <2>2. BodyTyped
      BY <2>1 DEF TypeOK, BodyTyped, bodyVars
  <2>3. /\ phase' \in {"handshaking", "exchanging"} /\ connection' = "fresh" /\ handed' \in BOOLEAN
        /\ phase' = "exchanging" <=> handed'
        /\ handed => handed'
      BY <1>8 DEF Connected, Secured, ConnectedPhase, TypeOK, PhaseTells
  <2>4. StepsAgree' /\ StoppedIsOver' /\ NotArmedYet' /\ PhaseTells' /\ NoneIsLost'
      BY <2>1, <2>3 DEF StepsAgree, StoppedIsOver, NotArmedYet, PhaseTells, NoneIsLost, stopVars, bodyVars
  <2> QED
    <3>1. /\ step' \in {"admitted", "exchanging"} /\ socket' \in BOOLEAN
          /\ phase' \in {"connecting", "handshaking", "exchanging"}
          /\ connection' \in {"unobserved", "fresh"}
        BY <2>1, <2>3 DEF TypeOK
    <3> QED
        BY <1>8, <2>1, <2>2, <2>3, <2>4, <3>1, GoesOn, Zenon
<1>9. CASE RequestFails /\ UNCHANGED target
  <2>1. ErrorKind \in Failures \ Reasons /\ "blocked-target" \in Failures \ Reasons
      BY DEF TypeOK, ErrorKind, Failures, Reasons
  <2> QED
      BY <1>9, <2>1, FailsInPlace DEF RequestFails
<1>10. CASE Response /\ UNCHANGED target
  <2>1. /\ step = "exchanging" /\ handed /\ body = "none" /\ UNCHANGED stopVars
        /\ StopTyped /\ result = NoResult
      BY <1>10, Exchanging DEF Response
  <2>2. CASE Fail("unreadable-response") /\ UNCHANGED bodyVars
    <3>1. "unreadable-response" \in Failures \ Reasons
        BY DEF Failures, Reasons
    <3> QED
        BY <1>10, <2>1, <2>2, <3>1, FailsInPlace
  <2>3. CASE /\ body' \in {"identity", "coded"}
             /\ UNCHANGED <<step, wireVars, came, held, kept, ended, result>>
    <3>1. BodyTyped
        BY <2>3 DEF TypeOK, BodyTyped
    <3>2. NoneIsLost'
        BY <2>1, <2>3, RatioTimes DEF NoneIsLost, wireVars
    <3>3. StepsAgree' /\ StoppedIsOver' /\ NotArmedYet' /\ PhaseTells'
        BY <2>1, <2>3 DEF StepsAgree, StoppedIsOver, NotArmedYet, PhaseTells, wireVars, stopVars
    <3> QED
        BY <1>10, <2>1, <2>3, <3>1, <3>2, <3>3, GoesOn DEF TypeOK, wireVars
  <2> QED
      BY <1>10, <2>2, <2>3 DEF Response
<1>11. CASE Data /\ UNCHANGED target
  <2>1. /\ Reading /\ ~ended /\ came' = came + 1 /\ came' \in 0..MaxUnits
        /\ UNCHANGED <<stopVars, body, ended>>
      BY <1>11, TransportAssumption DEF Data, TypeOK
  <2>2. CASE body = "identity"
    <3>1. Accept(1) /\ held' = held /\ held = 0 /\ kept = came
        BY <1>11, <2>1, <2>2 DEF Data, NoneIsLost, Reading
    <3> QED
        BY <1>11, <2>1, <2>2, <3>1, AcceptIInv
  <2>3. CASE body # "identity"
    <3>1. held' = held + Ratio /\ UNCHANGED <<kept, step, wireVars, result>>
        BY <1>11, <2>3 DEF Data
    <3>2. step = "exchanging" /\ body = "coded" /\ StopTyped /\ result = NoResult
        BY <2>1, <2>3, Exchanging DEF Reading, TypeOK
    <3>3. BodyTyped
        BY <2>1, <3>1, TransportAssumption DEF TypeOK, BodyTyped
    <3>4. held' + kept = Ratio * came'
      <4>1. came \in Nat /\ held \in Nat /\ kept \in Nat /\ Ratio \in Nat
          BY TransportAssumption DEF TypeOK
      <4>2. held + kept = Ratio * came /\ Ratio * came' = Ratio * came + Ratio /\ Ratio * came \in Nat
          BY <2>1, <3>2, <4>1, RatioTimes DEF NoneIsLost
      <4> QED
          BY <3>1, <4>1, <4>2
    <3>5. NoneIsLost'
        BY <2>1, <3>1, <3>2, <3>4 DEF NoneIsLost, wireVars
    <3>6. StepsAgree' /\ StoppedIsOver' /\ NotArmedYet' /\ PhaseTells'
        BY <2>1, <3>1, <3>2 DEF StepsAgree, StoppedIsOver, NotArmedYet, PhaseTells, wireVars, stopVars
    <3> QED
        BY <1>11, <2>1, <3>1, <3>2, <3>3, <3>5, <3>6, GoesOn DEF TypeOK, wireVars
  <2> QED
      BY <2>2, <2>3
<1>12. CASE Decoded /\ UNCHANGED target
  <2>1. /\ Reading /\ held > 0 /\ held' = held - 1 /\ Accept(1)
        /\ UNCHANGED <<stopVars, body, came, ended>>
      BY <1>12 DEF Decoded
  <2>2. held' \in Nat /\ came' \in 0..MaxUnits
      BY <2>1 DEF TypeOK
  <2>3. body = "coded" /\ (held' + kept) + 1 = Ratio * came'
    <3>1. body = "coded" /\ held \in Nat /\ kept \in Nat
        BY <2>1, TransportAssumption DEF Reading, TypeOK, NoneIsLost
    <3>2. held + kept = Ratio * came'
        BY <2>1, <3>1 DEF Reading, NoneIsLost
    <3> QED
        BY <2>1, <3>1, <3>2
  <2> QED
      BY <1>12, <2>1, <2>2, <2>3, AcceptIInv
<1>13. CASE End /\ UNCHANGED target
  <2>1. /\ step = "exchanging" /\ body # "none" /\ ended' = TRUE /\ ended'
        /\ UNCHANGED <<stopVars, body, came, held, kept>>
        /\ StopTyped /\ result = NoResult
      BY <1>13, Exchanging DEF End, Reading
  <2>2. BodyTyped
      BY <2>1 DEF TypeOK, BodyTyped
  <2>3. CASE NothingToDecode
    <3>1. held = 0 /\ kept = IF body = "coded" THEN Ratio * came ELSE came
      <4>1. CASE body = "identity"
          BY <2>1, <4>1 DEF NoneIsLost
      <4>2. CASE body = "coded" /\ came = 0
          BY <2>1, <4>2, RatioTimes DEF NoneIsLost, TypeOK
      <4> QED
          BY <2>1, <2>3, <4>1, <4>2 DEF NothingToDecode, TypeOK
    <3>2. Finish
        BY <1>13, <2>3 DEF End
    <3> QED
        BY <1>13, <2>1, <2>2, <3>1, <3>2, FinishIInv
  <2>4. CASE ~NothingToDecode
    <3>1. UNCHANGED <<step, wireVars, result>>
        BY <1>13, <2>4 DEF End
    <3>2. StepsAgree' /\ StoppedIsOver' /\ NotArmedYet' /\ PhaseTells' /\ NoneIsLost'
        BY <2>1, <3>1 DEF StepsAgree, StoppedIsOver, NotArmedYet, PhaseTells, NoneIsLost, wireVars, stopVars
    <3> QED
        BY <1>13, <2>1, <2>2, <3>1, <3>2, GoesOn DEF TypeOK, wireVars
  <2> QED
      BY <2>3, <2>4
<1>14. CASE DecoderEnds /\ UNCHANGED target
  <2>1. /\ step = "exchanging" /\ body # "none" /\ ended /\ held = 0 /\ Finish
        /\ UNCHANGED <<stopVars, body, came, held, kept, ended>>
      BY <1>14 DEF DecoderEnds, Reading, bodyVars
  <2>2. kept = IF body = "coded" THEN Ratio * came ELSE came
      BY <2>1, TransportAssumption DEF NoneIsLost, TypeOK
  <2>3. BodyTyped
      BY <2>1 DEF TypeOK, BodyTyped
  <2> QED
      BY <1>14, <2>1, <2>2, <2>3, FinishIInv
<1>15. CASE BodyBreaks /\ UNCHANGED target
  <2>1. "unreadable-response" \in Failures \ Reasons
      BY DEF Failures, Reasons
  <2> QED
      BY <1>15, <2>1, FailsInPlace DEF BodyBreaks, Reading
<1>16. CASE UNCHANGED vars
    BY <1>16 DEF vars, stopVars, wireVars, bodyVars, TypeOK, StepsAgree, StoppedIsOver, NotArmedYet,
                PhaseTells, NoneIsLost, ResultIsTrue, WholeBody, NothingOutlives, Settled
<1> QED
    BY <1>1, <1>2, <1>3, <1>4, <1>5, <1>6, <1>7, <1>8, <1>9, <1>10, <1>11, <1>12, <1>13, <1>14,
       <1>15, <1>16 DEF Next, Program, Environment

\* So it holds throughout.
LEMMA SpecIInv == Spec => []IInv
BY InitIInv, NextIInv, PTL DEF Spec

---------------------------------------------------------------------------
\* Every variable keeps its type: nothing past the limit is kept of a body.
THEOREM TransportTypes == Spec => []TypeOK
BY SpecIInv, PTL DEF IInv

\* Whatever ends a send(), and wherever, it tells how far the request got.
THEOREM ResultsAreTrue == Spec => []ResultIsTrue
BY SpecIInv, PTL DEF IInv

\* No truncated, undecoded or oversized body is told as a response.
THEOREM BodiesAreWhole == Spec => []WholeBody
BY SpecIInv, PTL DEF IInv

\* A send() that returned left no socket, no timer and no listener.
THEOREM NothingIsLeft == Spec => []NothingOutlives
BY SpecIInv, PTL DEF IInv
============================================================================
