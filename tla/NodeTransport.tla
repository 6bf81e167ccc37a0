--------------------------- MODULE NodeTransport ---------------------------
(***************************************************************************)
(* One send() of the Node transport (packages/node/src/transport.ts,       *)
(* body.ts): resolve the name, admit its addresses, open a connection of   *)
(* its own, exchange, read the body - while a deadline and the caller's    *)
(* signal may stop it anywhere. It settles once, with the first thing that *)
(* happened.                                                               *)
(*                                                                         *)
(* The resolver, the endpoint and node:http are the environment: what they *)
(* emit is modelled from the listeners. Headers, addresses and clocks are  *)
(* left out, and a body is so many units, each of which a content coding   *)
(* makes into Ratio.                                                       *)
(***************************************************************************)
EXTENDS Naturals

CONSTANTS Ratio,      \* what a unit of a coded body decodes to
          MaxBytes,   \* maxResponseBytes
          MaxUnits    \* bound of the model: units of body an endpoint sends

ASSUME TransportAssumption ==
    /\ Ratio \in Nat \ {0}
    /\ MaxBytes \in Nat /\ MaxUnits \in Nat

NoResult == [kind |-> "none"]

Reasons == {"timeout", "aborted"}
Failures == Reasons \cup {"blocked-target", "dns-failure", "connection-failed", "tls-failure",
                          "response-too-large", "unreadable-response"}
Outcomes == [kind : Failures \cup {"response"}, sent : BOOLEAN, connection : {"unobserved", "fresh"}]
Steps == {"called", "resolving", "admitted", "exchanging", "returning", "returned"}

VARIABLES
    target,      \* whether it is https, and its host an address: nothing to resolve
    step,        \* how far send() is
    signal,      \* the caller's signal
    reason,      \* why it was stopped first, or "none"
    timer,       \* the deadline is armed
    listening,   \* the caller's signal is listened to
    socket,      \* a request exists and was not destroyed
    phase,       \* of the exchange
    connection,
    handed,      \* the request went out over an established connection
    body,        \* "none" before a response, then how it is coded
    came,        \* units of body that arrived
    held,        \* units the decoder has yet to give
    kept,        \* units collected
    ended,       \* the response ended, complete
    result

stopVars == <<signal, reason, timer, listening>>
bodyVars == <<body, came, held, kept, ended>>
wireVars == <<socket, phase, connection, handed>>
vars == <<target, step, stopVars, wireVars, bodyVars, result>>

---------------------------------------------------------------------------
(* How a send() ends                                                       *)

\* refuse(): before the exchange.
Refuse(kind) ==
    /\ result' = [kind |-> kind, sent |-> FALSE, connection |-> "unobserved"]
    /\ step' = "returning"
    /\ UNCHANGED <<wireVars, bodyVars>>

\* settle() of the exchange: the first outcome is kept and the request destroyed.
SocketLeft == UNCHANGED socket    \* mutated form
SocketDestroyed == socket' = FALSE

SettleAs(outcome) ==
    /\ result' = outcome
    /\ step' = "returning"
    /\ SocketDestroyed
    /\ UNCHANGED <<phase, connection, handed>>

\* fail(), which tells how far the exchange got.
Fail(kind) ==
    SettleAs([kind |-> kind, sent |-> phase = "exchanging", connection |-> connection])

\* ERROR_KINDS
ErrorKind ==
    CASE phase = "connecting" -> "connection-failed"
      [] phase = "handshaking" -> "tls-failure"
      [] phase = "exchanging" -> "unreadable-response"

---------------------------------------------------------------------------
(* createStop(): the deadline and the caller's signal                      *)

LastReason(why) == why    \* mutated form: stop() does not ask whether it was
FirstReason(why) == IF reason = "none" THEN why ELSE reason

\* What the first stop does to where send() stands: a resolution is left, an
\* exchange fails with it, and before and after those nobody listens.
Stopped(why) ==
    /\ reason' = FirstReason(why)
    /\ CASE reason = "none" /\ step = "resolving" -> Refuse(why)
         [] reason = "none" /\ step = "exchanging" -> Fail(why) /\ UNCHANGED bodyVars
         [] OTHER -> UNCHANGED <<step, wireVars, bodyVars, result>>

\* Mutated form: the deadline is only for the exchange.
TimeoutOfExchange ==
    /\ timer /\ step = "exchanging"
    /\ timer' = FALSE
    /\ Stopped("timeout")
    /\ UNCHANGED <<signal, listening>>
Timeout ==
    /\ timer
    /\ timer' = FALSE
    /\ Stopped("timeout")
    /\ UNCHANGED <<signal, listening>>

Abort ==
    /\ ~signal
    /\ signal' = TRUE
    /\ IF listening THEN Stopped("aborted")
       ELSE UNCHANGED <<reason, step, wireVars, bodyVars, result>>
    /\ UNCHANGED <<timer, listening>>

---------------------------------------------------------------------------
(* send()                                                                  *)

\* A literal address the policy refuses: nothing is armed.
RefuseLiteral ==
    /\ step = "called" /\ target.literal
    /\ Refuse("blocked-target")
    /\ UNCHANGED stopVars

Begin ==
    /\ step = "called"
    /\ timer' = TRUE /\ listening' = TRUE
    /\ IF signal
       THEN reason' = "aborted" /\ Refuse("aborted")
       ELSE /\ step' = IF target.literal THEN "admitted" ELSE "resolving"
            /\ UNCHANGED <<reason, wireVars, bodyVars, result>>
    /\ UNCHANGED signal

\* The resolver answers, and every address is admitted or one is not.
Resolved ==
    /\ step = "resolving"
    /\ \/ step' = "admitted" /\ UNCHANGED <<wireVars, bodyVars, result>>
       \/ Refuse("blocked-target")
       \/ Refuse("dns-failure")
    /\ UNCHANGED stopVars

\* exchange(): a request that is stopped before it is ended is never sent.
Exchange ==
    /\ step = "admitted"
    /\ IF reason # "none"
       THEN Fail(reason)
       ELSE /\ step' = "exchanging"
            /\ socket' = TRUE
            /\ UNCHANGED <<phase, connection, handed, result>>
    /\ UNCHANGED <<stopVars, bodyVars>>

TimerCleared == timer' = FALSE

\* The finally clause of send(): stop.dispose().
Return ==
    /\ step = "returning"
    /\ step' = "returned"
    /\ TimerCleared
    /\ listening' = FALSE
    /\ UNCHANGED <<signal, reason, wireVars, bodyVars, result>>

---------------------------------------------------------------------------
(* What node:http tells of the exchange                                    *)

ConnectedPhase == IF target.secure THEN "handshaking" ELSE "exchanging"

\* The socket's connect. An agent of its own never reuses one.
Connected ==
    /\ step = "exchanging" /\ phase = "connecting"
    /\ connection' = "fresh"
    /\ phase' = ConnectedPhase
    /\ handed' = ~target.secure
    /\ UNCHANGED <<step, stopVars, socket, bodyVars, result>>

Secured ==
    /\ step = "exchanging" /\ connection = "fresh" /\ ~handed
    /\ phase' = "exchanging"
    /\ handed' = TRUE
    /\ UNCHANGED <<step, stopVars, socket, connection, bodyVars, result>>

\* The request errs, closes without a response, or asks for an unpinned name.
RequestFails ==
    /\ step = "exchanging" /\ body = "none"
    /\ \/ Fail(ErrorKind)
       \/ phase = "connecting" /\ ~target.literal /\ Fail("blocked-target")
    /\ UNCHANGED <<stopVars, bodyVars>>

Response ==
    /\ step = "exchanging" /\ handed /\ body = "none"
    /\ \/ /\ body' \in {"identity", "coded"}
          /\ UNCHANGED <<step, wireVars, came, held, kept, ended, result>>
       \/ Fail("unreadable-response") /\ UNCHANGED bodyVars
    /\ UNCHANGED stopVars

---------------------------------------------------------------------------
(* readBody()                                                              *)

Reading == step = "exchanging" /\ body # "none"

TooMany(units) == units > MaxBytes

\* accept(): nothing past the limit is kept.
Accept(units) ==
    IF TooMany(kept + units)
    THEN Fail("response-too-large") /\ UNCHANGED kept
    ELSE kept' = kept + units /\ UNCHANGED <<step, wireVars, result>>

Data ==
    /\ Reading /\ ~ended /\ came < MaxUnits
    /\ came' = came + 1
    /\ IF body = "identity"
       THEN Accept(1) /\ UNCHANGED held
       ELSE held' = held + Ratio /\ UNCHANGED <<kept, step, wireVars, result>>
    /\ UNCHANGED <<stopVars, body, ended>>

Decoded ==
    /\ Reading /\ held > 0
    /\ held' = held - 1
    /\ Accept(1)
    /\ UNCHANGED <<stopVars, body, came, ended>>

Finish == SettleAs([kind |-> "response", sent |-> TRUE, connection |-> connection])

EndFinishes == TRUE    \* mutated form: the decoder is not waited for
NothingToDecode == body = "identity" \/ came = 0

\* The response ended; the decoder, if one was started, is ended in its turn.
End ==
    /\ Reading /\ ~ended
    /\ ended' = TRUE
    /\ IF NothingToDecode THEN Finish ELSE UNCHANGED <<step, wireVars, result>>
    /\ UNCHANGED <<stopVars, body, came, held, kept>>

DecoderEnds ==
    /\ Reading /\ ended /\ held = 0
    /\ Finish
    /\ UNCHANGED <<stopVars, bodyVars>>

\* The connection broke in the middle of the body, or the coding did.
BodyBreaks ==
    /\ Reading
    /\ ~ended \/ came > 0
    /\ Fail("unreadable-response")
    /\ UNCHANGED <<stopVars, bodyVars>>

---------------------------------------------------------------------------
Init ==
    /\ target \in [secure : BOOLEAN, literal : BOOLEAN]
    /\ step = "called"
    /\ signal \in BOOLEAN /\ reason = "none"
    /\ timer = FALSE /\ listening = FALSE
    /\ socket = FALSE /\ phase = "connecting" /\ connection = "unobserved" /\ handed = FALSE
    /\ body = "none" /\ came = 0 /\ held = 0 /\ kept = 0 /\ ended = FALSE
    /\ result = NoResult

\* What the program does by itself.
Program == Begin \/ Exchange \/ Return

Environment ==
    \/ Abort
    \/ Resolved
    \/ Connected \/ Secured \/ RequestFails \/ Response
    \/ Data \/ Decoded \/ End \/ DecoderEnds \/ BodyBreaks

Next == (Program \/ RefuseLiteral \/ Timeout \/ Environment) /\ UNCHANGED target

Spec == Init /\ [][Next]_vars

\* Timers fire. The resolver and the endpoint may do nothing at all.
FairSpec == Spec /\ WF_vars(Program /\ UNCHANGED target) /\ WF_vars(Timeout /\ UNCHANGED target)

---------------------------------------------------------------------------
(* Properties                                                              *)

TypeOK ==
    /\ target \in [secure : BOOLEAN, literal : BOOLEAN]
    /\ step \in Steps
    /\ signal \in BOOLEAN /\ reason \in {"none"} \cup Reasons
    /\ timer \in BOOLEAN /\ listening \in BOOLEAN
    /\ socket \in BOOLEAN
    /\ phase \in {"connecting", "handshaking", "exchanging"}
    /\ connection \in {"unobserved", "fresh"}
    /\ handed \in BOOLEAN
    /\ body \in {"none", "identity", "coded"}
    /\ came \in 0..MaxUnits /\ held \in Nat /\ kept \in 0..MaxBytes
    /\ ended \in BOOLEAN
    /\ result = NoResult \/ result \in Outcomes

Settled == result # NoResult

\* What is told is what happened: a request is told as sent exactly when it went
\* out over an established connection, whatever ended it and wherever, a stop by
\* the reason that came first, and the connection as it was. The session counts
\* what it reached, and Group F its draws, by these (transport/types.ts).
ResultIsTrue ==
    Settled =>
        /\ result.sent <=> handed
        /\ result.connection = "fresh" <=> connection = "fresh"
        /\ result.kind \in Reasons => result.kind = reason

\* A response is told only with its whole body, decoded, and within the limit:
\* neither a broken connection nor a body that expands is passed as an answer.
WholeBody ==
    Settled /\ result.kind = "response" =>
        /\ ended /\ held = 0 /\ kept <= MaxBytes
        /\ kept = IF body = "coded" THEN Ratio * came ELSE came

\* "No socket outlives the check that admitted it" (transport.ts:7), nor does the
\* deadline or the listener on the caller's signal, whichever way it ended.
NothingOutlives == step = "returned" => ~socket /\ ~timer /\ ~listening

\* Every send() answers, though neither the resolver nor the endpoint ever does:
\* what the runner's every wait rests on.
Answers == <>(step = "returned")
=============================================================================
