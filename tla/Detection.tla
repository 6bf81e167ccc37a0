------------------------------ MODULE Detection ------------------------------
(***************************************************************************)
(* Which protocol an endpoint is probed over, from what it answered to one *)
(* invalid request of each (packages/core/src/adapters/detect.ts).         *)
(*                                                                         *)
(* An answer is the kind of its status and the kind of its body: what      *)
(* classify() tells apart of them.                                         *)
(***************************************************************************)
EXTENDS Naturals

Protocols == {"anthropic-messages", "openai-chat", "openai-responses"}
Vendors == {"anthropic", "openai"}

\* Where a protocol stands in PROTOCOLS.
Place ==
    [p \in Protocols |->
        CASE p = "anthropic-messages" -> 1 [] p = "openai-chat" -> 2 [] p = "openai-responses" -> 3]

Owner == [p \in Protocols |-> IF p = "anthropic-messages" THEN "anthropic" ELSE "openai"]

---------------------------------------------------------------------------
(* What an endpoint may answer                                             *)

FailureKinds == {"blocked-target", "aborted", "failed"}

\* 404 and 405; 2xx; 400 and 422; any other.
Statuses == {"absent", "success", "invalid", "other"}

\* Not JSON; JSON but no object; an object; the two error envelopes; OpenAI's for
\* a model that was looked up and not found; and each protocol's generation.
Envelopes == {"anthropic-error", "openai-error", "model-not-found"}
Bodies == {"unreadable", "value", "object"} \cup Envelopes \cup Protocols

Dialect == [e \in Envelopes |-> IF e = "anthropic-error" THEN "anthropic" ELSE "openai"]

HttpAnswers == [status : Statuses, body : Bodies]

---------------------------------------------------------------------------
(* classify(), of a response: the first that holds                         *)

\* "unclear" stands for a route that is absent and for a generation of another
\* protocol too: nobody tells them apart.
Outcomes == {"own", "foreign", "generates", "refuses", "unclear"}

Absent(a) == a.status = "absent" /\ a.body # "model-not-found"
Accepted(a) == a.status = "success" /\ a.body # "unreadable"
Speaks(a) == a.body \in Envelopes /\ ~Absent(a) /\ ~Accepted(a)
Refuses(a) == a.status = "invalid" /\ a.body \in {"object"} \cup Protocols

Classify(p, a) ==
    CASE Accepted(a) /\ a.body = p -> "generates"
      [] Speaks(a) -> IF Dialect[a.body] = Owner[p] THEN "own" ELSE "foreign"
      [] Refuses(a) -> "refuses"
      [] OTHER -> "unclear"

---------------------------------------------------------------------------
(* rankProtocols()                                                         *)

Ranks == [own |-> 4, foreign |-> 3, generates |-> 2, refuses |-> 1]
RankOf(outcome) == IF outcome \in DOMAIN Ranks THEN Ranks[outcome] ELSE 0

\* Of two that rank alike: the claimed model's vendor's own, then the first of
\* PROTOCOLS. An endpoint whose URL names a protocol is not asked.
TieBreak(p, q, vendor) ==
    \/ Owner[p] = vendor /\ Owner[q] # vendor
    \/ ((Owner[p] = vendor) <=> (Owner[q] = vendor)) /\ Place[p] < Place[q]

VendorFirst(p, q, outcomes, vendor) == TieBreak(p, q, vendor)    \* mutated form
Precedes(p, q, outcomes, vendor) ==
    \/ RankOf(outcomes[p]) > RankOf(outcomes[q])
    \/ RankOf(outcomes[p]) = RankOf(outcomes[q]) /\ TieBreak(p, q, vendor)

Candidates(outcomes) == {p \in Protocols : RankOf(outcomes[p]) > 0}

\* ranked[0], where there is one.
Detected(outcomes, vendor) ==
    CHOOSE p \in Candidates(outcomes) :
        \A q \in Candidates(outcomes) \ {p} : Precedes(p, q, outcomes, vendor)
=============================================================================
