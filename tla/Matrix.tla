------------------------------- MODULE Matrix -------------------------------
(* A rejection matrix (probes/conformance/shared.ts): one request per shape
   that a vendor documents some models as refusing, sent in order after an
   optional control request, and what the refusals say about which model
   answered.

   What answers is chosen once: "vendor" is the vendor's own API serving the
   claimed model; "layer" is the claimed model behind something that may drop a
   setting, refuse in its own words or envelope, or fail; "any" is whatever
   else may stand there.  That a refusal in the vendor's envelope is the
   model's own is the probes' premise (shared.ts:7), so a "layer" adds none. *)
EXTENDS Integers, Sequences

CONSTANTS
  Claims,       \* the models a target may claim, and the cheaper ones
  Cells,        \* the request shapes
  Documents,    \* Documents[m][c]: "rejected", "accepted" or "silent"
  CheaperThan,  \* the cheaper models of the same vendor
  Worded,       \* the cells whose refusal the vendor documents word by word
  Probes        \* records [cells, control]: the shapes sent, and whether a control is

Match    == 3    \* IDENTITY_MATCH, in tenths
Mismatch == -4   \* IDENTITY_MISMATCH

Outcomes == {"accepted", "rejected", "foreign-rejection", "other"}

ASSUME TableAssumption ==
  /\ Documents \in [Claims -> [Cells -> {"accepted", "rejected", "silent"}]]
  /\ CheaperThan \in [Claims -> SUBSET Claims]
  /\ Worded \in SUBSET Cells
  /\ Probes \in SUBSET [cells : Seq(Cells), control : BOOLEAN]

(* An answer, by what is read of it: status 200, 400 or another; whether the
   error envelope is the vendor's own `invalid_request_error`; and whether the
   message is in the documented words. *)
Exchanges == [status : {200, 400, 404}, own : BOOLEAN, worded : BOOLEAN]
Accepted  == [status |-> 200, own |-> FALSE, worded |-> FALSE]
Unread    == [status |-> 404, own |-> FALSE, worded |-> FALSE]
Refused(worded) == [status |-> 400, own |-> TRUE, worded |-> worded]
Foreign   == [status |-> 400, own |-> FALSE, worded |-> FALSE]

outcomeOf(exchange) ==
  IF exchange.status = 200 THEN "accepted"
  ELSE IF exchange.status # 400 THEN "other"
  ELSE IF exchange.own THEN "rejected" ELSE "foreign-rejection"

VARIABLES
  claim,    \* the claimed model
  probe,    \* the matrix being run
  answerer, \* "vendor", "layer" or "any"
  phase,    \* "control", "cells", "done", or "lost" when a request was
  control,  \* the outcome of the control request, "none" before it
  answers,  \* the exchange of each cell answered so far
  signals   \* what the probe returned

vars == <<claim, probe, answerer, phase, control, answers, signals>>

-----------------------------------------------------------------------------
(* Reading the answers *)

Answered == DOMAIN answers
Outcome(c) == outcomeOf(answers[c])

(* `judge`: the cells the documentation settles for m and the endpoint answered
   decisively. *)
Judged(m) ==
  {c \in Answered : Documents[m][c] # "silent" /\ Outcome(c) \in {"accepted", "rejected"}}
differsBy(m, outcome) ==
  \E c \in Judged(m) : Outcome(c) = outcome /\ Documents[m][c] # outcome
isConsistent(m) == \A c \in Judged(m) : Documents[m][c] = Outcome(c)
refusesAny(m)   == \E c \in Judged(m) : Outcome(c) = "rejected"

\* Mutated form: an acceptance counts as a refusal does.
readingOfAll(m) ==
  IF ~isConsistent(m) THEN Mismatch ELSE IF refusesAny(m) THEN Match ELSE 0
(* What the answers say for m; 0 is no reading. *)
reading(m) ==
  IF differsBy(m, "rejected") THEN Mismatch
  ELSE IF isConsistent(m) /\ refusesAny(m) THEN Match ELSE 0

cheaperReading(m) ==
  IF \E c \in CheaperThan[m] : reading(c) = Match THEN Match
  ELSE IF CheaperThan[m] = {} \/ \E c \in CheaperThan[m] : reading(c) = 0 THEN 0
  ELSE Mismatch

-----------------------------------------------------------------------------
(* The signals, as the moves of the likelihood ratios they carry, in tenths *)

Move(id, claimed, cheaper, firstParty, direct, translated) ==
  [id |-> id, claim |-> claimed, cheaper |-> cheaper, firstParty |-> firstParty,
   direct |-> direct, translated |-> translated]

controlRejected == Move("control-rejected", 0, 0, -3, 0, 2)
foreignRejection == Move("foreign-rejection", 0, 0, 0, 0, 2)

identitySignal ==
  IF Judged(claim) = {} THEN {}
  ELSE {Move("documented-rejections", reading(claim), cheaperReading(claim), 0, 0, 0)}

strippedSignal ==
  IF differsBy(claim, "accepted")
  THEN {Move("accepted-where-documented-rejected", 0, 0, 0, 0, 2)} ELSE {}

foreignRejectionSignals ==
  IF \E c \in Answered : Outcome(c) = "foreign-rejection" THEN {foreignRejection} ELSE {}

\* Mutated form: any refusal is held against the wording.
wordingOfNone ==
  IF \E c \in Answered : Outcome(c) = "rejected"
  THEN {Move("rejection-wording", 0, 0, -2, 0, 2)} ELSE {}
wordingSignal ==
  LET worded == {c \in Answered : Outcome(c) = "rejected" /\ c \in Worded}
  IN  IF worded = {} THEN {}
      ELSE IF \A c \in worded : answers[c].worded
           THEN {Move("rejection-wording", 0, 0, 2, 3, 0)}
           ELSE {Move("rejection-wording", 0, 0, -2, 0, 2)}

rejectionSignals ==
  identitySignal \union strippedSignal \union foreignRejectionSignals \union wordingSignal

-----------------------------------------------------------------------------
(* The probe *)

ProbeCells == {probe.cells[i] : i \in 1 .. Len(probe.cells)}

(* `settledCells`: only what the documentation settles for the claim is sent. *)
Settled == {c \in ProbeCells : Documents[claim][c] # "silent"}

(* What may come back to a request the claimed model is documented to answer
   with `documented`. *)
Answers(documented) ==
  IF answerer = "any" THEN Exchanges
  ELSE IF answerer = "layer"
  THEN {Accepted, Unread, Foreign}
         \union (IF documented = "rejected" THEN {Refused(TRUE), Refused(FALSE)} ELSE {})
  ELSE IF documented = "rejected" THEN {Refused(TRUE)} ELSE {Accepted}

Init ==
  /\ claim \in Claims
  /\ probe \in Probes
  /\ Settled # {}
  /\ answerer \in {"vendor", "layer", "any"}
  /\ phase = IF probe.control THEN "control" ELSE "cells"
  /\ control = "none"
  /\ answers = [c \in {} |-> Accepted]
  /\ signals = {}

(* `sendControl`: a request every model accepts.  Anything but an answer ends
   the probe, with a signal where the refusal says something. *)
SendControl ==
  /\ phase = "control"
  /\ \E exchange \in Answers("accepted") :
       /\ control' = outcomeOf(exchange)
       /\ phase' = IF control' = "accepted" THEN "cells" ELSE "done"
       /\ signals' = IF control' = "foreign-rejection" THEN {foreignRejection}
                     ELSE IF control' = "rejected" THEN {controlRejected} ELSE {}
  /\ UNCHANGED <<claim, probe, answerer, answers>>

(* `sendCells`: the settled cells, one after the other, in the probe's order. *)
SendCell ==
  /\ phase = "cells"
  /\ \E i \in 1 .. Len(probe.cells) :
       /\ probe.cells[i] \in Settled \ Answered
       /\ \A j \in 1 .. i - 1 : probe.cells[j] \in Settled => probe.cells[j] \in Answered
       /\ \E exchange \in Answers(Documents[claim][probe.cells[i]]) :
            answers' = [c \in Answered \union {probe.cells[i]} |->
                          IF c = probe.cells[i] THEN exchange ELSE answers[c]]
  /\ UNCHANGED <<claim, probe, answerer, phase, control, signals>>

Conclude ==
  /\ phase = "cells"
  /\ Settled \subseteq Answered
  /\ phase' = "done"
  /\ signals' = rejectionSignals
  /\ UNCHANGED <<claim, probe, answerer, control, answers>>

(* A request got no answer, so the probe throws and returns nothing. *)
Lose ==
  /\ phase \in {"control", "cells"}
  /\ phase = "cells" => ~(Settled \subseteq Answered)
  /\ phase' = "lost"
  /\ UNCHANGED <<claim, probe, answerer, control, answers, signals>>

Next == SendControl \/ SendCell \/ Conclude \/ Lose

Spec == Init /\ [][Next]_vars /\ WF_vars(Next)

-----------------------------------------------------------------------------
TypeOK ==
  /\ claim \in Claims
  /\ probe \in Probes
  /\ answerer \in {"vendor", "layer", "any"}
  /\ phase \in {"control", "cells", "done", "lost"}
  /\ control \in Outcomes \union {"none"}
  /\ Answered \subseteq ProbeCells
  /\ \A c \in Answered : answers[c] \in Exchanges

(* A buyer who gets what the seller claims is not accused, however the answers
   travelled: behind a layer that drops settings or refuses in its own words no
   signal counts against the claimed model (shared.ts:8-18). *)
ClaimIsNotAccused ==
  answerer \in {"vendor", "layer"} => \A s \in signals : s.claim >= 0

(* The vendor's own API reads as itself: every refusal is the documented one, so
   nothing counts against a first-party or a direct connection, nothing counts
   for a translation, and no cheaper model reads above the claim. *)
VendorReadsAsItself ==
  answerer = "vendor" =>
    \A s \in signals : s.firstParty >= 0 /\ s.direct >= 0 /\ s.translated = 0 /\ s.cheaper <= s.claim

(* Only a refusal speaks (shared.ts:7): answers without one never move a model's
   ratio, and a model is read as ruled out only by a refusal the documentation
   says it does not make - a cheaper one only when that holds of every cheaper
   model, the ones the documentation is silent on included (shared.ts:20). *)
RefusalsOnly ==
  \A s \in signals :
    /\ s.claim # 0 \/ s.cheaper # 0 => \E c \in Answered : Outcome(c) = "rejected"
    /\ s.claim < 0 => \E c \in Answered : Outcome(c) = "rejected" /\ Documents[claim][c] = "accepted"
    /\ s.cheaper < 0 =>
         \A m \in CheaperThan[claim] :
           \E c \in Answered : Outcome(c) = "rejected" /\ Documents[m][c] = "accepted"

(* So nobody is accused but by a refusal, and never the one who serves the claim. *)
AccusesOnRefusals == ClaimIsNotAccused /\ RefusalsOnly

(* "an acceptance speaks for no model and against none" (shared.ts:9-10): the
   claimed model behind a layer that drops a setting is not outweighed by a
   cheaper one. *)
AcceptanceSpeaksForNone ==
  answerer = "layer" => \A s \in signals : s.cheaper <= s.claim
=============================================================================
