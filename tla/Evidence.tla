------------------------------ MODULE Evidence ------------------------------
(* What every probe is written with (probes/shared.ts, probes/types.ts,
   probes/output-floor.ts): the signals a probe returns, in tenths of a log10
   likelihood ratio, and the steps it is made of - a request, an answer kept
   for the rest of the run, a conclusion, or giving up. *)
EXTENDS Integers, Sequences

(* An absent number (`undefined`). *)
None == -1

Findings == {"claim", "cheaper", "other", "canned", "firstParty", "cloud", "direct", "translated"}
Identity == {"claim", "cheaper", "other", "canned"}
Calibrations == {"measured", "documented", "derived", "heuristic"}
Neutral  == [f \in Findings |-> 0]
MAX_SIGNAL_LLR == 30

Signal(id, calibration, llr) ==
  [id |-> id, calibration |-> calibration, llr |-> llr, vetoes |-> {}]

(* What `signal()` lets through. *)
SignalsWith(ids) ==
  [id : ids, calibration : Calibrations,
   llr : [Findings -> -MAX_SIGNAL_LLR .. MAX_SIGNAL_LLR], vetoes : SUBSET Identity]
Signals == SignalsWith(STRING)

(* The steps of a probe.  A request is charged `tokens` against the budget, and
   may bill at most `bill`. *)
Ask(request, tokens) ==
  [do |-> "ask", request |-> request, limit |-> None, tokens |-> tokens, bill |-> tokens]
Keep(entries, heard) == [do |-> "keep", entries |-> entries, heard |-> heard]
Say(signals)         == [do |-> "say", signals |-> signals]
Fail                 == [do |-> "fail"]

isSuccess(exchange) == exchange.status = 200

(* One token per byte and 64 for the envelope. *)
estimateTokens(bytes) == bytes + 64

(* `generationRequest`: the Responses API is never sent a limit below its
   minimum. *)
RESPONSES_MIN_OUTPUT_TOKENS == 16
sentLimit(target, maxTokens) ==
  IF target.protocol = "openai-responses" /\ maxTokens < RESPONSES_MIN_OUTPUT_TOKENS
  THEN RESPONSES_MIN_OUTPUT_TOKENS ELSE maxTokens

generationRequest(target, request, bytes, maxTokens) ==
  [Ask(request, estimateTokens(bytes) + maxTokens) EXCEPT
     !.bill = estimateTokens(bytes) + sentLimit(target, maxTokens)]

-----------------------------------------------------------------------------
(* The smallest output limit the endpoint accepts, found by the first
   generation of the run that needs it. *)

MAX_OUTPUT_FLOOR == RESPONSES_MIN_OUTPUT_TOKENS

smallestOutputLimit(target) ==
  IF target.protocol = "openai-responses" THEN RESPONSES_MIN_OUTPUT_TOKENS ELSE 1

sendAt(target, prompt, limit) ==
  [generationRequest(target, prompt.name, prompt.bytes, limit) EXCEPT !.limit = limit]

Floor(limit, refused) == [floor |-> [limit |-> limit, refused |-> refused]]

(* `sendAtOutputFloor` as the n-th generation the probe waits for: done when
   its answer is the n-th heard and the floor is known. *)
Answered(shared, heard, n) == Len(heard) >= n /\ "floor" \in DOMAIN shared

sendAtOutputFloor(target, shared, heard, n, prompt) ==
  LET smallest == smallestOutputLimit(target)
      before   == SubSeq(heard, 1, n - 1)
  IN  IF "floor" \in DOMAIN shared THEN sendAt(target, prompt, shared.floor.limit)
      ELSE IF Len(heard) < n THEN sendAt(target, prompt, smallest)
      ELSE IF heard[n].status # 400 \/ smallest >= MAX_OUTPUT_FLOOR
           THEN Keep(Floor(smallest, None), heard)
      ELSE IF Len(heard) = n THEN sendAt(target, prompt, MAX_OUTPUT_FLOOR)
      ELSE IF isSuccess(heard[n + 1]) /\ heard[n + 1].generates
           THEN Keep(Floor(MAX_OUTPUT_FLOOR, smallest), Append(before, heard[n + 1]))
           ELSE Keep(Floor(smallest, None), Append(before, heard[n]))

(* What finding it may add to a probe whose prompts are at most this long. *)
discoveryUncounted(bytes) == [requests |-> 0, tokens |-> 0]   \* mutated form
discoveryCost(bytes) == [requests |-> 1, tokens |-> estimateTokens(bytes) + 1]
=============================================================================
