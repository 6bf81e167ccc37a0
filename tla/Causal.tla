------------------------------- MODULE Causal -------------------------------
(* Group D (probes/causal): what only the claimed model, its vendor's keys or its
   tokenizer can do - a signature that stops verifying when one character of it is
   changed, thinking shown by default or not, a cache that starts at the
   documented length and needs an identical prefix, a schema enforced while
   generating, a token forced by its number. *)
EXTENDS Tokenizer

Identities(claimed, cheaper, other, canned) ==
  [Neutral EXCEPT !.claim = claimed, !.cheaper = cheaper, !.other = other, !.canned = canned]

causalSignal(id, llr) == Signal(id, "documented", llr)

(* `promptTokens`: what a generation was charged for, the cached part included. *)
promptTokens(g) ==
  IF g.input = None THEN None ELSE g.input + Max2(g.cacheRead, 0) + Max2(g.cacheCreation, 0)

-----------------------------------------------------------------------------
(* The shared first turn with thinking *)

KEEPS_THINKING == AnthropicModels \ {"sonnet-4-5", "haiku-4-5"}

displayDefault ==
  [m \in AnthropicModels |->
     CASE m \in {"opus-5-5", "opus-5", "opus-4-8", "opus-4-7", "sonnet-5", "fable-5-1"} -> "omitted"
       [] m \in {"opus-4-6", "sonnet-4-6"} -> "summarized"
       [] OTHER -> "silent"]

thinkingConfig(m) ==
  IF rejectsThinkingAdaptive[m] = "accepted" THEN "adaptive"
  ELSE IF rejectsThinkingEnabled[m] = "accepted" THEN "enabled" ELSE "none"

SEED_MAX_TOKENS == 1280
thinkingPrompt(nonce) == 177 + nonce   \* bytes
FOLLOWUP == 33                          \* bytes
SEED_TOKENS == estimateTokens(thinkingPrompt(LongestNonce)) + SEED_MAX_TOKENS
REPLAY_TOKENS ==
  estimateTokens(thinkingPrompt(LongestNonce)) + estimateTokens(FOLLOWUP) + 2 * SEED_MAX_TOKENS

thinkingSeed(target, heard) ==
  IF heard = <<>>
  THEN generationRequest(target, "thinking-seed", thinkingPrompt(NonceBytes), SEED_MAX_TOKENS)
  ELSE Keep([seed |-> heard[1]], <<>>)

(* A seed has, besides its counts, `signed`: whether a thinking block carries a
   signature, and `shown`: what the first block shows - "none" when there is no
   block, "empty" or "text". *)
MIN_THINKING_TOKENS == 256

thinkingTokens(seed) ==
  IF seed.reasoning # None THEN seed.reasoning
  ELSE Max2(0, Max2(seed.output, 0) - seed.text)
allowance(seed) == seed.text + estimateTokens(FOLLOWUP)

readable(seed) ==
  /\ isSuccess(seed) /\ seed.signed
  /\ promptTokens(seed) # None
  /\ thinkingTokens(seed) >= MIN_THINKING_TOKENS

(* `classify`, at half the first turn's thinking. *)
classify(exchange, seed) ==
  LET growth == promptTokens(exchange) - promptTokens(seed)
  IN  IF ~isSuccess(exchange) \/ promptTokens(exchange) = None THEN "neither"
      ELSE IF 2 * (growth - allowance(seed)) >= thinkingTokens(seed) THEN "kept"
      ELSE IF growth <= allowance(seed) THEN "dropped" ELSE "neither"

judgeControl(control, seed) ==
  IF control.status = 400 /\ control.namesThinking
  THEN {causalSignal("replay-rejected", [Neutral EXCEPT !.translated = 5])}
  ELSE IF classify(control, seed) = "dropped"
  THEN {causalSignal("thinking-dropped", [Neutral EXCEPT !.translated = 5])} ELSE {}

judgeTampered(tampered, seed) ==
  IF tampered.status = 400 THEN {causalSignal("tamper-rejected", Identities(0, 0, -5, -5))}
  ELSE CASE classify(tampered, seed) = "kept" ->
              {[causalSignal("tamper-accepted", Identities(-10, -5, 5, 2))
                  EXCEPT !.vetoes = {"claim", "cheaper"}]}
         [] classify(tampered, seed) = "dropped" -> {causalSignal("tamper-dropped", Neutral)}
         [] OTHER -> {}

replay(request) == Ask(request, REPLAY_TOKENS)

thinkingSignature(target, shared, heard) ==
  IF "seed" \notin DOMAIN shared THEN thinkingSeed(target, heard)
  ELSE IF ~readable(shared.seed) THEN Say({})
  ELSE IF heard = <<>> THEN replay("replay")
  ELSE IF ~isSuccess(heard[1]) \/ classify(heard[1], shared.seed) # "kept"
  THEN Say(judgeControl(heard[1], shared.seed))
  ELSE IF Len(heard) = 1 THEN replay("tampered-replay")
  ELSE Say(judgeTampered(heard[2], shared.seed))

displayMismatch(claimed, seen) ==
  LET cheaper == IF \E m \in cheaperThan[claimed] : displayDefault[m] = seen THEN 3 ELSE 0
  IN  IF seen = "summarized"
      THEN causalSignal("text-by-default", [Identities(-5, cheaper, 0, 0) EXCEPT !.translated = 4])
      ELSE causalSignal("empty-by-default", [Identities(-5, cheaper, 0, 0) EXCEPT !.translated = 3])

\* Mutated form: an unsigned block, which a layer may have emptied, is read too.
displayUnsigned(target, shared, heard) ==
  IF "seed" \notin DOMAIN shared THEN thinkingSeed(target, heard)
  ELSE IF ~isSuccess(shared.seed) \/ shared.seed.shown = "none" THEN Say({})
  ELSE IF displayDefault[target.model] = "summarized" /\ shared.seed.shown = "empty"
  THEN Say({displayMismatch(target.model, "omitted")})
  ELSE Say({})
thinkingDisplay(target, shared, heard) ==
  IF "seed" \notin DOMAIN shared THEN thinkingSeed(target, heard)
  ELSE IF ~isSuccess(shared.seed) \/ shared.seed.shown = "none" THEN Say({})
  ELSE CASE displayDefault[target.model] = "omitted" /\ shared.seed.shown = "text" ->
              Say({displayMismatch(target.model, "summarized")})
         [] displayDefault[target.model] = "summarized" /\ shared.seed.shown = "empty" ->
              Say(IF shared.seed.signed THEN {displayMismatch(target.model, "omitted")} ELSE {})
         [] OTHER -> Say({causalSignal("documented-default", Identities(1, 0, 0, 0))})

-----------------------------------------------------------------------------
(* The cache *)

CACHE_MAX_TOKENS == 16
aboveBytes(minimum) == 9 * minimum
LARGEST_CACHE_MINIMUM ==
  CHOOSE n \in {cacheMinimumTokens[m] : m \in AnthropicModels} :
    \A m \in AnthropicModels : cacheMinimumTokens[m] <= n
rungTokens(bytes) == estimateTokens(bytes) + CACHE_MAX_TOKENS
BELOW_BYTES_BOUND == (aboveBytes(LARGEST_CACHE_MINIMUM) * 72) \div 110

cacheRequest(target, request, bytes) ==
  generationRequest(target, request, bytes, CACHE_MAX_TOKENS)

(* `cacheReading`: no reading without an input count and either cache count. *)
isReading(exchange) ==
  /\ isSuccess(exchange) /\ exchange.input # None
  /\ exchange.cacheRead # None \/ exchange.cacheCreation # None
readTokens(exchange)    == Max2(exchange.cacheRead, 0)
writtenTokens(exchange) == Max2(exchange.cacheCreation, 0)
isCached(exchange) == readTokens(exchange) + writtenTokens(exchange) > 0

cacheAbove(target, heard) ==
  IF heard = <<>>
  THEN cacheRequest(target, "above", aboveBytes(cacheMinimumTokens[target.model]))
  ELSE Keep([above |-> heard[1]], <<>>)

startsBetween(m, uncached, cached) ==
  cacheMinimumTokens[m] > uncached /\ cacheMinimumTokens[m] <= cached

belowCached(target, lower) ==
  causalSignal("below-cached",
    Identities(-10, IF \E m \in cheaperThan[target.model] : startsBetween(m, 0, lower)
                    THEN 5 ELSE 0, 0, 0))

\* Mutated form: one cheaper model's threshold decides for all.
thresholdOfOne(target, upper, lower) ==
  causalSignal("threshold-matches",
    Identities(2, IF \E m \in cheaperThan[target.model] : ~startsBetween(m, lower, upper)
                  THEN -6 ELSE 0, 0, 0))
thresholdMatches(target, upper, lower) ==
  LET compatible == {m \in cheaperThan[target.model] : startsBetween(m, lower, upper)}
  IN  causalSignal("threshold-matches",
        Identities(2, CASE compatible = cheaperThan[target.model] -> 0
                        [] compatible = {} /\ cheaperThan[target.model] # {} -> -6
                        [] OTHER -> -3, 0, 0))

belowBytes(target, upper) ==
  LET minimum == cacheMinimumTokens[target.model]
  IN  (((minimum * aboveBytes(minimum)) \div upper) * 72) \div 100

cacheThreshold(target, shared, heard) ==
  LET minimum == cacheMinimumTokens[target.model]
      upper   == promptTokens(shared.above)
  IN  IF "above" \notin DOMAIN shared THEN cacheAbove(target, heard)
      ELSE IF ~isReading(shared.above) \/ 10 * upper < 11 * minimum THEN Say({})
      ELSE IF ~isCached(shared.above)
      THEN Say({causalSignal("above-not-cached",
                  [Identities(-3, 0, 0, 0) EXCEPT !.translated = 3])})
      ELSE IF heard = <<>> THEN cacheRequest(target, "below", belowBytes(target, upper))
      ELSE IF ~isReading(heard[1]) \/ 10 * promptTokens(heard[1]) > 9 * minimum THEN Say({})
      ELSE IF isCached(heard[1]) THEN Say({belowCached(target, promptTokens(heard[1]))})
      ELSE Say({thresholdMatches(target, upper, promptTokens(heard[1]))})

cacheInvalidation(target, shared, heard) ==
  LET minimum == cacheMinimumTokens[target.model]
      bytes   == aboveBytes(minimum)
      first   == shared.above
      gain    == readTokens(heard[1]) - readTokens(first)
  IN  IF "above" \notin DOMAIN shared THEN cacheAbove(target, heard)
      ELSE IF ~isReading(first) \/ ~isCached(first) THEN Say({})
      ELSE IF heard = <<>> THEN cacheRequest(target, "above-again", bytes)
      ELSE IF ~isReading(heard[1]) \/ 2 * gain < promptTokens(first) - readTokens(first)
      THEN Say({})
      ELSE IF Len(heard) = 1 THEN cacheRequest(target, "above-changed", bytes)
      ELSE IF ~isReading(heard[2]) THEN Say({})
      ELSE IF 2 * (readTokens(heard[2]) - readTokens(first)) > gain
                /\ 2 * writtenTokens(heard[2]) < minimum
      THEN Say({causalSignal("changed-prefix-hit",
                  [Identities(-5, 0, 0, 0) EXCEPT !.translated = 8])})
      ELSE Say({causalSignal("changed-prefix-miss", Neutral)})

-----------------------------------------------------------------------------
(* One generation each.  `finished`: an answer with text that stopped of its
   own. *)

STRUCTURED_BYTES == 39 + 164 + 2 * LongestNonce
STRUCTURED_TOKENS == estimateTokens(STRUCTURED_BYTES) + 2048 + 512

structuredOutput(target, heard) ==
  IF heard = <<>> THEN Ask("schema", STRUCTURED_TOKENS)
  ELSE IF ~isSuccess(heard[1]) \/ ~heard[1].finished THEN Say({})
  ELSE LET tier == IF target.protocol = "anthropic-messages" THEN "documented" ELSE "derived"
       IN  IF heard[1].conforms THEN Say({Signal("schema-enforced", tier, Identities(1, 0, 0, -5))})
           ELSE Say({Signal("schema-ignored", tier, [Neutral EXCEPT !.translated = 7])})

(* What rests on the encoding of the claimed model, a fact derived from its
   published tokenizer, is said no more firmly than that fact. *)
tokenSignal(id, llr) == Signal(id, "derived", llr)

LOGIT_BIAS_TOKENS == estimateTokens(26) + 2

(* The word the answer repeats: that of the forced token in the claimed
   encoding, in the other one, another, or none. *)
logitBias(target, heard) ==
  IF heard = <<>> THEN generationRequest(target, "logit-bias", 26, 2)
  ELSE IF ~isSuccess(heard[1]) \/ heard[1].word = "none" THEN Say({})
  ELSE CASE heard[1].word = "claimed" ->
              Say({tokenSignal("claimed-token", Identities(2, 0, -7, 0))})
         [] heard[1].word = "other" ->
              Say({tokenSignal("other-encoding-token", Identities(-7, 3, 0, 0))})
         [] OTHER -> Say({tokenSignal("bias-not-followed", [Neutral EXCEPT !.translated = 4])})

LOGPROBS_TOKENS == estimateTokens(159) + 64
MIN_FOREIGN == 2

(* The reported tokens that are words: `foreign`, how many are no single token
   of the claimed encoding; `elsewhere`, whether those are of the other one;
   `telling`, how many the other encoding does not have. *)
logprobsRetokenize(target, heard) ==
  IF heard = <<>> THEN generationRequest(target, "logprobs-tokens", 159, 64)
  ELSE IF ~isSuccess(heard[1]) THEN Say({})
  ELSE CASE heard[1].tokens = "missing" ->
              Say({causalSignal("logprobs-missing", [Neutral EXCEPT !.translated = 3])})
         [] heard[1].tokens = "malformed" ->
              Say({causalSignal("logprobs-malformed",
                     [Identities(-3, 0, 0, 0) EXCEPT !.translated = 5])})
         [] OTHER ->
              IF heard[1].foreign >= MIN_FOREIGN
              THEN Say({tokenSignal("foreign-tokens",
                          IF heard[1].elsewhere THEN Identities(-7, 3, 0, 0)
                          ELSE Identities(-7, 0, 3, 0))})
              ELSE IF heard[1].foreign = 0 /\ heard[1].telling > 0
              THEN Say({tokenSignal("claimed-tokens", Identities(2, 0, -3, 0))})
              ELSE Say({})

-----------------------------------------------------------------------------
CausalProbes ==
  <<"thinkingSignature", "thinkingDisplay", "cacheThreshold", "cacheInvalidation",
    "structuredOutput", "logitBias", "logprobsRetokenize">>

CausalCost ==
  [thinkingSignature  |-> [requests |-> 3, tokens |-> SEED_TOKENS + 2 * REPLAY_TOKENS],
   thinkingDisplay    |-> [requests |-> 1, tokens |-> SEED_TOKENS],
   cacheThreshold     |-> [requests |-> 2,
                           tokens |-> rungTokens(aboveBytes(LARGEST_CACHE_MINIMUM))
                                        + rungTokens(BELOW_BYTES_BOUND)],
   cacheInvalidation  |-> [requests |-> 3,
                           tokens |-> 3 * rungTokens(aboveBytes(LARGEST_CACHE_MINIMUM))],
   structuredOutput   |-> [requests |-> 1, tokens |-> STRUCTURED_TOKENS],
   logitBias          |-> [requests |-> 1, tokens |-> LOGIT_BIAS_TOKENS],
   logprobsRetokenize |-> [requests |-> 1, tokens |-> LOGPROBS_TOKENS]]

(* The token probes are for the chat models that do not reason; a target says
   whether its model is one in `samples`. *)
CausalApplies(name, target) ==
  LET messages == target.vendor = "anthropic" /\ target.protocol = "anthropic-messages"
  IN  CASE name = "thinkingSignature" ->
             messages /\ target.model \in KEEPS_THINKING /\ thinkingConfig(target.model) # "none"
        [] name = "thinkingDisplay" ->
             /\ messages /\ displayDefault[target.model] # "silent"
             /\ thinkingConfig(target.model) # "none"
        [] name \in {"cacheThreshold", "cacheInvalidation"} -> messages
        [] name = "structuredOutput" -> target.native
        [] OTHER -> target.vendor = "openai" /\ target.protocol = "openai-chat" /\ target.samples

causal(name, target, shared, heard) ==
  CASE name = "thinkingSignature"  -> thinkingSignature(target, shared, heard)
    [] name = "thinkingDisplay"    -> thinkingDisplay(target, shared, heard)
    [] name = "cacheThreshold"     -> cacheThreshold(target, shared, heard)
    [] name = "cacheInvalidation"  -> cacheInvalidation(target, shared, heard)
    [] name = "structuredOutput"   -> structuredOutput(target, heard)
    [] name = "logitBias"          -> logitBias(target, heard)
    [] name = "logprobsRetokenize" -> logprobsRetokenize(target, heard)
=============================================================================
