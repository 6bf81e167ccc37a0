----------------------------- MODULE Accounting -----------------------------
(* Groups B and C (probes/accounting, probes/tokenizer): what one generation,
   sent once per run, says in its usage, identifier, model name and stop
   reason; whether the counting endpoint agrees with it; and which tokenizer
   its input counts belong to. *)
EXTENDS Evidence, Fingerprints

Max2(a, b) == IF a >= b THEN a ELSE b
Abs(n) == IF n < 0 THEN -n ELSE n

NonceBytes   == 24   \* what the service draws
LongestNonce == 64   \* what the costs allow for

baselinePrompt(nonce) == [name |-> "baseline", bytes |-> 989 + nonce]
BASELINE_COST ==
  LET bytes == baselinePrompt(LongestNonce).bytes
  IN  [requests |-> 1 + discoveryCost(bytes).requests,
       tokens |-> estimateTokens(bytes) + MAX_OUTPUT_FLOOR + discoveryCost(bytes).tokens]

(* `baseline`: the shared generation, or nothing when it is not one. *)
baseline(target, shared, heard) ==
  IF ~Answered(shared, heard, 1)
  THEN sendAtOutputFloor(target, shared, heard, 1, baselinePrompt(NonceBytes))
  ELSE IF isSuccess(heard[1]) /\ heard[1].generates
       THEN Keep([baseline |-> heard[1]], <<>>) ELSE Fail

lengthStop(target) ==
  CASE target.protocol = "anthropic-messages" -> "max_tokens"
    [] target.protocol = "openai-chat" -> "length"
    [] OTHER -> "max_output_tokens"

reportedInput(target, generation) ==
  IF generation.input = None \/ target.protocol # "anthropic-messages" THEN generation.input
  ELSE generation.input + Max2(generation.cacheRead, 0) + Max2(generation.cacheCreation, 0)

-----------------------------------------------------------------------------
(* usage-arithmetic: which relations between the counts hold. A rule that
   misses a count it needs says nothing, unless it is about that count. *)
Rule(holds, calibration, weight) ==
  [holds |-> holds, calibration |-> calibration, weight |-> weight]
atMost(part, whole) ==
  IF part = None \/ whole = None THEN {} ELSE {part <= whole}
sumOf(total, first, second) ==
  IF None \in {total, first, second} THEN {} ELSE {total = first + second}
reasoningRule(g) == Rule(atMost(g.reasoning, g.output), "documented", 4)

Rules(target, g) ==
  CASE target.protocol = "openai-chat" ->
         {Rule({None \notin {g.input, g.output, g.total}}, "heuristic", 3),
          Rule(sumOf(g.total, g.input, g.output), "documented", 5),
          Rule(atMost(g.cacheRead, g.input), "documented", 4), reasoningRule(g)}
    [] target.protocol = "openai-responses" ->
         {Rule({None \notin {g.input, g.output}}, "heuristic", 3),
          Rule(sumOf(g.total, g.input, g.output), "heuristic", 3),
          Rule(atMost(g.cacheRead, g.input), "documented", 4), reasoningRule(g)}
    [] OTHER ->
         {Rule({g.input # None}, "documented", 3),
          Rule({g.output > 0}, "documented", 4), reasoningRule(g)}

strongest(rules) ==
  IF \E r \in rules : r.calibration = "documented" THEN "documented" ELSE "heuristic"

usageArithmetic(target, g) ==
  LET checked == {r \in Rules(target, g) : r.holds # {}}
      broken  == {r \in checked : FALSE \in r.holds}
      worst   == CHOOSE w \in {r.weight : r \in broken} : \A r \in broken : r.weight <= w
      documents == target.protocol = "anthropic-messages"
  IN  IF ~g.usage
      THEN {Signal("no-usage", IF documents THEN "documented" ELSE "heuristic",
                   [Neutral EXCEPT !.translated = IF documents THEN 4 ELSE 3])}
      ELSE IF broken = {} THEN {Signal("consistent", strongest(checked), Neutral)}
      ELSE {Signal("inconsistent", strongest(broken), [Neutral EXCEPT !.translated = worst])}

(* output-limit: an answer longer than the limit it was asked for, or one that
   reached it without saying so. *)
\* Mutated form: an answer that ended by itself is expected to be cut.
outputLimitAlwaysCuts(target, floor, g) ==
  IF g.stop # lengthStop(target)
  THEN {Signal("stop-reason", "documented", [Neutral EXCEPT !.translated = 4])}
  ELSE {Signal("within-limit", "documented", Neutral)}
outputLimit(target, floor, g) ==
  IF g.output > floor.limit \/ g.text > floor.limit * 128 + 64
  THEN {Signal("over-limit", "documented", [Neutral EXCEPT !.canned = 2, !.translated = 5])}
  ELSE IF g.stop # lengthStop(target) /\ ~(g.output # None /\ g.output < floor.limit)
  THEN {Signal("stop-reason", "documented", [Neutral EXCEPT !.translated = 4])}
  ELSE {Signal("within-limit", "documented", Neutral)}

(* id-format *)
idFormat(g) ==
  CASE g.id = "missing" -> {Signal("missing", "heuristic", [Neutral EXCEPT !.translated = 3])}
    [] g.id = "anthropic" ->
         {Signal("anthropic-shaped", "heuristic", [Neutral EXCEPT !.other = 3, !.translated = 3])}
    [] g.id = "foreign-prefix" ->
         {Signal("foreign-prefix", "heuristic", [Neutral EXCEPT !.translated = 3])}
    [] g.id = "foreign-shape" ->
         {Signal("foreign-shape", "heuristic", [Neutral EXCEPT !.translated = 2])}
    [] OTHER -> {Signal("openai-shaped", "heuristic", Neutral)}

(* system-fingerprint *)
systemFingerprint(g) ==
  CASE g.fingerprint = "absent" ->
         {Signal("absent", "heuristic", [Neutral EXCEPT !.translated = 2])}
    [] g.fingerprint \in {"null", "shaped"} -> {Signal("openai-shaped", "heuristic", Neutral)}
    [] g.fingerprint = "empty" ->
         {Signal("empty", "heuristic", [Neutral EXCEPT !.firstParty = -3, !.translated = 2])}
    [] OTHER ->
         {Signal("foreign-shape", "heuristic", [Neutral EXCEPT !.other = 2, !.translated = 2])}

(* hidden-input *)
ADDED_RATIO     == 3
TEMPLATE_TOKENS == 64
LocalInput      == 100   \* the prompt under o200k_base

hiddenInput(target, g) ==
  LET reported == reportedInput(target, g)
  IN  IF reported = None THEN {}
      ELSE IF reported <= ADDED_RATIO * LocalInput + TEMPLATE_TOKENS
      THEN {Signal("no-added-input", "heuristic", Neutral)}
      ELSE {Signal("added-input", "heuristic", [Neutral EXCEPT !.firstParty = -3, !.translated = 3])}

-----------------------------------------------------------------------------
(* snapshot-echo: the model the response names. An echo is the claimed name or
   one its vendor lists for it ("accepted"), the same name respelled, a listed
   Claude model, or one of the other kinds of name the code tells apart. *)
renamed(partner) ==
  IF partner THEN Signal("renamed", "heuristic", [Neutral EXCEPT !.cloud = 2, !.translated = 1])
  ELSE Signal("renamed", "heuristic", [Neutral EXCEPT !.translated = 2])

listedClaude(target, model) ==
  LET tier == IF target.native THEN "documented" ELSE "heuristic"
  IN  IF model \notin cheaperThan[target.model]
      THEN Signal("other-claude", tier, [Neutral EXCEPT !.claim = IF target.native THEN -6 ELSE -3])
      ELSE Signal("cheaper-model", tier,
                  IF target.native THEN [Neutral EXCEPT !.claim = -8, !.cheaper = 8]
                  ELSE [Neutral EXCEPT !.claim = -3, !.cheaper = 3])

otherVendor(documented) ==
  IF documented
  THEN Signal("other-vendor", "documented", [Neutral EXCEPT !.claim = -6, !.other = 8])
  ELSE Signal("other-vendor", "derived", [Neutral EXCEPT !.claim = -5, !.other = 6])

snapshotEcho(target, g) ==
  {CASE g.echo = "missing" -> Signal("missing", "documented", Neutral)
     [] g.echo = "blank" ->
          Signal("empty", "heuristic", [Neutral EXCEPT !.firstParty = -2, !.translated = 2])
     [] g.echo = "accepted" -> Signal("matches", "documented", Neutral)
     [] g.echo = "respelled" -> renamed(FALSE)
     [] g.echo = "partner" -> renamed(TRUE)
     [] g.echo \in AnthropicModels ->
          IF target.vendor = "anthropic" THEN listedClaude(target, g.echo)
          ELSE otherVendor(target.native)
     [] g.echo = "unlisted-claude" ->
          IF target.vendor = "anthropic"
          THEN Signal("unlisted-claude", "heuristic", [Neutral EXCEPT !.claim = -3, !.cheaper = 2])
          ELSE otherVendor(FALSE)
     [] g.echo \in {"gpt", "smaller-gpt"} ->
          IF target.vendor = "anthropic" THEN otherVendor(target.native)
          ELSE IF g.echo = "smaller-gpt"
          THEN Signal("smaller-model", "heuristic", [Neutral EXCEPT !.claim = -3, !.cheaper = 3])
          ELSE Signal("other-gpt", "heuristic", [Neutral EXCEPT !.claim = -3])
     [] g.echo = "other-family" ->
          Signal("other-family", "derived", [Neutral EXCEPT !.claim = -6, !.other = 6])
     [] OTHER -> Signal("unrecognised", "heuristic", [Neutral EXCEPT !.other = 2, !.translated = 2])}

-----------------------------------------------------------------------------
(* count-tokens-agreement: the counting endpoint against the usage. *)
AGREEMENT_TOKENS == 8

agrees(count, used) == 100 * Abs(count - used) <= Max2(100 * AGREEMENT_TOKENS, 8 * used)
isStep(larger, smaller) ==
  /\ smaller > 0 /\ larger - smaller > AGREEMENT_TOKENS
  /\ 100 * larger >= 108 * smaller /\ 100 * larger <= 145 * smaller

Step(target, id, other, ratio) ==
  Signal(id, "documented",
         [Neutral EXCEPT !.claim = -3, !.translated = 2,
            !.cheaper = IF \E m \in cheaperThan[target.model] : tokenizer[m] = other
                        THEN ratio ELSE 0])

countTokensAgreement(target, g, heard) ==
  LET used  == reportedInput(target, g)
      count == IF heard = <<>> \/ heard[1].status # 200 THEN None ELSE heard[1].count
  IN  IF used = None THEN Say({})
      ELSE IF heard = <<>> THEN Ask("count-tokens", 0)
      ELSE IF count = None
      THEN Say({Signal("no-count", "documented",
                       [Neutral EXCEPT !.firstParty = -4, !.translated = 2])})
      ELSE IF agrees(count, used) THEN Say({Signal("agree", "documented", Neutral)})
      ELSE IF tokenizer[target.model] = "claude-2026" /\ isStep(count, used)
      THEN Say({Step(target, "older-tokenizer", "claude-legacy", 4)})
      ELSE IF tokenizer[target.model] = "claude-legacy" /\ isStep(used, count)
      THEN Say({Step(target, "newer-tokenizer", "claude-2026", 3)})
      ELSE Say({Signal("disagree", "heuristic", [Neutral EXCEPT !.translated = 3])})
=============================================================================
