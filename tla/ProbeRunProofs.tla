-------------------------- MODULE ProbeRunProofs --------------------------
(***************************************************************************)
(* Proofs about ProbeRun, for any set of endpoints.                        *)
(*                                                                         *)
(* What a probe says depends on what it heard, and it may have been asked  *)
(* by another probe, so the invariant says of every answer at hand that it *)
(* is one the endpoint gives to the request it answers: of those of the    *)
(* running probe by running its program over the answers before it         *)
(* (HeardAsAsked), of those kept under each key (KnownAsKept).  The cost   *)
(* is what was sent and what is still due (Due, LeftToCharge), which a     *)
(* request moves from the one to the other and a kept answer only lowers.  *)
(***************************************************************************)
EXTENDS ProbeRun, SequenceTheorems, WellFoundedInduction, TLAPS

---------------------------------------------------------------------------
(* The probes *)

TokenizerNames  == {"openaiLocalCount", "anthropicDifferential"}
AccountingNames ==
  {"usageArithmetic", "outputLimit", "idFormat", "snapshotEcho", "systemFingerprint",
   "countTokensAgreement", "hiddenInput"}

\* The probes of one request of their own.
Singles ==
  {"unknownParameter", "modelNotFound", "extraInputs", "betaHeader", "missingMaxTokens",
   "protocolLeakage", "compatFields", "structuredOutput", "logitBias", "logprobsRetokenize"}

ProbeNames ==
  Singles \union AccountingNames \union TokenizerNames \union
  {"routeSerializers", "proxyWasmHeader", "empty404", "cors", "authOnlyHeaders",
   "temperatureAboveMax", "errorEnvelope", "errorVocabulary", "modelRetrieve",
   "permissiveValidator", "thinkingSignature", "thinkingDisplay", "cacheThreshold",
   "cacheInvalidation"}

\* The catalogue is a sequence of these.
LEMMA CatalogueType == PROBE_CATALOGUE \in Seq(ProbeNames)
<1>1. OpenAIConformance \in Seq(ProbeNames)
    BY DEF OpenAIConformance, ProbeNames, Singles
<1>2. AnthropicConformance \in Seq(ProbeNames)
    BY DEF AnthropicConformance, ProbeNames, Singles
<1>3. CommonConformance \in Seq(ProbeNames)
    BY DEF CommonConformance, ProbeNames, Singles
<1>4. AccountingProbes \in Seq(ProbeNames)
    BY DEF AccountingProbes, ProbeNames, AccountingNames
<1>5. TokenizerProbes \in Seq(ProbeNames)
    BY DEF TokenizerProbes, ProbeNames, TokenizerNames
<1>6. CausalProbes \in Seq(ProbeNames)
    BY DEF CausalProbes, ProbeNames, Singles
<1>7. \A s, t \in Seq(ProbeNames) : s \o t \in Seq(ProbeNames)
    BY ConcatProperties
<1> HIDE DEF ProbeNames
<1> QED
    BY <1>1, <1>2, <1>3, <1>4, <1>5, <1>6, <1>7 DEF PROBE_CATALOGUE

\* The probes that read a shared generation, and those that read shared counts.
LEMMA CatalogueNames ==
  /\ Names(AccountingProbes) = AccountingNames
  /\ Names(TokenizerProbes) = TokenizerNames
<1>1. Names(AccountingProbes) = AccountingNames
    BY DEF Names, AccountingProbes, AccountingNames
<1>2. Names(TokenizerProbes) = TokenizerNames
    BY DEF Names, TokenizerProbes, TokenizerNames
<1> QED BY <1>1, <1>2

\* The names under which each group declares its costs.
LEMMA CostNames ==
  /\ DOMAIN ConformanceCost =
       {"routeSerializers", "proxyWasmHeader", "empty404", "cors", "authOnlyHeaders",
        "unknownParameter", "modelNotFound", "temperatureAboveMax", "errorEnvelope",
        "errorVocabulary", "extraInputs", "betaHeader", "missingMaxTokens", "modelRetrieve",
        "permissiveValidator", "protocolLeakage", "compatFields"}
  /\ DOMAIN CausalCost =
       {"thinkingSignature", "thinkingDisplay", "cacheThreshold", "cacheInvalidation",
        "structuredOutput", "logitBias", "logprobsRetokenize"}
BY DEF ConformanceCost, CausalCost

---------------------------------------------------------------------------
(* What is due of a probe *)

Missing(key, known) == IF key \in DOMAIN known THEN 0 ELSE 1

\* The generations a probe of group B waits for, and those of group C.
Generations(known) == IF "baseline" \in DOMAIN known THEN 0 ELSE 1 + Missing("floor", known)
Counts(known) == IF "deltas" \in DOMAIN known THEN 0 ELSE 4 + Missing("floor", known)

\* The requests a probe has answers of or may still send, knowing this.
Due(name, known) ==
  CASE name = "routeSerializers" ->
         Missing("get-models", known) + Missing("get-chat-completions", known)
           + Missing("post-chat-completions", known) + Missing("post-responses", known)
    [] name = "proxyWasmHeader" -> Missing("get-models", known) + Missing("not-found", known)
    [] name = "empty404" -> Missing("not-found", known) + 1
    [] name = "cors" -> Missing("get-models", known) + 1
    [] name = "authOnlyHeaders" -> Missing("get-models", known)
    [] name \in {"temperatureAboveMax", "permissiveValidator"} -> Missing("hot", known)
    [] name = "errorEnvelope" -> Missing("malformed", known)
    [] name = "errorVocabulary" -> Missing("malformed", known) + 1
    [] name = "modelRetrieve" -> 2
    [] name = "thinkingDisplay" -> Missing("seed", known)
    [] name = "thinkingSignature" -> Missing("seed", known) + 2
    [] name = "cacheThreshold" -> Missing("above", known) + 1
    [] name = "cacheInvalidation" -> Missing("above", known) + 2
    [] name = "countTokensAgreement" -> Generations(known) + 1
    [] name \in AccountingNames \ {"countTokensAgreement"} -> Generations(known)
    [] name \in TokenizerNames -> Counts(known)
    [] name \in Singles -> 1

GENERATION == estimateTokens(baselinePrompt(NonceBytes).bytes) + MAX_OUTPUT_FLOOR
LONGEST_COUNT == estimateTokens(basePrompt(NonceBytes).bytes + 74) + MAX_OUTPUT_FLOOR
ABOVE == rungTokens(aboveBytes(LARGEST_CACHE_MINIMUM))

\* What they may still be charged, or bill.
LeftToCharge(name, known, answers) ==
  LET left == Due(name, known) - Len(answers)
      first(key) == key \notin DOMAIN known /\ answers = <<>>
  IN  CASE name = "thinkingSignature" ->
             IF first("seed") THEN SEED_TOKENS + 2 * REPLAY_TOKENS
             ELSE IF left >= 2 THEN 2 * REPLAY_TOKENS
             ELSE IF left = 1 THEN REPLAY_TOKENS ELSE 0
        [] name = "cacheThreshold" ->
             IF first("above") THEN ABOVE + rungTokens(BELOW_BYTES_BOUND)
             ELSE IF left >= 1 THEN rungTokens(BELOW_BYTES_BOUND) ELSE 0
        [] name = "cacheInvalidation" -> left * ABOVE
        [] name \in AccountingNames ->
             IF "baseline" \in DOMAIN known THEN 0
             ELSE (Generations(known) - Len(answers)) * GENERATION
        [] name \in TokenizerNames -> left * LONGEST_COUNT
        [] OTHER -> IF left = 0 THEN 0 ELSE Cost(name).tokens

\* The costs in numbers.
LEMMA Numbers ==
  /\ BASELINE_COST.requests = 2 /\ BASELINE_COST.tokens = 2251
  /\ BATTERY_COST.requests = 5 /\ BATTERY_COST.tokens = 1149
  /\ GENERATION = 1093 /\ LONGEST_COUNT = 210
  /\ LARGEST_CACHE_MINIMUM = 4096
  /\ ABOVE = 36944 /\ rungTokens(BELOW_BYTES_BOUND) = 24209
  /\ SEED_TOKENS = 1585 /\ REPLAY_TOKENS = 2962
<1> USE DEF estimateTokens, MAX_OUTPUT_FLOOR, RESPONSES_MIN_OUTPUT_TOKENS, LongestNonce, NonceBytes
<1>1. BASELINE_COST.requests = 2 /\ BASELINE_COST.tokens = 2251 /\ GENERATION = 1093
    BY DEF BASELINE_COST, discoveryCost, baselinePrompt, GENERATION
<1>2. BatteryBytes[1] = 96 /\ BatteryBytes[2] = 170 /\ BatteryBytes[3] = 166 /\ BatteryBytes[4] = 162
    BY DEF BatteryBytes, Prompts, BATTERY, batteryPrompt, basePrompt, itemPrompt
<1>3. LongestPrompt = 170
  <2>1. Prompts = {1, 2, 3, 4}
      BY DEF Prompts, BATTERY
  <2>2. {BatteryBytes[n] : n \in Prompts} = {96, 170, 166, 162}
      BY <1>2, <2>1
  <2>3. \A b \in {96, 170, 166, 162} : (\A n \in Prompts : BatteryBytes[n] <= b) <=> b = 170
      BY <1>2, <2>1
  <2> QED BY <2>2, <2>3 DEF LongestPrompt
<1>4. BATTERY_COST.requests = 5 /\ BATTERY_COST.tokens = 1149
    BY <1>2, <1>3 DEF BATTERY_COST, discoveryCost, promptCost, BATTERY
<1>5. LONGEST_COUNT = 210
    BY DEF LONGEST_COUNT, basePrompt
<1>6. LARGEST_CACHE_MINIMUM = 4096
    BY DEF LARGEST_CACHE_MINIMUM, cacheMinimumTokens, AnthropicModels
<1>7. ABOVE = 36944 /\ rungTokens(BELOW_BYTES_BOUND) = 24209
    BY <1>6 DEF ABOVE, rungTokens, aboveBytes, BELOW_BYTES_BOUND, CACHE_MAX_TOKENS
<1>8. SEED_TOKENS = 1585 /\ REPLAY_TOKENS = 2962
    BY DEF SEED_TOKENS, REPLAY_TOKENS, thinkingPrompt, FOLLOWUP, SEED_MAX_TOKENS
<1> QED BY <1>1, <1>4, <1>5, <1>6, <1>7, <1>8

---------------------------------------------------------------------------
(* What the endpoint answers, by request *)

\* Only the request says which answers there are, for those of group A.
LEMMA ConformanceAnswers ==
  ASSUME NEW e, NEW ask
  PROVE  /\ ask.request \in {"get-models", "get-chat-completions", "post-chat-completions",
                            "post-responses"} =>
              Answers(e, ask) = NoKeyAnswers(e, ask.request)
         /\ ask.request \in {"not-found", "wrong-method"} => Answers(e, ask) = NotFoundAnswers(e)
         /\ ask.request = "preflight" => Answers(e, ask) = PreflightAnswers(e)
         /\ ask.request = "hot" => Answers(e, ask) = HotAnswers(e)
         /\ ask.request = "absent-model" => Answers(e, ask) = RefusalAnswers(e, 404)
         /\ ask.request \in {"unknown-parameter", "extra-inputs", "beta-header", "missing-max-tokens"} =>
              Answers(e, ask) = RefusalAnswers(e, 400)
         /\ ask.request = "malformed" => Answers(e, ask) = EnvelopeAnswers(e, 400)
         /\ ask.request = "absent-model-object" => Answers(e, ask) = EnvelopeAnswers(e, 404)
         /\ ask.request \in {"claimed-model-object", "alias-model-object"} =>
              Answers(e, ask) = ObjectAnswers(e)
         /\ ask.request \in {"tiny", "logprobs"} => Answers(e, ask) = TinyAnswers(e)
<1> DEFINE r == ask.request
<1>1. {NO_KEY_ROUTES[i] : i \in 1 .. 4} =
        {"get-models", "get-chat-completions", "post-chat-completions", "post-responses"}
    BY DEF NO_KEY_ROUTES
<1>2. r \in {"get-models", "get-chat-completions", "post-chat-completions", "post-responses"} =>
        Answers(e, ask) = NoKeyAnswers(e, r)
    BY <1>1 DEF Answers
<1>4. r \in {"not-found", "wrong-method"} => Answers(e, ask) = NotFoundAnswers(e)
    BY <1>1 DEF Answers
<1>5. /\ r = "preflight" => Answers(e, ask) = PreflightAnswers(e)
      /\ r = "hot" => Answers(e, ask) = HotAnswers(e)
      /\ r = "absent-model" => Answers(e, ask) = RefusalAnswers(e, 404)
    BY <1>1 DEF Answers
<1>6. r \in {"unknown-parameter", "extra-inputs", "beta-header", "missing-max-tokens"} =>
        Answers(e, ask) = RefusalAnswers(e, 400)
    BY <1>1 DEF Answers
<1>7. /\ r = "malformed" => Answers(e, ask) = EnvelopeAnswers(e, 400)
      /\ r = "absent-model-object" => Answers(e, ask) = EnvelopeAnswers(e, 404)
    BY <1>1 DEF Answers
<1>8. /\ r \in {"claimed-model-object", "alias-model-object"} => Answers(e, ask) = ObjectAnswers(e)
      /\ r \in {"tiny", "logprobs"} => Answers(e, ask) = TinyAnswers(e)
    BY <1>1 DEF Answers
<1> QED BY <1>2, <1>4, <1>5, <1>6, <1>7, <1>8

\* Those of groups B to D; a generation of the battery also has its limit, a cached
\* prompt its length.
LEMMA GenerationAnswers ==
  ASSUME NEW e, NEW ask
  PROVE  /\ ask.request = "baseline" => Answers(e, ask) = BaselineAnswers(e, ask.limit)
         /\ ask.request = "count-tokens" => Answers(e, ask) = CountAnswers(e, Input(e.target, e.model))
         /\ ask.request \in {"base", "chinese", "base64", "code"} =>
              Answers(e, ask) = BatteryAnswers(e, ask.request)
         /\ ask.request = "thinking-seed" => Answers(e, ask) = SeedAnswers(e)
         /\ ask.request = "replay" => Answers(e, ask) = ReplayAnswers(e)
         /\ ask.request = "tampered-replay" => Answers(e, ask) = TamperedAnswers(e)
         /\ ask.request \in {"above", "below", "above-again", "above-changed"} =>
              Answers(e, ask) =
                CacheAnswers(e, ask.request, TokensOf(e, ask.tokens - rungTokens(0)))
         /\ ask.request = "schema" => Answers(e, ask) = SchemaAnswers(e)
         /\ ask.request = "logit-bias" => Answers(e, ask) = BiasAnswers(e)
         /\ ask.request = "logprobs-tokens" => Answers(e, ask) = LogprobAnswers(e)
<1> DEFINE r == ask.request
<1>1. {NO_KEY_ROUTES[i] : i \in 1 .. 4} =
        {"get-models", "get-chat-completions", "post-chat-completions", "post-responses"}
    BY DEF NO_KEY_ROUTES
<1>2. /\ r = "baseline" => Answers(e, ask) = BaselineAnswers(e, ask.limit)
      /\ r = "count-tokens" => Answers(e, ask) = CountAnswers(e, Input(e.target, e.model))
    BY <1>1 DEF Answers
<1>3. r \in {"base", "chinese", "base64", "code"} => Answers(e, ask) = BatteryAnswers(e, r)
    BY <1>1 DEF Answers
<1>4. /\ r = "thinking-seed" => Answers(e, ask) = SeedAnswers(e)
      /\ r = "replay" => Answers(e, ask) = ReplayAnswers(e)
      /\ r = "tampered-replay" => Answers(e, ask) = TamperedAnswers(e)
    BY <1>1 DEF Answers
<1>5. r \in {"above", "below", "above-again", "above-changed"} =>
        Answers(e, ask) = CacheAnswers(e, r, TokensOf(e, ask.tokens - rungTokens(0)))
    BY <1>1 DEF Answers
<1>6. /\ r = "schema" => Answers(e, ask) = SchemaAnswers(e)
      /\ r = "logit-bias" => Answers(e, ask) = BiasAnswers(e)
      /\ r = "logprobs-tokens" => Answers(e, ask) = LogprobAnswers(e)
    BY <1>1 DEF Answers
<1> QED BY <1>2, <1>3, <1>4, <1>5, <1>6

---------------------------------------------------------------------------
(* The invariant, for an endpoint, a probe, what is known and what it heard *)

IsSeq(s) == \E S : s \in Seq(S)

\* Each answer is one of those to the request it was asked for.
HeardAsAsked(e, name, known, answers) ==
  /\ IsSeq(answers)
  /\ \A n \in 1 .. Len(answers) :
       LET then == Program(name, e.target, known, SubSeq(answers, 1, n - 1))
       IN  then.do = "ask" /\ answers[n] \in Answers(e, then)

\* The counts of the battery: those of the endpoint's tokenizer, unless anything goes.
DeltasAsCounted(e, deltas) ==
  \/ deltas = <<>> /\ e.kind \in {"layer", "any"}
  \/ deltas = OwnDeltas(e)
  \/ deltas \in [Items -> Int] /\ e.kind = "any"

\* What is kept under each key is an answer to its request.
KnownAsKept(e, known) ==
  /\ \A key \in {"get-models", "get-chat-completions", "post-chat-completions", "post-responses"} :
       key \in DOMAIN known => known[key] \in NoKeyAnswers(e, key)
  /\ "not-found" \in DOMAIN known => known["not-found"] \in NotFoundAnswers(e)
  /\ "hot" \in DOMAIN known => known.hot \in HotAnswers(e)
  /\ "malformed" \in DOMAIN known => known.malformed \in EnvelopeAnswers(e, 400)
  /\ "floor" \in DOMAIN known => known.floor.limit \in {1, 16}
  /\ "baseline" \in DOMAIN known =>
       /\ "floor" \in DOMAIN known
       /\ known.baseline \in BaselineAnswers(e, known.floor.limit)
       /\ isSuccess(known.baseline) /\ known.baseline.generates
  /\ "deltas" \in DOMAIN known => DeltasAsCounted(e, known.deltas)
  /\ "seed" \in DOMAIN known => known.seed \in SeedAnswers(e)
  /\ "above" \in DOMAIN known =>
       known.above \in CacheAnswers(e, "above",
                         TokensOf(e, aboveBytes(cacheMinimumTokens[e.target.model])))

\* What a signal may tell of an endpoint, and what a probe may say of it.
TellsTruly(e, s) ==
  /\ s \in SignalsWith({s.id})
  /\ e.kind = "vendor" =>
       /\ s.vetoes = {} /\ s.llr.translated <= 0
       /\ \A f \in {"claim", "firstParty", "direct"} : s.llr[f] >= 0
  /\ e.kind = "layer" => "claim" \notin s.vetoes /\ s.llr.translated >= -s.llr.claim
  /\ e.kind = "cheaper" => "cheaper" \notin s.vetoes /\ s.llr.cheaper >= -3

SaysTruly(e, said_) ==
  /\ \A s \in said_ : TellsTruly(e, s)
  /\ \A s, t \in said_ : s.id = t.id => s = t

\* A probe that keeps to all of it, whatever its next step.
Keeps(e, name, known, answers) ==
  LET next == Program(name, e.target, known, answers)
      then == Kept(next.entries, known)
  IN  /\ next.do = "ask" =>
           /\ next.tokens \in Nat /\ next.bill \in Nat
           /\ Len(answers) < Due(name, known)
           /\ \A x :
                LET more == Append(answers, x)
                    left == LeftToCharge(name, known, answers) - LeftToCharge(name, known, more)
                IN  next.tokens <= left /\ next.bill <= left
      /\ next.do = "keep" =>
           /\ KnownAsKept(e, then)
           /\ HeardAsAsked(e, name, then, next.heard)
           /\ Len(next.heard) <= Due(name, then)
           /\ Due(name, then) - Len(next.heard) <= Due(name, known) - Len(answers)
           /\ LeftToCharge(name, then, next.heard) <= LeftToCharge(name, known, answers)
      /\ next.do = "say" => SaysTruly(e, next.signals)

\* A probe for this endpoint, what is known and what it heard are well formed.
Meets(e, name, known, answers) ==
  /\ e \in Endpoints /\ Applies(name, e.target)
  /\ KnownAsKept(e, known) /\ HeardAsAsked(e, name, known, answers)
  /\ Len(answers) <= Due(name, known)

---------------------------------------------------------------------------
(* Helpers: signals *)

Weights == -MAX_SIGNAL_LLR .. MAX_SIGNAL_LLR
Llrs == [Findings -> Weights]

\* What a signal may weigh, for whom.
WeighsTruly(e, llr) ==
  /\ llr \in Llrs
  /\ e.kind = "vendor" =>
       llr.translated <= 0 /\ llr.claim >= 0 /\ llr.firstParty >= 0 /\ llr.direct >= 0
  /\ e.kind = "layer" => llr.translated >= -llr.claim
  /\ e.kind = "cheaper" => llr.cheaper >= -3

\* A signal that weighs truly tells truly.
LEMMA SignalTells ==
  ASSUME NEW e, NEW id, NEW calibration \in Calibrations, NEW llr, WeighsTruly(e, llr)
  PROVE  TellsTruly(e, Signal(id, calibration, llr))
<1> DEFINE s == Signal(id, calibration, llr)
<1>1. s.id = id /\ s.llr = llr /\ s.vetoes = {}
    BY DEF Signal
<1>2. s \in SignalsWith({s.id})
    BY DEF Signal, SignalsWith, WeighsTruly, Llrs, Weights
<1> HIDE DEF s
<1>3. e.kind = "vendor" =>
        /\ s.vetoes = {} /\ s.llr.translated <= 0
        /\ \A f \in {"claim", "firstParty", "direct"} : s.llr[f] >= 0
    BY <1>1 DEF WeighsTruly
<1>4. e.kind = "layer" => "claim" \notin s.vetoes /\ s.llr.translated >= -s.llr.claim
    BY <1>1 DEF WeighsTruly
<1>5. e.kind = "cheaper" => "cheaper" \notin s.vetoes /\ s.llr.cheaper >= -3
    BY <1>1 DEF WeighsTruly
<1>6. TellsTruly(e, s)
    BY <1>2, <1>3, <1>4, <1>5 DEF TellsTruly
<1> QED
    BY <1>6 DEF s

\* One signal, or none.
LEMMA OneSaid ==
  ASSUME NEW e, NEW S, \A s \in S : TellsTruly(e, s), \A s, t \in S : s = t
  PROVE  SaysTruly(e, S)
BY DEF SaysTruly

\* A probe that says nothing tells nothing false.
LEMMA NothingSaid == ASSUME NEW e PROVE SaysTruly(e, {})
BY DEF SaysTruly

\* Eight weights, and when a signal of these tells truly.
Weight(claim, cheaper, other, canned, firstParty, cloud, direct, translated) ==
  [f \in Findings |->
     CASE f = "claim" -> claim [] f = "cheaper" -> cheaper [] f = "other" -> other
       [] f = "canned" -> canned [] f = "firstParty" -> firstParty [] f = "cloud" -> cloud
       [] f = "direct" -> direct [] f = "translated" -> translated]

\* A signal of these eight weights, when each is in range and none is against its kind.
LEMMA WeightTells ==
  ASSUME NEW e, NEW id, NEW calibration \in Calibrations,
         NEW c \in Int, NEW ch \in Int, NEW o \in Int, NEW ca \in Int,
         NEW fp \in Int, NEW cl \in Int, NEW d \in Int, NEW t \in Int,
         -10 <= c, c <= 10, -10 <= ch, ch <= 10, -10 <= o, o <= 10, -10 <= ca, ca <= 10,
         -10 <= fp, fp <= 10, -10 <= cl, cl <= 10, -10 <= d, d <= 10, -10 <= t, t <= 10,
         e.kind = "vendor" => t <= 0 /\ c >= 0 /\ fp >= 0 /\ d >= 0,
         e.kind = "layer" => t + c >= 0,
         e.kind = "cheaper" => ch >= -3
  PROVE  TellsTruly(e, Signal(id, calibration, Weight(c, ch, o, ca, fp, cl, d, t)))
<1> DEFINE w == Weight(c, ch, o, ca, fp, cl, d, t)
<1>1. /\ w = [f \in Findings |-> w[f]]
      /\ w.claim = c /\ w.cheaper = ch /\ w.other = o /\ w.canned = ca
      /\ w.firstParty = fp /\ w.cloud = cl /\ w.direct = d /\ w.translated = t
    BY DEF Weight, Findings
<1> HIDE DEF w
<1>2. {c, ch, o, ca, fp, cl, d, t} \subseteq Weights
    BY DEF Weights, MAX_SIGNAL_LLR
<1>3. w \in Llrs
    BY <1>1, <1>2 DEF Llrs, Findings
<1>4. WeighsTruly(e, w)
    BY <1>1, <1>3 DEF WeighsTruly
<1>5. TellsTruly(e, Signal(id, calibration, w))
    BY <1>4, SignalTells
<1> QED
    BY <1>5 DEF w

---------------------------------------------------------------------------
(* Helpers: answers *)

\* One more answer.
LEMMA OneMore ==
  ASSUME NEW s, IsSeq(s), NEW x
  PROVE  /\ IsSeq(Append(s, x)) /\ Len(Append(s, x)) = Len(s) + 1 /\ Append(s, x) # <<>>
         /\ \A n \in 1 .. Len(s) : Append(s, x)[n] = s[n]
         /\ Append(s, x)[Len(s) + 1] = x
         /\ \A n \in 1 .. Len(s) + 1 : SubSeq(Append(s, x), 1, n - 1) = SubSeq(s, 1, n - 1)
<1>1. PICK S : s \in Seq(S)
    BY DEF IsSeq
<1> DEFINE T == S \union {x}
           more == Append(s, x)
<1>2. s \in Seq(T) /\ x \in T /\ Len(s) \in Nat
    BY <1>1
<1> HIDE DEF T
<1>3. /\ more \in Seq(T) /\ Len(more) = Len(s) + 1
      /\ \A n \in 1 .. Len(s) : more[n] = s[n]
      /\ more[Len(s) + 1] = x
    BY <1>2, AppendProperties
<1> HIDE DEF more
<1>4. ASSUME NEW n \in 1 .. Len(s) + 1 PROVE SubSeq(more, 1, n - 1) = SubSeq(s, 1, n - 1)
  <2> DEFINE a == SubSeq(more, 1, n - 1)
             b == SubSeq(s, 1, n - 1)
  <2>1. n - 1 \in 0 .. Len(s) /\ n - 1 \in 0 .. Len(more)
      BY <1>2, <1>3
  <2>2. a \in Seq(T) /\ Len(a) = n - 1 /\ \A i \in 1 .. n - 1 : a[i] = more[i]
      BY <1>2, <1>3, <2>1, SubSeqProperties
  <2>3. b \in Seq(T) /\ Len(b) = n - 1 /\ \A i \in 1 .. n - 1 : b[i] = s[i]
      BY <1>2, <2>1, SubSeqProperties
  <2> HIDE DEF a, b
  <2>4. \A i \in 1 .. Len(a) : a[i] = b[i]
      BY <1>2, <1>3, <2>1, <2>2, <2>3
  <2>5. a = b
      BY <2>2, <2>3, <2>4, SeqEqual
  <2> QED BY <2>5 DEF a, b
<1>5. IsSeq(more) /\ more # <<>>
    BY <1>2, <1>3, EmptySeq DEF IsSeq
<1>6. /\ IsSeq(more) /\ Len(more) = Len(s) + 1 /\ more # <<>>
      /\ \A n \in 1 .. Len(s) : more[n] = s[n]
      /\ more[Len(s) + 1] = x
      /\ \A n \in 1 .. Len(s) + 1 : SubSeq(more, 1, n - 1) = SubSeq(s, 1, n - 1)
    BY <1>3, <1>4, <1>5
<1> QED BY <1>6 DEF more

\* The answers at hand, one by one.
LEMMA HeardOneByOne ==
  ASSUME NEW e, NEW name, NEW known, NEW answers, HeardAsAsked(e, name, known, answers)
  PROVE  /\ Len(answers) \in Nat
         /\ answers = <<>> <=> Len(answers) = 0
         /\ Len(answers) >= 1 =>
              LET then == Program(name, e.target, known, <<>>)
              IN  then.do = "ask" /\ answers[1] \in Answers(e, then)
         /\ Len(answers) >= 2 =>
              LET then == Program(name, e.target, known, <<answers[1]>>)
              IN  then.do = "ask" /\ answers[2] \in Answers(e, then)
<1>0. PICK X : answers \in Seq(X)
    BY DEF HeardAsAsked, IsSeq
<1>1. answers \in Seq(X)
    BY <1>0
<1>2. Len(answers) \in Nat /\ (answers = <<>> <=> Len(answers) = 0)
    BY <1>1, EmptySeq
<1>3. SubSeq(answers, 1, 1 - 1) = <<>>
    BY <1>1
<1>4. ASSUME Len(answers) >= 1 PROVE SubSeq(answers, 1, 2 - 1) = <<answers[1]>>
  <2> DEFINE a == SubSeq(answers, 1, 1)
             b == <<answers[1]>>
  <2>1. answers[1] \in X
      BY <1>1, <1>2, <1>4
  <2>2. a \in Seq(X) /\ Len(a) = 1 /\ a[1] = answers[1]
      BY <2>1, SubSeqProperties
  <2>3. b \in Seq(X) /\ Len(b) = 1 /\ b[1] = answers[1]
      BY <2>1
  <2> HIDE DEF a, b
  <2>4. \A i \in 1 .. Len(a) : a[i] = b[i]
      BY <2>2, <2>3
  <2>5. a = b
      BY <2>2, <2>3, <2>4, SeqEqual
  <2> QED BY <2>5 DEF a, b
<1>6. \A n \in 1 .. Len(answers) :
        LET then == Program(name, e.target, known, SubSeq(answers, 1, n - 1))
        IN  then.do = "ask" /\ answers[n] \in Answers(e, then)
    BY DEF HeardAsAsked
<1>7. ASSUME Len(answers) >= 1
      PROVE  LET then == Program(name, e.target, known, <<>>)
             IN  then.do = "ask" /\ answers[1] \in Answers(e, then)
  <2>1. 1 \in 1 .. Len(answers)
      BY <1>2, <1>7
  <2> QED BY <1>3, <1>6, <2>1
<1>8. ASSUME Len(answers) >= 2
      PROVE  LET then == Program(name, e.target, known, <<answers[1]>>)
             IN  then.do = "ask" /\ answers[2] \in Answers(e, then)
  <2>1. 2 \in 1 .. Len(answers) /\ Len(answers) >= 1
      BY <1>2, <1>8
  <2>2. LET then == Program(name, e.target, known, SubSeq(answers, 1, 2 - 1))
        IN  then.do = "ask" /\ answers[2] \in Answers(e, then)
      BY <1>6, <2>1
  <2> QED BY <1>4, <2>1, <2>2
<1> QED BY <1>2, <1>7, <1>8

---------------------------------------------------------------------------
(* The probes of one request of their own *)

\* What a probe declares, from the group it is of.
LEMMA CostsOf ==
  /\ \A name \in DOMAIN ConformanceCost : Cost(name) = ConformanceCost[name]
  /\ \A name \in DOMAIN CausalCost : Cost(name) = CausalCost[name]
  /\ \A name \in TokenizerNames : Cost(name) = BATTERY_COST
  /\ Cost("countTokensAgreement") = [BASELINE_COST EXCEPT !.requests = BASELINE_COST.requests + 1]
  /\ \A name \in AccountingNames \ {"countTokensAgreement"} : Cost(name) = BASELINE_COST
<1>0. \A name : name \in DOMAIN ConformanceCost =>
        /\ name \notin DOMAIN CausalCost /\ name \notin Names(TokenizerProbes)
        /\ name # "countTokensAgreement"
    BY CostNames, CatalogueNames DEF TokenizerNames
<1>00. \A name : name \in DOMAIN CausalCost =>
        /\ name \notin DOMAIN ConformanceCost /\ name \notin Names(TokenizerProbes)
        /\ name # "countTokensAgreement"
    BY CostNames, CatalogueNames DEF TokenizerNames
<1>1. ASSUME NEW name \in DOMAIN ConformanceCost PROVE Cost(name) = ConformanceCost[name]
    BY <1>0 DEF Cost
<1>2. ASSUME NEW name \in DOMAIN CausalCost PROVE Cost(name) = CausalCost[name]
    BY <1>00 DEF Cost
<1> USE CostNames, CatalogueNames
<1>3. \A name \in TokenizerNames : Cost(name) = BATTERY_COST
    BY DEF Cost, TokenizerNames
<1>4. Cost("countTokensAgreement") = [BASELINE_COST EXCEPT !.requests = BASELINE_COST.requests + 1]
    BY DEF Cost, TokenizerNames
<1>5. \A name \in AccountingNames \ {"countTokensAgreement"} : Cost(name) = BASELINE_COST
    BY DEF Cost, TokenizerNames, AccountingNames
<1> QED BY <1>1, <1>2, <1>3, <1>4, <1>5

\* In numbers, for the probes of one request of their own.
LEMMA SingleCosts ==
  /\ \A name \in {"unknownParameter", "modelNotFound", "protocolLeakage", "compatFields"} :
       Cost(name).requests = 1 /\ Cost(name).tokens = 94
  /\ \A name \in {"extraInputs", "betaHeader"} : Cost(name).requests = 1 /\ Cost(name).tokens = 88
  /\ Cost("missingMaxTokens").requests = 1 /\ Cost("missingMaxTokens").tokens = 1111
  /\ Cost("structuredOutput").requests = 1 /\ Cost("structuredOutput").tokens = 2955
  /\ Cost("logitBias").requests = 1 /\ Cost("logitBias").tokens = 92
  /\ Cost("logprobsRetokenize").requests = 1 /\ Cost("logprobsRetokenize").tokens = 287
<1>1. TINY_REQUEST_TOKENS = 94 /\ CELL_TOKENS = 88 /\ MISSING_TOKENS = 1111
    BY DEF TINY_REQUEST_TOKENS, CELL_TOKENS, MISSING_TOKENS, estimateTokens, TINY_PROMPT, PROMPT,
           RESPONSES_MIN_OUTPUT_TOKENS, DEFAULTED_TOKENS
<1>2. STRUCTURED_TOKENS = 2955 /\ LOGIT_BIAS_TOKENS = 92 /\ LOGPROBS_TOKENS = 287
    BY DEF STRUCTURED_TOKENS, STRUCTURED_BYTES, LOGIT_BIAS_TOKENS, LOGPROBS_TOKENS, estimateTokens,
           LongestNonce
<1>3. \A name \in {"unknownParameter", "modelNotFound", "protocolLeakage", "compatFields"} :
        Cost(name) = [requests |-> 1, tokens |-> TINY_REQUEST_TOKENS]
    BY CostsOf, CostNames DEF ConformanceCost
<1>4. /\ \A name \in {"extraInputs", "betaHeader"} :
           Cost(name) = [requests |-> 1, tokens |-> CELL_TOKENS]
      /\ Cost("missingMaxTokens") = [requests |-> 1, tokens |-> MISSING_TOKENS]
    BY CostsOf, CostNames DEF ConformanceCost
<1>5. /\ Cost("structuredOutput") = [requests |-> 1, tokens |-> STRUCTURED_TOKENS]
      /\ Cost("logitBias") = [requests |-> 1, tokens |-> LOGIT_BIAS_TOKENS]
      /\ Cost("logprobsRetokenize") = [requests |-> 1, tokens |-> LOGPROBS_TOKENS]
    BY CostsOf, CostNames DEF CausalCost
<1> QED BY <1>1, <1>2, <1>3, <1>4, <1>5

\* A probe that asks once and then says something keeps to it.
LEMMA SingleKeeps ==
  ASSUME NEW e, NEW name \in Singles, NEW known, NEW answers, Meets(e, name, known, answers),
         NEW ask, Program(name, e.target, known, <<>>) = ask,
         ask.do = "ask", ask.tokens \in Nat, ask.bill \in Nat,
         ask.tokens <= Cost(name).tokens, ask.bill <= Cost(name).tokens,
         NEW said_,
         answers # <<>> => Program(name, e.target, known, answers) = Say(said_),
         answers # <<>> /\ answers[1] \in Answers(e, ask) => SaysTruly(e, said_)
  PROVE  Keeps(e, name, known, answers)
<1>1. Due(name, known) = 1
    BY DEF Due, Singles, AccountingNames, TokenizerNames
<1>2. HeardAsAsked(e, name, known, answers)
    BY DEF Meets
<1>3. CASE answers = <<>>
  <2>1. /\ Len(answers) = 0
        /\ \A x : Len(Append(answers, x)) = 1
    <3>1. Len(answers) = 0 /\ IsSeq(answers)
        BY <1>2, <1>3, HeardOneByOne DEF HeardAsAsked
    <3> QED BY <3>1, OneMore
  <2>3. \A more : Len(more) = 1 => LeftToCharge(name, known, more) = 0
      BY <1>1 DEF LeftToCharge, Singles, AccountingNames, TokenizerNames
  <2>4. LeftToCharge(name, known, answers) = Cost(name).tokens
      BY <1>1, <2>1 DEF LeftToCharge, Singles, AccountingNames, TokenizerNames
  <2>6. \A x :
          LET left == LeftToCharge(name, known, answers) - LeftToCharge(name, known, Append(answers, x))
          IN  ask.tokens <= left /\ ask.bill <= left
    <3> TAKE x
    <3>1. LeftToCharge(name, known, Append(answers, x)) = 0
        BY <2>1, <2>3
    <3>2. Cost(name).tokens \in Nat
        BY SingleCosts DEF Singles
    <3> QED BY <2>4, <3>1, <3>2
  <2> QED BY <1>1, <1>3, <2>1, <2>6 DEF Keeps
<1>4. CASE answers # <<>>
  <2>1. Len(answers) >= 1
      BY <1>2, <1>4, HeardOneByOne
  <2>2. answers[1] \in Answers(e, ask)
      BY <1>2, <2>1, HeardOneByOne
  <2> QED BY <1>4, <2>2 DEF Keeps, Say
<1> QED BY <1>3, <1>4

\* The programs of group A and D, by name.
LEMMA Conforms ==
  ASSUME NEW t, NEW known, NEW a
  PROVE  /\ Program("unknownParameter", t, known, a) = unknownParameter(t, a)
         /\ Program("modelNotFound", t, known, a) = modelNotFound(t, a)
         /\ Program("extraInputs", t, known, a) = extraInputs(t, a)
         /\ Program("betaHeader", t, known, a) = betaHeader(t, a)
         /\ Program("missingMaxTokens", t, known, a) = missingMaxTokens(a)
         /\ Program("protocolLeakage", t, known, a) = protocolLeakage(t, a)
         /\ Program("compatFields", t, known, a) = compatFields(t, a)
         /\ Program("routeSerializers", t, known, a) = routeSerializers(known, a)
         /\ Program("proxyWasmHeader", t, known, a) = proxyWasmHeader(known, a)
         /\ Program("empty404", t, known, a) = empty404(known, a)
         /\ Program("cors", t, known, a) = cors(known, a)
         /\ Program("authOnlyHeaders", t, known, a) = authOnlyHeaders(known, a)
         /\ Program("temperatureAboveMax", t, known, a) = temperatureAboveMax(t, known, a)
         /\ Program("errorEnvelope", t, known, a) = errorEnvelope(known, a)
         /\ Program("errorVocabulary", t, known, a) = errorVocabulary(known, a)
         /\ Program("modelRetrieve", t, known, a) = modelRetrieve(t, a)
         /\ Program("permissiveValidator", t, known, a) = permissiveValidator(t, known, a)
BY CostNames DEF Program, conformance

\* The programs of group D, by name.
LEMMA Causes ==
  ASSUME NEW t, NEW known, NEW a
  PROVE  /\ Program("thinkingSignature", t, known, a) = thinkingSignature(t, known, a)
         /\ Program("thinkingDisplay", t, known, a) = thinkingDisplay(t, known, a)
         /\ Program("cacheThreshold", t, known, a) = cacheThreshold(t, known, a)
         /\ Program("cacheInvalidation", t, known, a) = cacheInvalidation(t, known, a)
         /\ Program("structuredOutput", t, known, a) = structuredOutput(t, a)
         /\ Program("logitBias", t, known, a) = logitBias(t, a)
         /\ Program("logprobsRetokenize", t, known, a) = logprobsRetokenize(t, a)
BY CostNames DEF Program, causal

\* A generation is a request, charged for its prompt and its limit.
LEMMA GenerationIsAsked ==
  ASSUME NEW t, NEW request, NEW bytes \in Nat, NEW limit \in Nat
  PROVE  LET g == generationRequest(t, request, bytes, limit) IN
         /\ g.do = "ask" /\ g.request = request
         /\ g.tokens = bytes + 64 + limit
         /\ g.bill = IF t.protocol = "openai-responses" /\ limit < 16
                     THEN bytes + 64 + 16 ELSE bytes + 64 + limit
BY DEF generationRequest, Ask, estimateTokens, sentLimit, RESPONSES_MIN_OUTPUT_TOKENS

---------------------------------------------------------------------------
(* For whom each probe is *)

\* What an endpoint and its target are, from the assumption on endpoints.
LEMMA EndpointFacts ==
  ASSUME NEW e \in Endpoints
  PROVE  /\ e.kind \in Kinds
         /\ e.encoding \in {"o200k_base", "cl100k_base"}
         /\ e.target.encoding \in {"o200k_base", "cl100k_base"}
         /\ e.target.native \in BOOLEAN /\ e.target.samples \in BOOLEAN /\ e.target.alias \in BOOLEAN
         /\ e.target.protocol \in {"openai-chat", "openai-responses", "anthropic-messages"}
         /\ e.target.vendor \in {"openai", "anthropic"}
         /\ e.target.vendor = "openai" => e.target.protocol # "anthropic-messages"
         /\ e.target.vendor = "anthropic" =>
              /\ e.target.protocol # "openai-responses"
              /\ e.model \in AnthropicModels /\ e.target.model \in AnthropicModels
         /\ e.target.native <=> e.target.vendor = "openai" \/ e.target.protocol = "anthropic-messages"
         /\ e.kind \in {"vendor", "layer"} => e.model = e.target.model /\ e.encoding = e.target.encoding
         /\ e.kind = "cheaper" /\ e.target.vendor = "anthropic" => e.model \in cheaperThan[e.target.model]
BY EndpointsAssumption

\* The claims each probe of groups A and D is for.
LEMMA ForWhom ==
  ASSUME NEW t
  PROVE  /\ \A name \in {"routeSerializers", "proxyWasmHeader", "empty404", "cors", "authOnlyHeaders",
                         "unknownParameter", "modelNotFound", "temperatureAboveMax"} :
              Applies(name, t) => t.vendor = "openai"
         /\ \A name \in {"errorEnvelope", "errorVocabulary", "extraInputs", "betaHeader",
                         "missingMaxTokens", "modelRetrieve", "thinkingSignature", "thinkingDisplay",
                         "cacheThreshold", "cacheInvalidation"} :
              Applies(name, t) => t.vendor = "anthropic" /\ t.protocol = "anthropic-messages"
         /\ Applies("compatFields", t) => t.vendor = "anthropic" /\ t.protocol = "openai-chat"
         /\ Applies("thinkingSignature", t) => t.model \in KEEPS_THINKING
         /\ Applies("thinkingDisplay", t) => displayDefault[t.model] # "silent"
         /\ \A name \in {"logitBias", "logprobsRetokenize"} :
              Applies(name, t) => t.vendor = "openai" /\ t.protocol = "openai-chat"
<1>1. /\ OpenAIConformance[1] = "routeSerializers" /\ OpenAIConformance[2] = "proxyWasmHeader"
      /\ OpenAIConformance[3] = "empty404" /\ OpenAIConformance[4] = "cors"
      /\ OpenAIConformance[5] = "authOnlyHeaders" /\ OpenAIConformance[6] = "unknownParameter"
      /\ OpenAIConformance[7] = "modelNotFound" /\ OpenAIConformance[8] = "temperatureAboveMax"
      /\ Len(OpenAIConformance) = 8
    BY DEF OpenAIConformance
<1>2. /\ AnthropicConformance[1] = "errorEnvelope" /\ AnthropicConformance[2] = "errorVocabulary"
      /\ AnthropicConformance[3] = "extraInputs" /\ AnthropicConformance[4] = "betaHeader"
      /\ AnthropicConformance[5] = "missingMaxTokens" /\ AnthropicConformance[6] = "modelRetrieve"
      /\ Len(AnthropicConformance) = 6
    BY DEF AnthropicConformance
<1>3. \A name : (\E i \in 1 .. Len(OpenAIConformance) : OpenAIConformance[i] = name) <=>
        name \in {"routeSerializers", "proxyWasmHeader", "empty404", "cors", "authOnlyHeaders",
                  "unknownParameter", "modelNotFound", "temperatureAboveMax"}
    BY <1>1
<1>4. \A name : (\E i \in 1 .. Len(AnthropicConformance) : AnthropicConformance[i] = name) <=>
        name \in {"errorEnvelope", "errorVocabulary", "extraInputs", "betaHeader",
                  "missingMaxTokens", "modelRetrieve"}
    BY <1>2
<1>5. \A name \in DOMAIN ConformanceCost : Applies(name, t) => ConformanceApplies(name, t)
    BY CostNames DEF Applies
<1>6. /\ \A name \in {"routeSerializers", "proxyWasmHeader", "empty404", "cors", "authOnlyHeaders",
                      "unknownParameter", "modelNotFound", "temperatureAboveMax"} :
           ConformanceApplies(name, t) => t.vendor = "openai"
      /\ \A name \in {"errorEnvelope", "errorVocabulary", "extraInputs", "betaHeader",
                      "missingMaxTokens", "modelRetrieve"} :
           ConformanceApplies(name, t) => t.vendor = "anthropic" /\ t.protocol = "anthropic-messages"
    BY <1>3, <1>4 DEF ConformanceApplies
<1>7. ConformanceApplies("compatFields", t) => t.vendor = "anthropic" /\ t.protocol = "openai-chat"
    BY <1>3, <1>4 DEF ConformanceApplies
<1>8. \A name \in DOMAIN CausalCost : Applies(name, t) => CausalApplies(name, t)
    BY CostNames DEF Applies
<1>9. /\ \A name \in {"thinkingSignature", "thinkingDisplay", "cacheThreshold", "cacheInvalidation"} :
           CausalApplies(name, t) => t.vendor = "anthropic" /\ t.protocol = "anthropic-messages"
      /\ CausalApplies("thinkingSignature", t) => t.model \in KEEPS_THINKING
      /\ CausalApplies("thinkingDisplay", t) => displayDefault[t.model] # "silent"
      /\ \A name \in {"logitBias", "logprobsRetokenize"} :
           CausalApplies(name, t) => t.vendor = "openai" /\ t.protocol = "openai-chat"
    BY DEF CausalApplies
<1> QED BY <1>5, <1>6, <1>7, <1>8, <1>9, CostNames

\* One signal about the way to the model, in the words of group A.
LEMMA PathSaid ==
  ASSUME NEW e, NEW id, NEW f \in Int, NEW d \in Int, NEW t \in Int,
         -6 <= f, f <= 6, -6 <= d, d <= 6, 0 <= t, t <= 8,
         e.kind = "vendor" => f >= 0 /\ d >= 0 /\ t = 0
  PROVE  /\ TellsTruly(e, observedSignal(id, Path(f, d, t)))
         /\ TellsTruly(e, conformanceSignal(id, Path(f, d, t)))
<1>1. "heuristic" \in Calibrations /\ "documented" \in Calibrations
    BY DEF Calibrations
<1>2. Path(f, d, t) = Weight(0, 0, 0, 0, f, 0, d, t)
    BY DEF Path, Weight, Neutral, Findings
<1>3. /\ TellsTruly(e, Signal(id, "heuristic", Weight(0, 0, 0, 0, f, 0, d, t)))
      /\ TellsTruly(e, Signal(id, "documented", Weight(0, 0, 0, 0, f, 0, d, t)))
    BY <1>1, WeightTells
<1> QED BY <1>2, <1>3 DEF observedSignal, conformanceSignal

---------------------------------------------------------------------------
(* The probes of one request of their own, one by one *)

\* The tiny request, and one that should be refused.
LEMMA TinyIsAsked ==
  ASSUME NEW t, NEW request
  PROVE  /\ LET g == tinyRequest(t, request) IN
            /\ g.do = "ask" /\ g.request = request
            /\ g.tokens \in Nat /\ g.tokens <= 94 /\ g.bill \in Nat /\ g.bill <= 94
         /\ t.protocol # "openai-responses" =>
              LET g == refusableRequest(t, request) IN
              /\ g.do = "ask" /\ g.request = request
              /\ g.tokens \in Nat /\ g.tokens <= 88 /\ g.bill \in Nat /\ g.bill <= 88
BY GenerationIsAsked DEF tinyRequest, refusableRequest, TINY_PROMPT, PROMPT

\* What a refusal may be, of a request OpenAI's or Anthropic's API refuses with this status.
LEMMA Refusals ==
  ASSUME NEW e, NEW status, NEW x \in RefusalAnswers(e, status), e.kind = "vendor"
  PROVE  x.status = status /\ x.dialect = e.target.vendor /\ x.as
BY DEF RefusalAnswers, Usually

\* unknown-parameter: the vendor refuses a parameter of no API in its own envelope, and
\* an endpoint that accepts it tells of its path alone.
LEMMA unknownParameterKeeps ==
  ASSUME NEW e, NEW known, NEW answers, Meets(e, "unknownParameter", known, answers)
  PROVE  Keeps(e, "unknownParameter", known, answers)
<1> DEFINE t == e.target
           ask == tinyRequest(t, "unknown-parameter")
           x == answers[1]
           told == IF isSuccess(x) THEN {observedSignal("accepted", Path(-2, 0, 2))}
                   ELSE IF ~isClientError(x) THEN {}
                   ELSE IF x.status = 400 /\ x.dialect = "openai" /\ x.as
                   THEN {observedSignal("rejected-as-openai", Path(3, 2, 0))}
                   ELSE {observedSignal("rejected-otherwise", Path(-1, 0, 0))}
<1>1. Program("unknownParameter", t, known, <<>>) = ask
    BY Conforms DEF unknownParameter
<1>2. /\ ask.do = "ask" /\ ask.request = "unknown-parameter"
      /\ ask.tokens \in Nat /\ ask.tokens <= 94 /\ ask.bill \in Nat /\ ask.bill <= 94
    BY TinyIsAsked
<1>3. answers # <<>> => Program("unknownParameter", t, known, answers) = Say(told)
  <2>1. Program("unknownParameter", t, known, answers) = unknownParameter(t, answers)
      BY Conforms
  <2> QED BY <2>1 DEF unknownParameter
<1>4. ASSUME x \in Answers(e, ask) PROVE SaysTruly(e, told)
  <2>1. x \in RefusalAnswers(e, 400)
      BY <1>2, <1>4, ConformanceAnswers
  <2>2. t.vendor = "openai"
      BY ForWhom DEF Meets
  <2>3. e.kind = "vendor" => x.status = 400 /\ x.dialect = "openai" /\ x.as
      BY <2>1, <2>2, Refusals
  <2>4. TellsTruly(e, observedSignal("rejected-as-openai", Path(3, 2, 0)))
      BY PathSaid
  <2>5. e.kind # "vendor" => TellsTruly(e, observedSignal("accepted", Path(-2, 0, 2)))
      BY PathSaid
  <2>6. e.kind # "vendor" => TellsTruly(e, observedSignal("rejected-otherwise", Path(-1, 0, 0)))
      BY PathSaid
  <2>7. (\A s \in told : TellsTruly(e, s)) /\ (\A s, s_ \in told : s = s_)
      BY <2>3, <2>4, <2>5, <2>6 DEF isSuccess
  <2> QED BY <2>7, OneSaid
<1> HIDE DEF ask, told
<1>5. "unknownParameter" \in Singles /\ Cost("unknownParameter").tokens = 94
    BY SingleCosts DEF Singles
<1> QED BY <1>1, <1>2, <1>3, <1>4, <1>5, SingleKeeps

\* A signal of no weight.
LEMMA NeutralSaid ==
  ASSUME NEW e, NEW id
  PROVE  /\ TellsTruly(e, observedSignal(id, Neutral)) /\ TellsTruly(e, conformanceSignal(id, Neutral))
         /\ TellsTruly(e, Signal(id, "heuristic", Neutral)) /\ TellsTruly(e, Signal(id, "documented", Neutral))
         /\ TellsTruly(e, Signal(id, "derived", Neutral))
<1>1. "heuristic" \in Calibrations /\ "documented" \in Calibrations /\ "derived" \in Calibrations
    BY DEF Calibrations
<1>2. Neutral = Weight(0, 0, 0, 0, 0, 0, 0, 0)
    BY DEF Neutral, Weight, Findings
<1>3. \A calibration \in {"heuristic", "documented", "derived"} :
        TellsTruly(e, Signal(id, calibration, Weight(0, 0, 0, 0, 0, 0, 0, 0)))
    BY <1>1, WeightTells
<1> QED BY <1>2, <1>3 DEF observedSignal, conformanceSignal

\* model-not-found: the vendor refuses a model that does not exist, in its own words.
LEMMA modelNotFoundKeeps ==
  ASSUME NEW e, NEW known, NEW answers, Meets(e, "modelNotFound", known, answers)
  PROVE  Keeps(e, "modelNotFound", known, answers)
<1> DEFINE t == e.target
           ask == tinyRequest(t, "absent-model")
           x == answers[1]
           told == IF isSuccess(x) THEN {observedSignal("answered", Path(-3, 0, 1))}
                   ELSE IF ~isClientError(x) THEN {}
                   ELSE IF x.status = 404 /\ x.dialect = "openai" /\ x.as
                   THEN {observedSignal("refused-as-openai", Path(3, 2, 0))}
                   ELSE {observedSignal("refused-otherwise", Path(-1, 0, 0))}
<1>1. Program("modelNotFound", t, known, <<>>) = ask
    BY Conforms DEF modelNotFound
<1>2. /\ ask.do = "ask" /\ ask.request = "absent-model"
      /\ ask.tokens \in Nat /\ ask.tokens <= 94 /\ ask.bill \in Nat /\ ask.bill <= 94
    BY TinyIsAsked
<1>3. answers # <<>> => Program("modelNotFound", t, known, answers) = Say(told)
  <2>1. Program("modelNotFound", t, known, answers) = modelNotFound(t, answers)
      BY Conforms
  <2> QED BY <2>1 DEF modelNotFound
<1>4. ASSUME x \in Answers(e, ask) PROVE SaysTruly(e, told)
  <2>1. x \in RefusalAnswers(e, 404)
      BY <1>2, <1>4, ConformanceAnswers
  <2>2. t.vendor = "openai"
      BY ForWhom DEF Meets
  <2>3. e.kind = "vendor" => x.status = 404 /\ x.dialect = "openai" /\ x.as
      BY <2>1, <2>2, Refusals
  <2>4. TellsTruly(e, observedSignal("refused-as-openai", Path(3, 2, 0)))
      BY PathSaid
  <2>5. e.kind # "vendor" => TellsTruly(e, observedSignal("answered", Path(-3, 0, 1)))
      BY PathSaid
  <2>6. e.kind # "vendor" => TellsTruly(e, observedSignal("refused-otherwise", Path(-1, 0, 0)))
      BY PathSaid
  <2>7. (\A s \in told : TellsTruly(e, s)) /\ (\A s, s_ \in told : s = s_)
      BY <2>2, <2>3, <2>4, <2>5, <2>6 DEF isSuccess
  <2> QED BY <2>7, OneSaid
<1> HIDE DEF ask, told
<1>5. "modelNotFound" \in Singles /\ Cost("modelNotFound").tokens = 94
    BY SingleCosts DEF Singles
<1>6. ask.tokens <= Cost("modelNotFound").tokens /\ ask.bill <= Cost("modelNotFound").tokens
    BY <1>2, <1>5
<1> QED BY <1>1, <1>2, <1>3, <1>4, <1>5, <1>6, SingleKeeps

\* extra-inputs: the vendor refuses an unknown field, with its own envelope.
LEMMA extraInputsKeeps ==
  ASSUME NEW e, NEW known, NEW answers, Meets(e, "extraInputs", known, answers)
  PROVE  Keeps(e, "extraInputs", known, answers)
<1> DEFINE t == e.target
           ask == refusableRequest(t, "extra-inputs")
           x == answers[1]
           told == IF isSuccess(x) THEN {observedSignal("accepted", Path(-3, 0, 3))}
                   ELSE IF ~isClientError(x) THEN {}
                   ELSE IF x.status = 400 /\ x.dialect = "anthropic" /\ x.as
                   THEN {observedSignal("refused-as-anthropic", Path(1, 2, 0))}
                   ELSE {observedSignal("refused-otherwise", Path(0, 0, 2))}
<1>1. Program("extraInputs", t, known, <<>>) = ask
    BY Conforms DEF extraInputs
<1>2. /\ ask.do = "ask" /\ ask.request = "extra-inputs"
      /\ ask.tokens \in Nat /\ ask.tokens <= 88 /\ ask.bill \in Nat /\ ask.bill <= 88
    BY TinyIsAsked, ForWhom DEF Meets
<1>3. answers # <<>> => Program("extraInputs", t, known, answers) = Say(told)
  <2>1. Program("extraInputs", t, known, answers) = extraInputs(t, answers)
      BY Conforms
  <2> QED BY <2>1 DEF extraInputs
<1>4. ASSUME x \in Answers(e, ask) PROVE SaysTruly(e, told)
  <2>1. x \in RefusalAnswers(e, 400)
      BY <1>2, <1>4, ConformanceAnswers
  <2>2. t.vendor = "anthropic" /\ t.protocol = "anthropic-messages"
      BY ForWhom DEF Meets
  <2>3. e.kind = "vendor" => x.status = 400 /\ x.dialect = "anthropic" /\ x.as
      BY <2>1, <2>2, Refusals
  <2>4. TellsTruly(e, observedSignal("refused-as-anthropic", Path(1, 2, 0)))
      BY PathSaid
  <2>5. e.kind # "vendor" => TellsTruly(e, observedSignal("accepted", Path(-3, 0, 3)))
      BY PathSaid
  <2>6. e.kind # "vendor" => TellsTruly(e, observedSignal("refused-otherwise", Path(0, 0, 2)))
      BY PathSaid
  <2>7. (\A s \in told : TellsTruly(e, s)) /\ (\A s, s_ \in told : s = s_)
      BY <2>2, <2>3, <2>4, <2>5, <2>6 DEF isSuccess
  <2> QED BY <2>7, OneSaid
<1> HIDE DEF ask, told
<1>5. "extraInputs" \in Singles /\ Cost("extraInputs").tokens = 88
    BY SingleCosts DEF Singles
<1>6. ask.tokens <= Cost("extraInputs").tokens /\ ask.bill <= Cost("extraInputs").tokens
    BY <1>2, <1>5
<1> QED BY <1>1, <1>2, <1>3, <1>4, <1>5, <1>6, SingleKeeps

\* beta-header: the vendor refuses a beta it does not know.
LEMMA betaHeaderKeeps ==
  ASSUME NEW e, NEW known, NEW answers, Meets(e, "betaHeader", known, answers)
  PROVE  Keeps(e, "betaHeader", known, answers)
<1> DEFINE t == e.target
           ask == refusableRequest(t, "beta-header")
           x == answers[1]
           told == {CASE isSuccess(x) -> conformanceSignal("accepted", Path(-4, -3, 3))
                      [] x.status = 400 ->
                           IF x.dialect = "anthropic" /\ x.as
                           THEN conformanceSignal("refused-as-anthropic", Path(3, 4, 0))
                           ELSE conformanceSignal("refused-otherwise", Path(-2, 0, 2))
                      [] OTHER -> conformanceSignal("other-status", Neutral)}
<1>1. Program("betaHeader", t, known, <<>>) = ask
    BY Conforms DEF betaHeader
<1>2. /\ ask.do = "ask" /\ ask.request = "beta-header"
      /\ ask.tokens \in Nat /\ ask.tokens <= 88 /\ ask.bill \in Nat /\ ask.bill <= 88
    BY TinyIsAsked, ForWhom DEF Meets
<1>3. answers # <<>> => Program("betaHeader", t, known, answers) = Say(told)
  <2>1. Program("betaHeader", t, known, answers) = betaHeader(t, answers)
      BY Conforms
  <2> QED BY <2>1 DEF betaHeader
<1>4. ASSUME x \in Answers(e, ask) PROVE SaysTruly(e, told)
  <2>1. x \in RefusalAnswers(e, 400)
      BY <1>2, <1>4, ConformanceAnswers
  <2>2. t.vendor = "anthropic" /\ t.protocol = "anthropic-messages"
      BY ForWhom DEF Meets
  <2>3. e.kind = "vendor" => x.status = 400 /\ x.dialect = "anthropic" /\ x.as
      BY <2>1, <2>2, Refusals
  <2>4. TellsTruly(e, conformanceSignal("refused-as-anthropic", Path(3, 4, 0)))
      BY PathSaid
  <2>5. TellsTruly(e, conformanceSignal("other-status", Neutral))
      BY NeutralSaid
  <2>6. e.kind # "vendor" => TellsTruly(e, conformanceSignal("accepted", Path(-4, -3, 3)))
      BY PathSaid
  <2>7. e.kind # "vendor" => TellsTruly(e, conformanceSignal("refused-otherwise", Path(-2, 0, 2)))
      BY PathSaid
  <2>8. (\A s \in told : TellsTruly(e, s)) /\ (\A s, s_ \in told : s = s_)
      BY <2>2, <2>3, <2>4, <2>5, <2>6, <2>7 DEF isSuccess
  <2> QED BY <2>8, OneSaid
<1> HIDE DEF ask, told
<1>5. "betaHeader" \in Singles /\ Cost("betaHeader").tokens = 88
    BY SingleCosts DEF Singles
<1>6. ask.tokens <= Cost("betaHeader").tokens /\ ask.bill <= Cost("betaHeader").tokens
    BY <1>2, <1>5
<1> QED BY <1>1, <1>2, <1>3, <1>4, <1>5, <1>6, SingleKeeps

\* missing-max-tokens: the vendor refuses a request without its limit; the cost allows
\* for one that generates.
LEMMA missingMaxTokensKeeps ==
  ASSUME NEW e, NEW known, NEW answers, Meets(e, "missingMaxTokens", known, answers)
  PROVE  Keeps(e, "missingMaxTokens", known, answers)
<1> DEFINE t == e.target
           ask == Ask("missing-max-tokens", MISSING_TOKENS)
           x == answers[1]
           told == IF isSuccess(x) THEN {conformanceSignal("accepted", Path(-4, 0, 3))}
                   ELSE IF x.status # 400 \/ x.dialect # "anthropic" THEN {}
                   ELSE {conformanceSignal("refused", Path(1, 2, 0))}
<1>1. Program("missingMaxTokens", t, known, <<>>) = ask
    BY Conforms DEF missingMaxTokens
<1>2. /\ ask.do = "ask" /\ ask.request = "missing-max-tokens"
      /\ ask.tokens \in Nat /\ ask.tokens <= 1111 /\ ask.bill \in Nat /\ ask.bill <= 1111
    BY DEF Ask, MISSING_TOKENS, estimateTokens, PROMPT, DEFAULTED_TOKENS
<1>3. answers # <<>> => Program("missingMaxTokens", t, known, answers) = Say(told)
  <2>1. Program("missingMaxTokens", t, known, answers) = missingMaxTokens(answers)
      BY Conforms
  <2> QED BY <2>1 DEF missingMaxTokens
<1>4. ASSUME x \in Answers(e, ask) PROVE SaysTruly(e, told)
  <2>1. x \in RefusalAnswers(e, 400)
      BY <1>2, <1>4, ConformanceAnswers
  <2>2. t.vendor = "anthropic" /\ t.protocol = "anthropic-messages"
      BY ForWhom DEF Meets
  <2>3. e.kind = "vendor" => x.status = 400 /\ x.dialect = "anthropic" /\ x.as
      BY <2>1, <2>2, Refusals
  <2>4. TellsTruly(e, conformanceSignal("refused", Path(1, 2, 0)))
      BY PathSaid
  <2>5. e.kind # "vendor" => TellsTruly(e, conformanceSignal("accepted", Path(-4, 0, 3)))
      BY PathSaid
  <2>6. (\A s \in told : TellsTruly(e, s)) /\ (\A s, s_ \in told : s = s_)
      BY <2>2, <2>3, <2>4, <2>5 DEF isSuccess
  <2> QED BY <2>6, OneSaid
<1> HIDE DEF ask, told
<1>5. "missingMaxTokens" \in Singles /\ Cost("missingMaxTokens").tokens = 1111
    BY SingleCosts DEF Singles
<1>6. ask.tokens <= Cost("missingMaxTokens").tokens /\ ask.bill <= Cost("missingMaxTokens").tokens
    BY <1>2, <1>5
<1> QED BY <1>1, <1>2, <1>3, <1>4, <1>5, <1>6, SingleKeeps

\* protocol-leakage: the vendor's answers carry no other protocol's fields.
LEMMA protocolLeakageKeeps ==
  ASSUME NEW e, NEW known, NEW answers, Meets(e, "protocolLeakage", known, answers)
  PROVE  Keeps(e, "protocolLeakage", known, answers)
<1> DEFINE t == e.target
           ask == tinyRequest(t, "tiny")
           x == answers[1]
           told == IF ~isSuccess(x) \/ ~x.foreign THEN {}
                   ELSE {conformanceSignal("foreign-markers", Path(-5, -5, 8))}
<1>1. Program("protocolLeakage", t, known, <<>>) = ask
    BY Conforms DEF protocolLeakage
<1>2. /\ ask.do = "ask" /\ ask.request = "tiny"
      /\ ask.tokens \in Nat /\ ask.tokens <= 94 /\ ask.bill \in Nat /\ ask.bill <= 94
    BY TinyIsAsked
<1>3. answers # <<>> => Program("protocolLeakage", t, known, answers) = Say(told)
  <2>1. Program("protocolLeakage", t, known, answers) = protocolLeakage(t, answers)
      BY Conforms
  <2> QED BY <2>1 DEF protocolLeakage
<1>4. ASSUME x \in Answers(e, ask) PROVE SaysTruly(e, told)
  <2>1. x \in TinyAnswers(e)
      BY <1>2, <1>4, ConformanceAnswers
  <2>2. e.kind = "vendor" => ~x.foreign
      BY <2>1 DEF TinyAnswers, Usually
  <2>3. e.kind # "vendor" => TellsTruly(e, conformanceSignal("foreign-markers", Path(-5, -5, 8)))
      BY PathSaid
  <2>4. (\A s \in told : TellsTruly(e, s)) /\ (\A s, s_ \in told : s = s_)
      BY <2>2, <2>3 DEF isSuccess
  <2> QED BY <2>4, OneSaid
<1> HIDE DEF ask, told
<1>5. "protocolLeakage" \in Singles /\ Cost("protocolLeakage").tokens = 94
    BY SingleCosts DEF Singles
<1>6. ask.tokens <= Cost("protocolLeakage").tokens /\ ask.bill <= Cost("protocolLeakage").tokens
    BY <1>2, <1>5
<1> QED BY <1>1, <1>2, <1>3, <1>4, <1>5, <1>6, SingleKeeps

\* A signal about who answers.
LEMMA IdentitiesSaid ==
  ASSUME NEW e, NEW id, NEW calibration \in Calibrations,
         NEW c \in Int, NEW ch \in Int, NEW o \in Int, NEW ca \in Int,
         -10 <= c, c <= 10, -10 <= ch, ch <= 10, -10 <= o, o <= 10, -10 <= ca, ca <= 10,
         e.kind = "vendor" => c >= 0, e.kind = "layer" => c >= 0, e.kind = "cheaper" => ch >= -3
  PROVE  TellsTruly(e, Signal(id, calibration, Identities(c, ch, o, ca)))
<1>1. Identities(c, ch, o, ca) = Weight(c, ch, o, ca, 0, 0, 0, 0)
    BY DEF Identities, Weight, Neutral, Findings
<1>2. TellsTruly(e, Signal(id, calibration, Weight(c, ch, o, ca, 0, 0, 0, 0)))
    BY WeightTells
<1> QED BY <1>1, <1>2

\* compat-fields: Claude answers no logprobs, and only what is not the vendor says it
\* has them.
LEMMA compatFieldsKeeps ==
  ASSUME NEW e, NEW known, NEW answers, Meets(e, "compatFields", known, answers)
  PROVE  Keeps(e, "compatFields", known, answers)
<1> DEFINE t == e.target
           ask == tinyRequest(t, "logprobs")
           x == answers[1]
           fingerprint == conformanceSignal("fingerprint-present", Path(-6, 0, 0))
           logprobs == conformanceSignal("logprobs-present",
                         [Neutral EXCEPT !.other = 6, !.claim = -6, !.cheaper = -6, !.firstParty = -6])
           rejected == conformanceSignal("logprobs-rejected", Path(-3, 0, 0))
           told == IF isSuccess(x)
                   THEN (IF ~x.fingerprint THEN {} ELSE {fingerprint})
                          \union (IF ~x.logprobs THEN {} ELSE {logprobs})
                   ELSE IF isClientError(x) /\ x.namesLogprobs THEN {rejected} ELSE {}
<1>1. Program("compatFields", t, known, <<>>) = ask
    BY Conforms DEF compatFields
<1>2. /\ ask.do = "ask" /\ ask.request = "logprobs"
      /\ ask.tokens \in Nat /\ ask.tokens <= 94 /\ ask.bill \in Nat /\ ask.bill <= 94
    BY TinyIsAsked
<1>3. answers # <<>> => Program("compatFields", t, known, answers) = Say(told)
  <2>1. Program("compatFields", t, known, answers) = compatFields(t, answers)
      BY Conforms
  <2> QED BY <2>1 DEF compatFields
<1>4. ASSUME x \in Answers(e, ask) PROVE SaysTruly(e, told)
  <2>1. x \in TinyAnswers(e)
      BY <1>2, <1>4, ConformanceAnswers
  <2>2. e.kind = "vendor" => isSuccess(x) /\ ~x.fingerprint /\ ~x.logprobs
      BY <2>1 DEF TinyAnswers, Usually, isSuccess
  <2>3. e.kind # "any" => ~x.logprobs
    <3>1. CASE e.kind \in {"vendor", "cheaper"}
        BY <2>1, <3>1 DEF TinyAnswers, Usually
    <3>2. CASE e.kind \notin {"vendor", "cheaper", "any"}
      <4> DEFINE own == [status |-> 200, foreign |-> FALSE, fingerprint |-> FALSE,
                         logprobs |-> FALSE, namesLogprobs |-> FALSE]
                 others == [status : {200, 400}, foreign : BOOLEAN, fingerprint : BOOLEAN,
                            logprobs : {FALSE}, namesLogprobs : BOOLEAN]
      <4>1. x \in {own} \union others
        <5> HIDE DEF x, told, ask, fingerprint, logprobs, rejected
        <5>1. TinyAnswers(e) = {own} \union others
            BY <3>2, Zenon DEF TinyAnswers, Usually
        <5> QED BY <2>1, <5>1
      <4>2. \A y \in others : ~y.logprobs
          OBVIOUS
      <4> HIDE DEF others
      <4> QED BY <4>1, <4>2
    <3> QED BY <3>1, <3>2
  <2>4. e.kind # "vendor" => TellsTruly(e, fingerprint)
      BY PathSaid
  <2>5. e.kind # "vendor" => TellsTruly(e, rejected)
      BY PathSaid
  <2>6. [Neutral EXCEPT !.other = 6, !.claim = -6, !.cheaper = -6, !.firstParty = -6]
          = Weight(-6, -6, 6, 0, -6, 0, 0, 0)
      BY DEF Weight, Neutral, Findings
  <2>7. e.kind = "any" =>
          TellsTruly(e, Signal("logprobs-present", "documented", Weight(-6, -6, 6, 0, -6, 0, 0, 0)))
      BY WeightTells DEF Calibrations
  <2>8. e.kind = "any" => TellsTruly(e, logprobs)
      BY <2>6, <2>7 DEF conformanceSignal
  <2>9. fingerprint.id # logprobs.id
      BY DEF conformanceSignal, Signal
  <2> HIDE DEF fingerprint, logprobs, rejected
  <2>10. \A s \in told : TellsTruly(e, s)
      BY <2>2, <2>3, <2>4, <2>5, <2>8
  <2>11. \A s, s_ \in told : s.id = s_.id => s = s_
      BY <2>9
  <2> QED BY <2>10, <2>11 DEF SaysTruly
<1> HIDE DEF ask, told
<1>5. "compatFields" \in Singles /\ Cost("compatFields").tokens = 94
    BY SingleCosts DEF Singles
<1>6. ask.tokens <= Cost("compatFields").tokens /\ ask.bill <= Cost("compatFields").tokens
    BY <1>2, <1>5
<1> QED BY <1>1, <1>2, <1>3, <1>4, <1>5, <1>6, SingleKeeps

\* structured-output: the vendor follows a schema; a layer that drops it may look like
\* either.
LEMMA structuredOutputKeeps ==
  ASSUME NEW e, NEW known, NEW answers, Meets(e, "structuredOutput", known, answers)
  PROVE  Keeps(e, "structuredOutput", known, answers)
<1> DEFINE t == e.target
           ask == Ask("schema", STRUCTURED_TOKENS)
           x == answers[1]
           tier == IF t.protocol = "anthropic-messages" THEN "documented" ELSE "derived"
           enforced == Signal("schema-enforced", tier, Identities(1, 0, 0, -5))
           ignored == Signal("schema-ignored", tier, [Neutral EXCEPT !.translated = 7])
           told == IF ~isSuccess(x) \/ ~x.finished THEN {}
                   ELSE IF x.conforms THEN {enforced} ELSE {ignored}
<1>1. Program("structuredOutput", t, known, <<>>) = ask
    BY Causes DEF structuredOutput
<1>2. /\ ask.do = "ask" /\ ask.request = "schema"
      /\ ask.tokens \in Nat /\ ask.tokens <= 2955 /\ ask.bill \in Nat /\ ask.bill <= 2955
    BY DEF Ask, STRUCTURED_TOKENS, STRUCTURED_BYTES, estimateTokens, LongestNonce
<1>3. answers # <<>> => Program("structuredOutput", t, known, answers) = Say(told)
  <2>1. Program("structuredOutput", t, known, answers) = structuredOutput(t, answers)
      BY Causes
  <2> QED BY <2>1 DEF structuredOutput
<1>4. ASSUME x \in Answers(e, ask) PROVE SaysTruly(e, told)
  <2>1. x \in SchemaAnswers(e)
      BY <1>2, <1>4, GenerationAnswers
  <2>2. e.kind = "vendor" => x.conforms
      BY <2>1 DEF SchemaAnswers, Usually
  <2>3. tier \in Calibrations
      BY DEF Calibrations
  <2> HIDE DEF tier
  <2>4. TellsTruly(e, enforced)
      BY <2>3, IdentitiesSaid
  <2>5. [Neutral EXCEPT !.translated = 7] = Weight(0, 0, 0, 0, 0, 0, 0, 7)
      BY DEF Weight, Neutral, Findings
  <2>6. e.kind # "vendor" => TellsTruly(e, Signal("schema-ignored", tier, Weight(0, 0, 0, 0, 0, 0, 0, 7)))
      BY <2>3, WeightTells
  <2>7. e.kind # "vendor" => TellsTruly(e, ignored)
      BY <2>5, <2>6
  <2> HIDE DEF enforced, ignored
  <2>8. (\A s \in told : TellsTruly(e, s)) /\ (\A s, s_ \in told : s = s_)
      BY <2>2, <2>4, <2>7
  <2> QED BY <2>8, OneSaid
<1> HIDE DEF ask, told
<1>5. "structuredOutput" \in Singles /\ Cost("structuredOutput").tokens = 2955
    BY SingleCosts DEF Singles
<1>6. ask.tokens <= Cost("structuredOutput").tokens /\ ask.bill <= Cost("structuredOutput").tokens
    BY <1>2, <1>5
<1> QED BY <1>1, <1>2, <1>3, <1>4, <1>5, <1>6, SingleKeeps

\* logit-bias: the claimed encoding is biased as asked by the vendor.
LEMMA logitBiasKeeps ==
  ASSUME NEW e, NEW known, NEW answers, Meets(e, "logitBias", known, answers)
  PROVE  Keeps(e, "logitBias", known, answers)
<1> DEFINE t == e.target
           ask == generationRequest(t, "logit-bias", 26, 2)
           x == answers[1]
           claimed == tokenSignal("claimed-token", Identities(2, 0, -7, 0))
           other == tokenSignal("other-encoding-token", Identities(-7, 3, 0, 0))
           unfollowed == tokenSignal("bias-not-followed", [Neutral EXCEPT !.translated = 4])
           told == IF ~isSuccess(x) \/ x.word = "none" THEN {}
                   ELSE CASE x.word = "claimed" -> {claimed}
                          [] x.word = "other" -> {other}
                          [] OTHER -> {unfollowed}
<1>1. Program("logitBias", t, known, <<>>) = ask
    BY Causes DEF logitBias
<1>2. /\ ask.do = "ask" /\ ask.request = "logit-bias"
      /\ ask.tokens \in Nat /\ ask.tokens <= 92 /\ ask.bill \in Nat /\ ask.bill <= 92
  <2>1. t.protocol = "openai-chat"
      BY ForWhom DEF Meets
  <2> QED BY <2>1, GenerationIsAsked
<1>3. answers # <<>> => Program("logitBias", t, known, answers) = Say(told)
  <2>1. Program("logitBias", t, known, answers) = logitBias(t, answers)
      BY Causes
  <2> QED BY <2>1 DEF logitBias
<1>4. ASSUME x \in Answers(e, ask) PROVE SaysTruly(e, told)
  <2>1. x \in BiasAnswers(e)
      BY <1>2, <1>4, GenerationAnswers
  <2>2. e.kind \in Kinds /\ (e.kind \in {"vendor", "layer"} => e.encoding = e.target.encoding)
      BY EndpointFacts DEF Meets
  <2>3. /\ e.kind = "vendor" => x.word = "claimed"
        /\ e.kind = "layer" => x.word # "other"
        /\ e.kind = "cheaper" => x.word \in {"claimed", "other"}
      BY <2>1, <2>2 DEF BiasAnswers
  <2>4. TellsTruly(e, claimed)
      BY IdentitiesSaid DEF tokenSignal, Calibrations
  <2>5. e.kind \notin {"vendor", "layer"} => TellsTruly(e, other)
      BY IdentitiesSaid DEF tokenSignal, Calibrations
  <2>6. [Neutral EXCEPT !.translated = 4] = Weight(0, 0, 0, 0, 0, 0, 0, 4)
      BY DEF Weight, Neutral, Findings
  <2>7. e.kind # "vendor" =>
          TellsTruly(e, Signal("bias-not-followed", "derived", Weight(0, 0, 0, 0, 0, 0, 0, 4)))
    <3>1. "derived" \in Calibrations
        BY DEF Calibrations
    <3> QED BY <3>1, WeightTells
  <2>8. e.kind # "vendor" => TellsTruly(e, unfollowed)
      BY <2>6, <2>7 DEF tokenSignal
  <2> HIDE DEF claimed, other, unfollowed
  <2>9. (\A s \in told : TellsTruly(e, s)) /\ (\A s, s_ \in told : s = s_)
      BY <2>3, <2>4, <2>5, <2>8
  <2> QED BY <2>9, OneSaid
<1> HIDE DEF ask, told
<1>5. "logitBias" \in Singles /\ Cost("logitBias").tokens = 92
    BY SingleCosts DEF Singles
<1>6. ask.tokens <= Cost("logitBias").tokens /\ ask.bill <= Cost("logitBias").tokens
    BY <1>2, <1>5
<1> QED BY <1>1, <1>2, <1>3, <1>4, <1>5, <1>6, SingleKeeps

\* logprobs-retokenize: the tokens told are those of the claimed encoding.
LEMMA logprobsRetokenizeKeeps ==
  ASSUME NEW e, NEW known, NEW answers, Meets(e, "logprobsRetokenize", known, answers)
  PROVE  Keeps(e, "logprobsRetokenize", known, answers)
<1> DEFINE t == e.target
           ask == generationRequest(t, "logprobs-tokens", 159, 64)
           x == answers[1]
           missing == causalSignal("logprobs-missing", [Neutral EXCEPT !.translated = 3])
           malformed == causalSignal("logprobs-malformed",
                          [Identities(-3, 0, 0, 0) EXCEPT !.translated = 5])
           elsewhere == tokenSignal("foreign-tokens", Identities(-7, 3, 0, 0))
           nowhere == tokenSignal("foreign-tokens", Identities(-7, 0, 3, 0))
           claimed == tokenSignal("claimed-tokens", Identities(2, 0, -3, 0))
           told == IF ~isSuccess(x) THEN {}
                   ELSE CASE x.tokens = "missing" -> {missing}
                          [] x.tokens = "malformed" -> {malformed}
                          [] OTHER ->
                               IF x.foreign >= MIN_FOREIGN
                               THEN {IF x.elsewhere THEN elsewhere ELSE nowhere}
                               ELSE IF x.foreign = 0 /\ x.telling > 0 THEN {claimed} ELSE {}
<1>1. Program("logprobsRetokenize", t, known, <<>>) = ask
    BY Causes DEF logprobsRetokenize
<1>2. /\ ask.do = "ask" /\ ask.request = "logprobs-tokens"
      /\ ask.tokens \in Nat /\ ask.tokens <= 287 /\ ask.bill \in Nat /\ ask.bill <= 287
    BY GenerationIsAsked
<1>3. answers # <<>> => Program("logprobsRetokenize", t, known, answers) = Say(told)
  <2>1. Program("logprobsRetokenize", t, known, answers) = logprobsRetokenize(t, answers)
      BY Causes
  <2> QED BY <2>1 DEF logprobsRetokenize
<1>4. ASSUME x \in Answers(e, ask) PROVE SaysTruly(e, told)
  <2>1. x \in LogprobAnswers(e)
      BY <1>2, <1>4, GenerationAnswers
  <2>2. e.kind \in Kinds /\ (e.kind \in {"vendor", "layer"} => e.encoding = e.target.encoding)
      BY EndpointFacts DEF Meets
  <2>3. /\ e.kind \in {"vendor", "layer"} => x.foreign = 0
        /\ e.kind = "vendor" => x.tokens = "words"
        /\ e.kind = "cheaper" => x.tokens = "words"
      BY <2>1, <2>2 DEF LogprobAnswers
  <2>4. TellsTruly(e, claimed)
      BY IdentitiesSaid DEF tokenSignal, Calibrations
  <2>5. e.kind \notin {"vendor", "layer"} => TellsTruly(e, elsewhere)
      BY IdentitiesSaid DEF tokenSignal, Calibrations
  <2>6. e.kind \notin {"vendor", "layer"} => TellsTruly(e, nowhere)
      BY IdentitiesSaid DEF tokenSignal, Calibrations
  <2>7. [Neutral EXCEPT !.translated = 3] = Weight(0, 0, 0, 0, 0, 0, 0, 3)
      BY DEF Weight, Neutral, Findings
  <2>8. e.kind # "vendor" =>
          TellsTruly(e, Signal("logprobs-missing", "documented", Weight(0, 0, 0, 0, 0, 0, 0, 3)))
      BY WeightTells DEF Calibrations
  <2>9. e.kind # "vendor" => TellsTruly(e, missing)
      BY <2>7, <2>8 DEF causalSignal
  <2>10. [Identities(-3, 0, 0, 0) EXCEPT !.translated = 5] = Weight(-3, 0, 0, 0, 0, 0, 0, 5)
      BY DEF Weight, Identities, Neutral, Findings
  <2>11. e.kind # "vendor" =>
          TellsTruly(e, Signal("logprobs-malformed", "documented", Weight(-3, 0, 0, 0, 0, 0, 0, 5)))
      BY WeightTells DEF Calibrations
  <2>12. e.kind # "vendor" => TellsTruly(e, malformed)
      BY <2>10, <2>11 DEF causalSignal
  <2> HIDE DEF claimed, elsewhere, nowhere, missing, malformed
  <2>13. (\A s \in told : TellsTruly(e, s)) /\ (\A s, s_ \in told : s = s_)
      BY <2>3, <2>4, <2>5, <2>6, <2>9, <2>12 DEF MIN_FOREIGN
  <2> QED BY <2>13, OneSaid
<1> HIDE DEF ask, told
<1>5. "logprobsRetokenize" \in Singles /\ Cost("logprobsRetokenize").tokens = 287
    BY SingleCosts DEF Singles
<1>6. ask.tokens <= Cost("logprobsRetokenize").tokens /\ ask.bill <= Cost("logprobsRetokenize").tokens
    BY <1>2, <1>5
<1> QED BY <1>1, <1>2, <1>3, <1>4, <1>5, <1>6, SingleKeeps

---------------------------------------------------------------------------
(* Helpers: what is kept *)

\* A kept answer is beside those kept before.
LEMMA KeptBeside ==
  ASSUME NEW key, NEW entries, key \in DOMAIN entries, \A o \in DOMAIN entries : o = key, NEW known
  PROVE  /\ key \in DOMAIN Kept(entries, known)
         /\ Kept(entries, known)[key] = entries[key]
         /\ \A o : o # key => (o \in DOMAIN Kept(entries, known) <=> o \in DOMAIN known)
         /\ \A o \in DOMAIN known : o # key => Kept(entries, known)[o] = known[o]
         /\ Missing(key, Kept(entries, known)) = 0
         /\ \A o : o # key => Missing(o, Kept(entries, known)) = Missing(o, known)
BY DEF Kept, Missing

\* It is well kept when it is one of those to its request.
LEMMA KnownBeside ==
  ASSUME NEW e, NEW known, KnownAsKept(e, known),
         NEW key, NEW entries, key \in DOMAIN entries, \A o \in DOMAIN entries : o = key,
         key \notin DOMAIN known,
         \/ /\ key \in {"get-models", "get-chat-completions", "post-chat-completions", "post-responses"}
            /\ entries[key] \in NoKeyAnswers(e, key)
         \/ key = "not-found" /\ entries[key] \in NotFoundAnswers(e)
         \/ key = "hot" /\ entries[key] \in HotAnswers(e)
         \/ key = "malformed" /\ entries[key] \in EnvelopeAnswers(e, 400)
         \/ key = "floor" /\ entries[key].limit \in {1, 16}
         \/ /\ key = "baseline" /\ "floor" \in DOMAIN known
            /\ entries[key] \in BaselineAnswers(e, known.floor.limit)
            /\ isSuccess(entries[key]) /\ entries[key].generates
         \/ key = "deltas" /\ DeltasAsCounted(e, entries[key])
         \/ key = "seed" /\ entries[key] \in SeedAnswers(e)
         \/ /\ key = "above"
            /\ entries[key] \in CacheAnswers(e, "above",
                                  TokensOf(e, aboveBytes(cacheMinimumTokens[e.target.model])))
  PROVE  KnownAsKept(e, Kept(entries, known))
<1> DEFINE then == Kept(entries, known)
           above == CacheAnswers(e, "above", TokensOf(e, aboveBytes(cacheMinimumTokens[e.target.model])))
<1>1. /\ key \in DOMAIN then /\ then[key] = entries[key]
      /\ \A o : o # key => (o \in DOMAIN then <=> o \in DOMAIN known)
      /\ \A o \in DOMAIN known : o # key => then[o] = known[o]
    BY KeptBeside
<1> HIDE DEF then, above
<1>2. \A route \in {"get-models", "get-chat-completions", "post-chat-completions", "post-responses"} :
        route \in DOMAIN then => then[route] \in NoKeyAnswers(e, route)
    BY <1>1 DEF KnownAsKept
<1>3. /\ "not-found" \in DOMAIN then => then["not-found"] \in NotFoundAnswers(e)
      /\ "hot" \in DOMAIN then => then.hot \in HotAnswers(e)
      /\ "malformed" \in DOMAIN then => then.malformed \in EnvelopeAnswers(e, 400)
    BY <1>1 DEF KnownAsKept
<1>4. "floor" \in DOMAIN then => then.floor.limit \in {1, 16}
    BY <1>1 DEF KnownAsKept
<1>5. "baseline" \in DOMAIN then =>
        /\ "floor" \in DOMAIN then
        /\ then.baseline \in BaselineAnswers(e, then.floor.limit)
        /\ isSuccess(then.baseline) /\ then.baseline.generates
    BY <1>1 DEF KnownAsKept
<1>6. /\ "deltas" \in DOMAIN then => DeltasAsCounted(e, then.deltas)
      /\ "seed" \in DOMAIN then => then.seed \in SeedAnswers(e)
    BY <1>1 DEF KnownAsKept
<1>7. "above" \in DOMAIN then => then.above \in above
    BY <1>1 DEF KnownAsKept, above
<1>8. KnownAsKept(e, then)
    BY <1>2, <1>3, <1>4, <1>5, <1>6, <1>7 DEF KnownAsKept, above
<1> QED BY <1>8 DEF then

\* Nothing heard is as asked.
LEMMA NothingHeard ==
  ASSUME NEW e, NEW name, NEW known
  PROVE  HeardAsAsked(e, name, known, <<>>) /\ Len(<<>>) = 0
<1>1. <<>> \in Seq({}) /\ Len(<<>>) = 0
    OBVIOUS
<1> QED BY <1>1 DEF HeardAsAsked, IsSeq

\* A probe that first asks for what it and others read, and keeps the answer.
LEMMA FirstKeeps ==
  ASSUME NEW e, NEW name, NEW known, NEW answers, Meets(e, name, known, answers),
         NEW ask, Program(name, e.target, known, <<>>) = ask,
         ask.do = "ask", ask.tokens \in Nat, ask.bill \in Nat,
         NEW entries,
         \A more : IsSeq(more) /\ more # <<>> => Program(name, e.target, known, more).do = "keep",
         answers # <<>> => Program(name, e.target, known, answers) = Keep(entries, <<>>),
         answers # <<>> /\ answers[1] \in Answers(e, ask) => KnownAsKept(e, Kept(entries, known)),
         Due(name, known) \in Nat, Due(name, known) >= 1,
         Due(name, Kept(entries, known)) = Due(name, known) - 1,
         \A x : LET left == LeftToCharge(name, known, <<>>) - LeftToCharge(name, known, Append(<<>>, x))
                IN  ask.tokens <= left /\ ask.bill <= left,
         Len(answers) = 1 =>
           LeftToCharge(name, Kept(entries, known), <<>>) <= LeftToCharge(name, known, answers)
  PROVE  Keeps(e, name, known, answers)
<1>1. HeardAsAsked(e, name, known, answers)
    BY DEF Meets
<1>2. CASE answers = <<>>
  <2>1. Len(answers) = 0
      BY <1>2
  <2> QED BY <1>2, <2>1 DEF Keeps
<1>3. CASE answers # <<>>
  <2> DEFINE one == <<answers[1]>>
  <2>1. IsSeq(one) /\ one # <<>>
    <3>1. one \in Seq({answers[1]})
        OBVIOUS
    <3> QED BY <3>1 DEF IsSeq
  <2>2. Len(answers) \in Nat /\ Len(answers) >= 1
      BY <1>1, <1>3, HeardOneByOne
  <2>3. Program(name, e.target, known, one).do = "keep"
      BY <2>1
  <2>4. answers[1] \in Answers(e, ask)
      BY <1>1, <2>2, HeardOneByOne
  <2>5. Len(answers) < 2
      BY <1>1, <2>2, <2>3, HeardOneByOne
  <2>6. Len(answers) = 1
    <3>1. \A l \in Nat : l >= 1 /\ l < 2 => l = 1
        OBVIOUS
    <3> QED BY <2>2, <2>5, <3>1
  <2> DEFINE then == Kept(entries, known)
             next == Program(name, e.target, known, answers)
  <2>7. next.do = "keep" /\ next.entries = entries /\ next.heard = <<>>
      BY <1>3 DEF Keep
  <2>8. KnownAsKept(e, then)
      BY <1>3, <2>4
  <2>9. HeardAsAsked(e, name, then, <<>>) /\ Len(<<>>) = 0
      BY NothingHeard
  <2>10. Due(name, then) - 0 <= Due(name, known) - 1 /\ 0 <= Due(name, then)
      OBVIOUS
  <2>11. LeftToCharge(name, then, <<>>) <= LeftToCharge(name, known, answers)
      BY <2>6
  <2> HIDE DEF then, next, one
  <2>12. /\ KnownAsKept(e, then) /\ HeardAsAsked(e, name, then, next.heard)
         /\ Len(next.heard) <= Due(name, then)
         /\ Due(name, then) - Len(next.heard) <= Due(name, known) - Len(answers)
         /\ LeftToCharge(name, then, next.heard) <= LeftToCharge(name, known, answers)
      BY <2>6, <2>7, <2>8, <2>9, <2>10, <2>11
  <2> QED BY <2>7, <2>12 DEF Keeps, then, next
<1> QED BY <1>2, <1>3

\* A probe that has all it needs says something.
LEMMA SayingKeeps ==
  ASSUME NEW e, NEW name, NEW known, NEW answers, NEW said_,
         Program(name, e.target, known, answers) = Say(said_), SaysTruly(e, said_)
  PROVE  Keeps(e, name, known, answers)
BY DEF Keeps, Say

\* What a request shared with other probes does.
One(key, x) == [k \in {key} |-> x]

\* One kept answer is under its key, and nothing else is.
LEMMA OneOfOne ==
  ASSUME NEW key, NEW x
  PROVE  /\ key \in DOMAIN One(key, x) /\ One(key, x)[key] = x
         /\ \A o \in DOMAIN One(key, x) : o = key
BY DEF One

\* `shared` as the first thing a probe waits for: the request, then its answer kept.
LEMMA Shared ==
  ASSUME NEW key, NEW ask, NEW more, IsSeq(more)
  PROVE  /\ more = <<>> => Share(key, ask, more, 1) = ask
         /\ more # <<>> => Share(key, ask, more, 1) = Keep(One(key, more[1]), <<>>)
<1>1. PICK S : more \in Seq(S)
    BY DEF IsSeq
<1>2. Len(more) \in Nat /\ (Len(more) = 0 <=> more = <<>>)
    BY <1>1, EmptySeq
<1>3. SubSeq(more, 1, 1 - 1) = <<>>
    BY <1>1
<1>4. ASSUME more = <<>> PROVE Share(key, ask, more, 1) = ask
    BY <1>2, <1>4 DEF Share
<1>5. ASSUME more # <<>> PROVE Share(key, ask, more, 1) = Keep(One(key, more[1]), <<>>)
  <2>1. ~(Len(more) < 1)
      BY <1>2, <1>5
  <2> QED BY <1>3, <2>1 DEF Share, One
<1> QED BY <1>4, <1>5

\* After the first answer a shared second request is asked.
LEMMA SharedFirst ==
  ASSUME NEW key, NEW ask, NEW more, Len(more) = 1
  PROVE  Share(key, ask, more, 2) = ask
BY DEF Share

\* `shared` as the second: the request after one answer, then the second one kept.
LEMMA SharedSecond ==
  ASSUME NEW key, NEW ask, NEW more, IsSeq(more)
  PROVE  /\ Len(more) = 1 => Share(key, ask, more, 2) = ask
         /\ Len(more) = 2 => Share(key, ask, more, 2) = Keep(One(key, more[2]), <<more[1]>>)
<1>1. PICK S : more \in Seq(S)
    BY DEF IsSeq
<1>2. ASSUME Len(more) = 1 PROVE Share(key, ask, more, 2) = ask
    BY <1>2 DEF Share
<1>3. ASSUME Len(more) = 2 PROVE Share(key, ask, more, 2) = Keep(One(key, more[2]), <<more[1]>>)
  <2> DEFINE a == SubSeq(more, 1, 2 - 1)
             b == <<more[1]>>
  <2>1. more[1] \in S
      BY <1>1, <1>3
  <2>2. a \in Seq(S) /\ Len(a) = 1 /\ a[1] = more[1]
      BY <1>1, <1>3, <2>1, SubSeqProperties
  <2>3. b \in Seq(S) /\ Len(b) = 1 /\ b[1] = more[1]
      BY <2>1
  <2> HIDE DEF a, b
  <2>4. \A i \in 1 .. Len(a) : a[i] = b[i]
      BY <2>2, <2>3
  <2>5. a = b
      BY <2>2, <2>3, <2>4, SeqEqual
  <2>6. Share(key, ask, more, 2) = Keep(One(key, more[2]), a)
      BY <1>3 DEF Share, One, a
  <2> QED BY <2>5, <2>6 DEF b
<1> QED BY <1>2, <1>3

\* The probes charged all or nothing, with what they declare.
Simple ==
  Singles \union
  {"routeSerializers", "proxyWasmHeader", "empty404", "cors", "authOnlyHeaders",
   "temperatureAboveMax", "errorEnvelope", "errorVocabulary", "modelRetrieve",
   "permissiveValidator", "thinkingDisplay"}

\* What they may still be charged: all or nothing.
LEMMA SimpleLeft ==
  ASSUME NEW name \in Simple, NEW known, NEW answers
  PROVE  LeftToCharge(name, known, answers) =
           IF Due(name, known) - Len(answers) = 0 THEN 0 ELSE Cost(name).tokens
BY DEF LeftToCharge, Simple, Singles, AccountingNames, TokenizerNames

\* What the ones that share declare, in numbers.
LEMMA SimpleCosts ==
  /\ Cost("routeSerializers").requests = 4 /\ Cost("routeSerializers").tokens = 0
  /\ \A name \in {"proxyWasmHeader", "empty404", "cors", "errorVocabulary", "modelRetrieve"} :
       Cost(name).requests = 2 /\ Cost(name).tokens = 0
  /\ \A name \in {"authOnlyHeaders", "errorEnvelope"} : Cost(name).requests = 1 /\ Cost(name).tokens = 0
  /\ \A name \in {"temperatureAboveMax", "permissiveValidator"} :
       Cost(name).requests = 1 /\ Cost(name).tokens = 94
  /\ Cost("thinkingDisplay").requests = 1 /\ Cost("thinkingDisplay").tokens = 1585
<1>2. TINY_REQUEST_TOKENS = 94
    BY DEF TINY_REQUEST_TOKENS, estimateTokens, TINY_PROMPT, RESPONSES_MIN_OUTPUT_TOKENS
<1>3. /\ Cost("routeSerializers") = [requests |-> 4, tokens |-> 0]
      /\ \A name \in {"proxyWasmHeader", "empty404", "cors", "errorVocabulary", "modelRetrieve"} :
           Cost(name) = [requests |-> 2, tokens |-> 0]
    BY CostsOf, CostNames DEF ConformanceCost
<1>4. /\ \A name \in {"authOnlyHeaders", "errorEnvelope"} : Cost(name) = [requests |-> 1, tokens |-> 0]
      /\ \A name \in {"temperatureAboveMax", "permissiveValidator"} :
           Cost(name) = [requests |-> 1, tokens |-> TINY_REQUEST_TOKENS]
    BY CostsOf, CostNames DEF ConformanceCost
<1>5. Cost("thinkingDisplay") = [requests |-> 1, tokens |-> SEED_TOKENS]
    BY CostsOf, CostNames DEF CausalCost
<1> QED BY <1>2, <1>3, <1>4, <1>5, Numbers

\* A probe that first waits for a shared answer.
AsksFirst(e, name, known, key, ask) ==
  \A more : IsSeq(more) => Program(name, e.target, known, more) = Share(key, ask, more, 1)

\* It asks within its cost, and what it keeps leaves it one request less to wait for.
LEMMA SharedKeeps ==
  ASSUME NEW e, NEW name \in Simple, NEW known, NEW answers, Meets(e, name, known, answers),
         NEW key, key \notin DOMAIN known, NEW ask,
         ask.do = "ask", ask.tokens \in Nat, ask.bill \in Nat, Cost(name).tokens \in Nat,
         ask.tokens <= Cost(name).tokens, ask.bill <= Cost(name).tokens,
         AsksFirst(e, name, known, key, ask),
         answers # <<>> /\ answers[1] \in Answers(e, ask) =>
           KnownAsKept(e, Kept(One(key, answers[1]), known)),
         Due(name, known) \in Nat, Due(name, known) >= 1,
         Due(name, Kept(One(key, answers[1]), known)) = Due(name, known) - 1,
         Due(name, known) = 1 \/ Cost(name).tokens = 0
  PROVE  Keeps(e, name, known, answers)
<1> DEFINE entries == One(key, answers[1])
           then == Kept(entries, known)
<1>1. IsSeq(answers) /\ IsSeq(<<>>)
    BY NothingHeard DEF Meets, HeardAsAsked
<1>2. Program(name, e.target, known, <<>>) = ask
    BY <1>1, Shared DEF AsksFirst
<1>3. \A more : IsSeq(more) /\ more # <<>> => Program(name, e.target, known, more).do = "keep"
    BY Shared DEF Keep, AsksFirst
<1>4. answers # <<>> => Program(name, e.target, known, answers) = Keep(entries, <<>>)
    BY <1>1, Shared DEF AsksFirst
<1>5. \A x : LeftToCharge(name, known, Append(<<>>, x)) =
               IF Due(name, known) - 1 = 0 THEN 0 ELSE Cost(name).tokens
  <2> TAKE x
  <2>1. Len(Append(<<>>, x)) = 1
      BY <1>1, OneMore, NothingHeard
  <2> QED BY <2>1, SimpleLeft
<1>6. LeftToCharge(name, known, <<>>) = Cost(name).tokens
  <2>1. Len(<<>>) = 0
      OBVIOUS
  <2> QED BY <2>1, SimpleLeft
<1>7. \A x : LET left == LeftToCharge(name, known, <<>>) - LeftToCharge(name, known, Append(<<>>, x))
             IN  ask.tokens <= left /\ ask.bill <= left
  <2> TAKE x
  <2>1. LeftToCharge(name, known, Append(<<>>, x)) = 0
      BY <1>5
  <2> QED BY <1>6, <2>1
<1>8. Len(answers) = 1 => LeftToCharge(name, then, <<>>) <= LeftToCharge(name, known, answers)
  <2>1. Len(<<>>) = 0
      OBVIOUS
  <2>2. Due(name, then) = Due(name, known) - 1
      OBVIOUS
  <2> HIDE DEF then
  <2>3. LeftToCharge(name, then, <<>>) =
          IF Due(name, then) - 0 = 0 THEN 0 ELSE Cost(name).tokens
      BY <2>1, SimpleLeft
  <2>4. Len(answers) = 1 =>
          LeftToCharge(name, known, answers) =
            IF Due(name, known) - 1 = 0 THEN 0 ELSE Cost(name).tokens
      BY SimpleLeft
  <2> QED BY <2>2, <2>3, <2>4
<1> HIDE DEF entries
<1>9. /\ answers # <<>> /\ answers[1] \in Answers(e, ask) => KnownAsKept(e, then)
      /\ Due(name, then) = Due(name, known) - 1
    BY DEF entries
<1> QED BY <1>2, <1>3, <1>4, <1>7, <1>8, <1>9, FirstKeeps

\* What is due of the probes that share what they wait for.
LEMMA DueOf ==
  ASSUME NEW known
  PROVE  /\ Due("routeSerializers", known) =
              Missing("get-models", known) + Missing("get-chat-completions", known)
                + Missing("post-chat-completions", known) + Missing("post-responses", known)
         /\ Due("proxyWasmHeader", known) = Missing("get-models", known) + Missing("not-found", known)
         /\ Due("empty404", known) = Missing("not-found", known) + 1
         /\ Due("cors", known) = Missing("get-models", known) + 1
         /\ Due("authOnlyHeaders", known) = Missing("get-models", known)
         /\ Due("temperatureAboveMax", known) = Missing("hot", known)
         /\ Due("permissiveValidator", known) = Missing("hot", known)
         /\ Due("errorEnvelope", known) = Missing("malformed", known)
         /\ Due("errorVocabulary", known) = Missing("malformed", known) + 1
         /\ Due("modelRetrieve", known) = 2
         /\ Due("thinkingDisplay", known) = Missing("seed", known)
         /\ Due("thinkingSignature", known) = Missing("seed", known) + 2
         /\ Due("cacheThreshold", known) = Missing("above", known) + 1
         /\ Due("cacheInvalidation", known) = Missing("above", known) + 2
<1>1. \A o : Missing(o, known) \in Int
    BY DEF Missing
<1>2. Due("routeSerializers", known) = Missing("get-models", known) + Missing("get-chat-completions", known) + Missing("post-chat-completions", known) + Missing("post-responses", known)
    BY <1>1 DEF Due, Singles, AccountingNames, TokenizerNames
<1>3. Due("proxyWasmHeader", known) = Missing("get-models", known) + Missing("not-found", known)
    BY <1>1 DEF Due, Singles, AccountingNames, TokenizerNames
<1>4. Due("empty404", known) = Missing("not-found", known) + 1
    BY <1>1 DEF Due, Singles, AccountingNames, TokenizerNames
<1>5. Due("cors", known) = Missing("get-models", known) + 1
    BY <1>1 DEF Due, Singles, AccountingNames, TokenizerNames
<1>6. Due("authOnlyHeaders", known) = Missing("get-models", known)
    BY <1>1 DEF Due, Singles, AccountingNames, TokenizerNames
<1>7. Due("temperatureAboveMax", known) = Missing("hot", known)
    BY <1>1 DEF Due, Singles, AccountingNames, TokenizerNames
<1>8. Due("permissiveValidator", known) = Missing("hot", known)
    BY <1>1 DEF Due, Singles, AccountingNames, TokenizerNames
<1>9. Due("errorEnvelope", known) = Missing("malformed", known)
    BY <1>1 DEF Due, Singles, AccountingNames, TokenizerNames
<1>10. Due("errorVocabulary", known) = Missing("malformed", known) + 1
    BY <1>1 DEF Due, Singles, AccountingNames, TokenizerNames
<1>11. Due("modelRetrieve", known) = 2
    BY <1>1 DEF Due, Singles, AccountingNames, TokenizerNames
<1>12. Due("thinkingDisplay", known) = Missing("seed", known)
    BY <1>1 DEF Due, Singles, AccountingNames, TokenizerNames
<1>13. Due("thinkingSignature", known) = Missing("seed", known) + 2
    BY <1>1 DEF Due, Singles, AccountingNames, TokenizerNames
<1>14. Due("cacheThreshold", known) = Missing("above", known) + 1
    BY <1>1 DEF Due, Singles, AccountingNames, TokenizerNames
<1>15. Due("cacheInvalidation", known) = Missing("above", known) + 2
    BY <1>1 DEF Due, Singles, AccountingNames, TokenizerNames
<1> QED BY <1>2, <1>3, <1>4, <1>5, <1>6, <1>7, <1>8, <1>9, <1>10, <1>11, <1>12, <1>13, <1>14, <1>15

\* What is missing, before and after an answer is kept.
LEMMA MissingBeside ==
  ASSUME NEW key, NEW x, NEW known, key \notin DOMAIN known
  PROVE  /\ Missing(key, known) = 1 /\ Missing(key, Kept(One(key, x), known)) = 0
         /\ \A o : o # key => Missing(o, Kept(One(key, x), known)) = Missing(o, known)
         /\ \A o : Missing(o, known) \in {0, 1}
         /\ \A o \in DOMAIN known : Missing(o, known) = 0
<1>1. /\ key \in DOMAIN One(key, x) /\ One(key, x)[key] = x
      /\ \A o \in DOMAIN One(key, x) : o = key
    BY OneOfOne
<1>2. /\ Missing(key, Kept(One(key, x), known)) = 0
      /\ \A o : o # key => Missing(o, Kept(One(key, x), known)) = Missing(o, known)
    BY <1>1, KeptBeside
<1> QED BY <1>2 DEF Missing

\* A free request keeps its answer under its own name.
LEMMA FreeIsKept ==
  ASSUME NEW e, NEW known, KnownAsKept(e, known),
         NEW key \in {"get-models", "get-chat-completions", "post-chat-completions", "post-responses",
                      "not-found", "malformed"},
         key \notin DOMAIN known, NEW x \in Answers(e, Ask(key, 0))
  PROVE  KnownAsKept(e, Kept(One(key, x), known))
<1> DEFINE ask == Ask(key, 0)
<1>1. ask.request = key
    BY DEF Ask
<1>2. /\ key \in DOMAIN One(key, x) /\ One(key, x)[key] = x
      /\ \A o \in DOMAIN One(key, x) : o = key
    BY OneOfOne
<1>3. x \in Answers(e, ask)
    OBVIOUS
<1> HIDE DEF ask
<1>4. /\ key \in {"get-models", "get-chat-completions", "post-chat-completions", "post-responses"} =>
           x \in NoKeyAnswers(e, key)
      /\ key = "not-found" => x \in NotFoundAnswers(e)
      /\ key = "malformed" => x \in EnvelopeAnswers(e, 400)
    BY <1>1, <1>3, ConformanceAnswers
<1> QED BY <1>2, <1>4, KnownBeside

\* The same for a free request, whose answers are those kept under its name.
LEMMA FreeShareKeeps ==
  ASSUME NEW e, NEW name \in Simple, NEW known, NEW answers, Meets(e, name, known, answers),
         NEW key \in {"get-models", "get-chat-completions", "post-chat-completions", "post-responses",
                      "not-found", "malformed"},
         key \notin DOMAIN known, Cost(name).tokens = 0,
         AsksFirst(e, name, known, key, Ask(key, 0)),
         Due(name, known) \in Nat, Due(name, known) >= 1,
         Due(name, Kept(One(key, answers[1]), known)) = Due(name, known) - 1
  PROVE  Keeps(e, name, known, answers)
<1> DEFINE ask == Ask(key, 0)
<1>1. ask.do = "ask" /\ ask.tokens = 0 /\ ask.bill = 0
    BY DEF Ask
<1>2. answers[1] \in Answers(e, ask) => KnownAsKept(e, Kept(One(key, answers[1]), known))
    BY FreeIsKept DEF Meets
<1>3. AsksFirst(e, name, known, key, ask)
    OBVIOUS
<1> HIDE DEF ask
<1> QED BY <1>1, <1>2, <1>3, SharedKeeps

\* auth-only-headers: the headers a request without a key gets are the vendor's.
LEMMA authOnlyHeadersKeeps ==
  ASSUME NEW e, NEW known, NEW answers, Meets(e, "authOnlyHeaders", known, answers)
  PROVE  Keeps(e, "authOnlyHeaders", known, answers)
<1> DEFINE t == e.target
           x == known["get-models"]
           told == IF x.status # 401 THEN {}
                   ELSE IF x.leaked
                   THEN {observedSignal("authenticated-headers-present", Path(-3, 0, 0))}
                   ELSE CASE x.requestId = "none" -> {}
                          [] x.requestId = "own" ->
                               {observedSignal("request-id-match", Path(2, 0, 0))}
                          [] OTHER -> {observedSignal("request-id-mismatch", Path(-1, 0, 0))}
<1>0. "authOnlyHeaders" \in Simple /\ Cost("authOnlyHeaders").tokens = 0
    BY SimpleCosts DEF Simple
<1>2. CASE "get-models" \notin DOMAIN known
  <2>1. AsksFirst(e, "authOnlyHeaders", known, "get-models", Ask("get-models", 0))
      BY <1>2, Conforms DEF authOnlyHeaders, noKeyExchange, AsksFirst
  <2>2. /\ Missing("get-models", known) = 1
        /\ Missing("get-models", Kept(One("get-models", answers[1]), known)) = 0
      BY <1>2, MissingBeside
  <2>3. /\ Due("authOnlyHeaders", known) = 1
        /\ Due("authOnlyHeaders", Kept(One("get-models", answers[1]), known)) = 0
      BY <2>2, DueOf
  <2> QED BY <1>0, <1>2, <2>1, <2>3, FreeShareKeeps
<1>3. CASE "get-models" \in DOMAIN known
  <2>1. Program("authOnlyHeaders", t, known, answers) = Say(told)
    <3>1. Program("authOnlyHeaders", t, known, answers) = authOnlyHeaders(known, answers)
        BY Conforms
    <3> QED BY <1>3, <3>1 DEF authOnlyHeaders
  <2>2. x \in NoKeyAnswers(e, "get-models")
      BY <1>3 DEF Meets, KnownAsKept
  <2>3. e.kind = "vendor" => ~x.leaked /\ x.requestId = "own"
      BY <2>2 DEF NoKeyAnswers, Usually
  <2>4. TellsTruly(e, observedSignal("request-id-match", Path(2, 0, 0)))
      BY PathSaid
  <2>5. e.kind # "vendor" =>
          TellsTruly(e, observedSignal("authenticated-headers-present", Path(-3, 0, 0)))
      BY PathSaid
  <2>6. e.kind # "vendor" => TellsTruly(e, observedSignal("request-id-mismatch", Path(-1, 0, 0)))
      BY PathSaid
  <2>7. (\A s \in told : TellsTruly(e, s)) /\ (\A s, s_ \in told : s = s_)
      BY <2>3, <2>4, <2>5, <2>6
  <2> HIDE DEF told
  <2>8. SaysTruly(e, told)
      BY <2>7, OneSaid
  <2> QED BY <2>1, <2>8, SayingKeeps
<1> QED BY <1>2, <1>3

\* What a probe first heard, and a request that costs nothing.
LEMMA FirstHeard ==
  ASSUME NEW e, NEW name, NEW known, NEW answers, HeardAsAsked(e, name, known, answers),
         answers # <<>>
  PROVE  answers[1] \in Answers(e, Program(name, e.target, known, <<>>))
<1>1. Len(answers) >= 1
    BY HeardOneByOne
<1> QED BY <1>1, HeardOneByOne

\* A free request that is still due is within the cost.
LEMMA FreeAskKeeps ==
  ASSUME NEW e, NEW name \in Simple, NEW known, NEW answers, NEW ask,
         Program(name, e.target, known, answers) = ask, Cost(name).tokens = 0,
         ask.do = "ask", ask.tokens = 0, ask.bill = 0, Len(answers) < Due(name, known)
  PROVE  Keeps(e, name, known, answers)
<1>1. LeftToCharge(name, known, answers) = 0
    BY SimpleLeft
<1>2. ASSUME NEW x PROVE LeftToCharge(name, known, Append(answers, x)) = 0
    BY SimpleLeft
<1>3. \A x : LET left == LeftToCharge(name, known, answers) - LeftToCharge(name, known, Append(answers, x))
             IN  ask.tokens <= left /\ ask.bill <= left
  <2> TAKE x
  <2>1. LeftToCharge(name, known, Append(answers, x)) = 0
      BY <1>2
  <2> QED BY <1>1, <2>1
<1> QED BY <1>3 DEF Keeps

\* The request with a temperature out of range, for the two probes that read its answer.
LEMMA HotKeeps ==
  ASSUME NEW e, NEW name \in {"temperatureAboveMax", "permissiveValidator"}, NEW known, NEW answers,
         Meets(e, name, known, answers), "hot" \notin DOMAIN known,
         AsksFirst(e, name, known, "hot", tinyRequest(e.target, "hot"))
  PROVE  Keeps(e, name, known, answers)
<1> DEFINE ask == tinyRequest(e.target, "hot")
           x == answers[1]
<1>1. /\ ask.do = "ask" /\ ask.request = "hot"
      /\ ask.tokens \in Nat /\ ask.tokens <= 94 /\ ask.bill \in Nat /\ ask.bill <= 94
    BY TinyIsAsked
<1>2. name \in Simple /\ Cost(name).tokens = 94
    BY SimpleCosts DEF Simple
<1>3. Due(name, known) = 1 /\ Due(name, Kept(One("hot", x), known)) = 0
    BY MissingBeside, DueOf
<1>4. AsksFirst(e, name, known, "hot", ask)
    OBVIOUS
<1> HIDE DEF ask
<1>5. ASSUME x \in Answers(e, ask) PROVE KnownAsKept(e, Kept(One("hot", x), known))
  <2>1. x \in HotAnswers(e)
      BY <1>1, <1>5, ConformanceAnswers
  <2>2. /\ "hot" \in DOMAIN One("hot", x) /\ One("hot", x)["hot"] = x
        /\ \A o \in DOMAIN One("hot", x) : o = "hot"
      BY OneOfOne
  <2> QED BY <2>1, <2>2, KnownBeside DEF Meets
<1>6. ask.tokens <= Cost(name).tokens /\ ask.bill <= Cost(name).tokens /\ Cost(name).tokens \in Nat
    BY <1>1, <1>2
<1> QED BY <1>1, <1>2, <1>3, <1>4, <1>5, <1>6, SharedKeeps

\* temperature-above-max: the vendor refuses it in words of its own.
LEMMA temperatureAboveMaxKeeps ==
  ASSUME NEW e, NEW known, NEW answers, Meets(e, "temperatureAboveMax", known, answers)
  PROVE  Keeps(e, "temperatureAboveMax", known, answers)
<1> DEFINE t == e.target
           x == known.hot
           wording == wordingOf(t, x)
           told == IF ~isClientError(x) THEN {}
                   ELSE {observedSignal(wording,
                           CASE wording = "above-max"   -> Path(3, 2, 0)
                             [] wording = "own-route"   -> Path(2, 1, 0)
                             [] wording = "other-route" -> Path(-2, 0, 2)
                             [] wording = "other"       -> Path(-1, 0, 0))}
<1>1. CASE "hot" \notin DOMAIN known
  <2>1. AsksFirst(e, "temperatureAboveMax", known, "hot", tinyRequest(t, "hot"))
      BY <1>1, Conforms DEF temperatureAboveMax, outOfRangeTemperature, AsksFirst
  <2> QED BY <1>1, <2>1, HotKeeps
<1>2. CASE "hot" \in DOMAIN known
  <2>1. Program("temperatureAboveMax", t, known, answers) = Say(told)
    <3>1. Program("temperatureAboveMax", t, known, answers) = temperatureAboveMax(t, known, answers)
        BY Conforms
    <3> QED BY <1>2, <3>1 DEF temperatureAboveMax
  <2>2. x \in HotAnswers(e)
      BY <1>2 DEF Meets, KnownAsKept
  <2>3. t.vendor = "openai"
      BY ForWhom DEF Meets
  <2>4. e.kind = "vendor" => wording = "above-max"
      BY <2>2, <2>3 DEF HotAnswers, Usually, wordingOf
  <2>5. wording \in {"above-max", "own-route", "other-route", "other"}
      BY <2>2 DEF wordingOf, HotAnswers, Usually
  <2> HIDE DEF wording
  <2>6. TellsTruly(e, observedSignal(wording, Path(3, 2, 0)))
      BY PathSaid
  <2>7. TellsTruly(e, observedSignal(wording, Path(2, 1, 0)))
      BY PathSaid
  <2>8. e.kind # "vendor" => TellsTruly(e, observedSignal(wording, Path(-2, 0, 2)))
      BY PathSaid
  <2>9. e.kind # "vendor" => TellsTruly(e, observedSignal(wording, Path(-1, 0, 0)))
      BY PathSaid
  <2>10. (\A s \in told : TellsTruly(e, s)) /\ (\A s, s_ \in told : s = s_)
      BY <2>4, <2>5, <2>6, <2>7, <2>8, <2>9
  <2> HIDE DEF told
  <2>11. SaysTruly(e, told)
      BY <2>10, OneSaid
  <2> QED BY <2>1, <2>11, SayingKeeps
<1> QED BY <1>1, <1>2

\* permissive-validator: the same answer, read for whether anything was refused at all.
LEMMA permissiveValidatorKeeps ==
  ASSUME NEW e, NEW known, NEW answers, Meets(e, "permissiveValidator", known, answers)
  PROVE  Keeps(e, "permissiveValidator", known, answers)
<1> DEFINE t == e.target
           x == known.hot
           told == IF isSuccess(x) THEN {conformanceSignal("accepted", Path(-4, -6, 6))}
                   ELSE IF ~isClientError(x) THEN {}
                   ELSE {conformanceSignal("rejected", Path(0, 1, 0))}
<1>1. CASE "hot" \notin DOMAIN known
  <2>1. AsksFirst(e, "permissiveValidator", known, "hot", tinyRequest(t, "hot"))
      BY <1>1, Conforms DEF permissiveValidator, outOfRangeTemperature, AsksFirst
  <2> QED BY <1>1, <2>1, HotKeeps
<1>2. CASE "hot" \in DOMAIN known
  <2>1. Program("permissiveValidator", t, known, answers) = Say(told)
    <3>1. Program("permissiveValidator", t, known, answers) = permissiveValidator(t, known, answers)
        BY Conforms
    <3> QED BY <1>2, <3>1 DEF permissiveValidator
  <2>2. x \in HotAnswers(e)
      BY <1>2 DEF Meets, KnownAsKept
  <2>3. e.kind = "vendor" => ~isSuccess(x)
      BY <2>2 DEF HotAnswers, Usually, isSuccess
  <2>4. TellsTruly(e, conformanceSignal("rejected", Path(0, 1, 0)))
      BY PathSaid
  <2>5. e.kind # "vendor" => TellsTruly(e, conformanceSignal("accepted", Path(-4, -6, 6)))
      BY PathSaid
  <2>6. (\A s \in told : TellsTruly(e, s)) /\ (\A s, s_ \in told : s = s_)
      BY <2>3, <2>4, <2>5
  <2> HIDE DEF told
  <2>7. SaysTruly(e, told)
      BY <2>6, OneSaid
  <2> QED BY <2>1, <2>7, SayingKeeps
<1> QED BY <1>1, <1>2

\* What the envelope of Anthropic's errors says.
LEMMA EnvelopeSaid ==
  ASSUME NEW e, e.kind \in Kinds, e.target.vendor = "anthropic", NEW x \in EnvelopeAnswers(e, 400)
  PROVE  /\ TellsTruly(e, conformanceSignal("envelope", readEnvelope(x)))
         /\ TellsTruly(e, requestIdSignal(x))
<1>1. e.kind = "vendor" =>
        /\ x.status = 400 /\ x.dialect = "anthropic" /\ x.as
        /\ x.bodyId = "first" /\ x.headerId = "first"
    BY DEF EnvelopeAnswers, Usually
<1>2. TellsTruly(e, conformanceSignal("envelope", readEnvelope(x)))
  <2>1. e.kind # "vendor" => TellsTruly(e, conformanceSignal("envelope", Path(-4, -3, 3)))
      BY PathSaid
  <2>2. e.kind # "vendor" => TellsTruly(e, conformanceSignal("envelope", Path(-3, -6, 8)))
      BY PathSaid
  <2>3. e.kind # "vendor" => TellsTruly(e, conformanceSignal("envelope", Path(-3, 0, 0)))
      BY PathSaid
  <2>4. TellsTruly(e, conformanceSignal("envelope", Path(2, 3, 0)))
      BY PathSaid
  <2> QED BY <1>1, <2>1, <2>2, <2>3, <2>4 DEF readEnvelope, isSuccess
<1>3. TellsTruly(e, requestIdSignal(x))
  <2>1. e.kind # "vendor" => TellsTruly(e, conformanceSignal("request-id-header", Path(-4, 0, 0)))
      BY PathSaid
  <2>2. e.kind # "vendor" => TellsTruly(e, conformanceSignal("request-id-header", Path(-3, 0, 0)))
      BY PathSaid
  <2>3. TellsTruly(e, conformanceSignal("request-id-header", Path(3, 0, 0)))
      BY PathSaid
  <2>4. TellsTruly(e, conformanceSignal("request-id-header", Neutral))
      BY NeutralSaid
  <2> QED BY <1>1, <2>1, <2>2, <2>3, <2>4 DEF requestIdSignal
<1> QED BY <1>2, <1>3

\* error-envelope: the envelope and the request id of a malformed request.
LEMMA errorEnvelopeKeeps ==
  ASSUME NEW e, NEW known, NEW answers, Meets(e, "errorEnvelope", known, answers)
  PROVE  Keeps(e, "errorEnvelope", known, answers)
<1> DEFINE t == e.target
           x == known.malformed
           envelope == conformanceSignal("envelope", readEnvelope(x))
           requestId == requestIdSignal(x)
           told == {envelope, requestId}
<1>0. "errorEnvelope" \in Simple /\ Cost("errorEnvelope").tokens = 0
    BY SimpleCosts DEF Simple
<1>1. CASE "malformed" \notin DOMAIN known
  <2>1. AsksFirst(e, "errorEnvelope", known, "malformed", Ask("malformed", 0))
      BY <1>1, Conforms DEF errorEnvelope, malformedBody, AsksFirst
  <2>2. /\ Due("errorEnvelope", known) = 1
        /\ Due("errorEnvelope", Kept(One("malformed", answers[1]), known)) = 0
      BY <1>1, MissingBeside, DueOf
  <2> QED BY <1>0, <1>1, <2>1, <2>2, FreeShareKeeps
<1>2. CASE "malformed" \in DOMAIN known
  <2>1. Program("errorEnvelope", t, known, answers) = Say(told)
    <3>1. Program("errorEnvelope", t, known, answers) = errorEnvelope(known, answers)
        BY Conforms
    <3> QED BY <1>2, <3>1 DEF errorEnvelope
  <2>2. x \in EnvelopeAnswers(e, 400)
      BY <1>2 DEF Meets, KnownAsKept
  <2>3. t.vendor = "anthropic" /\ e.kind \in Kinds
      BY ForWhom, EndpointFacts DEF Meets
  <2>4. TellsTruly(e, envelope) /\ TellsTruly(e, requestId)
      BY <2>2, <2>3, EnvelopeSaid
  <2>5. envelope.id # requestId.id
      BY DEF requestIdSignal, conformanceSignal, Signal
  <2> HIDE DEF envelope, requestId
  <2>6. (\A s \in told : TellsTruly(e, s)) /\ (\A s, s_ \in told : s.id = s_.id => s = s_)
      BY <2>4, <2>5
  <2>7. SaysTruly(e, told)
      BY <2>6 DEF SaysTruly
  <2> HIDE DEF told
  <2> QED BY <2>1, <2>7, SayingKeeps
<1> QED BY <1>1, <1>2

\* What an error of a known status, or of none, says of its type.
CellTells(e, id, x) ==
  /\ \A s \in cellSignals(id, x) : TellsTruly(e, s)
  /\ \A s, s_ \in cellSignals(id, x) : s = s_
  /\ \A s \in cellSignals(id, x) : s.id = id
  /\ e.kind = "vendor" => ~isSuccess(x)

\* The vendor's errors have the type its table gives for their status.
LEMMA CellSaid ==
  ASSUME NEW e, NEW id, e.kind \in Kinds, e.target.vendor = "anthropic",
         NEW status \in {400, 404}, NEW x \in EnvelopeAnswers(e, status)
  PROVE  CellTells(e, id, x)
<1>1. e.kind = "vendor" => x.status = status /\ x.type = ErrorType(status)
    BY DEF EnvelopeAnswers, Usually
<1>2. e.kind = "vendor" => fits(x) /\ x.type \in ErrorTypes /\ ~isSuccess(x)
    BY <1>1 DEF fits, ErrorType, ErrorTypes, isSuccess
<1>3. e.kind # "vendor" => TellsTruly(e, observedSignal(id, Path(0, 0, 1)))
    BY PathSaid
<1>4. e.kind # "vendor" => TellsTruly(e, conformanceSignal(id, Path(-3, 0, 3)))
    BY PathSaid
<1>5. TellsTruly(e, conformanceSignal(id, Path(2, 0, 0)))
    BY PathSaid
<1>6. \A s \in cellSignals(id, x) : TellsTruly(e, s)
    BY <1>2, <1>3, <1>4, <1>5 DEF cellSignals
<1>7. \A s, s_ \in cellSignals(id, x) : s = s_
    BY DEF cellSignals
<1>8. \A s \in cellSignals(id, x) : s.id = id
    BY DEF cellSignals, observedSignal, conformanceSignal, Signal
<1> QED BY <1>2, <1>6, <1>7, <1>8 DEF CellTells

\* error-vocabulary: the types of two errors, told under two ids.
LEMMA errorVocabularyKeeps ==
  ASSUME NEW e, NEW known, NEW answers, Meets(e, "errorVocabulary", known, answers)
  PROVE  Keeps(e, "errorVocabulary", known, answers)
<1> DEFINE t == e.target
           ask == Ask("absent-model-object", 0)
           x == answers[1]
           first == cellSignals("malformed-body-type", known.malformed)
           accepted == conformanceSignal("absent-model-type", Path(-3, 0, 2))
           second == IF isSuccess(x) THEN {accepted} ELSE cellSignals("absent-model-type", x)
           told == first \union second
<1>0. "errorVocabulary" \in Simple /\ Cost("errorVocabulary").tokens = 0
    BY SimpleCosts DEF Simple
<1>00. t.vendor = "anthropic" /\ e.kind \in Kinds
    BY ForWhom, EndpointFacts DEF Meets
<1>1. CASE "malformed" \notin DOMAIN known
  <2>1. AsksFirst(e, "errorVocabulary", known, "malformed", Ask("malformed", 0))
    <3>1. ASSUME NEW more
          PROVE  Program("errorVocabulary", e.target, known, more) = errorVocabulary(known, more)
        BY Conforms
    <3>2. ASSUME NEW more
          PROVE  errorVocabulary(known, more) = Share("malformed", Ask("malformed", 0), more, 1)
        BY <1>1 DEF errorVocabulary, malformedBody
    <3> QED BY <3>1, <3>2 DEF AsksFirst
  <2>2. /\ Due("errorVocabulary", known) = 2
        /\ Due("errorVocabulary", Kept(One("malformed", answers[1]), known)) = 1
      BY <1>1, MissingBeside, DueOf
  <2> QED BY <1>0, <1>1, <2>1, <2>2, FreeShareKeeps
<1>2. CASE "malformed" \in DOMAIN known /\ answers = <<>>
  <2>1. Program("errorVocabulary", t, known, answers) = ask
      BY <1>2, Conforms DEF errorVocabulary
  <2>2. ask.do = "ask" /\ ask.tokens = 0 /\ ask.bill = 0
      BY DEF Ask
  <2>3. Due("errorVocabulary", known) = 1
      BY <1>2, DueOf DEF Missing
  <2> QED BY <1>0, <1>2, <2>1, <2>2, <2>3, FreeAskKeeps
<1>3. CASE "malformed" \in DOMAIN known /\ answers # <<>>
  <2>1. Program("errorVocabulary", t, known, answers) = Say(told)
    <3>1. Program("errorVocabulary", t, known, answers) = errorVocabulary(known, answers)
        BY Conforms
    <3> QED BY <1>3, <3>1 DEF errorVocabulary
  <2>2. known.malformed \in EnvelopeAnswers(e, 400)
      BY <1>3 DEF Meets, KnownAsKept
  <2>3. x \in EnvelopeAnswers(e, 404)
    <3>1. Program("errorVocabulary", t, known, <<>>) = ask
        BY <1>3, Conforms DEF errorVocabulary
    <3>2. ask.request = "absent-model-object"
        BY DEF Ask
    <3>3. x \in Answers(e, ask)
        BY <1>3, <3>1, FirstHeard DEF Meets
    <3> QED BY <3>2, <3>3, ConformanceAnswers
  <2>4. /\ \A s \in first : TellsTruly(e, s) /\ s.id = "malformed-body-type"
        /\ \A s, s_ \in first : s = s_
    <3>1. CellTells(e, "malformed-body-type", known.malformed)
        BY <1>00, <2>2, CellSaid
    <3> QED BY <3>1 DEF CellTells
  <2>5. /\ \A s \in cellSignals("absent-model-type", x) : TellsTruly(e, s) /\ s.id = "absent-model-type"
        /\ \A s, s_ \in cellSignals("absent-model-type", x) : s = s_
        /\ e.kind = "vendor" => ~isSuccess(x)
    <3>1. CellTells(e, "absent-model-type", x)
        BY <1>00, <2>3, CellSaid
    <3> QED BY <3>1 DEF CellTells
  <2>6. e.kind # "vendor" => TellsTruly(e, accepted)
      BY PathSaid
  <2>7. accepted.id = "absent-model-type"
      BY DEF conformanceSignal, Signal
  <2> HIDE DEF accepted, first
  <2>8. /\ \A s \in second : TellsTruly(e, s) /\ s.id = "absent-model-type"
        /\ \A s, s_ \in second : s = s_
      BY <2>5, <2>6, <2>7
  <2> HIDE DEF second
  <2>9. (\A s \in told : TellsTruly(e, s)) /\ (\A s, s_ \in told : s.id = s_.id => s = s_)
      BY <2>4, <2>8
  <2> HIDE DEF told
  <2>10. SaysTruly(e, told)
      BY <2>9 DEF SaysTruly
  <2> QED BY <2>1, <2>10, SayingKeeps
<1> QED BY <1>1, <1>2, <1>3

\* At most one signal, under this id; and two such.
UnderId(e, id, S) ==
  /\ \A s \in S : TellsTruly(e, s) /\ s.id = id
  /\ \A s, s_ \in S : s = s_

\* Signals under two ids are no two of one id.
LEMMA TwoIds ==
  ASSUME NEW e, NEW i, NEW j, NEW S, NEW T, UnderId(e, i, S), UnderId(e, j, T), i # j
  PROVE  SaysTruly(e, S \union T)
BY DEF UnderId, SaysTruly

\* The least of the routes not asked yet is one of them.
LEMMA NextRoute ==
  ASSUME NEW S, S \subseteq 1 .. 4, S # {}
  PROVE  (CHOOSE i \in S : \A j \in S : i <= j) \in S
<1>1. \E i \in S : \A j \in S : i <= j
  <2>1. \A j \in S : j = 1 \/ j = 2 \/ j = 3 \/ j = 4
      OBVIOUS
  <2>2. CASE 1 \in S
      BY <2>1, <2>2
  <2>3. CASE 1 \notin S /\ 2 \in S
      BY <2>1, <2>3
  <2>4. CASE 1 \notin S /\ 2 \notin S /\ 3 \in S
      BY <2>1, <2>4
  <2>5. CASE 1 \notin S /\ 2 \notin S /\ 3 \notin S
    <3>1. \A j \in S : j = 4
        BY <2>1, <2>5
    <3>2. PICK i : i \in S
        OBVIOUS
    <3> QED BY <3>1, <3>2
  <2> QED BY <2>2, <2>3, <2>4, <2>5
<1> QED BY <1>1

\* route-serializers: up to four routes, each asked once for the run and kept.
LEMMA routeSerializersKeeps ==
  ASSUME NEW e, NEW known, NEW answers, Meets(e, "routeSerializers", known, answers)
  PROVE  Keeps(e, "routeSerializers", known, answers)
<1> DEFINE t == e.target
           unasked == {i \in 1 .. Len(NO_KEY_ROUTES) : NO_KEY_ROUTES[i] \notin DOMAIN known}
           next == CHOOSE i \in unasked : \A j \in unasked : i <= j
           key == NO_KEY_ROUTES[next]
           routes == {i \in 1 .. Len(NO_KEY_ROUTES) : known[NO_KEY_ROUTES[i]].status = 401}
           alike == {i \in routes : known[NO_KEY_ROUTES[i]].as}
           told == IF routes = {} THEN {}
                   ELSE IF alike = routes /\ \E i, j, k \in routes : i < j /\ j < k
                   THEN {observedSignal("match", Path(3, 3, 0))}
                   ELSE IF alike # {} THEN {observedSignal("partial-match", Path(1, 0, 0))}
                   ELSE {observedSignal("mismatch", Path(-1, 0, 0))}
<1>1. "routeSerializers" \in Simple /\ Cost("routeSerializers").tokens = 0
    BY SimpleCosts DEF Simple
<1>2. /\ Len(NO_KEY_ROUTES) = 4 /\ NO_KEY_ROUTES[1] = "get-models"
      /\ NO_KEY_ROUTES[2] = "get-chat-completions" /\ NO_KEY_ROUTES[3] = "post-chat-completions"
      /\ NO_KEY_ROUTES[4] = "post-responses"
    BY DEF NO_KEY_ROUTES
<1>3. CASE unasked # {}
  <2>1. next \in unasked
    <3>1. unasked \subseteq 1 .. 4
        BY <1>2
    <3> HIDE DEF unasked
    <3> QED BY <1>3, <3>1, NextRoute
  <2>2. /\ key \in {"get-models", "get-chat-completions", "post-chat-completions", "post-responses"}
        /\ key \notin DOMAIN known
    <3> HIDE DEF next
    <3> QED BY <1>2, <2>1
  <2>3. AsksFirst(e, "routeSerializers", known, key, Ask(key, 0))
    <3>1. ASSUME NEW more
          PROVE  Program("routeSerializers", t, known, more) = Share(key, Ask(key, 0), more, 1)
      <4>1. Program("routeSerializers", t, known, more) = routeSerializers(known, more)
          BY Conforms
      <4> QED BY <1>3, <4>1 DEF routeSerializers, noKeyExchange
    <3> QED BY <3>1 DEF AsksFirst
  <2> HIDE DEF key
  <2>4. /\ Due("routeSerializers", known) \in Nat /\ Due("routeSerializers", known) >= 1
        /\ Due("routeSerializers", Kept(One(key, answers[1]), known)) = Due("routeSerializers", known) - 1
    <3> DEFINE then == Kept(One(key, answers[1]), known)
    <3>1. /\ Missing(key, known) = 1 /\ Missing(key, then) = 0
          /\ \A o : o # key => Missing(o, then) = Missing(o, known)
          /\ \A o : Missing(o, known) \in {0, 1}
        BY <2>2, MissingBeside
    <3>2. Due("routeSerializers", then) =
            Missing("get-models", then) + Missing("get-chat-completions", then)
              + Missing("post-chat-completions", then) + Missing("post-responses", then)
        BY DueOf
    <3> HIDE DEF then
    <3>3. Due("routeSerializers", known) =
            Missing("get-models", known) + Missing("get-chat-completions", known)
              + Missing("post-chat-completions", known) + Missing("post-responses", known)
        BY DueOf
    <3>4. /\ Due("routeSerializers", known) \in Nat /\ Due("routeSerializers", known) >= 1
          /\ Due("routeSerializers", then) = Due("routeSerializers", known) - 1
        BY <2>2, <3>1, <3>2, <3>3
    <3> QED BY <3>4 DEF then
  <2> QED BY <1>1, <2>2, <2>3, <2>4, FreeShareKeeps
<1>4. CASE unasked = {}
  <2>1. Program("routeSerializers", t, known, answers) = Say(told)
    <3>1. Program("routeSerializers", t, known, answers) = routeSerializers(known, answers)
        BY Conforms
    <3> QED BY <1>4, <3>1 DEF routeSerializers
  <2>2. \A i \in 1 .. 4 : known[NO_KEY_ROUTES[i]] \in NoKeyAnswers(e, NO_KEY_ROUTES[i])
      BY <1>2, <1>4 DEF Meets, KnownAsKept
  <2>3. e.kind = "vendor" =>
          \A i \in 1 .. 4 : known[NO_KEY_ROUTES[i]].status = 401 /\ known[NO_KEY_ROUTES[i]].as
      BY <2>2 DEF NoKeyAnswers, Usually
  <2>4. e.kind = "vendor" =>
          routes # {} /\ alike = routes /\ \E i, j, k \in routes : i < j /\ j < k
    <3>1. ASSUME e.kind = "vendor" PROVE 1 \in routes /\ 2 \in routes /\ 3 \in routes /\ alike = routes
        BY <1>2, <2>3, <3>1
    <3> HIDE DEF routes, alike
    <3>2. 1 \in routes /\ 2 \in routes /\ 3 \in routes => \E i, j, k \in routes : i < j /\ j < k
        OBVIOUS
    <3> QED BY <3>1, <3>2
  <2>5. TellsTruly(e, observedSignal("match", Path(3, 3, 0)))
      BY PathSaid
  <2>6. TellsTruly(e, observedSignal("partial-match", Path(1, 0, 0)))
      BY PathSaid
  <2>7. e.kind # "vendor" => TellsTruly(e, observedSignal("mismatch", Path(-1, 0, 0)))
      BY PathSaid
  <2> HIDE DEF routes, alike
  <2>8. (\A s \in told : TellsTruly(e, s)) /\ (\A s, s_ \in told : s = s_)
      BY <2>4, <2>5, <2>6, <2>7
  <2> HIDE DEF told
  <2>9. SaysTruly(e, told)
      BY <2>8, OneSaid
  <2> QED BY <2>1, <2>9, SayingKeeps
<1> QED BY <1>3, <1>4

\* proxy-wasm-header: a refusal and a missing route, both shared.
LEMMA proxyWasmHeaderKeeps ==
  ASSUME NEW e, NEW known, NEW answers, Meets(e, "proxyWasmHeader", known, answers)
  PROVE  Keeps(e, "proxyWasmHeader", known, answers)
<1> DEFINE t == e.target
           x == known["get-models"]
           y == known["not-found"]
           routed == observedSignal("routed-only", Path(3, 2, 0))
           present == observedSignal("present", Path(1, 0, 0))
           told == IF y.status = 404 /\ ~y.wasm THEN {routed} ELSE {present}
<1>1. "proxyWasmHeader" \in Simple /\ Cost("proxyWasmHeader").tokens = 0
    BY SimpleCosts DEF Simple
<1>2. CASE "get-models" \notin DOMAIN known
  <2>1. AsksFirst(e, "proxyWasmHeader", known, "get-models", Ask("get-models", 0))
      BY <1>2, Conforms DEF proxyWasmHeader, noKeyExchange, AsksFirst
  <2>2. /\ Due("proxyWasmHeader", known) \in Nat /\ Due("proxyWasmHeader", known) >= 1
        /\ Due("proxyWasmHeader", Kept(One("get-models", answers[1]), known))
             = Due("proxyWasmHeader", known) - 1
    <3> DEFINE then == Kept(One("get-models", answers[1]), known)
    <3>1. /\ Missing("get-models", known) = 1 /\ Missing("get-models", then) = 0
          /\ \A o : o # "get-models" => Missing(o, then) = Missing(o, known)
          /\ \A o : Missing(o, known) \in {0, 1}
        BY <1>2, MissingBeside
    <3>2. Due("proxyWasmHeader", then) = Missing("get-models", then) + Missing("not-found", then)
        BY DueOf
    <3> HIDE DEF then
    <3>3. Due("proxyWasmHeader", known) = Missing("get-models", known) + Missing("not-found", known)
        BY DueOf
    <3>4. /\ Due("proxyWasmHeader", known) \in Nat /\ Due("proxyWasmHeader", known) >= 1
          /\ Due("proxyWasmHeader", then) = Due("proxyWasmHeader", known) - 1
        BY <3>1, <3>2, <3>3
    <3> QED BY <3>4 DEF then
  <2> QED BY <1>1, <1>2, <2>1, <2>2, FreeShareKeeps
<1>3. CASE "get-models" \in DOMAIN known /\ (x.status # 401 \/ ~x.wasm)
  <2>1. Program("proxyWasmHeader", t, known, answers) = Say({})
      BY <1>3, Conforms DEF proxyWasmHeader
  <2> QED BY <2>1, NothingSaid, SayingKeeps
<1>4. CASE "get-models" \in DOMAIN known /\ ~(x.status # 401 \/ ~x.wasm) /\ "not-found" \notin DOMAIN known
  <2>1. AsksFirst(e, "proxyWasmHeader", known, "not-found", Ask("not-found", 0))
      BY <1>4, Conforms DEF proxyWasmHeader, notFoundExchange, AsksFirst
  <2>2. /\ Due("proxyWasmHeader", known) \in Nat /\ Due("proxyWasmHeader", known) >= 1
        /\ Due("proxyWasmHeader", Kept(One("not-found", answers[1]), known))
             = Due("proxyWasmHeader", known) - 1
    <3> DEFINE then == Kept(One("not-found", answers[1]), known)
    <3>1. /\ Missing("not-found", known) = 1 /\ Missing("not-found", then) = 0
          /\ \A o : o # "not-found" => Missing(o, then) = Missing(o, known)
          /\ \A o : Missing(o, known) \in {0, 1}
        BY <1>4, MissingBeside
    <3>2. Due("proxyWasmHeader", then) = Missing("get-models", then) + Missing("not-found", then)
        BY DueOf
    <3> HIDE DEF then
    <3>3. Due("proxyWasmHeader", known) = Missing("get-models", known) + Missing("not-found", known)
        BY DueOf
    <3>4. /\ Due("proxyWasmHeader", known) \in Nat /\ Due("proxyWasmHeader", known) >= 1
          /\ Due("proxyWasmHeader", then) = Due("proxyWasmHeader", known) - 1
        BY <3>1, <3>2, <3>3
    <3> QED BY <3>4 DEF then
  <2> QED BY <1>1, <1>4, <2>1, <2>2, FreeShareKeeps
<1>5. CASE "get-models" \in DOMAIN known /\ ~(x.status # 401 \/ ~x.wasm) /\ "not-found" \in DOMAIN known
  <2>1. Program("proxyWasmHeader", t, known, answers) = Say(told)
    <3>1. Program("proxyWasmHeader", t, known, answers) = proxyWasmHeader(known, answers)
        BY Conforms
    <3> QED BY <1>5, <3>1 DEF proxyWasmHeader
  <2>2. TellsTruly(e, routed)
      BY PathSaid
  <2>3. TellsTruly(e, present)
      BY PathSaid
  <2> HIDE DEF routed, present
  <2>4. (\A s \in told : TellsTruly(e, s)) /\ (\A s, s_ \in told : s = s_)
      BY <2>2, <2>3
  <2> HIDE DEF told
  <2>5. SaysTruly(e, told)
      BY <2>4, OneSaid
  <2> QED BY <2>1, <2>5, SayingKeeps
<1> QED BY <1>2, <1>3, <1>4, <1>5

\* A free request of a probe's own, and then an answer it shares with others.
AsksBefore(e, name, key, first) ==
  /\ \A k : Program(name, e.target, k, <<>>) = first
  /\ \A k, more : key \notin DOMAIN k /\ more # <<>> =>
       Program(name, e.target, k, more) = Share(key, Ask(key, 0), more, 2)
  /\ \A k : Due(name, k) = Missing(key, k) + 1

\* It keeps the second answer and leaves the first, which is heard as asked again.
LEMMA SecondKeeps ==
  ASSUME NEW e, NEW name \in {"empty404", "cors"}, NEW known, NEW answers, Meets(e, name, known, answers),
         NEW key \in {"get-models", "not-found"}, NEW first,
         first.do = "ask", first.tokens = 0, first.bill = 0,
         AsksBefore(e, name, key, first),
         NEW said_,
         key \in DOMAIN known /\ answers # <<>> => Program(name, e.target, known, answers) = Say(said_),
         key \in DOMAIN known /\ answers # <<>> /\ answers[1] \in Answers(e, first) => SaysTruly(e, said_)
  PROVE  Keeps(e, name, known, answers)
<1> DEFINE ask == Ask(key, 0)
<1>0. name \in Simple /\ Cost(name).tokens = 0
    BY SimpleCosts DEF Simple
<1>1. HeardAsAsked(e, name, known, answers) /\ IsSeq(answers)
    BY DEF Meets, HeardAsAsked
<1>2. Len(answers) \in Nat /\ (answers = <<>> <=> Len(answers) = 0) /\ Len(answers) <= Due(name, known)
    BY <1>1, HeardOneByOne DEF Meets
<1>3. Missing(key, known) \in {0, 1} /\ (key \in DOMAIN known <=> Missing(key, known) = 0)
    BY DEF Missing
<1>4. Due(name, known) = Missing(key, known) + 1 /\ Program(name, e.target, known, <<>>) = first
    BY DEF AsksBefore
<1>5. CASE answers = <<>>
  <2>1. Program(name, e.target, known, answers) = first
      BY <1>4, <1>5
  <2>2. Len(answers) < Due(name, known)
      BY <1>2, <1>3, <1>4, <1>5
  <2> QED BY <1>0, <2>1, <2>2, FreeAskKeeps
<1>6. CASE answers # <<>> /\ key \in DOMAIN known
  <2>1. answers[1] \in Answers(e, first)
    <3> QED BY <1>1, <1>4, <1>6, FirstHeard
  <2> QED BY <1>6, <2>1, SayingKeeps
<1>7. CASE answers # <<>> /\ key \notin DOMAIN known
  <2>1. Program(name, e.target, known, answers) = Share(key, ask, answers, 2)
      BY <1>7 DEF AsksBefore
  <2> HIDE DEF ask
  <2>2. Len(answers) = 1 \/ Len(answers) = 2
    <3>1. Len(answers) \in Nat /\ Len(answers) # 0 /\ Len(answers) <= 2
        BY <1>2, <1>3, <1>4, <1>7
    <3>2. \A l \in Nat : l # 0 /\ l <= 2 => l = 1 \/ l = 2
        OBVIOUS
    <3> QED BY <3>1, <3>2
  <2>3. CASE Len(answers) = 1
    <3>1. Program(name, e.target, known, answers) = ask
      <4>1. Share(key, ask, answers, 2) = ask
          BY <2>3, SharedFirst
      <4> QED BY <2>1, <4>1
    <3>2. ask.do = "ask" /\ ask.tokens = 0 /\ ask.bill = 0
        BY DEF ask, Ask
    <3>3. Len(answers) < Due(name, known)
        BY <1>3, <1>4, <1>7, <2>3
    <3> QED BY <1>0, <3>1, <3>2, <3>3, FreeAskKeeps
  <2>4. CASE Len(answers) = 2
    <3> DEFINE x == answers[1]
               y == answers[2]
               one == <<x>>
               entries == One(key, y)
               then == Kept(entries, known)
    <3>1. Program(name, e.target, known, answers) = Keep(entries, one)
        BY <1>1, <2>1, <2>4, SharedSecond
    <3>2. IsSeq(one) /\ Len(one) = 1 /\ one # <<>>
      <4>1. one \in Seq({x})
          OBVIOUS
      <4> QED BY <4>1 DEF IsSeq
    <3>3. x \in Answers(e, first)
      <4> QED BY <1>1, <1>4, <1>7, FirstHeard
    <3>4. y \in Answers(e, ask)
      <4>1. Program(name, e.target, known, one) = Share(key, ask, one, 2)
          BY <1>7, <3>2 DEF AsksBefore, ask
      <4>2. Program(name, e.target, known, one) = ask
          BY <3>2, <4>1, SharedSecond
      <4> QED BY <1>1, <2>4, <4>2, HeardOneByOne
    <3>5. KnownAsKept(e, then)
        BY <1>7, <3>4, FreeIsKept DEF Meets, ask
    <3>6. HeardAsAsked(e, name, then, one)
      <4>1. SubSeq(one, 1, 0) = <<>>
        <5>1. one \in Seq({x})
            OBVIOUS
        <5> QED BY <5>1
      <4>2. Program(name, e.target, then, <<>>) = first
          BY DEF AsksBefore
      <4> HIDE DEF then
      <4>3. one[1] = x
          OBVIOUS
      <4> HIDE DEF one
      <4>4. ASSUME NEW n \in 1 .. Len(one)
            PROVE  LET next == Program(name, e.target, then, SubSeq(one, 1, n - 1))
                   IN  next.do = "ask" /\ one[n] \in Answers(e, next)
        <5>1. n = 1
            BY <3>2
        <5>2. SubSeq(one, 1, n - 1) = <<>>
            BY <4>1, <5>1
        <5> QED BY <3>3, <4>2, <4>3, <5>1, <5>2
      <4> QED BY <3>2, <4>4 DEF HeardAsAsked
    <3>7. Due(name, then) = 1 /\ Due(name, known) = 2
      <4>1. Missing(key, then) = 0 /\ Missing(key, known) = 1
          BY <1>7, MissingBeside
      <4>2. Due(name, then) = Missing(key, then) + 1
          BY DEF AsksBefore
      <4> HIDE DEF then
      <4> QED BY <1>4, <4>1, <4>2
    <3>8. LeftToCharge(name, then, one) = 0 /\ LeftToCharge(name, known, answers) = 0
        BY <1>0, SimpleLeft
    <3> DEFINE next == Program(name, e.target, known, answers)
    <3>9. next.do = "keep" /\ next.entries = entries /\ next.heard = one
        BY <3>1 DEF Keep
    <3> HIDE DEF one, next, then
    <3>10. /\ KnownAsKept(e, then) /\ HeardAsAsked(e, name, then, next.heard)
           /\ Len(next.heard) <= Due(name, then)
           /\ Due(name, then) - Len(next.heard) <= Due(name, known) - Len(answers)
           /\ LeftToCharge(name, then, next.heard) <= LeftToCharge(name, known, answers)
      <4>1. Len(next.heard) = 1
          BY <3>2, <3>9
      <4>2. KnownAsKept(e, then) /\ HeardAsAsked(e, name, then, next.heard)
          BY <3>5, <3>6, <3>9
      <4>3. /\ Len(next.heard) <= Due(name, then)
            /\ Due(name, then) - Len(next.heard) <= Due(name, known) - Len(answers)
          BY <2>4, <3>7, <4>1
      <4>4. LeftToCharge(name, then, next.heard) <= LeftToCharge(name, known, answers)
          BY <3>8, <3>9
      <4> QED BY <4>2, <4>3, <4>4
    <3> QED BY <3>9, <3>10 DEF Keeps, then, next
  <2> QED BY <2>2, <2>3, <2>4
<1> QED BY <1>5, <1>6, <1>7

\* empty-404: the wrong method, then the missing route it shares.
LEMMA empty404Keeps ==
  ASSUME NEW e, NEW known, NEW answers, Meets(e, "empty404", known, answers)
  PROVE  Keeps(e, "empty404", known, answers)
<1> DEFINE t == e.target
           first == Ask("wrong-method", 0)
           x == answers[1]
           y == known["not-found"]
           match == observedSignal("match", Path(2, 2, 0))
           partial == observedSignal("partial-match", Path(1, 0, 0))
           mismatch == observedSignal("mismatch", Path(-1, 0, 0))
           told == {CASE isEmpty404(x) /\ isEmpty404(y) -> match
                      [] isEmpty404(x) # isEmpty404(y) -> partial
                      [] OTHER -> mismatch}
<1>1. first.do = "ask" /\ first.request = "wrong-method" /\ first.tokens = 0 /\ first.bill = 0
    BY DEF Ask
<1>2. \A k, more : Program("empty404", t, k, more) = empty404(k, more)
    BY Conforms
<1>3. AsksBefore(e, "empty404", "not-found", first)
  <2>1. \A k : Program("empty404", t, k, <<>>) = first
      BY <1>2 DEF empty404
  <2>2. \A k, more : "not-found" \notin DOMAIN k /\ more # <<>> =>
          Program("empty404", t, k, more) = Share("not-found", Ask("not-found", 0), more, 2)
      BY <1>2 DEF empty404, notFoundExchange
  <2>3. \A k : Due("empty404", k) = Missing("not-found", k) + 1
      BY DueOf
  <2> QED BY <2>1, <2>2, <2>3 DEF AsksBefore
<1>4. "not-found" \in DOMAIN known /\ answers # <<>> => Program("empty404", t, known, answers) = Say(told)
    BY <1>2 DEF empty404
<1> HIDE DEF first
<1>5. ASSUME "not-found" \in DOMAIN known, x \in Answers(e, first) PROVE SaysTruly(e, told)
  <2>1. x \in NotFoundAnswers(e)
      BY <1>1, <1>5, ConformanceAnswers
  <2>2. y \in NotFoundAnswers(e)
      BY <1>5 DEF Meets, KnownAsKept
  <2>3. e.kind = "vendor" => isEmpty404(x) /\ isEmpty404(y)
      BY <2>1, <2>2 DEF NotFoundAnswers, Usually, isEmpty404
  <2>4. TellsTruly(e, match)
      BY PathSaid
  <2>5. TellsTruly(e, partial)
      BY PathSaid
  <2>6. e.kind # "vendor" => TellsTruly(e, mismatch)
      BY PathSaid
  <2> HIDE DEF match, partial, mismatch
  <2>7. (\A s \in told : TellsTruly(e, s)) /\ (\A s, s_ \in told : s = s_)
      BY <2>3, <2>4, <2>5, <2>6
  <2> HIDE DEF told
  <2> QED BY <2>7, OneSaid
<1> HIDE DEF told
<1> QED BY <1>1, <1>3, <1>4, <1>5, SecondKeeps

\* cors: the preflight, then the refusal it shares.
LEMMA corsKeeps ==
  ASSUME NEW e, NEW known, NEW answers, Meets(e, "cors", known, answers)
  PROVE  Keeps(e, "cors", known, answers)
<1> DEFINE t == e.target
           first == Ask("preflight", 0)
           x == answers[1]
           y == known["get-models"]
           preflight == readPreflight(x)
           exposed == readExposed(y)
           told == preflight \union exposed
<1>1. first.do = "ask" /\ first.request = "preflight" /\ first.tokens = 0 /\ first.bill = 0
    BY DEF Ask
<1>2. \A k, more : Program("cors", t, k, more) = cors(k, more)
    BY Conforms
<1>3. AsksBefore(e, "cors", "get-models", first)
  <2>1. \A k : Program("cors", t, k, <<>>) = first
      BY <1>2 DEF cors
  <2>2. \A k, more : "get-models" \notin DOMAIN k /\ more # <<>> =>
          Program("cors", t, k, more) = Share("get-models", Ask("get-models", 0), more, 2)
      BY <1>2 DEF cors, noKeyExchange
  <2>3. \A k : Due("cors", k) = Missing("get-models", k) + 1
      BY DueOf
  <2> QED BY <2>1, <2>2, <2>3 DEF AsksBefore
<1>4. "get-models" \in DOMAIN known /\ answers # <<>> => Program("cors", t, known, answers) = Say(told)
    BY <1>2 DEF cors
<1> HIDE DEF first
<1>5. ASSUME "get-models" \in DOMAIN known, x \in Answers(e, first) PROVE SaysTruly(e, told)
  <2>1. x \in PreflightAnswers(e)
      BY <1>1, <1>5, ConformanceAnswers
  <2>2. e.kind = "vendor" => x.status = 200 /\ x.methods = "own" /\ x.maxAge = "own"
      BY <2>1 DEF PreflightAnswers, Usually
  <2>3. TellsTruly(e, observedSignal("preflight-match", Path(2, 1, 0)))
      BY PathSaid
  <2>4. e.kind # "vendor" => TellsTruly(e, observedSignal("preflight-mismatch", Path(-1, 0, 0)))
      BY PathSaid
  <2>5. TellsTruly(e, observedSignal("expose-headers-duplicated", Path(2, 0, 0)))
      BY PathSaid
  <2>6. \A s \in preflight : TellsTruly(e, s) /\ s.id \in {"preflight-match", "preflight-mismatch"}
      BY <2>2, <2>3, <2>4 DEF readPreflight, observedSignal, Signal
  <2>7. \A s, s_ \in preflight : s = s_
      BY DEF readPreflight
  <2>8. \A s \in exposed : TellsTruly(e, s) /\ s.id = "expose-headers-duplicated"
      BY <2>5 DEF readExposed, observedSignal, Signal
  <2>9. \A s, s_ \in exposed : s = s_
      BY DEF readExposed
  <2> HIDE DEF preflight, exposed
  <2>10. (\A s \in told : TellsTruly(e, s)) /\ (\A s, s_ \in told : s.id = s_.id => s = s_)
      BY <2>6, <2>7, <2>8, <2>9
  <2> HIDE DEF told
  <2> QED BY <2>10 DEF SaysTruly
<1> HIDE DEF told
<1> QED BY <1>1, <1>3, <1>4, <1>5, SecondKeeps

\* What the id in a model object says.
LEMMA IdSaid ==
  ASSUME NEW e, NEW id, NEW x \in ObjectAnswers(e)
  PROVE  /\ UnderId(e, id, idSignal(id, x))
         /\ e.kind = "vendor" => isSuccess(x) /\ x.object /\ x.as
<1>1. e.kind = "vendor" => x.status = 200 /\ x.object /\ x.as /\ x.model = "expected"
    BY DEF ObjectAnswers, Usually
<1>2. TellsTruly(e, conformanceSignal(id, Path(1, 0, 0)))
    BY PathSaid
<1>3. e.kind # "vendor" => TellsTruly(e, observedSignal(id, Path(0, 0, 2)))
    BY PathSaid
<1>4. e.kind # "vendor" =>
        TellsTruly(e, conformanceSignal(id, [Neutral EXCEPT !.cloud = 4, !.firstParty = -4]))
  <2>1. [Neutral EXCEPT !.cloud = 4, !.firstParty = -4] = Weight(0, 0, 0, 0, -4, 4, 0, 0)
      BY DEF Weight, Neutral, Findings
  <2>2. "documented" \in Calibrations
      BY DEF Calibrations
  <2>3. e.kind # "vendor" => TellsTruly(e, Signal(id, "documented", Weight(0, 0, 0, 0, -4, 4, 0, 0)))
      BY <2>2, WeightTells
  <2> QED BY <2>1, <2>3 DEF conformanceSignal
<1>5. \A s \in idSignal(id, x) : TellsTruly(e, s)
    BY <1>1, <1>2, <1>3, <1>4 DEF idSignal
<1>6. \A s \in idSignal(id, x) : s.id = id
    BY DEF idSignal, observedSignal, conformanceSignal, Signal
<1>7. \A s, s_ \in idSignal(id, x) : s = s_
    BY DEF idSignal
<1> QED BY <1>1, <1>5, <1>6, <1>7 DEF UnderId, isSuccess

\* model-retrieve: the claimed model's object, and the one its alias resolves to.
LEMMA modelRetrieveKeeps ==
  ASSUME NEW e, NEW known, NEW answers, Meets(e, "modelRetrieve", known, answers)
  PROVE  Keeps(e, "modelRetrieve", known, answers)
<1> DEFINE t == e.target
           first == Ask("claimed-model-object", 0)
           second == Ask("alias-model-object", 0)
           x == answers[1]
           y == answers[2]
           found(a) == isSuccess(a) /\ a.object
           unclaimed == observedSignal("claimed-id-unresolved", Path(-2, 0, 0))
           unaliased == observedSignal("alias-id-unresolved", Path(-2, 0, 0))
           shaped == conformanceSignal("model-object", Path(2, 0, 0))
           misshapen == conformanceSignal("model-object", Path(-3, 0, 2))
           claimed == IF ~found(x) THEN {unclaimed}
                      ELSE {IF x.as THEN shaped ELSE misshapen} \union idSignal("claimed-id", x)
           aliased == IF ~found(y) THEN {unaliased} ELSE idSignal("alias-id", y)
<1>0. "modelRetrieve" \in Simple /\ Cost("modelRetrieve").tokens = 0
    BY SimpleCosts DEF Simple
<1>1. /\ first.do = "ask" /\ first.request = "claimed-model-object" /\ first.tokens = 0 /\ first.bill = 0
      /\ second.do = "ask" /\ second.request = "alias-model-object" /\ second.tokens = 0 /\ second.bill = 0
    BY DEF Ask
<1>2. \A more : Program("modelRetrieve", t, known, more) = modelRetrieve(t, more)
    BY Conforms
<1>3. /\ HeardAsAsked(e, "modelRetrieve", known, answers) /\ IsSeq(answers)
      /\ Len(answers) \in Nat /\ (answers = <<>> <=> Len(answers) = 0) /\ Len(answers) <= 2
    BY HeardOneByOne, DueOf DEF Meets, HeardAsAsked
<1>4. Program("modelRetrieve", t, known, <<>>) = first
    BY <1>2 DEF modelRetrieve
<1>5. readModel("claimed-id", x, TRUE) = claimed
    BY DEF readModel, unresolved
<1>6. readModel("alias-id", y, FALSE) = aliased
  <2>1. "alias-id" # "claimed-id"
      OBVIOUS
  <2> QED BY <2>1 DEF readModel, unresolved
<1>7. CASE answers = <<>>
  <2>1. Len(answers) < Due("modelRetrieve", known)
      BY <1>3, <1>7, DueOf
  <2> HIDE DEF first
  <2> QED BY <1>0, <1>1, <1>4, <1>7, <2>1, FreeAskKeeps
<1>8. ASSUME answers # <<>>
      PROVE  /\ \A s \in claimed : TellsTruly(e, s)
             /\ \A s, s_ \in claimed : s.id = s_.id => s = s_
             /\ \A s \in claimed : s.id \in {"claimed-id-unresolved", "model-object", "claimed-id"}
  <2>1. x \in ObjectAnswers(e)
    <3>1. x \in Answers(e, first)
        BY <1>3, <1>4, <1>8, FirstHeard
    <3> HIDE DEF first
    <3> QED BY <1>1, <3>1, ConformanceAnswers
  <2>2. e.kind = "vendor" => found(x) /\ x.as
      BY <2>1, IdSaid
  <2>3. e.kind # "vendor" => TellsTruly(e, unclaimed)
      BY PathSaid
  <2>4. TellsTruly(e, shaped)
      BY PathSaid
  <2>5. e.kind # "vendor" => TellsTruly(e, misshapen)
      BY PathSaid
  <2>6. unclaimed.id = "claimed-id-unresolved" /\ shaped.id = "model-object" /\ misshapen.id = "model-object"
      BY DEF observedSignal, conformanceSignal, Signal
  <2>7. /\ \A s \in idSignal("claimed-id", x) : TellsTruly(e, s) /\ s.id = "claimed-id"
        /\ \A s, s_ \in idSignal("claimed-id", x) : s = s_
    <3>1. UnderId(e, "claimed-id", idSignal("claimed-id", x))
        BY <2>1, IdSaid
    <3> QED BY <3>1 DEF UnderId
  <2> HIDE DEF unclaimed, shaped, misshapen
  <2> QED BY <2>2, <2>3, <2>4, <2>5, <2>6, <2>7
<1>9. CASE answers # <<>> /\ (~t.alias \/ ~found(x))
  <2>1. Program("modelRetrieve", t, known, answers) = Say(claimed)
      BY <1>2, <1>5, <1>9 DEF modelRetrieve
  <2> HIDE DEF claimed
  <2>2. SaysTruly(e, claimed)
      BY <1>8, <1>9 DEF SaysTruly
  <2> QED BY <2>1, <2>2, SayingKeeps
<1>10. CASE answers # <<>> /\ ~(~t.alias \/ ~found(x)) /\ Len(answers) = 1
  <2>1. Program("modelRetrieve", t, known, answers) = second
      BY <1>2, <1>10 DEF modelRetrieve
  <2>2. Len(answers) < Due("modelRetrieve", known)
      BY <1>10, DueOf
  <2> HIDE DEF second
  <2> QED BY <1>0, <1>1, <2>1, <2>2, FreeAskKeeps
<1>11. CASE answers # <<>> /\ ~(~t.alias \/ ~found(x)) /\ Len(answers) # 1
  <2>1. Len(answers) = 2
    <3>1. \A l \in Nat : l # 0 /\ l # 1 /\ l <= 2 => l = 2
        OBVIOUS
    <3> QED BY <1>3, <1>11, <3>1
  <2>2. Program("modelRetrieve", t, known, answers) = Say(claimed \union aliased)
      BY <1>2, <1>5, <1>6, <1>11 DEF modelRetrieve
  <2>3. y \in ObjectAnswers(e)
    <3>1. y \in Answers(e, Program("modelRetrieve", t, known, <<x>>))
        BY <1>3, <2>1, HeardOneByOne
    <3>2. Program("modelRetrieve", t, known, <<x>>) = second
      <4> DEFINE one == <<x>>
      <4>1. one # <<>> /\ one[1] = x /\ Len(one) = 1
          OBVIOUS
      <4>2. Program("modelRetrieve", t, known, one) = modelRetrieve(t, one)
          BY <1>2
      <4>3. t.alias /\ isSuccess(x) /\ x.object
          BY <1>11
      <4> HIDE DEF one, x
      <4>4. Program("modelRetrieve", t, known, one) = second
          BY <4>1, <4>2, <4>3 DEF modelRetrieve
      <4> QED BY <4>4 DEF one
    <3> HIDE DEF second
    <3> QED BY <1>1, <3>1, <3>2, ConformanceAnswers
  <2>4. e.kind # "vendor" => TellsTruly(e, unaliased)
      BY PathSaid
  <2>5. unaliased.id = "alias-id-unresolved"
      BY DEF observedSignal, Signal
  <2>6. e.kind = "vendor" => found(y)
      BY <2>3, IdSaid
  <2>7. /\ \A s \in idSignal("alias-id", y) : TellsTruly(e, s) /\ s.id = "alias-id"
        /\ \A s, s_ \in idSignal("alias-id", y) : s = s_
    <3>1. UnderId(e, "alias-id", idSignal("alias-id", y))
        BY <2>3, IdSaid
    <3> QED BY <3>1 DEF UnderId
  <2> HIDE DEF unaliased
  <2>8. /\ \A s \in aliased : TellsTruly(e, s) /\ s.id \in {"alias-id-unresolved", "alias-id"}
        /\ \A s, s_ \in aliased : s = s_
      BY <2>4, <2>5, <2>6, <2>7
  <2> HIDE DEF claimed, aliased
  <2>9. SaysTruly(e, claimed \union aliased)
      BY <1>8, <1>11, <2>8 DEF SaysTruly
  <2> QED BY <2>2, <2>9, SayingKeeps
<1> QED BY <1>7, <1>9, <1>10, <1>11

---------------------------------------------------------------------------
(* The first turn with thinking *)

\* It is asked once, for both probes.
LEMMA SeedIsShared ==
  ASSUME NEW t, NEW more, IsSeq(more)
  PROVE  thinkingSeed(t, more) = Share("seed", thinkingSeed(t, <<>>), more, 1)
<1>1. CASE more = <<>>
    BY <1>1, Shared
<1>2. CASE more # <<>>
  <2> DEFINE x == more[1]
  <2>1. thinkingSeed(t, more) = Keep([seed |-> x], <<>>)
      BY <1>2 DEF thinkingSeed
  <2>2. [seed |-> x] = One("seed", x)
      BY DEF One
  <2> QED BY <1>2, <2>1, <2>2, Shared
<1> QED BY <1>1, <1>2

\* It is charged no more than the cost says.
LEMMA SeedIsAsked ==
  ASSUME NEW t
  PROVE  LET ask == thinkingSeed(t, <<>>) IN
         /\ ask.do = "ask" /\ ask.request = "thinking-seed"
         /\ ask.tokens \in Nat /\ ask.tokens <= 1585 /\ ask.bill \in Nat /\ ask.bill <= 1585
<1>1. thinkingSeed(t, <<>>) = generationRequest(t, "thinking-seed", 201, 1280)
    BY DEF thinkingSeed, thinkingPrompt, NonceBytes, SEED_MAX_TOKENS
<1>2. LET g == generationRequest(t, "thinking-seed", 201, 1280) IN
      /\ g.do = "ask" /\ g.request = "thinking-seed" /\ g.tokens = 1545 /\ g.bill = 1545
    BY GenerationIsAsked
<1> QED BY <1>1, <1>2

\* Its answer is kept under its key as one of those to it.
LEMMA SeedIsKept ==
  ASSUME NEW e, NEW known, KnownAsKept(e, known), "seed" \notin DOMAIN known,
         NEW x \in Answers(e, thinkingSeed(e.target, <<>>))
  PROVE  KnownAsKept(e, Kept(One("seed", x), known))
<1> DEFINE ask == thinkingSeed(e.target, <<>>)
<1>1. ask.request = "thinking-seed"
    BY SeedIsAsked
<1>2. x \in Answers(e, ask)
    OBVIOUS
<1> HIDE DEF ask
<1>3. x \in SeedAnswers(e)
    BY <1>1, <1>2, GenerationAnswers
<1>4. /\ "seed" \in DOMAIN One("seed", x) /\ One("seed", x)["seed"] = x
      /\ \A o \in DOMAIN One("seed", x) : o = "seed"
    BY OneOfOne
<1> QED BY <1>3, <1>4, KnownBeside

\* What the first turn may show.
LEMMA SeedShows ==
  ASSUME NEW e \in Endpoints, e.target.vendor = "anthropic", NEW x \in SeedAnswers(e)
  PROVE  /\ e.kind \in {"vendor", "layer"} /\ displayDefault[e.target.model] = "omitted" => x.shown # "text"
         /\ e.kind \in {"vendor", "layer"} /\ x.signed /\ displayDefault[e.target.model] # "omitted" =>
              x.shown = "text"
         /\ e.kind = "vendor" => x.signed
         /\ x.input \in {210, -1} /\ x.cacheRead = -1 /\ x.cacheCreation = -1
         /\ x.output = 405 /\ x.text = 20 /\ x.reasoning \in {400, 100, -1}
<1> DEFINE own == OwnSeed(e)
           Fields(y) == /\ y.input \in {210, -1} /\ y.cacheRead = -1 /\ y.cacheCreation = -1
                        /\ y.output = 405 /\ y.text = 20 /\ y.reasoning \in {400, 100, -1}
           shown == IF displayDefault[e.model] = "omitted" THEN "empty" ELSE "text"
           Plain(y) == \/ y = own \/ y = [own EXCEPT !.reasoning = None]
                       \/ y = [own EXCEPT !.reasoning = 100]
           Bare(y) == \/ y = [own EXCEPT !.signed = FALSE]
                      \/ y = [[own EXCEPT !.reasoning = None] EXCEPT !.signed = FALSE]
                      \/ y = [[own EXCEPT !.reasoning = 100] EXCEPT !.signed = FALSE]
                      \/ y = [own EXCEPT !.signed = FALSE, !.shown = "none"]
                      \/ y = [own EXCEPT !.signed = FALSE, !.shown = "empty"]
           Else(y) == \/ y = [own EXCEPT !.status = 500] \/ y = [own EXCEPT !.shown = "text"]
                      \/ y = [own EXCEPT !.shown = "empty"] \/ y = [own EXCEPT !.input = None]
                      \/ y = [own EXCEPT !.status = 400]
<1>1. e.kind \in {"vendor", "layer"} => e.model = e.target.model
    BY EndpointFacts
<1>2. own = [status |-> 200, input |-> 210, cacheRead |-> -1, cacheCreation |-> -1,
             reasoning |-> 400, output |-> 405, text |-> 20, signed |-> TRUE, shown |-> shown]
    BY DEF OwnSeed, Thinking, SeedText, SeedInput, None
<1>3. /\ e.kind = "vendor" => Plain(x)
      /\ e.kind = "layer" => Plain(x) \/ Bare(x)
      /\ Plain(x) \/ Bare(x) \/ Else(x)
  <2> HIDE DEF own
  <2>1. CASE e.kind = "vendor"
      BY <2>1 DEF SeedAnswers, own
  <2>2. CASE e.kind = "cheaper"
      BY <2>2 DEF SeedAnswers, own
  <2>3. CASE e.kind = "layer"
      BY <2>3 DEF SeedAnswers, own
  <2>4. CASE e.kind \notin {"vendor", "cheaper", "layer"}
      BY <2>4 DEF SeedAnswers, own
  <2> QED BY <2>1, <2>2, <2>3, <2>4
<1> HIDE DEF own
<1>4. Plain(x) => Fields(x) /\ x.signed /\ x.shown = shown
    BY <1>2 DEF None
<1>5. Bare(x) => Fields(x) /\ ~x.signed /\ x.shown \in {shown, "none", "empty"}
  <2> HIDE DEF shown
  <2>1. CASE x = [own EXCEPT !.signed = FALSE]
      BY <1>2, <2>1 DEF None
  <2>2. CASE x = [[own EXCEPT !.reasoning = None] EXCEPT !.signed = FALSE]
      BY <1>2, <2>2 DEF None
  <2>3. CASE x = [[own EXCEPT !.reasoning = 100] EXCEPT !.signed = FALSE]
      BY <1>2, <2>3 DEF None
  <2>4. CASE x = [own EXCEPT !.signed = FALSE, !.shown = "none"]
      BY <1>2, <2>4 DEF None
  <2>5. CASE x = [own EXCEPT !.signed = FALSE, !.shown = "empty"]
      BY <1>2, <2>5 DEF None
  <2> QED BY <2>1, <2>2, <2>3, <2>4, <2>5
<1>6. Else(x) => Fields(x)
    BY <1>2 DEF None
<1> QED BY <1>1, <1>3, <1>4, <1>5, <1>6

\* thinking-display: the vendor and a layer show thinking the way the model does.
LEMMA thinkingDisplayKeeps ==
  ASSUME NEW e, NEW known, NEW answers, Meets(e, "thinkingDisplay", known, answers)
  PROVE  Keeps(e, "thinkingDisplay", known, answers)
<1> DEFINE t == e.target
           ask == thinkingSeed(t, <<>>)
           x == known.seed
           default == displayDefault[t.model]
           text == displayMismatch(t.model, "summarized")
           empty == displayMismatch(t.model, "omitted")
           documented == causalSignal("documented-default", Identities(1, 0, 0, 0))
           told == IF ~isSuccess(x) \/ x.shown = "none" THEN {}
                   ELSE CASE default = "omitted" /\ x.shown = "text" -> {text}
                          [] default = "summarized" /\ x.shown = "empty" ->
                               IF x.signed THEN {empty} ELSE {}
                          [] OTHER -> {documented}
<1>0. "thinkingDisplay" \in Simple /\ Cost("thinkingDisplay").tokens = 1585
    BY SimpleCosts DEF Simple
<1>00. e \in Endpoints /\ t.vendor = "anthropic" /\ e.kind \in Kinds
    BY ForWhom, EndpointFacts DEF Meets
<1>1. CASE "seed" \notin DOMAIN known
  <2>1. AsksFirst(e, "thinkingDisplay", known, "seed", ask)
    <3>1. \A more : Program("thinkingDisplay", t, known, more) = thinkingSeed(t, more)
        BY <1>1, Causes DEF thinkingDisplay
    <3> HIDE DEF ask
    <3>2. \A more : IsSeq(more) => thinkingSeed(t, more) = Share("seed", ask, more, 1)
        BY SeedIsShared DEF ask
    <3> QED BY <3>1, <3>2 DEF AsksFirst
  <2>2. ask.do = "ask" /\ ask.tokens \in Nat /\ ask.tokens <= 1585 /\ ask.bill \in Nat /\ ask.bill <= 1585
      BY SeedIsAsked
  <2>3. ASSUME answers[1] \in Answers(e, ask) PROVE KnownAsKept(e, Kept(One("seed", answers[1]), known))
      BY <1>1, <2>3, SeedIsKept DEF Meets
  <2>4. /\ Due("thinkingDisplay", known) = 1
        /\ Due("thinkingDisplay", Kept(One("seed", answers[1]), known)) = 0
      BY <1>1, MissingBeside, DueOf
  <2> HIDE DEF ask
  <2>5. /\ ask.tokens <= Cost("thinkingDisplay").tokens /\ ask.bill <= Cost("thinkingDisplay").tokens
        /\ Cost("thinkingDisplay").tokens \in Nat
      BY <1>0, <2>2
  <2> QED BY <1>0, <1>1, <2>1, <2>2, <2>3, <2>4, <2>5, SharedKeeps
<1>2. CASE "seed" \in DOMAIN known
  <2>1. Program("thinkingDisplay", t, known, answers) = Say(told)
    <3>1. Program("thinkingDisplay", t, known, answers) = thinkingDisplay(t, known, answers)
        BY Causes
    <3> QED BY <1>2, <3>1 DEF thinkingDisplay
  <2>2. x \in SeedAnswers(e)
      BY <1>2 DEF Meets, KnownAsKept
  <2>3. default # "silent"
      BY ForWhom DEF Meets
  <2>4. /\ e.kind \in {"vendor", "layer"} /\ default = "omitted" => x.shown # "text"
        /\ e.kind \in {"vendor", "layer"} /\ x.signed /\ default # "omitted" => x.shown = "text"
      BY <1>00, <2>2, SeedShows
  <2>5. TellsTruly(e, documented)
      BY IdentitiesSaid DEF causalSignal, Calibrations
  <2>6. ASSUME NEW seen \in {"summarized", "omitted"}, e.kind \notin {"vendor", "layer"}
        PROVE  TellsTruly(e, displayMismatch(t.model, seen))
    <3> DEFINE c == IF \E m \in cheaperThan[t.model] : displayDefault[m] = seen THEN 3 ELSE 0
               id == IF seen = "summarized" THEN "text-by-default" ELSE "empty-by-default"
               tr == IF seen = "summarized" THEN 4 ELSE 3
    <3>1. c \in Int /\ 0 <= c /\ c <= 3 /\ tr \in Int /\ 0 <= tr /\ tr <= 4
        OBVIOUS
    <3>2. displayMismatch(t.model, seen) = causalSignal(id, [Identities(-5, c, 0, 0) EXCEPT !.translated = tr])
        BY <2>6 DEF displayMismatch
    <3> HIDE DEF c, tr, id
    <3>3. [Identities(-5, c, 0, 0) EXCEPT !.translated = tr] = Weight(-5, c, 0, 0, 0, 0, 0, tr)
        BY DEF Weight, Identities, Neutral, Findings
    <3>4. "documented" \in Calibrations
        BY DEF Calibrations
    <3>5. TellsTruly(e, Signal(id, "documented", Weight(-5, c, 0, 0, 0, 0, 0, tr)))
        BY <2>6, <3>1, <3>4, WeightTells
    <3> QED BY <3>2, <3>3, <3>5 DEF causalSignal
  <2>7. e.kind \notin {"vendor", "layer"} => TellsTruly(e, text) /\ TellsTruly(e, empty)
      BY <2>6
  <2> HIDE DEF text, empty, documented, default
  <2>8. (\A s \in told : TellsTruly(e, s)) /\ (\A s, s_ \in told : s = s_)
      BY <2>3, <2>4, <2>5, <2>7
  <2> HIDE DEF told
  <2>9. SaysTruly(e, told)
      BY <2>8, OneSaid
  <2> QED BY <2>1, <2>9, SayingKeeps
<1> QED BY <1>1, <1>2

---------------------------------------------------------------------------
(* The replayed turn *)

\* The counts of a first turn that can be replayed.
LEMMA SeedCounts ==
  ASSUME NEW e \in Endpoints, e.target.vendor = "anthropic", NEW x \in SeedAnswers(e), readable(x)
  PROVE  promptTokens(x) = 210 /\ allowance(x) = 117 /\ thinkingTokens(x) \in {385, 400}
<1>1. /\ x.input \in {210, -1} /\ x.cacheRead = -1 /\ x.cacheCreation = -1
      /\ x.output = 405 /\ x.text = 20 /\ x.reasoning \in {400, 100, -1}
    BY SeedShows
<1>2. promptTokens(x) = 210
    BY <1>1 DEF readable, promptTokens, Max2, None
<1>3. allowance(x) = 117
    BY <1>1 DEF allowance, estimateTokens, FOLLOWUP
<1>4. thinkingTokens(x) \in {385, 400}
    BY <1>1 DEF readable, thinkingTokens, MIN_THINKING_TOKENS, Max2, None
<1> QED BY <1>2, <1>3, <1>4

\* A replay with the thinking in its prompt kept it, one without dropped it.
LEMMA ReplayClass ==
  ASSUME NEW seed, promptTokens(seed) = 210, allowance(seed) = 117, thinkingTokens(seed) \in {385, 400},
         NEW altered
  PROVE  /\ classify(Replayed(WithThinking, altered), seed) = "kept"
         /\ classify(Replayed(WithoutThinking, altered), seed) = "dropped"
<1>1. WithThinking = 625 /\ WithoutThinking = 225
    BY DEF WithThinking, WithoutThinking, SeedInput, Thinking
<1>2. \A n \in Nat : promptTokens(Replayed(n, altered)) = n /\ isSuccess(Replayed(n, altered))
    BY DEF Replayed, promptTokens, isSuccess, Max2, None
<1>3. promptTokens(Replayed(625, altered)) = 625 /\ promptTokens(Replayed(225, altered)) = 225
    BY <1>2
<1>4. isSuccess(Replayed(625, altered)) /\ isSuccess(Replayed(225, altered))
    BY <1>2
<1> DEFINE kept == Replayed(625, altered)
           dropped == Replayed(225, altered)
<1> HIDE DEF kept, dropped
<1>5. /\ promptTokens(kept) = 625 /\ isSuccess(kept)
      /\ promptTokens(dropped) = 225 /\ isSuccess(dropped)
    BY <1>3, <1>4 DEF kept, dropped
<1>6. classify(kept, seed) = "kept"
    BY <1>5 DEF classify, None
<1>7. classify(dropped, seed) = "dropped"
    BY <1>5 DEF classify, None
<1> QED BY <1>1, <1>6, <1>7 DEF kept, dropped

\* The control says nothing against the vendor.
LEMMA ControlSaid ==
  ASSUME NEW e \in Endpoints, e.target.vendor = "anthropic", e.target.model \in KEEPS_THINKING,
         NEW seed \in SeedAnswers(e), readable(seed), NEW x \in ReplayAnswers(e),
         ~isSuccess(x) \/ classify(x, seed) # "kept"
  PROVE  SaysTruly(e, judgeControl(x, seed))
<1> DEFINE rejected == causalSignal("replay-rejected", [Neutral EXCEPT !.translated = 5])
           dropped == causalSignal("thinking-dropped", [Neutral EXCEPT !.translated = 5])
           told == judgeControl(x, seed)
<1>1. e.kind # "vendor"
  <2>1. SUFFICES ASSUME e.kind = "vendor" PROVE FALSE
      OBVIOUS
  <2>2. e.model \in KEEPS_THINKING
      BY <2>1, EndpointFacts
  <2>3. x = Replayed(WithThinking, Thinking)
      BY <2>1, <2>2 DEF ReplayAnswers
  <2>4. classify(x, seed) = "kept"
      BY <2>3, SeedCounts, ReplayClass
  <2>5. isSuccess(x)
      BY <2>3 DEF Replayed, isSuccess
  <2> QED BY <2>4, <2>5
<1>2. [Neutral EXCEPT !.translated = 5] = Weight(0, 0, 0, 0, 0, 0, 0, 5)
    BY DEF Weight, Neutral, Findings
<1>3. "documented" \in Calibrations
    BY DEF Calibrations
<1>4. /\ TellsTruly(e, Signal("replay-rejected", "documented", Weight(0, 0, 0, 0, 0, 0, 0, 5)))
      /\ TellsTruly(e, Signal("thinking-dropped", "documented", Weight(0, 0, 0, 0, 0, 0, 0, 5)))
    BY <1>1, <1>3, WeightTells
<1>5. TellsTruly(e, rejected) /\ TellsTruly(e, dropped)
    BY <1>2, <1>4 DEF causalSignal
<1>6. told \in {{rejected}, {dropped}, {}}
    BY DEF judgeControl
<1> HIDE DEF told, rejected, dropped
<1>7. (\A s \in told : TellsTruly(e, s)) /\ (\A s, s_ \in told : s = s_)
    BY <1>5, <1>6
<1>8. SaysTruly(e, told)
    BY <1>7, OneSaid
<1> QED BY <1>8 DEF told

\* A changed block is accepted by nothing that has Anthropic's keys.
LEMMA TamperedSaid ==
  ASSUME NEW e \in Endpoints, e.target.vendor = "anthropic",
         NEW seed \in SeedAnswers(e), readable(seed), NEW x \in TamperedAnswers(e)
  PROVE  SaysTruly(e, judgeTampered(x, seed))
<1> DEFINE rejected == causalSignal("tamper-rejected", Identities(0, 0, -5, -5))
           plain == causalSignal("tamper-accepted", Identities(-10, -5, 5, 2))
           accepted == [plain EXCEPT !.vetoes = {"claim", "cheaper"}]
           dropped == causalSignal("tamper-dropped", Neutral)
           told == judgeTampered(x, seed)
<1>1. e.kind # "any" => x.status = 400 \/ classify(x, seed) = "dropped"
  <2>1. SUFFICES ASSUME e.kind # "any" PROVE x.status = 400 \/ classify(x, seed) = "dropped"
      OBVIOUS
  <2>2. x = Refused(TRUE) \/ x = Replayed(WithoutThinking, 0)
      BY <2>1 DEF TamperedAnswers
  <2>3. Refused(TRUE).status = 400
      BY DEF Refused, Replayed
  <2>4. classify(Replayed(WithoutThinking, 0), seed) = "dropped"
      BY SeedCounts, ReplayClass
  <2> QED BY <2>2, <2>3, <2>4
<1>2. TellsTruly(e, rejected)
    BY IdentitiesSaid DEF causalSignal, Calibrations
<1>3. TellsTruly(e, dropped)
  <2>1. Neutral = Weight(0, 0, 0, 0, 0, 0, 0, 0)
      BY DEF Weight, Neutral, Findings
  <2>2. "documented" \in Calibrations
      BY DEF Calibrations
  <2>3. TellsTruly(e, Signal("tamper-dropped", "documented", Weight(0, 0, 0, 0, 0, 0, 0, 0)))
      BY <2>2, WeightTells
  <2> QED BY <2>1, <2>3 DEF causalSignal
<1>4. e.kind = "any" => TellsTruly(e, accepted)
  <2>1. SUFFICES ASSUME e.kind = "any" PROVE TellsTruly(e, accepted)
      OBVIOUS
  <2>2. TellsTruly(e, plain)
      BY <2>1, IdentitiesSaid DEF causalSignal, Calibrations
  <2>3. plain = [id |-> plain.id, calibration |-> plain.calibration, llr |-> plain.llr, vetoes |-> {}]
      BY DEF causalSignal, Signal
  <2>4. plain \in SignalsWith({plain.id})
      BY <2>2 DEF TellsTruly
  <2> HIDE DEF plain
  <2>5. {"claim", "cheaper"} \in SUBSET Identity
      BY DEF Identity
  <2>6. accepted \in SignalsWith({plain.id}) /\ accepted.id = plain.id
      BY <2>3, <2>4, <2>5 DEF SignalsWith
  <2> HIDE DEF accepted
  <2> QED BY <2>1, <2>6 DEF TellsTruly
<1> HIDE DEF rejected, dropped, accepted
<1>6. told = {} \/ told = {rejected} \/ told = {dropped} \/ (told = {accepted} /\ e.kind = "any")
    BY <1>1 DEF judgeTampered, rejected, dropped, accepted
<1> HIDE DEF told
<1>7. (\A s \in told : TellsTruly(e, s)) /\ (\A s, s_ \in told : s = s_)
    BY <1>2, <1>3, <1>4, <1>6
<1>8. SaysTruly(e, told)
    BY <1>7, OneSaid
<1> QED BY <1>8 DEF told

\* What the replays may still cost.
LEMMA SignatureLeft ==
  ASSUME NEW known, NEW answers
  PROVE  /\ "seed" \notin DOMAIN known /\ answers = <<>> =>
              LeftToCharge("thinkingSignature", known, answers) = 7509
         /\ "seed" \notin DOMAIN known /\ answers # <<>> /\ Len(answers) = 1 =>
              LeftToCharge("thinkingSignature", known, answers) = 5924
         /\ "seed" \in DOMAIN known /\ Len(answers) = 0 =>
              LeftToCharge("thinkingSignature", known, answers) = 5924
         /\ "seed" \in DOMAIN known /\ Len(answers) = 1 =>
              LeftToCharge("thinkingSignature", known, answers) = 2962
         /\ "seed" \in DOMAIN known /\ Len(answers) = 2 =>
              LeftToCharge("thinkingSignature", known, answers) = 0
<1>1. Due("thinkingSignature", known) = IF "seed" \in DOMAIN known THEN 2 ELSE 3
    BY DueOf DEF Missing
<1>2. LeftToCharge("thinkingSignature", known, answers) =
        IF "seed" \notin DOMAIN known /\ answers = <<>> THEN SEED_TOKENS + 2 * REPLAY_TOKENS
        ELSE IF Due("thinkingSignature", known) - Len(answers) >= 2 THEN 2 * REPLAY_TOKENS
        ELSE IF Due("thinkingSignature", known) - Len(answers) = 1 THEN REPLAY_TOKENS ELSE 0
    BY DEF LeftToCharge, AccountingNames, TokenizerNames
<1> DEFINE left == LeftToCharge("thinkingSignature", known, answers)
           due == Due("thinkingSignature", known)
           had == "seed" \in DOMAIN known
<1>3. SEED_TOKENS = 1585 /\ REPLAY_TOKENS = 2962
    BY Numbers
<1>4. due = IF had THEN 2 ELSE 3
    BY <1>1
<1>5. left = IF ~had /\ answers = <<>> THEN 7509
             ELSE IF due - Len(answers) >= 2 THEN 5924
             ELSE IF due - Len(answers) = 1 THEN 2962 ELSE 0
    BY <1>2, <1>3
<1> HIDE DEF left, due, had
<1>6. ~had /\ answers = <<>> => left = 7509
    BY <1>5
<1>7. ~had /\ answers # <<>> /\ Len(answers) = 1 => left = 5924
    BY <1>4, <1>5
<1>8. had /\ Len(answers) = 0 => left = 5924
    BY <1>4, <1>5
<1>9. had /\ Len(answers) = 1 => left = 2962
    BY <1>4, <1>5
<1>10. had /\ Len(answers) = 2 => left = 0
    BY <1>4, <1>5
<1> QED BY <1>6, <1>7, <1>8, <1>9, <1>10 DEF left, had

\* thinking-signature: the first turn, a replay and a changed replay, within their
\* cost.
LEMMA thinkingSignatureKeeps ==
  ASSUME NEW e, NEW known, NEW answers, Meets(e, "thinkingSignature", known, answers)
  PROVE  Keeps(e, "thinkingSignature", known, answers)
<1> DEFINE t == e.target
           name == "thinkingSignature"
           ask == thinkingSeed(t, <<>>)
           seed == known.seed
           x == answers[1]
           y == answers[2]
           first == replay("replay")
           second == replay("tampered-replay")
           lost == ~isSuccess(x) \/ classify(x, seed) # "kept"
<1>0. e \in Endpoints /\ t.vendor = "anthropic" /\ t.model \in KEEPS_THINKING
    BY ForWhom DEF Meets
<1>1. /\ HeardAsAsked(e, name, known, answers) /\ IsSeq(answers) /\ KnownAsKept(e, known)
      /\ Len(answers) \in Nat /\ (answers = <<>> <=> Len(answers) = 0) /\ Len(answers) <= Due(name, known)
    BY HeardOneByOne DEF Meets, HeardAsAsked
<1>2. \A k, more : Program(name, t, k, more) = thinkingSignature(t, k, more)
    BY Causes
<1>3. /\ first.do = "ask" /\ first.request = "replay" /\ first.tokens = 2962 /\ first.bill = 2962
      /\ second.do = "ask" /\ second.request = "tampered-replay"
      /\ second.tokens = 2962 /\ second.bill = 2962
    BY Numbers DEF replay, Ask
<1>4. CASE "seed" \notin DOMAIN known
  <2> DEFINE entries == One("seed", x)
  <2>1. \A more : Program(name, t, known, more) = thinkingSeed(t, more)
      BY <1>2, <1>4 DEF thinkingSignature
  <2>2. ask.do = "ask" /\ ask.tokens \in Nat /\ ask.tokens <= 1585 /\ ask.bill \in Nat /\ ask.bill <= 1585
      BY SeedIsAsked
  <2>3. x \in Answers(e, ask) => KnownAsKept(e, Kept(entries, known))
      BY <1>1, <1>4, SeedIsKept
  <2>4. Due(name, known) = 3 /\ Due(name, Kept(entries, known)) = 2
      BY <1>4, MissingBeside, DueOf
  <2>5. "seed" \in DOMAIN Kept(entries, known)
      BY OneOfOne, KeptBeside
  <2>6. Program(name, t, known, <<>>) = ask
      BY <2>1
  <2> HIDE DEF ask
  <2>7. \A more : IsSeq(more) => thinkingSeed(t, more) = Share("seed", ask, more, 1)
      BY SeedIsShared DEF ask
  <2>8. \A more : IsSeq(more) /\ more # <<>> => Program(name, t, known, more).do = "keep"
      BY <2>1, <2>7, Shared DEF Keep
  <2>9. answers # <<>> => Program(name, t, known, answers) = Keep(entries, <<>>)
      BY <1>1, <2>1, <2>7, Shared
  <2>10. \A z : LET left == LeftToCharge(name, known, <<>>) - LeftToCharge(name, known, Append(<<>>, z))
                IN  ask.tokens <= left /\ ask.bill <= left
    <3> TAKE z
    <3>1. Len(Append(<<>>, z)) = 1 /\ Append(<<>>, z) # <<>>
        BY OneMore, NothingHeard DEF HeardAsAsked
    <3>2. LeftToCharge(name, known, <<>>) = 7509
        BY <1>4, SignatureLeft
    <3>3. LeftToCharge(name, known, Append(<<>>, z)) = 5924
        BY <1>4, <3>1, SignatureLeft
    <3> QED BY <2>2, <3>2, <3>3
  <2> HIDE DEF entries
  <2>11. Len(answers) = 1 =>
           LeftToCharge(name, Kept(entries, known), <<>>) <= LeftToCharge(name, known, answers)
    <3>1. Len(<<>>) = 0
        OBVIOUS
    <3>2. LeftToCharge(name, Kept(entries, known), <<>>) = 5924
        BY <2>5, <3>1, SignatureLeft
    <3>3. Len(answers) = 1 => LeftToCharge(name, known, answers) = 5924
        BY <1>1, <1>4, SignatureLeft
    <3> QED BY <3>2, <3>3
  <2> QED BY <2>2, <2>3, <2>4, <2>6, <2>8, <2>9, <2>10, <2>11, FirstKeeps
<1>5. CASE "seed" \in DOMAIN known /\ ~readable(seed)
  <2>1. Program(name, t, known, answers) = Say({})
      BY <1>2, <1>5 DEF thinkingSignature
  <2> QED BY <2>1, NothingSaid, SayingKeeps
<1>6. CASE "seed" \in DOMAIN known /\ readable(seed)
  <2>1. seed \in SeedAnswers(e)
      BY <1>1, <1>6 DEF KnownAsKept
  <2>2. Due(name, known) = 2
      BY <1>6, DueOf DEF Missing
  <2>3. Program(name, t, known, <<>>) = first
      BY <1>2, <1>6 DEF thinkingSignature
  <2>4. \A z : Len(Append(answers, z)) = Len(answers) + 1
      BY <1>1, OneMore
  <2>5. answers # <<>> => x \in ReplayAnswers(e)
    <3>1. answers # <<>> => x \in Answers(e, first)
        BY <1>1, <2>3, FirstHeard
    <3> HIDE DEF first
    <3> QED BY <1>3, <3>1, GenerationAnswers
  <2>6. CASE answers = <<>>
    <3>1. ASSUME NEW z
          PROVE  LET left == LeftToCharge(name, known, answers)
                              - LeftToCharge(name, known, Append(answers, z))
                 IN  first.tokens <= left /\ first.bill <= left
      <4>1. LeftToCharge(name, known, answers) = 5924
          BY <1>1, <1>6, <2>6, SignatureLeft
      <4> DEFINE more == Append(answers, z)
      <4>2. Len(more) = 1
          BY <1>1, <2>4, <2>6
      <4> HIDE DEF more
      <4>3. LeftToCharge(name, known, more) = 2962
          BY <1>6, <4>2, SignatureLeft
      <4> QED BY <1>3, <4>1, <4>3 DEF more
    <3> HIDE DEF first
    <3> QED BY <1>1, <1>3, <2>2, <2>3, <2>6, <3>1 DEF Keeps
  <2>7. CASE answers # <<>> /\ lost
    <3>1. Program(name, t, known, answers) = Say(judgeControl(x, seed))
        BY <1>2, <1>6, <2>7 DEF thinkingSignature
    <3>2. SaysTruly(e, judgeControl(x, seed))
        BY <1>0, <1>6, <2>1, <2>5, <2>7, ControlSaid
    <3> QED BY <3>1, <3>2, SayingKeeps
  <2>8. CASE answers # <<>> /\ ~lost /\ Len(answers) = 1
    <3>1. Program(name, t, known, answers) = second
        BY <1>2, <1>6, <2>8 DEF thinkingSignature
    <3>2. ASSUME NEW z
          PROVE  LET left == LeftToCharge(name, known, answers)
                              - LeftToCharge(name, known, Append(answers, z))
                 IN  second.tokens <= left /\ second.bill <= left
      <4>1. LeftToCharge(name, known, answers) = 2962
          BY <1>6, <2>8, SignatureLeft
      <4> DEFINE more == Append(answers, z)
      <4>2. Len(more) = 2
          BY <2>4, <2>8
      <4> HIDE DEF more
      <4>3. LeftToCharge(name, known, more) = 0
          BY <1>6, <4>2, SignatureLeft
      <4> QED BY <1>3, <4>1, <4>3 DEF more
    <3> HIDE DEF second
    <3> QED BY <1>3, <2>2, <2>8, <3>1, <3>2 DEF Keeps
  <2>9. CASE answers # <<>> /\ ~lost /\ Len(answers) # 1
    <3>1. Len(answers) = 2
      <4>1. \A l \in Nat : l # 0 /\ l # 1 /\ l <= 2 => l = 2
          OBVIOUS
      <4> QED BY <1>1, <2>2, <2>9, <4>1
    <3>2. Program(name, t, known, answers) = Say(judgeTampered(y, seed))
        BY <1>2, <1>6, <2>9 DEF thinkingSignature
    <3>3. Program(name, t, known, <<x>>) = second
      <4> DEFINE one == <<x>>
      <4>1. one # <<>> /\ one[1] = x /\ Len(one) = 1
          OBVIOUS
      <4> HIDE DEF one
      <4>2. Program(name, t, known, one) = second
          BY <1>2, <1>6, <2>9, <4>1 DEF thinkingSignature
      <4> QED BY <4>2 DEF one
    <3>4. y \in Answers(e, second)
        BY <1>1, <3>1, <3>3, HeardOneByOne
    <3> HIDE DEF second
    <3>5. y \in TamperedAnswers(e)
        BY <1>3, <3>4, GenerationAnswers
    <3>6. SaysTruly(e, judgeTampered(y, seed))
        BY <1>0, <1>6, <2>1, <3>5, TamperedSaid
    <3> QED BY <3>2, <3>6, SayingKeeps
  <2> QED BY <2>6, <2>7, <2>8, <2>9
<1> QED BY <1>4, <1>5, <1>6

---------------------------------------------------------------------------
(* The cache *)

\* The facts of a Claude model these probes read.
LEMMA CacheFacts ==
  ASSUME NEW m \in AnthropicModels
  PROVE  cacheMinimumTokens[m] \in {512, 1024, 2048, 4096}
BY DEF cacheMinimumTokens

\* An input count for a length in bytes.
LEMMA TokensAreCounted ==
  ASSUME NEW e, NEW bytes \in Nat
  PROVE  TokensOf(e, bytes) \in Nat /\ TokensOf(e, bytes) \in {bytes \div 5, bytes \div 7}
<1>1. bytes \div 5 \in Nat /\ bytes \div 7 \in Nat
    OBVIOUS
<1>2. TokensOf(e, bytes) \in {bytes \div 5, bytes \div 7}
    BY DEF TokensOf
<1> QED BY <1>1, <1>2

\* What the counts of a prompt say: a reading counts all of it, and the vendor and a
\* layer cache from the length on that the model is documented to.
LEMMA CacheShows ==
  ASSUME NEW e, NEW request, NEW n \in Nat, NEW x \in CacheAnswers(e, request, n),
         NEW least \in Nat, least = cacheMinimumTokens[e.model], least > 0
  PROVE  /\ isReading(x) => promptTokens(x) = n
         /\ e.kind \in {"vendor", "cheaper"} => isReading(x) /\ (isCached(x) <=> n >= least)
         /\ e.kind = "layer" => (isCached(x) => n >= least)
         /\ e.kind = "vendor" => readTokens(x) \in Nat /\ (request # "above-again" => readTokens(x) = 0)
<1> DEFINE field == IF request = "above-again" THEN "read" ELSE "written"
           own == CachedBy(e, n, field)
           read == [Uncached(0) EXCEPT !.cacheRead = n]
           written == [Uncached(0) EXCEPT !.cacheCreation = n]
           quarter == n \div 4
           rest == n - quarter
           both == [Uncached(0) EXCEPT !.cacheRead = quarter, !.cacheCreation = rest]
           failed == [own EXCEPT !.status = 500]
           Reads(y, i, r, w) == y.status = 200 /\ y.input = i /\ y.cacheRead = r /\ y.cacheCreation = w
<1>1. quarter \in Nat /\ rest \in Nat /\ quarter + rest = n
    OBVIOUS
<1>2. \A i : Reads(Uncached(i), i, 0, 0)
    BY DEF Uncached
<1>3. /\ n < least => own = Uncached(n)
      /\ n >= least /\ request = "above-again" => own = read
      /\ n >= least /\ request # "above-again" => own = written
    BY DEF CachedBy
<1>4. failed.status = 500
  <2>1. "status" \in DOMAIN own
      BY DEF CachedBy, Uncached
  <2> HIDE DEF own
  <2> QED BY <2>1
<1>5. /\ e.kind \in {"vendor", "cheaper"} => x = own
      /\ e.kind = "layer" => x \in {own, Uncached(n)}
      /\ x \in {own, Uncached(n), Uncached(None), failed, read, written, both}
    BY DEF CacheAnswers
<1> HIDE DEF quarter, rest
<1>6. Reads(read, 0, n, 0) /\ Reads(written, 0, 0, n) /\ Reads(both, 0, quarter, rest)
    BY DEF Uncached
<1> HIDE DEF own, read, written, both, failed, field
<1>7. \/ n < least /\ Reads(own, n, 0, 0)
      \/ n >= least /\ request = "above-again" /\ Reads(own, 0, n, 0)
      \/ n >= least /\ request # "above-again" /\ Reads(own, 0, 0, n)
    BY <1>2, <1>3, <1>6
<1>8. \/ Reads(x, n, 0, 0) \/ Reads(x, 0, n, 0) \/ Reads(x, 0, 0, n) \/ Reads(x, 0, quarter, rest)
      \/ x.input = None \/ x.status = 500
    BY <1>2, <1>4, <1>5, <1>6, <1>7
<1>9. isReading(x) => promptTokens(x) = n
    BY <1>1, <1>8 DEF isReading, isSuccess, promptTokens, Max2, None
<1>10. isReading(own) /\ (isCached(own) <=> n >= least) /\ ~isCached(Uncached(n))
    BY <1>2, <1>7 DEF isReading, isSuccess, isCached, readTokens, writtenTokens, Max2, None
<1>11. readTokens(own) \in Nat /\ (request # "above-again" => readTokens(own) = 0)
    BY <1>7 DEF readTokens, Max2
<1> QED BY <1>5, <1>9, <1>10, <1>11

\* What the two probes may still cost.
LEMMA ThresholdLeft ==
  ASSUME NEW known, NEW answers
  PROVE  /\ "above" \notin DOMAIN known /\ answers = <<>> =>
              LeftToCharge("cacheThreshold", known, answers) = 61153
         /\ "above" \notin DOMAIN known /\ answers # <<>> /\ Len(answers) = 1 =>
              LeftToCharge("cacheThreshold", known, answers) = 24209
         /\ "above" \in DOMAIN known /\ Len(answers) = 0 =>
              LeftToCharge("cacheThreshold", known, answers) = 24209
         /\ "above" \in DOMAIN known /\ Len(answers) = 1 =>
              LeftToCharge("cacheThreshold", known, answers) = 0
<1> DEFINE left == LeftToCharge("cacheThreshold", known, answers)
           due == Due("cacheThreshold", known)
           had == "above" \in DOMAIN known
<1>1. due = IF had THEN 1 ELSE 2
    BY DueOf DEF Missing
<1>2. left = IF ~had /\ answers = <<>> THEN ABOVE + rungTokens(BELOW_BYTES_BOUND)
             ELSE IF due - Len(answers) >= 1 THEN rungTokens(BELOW_BYTES_BOUND) ELSE 0
    BY DEF LeftToCharge, AccountingNames, TokenizerNames
<1>3. ABOVE = 36944 /\ rungTokens(BELOW_BYTES_BOUND) = 24209
    BY Numbers
<1> HIDE DEF left, due, had
<1>4. ~had /\ answers = <<>> => left = 61153
    BY <1>2, <1>3
<1>5. ~had /\ answers # <<>> /\ Len(answers) = 1 => left = 24209
    BY <1>1, <1>2, <1>3
<1>6. had /\ Len(answers) = 0 => left = 24209
    BY <1>1, <1>2, <1>3
<1>7. had /\ Len(answers) = 1 => left = 0
    BY <1>1, <1>2, <1>3
<1> QED BY <1>4, <1>5, <1>6, <1>7 DEF left, had

\* The same for cache-invalidation, three prompts of the longest length.
LEMMA InvalidationLeft ==
  ASSUME NEW known, NEW answers
  PROVE  /\ "above" \notin DOMAIN known /\ Len(answers) = 0 =>
              LeftToCharge("cacheInvalidation", known, answers) = 110832
         /\ "above" \notin DOMAIN known /\ Len(answers) = 1 =>
              LeftToCharge("cacheInvalidation", known, answers) = 73888
         /\ "above" \in DOMAIN known /\ Len(answers) = 0 =>
              LeftToCharge("cacheInvalidation", known, answers) = 73888
         /\ "above" \in DOMAIN known /\ Len(answers) = 1 =>
              LeftToCharge("cacheInvalidation", known, answers) = 36944
         /\ "above" \in DOMAIN known /\ Len(answers) = 2 =>
              LeftToCharge("cacheInvalidation", known, answers) = 0
<1> DEFINE left == LeftToCharge("cacheInvalidation", known, answers)
           due == Due("cacheInvalidation", known)
           had == "above" \in DOMAIN known
<1>1. due = IF had THEN 2 ELSE 3
    BY DueOf DEF Missing
<1>2. left = (due - Len(answers)) * ABOVE
    BY DEF LeftToCharge, AccountingNames, TokenizerNames
<1>3. ABOVE = 36944
    BY Numbers
<1> HIDE DEF left, due, had
<1>4. ~had /\ Len(answers) = 0 => left = 110832
    BY <1>1, <1>2, <1>3
<1>5. ~had /\ Len(answers) = 1 => left = 73888
    BY <1>1, <1>2, <1>3
<1>6. had /\ Len(answers) = 0 => left = 73888
    BY <1>1, <1>2, <1>3
<1>7. had /\ Len(answers) = 1 => left = 36944
    BY <1>1, <1>2, <1>3
<1>8. had /\ Len(answers) = 2 => left = 0
    BY <1>1, <1>2, <1>3
<1> QED BY <1>4, <1>5, <1>6, <1>7, <1>8 DEF left, had

\* A prompt of known length is asked for with a request of that length.
LEMMA CacheIsAsked ==
  ASSUME NEW e, e.target.protocol = "anthropic-messages", NEW bytes \in Nat,
         NEW request \in {"above", "below", "above-again", "above-changed"}
  PROVE  LET ask == cacheRequest(e.target, request, bytes) IN
         /\ ask.do = "ask" /\ ask.tokens = bytes + 80 /\ ask.bill = bytes + 80
         /\ Answers(e, ask) = CacheAnswers(e, request, TokensOf(e, bytes))
<1> DEFINE ask == cacheRequest(e.target, request, bytes)
<1>1. ask.do = "ask" /\ ask.request = request /\ ask.tokens = bytes + 80 /\ ask.bill = bytes + 80
    BY GenerationIsAsked DEF cacheRequest, CACHE_MAX_TOKENS
<1> HIDE DEF ask
<1>2. rungTokens(0) = 80
    BY DEF rungTokens, estimateTokens, CACHE_MAX_TOKENS
<1>3. ask.tokens - rungTokens(0) = bytes
    BY <1>1, <1>2
<1>4. Answers(e, ask) = CacheAnswers(e, request, TokensOf(e, bytes))
    BY <1>1, <1>3, GenerationAnswers
<1>5. /\ ask.do = "ask" /\ ask.tokens = bytes + 80 /\ ask.bill = bytes + 80
      /\ Answers(e, ask) = CacheAnswers(e, request, TokensOf(e, bytes))
    BY <1>1, <1>4
<1> QED BY <1>5 DEF ask

\* The claimed model's threshold, and the length of the prompt above it.
LEMMA AboveLength ==
  ASSUME NEW t, t.model \in AnthropicModels
  PROVE  /\ cacheMinimumTokens[t.model] \in {512, 1024, 2048, 4096}
         /\ aboveBytes(cacheMinimumTokens[t.model]) \in {4608, 9216, 18432, 36864}
<1>1. cacheMinimumTokens[t.model] \in {512, 1024, 2048, 4096}
    BY CacheFacts
<1> QED BY <1>1 DEF aboveBytes

\* The first prompt, for the two probes that read its counts.
LEMMA AboveKeeps ==
  ASSUME NEW e, NEW name \in {"cacheThreshold", "cacheInvalidation"}, NEW known, NEW answers,
         Meets(e, name, known, answers), "above" \notin DOMAIN known
  PROVE  Keeps(e, name, known, answers)
<1> DEFINE t == e.target
           bytes == aboveBytes(cacheMinimumTokens[t.model])
           ask == cacheRequest(t, "above", bytes)
           x == answers[1]
           entries == One("above", x)
           then == Kept(entries, known)
<1>0. /\ e \in Endpoints /\ t.vendor = "anthropic" /\ t.protocol = "anthropic-messages"
      /\ t.model \in AnthropicModels
    BY ForWhom, EndpointFacts DEF Meets
<1>1. /\ HeardAsAsked(e, name, known, answers) /\ IsSeq(answers) /\ KnownAsKept(e, known)
      /\ Len(answers) \in Nat /\ (answers = <<>> <=> Len(answers) = 0)
    BY HeardOneByOne DEF Meets, HeardAsAsked
<1>2. bytes \in Nat /\ bytes <= 36864
    BY <1>0, AboveLength
<1>3. ASSUME NEW more PROVE Program(name, t, known, more) = cacheAbove(t, more)
  <2> HIDE DEF t
  <2>1. CASE name = "cacheThreshold"
    <3>1. Program("cacheThreshold", t, known, more) = cacheThreshold(t, known, more)
        BY Causes
    <3>2. cacheThreshold(t, known, more) = cacheAbove(t, more)
        BY DEF cacheThreshold
    <3> QED BY <2>1, <3>1, <3>2
  <2>2. CASE name = "cacheInvalidation"
    <3>1. Program("cacheInvalidation", t, known, more) = cacheInvalidation(t, known, more)
        BY Causes
    <3>2. cacheInvalidation(t, known, more) = cacheAbove(t, more)
        BY DEF cacheInvalidation
    <3> QED BY <2>2, <3>1, <3>2
  <2> QED BY <2>1, <2>2
<1>4. /\ ask.do = "ask" /\ ask.tokens \in Nat /\ ask.tokens <= 36944
      /\ ask.bill \in Nat /\ ask.bill <= 36944
      /\ Answers(e, ask) = CacheAnswers(e, "above", TokensOf(e, bytes))
  <2> HIDE DEF bytes
  <2>1. /\ ask.do = "ask" /\ ask.tokens = bytes + 80 /\ ask.bill = bytes + 80
        /\ Answers(e, ask) = CacheAnswers(e, "above", TokensOf(e, bytes))
      BY <1>0, <1>2, CacheIsAsked
  <2> QED BY <1>2, <2>1
<1>5. cacheAbove(t, <<>>) = ask
    BY DEF cacheAbove
<1>6. \A more : more # <<>> => cacheAbove(t, more) = Keep(One("above", more[1]), <<>>)
    BY DEF cacheAbove, One
<1> HIDE DEF ask
<1>7. x \in Answers(e, ask) => KnownAsKept(e, then)
  <2>1. /\ "above" \in DOMAIN entries /\ entries["above"] = x
        /\ \A o \in DOMAIN entries : o = "above"
      BY OneOfOne
  <2> HIDE DEF entries
  <2> QED BY <1>1, <1>4, <2>1, KnownBeside
<1>8. /\ Missing("above", known) = 1 /\ Missing("above", then) = 0
      /\ "above" \in DOMAIN then
    BY MissingBeside, OneOfOne, KeptBeside
<1> HIDE DEF entries, then, bytes
<1>9. Program(name, t, known, <<>>) = ask
    BY <1>3, <1>5
<1>10. \A more : IsSeq(more) /\ more # <<>> => Program(name, t, known, more).do = "keep"
  <2> TAKE more
  <2> HAVE IsSeq(more) /\ more # <<>>
  <2>1. Program(name, t, known, more) = Keep(One("above", more[1]), <<>>)
      BY <1>3, <1>6
  <2> QED BY <2>1 DEF Keep
<1>11. answers # <<>> => Program(name, t, known, answers) = Keep(entries, <<>>)
    BY <1>3, <1>6 DEF entries
<1>12. Due(name, known) \in {2, 3} /\ Due(name, then) = Due(name, known) - 1
    BY <1>8, DueOf
<1>13. ASSUME NEW z
       PROVE  LET left == LeftToCharge(name, known, <<>>) - LeftToCharge(name, known, Append(<<>>, z))
              IN  ask.tokens <= left /\ ask.bill <= left
  <2> DEFINE more == Append(<<>>, z)
             left == LeftToCharge(name, known, <<>>) - LeftToCharge(name, known, more)
  <2>1. Len(more) = 1 /\ more # <<>> /\ Len(<<>>) = 0
      BY OneMore, NothingHeard DEF HeardAsAsked
  <2> HIDE DEF more
  <2>2. left = 36944
    <3>1. CASE name = "cacheThreshold"
      <4>1. LeftToCharge("cacheThreshold", known, <<>>) = 61153
          BY ThresholdLeft
      <4>2. LeftToCharge("cacheThreshold", known, more) = 24209
          BY <2>1, ThresholdLeft
      <4> QED BY <3>1, <4>1, <4>2
    <3>2. CASE name = "cacheInvalidation"
      <4>1. LeftToCharge("cacheInvalidation", known, <<>>) = 110832
          BY <2>1, InvalidationLeft
      <4>2. LeftToCharge("cacheInvalidation", known, more) = 73888
          BY <2>1, InvalidationLeft
      <4> QED BY <3>2, <4>1, <4>2
    <3> QED BY <3>1, <3>2
  <2> HIDE DEF left
  <2>3. ask.tokens <= left /\ ask.bill <= left
      BY <1>4, <2>2
  <2> QED BY <2>3 DEF left, more
<1>14. Len(answers) = 1 => LeftToCharge(name, then, <<>>) <= LeftToCharge(name, known, answers)
  <2> SUFFICES ASSUME Len(answers) = 1
               PROVE  LeftToCharge(name, then, <<>>) <= LeftToCharge(name, known, answers)
      OBVIOUS
  <2>1. Len(<<>>) = 0 /\ answers # <<>>
      BY <1>1
  <2>2. CASE name = "cacheThreshold"
    <3>1. LeftToCharge("cacheThreshold", known, answers) = 24209
        BY <2>1, ThresholdLeft
    <3>2. LeftToCharge("cacheThreshold", then, <<>>) = 24209
        BY <1>8, <2>1, ThresholdLeft
    <3> QED BY <2>2, <3>1, <3>2
  <2>3. CASE name = "cacheInvalidation"
    <3>1. LeftToCharge("cacheInvalidation", known, answers) = 73888
        BY InvalidationLeft
    <3>2. LeftToCharge("cacheInvalidation", then, <<>>) = 73888
        BY <1>8, <2>1, InvalidationLeft
    <3> QED BY <2>3, <3>1, <3>2
  <2> QED BY <2>2, <2>3
<1>15. Due(name, known) \in Nat /\ Due(name, known) >= 1
    BY <1>12
<1>16. answers # <<>> /\ x \in Answers(e, ask) => KnownAsKept(e, Kept(entries, known))
    BY <1>7 DEF then
<1>17. Due(name, Kept(entries, known)) = Due(name, known) - 1
    BY <1>12 DEF then
<1>18. Len(answers) = 1 => LeftToCharge(name, Kept(entries, known), <<>>) <= LeftToCharge(name, known, answers)
    BY <1>14 DEF then
<1> QED BY <1>4, <1>9, <1>10, <1>11, <1>13, <1>15, <1>16, <1>17, <1>18, FirstKeeps

\* What the counts of the first prompt say of the endpoint, and of its length.
LEMMA AboveShows ==
  ASSUME NEW e \in Endpoints, e.target.vendor = "anthropic", NEW x,
         x \in CacheAnswers(e, "above", TokensOf(e, aboveBytes(cacheMinimumTokens[e.target.model])))
  PROVE  /\ e.kind = "vendor" => isReading(x) /\ isCached(x) /\ readTokens(x) = 0
         /\ e.kind = "cheaper" /\ isCached(x) =>
              cacheMinimumTokens[e.model] <= promptTokens(x)
         /\ isReading(x) => promptTokens(x) \in {921, 1843, 3686, 7372, 658, 1316, 2633, 5266}
<1> DEFINE minimum == cacheMinimumTokens[e.target.model]
           bytes == aboveBytes(minimum)
           n == TokensOf(e, bytes)
           least == cacheMinimumTokens[e.model]
<1>1. e.target.model \in AnthropicModels /\ e.model \in AnthropicModels
    BY EndpointFacts
<1>2. minimum \in {512, 1024, 2048, 4096} /\ least \in {512, 1024, 2048, 4096}
    BY <1>1, CacheFacts
<1>3. bytes = 9 * minimum
    BY DEF aboveBytes
<1>4. x \in CacheAnswers(e, "above", n)
    OBVIOUS
<1>5. e.kind = "vendor" => least = minimum
    BY EndpointFacts
<1> HIDE DEF minimum, bytes, least
<1>6. n \in Nat /\ n \in {bytes \div 5, bytes \div 7}
    BY <1>2, <1>3, TokensAreCounted
<1> HIDE DEF n
<1>7. n \in {921, 1843, 3686, 7372, 658, 1316, 2633, 5266} /\ n >= minimum
    BY <1>2, <1>3, <1>6
<1>8. /\ isReading(x) => promptTokens(x) = n
      /\ e.kind \in {"vendor", "cheaper"} => isReading(x) /\ (isCached(x) <=> n >= least)
      /\ e.kind = "vendor" => readTokens(x) \in Nat /\ ("above" # "above-again" => readTokens(x) = 0)
    BY <1>2, <1>4, <1>6, CacheShows DEF least
<1> QED BY <1>5, <1>7, <1>8 DEF least

\* The second prompt is no longer than the planner admitted it for.
LEMMA BelowIsShort ==
  ASSUME NEW t, t.model \in AnthropicModels,
         NEW upper \in {921, 1843, 3686, 7372, 658, 1316, 2633, 5266},
         10 * upper >= 11 * cacheMinimumTokens[t.model]
  PROVE  belowBytes(t, upper) \in Nat /\ belowBytes(t, upper) + 80 <= 24209
<1> DEFINE minimum == cacheMinimumTokens[t.model]
           q == (minimum * aboveBytes(minimum)) \div upper
           below == belowBytes(t, upper)
<1>1. minimum \in {512, 1024, 2048, 4096}
    BY CacheFacts
<1>2. below = (q * 72) \div 100 /\ 10 * upper >= 11 * minimum
    BY DEF belowBytes
<1> HIDE DEF below
<1>3. q \in Nat /\ q <= 33513
  <2>1. q = (9 * minimum * minimum) \div upper
      BY <1>1 DEF aboveBytes
  <2> HIDE DEF q, minimum
  <2>2. CASE minimum = 512
      BY <1>2, <2>1, <2>2
  <2>3. CASE minimum = 1024
      BY <1>2, <2>1, <2>3
  <2>4. CASE minimum = 2048
      BY <1>2, <2>1, <2>4
  <2>5. CASE minimum = 4096
      BY <1>2, <2>1, <2>5
  <2> QED BY <1>1, <2>2, <2>3, <2>4, <2>5
<1> HIDE DEF q, minimum
<1>4. below \in Nat /\ below + 80 <= 24209
    BY <1>2, <1>3
<1> QED BY <1>4 DEF below

\* What the second says.
LEMMA ThresholdSaid ==
  ASSUME NEW e \in Endpoints, e.target.vendor = "anthropic", NEW n \in Nat,
         NEW x \in CacheAnswers(e, "below", n), isReading(x),
         10 * promptTokens(x) <= 9 * cacheMinimumTokens[e.target.model],
         NEW upper, e.kind = "cheaper" => cacheMinimumTokens[e.model] <= upper
  PROVE  /\ isCached(x) => TellsTruly(e, belowCached(e.target, promptTokens(x)))
         /\ ~isCached(x) => TellsTruly(e, thresholdMatches(e.target, upper, promptTokens(x)))
<1> DEFINE t == e.target
           minimum == cacheMinimumTokens[t.model]
           least == cacheMinimumTokens[e.model]
           lower == promptTokens(x)
           below == belowCached(t, lower)
           matches == thresholdMatches(t, upper, lower)
           compatible == {m \in cheaperThan[t.model] : startsBetween(m, lower, upper)}
           w == CASE compatible = cheaperThan[t.model] -> 0
                  [] compatible = {} /\ cheaperThan[t.model] # {} -> -6
                  [] OTHER -> -3
           c == IF \E m \in cheaperThan[t.model] : startsBetween(m, 0, lower) THEN 5 ELSE 0
<1>1. /\ t.model \in AnthropicModels /\ e.model \in AnthropicModels
      /\ e.kind \in {"vendor", "layer"} => e.model = t.model
      /\ e.kind = "cheaper" => e.model \in cheaperThan[t.model]
    BY EndpointFacts
<1>2. minimum \in {512, 1024, 2048, 4096} /\ least \in {512, 1024, 2048, 4096}
    BY <1>1, CacheFacts
<1>3. "documented" \in Calibrations
    BY DEF Calibrations
<1>4. /\ lower = n
      /\ e.kind \in {"vendor", "cheaper"} => (isCached(x) <=> n >= least)
      /\ e.kind = "layer" => (isCached(x) => n >= least)
  <2> HIDE DEF least
  <2>1. least \in Nat /\ least > 0 /\ least = cacheMinimumTokens[e.model]
      BY <1>2 DEF least
  <2> QED BY <2>1, CacheShows
<1>5. isCached(x) /\ e.kind \in {"vendor", "layer"} => FALSE
  <2>1. e.kind \in {"vendor", "layer"} => least = minimum
      BY <1>1
  <2>2. 10 * lower <= 9 * minimum
      OBVIOUS
  <2> HIDE DEF least, minimum, lower
  <2> QED BY <1>2, <1>4, <2>1, <2>2
<1>6. isCached(x) => TellsTruly(e, below)
  <2> SUFFICES ASSUME isCached(x) PROVE TellsTruly(e, below)
      OBVIOUS
  <2>1. below = causalSignal("below-cached", Identities(-10, c, 0, 0))
      BY DEF belowCached
  <2>2. c \in Int /\ 0 <= c /\ c <= 5
      OBVIOUS
  <2> HIDE DEF c, below
  <2>3. TellsTruly(e, Signal("below-cached", "documented", Identities(-10, c, 0, 0)))
      BY <1>3, <1>5, <2>2, IdentitiesSaid
  <2> QED BY <2>1, <2>3 DEF causalSignal
<1>7. ~isCached(x) => TellsTruly(e, matches)
  <2> SUFFICES ASSUME ~isCached(x) PROVE TellsTruly(e, matches)
      OBVIOUS
  <2>1. matches = causalSignal("threshold-matches", Identities(2, w, 0, 0))
      BY DEF thresholdMatches
  <2>2. w \in {0, -6, -3}
      OBVIOUS
  <2>3. e.kind = "cheaper" => w # -6
    <3> SUFFICES ASSUME e.kind = "cheaper" PROVE w # -6
        OBVIOUS
    <3>1. least > lower /\ least <= upper
      <4>1. ~(n >= least) /\ lower = n /\ least <= upper
          BY <1>4
      <4> HIDE DEF least, lower
      <4> QED BY <1>2, <4>1
    <3>2. e.model \in compatible
        BY <1>1, <3>1 DEF startsBetween
    <3>3. compatible # {}
        BY <3>2
    <3> HIDE DEF compatible
    <3> QED BY <3>3
  <2> HIDE DEF w, matches
  <2>4. w \in Int /\ -6 <= w /\ w <= 0 /\ (e.kind = "cheaper" => w >= -3)
      BY <2>2, <2>3
  <2>5. TellsTruly(e, Signal("threshold-matches", "documented", Identities(2, w, 0, 0)))
      BY <1>3, <2>4, IdentitiesSaid
  <2> QED BY <2>1, <2>5 DEF causalSignal
<1> QED BY <1>6, <1>7

\* A probe that tells one thing.
LEMMA OneTold ==
  ASSUME NEW e, NEW s, TellsTruly(e, s)
  PROVE  SaysTruly(e, {s})
<1> DEFINE told == {s}
<1>1. (\A a \in told : TellsTruly(e, a)) /\ (\A a, b \in told : a = b)
    OBVIOUS
<1> HIDE DEF told
<1>2. SaysTruly(e, told)
    BY <1>1, OneSaid
<1> QED BY <1>2 DEF told

\* cache-threshold: a prompt above the documented minimum and one below it.
LEMMA cacheThresholdKeeps ==
  ASSUME NEW e, NEW known, NEW answers, Meets(e, "cacheThreshold", known, answers)
  PROVE  Keeps(e, "cacheThreshold", known, answers)
<1> DEFINE t == e.target
           name == "cacheThreshold"
           minimum == cacheMinimumTokens[t.model]
           x == known.above
           y == answers[1]
           upper == promptTokens(x)
           bytes == belowBytes(t, upper)
           ask == cacheRequest(t, "below", bytes)
           uncached == causalSignal("above-not-cached", [Identities(-3, 0, 0, 0) EXCEPT !.translated = 3])
           short == ~isReading(x) \/ 10 * upper < 11 * minimum
           long == ~isReading(y) \/ 10 * promptTokens(y) > 9 * minimum
<1>0. /\ e \in Endpoints /\ t.vendor = "anthropic" /\ t.protocol = "anthropic-messages"
      /\ t.model \in AnthropicModels /\ minimum \in {512, 1024, 2048, 4096}
    BY ForWhom, EndpointFacts, CacheFacts DEF Meets
<1>1. /\ HeardAsAsked(e, name, known, answers) /\ IsSeq(answers) /\ KnownAsKept(e, known)
      /\ Len(answers) \in Nat /\ (answers = <<>> <=> Len(answers) = 0) /\ Len(answers) <= Due(name, known)
    BY HeardOneByOne DEF Meets, HeardAsAsked
<1>2. \A more : Program(name, t, known, more) = cacheThreshold(t, known, more)
    BY Causes
<1>3. CASE "above" \notin DOMAIN known
    BY <1>3, AboveKeeps
<1>4. CASE "above" \in DOMAIN known
  <2>1. x \in CacheAnswers(e, "above", TokensOf(e, aboveBytes(minimum)))
      BY <1>1, <1>4 DEF KnownAsKept
  <2>2. /\ e.kind = "vendor" => isReading(x) /\ isCached(x) /\ readTokens(x) = 0
        /\ e.kind = "cheaper" /\ isCached(x) => cacheMinimumTokens[e.model] <= upper
        /\ isReading(x) => upper \in {921, 1843, 3686, 7372, 658, 1316, 2633, 5266}
      BY <1>0, <2>1, AboveShows
  <2>3. Due(name, known) = 1
      BY <1>4, DueOf DEF Missing
  <2>4. CASE short
    <3>1. Program(name, t, known, answers) = Say({})
        BY <1>2, <1>4, <2>4 DEF cacheThreshold
    <3> QED BY <3>1, NothingSaid, SayingKeeps
  <2>5. CASE ~short /\ ~isCached(x)
    <3>1. Program(name, t, known, answers) = Say({uncached})
        BY <1>2, <1>4, <2>5 DEF cacheThreshold
    <3>2. [Identities(-3, 0, 0, 0) EXCEPT !.translated = 3] = Weight(-3, 0, 0, 0, 0, 0, 0, 3)
        BY DEF Weight, Identities, Neutral, Findings
    <3>3. "documented" \in Calibrations
        BY DEF Calibrations
    <3>4. TellsTruly(e, Signal("above-not-cached", "documented", Weight(-3, 0, 0, 0, 0, 0, 0, 3)))
        BY <2>2, <2>5, <3>3, WeightTells
    <3>5. TellsTruly(e, uncached)
        BY <3>2, <3>4 DEF causalSignal
    <3> HIDE DEF uncached
    <3>6. SaysTruly(e, {uncached})
        BY <3>5, OneTold
    <3> QED BY <3>1, <3>6, SayingKeeps
  <2>6. ASSUME ~short, isCached(x)
        PROVE  /\ Program(name, t, known, <<>>) = ask
               /\ ask.do = "ask" /\ ask.tokens \in Nat /\ ask.tokens <= 24209
               /\ ask.bill \in Nat /\ ask.bill <= 24209
               /\ bytes \in Nat /\ Answers(e, ask) = CacheAnswers(e, "below", TokensOf(e, bytes))
    <3>1. Program(name, t, known, <<>>) = ask
        BY <1>2, <1>4, <2>6 DEF cacheThreshold
    <3>2. bytes \in Nat /\ bytes + 80 <= 24209
      <4>1. isReading(x) /\ ~(10 * upper < 11 * minimum)
          BY <2>6
      <4>2. upper \in {921, 1843, 3686, 7372, 658, 1316, 2633, 5266}
          BY <2>2, <4>1
      <4>3. 10 * upper >= 11 * minimum
        <5> HIDE DEF upper, minimum
        <5> QED BY <1>0, <4>1, <4>2
      <4> QED BY <1>0, <4>2, <4>3, BelowIsShort
    <3> HIDE DEF bytes
    <3>3. /\ ask.do = "ask" /\ ask.tokens = bytes + 80 /\ ask.bill = bytes + 80
          /\ Answers(e, ask) = CacheAnswers(e, "below", TokensOf(e, bytes))
        BY <1>0, <3>2, CacheIsAsked
    <3> HIDE DEF ask
    <3> QED BY <3>1, <3>2, <3>3
  <2>7. CASE ~short /\ isCached(x) /\ answers = <<>>
    <3>1. ASSUME NEW z
          PROVE  LET left == LeftToCharge(name, known, answers)
                              - LeftToCharge(name, known, Append(answers, z))
                 IN  ask.tokens <= left /\ ask.bill <= left
      <4> DEFINE more == Append(answers, z)
      <4>1. Len(more) = 1 /\ Len(answers) = 0
          BY <1>1, <2>7, OneMore
      <4> HIDE DEF more, ask
      <4>2. LeftToCharge(name, known, answers) = 24209 /\ LeftToCharge(name, known, more) = 0
          BY <1>4, <4>1, ThresholdLeft
      <4>3. ask.tokens \in Nat /\ ask.tokens <= 24209 /\ ask.bill \in Nat /\ ask.bill <= 24209
          BY <2>6, <2>7
      <4> QED BY <4>2, <4>3 DEF more
    <3>2. Program(name, t, known, answers) = ask
        BY <2>6, <2>7
    <3>3. ask.do = "ask" /\ ask.tokens \in Nat /\ ask.bill \in Nat
        BY <2>6, <2>7
    <3>4. Len(answers) < Due(name, known)
        BY <1>1, <2>3, <2>7
    <3> HIDE DEF ask
    <3> QED BY <3>1, <3>2, <3>3, <3>4 DEF Keeps
  <2>8. CASE ~short /\ isCached(x) /\ answers # <<>> /\ long
    <3>1. Program(name, t, known, answers) = Say({})
        BY <1>2, <1>4, <2>8 DEF cacheThreshold
    <3> QED BY <3>1, NothingSaid, SayingKeeps
  <2>9. CASE ~short /\ isCached(x) /\ answers # <<>> /\ ~long
    <3> DEFINE n == TokensOf(e, bytes)
               lower == promptTokens(y)
               cached == belowCached(t, lower)
               matches == thresholdMatches(t, upper, lower)
    <3>1. Program(name, t, known, answers) = IF isCached(y) THEN Say({cached}) ELSE Say({matches})
        BY <1>2, <1>4, <2>9 DEF cacheThreshold
    <3>2. y \in Answers(e, ask)
        BY <1>1, <2>6, <2>9, FirstHeard
    <3>3. y \in CacheAnswers(e, "below", n) /\ n \in Nat
      <4> HIDE DEF ask, bytes
      <4> QED BY <2>6, <2>9, <3>2, TokensAreCounted
    <3>4. isReading(y) /\ ~(10 * lower > 9 * minimum)
        BY <2>9
    <3>5. 10 * lower <= 9 * minimum
      <4>1. cacheMinimumTokens[e.model] \in {512, 1024, 2048, 4096}
          BY <1>0, EndpointFacts, CacheFacts
      <4> DEFINE least == cacheMinimumTokens[e.model]
      <4>2. least \in Nat /\ least > 0
          BY <4>1
      <4> HIDE DEF n, least
      <4>3. lower = n
          BY <3>3, <3>4, <4>2, CacheShows DEF least
      <4> HIDE DEF lower, minimum
      <4> QED BY <1>0, <3>3, <3>4, <4>3
    <3>6. e.kind = "cheaper" => cacheMinimumTokens[e.model] <= upper
        BY <2>2, <2>9
    <3> HIDE DEF n
    <3>7. (isCached(y) => TellsTruly(e, cached)) /\ (~isCached(y) => TellsTruly(e, matches))
        BY <1>0, <3>3, <3>4, <3>5, <3>6, ThresholdSaid
    <3> HIDE DEF cached, matches
    <3>8. CASE isCached(y)
      <4>1. SaysTruly(e, {cached})
          BY <3>7, <3>8, OneTold
      <4> QED BY <3>1, <3>8, <4>1, SayingKeeps
    <3>9. CASE ~isCached(y)
      <4>1. SaysTruly(e, {matches})
          BY <3>7, <3>9, OneTold
      <4> QED BY <3>1, <3>9, <4>1, SayingKeeps
    <3> QED BY <3>8, <3>9
  <2> QED BY <2>4, <2>5, <2>7, <2>8, <2>9
<1> QED BY <1>3, <1>4

\* cache-invalidation: the first prompt again, and once more with its start changed.
LEMMA cacheInvalidationKeeps ==
  ASSUME NEW e, NEW known, NEW answers, Meets(e, "cacheInvalidation", known, answers)
  PROVE  Keeps(e, "cacheInvalidation", known, answers)
<1> DEFINE t == e.target
           name == "cacheInvalidation"
           minimum == cacheMinimumTokens[t.model]
           bytes == aboveBytes(minimum)
           n == TokensOf(e, bytes)
           x == known.above
           y == answers[1]
           z == answers[2]
           again == cacheRequest(t, "above-again", bytes)
           changed == cacheRequest(t, "above-changed", bytes)
           gain == readTokens(y) - readTokens(x)
           hit == causalSignal("changed-prefix-hit", [Identities(-5, 0, 0, 0) EXCEPT !.translated = 8])
           miss == causalSignal("changed-prefix-miss", Neutral)
           none == ~isReading(x) \/ ~isCached(x)
           unread == ~isReading(y) \/ 2 * gain < promptTokens(x) - readTokens(x)
           isHit == 2 * (readTokens(z) - readTokens(x)) > gain /\ 2 * writtenTokens(z) < minimum
<1>0. /\ e \in Endpoints /\ t.vendor = "anthropic" /\ t.protocol = "anthropic-messages"
      /\ t.model \in AnthropicModels /\ e.model \in AnthropicModels
      /\ minimum \in {512, 1024, 2048, 4096} /\ cacheMinimumTokens[e.model] \in {512, 1024, 2048, 4096}
    BY ForWhom, EndpointFacts, CacheFacts DEF Meets
<1>1. /\ HeardAsAsked(e, name, known, answers) /\ IsSeq(answers) /\ KnownAsKept(e, known)
      /\ Len(answers) \in Nat /\ (answers = <<>> <=> Len(answers) = 0) /\ Len(answers) <= Due(name, known)
    BY HeardOneByOne DEF Meets, HeardAsAsked
<1>2. \A more : Program(name, t, known, more) = cacheInvalidation(t, known, more)
    BY Causes
<1>3. bytes \in Nat /\ bytes <= 36864
    BY <1>0, AboveLength
<1>4. /\ again.do = "ask" /\ again.tokens = bytes + 80 /\ again.bill = bytes + 80
      /\ Answers(e, again) = CacheAnswers(e, "above-again", n)
      /\ changed.do = "ask" /\ changed.tokens = bytes + 80 /\ changed.bill = bytes + 80
      /\ Answers(e, changed) = CacheAnswers(e, "above-changed", n)
  <2> HIDE DEF bytes
  <2>1. /\ again.do = "ask" /\ again.tokens = bytes + 80 /\ again.bill = bytes + 80
        /\ Answers(e, again) = CacheAnswers(e, "above-again", n)
      BY <1>0, <1>3, CacheIsAsked
  <2>2. /\ changed.do = "ask" /\ changed.tokens = bytes + 80 /\ changed.bill = bytes + 80
        /\ Answers(e, changed) = CacheAnswers(e, "above-changed", n)
      BY <1>0, <1>3, CacheIsAsked
  <2> QED BY <2>1, <2>2
<1>5. CASE "above" \notin DOMAIN known
    BY <1>5, AboveKeeps
<1>6. CASE "above" \in DOMAIN known /\ none
  <2>1. Program(name, t, known, answers) = Say({})
      BY <1>2, <1>6 DEF cacheInvalidation
  <2> QED BY <2>1, NothingSaid, SayingKeeps
<1>7. CASE "above" \in DOMAIN known /\ ~none
  <2>1. Program(name, t, known, <<>>) = again
      BY <1>2, <1>7 DEF cacheInvalidation
  <2>2. Due(name, known) = 2
      BY <1>7, DueOf DEF Missing
  <2>3. \A a : Len(Append(answers, a)) = Len(answers) + 1
      BY <1>1, OneMore
  <2>4. CASE answers = <<>>
    <3>1. ASSUME NEW a
          PROVE  LET left == LeftToCharge(name, known, answers)
                              - LeftToCharge(name, known, Append(answers, a))
                 IN  again.tokens <= left /\ again.bill <= left
      <4> DEFINE more == Append(answers, a)
      <4>1. Len(more) = 1 /\ Len(answers) = 0
          BY <1>1, <2>3, <2>4
      <4> HIDE DEF more, again, bytes
      <4>2. LeftToCharge(name, known, answers) = 73888 /\ LeftToCharge(name, known, more) = 36944
          BY <1>7, <4>1, InvalidationLeft
      <4> QED BY <1>3, <1>4, <4>2 DEF more
    <3>2. Program(name, t, known, answers) = again
        BY <2>1, <2>4
    <3>3. Len(answers) < Due(name, known)
        BY <1>1, <2>2, <2>4
    <3> HIDE DEF again, bytes
    <3>4. again.do = "ask" /\ again.tokens \in Nat /\ again.bill \in Nat
        BY <1>3, <1>4
    <3> QED BY <3>1, <3>2, <3>3, <3>4 DEF Keeps
  <2>5. CASE answers # <<>> /\ unread
    <3>1. Program(name, t, known, answers) = Say({})
        BY <1>2, <1>7, <2>5 DEF cacheInvalidation
    <3> QED BY <3>1, NothingSaid, SayingKeeps
  <2>6. CASE answers # <<>> /\ ~unread /\ Len(answers) = 1
    <3>1. ASSUME NEW a
          PROVE  LET left == LeftToCharge(name, known, answers)
                              - LeftToCharge(name, known, Append(answers, a))
                 IN  changed.tokens <= left /\ changed.bill <= left
      <4> DEFINE more == Append(answers, a)
      <4>1. Len(more) = 2
          BY <2>3, <2>6
      <4> HIDE DEF more, changed, bytes
      <4>2. LeftToCharge(name, known, answers) = 36944 /\ LeftToCharge(name, known, more) = 0
          BY <1>7, <2>6, <4>1, InvalidationLeft
      <4> QED BY <1>3, <1>4, <4>2 DEF more
    <3>2. Program(name, t, known, answers) = changed
        BY <1>2, <1>7, <2>6 DEF cacheInvalidation
    <3>3. Len(answers) < Due(name, known)
        BY <2>2, <2>6
    <3> HIDE DEF changed, bytes
    <3>4. changed.do = "ask" /\ changed.tokens \in Nat /\ changed.bill \in Nat
        BY <1>3, <1>4
    <3> QED BY <3>1, <3>2, <3>3, <3>4 DEF Keeps
  <2>7. CASE answers # <<>> /\ ~unread /\ Len(answers) # 1
    <3>1. Len(answers) = 2
      <4>1. \A l \in Nat : l # 0 /\ l # 1 /\ l <= 2 => l = 2
          OBVIOUS
      <4> QED BY <1>1, <2>2, <2>7, <4>1
    <3>2. Program(name, t, known, answers) =
            IF ~isReading(z) THEN Say({}) ELSE IF isHit THEN Say({hit}) ELSE Say({miss})
        BY <1>2, <1>7, <2>7 DEF cacheInvalidation
    <3>3. y \in CacheAnswers(e, "above-again", n)
      <4>1. y \in Answers(e, again)
          BY <1>1, <2>1, <2>7, FirstHeard
      <4> HIDE DEF again
      <4> QED BY <1>4, <4>1
    <3>4. z \in CacheAnswers(e, "above-changed", n)
      <4>1. Program(name, t, known, <<y>>) = changed
        <5> DEFINE one == <<y>>
        <5>1. one # <<>> /\ one[1] = y /\ Len(one) = 1
            OBVIOUS
        <5> HIDE DEF one
        <5>2. Program(name, t, known, one) = changed
            BY <1>2, <1>7, <2>7, <5>1 DEF cacheInvalidation
        <5> QED BY <5>2 DEF one
      <4>2. z \in Answers(e, changed)
          BY <1>1, <3>1, <4>1, HeardOneByOne
      <4> HIDE DEF changed
      <4> QED BY <1>4, <4>2
    <3>5. e.kind = "vendor" => ~isHit
      <4> SUFFICES ASSUME e.kind = "vendor" PROVE ~isHit
          OBVIOUS
      <4>1. readTokens(x) = 0
        <5>1. x \in CacheAnswers(e, "above", n)
            BY <1>1, <1>7 DEF KnownAsKept
        <5> QED BY <1>0, <5>1, AboveShows
      <4> DEFINE least == cacheMinimumTokens[e.model]
      <4>2. least \in Nat /\ least > 0 /\ n \in Nat
        <5> HIDE DEF bytes
        <5> QED BY <1>0, <1>3, TokensAreCounted
      <4> HIDE DEF least, n
      <4>3. readTokens(y) \in Nat
          BY <3>3, <4>2, CacheShows DEF least
      <4>4. readTokens(z) = 0
        <5>1. "above-changed" # "above-again"
            OBVIOUS
        <5> QED BY <3>4, <4>2, <5>1, CacheShows DEF least
      <4> QED BY <4>1, <4>3, <4>4
    <3>6. e.kind # "vendor" => TellsTruly(e, hit)
      <4>1. [Identities(-5, 0, 0, 0) EXCEPT !.translated = 8] = Weight(-5, 0, 0, 0, 0, 0, 0, 8)
          BY DEF Weight, Identities, Neutral, Findings
      <4>2. "documented" \in Calibrations
          BY DEF Calibrations
      <4>3. e.kind # "vendor" =>
              TellsTruly(e, Signal("changed-prefix-hit", "documented", Weight(-5, 0, 0, 0, 0, 0, 0, 8)))
          BY <4>2, WeightTells
      <4> QED BY <4>1, <4>3 DEF causalSignal
    <3>7. TellsTruly(e, miss)
        BY NeutralSaid DEF causalSignal, Calibrations
    <3> HIDE DEF hit, miss, isHit
    <3>8. CASE ~isReading(z)
        BY <3>2, <3>8, NothingSaid, SayingKeeps
    <3>9. CASE isReading(z) /\ isHit
      <4>1. SaysTruly(e, {hit})
          BY <3>5, <3>6, <3>9, OneTold
      <4> QED BY <3>2, <3>9, <4>1, SayingKeeps
    <3>10. CASE isReading(z) /\ ~isHit
      <4>1. SaysTruly(e, {miss})
          BY <3>7, OneTold
      <4> QED BY <3>2, <3>10, <4>1, SayingKeeps
    <3> QED BY <3>8, <3>9, <3>10
  <2> QED BY <2>4, <2>5, <2>6, <2>7
<1> QED BY <1>5, <1>6, <1>7

---------------------------------------------------------------------------
(* The smallest output limit *)

\* The answers before each answer, and what it was asked for.
LEMMA HeardAt ==
  ASSUME NEW e, NEW name, NEW known, NEW answers, HeardAsAsked(e, name, known, answers),
         NEW n \in 1 .. Len(answers)
  PROVE  LET before == SubSeq(answers, 1, n - 1) IN
         /\ IsSeq(before) /\ Len(before) = n - 1 /\ \A i \in 1 .. n - 1 : before[i] = answers[i]
         /\ Program(name, e.target, known, before).do = "ask"
         /\ answers[n] \in Answers(e, Program(name, e.target, known, before))
<1>1. PICK X : answers \in Seq(X)
    BY DEF HeardAsAsked, IsSeq
<1> DEFINE before == SubSeq(answers, 1, n - 1)
<1>2. Len(answers) \in Nat
    BY <1>1
<1>3. n - 1 \in 0 .. Len(answers)
    BY <1>2
<1>4. before \in Seq(X) /\ Len(before) = n - 1 /\ \A i \in 1 .. n - 1 : before[i] = answers[i]
    BY <1>1, <1>3, SubSeqProperties
<1>5. /\ Program(name, e.target, known, before).do = "ask"
      /\ answers[n] \in Answers(e, Program(name, e.target, known, before))
    BY DEF HeardAsAsked
<1> HIDE DEF before
<1>6. /\ IsSeq(before) /\ Len(before) = n - 1 /\ \A i \in 1 .. n - 1 : before[i] = answers[i]
      /\ Program(name, e.target, known, before).do = "ask"
      /\ answers[n] \in Answers(e, Program(name, e.target, known, before))
    BY <1>4, <1>5 DEF IsSeq
<1> QED BY <1>6 DEF before

\* One answer is heard as asked when it is one to the first request.
LEMMA OneHeard ==
  ASSUME NEW e, NEW name, NEW known, NEW one, IsSeq(one), Len(one) = 1,
         Program(name, e.target, known, <<>>).do = "ask",
         one[1] \in Answers(e, Program(name, e.target, known, <<>>))
  PROVE  HeardAsAsked(e, name, known, one)
<1>1. PICK X : one \in Seq(X)
    BY DEF IsSeq
<1>2. SubSeq(one, 1, 0) = <<>>
    BY <1>1
<1>3. ASSUME NEW n \in 1 .. Len(one)
      PROVE  LET then == Program(name, e.target, known, SubSeq(one, 1, n - 1))
             IN  then.do = "ask" /\ one[n] \in Answers(e, then)
  <2>1. n = 1 /\ n - 1 = 0
      OBVIOUS
  <2>2. SubSeq(one, 1, n - 1) = <<>>
      BY <1>2, <2>1
  <2> QED BY <2>1, <2>2
<1> QED BY <1>3 DEF HeardAsAsked

\* A generation asked for at a limit.
LEMMA SendAtAsks ==
  ASSUME NEW t, NEW prompt, prompt.bytes \in Nat, NEW limit \in {1, 16}
  PROVE  LET ask == sendAt(t, prompt, limit) IN
         /\ ask.do = "ask" /\ ask.request = prompt.name /\ ask.limit = limit
         /\ ask.tokens \in Nat /\ ask.tokens <= prompt.bytes + 80
         /\ ask.bill \in Nat /\ ask.bill <= prompt.bytes + 80
<1> DEFINE g == generationRequest(t, prompt.name, prompt.bytes, limit)
<1>1. /\ g.do = "ask" /\ g.request = prompt.name /\ g.tokens = prompt.bytes + 64 + limit
      /\ g.bill = IF t.protocol = "openai-responses" /\ limit < 16
                  THEN prompt.bytes + 64 + 16 ELSE prompt.bytes + 64 + limit
    BY GenerationIsAsked
<1>2. g = [do |-> g.do, request |-> g.request, limit |-> g.limit, tokens |-> g.tokens, bill |-> g.bill]
    BY DEF generationRequest, Ask
<1> HIDE DEF g
<1> DEFINE ask == sendAt(t, prompt, limit)
<1>3. /\ ask.do = "ask" /\ ask.request = prompt.name /\ ask.limit = limit
      /\ ask.tokens = g.tokens /\ ask.bill = g.bill
    BY <1>1, <1>2 DEF sendAt, g
<1> HIDE DEF ask
<1>4. /\ ask.do = "ask" /\ ask.request = prompt.name /\ ask.limit = limit
      /\ ask.tokens \in Nat /\ ask.tokens <= prompt.bytes + 80
      /\ ask.bill \in Nat /\ ask.bill <= prompt.bytes + 80
    BY <1>1, <1>3
<1> QED BY <1>4 DEF ask

\* The limit that is kept.
FloorOf(limit, refused) == One("floor", [limit |-> limit, refused |-> refused])

\* It is kept beside everything else, which stays as it was.
LEMMA FloorIsKept ==
  ASSUME NEW e, NEW known, KnownAsKept(e, known), "floor" \notin DOMAIN known,
         NEW limit \in {1, 16}, NEW refused
  PROVE  LET then == Kept(FloorOf(limit, refused), known) IN
         /\ KnownAsKept(e, then)
         /\ "floor" \in DOMAIN then /\ then.floor.limit = limit
         /\ \A o : o # "floor" => (o \in DOMAIN then <=> o \in DOMAIN known)
<1> DEFINE entries == FloorOf(limit, refused)
           then == Kept(entries, known)
<1>1. /\ "floor" \in DOMAIN entries /\ entries["floor"].limit = limit
      /\ \A o \in DOMAIN entries : o = "floor"
    BY OneOfOne DEF FloorOf
<1> HIDE DEF entries
<1>2. KnownAsKept(e, then)
    BY <1>1, KnownBeside
<1>3. /\ "floor" \in DOMAIN then /\ then["floor"] = entries["floor"]
      /\ \A o : o # "floor" => (o \in DOMAIN then <=> o \in DOMAIN known)
    BY <1>1, KeptBeside
<1> HIDE DEF then
<1>4. /\ KnownAsKept(e, then) /\ "floor" \in DOMAIN then /\ then.floor.limit = limit
      /\ \A o : o # "floor" => (o \in DOMAIN then <=> o \in DOMAIN known)
    BY <1>1, <1>2, <1>3
<1> QED BY <1>4 DEF then, entries

\* One answer.
Alone(x) == Append(<<>>, x)

\* It is a sequence of one.
LEMMA AloneIsOne ==
  ASSUME NEW x
  PROVE  IsSeq(Alone(x)) /\ Len(Alone(x)) = 1 /\ Alone(x)[1] = x
<1>1. IsSeq(<<>>) /\ Len(<<>>) = 0
    BY NothingHeard DEF HeardAsAsked
<1> DEFINE none == <<>>
<1> HIDE DEF none
<1>2. IsSeq(none) /\ Len(none) = 0
    BY <1>1 DEF none
<1>3. LET one == Append(none, x) IN IsSeq(one) /\ Len(one) = 1 /\ one[1] = x
  <2>1. /\ IsSeq(Append(none, x)) /\ Len(Append(none, x)) = Len(none) + 1
        /\ Append(none, x)[Len(none) + 1] = x
      BY <1>2, OneMore
  <2>2. Len(none) + 1 = 1
      BY <1>2
  <2> QED BY <2>1, <2>2
<1> QED BY <1>3 DEF Alone, none

\* What finding it is made of, for the first generation a probe waits for.
FloorGoes(t, prompt, s, answers, next) ==
  /\ s \in {1, 16}
  /\ Len(answers) = 0 => next = sendAt(t, prompt, s)
  /\ Len(answers) >= 1 /\ (answers[1].status # 400 \/ s = 16) => next = Keep(FloorOf(s, None), answers)
  /\ Len(answers) = 1 /\ answers[1].status = 400 /\ s # 16 => next = sendAt(t, prompt, 16)
  /\ Len(answers) >= 2 /\ answers[1].status = 400 /\ s # 16 =>
       \/ next = Keep(FloorOf(16, s), Alone(answers[2]))
       \/ next = Keep(FloorOf(s, None), Alone(answers[1]))

\* The search (probes/output-floor.ts) goes that way, whatever the answers.
LEMMA FloorSteps ==
  ASSUME NEW t, NEW known, "floor" \notin DOMAIN known, NEW answers, IsSeq(answers), NEW prompt
  PROVE  FloorGoes(t, prompt, smallestOutputLimit(t), answers,
                   sendAtOutputFloor(t, known, answers, 1, prompt))
<1> DEFINE s == smallestOutputLimit(t)
           next == sendAtOutputFloor(t, known, answers, 1, prompt)
<1>1. s \in {1, 16} /\ MAX_OUTPUT_FLOOR = 16
    BY DEF smallestOutputLimit, RESPONSES_MIN_OUTPUT_TOKENS, MAX_OUTPUT_FLOOR
<1>2. \A l, r : Floor(l, r) = FloorOf(l, r)
    BY DEF Floor, FloorOf, One
<1>3. PICK X : answers \in Seq(X)
    BY DEF IsSeq
<1>4. SubSeq(answers, 1, 1 - 1) = <<>> /\ Len(answers) \in Nat
    BY <1>3
<1>5. Len(answers) = 0 => next = sendAt(t, prompt, s)
    BY DEF sendAtOutputFloor
<1>6. Len(answers) >= 1 /\ (answers[1].status # 400 \/ s = 16) => next = Keep(FloorOf(s, None), answers)
    BY <1>1, <1>2, <1>4 DEF sendAtOutputFloor
<1>7. Len(answers) = 1 /\ answers[1].status = 400 /\ s # 16 => next = sendAt(t, prompt, 16)
    BY <1>1, <1>4 DEF sendAtOutputFloor
<1>8. ASSUME Len(answers) >= 2, answers[1].status = 400, s # 16
      PROVE  \/ next = Keep(FloorOf(16, s), Append(<<>>, answers[2]))
             \/ next = Keep(FloorOf(s, None), Append(<<>>, answers[1]))
  <2>0. Len(answers) \in Nat
      BY <1>3
  <2>1. ~(Len(answers) < 1) /\ Len(answers) # 1 /\ ~(s >= 16) /\ 1 + 1 = 2
    <3>1. \A l \in Nat : l >= 2 => ~(l < 1) /\ l # 1
        OBVIOUS
    <3>2. \A l \in {1, 16} : l # 16 => ~(l >= 16)
        OBVIOUS
    <3> HIDE DEF s
    <3> QED BY <1>1, <1>8, <2>0, <3>1, <3>2
  <2>2. next = IF isSuccess(answers[1 + 1]) /\ answers[1 + 1].generates
               THEN Keep(Floor(16, s), Append(SubSeq(answers, 1, 1 - 1), answers[1 + 1]))
               ELSE Keep(Floor(s, None), Append(SubSeq(answers, 1, 1 - 1), answers[1]))
      BY <2>1, <1>1, <1>8 DEF sendAtOutputFloor
  <2> HIDE DEF next
  <2>3. next = IF isSuccess(answers[2]) /\ answers[2].generates
               THEN Keep(FloorOf(16, s), Append(<<>>, answers[2]))
               ELSE Keep(FloorOf(s, None), Append(<<>>, answers[1]))
      BY <2>1, <2>2, <1>2, <1>4
  <2> QED BY <2>3
<1> HIDE DEF s, next
<1>9. FloorGoes(t, prompt, s, answers, next)
    BY <1>1, <1>5, <1>6, <1>7, <1>8 DEF FloorGoes, Alone
<1> QED BY <1>9 DEF s, next

\* A probe that asks for what is still due, and one that keeps an answer.
LEMMA AskingKeeps ==
  ASSUME NEW e, NEW name, NEW known, NEW answers, NEW ask,
         Program(name, e.target, known, answers) = ask, ask.do = "ask",
         ask.tokens \in Nat, ask.bill \in Nat, Len(answers) < Due(name, known),
         \A x : LET left == LeftToCharge(name, known, answers)
                              - LeftToCharge(name, known, Append(answers, x))
                IN  ask.tokens <= left /\ ask.bill <= left
  PROVE  Keeps(e, name, known, answers)
<1>1. ask.do # "keep" /\ ask.do # "say"
    OBVIOUS
<1> QED BY <1>1 DEF Keeps

\* What it keeps must be well kept, leave answers heard as asked, and leave no more to
\* send.
LEMMA KeepingKeeps ==
  ASSUME NEW e, NEW name, NEW known, NEW answers, NEW entries, NEW left,
         Program(name, e.target, known, answers) = Keep(entries, left),
         KnownAsKept(e, Kept(entries, known)), HeardAsAsked(e, name, Kept(entries, known), left),
         Len(left) <= Due(name, Kept(entries, known)),
         Due(name, Kept(entries, known)) - Len(left) <= Due(name, known) - Len(answers),
         LeftToCharge(name, Kept(entries, known), left) <= LeftToCharge(name, known, answers)
  PROVE  Keeps(e, name, known, answers)
<1> DEFINE next == Keep(entries, left)
<1>1. next.do = "keep" /\ next.entries = entries /\ next.heard = left
    BY DEF Keep
<1> HIDE DEF next
<1>2. next.do # "ask" /\ next.do # "say"
    BY <1>1
<1>3. Program(name, e.target, known, answers) = next
    BY DEF next
<1> QED BY <1>1, <1>2, <1>3 DEF Keeps

\* A probe that waits for a generation, with the smallest limit not found yet: it
\* then waits for one more, and every generation is charged as much.
AsksAtFloor(e, name, known, prompt) ==
  /\ \A more : IsSeq(more) =>
       Program(name, e.target, known, more) = sendAtOutputFloor(e.target, known, more, 1, prompt)
  /\ \A limit \in {1, 16} : \A refused :
       Program(name, e.target, Kept(FloorOf(limit, refused), known), <<>>) =
         sendAt(e.target, prompt, limit)

FloorIsDue(name, known) ==
  /\ Due(name, known) \in Nat /\ Due(name, known) >= 2
  /\ \A limit, refused : Due(name, Kept(FloorOf(limit, refused), known)) = Due(name, known) - 1

SpendsEach(name, known, each) ==
  \A a : IsSeq(a) =>
    \A x : LeftToCharge(name, known, a) - LeftToCharge(name, known, Append(a, x)) = each

FloorSpendsLess(name, known) ==
  \A limit, refused, a, b :
    IsSeq(a) /\ IsSeq(b) /\ Len(a) \in {1, 2} /\ Len(b) = 1 =>
      LeftToCharge(name, Kept(FloorOf(limit, refused), known), b) <= LeftToCharge(name, known, a)

\* It asks within what is left,
LEMMA AtFloorAsks ==
  ASSUME NEW e, NEW name, NEW known, NEW answers, HeardAsAsked(e, name, known, answers),
         NEW prompt, prompt.bytes \in Nat, NEW each \in Int, prompt.bytes + 80 <= each,
         NEW limit \in {1, 16}, Program(name, e.target, known, answers) = sendAt(e.target, prompt, limit),
         SpendsEach(name, known, each), Len(answers) < Due(name, known)
  PROVE  Keeps(e, name, known, answers)
<1> DEFINE ask == sendAt(e.target, prompt, limit)
<1>1. /\ ask.do = "ask" /\ ask.tokens \in Nat /\ ask.tokens <= prompt.bytes + 80
      /\ ask.bill \in Nat /\ ask.bill <= prompt.bytes + 80
    BY SendAtAsks
<1>2. Program(name, e.target, known, answers) = ask
    OBVIOUS
<1> HIDE DEF ask
<1>3. ask.tokens <= each /\ ask.bill <= each
    BY <1>1
<1>4. IsSeq(answers)
    BY DEF HeardAsAsked
<1>5. ASSUME NEW x
      PROVE  LET left == LeftToCharge(name, known, answers)
                           - LeftToCharge(name, known, Append(answers, x))
             IN  ask.tokens <= left /\ ask.bill <= left
  <2>1. LeftToCharge(name, known, answers) - LeftToCharge(name, known, Append(answers, x)) = each
      BY <1>4 DEF SpendsEach
  <2> QED BY <1>3, <2>1
<1> QED BY <1>1, <1>2, <1>5, AskingKeeps

\* and what it keeps goes on as if it had been the limit from the start.
LEMMA AtFloorKeeps ==
  ASSUME NEW e, NEW name, NEW known, NEW answers, HeardAsAsked(e, name, known, answers),
         KnownAsKept(e, known), "floor" \notin DOMAIN known,
         NEW prompt, AsksAtFloor(e, name, known, prompt),
         FloorIsDue(name, known), FloorSpendsLess(name, known),
         NEW limit \in {1, 16}, NEW refused, NEW left, IsSeq(left), Len(left) = 1,
         Len(answers) \in {1, 2}, prompt.bytes \in Nat,
         Program(name, e.target, known, answers) = Keep(FloorOf(limit, refused), left),
         left[1] \in Answers(e, sendAt(e.target, prompt, limit))
  PROVE  Keeps(e, name, known, answers)
<1> DEFINE entries == FloorOf(limit, refused)
           then == Kept(entries, known)
<1>1. KnownAsKept(e, then)
    BY FloorIsKept
<1>2. Program(name, e.target, then, <<>>) = sendAt(e.target, prompt, limit)
    BY DEF AsksAtFloor
<1>3. sendAt(e.target, prompt, limit).do = "ask"
    BY SendAtAsks
<1>4. Due(name, then) = Due(name, known) - 1 /\ Due(name, known) \in Nat /\ Due(name, known) >= 2
    BY DEF FloorIsDue
<1>5. IsSeq(answers)
    BY DEF HeardAsAsked
<1>6. LeftToCharge(name, then, left) <= LeftToCharge(name, known, answers)
    BY <1>5 DEF FloorSpendsLess
<1>7. Program(name, e.target, known, answers) = Keep(entries, left)
    OBVIOUS
<1> HIDE DEF entries, then
<1>8. HeardAsAsked(e, name, then, left)
    BY <1>2, <1>3, OneHeard
<1>9. Len(left) <= Due(name, then) /\ Due(name, then) - Len(left) <= Due(name, known) - Len(answers)
  <2>1. \A due \in Nat : \A l \in {1, 2} : due >= 2 => 1 <= due - 1 /\ (due - 1) - 1 <= due - l
      OBVIOUS
  <2> QED BY <1>4, <2>1
<1> QED BY <1>1, <1>6, <1>7, <1>8, <1>9, KeepingKeeps DEF then

\* A probe that waits for a generation keeps to all of it.
LEMMA FloorKeeps ==
  ASSUME NEW e, NEW name, NEW known, NEW answers, Meets(e, name, known, answers),
         "floor" \notin DOMAIN known, NEW prompt, prompt.bytes \in Nat,
         AsksAtFloor(e, name, known, prompt), FloorIsDue(name, known), FloorSpendsLess(name, known),
         NEW each \in Int, prompt.bytes + 80 <= each, SpendsEach(name, known, each)
  PROVE  Keeps(e, name, known, answers)
<1> DEFINE t == e.target
           s == smallestOutputLimit(t)
           Next_(a) == sendAtOutputFloor(t, known, a, 1, prompt)
<1>1. KnownAsKept(e, known) /\ HeardAsAsked(e, name, known, answers) /\ IsSeq(answers)
    BY DEF Meets, HeardAsAsked
<1>2. \A a : IsSeq(a) => Program(name, t, known, a) = Next_(a)
    BY DEF AsksAtFloor
<1>3. \A a : IsSeq(a) => FloorGoes(t, prompt, s, a, Next_(a))
    BY FloorSteps
<1>4. \A entries, left : Keep(entries, left).do # "ask"
    BY DEF Keep
<1>5. Len(answers) \in Nat
    BY <1>1 DEF IsSeq
<1>6. Due(name, known) \in Nat /\ Due(name, known) >= 2
    BY DEF FloorIsDue
<1>7. IsSeq(<<>>) /\ Len(<<>>) = 0
    BY NothingHeard DEF HeardAsAsked
<1>8. s \in {1, 16}
    BY <1>7, <1>3 DEF FloorGoes
<1> HIDE DEF s, Next_
<1>9. Len(answers) >= 1 => answers[1] \in Answers(e, sendAt(t, prompt, s))
  <2> HAVE Len(answers) >= 1
  <2>1. 1 \in 1 .. Len(answers) /\ 1 - 1 = 0
      BY <1>5
  <2> DEFINE before == SubSeq(answers, 1, 1 - 1)
  <2>2. IsSeq(before) /\ Len(before) = 0 /\ answers[1] \in Answers(e, Program(name, t, known, before))
      BY <1>1, <2>1, HeardAt
  <2> HIDE DEF before
  <2>3. Program(name, t, known, before) = sendAt(t, prompt, s)
      BY <1>2, <1>3, <2>2 DEF FloorGoes
  <2> QED BY <2>2, <2>3
<1>10. ASSUME Len(answers) >= 2
       PROVE  /\ answers[1].status = 400 /\ s # 16
              /\ answers[2] \in Answers(e, sendAt(t, prompt, 16))
  <2>1. 2 \in 1 .. Len(answers) /\ 2 - 1 = 1 /\ 1 \in 1 .. 1
      BY <1>5, <1>10
  <2> DEFINE before == SubSeq(answers, 1, 2 - 1)
  <2>2. /\ IsSeq(before) /\ Len(before) = 1 /\ before[1] = answers[1]
        /\ Program(name, t, known, before).do = "ask"
        /\ answers[2] \in Answers(e, Program(name, t, known, before))
      BY <1>1, <2>1, HeardAt
  <2> HIDE DEF before
  <2>3. Next_(before).do = "ask" /\ answers[2] \in Answers(e, Next_(before))
      BY <1>2, <2>2
  <2> DEFINE after == Next_(before)
  <2>6. FloorGoes(t, prompt, s, before, after)
      BY <1>3, <2>2
  <2> HIDE DEF after
  <2>7. after.do = "ask"
      BY <2>3 DEF after
  <2>4. answers[1].status = 400 /\ s # 16
      BY <1>4, <2>2, <2>6, <2>7 DEF FloorGoes
  <2>8. after = sendAt(t, prompt, 16)
      BY <2>2, <2>4, <2>6 DEF FloorGoes
  <2>5. Next_(before) = sendAt(t, prompt, 16)
      BY <2>8 DEF after
  <2> QED BY <2>3, <2>4, <2>5
<1>11. Len(answers) <= 2
  <2> SUFFICES ASSUME Len(answers) >= 3 PROVE FALSE
      BY <1>5
  <2>1. 3 \in 1 .. Len(answers) /\ 3 - 1 = 2 /\ 1 \in 1 .. 2 /\ 2 \in 1 .. 2 /\ Len(answers) >= 2
      BY <1>5
  <2> DEFINE before == SubSeq(answers, 1, 3 - 1)
  <2>2. /\ IsSeq(before) /\ Len(before) = 2 /\ before[1] = answers[1]
        /\ Program(name, t, known, before).do = "ask"
      BY <1>1, <2>1, HeardAt
  <2> HIDE DEF before
  <2>3. Next_(before).do = "ask" /\ before[1].status = 400 /\ s # 16
      BY <1>2, <1>10, <2>1, <2>2
  <2> DEFINE after == Next_(before)
  <2>4. FloorGoes(t, prompt, s, before, after)
      BY <1>3, <2>2
  <2> HIDE DEF after
  <2>5. after.do = "ask"
      BY <2>3 DEF after
  <2>6. \/ after = Keep(FloorOf(16, s), Alone(before[2]))
        \/ after = Keep(FloorOf(s, None), Alone(before[1]))
      BY <2>2, <2>3, <2>4 DEF FloorGoes
  <2> QED BY <1>4, <2>5, <2>6
<1> DEFINE now == Next_(answers)
<1>16. Program(name, t, known, answers) = now /\ FloorGoes(t, prompt, s, answers, now)
    BY <1>1, <1>2, <1>3
<1> HIDE DEF now
<1>12. CASE Len(answers) = 0
  <2>1. Program(name, t, known, answers) = sendAt(t, prompt, s)
      BY <1>16, <1>12 DEF FloorGoes
  <2>2. Len(answers) < Due(name, known)
      BY <1>6, <1>12
  <2> QED BY <1>1, <1>8, <2>1, <2>2, AtFloorAsks
<1>13. CASE Len(answers) = 1 /\ answers[1].status = 400 /\ s # 16
  <2>1. Program(name, t, known, answers) = sendAt(t, prompt, 16)
      BY <1>16, <1>13 DEF FloorGoes
  <2>2. Len(answers) < Due(name, known) /\ 16 \in {1, 16}
      BY <1>6, <1>13
  <2> QED BY <1>1, <2>1, <2>2, AtFloorAsks
<1>14. CASE Len(answers) = 1 /\ ~(answers[1].status = 400 /\ s # 16)
  <2>1. Program(name, t, known, answers) = Keep(FloorOf(s, None), answers)
      BY <1>16, <1>14 DEF FloorGoes
  <2>2. answers[1] \in Answers(e, sendAt(t, prompt, s)) /\ Len(answers) \in {1, 2}
      BY <1>9, <1>14
  <2> QED BY <1>1, <1>8, <1>14, <2>1, <2>2, AtFloorKeeps
<1>15. CASE Len(answers) = 2
  <2>1. answers[1].status = 400 /\ s # 16 /\ answers[2] \in Answers(e, sendAt(t, prompt, 16))
        /\ answers[1] \in Answers(e, sendAt(t, prompt, s))
      BY <1>9, <1>10, <1>15
  <2>2. \/ Program(name, t, known, answers) = Keep(FloorOf(16, s), Alone(answers[2]))
        \/ Program(name, t, known, answers) = Keep(FloorOf(s, None), Alone(answers[1]))
      BY <1>16, <1>15, <2>1 DEF FloorGoes
  <2>4. Len(answers) \in {1, 2} /\ 16 \in {1, 16}
      BY <1>15
  <2>5. CASE Program(name, t, known, answers) = Keep(FloorOf(16, s), Alone(answers[2]))
    <3> DEFINE one == Alone(answers[2])
    <3>1. IsSeq(one) /\ Len(one) = 1 /\ one[1] = answers[2]
        BY AloneIsOne
    <3>2. Program(name, t, known, answers) = Keep(FloorOf(16, s), one)
        BY <2>5
    <3> HIDE DEF one
    <3>3. one[1] \in Answers(e, sendAt(t, prompt, 16))
        BY <2>1, <3>1
    <3> QED BY <1>1, <2>4, <3>1, <3>2, <3>3, AtFloorKeeps
  <2>6. CASE Program(name, t, known, answers) = Keep(FloorOf(s, None), Alone(answers[1]))
    <3> DEFINE one == Alone(answers[1])
    <3>1. IsSeq(one) /\ Len(one) = 1 /\ one[1] = answers[1]
        BY AloneIsOne
    <3>2. Program(name, t, known, answers) = Keep(FloorOf(s, None), one)
        BY <2>6
    <3> HIDE DEF one
    <3>3. one[1] \in Answers(e, sendAt(t, prompt, s))
        BY <2>1, <3>1
    <3> QED BY <1>1, <1>8, <2>4, <3>1, <3>2, <3>3, AtFloorKeeps
  <2> QED BY <2>2, <2>5, <2>6
<1>17. Len(answers) \in {0, 1, 2}
  <2>1. \A l \in Nat : l <= 2 => l \in {0, 1, 2}
      OBVIOUS
  <2> QED BY <1>5, <1>11, <2>1
<1> QED BY <1>17, <1>12, <1>13, <1>14, <1>15

---------------------------------------------------------------------------
(* The shared generation *)

\* What is due of a probe that reads it, and left to charge.
Extra(name) == IF name = "countTokensAgreement" THEN 1 ELSE 0

\* The generations that are due, and one request more of count-tokens-agreement.
LEMMA GenerationsDue ==
  ASSUME NEW name \in AccountingNames, NEW known
  PROVE  /\ Extra(name) \in {0, 1} /\ Due(name, known) = Generations(known) + Extra(name)
         /\ "baseline" \in DOMAIN known => Generations(known) = 0
         /\ "baseline" \notin DOMAIN known => Generations(known) = 1 + Missing("floor", known)
<1>1. /\ "baseline" \in DOMAIN known => Generations(known) = 0
      /\ "baseline" \notin DOMAIN known => Generations(known) = 1 + Missing("floor", known)
    BY DEF Generations
<1>2. Generations(known) \in Nat
    BY DEF Generations, Missing
<1> DEFINE g == Generations(known)
<1> HIDE DEF g
<1>3. /\ name = "countTokensAgreement" => Due(name, known) = g + 1
      /\ name # "countTokensAgreement" => Due(name, known) = g
    BY DEF Due, AccountingNames, TokenizerNames, Singles, g
<1>4. Extra(name) \in {0, 1} /\ Due(name, known) = g + Extra(name)
    BY <1>2, <1>3 DEF Extra, g
<1> QED BY <1>1, <1>4 DEF g

\* Each generation still due is charged as much; the request for a count is free.
LEMMA GenerationsLeft ==
  ASSUME NEW name \in AccountingNames, NEW known, NEW answers
  PROVE  /\ "baseline" \in DOMAIN known => LeftToCharge(name, known, answers) = 0
         /\ "baseline" \notin DOMAIN known =>
              LeftToCharge(name, known, answers) = (Generations(known) - Len(answers)) * GENERATION
<1> DEFINE due == Due(name, known)
           had == answers
<1> HIDE DEF due, had
<1>1. /\ "baseline" \in DOMAIN known => LeftToCharge(name, known, had) = 0
      /\ "baseline" \notin DOMAIN known =>
           LeftToCharge(name, known, had) = (Generations(known) - Len(had)) * GENERATION
    BY DEF LeftToCharge, AccountingNames, TokenizerNames, Singles, due
<1> QED BY <1>1 DEF had

\* What it does until the generation is known.
LEMMA WaitsForBaseline ==
  ASSUME NEW name \in AccountingNames, NEW t, NEW known, "baseline" \notin DOMAIN known, NEW more
  PROVE  Program(name, t, known, more) = baseline(t, known, more)
<1>1. name \notin DOMAIN ConformanceCost /\ name \notin DOMAIN CausalCost
      /\ name # "openaiLocalCount" /\ name # "anthropicDifferential"
    BY CostNames DEF AccountingNames
<1>2. Program(name, t, known, more) = accounting(name, t, known, more)
    BY <1>1 DEF Program
<1> QED BY <1>2 DEF accounting

BaselinePrompt == baselinePrompt(NonceBytes)

\* Its steps: finding the smallest limit, asking at the limit that was found, keeping
\* what generates.
LEMMA BaselineSteps ==
  ASSUME NEW t, NEW known, NEW more, IsSeq(more)
  PROVE  /\ "floor" \notin DOMAIN known =>
              baseline(t, known, more) = sendAtOutputFloor(t, known, more, 1, BaselinePrompt)
         /\ "floor" \in DOMAIN known /\ Len(more) = 0 =>
              baseline(t, known, more) = sendAt(t, BaselinePrompt, known.floor.limit)
         /\ "floor" \in DOMAIN known /\ Len(more) >= 1 =>
              baseline(t, known, more) = IF isSuccess(more[1]) /\ more[1].generates
                                         THEN Keep(One("baseline", more[1]), <<>>) ELSE Fail
<1>1. \A x : [baseline |-> x] = One("baseline", x)
    BY DEF One
<1>2. "floor" \notin DOMAIN known =>
        baseline(t, known, more) = sendAtOutputFloor(t, known, more, 1, BaselinePrompt)
    BY DEF baseline, Answered, BaselinePrompt
<1>3. "floor" \in DOMAIN known /\ Len(more) = 0 =>
        baseline(t, known, more) = sendAtOutputFloor(t, known, more, 1, BaselinePrompt)
    BY DEF baseline, Answered, BaselinePrompt
<1>4. "floor" \in DOMAIN known =>
        sendAtOutputFloor(t, known, more, 1, BaselinePrompt) = sendAt(t, BaselinePrompt, known.floor.limit)
    BY DEF sendAtOutputFloor
<1>5. "floor" \in DOMAIN known /\ Len(more) >= 1 =>
        baseline(t, known, more) = IF isSuccess(more[1]) /\ more[1].generates
                                   THEN Keep([baseline |-> more[1]], <<>>) ELSE Fail
    BY DEF baseline, Answered
<1>6. [baseline |-> more[1]] = One("baseline", more[1])
    BY DEF One
<1>7. "floor" \in DOMAIN known /\ Len(more) >= 1 =>
        baseline(t, known, more) = IF isSuccess(more[1]) /\ more[1].generates
                                   THEN Keep(One("baseline", more[1]), <<>>) ELSE Fail
    BY <1>5, <1>6
<1> QED BY <1>2, <1>3, <1>4, <1>7

\* Its length, and what it costs at most.
LEMMA BaselineBytes == BaselinePrompt.bytes = 1013 /\ BaselinePrompt.name = "baseline" /\ GENERATION = 1093
  BY Numbers DEF BaselinePrompt, baselinePrompt, NonceBytes

\* What is left, in numbers, with one or two generations due.
LEMMA GenerationsLeftAre ==
  ASSUME NEW name \in AccountingNames, NEW known, "baseline" \notin DOMAIN known, NEW answers
  PROVE  /\ Generations(known) = 1 /\ Len(answers) = 0 => LeftToCharge(name, known, answers) = 1093
         /\ Generations(known) = 1 /\ Len(answers) = 1 => LeftToCharge(name, known, answers) = 0
         /\ Generations(known) = 2 /\ Len(answers) = 1 => LeftToCharge(name, known, answers) = 1093
         /\ Generations(known) = 2 /\ Len(answers) = 2 => LeftToCharge(name, known, answers) = 0
<1> DEFINE g == Generations(known)
           l == Len(answers)
           left == LeftToCharge(name, known, answers)
<1>1. left = (g - l) * GENERATION
    BY GenerationsLeft
<1> HIDE DEF g, l, left
<1>2. left = (g - l) * 1093
    BY <1>1, BaselineBytes
<1>3. (1 - 0) * 1093 = 1093 /\ (1 - 1) * 1093 = 0 /\ (2 - 1) * 1093 = 1093 /\ (2 - 2) * 1093 = 0
    OBVIOUS
<1>4. /\ g = 1 /\ l = 0 => left = 1093
      /\ g = 1 /\ l = 1 => left = 0
      /\ g = 2 /\ l = 1 => left = 1093
      /\ g = 2 /\ l = 2 => left = 0
    BY <1>2, <1>3
<1> QED BY <1>4 DEF g, l, left

\* Before the smallest limit is found
LEMMA BaselineFloorKeeps ==
  ASSUME NEW e, NEW name \in AccountingNames, NEW known, NEW answers, Meets(e, name, known, answers),
         "floor" \notin DOMAIN known, "baseline" \notin DOMAIN known
  PROVE  Keeps(e, name, known, answers)
<1>1. KnownAsKept(e, known)
    BY DEF Meets
<1>2. AsksAtFloor(e, name, known, BaselinePrompt)
  <2>1. ASSUME NEW more, IsSeq(more)
        PROVE  Program(name, e.target, known, more)
                 = sendAtOutputFloor(e.target, known, more, 1, BaselinePrompt)
      BY <2>1, WaitsForBaseline, BaselineSteps
  <2>2. ASSUME NEW limit \in {1, 16}, NEW refused
        PROVE  Program(name, e.target, Kept(FloorOf(limit, refused), known), <<>>) =
                 sendAt(e.target, BaselinePrompt, limit)
    <3> DEFINE then == Kept(FloorOf(limit, refused), known)
    <3>1. "floor" \in DOMAIN then /\ then.floor.limit = limit /\ "baseline" \notin DOMAIN then
        BY <1>1, FloorIsKept
    <3> HIDE DEF then
    <3>2. IsSeq(<<>>) /\ Len(<<>>) = 0
        BY NothingHeard DEF HeardAsAsked
    <3>3. Program(name, e.target, then, <<>>) = baseline(e.target, then, <<>>)
        BY <3>1, WaitsForBaseline
    <3>4. baseline(e.target, then, <<>>) = sendAt(e.target, BaselinePrompt, then.floor.limit)
        BY <3>1, <3>2, BaselineSteps
    <3>5. Program(name, e.target, then, <<>>) = sendAt(e.target, BaselinePrompt, limit)
        BY <3>1, <3>3, <3>4
    <3> QED BY <3>5 DEF then
  <2> QED BY <2>1, <2>2 DEF AsksAtFloor
<1>3. Missing("floor", known) = 1 /\ Generations(known) = 2
    BY GenerationsDue DEF Missing
<1>4. ASSUME NEW limit, NEW refused
      PROVE  LET then == Kept(FloorOf(limit, refused), known) IN
             "baseline" \notin DOMAIN then /\ Generations(then) = 1
  <2> DEFINE x == [limit |-> limit, refused |-> refused]
             then == Kept(One("floor", x), known)
  <2>1. "floor" \in DOMAIN One("floor", x) /\ \A o \in DOMAIN One("floor", x) : o = "floor"
      BY OneOfOne
  <2> HIDE DEF x
  <2>2. "baseline" \notin DOMAIN then
      BY <2>1, KeptBeside
  <2>3. Missing("floor", then) = 0
      BY MissingBeside
  <2> HIDE DEF then
  <2>4. "baseline" \notin DOMAIN then /\ Generations(then) = 1
      BY <2>2, <2>3, GenerationsDue
  <2> QED BY <2>4 DEF then, x, FloorOf
<1>5. FloorIsDue(name, known)
  <2>1. Due(name, known) \in Nat /\ Due(name, known) >= 2
      BY <1>3, GenerationsDue
  <2>2. ASSUME NEW limit, NEW refused
        PROVE  Due(name, Kept(FloorOf(limit, refused), known)) = Due(name, known) - 1
    <3> DEFINE then == Kept(FloorOf(limit, refused), known)
    <3>1. Generations(then) = 1
        BY <1>4
    <3> HIDE DEF then
    <3>2. Due(name, then) = Due(name, known) - 1
        BY <1>3, <3>1, GenerationsDue
    <3> QED BY <3>2 DEF then
  <2> QED BY <2>1, <2>2 DEF FloorIsDue
<1>6. SpendsEach(name, known, 1093)
  <2> SUFFICES ASSUME NEW a, IsSeq(a), NEW x
               PROVE  LeftToCharge(name, known, a) - LeftToCharge(name, known, Append(a, x)) = 1093
      BY DEF SpendsEach
  <2> DEFINE more == Append(a, x)
  <2>1. Len(more) = Len(a) + 1
      BY OneMore
  <2>2. Len(a) \in Nat
      BY DEF IsSeq
  <2> HIDE DEF more
  <2>3. LeftToCharge(name, known, a) = (2 - Len(a)) * 1093
      BY <1>3, GenerationsLeft, BaselineBytes
  <2>4. LeftToCharge(name, known, more) = (2 - Len(more)) * 1093
      BY <1>3, GenerationsLeft, BaselineBytes
  <2>5. LeftToCharge(name, known, a) - LeftToCharge(name, known, more) = 1093
      BY <2>1, <2>2, <2>3, <2>4
  <2> QED BY <2>5 DEF more
<1>7. FloorSpendsLess(name, known)
  <2> SUFFICES ASSUME NEW limit, NEW refused, NEW a, NEW b, IsSeq(a), IsSeq(b),
                      Len(a) \in {1, 2}, Len(b) = 1
               PROVE  LeftToCharge(name, Kept(FloorOf(limit, refused), known), b)
                        <= LeftToCharge(name, known, a)
      BY DEF FloorSpendsLess
  <2> DEFINE then == Kept(FloorOf(limit, refused), known)
  <2>1. "baseline" \notin DOMAIN then /\ Generations(then) = 1
      BY <1>4
  <2> HIDE DEF then
  <2>4. LeftToCharge(name, then, b) = 0
      BY <2>1, GenerationsLeftAre
  <2>7. Len(a) = 1 \/ Len(a) = 2
      OBVIOUS
  <2>6. LeftToCharge(name, known, a) = 1093 \/ LeftToCharge(name, known, a) = 0
      BY <1>3, <2>7, GenerationsLeftAre
  <2>5. LeftToCharge(name, then, b) <= LeftToCharge(name, known, a)
      BY <2>4, <2>6
  <2> QED BY <2>5 DEF then
<1>8. BaselinePrompt.bytes \in Nat /\ BaselinePrompt.bytes + 80 <= 1093 /\ 1093 \in Int
    BY BaselineBytes
<1> QED BY <1>2, <1>5, <1>6, <1>7, <1>8, FloorKeeps

\* Once it is found
LEMMA BaselineAnswerKeeps ==
  ASSUME NEW e, NEW name \in AccountingNames, NEW known, NEW answers, Meets(e, name, known, answers),
         "floor" \in DOMAIN known, "baseline" \notin DOMAIN known
  PROVE  Keeps(e, name, known, answers)
<1> DEFINE t == e.target
           limit == known.floor.limit
           Next_(a) == baseline(t, known, a)
<1>1. KnownAsKept(e, known) /\ HeardAsAsked(e, name, known, answers) /\ IsSeq(answers)
      /\ Len(answers) <= Due(name, known)
    BY DEF Meets, HeardAsAsked
<1>2. limit \in {1, 16}
    BY <1>1 DEF KnownAsKept
<1>3. \A a : Program(name, t, known, a) = Next_(a)
    BY WaitsForBaseline
<1>4. Len(answers) \in Nat
    BY <1>1 DEF IsSeq
<1>5. Missing("floor", known) = 0 /\ Generations(known) = 1
    BY GenerationsDue DEF Missing
<1>6. IsSeq(<<>>) /\ Len(<<>>) = 0
    BY NothingHeard DEF HeardAsAsked
<1>7. BaselinePrompt.bytes \in Nat /\ BaselinePrompt.bytes + 80 = 1093
    BY BaselineBytes
<1> DEFINE ask == sendAt(t, BaselinePrompt, limit)
<1>8. /\ ask.do = "ask" /\ ask.request = "baseline" /\ ask.limit = limit
      /\ ask.tokens \in Nat /\ ask.tokens <= 1093 /\ ask.bill \in Nat /\ ask.bill <= 1093
    BY <1>2, <1>7, SendAtAsks, BaselineBytes
<1>9. \A a : IsSeq(a) /\ Len(a) = 0 => Next_(a) = ask
    BY BaselineSteps
<1>10. ASSUME NEW a, IsSeq(a), Len(a) >= 1
       PROVE  Next_(a) = IF isSuccess(a[1]) /\ a[1].generates
                         THEN Keep(One("baseline", a[1]), <<>>) ELSE Fail
    BY <1>10, BaselineSteps
<1>11. ASSUME NEW a, IsSeq(a), Len(a) >= 1 PROVE Next_(a).do # "ask"
  <2> DEFINE entries == One("baseline", a[1])
             none == <<>>
  <2> HIDE DEF entries, none
  <2>1. Next_(a) = IF isSuccess(a[1]) /\ a[1].generates THEN Keep(entries, none) ELSE Fail
      BY <1>10, <1>11 DEF entries, none
  <2>2. Keep(entries, none).do = "keep" /\ Fail.do = "fail"
      BY DEF Keep, Fail
  <2> HIDE DEF Next_
  <2> QED BY <2>1, <2>2
<1> HIDE DEF Next_, ask
<1>12. Len(answers) <= 1
  <2> SUFFICES ASSUME Len(answers) >= 2 PROVE FALSE
      BY <1>4
  <2>1. 2 \in 1 .. Len(answers) /\ 2 - 1 = 1
      BY <1>4
  <2> DEFINE before == SubSeq(answers, 1, 2 - 1)
  <2>2. IsSeq(before) /\ Len(before) = 1 /\ Program(name, t, known, before).do = "ask"
      BY <1>1, <2>1, HeardAt
  <2> HIDE DEF before
  <2>3. Len(before) >= 1
      BY <2>2
  <2> QED BY <1>3, <1>11, <2>2, <2>3
<1>13. CASE Len(answers) = 0
  <2>1. Program(name, t, known, answers) = ask
      BY <1>1, <1>3, <1>9, <1>13
  <2>2. Len(answers) < Due(name, known)
      BY <1>5, <1>13, GenerationsDue
  <2>3. ASSUME NEW x
        PROVE  LET left == LeftToCharge(name, known, answers)
                             - LeftToCharge(name, known, Append(answers, x))
               IN  ask.tokens <= left /\ ask.bill <= left
    <3> DEFINE more == Append(answers, x)
    <3>1. Len(more) = 1
        BY <1>1, <1>13, OneMore
    <3> HIDE DEF more
    <3>2. LeftToCharge(name, known, answers) = 1093
        BY <1>5, <1>13, GenerationsLeftAre
    <3>3. LeftToCharge(name, known, more) = 0
        BY <1>5, <3>1, GenerationsLeftAre
    <3>4. LeftToCharge(name, known, answers) - LeftToCharge(name, known, more) = 1093
        BY <3>2, <3>3
    <3> QED BY <1>8, <3>4 DEF more
  <2> QED BY <1>8, <2>1, <2>2, <2>3, AskingKeeps
<1>14. CASE Len(answers) = 1 /\ ~(isSuccess(answers[1]) /\ answers[1].generates)
  <2>1. Len(answers) >= 1
      BY <1>14
  <2>2. Program(name, t, known, answers) = Fail
      BY <1>1, <1>3, <1>10, <1>14, <2>1
  <2>3. Program(name, t, known, answers).do = "fail"
      BY <2>2 DEF Fail
  <2> QED BY <2>3 DEF Keeps
<1>15. CASE Len(answers) = 1 /\ isSuccess(answers[1]) /\ answers[1].generates
  <2> DEFINE entries == One("baseline", answers[1])
             then == Kept(entries, known)
             none == <<>>
  <2>1. Len(answers) >= 1
      BY <1>15
  <2>2. Program(name, t, known, answers) = Keep(entries, none)
      BY <1>1, <1>3, <1>10, <1>15, <2>1
  <2>3. /\ "baseline" \in DOMAIN entries /\ entries["baseline"] = answers[1]
        /\ \A o \in DOMAIN entries : o = "baseline"
      BY OneOfOne
  <2>4. HeardAsAsked(e, name, then, none) /\ Len(none) = 0
      BY NothingHeard
  <2> HIDE DEF entries, none
  <2>5. answers[1] \in BaselineAnswers(e, limit)
    <3>1. answers[1] \in Answers(e, Program(name, t, known, <<>>))
        BY <1>1, <1>6, <1>15, FirstHeard
    <3>2. Program(name, t, known, <<>>) = ask
        BY <1>3, <1>6, <1>9
    <3>3. Answers(e, ask) = BaselineAnswers(e, limit)
        BY <1>8, GenerationAnswers
    <3> QED BY <3>1, <3>2, <3>3
  <2>6. KnownAsKept(e, then)
      BY <1>1, <1>15, <2>3, <2>5, KnownBeside
  <2>7. "baseline" \in DOMAIN then
      BY <2>3, KeptBeside
  <2> HIDE DEF then
  <2>8. Generations(then) = 0 /\ LeftToCharge(name, then, none) = 0
      BY <2>7, GenerationsDue, GenerationsLeft
  <2>9. Due(name, then) = Extra(name) /\ Due(name, known) = 1 + Extra(name) /\ Extra(name) \in {0, 1}
      BY <1>5, <2>8, GenerationsDue
  <2>10. Len(none) <= Due(name, then) /\ Due(name, then) - Len(none) <= Due(name, known) - Len(answers)
      BY <1>15, <2>4, <2>9
  <2>11. LeftToCharge(name, known, answers) = 0
      BY <1>5, <1>15, GenerationsLeftAre
  <2>12. LeftToCharge(name, then, none) <= LeftToCharge(name, known, answers)
      BY <2>8, <2>11
  <2> QED BY <2>2, <2>4, <2>6, <2>10, <2>12, KeepingKeeps DEF then
<1>16. Len(answers) = 0 \/ Len(answers) = 1
  <2>1. \A l \in Nat : l <= 1 => l = 0 \/ l = 1
      OBVIOUS
  <2> QED BY <1>4, <1>12, <2>1
<1> QED BY <1>13, <1>14, <1>15, <1>16

\* Together: a probe that waits for the shared generation.
LEMMA BaselineKeeps ==
  ASSUME NEW e, NEW name \in AccountingNames, NEW known, NEW answers, Meets(e, name, known, answers),
         "baseline" \notin DOMAIN known
  PROVE  Keeps(e, name, known, answers)
BY BaselineFloorKeeps, BaselineAnswerKeeps

---------------------------------------------------------------------------
(* The shared counts *)

BatteryPrompt(n) == batteryPrompt(NonceBytes, n)

\* Their lengths and the names of their requests.
LEMMA BatteryPrompts ==
  /\ BatteryPrompt(1).bytes = 56 /\ BatteryPrompt(1).name = "base"
  /\ BatteryPrompt(2).bytes = 130 /\ BatteryPrompt(2).name = "chinese"
  /\ BatteryPrompt(3).bytes = 126 /\ BatteryPrompt(3).name = "base64"
  /\ BatteryPrompt(4).bytes = 122 /\ BatteryPrompt(4).name = "code"
<1>1. BATTERY[1].name = "chinese" /\ BATTERY[1].bytes = 74
    BY DEF BATTERY
<1>2. BATTERY[2].name = "base64" /\ BATTERY[2].bytes = 70
    BY DEF BATTERY
<1>3. BATTERY[3].name = "code" /\ BATTERY[3].bytes = 66
    BY DEF BATTERY
<1>4. BatteryPrompt(1).bytes = 56 /\ BatteryPrompt(1).name = "base"
    BY DEF BatteryPrompt, batteryPrompt, basePrompt, NonceBytes
<1>5. ASSUME NEW i \in {1, 2, 3}
      PROVE  /\ BatteryPrompt(i + 1).bytes = 56 + BATTERY[i].bytes
             /\ BatteryPrompt(i + 1).name = BATTERY[i].name
  <2>1. i + 1 # 1 /\ (i + 1) - 1 = i /\ 32 + 24 = 56
      OBVIOUS
  <2>2. BatteryPrompt(i + 1) = itemPrompt(24, i)
      BY <2>1 DEF BatteryPrompt, batteryPrompt, NonceBytes
  <2>3. itemPrompt(24, i) = [name |-> BATTERY[i].name, bytes |-> 56 + BATTERY[i].bytes]
      BY <2>1 DEF itemPrompt, basePrompt
  <2> QED BY <2>2, <2>3
<1>6. 1 + 1 = 2 /\ 2 + 1 = 3 /\ 3 + 1 = 4
    OBVIOUS
<1>7. BatteryPrompt(2).bytes = 130 /\ BatteryPrompt(2).name = "chinese"
    BY <1>1, <1>5, <1>6
<1>8. BatteryPrompt(3).bytes = 126 /\ BatteryPrompt(3).name = "base64"
    BY <1>2, <1>5, <1>6
<1>9. BatteryPrompt(4).bytes = 122 /\ BatteryPrompt(4).name = "code"
    BY <1>3, <1>5, <1>6
<1> QED BY <1>4, <1>7, <1>8, <1>9

\* What is due of the probes that read them, and left to charge.
LEMMA CountsDue ==
  ASSUME NEW name \in TokenizerNames, NEW known, NEW answers
  PROVE  /\ Due(name, known) = Counts(known)
         /\ "deltas" \in DOMAIN known => Counts(known) = 0
         /\ "deltas" \notin DOMAIN known => Counts(known) = 4 + Missing("floor", known)
         /\ LeftToCharge(name, known, answers) = (Counts(known) - Len(answers)) * 210
<1>1. /\ "deltas" \in DOMAIN known => Counts(known) = 0
      /\ "deltas" \notin DOMAIN known => Counts(known) = 4 + Missing("floor", known)
    BY DEF Counts
<1> DEFINE c == Counts(known)
           had == answers
<1> HIDE DEF c, had
<1>2. Due(name, known) = c
    BY DEF Due, AccountingNames, TokenizerNames, Singles, c
<1> DEFINE due == Due(name, known)
<1> HIDE DEF due
<1>3. LeftToCharge(name, known, had) = (due - Len(had)) * LONGEST_COUNT
    BY DEF LeftToCharge, AccountingNames, TokenizerNames, Singles, due
<1>4. LeftToCharge(name, known, had) = (c - Len(had)) * 210
    BY <1>2, <1>3, Numbers DEF due
<1> QED BY <1>1, <1>2, <1>4 DEF c, had

\* What they do until the counts are known.
LEMMA WaitsForCounts ==
  ASSUME NEW name \in TokenizerNames, NEW t, NEW known, "deltas" \notin DOMAIN known, NEW more
  PROVE  Program(name, t, known, more) = measuredDeltas(t, known, more)
<1>1. name \notin DOMAIN ConformanceCost /\ name \notin DOMAIN CausalCost
    BY CostNames DEF TokenizerNames
<1>2. CASE name = "openaiLocalCount"
  <2>1. Program(name, t, known, more) = openaiLocalCount(t, known, more)
      BY <1>1, <1>2 DEF Program
  <2> QED BY <2>1 DEF openaiLocalCount
<1>3. CASE name = "anthropicDifferential"
  <2>1. Program(name, t, known, more) = anthropicDifferential(t, known, more)
      BY <1>1, <1>3 DEF Program
  <2> QED BY <2>1 DEF anthropicDifferential
<1> QED BY <1>2, <1>3 DEF TokenizerNames

\* The counts, once there is one for each prompt.
Differences(t, answers) ==
  IF \E n \in Prompts : reportedInput(t, answers[n]) = None THEN <<>>
  ELSE [i \in Items |-> reportedInput(t, answers[i + 1]) - reportedInput(t, answers[1])]

Lost(answers, n) == ~(isSuccess(answers[n]) /\ answers[n].generates)

\* A base prompt and three with a text added.
LEMMA FourPrompts == Items = 1 .. 3 /\ Prompts = 1 .. 4 /\ Len(BATTERY) = 3
<1>1. Len(BATTERY) = 3
    BY DEF BATTERY
<1>2. Len(BATTERY) + 1 = 4
    BY <1>1
<1> QED BY <1>1, <1>2 DEF Items, Prompts

\* Its steps: finding the smallest limit, one prompt after the other, giving up on a
\* lost one.
LEMMA CountingSteps ==
  ASSUME NEW t, NEW known, NEW more, IsSeq(more)
  PROVE  /\ "floor" \notin DOMAIN known =>
              measuredDeltas(t, known, more) = sendAtOutputFloor(t, known, more, 1, BatteryPrompt(1))
         /\ "floor" \in DOMAIN known /\ (\E n \in 1 .. Len(more) : Lost(more, n)) =>
              measuredDeltas(t, known, more) = Fail
         /\ "floor" \in DOMAIN known /\ ~(\E n \in 1 .. Len(more) : Lost(more, n)) =>
              /\ Len(more) = 4 =>
                   measuredDeltas(t, known, more) = Keep(One("deltas", Differences(t, more)), <<>>)
              /\ Len(more) # 4 =>
                   measuredDeltas(t, known, more) =
                     sendAt(t, BatteryPrompt(Len(more) + 1), known.floor.limit)
<1>1. Len(more) \in Nat
    BY DEF IsSeq
<1>2. CASE "floor" \notin DOMAIN known
  <2>1. measuredDeltas(t, known, more) = sendAtOutputFloor(t, known, more, 1, BatteryPrompt(1))
      BY <1>2 DEF measuredDeltas, BatteryPrompt
  <2> QED BY <1>2, <2>1
<1>3. CASE "floor" \in DOMAIN known
  <2> DEFINE lost == \E n \in 1 .. Len(more) : Lost(more, n)
             next == IF Len(more) = 0 THEN 1 ELSE Len(more) + 1
             differences == IF \E n \in Prompts : [m \in Prompts |-> reportedInput(t, more[m])][n] = None
                            THEN <<>>
                            ELSE [i \in Items |-> [m \in Prompts |-> reportedInput(t, more[m])][i + 1]
                                                    - [m \in Prompts |-> reportedInput(t, more[m])][1]]
  <2>1. Answered(known, more, Len(more))
      BY <1>1, <1>3 DEF Answered
  <2>2. next = Len(more) + 1
      BY <1>1
  <2>3. \A m \in Prompts : [k \in Prompts |-> reportedInput(t, more[k])][m] = reportedInput(t, more[m])
      OBVIOUS
  <2>4. 1 \in Prompts /\ \A i \in Items : i + 1 \in Prompts
      BY FourPrompts
  <2>5. differences = Differences(t, more)
    <3>1. (\E n \in Prompts : [m \in Prompts |-> reportedInput(t, more[m])][n] = None)
            <=> \E n \in Prompts : reportedInput(t, more[n]) = None
        BY <2>3
    <3>2. ASSUME NEW i \in Items
          PROVE  [m \in Prompts |-> reportedInput(t, more[m])][i + 1]
                   - [m \in Prompts |-> reportedInput(t, more[m])][1]
                 = reportedInput(t, more[i + 1]) - reportedInput(t, more[1])
        BY <2>3, <2>4
    <3>3. [i \in Items |-> [m \in Prompts |-> reportedInput(t, more[m])][i + 1]
                              - [m \in Prompts |-> reportedInput(t, more[m])][1]]
          = [i \in Items |-> reportedInput(t, more[i + 1]) - reportedInput(t, more[1])]
        BY <3>2
    <3> QED BY <3>1, <3>3 DEF Differences
  <2>6. measuredDeltas(t, known, more) =
          IF "floor" \in DOMAIN known /\ lost THEN Fail
          ELSE IF "floor" \in DOMAIN known /\ Len(more) = Len(BATTERY) + 1
          THEN Keep([deltas |-> differences], <<>>)
          ELSE sendAtOutputFloor(t, known, more, next, batteryPrompt(NonceBytes, next))
      BY <1>3, <2>1 DEF measuredDeltas, Lost
  <2>7. sendAtOutputFloor(t, known, more, next, batteryPrompt(NonceBytes, next))
          = sendAt(t, batteryPrompt(NonceBytes, next), known.floor.limit)
      BY <1>3 DEF sendAtOutputFloor
  <2> HIDE DEF lost, next, differences
  <2>8. [deltas |-> differences] = One("deltas", differences)
      BY DEF One
  <2>9. measuredDeltas(t, known, more) =
          IF lost THEN Fail
          ELSE IF Len(more) = 4 THEN Keep(One("deltas", Differences(t, more)), <<>>)
          ELSE sendAt(t, BatteryPrompt(Len(more) + 1), known.floor.limit)
      BY <1>3, <2>2, <2>5, <2>6, <2>7, <2>8, FourPrompts DEF BatteryPrompt
  <2> QED BY <1>3, <2>9 DEF lost
<1> QED BY <1>2, <1>3

\* What a text adds to the prompt it is put in, and the counts of each prompt.
Adds(d, name) == IF name = "base" THEN 20 ELSE 20 + d[CHOOSE i \in Items : BATTERY[i].name = name]

\* By name.
LEMMA AddsEach ==
  ASSUME NEW d
  PROVE  /\ Adds(d, "base") = 20
         /\ Adds(d, "chinese") = 20 + d[1]
         /\ Adds(d, "base64") = 20 + d[2]
         /\ Adds(d, "code") = 20 + d[3]
<1>1. BATTERY[1].name = "chinese"
    BY DEF BATTERY
<1>2. BATTERY[2].name = "base64"
    BY DEF BATTERY
<1>3. BATTERY[3].name = "code"
    BY DEF BATTERY
<1>4. \A i \in Items : i = 1 \/ i = 2 \/ i = 3
    BY FourPrompts
<1>5. 1 \in Items /\ 2 \in Items /\ 3 \in Items
    BY FourPrompts
<1>6. (CHOOSE i \in Items : BATTERY[i].name = "chinese") = 1
    BY <1>1, <1>2, <1>3, <1>4, <1>5
<1>7. (CHOOSE i \in Items : BATTERY[i].name = "base64") = 2
    BY <1>1, <1>2, <1>3, <1>4, <1>5
<1>8. (CHOOSE i \in Items : BATTERY[i].name = "code") = 3
    BY <1>1, <1>2, <1>3, <1>4, <1>5
<1> QED BY <1>6, <1>7, <1>8 DEF Adds

\* The endpoint's own differences.
LEMMA OwnDeltasAre ==
  ASSUME NEW e
  PROVE  LET d == OwnDeltas(e) IN
         /\ d \in [1 .. 3 -> Nat]
         /\ \/ e.target.vendor = "openai" /\ d = localDeltas(e.encoding)
            \/ d[1] = 33 /\ d[2] = 58 /\ d[3] = 37
            \/ d[1] = 25 /\ d[2] = 45 /\ d[3] = 29
<1> DEFINE new == <<33, 58, 37>>
           old == <<25, 45, 29>>
<1>1. new \in [1 .. 3 -> Nat] /\ new[1] = 33 /\ new[2] = 58 /\ new[3] = 37
    OBVIOUS
<1>2. old \in [1 .. 3 -> Nat] /\ old[1] = 25 /\ old[2] = 45 /\ old[3] = 29
    OBVIOUS
<1>3. localDeltas(e.encoding) \in [1 .. 3 -> Nat]
    BY DEF localDeltas
<1> HIDE DEF new, old
<1>4. \/ e.target.vendor = "openai" /\ OwnDeltas(e) = localDeltas(e.encoding)
      \/ OwnDeltas(e) = new
      \/ OwnDeltas(e) = old
    BY DEF OwnDeltas, new, old
<1> QED BY <1>1, <1>2, <1>3, <1>4

\* A counted generation, and one that is none.
Counted(e, input) == [OwnGeneration(e, 1) EXCEPT !.input = input]

\* It reports the count it is given.
LEMMA CountedIs ==
  ASSUME NEW e, NEW input \in Int
  PROVE  LET c == Counted(e, input) IN
         c.input = input /\ reportedInput(e.target, c) = input
<1> DEFINE c == Counted(e, input)
<1>1. c.input = input /\ c.cacheRead = -1 /\ c.cacheCreation = -1
    BY DEF Counted, OwnGeneration, None
<1> HIDE DEF c
<1>2. Max2(c.cacheRead, 0) = 0 /\ Max2(c.cacheCreation, 0) = 0
    BY <1>1 DEF Max2
<1>3. reportedInput(e.target, c) = input
    BY <1>1, <1>2 DEF reportedInput
<1> QED BY <1>1, <1>3 DEF c

\* The vendor counts as its tokenizer does; a layer does or tells nothing.
LEMMA BatteryCounts ==
  ASSUME NEW e, e.kind \in Kinds, NEW name \in {"base", "chinese", "base64", "code"},
         NEW x \in BatteryAnswers(e, name), x.generates
  PROVE  LET r == reportedInput(e.target, x)
             own == Adds(OwnDeltas(e), name)
         IN  /\ r \in Int
             /\ e.kind \in {"vendor", "cheaper"} => r = own /\ r # None
             /\ e.kind = "layer" => r = own \/ r = None
<1> DEFINE r == reportedInput(e.target, x)
           own == Adds(OwnDeltas(e), name)
           lost == [Counted(e, 1) EXCEPT !.generates = FALSE]
           named == CHOOSE i \in Items : BATTERY[i].name = name
<1>1. lost.generates = FALSE
    BY DEF Counted, OwnGeneration
<1>2. ASSUME NEW d \in [1 .. 3 -> Nat] PROVE Adds(d, name) \in Nat
  <2>1. d[1] \in Nat /\ d[2] \in Nat /\ d[3] \in Nat
      OBVIOUS
  <2> QED BY <2>1, AddsEach
<1>3. own \in Nat
    BY <1>2, OwnDeltasAre
<1> HIDE DEF lost
<1>4. CASE e.kind \in {"vendor", "cheaper"}
  <2>1. x = Counted(e, own)
      BY <1>4 DEF BatteryAnswers, Adds, Counted
  <2> HIDE DEF own
  <2>2. r = own
      BY <1>3, <2>1, CountedIs
  <2> QED BY <1>3, <1>4, <2>2 DEF None, own
<1>5. CASE e.kind = "layer"
  <2>1. x = Counted(e, own) \/ x = Counted(e, None)
      BY <1>5 DEF BatteryAnswers, Adds, Counted
  <2>2. None \in Int
      BY DEF None
  <2> HIDE DEF own
  <2>3. r = own \/ r = None
      BY <1>3, <2>1, <2>2, CountedIs
  <2> QED BY <1>3, <1>5, <2>2, <2>3 DEF own
<1>6. CASE e.kind = "any"
  <2> DEFINE read == {<<17, 40, 24>>, <<29, 40, 25>>, <<17, 41, 24>>, <<25, 23, 22>>, <<12, 12, 12>>}
  <2>1. \/ x = Counted(e, own) \/ x = Counted(e, None) \/ x = lost
        \/ \E d \in read : x = Counted(e, Adds(d, name))
      BY <1>6 DEF BatteryAnswers, Adds, Counted, lost
  <2>2. ASSUME NEW d \in read PROVE d \in [1 .. 3 -> Nat]
      OBVIOUS
  <2>3. None \in Int
      BY DEF None
  <2> HIDE DEF own, read
  <2>4. \E v \in Int : x = Counted(e, v)
      BY <1>1, <1>2, <1>3, <2>1, <2>2, <2>3
  <2>5. r \in Int
      BY <2>4, CountedIs
  <2> QED BY <1>6, <2>5
<1> QED BY <1>4, <1>5, <1>6 DEF Kinds

\* The counts of the four prompts are those of the endpoint's tokenizer.
LEMMA DifferencesAreCounted ==
  ASSUME NEW e, e.kind \in Kinds, NEW a,
         \A n \in 1 .. 4 : a[n] \in BatteryAnswers(e, BatteryPrompt(n).name) /\ a[n].generates
  PROVE  DeltasAsCounted(e, Differences(e.target, a))
<1> DEFINE r(n) == reportedInput(e.target, a[n])
           d == OwnDeltas(e)
           deltas == Differences(e.target, a)
           own(n) == Adds(d, BatteryPrompt(n).name)
<1>1. \A n \in 1 .. 4 : BatteryPrompt(n).name \in {"base", "chinese", "base64", "code"}
    BY BatteryPrompts
<1>2. ASSUME NEW n \in 1 .. 4
      PROVE  /\ r(n) \in Int
             /\ e.kind \in {"vendor", "cheaper"} => r(n) = own(n) /\ r(n) # None
             /\ e.kind = "layer" => r(n) = own(n) \/ r(n) = None
    BY <1>1, BatteryCounts
<1>3. d \in [1 .. 3 -> Nat]
    BY OwnDeltasAre
<1>4. own(1) = 20 /\ own(2) = 20 + d[1] /\ own(3) = 20 + d[2] /\ own(4) = 20 + d[3]
    BY BatteryPrompts, AddsEach
<1>5. /\ (\E n \in 1 .. 4 : r(n) = None) => deltas = <<>>
      /\ ~(\E n \in 1 .. 4 : r(n) = None) => deltas = [i \in 1 .. 3 |-> r(i + 1) - r(1)]
    BY FourPrompts DEF Differences
<1> HIDE DEF r, d, deltas, own
<1>6. CASE \E n \in 1 .. 4 : r(n) = None
  <2>1. e.kind \in {"layer", "any"}
      BY <1>2, <1>6 DEF Kinds
  <2>2. DeltasAsCounted(e, deltas)
      BY <1>5, <1>6, <2>1 DEF DeltasAsCounted
  <2> QED BY <2>2 DEF deltas
<1>7. CASE ~(\E n \in 1 .. 4 : r(n) = None)
  <2>1. deltas = [i \in 1 .. 3 |-> r(i + 1) - r(1)]
      BY <1>5, <1>7
  <2>2. 1 \in 1 .. 4 /\ 2 \in 1 .. 4 /\ 3 \in 1 .. 4 /\ 4 \in 1 .. 4
      OBVIOUS
  <2>3. r(1) \in Int /\ r(2) \in Int /\ r(3) \in Int /\ r(4) \in Int
      BY <1>2, <2>2
  <2>4. deltas \in [1 .. 3 -> Int]
    <3>1. \A i \in 1 .. 3 : i + 1 \in 1 .. 4
        OBVIOUS
    <3>2. \A i \in 1 .. 3 : r(i + 1) - r(1) \in Int
        BY <1>2, <2>3, <3>1
    <3> QED BY <2>1, <3>2
  <2>5. CASE e.kind = "any"
    <3>1. deltas \in [Items -> Int]
        BY <2>4, FourPrompts
    <3>2. DeltasAsCounted(e, deltas)
        BY <2>5, <3>1 DEF DeltasAsCounted
    <3> QED BY <3>2 DEF deltas
  <2>6. CASE e.kind # "any"
    <3>1. r(1) = own(1) /\ r(2) = own(2) /\ r(3) = own(3) /\ r(4) = own(4)
        BY <1>2, <1>7, <2>2, <2>6 DEF Kinds
    <3>2. deltas[1] = r(1 + 1) - r(1) /\ deltas[2] = r(2 + 1) - r(1) /\ deltas[3] = r(3 + 1) - r(1)
        BY <2>1
    <3>3. 1 + 1 = 2 /\ 2 + 1 = 3 /\ 3 + 1 = 4
        OBVIOUS
    <3>4. d[1] \in Nat /\ d[2] \in Nat /\ d[3] \in Nat
        BY <1>3
    <3>5. deltas[1] = d[1] /\ deltas[2] = d[2] /\ deltas[3] = d[3]
        BY <1>4, <3>1, <3>2, <3>3, <3>4
    <3>6. \A i \in 1 .. 3 : i = 1 \/ i = 2 \/ i = 3
        OBVIOUS
    <3>7. \A i \in 1 .. 3 : deltas[i] = d[i]
        BY <3>5, <3>6
    <3>8. deltas = d
        BY <1>3, <2>4, <3>7
    <3>9. DeltasAsCounted(e, deltas)
        BY <3>8 DEF DeltasAsCounted, d
    <3> QED BY <3>9 DEF deltas
  <2> QED BY <2>5, <2>6
<1> QED BY <1>6, <1>7

\* Before the smallest limit is found
LEMMA CountsFloorKeeps ==
  ASSUME NEW e, NEW name \in TokenizerNames, NEW known, NEW answers, Meets(e, name, known, answers),
         "floor" \notin DOMAIN known, "deltas" \notin DOMAIN known
  PROVE  Keeps(e, name, known, answers)
<1> DEFINE prompt == BatteryPrompt(1)
<1>1. KnownAsKept(e, known)
    BY DEF Meets
<1>2. prompt.bytes = 56
    BY BatteryPrompts
<1>3. \A k, more : "floor" \notin DOMAIN k /\ IsSeq(more) =>
        measuredDeltas(e.target, k, more) = sendAtOutputFloor(e.target, k, more, 1, prompt)
    BY CountingSteps
<1>4. ASSUME NEW k, "floor" \in DOMAIN k
      PROVE  measuredDeltas(e.target, k, <<>>) = sendAt(e.target, prompt, k.floor.limit)
  <2>1. IsSeq(<<>>) /\ Len(<<>>) = 0
      BY NothingHeard DEF HeardAsAsked
  <2> DEFINE none == <<>>
  <2> HIDE DEF none
  <2>2. IsSeq(none) /\ Len(none) = 0
      BY <2>1 DEF none
  <2>3. ~(\E n \in 1 .. Len(none) : Lost(none, n)) /\ Len(none) # 4 /\ Len(none) + 1 = 1
      BY <2>2
  <2>4. measuredDeltas(e.target, k, none) = sendAt(e.target, BatteryPrompt(Len(none) + 1), k.floor.limit)
      BY <1>4, <2>2, <2>3, CountingSteps
  <2> QED BY <2>3, <2>4 DEF none
<1> HIDE DEF prompt
<1>5. AsksAtFloor(e, name, known, prompt)
  <2>1. ASSUME NEW more, IsSeq(more)
        PROVE  Program(name, e.target, known, more)
                 = sendAtOutputFloor(e.target, known, more, 1, prompt)
      BY <1>3, <2>1, WaitsForCounts
  <2>2. ASSUME NEW limit \in {1, 16}, NEW refused
        PROVE  Program(name, e.target, Kept(FloorOf(limit, refused), known), <<>>) =
                 sendAt(e.target, prompt, limit)
    <3> DEFINE then == Kept(FloorOf(limit, refused), known)
    <3>1. "floor" \in DOMAIN then /\ then.floor.limit = limit /\ "deltas" \notin DOMAIN then
        BY <1>1, FloorIsKept
    <3> HIDE DEF then
    <3>2. Program(name, e.target, then, <<>>) = measuredDeltas(e.target, then, <<>>)
        BY <3>1, WaitsForCounts
    <3>3. Program(name, e.target, then, <<>>) = sendAt(e.target, prompt, limit)
        BY <1>4, <3>1, <3>2
    <3> QED BY <3>3 DEF then
  <2> QED BY <2>1, <2>2 DEF AsksAtFloor
<1>6. Missing("floor", known) = 1 /\ Counts(known) = 5
    BY CountsDue DEF Missing
<1>7. ASSUME NEW limit, NEW refused
      PROVE  LET then == Kept(FloorOf(limit, refused), known) IN Counts(then) = 4
  <2> DEFINE x == [limit |-> limit, refused |-> refused]
             then == Kept(One("floor", x), known)
  <2>1. "floor" \in DOMAIN One("floor", x) /\ \A o \in DOMAIN One("floor", x) : o = "floor"
      BY OneOfOne
  <2> HIDE DEF x
  <2>2. "deltas" \notin DOMAIN then
      BY <2>1, KeptBeside
  <2>3. Missing("floor", then) = 0
      BY MissingBeside
  <2> HIDE DEF then
  <2>4. Counts(then) = 4
      BY <2>2, <2>3, CountsDue
  <2> QED BY <2>4 DEF then, x, FloorOf
<1>8. FloorIsDue(name, known)
  <2>1. Due(name, known) \in Nat /\ Due(name, known) >= 2
      BY <1>6, CountsDue
  <2>2. ASSUME NEW limit, NEW refused
        PROVE  Due(name, Kept(FloorOf(limit, refused), known)) = Due(name, known) - 1
    <3> DEFINE then == Kept(FloorOf(limit, refused), known)
    <3>1. Counts(then) = 4
        BY <1>7
    <3> HIDE DEF then
    <3>2. Due(name, then) = Due(name, known) - 1
        BY <1>6, <3>1, CountsDue
    <3> QED BY <3>2 DEF then
  <2> QED BY <2>1, <2>2 DEF FloorIsDue
<1>9. SpendsEach(name, known, 210)
  <2> SUFFICES ASSUME NEW a, IsSeq(a), NEW x
               PROVE  LeftToCharge(name, known, a) - LeftToCharge(name, known, Append(a, x)) = 210
      BY DEF SpendsEach
  <2> DEFINE more == Append(a, x)
  <2>1. Len(more) = Len(a) + 1
      BY OneMore
  <2>2. Len(a) \in Nat
      BY DEF IsSeq
  <2> HIDE DEF more
  <2>3. LeftToCharge(name, known, a) = (5 - Len(a)) * 210
      BY <1>6, CountsDue
  <2>4. LeftToCharge(name, known, more) = (5 - Len(more)) * 210
      BY <1>6, CountsDue
  <2>5. LeftToCharge(name, known, a) - LeftToCharge(name, known, more) = 210
      BY <2>1, <2>2, <2>3, <2>4
  <2> QED BY <2>5 DEF more
<1>10. FloorSpendsLess(name, known)
  <2> SUFFICES ASSUME NEW limit, NEW refused, NEW a, NEW b, IsSeq(a), IsSeq(b),
                      Len(a) \in {1, 2}, Len(b) = 1
               PROVE  LeftToCharge(name, Kept(FloorOf(limit, refused), known), b)
                        <= LeftToCharge(name, known, a)
      BY DEF FloorSpendsLess
  <2> DEFINE then == Kept(FloorOf(limit, refused), known)
  <2>1. Counts(then) = 4
      BY <1>7
  <2> HIDE DEF then
  <2>2. LeftToCharge(name, then, b) = (4 - Len(b)) * 210
    <3>1. LeftToCharge(name, then, b) = (Counts(then) - Len(b)) * 210
        BY CountsDue, ZenonT(60)
    <3> QED BY <2>1, <3>1
  <2>3. LeftToCharge(name, known, a) = (5 - Len(a)) * 210
      BY <1>6, CountsDue
  <2>4. \A l \in {1, 2} : (4 - 1) * 210 <= (5 - l) * 210
      OBVIOUS
  <2> DEFINE l == Len(a)
             m == Len(b)
  <2> HIDE DEF l, m
  <2>5. LeftToCharge(name, then, b) = (4 - 1) * 210
    <3>1. m = 1
        BY DEF m
    <3>2. LeftToCharge(name, then, b) = (4 - m) * 210
        BY <2>2 DEF m
    <3> QED BY <3>1, <3>2
  <2>6. LeftToCharge(name, known, a) = (5 - l) * 210 /\ l \in {1, 2}
      BY <2>3 DEF l
  <2>7. LeftToCharge(name, then, b) <= LeftToCharge(name, known, a)
      BY <2>4, <2>5, <2>6
  <2> QED BY <2>7 DEF then
<1>11. prompt.bytes \in Nat /\ prompt.bytes + 80 <= 210 /\ 210 \in Int
    BY <1>2 DEF prompt
<1> QED BY <1>5, <1>8, <1>9, <1>10, <1>11, FloorKeeps

\* Once it is found
LEMMA CountsAnswerKeeps ==
  ASSUME NEW e, e.kind \in Kinds, NEW name \in TokenizerNames, NEW known, NEW answers,
         Meets(e, name, known, answers), "floor" \in DOMAIN known, "deltas" \notin DOMAIN known
  PROVE  Keeps(e, name, known, answers)
<1> DEFINE t == e.target
           limit == known.floor.limit
           Next_(a) == measuredDeltas(t, known, a)
           NoneLost(a) == \A n \in 1 .. Len(a) : ~Lost(a, n)
           ask(l) == sendAt(t, BatteryPrompt(l + 1), limit)
           entries == One("deltas", Differences(t, answers))
           none == <<>>
<1>1. KnownAsKept(e, known) /\ HeardAsAsked(e, name, known, answers) /\ IsSeq(answers)
      /\ Len(answers) <= Due(name, known)
    BY DEF Meets, HeardAsAsked
<1>2. limit \in {1, 16}
    BY <1>1 DEF KnownAsKept
<1>3. \A a : Program(name, t, known, a) = Next_(a)
    BY WaitsForCounts
<1>4. Len(answers) \in Nat
    BY <1>1 DEF IsSeq
<1>5. Missing("floor", known) = 0 /\ Counts(known) = 4 /\ Due(name, known) = 4
    BY CountsDue DEF Missing
<1>6. ASSUME NEW a, IsSeq(a), NoneLost(a), Len(a) # 4 PROVE Next_(a) = ask(Len(a))
    BY <1>6, CountingSteps
<1>7. ASSUME NEW a, IsSeq(a), ~NoneLost(a) PROVE Next_(a).do = "fail"
  <2>1. Next_(a) = Fail
      BY <1>7, CountingSteps
  <2> HIDE DEF Next_
  <2> QED BY <2>1 DEF Fail
<1>8. NoneLost(answers) /\ Len(answers) = 4 => Next_(answers) = Keep(entries, none)
    BY <1>1, CountingSteps
<1>9. ASSUME NEW l \in 0 .. 3
      PROVE  /\ ask(l).do = "ask" /\ ask(l).request = BatteryPrompt(l + 1).name
             /\ ask(l).tokens \in Nat /\ ask(l).tokens <= 210 /\ ask(l).bill \in Nat /\ ask(l).bill <= 210
  <2>1. l = 0 \/ l = 1 \/ l = 2 \/ l = 3
      OBVIOUS
  <2>2. 0 + 1 = 1 /\ 1 + 1 = 2 /\ 2 + 1 = 3 /\ 3 + 1 = 4
      OBVIOUS
  <2>3. BatteryPrompt(l + 1).bytes \in Nat /\ BatteryPrompt(l + 1).bytes + 80 <= 210
      BY <2>1, <2>2, BatteryPrompts
  <2> DEFINE prompt == BatteryPrompt(l + 1)
  <2> HIDE DEF prompt
  <2>4. LET g == sendAt(t, prompt, limit) IN
        /\ g.do = "ask" /\ g.request = prompt.name
        /\ g.tokens \in Nat /\ g.tokens <= prompt.bytes + 80
        /\ g.bill \in Nat /\ g.bill <= prompt.bytes + 80
      BY <1>2, <2>3, SendAtAsks DEF prompt
  <2> QED BY <2>3, <2>4 DEF prompt
<1>10. /\ "deltas" \in DOMAIN entries /\ entries["deltas"] = Differences(t, answers)
       /\ \A o \in DOMAIN entries : o = "deltas"
    BY OneOfOne
<1>11. ASSUME NEW k PROVE HeardAsAsked(e, name, k, none) /\ Len(none) = 0
    BY NothingHeard
<1> HIDE DEF limit, Next_, NoneLost, ask, entries, none
<1>12. CASE ~NoneLost(answers)
  <2>1. Program(name, t, known, answers).do = "fail"
      BY <1>1, <1>3, <1>7, <1>12
  <2> QED BY <2>1 DEF Keeps
<1>13. CASE NoneLost(answers) /\ Len(answers) # 4
  <2> DEFINE l == Len(answers)
  <2>1. l \in 0 .. 3 /\ l < Due(name, known)
    <3>1. \A n \in Nat : n <= 4 /\ n # 4 => n \in 0 .. 3 /\ n < 4
        OBVIOUS
    <3> QED BY <1>1, <1>4, <1>5, <1>13, <3>1
  <2>2. Program(name, t, known, answers) = ask(l)
      BY <1>1, <1>3, <1>6, <1>13
  <2>3. ASSUME NEW x
        PROVE  LET left == LeftToCharge(name, known, answers)
                             - LeftToCharge(name, known, Append(answers, x))
               IN  ask(l).tokens <= left /\ ask(l).bill <= left
    <3> DEFINE more == Append(answers, x)
               before == LeftToCharge(name, known, answers)
               after == LeftToCharge(name, known, more)
               m == Len(more)
    <3>1. m = l + 1
        BY <1>1, OneMore
    <3>2. before = (4 - l) * 210
        BY <1>5, CountsDue
    <3>3. after = (4 - m) * 210
      <4>1. after = (Counts(known) - m) * 210
          BY CountsDue, ZenonT(60)
      <4> QED BY <1>5, <4>1
    <3> HIDE DEF before, after, m
    <3>4. l \in Nat
        BY <1>4
    <3> HIDE DEF l
    <3>5. before - after = 210
        BY <3>1, <3>2, <3>3, <3>4
    <3>6. ask(l).tokens <= before - after /\ ask(l).bill <= before - after
        BY <1>9, <2>1, <3>5
    <3> QED BY <3>6 DEF before, after
  <2> QED BY <1>9, <2>1, <2>2, <2>3, AskingKeeps
<1>14. CASE NoneLost(answers) /\ Len(answers) = 4
  <2>1. ASSUME NEW n \in 1 .. 4
        PROVE  answers[n] \in BatteryAnswers(e, BatteryPrompt(n).name) /\ answers[n].generates
    <3>1. answers[n].generates
        BY <1>14 DEF NoneLost, Lost
    <3> DEFINE before == SubSeq(answers, 1, n - 1)
    <3>2. /\ IsSeq(before) /\ Len(before) = n - 1 /\ \A i \in 1 .. n - 1 : before[i] = answers[i]
          /\ answers[n] \in Answers(e, Program(name, t, known, before))
      <4>1. n \in 1 .. Len(answers)
          BY <1>14
      <4> QED BY <1>1, <4>1, HeardAt
    <3> HIDE DEF before
    <3>3. n - 1 \in 0 .. 3 /\ (n - 1) + 1 = n /\ n - 1 # 4
        OBVIOUS
    <3>4. NoneLost(before)
        BY <1>14, <3>2, <3>3 DEF NoneLost, Lost
    <3>5. Program(name, t, known, before) = ask(n - 1)
        BY <1>3, <1>6, <3>2, <3>3, <3>4
    <3>6. ask(n - 1).request = BatteryPrompt(n).name
        BY <1>9, <3>3
    <3>7. BatteryPrompt(n).name \in {"base", "chinese", "base64", "code"}
        BY BatteryPrompts
    <3> DEFINE g == ask(n - 1)
    <3> HIDE DEF g
    <3>8. answers[n] \in Answers(e, g) /\ g.request = BatteryPrompt(n).name
        BY <3>2, <3>5, <3>6 DEF g
    <3>9. Answers(e, g) = BatteryAnswers(e, g.request)
        BY <3>7, <3>8, GenerationAnswers
    <3> QED BY <3>1, <3>8, <3>9
  <2>2. DeltasAsCounted(e, Differences(t, answers))
      BY <2>1, DifferencesAreCounted
  <2> DEFINE then == Kept(entries, known)
  <2>3. KnownAsKept(e, then)
      BY <1>1, <1>10, <2>2, KnownBeside
  <2>4. "deltas" \in DOMAIN then
      BY <1>10, KeptBeside
  <2>5. Program(name, t, known, answers) = Keep(entries, none)
      BY <1>3, <1>8, <1>14
  <2> HIDE DEF then
  <2>6. Counts(then) = 0 /\ Due(name, then) = 0
      BY <2>4, CountsDue
  <2>7. HeardAsAsked(e, name, then, none) /\ Len(none) = 0
      BY <1>11
  <2>8. LeftToCharge(name, then, none) = (0 - 0) * 210
    <3>1. LeftToCharge(name, then, none) = (Counts(then) - Len(none)) * 210
        BY CountsDue
    <3> QED BY <2>6, <2>7, <3>1
  <2>9. LeftToCharge(name, known, answers) = (4 - 4) * 210
    <3>1. LeftToCharge(name, known, answers) = (Counts(known) - Len(answers)) * 210
        BY CountsDue
    <3> QED BY <1>5, <1>14, <3>1
  <2>10. LeftToCharge(name, then, none) <= LeftToCharge(name, known, answers)
      BY <2>8, <2>9
  <2>11. Len(none) <= Due(name, then) /\ Due(name, then) - Len(none) <= Due(name, known) - Len(answers)
      BY <1>5, <1>14, <2>6, <2>7
  <2> QED BY <2>3, <2>5, <2>7, <2>10, <2>11, KeepingKeeps DEF then
<1> QED BY <1>12, <1>13, <1>14

\* Together: a probe that waits for the shared counts.
LEMMA CountsKeep ==
  ASSUME NEW e, NEW name \in TokenizerNames, NEW known, NEW answers, Meets(e, name, known, answers),
         "deltas" \notin DOMAIN known
  PROVE  Keeps(e, name, known, answers)
<1>1. e.kind \in Kinds
    BY EndpointFacts DEF Meets
<1> QED BY <1>1, CountsFloorKeeps, CountsAnswerKeeps

\* Of whom the probes of groups B and C are.
LEMMA ForWhomCounts ==
  ASSUME NEW t
  PROVE  /\ Applies("openaiLocalCount", t) => t.vendor = "openai"
         /\ Applies("anthropicDifferential", t) => t.vendor = "anthropic"
         /\ Applies("idFormat", t) => t.vendor = "openai"
         /\ Applies("countTokensAgreement", t) =>
              t.vendor = "anthropic" /\ t.protocol = "anthropic-messages"
<1>1. \A name \in {"openaiLocalCount", "anthropicDifferential", "idFormat", "countTokensAgreement"} :
        name \notin DOMAIN ConformanceCost /\ name \notin DOMAIN CausalCost
    BY CostNames
<1>2. \A name \in {"openaiLocalCount", "anthropicDifferential", "idFormat", "countTokensAgreement"} :
        Applies(name, t) = AccountingApplies(name, t)
    BY <1>1 DEF Applies
<1>3. AccountingApplies("openaiLocalCount", t) => t.vendor = "openai"
    BY DEF AccountingApplies
<1>4. AccountingApplies("anthropicDifferential", t) => t.vendor = "anthropic"
    BY DEF AccountingApplies
<1>5. AccountingApplies("idFormat", t) => t.vendor = "openai"
    BY DEF AccountingApplies
<1>6. AccountingApplies("countTokensAgreement", t) =>
        t.vendor = "anthropic" /\ t.protocol = "anthropic-messages"
    BY DEF AccountingApplies
<1> QED BY <1>2, <1>3, <1>4, <1>5, <1>6

\* The counts of a text are neither the same for all nor its length over a number.
LEMMA NeverRewritten ==
  ASSUME NEW e
  PROVE  rewrittenCounts(OwnDeltas(e)) = {}
<1> DEFINE d == OwnDeltas(e)
<1>1. \/ d[1] = 17 /\ d[2] = 40 /\ d[3] = 24
      \/ d[1] = 29 /\ d[2] = 40 /\ d[3] = 25
      \/ d[1] = 33 /\ d[2] = 58 /\ d[3] = 37
      \/ d[1] = 25 /\ d[2] = 45 /\ d[3] = 29
    BY OwnDeltasAre DEF localDeltas
<1>2. BATTERY[2]["characters"] = 70 /\ BATTERY[2]["bytes"] = 70
    BY DEF BATTERY
<1> HIDE DEF d
<1>3. d[2] \in {40, 58, 45} /\ d[2] # d[1]
    BY <1>1
<1>4. 2 \in Items
    BY FourPrompts
<1>5. ~isConstant(d)
    BY <1>3, <1>4 DEF isConstant
<1>6. ~matchingEstimator(d)
  <2> SUFFICES ASSUME NEW divisor \in {3, 4}, NEW length \in {"characters", "bytes"},
                      \A i \in Items : Abs(divisor * d[i] - BATTERY[i][length]) <= divisor
               PROVE  FALSE
      BY DEF matchingEstimator
  <2>1. Abs(divisor * d[2] - 70) <= divisor
      BY <1>2, <1>4
  <2>2. \A m \in {40, 58, 45} : 3 * m - 70 > 3 /\ 4 * m - 70 > 4
      OBVIOUS
  <2>3. divisor * d[2] - 70 \in Int /\ divisor * d[2] - 70 > divisor /\ divisor > 0
      BY <1>3, <2>2
  <2> DEFINE m == divisor * d[2] - 70
  <2> HIDE DEF m
  <2>4. m \in Int /\ m > divisor /\ divisor > 0 /\ Abs(m) <= divisor
      BY <2>1, <2>3 DEF m
  <2>5. divisor \in Int
      OBVIOUS
  <2> QED BY <2>4, <2>5 DEF Abs
<1>7. rewrittenCounts(d) = {}
    BY <1>5, <1>6 DEF rewrittenCounts
<1> QED BY <1>7 DEF d

\* Nor does a pattern in the counts tell against the model behind a layer.
LEMMA RewrittenSaid ==
  ASSUME NEW e, e.kind # "vendor", NEW d
  PROVE  SaysTruly(e, rewrittenCounts(d))
<1> DEFINE constant == Signal("constant-counts", "derived", [Neutral EXCEPT !.canned = 2, !.translated = 5])
           estimated == Signal("estimated-counts", "derived", [Neutral EXCEPT !.translated = 5])
           said_ == rewrittenCounts(d)
<1>1. "derived" \in Calibrations
    BY DEF Calibrations
<1>2. TellsTruly(e, constant)
  <2>1. [Neutral EXCEPT !.canned = 2, !.translated = 5] = Weight(0, 0, 0, 2, 0, 0, 0, 5)
      BY DEF Weight, Neutral, Findings
  <2>2. TellsTruly(e, Signal("constant-counts", "derived", Weight(0, 0, 0, 2, 0, 0, 0, 5)))
      BY <1>1, WeightTells
  <2> QED BY <2>1, <2>2
<1>3. TellsTruly(e, estimated)
  <2>1. [Neutral EXCEPT !.translated = 5] = Weight(0, 0, 0, 0, 0, 0, 0, 5)
      BY DEF Weight, Neutral, Findings
  <2>2. TellsTruly(e, Signal("estimated-counts", "derived", Weight(0, 0, 0, 0, 0, 0, 0, 5)))
      BY <1>1, WeightTells
  <2> QED BY <2>1, <2>2
<1>4. said_ = {constant} \/ said_ = {estimated} \/ said_ = {}
    BY DEF rewrittenCounts
<1> HIDE DEF constant, estimated, said_
<1>5. (\A s \in said_ : TellsTruly(e, s)) /\ \A s, s_ \in said_ : s = s_
    BY <1>2, <1>3, <1>4
<1>6. SaysTruly(e, said_)
    BY <1>5, OneSaid
<1> QED BY <1>6 DEF said_

\* Only what promises nothing has other counts than those of its tokenizer.
LEMMA CountsAreOwn ==
  ASSUME NEW e, NEW d, DeltasAsCounted(e, d), d # <<>>
  PROVE  d = OwnDeltas(e) \/ (e.kind = "any" /\ d \in [1 .. 3 -> Int])
<1>1. \/ d = OwnDeltas(e)
      \/ d \in [Items -> Int] /\ e.kind = "any"
    BY Zenon DEF DeltasAsCounted
<1> QED BY <1>1, FourPrompts

\* An OpenAI endpoint counts as the local tokenizer of its encoding does.
LEMMA OwnAreLocal ==
  ASSUME NEW e, e.target.vendor = "openai"
  PROVE  OwnDeltas(e) = localDeltas(e.encoding)
BY DEF OwnDeltas

\* What the counts say for the claimed encoding.
LEMMA ReadingTells ==
  ASSUME NEW e \in Endpoints, e.target.vendor = "openai", NEW d,
         d = OwnDeltas(e) \/ e.kind = "any"
  PROVE  TellsTruly(e, openaiReading(e.target.encoding, d))
<1> DEFINE c == e.target.encoding
           told == openaiReading(c, d)
           from(x) == totalDeviation(d, localDeltas(x))
           llr1 == [Neutral EXCEPT !.claim = 2, !.other = -4]
           llr2 == [Neutral EXCEPT !.cheaper = 2, !.claim = -4, !.translated = 5]
           llr3 == [Neutral EXCEPT !.cheaper = 5, !.claim = -6, !.translated = 3]
           llr4 == [Neutral EXCEPT !.other = 4, !.claim = -4, !.cheaper = -4, !.translated = 3]
<1>1. "derived" \in Calibrations
    BY DEF Calibrations
<1>2. llr1 = Weight(2, 0, -4, 0, 0, 0, 0, 0)
    BY DEF Weight, Neutral, Findings
<1>3. llr2 = Weight(-4, 2, 0, 0, 0, 0, 0, 5)
    BY DEF Weight, Neutral, Findings
<1>4. llr3 = Weight(-6, 5, 0, 0, 0, 0, 0, 3)
    BY DEF Weight, Neutral, Findings
<1>5. llr4 = Weight(-4, -4, 4, 0, 0, 0, 0, 3)
    BY DEF Weight, Neutral, Findings
<1>6. c \in {"o200k_base", "cl100k_base"} /\ e.encoding \in {"o200k_base", "cl100k_base"} /\ e.kind \in Kinds
      /\ (e.kind \in {"vendor", "layer"} => e.encoding = c)
    BY EndpointFacts
<1>7. d = OwnDeltas(e) => from(e.encoding) = 0
  <2> HAVE d = OwnDeltas(e)
  <2>1. d = localDeltas(e.encoding)
      BY OwnAreLocal
  <2>2. d[1] \in Nat /\ d[2] \in Nat /\ d[3] \in Nat
      BY OwnDeltasAre
  <2> DEFINE i == d[1]
             j == d[2]
             k == d[3]
  <2>3. from(e.encoding) = Abs(i - i) + Abs(j - j) + Abs(k - k)
      BY <2>1 DEF totalDeviation
  <2>4. i \in Nat /\ j \in Nat /\ k \in Nat
      BY <2>2
  <2> HIDE DEF i, j, k
  <2> QED BY <2>3, <2>4 DEF Abs
<1>8. otherEncoding(c) \in {"o200k_base", "cl100k_base"} /\ (e.encoding # c => e.encoding = otherEncoding(c))
    BY <1>6 DEF otherEncoding
<1> HIDE DEF from, c
<1>9. \/ told = Signal("claimed-encoding", "derived", llr1) /\ from(c) = 0
      \/ told = Signal("older-encoding", "derived", llr2) /\ from(c) # 0
      \/ told = Signal("newer-encoding", "derived", llr3) /\ from(c) # 0
      \/ told = Signal("foreign-tokenizer", "derived", llr4) /\ from(c) # 0 /\ from(otherEncoding(c)) # 0
      \/ told = Signal("near-encoding", "derived", Neutral)
    BY DEF openaiReading, from
<1> HIDE DEF told, llr1, llr2, llr3, llr4
<1>10. ASSUME told = Signal("claimed-encoding", "derived", llr1)
       PROVE  TellsTruly(e, told)
    BY <1>1, <1>2, <1>10, WeightTells
<1>11. e.kind \in {"vendor", "layer"} => from(c) = 0
    BY <1>6, <1>7
<1>12. e.kind = "cheaper" => from(c) = 0 \/ from(otherEncoding(c)) = 0
    BY <1>6, <1>7, <1>8
<1>13. ASSUME told = Signal("older-encoding", "derived", llr2), from(c) # 0
       PROVE  TellsTruly(e, told)
  <2>1. e.kind # "vendor" /\ e.kind # "layer"
      BY <1>11, <1>13
  <2> QED BY <1>1, <1>3, <1>13, <2>1, WeightTells
<1>14. ASSUME told = Signal("newer-encoding", "derived", llr3), from(c) # 0
       PROVE  TellsTruly(e, told)
  <2>1. e.kind # "vendor" /\ e.kind # "layer"
      BY <1>11, <1>14
  <2> QED BY <1>1, <1>4, <1>14, <2>1, WeightTells
<1>15. ASSUME told = Signal("foreign-tokenizer", "derived", llr4), from(c) # 0, from(otherEncoding(c)) # 0
       PROVE  TellsTruly(e, told)
  <2>1. e.kind # "vendor" /\ e.kind # "layer" /\ e.kind # "cheaper"
      BY <1>11, <1>12, <1>15
  <2> QED BY <1>1, <1>5, <1>15, <2>1, WeightTells
<1>16. ASSUME told = Signal("near-encoding", "derived", Neutral)
       PROVE  TellsTruly(e, told)
    BY <1>16, NeutralSaid
<1>17. TellsTruly(e, told)
    BY <1>9, <1>10, <1>13, <1>14, <1>15, <1>16
<1> QED BY <1>17 DEF told, c

\* openai-local-count: the endpoint's counts against the claimed encoding's.
LEMMA openaiLocalCountKeeps ==
  ASSUME NEW e, NEW known, NEW answers, Meets(e, "openaiLocalCount", known, answers)
  PROVE  Keeps(e, "openaiLocalCount", known, answers)
<1> DEFINE name == "openaiLocalCount"
           t == e.target
           d == known.deltas
           program == Program(name, t, known, answers)
           blank == Signal("no-counts", "derived", Neutral)
           reading == openaiReading(t.encoding, d)
<1>1. e \in Endpoints /\ KnownAsKept(e, known) /\ t.vendor = "openai"
    BY ForWhomCounts DEF Meets
<1>2. CASE "deltas" \notin DOMAIN known
    BY <1>2, CountsKeep DEF TokenizerNames
<1>3. CASE "deltas" \in DOMAIN known
  <2>1. name \notin DOMAIN ConformanceCost /\ name \notin DOMAIN CausalCost
      BY CostNames
  <2>2. program = openaiLocalCount(t, known, answers)
      BY <2>1 DEF Program
  <2>3. DeltasAsCounted(e, d)
      BY <1>1, <1>3 DEF KnownAsKept
  <2> HIDE DEF program, reading, blank
  <2>4. /\ d = <<>> => program = Say({blank})
        /\ d # <<>> /\ rewrittenCounts(d) # {} => program = Say(rewrittenCounts(d))
        /\ d # <<>> /\ rewrittenCounts(d) = {} => program = Say({reading})
      BY <1>3, <2>2 DEF openaiLocalCount, blank, reading
  <2>5. SaysTruly(e, {blank})
      BY NeutralSaid, OneTold DEF blank
  <2>6. d # <<>> => d = OwnDeltas(e) \/ e.kind = "any"
      BY <2>3, CountsAreOwn
  <2>7. d # <<>> /\ rewrittenCounts(d) # {} => SaysTruly(e, rewrittenCounts(d))
    <3> HAVE d # <<>> /\ rewrittenCounts(d) # {}
    <3>1. e.kind = "any"
        BY <2>6, NeverRewritten
    <3> QED BY <3>1, RewrittenSaid
  <2>8. d # <<>> => SaysTruly(e, {reading})
    <3> HAVE d # <<>>
    <3>1. TellsTruly(e, reading)
        BY <1>1, <2>6, ReadingTells DEF reading
    <3> QED BY <3>1, OneTold
  <2> HIDE DEF d
  <2>9. CASE d = <<>>
      BY <2>4, <2>5, <2>9, SayingKeeps DEF program
  <2>10. CASE d # <<>> /\ rewrittenCounts(d) # {}
      BY <2>4, <2>7, <2>10, SayingKeeps DEF program
  <2>11. CASE d # <<>> /\ rewrittenCounts(d) = {}
      BY <2>4, <2>8, <2>11, SayingKeeps DEF program
  <2> QED BY <2>9, <2>10, <2>11
<1> QED BY <1>2, <1>3

\* No counts but those that are anything's are what one of OpenAI's encodings adds.
Exact(d) == {x \in {"o200k_base", "cl100k_base"} : totalDeviation(d, localDeltas(x)) = 0}

\* No deviation in all is none in the first.
LEMMA DeviationIsNone ==
  ASSUME NEW d, NEW x, d[1] \in Int, d[2] \in Int, d[3] \in Int,
         x[1] \in Int, x[2] \in Int, x[3] \in Int, totalDeviation(d, x) = 0
  PROVE  d[1] = x[1]
<1> DEFINE i == d[1] - x[1]
           j == d[2] - x[2]
           k == d[3] - x[3]
<1>1. Abs(i) + Abs(j) + Abs(k) = 0
    BY DEF totalDeviation
<1>2. i \in Int /\ j \in Int /\ k \in Int
    OBVIOUS
<1> HIDE DEF i, j, k
<1>3. i = 0
    BY <1>1, <1>2 DEF Abs
<1> QED BY <1>3 DEF i

\* The first difference alone tells the two encodings apart.
LEMMA OneEncoding ==
  ASSUME NEW d, d[1] \in Int, d[2] \in Int, d[3] \in Int
  PROVE  /\ d[1] # 17 => "o200k_base" \notin Exact(d)
         /\ d[1] # 29 => "cl100k_base" \notin Exact(d)
<1>1. LET x == localDeltas("o200k_base") IN x[1] = 17 /\ x[2] = 40 /\ x[3] = 24
    BY DEF localDeltas
<1>2. LET x == localDeltas("cl100k_base") IN x[1] = 29 /\ x[2] = 40 /\ x[3] = 25
    BY DEF localDeltas
<1>3. totalDeviation(d, localDeltas("o200k_base")) = 0 => d[1] = 17
    BY <1>1, DeviationIsNone
<1>4. totalDeviation(d, localDeltas("cl100k_base")) = 0 => d[1] = 29
    BY <1>2, DeviationIsNone
<1> QED BY <1>3, <1>4 DEF Exact

\* anthropic-differential: the differences against those of OpenAI's encodings, which
\* Claude's never are.
LEMMA anthropicDifferentialKeeps ==
  ASSUME NEW e, NEW known, NEW answers, Meets(e, "anthropicDifferential", known, answers)
  PROVE  Keeps(e, "anthropicDifferential", known, answers)
<1> DEFINE name == "anthropicDifferential"
           t == e.target
           d == known.deltas
           program == Program(name, t, known, answers)
           blank == Signal("no-counts", "derived", Neutral)
           none == Signal("not-openai-encoding", "derived", Neutral)
           Tells_(x) == Signal("openai-encoding", "derived", exactLlr(x, t.native))
           exact == Exact(d)
           told == {Tells_(x) : x \in exact}
<1>1. e \in Endpoints /\ KnownAsKept(e, known) /\ t.vendor = "anthropic"
    BY ForWhomCounts DEF Meets
<1>2. CASE "deltas" \notin DOMAIN known
    BY <1>2, CountsKeep DEF TokenizerNames
<1>3. CASE "deltas" \in DOMAIN known
  <2>1. name \notin DOMAIN ConformanceCost /\ name \notin DOMAIN CausalCost
      BY CostNames
  <2>2. program = anthropicDifferential(t, known, answers)
      BY <2>1 DEF Program
  <2>3. DeltasAsCounted(e, d)
      BY <1>1, <1>3 DEF KnownAsKept
  <2> HIDE DEF program, blank, none
  <2>4. /\ d = <<>> => program = Say({blank})
        /\ d # <<>> /\ rewrittenCounts(d) # {} => program = Say(rewrittenCounts(d))
        /\ d # <<>> /\ rewrittenCounts(d) = {} /\ exact = {} => program = Say({none})
        /\ d # <<>> /\ rewrittenCounts(d) = {} /\ exact # {} => program = Say(told)
      BY <1>3, <2>2 DEF anthropicDifferential, blank, none, Exact
  <2>5. SaysTruly(e, {blank}) /\ SaysTruly(e, {none})
      BY NeutralSaid, OneTold DEF blank, none
  <2>6. d # <<>> => d = OwnDeltas(e) \/ (e.kind = "any" /\ d \in [1 .. 3 -> Int])
      BY <2>3, CountsAreOwn
  <2>7. d # <<>> /\ rewrittenCounts(d) # {} => SaysTruly(e, rewrittenCounts(d))
    <3> HAVE d # <<>> /\ rewrittenCounts(d) # {}
    <3>1. e.kind = "any"
        BY <2>6, NeverRewritten
    <3> QED BY <3>1, RewrittenSaid
  <2>8. d = OwnDeltas(e) => exact = {}
    <3> HAVE d = OwnDeltas(e)
    <3>1. d \in [1 .. 3 -> Nat] /\ (d[1] = 33 \/ d[1] = 25)
        BY <1>1, OwnDeltasAre
    <3>2. d[1] \in Int /\ d[2] \in Int /\ d[3] \in Int
        BY <3>1
    <3>3. "o200k_base" \notin exact /\ "cl100k_base" \notin exact
        BY <3>1, <3>2, OneEncoding
    <3> QED BY <3>3 DEF Exact
  <2>9. d \in [1 .. 3 -> Int] => \A x, y \in exact : x = y
    <3> HAVE d \in [1 .. 3 -> Int]
    <3>1. d[1] \in Int /\ d[2] \in Int /\ d[3] \in Int
        OBVIOUS
    <3>2. "o200k_base" \notin exact \/ "cl100k_base" \notin exact
      <4>1. d[1] # 17 \/ d[1] # 29
          BY <3>1
      <4> QED BY <3>1, <4>1, OneEncoding
    <3> QED BY <3>2 DEF Exact
  <2>10. ASSUME e.kind = "any", NEW x PROVE TellsTruly(e, Tells_(x))
    <3> DEFINE llr1 == [Neutral EXCEPT !.other = 2, !.translated = 5]
               llr2 == [Neutral EXCEPT !.other = 4, !.claim = -4, !.cheaper = -4, !.translated = 4]
               llr3 == [Neutral EXCEPT !.other = 3, !.translated = 5]
    <3>1. "derived" \in Calibrations
        BY DEF Calibrations
    <3>2. llr1 = Weight(0, 0, 2, 0, 0, 0, 0, 5)
        BY DEF Weight, Neutral, Findings
    <3>3. llr2 = Weight(-4, -4, 4, 0, 0, 0, 0, 4)
        BY DEF Weight, Neutral, Findings
    <3>4. llr3 = Weight(0, 0, 3, 0, 0, 0, 0, 5)
        BY DEF Weight, Neutral, Findings
    <3> HIDE DEF llr1, llr2, llr3
    <3>5. exactLlr(x, t.native) = llr1 \/ exactLlr(x, t.native) = llr2 \/ exactLlr(x, t.native) = llr3
        BY DEF exactLlr, llr1, llr2, llr3
    <3>6. e.kind # "vendor" /\ e.kind # "layer" /\ e.kind # "cheaper"
        BY <2>10
    <3>7. TellsTruly(e, Signal("openai-encoding", "derived", llr1))
        BY <3>1, <3>2, <3>6, WeightTells
    <3>8. TellsTruly(e, Signal("openai-encoding", "derived", llr2))
        BY <3>1, <3>3, <3>6, WeightTells
    <3>9. TellsTruly(e, Signal("openai-encoding", "derived", llr3))
        BY <3>1, <3>4, <3>6, WeightTells
    <3> QED BY <3>5, <3>7, <3>8, <3>9
  <2> HIDE DEF Tells_, exact
  <2>11. d # <<>> /\ exact # {} => SaysTruly(e, told)
    <3> HAVE d # <<>> /\ exact # {}
    <3>1. e.kind = "any" /\ \A x, y \in exact : x = y
        BY <2>6, <2>8, <2>9
    <3>2. (\A s \in told : TellsTruly(e, s)) /\ \A s, s_ \in told : s = s_
        BY <2>10, <3>1
    <3> HIDE DEF told
    <3> QED BY <3>2, OneSaid
  <2> HIDE DEF d, told
  <2>12. CASE d = <<>>
      BY <2>4, <2>5, <2>12, SayingKeeps DEF program
  <2>13. CASE d # <<>> /\ rewrittenCounts(d) # {}
      BY <2>4, <2>7, <2>13, SayingKeeps DEF program
  <2>14. CASE d # <<>> /\ rewrittenCounts(d) = {} /\ exact = {}
      BY <2>4, <2>5, <2>14, SayingKeeps DEF program
  <2>15. CASE d # <<>> /\ rewrittenCounts(d) = {} /\ exact # {}
      BY <2>4, <2>11, <2>15, SayingKeeps DEF program
  <2> QED BY <2>12, <2>13, <2>14, <2>15
<1> QED BY <1>2, <1>3

---------------------------------------------------------------------------
(* What the shared generation shows *)

\* What the vendor's API answers, cut at its limit or ended before it.
PlainGeneration(e, limit, g) ==
  /\ g.usage = TRUE /\ g.input = Input(e.target, e.model) /\ g.output \in {limit, limit - 1}
  /\ g.output = limit => g.stop = lengthStop(e.target)
  /\ e.target.protocol # "anthropic-messages" => g.total = g.input + g.output
  /\ g.cacheRead = -1 /\ g.cacheCreation = -1 /\ g.reasoning = -1 /\ g.text = 3
  /\ e.target.vendor = "openai" => g.id = "openai"
  /\ g.echo = "accepted" /\ g.fingerprint = "null"

\* The endpoint's own generation is plain.
LEMMA OwnIsPlain ==
  ASSUME NEW e, NEW limit \in Int
  PROVE  LET g == OwnGeneration(e, limit) IN
         /\ PlainGeneration(e, limit, g) /\ g.output = limit /\ g.status = 200
         /\ g.total = IF e.target.protocol # "anthropic-messages" THEN g.input + limit ELSE None
<1> DEFINE g == OwnGeneration(e, limit)
<1>1. /\ g.usage = TRUE /\ g.input = Input(e.target, e.model) /\ g.output = limit
      /\ g.stop = lengthStop(e.target)
      /\ g.total = IF e.target.protocol # "anthropic-messages"
                   THEN Input(e.target, e.model) + limit ELSE None
      /\ g.cacheRead = None /\ g.cacheCreation = None /\ g.reasoning = None /\ g.text = 3
      /\ g.id = IF e.target.vendor = "openai" THEN "openai" ELSE "missing"
      /\ g.echo = "accepted" /\ g.fingerprint = "null" /\ g.status = 200
    BY DEF OwnGeneration
<1> HIDE DEF g
<1>2. PlainGeneration(e, limit, g) /\ g.output = limit /\ g.status = 200
    BY <1>1 DEF PlainGeneration, None
<1>3. g.total = IF e.target.protocol # "anthropic-messages" THEN g.input + limit ELSE None
    BY <1>1
<1> QED BY <1>2, <1>3 DEF g

\* What the vendor answers with success is plain and has some output.
LEMMA VendorShows ==
  ASSUME NEW e, e.kind = "vendor", NEW limit \in {1, 16}, NEW g \in BaselineAnswers(e, limit), isSuccess(g)
  PROVE  PlainGeneration(e, limit, g) /\ g.output >= 1
<1> DEFINE own == OwnGeneration(e, limit)
           refused == [own EXCEPT !.status = 400]
           before == OwnGeneration(e, limit - 1)
           short == [before EXCEPT !.stop = "end"]
<1>1. g = own \/ g = refused \/ (limit > 1 /\ g = short)
    BY DEF BaselineAnswers
<1>2. refused.status = 400
    BY DEF OwnGeneration
<1>3. /\ short.usage = before.usage /\ short.input = before.input /\ short.output = before.output
      /\ short.total = before.total /\ short.cacheRead = before.cacheRead
      /\ short.cacheCreation = before.cacheCreation /\ short.reasoning = before.reasoning
      /\ short.text = before.text /\ short.id = before.id /\ short.echo = before.echo
      /\ short.fingerprint = before.fingerprint
    BY DEF OwnGeneration
<1>4. limit \in Int /\ limit - 1 \in Int /\ limit - 1 # limit
    OBVIOUS
<1>5. PlainGeneration(e, limit, own) /\ own.output = limit
    BY <1>4, OwnIsPlain
<1>6. PlainGeneration(e, limit - 1, before) /\ before.output = limit - 1
    BY <1>4, OwnIsPlain
<1> HIDE DEF own, refused, before, short
<1>7. g # refused
    BY <1>2 DEF isSuccess
<1>8. PlainGeneration(e, limit, short)
    BY <1>3, <1>4, <1>6 DEF PlainGeneration
<1>9. limit >= 1 /\ (limit > 1 => limit - 1 >= 1)
    OBVIOUS
<1>10. limit > 1 => short.output >= 1
    BY <1>3, <1>6, <1>9
<1> QED BY <1>1, <1>5, <1>7, <1>8, <1>9, <1>10

\* What a layer passes on names the claimed model, a model of its own or none.
LayerGeneration(e, g) ==
  /\ g.input \in {Input(e.target, e.model), -1} /\ g.cacheRead = -1 /\ g.cacheCreation = -1
  /\ g.echo \in {"accepted", "missing", "blank", "respelled", "partner"}

\* A layer may take a count away, and rename what it passes on, but counts nothing
\* else.
LEMMA LayerShows ==
  ASSUME NEW e, e.kind = "layer", NEW limit \in {1, 16}, NEW g \in BaselineAnswers(e, limit)
  PROVE  LayerGeneration(e, g)
<1> DEFINE own == OwnGeneration(e, limit)
<1>1. g \in {own} \union Stripped(own)
    BY DEF BaselineAnswers
<1>2. /\ own.input = Input(e.target, e.model) /\ own.cacheRead = -1 /\ own.cacheCreation = -1
      /\ own.echo = "accepted"
    BY DEF OwnGeneration, None
<1>3. LayerGeneration(e, own)
    BY <1>2 DEF LayerGeneration
<1>4. own = [status |-> own.status, generates |-> own.generates, usage |-> own.usage,
             input |-> own.input, output |-> own.output, total |-> own.total,
             cacheRead |-> own.cacheRead, cacheCreation |-> own.cacheCreation,
             reasoning |-> own.reasoning, stop |-> own.stop, text |-> own.text, id |-> own.id,
             echo |-> own.echo, fingerprint |-> own.fingerprint]
    BY DEF OwnGeneration
<1> HIDE DEF own
<1> DEFINE bare == [own EXCEPT !.usage = FALSE, !.input = None, !.output = None, !.total = None]
<1>5. /\ bare.input = -1 /\ bare.cacheRead = own.cacheRead
      /\ bare.cacheCreation = own.cacheCreation /\ bare.echo = own.echo
    BY <1>4 DEF None
<1>6. LayerGeneration(e, bare)
    BY <1>2, <1>5 DEF LayerGeneration
<1> DEFINE Passed(x) == x.input = own.input /\ x.cacheRead = own.cacheRead
                        /\ x.cacheCreation = own.cacheCreation
<1>7. ASSUME NEW x, Passed(x), x.echo \in {"accepted", "missing", "blank", "respelled", "partner"}
      PROVE  LayerGeneration(e, x)
    BY <1>2, <1>7 DEF LayerGeneration
<1>8. ASSUME g \in Stripped(own), g # bare
      PROVE  Passed(g) /\ g.echo \in {"accepted", "missing", "blank", "respelled", "partner"}
  <2>1. \/ g = [own EXCEPT !.output = None] \/ g = [own EXCEPT !.total = None]
        \/ g = [own EXCEPT !.stop = "renamed"] \/ g = [own EXCEPT !.id = "missing"]
        \/ g = [own EXCEPT !.id = "foreign-shape"] \/ g = [own EXCEPT !.fingerprint = "absent"]
        \/ \E x \in {"missing", "blank", "respelled", "partner"} : g = [own EXCEPT !.echo = x]
      BY <1>8 DEF Stripped
  <2>2. CASE g = [own EXCEPT !.output = None]
      BY <1>2, <1>4, <2>2
  <2>3. CASE g = [own EXCEPT !.total = None]
      BY <1>2, <1>4, <2>3
  <2>4. CASE g = [own EXCEPT !.stop = "renamed"]
      BY <1>2, <1>4, <2>4
  <2>5. CASE g = [own EXCEPT !.id = "missing"]
      BY <1>2, <1>4, <2>5
  <2>6. CASE g = [own EXCEPT !.id = "foreign-shape"]
      BY <1>2, <1>4, <2>6
  <2>7. CASE g = [own EXCEPT !.fingerprint = "absent"]
      BY <1>2, <1>4, <2>7
  <2>8. ASSUME NEW x \in {"missing", "blank", "respelled", "partner"}, g = [own EXCEPT !.echo = x]
        PROVE  Passed(g) /\ g.echo = x
      BY <1>2, <1>4, <2>8
  <2> QED BY <2>1, <2>2, <2>3, <2>4, <2>5, <2>6, <2>7, <2>8
<1> QED BY <1>1, <1>3, <1>6, <1>7, <1>8

---------------------------------------------------------------------------
(* What the probes of group B say *)

\* How much a broken rule weighs.
LEMMA RulesWeigh ==
  ASSUME NEW t, NEW g
  PROVE  \A r \in Rules(t, g) : r.weight \in {3, 4, 5}
<1>1. ASSUME NEW h, NEW c, NEW w \in {3, 4, 5} PROVE Rule(h, c, w).weight \in {3, 4, 5}
    BY DEF Rule
<1>2. 3 \in {3, 4, 5} /\ 4 \in {3, 4, 5} /\ 5 \in {3, 4, 5}
    OBVIOUS
<1>3. ASSUME NEW r \in Rules(t, g)
      PROVE  \E h, c : \E w \in {3, 4, 5} : r = Rule(h, c, w)
    BY <1>2 DEF Rules, reasoningRule
<1> QED BY <1>1, <1>3

\* The worst of some rules is among them.
LEMMA WorstWeighs ==
  ASSUME NEW B, B # {}, \A r \in B : r.weight \in {3, 4, 5}
  PROVE  (CHOOSE w \in {r.weight : r \in B} : \A r \in B : r.weight <= w) \in {3, 4, 5}
<1> DEFINE W == {r.weight : r \in B}
<1>1. \E w \in W : \A r \in B : r.weight <= w
  <2>1. CASE \E r \in B : r.weight = 5
    <3>1. 5 \in W /\ \A r \in B : r.weight <= 5
        BY <2>1
    <3> QED BY <3>1
  <2>2. CASE (\E r \in B : r.weight = 4) /\ ~\E r \in B : r.weight = 5
    <3>1. 4 \in W /\ \A r \in B : r.weight <= 4
        BY <2>2
    <3> QED BY <3>1
  <2>3. CASE ~(\E r \in B : r.weight = 4) /\ ~\E r \in B : r.weight = 5
    <3>1. \A r \in B : r.weight = 3
        BY <2>3
    <3>2. 3 \in W /\ \A r \in B : r.weight <= 3
        BY <3>1
    <3> QED BY <3>2
  <2> QED BY <2>1, <2>2, <2>3
<1>2. \A w \in W : w \in {3, 4, 5}
    OBVIOUS
<1> QED BY <1>1, <1>2

\* The vendor breaks none.
LEMMA RuleHolds ==
  ASSUME NEW h, h = {TRUE} \/ h = {}, NEW c, NEW w
  PROVE  FALSE \notin Rule(h, c, w).holds
<1>1. Rule(h, c, w).holds = h
    BY DEF Rule
<1>2. FALSE \notin {TRUE} /\ FALSE \notin {}
    OBVIOUS
<1> QED BY <1>1, <1>2

\* No rule of usage-arithmetic is broken by it.
LEMMA NoneBroken ==
  ASSUME NEW e \in Endpoints, NEW limit \in {1, 16}, NEW g, PlainGeneration(e, limit, g), g.output >= 1
  PROVE  \A r \in Rules(e.target, g) : FALSE \notin r.holds
<1> DEFINE t == e.target
           input == g.input
           output == g.output
           last == reasoningRule(g)
<1>1. Input(e.target, e.model) \in {108, 143, 110}
    BY DEF Input
<1>2. /\ input \in {108, 143, 110} /\ output \in {limit, limit - 1}
      /\ t.protocol # "anthropic-messages" => g.total = input + output
      /\ g.cacheRead = -1 /\ g.reasoning = -1
    BY <1>1 DEF PlainGeneration
<1>3. input # None /\ output # None /\ input + output # None /\ g.cacheRead = None /\ g.reasoning = None
      /\ output > 0
  <2>1. input \in Nat /\ output \in Nat /\ input + output \in Nat /\ output > 0
      BY <1>2
  <2> QED BY <1>2, <2>1 DEF None
<1>4. FALSE \notin last.holds
  <2>1. atMost(g.reasoning, g.output) = {}
      BY <1>3 DEF atMost
  <2> QED BY <2>1, RuleHolds DEF reasoningRule
<1>5. atMost(g.cacheRead, g.input) = {}
    BY <1>3 DEF atMost
<1>6. t.protocol # "anthropic-messages" => sumOf(g.total, g.input, g.output) = {TRUE}
    BY <1>2, <1>3 DEF sumOf
<1>7. CASE t.protocol = "openai-chat"
  <2> DEFINE h == {None \notin {g.input, g.output, g.total}}
             r1 == Rule(h, "heuristic", 3)
             r2 == Rule(sumOf(g.total, g.input, g.output), "documented", 5)
             r3 == Rule(atMost(g.cacheRead, g.input), "documented", 4)
  <2>1. h = {TRUE}
      BY <1>2, <1>3, <1>7
  <2>2. Rules(t, g) = {r1, r2, r3, last}
      BY <1>7 DEF Rules
  <2> HIDE DEF h
  <2>3. FALSE \notin r1.holds
      BY <2>1, RuleHolds
  <2>4. FALSE \notin r2.holds
      BY <1>6, <1>7, RuleHolds
  <2>5. FALSE \notin r3.holds
      BY <1>5, RuleHolds
  <2> HIDE DEF r1, r2, r3, last
  <2> QED BY <1>4, <2>2, <2>3, <2>4, <2>5
<1>8. CASE t.protocol = "openai-responses"
  <2> DEFINE h == {None \notin {g.input, g.output}}
             r1 == Rule(h, "heuristic", 3)
             r2 == Rule(sumOf(g.total, g.input, g.output), "heuristic", 3)
             r3 == Rule(atMost(g.cacheRead, g.input), "documented", 4)
  <2>1. h = {TRUE}
      BY <1>3
  <2>2. Rules(t, g) = {r1, r2, r3, last}
      BY <1>8 DEF Rules
  <2> HIDE DEF h
  <2>3. FALSE \notin r1.holds
      BY <2>1, RuleHolds
  <2>4. FALSE \notin r2.holds
      BY <1>6, <1>8, RuleHolds
  <2>5. FALSE \notin r3.holds
      BY <1>5, RuleHolds
  <2> HIDE DEF r1, r2, r3, last
  <2> QED BY <1>4, <2>2, <2>3, <2>4, <2>5
<1>9. CASE t.protocol = "anthropic-messages"
  <2> DEFINE h == {g.input # None}
             k == {g.output > 0}
             r1 == Rule(h, "documented", 3)
             r2 == Rule(k, "documented", 4)
  <2>1. h = {TRUE} /\ k = {TRUE}
      BY <1>3
  <2>2. Rules(t, g) = {r1, r2, last}
      BY <1>9 DEF Rules
  <2> HIDE DEF h, k
  <2>3. FALSE \notin r1.holds
      BY <2>1, RuleHolds
  <2>4. FALSE \notin r2.holds
      BY <2>1, RuleHolds
  <2> HIDE DEF r1, r2, last
  <2> QED BY <1>4, <2>2, <2>3, <2>4
<1> QED BY <1>7, <1>8, <1>9, EndpointFacts

\* A shared generation, for an endpoint, at the limit that was found.
Shows(e, limit, g) ==
  /\ e \in Endpoints /\ limit \in {1, 16} /\ g \in BaselineAnswers(e, limit) /\ isSuccess(g)

\* Rules are documented or heuristic.
LEMMA StrongestIs == ASSUME NEW R PROVE strongest(R) \in {"documented", "heuristic"}
BY DEF strongest

\* A signal that only counts for a translation.
LEMMA TranslationTells ==
  ASSUME NEW e, e.kind # "vendor", NEW id, NEW c \in {"documented", "heuristic"}, NEW n \in 0 .. 8
  PROVE  TellsTruly(e, Signal(id, c, [Neutral EXCEPT !.translated = n]))
<1>1. c \in Calibrations
    BY DEF Calibrations
<1>2. [Neutral EXCEPT !.translated = n] = Weight(0, 0, 0, 0, 0, 0, 0, n)
    BY DEF Weight, Neutral, Findings
<1>3. n \in Int /\ -10 <= n /\ n <= 10 /\ n + 0 >= 0
    OBVIOUS
<1>4. TellsTruly(e, Signal(id, c, Weight(0, 0, 0, 0, 0, 0, 0, n)))
    BY <1>1, <1>3, WeightTells
<1> QED BY <1>2, <1>4

\* usage-arithmetic: what breaks a rule is not the vendor's, and counts for a
\* translation only.
LEMMA usageArithmeticSaid ==
  ASSUME NEW e, NEW limit, NEW g, Shows(e, limit, g)
  PROVE  SaysTruly(e, usageArithmetic(e.target, g))
<1> DEFINE t == e.target
           checked == {r \in Rules(t, g) : r.holds # {}}
           broken == {r \in checked : FALSE \in r.holds}
           worst == CHOOSE w \in {r.weight : r \in broken} : \A r \in broken : r.weight <= w
           documents == t.protocol = "anthropic-messages"
           c == IF documents THEN "documented" ELSE "heuristic"
           n == IF documents THEN 4 ELSE 3
           s1 == Signal("no-usage", c, [Neutral EXCEPT !.translated = n])
           s2 == Signal("consistent", strongest(checked), Neutral)
           s3 == Signal("inconsistent", strongest(broken), [Neutral EXCEPT !.translated = worst])
           said_ == usageArithmetic(t, g)
<1>1. /\ ~g.usage => said_ = {s1}
      /\ g.usage /\ broken = {} => said_ = {s2}
      /\ g.usage /\ broken # {} => said_ = {s3}
    BY DEF usageArithmetic
<1>2. e.kind = "vendor" => g.usage /\ broken = {}
  <2> HAVE e.kind = "vendor"
  <2>1. PlainGeneration(e, limit, g) /\ g.output >= 1
      BY VendorShows DEF Shows
  <2>2. g.usage
      BY <2>1 DEF PlainGeneration
  <2>3. \A r \in Rules(t, g) : FALSE \notin r.holds
      BY <2>1, NoneBroken DEF Shows
  <2> QED BY <2>2, <2>3
<1>3. broken # {} => worst \in {3, 4, 5}
  <2>1. \A r \in broken : r.weight \in {3, 4, 5}
      BY RulesWeigh
  <2> HIDE DEF broken
  <2> QED BY <2>1, WorstWeighs
<1>4. strongest(checked) \in {"documented", "heuristic"} /\ strongest(broken) \in {"documented", "heuristic"}
    BY StrongestIs
<1>5. c \in {"documented", "heuristic"} /\ n \in 0 .. 8
    OBVIOUS
<1>6. TellsTruly(e, s2)
  <2> DEFINE k == strongest(checked)
  <2>1. k = "documented" \/ k = "heuristic"
      BY <1>4
  <2> HIDE DEF k
  <2>2. TellsTruly(e, Signal("consistent", k, Neutral))
      BY <2>1, NeutralSaid
  <2> QED BY <2>2 DEF k
<1>7. e.kind # "vendor" => TellsTruly(e, s1)
    BY <1>5, TranslationTells
<1>8. e.kind # "vendor" /\ broken # {} => TellsTruly(e, s3)
  <2> HIDE DEF worst, broken
  <2>1. broken # {} => worst \in 0 .. 8
      BY <1>3
  <2> QED BY <1>4, <2>1, TranslationTells
<1> HIDE DEF s1, s2, s3, broken, checked
<1>9. \/ said_ = {s1} /\ e.kind # "vendor"
      \/ said_ = {s2}
      \/ said_ = {s3} /\ e.kind # "vendor" /\ broken # {}
    BY <1>1, <1>2
<1> HIDE DEF said_
<1>10. SaysTruly(e, said_)
    BY <1>6, <1>7, <1>8, <1>9, OneTold
<1> QED BY <1>10 DEF said_

\* output-limit: the vendor keeps to the limit, ends before it or says that it was cut.
LEMMA outputLimitSaid ==
  ASSUME NEW e, NEW floor, NEW g, Shows(e, floor.limit, g)
  PROVE  SaysTruly(e, outputLimit(e.target, floor, g))
<1> DEFINE t == e.target
           limit == floor.limit
           llr == [Neutral EXCEPT !.canned = 2, !.translated = 5]
           s1 == Signal("over-limit", "documented", llr)
           s2 == Signal("stop-reason", "documented", [Neutral EXCEPT !.translated = 4])
           s3 == Signal("within-limit", "documented", Neutral)
           said_ == outputLimit(t, floor, g)
           over == g.output > limit \/ g.text > limit * 128 + 64
           cut == g.stop # lengthStop(t) /\ ~(g.output # None /\ g.output < limit)
<1>1. /\ over => said_ = {s1}
      /\ ~over /\ cut => said_ = {s2}
      /\ ~over /\ ~cut => said_ = {s3}
    BY DEF outputLimit
<1>2. e.kind = "vendor" => ~over /\ ~cut
  <2> HAVE e.kind = "vendor"
  <2>1. PlainGeneration(e, limit, g) /\ g.output >= 1 /\ limit \in {1, 16}
      BY VendorShows DEF Shows
  <2>2. g.output \in {limit, limit - 1} /\ g.text = 3 /\ (g.output = limit => g.stop = lengthStop(t))
      BY <2>1 DEF PlainGeneration
  <2> HIDE DEF limit
  <2>3. limit = 1 \/ limit = 16
      BY <2>1
  <2>4. ~over
      BY <2>2, <2>3
  <2>5. g.output # limit => g.output # None /\ g.output < limit
      BY <2>1, <2>2, <2>3 DEF None
  <2> QED BY <2>2, <2>4, <2>5
<1>3. e.kind # "vendor" => TellsTruly(e, s1)
  <2>1. llr = Weight(0, 0, 0, 2, 0, 0, 0, 5)
      BY DEF Weight, Neutral, Findings
  <2>2. "documented" \in Calibrations
      BY DEF Calibrations
  <2>3. e.kind # "vendor" => TellsTruly(e, Signal("over-limit", "documented", Weight(0, 0, 0, 2, 0, 0, 0, 5)))
      BY <2>2, WeightTells
  <2> QED BY <2>1, <2>3
<1>4. e.kind # "vendor" => TellsTruly(e, s2)
  <2>1. 4 \in 0 .. 8
      OBVIOUS
  <2> QED BY <2>1, TranslationTells
<1>5. TellsTruly(e, s3)
    BY NeutralSaid
<1> HIDE DEF over, cut, s1, s2, s3
<1>6. \/ said_ = {s1} /\ e.kind # "vendor"
      \/ said_ = {s2} /\ e.kind # "vendor"
      \/ said_ = {s3}
    BY <1>1, <1>2
<1> HIDE DEF said_
<1>7. SaysTruly(e, said_)
    BY <1>3, <1>4, <1>5, <1>6, OneTold
<1> QED BY <1>7 DEF said_

\* id-format: the vendor's identifiers have its prefix and shape.
LEMMA idFormatSaid ==
  ASSUME NEW e, NEW limit, NEW g, Shows(e, limit, g), e.target.vendor = "openai"
  PROVE  SaysTruly(e, idFormat(g))
<1> DEFINE llr == [Neutral EXCEPT !.other = 3, !.translated = 3]
           s1 == Signal("missing", "heuristic", [Neutral EXCEPT !.translated = 3])
           s2 == Signal("anthropic-shaped", "heuristic", llr)
           s3 == Signal("foreign-prefix", "heuristic", [Neutral EXCEPT !.translated = 3])
           s4 == Signal("foreign-shape", "heuristic", [Neutral EXCEPT !.translated = 2])
           s5 == Signal("openai-shaped", "heuristic", Neutral)
           said_ == idFormat(g)
<1>1. /\ g.id = "openai" => said_ = {s5}
      /\ said_ = {s1} \/ said_ = {s2} \/ said_ = {s3} \/ said_ = {s4} \/ said_ = {s5}
    BY DEF idFormat
<1>2. e.kind = "vendor" => g.id = "openai"
  <2> SUFFICES ASSUME e.kind = "vendor" PROVE g.id = "openai"
      OBVIOUS
  <2>1. PlainGeneration(e, limit, g)
      BY VendorShows DEF Shows
  <2> QED BY <2>1 DEF PlainGeneration
<1>3. 2 \in 0 .. 8 /\ 3 \in 0 .. 8 /\ "heuristic" \in {"documented", "heuristic"}
    OBVIOUS
<1>4. e.kind # "vendor" => TellsTruly(e, s1)
    BY <1>3, TranslationTells
<1>5. e.kind # "vendor" => TellsTruly(e, s3)
    BY <1>3, TranslationTells
<1>6. e.kind # "vendor" => TellsTruly(e, s4)
    BY <1>3, TranslationTells
<1>7. e.kind # "vendor" => TellsTruly(e, s2)
  <2>1. llr = Weight(0, 0, 3, 0, 0, 0, 0, 3)
      BY DEF Weight, Neutral, Findings
  <2>2. "heuristic" \in Calibrations
      BY DEF Calibrations
  <2>3. e.kind # "vendor" => TellsTruly(e, Signal("anthropic-shaped", "heuristic", Weight(0, 0, 3, 0, 0, 0, 0, 3)))
      BY <2>2, WeightTells
  <2> QED BY <2>1, <2>3
<1>8. TellsTruly(e, s5)
    BY NeutralSaid
<1> HIDE DEF s1, s2, s3, s4, s5, said_
<1>9. \E s : said_ = {s} /\ TellsTruly(e, s)
    BY <1>1, <1>2, <1>4, <1>5, <1>6, <1>7, <1>8
<1>10. SaysTruly(e, said_)
    BY <1>9, OneTold
<1> QED BY <1>10 DEF said_

\* system-fingerprint: the vendor's is null or of its shape.
LEMMA systemFingerprintSaid ==
  ASSUME NEW e, NEW limit, NEW g, Shows(e, limit, g)
  PROVE  SaysTruly(e, systemFingerprint(g))
<1> DEFINE llr3 == [Neutral EXCEPT !.firstParty = -3, !.translated = 2]
           llr4 == [Neutral EXCEPT !.other = 2, !.translated = 2]
           s1 == Signal("absent", "heuristic", [Neutral EXCEPT !.translated = 2])
           s2 == Signal("openai-shaped", "heuristic", Neutral)
           s3 == Signal("empty", "heuristic", llr3)
           s4 == Signal("foreign-shape", "heuristic", llr4)
           said_ == systemFingerprint(g)
<1>1. /\ g.fingerprint = "null" => said_ = {s2}
      /\ said_ = {s1} \/ said_ = {s2} \/ said_ = {s3} \/ said_ = {s4}
    BY DEF systemFingerprint
<1>2. e.kind = "vendor" => g.fingerprint = "null"
    BY VendorShows DEF Shows, PlainGeneration
<1>3. "heuristic" \in Calibrations /\ 2 \in 0 .. 8
    BY DEF Calibrations
<1>4. e.kind # "vendor" => TellsTruly(e, s1)
    BY <1>3, TranslationTells
<1>5. TellsTruly(e, s2)
    BY NeutralSaid
<1>6. e.kind # "vendor" => TellsTruly(e, s3)
  <2>1. llr3 = Weight(0, 0, 0, 0, -3, 0, 0, 2)
      BY DEF Weight, Neutral, Findings
  <2>2. e.kind # "vendor" => TellsTruly(e, Signal("empty", "heuristic", Weight(0, 0, 0, 0, -3, 0, 0, 2)))
      BY <1>3, WeightTells
  <2> QED BY <2>1, <2>2
<1>7. e.kind # "vendor" => TellsTruly(e, s4)
  <2>1. llr4 = Weight(0, 0, 2, 0, 0, 0, 0, 2)
      BY DEF Weight, Neutral, Findings
  <2>2. e.kind # "vendor" => TellsTruly(e, Signal("foreign-shape", "heuristic", Weight(0, 0, 2, 0, 0, 0, 0, 2)))
      BY <1>3, WeightTells
  <2> QED BY <2>1, <2>2
<1> HIDE DEF s1, s2, s3, s4, said_
<1>8. \E s : said_ = {s} /\ TellsTruly(e, s)
    BY <1>1, <1>2, <1>4, <1>5, <1>6, <1>7
<1>9. SaysTruly(e, said_)
    BY <1>8, OneTold
<1> QED BY <1>9 DEF said_

\* The input of a plain generation.
LEMMA InputIs ==
  ASSUME NEW t, NEW m
  PROVE  Input(t, m) \in {108, 143, 110}
BY DEF Input

\* With nothing of it cached, the input reported is the count told.
LEMMA ReportedIs ==
  ASSUME NEW t, NEW g, g.cacheRead = -1, g.cacheCreation = -1, g.input \in Int
  PROVE  reportedInput(t, g) = g.input
<1>1. Max2(g.cacheRead, 0) = 0 /\ Max2(g.cacheCreation, 0) = 0
    BY DEF Max2
<1> QED BY <1>1 DEF reportedInput

\* hidden-input: nobody who passes the prompt on reports three times its tokens.
LEMMA hiddenInputSaid ==
  ASSUME NEW e, NEW limit, NEW g, Shows(e, limit, g)
  PROVE  SaysTruly(e, hiddenInput(e.target, g))
<1> DEFINE t == e.target
           reported == reportedInput(t, g)
           llr == [Neutral EXCEPT !.firstParty = -3, !.translated = 3]
           s1 == Signal("no-added-input", "heuristic", Neutral)
           s2 == Signal("added-input", "heuristic", llr)
           said_ == hiddenInput(t, g)
           few == reported <= ADDED_RATIO * LocalInput + TEMPLATE_TOKENS
<1>1. /\ reported = None => said_ = {}
      /\ reported # None /\ few => said_ = {s1}
      /\ reported # None /\ ~few => said_ = {s2}
    BY DEF hiddenInput
<1>2. e.kind = "vendor" => few
  <2> HAVE e.kind = "vendor"
  <2>1. PlainGeneration(e, limit, g)
      BY VendorShows DEF Shows
  <2>2. g.input \in {108, 143, 110} /\ g.cacheRead = -1 /\ g.cacheCreation = -1
      BY <2>1, InputIs DEF PlainGeneration
  <2>3. reported = g.input
      BY <2>2, ReportedIs
  <2> HIDE DEF reported
  <2>4. ADDED_RATIO * LocalInput + TEMPLATE_TOKENS = 364
      BY DEF ADDED_RATIO, LocalInput, TEMPLATE_TOKENS
  <2> QED BY <2>2, <2>3, <2>4
<1>3. TellsTruly(e, s1)
    BY NeutralSaid
<1>4. e.kind # "vendor" => TellsTruly(e, s2)
  <2>1. llr = Weight(0, 0, 0, 0, -3, 0, 0, 3)
      BY DEF Weight, Neutral, Findings
  <2>2. "heuristic" \in Calibrations
      BY DEF Calibrations
  <2>3. e.kind # "vendor" => TellsTruly(e, Signal("added-input", "heuristic", Weight(0, 0, 0, 0, -3, 0, 0, 3)))
      BY <2>2, WeightTells
  <2> QED BY <2>1, <2>3
<1> HIDE DEF few, s1, s2, said_
<1>5. \/ said_ = {}
      \/ \E s : said_ = {s} /\ TellsTruly(e, s)
    BY <1>1, <1>2, <1>3, <1>4
<1>6. SaysTruly(e, said_)
    BY <1>5, OneTold, NothingSaid
<1> QED BY <1>6 DEF said_

\* The signals about another model: nothing in them counts for the cheaper one's absence.
LEMMA AnotherModelTells ==
  ASSUME NEW e, e.kind # "vendor", e.kind # "layer", NEW id, NEW k \in Calibrations,
         NEW c \in Int, NEW ch \in Int, NEW o \in Int, NEW n \in Int,
         -8 <= c, c <= 0, 0 <= ch, ch <= 8, 0 <= o, o <= 8, 0 <= n, n <= 8
  PROVE  TellsTruly(e, Signal(id, k, Weight(c, ch, o, 0, 0, 0, 0, n)))
<1>1. /\ -10 <= c /\ c <= 10 /\ -10 <= ch /\ ch <= 10 /\ -10 <= o /\ o <= 10 /\ -10 <= n /\ n <= 10
      /\ ch >= -3
    OBVIOUS
<1> QED BY <1>1, WeightTells

\* What is said of another listed Claude model: never against a cheaper one.
LEMMA OtherModelsSaid ==
  ASSUME NEW e, e.kind \in {"cheaper", "any"}, NEW t, NEW m
  PROVE  TellsTruly(e, listedClaude(t, m))
<1> DEFINE s1 == Signal("other-claude", "documented", [Neutral EXCEPT !.claim = -6])
           s2 == Signal("other-claude", "heuristic", [Neutral EXCEPT !.claim = -3])
           s3 == Signal("cheaper-model", "documented", [Neutral EXCEPT !.claim = -8, !.cheaper = 8])
           s4 == Signal("cheaper-model", "heuristic", [Neutral EXCEPT !.claim = -3, !.cheaper = 3])
           told == listedClaude(t, m)
<1>1. told = s1 \/ told = s2 \/ told = s3 \/ told = s4
  <2>1. CASE t.native
      BY <2>1 DEF listedClaude
  <2>2. CASE ~t.native
      BY <2>2 DEF listedClaude
  <2> QED BY <2>1, <2>2
<1>2. "documented" \in Calibrations /\ "heuristic" \in Calibrations
    BY DEF Calibrations
<1>3. e.kind # "vendor" /\ e.kind # "layer"
    OBVIOUS
<1>4. TellsTruly(e, s1)
  <2>1. [Neutral EXCEPT !.claim = -6] = Weight(-6, 0, 0, 0, 0, 0, 0, 0)
      BY DEF Weight, Neutral, Findings
  <2>2. TellsTruly(e, Signal("other-claude", "documented", Weight(-6, 0, 0, 0, 0, 0, 0, 0)))
      BY <1>2, <1>3, AnotherModelTells
  <2> QED BY <2>1, <2>2
<1>5. TellsTruly(e, s2)
  <2>1. [Neutral EXCEPT !.claim = -3] = Weight(-3, 0, 0, 0, 0, 0, 0, 0)
      BY DEF Weight, Neutral, Findings
  <2>2. TellsTruly(e, Signal("other-claude", "heuristic", Weight(-3, 0, 0, 0, 0, 0, 0, 0)))
      BY <1>2, <1>3, AnotherModelTells
  <2> QED BY <2>1, <2>2
<1>6. TellsTruly(e, s3)
  <2>1. [Neutral EXCEPT !.claim = -8, !.cheaper = 8] = Weight(-8, 8, 0, 0, 0, 0, 0, 0)
      BY DEF Weight, Neutral, Findings
  <2>2. TellsTruly(e, Signal("cheaper-model", "documented", Weight(-8, 8, 0, 0, 0, 0, 0, 0)))
      BY <1>2, <1>3, AnotherModelTells
  <2> QED BY <2>1, <2>2
<1>7. TellsTruly(e, s4)
  <2>1. [Neutral EXCEPT !.claim = -3, !.cheaper = 3] = Weight(-3, 3, 0, 0, 0, 0, 0, 0)
      BY DEF Weight, Neutral, Findings
  <2>2. TellsTruly(e, Signal("cheaper-model", "heuristic", Weight(-3, 3, 0, 0, 0, 0, 0, 0)))
      BY <1>2, <1>3, AnotherModelTells
  <2> QED BY <2>1, <2>2
<1> HIDE DEF s1, s2, s3, s4, told
<1>8. TellsTruly(e, told)
    BY <1>1, <1>4, <1>5, <1>6, <1>7
<1> QED BY <1>8 DEF told

\* What is said of a name that is neither the claimed one's nor missing.
LEMMA ForeignNamesSaid ==
  ASSUME NEW e, e.kind \in {"cheaper", "any"}
  PROVE  /\ TellsTruly(e, Signal("other-vendor", "documented", [Neutral EXCEPT !.claim = -6, !.other = 8]))
         /\ TellsTruly(e, Signal("other-vendor", "derived", [Neutral EXCEPT !.claim = -5, !.other = 6]))
         /\ TellsTruly(e, Signal("unlisted-claude", "heuristic", [Neutral EXCEPT !.claim = -3, !.cheaper = 2]))
         /\ TellsTruly(e, Signal("smaller-model", "heuristic", [Neutral EXCEPT !.claim = -3, !.cheaper = 3]))
         /\ TellsTruly(e, Signal("other-gpt", "heuristic", [Neutral EXCEPT !.claim = -3]))
         /\ TellsTruly(e, Signal("other-family", "derived", [Neutral EXCEPT !.claim = -6, !.other = 6]))
         /\ TellsTruly(e, Signal("unrecognised", "heuristic", [Neutral EXCEPT !.other = 2, !.translated = 2]))
<1>1. "documented" \in Calibrations /\ "heuristic" \in Calibrations /\ "derived" \in Calibrations
    BY DEF Calibrations
<1>2. e.kind # "vendor" /\ e.kind # "layer"
    OBVIOUS
<1>4. TellsTruly(e, Signal("other-vendor", "documented", [Neutral EXCEPT !.claim = -6, !.other = 8]))
  <2>1. [Neutral EXCEPT !.claim = -6, !.other = 8] = Weight(-6, 0, 8, 0, 0, 0, 0, 0)
      BY DEF Weight, Neutral, Findings
  <2>2. TellsTruly(e, Signal("other-vendor", "documented", Weight(-6, 0, 8, 0, 0, 0, 0, 0)))
      BY <1>1, <1>2, AnotherModelTells
  <2> QED BY <2>1, <2>2
<1>5. TellsTruly(e, Signal("other-vendor", "derived", [Neutral EXCEPT !.claim = -5, !.other = 6]))
  <2>1. [Neutral EXCEPT !.claim = -5, !.other = 6] = Weight(-5, 0, 6, 0, 0, 0, 0, 0)
      BY DEF Weight, Neutral, Findings
  <2>2. TellsTruly(e, Signal("other-vendor", "derived", Weight(-5, 0, 6, 0, 0, 0, 0, 0)))
      BY <1>1, <1>2, AnotherModelTells
  <2> QED BY <2>1, <2>2
<1>6. TellsTruly(e, Signal("unlisted-claude", "heuristic", [Neutral EXCEPT !.claim = -3, !.cheaper = 2]))
  <2>1. [Neutral EXCEPT !.claim = -3, !.cheaper = 2] = Weight(-3, 2, 0, 0, 0, 0, 0, 0)
      BY DEF Weight, Neutral, Findings
  <2>2. TellsTruly(e, Signal("unlisted-claude", "heuristic", Weight(-3, 2, 0, 0, 0, 0, 0, 0)))
      BY <1>1, <1>2, AnotherModelTells
  <2> QED BY <2>1, <2>2
<1>7. TellsTruly(e, Signal("smaller-model", "heuristic", [Neutral EXCEPT !.claim = -3, !.cheaper = 3]))
  <2>1. [Neutral EXCEPT !.claim = -3, !.cheaper = 3] = Weight(-3, 3, 0, 0, 0, 0, 0, 0)
      BY DEF Weight, Neutral, Findings
  <2>2. TellsTruly(e, Signal("smaller-model", "heuristic", Weight(-3, 3, 0, 0, 0, 0, 0, 0)))
      BY <1>1, <1>2, AnotherModelTells
  <2> QED BY <2>1, <2>2
<1>8. TellsTruly(e, Signal("other-gpt", "heuristic", [Neutral EXCEPT !.claim = -3]))
  <2>1. [Neutral EXCEPT !.claim = -3] = Weight(-3, 0, 0, 0, 0, 0, 0, 0)
      BY DEF Weight, Neutral, Findings
  <2>2. TellsTruly(e, Signal("other-gpt", "heuristic", Weight(-3, 0, 0, 0, 0, 0, 0, 0)))
      BY <1>1, <1>2, AnotherModelTells
  <2> QED BY <2>1, <2>2
<1>9. TellsTruly(e, Signal("other-family", "derived", [Neutral EXCEPT !.claim = -6, !.other = 6]))
  <2>1. [Neutral EXCEPT !.claim = -6, !.other = 6] = Weight(-6, 0, 6, 0, 0, 0, 0, 0)
      BY DEF Weight, Neutral, Findings
  <2>2. TellsTruly(e, Signal("other-family", "derived", Weight(-6, 0, 6, 0, 0, 0, 0, 0)))
      BY <1>1, <1>2, AnotherModelTells
  <2> QED BY <2>1, <2>2
<1>10. TellsTruly(e, Signal("unrecognised", "heuristic", [Neutral EXCEPT !.other = 2, !.translated = 2]))
  <2>1. [Neutral EXCEPT !.other = 2, !.translated = 2] = Weight(0, 0, 2, 0, 0, 0, 0, 2)
      BY DEF Weight, Neutral, Findings
  <2>2. TellsTruly(e, Signal("unrecognised", "heuristic", Weight(0, 0, 2, 0, 0, 0, 0, 2)))
      BY <1>1, <1>2, AnotherModelTells
  <2> QED BY <2>1, <2>2
<1> QED BY <1>4, <1>5, <1>6, <1>7, <1>8, <1>9, <1>10

\* snapshot-echo: the vendor names the claimed model, a layer that or no model.
LEMMA snapshotEchoSaid ==
  ASSUME NEW e, NEW limit, NEW g, Shows(e, limit, g)
  PROVE  SaysTruly(e, snapshotEcho(e.target, g))
<1> DEFINE t == e.target
           blank == [Neutral EXCEPT !.firstParty = -2, !.translated = 2]
           partner == [Neutral EXCEPT !.cloud = 2, !.translated = 1]
           s1 == Signal("missing", "documented", Neutral)
           s2 == Signal("empty", "heuristic", blank)
           s3 == Signal("matches", "documented", Neutral)
           s4 == Signal("renamed", "heuristic", [Neutral EXCEPT !.translated = 2])
           s5 == Signal("renamed", "heuristic", partner)
           d1 == Signal("other-vendor", "documented", [Neutral EXCEPT !.claim = -6, !.other = 8])
           d2 == Signal("other-vendor", "derived", [Neutral EXCEPT !.claim = -5, !.other = 6])
           d3 == Signal("unlisted-claude", "heuristic", [Neutral EXCEPT !.claim = -3, !.cheaper = 2])
           d4 == Signal("smaller-model", "heuristic", [Neutral EXCEPT !.claim = -3, !.cheaper = 3])
           d5 == Signal("other-gpt", "heuristic", [Neutral EXCEPT !.claim = -3])
           d6 == Signal("other-family", "derived", [Neutral EXCEPT !.claim = -6, !.other = 6])
           d7 == Signal("unrecognised", "heuristic", [Neutral EXCEPT !.other = 2, !.translated = 2])
           d8 == listedClaude(t, g.echo)
           said_ == snapshotEcho(t, g)
<1>1. e.kind \in Kinds
    BY EndpointFacts DEF Shows
<1>2. \A x \in {"missing", "blank", "accepted", "respelled", "partner"} :
        /\ x \notin AnthropicModels /\ x # "unlisted-claude" /\ x \notin {"gpt", "smaller-gpt"}
        /\ x # "other-family"
    BY DEF AnthropicModels
<1>3. /\ g.echo = "missing" => said_ = {s1}
      /\ g.echo = "blank" => said_ = {s2}
      /\ g.echo = "accepted" => said_ = {s3}
      /\ g.echo = "respelled" => said_ = {s4}
      /\ g.echo = "partner" => said_ = {s5}
    BY <1>2 DEF snapshotEcho, renamed
<1>4. \E s \in {s1, s2, s3, s4, s5, d1, d2, d3, d4, d5, d6, d7, d8} : said_ = {s}
  BY SMTT(30) DEF snapshotEcho, renamed, otherVendor
<1>5. e.kind = "vendor" => g.echo = "accepted"
    BY VendorShows DEF Shows, PlainGeneration
<1>6. e.kind = "layer" => g.echo \in {"missing", "blank", "accepted", "respelled", "partner"}
    BY LayerShows DEF Shows, LayerGeneration
<1>7. "heuristic" \in Calibrations
    BY DEF Calibrations
<1>8. TellsTruly(e, s1) /\ TellsTruly(e, s3)
    BY NeutralSaid
<1>9. e.kind # "vendor" => TellsTruly(e, s2)
  <2>1. blank = Weight(0, 0, 0, 0, -2, 0, 0, 2)
      BY DEF Weight, Neutral, Findings
  <2>2. e.kind # "vendor" => TellsTruly(e, Signal("empty", "heuristic", Weight(0, 0, 0, 0, -2, 0, 0, 2)))
      BY <1>7, WeightTells
  <2> QED BY <2>1, <2>2
<1>10. e.kind # "vendor" => TellsTruly(e, s4)
  <2>1. 2 \in 0 .. 8 /\ "heuristic" \in {"documented", "heuristic"}
      OBVIOUS
  <2> QED BY <2>1, TranslationTells
<1>11. e.kind # "vendor" => TellsTruly(e, s5)
  <2>1. partner = Weight(0, 0, 0, 0, 0, 2, 0, 1)
      BY DEF Weight, Neutral, Findings
  <2>2. e.kind # "vendor" => TellsTruly(e, Signal("renamed", "heuristic", Weight(0, 0, 0, 0, 0, 2, 0, 1)))
      BY <1>7, WeightTells
  <2> QED BY <2>1, <2>2
<1>12. e.kind \in {"cheaper", "any"} =>
         /\ TellsTruly(e, d1) /\ TellsTruly(e, d2) /\ TellsTruly(e, d3) /\ TellsTruly(e, d4)
         /\ TellsTruly(e, d5) /\ TellsTruly(e, d6) /\ TellsTruly(e, d7)
    BY ForeignNamesSaid
<1>13. e.kind \in {"cheaper", "any"} => TellsTruly(e, d8)
    BY OtherModelsSaid
<1> HIDE DEF s1, s2, s3, s4, s5, d1, d2, d3, d4, d5, d6, d7, d8, said_
<1>14. \E s : said_ = {s} /\ TellsTruly(e, s)
  <2>1. CASE e.kind = "vendor"
      BY <1>3, <1>5, <1>8, <2>1
  <2>2. CASE e.kind = "layer"
      BY <1>3, <1>6, <1>8, <1>9, <1>10, <1>11, <2>2
  <2>3. CASE e.kind \in {"cheaper", "any"}
      BY <1>4, <1>8, <1>9, <1>10, <1>11, <1>12, <1>13, <2>3
  <2> QED BY <1>1, <2>1, <2>2, <2>3 DEF Kinds
<1>15. SaysTruly(e, said_)
    BY <1>14, OneTold
<1> QED BY <1>15 DEF said_

\* The two counts of a prompt, of which the vendor's agree.
LEMMA CountsAgree ==
  ASSUME NEW e \in Endpoints, e.kind \in {"vendor", "layer"},
         NEW x \in CountAnswers(e, Input(e.target, e.model)), x.status = 200 \/ e.kind = "vendor"
  PROVE  x.status = 200 /\ x.count # None /\ agrees(x.count, Input(e.target, e.model))
<1> DEFINE u == Input(e.target, e.model)
<1>1. e.model = e.target.model
    BY EndpointFacts
<1>2. u = 108 \/ u = 143 \/ u = 110
    BY InputIs
<1>3. u = Input(e.target, e.target.model)
    BY <1>1
<1>4. CountAnswers(e, u) =
        IF e.kind = "vendor" THEN [status : {200}, count : {u, u + 3, u}]
        ELSE [status : {200}, count : {u, u + 3, u}] \union {[status |-> 404, count |-> None]}
    BY <1>3 DEF CountAnswers
<1> HIDE DEF u
<1>5. x.status = 200 /\ (x.count = u \/ x.count = u + 3)
    BY <1>4 DEF u
<1>6. x.count - u = 0 \/ x.count - u = 3
    BY <1>2, <1>5
<1>7. Abs(x.count - u) <= 3 /\ Abs(x.count - u) >= 0
    BY <1>6 DEF Abs
<1>8. Max2(100 * AGREEMENT_TOKENS, 8 * u) >= 800
    BY <1>2 DEF Max2, AGREEMENT_TOKENS
<1>9. agrees(x.count, u)
    BY <1>2, <1>5, <1>6 DEF agrees, Abs, Max2, AGREEMENT_TOKENS
<1>10. x.count # None
    BY <1>2, <1>5 DEF None
<1> QED BY <1>5, <1>9, <1>10 DEF u

\* What is said of the two counts.
LEMMA CountSaid ==
  ASSUME NEW e, NEW limit, NEW g, Shows(e, limit, g), reportedInput(e.target, g) # None,
         NEW heard_, heard_ # <<>>, heard_[1] \in CountAnswers(e, Input(e.target, e.model))
  PROVE  \E said_ : countTokensAgreement(e.target, g, heard_) = Say(said_) /\ SaysTruly(e, said_)
<1> DEFINE t == e.target
           x == heard_[1]
           used == reportedInput(t, g)
           count == IF x.status # 200 THEN None ELSE x.count
           dropped == [Neutral EXCEPT !.firstParty = -4, !.translated = 2]
           s1 == Signal("no-count", "documented", dropped)
           s2 == Signal("agree", "documented", Neutral)
           s3 == Step(t, "older-tokenizer", "claude-legacy", 4)
           s4 == Step(t, "newer-tokenizer", "claude-2026", 3)
           s5 == Signal("disagree", "heuristic", [Neutral EXCEPT !.translated = 3])
           next == countTokensAgreement(t, g, heard_)
<1>1. /\ count = None => next = Say({s1})
      /\ count # None /\ agrees(count, used) => next = Say({s2})
      /\ \/ next = Say({s1}) \/ next = Say({s2}) \/ next = Say({s3}) \/ next = Say({s4})
         \/ next = Say({s5})
    BY DEF countTokensAgreement
<1>2. e.kind \in Kinds /\ e \in Endpoints
    BY EndpointFacts DEF Shows
<1>3. e.kind = "vendor" => used = Input(t, e.model)
  <2> HAVE e.kind = "vendor"
  <2>1. PlainGeneration(e, limit, g)
      BY VendorShows DEF Shows
  <2>2. g.input = Input(t, e.model) /\ g.cacheRead = -1 /\ g.cacheCreation = -1
      BY <2>1 DEF PlainGeneration
  <2>3. g.input \in Int
      BY <2>2, InputIs
  <2> QED BY <2>2, <2>3, ReportedIs
<1>4. e.kind = "layer" => used = Input(t, e.model)
  <2> HAVE e.kind = "layer"
  <2>1. LayerGeneration(e, g)
      BY LayerShows DEF Shows
  <2>2. g.input \in {Input(t, e.model), -1} /\ g.cacheRead = -1 /\ g.cacheCreation = -1
      BY <2>1 DEF LayerGeneration
  <2>3. g.input \in Int
      BY <2>2, InputIs
  <2>4. used = g.input
      BY <2>2, <2>3, ReportedIs
  <2> QED BY <2>2, <2>4 DEF None
<1>5. e.kind = "vendor" => count # None /\ agrees(count, used)
    BY <1>2, <1>3, CountsAgree
<1>6. e.kind = "layer" => count = None \/ agrees(count, used)
    BY <1>2, <1>4, CountsAgree
<1>7. "documented" \in Calibrations
    BY DEF Calibrations
<1>8. e.kind # "vendor" => TellsTruly(e, s1)
  <2>1. dropped = Weight(0, 0, 0, 0, -4, 0, 0, 2)
      BY DEF Weight, Neutral, Findings
  <2>2. e.kind # "vendor" => TellsTruly(e, Signal("no-count", "documented", Weight(0, 0, 0, 0, -4, 0, 0, 2)))
      BY <1>7, WeightTells
  <2> QED BY <2>1, <2>2
<1>9. TellsTruly(e, s2)
    BY NeutralSaid
<1>10. ASSUME NEW id, NEW other, NEW ratio \in {3, 4}, e.kind \in {"cheaper", "any"}
       PROVE  TellsTruly(e, Step(t, id, other, ratio))
  <2> DEFINE r == IF \E m \in cheaperThan[t.model] : tokenizer[m] = other THEN ratio ELSE 0
             llr == [Neutral EXCEPT !.claim = -3, !.translated = 2, !.cheaper = r]
  <2>1. Step(t, id, other, ratio) = Signal(id, "documented", llr)
      BY DEF Step
  <2>2. r \in Int /\ 0 <= r /\ r <= 8
      OBVIOUS
  <2> HIDE DEF r
  <2>3. llr = Weight(-3, r, 0, 0, 0, 0, 0, 2)
      BY DEF Weight, Neutral, Findings
  <2>4. e.kind # "vendor" /\ e.kind # "layer"
      BY <1>10
  <2>5. TellsTruly(e, Signal(id, "documented", Weight(-3, r, 0, 0, 0, 0, 0, 2)))
      BY <1>7, <2>2, <2>4, AnotherModelTells
  <2> QED BY <2>1, <2>3, <2>5
<1>11. e.kind \in {"cheaper", "any"} => TellsTruly(e, s3)
    BY <1>10
<1>12. e.kind \in {"cheaper", "any"} => TellsTruly(e, s4)
    BY <1>10
<1>13. e.kind # "vendor" => TellsTruly(e, s5)
  <2>1. 3 \in 0 .. 8 /\ "heuristic" \in {"documented", "heuristic"}
      OBVIOUS
  <2> QED BY <2>1, TranslationTells
<1> HIDE DEF s1, s2, s3, s4, s5, next, count, used
<1>14. \E s : next = Say({s}) /\ TellsTruly(e, s)
  <2>1. CASE e.kind = "vendor"
      BY <1>1, <1>5, <1>9, <2>1
  <2>2. CASE e.kind = "layer"
      BY <1>1, <1>6, <1>8, <1>9, <2>2
  <2>3. CASE e.kind \in {"cheaper", "any"}
    <3>1. TellsTruly(e, s1) /\ TellsTruly(e, s2) /\ TellsTruly(e, s3) /\ TellsTruly(e, s4) /\ TellsTruly(e, s5)
        BY <1>8, <1>9, <1>11, <1>12, <1>13, <2>3
    <3> QED BY <1>1, <3>1
  <2> QED BY <1>2, <2>1, <2>2, <2>3 DEF Kinds
<1>15. PICK s : next = Say({s}) /\ TellsTruly(e, s)
    BY <1>14
<1> DEFINE told == {s}
<1>16. SaysTruly(e, told)
    BY <1>15, OneTold
<1>17. next = Say(told)
    BY <1>15
<1> HIDE DEF told
<1> QED BY <1>16, <1>17 DEF next

\* The two requests of it.
LEMMA countTokensAgreementKeeps ==
  ASSUME NEW e, NEW known, NEW answers, Meets(e, "countTokensAgreement", known, answers),
         "baseline" \in DOMAIN known
  PROVE  Keeps(e, "countTokensAgreement", known, answers)
<1> DEFINE name == "countTokensAgreement"
           t == e.target
           g == known.baseline
           used == reportedInput(t, g)
           ask == Ask("count-tokens", 0)
           none == {}
<1>1. KnownAsKept(e, known) /\ HeardAsAsked(e, name, known, answers) /\ IsSeq(answers)
    BY DEF Meets, HeardAsAsked
<1>2. \A a : Program(name, t, known, a) = countTokensAgreement(t, g, a)
    BY CatalogueNames, CostNames DEF Program, accounting, TokenizerNames
<1>3. Shows(e, known.floor.limit, g)
    BY <1>1 DEF Meets, KnownAsKept, Shows
<1>4. name \in AccountingNames
    BY DEF AccountingNames
<1>5. Due(name, known) = 1
    BY <1>4, GenerationsDue DEF Extra
<1>6. IsSeq(<<>>) /\ Len(<<>>) = 0
    BY NothingHeard DEF HeardAsAsked
<1>7. Len(answers) \in Nat /\ (answers = <<>> <=> Len(answers) = 0)
    BY <1>1, HeardOneByOne
<1>8. CASE used = None
  <2>1. Program(name, t, known, answers) = Say(none)
      BY <1>2, <1>8 DEF countTokensAgreement
  <2>2. SaysTruly(e, none)
      BY NothingSaid
  <2> HIDE DEF none, name
  <2> QED BY <2>1, <2>2, SayingKeeps DEF name
<1>9. CASE used # None /\ answers = <<>>
  <2>1. Program(name, t, known, answers) = ask
      BY <1>2, <1>9 DEF countTokensAgreement
  <2>2. ask.do = "ask" /\ ask.tokens = 0 /\ ask.bill = 0
      BY DEF Ask
  <2>3. Len(answers) < Due(name, known)
      BY <1>5, <1>7, <1>9
  <2>4. ASSUME NEW x
        PROVE  LET left == LeftToCharge(name, known, answers)
                             - LeftToCharge(name, known, Append(answers, x))
               IN  ask.tokens <= left /\ ask.bill <= left
    <3> DEFINE more == Append(answers, x)
    <3> HIDE DEF more, ask
    <3>1. LeftToCharge(name, known, answers) = 0 /\ LeftToCharge(name, known, more) = 0
        BY <1>4, GenerationsLeft
    <3> QED BY <2>2, <3>1 DEF more
  <2> HIDE DEF ask, name
  <2> QED BY <2>1, <2>2, <2>3, <2>4, AskingKeeps DEF name
<1>10. CASE used # None /\ answers # <<>>
  <2>1. Len(answers) >= 1
      BY <1>7, <1>10
  <2>2. answers[1] \in Answers(e, Program(name, t, known, <<>>))
      BY <1>1, <2>1, HeardOneByOne
  <2>3. Program(name, t, known, <<>>) = ask
      BY <1>2, <1>10 DEF countTokensAgreement
  <2>4. ask.request = "count-tokens"
      BY DEF Ask
  <2>5. answers[1] \in CountAnswers(e, Input(t, e.model))
      BY <2>2, <2>3, <2>4, GenerationAnswers
  <2> HIDE DEF g
  <2>6. PICK said_ : countTokensAgreement(t, g, answers) = Say(said_) /\ SaysTruly(e, said_)
      BY <1>3, <1>10, <2>5, CountSaid
  <2>7. Program(name, t, known, answers) = Say(said_)
      BY <1>2, <2>6
  <2> HIDE DEF name
  <2> QED BY <2>6, <2>7, SayingKeeps DEF name
<1> QED BY <1>8, <1>9, <1>10

\* The probes of group B
LEMMA AccountingKeeps ==
  ASSUME NEW e, NEW name \in AccountingNames, NEW known, NEW answers, Meets(e, name, known, answers)
  PROVE  Keeps(e, name, known, answers)
<1>1. CASE "baseline" \notin DOMAIN known
    BY <1>1, BaselineKeeps
<1>2. CASE "baseline" \in DOMAIN known
  <2> DEFINE t == e.target
             g == known.baseline
             floor == known.floor
  <2>1. KnownAsKept(e, known) /\ Applies(name, t)
      BY DEF Meets
  <2>2. Shows(e, floor.limit, g)
      BY <1>2, <2>1 DEF Meets, KnownAsKept, Shows
  <2>3. \A a :
          /\ Program("usageArithmetic", t, known, a) = Say(usageArithmetic(t, g))
          /\ Program("outputLimit", t, known, a) = Say(outputLimit(t, floor, g))
          /\ Program("idFormat", t, known, a) = Say(idFormat(g))
          /\ Program("snapshotEcho", t, known, a) = Say(snapshotEcho(t, g))
          /\ Program("systemFingerprint", t, known, a) = Say(systemFingerprint(g))
          /\ Program("hiddenInput", t, known, a) = Say(hiddenInput(t, g))
      BY <1>2, CatalogueNames, CostNames DEF Program, accounting, TokenizerNames
  <2> HIDE DEF g, floor
  <2>4. CASE name = "usageArithmetic"
      BY <2>2, <2>3, <2>4, usageArithmeticSaid, SayingKeeps
  <2>5. CASE name = "outputLimit"
      BY <2>2, <2>3, <2>5, outputLimitSaid, SayingKeeps
  <2>6. CASE name = "idFormat"
    <3>1. t.vendor = "openai"
        BY <2>1, <2>6, ForWhomCounts
    <3>2. SaysTruly(e, idFormat(g))
        BY <2>2, <3>1, idFormatSaid
    <3> QED BY <2>3, <2>6, <3>2, SayingKeeps
  <2>7. CASE name = "snapshotEcho"
      BY <2>2, <2>3, <2>7, snapshotEchoSaid, SayingKeeps
  <2>8. CASE name = "systemFingerprint"
      BY <2>2, <2>3, <2>8, systemFingerprintSaid, SayingKeeps
  <2>9. CASE name = "hiddenInput"
      BY <2>2, <2>3, <2>9, hiddenInputSaid, SayingKeeps
  <2>10. CASE name = "countTokensAgreement"
      BY <1>2, <2>10, countTokensAgreementKeeps
  <2> QED BY <2>4, <2>5, <2>6, <2>7, <2>8, <2>9, <2>10 DEF AccountingNames
<1> QED BY <1>1, <1>2

\* Every probe of the catalogue.
LEMMA EveryProbeKeeps ==
  ASSUME NEW e, NEW name \in ProbeNames, NEW known, NEW answers, Meets(e, name, known, answers)
  PROVE  Keeps(e, name, known, answers)
<1>1. CASE name \in Singles
    BY <1>1, unknownParameterKeeps, modelNotFoundKeeps, extraInputsKeeps, betaHeaderKeeps,
       missingMaxTokensKeeps, protocolLeakageKeeps, compatFieldsKeeps, structuredOutputKeeps,
       logitBiasKeeps, logprobsRetokenizeKeeps DEF Singles
<1>2. CASE name \in AccountingNames
    BY <1>2, AccountingKeeps
<1>3. CASE name \in TokenizerNames
    BY <1>3, openaiLocalCountKeeps, anthropicDifferentialKeeps DEF TokenizerNames
<1>4. CASE name \in {"routeSerializers", "proxyWasmHeader", "empty404", "cors", "authOnlyHeaders",
                     "temperatureAboveMax", "errorEnvelope", "errorVocabulary", "modelRetrieve",
                     "permissiveValidator", "thinkingSignature", "thinkingDisplay", "cacheThreshold",
                     "cacheInvalidation"}
    BY <1>4, routeSerializersKeeps, proxyWasmHeaderKeeps, empty404Keeps, corsKeeps,
       authOnlyHeadersKeeps, temperatureAboveMaxKeeps, errorEnvelopeKeeps, errorVocabularyKeeps,
       modelRetrieveKeeps, permissiveValidatorKeeps, thinkingSignatureKeeps, thinkingDisplayKeeps,
       cacheThresholdKeeps, cacheInvalidationKeeps
<1> QED BY <1>1, <1>2, <1>3, <1>4 DEF ProbeNames

---------------------------------------------------------------------------
(* The costs *)

\* What is missing is one answer or none.
LEMMA OneOrNone == ASSUME NEW key, NEW known PROVE Missing(key, known) = 0 \/ Missing(key, known) = 1
BY DEF Missing

\* What the dearest of the probes declare, in numbers.
LEMMA DearestCosts ==
  /\ Cost("thinkingSignature").requests = 3 /\ Cost("thinkingSignature").tokens = 7509
  /\ Cost("cacheThreshold").requests = 2 /\ Cost("cacheThreshold").tokens = 61153
  /\ Cost("cacheInvalidation").requests = 3 /\ Cost("cacheInvalidation").tokens = 110832
<1>1. /\ Cost("thinkingSignature") = CausalCost["thinkingSignature"]
      /\ Cost("cacheThreshold") = CausalCost["cacheThreshold"]
      /\ Cost("cacheInvalidation") = CausalCost["cacheInvalidation"]
    BY CostsOf, CostNames
<1>2. /\ CausalCost["thinkingSignature"] = [requests |-> 3, tokens |-> SEED_TOKENS + 2 * REPLAY_TOKENS]
      /\ CausalCost["cacheThreshold"] = [requests |-> 2, tokens |-> ABOVE + rungTokens(BELOW_BYTES_BOUND)]
      /\ CausalCost["cacheInvalidation"] = [requests |-> 3, tokens |-> 3 * ABOVE]
    BY DEF CausalCost, ABOVE
<1>3. SEED_TOKENS + 2 * REPLAY_TOKENS = 7509
    BY Numbers
<1>4. ABOVE + rungTokens(BELOW_BYTES_BOUND) = 61153
    BY Numbers
<1>5. 3 * ABOVE = 110832
    BY Numbers
<1> QED BY <1>1, <1>2, <1>3, <1>4, <1>5

\* A probe declares what is due of it.
Within(name, known) ==
  /\ Cost(name).requests \in Nat /\ Cost(name).tokens \in Nat
  /\ Due(name, known) \in Nat
  /\ Due(name, known) <= Cost(name).requests
  /\ LeftToCharge(name, known, <<>>) <= Cost(name).tokens

\* The probes of one request of their own
LEMMA SingleWithin == ASSUME NEW name \in Singles, NEW known PROVE Within(name, known)
<1>1. Due(name, known) = 1
    BY DEF Due, Singles, AccountingNames, TokenizerNames
<1>2. Cost(name).requests = 1 /\ Cost(name).tokens \in Nat
    BY SingleCosts DEF Singles
<1>3. LeftToCharge(name, known, <<>>) =
        IF Due(name, known) - Len(<<>>) = 0 THEN 0 ELSE Cost(name).tokens
    BY SimpleLeft DEF Simple
<1> QED BY <1>1, <1>2, <1>3 DEF Within

\* Those charged all or nothing that share what they wait for
LEMMA SharingWithin ==
  ASSUME NEW name \in {"routeSerializers", "proxyWasmHeader", "empty404", "cors", "authOnlyHeaders",
                       "temperatureAboveMax", "errorEnvelope", "errorVocabulary", "modelRetrieve",
                       "permissiveValidator", "thinkingDisplay"}, NEW known
  PROVE  Within(name, known)
<1>1. Cost(name).tokens \in Nat
    BY SimpleCosts
<1>2. LeftToCharge(name, known, <<>>) =
        IF Due(name, known) - Len(<<>>) = 0 THEN 0 ELSE Cost(name).tokens
    BY SimpleLeft DEF Simple
<1>3. LeftToCharge(name, known, <<>>) <= Cost(name).tokens
    BY <1>1, <1>2
<1>4. Due(name, known) \in Nat /\ Due(name, known) <= Cost(name).requests /\ Cost(name).requests \in Nat
  <2>1. CASE name = "routeSerializers"
      BY <2>1, DueOf, OneOrNone, SimpleCosts
  <2>2. CASE name = "proxyWasmHeader"
      BY <2>2, DueOf, OneOrNone, SimpleCosts
  <2>3. CASE name \in {"empty404", "cors", "errorVocabulary", "modelRetrieve"}
      BY <2>3, DueOf, OneOrNone, SimpleCosts
  <2>4. CASE name \in {"authOnlyHeaders", "errorEnvelope", "temperatureAboveMax", "permissiveValidator",
                       "thinkingDisplay"}
      BY <2>4, DueOf, OneOrNone, SimpleCosts
  <2> QED BY <2>1, <2>2, <2>3, <2>4
<1> QED BY <1>1, <1>3, <1>4 DEF Within

\* Those of thinking and of the cache
LEMMA DearestWithin ==
  ASSUME NEW name \in {"thinkingSignature", "cacheThreshold", "cacheInvalidation"}, NEW known
  PROVE  Within(name, known)
<1> DEFINE none == <<>>
<1>1. none = <<>> /\ Len(none) = 0
    OBVIOUS
<1> HIDE DEF none
<1>2. CASE name = "thinkingSignature"
  <2>1. Due(name, known) \in Nat /\ Due(name, known) <= 3
      BY <1>2, DueOf, OneOrNone
  <2>2. LeftToCharge(name, known, none) <= 7509
      BY <1>1, <1>2, SignatureLeft
  <2> QED BY <1>1, <1>2, <2>1, <2>2, DearestCosts DEF Within
<1>3. CASE name = "cacheThreshold"
  <2>1. Due(name, known) \in Nat /\ Due(name, known) <= 2
      BY <1>3, DueOf, OneOrNone
  <2>2. LeftToCharge(name, known, none) <= 61153
      BY <1>1, <1>3, ThresholdLeft
  <2> QED BY <1>1, <1>3, <2>1, <2>2, DearestCosts DEF Within
<1>4. CASE name = "cacheInvalidation"
  <2>1. Due(name, known) \in Nat /\ Due(name, known) <= 3
      BY <1>4, DueOf, OneOrNone
  <2>2. LeftToCharge(name, known, none) <= 110832
      BY <1>1, <1>4, InvalidationLeft
  <2> QED BY <1>1, <1>4, <2>1, <2>2, DearestCosts DEF Within
<1> QED BY <1>2, <1>3, <1>4

\* Those of groups B and C, with a smallest limit to find
LEMMA CountingWithin ==
  ASSUME NEW name \in AccountingNames \union TokenizerNames, NEW known
  PROVE  Within(name, known)
<1> DEFINE none == <<>>
<1>1. none = <<>> /\ Len(none) = 0
    OBVIOUS
<1> HIDE DEF none
<1>2. CASE name \in AccountingNames
  <2>1. Generations(known) \in {0, 1, 2}
      BY OneOrNone DEF Generations
  <2>2. Cost(name).tokens = 2251 /\ Cost(name).requests = 2 + Extra(name)
    <3>1. CASE name = "countTokensAgreement"
      <4>1. Cost(name).requests = BASELINE_COST.requests + 1 /\ Cost(name).tokens = BASELINE_COST.tokens
          BY <3>1, CostsOf DEF BASELINE_COST
      <4> QED BY <3>1, <4>1, Numbers DEF Extra
    <3>2. CASE name # "countTokensAgreement"
        BY <1>2, <3>2, CostsOf, Numbers DEF Extra
    <3> QED BY <3>1, <3>2
  <2>3. Due(name, known) = Generations(known) + Extra(name) /\ Extra(name) \in {0, 1}
      BY <1>2, GenerationsDue
  <2>4. /\ Due(name, known) \in Nat /\ Due(name, known) <= Cost(name).requests
        /\ Cost(name).requests \in Nat /\ Cost(name).tokens \in Nat
      BY <2>1, <2>2, <2>3
  <2>5. "baseline" \in DOMAIN known => LeftToCharge(name, known, none) = 0
      BY <1>2, GenerationsLeft
  <2>6. "baseline" \notin DOMAIN known =>
         LeftToCharge(name, known, none) \in Int /\ LeftToCharge(name, known, none) <= 2186
    <3> HAVE "baseline" \notin DOMAIN known
    <3>1. LeftToCharge(name, known, none) = (Generations(known) - Len(none)) * GENERATION
        BY <1>2, GenerationsLeft
    <3>2. /\ (Generations(known) - Len(none)) * 1093 \in Int
          /\ (Generations(known) - Len(none)) * 1093 <= 2186
        BY <1>1, <2>1
    <3> QED BY <3>1, <3>2, Numbers
  <2>7. LeftToCharge(name, known, none) <= Cost(name).tokens
      BY <2>2, <2>5, <2>6
  <2> QED BY <1>1, <2>4, <2>7 DEF Within
<1>3. CASE name \in TokenizerNames
  <2>1. Counts(known) \in {0, 4, 5}
      BY OneOrNone DEF Counts
  <2>2. Cost(name).requests = 5 /\ Cost(name).tokens = 1149
      BY <1>3, CostsOf, Numbers
  <2>3. Due(name, known) = Counts(known) /\ LeftToCharge(name, known, none) = (Counts(known) - Len(none)) * 210
      BY <1>3, CountsDue
  <2>4. (Counts(known) - Len(none)) * 210 \in Int /\ (Counts(known) - Len(none)) * 210 <= 1050
      BY <1>1, <2>1
  <2>5. LeftToCharge(name, known, none) <= Cost(name).tokens
      BY <2>2, <2>3, <2>4
  <2>6. /\ Due(name, known) \in Nat /\ Due(name, known) <= Cost(name).requests
        /\ Cost(name).requests \in Nat /\ Cost(name).tokens \in Nat
      BY <2>1, <2>2, <2>3
  <2> QED BY <1>1, <2>5, <2>6 DEF Within
<1> QED BY <1>2, <1>3

\* Every probe of the catalogue, whatever is known when it starts.
LEMMA EveryProbeWithin == ASSUME NEW name \in ProbeNames, NEW known PROVE Within(name, known)
BY SingleWithin, SharingWithin, DearestWithin, CountingWithin DEF ProbeNames

---------------------------------------------------------------------------
(* What is left, and what goes on *)

\* The shared generation has been asked for no more often than it had to.
LEMMA GenerationsHeard ==
  ASSUME NEW e, NEW name \in AccountingNames, NEW known, NEW answers, Meets(e, name, known, answers),
         "baseline" \notin DOMAIN known
  PROVE  Len(answers) <= Generations(known)
<1> DEFINE t == e.target
           had == Generations(known)
           n == Len(answers)
           before == SubSeq(answers, 1, n - 1)
           next == Program(name, t, known, before)
<1>1. HeardAsAsked(e, name, known, answers) /\ n <= Due(name, known) /\ n \in Nat
  <2>1. HeardAsAsked(e, name, known, answers) /\ n <= Due(name, known)
      BY DEF Meets
  <2> QED BY <2>1, HeardOneByOne
<1>2. had = 1 + Missing("floor", known) /\ had \in {1, 2}
    BY GenerationsDue, OneOrNone
<1>3. n <= had + 1
  <2>1. Due(name, known) = had + Extra(name) /\ Extra(name) \in {0, 1}
      BY GenerationsDue
  <2> QED BY <1>1, <1>2, <2>1
<1> SUFFICES ASSUME n > had PROVE FALSE
    BY <1>1, <1>2
<1>4. n = had + 1 /\ n \in 1 .. n
    BY <1>1, <1>2, <1>3
<1>5. IsSeq(before) /\ Len(before) = had /\ next.do = "ask"
  <2>1. IsSeq(before) /\ Len(before) = n - 1 /\ next.do = "ask"
      BY <1>1, <1>4, HeardAt
  <2> HIDE DEF before, next
  <2> QED BY <1>2, <1>4, <2>1
<1> HIDE DEF before
<1>6. next = baseline(t, known, before)
    BY WaitsForBaseline
<1>7. CASE "floor" \in DOMAIN known
  <2>1. Len(before) >= 1
      BY <1>2, <1>5
  <2> DEFINE entries == One("baseline", before[1])
             none == <<>>
  <2> HIDE DEF entries, none
  <2>2. next = Keep(entries, none) \/ next = Fail
      BY <1>5, <1>6, <1>7, <2>1, BaselineSteps DEF entries, none
  <2>3. Keep(entries, none).do = "keep" /\ Fail.do = "fail"
      BY DEF Keep, Fail
  <2> QED BY <1>5, <2>2, <2>3
<1>8. CASE "floor" \notin DOMAIN known
  <2> DEFINE s == smallestOutputLimit(t)
  <2>1. Len(before) = 2
      BY <1>2, <1>5, <1>8 DEF Missing
  <2>2. FloorGoes(t, BaselinePrompt, s, before, next)
    <3>1. next = sendAtOutputFloor(t, known, before, 1, BaselinePrompt)
        BY <1>5, <1>6, <1>8, BaselineSteps
    <3> QED BY <1>5, <1>8, <3>1, FloorSteps
  <2> HIDE DEF s, next
  <2>3. \/ next = Keep(FloorOf(s, None), before)
        \/ next = Keep(FloorOf(16, s), Alone(before[2]))
        \/ next = Keep(FloorOf(s, None), Alone(before[1]))
      BY <2>1, <2>2 DEF FloorGoes
  <2>4. \A x, y : Keep(x, y).do = "keep"
      BY DEF Keep
  <2> QED BY <1>5, <2>3, <2>4 DEF next
<1> QED BY <1>7, <1>8

\* What is left to charge is never negative.
LEMMA LeftIsNat ==
  ASSUME NEW e, NEW name \in ProbeNames, NEW known, NEW answers, Meets(e, name, known, answers)
  PROVE  LeftToCharge(name, known, answers) \in Nat
<1> DEFINE due == Due(name, known)
           n == Len(answers)
<1>1. n \in Nat /\ n <= due /\ due \in Nat
  <2>1. HeardAsAsked(e, name, known, answers) /\ n <= due
      BY DEF Meets
  <2> QED BY <2>1, HeardOneByOne, EveryProbeWithin DEF Within
<1>2. CASE name \in Simple
  <2>1. LeftToCharge(name, known, answers) = IF due - n = 0 THEN 0 ELSE Cost(name).tokens
      BY <1>2, SimpleLeft
  <2>2. Cost(name).tokens \in Nat
      BY EveryProbeWithin DEF Within
  <2> QED BY <2>1, <2>2
<1>3. CASE name = "thinkingSignature"
  <2>1. LeftToCharge(name, known, answers) \in {SEED_TOKENS + 2 * REPLAY_TOKENS, 2 * REPLAY_TOKENS,
                                                REPLAY_TOKENS, 0}
      BY <1>3 DEF LeftToCharge, AccountingNames, TokenizerNames
  <2> QED BY <2>1, Numbers
<1>4. CASE name = "cacheThreshold"
  <2>1. LeftToCharge(name, known, answers) \in {ABOVE + rungTokens(BELOW_BYTES_BOUND),
                                                rungTokens(BELOW_BYTES_BOUND), 0}
      BY <1>4 DEF LeftToCharge, AccountingNames, TokenizerNames
  <2> QED BY <2>1, Numbers
<1>5. CASE name = "cacheInvalidation"
  <2>1. LeftToCharge(name, known, answers) = (due - n) * ABOVE
      BY <1>5 DEF LeftToCharge, AccountingNames, TokenizerNames
  <2> HIDE DEF due, n
  <2>2. (due - n) * 36944 \in Nat
      BY <1>1
  <2> QED BY <2>1, <2>2, Numbers
<1>6. CASE name \in AccountingNames
  <2>1. CASE "baseline" \in DOMAIN known
      BY <1>6, <2>1, GenerationsLeft
  <2>2. CASE "baseline" \notin DOMAIN known
    <3>1. LeftToCharge(name, known, answers) = (Generations(known) - n) * GENERATION
        BY <1>6, <2>2, GenerationsLeft
    <3>2. n <= Generations(known)
        BY <1>6, <2>2, GenerationsHeard
    <3>3. Generations(known) \in Nat
        BY OneOrNone DEF Generations
    <3> HIDE DEF n
    <3>4. (Generations(known) - n) * 1093 \in Nat
        BY <1>1, <3>2, <3>3
    <3> QED BY <3>1, <3>4, Numbers
  <2> QED BY <2>1, <2>2
<1>7. CASE name \in TokenizerNames
  <2>1. LeftToCharge(name, known, answers) = (Counts(known) - n) * 210 /\ due = Counts(known)
      BY <1>7, CountsDue
  <2> HIDE DEF due, n
  <2>2. (due - n) * 210 \in Nat
      BY <1>1
  <2> QED BY <2>1, <2>2
<1> QED BY <1>2, <1>3, <1>4, <1>5, <1>6, <1>7 DEF ProbeNames, Simple

\* One more answer, heard as asked.
LEMMA OneMoreHeard ==
  ASSUME NEW e, NEW name, NEW known, NEW answers, HeardAsAsked(e, name, known, answers),
         Program(name, e.target, known, answers).do = "ask",
         NEW x \in Answers(e, Program(name, e.target, known, answers))
  PROVE  HeardAsAsked(e, name, known, Append(answers, x))
<1> DEFINE more == Append(answers, x)
           n == Len(answers)
<1>1. IsSeq(answers) /\ n \in Nat
    BY HeardOneByOne DEF HeardAsAsked
<1>2. /\ IsSeq(more) /\ Len(more) = n + 1 /\ \A i \in 1 .. n : more[i] = answers[i]
      /\ more[n + 1] = x /\ \A i \in 1 .. n + 1 : SubSeq(more, 1, i - 1) = SubSeq(answers, 1, i - 1)
    BY <1>1, OneMore
<1>3. SubSeq(answers, 1, n) = answers
    BY <1>1, SubSeqProperties DEF IsSeq
<1> HIDE DEF more, n
<1>4. ASSUME NEW i \in 1 .. Len(more)
      PROVE  LET then == Program(name, e.target, known, SubSeq(more, 1, i - 1))
             IN  then.do = "ask" /\ more[i] \in Answers(e, then)
  <2>1. SubSeq(more, 1, i - 1) = SubSeq(answers, 1, i - 1)
      BY <1>2
  <2>2. CASE i \in 1 .. n
      BY <1>2, <2>1, <2>2 DEF HeardAsAsked, n
  <2>3. CASE i = n + 1
    <3>1. i - 1 = n
        BY <1>1, <2>3
    <3> QED BY <1>2, <1>3, <2>1, <2>3, <3>1
  <2>4. i \in 1 .. n \/ i = n + 1
      BY <1>1, <1>2
  <2> QED BY <2>2, <2>3, <2>4
<1> QED BY <1>2, <1>4 DEF HeardAsAsked, more

\* What some of the kept answers are when the others are forgotten.
LEMMA FewerKept ==
  ASSUME NEW e, NEW known, KnownAsKept(e, known), NEW D, D \subseteq DOMAIN known,
         "baseline" \in D => "floor" \in D
  PROVE  KnownAsKept(e, [key \in D |-> known[key]])
<1> DEFINE few == [key \in D |-> known[key]]
<1>1. DOMAIN few = D /\ \A key \in D : few[key] = known[key]
    OBVIOUS
<1> HIDE DEF few
<1>2. \A key : key \in DOMAIN few => key \in DOMAIN known /\ few[key] = known[key]
    BY <1>1
<1>3. "baseline" \in DOMAIN few => "floor" \in DOMAIN few
    BY <1>1
<1> QED BY <1>2, <1>3 DEF KnownAsKept, few

---------------------------------------------------------------------------
(* The inductive invariant *)

\* What a probe sent and was charged leaves for what it may still send.
Spends(name, known, answers, n, c, b) ==
  LET left == LeftToCharge(name, known, answers) IN
  /\ n \in Nat /\ n + (Due(name, known) - Len(answers)) <= Cost(name).requests
  /\ c \in Nat /\ c + left <= Cost(name).tokens
  /\ b \in Nat /\ b + left <= Cost(name).tokens

Catalogued == at \in 1 .. Len(PROBE_CATALOGUE)

IInv ==
  /\ endpoint \in Endpoints /\ at \in 0 .. Len(PROBE_CATALOGUE) + 1
  /\ KnownAsKept(endpoint, shared)
  /\ SaysTruly(endpoint, signals)
  /\ at = 0 => said
  /\ Catalogued => /\ Meets(endpoint, Name, shared, heard)
                   /\ Spends(Name, shared, heard, sent, charged, billed)

\* The catalogue is finite.
LEMMA CatalogueLength == Len(PROBE_CATALOGUE) \in Nat
  BY CatalogueType

\* A place in it is one of a probe.
LEMMA NameIsProbe == ASSUME Catalogued PROVE Name \in ProbeNames
  BY CatalogueType DEF Catalogued, Name

\* The least of some places in the catalogue is one of them.
LEMMA LeastIsOne ==
  ASSUME NEW S, S \subseteq Nat, S # {}
  PROVE  (CHOOSE i \in S : \A j \in S : i <= j) \in S
<1> DEFINE less == OpToRel(<, Nat)
<1>1. IsWellFoundedOn(less, Nat)
    BY NatLessThanWellFounded
<1>2. \A m, n \in Nat : m < n => <<m, n>> \in less
    BY DEF OpToRel
<1> HIDE DEF less
<1>3. PICK n \in S : \A m \in S : <<m, n>> \notin less
    BY <1>1, WFMin
<1>4. ASSUME NEW m \in S PROVE n <= m
  <2>1. m \in Nat /\ n \in Nat /\ <<m, n>> \notin less
      BY <1>3
  <2>2. ~(m < n)
      BY <1>2, <2>1
  <2> QED BY <2>1, <2>2
<1> QED BY <1>3, <1>4

\* Starting the next probe that applies.
LEMMA AdvanceKeeps == ASSUME IInv, Advance PROVE IInv'
<1> DEFINE later == {i \in at + 1 .. Len(PROBE_CATALOGUE) : Applies(PROBE_CATALOGUE[i], endpoint.target)}
           left == {PROBE_CATALOGUE[i] : i \in later}
           D == {k \in DOMAIN shared : ReadBy(k) \cap left # {}}
           none == <<>>
           least == CHOOSE i \in later : \A j \in later : i <= j
<1>1. /\ at' = IF later = {} THEN Len(PROBE_CATALOGUE) + 1 ELSE least
      /\ shared' = [key \in D |-> shared[key]]
      /\ heard' = none /\ sent' = 0 /\ charged' = 0 /\ billed' = 0
      /\ signals' = {} /\ endpoint' = endpoint
    BY DEF Advance
<1>2. endpoint \in Endpoints /\ at \in 0 .. Len(PROBE_CATALOGUE) + 1 /\ KnownAsKept(endpoint, shared)
    BY DEF IInv
<1>3. "baseline" \in D => "floor" \in D
  <2> HAVE "baseline" \in D
  <2>1. "baseline" \in DOMAIN shared /\ ReadBy("baseline") \cap left # {}
      OBVIOUS
  <2>2. "floor" \in DOMAIN shared
      BY <1>2, <2>1 DEF KnownAsKept
  <2>3. ReadBy("baseline") \subseteq ReadBy("floor")
      BY DEF ReadBy, NO_KEY_ROUTES
  <2> QED BY <2>1, <2>2, <2>3
<1> HIDE DEF left
<1>4. KnownAsKept(endpoint', shared')
  <2>1. D \subseteq DOMAIN shared
      OBVIOUS
  <2> HIDE DEF D
  <2> QED BY <1>1, <1>2, <1>3, <2>1, FewerKept
<1>5. SaysTruly(endpoint', signals')
    BY <1>1, NothingSaid
<1>6. later # {} => least \in later
  <2>1. later \subseteq Nat
      BY <1>2, CatalogueLength
  <2> HIDE DEF later
  <2> QED BY <2>1, LeastIsOne
<1>7. /\ at' \in 0 .. Len(PROBE_CATALOGUE) + 1 /\ at' # 0
      /\ Catalogued' => Applies(PROBE_CATALOGUE[at'], endpoint.target)
  <2>1. CASE later = {}
    <3>1. at' = Len(PROBE_CATALOGUE) + 1
        BY <1>1, <2>1
    <3> QED BY <3>1, CatalogueLength DEF Catalogued
  <2>2. CASE later # {}
    <3>1. at' = least
        BY <1>1, <2>2
    <3>2. at' \in later
        BY <1>6, <2>2, <3>1
    <3> HIDE DEF least
    <3> QED BY <1>2, <3>2, CatalogueLength
  <2> QED BY <2>1, <2>2
<1>8. ASSUME Catalogued'
      PROVE  /\ Meets(endpoint', Name', shared', heard')
             /\ Spends(Name', shared', heard', sent', charged', billed')
  <2> DEFINE name == PROBE_CATALOGUE[at']
             known == shared'
  <2>1. Name' = name
      BY DEF Name
  <2>2. name \in ProbeNames
      BY <1>8, CatalogueType DEF Catalogued
  <2> HIDE DEF name, known
  <2>3. Within(name, known)
      BY <2>2, EveryProbeWithin
  <2>4. HeardAsAsked(endpoint, name, known, none) /\ Len(none) = 0
      BY NothingHeard
  <2>5. Applies(name, endpoint.target)
      BY <1>7, <1>8 DEF name
  <2>6. KnownAsKept(endpoint, known)
      BY <1>1, <1>4 DEF known
  <2>7. Meets(endpoint, name, known, none)
      BY <1>2, <2>3, <2>4, <2>5, <2>6 DEF Meets, Within
  <2>8. LeftToCharge(name, known, none) \in Nat
      BY <2>2, <2>7, LeftIsNat
  <2>9. Spends(name, known, none, 0, 0, 0)
      BY <2>3, <2>4, <2>8 DEF Spends, Within
  <2> QED BY <1>1, <2>1, <2>7, <2>9 DEF known
<1> QED BY <1>1, <1>2, <1>4, <1>5, <1>7, <1>8 DEF IInv

\* A request of the running probe, and its answer.
LEMMA AnswerKeeps == ASSUME IInv, Answer PROVE IInv'
<1> DEFINE name == Name
           t == endpoint.target
           more == heard'
<1>1. PICK x \in Answers(endpoint, step) : heard' = Append(heard, x)
    BY DEF Answer
<1>2. /\ step.do = "ask" /\ sent' = sent + 1 /\ charged' = charged + step.tokens
      /\ billed' = billed + step.bill
      /\ endpoint' = endpoint /\ at' = at /\ shared' = shared /\ signals' = signals /\ said' = said
      /\ ~said /\ ~Ended
    BY DEF Answer, Asked, Running
<1>3. Catalogued
    BY <1>2, CatalogueLength DEF IInv, Ended, Catalogued
<1>4. name \in ProbeNames /\ Name' = name
    BY <1>2, <1>3, NameIsProbe DEF Name
<1>5. Meets(endpoint, name, shared, heard) /\ Spends(name, shared, heard, sent, charged, billed)
    BY <1>3 DEF IInv
<1>6. step = Program(name, t, shared, heard)
    BY DEF step
<1> HIDE DEF name
<1>7. Keeps(endpoint, name, shared, heard)
    BY <1>4, <1>5, EveryProbeKeeps
<1>8. HeardAsAsked(endpoint, name, shared, heard) /\ Len(heard) \in Nat
    BY <1>5, HeardOneByOne DEF Meets
<1>9. /\ step.tokens \in Nat /\ step.bill \in Nat /\ Len(heard) < Due(name, shared)
      /\ LET left == LeftToCharge(name, shared, heard) - LeftToCharge(name, shared, more)
         IN  step.tokens <= left /\ step.bill <= left
    BY <1>1, <1>2, <1>6, <1>7 DEF Keeps
<1>10. HeardAsAsked(endpoint, name, shared, more)
    BY <1>1, <1>2, <1>6, <1>8, OneMoreHeard
<1>11. Len(more) = Len(heard) + 1
    BY <1>1, <1>8, OneMore DEF HeardAsAsked
<1>12. Due(name, shared) \in Nat /\ Cost(name).requests \in Nat /\ Cost(name).tokens \in Nat
    BY <1>4, EveryProbeWithin DEF Within
<1> HIDE DEF more
<1>13. Len(more) <= Due(name, shared)
    BY <1>8, <1>9, <1>11, <1>12
<1>14. Meets(endpoint, name, shared, more)
    BY <1>5, <1>10, <1>13 DEF Meets
<1>15. LeftToCharge(name, shared, heard) \in Nat /\ LeftToCharge(name, shared, more) \in Nat
    BY <1>4, <1>5, <1>14, LeftIsNat
<1>16. Spends(name, shared, more, sent', charged', billed')
  <2> DEFINE before == LeftToCharge(name, shared, heard)
             after == LeftToCharge(name, shared, more)
             due == Due(name, shared)
             cost == Cost(name)
  <2>1. /\ sent \in Nat /\ sent + (due - Len(heard)) <= cost.requests
        /\ charged \in Nat /\ charged + before <= cost.tokens
        /\ billed \in Nat /\ billed + before <= cost.tokens
      BY <1>5 DEF Spends
  <2> HIDE DEF before, after, due, cost
  <2>2. before \in Nat /\ after \in Nat /\ due \in Nat /\ cost.requests \in Nat /\ cost.tokens \in Nat
      BY <1>12, <1>15 DEF before, after, due, cost
  <2>3. step.tokens <= before - after /\ step.bill <= before - after
      BY <1>9 DEF before, after
  <2>4. sent' \in Nat /\ sent' + (due - Len(more)) <= cost.requests
      BY <1>2, <1>8, <1>11, <2>1, <2>2
  <2>5. charged' \in Nat /\ charged' + after <= cost.tokens
    <3> DEFINE spent == step.tokens
               limit == cost.tokens
    <3>1. charged' = charged + spent /\ spent \in Nat /\ spent <= before - after
        BY <1>2, <1>9, <2>3
    <3>2. charged \in Nat /\ charged + before <= limit /\ limit \in Nat
        BY <2>1, <2>2
    <3> HIDE DEF spent, limit
    <3>3. charged' \in Nat /\ charged' + after <= limit
        BY <2>2, <3>1, <3>2
    <3> QED BY <3>3 DEF limit
  <2>6. billed' \in Nat /\ billed' + after <= cost.tokens
    <3> DEFINE spent == step.bill
               limit == cost.tokens
    <3>1. billed' = billed + spent /\ spent \in Nat /\ spent <= before - after
        BY <1>2, <1>9, <2>3
    <3>2. billed \in Nat /\ billed + before <= limit /\ limit \in Nat
        BY <2>1, <2>2
    <3> HIDE DEF spent, limit
    <3>3. billed' \in Nat /\ billed' + after <= limit
        BY <2>2, <3>1, <3>2
    <3> QED BY <3>3 DEF limit
  <2> QED BY <2>4, <2>5, <2>6 DEF Spends, before, after, due, cost
<1> QED BY <1>2, <1>4, <1>14, <1>16 DEF IInv, Catalogued, more

\* An answer that is kept for the rest of the run.
LEMMA RememberKeeps == ASSUME IInv, Remember PROVE IInv'
<1> DEFINE name == Name
           t == endpoint.target
<1>1. /\ step.do = "keep" /\ shared' = Kept(step.entries, shared) /\ heard' = step.heard
      /\ endpoint' = endpoint /\ at' = at /\ sent' = sent /\ charged' = charged /\ billed' = billed
      /\ signals' = signals /\ said' = said /\ ~said /\ ~Ended
    BY DEF Remember, Running
<1>2. Catalogued
    BY <1>1, CatalogueLength DEF IInv, Ended, Catalogued
<1>3. name \in ProbeNames /\ Name' = name
    BY <1>1, <1>2, NameIsProbe DEF Name
<1>4. Meets(endpoint, name, shared, heard) /\ Spends(name, shared, heard, sent, charged, billed)
    BY <1>2 DEF IInv
<1>5. step = Program(name, t, shared, heard)
    BY DEF step
<1> HIDE DEF name
<1>6. Keeps(endpoint, name, shared, heard)
    BY <1>3, <1>4, EveryProbeKeeps
<1>7. /\ KnownAsKept(endpoint, shared')
      /\ HeardAsAsked(endpoint, name, shared', heard')
      /\ Len(heard') <= Due(name, shared')
      /\ Due(name, shared') - Len(heard') <= Due(name, shared) - Len(heard)
      /\ LeftToCharge(name, shared', heard') <= LeftToCharge(name, shared, heard)
    BY <1>1, <1>5, <1>6 DEF Keeps
<1>8. Meets(endpoint, name, shared', heard')
    BY <1>4, <1>7 DEF Meets
<1>9. Spends(name, shared', heard', sent, charged, billed)
  <2> DEFINE before == LeftToCharge(name, shared, heard)
             after == LeftToCharge(name, shared', heard')
             due == Due(name, shared) - Len(heard)
             due_ == Due(name, shared') - Len(heard')
             cost == Cost(name)
  <2>1. /\ sent \in Nat /\ sent + due <= cost.requests
        /\ charged \in Nat /\ charged + before <= cost.tokens
        /\ billed \in Nat /\ billed + before <= cost.tokens
      BY <1>4 DEF Spends
  <2>2. before \in Nat /\ after \in Nat
      BY <1>3, <1>4, <1>8, LeftIsNat
  <2>3. /\ cost.requests \in Nat /\ cost.tokens \in Nat
        /\ Due(name, shared) \in Nat /\ Due(name, shared') \in Nat
      BY <1>3, EveryProbeWithin DEF Within
  <2>4. Len(heard) \in Nat /\ Len(heard') \in Nat
      BY <1>4, <1>7, HeardOneByOne DEF Meets
  <2>5. due \in Int /\ due_ \in Int
      BY <2>3, <2>4
  <2>6. after <= before /\ due_ <= due
      BY <1>7
  <2> HIDE DEF before, after, due, due_, cost
  <2>7. /\ sent + due_ <= cost.requests /\ charged + after <= cost.tokens
        /\ billed + after <= cost.tokens
      BY <2>1, <2>2, <2>3, <2>5, <2>6
  <2> QED BY <2>1, <2>7 DEF Spends, after, due_, cost
<1> QED BY <1>1, <1>3, <1>7, <1>8, <1>9 DEF IInv, Catalogued

\* What it says.
LEMMA ConcludeKeeps == ASSUME IInv, Conclude PROVE IInv'
<1> DEFINE name == Name
           t == endpoint.target
<1>1. /\ step.do = "say" /\ signals' = step.signals /\ said' /\ ~said /\ ~Ended
      /\ endpoint' = endpoint /\ at' = at /\ shared' = shared /\ heard' = heard
      /\ sent' = sent /\ charged' = charged /\ billed' = billed
    BY DEF Conclude, Running
<1>2. Catalogued
    BY <1>1, CatalogueLength DEF IInv, Ended, Catalogued
<1>3. name \in ProbeNames /\ Name' = name
    BY <1>1, <1>2, NameIsProbe DEF Name
<1>4. Meets(endpoint, name, shared, heard)
    BY <1>2 DEF IInv
<1>5. step = Program(name, t, shared, heard)
    BY DEF step
<1> HIDE DEF name
<1>6. Keeps(endpoint, name, shared, heard)
    BY <1>3, <1>4, EveryProbeKeeps
<1>7. SaysTruly(endpoint, signals')
    BY <1>1, <1>5, <1>6 DEF Keeps
<1> QED BY <1>1, <1>2, <1>3, <1>7 DEF IInv, Catalogued, name

\* It holds at first, with nothing known and nothing said,
LEMMA InitKeeps == ASSUME Init PROVE IInv
<1>1. /\ endpoint \in Endpoints /\ at = 0 /\ signals = {} /\ said = TRUE
      /\ DOMAIN shared = {}
    BY DEF Init
<1>2. KnownAsKept(endpoint, shared)
    BY <1>1 DEF KnownAsKept
<1>3. SaysTruly(endpoint, signals)
    BY <1>1, NothingSaid
<1>4. ~Catalogued /\ at \in 0 .. Len(PROBE_CATALOGUE) + 1
    BY <1>1, CatalogueLength DEF Catalogued
<1> QED BY <1>1, <1>2, <1>3, <1>4 DEF IInv

\* every step keeps it,
LEMMA NextKeeps == ASSUME IInv, [Next]_vars PROVE IInv'
<1>1. CASE Answer
    BY <1>1, AnswerKeeps
<1>2. CASE Lose
    BY <1>2, AdvanceKeeps DEF Lose
<1>3. CASE Remember
    BY <1>3, RememberKeeps
<1>4. CASE GiveUp
    BY <1>4, AdvanceKeeps DEF GiveUp
<1>5. CASE Conclude
    BY <1>5, ConcludeKeeps
<1>6. CASE NextProbe
    BY <1>6, AdvanceKeeps DEF NextProbe
<1>7. CASE UNCHANGED vars
    BY <1>7 DEF vars, IInv, Catalogued, Name
<1> QED BY <1>1, <1>2, <1>3, <1>4, <1>5, <1>6, <1>7 DEF Next

\* and so it holds of every run, for any set of endpoints.
LEMMA Invariant == Spec => []IInv
<1>1. Init => IInv
    BY InitKeeps
<1>2. IInv /\ [Next]_vars => IInv'
    BY NextKeeps
<1> QED BY <1>1, <1>2, PTL DEF Spec

---------------------------------------------------------------------------
(* What holds of every run *)

\* Every signal is well made and no two of a probe have one id: what a probe returns
\* passes the check of it (probes/types.ts, `checkSignals`).
THEOREM SignalsAreWellMade == Spec => []TypeOK
<1>1. IInv => TypeOK
    BY DEF IInv, TypeOK, SaysTruly, TellsTruly
<1> QED BY <1>1, Invariant, PTL

\* Whatever the vendor's own API answers, and whatever is lost of it, no probe counts
\* against the claim or against the path being the vendor's.
THEOREM VendorIsVendor == Spec => []VendorReadsAsVendor
<1>1. IInv => VendorReadsAsVendor
    BY DEF IInv, VendorReadsAsVendor, SaysTruly, TellsTruly
<1> QED BY <1>1, Invariant, PTL

\* A layer that only loses things does not turn the claimed model into another one.
THEOREM StrippingIsTranslation == Spec => []StrippingIsNotDeception
<1>1. IInv => StrippingIsNotDeception
    BY DEF IInv, StrippingIsNotDeception, SaysTruly, TellsTruly
<1> QED BY <1>1, Invariant, PTL

\* A cheaper model of the vendor's is not ruled out by what it answers.
THEOREM CheaperIsStillPossible == Spec => []CheaperIsNotRuledOut
<1>1. IInv => CheaperIsNotRuledOut
    BY DEF IInv, CheaperIsNotRuledOut, SaysTruly, TellsTruly
<1> QED BY <1>1, Invariant, PTL

\* Every probe stays within the requests and tokens it declares, whatever the answers:
\* what the planner admits it for is enough.
THEOREM ProbesStayWithinCost == Spec => []CostIsEnough
<1>1. ASSUME IInv PROVE CostIsEnough
  <2> SUFFICES ASSUME Catalogued
               PROVE  /\ sent <= Cost(Name).requests
                      /\ charged <= Cost(Name).tokens /\ billed <= Cost(Name).tokens
      BY DEF CostIsEnough, Catalogued
  <2> DEFINE name == Name
             left == LeftToCharge(name, shared, heard)
             due == Due(name, shared)
             cost == Cost(name)
  <2>1. Meets(endpoint, name, shared, heard) /\ Spends(name, shared, heard, sent, charged, billed)
      BY <1>1 DEF IInv
  <2>2. name \in ProbeNames
      BY NameIsProbe
  <2> HIDE DEF name
  <2>3. left \in Nat
      BY <2>1, <2>2, LeftIsNat
  <2>4. due \in Nat /\ cost.requests \in Nat /\ cost.tokens \in Nat
      BY <2>2, EveryProbeWithin DEF Within
  <2>5. Len(heard) \in Nat /\ Len(heard) <= due
      BY <2>1, HeardOneByOne DEF Meets
  <2>6. /\ sent \in Nat /\ sent + (due - Len(heard)) <= cost.requests
        /\ charged \in Nat /\ charged + left <= cost.tokens
        /\ billed \in Nat /\ billed + left <= cost.tokens
      BY <2>1 DEF Spends
  <2> HIDE DEF left, due, cost
  <2>7. sent <= cost.requests /\ charged <= cost.tokens /\ billed <= cost.tokens
      BY <2>3, <2>4, <2>5, <2>6
  <2> QED BY <2>7 DEF cost, name
<1> QED BY <1>1, Invariant, PTL
=============================================================================
