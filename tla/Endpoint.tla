------------------------------ MODULE Endpoint ------------------------------
(* Who may be behind the URL a buyer checks, and what each answers to the
   requests of the probes.  None of it is this repository's code: it is what the
   probes' own comments and citations say of the vendors' APIs.

     vendor   the vendor's own API, serving the claimed model
     cheaper  the same API, serving a cheaper model of the vendor's
     layer    a layer before the claimed model that drops, renames or refuses
              what it does not know, and passes on the rest as it is
     any      no promise at all

   An endpoint also says which tokenizer its model counts with. *)
EXTENDS Conformance, Causal

Kinds == {"vendor", "cheaper", "layer", "any"}

(* A request answered as the vendor does, or in any of the ways told apart. *)
Usually(endpoint, own, others) ==
  IF endpoint.kind \in {"vendor", "cheaper"} THEN {own} ELSE {own} \union others

NoKeyAnswers(endpoint, route) ==
  LET routed == route = "get-models"
      own == [status |-> 401, as |-> TRUE, wasm |-> routed, leaked |-> FALSE,
              requestId |-> "own", exposed |-> 2]
  IN  Usually(endpoint, own,
        {[own EXCEPT !.status = 404], [own EXCEPT !.as = FALSE]} \union
        (IF ~routed THEN {}
         ELSE {[own EXCEPT !.wasm = FALSE], [own EXCEPT !.leaked = TRUE],
               [own EXCEPT !.requestId = "none"], [own EXCEPT !.requestId = "other"],
               [own EXCEPT !.exposed = 0]}))

NotFoundAnswers(endpoint) ==
  Usually(endpoint, [status |-> 404, empty |-> TRUE, wasm |-> FALSE],
          [status : {401, 404}, empty : BOOLEAN, wasm : BOOLEAN])

PreflightAnswers(endpoint) ==
  Usually(endpoint, [status |-> 200, methods |-> "own", maxAge |-> "own"],
          [status : {200, 404}, methods : {"none", "own", "other"}, maxAge : {"own", "other"}])

(* A request refused with this status, in the vendor's envelope. *)
RefusalAnswers(endpoint, status) ==
  Usually(endpoint, [status |-> status, dialect |-> endpoint.target.vendor, as |-> TRUE],
          [status : {200, 400, 404, 500}, dialect : {"openai", "anthropic", "none"}, as : BOOLEAN])

HotAnswers(endpoint) ==
  Usually(endpoint,
          [status |-> 400, dialect |-> endpoint.target.vendor, words |-> "above-max"],
          [status : {200, 400, 429}, dialect : {"openai", "none"},
           words : {"above-max", "openai-chat", "openai-responses", "other"}])

EnvelopeAnswers(endpoint, status) ==
  LET own == [status |-> status, dialect |-> "anthropic", as |-> TRUE,
              type |-> ErrorType(status), bodyId |-> "first", headerId |-> "first"]
  IN  Usually(endpoint, own,
        {[own EXCEPT !.status = 200], [own EXCEPT !.status = 500], [own EXCEPT !.dialect = "none"],
         [own EXCEPT !.dialect = "openai"], [own EXCEPT !.as = FALSE]}
          \union {[own EXCEPT !.type = t] :
                    t \in {"none", "invalid_request_error", "billing_error", "other"}}
          \union {[own EXCEPT !.bodyId = i, !.headerId = j] :
                    i \in {"none", "first"}, j \in {"none", "second"}})

ObjectAnswers(endpoint) ==
  Usually(endpoint, [status |-> 200, object |-> TRUE, as |-> TRUE, model |-> "expected"],
          [status : {200, 404}, object : BOOLEAN, as : BOOLEAN,
           model : {"none", "expected", "partner", "other"}])

(* Claude answers no logprobs, whatever stands before it. *)
TinyAnswers(endpoint) ==
  Usually(endpoint,
          [status |-> 200, foreign |-> FALSE, fingerprint |-> FALSE, logprobs |-> FALSE,
           namesLogprobs |-> FALSE],
          [status : {200, 400}, foreign : BOOLEAN, fingerprint : BOOLEAN,
           logprobs : IF endpoint.kind = "any" THEN BOOLEAN ELSE {FALSE},
           namesLogprobs : BOOLEAN])

-----------------------------------------------------------------------------
(* The accounting baseline: the counts of the model that answers. *)

Input(target, model) ==
  IF target.vendor = "openai" THEN 108
  ELSE IF tokenizer[model] = "claude-2026" THEN 143 ELSE 110

OwnGeneration(endpoint, limit) ==
  LET target == endpoint.target
      openai == target.protocol # "anthropic-messages"
      input  == Input(target, endpoint.model)
  IN  [status |-> 200, generates |-> TRUE, usage |-> TRUE, input |-> input, output |-> limit,
       total |-> IF openai THEN input + limit ELSE None, cacheRead |-> None,
       cacheCreation |-> None, reasoning |-> None, stop |-> lengthStop(target), text |-> 3,
       id |-> IF target.vendor = "openai" THEN "openai" ELSE "missing",
       echo |-> "accepted", fingerprint |-> "null"]

(* What a layer may do to a generation it passes on. *)
Stripped(g) ==
  {[g EXCEPT !.usage = FALSE, !.input = None, !.output = None, !.total = None],
   [g EXCEPT !.output = None], [g EXCEPT !.total = None], [g EXCEPT !.stop = "renamed"],
   [g EXCEPT !.id = "missing"], [g EXCEPT !.id = "foreign-shape"],
   [g EXCEPT !.fingerprint = "absent"]}
    \union {[g EXCEPT !.echo = e] : e \in {"missing", "blank", "respelled", "partner"}}

(* What anything else may answer besides. *)
Invented(g) ==
  {[g EXCEPT !.output = 900], [g EXCEPT !.text = 9000], [g EXCEPT !.input = None],
   [g EXCEPT !.input = 5000], [g EXCEPT !.reasoning = 900], [g EXCEPT !.cacheRead = 600],
   [g EXCEPT !.total = 1], [g EXCEPT !.output = 0], [g EXCEPT !.generates = FALSE],
   [g EXCEPT !.status = 400], [g EXCEPT !.status = 500], [g EXCEPT !.id = "anthropic"],
   [g EXCEPT !.id = "foreign-prefix"], [g EXCEPT !.fingerprint = "empty"],
   [g EXCEPT !.fingerprint = "other"]}
    \union {[g EXCEPT !.echo = e] :
              e \in AnthropicModels \union
                    {"unlisted-claude", "gpt", "smaller-gpt", "other-family", "unrecognised"}}

BaselineAnswers(endpoint, limit) ==
  LET own == OwnGeneration(endpoint, limit)
      short == [OwnGeneration(endpoint, limit - 1) EXCEPT !.stop = "end"]
  IN  CASE endpoint.kind = "vendor" ->
             {own, [own EXCEPT !.status = 400]} \union (IF limit > 1 THEN {short} ELSE {})
        [] endpoint.kind = "cheaper" ->
             {own, [own EXCEPT !.echo = IF endpoint.target.vendor = "anthropic"
                                        THEN endpoint.model ELSE "smaller-gpt"]}
        [] endpoint.kind = "layer" -> {own} \union Stripped(own)
        [] OTHER -> {own} \union Stripped(own) \union Invented(own)

(* The counting endpoint counts under the model it is asked about, or under the
   one that answers. *)
CountAnswers(endpoint, used) ==
  LET claimed == Input(endpoint.target, endpoint.target.model)
      own     == [status : {200}, count : {used, used + 3, claimed}]
  IN  CASE endpoint.kind \in {"vendor", "cheaper"} -> own
        [] endpoint.kind = "layer" -> own \union {[status |-> 404, count |-> None]}
        [] OTHER -> [status : {200, 404}, count : {None, used, claimed, 110, 143, 900}]

(* The counts of the battery's prompts: base, and base plus what each adds. *)
OwnDeltas(endpoint) ==
  IF endpoint.target.vendor = "openai" THEN localDeltas(endpoint.encoding)
  ELSE IF tokenizer[endpoint.model] = "claude-2026" THEN <<33, 58, 37>> ELSE <<25, 45, 29>>

BatteryAnswers(endpoint, name) ==
  LET item(deltas) == IF name = "base" THEN 20
                      ELSE 20 + deltas[CHOOSE i \in Items : BATTERY[i].name = name]
      counted(input) == [OwnGeneration(endpoint, 1) EXCEPT !.input = input]
  IN  {counted(item(OwnDeltas(endpoint)))} \union
        (CASE endpoint.kind = "layer" -> {counted(None)}
           [] endpoint.kind = "any" ->
                {counted(None), [counted(1) EXCEPT !.generates = FALSE]}
                  \union {counted(item(d)) : d \in {<<17, 40, 24>>, <<29, 40, 25>>,
                            <<17, 41, 24>>, <<25, 23, 22>>, <<12, 12, 12>>}}
           [] OTHER -> {})

-----------------------------------------------------------------------------
(* The causal requests *)

Thinking == 400   \* tokens of thinking in the first turn
SeedText == 20    \* and of text, in bytes
SeedInput == 210

OwnSeed(endpoint) ==
  [status |-> 200, input |-> SeedInput, cacheRead |-> None, cacheCreation |-> None,
   reasoning |-> Thinking, output |-> Thinking + 5, text |-> SeedText, signed |-> TRUE,
   shown |-> IF displayDefault[endpoint.model] = "omitted" THEN "empty" ELSE "text"]

(* A layer that empties the blocks whose signatures it keeps is not among them: it
   reads as a model that omits its thinking. *)
SeedAnswers(endpoint) ==
  LET own   == OwnSeed(endpoint)
      plain == {own, [own EXCEPT !.reasoning = None], [own EXCEPT !.reasoning = 100]}
      bare  == {[g EXCEPT !.signed = FALSE] : g \in plain}
                 \union {[own EXCEPT !.signed = FALSE, !.shown = s] : s \in {"none", "empty"}}
  IN  CASE endpoint.kind = "vendor" -> plain
        [] endpoint.kind = "cheaper" ->
             IF thinkingConfig(endpoint.model) = thinkingConfig(endpoint.target.model)
             THEN plain ELSE {[own EXCEPT !.status = 400]}
        [] endpoint.kind = "layer" -> plain \union bare
        [] OTHER -> plain \union bare \union {[own EXCEPT !.status = 500],
                      [own EXCEPT !.shown = "text"], [own EXCEPT !.shown = "empty"],
                      [own EXCEPT !.input = None]}

(* A replay: the tokens of its prompt, and how many of them are the thinking of
   the block that was changed. *)
Replayed(input, altered) ==
  [status |-> 200, input |-> input, cacheRead |-> None, cacheCreation |-> None,
   namesThinking |-> FALSE, altered |-> altered]
Refused(naming) == [Replayed(None, 0) EXCEPT !.status = 400, !.namesThinking = naming]

WithThinking    == SeedInput + 15 + Thinking
WithoutThinking == SeedInput + 15

ReplayAnswers(endpoint) ==
  CASE endpoint.kind \in {"vendor", "cheaper"} ->
         {IF endpoint.model \in KEEPS_THINKING THEN Replayed(WithThinking, Thinking)
          ELSE Replayed(WithoutThinking, 0)}
    [] OTHER -> {Replayed(WithThinking, Thinking), Replayed(WithoutThinking, 0),
                 Refused(TRUE), Refused(FALSE)}

(* Anthropic refuses a block whose signature does not verify, or drops it.  A
   first turn of two blocks has a tenth of its thinking in the one changed. *)
TamperedAnswers(endpoint) ==
  {Refused(TRUE), Replayed(WithoutThinking, 0)} \union
    (IF endpoint.kind # "any" THEN {}
     ELSE {Replayed(WithThinking, Thinking), Replayed(WithThinking - Thinking \div 10, 0),
           Replayed(SeedInput + 250, 0)})

(* Five bytes of the cached prompt to a token of the newer tokenizer, seven to
   one of the older. *)
TokensOf(endpoint, bytes) ==
  bytes \div (IF tokenizer[endpoint.model] = "claude-2026" THEN 5 ELSE 7)

Uncached(tokens) ==
  [status |-> 200, input |-> tokens, cacheRead |-> 0, cacheCreation |-> 0]
CachedBy(endpoint, tokens, field) ==
  IF tokens >= cacheMinimumTokens[endpoint.model]
  THEN IF field = "read" THEN [Uncached(0) EXCEPT !.cacheRead = tokens]
       ELSE [Uncached(0) EXCEPT !.cacheCreation = tokens]
  ELSE Uncached(tokens)

CacheAnswers(endpoint, request, tokens) ==
  LET field == IF request = "above-again" THEN "read" ELSE "written"
      own   == CachedBy(endpoint, tokens, field)
  IN  {own} \union
        (CASE endpoint.kind = "layer" -> {Uncached(tokens)}
           [] endpoint.kind = "any" ->
                {Uncached(tokens), Uncached(None), [own EXCEPT !.status = 500],
                 [Uncached(0) EXCEPT !.cacheRead = tokens],
                 [Uncached(0) EXCEPT !.cacheCreation = tokens],
                 [Uncached(0) EXCEPT !.cacheRead = tokens \div 4,
                                     !.cacheCreation = tokens - tokens \div 4]}
           [] OTHER -> {})

(* A layer that drops the request for a schema still lets the model follow it or
   not; one that drops the bias leaves the words as they fall. *)
SchemaAnswers(endpoint) ==
  Usually(endpoint, [status |-> 200, finished |-> TRUE, conforms |-> TRUE],
          [status : {200, 400}, finished : BOOLEAN, conforms : BOOLEAN])

BiasAnswers(endpoint) ==
  LET words == [status : {200}, word :
                 {IF endpoint.encoding = endpoint.target.encoding THEN "claimed" ELSE "other"}]
  IN  CASE endpoint.kind \in {"vendor", "cheaper"} -> words
        [] endpoint.kind = "layer" -> words \union [status : {200, 400}, word : {"none", "unbiased"}]
        [] OTHER -> [status : {200, 400}, word : {"none", "claimed", "other", "unbiased"}]

LogprobAnswers(endpoint) ==
  LET own == [status |-> 200, tokens |-> "words", elsewhere |-> TRUE,
              foreign |-> IF endpoint.encoding = endpoint.target.encoding THEN 0 ELSE 3,
              telling |-> IF endpoint.encoding = endpoint.target.encoding THEN 2 ELSE 0]
  IN  CASE endpoint.kind \in {"vendor", "cheaper"} -> {own}
        [] endpoint.kind = "layer" ->
             {own} \union {[own EXCEPT !.tokens = t] : t \in {"missing", "malformed"}}
        [] OTHER -> [status : {200, 400}, tokens : {"missing", "malformed", "words"},
                     elsewhere : BOOLEAN, foreign : 0 .. 3, telling : 0 .. 2]

-----------------------------------------------------------------------------
(* What the endpoint may answer to a request a probe asks. *)
Answers(endpoint, ask) ==
  LET request == ask.request
      bytes   == ask.tokens - rungTokens(0)
  IN  CASE request = "baseline"     -> BaselineAnswers(endpoint, ask.limit)
        [] request = "count-tokens" -> CountAnswers(endpoint, Input(endpoint.target, endpoint.model))
        [] request \in {"base", "chinese", "base64", "code"} -> BatteryAnswers(endpoint, request)
        [] request \in {NO_KEY_ROUTES[i] : i \in 1 .. 4} ->
             NoKeyAnswers(endpoint, request)
        [] request \in {"not-found", "wrong-method"} -> NotFoundAnswers(endpoint)
        [] request = "preflight" -> PreflightAnswers(endpoint)
        [] request = "hot" -> HotAnswers(endpoint)
        [] request = "absent-model" -> RefusalAnswers(endpoint, 404)
        [] request \in {"unknown-parameter", "extra-inputs", "beta-header", "missing-max-tokens"} ->
             RefusalAnswers(endpoint, 400)
        [] request = "malformed" -> EnvelopeAnswers(endpoint, 400)
        [] request = "absent-model-object" -> EnvelopeAnswers(endpoint, 404)
        [] request \in {"claimed-model-object", "alias-model-object"} -> ObjectAnswers(endpoint)
        [] request \in {"tiny", "logprobs"} -> TinyAnswers(endpoint)
        [] request = "thinking-seed" -> SeedAnswers(endpoint)
        [] request = "replay" -> ReplayAnswers(endpoint)
        [] request = "tampered-replay" -> TamperedAnswers(endpoint)
        [] request \in {"above", "below", "above-again", "above-changed"} ->
             CacheAnswers(endpoint, request, TokensOf(endpoint, bytes))
        [] request = "schema" -> SchemaAnswers(endpoint)
        [] request = "logit-bias" -> BiasAnswers(endpoint)
        [] request = "logprobs-tokens" -> LogprobAnswers(endpoint)
=============================================================================
