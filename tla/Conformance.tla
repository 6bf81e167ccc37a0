----------------------------- MODULE Conformance -----------------------------
(* Group A apart from the rejection matrices (probes/conformance): how the
   endpoint answers requests the vendor's own API answers in a known way - no
   key, an unknown path, field, model or header, a value out of range - and
   what that says about the way to the model.  None of them is about which model
   answers, but for the one that finds token probabilities where Anthropic's
   endpoint has none.

   An answer is read by its status, the dialect of its error envelope and, as
   `as`, whether it is the answer the vendor's own servers were seen to give, or
   document: the same words, type, code and layout. *)
EXTENDS Evidence

Path(firstParty, direct, translated) ==
  [Neutral EXCEPT !.firstParty = firstParty, !.direct = direct, !.translated = translated]

observedSignal(id, llr)    == Signal(id, "heuristic", llr)
conformanceSignal(id, llr) == Signal(id, "documented", llr)

isClientError(exchange) == exchange.status >= 400 /\ exchange.status < 500

TINY_PROMPT == 14   \* bytes
TINY_REQUEST_TOKENS == estimateTokens(TINY_PROMPT) + RESPONSES_MIN_OUTPUT_TOKENS
tinyRequest(target, request) == generationRequest(target, request, TINY_PROMPT, 1)

PROMPT == 23        \* bytes
CELL_TOKENS == estimateTokens(PROMPT) + 1
refusableRequest(target, request) == generationRequest(target, request, PROMPT, 1)

(* The n-th thing a probe waits for, where another probe may have asked it
   already: ask, and keep the answer for them. *)
Share(key, ask, heard, n) ==
  IF Len(heard) < n THEN ask
  ELSE Keep([k \in {key} |-> heard[n]], SubSeq(heard, 1, n - 1))

outOfRangeTemperature(target, heard) == Share("hot", tinyRequest(target, "hot"), heard, 1)
malformedBody(heard) == Share("malformed", Ask("malformed", 0), heard, 1)

-----------------------------------------------------------------------------
(* OpenAI *)

NO_KEY_ROUTES ==
  <<"get-models", "get-chat-completions", "post-chat-completions", "post-responses">>
MIN_ROUTES_FOR_FULL_MATCH == 3

noKeyExchange(route, heard, n) == Share(route, Ask(route, 0), heard, n)
notFoundExchange(heard, n)     == Share("not-found", Ask("not-found", 0), heard, n)

(* The source asks the four together; who overtakes whom is RunSession's. *)
routeSerializers(shared, heard) ==
  LET unasked == {i \in 1 .. Len(NO_KEY_ROUTES) : NO_KEY_ROUTES[i] \notin DOMAIN shared}
      next    == CHOOSE i \in unasked : \A j \in unasked : i <= j
      routes  == {i \in 1 .. Len(NO_KEY_ROUTES) : shared[NO_KEY_ROUTES[i]].status = 401}
      alike   == {i \in routes : shared[NO_KEY_ROUTES[i]].as}
  IN  IF unasked # {} THEN noKeyExchange(NO_KEY_ROUTES[next], heard, 1)
      ELSE IF routes = {} THEN Say({})
      ELSE IF alike = routes /\ \E i, j, k \in routes : i < j /\ j < k
      THEN Say({observedSignal("match", Path(3, 3, 0))})
      ELSE IF alike # {} THEN Say({observedSignal("partial-match", Path(1, 0, 0))})
      ELSE Say({observedSignal("mismatch", Path(-1, 0, 0))})

proxyWasmHeader(shared, heard) ==
  IF "get-models" \notin DOMAIN shared THEN noKeyExchange("get-models", heard, 1)
  ELSE IF shared["get-models"].status # 401 \/ ~shared["get-models"].wasm THEN Say({})
  ELSE IF "not-found" \notin DOMAIN shared THEN notFoundExchange(heard, 1)
  ELSE IF shared["not-found"].status = 404 /\ ~shared["not-found"].wasm
  THEN Say({observedSignal("routed-only", Path(3, 2, 0))})
  ELSE Say({observedSignal("present", Path(1, 0, 0))})

isEmpty404(exchange) == exchange.status = 404 /\ exchange.empty

empty404(shared, heard) ==
  IF heard = <<>> THEN Ask("wrong-method", 0)
  ELSE IF "not-found" \notin DOMAIN shared THEN notFoundExchange(heard, 2)
  ELSE Say({CASE isEmpty404(heard[1]) /\ isEmpty404(shared["not-found"]) ->
                   observedSignal("match", Path(2, 2, 0))
              [] isEmpty404(heard[1]) # isEmpty404(shared["not-found"]) ->
                   observedSignal("partial-match", Path(1, 0, 0))
              [] OTHER -> observedSignal("mismatch", Path(-1, 0, 0))})

readPreflight(exchange) ==
  IF exchange.status = 200 /\ exchange.methods = "own" /\ exchange.maxAge = "own"
  THEN {observedSignal("preflight-match", Path(2, 1, 0))}
  ELSE IF exchange.status >= 400 \/ "other" \in {exchange.methods, exchange.maxAge}
  THEN {observedSignal("preflight-mismatch", Path(-1, 0, 0))} ELSE {}

readExposed(exchange) ==
  IF exchange.status = 401 /\ exchange.exposed >= 2
  THEN {observedSignal("expose-headers-duplicated", Path(2, 0, 0))} ELSE {}

cors(shared, heard) ==
  IF heard = <<>> THEN Ask("preflight", 0)
  ELSE IF "get-models" \notin DOMAIN shared THEN noKeyExchange("get-models", heard, 2)
  ELSE Say(readPreflight(heard[1]) \union readExposed(shared["get-models"]))

authOnlyHeaders(shared, heard) ==
  IF "get-models" \notin DOMAIN shared THEN noKeyExchange("get-models", heard, 1)
  ELSE LET exchange == shared["get-models"]
       IN  IF exchange.status # 401 THEN Say({})
           ELSE IF exchange.leaked
           THEN Say({observedSignal("authenticated-headers-present", Path(-3, 0, 0))})
           ELSE CASE exchange.requestId = "none" -> Say({})
                  [] exchange.requestId = "own" ->
                       Say({observedSignal("request-id-match", Path(2, 0, 0))})
                  [] OTHER -> Say({observedSignal("request-id-mismatch", Path(-1, 0, 0))})

unknownParameter(target, heard) ==
  IF heard = <<>> THEN tinyRequest(target, "unknown-parameter")
  ELSE IF isSuccess(heard[1]) THEN Say({observedSignal("accepted", Path(-2, 0, 2))})
  ELSE IF ~isClientError(heard[1]) THEN Say({})
  ELSE IF heard[1].status = 400 /\ heard[1].dialect = "openai" /\ heard[1].as
  THEN Say({observedSignal("rejected-as-openai", Path(3, 2, 0))})
  ELSE Say({observedSignal("rejected-otherwise", Path(-1, 0, 0))})

modelNotFound(target, heard) ==
  IF heard = <<>> THEN tinyRequest(target, "absent-model")
  ELSE IF isSuccess(heard[1]) THEN Say({observedSignal("answered", Path(-3, 0, 1))})
  ELSE IF ~isClientError(heard[1]) THEN Say({})
  ELSE IF heard[1].status = 404 /\ heard[1].dialect = "openai" /\ heard[1].as
  THEN Say({observedSignal("refused-as-openai", Path(3, 2, 0))})
  ELSE Say({observedSignal("refused-otherwise", Path(-1, 0, 0))})

(* The words a temperature is refused in: out of range, or unsupported by the
   model, which the two APIs say differently. *)
wordingOf(target, exchange) ==
  IF exchange.status # 400 \/ exchange.dialect # "openai" THEN "other"
  ELSE CASE exchange.words = "above-max" -> "above-max"
         [] exchange.words = "other" -> "other"
         [] OTHER -> IF exchange.words = target.protocol THEN "own-route" ELSE "other-route"

temperatureAboveMax(target, shared, heard) ==
  IF "hot" \notin DOMAIN shared THEN outOfRangeTemperature(target, heard)
  ELSE IF ~isClientError(shared.hot) THEN Say({})
  ELSE LET wording == wordingOf(target, shared.hot)
       IN  Say({observedSignal(wording,
                  CASE wording = "above-max"   -> Path(3, 2, 0)
                    [] wording = "own-route"   -> Path(2, 1, 0)
                    [] wording = "other-route" -> Path(-2, 0, 2)
                    [] wording = "other"       -> Path(-1, 0, 0))})

-----------------------------------------------------------------------------
(* Anthropic *)

(* An error in Anthropic's envelope: `as` when no part of it is missing or
   changed; `bodyId` and `headerId` are its two request ids. *)
readEnvelope(exchange) ==
  IF isSuccess(exchange) \/ exchange.dialect = "none" THEN Path(-4, -3, 3)
  ELSE IF exchange.dialect = "openai" THEN Path(-3, -6, 8)
  ELSE IF ~exchange.as \/ exchange.bodyId = "none" THEN Path(-3, 0, 0)
  ELSE Path(2, 3, 0)

requestIdSignal(exchange) ==
  conformanceSignal("request-id-header",
    CASE exchange.headerId = "none" -> Path(-4, 0, 0)
      [] exchange.headerId # "none" /\ exchange.bodyId = "none" -> Neutral
      [] OTHER -> IF exchange.headerId = exchange.bodyId THEN Path(3, 0, 0) ELSE Path(-3, 0, 0))

errorEnvelope(shared, heard) ==
  IF "malformed" \notin DOMAIN shared THEN malformedBody(heard)
  ELSE Say({conformanceSignal("envelope", readEnvelope(shared.malformed)),
            requestIdSignal(shared.malformed)})

(* ERROR_ROWS: the type each status carries, and `fits`. *)
ErrorType(status) ==
  CASE status = 400 -> "invalid_request_error"
    [] status = 402 -> "billing_error"
    [] status = 404 -> "not_found_error"
    [] status = 413 -> "request_too_large"
    [] OTHER -> "none"
ErrorTypes == {"invalid_request_error", "billing_error", "not_found_error", "request_too_large"}
fits(exchange) ==
  ErrorType(exchange.status) = exchange.type
    \/ (exchange.type = "invalid_request_error" /\ isClientError(exchange))

cellSignals(id, exchange) ==
  IF isSuccess(exchange) \/ exchange.dialect # "anthropic" \/ exchange.type = "none" THEN {}
  ELSE IF exchange.type \notin ErrorTypes
  THEN {observedSignal(id, Path(0, 0, 1))}
  ELSE {conformanceSignal(id, IF fits(exchange) THEN Path(2, 0, 0) ELSE Path(-3, 0, 3))}

errorVocabulary(shared, heard) ==
  IF "malformed" \notin DOMAIN shared THEN malformedBody(heard)
  ELSE IF heard = <<>> THEN Ask("absent-model-object", 0)
  ELSE Say(cellSignals("malformed-body-type", shared.malformed) \union
           (IF isSuccess(heard[1])
            THEN {conformanceSignal("absent-model-type", Path(-3, 0, 2))}
            ELSE cellSignals("absent-model-type", heard[1])))

extraInputs(target, heard) ==
  IF heard = <<>> THEN refusableRequest(target, "extra-inputs")
  ELSE IF isSuccess(heard[1]) THEN Say({observedSignal("accepted", Path(-3, 0, 3))})
  ELSE IF ~isClientError(heard[1]) THEN Say({})
  ELSE IF heard[1].status = 400 /\ heard[1].dialect = "anthropic" /\ heard[1].as
  THEN Say({observedSignal("refused-as-anthropic", Path(1, 2, 0))})
  ELSE Say({observedSignal("refused-otherwise", Path(0, 0, 2))})

betaHeader(target, heard) ==
  IF heard = <<>> THEN refusableRequest(target, "beta-header")
  ELSE Say({CASE isSuccess(heard[1]) -> conformanceSignal("accepted", Path(-4, -3, 3))
              [] heard[1].status = 400 ->
                   IF heard[1].dialect = "anthropic" /\ heard[1].as
                   THEN conformanceSignal("refused-as-anthropic", Path(3, 4, 0))
                   ELSE conformanceSignal("refused-otherwise", Path(-2, 0, 2))
              [] OTHER -> conformanceSignal("other-status", Neutral)})

DEFAULTED_TOKENS == 1024
MISSING_TOKENS == estimateTokens(PROMPT) + DEFAULTED_TOKENS

missingMaxTokens(heard) ==
  IF heard = <<>> THEN Ask("missing-max-tokens", MISSING_TOKENS)
  ELSE IF isSuccess(heard[1]) THEN Say({conformanceSignal("accepted", Path(-4, 0, 3))})
  ELSE IF heard[1].status # 400 \/ heard[1].dialect # "anthropic" THEN Say({})
  ELSE Say({conformanceSignal("refused", Path(1, 2, 0))})

(* The model object: `as` when it has every documented field, `model` the id in
   it - the one expected, one of a partner cloud, another or none. *)
idSignal(id, exchange) ==
  CASE exchange.model = "none" -> {}
    [] exchange.model = "expected" -> {conformanceSignal(id, Path(1, 0, 0))}
    [] exchange.model = "partner" ->
         {conformanceSignal(id, [Neutral EXCEPT !.cloud = 4, !.firstParty = -4])}
    [] OTHER -> {observedSignal(id, Path(0, 0, 2))}

unresolved(id) ==
  observedSignal(IF id = "claimed-id" THEN "claimed-id-unresolved" ELSE "alias-id-unresolved",
                 Path(-2, 0, 0))

\* Mutated form: the id of the object looked up by its alias is told as the claimed one.
readAsClaimed(id, exchange, withShape) ==
  IF ~(isSuccess(exchange) /\ exchange.object)
  THEN {observedSignal("claimed-id", Path(-2, 0, 0))}
  ELSE idSignal("claimed-id", exchange)
readModel(id, exchange, withShape) ==
  IF ~(isSuccess(exchange) /\ exchange.object) THEN {unresolved(id)}
  ELSE (IF ~withShape THEN {}
        ELSE {conformanceSignal("model-object",
                IF exchange.as THEN Path(2, 0, 0) ELSE Path(-3, 0, 2))})
         \union idSignal(id, exchange)

modelRetrieve(target, heard) ==
  IF heard = <<>> THEN Ask("claimed-model-object", 0)
  ELSE IF ~target.alias \/ ~(isSuccess(heard[1]) /\ heard[1].object)
  THEN Say(readModel("claimed-id", heard[1], TRUE))
  ELSE IF Len(heard) = 1 THEN Ask("alias-model-object", 0)
  ELSE Say(readModel("claimed-id", heard[1], TRUE) \union readModel("alias-id", heard[2], FALSE))

-----------------------------------------------------------------------------
(* Either vendor *)

permissiveValidator(target, shared, heard) ==
  IF "hot" \notin DOMAIN shared THEN outOfRangeTemperature(target, heard)
  ELSE IF isSuccess(shared.hot) THEN Say({conformanceSignal("accepted", Path(-4, -6, 6))})
  ELSE IF ~isClientError(shared.hot) THEN Say({})
  ELSE Say({conformanceSignal("rejected", Path(0, 1, 0))})

protocolLeakage(target, heard) ==
  IF heard = <<>> THEN tinyRequest(target, "tiny")
  ELSE IF ~isSuccess(heard[1]) \/ ~heard[1].foreign THEN Say({})
  ELSE Say({conformanceSignal("foreign-markers", Path(-5, -5, 8))})

(* Claude behind Anthropic's OpenAI-compatible endpoint. *)
compatFields(target, heard) ==
  IF heard = <<>> THEN tinyRequest(target, "logprobs")
  ELSE IF isSuccess(heard[1])
  THEN Say((IF ~heard[1].fingerprint THEN {}
            ELSE {conformanceSignal("fingerprint-present", Path(-6, 0, 0))})
           \union
           (IF ~heard[1].logprobs THEN {}
            ELSE {conformanceSignal("logprobs-present",
                    [Neutral EXCEPT !.other = 6, !.claim = -6, !.cheaper = -6, !.firstParty = -6])}))
  ELSE IF isClientError(heard[1]) /\ heard[1].namesLogprobs
  THEN Say({conformanceSignal("logprobs-rejected", Path(-3, 0, 0))})
  ELSE Say({})

-----------------------------------------------------------------------------
(* What each declares it may cost, and the targets it is for. *)

ConformanceCost ==
  [routeSerializers    |-> [requests |-> 4, tokens |-> 0],
   proxyWasmHeader     |-> [requests |-> 2, tokens |-> 0],
   empty404            |-> [requests |-> 2, tokens |-> 0],
   cors                |-> [requests |-> 2, tokens |-> 0],
   authOnlyHeaders     |-> [requests |-> 1, tokens |-> 0],
   unknownParameter    |-> [requests |-> 1, tokens |-> TINY_REQUEST_TOKENS],
   modelNotFound       |-> [requests |-> 1, tokens |-> TINY_REQUEST_TOKENS],
   temperatureAboveMax |-> [requests |-> 1, tokens |-> TINY_REQUEST_TOKENS],
   errorEnvelope       |-> [requests |-> 1, tokens |-> 0],
   errorVocabulary     |-> [requests |-> 2, tokens |-> 0],
   extraInputs         |-> [requests |-> 1, tokens |-> CELL_TOKENS],
   betaHeader          |-> [requests |-> 1, tokens |-> CELL_TOKENS],
   missingMaxTokens    |-> [requests |-> 1, tokens |-> MISSING_TOKENS],
   modelRetrieve       |-> [requests |-> 2, tokens |-> 0],
   permissiveValidator |-> [requests |-> 1, tokens |-> TINY_REQUEST_TOKENS],
   protocolLeakage     |-> [requests |-> 1, tokens |-> TINY_REQUEST_TOKENS],
   compatFields        |-> [requests |-> 1, tokens |-> TINY_REQUEST_TOKENS]]

OpenAIConformance ==
  <<"routeSerializers", "proxyWasmHeader", "empty404", "cors", "authOnlyHeaders",
    "unknownParameter", "modelNotFound", "temperatureAboveMax">>
AnthropicConformance ==
  <<"errorEnvelope", "errorVocabulary", "extraInputs", "betaHeader", "missingMaxTokens",
    "modelRetrieve">>
CommonConformance == <<"permissiveValidator", "protocolLeakage", "compatFields">>

ConformanceApplies(name, target) ==
  LET native == target.native IN
  CASE \E i \in 1 .. Len(OpenAIConformance) : OpenAIConformance[i] = name ->
         target.vendor = "openai" /\ native
    [] \E i \in 1 .. Len(AnthropicConformance) : AnthropicConformance[i] = name ->
         target.protocol = "anthropic-messages" /\ target.vendor = "anthropic"
    [] name = "compatFields" -> target.protocol = "openai-chat" /\ target.vendor = "anthropic"
    [] OTHER -> native

conformance(name, target, shared, heard) ==
  CASE name = "routeSerializers"    -> routeSerializers(shared, heard)
    [] name = "proxyWasmHeader"     -> proxyWasmHeader(shared, heard)
    [] name = "empty404"            -> empty404(shared, heard)
    [] name = "cors"                -> cors(shared, heard)
    [] name = "authOnlyHeaders"     -> authOnlyHeaders(shared, heard)
    [] name = "unknownParameter"    -> unknownParameter(target, heard)
    [] name = "modelNotFound"       -> modelNotFound(target, heard)
    [] name = "temperatureAboveMax" -> temperatureAboveMax(target, shared, heard)
    [] name = "errorEnvelope"       -> errorEnvelope(shared, heard)
    [] name = "errorVocabulary"     -> errorVocabulary(shared, heard)
    [] name = "extraInputs"         -> extraInputs(target, heard)
    [] name = "betaHeader"          -> betaHeader(target, heard)
    [] name = "missingMaxTokens"    -> missingMaxTokens(heard)
    [] name = "modelRetrieve"       -> modelRetrieve(target, heard)
    [] name = "permissiveValidator" -> permissiveValidator(target, shared, heard)
    [] name = "protocolLeakage"     -> protocolLeakage(target, heard)
    [] name = "compatFields"        -> compatFields(target, heard)
=============================================================================
