------------------------------ MODULE ProbeRun ------------------------------
(* The probes of groups A to D one after the other, in the catalogue's order
   (probes/registry.ts), against one endpoint: every request is answered or lost,
   an answer one probe asked for is kept for those after it, and each probe ends
   with its signals, or with none. *)
EXTENDS Endpoint

CONSTANT Endpoints   \* the endpoints a run may meet

(* A claim is of an OpenAI model over either of OpenAI's protocols, or of a Claude
   model over Anthropic's own or its OpenAI-compatible one; what answers is the
   claimed model, a cheaper one of the vendor's, or anything. *)
ASSUME EndpointsAssumption ==
  \A e \in Endpoints :
    LET target == e.target IN
    /\ e.kind \in Kinds
    /\ {e.encoding, target.encoding} \subseteq {"o200k_base", "cl100k_base"}
    /\ {target.native, target.samples, target.alias} \subseteq BOOLEAN
    /\ \/ target.vendor = "openai" /\ target.protocol \in {"openai-chat", "openai-responses"}
       \/ /\ target.vendor = "anthropic"
          /\ target.protocol \in {"openai-chat", "anthropic-messages"}
          /\ {e.model, target.model} \subseteq AnthropicModels
    /\ target.native = (target.vendor = "openai" \/ target.protocol = "anthropic-messages")
    /\ e.kind \in {"vendor", "layer"} => e.model = target.model /\ e.encoding = target.encoding
    /\ e.kind = "cheaper" /\ target.vendor = "anthropic" => e.model \in cheaperThan[target.model]

VARIABLES
  endpoint,   \* who answers
  at,         \* index in PROBE_CATALOGUE
  shared,     \* what earlier probes left for later ones
  heard,      \* the answers of the running probe
  sent,       \* its requests
  charged,    \* what they were charged against the budget
  billed,     \* what they may bill
  signals,    \* what it said
  said        \* whether it has

vars == <<endpoint, at, shared, heard, sent, charged, billed, signals, said>>

AccountingProbes ==
  <<"usageArithmetic", "outputLimit", "idFormat", "snapshotEcho", "systemFingerprint",
    "countTokensAgreement", "hiddenInput">>
TokenizerProbes == <<"openaiLocalCount", "anthropicDifferential">>

PROBE_CATALOGUE ==
  OpenAIConformance \o AnthropicConformance \o CommonConformance
    \o AccountingProbes \o TokenizerProbes \o CausalProbes

Names(probes) == {probes[i] : i \in 1 .. Len(probes)}

AccountingApplies(name, target) ==
  CASE name = "idFormat" -> target.vendor = "openai"
    [] name = "systemFingerprint" -> target.protocol = "openai-chat" /\ target.vendor = "openai"
    [] name = "countTokensAgreement" ->
         target.protocol = "anthropic-messages" /\ target.vendor = "anthropic"
    [] name = "openaiLocalCount" -> target.vendor = "openai"
    [] name = "anthropicDifferential" -> target.vendor = "anthropic"
    [] OTHER -> TRUE

Applies(name, target) ==
  CASE name \in DOMAIN ConformanceCost -> ConformanceApplies(name, target)
    [] name \in DOMAIN CausalCost -> CausalApplies(name, target)
    [] OTHER -> AccountingApplies(name, target)

Cost(name) ==
  CASE name \in DOMAIN ConformanceCost -> ConformanceCost[name]
    [] name \in DOMAIN CausalCost -> CausalCost[name]
    [] name \in Names(TokenizerProbes) -> BATTERY_COST
    [] name = "countTokensAgreement" ->
         [BASELINE_COST EXCEPT !.requests = BASELINE_COST.requests + 1]
    [] OTHER -> BASELINE_COST

(* An accounting probe reads the shared generation. *)
accounting(name, target, known, answers) ==
  IF "baseline" \notin DOMAIN known THEN baseline(target, known, answers)
  ELSE LET g == known.baseline IN
       CASE name = "usageArithmetic"   -> Say(usageArithmetic(target, g))
         [] name = "outputLimit"       -> Say(outputLimit(target, known.floor, g))
         [] name = "idFormat"          -> Say(idFormat(g))
         [] name = "snapshotEcho"      -> Say(snapshotEcho(target, g))
         [] name = "systemFingerprint" -> Say(systemFingerprint(g))
         [] name = "hiddenInput"       -> Say(hiddenInput(target, g))
         [] name = "countTokensAgreement" -> countTokensAgreement(target, g, answers)

(* What a probe does next, given what it and the run know. *)
Program(name, target, known, answers) ==
  CASE name \in DOMAIN ConformanceCost -> conformance(name, target, known, answers)
    [] name \in DOMAIN CausalCost -> causal(name, target, known, answers)
    [] name = "openaiLocalCount" -> openaiLocalCount(target, known, answers)
    [] name = "anthropicDifferential" -> anthropicDifferential(target, known, answers)
    [] OTHER -> accounting(name, target, known, answers)

Name == PROBE_CATALOGUE[at]
step == Program(Name, endpoint.target, shared, heard)

(* The probes that read a kept answer.  The run keeps all of them; the model
   forgets one no later probe can read. *)
ReadBy(key) ==
  CASE key = "get-models" -> {"routeSerializers", "proxyWasmHeader", "cors", "authOnlyHeaders"}
    [] key \in {NO_KEY_ROUTES[i] : i \in 2 .. 4} -> {"routeSerializers"}
    [] key = "not-found" -> {"proxyWasmHeader", "empty404"}
    [] key = "hot" -> {"temperatureAboveMax", "permissiveValidator"}
    [] key = "malformed" -> {"errorEnvelope", "errorVocabulary"}
    [] key = "baseline" -> Names(AccountingProbes)
    [] key = "floor" -> Names(AccountingProbes) \union Names(TokenizerProbes)
    [] key = "deltas" -> Names(TokenizerProbes)
    [] key = "seed" -> {"thinkingSignature", "thinkingDisplay"}
    [] key = "above" -> {"cacheThreshold", "cacheInvalidation"}

-----------------------------------------------------------------------------
Ended == at > Len(PROBE_CATALOGUE)

(* The next probe that applies, with nothing heard yet. *)
Advance ==
  LET later == {i \in at + 1 .. Len(PROBE_CATALOGUE) :
                  Applies(PROBE_CATALOGUE[i], endpoint.target)}
      left  == {PROBE_CATALOGUE[i] : i \in later}
      next  == IF later = {} THEN Len(PROBE_CATALOGUE) + 1
               ELSE CHOOSE i \in later : \A j \in later : i <= j
  IN  /\ at' = next
      /\ shared' = [key \in {k \in DOMAIN shared : ReadBy(k) \cap left # {}} |-> shared[key]]
      /\ heard' = <<>> /\ sent' = 0 /\ charged' = 0 /\ billed' = 0
      /\ signals' = {} /\ said' = FALSE
      /\ UNCHANGED endpoint

Init ==
  /\ endpoint \in Endpoints
  /\ at = 0 /\ shared = <<>> /\ heard = <<>>
  /\ sent = 0 /\ charged = 0 /\ billed = 0
  /\ signals = {} /\ said = TRUE

Running == ~said /\ ~Ended

Asked ==
  /\ sent' = sent + 1
  /\ charged' = charged + step.tokens
  /\ billed' = billed + step.bill

(* The running probe's request is answered. *)
Answer ==
  /\ Running /\ step.do = "ask"
  /\ \E exchange \in Answers(endpoint, step) : heard' = Append(heard, exchange)
  /\ Asked
  /\ UNCHANGED <<endpoint, at, shared, signals, said>>

(* It is lost on the way, twice: the probe ends without a signal, and what it was
   computing for others is not kept. *)
Lose ==
  /\ Running /\ step.do = "ask"
  /\ Advance

(* An answer is kept for the rest of the run. *)
Kept(entries, known) ==
  [key \in DOMAIN entries \union DOMAIN known |->
     IF key \in DOMAIN entries THEN entries[key] ELSE known[key]]

Remember ==
  /\ Running /\ step.do = "keep"
  /\ shared' = Kept(step.entries, shared)
  /\ heard' = step.heard
  /\ UNCHANGED <<endpoint, at, sent, charged, billed, signals, said>>

(* The answers are no answers: the probe gives up. *)
GiveUp ==
  /\ Running /\ step.do = "fail"
  /\ Advance

(* The probe is done, and its signals are recorded. *)
Conclude ==
  /\ Running /\ step.do = "say"
  /\ signals' = step.signals
  /\ said' = TRUE
  /\ UNCHANGED <<endpoint, at, shared, heard, sent, charged, billed>>

NextProbe == said /\ ~Ended /\ Advance

Next == Answer \/ Lose \/ Remember \/ GiveUp \/ Conclude \/ NextProbe

Spec == Init /\ [][Next]_vars

-----------------------------------------------------------------------------
(* Properties *)

(* What a probe returns passes the run's own check of it (`checkSignals`): its
   signals are well made and no two have one id, or the run would drop all of
   them as a fault of the probe. *)
TypeOK ==
  /\ endpoint \in Endpoints
  /\ at \in 0 .. Len(PROBE_CATALOGUE) + 1
  /\ \A s \in signals : s \in SignalsWith({s.id})
  /\ \A s, t \in signals : s.id = t.id => s = t

(* The vendor's own API is not taken for anything else: whatever it may answer
   to whatever sequence of requests, lost ones included, no probe counts against
   the claim or against the path being the vendor's. *)
VendorReadsAsVendor ==
  endpoint.kind = "vendor" =>
    \A s \in signals :
      /\ s.vetoes = {} /\ s.llr.translated <= 0
      /\ \A f \in {"claim", "firstParty", "direct"} : s.llr[f] >= 0

(* A layer that only loses things on the way does not turn the claimed model
   into another one: nothing it does vetoes the claim, and what counts against
   the claim counts at least as much for a translation. *)
StrippingIsNotDeception ==
  endpoint.kind = "layer" =>
    \A s \in signals : "claim" \notin s.vetoes /\ s.llr.translated >= -s.llr.claim

(* A cheaper model of the vendor's is not ruled out by the evidence it gives: no
   veto, and nothing beyond the weak measured disagreement of one threshold. *)
CheaperIsNotRuledOut ==
  endpoint.kind = "cheaper" =>
    \A s \in signals : "cheaper" \notin s.vetoes /\ s.llr.cheaper >= -3

(* A probe stays within the cost it declares, which is what the planner admitted
   it for: in requests, in what the budget is charged and in what the requests
   may bill, the search for the smallest output limit included. *)
CostIsEnough ==
  at \in 1 .. Len(PROBE_CATALOGUE) =>
    /\ sent <= Cost(Name).requests
    /\ charged <= Cost(Name).tokens
    /\ billed <= Cost(Name).tokens

(* A changed block is taken as accepted only when its thinking was counted as
   input (docs/PROVENANCE.md, the kept gate). *)
KeptMeansCounted ==
  (\E s \in signals : s.id = "tamper-accepted") => heard[2].altered > 0
=============================================================================
