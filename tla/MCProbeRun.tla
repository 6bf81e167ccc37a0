---------------------------- MODULE MCProbeRun ----------------------------
(* The endpoints the probes are run against: for every kind of target, each kind
   of endpoint it can have, and for a Claude claim every model of the table as
   the claim and every cheaper one behind it. *)
EXTENDS ProbeRun

Target(protocol, vendor, model, encoding) ==
  [protocol |-> protocol, vendor |-> vendor, model |-> model, encoding |-> encoding,
   native |-> vendor = "openai" \/ protocol = "anthropic-messages",
   samples |-> encoding = "cl100k_base", alias |-> model = "opus-5"]

At(target, kind, model, encoding) ==
  [target |-> target, kind |-> kind, model |-> model, encoding |-> encoding]

Claude(m) == Target("anthropic-messages", "anthropic", m, "o200k_base")

Claudes ==
  {At(Claude(m), kind, m, "o200k_base") : m \in AnthropicModels, kind \in {"vendor", "layer"}}
    \union UNION {{At(Claude(m), "cheaper", c, "o200k_base") : c \in cheaperThan[m]} :
                    m \in AnthropicModels}
    \union {At(Claude("opus-5"), "any", "opus-5", "o200k_base")}

Compatible == Target("openai-chat", "anthropic", "opus-5", "o200k_base")

AllEndpoints ==
  Claudes
    \union {e \in [target : {Target(p, "openai", "gpt", c) :
                               p \in {"openai-chat", "openai-responses"},
                               c \in {"o200k_base", "cl100k_base"}},
                   kind : Kinds, model : {"gpt"}, encoding : {"o200k_base", "cl100k_base"}] :
              e.kind = "cheaper" \/ e.encoding = e.target.encoding}
    \union {At(Compatible, kind, "opus-5", "o200k_base") : kind \in {"vendor", "layer", "any"}}

(* Enough for what the causal probes conclude. *)
Unknown == {At(Claude("opus-5"), "any", "opus-5", "o200k_base")}
=============================================================================
