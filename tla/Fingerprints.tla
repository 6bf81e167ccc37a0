---------------------------- MODULE Fingerprints ----------------------------
(* The facts of packages/fingerprints the probes compare answers with: which
   request shape each vendor documents each model as refusing, from what
   prompt length a model caches, which tokenizer it counts with, and which
   models cost less than which.  A fact the documentation does not settle is
   "silent" (`undefined` in the source).

   The rows are the two vendors' tables, column by column, so that a reader can
   hold each column against the table it came from.                          *)
EXTENDS Integers

AnthropicModels ==
  {"fable-5-1", "opus-5-5", "mythos-5-1", "sonnet-5", "fable-5", "mythos-5",
   "opus-5", "opus-4-8", "opus-4-7", "mythos-preview", "opus-4-6", "sonnet-4-6",
   "opus-4-5", "sonnet-4-5", "haiku-4-5"}

OpenAIModels ==
  {"gpt-6-astra", "gpt-6-sol", "gpt-6-luna", "gpt-5.2", "gpt-5.1", "gpt-5",
   "gpt-5-mini", "gpt-5-nano"}

Models == AnthropicModels \union OpenAIModels

(* A column of the table: the models documented to refuse, those documented to
   accept, and silence about the others. *)
Column(refusing, accepting) ==
  [m \in Models |-> IF m \in refusing THEN "rejected"
                    ELSE IF m \in accepting THEN "accepted" ELSE "silent"]

From47 == {"fable-5-1", "opus-5-5", "mythos-5-1", "sonnet-5", "fable-5",
           "mythos-5", "opus-5", "opus-4-8", "opus-4-7"}
To45   == {"opus-4-5", "sonnet-4-5", "haiku-4-5"}

rejectsSamplingParameters ==
  Column(From47 \ {"mythos-5"}, {"opus-4-6", "sonnet-4-6", "opus-4-5", "haiku-4-5"})
rejectsPrefill         == Column(AnthropicModels \ To45, To45)
rejectsThinkingEnabled == Column(From47, AnthropicModels \ From47)
rejectsThinkingAdaptive == Column(To45, AnthropicModels \ To45)
rejectsThinkingDisabled ==
  Column({"fable-5-1", "opus-5-5", "mythos-5-1", "fable-5", "mythos-5", "mythos-preview"},
         {"sonnet-5", "opus-5", "opus-4-8"})
rejectsForcedToolChoice ==
  Column({"fable-5-1", "opus-5-5", "mythos-5-1"},
         {"sonnet-5", "fable-5", "opus-5", "opus-4-8"})

rejectsNoneEffort ==
  Column({"gpt-6-astra"}, {"gpt-6-sol", "gpt-6-luna", "gpt-5.2", "gpt-5.1"})
rejectsSamplingAtNoneEffort ==
  Column({"gpt-5", "gpt-5-mini", "gpt-5-nano"}, {"gpt-5.2", "gpt-5.1"})
rejectsSamplingAtOtherEffort ==
  Column({"gpt-5.2", "gpt-5.1", "gpt-5", "gpt-5-mini", "gpt-5-nano"}, {})

(* The shortest prompt each Claude model caches, in tokens. *)
cacheMinimumTokens ==
  [m \in AnthropicModels |->
     IF m \in {"sonnet-5", "opus-4-8", "sonnet-4-6", "sonnet-4-5"} THEN 1024
     ELSE IF m \in {"opus-4-7", "mythos-preview"} THEN 2048
     ELSE IF m \in {"opus-4-6", "opus-4-5", "haiku-4-5"} THEN 4096
     ELSE 512]

tokenizer ==
  [m \in AnthropicModels |->
     IF m \in From47 \union {"mythos-preview"} THEN "claude-2026" ELSE "claude-legacy"]

(* Price per million tokens in cents, <<input, output>>; <<>> where no page
   gives one. *)
pricing ==
  [m \in Models |->
     CASE m \in {"fable-5-1", "mythos-5-1", "fable-5", "mythos-5", "gpt-6-astra"} -> <<1000, 5000>>
       [] m = "opus-5-5" -> <<400, 2000>>
       [] m \in {"sonnet-5", "gpt-6-sol"} -> <<200, 1000>>
       [] m \in {"opus-5", "opus-4-8", "opus-4-7", "opus-4-6", "opus-4-5"} -> <<500, 2500>>
       [] m \in {"sonnet-4-6", "sonnet-4-5"} -> <<300, 1500>>
       [] m = "haiku-4-5" -> <<100, 500>>
       [] m = "gpt-6-luna" -> <<10, 50>>
       [] m = "gpt-5.2" -> <<175, 1400>>
       [] m \in {"gpt-5.1", "gpt-5"} -> <<125, 1000>>
       [] m = "gpt-5-mini" -> <<25, 200>>
       [] m = "gpt-5-nano" -> <<5, 40>>
       [] OTHER -> <<>>]

(* The models of the same vendor that cost no more for input or output, and
   less for one of them. *)
cheaperThan ==
  [m \in Models |->
     {c \in Models :
        /\ (c \in AnthropicModels) = (m \in AnthropicModels)
        /\ pricing[c] # <<>> /\ pricing[m] # <<>>
        /\ pricing[c] # pricing[m]
        /\ pricing[c][1] <= pricing[m][1] /\ pricing[c][2] <= pricing[m][2]}]
=============================================================================
