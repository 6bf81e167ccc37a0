------------------------------ MODULE MCMatrix ------------------------------
(* The five matrices of the catalogue over the two vendors' tables. *)
EXTENDS Fingerprints, Matrix

samplingMatrix   == [cells |-> <<"temperature", "top_p", "top_k">>, control |-> TRUE]
assistantPrefill == [cells |-> <<"prefill">>, control |-> FALSE]
thinkingMatrix   == [cells |-> <<"enabled", "adaptive", "disabled">>, control |-> FALSE]
forcedToolChoice == [cells |-> <<"tool_choice">>, control |-> FALSE]
reasoningMatrix  ==
  [cells |-> <<"none", "none+temperature", "low+temperature">>, control |-> TRUE]

Matrices == {samplingMatrix, assistantPrefill, thinkingMatrix, forcedToolChoice, reasoningMatrix}
Shapes   == UNION {{p.cells[i] : i \in 1 .. Len(p.cells)} : p \in Matrices}

(* The fact each shape is compared with. *)
ColumnOf(shape) ==
  CASE shape \in {"temperature", "top_p", "top_k"} -> rejectsSamplingParameters
    [] shape = "prefill"          -> rejectsPrefill
    [] shape = "enabled"          -> rejectsThinkingEnabled
    [] shape = "adaptive"         -> rejectsThinkingAdaptive
    [] shape = "disabled"         -> rejectsThinkingDisabled
    [] shape = "tool_choice"      -> rejectsForcedToolChoice
    [] shape = "none"             -> rejectsNoneEffort
    [] shape = "none+temperature" -> rejectsSamplingAtNoneEffort
    [] shape = "low+temperature"  -> rejectsSamplingAtOtherEffort

Table == [m \in Models |-> [shape \in Shapes |-> ColumnOf(shape)[m]]]

(* ANTHROPIC_REJECTIONS: the refusals Anthropic quotes. *)
WordedShapes == {"prefill", "enabled", "adaptive", "disabled", "tool_choice"}
=============================================================================
