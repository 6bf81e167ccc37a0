----------------------------- MODULE MCVerdict -----------------------------
(* Twelve probes with the costs of real ones, what a family of probes may say at
   its best and at its worst, and the ways thirty draws may end. *)
EXTENDS Verdict

Probe(id, group, sends, bills, needsKey, optIn) ==
  [id |-> id, group |-> group, requests |-> sends, tokens |-> bills,
   needsKey |-> needsKey, optIn |-> optIn, applies |-> TRUE]

Catalogue ==
  <<Probe("empty-404", "A", 2, 0, FALSE, FALSE),
    Probe("missing-max-tokens", "A", 1, 1111, TRUE, FALSE),
    Probe("model-retrieve", "A", 2, 0, TRUE, FALSE),
    Probe("permissive-validator", "A", 1, 94, TRUE, FALSE),
    [Probe("openai-only", "A", 1, 94, TRUE, FALSE) EXCEPT !.applies = FALSE],
    Probe("usage-arithmetic", "B", 2, 2251, TRUE, FALSE),
    Probe("snapshot-echo", "B", 2, 2251, TRUE, FALSE),
    Probe("anthropic-differential", "C", 5, 1226, TRUE, FALSE),
    Probe("thinking-signature", "D", 3, 8800, TRUE, FALSE),
    Probe("cache-threshold", "D", 2, 61000, TRUE, FALSE),
    Probe("costly", "D", 3, 110000, TRUE, TRUE),
    Probe("differential-count", "F", 2, 400, TRUE, FALSE)>>

Options(profile, hasKey, supported, named, maxRequests, maxTokens) ==
  [profile |-> profile, hasKey |-> hasKey, dilutionSupported |-> supported, optIn |-> named,
   maxRequests |-> maxRequests, maxTokens |-> maxTokens]

SomeOptions ==
  {Options(p, TRUE, TRUE, {}, profileDefinition[p].maxRequests, profileDefinition[p].maxTokens) :
     p \in {"quick", "standard", "deep"}}
    \union {Options("deep", TRUE, TRUE, {}, 600, 1150),
            Options("deep", TRUE, FALSE, {}, 600, 70000),
            Options("paranoid", FALSE, TRUE, {"costly"}, 600, 250000)}

Say1(id, calibration, changes) ==
  Signal(id, calibration, [f \in Findings |-> IF f \in DOMAIN changes THEN changes[f] ELSE 0])

Sayings(probe) ==
  CASE probe.id = "permissive-validator" ->
         {{}, {Say1("as-documented", "documented", [claim |-> 3, firstParty |-> 3])},
          {Say1("refused", "heuristic", [claim |-> -4, cheaper |-> 3, firstParty |-> -2])}}
    [] probe.id = "snapshot-echo" ->
         {{}, {Say1("cheaper-model", "documented", [claim |-> -8, cheaper |-> 8])}}
    [] probe.id = "anthropic-differential" ->
         {{}, {Say1("claimed-encoding", "derived", [claim |-> 2, other |-> -4])},
          {Say1("recorded", "measured", [claim |-> 20, cheaper |-> -10, other |-> -10])}}
    [] probe.id = "thinking-signature" ->
         {{}, {Say1("verified", "documented", [claim |-> 2, other |-> -5, canned |-> -5])},
          {[Say1("tamper-accepted", "documented", [claim |-> -10, other |-> 5, canned |-> 2])
              EXCEPT !.vetoes = {"claim", "cheaper"}]}}
    [] OTHER -> {{}}

(* The bound for what the results below leave open: one side at 95%, in thousandths. *)
Upper(x, n) ==
  CASE x = 0 /\ n = 30 -> 95
    [] x = 0 /\ n = 5  -> 451
    [] x = 1 /\ n = 31 -> 144
    [] x = 3 /\ n = 33 -> 219
    [] x = 4 /\ n = 14 -> 540
    [] x = 4 /\ n = 33 -> 256
    [] OTHER -> 1000

Result(disagreements, trials, lost) ==
  [disagreements |-> disagreements, trials |-> trials, lost |-> lost]
Results ==
  {Result(0, 30, 0), Result(0, 30, 3), Result(1, 30, 0), Result(3, 30, 1), Result(4, 30, 0),
   Result(15, 30, 0), Result(0, 29, 4), Result(0, 10, 4), Result(0, 5, 0), Result(0, 4, 1)}
=============================================================================
