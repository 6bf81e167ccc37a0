------------------------------- MODULE Verdict -------------------------------
(* From a plan to a headline (packages/core/src/scoring, and the loop of
   runner/run.ts that feeds it): the admitted probes run or are lost, one after
   the other, Group F last; what they said is pooled under the caps, read under
   the coverage ceiling and summed up in one word.

   Log10 ratios are in tenths, as the probes give them; shares and confidences
   are in thousandths.                                                          *)
EXTENDS Plan, Evidence, FiniteSetsExt, Functions

CONSTANTS
  Says(_),           \* what a probe may say: sets of signals
  DrawResults,       \* how Group F may end: [disagreements, trials, lost]
  exactUpper(_, _),  \* dispersion.ts: the binomial bound on the share that x of n leave open
  Pairings,          \* native, cross-protocol
  MaxSkips           \* bound: probes of one run that are admitted and do not finish

ASSUME SaysAssumption ==
  \A i \in Index : \A signals \in Says(PROBE_CATALOGUE[i]) :
    IsFiniteSet(signals) /\ signals \subseteq Signals

(* The draws are judged against what most of them read, so one at least agrees; a
   share is not more than the whole. *)
ASSUME DrawsAssumption ==
  \A eps \in DrawResults :
    /\ eps \in [disagreements : Nat, trials : Nat, lost : Nat]
    /\ eps.disagreements > 0 => eps.disagreements < eps.trials
    /\ exactUpper(eps.lost, eps.trials + eps.lost) \in 0 .. 1000

VARIABLES
  pairing,
  ended,      \* how each probe ended: "pending", "ran" or the reason it did not
  said,       \* what they said: [probe, group, signal]
  epsilon,    \* what Group F read, or Nothing
  over,       \* "cancelled" or "stopped" short of a report, else "no"
  report      \* what the buyer is told, or NoReport

runVars == <<pairing, ended, said, epsilon, over, report>>
vars == <<planVars, runVars>>

Nothing == [trials |-> None, disagreements |-> 0, lost |-> 0]
NoReport == [headline |-> "none"]

-----------------------------------------------------------------------------
(* aggregate.ts: signals into posteriors *)

IDENTITY_FINDINGS    == {"claim", "cheaper", "other", "canned", "unknown"}
PLATFORM_FINDINGS    == {"firstParty", "cloud", "unknown"}
TRANSLATION_FINDINGS == {"direct", "translated", "unknown"}

TIER_CAPS == [measured |-> 20, documented |-> 10, derived |-> 7, heuristic |-> 3]
HEURISTIC_FAMILY_CAP == 3
FAMILY_CAPS == [A |-> 15, B |-> 15, C |-> 20, D |-> 30, E |-> 7]   \* by the group that reports
VETO_LLR == -60

IDENTITY_PRIOR ==
  [f \in IDENTITY_FINDINGS |-> IF f = "unknown" THEN 300 ELSE 175]
PLATFORM_PRIOR == [f \in PLATFORM_FINDINGS |-> IF f = "unknown" THEN 300 ELSE 350]
TRANSLATION_PRIOR == [f \in TRANSLATION_FINDINGS |-> IF f = "unknown" THEN 300 ELSE 350]

clamp(value, limit) ==
  IF value > limit THEN limit ELSE IF value < -limit THEN -limit ELSE value

ratioOf(signal, finding) ==
  IF finding \notin Findings THEN 0
  ELSE clamp(signal.llr[finding], TIER_CAPS[signal.calibration])

familyLlr(members, family, finding) ==
  LET sum(set) == SumFunction([m \in set |-> ratioOf(m.signal, finding)])
      heuristic == {m \in members : m.signal.calibration = "heuristic"}
  IN  clamp(sum(members \ heuristic) + clamp(sum(heuristic), HEURISTIC_FAMILY_CAP),
            FAMILY_CAPS[family])

axisLlr(signals, findings) ==
  [f \in findings |->
     SumFunction([g \in {m.group : m \in signals} |->
                    familyLlr({m \in signals : m.group = g}, g, f)])]

vetoesOf(signals) == UNION {m.signal.vetoes : m \in signals}

heldAt(llr, findings) ==
  [f \in DOMAIN llr |-> IF f \in findings /\ llr[f] > VETO_LLR THEN VETO_LLR ELSE llr[f]]

identityLlr(signals) == heldAt(axisLlr(signals, IDENTITY_FINDINGS), vetoesOf(signals))
platformLlr(signals) == heldAt(axisLlr(signals, PLATFORM_FINDINGS), {})
translationLlr(signals, pair) ==
  heldAt(axisLlr(signals, TRANSLATION_FINDINGS), IF pair = "native" THEN {} ELSE {"direct"})

(* 10 to the power of minus so many tenths, in thousandths. *)
TENTHS ==
  <<1000, 794, 631, 501, 398, 316, 251, 200, 158, 126, 100, 79, 63, 50, 40, 32, 25, 20, 16,
    13, 10, 8, 6, 5, 4, 3, 3, 2, 2, 1, 1>>
power(tenths) == IF tenths < Len(TENTHS) THEN TENTHS[tenths + 1] ELSE 0

posteriorOf(prior, llr) ==
  LET top    == Max({llr[f] : f \in DOMAIN llr})
      weight == [f \in DOMAIN llr |-> prior[f] * power(top - llr[f])]
      total  == SumFunction(weight)
  IN  [f \in DOMAIN llr |-> (weight[f] * 1000) \div total]

(* The most probable of the candidates, by what decides it exactly: the ratio, and
   what the prior puts `unknown` ahead of a finding - log10 of .300/.175 on
   identity and of .30/.35 on the two others - in hundredths of a tenth. *)
IDENTITY_AHEAD == 234
PATH_AHEAD     == -67

rank(llr, f, ahead) == 100 * llr[f] + (IF f = "unknown" THEN ahead ELSE 0)
leadersOf(llr, candidates, ahead) ==
  {f \in candidates : \A g \in candidates : rank(llr, f, ahead) >= rank(llr, g, ahead)}
mostProbable(llr, candidates, ahead) ==
  LET leaders == leadersOf(llr, candidates, ahead)
  IN  IF Cardinality(leaders) = 1 THEN CHOOSE f \in leaders : TRUE ELSE "unknown"

-----------------------------------------------------------------------------
(* dispersion.ts: what the draws say *)

MIN_TRIALS == 5

consistencyOf(eps) ==
  IF eps.trials < MIN_TRIALS THEN "unknown"
  ELSE IF eps.disagreements > 0 /\ eps.disagreements < eps.trials THEN "fractional" ELSE "uniform"

minority(eps) ==
  IF 2 * eps.disagreements <= eps.trials THEN eps.disagreements
  ELSE eps.trials - eps.disagreements
halvedOnce(k) == 937   \* mutated form: one dissenting draw is enough
(* One less a half to the power of k. *)
HALVES == <<500, 750, 875, 937, 968, 984, 992, 996, 998>>
halved(k) == IF k <= Len(HALVES) THEN HALVES[k] ELSE 999

(* How far the reading is believed. *)
consistencyPosterior(eps) ==
  CASE consistencyOf(eps) = "unknown" -> 0
    [] consistencyOf(eps) = "uniform" -> 1000 - exactUpper(eps.lost, eps.trials + eps.lost) \div 2
    [] OTHER -> halved(minority(eps))

obstructsDraws(eps) == eps.trials # None /\ 10 * eps.lost > eps.trials + eps.lost

-----------------------------------------------------------------------------
(* ceiling.ts: the most a run may claim *)

NOT_EVIDENCE == {"not-applicable", "profile", "opt-in"}
GAP_REASONS  == SkipReasons \ NOT_EVIDENCE

(* How every recorded probe ended, the planner's records and the run's. *)
outcomes(p, e) ==
  [i \in {j \in Index : p[j] # "none"} |-> IF p[i] = "admitted" THEN e[i] ELSE p[i]]
applicable(out) == {i \in DOMAIN out : out[i] \notin NOT_EVIDENCE}

groupRan(out, group) ==
  LET here == {i \in applicable(out) : PROBE_CATALOGUE[i].group = group}
      ran  == {i \in here : out[i] = "ran"}
  IN  here # {} /\ 2 * Cardinality(ran) >= Cardinality(here)

gaps(out) == {i \in applicable(out) : out[i] \in GAP_REASONS}

coverage(out) ==
  LET b == groupRan(out, "B")
      c == groupRan(out, "C")
      d == groupRan(out, "D")
      level == IF ~b /\ ~c THEN 600 ELSE IF ~(b /\ c) THEN 750 ELSE 980
  IN  IF d \/ level <= 880 THEN level ELSE 880

\* Mutated form: the gaps are added.
ceilingWithGaps(out, signals, pair) ==
  coverage(out) + (IF applicable(out) = {} THEN 0
                   ELSE (200 * Cardinality(gaps(out))) \div Cardinality(applicable(out)))
ceilingFor(out, signals, pair) ==
  LET some == Cardinality(applicable(out))
      value == coverage(out)
                 - (IF pair = "cross-protocol" THEN 40 ELSE 0)
                 - (IF some = 0 THEN 0
                    ELSE (200 * Cardinality(gaps(out)) + some - 1) \div some)   \* rounded up
                 - (IF \E m \in signals : m.signal.calibration = "measured" THEN 0 ELSE 20)
  IN  IF value < 0 THEN 0 ELSE value

-----------------------------------------------------------------------------
(* assess.ts and assessment.ts: the reading, its confidence and the headline *)

(* In the order the mildest is named first. *)
ADVERSE == <<"cheaper", "other", "canned">>
adverse == {ADVERSE[i] : i \in 1 .. 3}

\* Mutated form: the mixture does not exclude the claim.
identityOfMixture(llr, consistency, vetoes) ==
  mostProbable(llr, IDENTITY_FINDINGS \ vetoes, IDENTITY_AHEAD)
identityOf(llr, consistency, vetoes) ==
  LET standing == adverse \ vetoes
      leaders  == leadersOf(llr, standing, IDENTITY_AHEAD)
      mildest  == CHOOSE i \in 1 .. 3 :
                    ADVERSE[i] \in leaders /\ \A j \in 1 .. i - 1 : ADVERSE[j] \notin leaders
      excluded == IF consistency = "fractional" THEN {"claim"} ELSE {}
  IN  IF "claim" \in vetoes
      THEN IF standing = {} THEN "unknown" ELSE ADVERSE[mildest]
      ELSE mostProbable(llr, IDENTITY_FINDINGS \ excluded, IDENTITY_AHEAD)

evidenceOf(out, eps) ==
  LET some == applicable(out)
      lost == {i \in some : out[i] = "endpoint-error"}
  IN  IF 10 * Cardinality(lost) > Cardinality(some) \/ obstructsDraws(eps) THEN "obstructed"
      ELSE IF \E i \in DOMAIN out : out[i] = "budget-exceeded" THEN "budget-limited"
      ELSE "sufficient"

rawConfidence(assessment, posterior, vetoes, eps) ==
  CASE assessment.consistency = "fractional" -> consistencyPosterior(eps)
    [] assessment.consistency # "fractional" /\ assessment.identity \in adverse ->
         IF "claim" \in vetoes THEN 1000 - posterior["claim"]
         ELSE posterior["cheaper"] + posterior["other"] + posterior["canned"]
    [] assessment.consistency # "fractional" /\ assessment.identity = "claim" ->
         IF assessment.consistency = "uniform"
         THEN (posterior["claim"] * consistencyPosterior(eps)) \div 1000
         ELSE posterior["claim"]
    [] OTHER -> posterior["unknown"]

MINIMUM_PASS_CONFIDENCE == 800
MINIMUM_FAIL_CONFIDENCE == 900

\* Mutated form: the draws are not asked.
verdictWithoutDraws(assessment, confidence) ==
  IF assessment.identity \in adverse \/ assessment.consistency = "fractional"
  THEN IF confidence >= MINIMUM_FAIL_CONFIDENCE THEN "fail" ELSE "caution"
  ELSE IF assessment.identity = "claim" /\ confidence >= MINIMUM_PASS_CONFIDENCE
       THEN "pass" ELSE "caution"
verdictFor(assessment, confidence) ==
  CASE assessment.identity \in adverse \/ assessment.consistency = "fractional" ->
         IF confidence >= MINIMUM_FAIL_CONFIDENCE THEN "fail" ELSE "caution"
    [] OTHER ->
         IF /\ assessment.evidence # "obstructed"
            /\ assessment.identity = "claim" /\ assessment.consistency = "uniform"
            /\ confidence >= MINIMUM_PASS_CONFIDENCE
         THEN "pass" ELSE "caution"

(* What the signals and the draws amount to, whatever was covered. *)
readingOf(signals, eps, pair) ==
  LET llr         == identityLlr(signals)
      vetoes      == vetoesOf(signals)
      consistency == consistencyOf(eps)
      assessment  ==
        [identity    |-> identityOf(llr, consistency, vetoes),
         consistency |-> consistency,
         platform    |-> mostProbable(platformLlr(signals), PLATFORM_FINDINGS, PATH_AHEAD),
         translation |-> mostProbable(translationLlr(signals, pair), TRANSLATION_FINDINGS,
                                      PATH_AHEAD)]
  IN  [assessment |-> assessment, confidence |->
         rawConfidence(assessment, posteriorOf(IDENTITY_PRIOR, llr), vetoes, eps)]

(* The same under the ceiling, with what the run covered. *)
reportOf(reading, out, signals, eps, pair) ==
  LET read       == reading.assessment
      assessment == [identity    |-> read.identity,
                     consistency |-> read.consistency,
                     platform    |-> read.platform,
                     translation |-> read.translation,
                     evidence    |-> evidenceOf(out, eps)]
      ceiling    == ceilingFor(out, signals, pair)
      confidence == IF reading.confidence <= ceiling THEN reading.confidence ELSE ceiling
  IN  [reading |-> reading, assessment |-> assessment, confidence |-> confidence,
       ceiling |-> ceiling, headline |-> verdictFor(assessment, confidence)]

assess(out, signals, eps, pair) ==
  reportOf(readingOf(signals, eps, pair), out, signals, eps, pair)

-----------------------------------------------------------------------------
(* The run *)

VerdictInit ==
  /\ Init
  /\ pairing \in Pairings
  /\ ended = [i \in Index |-> "pending"]
  /\ said = {} /\ epsilon = Nothing /\ over = "no"
  /\ report = NoReport

Left == {i \in Admitted : ended[i] = "pending"}
SkipCount == Cardinality({i \in Admitted : ended[i] \notin {"pending", "ran"}})

Plans == consider /\ UNCHANGED runVars

Settle(i, how) ==
  /\ ended' = [ended EXCEPT ![i] = how]
  /\ UNCHANGED <<planVars, pairing, over, report>>

(* A probe runs, and says something or nothing. *)
Runs ==
  /\ Planned /\ over = "no"
  /\ \E i \in ordered(Left) :
       /\ ~isDilutionProbe(i)
       /\ \E signals \in Says(PROBE_CATALOGUE[i]) :
            said' = said \union {[probe |-> i, group |-> PROBE_CATALOGUE[i].group, signal |-> s] :
                                  s \in signals}
       /\ Settle(i, "ran")
  /\ UNCHANGED epsilon

(* It has nothing to measure, the endpoint fails it, its budget ends, it is at
   fault itself, or the transport may not reach the target (`blocked`) or cannot
   keep the draws of Group F apart. *)
Skip ==
  /\ Planned /\ over = "no" /\ SkipCount < MaxSkips
  /\ \E i \in ordered(Left) :
       \E reason \in {"not-applicable", "endpoint-error", "budget-exceeded", "blocked",
                     "probe-error", "unsupported-by-transport"} :
         /\ reason = "unsupported-by-transport" => isDilutionProbe(i)
         /\ Settle(i, reason)
  /\ UNCHANGED <<said, epsilon>>

(* A draw that is lost, or excluded for a reused connection, is replaced as long as
   the allowance lasts; one exclusion more than that and there is no reading. *)
taken(result, excluded) == result.trials + result.lost + excluded
toTake(result, excluded) ==
  LET planned   == profileDefinition[options.profile].draws
      allowance == replacementAllowance(planned)
  IN  planned + (IF result.lost + excluded < allowance THEN result.lost + excluded ELSE allowance)
Excluded == 0 .. replacementAllowance(profileDefinition[options.profile].draws)

(* Group F runs until every planned draw and every replacement was taken, however
   many are lost, or until the budget ends it short of that. *)
Draws ==
  /\ Planned /\ over = "no"
  /\ \E i \in ordered(Left) :
       /\ isDilutionProbe(i)
       /\ \E result \in DrawResults, excluded \in Excluded, how \in {"ran", "budget-exceeded"} :
            /\ IF how = "ran" THEN taken(result, excluded) = toTake(result, excluded)
               ELSE taken(result, excluded) < toTake(result, excluded)
            /\ epsilon' = result
            /\ Settle(i, how)
  /\ UNCHANGED said

(* The buyer cancels, or the endpoint refuses the key: what is left never ran, and
   there is no report. *)
Ends ==
  /\ Planned /\ over = "no" /\ Left # {}
  /\ over' \in {"cancelled", "stopped"}
  /\ ended' = [i \in Index |-> IF i \in Left THEN "aborted" ELSE ended[i]]
  /\ UNCHANGED <<planVars, pairing, said, epsilon, report>>

(* The run came to its end: the report is written, once. *)
Report ==
  /\ Planned /\ Left = {} /\ over = "no" /\ report = NoReport
  /\ report' = assess(outcomes(plan, ended), said, epsilon, pairing)
  /\ UNCHANGED <<planVars, pairing, ended, said, epsilon, over>>

Next == Plans \/ Runs \/ Skip \/ Draws \/ Ends \/ Report

VerdictSpec == VerdictInit /\ [][Next]_vars

-----------------------------------------------------------------------------
(* Properties *)

(* Nothing is cleared that was not looked at (docs/scoring.md, Coverage ceiling and
   headline): a pass takes groups B and C both run, five or more draws that all
   agree, few of them and of the probes lost, and evidence for the claim eight times
   what `unknown` has and five times what any other model has; the quick profile
   never reaches it. *)
PassIsEarned ==
  report # NoReport =>
    LET out == outcomes(plan, ended)
        llr == identityLlr(said)
    IN  report.headline = "pass" =>
        /\ groupRan(out, "B") /\ groupRan(out, "C") /\ options.profile # "quick"
        /\ epsilon.trials >= MIN_TRIALS /\ epsilon.disagreements = 0
        /\ 10 * epsilon.lost <= epsilon.trials + epsilon.lost
        /\ 10 * Cardinality({i \in DOMAIN out : out[i] = "endpoint-error"})
             <= Cardinality(applicable(out))
        /\ llr["claim"] >= 9 /\ \A f \in adverse : llr["claim"] >= llr[f] + 7

(* Nobody is accused on a little: a fail takes groups B, C and D run, most of the
   probes that apply, and a mixture that at least four draws of each kind show, or
   a probe that rules the claim out, or evidence for what is named that is six
   times over what `unknown` has, four times over the claim and above every other
   accusation. *)
FailIsEarned ==
  report # NoReport /\ report.headline = "fail" =>
    LET out == outcomes(plan, ended)
        llr == identityLlr(said)
        f   == report.assessment.identity
    IN
      /\ \A g \in {"B", "C", "D"} : groupRan(out, g)
      /\ 200 * Cardinality(gaps(out)) <= 80 * Cardinality(applicable(out))
      /\ \/ epsilon.trials >= MIN_TRIALS /\ minority(epsilon) >= 4
         \/ "claim" \in vetoesOf(said)
         \/ /\ f \in adverse /\ llr[f] >= 8 /\ llr[f] >= llr["claim"] + 6
            /\ \A g \in adverse \ {f} : llr[f] > llr[g]

(* What a decisive probe rules out is not named, whatever else was said, and what
   is named under a mixture is never the claim (assess.ts `ruledOut`, `identityOf`;
   assessment.ts refuses such a reading outright). *)
RuledOutIsNotNamed ==
  report # NoReport =>
    LET assessment == report.assessment IN
      /\ assessment.identity \notin vetoesOf(said)
      /\ assessment.consistency = "fractional" => assessment.identity # "claim"

(* The headline is always computed: `verdictFor` throws at a confidence that is no
   share of one (and at the mixture RuledOutIsNotNamed excludes). *)
ConfidenceIsShare == report # NoReport => report.confidence \in 0 .. 1000

(* Losing a probe that said nothing only blurs the report: it never turns a caution
   into a verdict, nor raises the confidence (ceiling.ts, `evidenceOf`). *)
GapsOnlyBlur ==
  report # NoReport =>
    \A i \in Admitted :
      ended[i] = "ran" /\ ~isDilutionProbe(i) /\ (\A m \in said : m.probe # i) =>
        LET lost == reportOf(report.reading, outcomes(plan, [ended EXCEPT ![i] = "endpoint-error"]),
                             said, epsilon, pairing)
        IN  lost.headline \in {report.headline, "caution"} /\ lost.confidence <= report.confidence
=============================================================================
