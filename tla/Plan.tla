-------------------------------- MODULE Plan --------------------------------
(* The planner (packages/core/src/planner): which probes of the catalogue a run
   sends and in what order, under the profile's groups and the budget.  Each is
   considered once, in the catalogue's order, and admitted while what it declares
   to cost at most still fits. *)
EXTENDS Integers, Sequences, FiniteSets

CONSTANTS
  PROBE_CATALOGUE,   \* the probes, in priority order
  PlanOptions        \* what a run may be asked

ProbeGroups == {"A", "B", "C", "D", "E", "F"}
SkipReasons ==
  {"not-applicable", "needs-api-key", "budget-exceeded", "endpoint-error",
   "unsupported-by-transport", "blocked", "opt-in", "profile", "aborted", "probe-error"}

Index == 1 .. Len(PROBE_CATALOGUE)

DEFAULT_DRAWS == 30
replacementAllowance(draws) == draws \div 9

Definition(groups, draws, shuffle, maxRequests, maxTokens) ==
  [groups |-> groups, draws |-> draws, shuffle |-> shuffle,
   maxRequests |-> maxRequests, maxTokens |-> maxTokens]

profileDefinition ==
  [quick    |-> Definition({"A"}, 0, FALSE, 120, 5000),
   standard |-> Definition({"A", "B", "C", "F"}, DEFAULT_DRAWS, FALSE, 400, 40000),
   deep     |-> Definition(ProbeGroups, DEFAULT_DRAWS, FALSE, 600, 250000),
   paranoid |-> Definition(ProbeGroups, DEFAULT_DRAWS, TRUE, 600, 250000)]

PROFILES == {"quick", "standard", "deep", "paranoid"}

ASSUME CatalogueAssumption ==
  PROBE_CATALOGUE \in
    Seq([id : STRING, group : ProbeGroups, requests : Nat, tokens : Nat,
         needsKey : BOOLEAN, optIn : BOOLEAN, applies : BOOLEAN])

(* An absent limit is the profile's. *)
ASSUME OptionsAssumption ==
  PlanOptions \subseteq
    [profile : PROFILES, hasKey : BOOLEAN, dilutionSupported : BOOLEAN, optIn : SUBSET STRING,
     maxRequests : Nat, maxTokens : Nat]

VARIABLES
  options,    \* of this run
  at,         \* the probe to consider next
  requests,   \* what the admitted probes may send
  tokens,     \* and bill, together
  plan        \* "admitted", why not, or "none": no record

planVars == <<options, at, requests, tokens, plan>>

isDilutionProbe(i) == PROBE_CATALOGUE[i].group = "F"

(* A Group F probe declares one draw: it may take them all, their replacements
   and one preparation. *)
Times(i) ==
  LET draws == profileDefinition[options.profile].draws
  IN  IF isDilutionProbe(i) THEN draws + replacementAllowance(draws) + 1 ELSE 1
requestCost(i) == PROBE_CATALOGUE[i].requests * Times(i)
tokenCost(i)   == PROBE_CATALOGUE[i].tokens * Times(i)

applies(i) ==
  /\ PROBE_CATALOGUE[i].group \in profileDefinition[options.profile].groups
  /\ PROBE_CATALOGUE[i].applies

blockedBy(i) ==
  IF PROBE_CATALOGUE[i].optIn /\ PROBE_CATALOGUE[i].id \notin options.optIn THEN {"opt-in"}
  ELSE IF PROBE_CATALOGUE[i].needsKey /\ ~options.hasKey THEN {"needs-api-key"}
  ELSE IF isDilutionProbe(i) /\ ~options.dilutionSupported THEN {"unsupported-by-transport"}
  ELSE {}

fitsBefore(i) == requests <= options.maxRequests /\ tokens <= options.maxTokens  \* mutated form
fits(i) ==
  /\ requests + requestCost(i) <= options.maxRequests
  /\ tokens + tokenCost(i) <= options.maxTokens

Init ==
  /\ options \in PlanOptions
  /\ at = 1 /\ requests = 0 /\ tokens = 0
  /\ plan = [i \in Index |-> "none"]

Considering == at \in Index
Record(entry) ==
  /\ plan' = [plan EXCEPT ![at] = entry]
  /\ at' = at + 1
  /\ UNCHANGED options

(* Never evidence here: no record. *)
PassOver ==
  /\ Considering /\ ~applies(at)
  /\ Record("none")
  /\ UNCHANGED <<requests, tokens>>

(* Should run and cannot, whatever the budget. *)
Block ==
  /\ Considering /\ applies(at)
  /\ \E reason \in blockedBy(at) : Record(reason)
  /\ UNCHANGED <<requests, tokens>>

Refuse ==
  /\ Considering /\ applies(at) /\ blockedBy(at) = {} /\ ~fits(at)
  /\ Record("budget-exceeded")
  /\ UNCHANGED <<requests, tokens>>

Admit ==
  /\ Considering /\ applies(at) /\ blockedBy(at) = {} /\ fits(at)
  /\ requests' = requests + requestCost(at)
  /\ tokens' = tokens + tokenCost(at)
  /\ Record("admitted")

consider == PassOver \/ Block \/ Refuse \/ Admit

Planned == at > Len(PROBE_CATALOGUE)
Admitted == {i \in Index : plan[i] = "admitted"}

(* `ordered`: the next of what is left to run.  A shuffled run takes them in any
   order, Group F last in every case. *)
ordered(left) ==
  LET rest  == {i \in left : ~isDilutionProbe(i)}
      first == {i \in rest : profileDefinition[options.profile].shuffle
                               \/ \A j \in rest : i <= j}
  IN  IF rest = {} THEN left ELSE first

Spec == Init /\ [][consider]_planVars

-----------------------------------------------------------------------------
(* Properties *)

TypeOK ==
  /\ options \in PlanOptions
  /\ at \in 1 .. Len(PROBE_CATALOGUE) + 1
  /\ requests \in Nat /\ tokens \in Nat
  /\ plan \in [Index -> {"none", "admitted"} \union SkipReasons]

(* The admitted probes never cost more than the budget, and a probe left out for
   the budget is one the finished plan has no room for: nothing the planner does
   later makes the reason it reports untrue (`fits`, `consider`). *)
PlanFits == requests <= options.maxRequests /\ tokens <= options.maxTokens
LeftOutHasNoRoom ==
  \A i \in Index : plan[i] = "budget-exceeded" => ~fits(i)
NothingDropped ==
  \A i \in Index : i < at /\ applies(i) => plan[i] # "none"
PlanIsTight == PlanFits /\ LeftOutHasNoRoom /\ NothingDropped
=============================================================================
