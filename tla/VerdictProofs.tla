---------------------------- MODULE VerdictProofs ----------------------------
(* Proofs about the planner and about the headline, for every catalogue, every
   budget, everything the probes may say and every end of Group F. *)
EXTENDS Verdict, FiniteSetTheorems, NaturalsInduction, WellFoundedInduction, TLAPS

-----------------------------------------------------------------------------
(* Sums over finite sets *)

\* Induction over the natural numbers, for a set of them.
LEMMA NatSetInduction ==
  ASSUME NEW T \in SUBSET Nat, 0 \in T, \A n \in T : n + 1 \in T
  PROVE  T = Nat
<1> DEFINE less == OpToRel(<, Nat)
<1>1. IsWellFoundedOn(less, Nat)
  BY NatLessThanWellFounded
<1>2. \A m, n \in Nat : m < n => <<m, n>> \in less
  BY DEF OpToRel
<1> HIDE DEF less
<1> SUFFICES ASSUME Nat \ T # {} PROVE FALSE
  OBVIOUS
<1>3. PICK n \in Nat \ T : \A m \in Nat \ T : <<m, n>> \notin less
  <2>1. Nat \ T \subseteq Nat
    OBVIOUS
  <2> QED BY <1>1, <2>1, WFMin
<1>4. n \in Nat /\ n \notin T
  BY <1>3
<1>5. n # 0
  BY <1>4
<1>6. n - 1 \in Nat /\ n - 1 < n /\ (n - 1) + 1 = n
  BY <1>4, <1>5
<1>7. n - 1 \in T
  BY <1>2, <1>3, <1>4, <1>6
<1> QED BY <1>4, <1>6, <1>7

\* Induction over a finite set: what holds of the empty set, and of every set once it
\* holds of those with an element less, holds of all its subsets.
LEMMA SubsetInduction ==
  ASSUME NEW D, IsFiniteSet(D), NEW Q \in SUBSET SUBSET D, {} \in Q,
         \A s \in SUBSET D : s # {} /\ (\A x \in s : s \ {x} \in Q) => s \in Q
  PROVE  \A s \in SUBSET D : s \in Q
<1> DEFINE T == {n \in Nat : \A s \in SUBSET D : Cardinality(s) = n => s \in Q}
<1>0. \A s \in SUBSET D : IsFiniteSet(s) /\ Cardinality(s) \in Nat
  BY FS_Subset, FS_CardinalityType
<1>1. 0 \in T
  <2>1. \A s \in SUBSET D : Cardinality(s) = 0 => s = {}
    BY <1>0, FS_EmptySet
  <2> QED BY <2>1
<1>2. ASSUME NEW n \in T PROVE n + 1 \in T
  <2> SUFFICES ASSUME NEW s \in SUBSET D, Cardinality(s) = n + 1 PROVE s \in Q
    OBVIOUS
  <2>1. IsFiniteSet(s) /\ s # {}
    BY <1>0, FS_EmptySet
  <2>2. ASSUME NEW x \in s PROVE s \ {x} \in Q
    <3>1. Cardinality(s \ {x}) = Cardinality(s) - 1
      BY <2>1, FS_RemoveElement
    <3>2. Cardinality(s \ {x}) = n
      BY <3>1
    <3>3. s \ {x} \in SUBSET D
      OBVIOUS
    <3> QED BY <3>2, <3>3
  <2> QED BY <2>1, <2>2
<1>3. T = Nat
  <2> HIDE DEF T
  <2>1. T \in SUBSET Nat
    BY DEF T
  <2> QED BY <1>1, <1>2, <2>1, NatSetInduction
<1> QED BY <1>0, <1>3

\* One step of a sum: the element it takes next, and what is left.
PickOf(s) == CHOOSE x \in s : TRUE
SumStep(fun, g, s) == IF s = {} THEN 0 ELSE fun[PickOf(s)] + g[s \ {PickOf(s)}]

IsSummedUp(fun, D, g) ==
  /\ g \in [SUBSET D -> Int]
  /\ \A s \in SUBSET D : g[s] = SumStep(fun, g, s)

\* It may as well take any other element next.
InAnyOrder(fun, D, g) == \A s \in SUBSET D : \A x \in s : g[s] = fun[x] + g[s \ {x}]

\* The element a sum takes next is one of those left.
LEMMA PickIsElement ==
  ASSUME NEW s, s # {} PROVE PickOf(s) \in s
BY DEF PickOf

\* A recursive sum exists.
LEMMA SumExists ==
  ASSUME NEW fun, NEW D, IsFiniteSet(D), \A i \in D : fun[i] \in Int
  PROVE  \E g \in [SUBSET D -> Int] : \A s \in SUBSET D : g[s] = SumStep(fun, g, s)
<1> DEFINE T == {n \in Nat : \E g \in [SUBSET D -> Int] :
                      \A s \in SUBSET D : Cardinality(s) <= n => g[s] = SumStep(fun, g, s)}
<1>0. \A s \in SUBSET D : IsFiniteSet(s) /\ Cardinality(s) \in Nat
  BY FS_Subset, FS_CardinalityType
<1>s. ASSUME NEW s \in SUBSET D, s # {}
      PROVE  /\ PickOf(s) \in D
             /\ s \ {PickOf(s)} \in SUBSET D
             /\ Cardinality(s \ {PickOf(s)}) = Cardinality(s) - 1
  BY <1>s, <1>0, PickIsElement, FS_RemoveElement
<1>1. 0 \in T
  <2> DEFINE g == [s \in SUBSET D |-> 0]
  <2>1. g \in [SUBSET D -> Int]
    OBVIOUS
  <2>2. ASSUME NEW s \in SUBSET D, Cardinality(s) <= 0 PROVE g[s] = SumStep(fun, g, s)
    <3>1. s = {}
      BY <1>0, <2>2, FS_EmptySet
    <3> QED BY <3>1 DEF SumStep
  <2> HIDE DEF g
  <2> QED BY <2>1, <2>2
<1>2. ASSUME NEW n \in T PROVE n + 1 \in T
  <2>1. PICK g \in [SUBSET D -> Int] :
          \A s \in SUBSET D : Cardinality(s) <= n => g[s] = SumStep(fun, g, s)
    BY <1>2
  <2> DEFINE h == [s \in SUBSET D |-> IF Cardinality(s) <= n THEN g[s] ELSE SumStep(fun, g, s)]
  <2>2. ASSUME NEW s \in SUBSET D PROVE SumStep(fun, g, s) \in Int
    <3>1. CASE s = {}
      BY <3>1 DEF SumStep
    <3>2. CASE s # {}
      <4>1. fun[PickOf(s)] \in Int /\ g[s \ {PickOf(s)}] \in Int
        BY <3>2, <1>s
      <4> QED BY <3>2, <4>1 DEF SumStep
    <3> QED BY <3>1, <3>2
  <2>3. h \in [SUBSET D -> Int]
    BY <2>2
  <2>4. ASSUME NEW s \in SUBSET D, Cardinality(s) <= n + 1 PROVE h[s] = SumStep(fun, h, s)
    <3>1. h[s] = SumStep(fun, g, s)
      BY <2>1
    <3>2. SumStep(fun, g, s) = SumStep(fun, h, s)
      <4>1. CASE s = {}
        BY <4>1 DEF SumStep
      <4>2. CASE s # {}
        <5>1. Cardinality(s \ {PickOf(s)}) <= n
          BY <1>s, <1>0, <2>4, <4>2
        <5>2. h[s \ {PickOf(s)}] = g[s \ {PickOf(s)}]
          BY <5>1, <1>s, <4>2
        <5> HIDE DEF h
        <5> QED BY <5>2, <4>2 DEF SumStep
      <4> QED BY <4>1, <4>2
    <3> QED BY <3>1, <3>2
  <2>5. n + 1 \in Nat
    OBVIOUS
  <2> HIDE DEF h
  <2> QED BY <2>3, <2>4, <2>5
<1>3. T = Nat
  <2> HIDE DEF T
  <2>1. T \in SUBSET Nat
    BY DEF T
  <2> QED BY <1>1, <1>2, <2>1, NatSetInduction
<1>4. PICK g \in [SUBSET D -> Int] :
        \A s \in SUBSET D : Cardinality(s) <= Cardinality(D) => g[s] = SumStep(fun, g, s)
  BY <1>0, <1>3
<1>5. \A s \in SUBSET D : Cardinality(s) <= Cardinality(D)
  BY FS_Subset
<1> QED BY <1>4, <1>5

\* A sum taken one picked element at a time may be taken off in any order: by
\* induction on the set, since two elements can be exchanged.
LEMMA SumInAnyOrder ==
  ASSUME NEW fun, NEW D, IsFiniteSet(D), \A i \in D : fun[i] \in Int,
         NEW g, IsSummedUp(fun, D, g)
  PROVE  InAnyOrder(fun, D, g)
<1>0. g \in [SUBSET D -> Int] /\ \A s \in SUBSET D : g[s] = SumStep(fun, g, s)
  BY DEF IsSummedUp
<1> DEFINE Q == {s \in SUBSET D : \A x \in s : g[s] = fun[x] + g[s \ {x}]}
<1>1. {} \in Q
  OBVIOUS
<1>2. ASSUME NEW s \in SUBSET D, s # {}, \A x \in s : s \ {x} \in Q PROVE s \in Q
  <2> SUFFICES ASSUME NEW x \in s PROVE g[s] = fun[x] + g[s \ {x}]
    OBVIOUS
  <2> DEFINE y == PickOf(s)
  <2>1. y \in s
    BY <1>2, PickIsElement
  <2>2. g[s] = fun[y] + g[s \ {y}]
    BY <1>0, <1>2 DEF SumStep
  <2> HIDE DEF y
  <2>3. CASE x = y
    BY <2>2, <2>3
  <2>4. CASE x # y
    <3>1. g[s \ {y}] = fun[x] + g[(s \ {y}) \ {x}]
      BY <1>2, <2>1, <2>4
    <3>2. g[s \ {x}] = fun[y] + g[(s \ {x}) \ {y}]
      BY <1>2, <2>1, <2>4
    <3>3. (s \ {y}) \ {x} = (s \ {x}) \ {y}
      OBVIOUS
    <3>4. /\ (s \ {x}) \ {y} \in SUBSET D
          /\ g[(s \ {x}) \ {y}] \in Int /\ fun[x] \in Int /\ fun[y] \in Int
      BY <1>0, <2>1
    <3>5. fun[y] + (fun[x] + g[(s \ {x}) \ {y}]) = fun[x] + (fun[y] + g[(s \ {x}) \ {y}])
      BY <3>4
    <3>6. g[s] = fun[y] + (fun[x] + g[(s \ {x}) \ {y}])
      BY <2>2, <3>1, <3>3
    <3> QED BY <3>2, <3>5, <3>6
  <2> QED BY <2>3, <2>4
<1>3. Q \in SUBSET SUBSET D
  OBVIOUS
<1> HIDE DEF Q
<1>4. \A s \in SUBSET D : s \in Q
  BY <1>1, <1>2, <1>3, SubsetInduction
<1> QED BY <1>4 DEF Q, InAnyOrder

\* The sum of a function is such a sum.
LEMMA SumIsSum ==
  ASSUME NEW fun, IsFiniteSet(DOMAIN fun), \A i \in DOMAIN fun : fun[i] \in Int
  PROVE  \E g \in [SUBSET DOMAIN fun -> Int] :
           /\ g[{}] = 0
           /\ \A s \in SUBSET DOMAIN fun : \A x \in s : g[s] = fun[x] + g[s \ {x}]
           /\ SumFunction(fun) = g[DOMAIN fun]
<1> DEFINE D == DOMAIN fun
           iter == CHOOSE g : g = [s \in SUBSET D |-> SumStep(fun, g, s)]
<1>1. PICK g \in [SUBSET D -> Int] : \A s \in SUBSET D : g[s] = SumStep(fun, g, s)
  BY SumExists
<1>2. g = [s \in SUBSET D |-> SumStep(fun, g, s)]
  BY <1>1
<1>3. iter = [s \in SUBSET D |-> SumStep(fun, iter, s)]
  <2> HIDE DEF D
  <2> QED BY <1>2
<1>4. SumFunction(fun) = iter[D]
  BY DEF SumFunction, SumFunctionOnSet, FoldFunctionOnSet, MapThenFoldSet, SumStep, PickOf
<1> HIDE DEF iter
<1>5. \A s \in SUBSET D : iter[s] \in Int
  <2> DEFINE Q == {s \in SUBSET D : iter[s] \in Int}
  <2>1. {} \in Q
    BY <1>3 DEF SumStep
  <2>2. ASSUME NEW s \in SUBSET D, s # {}, \A x \in s : s \ {x} \in Q PROVE s \in Q
    <3>1. PickOf(s) \in s
      BY <2>2, PickIsElement
    <3>2. iter[s] = fun[PickOf(s)] + iter[s \ {PickOf(s)}]
      BY <1>3, <2>2 DEF SumStep
    <3> QED BY <2>2, <3>1, <3>2
  <2>3. Q \in SUBSET SUBSET D
    OBVIOUS
  <2> HIDE DEF Q
  <2>4. \A s \in SUBSET D : s \in Q
    BY <2>1, <2>2, <2>3, SubsetInduction
  <2> QED BY <2>4 DEF Q
<1>6. iter \in [SUBSET D -> Int]
  BY <1>3, <1>5
<1>7. \A s \in SUBSET D : iter[s] = SumStep(fun, iter, s)
  BY <1>3
<1>8. InAnyOrder(fun, D, iter)
  <2>1. IsFiniteSet(D) /\ \A i \in D : fun[i] \in Int
    OBVIOUS
  <2> HIDE DEF D
  <2>2. IsSummedUp(fun, D, iter)
    BY <1>6, <1>7 DEF IsSummedUp
  <2> HIDE DEF D
  <2>3. IsFiniteSet(D)
    BY <2>1
  <2>4. \A i \in D : fun[i] \in Int
    BY <2>1
  <2> QED BY <2>2, <2>3, <2>4, SumInAnyOrder
<1>9. iter[{}] = 0
  BY <1>7 DEF SumStep
<1> QED BY <1>4, <1>6, <1>8, <1>9 DEF InAnyOrder

\* Integers over a finite domain sum to an integer.
LEMMA SumType ==
  ASSUME NEW fun, IsFiniteSet(DOMAIN fun), \A i \in DOMAIN fun : fun[i] \in Int
  PROVE  SumFunction(fun) \in Int
<1>1. PICK g \in [SUBSET DOMAIN fun -> Int] : SumFunction(fun) = g[DOMAIN fun]
  BY SumIsSum
<1> QED BY <1>1

\* Nothing adds up to nothing.
LEMMA SumOfZeros ==
  ASSUME NEW fun, IsFiniteSet(DOMAIN fun), \A i \in DOMAIN fun : fun[i] = 0
  PROVE  SumFunction(fun) = 0
<1> DEFINE D == DOMAIN fun
<1>0. \A i \in D : fun[i] \in Int
  OBVIOUS
<1>1. PICK g \in [SUBSET DOMAIN fun -> Int] :
        /\ g[{}] = 0
        /\ \A s \in SUBSET DOMAIN fun : \A x \in s : g[s] = fun[x] + g[s \ {x}]
        /\ SumFunction(fun) = g[DOMAIN fun]
  BY <1>0, SumIsSum
<1> DEFINE Q == {s \in SUBSET D : g[s] = 0}
<1>2. {} \in Q
  BY <1>1
<1>3. ASSUME NEW s \in SUBSET D, s # {}, \A x \in s : s \ {x} \in Q PROVE s \in Q
  <2>1. PICK x \in s : TRUE
    BY <1>3
  <2>2. g[s] = fun[x] + g[s \ {x}] /\ fun[x] = 0 /\ g[s \ {x}] = 0
    BY <1>1, <1>3
  <2> QED BY <2>2
<1>4. Q \in SUBSET SUBSET D
  OBVIOUS
<1>5. D \in Q
  <2>1. IsFiniteSet(D) /\ D \in SUBSET D
    OBVIOUS
  <2> HIDE DEF Q, D
  <2> QED BY <1>2, <1>3, <1>4, <2>1, SubsetInduction
<1> QED BY <1>1, <1>5

\* The vocabularies are finite.
LEMMA IdentityFinite == IsFiniteSet(IDENTITY_FINDINGS)
<1>1. IsFiniteSet({"claim"})
  BY FS_Singleton
<1>2. IsFiniteSet({"claim", "cheaper"})
  <2>1. {"claim", "cheaper"} = {"claim"} \union {"cheaper"}
    OBVIOUS
  <2> QED BY <1>1, <2>1, FS_AddElement
<1>3. IsFiniteSet({"claim", "cheaper", "other"})
  <2>1. {"claim", "cheaper", "other"} = {"claim", "cheaper"} \union {"other"}
    OBVIOUS
  <2> QED BY <1>2, <2>1, FS_AddElement
<1>4. IsFiniteSet({"claim", "cheaper", "other", "canned"})
  <2>1. {"claim", "cheaper", "other", "canned"} = {"claim", "cheaper", "other"} \union {"canned"}
    OBVIOUS
  <2> QED BY <1>3, <2>1, FS_AddElement
<1>5. IDENTITY_FINDINGS = {"claim", "cheaper", "other", "canned"} \union {"unknown"}
  BY DEF IDENTITY_FINDINGS
<1> QED BY <1>4, <1>5, FS_AddElement

\* The sum over the findings of the identity axis.
LEMMA SumOverIdentity ==
  ASSUME NEW fun, DOMAIN fun = IDENTITY_FINDINGS, \A f \in IDENTITY_FINDINGS : fun[f] \in Int
  PROVE  SumFunction(fun) =
           fun["claim"] + fun["cheaper"] + fun["other"] + fun["canned"] + fun["unknown"]
<1>1. IsFiniteSet(IDENTITY_FINDINGS)
  BY IdentityFinite
<1>2. PICK g \in [SUBSET IDENTITY_FINDINGS -> Int] :
        /\ g[{}] = 0
        /\ \A s \in SUBSET IDENTITY_FINDINGS : \A x \in s : g[s] = fun[x] + g[s \ {x}]
        /\ SumFunction(fun) = g[IDENTITY_FINDINGS]
  BY <1>1, SumIsSum
<1> DEFINE S1 == {"cheaper", "other", "canned", "unknown"}
           S2 == {"other", "canned", "unknown"}
           S3 == {"canned", "unknown"}
           S4 == {"unknown"}
<1>3. /\ IDENTITY_FINDINGS \ {"claim"} = S1 /\ S1 \ {"cheaper"} = S2 /\ S2 \ {"other"} = S3
      /\ S3 \ {"canned"} = S4 /\ S4 \ {"unknown"} = {}
  BY DEF IDENTITY_FINDINGS
<1>4. /\ "claim" \in IDENTITY_FINDINGS /\ "cheaper" \in S1 /\ "other" \in S2 /\ "canned" \in S3
      /\ "unknown" \in S4
  BY DEF IDENTITY_FINDINGS
<1>5. /\ IDENTITY_FINDINGS \in SUBSET IDENTITY_FINDINGS /\ S1 \in SUBSET IDENTITY_FINDINGS
      /\ S2 \in SUBSET IDENTITY_FINDINGS /\ S3 \in SUBSET IDENTITY_FINDINGS
      /\ S4 \in SUBSET IDENTITY_FINDINGS
  BY DEF IDENTITY_FINDINGS
<1> HIDE DEF S1, S2, S3, S4
<1>0. \A s \in SUBSET IDENTITY_FINDINGS : \A x \in s : g[s] = fun[x] + g[s \ {x}]
  BY <1>2
<1>6. g[IDENTITY_FINDINGS] = fun["claim"] + g[S1]
  <2>1. g[IDENTITY_FINDINGS] = fun["claim"] + g[IDENTITY_FINDINGS \ {"claim"}]
    BY <1>0, <1>4, <1>5
  <2> QED BY <1>3, <2>1
<1>7. g[S1] = fun["cheaper"] + g[S2]
  <2>1. g[S1] = fun["cheaper"] + g[S1 \ {"cheaper"}]
    BY <1>0, <1>4, <1>5
  <2> QED BY <1>3, <2>1
<1>8. g[S2] = fun["other"] + g[S3]
  <2>1. g[S2] = fun["other"] + g[S2 \ {"other"}]
    BY <1>0, <1>4, <1>5
  <2> QED BY <1>3, <2>1
<1>9. g[S3] = fun["canned"] + g[S4]
  <2>1. g[S3] = fun["canned"] + g[S3 \ {"canned"}]
    BY <1>0, <1>4, <1>5
  <2> QED BY <1>3, <2>1
<1>10. g[S4] = fun["unknown"]
  <2>0. g[S4] = fun["unknown"] + g[S4 \ {"unknown"}]
    BY <1>0, <1>4, <1>5
  <2>1. g[S4] = fun["unknown"] + g[{}]
    BY <2>0, <1>3
  <2>2. fun["unknown"] \in Int
    BY DEF IDENTITY_FINDINGS
  <2> QED BY <1>2, <2>1, <2>2
<1>11. /\ fun["claim"] \in Int /\ fun["cheaper"] \in Int /\ fun["other"] \in Int
       /\ fun["canned"] \in Int /\ fun["unknown"] \in Int
  BY DEF IDENTITY_FINDINGS
<1> QED BY <1>2, <1>6, <1>7, <1>8, <1>9, <1>10, <1>11

-----------------------------------------------------------------------------
(* The planner *)

planSpecInv == TypeOK /\ PlanIsTight

\* A probe declares what the catalogue says, whichever it is.
LEMMA CatalogueType ==
  ASSUME NEW i \in Index
  PROVE  PROBE_CATALOGUE[i] \in
           [id : STRING, group : ProbeGroups, requests : Nat, tokens : Nat,
            needsKey : BOOLEAN, optIn : BOOLEAN, applies : BOOLEAN]
<1> DEFINE Probe == [id : STRING, group : ProbeGroups, requests : Nat, tokens : Nat,
                     needsKey : BOOLEAN, optIn : BOOLEAN, applies : BOOLEAN]
<1>1. PROBE_CATALOGUE \in Seq(Probe)
  BY CatalogueAssumption
<1> HIDE DEF Probe
<1>2. PROBE_CATALOGUE[i] \in Probe
  BY <1>1 DEF Index
<1> QED BY <1>2 DEF Probe

\* Every profile draws a natural number of times.
LEMMA DrawsType ==
  ASSUME NEW p \in PROFILES
  PROVE  profileDefinition[p].draws \in Nat
BY DEF PROFILES, profileDefinition, Definition, DEFAULT_DRAWS

\* What a probe may cost in a run is a natural number.
LEMMA CostType ==
  ASSUME options \in PlanOptions, NEW i \in Index
  PROVE  requestCost(i) \in Nat /\ tokenCost(i) \in Nat
<1>1. options.profile \in PROFILES
  BY OptionsAssumption
<1> DEFINE draws == profileDefinition[options.profile].draws
<1>2. draws \in Nat
  BY <1>1, DrawsType
<1>3. draws \div 9 \in Nat
  BY <1>2
<1>4. Times(i) \in Nat
  BY <1>2, <1>3 DEF Times, replacementAllowance
<1>5. PROBE_CATALOGUE[i].requests \in Nat /\ PROBE_CATALOGUE[i].tokens \in Nat
  BY CatalogueType
<1> HIDE DEF draws
<1>6. \A a, b \in Nat : a * b \in Nat
  OBVIOUS
<1> QED BY <1>4, <1>5, <1>6 DEF requestCost, tokenCost

\* The limits of a run are natural numbers.
LEMMA LimitsType ==
  ASSUME options \in PlanOptions
  PROVE  options.maxRequests \in Nat /\ options.maxTokens \in Nat
BY OptionsAssumption

\* A plan starts with nothing considered.
LEMMA InitPlan == Init => planSpecInv
<1> SUFFICES ASSUME Init PROVE planSpecInv
  OBVIOUS
<1>1. Len(PROBE_CATALOGUE) \in Nat
  BY CatalogueAssumption
<1>2. TypeOK
  BY <1>1 DEF Init, TypeOK
<1>3. PlanFits
  BY LimitsType DEF Init, PlanFits
<1>4. LeftOutHasNoRoom /\ NothingDropped
  BY <1>1 DEF Init, LeftOutHasNoRoom, NothingDropped, Index
<1> QED BY <1>2, <1>3, <1>4 DEF planSpecInv, PlanIsTight

\* A step considers one probe: it spends nothing unless it admits, then what the
\* probe may cost; it records it, and leaves the records before it alone.
StepOf(entry) ==
  /\ at \in Index
  /\ plan' = [plan EXCEPT ![at] = entry]
  /\ at' = at + 1 /\ options' = options
  /\ entry = "none" => ~applies(at)
  /\ entry = "budget-exceeded" => ~fits(at)
  /\ \/ entry # "admitted" /\ requests' = requests /\ tokens' = tokens
     \/ /\ entry = "admitted" /\ fits(at)
        /\ requests' = requests + requestCost(at) /\ tokens' = tokens + tokenCost(at)

\* Every way to consider a probe is such a step.
LEMMA ConsiderSteps ==
  ASSUME consider
  PROVE  \E entry \in {"none", "admitted"} \union SkipReasons : StepOf(entry)
<1>1. CASE PassOver
  <2>1. StepOf("none")
    BY <1>1 DEF PassOver, Considering, Record, StepOf
  <2> QED BY <2>1
<1>2. CASE Block
  <2>1. PICK reason \in blockedBy(at) : Record(reason)
    BY <1>2 DEF Block
  <2>2. reason \in SkipReasons /\ reason # "none" /\ reason # "admitted" /\ reason # "budget-exceeded"
    BY <2>1 DEF blockedBy, SkipReasons
  <2> QED BY <1>2, <2>1, <2>2 DEF Block, Considering, Record, StepOf
<1>3. CASE Refuse
  BY <1>3 DEF Refuse, Considering, Record, StepOf, SkipReasons
<1>4. CASE Admit
  BY <1>4 DEF Admit, Considering, Record, StepOf
<1> QED BY <1>1, <1>2, <1>3, <1>4 DEF consider

\* Such a step keeps the plan tight.
LEMMA StepKeeps ==
  ASSUME planSpecInv, NEW entry \in {"none", "admitted"} \union SkipReasons, StepOf(entry)
  PROVE  planSpecInv'
<1>1. /\ options \in PlanOptions /\ at \in Index /\ at' = at + 1 /\ options' = options
      /\ requests \in Nat /\ tokens \in Nat
      /\ plan \in [Index -> {"none", "admitted"} \union SkipReasons]
      /\ plan' = [plan EXCEPT ![at] = entry]
  BY DEF planSpecInv, TypeOK, StepOf
<1>2. Len(PROBE_CATALOGUE) \in Nat
  BY CatalogueAssumption
<1>3. \A i \in Index : requestCost(i) \in Nat /\ tokenCost(i) \in Nat
  BY <1>1, CostType
<1>4. options.maxRequests \in Nat /\ options.maxTokens \in Nat
  BY <1>1, LimitsType
<1>5. \A i : requestCost(i)' = requestCost(i) /\ tokenCost(i)' = tokenCost(i) /\ applies(i)' = applies(i)
  BY <1>1 DEF requestCost, tokenCost, Times, applies
<1>6. requests' \in Nat /\ tokens' \in Nat /\ requests' >= requests /\ tokens' >= tokens
  BY <1>1, <1>3 DEF StepOf
<1>7. TypeOK'
  <2>1. at' \in 1 .. Len(PROBE_CATALOGUE) + 1
    BY <1>1, <1>2 DEF Index
  <2> QED BY <1>1, <1>6, <2>1 DEF TypeOK
<1>8. PlanFits'
  <2>1. PlanFits
    BY DEF planSpecInv, PlanIsTight
  <2>2. CASE entry # "admitted"
    BY <1>1, <2>1, <2>2 DEF StepOf, PlanFits
  <2>3. CASE entry = "admitted"
    BY <1>1, <2>3 DEF StepOf, fits, PlanFits
  <2> QED BY <2>2, <2>3
<1>9. \A i \in Index : fits(i)' => fits(i)
  <2> SUFFICES ASSUME NEW i \in Index, fits(i)' PROVE fits(i)
    OBVIOUS
  <2>1. requests' + requestCost(i) <= options.maxRequests /\ tokens' + tokenCost(i) <= options.maxTokens
    BY <1>1, <1>5 DEF fits
  <2> QED BY <1>1, <1>3, <1>4, <1>6, <2>1 DEF fits
<1>10. LeftOutHasNoRoom'
  <2> SUFFICES ASSUME NEW i \in Index, plan'[i] = "budget-exceeded" PROVE ~fits(i)'
    BY DEF LeftOutHasNoRoom
  <2>1. CASE i = at
    BY <1>1, <1>9, <2>1 DEF StepOf
  <2>2. CASE i # at
    BY <1>1, <1>9, <2>2 DEF planSpecInv, PlanIsTight, LeftOutHasNoRoom
  <2> QED BY <2>1, <2>2
<1>11. NothingDropped'
  <2> SUFFICES ASSUME NEW i \in Index, i < at', applies(i)' PROVE plan'[i] # "none"
    BY DEF NothingDropped
  <2>0. applies(i)
    BY <1>5
  <2>1. CASE i = at
    BY <1>1, <2>0, <2>1 DEF StepOf
  <2>2. CASE i # at
    <3>1. i < at
      BY <1>1, <2>2 DEF Index
    <3> QED BY <1>1, <2>0, <2>2, <3>1 DEF planSpecInv, PlanIsTight, NothingDropped
  <2> QED BY <2>1, <2>2
<1> QED BY <1>7, <1>8, <1>10, <1>11 DEF planSpecInv, PlanIsTight

\* The invariant is inductive.
LEMMA SpecPlan == Spec => []planSpecInv
<1>1. planSpecInv /\ [consider]_planVars => planSpecInv'
  <2>1. CASE consider
    BY <2>1, ConsiderSteps, StepKeeps
  <2>2. CASE UNCHANGED planVars
    BY <2>2 DEF planVars, planSpecInv, TypeOK, PlanIsTight, PlanFits, LeftOutHasNoRoom,
         NothingDropped, fits, applies, requestCost, tokenCost, Times
  <2> QED BY <2>1, <2>2
<1> QED BY <1>1, InitPlan, PTL DEF Spec

-----------------------------------------------------------------------------
\* Every variable of the planner keeps its type.
THEOREM PlanTypes == Spec => []TypeOK
BY SpecPlan, PTL DEF planSpecInv

\* For every catalogue, profile and budget: the plan fits the budget, records every
\* probe that applies, and what it left out for the budget still has no room in it.
THEOREM PlansAreTight == Spec => []PlanIsTight
BY SpecPlan, PTL DEF planSpecInv

-----------------------------------------------------------------------------
(* Numbers *)

\* What a quotient reaches, its divisor fits into.
LEMMA QuotientReaches ==
  ASSUME NEW a \in Nat, NEW b \in Nat, b > 0, NEW n \in Nat, a \div b >= n
  PROVE  n * b <= a
<1>1. b * (a \div b) <= a /\ a \div b \in Nat
  OBVIOUS
<1> DEFINE q == a \div b
<1>2. q \in Nat /\ q >= n /\ b * q <= a
  BY <1>1
<1> HIDE DEF q
<1>3. b * n <= b * q
  BY <1>2
<1>4. n * b = b * n /\ b * n \in Int /\ b * q \in Int
  BY <1>2
<1> QED BY <1>2, <1>3, <1>4

\* What fits into n divisors has a quotient of at most n.
LEMMA QuotientStays ==
  ASSUME NEW a \in Nat, NEW b \in Nat, b > 0, NEW n \in Nat, a <= n * b
  PROVE  a \div b \in 0 .. n
<1> DEFINE q == a \div b
<1>1. b * q <= a /\ q \in Nat
  OBVIOUS
<1> HIDE DEF q
<1>2. n * b \in Nat /\ b * q \in Nat /\ b * q <= n * b
  BY <1>1
<1>3. ASSUME q > n PROVE FALSE
  <2>1. q >= n + 1
    BY <1>1, <1>3
  <2>2. b * q >= b * (n + 1)
    BY <1>1, <2>1
  <2>3. b * (n + 1) = b * n + b /\ n * b = b * n /\ b * n \in Nat
    OBVIOUS
  <2> QED BY <1>2, <2>2, <2>3
<1> QED BY <1>1, <1>3 DEF q

\* The powers of ten fall, and this is how fast at the first of them.
LEMMA PowerTable ==
  ASSUME NEW t \in Nat
  PROVE  /\ power(t) \in Nat /\ power(t) <= 1000
         /\ t = 0 => power(t) = 1000
         /\ t >= 1 => power(t) <= 794
         /\ t <= 5 => power(t) >= 316
         /\ t <= 6 => power(t) >= 251
         /\ t <= 7 => power(t) >= 200
         /\ t <= 8 => power(t) >= 158
<1>1. Len(TENTHS) = 31
  BY DEF TENTHS
<1>2. CASE t >= 31
  BY <1>1, <1>2 DEF power
<1>3. CASE t < 31
  <2>1. power(t) = TENTHS[t + 1]
    BY <1>1, <1>3 DEF power
  <2>2. CASE t <= 8
    <3>1. t \in {0, 1, 2, 3, 4, 5, 6, 7, 8}
      BY <2>2
    <3> QED BY <2>1, <3>1, SMTT(40) DEF TENTHS
  <2>3. CASE t \in 9 .. 30
    <3>1. \A n \in 10 .. 31 : TENTHS[n] \in 0 .. 126
      BY SMTT(40) DEF TENTHS
    <3>2. t + 1 \in 10 .. 31
      BY <2>3
    <3>3. power(t) \in 0 .. 126
      BY <2>1, <3>1, <3>2
    <3> QED BY <2>3, <3>3
  <2> QED BY <1>3, <2>2, <2>3
<1> QED BY <1>2, <1>3

-----------------------------------------------------------------------------
(* What the signals add up to *)

Said == [probe : Index, group : ProbeGroups \ {"F"}, signal : Signals]
Heard(signals) == IsFiniteSet(signals) /\ signals \subseteq Said

\* There are finitely many groups of probes.
LEMMA GroupsFinite == IsFiniteSet(ProbeGroups)
<1>1. IsFiniteSet({"A"})
  BY FS_Singleton
<1>2. IsFiniteSet({"A"} \union {"B"})
  BY <1>1, FS_AddElement
<1>3. IsFiniteSet({"A"} \union {"B"} \union {"C"})
  BY <1>2, FS_AddElement
<1>4. IsFiniteSet({"A"} \union {"B"} \union {"C"} \union {"D"})
  BY <1>3, FS_AddElement
<1>5. IsFiniteSet({"A"} \union {"B"} \union {"C"} \union {"D"} \union {"E"})
  BY <1>4, FS_AddElement
<1>6. ProbeGroups = {"A"} \union {"B"} \union {"C"} \union {"D"} \union {"E"} \union {"F"}
  BY DEF ProbeGroups
<1> QED BY <1>5, <1>6, FS_AddElement

\* A signal weighs nothing on a finding it does not name, `unknown` above all.
LEMMA RatioType ==
  ASSUME NEW signal \in Signals, NEW finding
  PROVE  ratioOf(signal, finding) \in Int /\ (finding \notin Findings => ratioOf(signal, finding) = 0)
<1>1. CASE finding \notin Findings
  BY <1>1 DEF ratioOf
<1>2. CASE finding \in Findings
  <2>1. signal.llr[finding] \in Int
    BY <1>2 DEF Signals, SignalsWith, MAX_SIGNAL_LLR
  <2>2. TIER_CAPS[signal.calibration] \in Nat
    BY DEF Signals, SignalsWith, Calibrations, TIER_CAPS
  <2>3. clamp(signal.llr[finding], TIER_CAPS[signal.calibration]) \in Int
    BY <2>1, <2>2 DEF clamp
  <2> QED BY <1>2, <2>3 DEF ratioOf
<1> QED BY <1>1, <1>2

RatioSum(set, finding) == SumFunction([m \in set |-> ratioOf(m.signal, finding)])

\* What a set of signals says of one finding, summed, is an integer, and 0 for what no
\* signal speaks of.
LEMMA RatioSumType ==
  ASSUME NEW set, Heard(set), NEW finding
  PROVE  RatioSum(set, finding) \in Int /\ (finding \notin Findings => RatioSum(set, finding) = 0)
<1> DEFINE fun == [m \in set |-> ratioOf(m.signal, finding)]
<1>1. IsFiniteSet(DOMAIN fun)
  BY DEF Heard
<1>2. \A m \in DOMAIN fun : fun[m] = ratioOf(m.signal, finding) /\ m.signal \in Signals
  BY DEF Heard, Said
<1>3. \A m \in DOMAIN fun : fun[m] \in Int /\ (finding \notin Findings => fun[m] = 0)
  BY <1>2, RatioType
<1>4. RatioSum(set, finding) = SumFunction(fun)
  BY DEF RatioSum
<1> HIDE DEF fun
<1>5. SumFunction(fun) \in Int
  BY <1>1, <1>3, SumType
<1>6. finding \notin Findings => SumFunction(fun) = 0
  BY <1>1, <1>3, SumOfZeros
<1> QED BY <1>4, <1>5, <1>6

\* So is one family's contribution, capped or not.
LEMMA FamilyType ==
  ASSUME NEW members, Heard(members), NEW family \in ProbeGroups \ {"F"}, NEW finding
  PROVE  /\ familyLlr(members, family, finding) \in Int
         /\ finding \notin Findings => familyLlr(members, family, finding) = 0
<1> DEFINE heuristic == {m \in members : m.signal.calibration = "heuristic"}
           rest == members \ heuristic
           cap == FAMILY_CAPS[family]
           pooled == RatioSum(rest, finding) + clamp(RatioSum(heuristic, finding), HEURISTIC_FAMILY_CAP)
<1>1. Heard(heuristic) /\ Heard(rest)
  BY FS_Subset DEF Heard
<1>2. cap \in Nat
  BY DEF FAMILY_CAPS, ProbeGroups
<1>3. familyLlr(members, family, finding) = clamp(pooled, cap)
  BY DEF familyLlr, RatioSum
<1> HIDE DEF heuristic, rest, cap
<1>4. RatioSum(rest, finding) \in Int /\ RatioSum(heuristic, finding) \in Int
  BY <1>1, RatioSumType
<1>5. pooled \in Int
  BY <1>4 DEF clamp, HEURISTIC_FAMILY_CAP
<1>6. finding \notin Findings => pooled = 0
  <2>1. finding \notin Findings => RatioSum(rest, finding) = 0 /\ RatioSum(heuristic, finding) = 0
    BY <1>1, RatioSumType
  <2> QED BY <2>1 DEF clamp, HEURISTIC_FAMILY_CAP
<1> HIDE DEF pooled
<1>7. clamp(pooled, cap) \in Int
  BY <1>2, <1>5 DEF clamp
<1>8. pooled = 0 => clamp(pooled, cap) = 0
  BY <1>2 DEF clamp
<1> QED BY <1>3, <1>6, <1>7, <1>8

\* Each finding of an axis gets a number, and `unknown` gets none of it.
LEMMA AxisType ==
  ASSUME NEW signals, Heard(signals), NEW findings
  PROVE  /\ axisLlr(signals, findings) \in [findings -> Int]
         /\ \A f \in findings : f \notin Findings => axisLlr(signals, findings)[f] = 0
<1>1. ASSUME NEW f \in findings
      PROVE  axisLlr(signals, findings)[f] \in Int
               /\ (f \notin Findings => axisLlr(signals, findings)[f] = 0)
  <2> DEFINE groups == {m.group : m \in signals}
             in(g) == {m \in signals : m.group = g}
             fun == [g \in groups |-> familyLlr(in(g), g, f)]
  <2>1. groups \subseteq ProbeGroups \ {"F"}
    BY DEF Heard, Said
  <2>2. IsFiniteSet(groups)
    <3> HIDE DEF groups
    <3>1. groups \subseteq ProbeGroups
      BY <2>1
    <3> QED BY <3>1, GroupsFinite, FS_Subset
  <2>3. \A g : Heard(in(g))
    BY FS_Subset DEF Heard
  <2>4. axisLlr(signals, findings)[f] = SumFunction(fun)
    BY DEF axisLlr
  <2> HIDE DEF groups, in
  <2>5. \A g \in DOMAIN fun : fun[g] \in Int /\ (f \notin Findings => fun[g] = 0)
    BY <2>1, <2>3, FamilyType
  <2>6. IsFiniteSet(DOMAIN fun)
    BY <2>2
  <2> HIDE DEF fun
  <2>7. SumFunction(fun) \in Int
    BY <2>5, <2>6, SumType
  <2>8. f \notin Findings => SumFunction(fun) = 0
    BY <2>5, <2>6, SumOfZeros
  <2> QED BY <2>4, <2>7, <2>8
<1>2. axisLlr(signals, findings) = [f \in findings |-> axisLlr(signals, findings)[f]]
  BY DEF axisLlr
<1> QED BY <1>1, <1>2

\* What is ruled out is held down, and nothing else is moved.
LEMMA HeldType ==
  ASSUME NEW D, NEW llr \in [D -> Int], NEW findings
  PROVE  /\ heldAt(llr, findings) \in [D -> Int]
         /\ \A f \in D : f \in findings => heldAt(llr, findings)[f] <= VETO_LLR
         /\ \A f \in D : f \notin findings => heldAt(llr, findings)[f] = llr[f]
<1>1. VETO_LLR \in Int
  BY DEF VETO_LLR
<1> QED BY <1>1 DEF heldAt

\* The ratios of the identity axis: `unknown` stays at nothing, and what a probe
\* rules out is far below it.
LEMMA IdentityType ==
  ASSUME NEW signals, Heard(signals)
  PROVE  /\ identityLlr(signals) \in [IDENTITY_FINDINGS -> Int]
         /\ identityLlr(signals)["unknown"] = 0
         /\ vetoesOf(signals) \subseteq Identity
         /\ \A f \in vetoesOf(signals) : identityLlr(signals)[f] <= -60
<1> DEFINE llr == axisLlr(signals, IDENTITY_FINDINGS)
           vetoes == vetoesOf(signals)
<1>1. llr \in [IDENTITY_FINDINGS -> Int] /\ llr["unknown"] = 0
  <2>1. "unknown" \in IDENTITY_FINDINGS /\ "unknown" \notin Findings
    BY DEF IDENTITY_FINDINGS, Findings
  <2> QED BY <2>1, AxisType
<1>2. vetoes \subseteq Identity
  BY DEF vetoesOf, Heard, Said, Signals, SignalsWith
<1>3. identityLlr(signals) = heldAt(llr, vetoes)
  BY DEF identityLlr
<1>4. Identity \subseteq IDENTITY_FINDINGS /\ "unknown" \notin Identity /\ "unknown" \in IDENTITY_FINDINGS
  BY DEF Identity, IDENTITY_FINDINGS
<1> HIDE DEF llr, vetoes
<1>5. /\ heldAt(llr, vetoes) \in [IDENTITY_FINDINGS -> Int]
      /\ \A f \in vetoes : heldAt(llr, vetoes)[f] <= VETO_LLR
      /\ heldAt(llr, vetoes)["unknown"] = llr["unknown"]
  BY <1>1, <1>2, <1>4, HeldType
<1> QED BY <1>1, <1>2, <1>3, <1>5 DEF VETO_LLR, vetoes

-----------------------------------------------------------------------------
(* The posterior of the identity axis *)

Llrs == [IDENTITY_FINDINGS -> Int]
Top(llr) == Max({llr[f] : f \in DOMAIN llr})
Weight(llr, f) == IDENTITY_PRIOR[f] * power(Top(llr) - llr[f])
Total(llr) ==
  Weight(llr, "claim") + Weight(llr, "cheaper") + Weight(llr, "other") + Weight(llr, "canned")
    + Weight(llr, "unknown")

\* The best ratio among the identity findings is one of theirs and bounds them all.
LEMMA TopType ==
  ASSUME NEW llr \in Llrs
  PROVE  /\ Top(llr) \in Int
         /\ \A f \in IDENTITY_FINDINGS : llr[f] <= Top(llr)
         /\ \E f \in IDENTITY_FINDINGS : llr[f] = Top(llr)
<1> DEFINE values == {llr[f] : f \in DOMAIN llr}
<1>0. DOMAIN llr = IDENTITY_FINDINGS /\ \A f \in IDENTITY_FINDINGS : llr[f] \in Int
  BY DEF Llrs
<1>1. \E f \in IDENTITY_FINDINGS : \A g \in IDENTITY_FINDINGS : llr[f] >= llr[g]
  <2>1. \A a, b, c, d, e \in Int :
           \/ a >= b /\ a >= c /\ a >= d /\ a >= e
           \/ b >= a /\ b >= c /\ b >= d /\ b >= e
           \/ c >= a /\ c >= b /\ c >= d /\ c >= e
           \/ d >= a /\ d >= b /\ d >= c /\ d >= e
           \/ e >= a /\ e >= b /\ e >= c /\ e >= d
    OBVIOUS
  <2> QED BY <1>0, <2>1 DEF IDENTITY_FINDINGS
<1>2. \E x \in values : \A y \in values : x >= y
  BY <1>0, <1>1
<1>3. Top(llr) \in values /\ \A y \in values : Top(llr) >= y
  BY <1>2 DEF Top, Max
<1> QED BY <1>0, <1>3

\* No weight is negative, and at the top is the whole prior.
LEMMA WeightType ==
  ASSUME NEW llr \in Llrs, NEW f \in IDENTITY_FINDINGS
  PROVE  /\ Top(llr) - llr[f] \in Nat
         /\ Weight(llr, f) \in Nat
         /\ Weight(llr, f) = (IF f = "unknown" THEN 300 ELSE 175) * power(Top(llr) - llr[f])
         /\ llr[f] = Top(llr) => Weight(llr, f) >= 175000
<1>1. Top(llr) - llr[f] \in Nat
  <2>1. Top(llr) \in Int /\ llr[f] <= Top(llr) /\ llr[f] \in Int
    BY TopType DEF Llrs
  <2> QED BY <2>1
<1>2. /\ power(Top(llr) - llr[f]) \in Nat
      /\ Top(llr) - llr[f] = 0 => power(Top(llr) - llr[f]) = 1000
  BY <1>1, PowerTable, SMTT(30)
<1>3. Weight(llr, f) = (IF f = "unknown" THEN 300 ELSE 175) * power(Top(llr) - llr[f])
  BY DEF Weight, IDENTITY_PRIOR
<1>4. llr[f] = Top(llr) => Top(llr) - llr[f] = 0
  BY TopType
<1> DEFINE p == power(Top(llr) - llr[f])
           prior == IF f = "unknown" THEN 300 ELSE 175
<1>5. p \in Nat /\ prior \in {300, 175} /\ (llr[f] = Top(llr) => p = 1000)
  BY <1>2, <1>4
<1>6. Weight(llr, f) = prior * p
  BY <1>3
<1>7. \A n \in Nat : /\ 300 * n \in Nat /\ 175 * n \in Nat
                     /\ n = 1000 => 300 * n >= 175000 /\ 175 * n >= 175000
  OBVIOUS
<1>8. Weight(llr, f) \in Nat /\ (llr[f] = Top(llr) => Weight(llr, f) >= 175000)
  <2> HIDE DEF p, prior
  <2> QED BY <1>5, <1>6, <1>7
<1> QED BY <1>1, <1>3, <1>8

\* The weights sum to a positive number: the one at the top alone weighs 175000.
LEMMA TotalType ==
  ASSUME NEW llr \in Llrs
  PROVE  Total(llr) \in Nat /\ Total(llr) >= 175000
<1>1. PICK f \in IDENTITY_FINDINGS : llr[f] = Top(llr)
  BY TopType
<1>2. Weight(llr, f) >= 175000
  BY <1>1, WeightType
<1>3. \A g \in IDENTITY_FINDINGS : Weight(llr, g) \in Nat
  BY WeightType
<1>4. f \in {"claim", "cheaper", "other", "canned", "unknown"}
  BY <1>1 DEF IDENTITY_FINDINGS
<1>5. /\ Weight(llr, "claim") \in Nat /\ Weight(llr, "cheaper") \in Nat
      /\ Weight(llr, "other") \in Nat /\ Weight(llr, "canned") \in Nat
      /\ Weight(llr, "unknown") \in Nat
  BY <1>3 DEF IDENTITY_FINDINGS
<1> QED BY <1>2, <1>4, <1>5 DEF Total

\* What a finding keeps of the whole.
LEMMA PosteriorIs ==
  ASSUME NEW llr \in Llrs
  PROVE  \A f \in IDENTITY_FINDINGS :
           posteriorOf(IDENTITY_PRIOR, llr)[f] = (Weight(llr, f) * 1000) \div Total(llr)
<1> DEFINE weight == [f \in DOMAIN llr |-> IDENTITY_PRIOR[f] * power(Top(llr) - llr[f])]
<1>0. DOMAIN llr = IDENTITY_FINDINGS
  BY DEF Llrs
<1>1. posteriorOf(IDENTITY_PRIOR, llr) = [f \in DOMAIN llr |-> (weight[f] * 1000) \div SumFunction(weight)]
  BY DEF posteriorOf, Top
<1>2. DOMAIN weight = IDENTITY_FINDINGS /\ \A f \in IDENTITY_FINDINGS : weight[f] = Weight(llr, f)
  BY <1>0 DEF Weight
<1> HIDE DEF weight
<1>3. \A f \in IDENTITY_FINDINGS : weight[f] \in Int
  BY <1>2, WeightType
<1>4. SumFunction(weight) = Total(llr)
  <2>1. SumFunction(weight) =
          weight["claim"] + weight["cheaper"] + weight["other"] + weight["canned"] + weight["unknown"]
    BY <1>2, <1>3, SumOverIdentity
  <2> QED BY <1>2, <2>1 DEF Total, IDENTITY_FINDINGS
<1> QED BY <1>0, <1>1, <1>2, <1>4

\* A share of the whole, in thousandths, rounded down: what three of them amount to.
LEMMA ThreeShares ==
  ASSUME NEW a \in Nat, NEW b \in Nat, NEW c \in Nat, NEW T \in Nat, T > 0
  PROVE  LET share == ((a * 1000) \div T) + ((b * 1000) \div T) + ((c * 1000) \div T)
         IN  share \in Nat /\ T * share <= 1000 * (a + b + c)
<1> DEFINE p == (a * 1000) \div T
           q == (b * 1000) \div T
           r == (c * 1000) \div T
<1>1. p \in Nat /\ T * p <= a * 1000
  OBVIOUS
<1>2. q \in Nat /\ T * q <= b * 1000
  OBVIOUS
<1>3. r \in Nat /\ T * r <= c * 1000
  OBVIOUS
<1> HIDE DEF p, q, r
<1>4. T * (p + q + r) = T * p + T * q + T * r
  BY <1>1, <1>2, <1>3
<1>5. T * p \in Nat /\ T * q \in Nat /\ T * r \in Nat
  BY <1>1, <1>2, <1>3
<1>6. T * (p + q + r) <= 1000 * (a + b + c)
  BY <1>1, <1>2, <1>3, <1>4, <1>5
<1> QED BY <1>1, <1>2, <1>3, <1>6 DEF p, q, r

\* Multiplication by a natural number keeps the order.
LEMMA ProductBound ==
  ASSUME NEW T \in Nat, NEW m \in Nat, NEW n \in Nat, m >= n PROVE T * n <= T * m
OBVIOUS

\* A part of the whole, which is 1000.
Shares == 0 .. 1000

\* A posterior is a share, and so are the three of the accusations together.
LEMMA PosteriorType ==
  ASSUME NEW llr \in Llrs
  PROVE  LET posterior == posteriorOf(IDENTITY_PRIOR, llr) IN
           /\ \A f \in IDENTITY_FINDINGS : posterior[f] \in Shares
           /\ posterior["cheaper"] + posterior["other"] + posterior["canned"] \in Shares
<1> DEFINE posterior == posteriorOf(IDENTITY_PRIOR, llr)
           T == Total(llr)
           a == Weight(llr, "cheaper")
           b == Weight(llr, "other")
           c == Weight(llr, "canned")
<1>1. T \in Nat /\ T > 0
  BY TotalType
<1>2. \A f \in IDENTITY_FINDINGS : Weight(llr, f) \in Nat
  BY WeightType
<1>3. \A f \in IDENTITY_FINDINGS : Weight(llr, f) <= T
  <2> SUFFICES ASSUME NEW f \in {"claim", "cheaper", "other", "canned", "unknown"}
               PROVE  Weight(llr, f) <= T
    BY DEF IDENTITY_FINDINGS
  <2>1. /\ Weight(llr, "claim") \in Nat /\ Weight(llr, "cheaper") \in Nat
        /\ Weight(llr, "other") \in Nat /\ Weight(llr, "canned") \in Nat
        /\ Weight(llr, "unknown") \in Nat
    BY <1>2 DEF IDENTITY_FINDINGS
  <2> QED BY <2>1 DEF Total
<1>4. \A f \in IDENTITY_FINDINGS : posterior[f] = (Weight(llr, f) * 1000) \div T
  BY PosteriorIs
<1>5. a \in Nat /\ b \in Nat /\ c \in Nat
  BY <1>2 DEF IDENTITY_FINDINGS
<1>6. a + b + c <= T
  <2>1. Weight(llr, "claim") \in Nat /\ Weight(llr, "unknown") \in Nat
    BY <1>2 DEF IDENTITY_FINDINGS
  <2> QED BY <1>5, <2>1 DEF Total
<1>7. /\ posterior["cheaper"] = (a * 1000) \div T /\ posterior["other"] = (b * 1000) \div T
      /\ posterior["canned"] = (c * 1000) \div T
  BY <1>4 DEF IDENTITY_FINDINGS
<1> HIDE DEF posterior, T, a, b, c
<1>8. ASSUME NEW f \in IDENTITY_FINDINGS PROVE posterior[f] \in Shares
  <2> DEFINE w == Weight(llr, f)
  <2>1. w \in Nat /\ w <= T
    BY <1>2, <1>3
  <2>2. posterior[f] = (w * 1000) \div T
    BY <1>4
  <2> HIDE DEF w
  <2>3. w * 1000 \in Nat /\ w * 1000 <= 1000 * T
    BY <1>1, <2>1
  <2>4. (w * 1000) \div T \in Shares
    BY <1>1, <2>3, QuotientStays DEF Shares
  <2> QED BY <2>2, <2>4
<1>9. posterior["cheaper"] + posterior["other"] + posterior["canned"] \in Shares
  <2> DEFINE share == ((a * 1000) \div T) + ((b * 1000) \div T) + ((c * 1000) \div T)
  <2>1. share \in Nat /\ T * share <= 1000 * (a + b + c)
    BY <1>1, <1>5, ThreeShares
  <2>2. posterior["cheaper"] + posterior["other"] + posterior["canned"] = share
    BY <1>7
  <2> HIDE DEF share
  <2>3. T * share <= 1000 * T
    BY <1>1, <1>5, <1>6, <2>1
  <2>4. ASSUME share > 1000 PROVE FALSE
    <3>1. share >= 1001
      BY <2>1, <2>4
    <3>2. T * 1001 <= T * share
      BY <1>1, <2>1, <3>1, ProductBound
    <3>3. T * share \in Nat
      BY <1>1, <2>1
    <3> QED BY <1>1, <2>3, <3>2, <3>3
  <2>5. share \in Shares
    BY <2>1, <2>4 DEF Shares
  <2> QED BY <2>2, <2>5
<1> QED BY <1>8, <1>9 DEF posterior

\* Each share by itself,
LEMMA PosteriorShare ==
  ASSUME NEW llr \in Llrs, NEW f \in IDENTITY_FINDINGS
  PROVE  posteriorOf(IDENTITY_PRIOR, llr)[f] \in Shares
BY PosteriorType

\* and those of the accusations together.
LEMMA AccusedShare ==
  ASSUME NEW llr \in Llrs
  PROVE  posteriorOf(IDENTITY_PRIOR, llr)["cheaper"] + posteriorOf(IDENTITY_PRIOR, llr)["other"]
           + posteriorOf(IDENTITY_PRIOR, llr)["canned"] \in Shares
BY PosteriorType

\* Four fifths for the claim, with nothing above it: what the evidence is then.
LEMMA ClaimStandsOut ==
  ASSUME NEW llr \in Llrs, llr["unknown"] = 0, \A f \in IDENTITY_FINDINGS : llr["claim"] >= llr[f],
         posteriorOf(IDENTITY_PRIOR, llr)["claim"] >= 800
  PROVE  llr["claim"] >= 9 /\ \A f \in adverse : llr["claim"] >= llr[f] + 7
<1> DEFINE c == llr["claim"]
           T == Total(llr)
<1>0. \A f \in IDENTITY_FINDINGS : llr[f] \in Int
  BY DEF Llrs
<1>1. Top(llr) = c
  <2>1. Top(llr) \in Int /\ c <= Top(llr) /\ \E f \in IDENTITY_FINDINGS : llr[f] = Top(llr)
    BY TopType DEF IDENTITY_FINDINGS
  <2> QED BY <1>0, <2>1 DEF IDENTITY_FINDINGS
<1>2. Weight(llr, "claim") = 175000
  <2>1. Weight(llr, "claim") = 175 * power(c - c)
    BY <1>1, WeightType DEF IDENTITY_FINDINGS
  <2>2. c - c = 0
    BY <1>0 DEF IDENTITY_FINDINGS
  <2>3. power(0) = 1000
    BY PowerTable
  <2> QED BY <2>1, <2>2, <2>3
<1>3. T \in Nat /\ T > 0
  BY TotalType
<1>4. posteriorOf(IDENTITY_PRIOR, llr)["claim"] = (175000 * 1000) \div T
  BY <1>2, PosteriorIs DEF IDENTITY_FINDINGS
<1>5. /\ Weight(llr, "cheaper") \in Nat /\ Weight(llr, "other") \in Nat
      /\ Weight(llr, "canned") \in Nat /\ Weight(llr, "unknown") \in Nat
  BY WeightType DEF IDENTITY_FINDINGS
<1>6. T = 175000 + Weight(llr, "cheaper") + Weight(llr, "other") + Weight(llr, "canned")
             + Weight(llr, "unknown")
  BY <1>2 DEF Total
<1> HIDE DEF T
<1>7. 800 * T <= 175000000
  <2>1. 175000000 \div T >= 800
    BY <1>4
  <2> QED BY <1>3, <2>1, QuotientReaches
<1>8. T <= 218750
  BY <1>3, <1>7
<1>9. c - llr["unknown"] >= 9
  <2> DEFINE t == c - llr["unknown"]
  <2>1. t \in Nat
    BY <1>1, WeightType DEF IDENTITY_FINDINGS
  <2>2. Weight(llr, "unknown") = 300 * power(t)
    BY <1>1, WeightType DEF IDENTITY_FINDINGS
  <2> HIDE DEF t
  <2>3. power(t) \in Nat /\ power(t) <= 1000 /\ (t <= 8 => power(t) >= 158)
    BY <2>1, PowerTable
  <2>4. Weight(llr, "unknown") <= 43750
    BY <1>3, <1>5, <1>6, <1>8
  <2>5. t >= 9
    BY <2>1, <2>2, <2>3, <2>4
  <2> QED BY <2>5 DEF t
<1>10. ASSUME NEW f \in {"cheaper", "other", "canned"} PROVE c >= llr[f] + 7
  <2> DEFINE t == c - llr[f]
  <2>0. f \in IDENTITY_FINDINGS /\ f # "unknown"
    BY DEF IDENTITY_FINDINGS
  <2>1. t \in Nat
    BY <1>1, <2>0, WeightType
  <2>2. Weight(llr, f) = 175 * power(t)
    BY <1>1, <2>0, WeightType
  <2> HIDE DEF t
  <2>3. power(t) \in Nat /\ power(t) <= 1000 /\ (t <= 6 => power(t) >= 251)
    BY <2>1, PowerTable
  <2>4. Weight(llr, f) <= 43750
    BY <1>3, <1>5, <1>6, <1>8, <1>10
  <2>5. t >= 7
    BY <2>1, <2>2, <2>3, <2>4
  <2>6. c \in Int /\ llr[f] \in Int
    BY <1>0, <2>0 DEF IDENTITY_FINDINGS
  <2> HIDE DEF c
  <2> QED BY <2>5, <2>6 DEF t
<1>11. adverse = {"cheaper", "other", "canned"}
  BY DEF adverse, ADVERSE
<1> QED BY <1>0, <1>9, <1>10, <1>11 DEF IDENTITY_FINDINGS

\* Nine tenths for the accusations, with one above the two others: what the evidence
\* for that one is then.
LEMMA AccusationStandsOut ==
  ASSUME NEW llr \in Llrs, llr["unknown"] = 0, NEW f \in adverse,
         \A g \in IDENTITY_FINDINGS : llr[f] >= llr[g],
         \A g \in adverse \ {f} : llr[f] > llr[g],
         LET posterior == posteriorOf(IDENTITY_PRIOR, llr)
         IN  posterior["cheaper"] + posterior["other"] + posterior["canned"] >= 900
  PROVE  llr[f] >= 8 /\ llr[f] >= llr["claim"] + 6
<1> DEFINE top == llr[f]
           T == Total(llr)
           a == Weight(llr, "cheaper")
           b == Weight(llr, "other")
           c == Weight(llr, "canned")
           wc == Weight(llr, "claim")
           wu == Weight(llr, "unknown")
<1>0. adverse = {"cheaper", "other", "canned"}
  BY DEF adverse, ADVERSE
<1>1. f \in IDENTITY_FINDINGS /\ \A g \in IDENTITY_FINDINGS : llr[g] \in Int
  BY <1>0 DEF Llrs, IDENTITY_FINDINGS
<1>2. Top(llr) = top
  <2>1. Top(llr) \in Int /\ top <= Top(llr) /\ \E g \in IDENTITY_FINDINGS : llr[g] = Top(llr)
    BY <1>1, TopType
  <2> QED BY <1>1, <2>1
<1>3. Weight(llr, f) = 175000
  <2>1. Weight(llr, f) = 175 * power(top - top)
    BY <1>0, <1>1, <1>2, WeightType
  <2>2. top - top = 0
    BY <1>1
  <2>3. power(0) = 1000
    BY PowerTable
  <2> QED BY <2>1, <2>2, <2>3
<1>4. ASSUME NEW g \in adverse \ {f} PROVE Weight(llr, g) <= 138950
  <2> DEFINE t == top - llr[g]
  <2>0. g \in IDENTITY_FINDINGS /\ g # "unknown"
    BY <1>0 DEF IDENTITY_FINDINGS
  <2>1. t \in Nat /\ t >= 1
    BY <1>1, <2>0
  <2>2. Weight(llr, g) = 175 * power(t)
    BY <1>2, <2>0, WeightType
  <2> HIDE DEF t
  <2>3. power(t) \in Nat /\ power(t) <= 1000 /\ power(t) <= 794
    BY <2>1, PowerTable
  <2> QED BY <2>2, <2>3
<1>5. a \in Nat /\ b \in Nat /\ c \in Nat /\ wc \in Nat /\ wu \in Nat
  BY WeightType DEF IDENTITY_FINDINGS
<1>6. a + b + c <= 452900
  <2>1. CASE f = "cheaper"
    <3>1. a = 175000 /\ b <= 138950 /\ c <= 138950
      BY <1>0, <1>3, <1>4, <2>1
    <3> QED BY <1>5, <3>1
  <2>2. CASE f = "other"
    <3>1. a <= 138950 /\ b = 175000 /\ c <= 138950
      BY <1>0, <1>3, <1>4, <2>2
    <3> QED BY <1>5, <3>1
  <2>3. CASE f = "canned"
    <3>1. a <= 138950 /\ b <= 138950 /\ c = 175000
      BY <1>0, <1>3, <1>4, <2>3
    <3> QED BY <1>5, <3>1
  <2> QED BY <1>0, <2>1, <2>2, <2>3
<1>7. T \in Nat /\ T > 0 /\ T = wc + a + b + c + wu
  BY TotalType DEF Total
<1>8. ((a * 1000) \div T) + ((b * 1000) \div T) + ((c * 1000) \div T) >= 900
  BY PosteriorIs DEF IDENTITY_FINDINGS
<1>9. T * 900 <= 1000 * (a + b + c)
  <2> HIDE DEF T, a, b, c
  <2> DEFINE share == ((a * 1000) \div T) + ((b * 1000) \div T) + ((c * 1000) \div T)
  <2>0. T \in Nat /\ T > 0
    BY <1>7
  <2>1. share \in Nat /\ T * share <= 1000 * (a + b + c)
    BY <1>5, <2>0, ThreeShares
  <2>2. share >= 900
    BY <1>8
  <2> HIDE DEF share
  <2>3. T * 900 <= T * share
    BY <1>7, <2>1, <2>2, ProductBound
  <2>4. T * share \in Nat
    BY <1>7, <2>1
  <2> QED BY <1>5, <1>7, <2>1, <2>3, <2>4
<1>10. wc <= 50323 /\ wu <= 50323
  <2> HIDE DEF T, a, b, c, wc, wu
  <2>1. 900 * T <= 452900000
    BY <1>5, <1>6, <1>7, <1>9
  <2>2. 900 * (wc + wu) <= 100 * (a + b + c)
    BY <1>5, <1>7, <1>9
  <2> QED BY <1>5, <1>6, <2>2
<1>11. top - llr["claim"] >= 6
  <2> DEFINE t == top - llr["claim"]
  <2>1. t \in Nat /\ wc = 175 * power(t)
    BY <1>2, WeightType DEF IDENTITY_FINDINGS
  <2> HIDE DEF t, wc
  <2>2. power(t) \in Nat /\ power(t) <= 1000 /\ (t <= 5 => power(t) >= 316)
    BY <2>1, PowerTable
  <2>3. t >= 6
    BY <1>10, <2>1, <2>2
  <2> QED BY <2>3 DEF t
<1>12. top - llr["unknown"] >= 8
  <2> DEFINE t == top - llr["unknown"]
  <2>1. t \in Nat /\ wu = 300 * power(t)
    BY <1>2, WeightType DEF IDENTITY_FINDINGS
  <2> HIDE DEF t, wu
  <2>2. power(t) \in Nat /\ power(t) <= 1000 /\ (t <= 7 => power(t) >= 200)
    BY <2>1, PowerTable
  <2>3. t >= 8
    BY <1>10, <2>1, <2>2
  <2> QED BY <2>3 DEF t
<1>13. top \in Int /\ llr["claim"] \in Int
  BY <1>1 DEF IDENTITY_FINDINGS
<1> QED BY <1>11, <1>12, <1>13

-----------------------------------------------------------------------------
(* Who is named *)

Beats(llr, f, g) == rank(llr, f, IDENTITY_AHEAD) > rank(llr, g, IDENTITY_AHEAD)

\* A finding's rank is its ratio, and the unknown's is its head start.
LEMMA RankIs ==
  ASSUME NEW llr \in Llrs, llr["unknown"] = 0, NEW f \in IDENTITY_FINDINGS
  PROVE  /\ llr[f] \in Int
         /\ rank(llr, f, IDENTITY_AHEAD) = (IF f = "unknown" THEN 234 ELSE 100 * llr[f])
BY DEF Llrs, rank, IDENTITY_AHEAD

\* Whoever is named stands alone above the other candidates.
LEMMA NamedLeads ==
  ASSUME NEW llr \in Llrs, llr["unknown"] = 0, NEW candidates \in SUBSET IDENTITY_FINDINGS,
         mostProbable(llr, candidates, IDENTITY_AHEAD) # "unknown"
  PROVE  LET f == mostProbable(llr, candidates, IDENTITY_AHEAD)
         IN  f \in candidates /\ \A g \in candidates \ {f} : Beats(llr, f, g)
<1> DEFINE leaders == leadersOf(llr, candidates, IDENTITY_AHEAD)
           r(g) == rank(llr, g, IDENTITY_AHEAD)
<1>1. IsFiniteSet(leaders)
  <2>1. leaders \subseteq IDENTITY_FINDINGS
    BY DEF leadersOf
  <2> QED BY <2>1, IdentityFinite, FS_Subset
<1>2. Cardinality(leaders) = 1
  BY DEF mostProbable
<1>3. PICK f : leaders = {f}
  BY <1>1, <1>2, FS_Singleton
<1>4. mostProbable(llr, candidates, IDENTITY_AHEAD) = f
  BY <1>2, <1>3 DEF mostProbable
<1>5. f \in candidates /\ \A g \in candidates : r(f) >= r(g)
  BY <1>3 DEF leadersOf
<1>6. \A g \in candidates : r(g) \in Int
  BY RankIs
<1>7. ASSUME NEW g \in candidates \ {f} PROVE r(f) > r(g)
  <2>1. g \notin leaders
    BY <1>3
  <2>2. PICK h \in candidates : ~(r(g) >= r(h))
    BY <2>1 DEF leadersOf
  <2>3. r(f) >= r(h) /\ r(f) \in Int /\ r(g) \in Int /\ r(h) \in Int
    BY <1>5, <1>6
  <2> HIDE DEF r
  <2> QED BY <2>2, <2>3
<1> QED BY <1>4, <1>5, <1>7 DEF Beats

\* When the claim is ruled out: an accusation that is not, if there is any.
LEMMA MildestStands ==
  ASSUME NEW llr \in Llrs, llr["unknown"] = 0, NEW consistency, NEW vetoes, "claim" \in vetoes,
         adverse \ vetoes # {}
  PROVE  identityOf(llr, consistency, vetoes) \in adverse \ vetoes
<1> DEFINE standing == adverse \ vetoes
           leaders == leadersOf(llr, standing, IDENTITY_AHEAD)
           least(i) == ADVERSE[i] \in leaders /\ \A j \in 1 .. i - 1 : ADVERSE[j] \notin leaders
           mildest == CHOOSE i \in 1 .. 3 : least(i)
           r(g) == rank(llr, g, IDENTITY_AHEAD)
<1>1. identityOf(llr, consistency, vetoes) = ADVERSE[mildest]
  BY DEF identityOf
<1>2. adverse = {"cheaper", "other", "canned"}
  BY DEF adverse, ADVERSE
<1>3. \A g \in adverse : r(g) \in Int
  <2>1. adverse \subseteq IDENTITY_FINDINGS
    BY <1>2 DEF IDENTITY_FINDINGS
  <2> QED BY <2>1, RankIs
<1>4. \E g \in standing : \A h \in standing : r(g) >= r(h)
  <2>1. \A a, b \in Int : a >= b \/ b >= a
    OBVIOUS
  <2>2. r("cheaper") \in Int /\ r("other") \in Int /\ r("canned") \in Int
    BY <1>2, <1>3
  <2> HIDE DEF r
  <2> QED BY <1>2, <2>2
<1>5. leaders # {} /\ leaders \subseteq standing
  BY <1>4 DEF leadersOf
<1> HIDE DEF leaders
<1>6. ADVERSE[1] = "cheaper" /\ ADVERSE[2] = "other" /\ ADVERSE[3] = "canned"
  BY DEF ADVERSE
<1>7. \E i \in 1 .. 3 : least(i)
  <2>1. CASE "cheaper" \in leaders
    <3>1. least(1)
      BY <1>6, <2>1
    <3> QED BY <3>1
  <2>2. CASE "cheaper" \notin leaders /\ "other" \in leaders
    <3>1. \A j \in 1 .. 2 - 1 : j = 1
      OBVIOUS
    <3>2. least(2)
      BY <1>6, <2>2, <3>1
    <3> QED BY <3>2
  <2>3. CASE "cheaper" \notin leaders /\ "other" \notin leaders
    <3>0. "canned" \in leaders
      BY <1>2, <1>5, <2>3
    <3>1. \A j \in 1 .. 3 - 1 : j = 1 \/ j = 2
      OBVIOUS
    <3>2. least(3)
      BY <1>6, <2>3, <3>0, <3>1
    <3> QED BY <3>2
  <2> QED BY <2>1, <2>2, <2>3
<1>8. least(mildest)
  BY <1>7
<1> QED BY <1>1, <1>5, <1>8

\* What is ruled out is not named, and a mixture is not the claim.
LEMMA NamedIsStanding ==
  ASSUME NEW llr \in Llrs, llr["unknown"] = 0, NEW consistency, NEW vetoes \in SUBSET Identity,
         \A f \in vetoes : llr[f] <= -60
  PROVE  LET f == identityOf(llr, consistency, vetoes)
         IN  f \notin vetoes /\ (consistency = "fractional" => f # "claim")
<1> DEFINE candidates == IDENTITY_FINDINGS \ (IF consistency = "fractional" THEN {"claim"} ELSE {})
           f == identityOf(llr, consistency, vetoes)
<1>0. "unknown" \notin vetoes /\ adverse = {"cheaper", "other", "canned"}
  BY DEF Identity, adverse, ADVERSE
<1>1. CASE "claim" \in vetoes /\ adverse \ vetoes = {}
  <2>1. f = "unknown"
    BY <1>1 DEF identityOf
  <2> QED BY <1>0, <2>1
<1>2. CASE "claim" \in vetoes /\ adverse \ vetoes # {}
  <2>1. f \in adverse \ vetoes
    BY <1>2, MildestStands
  <2> QED BY <1>0, <2>1
<1>3. CASE "claim" \notin vetoes
  <2>1. f = mostProbable(llr, candidates, IDENTITY_AHEAD)
    BY <1>3 DEF identityOf
  <2>2. CASE f = "unknown"
    BY <1>0, <2>2
  <2>3. CASE f # "unknown"
    <3>1. f \in candidates /\ \A g \in candidates \ {f} : Beats(llr, f, g)
      BY <2>1, <2>3, NamedLeads
    <3>2. "unknown" \in candidates \ {f} /\ f \in IDENTITY_FINDINGS /\ "unknown" \in IDENTITY_FINDINGS
      BY <2>3, <3>1 DEF IDENTITY_FINDINGS
    <3>3. Beats(llr, f, "unknown")
      BY <3>1, <3>2
    <3> HIDE DEF f
    <3>4. llr[f] \in Int /\ 100 * llr[f] > 234
      BY <2>3, <3>2, <3>3, RankIs DEF Beats
    <3>5. f \notin vetoes
      BY <3>4
    <3> QED BY <3>1, <3>5 DEF f
  <2> QED BY <2>2, <2>3
<1> QED BY <1>1, <1>2, <1>3

\* Nobody is accused behind another's back: an accusation without a decisive probe
\* and without a mixture is above all the others.
LEMMA AccusedLeads ==
  ASSUME NEW llr \in Llrs, llr["unknown"] = 0, NEW consistency, consistency # "fractional",
         NEW vetoes, "claim" \notin vetoes, NEW f, f = identityOf(llr, consistency, vetoes),
         f # "unknown"
  PROVE  /\ f \in IDENTITY_FINDINGS
         /\ \A g \in IDENTITY_FINDINGS \ {f} : llr[f] > llr[g]
<1>1. f = mostProbable(llr, IDENTITY_FINDINGS, IDENTITY_AHEAD)
  <2>1. f = mostProbable(llr, IDENTITY_FINDINGS \ {}, IDENTITY_AHEAD)
    BY DEF identityOf
  <2>2. IDENTITY_FINDINGS \ {} = IDENTITY_FINDINGS
    OBVIOUS
  <2> QED BY <2>1, <2>2
<1>2. f \in IDENTITY_FINDINGS /\ \A g \in IDENTITY_FINDINGS \ {f} : Beats(llr, f, g)
  BY <1>1, NamedLeads
<1>3. ASSUME NEW g \in IDENTITY_FINDINGS \ {f} PROVE llr[f] > llr[g]
  <2>1. /\ llr[f] \in Int /\ llr[g] \in Int
        /\ rank(llr, f, IDENTITY_AHEAD) = 100 * llr[f]
        /\ rank(llr, g, IDENTITY_AHEAD) = (IF g = "unknown" THEN 234 ELSE 100 * llr[g])
    BY <1>2, RankIs
  <2>2. rank(llr, f, IDENTITY_AHEAD) > rank(llr, g, IDENTITY_AHEAD)
    BY <1>2 DEF Beats
  <2> QED BY <2>1, <2>2
<1> QED BY <1>2, <1>3

-----------------------------------------------------------------------------
(* What the draws amount to, and the confidence *)

\* The counts of the draws, with or without a result: disagreements are fewer than trials,
\* and the bound on the draws lost is a share.
LEMMA DrawsAre ==
  ASSUME NEW eps \in DrawResults \union {Nothing}
  PROVE  /\ eps.disagreements \in Nat /\ eps.lost \in Nat
         /\ eps.trials \in Nat \/ eps.trials = -1
         /\ eps.disagreements > 0 => eps.disagreements < eps.trials
         /\ eps.trials \in Nat => exactUpper(eps.lost, eps.trials + eps.lost) \in 0 .. 1000
<1>1. CASE eps = Nothing
  BY <1>1 DEF Nothing, None
<1>2. CASE eps \in DrawResults
  <2>1. eps \in [disagreements : Nat, trials : Nat, lost : Nat]
    BY <1>2, DrawsAssumption
  <2>2. exactUpper(eps.lost, eps.trials + eps.lost) \in 0 .. 1000
    BY <1>2, DrawsAssumption
  <2>3. eps.disagreements > 0 => eps.disagreements < eps.trials
    BY <1>2, DrawsAssumption
  <2> QED BY <2>1, <2>2, <2>3
<1> QED BY <1>1, <1>2

\* A uniform reading is five draws or more without a dissent; a fractional one is
\* believed at nine tenths when four of each kind were seen.
LEMMA DrawsRead ==
  ASSUME NEW eps \in DrawResults \union {Nothing}
  PROVE  /\ consistencyOf(eps) \in {"unknown", "uniform", "fractional"}
         /\ consistencyOf(eps) = "unknown" => consistencyPosterior(eps) = 0
         /\ consistencyPosterior(eps) \in 0 .. 1000
         /\ consistencyOf(eps) = "uniform" => eps.trials >= MIN_TRIALS /\ eps.disagreements = 0
         /\ consistencyOf(eps) = "fractional" =>
              /\ eps.trials >= MIN_TRIALS
              /\ consistencyPosterior(eps) >= 900 => minority(eps) >= 4
<1>1. /\ eps.disagreements \in Nat /\ (eps.trials \in Nat \/ eps.trials = -1)
      /\ eps.disagreements > 0 => eps.disagreements < eps.trials
  BY DrawsAre
<1>2. CASE consistencyOf(eps) = "unknown"
  <2>1. consistencyPosterior(eps) = 0
    BY <1>2 DEF consistencyPosterior
  <2> QED BY <1>2, <2>1
<1>3. CASE consistencyOf(eps) = "uniform"
  <2>1. eps.trials >= MIN_TRIALS /\ ~(eps.disagreements > 0 /\ eps.disagreements < eps.trials)
    BY <1>1, <1>3 DEF consistencyOf, MIN_TRIALS
  <2>2. eps.disagreements = 0
    BY <1>1, <2>1
  <2> DEFINE up == exactUpper(eps.lost, eps.trials + eps.lost)
  <2>3. eps.trials \in Nat
    BY <1>1, <2>1 DEF MIN_TRIALS
  <2>4. up \in 0 .. 1000
    BY <2>3, DrawsAre
  <2>5. consistencyPosterior(eps) = 1000 - up \div 2
    BY <1>3 DEF consistencyPosterior
  <2> HIDE DEF up
  <2>6. 1000 - up \div 2 \in 0 .. 1000
    BY <2>4
  <2> QED BY <1>3, <2>1, <2>2, <2>5, <2>6
<1>4. CASE consistencyOf(eps) = "fractional"
  <2> DEFINE k == minority(eps)
  <2>1. eps.trials >= MIN_TRIALS /\ eps.disagreements > 0 /\ eps.disagreements < eps.trials
    BY <1>1, <1>4 DEF consistencyOf, MIN_TRIALS
  <2>2. k \in Nat /\ k >= 1
    BY <1>1, <2>1 DEF minority
  <2>3. consistencyPosterior(eps) = halved(k)
    BY <1>4 DEF consistencyPosterior
  <2> HIDE DEF k
  <2>4. halved(k) \in 0 .. 1000 /\ (halved(k) >= 900 => k >= 4)
    <3>1. CASE k = 1 \/ k = 2 \/ k = 3
      BY <3>1 DEF halved, HALVES
    <3>2. CASE k = 4 \/ k = 5 \/ k = 6
      BY <3>2 DEF halved, HALVES
    <3>3. CASE k = 7 \/ k = 8 \/ k = 9
      BY <3>3 DEF halved, HALVES
    <3>4. CASE k > 9
      BY <2>2, <3>4 DEF halved, HALVES
    <3> QED BY <2>2, <3>1, <3>2, <3>3, <3>4
  <2> QED BY <1>4, <2>1, <2>3, <2>4 DEF k
<1>5. consistencyOf(eps) \in {"unknown", "uniform", "fractional"}
  BY DEF consistencyOf
<1> QED BY <1>2, <1>3, <1>4, <1>5

ShareOf(p, q) == (p * q) \div 1000

\* A share of a share is a share no larger than the first.
LEMMA ShareOfShare ==
  ASSUME NEW p \in Shares, NEW q \in Shares
  PROVE  ShareOf(p, q) \in Shares /\ ShareOf(p, q) <= p
<1>0. p \in 0 .. 1000 /\ q \in 0 .. 1000
  BY DEF Shares
<1>1. p * q \in Nat /\ p * q <= p * 1000
  <2>1. p \in Nat /\ q \in Nat /\ 1000 \in Nat /\ 1000 >= q
    BY <1>0
  <2>2. p * q <= p * 1000
    BY <2>1, ProductBound
  <2> QED BY <2>1, <2>2
<1>2. (p * q) \div 1000 \in 0 .. p
  BY <1>0, <1>1, QuotientStays
<1> QED BY <1>0, <1>2 DEF ShareOf, Shares

\* The parts of a reading.
ReadingParts(signals, eps, pair) ==
  LET read == readingOf(signals, eps, pair)
      llr  == identityLlr(signals)
      post == posteriorOf(IDENTITY_PRIOR, llr)
      named == identityOf(llr, consistencyOf(eps), vetoesOf(signals))
  IN  /\ read.assessment.identity = named
      /\ read.assessment.consistency = consistencyOf(eps)
      /\ consistencyOf(eps) = "fractional" => read.confidence = consistencyPosterior(eps)
      /\ consistencyOf(eps) # "fractional" /\ named \in adverse =>
           read.confidence =
             IF "claim" \in vetoesOf(signals) THEN 1000 - post["claim"]
             ELSE post["cheaper"] + post["other"] + post["canned"]
      /\ consistencyOf(eps) # "fractional" /\ named = "claim" =>
           read.confidence =
             IF consistencyOf(eps) = "uniform"
             THEN (post["claim"] * consistencyPosterior(eps)) \div 1000 ELSE post["claim"]
      /\ consistencyOf(eps) # "fractional" /\ named \notin adverse \union {"claim"} =>
           read.confidence = post["unknown"]

\* The parts of a reading, each as the code computes it.
LEMMA ReadingIs ==
  ASSUME NEW signals, NEW eps, NEW pair PROVE ReadingParts(signals, eps, pair)
<1> DEFINE read == readingOf(signals, eps, pair)
           llr == identityLlr(signals)
           vetoes == vetoesOf(signals)
           consistency == consistencyOf(eps)
           post == posteriorOf(IDENTITY_PRIOR, llr)
           named == identityOf(llr, consistency, vetoes)
           platform == mostProbable(platformLlr(signals), PLATFORM_FINDINGS, PATH_AHEAD)
           translation == mostProbable(translationLlr(signals, pair), TRANSLATION_FINDINGS, PATH_AHEAD)
           assessment == [identity |-> named, consistency |-> consistency, platform |-> platform,
                          translation |-> translation]
<1>1. read.assessment = assessment /\ read.confidence = rawConfidence(assessment, post, vetoes, eps)
  BY DEF readingOf
<1>2. "claim" \notin adverse
  BY DEF adverse, ADVERSE
<1> HIDE DEF read, post, vetoes, platform, translation
<1>3. assessment.identity = named /\ assessment.consistency = consistency
  OBVIOUS
<1> HIDE DEF assessment, named, consistency
<1>4. consistency = "fractional" =>
        rawConfidence(assessment, post, vetoes, eps) = consistencyPosterior(eps)
  BY <1>3 DEF rawConfidence
<1>5. consistency # "fractional" /\ named \in adverse =>
        rawConfidence(assessment, post, vetoes, eps) =
          IF "claim" \in vetoes THEN 1000 - post["claim"]
          ELSE post["cheaper"] + post["other"] + post["canned"]
  BY <1>2, <1>3 DEF rawConfidence
<1>6. consistency # "fractional" /\ named = "claim" =>
        rawConfidence(assessment, post, vetoes, eps) =
          IF consistency = "uniform"
          THEN (post["claim"] * consistencyPosterior(eps)) \div 1000 ELSE post["claim"]
  BY <1>2, <1>3 DEF rawConfidence
<1>7. consistency # "fractional" /\ named \notin adverse \union {"claim"} =>
        rawConfidence(assessment, post, vetoes, eps) = post["unknown"]
  BY <1>3 DEF rawConfidence
<1> QED BY <1>1, <1>3, <1>4, <1>5, <1>6, <1>7
        DEF ReadingParts, read, post, vetoes, consistency, named

\* The identity ratios of what was heard: integers, nothing for the unknown, and the
\* findings ruled out held far below.
LEMMA HeardLlr ==
  ASSUME NEW signals, Heard(signals)
  PROVE  /\ identityLlr(signals) \in Llrs /\ identityLlr(signals)["unknown"] = 0
         /\ vetoesOf(signals) \in SUBSET Identity
         /\ \A f \in vetoesOf(signals) : identityLlr(signals)[f] <= -60
BY IdentityType DEF Llrs

\* The confidence of a reading is a share of one.
LEMMA ReadingIsShare ==
  ASSUME NEW signals, Heard(signals), NEW eps \in DrawResults \union {Nothing}, NEW pair
  PROVE  readingOf(signals, eps, pair).confidence \in 0 .. 1000
<1> DEFINE confidence == readingOf(signals, eps, pair).confidence
           post == posteriorOf(IDENTITY_PRIOR, identityLlr(signals))
           claimed == post["claim"]
           unknown == post["unknown"]
           accused == post["cheaper"] + post["other"] + post["canned"]
           agreed == consistencyPosterior(eps)
           named == identityOf(identityLlr(signals), consistencyOf(eps), vetoesOf(signals))
<1>1. identityLlr(signals) \in Llrs
  BY HeardLlr
<1>2. claimed \in Shares /\ unknown \in Shares /\ accused \in Shares
  <2>1. /\ \A f \in IDENTITY_FINDINGS : post[f] \in Shares
        /\ accused \in Shares
    <3>1. \A f \in IDENTITY_FINDINGS : post[f] \in Shares
      BY <1>1, PosteriorShare
    <3>2. accused \in Shares
      BY <1>1, AccusedShare
    <3> QED BY <3>1, <3>2
  <2> HIDE DEF post, accused
  <2> QED BY <2>1 DEF IDENTITY_FINDINGS
<1>3. agreed \in Shares
  BY DrawsRead DEF Shares
<1>0. ReadingParts(signals, eps, pair)
  BY ReadingIs
<1>4. consistencyOf(eps) = "fractional" => confidence = agreed
  BY <1>0 DEF ReadingParts
<1>5. consistencyOf(eps) # "fractional" /\ named \in adverse =>
        confidence = IF "claim" \in vetoesOf(signals) THEN 1000 - claimed ELSE accused
  BY <1>0 DEF ReadingParts
<1>6. consistencyOf(eps) # "fractional" /\ named = "claim" =>
        confidence = IF consistencyOf(eps) = "uniform" THEN ShareOf(claimed, agreed) ELSE claimed
  BY <1>0 DEF ReadingParts, ShareOf
<1>7. consistencyOf(eps) # "fractional" /\ named \notin adverse \union {"claim"} =>
        confidence = unknown
  BY <1>0 DEF ReadingParts
<1> HIDE DEF confidence, claimed, unknown, accused, agreed, named
<1>8. ShareOf(claimed, agreed) \in Shares
  BY <1>2, <1>3, ShareOfShare, Zenon
<1>9. 1000 - claimed \in Shares
  BY <1>2 DEF Shares
<1>10. confidence \in Shares
  <2>1. CASE consistencyOf(eps) = "fractional"
    BY <1>3, <1>4, <2>1
  <2>2. CASE consistencyOf(eps) # "fractional" /\ named \in adverse
    BY <1>2, <1>5, <1>9, <2>2
  <2>3. CASE consistencyOf(eps) # "fractional" /\ named = "claim"
    BY <1>2, <1>6, <1>8, <2>3
  <2>4. CASE consistencyOf(eps) # "fractional" /\ named \notin adverse \union {"claim"}
    BY <1>2, <1>7, <2>4
  <2> QED BY <2>1, <2>2, <2>3, <2>4
<1> QED BY <1>10 DEF Shares, confidence

-----------------------------------------------------------------------------
(* The ceiling *)

Recorded(out) == DOMAIN out \subseteq Index

\* A run's records are finitely many, and so is any part of them.
LEMMA RecordsFinite ==
  ASSUME NEW out, Recorded(out), NEW part, part \subseteq DOMAIN out
  PROVE  IsFiniteSet(part) /\ Cardinality(part) \in Nat
<1>1. Len(PROBE_CATALOGUE) \in Nat
  BY CatalogueAssumption
<1>2. IsFiniteSet(Index)
  BY <1>1, FS_Interval DEF Index
<1>3. part \subseteq Index
  BY DEF Recorded
<1>4. IsFiniteSet(part)
  BY <1>2, <1>3, FS_Subset
<1> QED BY <1>4, FS_CardinalityType

\* How much the gaps take.
GapPenalty(out) ==
  IF Cardinality(applicable(out)) = 0 THEN 0
  ELSE (200 * Cardinality(gaps(out)) + Cardinality(applicable(out)) - 1)
         \div Cardinality(applicable(out))

\* The gaps are some of the applicable entries, and their penalty is a number.
LEMMA GapsType ==
  ASSUME NEW out, Recorded(out)
  PROVE  /\ Cardinality(applicable(out)) \in Nat /\ Cardinality(gaps(out)) \in Nat
         /\ Cardinality(gaps(out)) <= Cardinality(applicable(out))
         /\ GapPenalty(out) \in Nat
<1> DEFINE some == Cardinality(applicable(out))
           g == Cardinality(gaps(out))
<1>1. IsFiniteSet(applicable(out)) /\ some \in Nat
  <2>1. applicable(out) \subseteq DOMAIN out
    BY DEF applicable
  <2> QED BY <2>1, RecordsFinite
<1>2. gaps(out) \subseteq applicable(out)
  BY DEF gaps
<1>3. g \in Nat /\ g <= some
  BY <1>1, <1>2, FS_Subset, FS_CardinalityType
<1>4. GapPenalty(out) = IF some = 0 THEN 0 ELSE (200 * g + some - 1) \div some
  BY DEF GapPenalty
<1> HIDE DEF some, g
<1>5. GapPenalty(out) \in Nat
  <2>1. CASE some = 0
    BY <1>4, <2>1
  <2>2. CASE some # 0
    <3> DEFINE n == 200 * g + some - 1
    <3>1. n \in Nat /\ some \in Nat /\ some > 0
      BY <1>1, <1>3, <2>2
    <3>2. GapPenalty(out) = n \div some
      BY <1>4, <2>2
    <3> HIDE DEF n
    <3>3. n \div some \in Nat
      BY <3>1
    <3> QED BY <3>2, <3>3
  <2> QED BY <2>1, <2>2
<1> QED BY <1>1, <1>3, <1>5 DEF some, g

\* The four levels of coverage, and the groups each of the upper two needs.
LEMMA CoverageLevels ==
  ASSUME NEW out
  PROVE  /\ coverage(out) \in {600, 750, 880, 980}
         /\ coverage(out) >= 800 => groupRan(out, "B") /\ groupRan(out, "C")
         /\ coverage(out) >= 900 => groupRan(out, "D") /\ coverage(out) = 980
<1> DEFINE b == groupRan(out, "B")
           c == groupRan(out, "C")
           d == groupRan(out, "D")
           level == IF ~b /\ ~c THEN 600 ELSE IF ~(b /\ c) THEN 750 ELSE 980
<1>1. coverage(out) = IF d \/ level <= 880 THEN level ELSE 880
  BY DEF coverage
<1> HIDE DEF b, c, d
<1>2. level \in {600, 750, 980} /\ (level = 980 => b /\ c)
  OBVIOUS
<1> HIDE DEF level
<1>3. /\ coverage(out) \in {600, 750, 880, 980}
      /\ coverage(out) >= 800 => b /\ c
      /\ coverage(out) >= 900 => d /\ coverage(out) = 980
  BY <1>1, <1>2
<1> QED BY <1>3 DEF b, c, d

\* What a ceiling takes off, and never puts back.
LEMMA CeilingIs ==
  ASSUME NEW out, Recorded(out), NEW signals, NEW pair
  PROVE  \E off \in {0, 20, 40, 60} :
           /\ off = (IF pair = "cross-protocol" THEN 40 ELSE 0)
                      + (IF \E m \in signals : m.signal.calibration = "measured" THEN 0 ELSE 20)
           /\ ceilingFor(out, signals, pair) =
                IF coverage(out) - off - GapPenalty(out) < 0 THEN 0
                ELSE coverage(out) - off - GapPenalty(out)
<1> DEFINE p == IF pair = "cross-protocol" THEN 40 ELSE 0
           m == IF \E x \in signals : x.signal.calibration = "measured" THEN 0 ELSE 20
           c == coverage(out)
           gap == GapPenalty(out)
           value == c - p - gap - m
<1>1. ceilingFor(out, signals, pair) = IF value < 0 THEN 0 ELSE value
  BY DEF ceilingFor, GapPenalty
<1>2. p \in {0, 40} /\ m \in {0, 20}
  OBVIOUS
<1>3. c \in Int /\ gap \in Int
  BY CoverageLevels, GapsType
<1> HIDE DEF p, m, c, gap
<1>4. p + m \in {0, 20, 40, 60} /\ value = c - (p + m) - gap
  BY <1>2, <1>3
<1>5. value = c - (p + m) - gap
  BY <1>4
<1> HIDE DEF value
<1>6. ceilingFor(out, signals, pair) = IF c - (p + m) - gap < 0 THEN 0 ELSE c - (p + m) - gap
  BY <1>1, <1>5
<1>7. \E off \in {0, 20, 40, 60} :
        off = p + m /\ ceilingFor(out, signals, pair) = IF c - off - gap < 0 THEN 0 ELSE c - off - gap
  BY <1>4, <1>6
<1> QED BY <1>7 DEF p, m, c, gap

\* What a high ceiling takes: groups B and C for a pass, D and few gaps for a fail.
LEMMA CeilingTakes ==
  ASSUME NEW out, Recorded(out), NEW signals, NEW pair
  PROVE  LET ceiling == ceilingFor(out, signals, pair) IN
           /\ ceiling \in 0 .. 980
           /\ ceiling >= 800 => groupRan(out, "B") /\ groupRan(out, "C")
           /\ ceiling >= 900 =>
                /\ groupRan(out, "D")
                /\ 200 * Cardinality(gaps(out)) <= 80 * Cardinality(applicable(out))
<1> DEFINE ceiling == ceilingFor(out, signals, pair)
           c == coverage(out)
           gap == GapPenalty(out)
           some == Cardinality(applicable(out))
           g == Cardinality(gaps(out))
<1>1. PICK off \in {0, 20, 40, 60} :
        ceiling = IF c - off - gap < 0 THEN 0 ELSE c - off - gap
  BY CeilingIs
<1>2. some \in Nat /\ g \in Nat /\ g <= some /\ gap \in Nat
  BY GapsType
<1>3. /\ c \in {600, 750, 880, 980} /\ (c >= 800 => groupRan(out, "B") /\ groupRan(out, "C"))
      /\ c >= 900 => groupRan(out, "D") /\ c = 980
  BY CoverageLevels
<1>4. gap = IF some = 0 THEN 0 ELSE (200 * g + some - 1) \div some
  BY DEF GapPenalty
<1> HIDE DEF ceiling, c, gap, some, g
<1>5. ceiling \in 0 .. 980 /\ (ceiling > 0 => ceiling <= c) /\ (ceiling >= 900 => gap <= 80)
  BY <1>1, <1>2, <1>3
<1>6. gap <= 80 => 200 * g <= 80 * some
  <2>1. CASE some = 0
    BY <1>2, <2>1
  <2>2. CASE some # 0
    <3> SUFFICES ASSUME gap <= 80 PROVE 200 * g <= 80 * some
      OBVIOUS
    <3> DEFINE n == 200 * g + some - 1
    <3>1. n \in Nat /\ some \in Nat /\ some > 0
      BY <1>2, <2>2
    <3>2. n \div some <= 80
      BY <1>4, <2>2
    <3> HIDE DEF n
    <3>3. n < 81 * some
      <4>1. n = (some * (n \div some)) + (n % some) /\ n % some \in 0 .. some - 1 /\ n \div some \in Nat
        BY <3>1
      <4>2. some * (n \div some) <= some * 80
        BY <3>1, <3>2, <4>1, ProductBound
      <4> DEFINE x == some * (n \div some)
                 y == n % some
      <4>3. x \in Int /\ y \in Int /\ n = x + y /\ x <= some * 80 /\ y <= some - 1
        BY <3>1, <4>1, <4>2
      <4> HIDE DEF x, y
      <4> QED BY <3>1, <4>3
    <3> QED BY <1>2, <3>1, <3>3 DEF n
  <2> QED BY <2>1, <2>2
<1>7. ceiling >= 800 => c >= 800
  BY <1>3, <1>5
<1>8. ceiling >= 900 => c >= 900
  BY <1>3, <1>5
<1> QED BY <1>3, <1>5, <1>6, <1>7, <1>8 DEF ceiling, some, g

\* One probe that ran is lost instead.
LosesOne(out, lost, i) ==
  /\ i \in DOMAIN out /\ out[i] = "ran"
  /\ lost = [out EXCEPT ![i] = "endpoint-error"]

\* A run that loses one answered probe keeps its other records and the same applicable
\* entries, and has every gap it had.
LEMMA LosingKeepsRecords ==
  ASSUME NEW out, NEW lost, NEW i, Recorded(out), LosesOne(out, lost, i)
  PROVE  /\ Recorded(lost) /\ DOMAIN lost = DOMAIN out
         /\ \A j \in DOMAIN out : lost[j] = IF j = i THEN "endpoint-error" ELSE out[j]
         /\ applicable(lost) = applicable(out)
         /\ gaps(out) \subseteq gaps(lost)
<1>1. DOMAIN lost = DOMAIN out
  BY DEF LosesOne
<1>2. \A j \in DOMAIN out : lost[j] = IF j = i THEN "endpoint-error" ELSE out[j]
  BY DEF LosesOne
<1>3. applicable(lost) = applicable(out)
  BY <1>1, <1>2 DEF applicable, LosesOne, NOT_EVIDENCE
<1>4. gaps(out) \subseteq gaps(lost)
  BY <1>1, <1>2, <1>3 DEF gaps, LosesOne, GAP_REASONS, SkipReasons, applicable
<1> QED BY <1>1, <1>2, <1>3, <1>4 DEF Recorded

\* Losing a probe runs no group that had not run.
LEMMA LosingRunsNoGroup ==
  ASSUME NEW out, NEW lost, NEW i, Recorded(out), LosesOne(out, lost, i), NEW group,
         groupRan(lost, group)
  PROVE  groupRan(out, group)
<1> DEFINE here == {j \in applicable(out) : PROBE_CATALOGUE[j].group = group}
           ran  == {j \in here : out[j] = "ran"}
           left == {j \in here : lost[j] = "ran"}
<1>1. /\ applicable(lost) = applicable(out) /\ applicable(out) \subseteq DOMAIN out
      /\ \A j \in DOMAIN out : lost[j] = IF j = i THEN "endpoint-error" ELSE out[j]
  BY LosingKeepsRecords DEF applicable
<1>2. here # {} /\ 2 * Cardinality(left) >= Cardinality(here)
  BY <1>1 DEF groupRan
<1>3. left \subseteq ran
  BY <1>1
<1>4. /\ IsFiniteSet(ran) /\ Cardinality(ran) \in Nat /\ Cardinality(here) \in Nat
      /\ Cardinality(left) \in Nat
  <2>1. ran \subseteq DOMAIN out /\ here \subseteq DOMAIN out /\ left \subseteq DOMAIN out
    BY <1>1
  <2> HIDE DEF here, ran, left
  <2> QED BY <2>1, RecordsFinite
<1>5. Cardinality(left) <= Cardinality(ran)
  <2> HIDE DEF here, ran, left
  <2> QED BY <1>3, <1>4, FS_Subset
<1>6. 2 * Cardinality(ran) >= Cardinality(here)
  <2> HIDE DEF here, ran, left
  <2> QED BY <1>2, <1>4, <1>5
<1> QED BY <1>2, <1>6 DEF groupRan

\* Losing a probe raises no coverage.
LEMMA LosingCoversLess ==
  ASSUME NEW out, NEW lost, NEW i, Recorded(out), LosesOne(out, lost, i)
  PROVE  coverage(lost) <= coverage(out)
<1> DEFINE level(b, c) == IF ~b /\ ~c THEN 600 ELSE IF ~(b /\ c) THEN 750 ELSE 980
           cover(b, c, d) == IF d \/ level(b, c) <= 880 THEN level(b, c) ELSE 880
<1>1. \A o : coverage(o) = cover(groupRan(o, "B"), groupRan(o, "C"), groupRan(o, "D"))
  BY DEF coverage
<1>2. \A g : groupRan(lost, g) => groupRan(out, g)
  BY LosingRunsNoGroup
<1>3. CASE groupRan(out, "B") /\ groupRan(out, "C")
  <2>1. CASE groupRan(out, "D")
    <3>1. coverage(out) = 980
      BY <1>1, <1>3, <2>1
    <3>2. coverage(lost) \in {600, 750, 880, 980}
      BY CoverageLevels
    <3> QED BY <3>1, <3>2
  <2>2. CASE ~groupRan(out, "D")
    <3>1. coverage(out) = 880
      BY <1>1, <1>3, <2>2
    <3>2. coverage(lost) \in {600, 750, 880, 980} /\ ~(coverage(lost) >= 900)
      BY <1>2, <2>2, CoverageLevels
    <3> QED BY <3>1, <3>2
  <2> QED BY <2>1, <2>2
<1>4. CASE ~(groupRan(out, "B") /\ groupRan(out, "C"))
  <2>1. coverage(lost) \in {600, 750, 880, 980} /\ ~(coverage(lost) >= 800)
    BY <1>2, <1>4, CoverageLevels
  <2>2. coverage(out) \in {600, 750, 880, 980} /\ ~(coverage(out) >= 800)
    BY <1>4, CoverageLevels
  <2>3. CASE groupRan(out, "B") \/ groupRan(out, "C")
    <3>1. coverage(out) = 750
      BY <1>1, <1>4, <2>3
    <3> QED BY <2>1, <3>1
  <2>4. CASE ~groupRan(out, "B") /\ ~groupRan(out, "C")
    <3>1. coverage(lost) = 600
      BY <1>1, <1>2, <2>4
    <3> QED BY <2>2, <3>1
  <2> QED BY <2>3, <2>4
<1> QED BY <1>3, <1>4

\* A probe lost raises no ceiling and clears no obstruction.
LEMMA LosingBlurs ==
  ASSUME NEW out, NEW lost, NEW i, Recorded(out), LosesOne(out, lost, i), NEW signals, NEW pair,
         NEW eps
  PROVE  /\ ceilingFor(lost, signals, pair) <= ceilingFor(out, signals, pair)
         /\ evidenceOf(lost, eps) # "obstructed" => evidenceOf(out, eps) # "obstructed"
<1>1. /\ Recorded(lost) /\ DOMAIN lost = DOMAIN out
      /\ \A j \in DOMAIN out : lost[j] = IF j = i THEN "endpoint-error" ELSE out[j]
      /\ applicable(lost) = applicable(out) /\ gaps(out) \subseteq gaps(lost)
  BY LosingKeepsRecords
<1>2. GapPenalty(out) \in Nat /\ GapPenalty(lost) \in Nat /\ GapPenalty(out) <= GapPenalty(lost)
  <2> DEFINE some == Cardinality(applicable(out))
             g == Cardinality(gaps(out))
             h == Cardinality(gaps(lost))
  <2>1. some \in Nat /\ g \in Nat /\ h \in Nat /\ GapPenalty(out) \in Nat /\ GapPenalty(lost) \in Nat
    BY <1>1, GapsType
  <2>2. g <= h
    <3>1. gaps(lost) \subseteq DOMAIN lost
      BY DEF gaps, applicable
    <3>2. IsFiniteSet(gaps(lost))
      BY <1>1, <3>1, RecordsFinite
    <3> QED BY <1>1, <3>2, FS_Subset
  <2>3. /\ GapPenalty(out) = IF some = 0 THEN 0 ELSE (200 * g + some - 1) \div some
        /\ GapPenalty(lost) = IF some = 0 THEN 0 ELSE (200 * h + some - 1) \div some
    BY <1>1 DEF GapPenalty
  <2> HIDE DEF some, g, h
  <2>4. CASE some = 0
    BY <2>1, <2>3, <2>4
  <2>5. CASE some # 0
    <3> DEFINE m == 200 * g + some - 1
               n == 200 * h + some - 1
    <3>1. m \in Nat /\ n \in Nat /\ m <= n /\ some > 0
      BY <2>1, <2>2, <2>5
    <3>2. GapPenalty(out) = m \div some /\ GapPenalty(lost) = n \div some
      BY <2>3, <2>5
    <3> HIDE DEF m, n
    <3>3. m \div some <= n \div some
      <4> DEFINE p == m \div some
                 q == n \div some
      <4>1. p \in Nat /\ q \in Nat /\ some * p <= m /\ n < some * (q + 1)
        BY <2>1, <3>1
      <4> HIDE DEF p, q
      <4>2. ASSUME p > q PROVE FALSE
        <5>1. p \in Nat /\ q + 1 \in Nat /\ p >= q + 1
          BY <4>1, <4>2
        <5>2. some * (q + 1) <= some * p
          BY <2>1, <5>1, ProductBound
        <5>3. some * (q + 1) \in Int /\ some * p \in Int
          BY <2>1, <4>1
        <5> QED BY <3>1, <4>1, <5>2, <5>3
      <4>3. p <= q
        BY <4>1, <4>2
      <4> QED BY <4>3 DEF p, q
    <3> QED BY <2>1, <3>2, <3>3
  <2> QED BY <2>4, <2>5
<1>3. ceilingFor(lost, signals, pair) <= ceilingFor(out, signals, pair)
  <2>1. PICK off \in {0, 20, 40, 60} :
          /\ off = (IF pair = "cross-protocol" THEN 40 ELSE 0)
                     + (IF \E m \in signals : m.signal.calibration = "measured" THEN 0 ELSE 20)
          /\ ceilingFor(out, signals, pair) =
               IF coverage(out) - off - GapPenalty(out) < 0 THEN 0
               ELSE coverage(out) - off - GapPenalty(out)
    BY CeilingIs
  <2>2. ceilingFor(lost, signals, pair) =
               IF coverage(lost) - off - GapPenalty(lost) < 0 THEN 0
               ELSE coverage(lost) - off - GapPenalty(lost)
    BY <1>1, <2>1, CeilingIs
  <2>3. coverage(lost) \in Int /\ coverage(out) \in Int /\ coverage(lost) <= coverage(out)
    BY LosingCoversLess, CoverageLevels
  <2> QED BY <1>2, <2>1, <2>2, <2>3
<1>4. evidenceOf(lost, eps) # "obstructed" => evidenceOf(out, eps) # "obstructed"
  <2> DEFINE some == applicable(out)
             L(o) == {j \in some : o[j] = "endpoint-error"}
             B(o) == \E j \in DOMAIN o : o[j] = "budget-exceeded"
  <2>1. /\ Cardinality(L(out)) \in Nat /\ Cardinality(L(lost)) \in Nat
        /\ Cardinality(L(out)) <= Cardinality(L(lost)) /\ Cardinality(some) \in Nat
    <3>1. some \subseteq DOMAIN out
      BY DEF applicable
    <3>2. L(out) \subseteq DOMAIN out /\ L(lost) \subseteq DOMAIN out /\ L(out) \subseteq L(lost)
      BY <1>1, <3>1
    <3> HIDE DEF L, some
    <3>3. IsFiniteSet(L(lost)) /\ Cardinality(L(out)) \in Nat /\ Cardinality(L(lost)) \in Nat
            /\ Cardinality(some) \in Nat
      BY <3>1, <3>2, RecordsFinite
    <3> QED BY <3>2, <3>3, FS_Subset
  <2>2. /\ evidenceOf(out, eps) =
             IF 10 * Cardinality(L(out)) > Cardinality(some) \/ obstructsDraws(eps) THEN "obstructed"
             ELSE IF B(out) THEN "budget-limited" ELSE "sufficient"
        /\ evidenceOf(lost, eps) =
             IF 10 * Cardinality(L(lost)) > Cardinality(some) \/ obstructsDraws(eps) THEN "obstructed"
             ELSE IF B(lost) THEN "budget-limited" ELSE "sufficient"
    BY <1>1 DEF evidenceOf
  <2> HIDE DEF L, B, some
  <2> QED BY <2>1, <2>2
<1> QED BY <1>3, <1>4

-----------------------------------------------------------------------------
(* The headline *)

ConfidenceUnder(reading, ceiling) ==
  IF reading.confidence <= ceiling THEN reading.confidence ELSE ceiling

\* The parts of a report.
ReportParts(made, reading, out, signals, eps, pair) ==
  LET named       == reading.assessment.identity
      consistency == reading.assessment.consistency
      ceiling     == ceilingFor(out, signals, pair)
      confidence  == ConfidenceUnder(reading, ceiling)
  IN  /\ made.reading = reading /\ made.ceiling = ceiling /\ made.confidence = confidence
      /\ made.assessment.identity = named /\ made.assessment.consistency = consistency
      /\ made.headline \in {"pass", "fail", "caution"}
      /\ made.headline = "fail" <=>
           (named \in adverse \/ consistency = "fractional") /\ confidence >= 900
      /\ made.headline = "pass" <=>
           /\ named \notin adverse /\ consistency # "fractional"
           /\ evidenceOf(out, eps) # "obstructed"
           /\ named = "claim" /\ consistency = "uniform" /\ confidence >= 800

\* The parts of a report, each as the code fills it.
LEMMA ReportIs ==
  ASSUME NEW reading, NEW out, NEW signals, NEW eps, NEW pair
  PROVE  ReportParts(reportOf(reading, out, signals, eps, pair), reading, out, signals, eps, pair)
<1> DEFINE made == reportOf(reading, out, signals, eps, pair)
           read == reading.assessment
           ceiling == ceilingFor(out, signals, pair)
           confidence == ConfidenceUnder(reading, ceiling)
           assessment == [identity |-> read.identity, consistency |-> read.consistency,
                          platform |-> read.platform, translation |-> read.translation,
                          evidence |-> evidenceOf(out, eps)]
<1>1. made = [reading |-> reading, assessment |-> assessment, confidence |-> confidence,
              ceiling |-> ceiling, headline |-> verdictFor(assessment, confidence)]
  BY DEF reportOf, ConfidenceUnder
<1>2. /\ made.reading = reading /\ made.ceiling = ceiling /\ made.confidence = confidence
      /\ made.assessment = assessment /\ made.headline = verdictFor(assessment, confidence)
  <2> HIDE DEF made, ceiling, confidence, assessment
  <2> QED BY <1>1
<1>3. /\ assessment.identity = read.identity /\ assessment.consistency = read.consistency
      /\ assessment.evidence = evidenceOf(out, eps)
  OBVIOUS
<1> HIDE DEF made, read, ceiling, confidence, assessment
<1>4. CASE read.identity \in adverse \/ read.consistency = "fractional"
  <2>1. verdictFor(assessment, confidence) =
          IF confidence >= 900 THEN "fail" ELSE "caution"
    BY <1>3, <1>4 DEF verdictFor, MINIMUM_FAIL_CONFIDENCE
  <2> QED BY <1>2, <1>3, <1>4, <2>1 DEF ReportParts, made, read, ceiling, confidence
<1>5. CASE ~(read.identity \in adverse \/ read.consistency = "fractional")
  <2>1. verdictFor(assessment, confidence) =
          IF /\ evidenceOf(out, eps) # "obstructed"
             /\ read.identity = "claim" /\ read.consistency = "uniform" /\ confidence >= 800
          THEN "pass" ELSE "caution"
    BY <1>3, <1>5 DEF verdictFor, MINIMUM_PASS_CONFIDENCE
  <2> QED BY <1>2, <1>3, <1>5, <2>1 DEF ReportParts, made, read, ceiling, confidence
<1> QED BY <1>4, <1>5

-----------------------------------------------------------------------------
(* The inductive invariant of a run *)

HowEnded == {"pending", "ran", "aborted"} \union SkipReasons
RecordsApply == \A i \in Index : plan[i] # "none" => applies(i)
ReportIsFinal ==
  report # NoReport =>
    /\ Planned /\ Left = {}
    /\ report = assess(outcomes(plan, ended), said, epsilon, pairing)
verdictInv ==
  /\ planSpecInv /\ RecordsApply
  /\ ended \in [Index -> HowEnded]
  /\ Heard(said)
  /\ epsilon \in DrawResults \union {Nothing}
  /\ ReportIsFinal

\* The invariant holds before anything is planned.
LEMMA InitVerdict == VerdictInit => verdictInv
<1> SUFFICES ASSUME VerdictInit PROVE verdictInv
  OBVIOUS
<1>1. planSpecInv
  BY InitPlan DEF VerdictInit
<1>2. RecordsApply
  BY DEF VerdictInit, Init, RecordsApply
<1>3. ended \in [Index -> HowEnded]
  BY DEF VerdictInit, HowEnded
<1>4. Heard(said)
  BY FS_EmptySet DEF VerdictInit, Heard
<1> QED BY <1>1, <1>2, <1>3, <1>4 DEF VerdictInit, verdictInv, ReportIsFinal

\* The planner records what applies.
LEMMA PlansApply ==
  ASSUME verdictInv, Plans
  PROVE  RecordsApply'
<1>1. \A i : applies(i)' = applies(i)
  BY DEF Plans, consider, PassOver, Block, Refuse, Admit, Record, applies
<1>2. \E entry : plan' = [plan EXCEPT ![at] = entry] /\ (entry # "none" => applies(at))
  <2>1. CASE PassOver
    BY <2>1 DEF PassOver, Record
  <2>2. CASE Block
    BY <2>2 DEF Block, Record
  <2>3. CASE Refuse
    BY <2>3 DEF Refuse, Record
  <2>4. CASE Admit
    BY <2>4 DEF Admit, Record
  <2> QED BY <2>1, <2>2, <2>3, <2>4 DEF Plans, consider
<1>3. PICK entry : plan' = [plan EXCEPT ![at] = entry] /\ (entry # "none" => applies(at))
  BY <1>2
<1> SUFFICES ASSUME NEW i \in Index, plan'[i] # "none" PROVE applies(i)'
  BY DEF RecordsApply
<1>4. DOMAIN plan = Index
  BY DEF verdictInv, planSpecInv, TypeOK
<1>5. CASE i = at
  BY <1>1, <1>3, <1>4, <1>5
<1>6. CASE i # at
  BY <1>1, <1>3, <1>4, <1>6 DEF verdictInv, RecordsApply
<1> QED BY <1>5, <1>6

\* A step of the planner keeps the invariant.
LEMMA PlansKeep ==
  ASSUME verdictInv, Plans
  PROVE  verdictInv'
<1>1. planSpecInv'
  BY ConsiderSteps, StepKeeps DEF verdictInv, Plans
<1>2. /\ ended' = ended /\ said' = said /\ epsilon' = epsilon /\ report' = report
  BY DEF Plans, runVars
<1>3. report = NoReport
  <2>1. at \in Index
    BY DEF Plans, consider, PassOver, Block, Refuse, Admit, Considering
  <2>2. ~Planned
    <3>1. Len(PROBE_CATALOGUE) \in Nat
      BY CatalogueAssumption
    <3> QED BY <2>1, <3>1 DEF Index, Planned
  <2> QED BY <2>2 DEF verdictInv, ReportIsFinal
<1>4. ReportIsFinal'
  BY <1>2, <1>3 DEF ReportIsFinal
<1> QED BY <1>1, <1>2, <1>4, PlansApply DEF verdictInv

\* While something is left to run, there is no report; and what a run takes next is
\* among it.
LEMMA LeftHasNoReport ==
  ASSUME verdictInv, Left # {} PROVE report = NoReport
BY DEF verdictInv, ReportIsFinal

\* The next probes to run are among those left.
LEMMA OrderedIsLeft ==
  ASSUME NEW left PROVE ordered(left) \subseteq left
BY DEF ordered

\* A step that settles one of those, and what it hears, keeps the invariant.
LEMMA SettleKeeps ==
  ASSUME verdictInv, NEW i \in ordered(Left), NEW how \in HowEnded, Settle(i, how),
         Heard(said'), epsilon' \in DrawResults \union {Nothing}
  PROVE  verdictInv'
<1>1. i \in Left /\ report = NoReport
  BY OrderedIsLeft, LeftHasNoReport
<1>2. UNCHANGED planVars /\ report' = NoReport
  BY <1>1 DEF Settle
<1>3. planSpecInv'
  BY <1>2 DEF verdictInv, planVars, planSpecInv, TypeOK, PlanIsTight, PlanFits,
       LeftOutHasNoRoom, NothingDropped, fits, applies, requestCost, tokenCost, Times
<1>4. RecordsApply'
  BY <1>2 DEF verdictInv, planVars, RecordsApply, applies
<1>5. ended' \in [Index -> HowEnded]
  BY DEF verdictInv, Settle
<1> QED BY <1>2, <1>3, <1>4, <1>5 DEF verdictInv, ReportIsFinal

\* A function makes no more of finitely many.
LEMMA ImageFinite ==
  ASSUME NEW f, IsFiniteSet(DOMAIN f)
  PROVE  IsFiniteSet({f[x] : x \in DOMAIN f})
<1> DEFINE T == {f[x] : x \in DOMAIN f}
           g == [x \in DOMAIN f |-> f[x]]
<1>1. g \in Surjection(DOMAIN f, T)
  BY DEF Surjection
<1> HIDE DEF g, T
<1>2. IsFiniteSet(T)
  BY <1>1, FS_Surjection
<1> QED BY <1>2 DEF T

\* A probe that runs and says what it says keeps the invariant.
LEMMA RunsKeep ==
  ASSUME verdictInv, Runs
  PROVE  verdictInv'
<1>1. PICK i \in ordered(Left) :
        /\ ~isDilutionProbe(i)
        /\ \E signals \in Says(PROBE_CATALOGUE[i]) :
             said' = said \union {[probe |-> i, group |-> PROBE_CATALOGUE[i].group, signal |-> s] :
                                   s \in signals}
        /\ Settle(i, "ran")
  BY DEF Runs
<1>2. PICK signals \in Says(PROBE_CATALOGUE[i]) :
        said' = said \union {[probe |-> i, group |-> PROBE_CATALOGUE[i].group, signal |-> s] :
                              s \in signals}
  BY <1>1
<1> DEFINE group == PROBE_CATALOGUE[i].group
           new == {[probe |-> i, group |-> group, signal |-> s] : s \in signals}
<1>3. i \in Index
  BY OrderedIsLeft DEF Left, Admitted
<1>4. group \in ProbeGroups \ {"F"}
  BY <1>1, <1>3, CatalogueType DEF isDilutionProbe
<1>5. IsFiniteSet(signals) /\ signals \subseteq Signals
  BY <1>3, SaysAssumption
<1> HIDE DEF group
<1>6. IsFiniteSet(new)
  <2> DEFINE f == [s \in signals |-> [probe |-> i, group |-> group, signal |-> s]]
  <2>1. IsFiniteSet(DOMAIN f) /\ new = {f[s] : s \in DOMAIN f}
    BY <1>5
  <2> HIDE DEF f, new
  <2> QED BY <2>1, ImageFinite
<1>7. new \subseteq Said
  BY <1>3, <1>4, <1>5 DEF Said
<1>8. said' = said \union new
  BY <1>2 DEF group
<1> HIDE DEF new
<1>9. Heard(said')
  BY <1>6, <1>7, <1>8, FS_Union DEF verdictInv, Heard
<1>10. "ran" \in HowEnded /\ epsilon' \in DrawResults \union {Nothing}
  BY DEF Runs, HowEnded, verdictInv
<1> QED BY <1>1, <1>9, <1>10, SettleKeeps

\* A probe that is skipped or fails keeps the invariant.
LEMMA SkipKeeps ==
  ASSUME verdictInv, Skip
  PROVE  verdictInv'
<1>1. PICK i \in ordered(Left),
           reason \in {"not-applicable", "endpoint-error", "budget-exceeded", "blocked",
                       "probe-error", "unsupported-by-transport"} :
        Settle(i, reason)
  BY DEF Skip
<1>2. reason \in HowEnded
  BY DEF HowEnded, SkipReasons
<1>3. Heard(said') /\ epsilon' \in DrawResults \union {Nothing}
  BY DEF Skip, verdictInv
<1> QED BY <1>1, <1>2, <1>3, SettleKeeps

\* The draws of group F keep the invariant.
LEMMA DrawsKeep ==
  ASSUME verdictInv, Draws
  PROVE  verdictInv'
<1>1. PICK i \in ordered(Left), how \in {"ran", "budget-exceeded"} :
        Settle(i, how) /\ epsilon' \in DrawResults
  BY DEF Draws
<1>2. how \in HowEnded
  BY DEF HowEnded, SkipReasons
<1>3. Heard(said')
  BY DEF Draws, verdictInv
<1> QED BY <1>1, <1>2, <1>3, SettleKeeps

\* A run cut short keeps the invariant.
LEMMA EndsKeep ==
  ASSUME verdictInv, Ends
  PROVE  verdictInv'
<1>1. report = NoReport
  BY LeftHasNoReport DEF Ends
<1>2. UNCHANGED planVars /\ report' = NoReport /\ said' = said /\ epsilon' = epsilon
  BY <1>1 DEF Ends
<1>3. planSpecInv'
  BY <1>2 DEF verdictInv, planVars, planSpecInv, TypeOK, PlanIsTight, PlanFits,
       LeftOutHasNoRoom, NothingDropped, fits, applies, requestCost, tokenCost, Times
<1>4. RecordsApply'
  BY <1>2 DEF verdictInv, planVars, RecordsApply, applies
<1>5. ended' \in [Index -> HowEnded]
  BY DEF verdictInv, Ends, HowEnded
<1> QED BY <1>2, <1>3, <1>4, <1>5 DEF verdictInv, ReportIsFinal

\* Writing the report keeps the invariant.
LEMMA ReportKeeps ==
  ASSUME verdictInv, Report
  PROVE  verdictInv'
<1>1. UNCHANGED <<planVars, pairing, ended, said, epsilon>>
  BY DEF Report
<1>2. planSpecInv'
  BY <1>1 DEF verdictInv, planVars, planSpecInv, TypeOK, PlanIsTight, PlanFits,
       LeftOutHasNoRoom, NothingDropped, fits, applies, requestCost, tokenCost, Times
<1>3. RecordsApply'
  BY <1>1 DEF verdictInv, planVars, RecordsApply, applies
<1>4. Planned' /\ Left' = {}
  BY <1>1 DEF Report, planVars, Planned, Left, Admitted
<1>5. ReportIsFinal'
  BY <1>1, <1>4 DEF Report, planVars, ReportIsFinal
<1> QED BY <1>1, <1>2, <1>3, <1>5 DEF verdictInv

\* A step that changes nothing keeps the invariant.
LEMMA StutterKeeps ==
  ASSUME verdictInv, UNCHANGED vars
  PROVE  verdictInv'
<1>1. UNCHANGED <<planVars, runVars>>
  BY DEF vars
<1>2. planSpecInv'
  BY <1>1 DEF verdictInv, planVars, planSpecInv, TypeOK, PlanIsTight, PlanFits,
       LeftOutHasNoRoom, NothingDropped, fits, applies, requestCost, tokenCost, Times
<1>3. RecordsApply'
  BY <1>1 DEF verdictInv, planVars, RecordsApply, applies
<1>4. Planned' = Planned /\ Left' = Left
  BY <1>1 DEF planVars, runVars, Planned, Left, Admitted
<1>5. ReportIsFinal'
  BY <1>1, <1>4 DEF verdictInv, planVars, runVars, ReportIsFinal
<1> QED BY <1>1, <1>2, <1>3, <1>5 DEF verdictInv, runVars

\* The invariant is inductive.
LEMMA SpecVerdict == VerdictSpec => []verdictInv
<1>1. verdictInv /\ [Next]_vars => verdictInv'
  <2> SUFFICES ASSUME verdictInv, [Next]_vars PROVE verdictInv'
    OBVIOUS
  <2>1. CASE Plans
    BY <2>1, PlansKeep
  <2>2. CASE Runs
    BY <2>2, RunsKeep
  <2>3. CASE Skip
    BY <2>3, SkipKeeps
  <2>4. CASE Draws
    BY <2>4, DrawsKeep
  <2>5. CASE Ends
    BY <2>5, EndsKeep
  <2>6. CASE Report
    BY <2>6, ReportKeeps
  <2>7. CASE UNCHANGED vars
    BY <2>7, StutterKeeps
  <2> QED BY <2>1, <2>2, <2>3, <2>4, <2>5, <2>6, <2>7 DEF Next
<1> QED BY <1>1, InitVerdict, PTL DEF VerdictSpec

-----------------------------------------------------------------------------
(* What a report says *)

Out == outcomes(plan, ended)

\* The run's outcomes: one record per planned entry, the skip reason of one not admitted.
LEMMA OutIs ==
  ASSUME verdictInv
  PROVE  /\ Recorded(Out)
         /\ DOMAIN Out = {i \in Index : plan[i] # "none"}
         /\ \A i \in DOMAIN Out : Out[i] = IF plan[i] = "admitted" THEN ended[i] ELSE plan[i]
BY DEF Recorded, Out, outcomes

\* What was reported, part by part.
LEMMA Reported ==
  ASSUME verdictInv, report # NoReport
  PROVE  /\ ReportParts(report, readingOf(said, epsilon, pairing), Out, said, epsilon, pairing)
         /\ ReadingParts(said, epsilon, pairing)
         /\ report = reportOf(readingOf(said, epsilon, pairing), Out, said, epsilon, pairing)
<1>1. report = reportOf(readingOf(said, epsilon, pairing), Out, said, epsilon, pairing)
  BY DEF verdictInv, ReportIsFinal, assess, Out
<1> QED BY <1>1, ReportIs, ReadingIs

\* The numbers of a report: a confidence under its ceiling and under the reading's own.
LEMMA ReportNumbers ==
  ASSUME verdictInv, report # NoReport
  PROVE  /\ report.confidence \in 0 .. 1000 /\ report.ceiling \in 0 .. 980
         /\ readingOf(said, epsilon, pairing).confidence \in 0 .. 1000
         /\ report.ceiling = ceilingFor(Out, said, pairing)
         /\ report.confidence <= report.ceiling
         /\ report.confidence <= readingOf(said, epsilon, pairing).confidence
<1> DEFINE raw == readingOf(said, epsilon, pairing).confidence
<1>1. report.ceiling \in 0 .. 980 /\ report.ceiling = ceilingFor(Out, said, pairing)
  BY Reported, OutIs, CeilingTakes DEF ReportParts
<1>2. raw \in 0 .. 1000
  BY ReadingIsShare DEF verdictInv
<1>3. report.confidence = IF raw <= report.ceiling THEN raw ELSE report.ceiling
  BY Reported DEF ReportParts, ConfidenceUnder
<1> HIDE DEF raw
<1>4. /\ report.confidence \in 0 .. 1000 /\ report.confidence <= report.ceiling
      /\ report.confidence <= raw
  BY <1>1, <1>2, <1>3
<1> QED BY <1>1, <1>2, <1>4 DEF raw

\* A group is heard only where the profile has it.
LEMMA RanIsInProfile ==
  ASSUME verdictInv, groupRan(Out, "B")
  PROVE  options.profile # "quick"
<1>1. PICK i \in DOMAIN Out : PROBE_CATALOGUE[i].group = "B"
  BY DEF groupRan, applicable
<1>2. i \in Index /\ plan[i] # "none"
  BY <1>1, OutIs
<1>3. "B" \in profileDefinition[options.profile].groups
  BY <1>1, <1>2 DEF verdictInv, RecordsApply, applies
<1>4. profileDefinition["quick"].groups = {"A"}
  BY DEF profileDefinition, Definition
<1> QED BY <1>3, <1>4

\* In every state of the invariant a pass is earned.
LEMMA PassEarned ==
  ASSUME verdictInv PROVE PassIsEarned
<1> SUFFICES ASSUME report # NoReport, report.headline = "pass"
             PROVE  LET llr == identityLlr(said)
                    IN  /\ groupRan(Out, "B") /\ groupRan(Out, "C") /\ options.profile # "quick"
                        /\ epsilon.trials >= MIN_TRIALS /\ epsilon.disagreements = 0
                        /\ 10 * epsilon.lost <= epsilon.trials + epsilon.lost
                        /\ 10 * Cardinality({i \in DOMAIN Out : Out[i] = "endpoint-error"})
                             <= Cardinality(applicable(Out))
                        /\ llr["claim"] >= 9 /\ \A f \in adverse : llr["claim"] >= llr[f] + 7
  BY DEF PassIsEarned, Out
<1> DEFINE read == readingOf(said, epsilon, pairing)
           llr == identityLlr(said)
           vetoes == vetoesOf(said)
           post == posteriorOf(IDENTITY_PRIOR, llr)
<1>1. /\ read.assessment.identity = "claim" /\ read.assessment.consistency = "uniform"
      /\ evidenceOf(Out, epsilon) # "obstructed" /\ report.confidence >= 800
  BY Reported DEF ReportParts
<1>2. identityOf(llr, "uniform", vetoes) = "claim" /\ consistencyOf(epsilon) = "uniform"
  BY <1>1, Reported DEF ReadingParts
<1>3. epsilon.trials >= MIN_TRIALS /\ epsilon.disagreements = 0
  BY <1>2, DrawsRead DEF verdictInv
<1>4. report.ceiling >= 800 /\ read.confidence >= 800
  <2> DEFINE a == report.confidence
             b == report.ceiling
             c == read.confidence
  <2>1. a \in 0 .. 1000 /\ b \in 0 .. 980 /\ c \in 0 .. 1000 /\ a <= b /\ a <= c
    BY ReportNumbers
  <2>2. a >= 800
    BY <1>1
  <2> HIDE DEF a, b, c
  <2>3. b >= 800 /\ c >= 800
    BY <2>1, <2>2
  <2> QED BY <2>3 DEF b, c
<1>5. groupRan(Out, "B") /\ groupRan(Out, "C")
  <2>1. ceilingFor(Out, said, pairing) >= 800
    BY <1>4, ReportNumbers
  <2> QED BY <2>1, OutIs, CeilingTakes
<1>6. options.profile # "quick"
  BY <1>5, RanIsInProfile
<1>7. /\ 10 * epsilon.lost <= epsilon.trials + epsilon.lost
      /\ 10 * Cardinality({i \in DOMAIN Out : Out[i] = "endpoint-error"}) <= Cardinality(applicable(Out))
  <2> DEFINE lost == {i \in applicable(Out) : Out[i] = "endpoint-error"}
             failed == {i \in DOMAIN Out : Out[i] = "endpoint-error"}
  <2>1. ~(10 * Cardinality(lost) > Cardinality(applicable(Out))) /\ ~obstructsDraws(epsilon)
    BY <1>1 DEF evidenceOf
  <2>2. lost = failed
    BY DEF applicable, NOT_EVIDENCE
  <2>3. Cardinality(lost) \in Nat /\ Cardinality(applicable(Out)) \in Nat
    <3>1. lost \subseteq DOMAIN Out /\ applicable(Out) \subseteq DOMAIN Out
      BY DEF applicable
    <3> HIDE DEF lost
    <3> QED BY <3>1, OutIs, RecordsFinite
  <2>4. epsilon.lost \in Nat /\ (epsilon.trials \in Nat \/ epsilon.trials = -1)
    BY DrawsAre DEF verdictInv
  <2>5. 10 * epsilon.lost <= epsilon.trials + epsilon.lost
    BY <1>3, <2>1, <2>4 DEF obstructsDraws, None, MIN_TRIALS
  <2> HIDE DEF lost, failed
  <2>6. 10 * Cardinality(failed) <= Cardinality(applicable(Out))
    BY <2>1, <2>2, <2>3
  <2> QED BY <2>5, <2>6 DEF failed
<1>8. llr \in Llrs /\ llr["unknown"] = 0 /\ vetoes \in SUBSET Identity /\ \A f \in vetoes : llr[f] <= -60
  BY HeardLlr DEF verdictInv
<1>9. "claim" \notin adverse /\ "claim" # "unknown" /\ "claim" \in IDENTITY_FINDINGS
  BY DEF adverse, ADVERSE, IDENTITY_FINDINGS
<1>10. "claim" \notin vetoes
  <2> HIDE DEF llr, vetoes
  <2> QED BY <1>2, <1>8, NamedIsStanding
<1>11. \A f \in IDENTITY_FINDINGS : llr["claim"] >= llr[f]
  <2> HIDE DEF llr, vetoes
  <2>1. \A f \in IDENTITY_FINDINGS \ {"claim"} : llr["claim"] > llr[f]
    BY <1>2, <1>8, <1>10, AccusedLeads
  <2>2. \A f \in IDENTITY_FINDINGS : llr[f] \in Int
    BY <1>8 DEF Llrs
  <2> QED BY <1>9, <2>1, <2>2
<1>12. post["claim"] >= 800
  <2> DEFINE whole == post["claim"]
             part == consistencyPosterior(epsilon)
             raw == read.confidence
  <2>1. raw = (whole * part) \div 1000 /\ raw >= 800
    BY <1>1, <1>2, <1>4, <1>9, Reported DEF ReadingParts
  <2>2. whole \in Shares
    <3> HIDE DEF part, raw, read, vetoes
    <3>1. \A f \in IDENTITY_FINDINGS : post[f] \in Shares
      <4>1. llr \in Llrs
        BY <1>8
      <4> HIDE DEF llr
      <4> QED BY <4>1, PosteriorShare
    <3> HIDE DEF post
    <3> QED BY <1>9, <3>1
  <2>3. part \in Shares
    BY DrawsRead DEF verdictInv, Shares
  <2> HIDE DEF whole, part, raw, read, post
  <2>4. ShareOf(whole, part) <= whole
    BY <2>2, <2>3, ShareOfShare, Zenon
  <2>5. whole \in Int /\ raw \in Int
    BY <2>1, <2>2, <2>3 DEF Shares
  <2>6. raw <= whole
    BY <2>1, <2>4 DEF ShareOf
  <2>7. whole >= 800
    BY <2>1, <2>5, <2>6
  <2> QED BY <2>7 DEF whole
<1>13. llr["claim"] >= 9 /\ \A f \in adverse : llr["claim"] >= llr[f] + 7
  <2> HIDE DEF llr
  <2> QED BY <1>8, <1>11, <1>12, ClaimStandsOut DEF post
<1> QED BY <1>3, <1>5, <1>6, <1>7, <1>13

\* In every state of the invariant a fail is earned.
LEMMA FailEarned ==
  ASSUME verdictInv PROVE FailIsEarned
<1> DEFINE read == readingOf(said, epsilon, pairing)
           llr == identityLlr(said)
           vetoes == vetoesOf(said)
           post == posteriorOf(IDENTITY_PRIOR, llr)
           f == report.assessment.identity
<1> SUFFICES ASSUME report # NoReport, report.headline = "fail"
             PROVE  /\ \A g \in {"B", "C", "D"} : groupRan(Out, g)
                    /\ 200 * Cardinality(gaps(Out)) <= 80 * Cardinality(applicable(Out))
                    /\ \/ epsilon.trials >= MIN_TRIALS /\ minority(epsilon) >= 4
                       \/ "claim" \in vetoes
                       \/ /\ f \in adverse /\ llr[f] >= 8 /\ llr[f] >= llr["claim"] + 6
                          /\ \A g \in adverse \ {f} : llr[f] > llr[g]
  BY DEF FailIsEarned, Out
<1>1. /\ f \in adverse \/ consistencyOf(epsilon) = "fractional"
      /\ f = identityOf(llr, consistencyOf(epsilon), vetoes)
      /\ report.confidence >= 900
  BY Reported DEF ReportParts, ReadingParts
<1>2. report.ceiling >= 900 /\ read.confidence >= 900
  <2> DEFINE a == report.confidence
             b == report.ceiling
             c == read.confidence
  <2>1. a \in 0 .. 1000 /\ b \in 0 .. 980 /\ c \in 0 .. 1000 /\ a <= b /\ a <= c
    BY ReportNumbers
  <2>2. a >= 900
    BY <1>1
  <2> HIDE DEF a, b, c
  <2>3. b >= 900 /\ c >= 900
    BY <2>1, <2>2
  <2> QED BY <2>3 DEF b, c
<1>3. /\ \A g \in {"B", "C", "D"} : groupRan(Out, g)
      /\ 200 * Cardinality(gaps(Out)) <= 80 * Cardinality(applicable(Out))
  <2>1. ceilingFor(Out, said, pairing) >= 900
    BY <1>2, ReportNumbers
  <2>2. ceilingFor(Out, said, pairing) \in 0 .. 980
    BY OutIs, CeilingTakes
  <2>3. ceilingFor(Out, said, pairing) >= 800
    BY <2>1, <2>2
  <2>4. groupRan(Out, "B") /\ groupRan(Out, "C")
    BY <2>3, OutIs, CeilingTakes
  <2>5. /\ groupRan(Out, "D")
        /\ 200 * Cardinality(gaps(Out)) <= 80 * Cardinality(applicable(Out))
    BY <2>1, OutIs, CeilingTakes
  <2> QED BY <2>4, <2>5
<1>4. CASE consistencyOf(epsilon) = "fractional"
  <2>1. read.confidence = consistencyPosterior(epsilon)
    BY <1>4, Reported DEF ReadingParts
  <2>2. epsilon.trials >= MIN_TRIALS /\ minority(epsilon) >= 4
    BY <1>2, <1>4, <2>1, DrawsRead DEF verdictInv
  <2> QED BY <1>3, <2>2
<1>5. CASE consistencyOf(epsilon) # "fractional" /\ "claim" \notin vetoes
  <2>1. llr \in Llrs /\ llr["unknown"] = 0
    BY HeardLlr DEF verdictInv
  <2>2. f \in adverse /\ f # "unknown"
    BY <1>1, <1>5 DEF adverse, ADVERSE
  <2>3. read.confidence = post["cheaper"] + post["other"] + post["canned"]
    BY <1>1, <1>5, <2>2, Reported DEF ReadingParts
  <2>4. f \in IDENTITY_FINDINGS /\ \A g \in IDENTITY_FINDINGS \ {f} : llr[f] > llr[g]
    <3> HIDE DEF llr, vetoes, f
    <3> QED BY <1>1, <1>5, <2>1, <2>2, AccusedLeads
  <2>5. \A g \in IDENTITY_FINDINGS : llr[f] >= llr[g]
    <3> HIDE DEF llr, f
    <3>1. \A g \in IDENTITY_FINDINGS : llr[g] \in Int
      BY <2>1 DEF Llrs
    <3> QED BY <2>4, <3>1
  <2>6. \A g \in adverse \ {f} : llr[f] > llr[g]
    <3>1. adverse \subseteq IDENTITY_FINDINGS
      BY DEF adverse, ADVERSE, IDENTITY_FINDINGS
    <3> HIDE DEF llr, f
    <3> QED BY <2>4, <3>1
  <2>7. post["cheaper"] + post["other"] + post["canned"] >= 900
    BY <1>2, <2>3
  <2>8. llr[f] >= 8 /\ llr[f] >= llr["claim"] + 6
    <3> HIDE DEF llr, f
    <3> QED BY <2>1, <2>2, <2>5, <2>6, <2>7, AccusationStandsOut DEF post
  <2> QED BY <1>3, <2>2, <2>6, <2>8
<1>6. CASE "claim" \in vetoes
  BY <1>3, <1>6
<1> QED BY <1>4, <1>5, <1>6

\* In every state of the invariant no finding that was ruled out is named.
LEMMA RuledOutUnnamed ==
  ASSUME verdictInv PROVE RuledOutIsNotNamed
<1> SUFFICES ASSUME report # NoReport
             PROVE  /\ report.assessment.identity \notin vetoesOf(said)
                    /\ report.assessment.consistency = "fractional" =>
                         report.assessment.identity # "claim"
  BY DEF RuledOutIsNotNamed
<1> DEFINE llr == identityLlr(said)
           vetoes == vetoesOf(said)
           consistency == consistencyOf(epsilon)
<1>1. /\ report.assessment.identity = identityOf(llr, consistency, vetoes)
      /\ report.assessment.consistency = consistency
  BY Reported DEF ReportParts, ReadingParts
<1>2. llr \in Llrs /\ llr["unknown"] = 0 /\ vetoes \in SUBSET Identity /\ \A f \in vetoes : llr[f] <= -60
  BY HeardLlr DEF verdictInv
<1> HIDE DEF llr, vetoes, consistency
<1>3. LET f == identityOf(llr, consistency, vetoes)
      IN  f \notin vetoes /\ (consistency = "fractional" => f # "claim")
  BY <1>2, NamedIsStanding
<1> QED BY <1>1, <1>3 DEF vetoes

\* In every state of the invariant a lost probe only blurs the report.
LEMMA GapsBlur ==
  ASSUME verdictInv PROVE GapsOnlyBlur
<1> SUFFICES ASSUME report # NoReport, NEW i \in Admitted, ended[i] = "ran"
             PROVE  LET lost == reportOf(report.reading,
                                         outcomes(plan, [ended EXCEPT ![i] = "endpoint-error"]),
                                         said, epsilon, pairing)
                    IN  /\ lost.headline \in {report.headline, "caution"}
                        /\ lost.confidence <= report.confidence
  BY DEF GapsOnlyBlur
<1> DEFINE read == readingOf(said, epsilon, pairing)
           gone == outcomes(plan, [ended EXCEPT ![i] = "endpoint-error"])
           lost == reportOf(read, gone, said, epsilon, pairing)
           under == ceilingFor(gone, said, pairing)
           above == ceilingFor(Out, said, pairing)
<1>1. i \in Index /\ plan[i] = "admitted"
  BY DEF Admitted
<1>2. LosesOne(Out, gone, i)
  <2>1. i \in DOMAIN Out /\ Out[i] = "ran"
    BY <1>1, OutIs
  <2>2. gone = [j \in DOMAIN Out |-> IF j = i THEN "endpoint-error" ELSE Out[j]]
    <3>1. gone = [j \in DOMAIN Out |-> IF plan[j] = "admitted"
                                       THEN [ended EXCEPT ![i] = "endpoint-error"][j] ELSE plan[j]]
      BY DEF Out, outcomes
    <3>2. DOMAIN ended = Index /\ DOMAIN Out \subseteq Index
      BY OutIs DEF verdictInv, Recorded
    <3>3. \A j \in DOMAIN Out :
            (IF plan[j] = "admitted" THEN [ended EXCEPT ![i] = "endpoint-error"][j] ELSE plan[j])
              = IF j = i THEN "endpoint-error" ELSE Out[j]
      BY <1>1, <3>2, OutIs
    <3> HIDE DEF gone
    <3> QED BY <3>1, <3>3
  <2>3. Out = [j \in DOMAIN Out |-> Out[j]]
    BY DEF Out, outcomes
  <2>4. gone = [Out EXCEPT ![i] = "endpoint-error"]
    <3> HIDE DEF gone
    <3> QED BY <2>1, <2>2, <2>3
  <2> QED BY <2>1, <2>4 DEF LosesOne
<1>3. /\ ceilingFor(gone, said, pairing) <= ceilingFor(Out, said, pairing)
      /\ evidenceOf(gone, epsilon) # "obstructed" => evidenceOf(Out, epsilon) # "obstructed"
      /\ Recorded(gone)
  <2> HIDE DEF gone
  <2> QED BY <1>2, OutIs, LosingBlurs, LosingKeepsRecords
<1>4. /\ ReportParts(lost, read, gone, said, epsilon, pairing)
      /\ ReportParts(report, read, Out, said, epsilon, pairing)
  BY Reported, ReportIs
<1>5. report.reading = read
  BY <1>4 DEF ReportParts
<1>6. /\ lost.confidence <= report.confidence
      /\ lost.confidence >= 800 => report.confidence >= 800
      /\ lost.confidence >= 900 => report.confidence >= 900
  <2> DEFINE a == lost.confidence
             b == report.confidence
             c == read.confidence
  <2>1. /\ a = IF c <= under THEN c ELSE under
        /\ b = IF c <= above THEN c ELSE above
    BY <1>4 DEF ReportParts, ConfidenceUnder
  <2>2. c \in 0 .. 1000
    BY ReportNumbers
  <2>3. under \in 0 .. 980 /\ above \in 0 .. 980 /\ under <= above
    <3> HIDE DEF gone
    <3> QED BY <1>3, OutIs, CeilingTakes
  <2> HIDE DEF a, b, c, under, above
  <2>4. a <= b /\ (a >= 800 => b >= 800) /\ (a >= 900 => b >= 900)
    BY <2>1, <2>2, <2>3
  <2> QED BY <2>4 DEF a, b
<1>7. lost.headline \in {report.headline, "caution"}
  <2>1. /\ lost.headline \in {"pass", "fail", "caution"}
        /\ report.headline \in {"pass", "fail", "caution"}
    BY <1>4 DEF ReportParts
  <2>2. lost.headline = "pass" => report.headline = "pass"
    <3> HIDE DEF lost, read, gone
    <3> QED BY <1>3, <1>4, <1>6 DEF ReportParts
  <2>3. lost.headline = "fail" => report.headline = "fail"
    <3> HIDE DEF lost, read, gone
    <3> QED BY <1>4, <1>6 DEF ReportParts
  <2> HIDE DEF lost
  <2> QED BY <2>1, <2>2, <2>3
<1> QED BY <1>5, <1>6, <1>7

\* In every state of the invariant a confidence is a share under its ceiling.
LEMMA ConfidenceShare ==
  ASSUME verdictInv PROVE ConfidenceIsShare
BY ReportNumbers DEF ConfidenceIsShare

-----------------------------------------------------------------------------
\* A run plans as the planner does: the plan it works through is tight throughout.
THEOREM RunsPlanTightly == VerdictSpec => []PlanIsTight
BY SpecVerdict, PTL DEF verdictInv, planSpecInv

\* Nothing is cleared that was not looked at, whatever the catalogue, the budget,
\* the answers and the draws were.
THEOREM PassesAreEarned == VerdictSpec => []PassIsEarned
BY SpecVerdict, PassEarned, PTL

\* Nobody is accused on a little.
THEOREM FailsAreEarned == VerdictSpec => []FailIsEarned
BY SpecVerdict, FailEarned, PTL

\* What a decisive probe rules out is not named, nor the claim under a mixture.
THEOREM RuledOutIsNeverNamed == VerdictSpec => []RuledOutIsNotNamed
BY SpecVerdict, RuledOutUnnamed, PTL

\* Losing a probe that said nothing only blurs the report.
THEOREM LosingOnlyBlurs == VerdictSpec => []GapsOnlyBlur
BY SpecVerdict, GapsBlur, PTL

\* Every confidence is a share of one: the headline is always computed.
THEOREM ConfidencesAreShares == VerdictSpec => []ConfidenceIsShare
BY SpecVerdict, ConfidenceShare, PTL
=============================================================================
