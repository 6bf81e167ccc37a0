---------------------------- MODULE StoreProofs ----------------------------
(***************************************************************************)
(* Proofs about CheckStore, for any set of checks and any bounds, and      *)
(* about Page, which is used over it.                                      *)
(*                                                                         *)
(* AtMostOneLive and the rest are not inductive alone. What makes them so: *)
(* an armed timer always belongs to an estimate (so its callback, which    *)
(* asks nothing, cannot end a run), and the live check is the newest entry *)
(* of the Map (so no prune can take it, nor the check that just ended).    *)
(*                                                                         *)
(* A page asks of the daemon only what the store allows, so the store's    *)
(* invariant holds under it; that the store moves checks onward only is    *)
(* what keeps what a page was told true.                                   *)
(***************************************************************************)
EXTENDS Page, FiniteSetTheorems, TLAPS

TimersAreEstimates == timers = InState("prepared")

PendingIsNew ==
    /\ preparing <=> pending # NoCheck
    /\ pending # NoCheck => state[pending] = "absent"

LiveIsNewest == \A c \in Live : \A d \in Checks \ {c} : inserted[d] < inserted[c]

IInv ==
    /\ TypeOK
    /\ AtMostOneLive
    /\ RunsMatchEntries
    /\ KeyOnlyWhileLive
    /\ ClosedIsQuiet
    /\ TimersAreEstimates
    /\ PendingIsNew
    /\ LiveIsNewest

---------------------------------------------------------------------------
\* Pruning touches ended checks only, and what it touches it evicts.
LEMMA PrunedKeeps ==
    ASSUME NEW st, NEW ins, NEW c \in Checks
    PROVE  /\ st[c] \notin Final => Pruned(st, ins)[c] = st[c]
           /\ st[c] \in Final => Pruned(st, ins)[c] \in {st[c], "evicted"}
BY DEF Pruned, Evicted, Ended

\* Pruning leaves a map of states.
LEMMA PrunedType ==
    ASSUME NEW st \in [Checks -> States], NEW ins
    PROVE  Pruned(st, ins) \in [Checks -> States]
BY DEF Pruned, States

\* The newest of all entries is never evicted.
LEMMA NewestIsKept ==
    ASSUME NEW st, NEW ins \in [Checks -> Nat], NEW c \in Checks,
           \A d \in Checks \ {c} : ins[d] < ins[c]
    PROVE  Pruned(st, ins)[c] = st[c]
<1>1. {d \in Ended(st) : ins[d] > ins[c]} = {}
    BY DEF Ended
<1>2. Cardinality({}) = 0
    BY FS_EmptySet
<1>3. c \notin Evicted(st, ins)
    BY <1>1, <1>2, BoundsAssumption DEF Evicted
<1> QED BY <1>3 DEF Pruned

\* The strengthening holds of a daemon that has just started.
LEMMA InitIInv == Init => IInv
<1> SUFFICES ASSUME Init PROVE IInv
    OBVIOUS
<1> USE DEF Init, InState
<1>1. TypeOK
  <2>1. 0 \in 0..MaxStored /\ \A c \in Checks : 0 <= Budget[c]
    BY BoundsAssumption
  <2>2. clock \in Nat /\ inserted \in [Checks -> 0..clock]
    OBVIOUS
  <2>3. state \in [Checks -> States] /\ task \in [Checks -> Tasks]
    BY DEF States, Tasks
  <2> QED BY <2>1, <2>2, <2>3 DEF TypeOK
<1>2. Live = {} /\ timers = InState("prepared")
    BY DEF Live
<1>3. RunsMatchEntries /\ KeyOnlyWhileLive /\ ClosedIsQuiet /\ PendingIsNew
    BY BoundsAssumption DEF RunsMatchEntries, KeyOnlyWhileLive, ClosedIsQuiet, PendingIsNew
<1> QED
    BY <1>1, <1>2, <1>3 DEF IInv, AtMostOneLive, LiveIsNewest, TimersAreEstimates

\* An event grows the log within its cap, and the count.
LEMMA FiguresType ==
    ASSUME TypeOK, NEW c \in Checks,
           (\E n \in {0, 1} : Recorded(c, n)) \/ UNCHANGED <<stored, counted>>
    PROVE  stored' \in [Checks -> 0..MaxStored] /\ counted' \in [Checks -> Nat]
<1>1. CASE UNCHANGED <<stored, counted>>
    BY <1>1 DEF TypeOK
<1>2. ASSUME NEW n \in {0, 1}, Recorded(c, n)
      PROVE  stored' \in [Checks -> 0..MaxStored] /\ counted' \in [Checks -> Nat]
    BY <1>2, BoundsAssumption DEF TypeOK, Recorded, LogAfter
<1> QED BY <1>1, <1>2

\* What is left of a figure when entries are evicted is of the figure's type.
LEMMA WithoutEvictedType ==
    ASSUME NEW figure, NEW st, NEW ins
    PROVE  /\ figure \in [Checks -> Nat] => WithoutEvicted(figure, st, ins) \in [Checks -> Nat]
           /\ figure \in [Checks -> 0..MaxStored]
                 => WithoutEvicted(figure, st, ins) \in [Checks -> 0..MaxStored]
BY BoundsAssumption DEF WithoutEvicted

\* Every step of the store keeps the strengthening, an action at a time.
LEMMA NextIInv == IInv /\ [Next]_vars => IInv'
<1> SUFFICES ASSUME IInv, [Next]_vars PROVE IInv'
    OBVIOUS
<1> USE DEF IInv, TypeOK, Live, InState, AtMostOneLive, RunsMatchEntries, KeyOnlyWhileLive,
            ClosedIsQuiet, TimersAreEstimates, PendingIsNew, LiveIsNewest
<1>0. NoCheck \notin Checks
    BY BoundsAssumption
<1>1. ASSUME NEW c \in Checks, CreateBegin(c) PROVE IInv'
    BY <1>1, BoundsAssumption
    DEF CreateBegin, entryVars, runVars, eventVars, wireVars, figureVars, IsActive
<1>2. CASE PrepareFails
    BY <1>0, <1>2 DEF PrepareFails, PrepareOver, entryVars, runVars, eventVars, wireVars, figureVars
<1>3. CASE AdmitBusy
    BY <1>0, <1>3 DEF AdmitBusy, Discarded, PrepareOver, entryVars, runVars, eventVars, wireVars,
                figureVars
<1>5. ASSUME NEW c \in Checks, Start(c) PROVE IInv'
    BY <1>0, <1>5 DEF Start, TimerCleared, eventVars, wireVars, figureVars, createVars, States, Tasks
<1>6. ASSUME NEW c \in Checks, CancelPrepared(c) PROVE IInv'
    BY <1>0, <1>6 DEF CancelPrepared, DropState, DropKeys, Has, TimerCleared, runVars, eventVars, wireVars,
                figureVars, createVars, States, Final
<1>7. ASSUME NEW c \in Checks, CancelRunning(c) PROVE IInv'
    BY <1>0, <1>7 DEF CancelRunning, entryVars, eventVars, wireVars, figureVars, createVars
<1>8. ASSUME NEW c \in Checks, Expire(c) PROVE IInv'
    BY <1>0, <1>8 DEF Expire, DropState, DropKeys, Has, runVars, eventVars, wireVars, figureVars,
                createVars, States, Final
<1>9. ASSUME NEW c \in Checks, Send(c) \/ Answer(c) \/ Tell(c) PROVE IInv'
  <2>1. UNCHANGED <<entryVars, timers, key, runVars, returned, createVars, closed>>
    BY <1>9 DEF Send, Answer, Tell
  <2>2. /\ stored' \in [Checks -> 0..MaxStored]
        /\ counted' \in [Checks -> Nat]
    BY <1>9, FiguresType DEF Send, Answer, Tell, figureVars
  <2>3. sent' \in [Checks -> Nat] /\ \A d \in Checks : sent'[d] <= Budget[d]
    BY <1>9, BoundsAssumption DEF Send, Answer, Tell, wireVars
  <2>4. flight' \in [Checks -> Nat]
    BY <1>9 DEF Send, Answer, Tell, wireVars
  <2> QED BY <2>1, <2>2, <2>3, <2>4 DEF entryVars, runVars, createVars
<1>10. ASSUME NEW c \in Checks, ProbesFinish(c) PROVE IInv'
    BY <1>10 DEF ProbesFinish, entryVars, wireVars, figureVars, createVars, Tasks
<1>11. CASE Close
    BY <1>0, <1>11 DEF Close, DropState, DropKeys, Has, eventVars, wireVars, figureVars, createVars,
                 States, Final
<1>12. CASE UNCHANGED vars
    BY <1>12 DEF vars
<1>13. CASE Admit
  <2> DEFINE c == pending
             replaced == InState("prepared")
             st == [DropState(replaced) EXCEPT ![c] = "prepared"]
             ins == [inserted EXCEPT ![c] = clock + 1]
  <2>1. /\ c \in Checks /\ state[c] = "absent"
        /\ ~closed /\ InState("running") = {}
        /\ state' = Pruned(st, ins)
        /\ stored' = WithoutEvicted(stored, st, ins) /\ counted' = WithoutEvicted(counted, st, ins)
        /\ inserted' = ins /\ clock' = clock + 1
        /\ timers' = (timers \ replaced) \cup {c}
        /\ key' = [DropKeys(replaced) EXCEPT ![c] = "held"]
        /\ pending' = NoCheck /\ preparing' = FALSE
        /\ UNCHANGED <<task, aborted, sent, flight, returned, closed>>
    BY <1>13 DEF Admit, MayAdmit, IsActive, Rearmed, PrepareOver, runVars, wireVars
  <2>2. st \in [Checks -> States] /\ st[c] = "prepared"
    BY <2>1 DEF DropState, Has, States, Final
  <2>3. \A d \in Checks \ {c} : st[d] = IF state[d] = "prepared" THEN "cancelled" ELSE state[d]
    BY <2>1 DEF DropState, Has
  <2> HIDE DEF st, ins
  <2>4. state'[c] = "prepared" /\ \A d \in Checks \ {c} : state'[d] \notin {"prepared", "running"}
    <3>1. state'[c] = "prepared"
      <4>1. c \in Checks /\ st[c] \notin Final
        BY <2>1, <2>2 DEF Final
      <4>2. Pruned(st, ins)[c] = st[c]
        BY <4>1, PrunedKeeps
      <4> QED BY <2>1, <2>2, <4>2
    <3>2. ASSUME NEW d \in Checks \ {c} PROVE state'[d] \notin {"prepared", "running"}
      <4>1. st[d] \notin {"prepared", "running"}
        BY <2>1, <2>3
      <4>2. state'[d] \in {st[d], "evicted"}
        BY <2>1, PrunedKeeps
      <4> QED BY <4>1, <4>2
    <3> QED BY <3>1, <3>2
  <2> USE DEF ins
  <2>5. \A d \in Checks \ {c} : key'[d] \notin {"held", "lent"}
    BY <2>1 DEF DropKeys
  <2>6. key'[c] = "held"
    BY <2>1 DEF DropKeys
  <2>7. TypeOK'
    <3>1. state' \in [Checks -> States]
      BY <2>1, <2>2, PrunedType
    <3>2. clock' \in Nat /\ inserted' \in [Checks -> 0..clock']
      BY <2>1
    <3>3. key' \in [Checks -> {"nowhere", "held", "lent"}]
      BY <2>1 DEF DropKeys
    <3>4. stored' \in [Checks -> 0..MaxStored] /\ counted' \in [Checks -> Nat]
      BY <2>1, WithoutEvictedType
    <3>5. timers' \subseteq Checks
      BY <2>1
    <3> QED BY <2>1, <3>1, <3>2, <3>3, <3>4, <3>5
  <2>8. Live' = {c} /\ InState("prepared")' = {c} /\ InState("running")' = {}
    <3>0. c \in Checks
      BY <2>1
    <3> HIDE DEF IInv, TypeOK, AtMostOneLive, RunsMatchEntries, KeyOnlyWhileLive, ClosedIsQuiet,
                 TimersAreEstimates, PendingIsNew, LiveIsNewest, ins
    <3>1. InState("prepared")' = {c}
      BY <2>4, <3>0
    <3>2. InState("running")' = {}
      BY <2>4, <3>0
    <3> QED BY <3>1, <3>2
  <2>9. LiveIsNewest'
    <3>1. \A d \in Checks \ {c} : inserted'[d] < inserted'[c]
      BY <2>1
    <3> QED BY <2>8, <3>1
  <2>10. RunsMatchEntries'
    BY <2>1, <2>4
  <2>11. KeyOnlyWhileLive'
    <3>1. pending' \notin Checks
      BY <1>0, <2>1
    <3> HIDE DEF IInv, TypeOK, Live, InState, AtMostOneLive, RunsMatchEntries, ClosedIsQuiet,
                 TimersAreEstimates, PendingIsNew, LiveIsNewest, ins
    <3> QED BY <2>4, <2>5, <2>6, <3>1
  <2>12. timers' = {c}
    BY <2>1
  <2> QED
    BY <2>1, <2>7, <2>8, <2>9, <2>10, <2>11, <2>12
<1>14. ASSUME NEW c \in Checks, NEW o \in Final, Settle(c, o) PROVE IInv'
  <2> DEFINE st == [state EXCEPT ![c] = IF Has(c) THEN o ELSE @]
  <2>1. /\ task[c] # "none"
        /\ state' = Pruned(st, inserted)
        /\ stored' = WithoutEvicted(stored, st, inserted)
        /\ counted' = WithoutEvicted([counted EXCEPT ![c] = CountAtEnd(c, o)], st, inserted)
        /\ task' = [task EXCEPT ![c] = "none"]
        /\ returned' = [returned EXCEPT ![c] = 0]
        /\ key' = [key EXCEPT ![c] = "nowhere"]
        /\ UNCHANGED <<inserted, clock, timers, aborted, sent, flight, pending, preparing, closed>>
    <3> HIDE DEF IInv, TypeOK, Live, InState, AtMostOneLive, RunsMatchEntries, KeyOnlyWhileLive,
                 ClosedIsQuiet, TimersAreEstimates, PendingIsNew, LiveIsNewest
    <3>1. task[c] # "none"
      BY <1>14 DEF Settle, OutcomeAllowed, Final
    <3> QED BY <1>14, <3>1 DEF Settle, wireVars, createVars
  <2>2. state[c] = "running" /\ st = [state EXCEPT ![c] = o]
    BY <2>1 DEF Has
  <2>3. st \in [Checks -> States] /\ st[c] = o
    BY <2>2 DEF States
  <2>4. \A d \in Checks : state'[d] \in {st[d], "evicted"} /\ (st[d] \notin Final => state'[d] = st[d])
    <3> HIDE DEF st
    <3> TAKE d \in Checks
    <3>1. /\ st[d] \notin Final => Pruned(st, inserted)[d] = st[d]
          /\ st[d] \in Final => Pruned(st, inserted)[d] \in {st[d], "evicted"}
      BY PrunedKeeps
    <3> QED BY <2>1, <3>1
  <2>5. \A d \in Checks \ {c} : state[d] \notin {"prepared", "running"} /\ state'[d] \notin {"prepared", "running"}
    BY <2>2, <2>4
  <2>6. state'[c] \notin {"prepared", "running", "absent"}
    BY <2>3, <2>4 DEF Final
  <2>7. TypeOK'
    <3>1. state' \in [Checks -> States]
      BY <2>1, <2>3, PrunedType
    <3>2. CountAtEnd(c, o) \in Nat
      BY DEF CountAtEnd
    <3>3. stored' \in [Checks -> 0..MaxStored] /\ counted' \in [Checks -> Nat]
      BY <2>1, <3>2, WithoutEvictedType
    <3>4. returned' \in [Checks -> Nat] /\ task' \in [Checks -> Tasks]
      BY <2>1 DEF Tasks
    <3> QED BY <2>1, <3>1, <3>3, <3>4
  <2>8. Live' = {} /\ InState("prepared")' = {} /\ InState("running")' = {} /\ InState("prepared") = {}
    BY <2>2, <2>5, <2>6
  <2>9. PendingIsNew'
    BY <2>1, <2>2, <2>3, <2>4 DEF Final
  <2>10. RunsMatchEntries' /\ KeyOnlyWhileLive'
    BY <2>1, <2>5, <2>6
  <2> QED BY <2>1, <2>7, <2>8, <2>9, <2>10
<1> QED
  BY <1>1, <1>2, <1>3, <1>5, <1>6, <1>7, <1>8, <1>9, <1>10, <1>11, <1>12, <1>13, <1>14 DEF Next

\* So it holds throughout.
LEMMA SpecIInv == Spec => []IInv
BY InitIInv, NextIInv, PTL DEF Spec

---------------------------------------------------------------------------
\* Every variable of the store keeps its type, the log's cap among them.
THEOREM TypeCorrect == Spec => []TypeOK
BY SpecIInv, PTL DEF IInv

\* However creates, starts, cancels, timers and runs interleave, at most one check
\* can spend the buyer's money, and the entry that says so is the one executing.
THEOREM OneCheckAtATime == Spec => []OnlyOneSpends
<1>1. IInv => OnlyOneSpends
    BY DEF IInv, OnlyOneSpends
<1> QED BY <1>1, SpecIInv, PTL

\* The key is held for an estimate, lent to its run, and nowhere else.
THEOREM KeyIsForgotten == Spec => []KeyOnlyWhileLive
BY SpecIInv, PTL DEF IInv

\* A closed daemon has no estimate left and has told every run to stop.
THEOREM ClosingIsFinal == Spec => []ClosedIsQuiet
BY SpecIInv, PTL DEF IInv

\* The prune of settle() never evicts the check that just ended.
THEOREM JustSettled == Spec => JustSettledIsKept
<1>1. IInv /\ [Next]_vars => [\A c \in Checks : task[c] # "none" /\ task'[c] = "none" => state'[c] \in Final]_vars
  <2> SUFFICES ASSUME IInv, [Next]_vars, NEW c \in Checks, task[c] # "none", task'[c] = "none"
               PROVE  state'[c] \in Final
    OBVIOUS
  <2> USE DEF IInv, TypeOK
  <2>1. ASSUME NEW d \in Checks, NEW o \in Final, Settle(d, o) PROVE state'[c] \in Final
    <3> DEFINE st == [state EXCEPT ![d] = IF Has(d) THEN o ELSE @]
    <3>1. c = d /\ state[c] = "running"
      BY <2>1 DEF Settle, OutcomeAllowed, RunsMatchEntries
    <3>2. st[c] = o
      BY <3>1 DEF Has
    <3>3. \A e \in Checks \ {c} : inserted[e] < inserted[c]
      BY <3>1 DEF LiveIsNewest, Live, InState
    <3>4. state' = Pruned(st, inserted)
      BY <2>1 DEF Settle
    <3>5. inserted \in [Checks -> Nat]
      OBVIOUS
    <3> HIDE DEF st
    <3> QED BY <3>2, <3>3, <3>4, <3>5, NewestIsKept
  <2>2. ASSUME NEW d \in Checks, Start(d) PROVE FALSE
    BY <2>2 DEF Start, RunsMatchEntries, Tasks
  <2>3. ASSUME NEW d \in Checks, ProbesFinish(d) PROVE FALSE
    BY <2>3 DEF ProbesFinish, Tasks
  <2>4. CASE \/ PrepareFails \/ AdmitBusy \/ Admit \/ Close \/ UNCHANGED vars
             \/ \E d \in Checks : \/ CreateBegin(d) \/ CancelPrepared(d) \/ CancelRunning(d)
                                 \/ Expire(d) \/ Send(d) \/ Answer(d) \/ Tell(d)
    BY <2>4 DEF PrepareFails, AdmitBusy, Admit, Close, CreateBegin, CancelPrepared, CancelRunning,
                Expire, Send, Answer, Tell, vars, runVars
  <2> QED BY <2>1, <2>2, <2>3, <2>4 DEF Next
<1> QED BY <1>1, SpecIInv, PTL DEF Spec, JustSettledIsKept

---------------------------------------------------------------------------
(* The bound on memory. Each kept check is numbered by how many newer ones *)
(* ended: below MaxFinished, and no two alike.                             *)

\* What pruning leaves of the ended checks fits the bound, when no two came at one place.
LEMMA PruneLeavesFew ==
    ASSUME NEW st, NEW ins \in [Checks -> Nat],
           \A c, d \in Ended(st) : ins[c] = ins[d] => c = d
    PROVE  Cardinality(Ended(Pruned(st, ins))) <= MaxFinished
<1> DEFINE Newer(c) == {d \in Ended(st) : ins[d] > ins[c]}
           Kept == Ended(st) \ Evicted(st, ins)
           number == [c \in Kept |-> Cardinality(Newer(c))]
<1>1. Ended(Pruned(st, ins)) = Kept
    BY DEF Ended, Pruned, Final, Evicted
<1>2. \A c \in Checks : IsFiniteSet(Newer(c)) /\ Cardinality(Newer(c)) \in Nat
    BY BoundsAssumption, FS_Subset, FS_CardinalityType DEF Ended
<1>3. number \in [Kept -> 0..(MaxFinished - 1)]
  <2>1. ASSUME NEW c \in Kept PROVE Cardinality(Newer(c)) \in 0..(MaxFinished - 1)
    <3>1. c \in Checks /\ ~(Cardinality(Newer(c)) >= MaxFinished)
      BY DEF Evicted, Ended
    <3> HIDE DEF Newer
    <3> QED BY <1>2, <3>1, BoundsAssumption
  <2> QED BY <2>1
<1>4. ASSUME NEW c \in Kept, NEW d \in Kept, ins[c] < ins[d] PROVE number[c] # number[d]
  <2>1. c \in Checks /\ d \in Checks /\ d \in Ended(st)
    BY DEF Ended
  <2>2. Newer(d) \in SUBSET Newer(c) /\ d \in Newer(c) /\ d \notin Newer(d)
    BY <1>4, <2>1 DEF Ended
  <2>3. Newer(d) # Newer(c)
    BY <2>2
  <2> HIDE DEF Newer
  <2>4. Cardinality(Newer(d)) # Cardinality(Newer(c))
    BY <1>2, <2>1, <2>2, <2>3, FS_Subset
  <2> QED BY <2>4
<1>5. ASSUME NEW c \in Kept, NEW d \in Kept, number[c] = number[d] PROVE c = d
  <2>1. c \in Ended(st) /\ d \in Ended(st) /\ ins[c] \in Nat /\ ins[d] \in Nat
    BY DEF Ended
  <2>2. ~(ins[c] < ins[d]) /\ ~(ins[d] < ins[c])
    BY <1>4, <1>5
  <2>3. ins[c] = ins[d]
    BY <2>1, <2>2
  <2> QED BY <2>1, <2>3
<1>6. number \in Injection(Kept, 0..(MaxFinished - 1))
    <2> HIDE DEF Kept
    <2> QED BY <1>3, <1>5 DEF Injection, IsInjective
<1>7. IsFiniteSet(0..(MaxFinished - 1)) /\ Cardinality(0..(MaxFinished - 1)) = MaxFinished
    BY BoundsAssumption, FS_Interval
<1> HIDE DEF Kept, number
<1>8. Cardinality(Kept) <= MaxFinished
    BY <1>6, <1>7, FS_Injection
<1> QED BY <1>1, <1>8

PlacesDiffer ==
    \A c, d \in Checks : Has(c) /\ Has(d) /\ inserted[c] = inserted[d] => c = d

EndedAreFew == Cardinality(Ended(state)) <= MaxFinished + (IF Live = {} THEN 1 ELSE 0)

\* Ended checks are finitely many, and one more of them counts for one at most.
LEMMA EndedFinite ==
    \A st : /\ IsFiniteSet(Ended(st)) /\ Cardinality(Ended(st)) \in Nat
           /\ \A c : Cardinality(Ended(st) \cup {c}) <= Cardinality(Ended(st)) + 1
BY BoundsAssumption, FS_Subset, FS_CardinalityType, FS_AddElement DEF Ended

\* An empty store is within its bound.
LEMMA InitMemory == Init => PlacesDiffer /\ EndedAreFew
<1> SUFFICES ASSUME Init PROVE PlacesDiffer /\ EndedAreFew
    OBVIOUS
<1>1. PlacesDiffer
    BY DEF Init, PlacesDiffer, Has
<1>2. Ended(state) = {} /\ Live = {}
    BY DEF Init, Ended, Final, Live, InState
<1> QED BY <1>1, <1>2, FS_EmptySet, BoundsAssumption DEF EndedAreFew

\* The entry of the live check is dropped: one ended check more, and no live one.
LEMMA DropMemory ==
    ASSUME IInv, EndedAreFew, NEW c \in Checks, state[c] = "prepared",
           state' = [d \in Checks |-> IF d = c THEN "cancelled" ELSE state[d]]
    PROVE  EndedAreFew'
<1>1. Live = {c} /\ Live' = {}
    BY DEF IInv, TypeOK, AtMostOneLive, Live, InState
<1>2. Ended(state)' = Ended(state) \cup {c}
    BY DEF Ended, Final, IInv, TypeOK
<1>3. Cardinality(Ended(state)) <= MaxFinished /\ Cardinality(Ended(state)) \in Nat
    BY <1>1, EndedFinite, BoundsAssumption DEF EndedAreFew
<1>4. Cardinality(Ended(state)') <= Cardinality(Ended(state)) + 1
    BY <1>2, EndedFinite
<1>5. Cardinality(Ended(state)') \in Nat
    BY <1>2, EndedFinite
<1> QED BY <1>1, <1>3, <1>4, <1>5, BoundsAssumption DEF EndedAreFew

\* No two checks of the store come at the same place of its insertion order.
LEMMA NextPlaces == IInv /\ PlacesDiffer /\ [Next]_vars => PlacesDiffer'
<1> SUFFICES ASSUME IInv, PlacesDiffer, [Next]_vars PROVE PlacesDiffer'
    OBVIOUS
<1> USE DEF IInv, TypeOK, PlacesDiffer, Has
<1>1. CASE Admit
  <2> DEFINE st == [DropState(InState("prepared")) EXCEPT ![pending] = "prepared"]
             ins == [inserted EXCEPT ![pending] = clock + 1]
  <2>1. pending \in Checks /\ state' = Pruned(st, ins) /\ inserted' = ins
    BY <1>1 DEF Admit
  <2>2. \A d \in Checks \ {pending} : st[d] \in {"absent", "evicted"} <=> state[d] \in {"absent", "evicted"}
    BY <2>1 DEF DropState, InState
  <2>3. \A d \in Checks : state'[d] \in {st[d], "evicted"}
    <3> HIDE DEF st, ins
    <3> TAKE d \in Checks
    <3>1. /\ st[d] \notin Final => Pruned(st, ins)[d] = st[d]
          /\ st[d] \in Final => Pruned(st, ins)[d] \in {st[d], "evicted"}
      BY PrunedKeeps
    <3> QED BY <2>1, <3>1
  <2>4. \A d \in Checks \ {pending} : Has(d)' => Has(d)
    <3> HIDE DEF st, ins
    <3> QED BY <2>2, <2>3
  <2>5. \A d \in Checks \ {pending} : inserted'[d] = inserted[d] /\ inserted'[d] < inserted'[pending]
    BY <2>1
  <2> HIDE DEF st, ins
  <2> QED BY <2>4, <2>5
<1>2. ASSUME NEW c \in Checks, NEW o \in Final, Settle(c, o) PROVE PlacesDiffer'
  <2> DEFINE st == [state EXCEPT ![c] = IF Has(c) THEN o ELSE @]
  <2>1. state' = Pruned(st, inserted) /\ inserted' = inserted
    BY <1>2 DEF Settle
  <2>2. \A d \in Checks : st[d] \notin {"absent", "evicted"} => Has(d)
    OBVIOUS
  <2>3. \A d \in Checks : state'[d] \in {st[d], "evicted"}
    <3> HIDE DEF st
    <3> TAKE d \in Checks
    <3>1. /\ st[d] \notin Final => Pruned(st, inserted)[d] = st[d]
          /\ st[d] \in Final => Pruned(st, inserted)[d] \in {st[d], "evicted"}
      BY PrunedKeeps
    <3> QED BY <2>1, <3>1
  <2> HIDE DEF st
  <2>4. \A d \in Checks : Has(d)' => Has(d)
    BY <2>2, <2>3
  <2> QED BY <2>1, <2>4
<1>3. ASSUME NEW c \in Checks, Start(c) PROVE PlacesDiffer'
    BY <1>3 DEF Start
<1>4. ASSUME NEW c \in Checks, CancelPrepared(c) \/ Expire(c) PROVE PlacesDiffer'
    BY <1>4 DEF CancelPrepared, Expire, DropState
<1>5. CASE Close
    BY <1>5 DEF Close, DropState
<1>6. CASE \/ PrepareFails \/ AdmitBusy \/ UNCHANGED vars
           \/ \E c \in Checks : \/ CreateBegin(c) \/ CancelRunning(c)
                               \/ Send(c) \/ Answer(c) \/ Tell(c) \/ ProbesFinish(c)
    BY <1>6 DEF PrepareFails, AdmitBusy, CreateBegin, CancelRunning, Send, Answer, Tell,
                ProbesFinish, vars, entryVars
<1> QED BY <1>1, <1>2, <1>3, <1>4, <1>5, <1>6 DEF Next

\* Every step prunes what it ends back into the bound.
LEMMA NextFew == IInv /\ PlacesDiffer /\ EndedAreFew /\ [Next]_vars => EndedAreFew'
<1> SUFFICES ASSUME IInv, PlacesDiffer, EndedAreFew, [Next]_vars PROVE EndedAreFew'
    OBVIOUS
<1> USE DEF IInv, TypeOK, Live, InState
<1>1. CASE Admit
  <2> DEFINE st == [DropState(InState("prepared")) EXCEPT ![pending] = "prepared"]
             ins == [inserted EXCEPT ![pending] = clock + 1]
  <2>1. pending \in Checks /\ state' = Pruned(st, ins)
    BY <1>1 DEF Admit
  <2>2. ins \in [Checks -> Nat]
    BY <2>1
  <2>3. \A c, d \in Ended(st) : ins[c] = ins[d] => c = d
    <3>1. \A c \in Ended(st) : c # pending /\ Has(c) /\ c \in Checks
      BY <2>1 DEF Ended, DropState, Has, Final
    <3> QED BY <3>1 DEF PlacesDiffer
  <2> HIDE DEF st, ins
  <2>4. Cardinality(Ended(Pruned(st, ins))) <= MaxFinished
    BY <2>2, <2>3, PruneLeavesFew
  <2>5. Cardinality(Ended(state)') <= MaxFinished
    BY <2>1, <2>4 DEF Ended
  <2>6. Cardinality(Ended(state)') \in Nat
    BY EndedFinite DEF Ended
  <2> QED BY <2>5, <2>6, BoundsAssumption DEF EndedAreFew
<1>2. ASSUME NEW c \in Checks, NEW o \in Final, Settle(c, o) PROVE EndedAreFew'
  <2> DEFINE st == [state EXCEPT ![c] = IF Has(c) THEN o ELSE @]
  <2>1. state' = Pruned(st, inserted)
    BY <1>2 DEF Settle
  <2>2. inserted \in [Checks -> Nat]
    OBVIOUS
  <2>3. \A a, b \in Ended(st) : inserted[a] = inserted[b] => a = b
    <3>1. \A a \in Ended(st) : Has(a) /\ a \in Checks
      BY DEF Ended, Has, Final
    <3> QED BY <3>1 DEF PlacesDiffer
  <2> HIDE DEF st
  <2>4. Cardinality(Ended(Pruned(st, inserted))) <= MaxFinished
    BY <2>2, <2>3, PruneLeavesFew
  <2>5. Cardinality(Ended(state)') <= MaxFinished
    BY <2>1, <2>4 DEF Ended
  <2>6. Cardinality(Ended(state)') \in Nat
    BY EndedFinite DEF Ended
  <2> QED BY <2>5, <2>6, BoundsAssumption DEF EndedAreFew
<1>3. ASSUME NEW c \in Checks, Start(c) PROVE EndedAreFew'
  <2>1. state' = [state EXCEPT ![c] = "running"] /\ state[c] = "prepared"
    BY <1>3 DEF Start
  <2>2. Ended(state)' = Ended(state)
    BY <2>1 DEF Ended, Final
  <2>3. c \in Live /\ c \in Live'
    BY <2>1
  <2> QED BY <2>2, <2>3 DEF EndedAreFew
<1>4. ASSUME NEW c \in Checks, CancelPrepared(c) \/ Expire(c) PROVE EndedAreFew'
  <2>1. state[c] = "prepared"
    BY <1>4 DEF CancelPrepared, Expire, TimersAreEstimates
  <2>2. state' = [d \in Checks |-> IF d = c THEN "cancelled" ELSE state[d]]
    BY <1>4, <2>1 DEF CancelPrepared, Expire, DropState, Has
  <2> QED BY <2>1, <2>2, DropMemory
<1>5. CASE Close
  <2>1. CASE InState("prepared") = {}
    <3>1. state' = state
      BY <1>5, <2>1 DEF Close, DropState
    <3> QED BY <3>1 DEF EndedAreFew
  <2>2. ASSUME NEW c \in Checks, state[c] = "prepared" PROVE EndedAreFew'
    <3>1. InState("prepared") = {c}
      BY <2>2 DEF AtMostOneLive
    <3>2. state' = [d \in Checks |-> IF d = c THEN "cancelled" ELSE state[d]]
      BY <1>5, <2>2, <3>1 DEF Close, DropState, Has
    <3> QED BY <2>2, <3>2, DropMemory
  <2> QED BY <2>1, <2>2
<1>6. CASE \/ PrepareFails \/ AdmitBusy \/ UNCHANGED vars
           \/ \E c \in Checks : \/ CreateBegin(c) \/ CancelRunning(c)
                               \/ Send(c) \/ Answer(c) \/ Tell(c) \/ ProbesFinish(c)
  <2>1. state' = state
    BY <1>6 DEF PrepareFails, AdmitBusy, CreateBegin, CancelRunning, Send, Answer, Tell,
                ProbesFinish, vars, entryVars
  <2> QED BY <2>1 DEF EndedAreFew
<1> QED BY <1>1, <1>2, <1>3, <1>4, <1>5, <1>6 DEF Next

\* However long the daemon lives, it keeps at most MaxFinished + 1 entries.
THEOREM MemoryIsBounded == Spec => []MemoryBounded
<1>1. Spec => [](IInv /\ PlacesDiffer /\ EndedAreFew)
    BY InitIInv, NextIInv, InitMemory, NextPlaces, NextFew, PTL DEF Spec
<1>2. IInv /\ EndedAreFew => MemoryBounded
  <2> SUFFICES ASSUME IInv, EndedAreFew PROVE MemoryBounded
      OBVIOUS
  <2>1. {c \in Checks : Has(c)} = Ended(state) \cup Live
      BY DEF IInv, TypeOK, States, Has, Ended, Final, Live, InState
  <2>2. CASE Live = {}
      BY <2>1, <2>2 DEF MemoryBounded, EndedAreFew
  <2>3. ASSUME NEW c \in Live PROVE MemoryBounded
    <3>1. Live = {c}
      BY <2>3 DEF IInv, AtMostOneLive
    <3>2. Cardinality(Ended(state)) <= MaxFinished /\ Cardinality(Ended(state)) \in Nat
      BY <2>3, EndedFinite, BoundsAssumption DEF EndedAreFew
    <3>3. Cardinality(Ended(state) \cup {c}) <= Cardinality(Ended(state)) + 1
      BY EndedFinite
    <3>4. Cardinality(Ended(state) \cup {c}) \in Nat
      BY EndedFinite, FS_AddElement, FS_CardinalityType
    <3>5. {d \in Checks : Has(d)} = Ended(state) \cup {c} /\ MaxFinished \in Nat
      BY <2>1, <3>1, BoundsAssumption
    <3>6. Cardinality(Ended(state) \cup {c}) <= MaxFinished + 1
      BY <3>2, <3>3, <3>4, <3>5
    <3> QED BY <3>5, <3>6 DEF MemoryBounded
  <2> QED BY <2>2, <2>3
<1> QED BY <1>1, <1>2, PTL

---------------------------------------------------------------------------
\* Recording an event takes nothing away, and does nothing to a check without entry.
LEMMA RecordedGrows ==
    ASSUME TypeOK, NEW c \in Checks, NEW d \in Checks, NEW n \in {0, 1}, Recorded(d, n)
    PROVE  /\ stored'[c] >= stored[c] /\ counted'[c] >= counted[c]
           /\ ~Has(c) => stored'[c] = stored[c] /\ counted'[c] = counted[c]
BY DEF TypeOK, Recorded, LogAfter

\* An ended check is never reopened, and what is told of it only grows, whatever its
\* run left behind still records; it can only be evicted, and then stays so.
THEOREM EndsAreFinal == Spec => FinalIsFinal
<1> DEFINE Grows(c) == stored'[c] >= stored[c] /\ counted'[c] >= counted[c]
           Stays(c) == stored'[c] = stored[c] /\ counted'[c] = counted[c]
           Kept(c) ==
      /\ state[c] \in Final => \/ state'[c] = state[c] /\ stored'[c] >= stored[c] /\ counted'[c] >= counted[c]
                               \/ state'[c] = "evicted" /\ stored'[c] = 0 /\ counted'[c] = 0
      /\ state[c] = "evicted" =>
            state'[c] = "evicted" /\ stored'[c] = stored[c] /\ counted'[c] = counted[c]
<1>1. IInv /\ [Next]_vars => [\A c \in Checks : Kept(c)]_vars
  <2> SUFFICES ASSUME IInv, [Next]_vars, NEW c \in Checks PROVE Kept(c)
    OBVIOUS
  <2>0. stored[c] \in Nat /\ counted[c] \in Nat /\ TypeOK
    BY DEF IInv, TypeOK
  <2>1. ASSUME state'[c] = state[c], Stays(c)
        PROVE  Kept(c)
    BY <2>0, <2>1 DEF Final
  <2>2. ASSUME NEW st, NEW ins, NEW count, st[c] = state[c], count[c] = counted[c],
               state' = Pruned(st, ins), stored' = WithoutEvicted(stored, st, ins),
               counted' = WithoutEvicted(count, st, ins)
        PROVE  Kept(c)
    BY <2>0, <2>2 DEF Pruned, WithoutEvicted, Final, Evicted, Ended
  <2>3. CASE state[c] \notin Final \cup {"evicted"}
    BY <2>3
  <2>4. CASE state[c] \in Final \cup {"evicted"}
    <3> USE <2>4
    <3>1. CASE Admit
      <4> DEFINE st == [DropState(InState("prepared")) EXCEPT ![pending] = "prepared"]
                 ins == [inserted EXCEPT ![pending] = clock + 1]
      <4>1. /\ state' = Pruned(st, ins) /\ stored' = WithoutEvicted(stored, st, ins)
            /\ counted' = WithoutEvicted(counted, st, ins) /\ state[pending] = "absent"
        BY <3>1 DEF Admit, IInv, PendingIsNew
      <4>2. st[c] = state[c]
        BY <4>1, <2>0 DEF DropState, InState, Final, TypeOK
      <4> HIDE DEF st, ins
      <4> QED BY <2>2, <4>1, <4>2
    <3>2. ASSUME NEW d \in Checks, NEW o \in Final, Settle(d, o) PROVE Kept(c)
      <4> DEFINE st == [state EXCEPT ![d] = IF Has(d) THEN o ELSE @]
                 count == [counted EXCEPT ![d] = CountAtEnd(d, o)]
      <4>1. /\ state' = Pruned(st, inserted) /\ stored' = WithoutEvicted(stored, st, inserted)
            /\ counted' = WithoutEvicted(count, st, inserted)
        BY <3>2 DEF Settle
      <4>2. state[d] = "running"
        BY <3>2 DEF Settle, OutcomeAllowed, IInv, RunsMatchEntries
      <4>3. st[c] = state[c] /\ count[c] = counted[c]
        BY <4>2, <2>0 DEF Final, TypeOK
      <4> HIDE DEF st, count
      <4> QED BY <2>2, <4>1, <4>3
    <3>3. ASSUME NEW d \in Checks, Start(d) PROVE Kept(c)
      <4>1. state'[c] = state[c] /\ Stays(c)
        BY <3>3, <2>0 DEF Start, eventVars, figureVars, Final, TypeOK
      <4> QED BY <2>1, <4>1
    <3>4. ASSUME NEW d \in Checks, CancelPrepared(d) \/ Expire(d) PROVE Kept(c)
      <4>1. state[d] = "prepared"
        BY <3>4 DEF CancelPrepared, Expire, IInv, TimersAreEstimates, InState
      <4>2. state'[c] = state[c] /\ Stays(c)
        BY <3>4, <4>1 DEF CancelPrepared, Expire, DropState, eventVars, figureVars, Final
      <4> QED BY <2>1, <4>2
    <3>5. CASE Close
      <4>1. state'[c] = state[c] /\ Stays(c)
        BY <3>5 DEF Close, DropState, InState, eventVars, figureVars, Final
      <4> QED BY <2>1, <4>1
    <3>6. ASSUME NEW d \in Checks, Answer(d) \/ Tell(d) PROVE Kept(c)
      <4>1. \E n \in {0, 1} : Recorded(d, n)
        BY <3>6 DEF Answer, Tell
      <4>2. state'[c] = state[c]
        BY <3>6 DEF Answer, Tell, entryVars
      <4>3. Grows(c) /\ (state[c] = "evicted" => Stays(c))
        BY <2>0, <4>1, RecordedGrows DEF Has
      <4> QED BY <4>2, <4>3 DEF Final
    <3>7. CASE \/ PrepareFails \/ AdmitBusy \/ UNCHANGED vars
               \/ \E d \in Checks : CreateBegin(d) \/ CancelRunning(d) \/ Send(d) \/ ProbesFinish(d)
      <4>1. state'[c] = state[c] /\ Stays(c)
        BY <3>7 DEF PrepareFails, AdmitBusy, CreateBegin, CancelRunning, Send, ProbesFinish, vars,
                    entryVars, eventVars, figureVars
      <4> QED BY <2>1, <4>1
    <3> QED BY <3>1, <3>2, <3>3, <3>4, <3>5, <3>6, <3>7 DEF Next
  <2> QED BY <2>3, <2>4
<1> QED BY <1>1, SpecIInv, PTL DEF Spec, FinalIsFinal

---------------------------------------------------------------------------
(* The refinement: with at most one live check, the slot is that check.    *)

\* With one live check at most, the slot shows that check, or none.
LEMMA SlotOfLive ==
    ASSUME AtMostOneLive
    PROVE  /\ \A c \in Live : SlotOf = c
           /\ Live = {} => SlotOf = NoCheck
BY DEF AtMostOneLive, SlotOf

\* The empty store shows an empty slot.
LEMMA InitSlot == Init => Slot!Init
<1> SUFFICES ASSUME Init PROVE Slot!Init
    OBVIOUS
<1>1. Live = {} /\ ~IsActive
    BY DEF Init, Live, InState, IsActive
<1>2. \A c \in Checks : EndedOf(c) = "none"
    BY DEF Init, EndedOf
<1> QED BY <1>1, <1>2 DEF Slot!Init, SlotOf

\* Admitting a check fills the slot.
LEMMA AdmitSlot == ASSUME IInv, IInv', Admit PROVE Slot!Next
<1> USE DEF IInv, TypeOK
<1> DEFINE c == pending
           st == [DropState(InState("prepared")) EXCEPT ![c] = "prepared"]
           ins == [inserted EXCEPT ![c] = clock + 1]
           before == [d \in Checks |-> EndedOf(d)]
           told == IF Live = {} THEN before ELSE [before EXCEPT ![SlotOf] = "cancelled"]
           F == Evicted(st, ins)
<1>1. /\ c \in Checks /\ state[c] = "absent" /\ InState("running") = {}
      /\ state' = Pruned(st, ins) /\ ins \in [Checks -> Nat] /\ st[c] = "prepared"
  <2>1. c \in Checks /\ state[c] = "absent"
    BY DEF Admit, PendingIsNew
  <2>2. InState("running") = {} /\ state' = Pruned(st, ins)
    BY DEF Admit, MayAdmit, IsActive
  <2>3. ins \in [Checks -> Nat]
    BY <2>1
  <2>4. st[c] = "prepared"
    BY <2>1 DEF DropState
  <2> QED BY <2>1, <2>2, <2>3, <2>4
<1>2. state'[c] = "prepared"
  <2>1. st[c] \notin Final
    BY <1>1 DEF Final
  <2> HIDE DEF st, ins
  <2> QED BY <1>1, <2>1, PrunedKeeps
<1>3. c \in Live' /\ SlotOf' = c
  <2>1. c \in Live'
    BY <1>1, <1>2 DEF Live, InState
  <2> QED BY <2>1, SlotOfLive DEF Live, InState, SlotOf, AtMostOneLive
<1>4. ~IsActive /\ ~IsActive'
  <2>1. ASSUME NEW d \in InState("running")' PROVE FALSE
    <3>1. d \in Live' /\ c \in Live'
      BY <1>3 DEF Live
    <3>2. d = c
      BY <3>1 DEF AtMostOneLive
    <3> QED BY <1>2, <2>1, <3>2 DEF InState
  <2> QED BY <1>1, <2>1 DEF IsActive
<1>5. \A d \in Checks : told[d] = IF st[d] \in {"absent", "prepared", "running"} THEN "none" ELSE st[d]
  <2>1. CASE Live = {}
    BY <1>1, <2>1 DEF EndedOf, DropState, Live, InState
  <2>2. ASSUME NEW e \in Live PROVE \A d \in Checks : told[d] = IF st[d] \in {"absent", "prepared", "running"} THEN "none" ELSE st[d]
    <3>1. SlotOf = e /\ e \in Checks /\ state[e] = "prepared" /\ InState("prepared") = {e}
      BY <1>1, <2>2, SlotOfLive DEF AtMostOneLive, Live, InState
    <3>2. Live # {}
      BY <2>2
    <3> QED BY <1>1, <3>1, <3>2 DEF EndedOf, DropState, Has
  <2> QED BY <2>1, <2>2
<1>6. F \subseteq {d \in Checks : st[d] \in Final} /\ c \notin F
    BY <1>1 DEF Evicted, Ended, Final
<1>7. \A e \in Live : e \notin F
  <2> TAKE e \in Live
  <2>1. e # c /\ e \in Checks
    BY <1>1 DEF Live, InState
  <2>2. \A d \in Checks \ {c, e} : ins[d] < ins[e]
    BY <1>1, <2>1 DEF LiveIsNewest
  <2>3. c \notin Ended(st)
    BY <1>1 DEF Ended, Final
  <2>4. {d \in Ended(st) : ins[d] > ins[e]} = {}
    <3> SUFFICES ASSUME NEW d \in Ended(st), ins[d] > ins[e] PROVE FALSE
      OBVIOUS
    <3>1. d \in Checks /\ d # c
      BY <2>3 DEF Ended
    <3>2. ins[d] \in Nat /\ ins[e] \in Nat
      BY <1>1, <2>1, <3>1
    <3> HIDE DEF ins
    <3> QED BY <2>2, <3>1, <3>2
  <2> HIDE DEF st, ins
  <2>5. Cardinality({d \in Ended(st) : ins[d] > ins[e]}) = 0
    BY <2>4, FS_EmptySet
  <2> QED BY <2>5, BoundsAssumption DEF Evicted
<1>8. [d \in Checks |-> EndedOf(d)]' = [d \in Checks |-> IF d \in F THEN "evicted" ELSE told[d]]
  <2> SUFFICES ASSUME NEW d \in Checks
               PROVE  EndedOf(d)' = IF d \in F THEN "evicted" ELSE told[d]
    BY DEF EndedOf
  <2>1. state'[d] = IF d \in F THEN "evicted" ELSE st[d]
    <3> HIDE DEF st, ins
    <3> QED BY <1>1 DEF Pruned
  <2> HIDE DEF st, ins, F, told
  <2> QED BY <1>5, <2>1 DEF EndedOf
<1>9. \A d \in F : told[d] \in Final
  <2> HIDE DEF told, F, st
  <2> QED BY <1>5, <1>6 DEF Final
<1>10. EndedOf(c) = "none" /\ SlotOf # c
  <2>1. CASE Live = {}
    BY <1>1, <2>1, BoundsAssumption DEF EndedOf, SlotOf
  <2>2. ASSUME NEW e \in Live PROVE EndedOf(c) = "none" /\ SlotOf # c
    BY <1>1, <2>2, SlotOfLive DEF EndedOf, Live, InState
  <2> QED BY <2>1, <2>2
<1>11. Slot!Ends = Final
    BY DEF Slot!Ends, Final
<1> HIDE DEF st, ins, F
<1>12. CASE Live = {}
  <2>1. SlotOf = NoCheck
    BY <1>12, SlotOfLive
  <2>2. F \in SUBSET {d \in Checks \ {c} : before[d] \in Slot!Ends}
    BY <1>6, <1>9, <1>11, <1>12
  <2>3. Slot!Forgetting(before, c)
    <3>1. told = before
      BY <1>12
    <3> HIDE DEF told
    <3>2. [d \in Checks |-> EndedOf(d)]' = [d \in Checks |-> IF d \in F THEN "evicted" ELSE before[d]]
      BY <1>8, <3>1
    <3> HIDE DEF before
    <3> QED BY <2>2, <3>2 DEF Slot!Forgetting
  <2>4. before[c] = "none"
    BY <1>1, <1>10
  <2>5. Slot!Offer(c)
    BY <1>3, <1>4, <1>10, <2>1, <2>3, <2>4 DEF Slot!Offer
  <2> QED BY <1>1, <2>5 DEF Slot!Next
<1>13. ASSUME NEW e \in Live PROVE Slot!Next
  <2>1. SlotOf = e /\ e # NoCheck /\ Live # {} /\ e \in Checks
    BY <1>13, SlotOfLive, BoundsAssumption DEF Live, InState
  <2>2. told = [before EXCEPT ![SlotOf] = "cancelled"]
    BY <2>1
  <2>3. F \in SUBSET {d \in Checks \ {SlotOf} : told[d] \in Slot!Ends}
    <3> HIDE DEF told
    <3> QED BY <1>6, <1>7, <1>9, <1>11, <1>13, <2>1
  <2>4. Slot!Forgetting(told, SlotOf)
    <3> HIDE DEF told
    <3> QED BY <1>8, <2>3 DEF Slot!Forgetting
  <2>5. before[c] = "none"
    BY <1>1, <1>10
  <2>6. Slot!Offer(c)
    BY <1>3, <1>4, <1>10, <2>1, <2>2, <2>4, <2>5 DEF Slot!Offer
  <2> QED BY <1>1, <2>6 DEF Slot!Next
<1> QED BY <1>12, <1>13

\* Settling a check empties the slot and tells its end.
LEMMA SettleSlot ==
    ASSUME IInv, IInv', NEW c \in Checks, NEW o \in Final, Settle(c, o)
    PROVE  Slot!Next
<1> USE DEF IInv, TypeOK
<1> DEFINE st == [state EXCEPT ![c] = IF Has(c) THEN o ELSE @]
           before == [d \in Checks |-> EndedOf(d)]
           told == [before EXCEPT ![SlotOf] = o]
           F == Evicted(st, inserted)
<1>1. state[c] = "running" /\ state' = Pruned(st, inserted)
    BY DEF Settle, OutcomeAllowed, RunsMatchEntries
<1>2. c \in Live /\ SlotOf = c /\ IsActive
    BY <1>1, SlotOfLive DEF Live, InState, IsActive
<1>3. st = [state EXCEPT ![c] = o]
    BY <1>1 DEF Has
<1>4. \A d \in Checks \ {c} : inserted[d] < inserted[c]
    BY <1>2 DEF LiveIsNewest
<1>5. c \notin F
  <2>1. {d \in Ended(st) : inserted[d] > inserted[c]} = {}
    BY <1>4 DEF Ended
  <2> HIDE DEF st
  <2>2. Cardinality({d \in Ended(st) : inserted[d] > inserted[c]}) = 0
    BY <2>1, FS_EmptySet
  <2> QED BY <2>2, BoundsAssumption DEF Evicted
<1>6. \A d \in Checks : told[d] = IF st[d] \in {"absent", "prepared", "running"} THEN "none" ELSE st[d]
    BY <1>1, <1>2, <1>3 DEF EndedOf, Final
<1>7. F \subseteq {d \in Checks : st[d] \in Final}
    BY DEF Evicted, Ended
<1>8. \A d \in Checks : state'[d] = IF d \in F THEN "evicted" ELSE st[d]
    <2> HIDE DEF st
    <2> QED BY <1>1 DEF Pruned
<1>9. Live' = {} /\ ~IsActive'
  <2>1. \A d \in Checks \ {c} : state[d] \notin {"prepared", "running"}
    BY <1>2 DEF AtMostOneLive, Live, InState
  <2>2. \A d \in Checks : st[d] \notin {"prepared", "running"}
    BY <1>1, <1>3, <2>1 DEF Final
  <2> HIDE DEF st, F
  <2> QED BY <1>8, <2>2 DEF Live, InState, IsActive
<1>10. SlotOf' = NoCheck
    BY <1>9 DEF SlotOf
<1> HIDE DEF st, F
<1>11. [d \in Checks |-> EndedOf(d)]' = [d \in Checks |-> IF d \in F THEN "evicted" ELSE told[d]]
  <2> SUFFICES ASSUME NEW d \in Checks
               PROVE  EndedOf(d)' = IF d \in F THEN "evicted" ELSE told[d]
    BY DEF EndedOf
  <2> HIDE DEF told
  <2> QED BY <1>6, <1>8 DEF EndedOf
<1>12. F \in SUBSET {d \in Checks \ {SlotOf} : told[d] \in Slot!Ends}
  <2> HIDE DEF told
  <2> QED BY <1>2, <1>5, <1>6, <1>7 DEF Final, Slot!Ends
<1>13. Slot!Forgetting(told, SlotOf)
  <2> HIDE DEF told
  <2> QED BY <1>11, <1>12 DEF Slot!Forgetting
<1>14. Slot!Conclude(o)
    BY <1>2, <1>9, <1>10, <1>13 DEF Slot!Conclude
<1> QED BY <1>14 DEF Slot!Next, Slot!Ends, Final

\* Dropping the estimate, or finding none to drop.
LEMMA DropSlot ==
    ASSUME IInv, IInv', NEW D \in SUBSET InState("prepared"), state' = DropState(D),
           D = {} \/ InState("prepared") \subseteq D
    PROVE  Slot!Next \/ UNCHANGED Slot!slotVars
<1> USE DEF IInv, TypeOK
<1>1. CASE D = {}
  <2>1. state' = state
    BY <1>1 DEF DropState
  <2> QED BY <2>1 DEF Slot!slotVars, SlotOf, EndedOf, Live, InState, IsActive
<1>2. ASSUME NEW c \in D PROVE Slot!Next
  <2>1. c \in Checks /\ state[c] = "prepared" /\ Live = {c} /\ D = {c}
    BY <1>2 DEF AtMostOneLive, Live, InState
  <2>2. state' = [state EXCEPT ![c] = "cancelled"]
    BY <2>1 DEF DropState, Has
  <2>3. Live' = {} /\ ~IsActive /\ ~IsActive' /\ IsActive' = IsActive
    <3>1. \A d \in Checks \ {c} : state[d] \notin {"prepared", "running"}
      BY <2>1 DEF Live, InState
    <3>2. \A d \in Checks : state'[d] \notin {"prepared", "running"}
      BY <2>1, <2>2, <3>1
    <3>3. InState("running") = {} /\ InState("running")' = {} /\ InState("prepared")' = {}
      BY <2>1, <3>1, <3>2 DEF InState
    <3> QED BY <3>3 DEF Live, IsActive
  <2>4. SlotOf = c /\ c # NoCheck /\ SlotOf' = NoCheck
    BY <2>1, <2>3, SlotOfLive, BoundsAssumption DEF SlotOf
  <2>5. [d \in Checks |-> EndedOf(d)]' = [[d \in Checks |-> EndedOf(d)] EXCEPT ![SlotOf] = "cancelled"]
    BY <2>1, <2>2, <2>4 DEF EndedOf
  <2>6. Slot!Withdraw
    BY <2>3, <2>4, <2>5 DEF Slot!Withdraw
  <2> QED BY <2>6 DEF Slot!Next
<1> QED BY <1>1, <1>2

\* Every step of the store is a step of the slot or none.
LEMMA NextSlot == IInv /\ IInv' /\ [Next]_vars => [Slot!Next]_(Slot!slotVars)
<1> SUFFICES ASSUME IInv, IInv', [Next]_vars PROVE Slot!Next \/ UNCHANGED Slot!slotVars
    OBVIOUS
<1> USE DEF IInv, TypeOK
<1>1. CASE Admit
    BY <1>1, AdmitSlot
<1>2. ASSUME NEW c \in Checks, NEW o \in Final, Settle(c, o) PROVE Slot!Next
    BY <1>2, SettleSlot
<1>3. ASSUME NEW c \in Checks, Start(c) PROVE Slot!Next
  <2>1. state[c] = "prepared" /\ state' = [state EXCEPT ![c] = "running"]
    BY <1>3 DEF Start
  <2>2. Live = {c} /\ Live' = {c} /\ ~IsActive /\ IsActive'
    BY <2>1 DEF AtMostOneLive, Live, InState, IsActive
  <2>3. SlotOf = c /\ SlotOf' = c /\ c # NoCheck
    BY <2>2, BoundsAssumption DEF SlotOf
  <2>4. [d \in Checks |-> EndedOf(d)]' = [d \in Checks |-> EndedOf(d)]
    BY <2>1 DEF EndedOf
  <2>5. Slot!Begin
    BY <2>2, <2>3, <2>4 DEF Slot!Begin
  <2> QED BY <2>5 DEF Slot!Next
<1>4. ASSUME NEW c \in Checks, CancelPrepared(c) \/ Expire(c)
      PROVE  Slot!Next \/ UNCHANGED Slot!slotVars
  <2>1. {c} = InState("prepared") /\ state' = DropState({c})
    BY <1>4 DEF CancelPrepared, Expire, TimersAreEstimates, AtMostOneLive, Live, InState
  <2> QED BY <2>1, DropSlot
<1>5. CASE Close
    BY <1>5, DropSlot DEF Close
<1>6. CASE \/ PrepareFails \/ AdmitBusy \/ UNCHANGED vars
           \/ \E c \in Checks : \/ CreateBegin(c) \/ CancelRunning(c)
                               \/ Send(c) \/ Answer(c) \/ Tell(c) \/ ProbesFinish(c)
  <2>1. state' = state
    BY <1>6 DEF PrepareFails, AdmitBusy, CreateBegin, CancelRunning, Send, Answer, Tell,
                ProbesFinish, vars, entryVars
  <2> QED BY <2>1 DEF Slot!slotVars, SlotOf, EndedOf, Live, InState, IsActive
<1> QED BY <1>1, <1>2, <1>3, <1>4, <1>5, <1>6 DEF Next

\* The store implements the single slot: handlers, timers and runs in any order
\* look from outside like one check at a time whose end is told once.
THEOREM StoreImplementsSlot == Spec => SlotSpec
<1>1. Spec => []IInv
    BY SpecIInv
<1> QED BY <1>1, InitSlot, NextSlot, PTL DEF Spec, SlotSpec, Slot!Spec

\* No key outlives its estimate or its run, nor the daemon (CheckStore's
\* NothingLingers), whatever was in flight.
THEOREM KeysDoNotLinger == Spec => []NothingLingers
BY KeyIsForgotten, ClosingIsFinal, PTL DEF NothingLingers

\* An end can be read once it is there, is never revised, and what is told of it
\* only grows: the requests a run left behind may be recorded after it.
THEOREM EndsStay == Spec => EndsAreKept
BY JustSettled, EndsAreFinal DEF EndsAreKept

---------------------------------------------------------------------------
(* What the page relies on of the daemon                                   *)

\* A check that was started never waits again, one that ended stays so, and a run
\* that was told to stop stays told.
Onward ==
    /\ \A c \in Checks :
          /\ state[c] \notin {"absent", "prepared"} => state'[c] \notin {"absent", "prepared"}
          /\ state[c] \notin {"absent", "prepared", "running"} => state'[c] \in {state[c], "evicted"}
    /\ aborted \subseteq aborted'

\* What of the store's strengthening the page relies on.
LEMMA StoreShape ==
    ASSUME IInv
    PROVE  /\ state \in [Checks -> States] /\ aborted \subseteq Checks
           /\ pending \in Checks \cup {NoCheck}
           /\ pending # NoCheck => state[pending] = "absent"
           /\ \A c \in timers : c \in Checks /\ state[c] = "prepared"
           /\ \A c \in Checks : task[c] # "none" => state[c] = "running"
BY DEF IInv, TypeOK, PendingIsNew, TimersAreEstimates,
       RunsMatchEntries, InState, States, Final, States, Final

\* Pruning evicts ended checks and touches no other.
LEMMA PrunedShape ==
    ASSUME NEW st \in [Checks -> States], NEW ins
    PROVE  \A c \in Checks : \/ Pruned(st, ins)[c] = st[c]
                             \/ st[c] \in Final /\ Pruned(st, ins)[c] = "evicted"
BY DEF Pruned, Evicted, Ended

\* Dropping an estimate touches no other check.
LEMMA DropShape ==
    ASSUME IInv, NEW D, \A c \in D : state[c] = "prepared"
    PROVE  /\ DropState(D) \in [Checks -> States]
           /\ \A c \in Checks : \/ DropState(D)[c] = state[c]
                                \/ state[c] = "prepared" /\ DropState(D)[c] = "cancelled"
BY StoreShape DEF DropState, Has, States, Final

\* A step that only drops estimates moves the checks onward.
LEMMA DropOnward ==
    ASSUME IInv, NEW D, \A c \in D : state[c] = "prepared",
           state' = DropState(D), aborted \subseteq aborted'
    PROVE  Onward
BY DropShape DEF Onward

\* Every step of the store moves its checks onward.
LEMMA StoreStep == IInv /\ [Next]_vars => Onward
<1> SUFFICES ASSUME IInv, [Next]_vars PROVE Onward
    OBVIOUS
<1>1. CASE UNCHANGED <<state, aborted>>
    BY <1>1 DEF Onward
<1>2. CASE PrepareFails \/ AdmitBusy
    BY <1>1, <1>2 DEF PrepareFails, AdmitBusy, entryVars, runVars
<1>3. CASE Admit
  <2> DEFINE D == InState("prepared")
             st == [DropState(D) EXCEPT ![pending] = "prepared"]
             ins == [inserted EXCEPT ![pending] = clock + 1]
  <2>1. pending \in Checks /\ state[pending] = "absent"
      BY <1>3, StoreShape DEF Admit
  <2>2. state' = Pruned(st, ins) /\ aborted' = aborted
      BY <1>3 DEF Admit, runVars
  <2>3. /\ DropState(D) \in [Checks -> States]
        /\ \A c \in Checks : \/ DropState(D)[c] = state[c]
                             \/ state[c] = "prepared" /\ DropState(D)[c] = "cancelled"
      BY DropShape DEF InState
  <2>4. /\ st \in [Checks -> States]
        /\ \A c \in Checks : state[c] \notin {"absent", "prepared"} => st[c] = state[c]
      BY <2>1, <2>3 DEF States
  <2> HIDE DEF st, ins
  <2>5. \A c \in Checks : state'[c] = st[c] \/ (st[c] \in Final /\ state'[c] = "evicted")
      BY <2>2, <2>4, PrunedShape
  <2> QED
      BY <2>2, <2>4, <2>5 DEF Onward
<1>4. CASE Close
    BY <1>4, DropOnward DEF Close, InState
<1>5. ASSUME NEW c \in Checks, \/ CreateBegin(c) \/ CancelRunning(c)
                               \/ Send(c) \/ Answer(c) \/ Tell(c) \/ ProbesFinish(c)
      PROVE  Onward
    BY <1>5 DEF CreateBegin, CancelRunning, Send, Answer, Tell, ProbesFinish,
                entryVars, runVars, Onward
<1>6. ASSUME NEW c \in Checks, Start(c) PROVE Onward
    BY <1>6, StoreShape DEF Start, Onward
<1>7. ASSUME NEW c \in Checks, CancelPrepared(c) \/ Expire(c) PROVE Onward
    BY <1>7, StoreShape, DropOnward DEF CancelPrepared, Expire, runVars
<1>8. ASSUME NEW c \in Checks, NEW o \in Final, Settle(c, o) PROVE Onward
  <2> DEFINE st == [state EXCEPT ![c] = IF Has(c) THEN o ELSE @]
  <2>1. state[c] = "running" /\ state' = Pruned(st, inserted) /\ aborted' = aborted
      BY <1>8, StoreShape DEF Settle, OutcomeAllowed
  <2>2. /\ st \in [Checks -> States]
        /\ \A d \in Checks \ {c} : st[d] = state[d]
        /\ st[c] \in Final
      BY <2>1, StoreShape DEF Has, States
  <2> HIDE DEF st
  <2>3. \A d \in Checks : state'[d] = st[d] \/ (st[d] \in Final /\ state'[d] = "evicted")
      BY <2>1, <2>2, PrunedShape
  <2> QED
      BY <2>1, <2>2, <2>3 DEF Onward, Final
<1>9. CASE UNCHANGED vars
    BY <1>1, <1>9 DEF vars
<1> QED
    BY <1>2, <1>3, <1>4, <1>5, <1>6, <1>7, <1>8, <1>9 DEF Next

---------------------------------------------------------------------------
(* The invariant of the page                                               *)

Seen == {"absent", "prepared"}

\* A view that shows a check has one, and so has the answer that brings it there.
HasItsCheck ==
    /\ view \in {"estimate", "running", "done"} => mine \in Checks
    /\ view = "done" => shown \in Final
    /\ act = "create" /\ answer = "ok" => offered \in Checks

\* A call belongs to the view whose button made it, and the poller to the run's.
CallsAgree ==
    /\ act = "create" => view = "form"
    /\ act = "start" => view = "estimate"
    /\ act = "cancel" => view \in {"estimate", "running"}
    /\ act = "none" => answer = "none"
    /\ answer = "awaited" => act = "create"
    /\ poll # "off" => view = "running"

\* What the daemon agreed to, or told the poller, is so for good.
AnswersAreSo ==
    /\ act = "start" /\ answer = "ok" => state[mine] \notin Seen
    /\ act = "cancel" /\ answer \in {"ok", "none"} => state[mine] \notin Seen
    /\ poll \in Final => state[mine] \in {poll, "evicted"}

PageInv ==
    /\ PageTypeOK
    /\ HasItsCheck
    /\ CallsAgree
    /\ AnswersAreSo
    /\ DisplayIsTrue
    /\ CancelIsHeeded

\* The page's strengthening holds of a page just opened.
LEMMA InitPage == PageInit => PageInv
BY PageAssumption DEF PageInit, PageInv, PageTypeOK, HasItsCheck, CallsAgree, AnswersAreSo, DisplayIsTrue,
       CancelIsHeeded, Views, Calls, Answers, Polls, Final

\* What the daemon does by itself, or for other tabs, is never news the page had told otherwise.
LEMMA DaemonKeepsPage ==
    ASSUME PageInv, Onward, UNCHANGED pageVars
    PROVE  PageInv'
<1> USE DEF pageVars, actVars, pollVars
<1>1. PageTypeOK' /\ HasItsCheck' /\ CallsAgree'
    BY DEF PageInv, PageTypeOK, HasItsCheck, CallsAgree
<1>2. \/ mine \in Checks
      \/ view \notin {"estimate", "running", "done"} /\ act \notin {"start", "cancel"} /\ poll = "off"
    BY DEF PageInv, HasItsCheck, CallsAgree
<1>3. CASE mine \in Checks
    BY <1>1, <1>3 DEF PageInv, Onward, AnswersAreSo, DisplayIsTrue, CancelIsHeeded, Seen, Final,
                      HasItsCheck
<1>4. CASE view \notin {"estimate", "running", "done"} /\ act \notin {"start", "cancel"} /\ poll = "off"
    BY <1>1, <1>4 DEF PageInv, AnswersAreSo, DisplayIsTrue, CancelIsHeeded, Final
<1> QED
    BY <1>2, <1>3, <1>4

\* The steps of the page alone.
LEMMA PageStepsKeepPage ==
    ASSUME PageInv, User \/ Load \/ ActHeard \/ PollStep
    PROVE  PageInv' /\ UNCHANGED vars
<1> USE DEF PageInv, HasItsCheck, CallsAgree, AnswersAreSo, DisplayIsTrue, CancelIsHeeded,
            vars, actVars, pollVars, Final
<1> USE PageAssumption
<1>1. CASE Open \/ Load \/ Reload \/ NewCheck
    BY <1>1 DEF Open, Load, Reload, NewCheck, Forgets, NotPolling, Idle,
                PageTypeOK, Views, Calls, Answers, Polls
<1>2. CASE Submit \/ PressStart \/ PressCancel
    BY <1>2 DEF Submit, PressStart, PressCancel, Call, PageTypeOK, Views, Calls, Answers
<1>3. CASE RetryPoll \/ PollAgain \/ StatusRunning
    BY <1>3 DEF RetryPoll, PollAgain, StatusRunning, Polling, PageTypeOK, Polls
<1>4. CASE StatusFinal
    BY <1>4 DEF StatusFinal, NotPolling, Idle, PageTypeOK, Views, Calls, Answers, Polls
<1>5. CASE StatusFails
    BY <1>5 DEF StatusFails, NotPolling, TooMany, Counted, PageTypeOK, Polls
<1>6. ASSUME NEW what \in Heard, answer # "none", CreateHeard(what)
      PROVE  PageInv' /\ UNCHANGED vars
    BY <1>6 DEF CreateHeard, Heard, Idle, PageTypeOK, Views, Calls, Answers
<1>7. ASSUME NEW what \in Heard, answer # "none", StartHeard(what)
      PROVE  PageInv' /\ UNCHANGED vars
    BY <1>7 DEF StartHeard, Started, Heard, Idle, Polling, PageTypeOK, Views, Calls, Answers, Polls, Seen
<1>8. CASE EstimateCancelHeard
    BY <1>8 DEF EstimateCancelHeard, Forgets, Idle, PageTypeOK, Views, Calls, Answers
<1>9. ASSUME NEW what \in Heard, answer # "none", RunCancelHeard(what)
      PROVE  PageInv' /\ UNCHANGED vars
    BY <1>9 DEF RunCancelHeard, Heard, Idle, PageTypeOK, Views, Calls, Answers
<1> QED
    BY <1>1, <1>2, <1>3, <1>4, <1>5, <1>6, <1>7, <1>8, <1>9 DEF User, ActHeard, PollStep

\* The steps of the daemon for this page.
LEMMA ServeKeepsPage ==
    ASSUME PageInv, IInv, Serve, Onward
    PROVE  PageInv'
<1> USE DEF PageInv, HasItsCheck, CallsAgree, AnswersAreSo, DisplayIsTrue, CancelIsHeeded,
            actVars, pollVars, Final, Served, Onward, Seen
<1>1. CASE ServeCreate
    BY <1>1 DEF ServeCreate, PageTypeOK, Calls, Answers
<1>2. CASE CreateAnswered
  <2>1. PICK what \in {"ok", "refused"} : PrepareAnswers(what) /\ (what = "ok" => Admit)
      BY <1>2 DEF CreateAnswered
  <2>2. /\ UNCHANGED <<view, mine, act, poll, failures, shown>>
        /\ \/ answer = "awaited" /\ answer' = what
              /\ offered' = IF what = "ok" THEN pending ELSE NoCheck
           \/ UNCHANGED <<answer, offered>>
      BY <2>1 DEF PrepareAnswers
  <2>3. what = "ok" => pending \in Checks
      BY <2>1, StoreShape DEF Admit
  <2>4. pending \in Checks \cup {NoCheck}
      BY StoreShape
  <2>5. PageTypeOK'
      BY <2>2, <2>4 DEF PageTypeOK, Answers
  <2>6. HasItsCheck' /\ CallsAgree'
      BY <2>2, <2>3
  <2>7. AnswersAreSo' /\ DisplayIsTrue' /\ CancelIsHeeded'
      BY <2>2
  <2> QED
      BY <2>5, <2>6, <2>7
<1>3. CASE ServeStart
    BY <1>3, StoreShape DEF ServeStart, PageTypeOK, Calls, Answers, Start
<1>4. CASE ServeCancel
  <2>1. /\ act = "cancel" /\ mine \in Checks
        /\ answer' = IF Has(mine) THEN "ok" ELSE "refused"
        /\ UNCHANGED <<view, mine, act, offered, poll, failures, shown>>
      BY <1>4 DEF ServeCancel
  <2>2. \/ CancelPrepared(mine) \/ CancelRunning(mine)
        \/ state[mine] \notin {"prepared", "running"} /\ UNCHANGED vars
      BY <1>4 DEF ServeCancel, CancelIfLive
  <2>3. Has(mine) => state'[mine] \notin Seen /\ (state'[mine] = "running" => mine \in aborted')
      BY <2>1, <2>2, StoreShape DEF Has, CancelPrepared, CancelRunning,
            DropState, entryVars, vars
  <2>4. PageTypeOK' /\ HasItsCheck' /\ CallsAgree'
      BY <2>1 DEF PageTypeOK, Answers
  <2>5. AnswersAreSo' /\ DisplayIsTrue' /\ CancelIsHeeded'
      BY <2>1, <2>3
  <2> QED
      BY <2>4, <2>5
<1>5. CASE ServeStatus
    BY <1>5, StoreShape DEF ServeStatus, PageTypeOK, Polls, Has
<1> QED
    BY <1>1, <1>2, <1>3, <1>4, <1>5 DEF Serve

\* Every step of the page's model is one of the daemon's, or none.
LEMMA NextUsesStore == PageInv /\ [PageNext]_allVars => [Next]_vars
<1> SUFFICES ASSUME PageInv, [PageNext]_allVars PROVE [Next]_vars
    OBVIOUS
<1>1. CASE User \/ Load \/ ActHeard \/ PollStep
    BY <1>1, PageStepsKeepPage
<1>2. CASE ServeCreate \/ ServeStatus
    BY <1>2 DEF ServeCreate, ServeStatus, Next
<1>3. CASE CreateAnswered
    BY <1>3 DEF CreateAnswered, Next
<1>4. CASE ServeStart \/ ServeCancel
  <2>1. mine \in Checks
      BY <1>4 DEF ServeStart, ServeCancel, Served, PageInv, CallsAgree, HasItsCheck
  <2> QED
      BY <1>4, <2>1 DEF ServeStart, ServeCancel, CancelIfLive, Next
<1>5. CASE Others
    BY <1>5 DEF Others, Theirs, Next
<1>6. CASE DaemonAlone
    BY <1>6 DEF DaemonAlone, Next
<1>7. CASE UNCHANGED allVars
    BY <1>7 DEF allVars, vars
<1> QED
    BY <1>1, <1>2, <1>3, <1>4, <1>5, <1>6, <1>7 DEF PageNext, Serve

\* Every step of the page or the store keeps it.
LEMMA NextPage == IInv /\ PageInv /\ [PageNext]_allVars => PageInv'
<1> SUFFICES ASSUME IInv, PageInv, [PageNext]_allVars PROVE PageInv'
    OBVIOUS
<1>1. Onward
    BY NextUsesStore, StoreStep
<1>2. CASE User \/ Load \/ ActHeard \/ PollStep
    BY <1>2, PageStepsKeepPage
<1>3. CASE Serve
    BY <1>1, <1>3, ServeKeepsPage
<1>4. CASE Others \/ DaemonAlone \/ UNCHANGED allVars
    BY <1>1, <1>4, DaemonKeepsPage DEF Others, DaemonAlone, allVars, pageVars
<1> QED
    BY <1>2, <1>3, <1>4 DEF PageNext

\* So both hold throughout.
LEMMA SpecPage == PageSpec => [](IInv /\ PageInv)
<1>1. PageInit => IInv /\ PageInv
    BY InitIInv, InitPage DEF PageInit
<1>2. IInv /\ PageInv /\ [PageNext]_allVars => IInv' /\ PageInv'
    BY NextUsesStore, NextIInv, NextPage
<1> QED
    BY <1>1, <1>2, PTL DEF PageSpec

---------------------------------------------------------------------------
\* Whatever the buyer presses, the network loses and other tabs do, the daemon is
\* only asked what CheckStore allows: all that is proved of it holds under the page.
THEOREM PageUsesStore == PageSpec => Spec
<1>1. PageInit => Init
    BY DEF PageInit
<1>2. PageInv /\ [PageNext]_allVars => [Next]_vars
    BY NextUsesStore
<1>3. PageSpec => []PageInv
    BY SpecPage, PTL
<1> QED
    BY <1>1, <1>2, <1>3, PTL DEF PageSpec, Spec

\* The page's variables keep their types: the poller's failures stay within the limit.
THEOREM PageTypes == PageSpec => []PageTypeOK
<1>1. PageInv => PageTypeOK
    BY DEF PageInv
<1> QED
    BY <1>1, SpecPage, PTL

\* No page shows a run that was not started, or another end than the check's own.
THEOREM PageIsTrue == PageSpec => []DisplayIsTrue
<1>1. PageInv => DisplayIsTrue
    BY DEF PageInv
<1> QED
    BY <1>1, SpecPage, PTL

\* A cancel the daemon agreed to ended the check or told its run to stop.
THEOREM CancelsAreHeeded == PageSpec => []CancelIsHeeded
<1>1. PageInv => CancelIsHeeded
    BY DEF PageInv
<1> QED
    BY <1>1, SpecPage, PTL
=============================================================================
