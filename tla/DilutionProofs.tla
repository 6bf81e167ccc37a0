--------------------------- MODULE DilutionProofs ---------------------------
(***************************************************************************)
(* What Dilution promises, for every number of repetitions, every number   *)
(* of requests a draw takes and every budget.                              *)
(***************************************************************************)
EXTENDS Dilution, TLAPS

InDraw == phase \in {"spread", "ask", "out", "backoff", "judge"}

\* A replacement is owed for each failure, until the allowance is used up.
ReplacementsMatch ==
    /\ owed <= replaced /\ replaced <= Allowance
    /\ replaced <= lost + excluded
    /\ replaced < Allowance => replaced = lost + excluded
    /\ phase # "ended" => excluded <= Allowance

\* Every draw begun, planned or owed, is taken, or is the one under way.
DrawsAccounted ==
    /\ planned <= N
    /\ phase = "preparing" => Taken = 0 /\ planned = 0 /\ replaced = 0 /\ owed = 0 /\ sent = 0 /\ charged = 0
    /\ phase = "slot" => Taken + owed = planned + replaced
    /\ InDraw => Taken + owed + 1 = planned + replaced /\ planned > 0

\* A draw that is caught asking for too much ends the group.
AskedAtMost ==
    /\ phase \in {"spread", "ask"} => asked <= PerDraw
    /\ phase \in {"out", "backoff", "judge"} => asked <= PerDraw + 1
    /\ phase = "spread" => asked = 0

SentAtMost ==
    /\ phase \in {"preparing", "slot"} => sent <= PerDraw * Taken
    /\ InDraw => sent <= PerDraw * Taken + asked

\* The same of the tokens: a draw within its requests is within its declaration.
DrawnAtMost == InDraw /\ asked <= PerDraw => drawn <= DrawTokens

ChargedAtMost ==
    /\ phase \in {"preparing", "slot"} => charged <= DrawTokens * Taken
    /\ InDraw => charged <= DrawTokens * Taken + drawn

\* The result is given once, as the group ends.
Ends == phase = "ended" <=> result # "none"

IInv ==
    /\ TypeOK
    /\ ReplacementsMatch /\ DrawsAccounted /\ AskedAtMost /\ SentAtMost
    /\ DrawnAtMost /\ ChargedAtMost
    /\ Ends
    /\ RanIsComplete
    /\ EstimateSuffices

---------------------------------------------------------------------------
\* The draws a group may lose are a number.
LEMMA AllowanceIsNat == Allowance \in Nat
BY DilutionAssumption DEF Allowance

\* One more draw costs as much again.
LEMMA OneMore ==
    ASSUME NEW each \in Nat, NEW n \in Nat
    PROVE  /\ each * n \in Nat
           /\ each * (n + 1) = each * n + each
OBVIOUS

\* More draws cost at least as much.
LEMMA MoreDraws ==
    ASSUME NEW each \in Nat, NEW m \in Nat, NEW n \in Nat, m <= n
    PROVE  each * m <= each * n
OBVIOUS

\* Every step takes one of these actions.
LEMMA StepCases ==
    ASSUME [Next]_vars
    PROVE  \/ Prepared \/ PrepareThrows \/ Replace \/ NextPlanned \/ AllDrawn \/ MomentComes
           \/ Ask \/ AskAborted \/ AskOverBudget \/ GoesOn \/ Heard \/ BacksOff \/ Thrown
           \/ BackoffEnds \/ JudgeBug \/ JudgeUnobserved \/ JudgeExcluded \/ JudgeLost
           \/ JudgeReading \/ Abort \/ UNCHANGED vars
BY DEF Next, Step, Answered

---------------------------------------------------------------------------
\* Every step keeps the types.
LEMMA TypeStep == TypeOK /\ AskedAtMost /\ [Next]_vars => TypeOK'
<1>. SUFFICES ASSUME TypeOK, AskedAtMost, [Next]_vars PROVE TypeOK'
  OBVIOUS
<1>. USE DilutionAssumption DEF TypeOK
<1>1. CASE Prepared
  BY <1>1 DEF Prepared, Phases, Waits, Results, Connections, loopVars, drawVars
<1>2. CASE PrepareThrows
  BY <1>2 DEF PrepareThrows, ThrowOut, SkipReason, Conclude, Phases, Waits, Results, Connections, loopVars, drawVars
<1>3. CASE Replace
  BY <1>3 DEF Replace, StartDraw, Phases, Waits, Results, Connections, loopVars, drawVars
<1>4. CASE NextPlanned
  BY <1>4 DEF NextPlanned, StartDraw, Phases, Waits, Results, Connections, loopVars, drawVars
<1>5. CASE AllDrawn
  BY <1>5 DEF AllDrawn, Conclude, Phases, Waits, Results, Connections, loopVars, drawVars
<1>6. CASE MomentComes
  BY <1>6 DEF MomentComes, ThrowOut, SkipReason, Conclude, Phases, Waits, Results, Connections, loopVars, drawVars
<1>7. CASE Ask
  <2>1. asked \in 0..PerDraw
    BY <1>7 DEF Ask, AskedAtMost
  <2>2. Costs[asked] \subseteq Nat
    BY <2>1
  <2>. QED  BY <1>7, <2>2 DEF Ask, Phases, Waits, Results, Connections, loopVars
<1>8. CASE AskAborted
  BY <1>8 DEF AskAborted, ThrowOut, SkipReason, Conclude, Phases, Waits, Results, Connections, loopVars, drawVars
<1>9. CASE AskOverBudget
  BY <1>9 DEF AskOverBudget, Conclude, Phases, Waits, Results, Connections, loopVars, drawVars
<1>10. CASE GoesOn
  BY <1>10 DEF GoesOn, Travelled, Phases, Waits, Results, Connections, loopVars, drawVars
<1>11. CASE Heard
  BY <1>11 DEF Heard, Travelled, Hear, Phases, Waits, Results, Connections, loopVars, drawVars
<1>12. CASE BacksOff
  BY <1>12 DEF BacksOff, Travelled, ThrowOut, SkipReason, Conclude, Phases, Waits, Results, Connections, loopVars, drawVars
<1>13. CASE Thrown
  BY <1>13 DEF Thrown, Travelled, ThrowOut, SkipReason, Conclude, Phases, Waits, Results, Connections, loopVars, drawVars
<1>14. CASE BackoffEnds
  BY <1>14 DEF BackoffEnds, ThrowOut, SkipReason, Conclude, Hear, Phases, Waits, Results, Connections, loopVars, drawVars
<1>15. CASE JudgeBug
  BY <1>15 DEF JudgeBug, ThrowOut, SkipReason, Conclude, Phases, Waits, Results, Connections, loopVars, drawVars
<1>16. CASE JudgeUnobserved
  BY <1>16 DEF JudgeUnobserved, Conclude, Phases, Waits, Results, Connections, loopVars, drawVars
<1>17. CASE JudgeExcluded
  BY <1>17 DEF JudgeExcluded, Conclude, MayReplace, TooManyExcluded, Phases, Waits, Results, Connections, loopVars, drawVars
<1>18. CASE JudgeLost
  BY <1>18 DEF JudgeLost, MayReplace, Phases, Waits, Results, Connections, loopVars, drawVars
<1>19. CASE JudgeReading
  BY <1>19 DEF JudgeReading, Phases, Waits, Results, Connections, loopVars, drawVars
<1>20. CASE Abort
  BY <1>20 DEF Abort, Waits, Phases, Results, Connections, loopVars, drawVars
<1>21. CASE UNCHANGED vars
  BY <1>21 DEF vars, loopVars, drawVars, Phases, Waits, Results, Connections
<1>. QED  BY StepCases, <1>1, <1>2, <1>3, <1>4, <1>5, <1>6, <1>7, <1>8, <1>9, <1>10, <1>11, <1>12, <1>13, <1>14, <1>15, <1>16, <1>17, <1>18, <1>19, <1>20, <1>21

\* Every step keeps the count of replacements.
LEMMA ReplacementsStep ==
    ASSUME TypeOK, ReplacementsMatch, [Next]_vars
    PROVE  ReplacementsMatch'
<1>. USE AllowanceIsNat DEF TypeOK, ReplacementsMatch
<1>1. CASE Prepared
  BY <1>1 DEF Prepared, Waits, loopVars
<1>2. CASE PrepareThrows
  BY <1>2 DEF PrepareThrows, ThrowOut, SkipReason, Conclude, Waits, loopVars
<1>3. CASE Replace
  BY <1>3 DEF Replace, StartDraw, Waits, loopVars
<1>4. CASE NextPlanned
  BY <1>4 DEF NextPlanned, StartDraw, Waits, loopVars
<1>5. CASE AllDrawn
  BY <1>5 DEF AllDrawn, Conclude, Waits, loopVars
<1>6. CASE MomentComes
  BY <1>6 DEF MomentComes, ThrowOut, SkipReason, Conclude, Waits, loopVars
<1>7. CASE Ask
  BY <1>7 DEF Ask, Waits, loopVars
<1>8. CASE AskAborted
  BY <1>8 DEF AskAborted, ThrowOut, SkipReason, Conclude, Waits, loopVars
<1>9. CASE AskOverBudget
  BY <1>9 DEF AskOverBudget, Conclude, Waits, loopVars
<1>10. CASE GoesOn
  BY <1>10 DEF GoesOn, Travelled, Waits, loopVars
<1>11. CASE Heard
  BY <1>11 DEF Heard, Travelled, Hear, Waits, loopVars
<1>12. CASE BacksOff
  BY <1>12 DEF BacksOff, Travelled, ThrowOut, SkipReason, Conclude, Waits, loopVars
<1>13. CASE Thrown
  BY <1>13 DEF Thrown, Travelled, ThrowOut, SkipReason, Conclude, Waits, loopVars
<1>14. CASE BackoffEnds
  BY <1>14 DEF BackoffEnds, ThrowOut, SkipReason, Conclude, Hear, Waits, loopVars
<1>15. CASE JudgeBug
  BY <1>15 DEF JudgeBug, ThrowOut, SkipReason, Conclude, Waits, loopVars
<1>16. CASE JudgeUnobserved
  BY <1>16 DEF JudgeUnobserved, Conclude, Waits, loopVars
<1>17. CASE JudgeExcluded
  BY <1>17 DEF JudgeExcluded, Conclude, MayReplace, TooManyExcluded, Waits, loopVars
<1>18. CASE JudgeLost
  BY <1>18 DEF JudgeLost, MayReplace, Waits, loopVars
<1>19. CASE JudgeReading
  BY <1>19 DEF JudgeReading, Waits, loopVars
<1>20. CASE Abort
  BY <1>20 DEF Abort, Waits, loopVars
<1>21. CASE UNCHANGED vars
  BY <1>21 DEF vars, loopVars, drawVars, Waits
<1>. QED  BY StepCases, <1>1, <1>2, <1>3, <1>4, <1>5, <1>6, <1>7, <1>8, <1>9, <1>10, <1>11, <1>12, <1>13, <1>14, <1>15, <1>16, <1>17, <1>18, <1>19, <1>20, <1>21

\* The draw numbers of the loop, through every way a draw can end.
LEMMA AccountedStep ==
    ASSUME TypeOK, ReplacementsMatch, DrawsAccounted, [Next]_vars
    PROVE  DrawsAccounted'
<1>. USE DilutionAssumption, AllowanceIsNat DEF TypeOK, ReplacementsMatch, DrawsAccounted, InDraw, Taken
<1>1. CASE Prepared
  BY <1>1 DEF Prepared, Waits, loopVars, drawVars
<1>2. CASE PrepareThrows
  BY <1>2 DEF PrepareThrows, ThrowOut, SkipReason, Conclude, Waits, loopVars, drawVars
<1>3. CASE Replace
  BY <1>3 DEF Replace, StartDraw, Waits, loopVars, drawVars
<1>4. CASE NextPlanned
  BY <1>4 DEF NextPlanned, StartDraw, Waits, loopVars, drawVars
<1>5. CASE AllDrawn
  BY <1>5 DEF AllDrawn, Conclude, Waits, loopVars, drawVars
<1>6. CASE MomentComes
  BY <1>6 DEF MomentComes, ThrowOut, SkipReason, Conclude, Waits, loopVars, drawVars
<1>7. CASE Ask
  BY <1>7 DEF Ask, Waits, loopVars, drawVars
<1>8. CASE AskAborted
  BY <1>8 DEF AskAborted, ThrowOut, SkipReason, Conclude, Waits, loopVars, drawVars
<1>9. CASE AskOverBudget
  BY <1>9 DEF AskOverBudget, Conclude, Waits, loopVars, drawVars
<1>10. CASE GoesOn
  BY <1>10 DEF GoesOn, Travelled, Waits, loopVars, drawVars
<1>11. CASE Heard
  BY <1>11 DEF Heard, Travelled, Hear, Waits, loopVars, drawVars
<1>12. CASE BacksOff
  BY <1>12 DEF BacksOff, Travelled, ThrowOut, SkipReason, Conclude, Waits, loopVars, drawVars
<1>13. CASE Thrown
  BY <1>13 DEF Thrown, Travelled, ThrowOut, SkipReason, Conclude, Waits, loopVars, drawVars
<1>14. CASE BackoffEnds
  BY <1>14 DEF BackoffEnds, ThrowOut, SkipReason, Conclude, Hear, Waits, loopVars, drawVars
<1>15. CASE JudgeBug
  BY <1>15 DEF JudgeBug, ThrowOut, SkipReason, Conclude, Waits, loopVars, drawVars
<1>16. CASE JudgeUnobserved
  BY <1>16 DEF JudgeUnobserved, Conclude, Waits, loopVars, drawVars
<1>17. CASE JudgeExcluded
  BY <1>17 DEF JudgeExcluded, Conclude, MayReplace, TooManyExcluded, Waits, loopVars, drawVars
<1>18. CASE JudgeLost
  BY <1>18 DEF JudgeLost, MayReplace, Waits, loopVars, drawVars
<1>19. CASE JudgeReading
  BY <1>19 DEF JudgeReading, Waits, loopVars, drawVars
<1>20. CASE Abort
  BY <1>20 DEF Abort, Waits, loopVars, drawVars
<1>21. CASE UNCHANGED vars
  BY <1>21 DEF vars, loopVars, drawVars, Waits
<1>. QED  BY StepCases, <1>1, <1>2, <1>3, <1>4, <1>5, <1>6, <1>7, <1>8, <1>9, <1>10, <1>11, <1>12, <1>13, <1>14, <1>15, <1>16, <1>17, <1>18, <1>19, <1>20, <1>21

\* No step asks for more than a draw takes.
LEMMA AskedStep ==
    ASSUME TypeOK, AskedAtMost, [Next]_vars
    PROVE  AskedAtMost'
<1>. USE DilutionAssumption DEF TypeOK, AskedAtMost
<1>1. CASE Prepared
  BY <1>1 DEF Prepared, Waits, loopVars, drawVars
<1>2. CASE PrepareThrows
  BY <1>2 DEF PrepareThrows, ThrowOut, SkipReason, Conclude, Waits, loopVars, drawVars
<1>3. CASE Replace
  BY <1>3 DEF Replace, StartDraw, Waits, loopVars, drawVars
<1>4. CASE NextPlanned
  BY <1>4 DEF NextPlanned, StartDraw, Waits, loopVars, drawVars
<1>5. CASE AllDrawn
  BY <1>5 DEF AllDrawn, Conclude, Waits, loopVars, drawVars
<1>6. CASE MomentComes
  BY <1>6 DEF MomentComes, ThrowOut, SkipReason, Conclude, Waits, loopVars, drawVars
<1>7. CASE Ask
  BY <1>7 DEF Ask, Waits, loopVars, drawVars
<1>8. CASE AskAborted
  BY <1>8 DEF AskAborted, ThrowOut, SkipReason, Conclude, Waits, loopVars, drawVars
<1>9. CASE AskOverBudget
  BY <1>9 DEF AskOverBudget, Conclude, Waits, loopVars, drawVars
<1>10. CASE GoesOn
  BY <1>10 DEF GoesOn, Travelled, Waits, loopVars, drawVars
<1>11. CASE Heard
  BY <1>11 DEF Heard, Travelled, Hear, Waits, loopVars, drawVars
<1>12. CASE BacksOff
  BY <1>12 DEF BacksOff, Travelled, ThrowOut, SkipReason, Conclude, Waits, loopVars, drawVars
<1>13. CASE Thrown
  BY <1>13 DEF Thrown, Travelled, ThrowOut, SkipReason, Conclude, Waits, loopVars, drawVars
<1>14. CASE BackoffEnds
  BY <1>14 DEF BackoffEnds, ThrowOut, SkipReason, Conclude, Hear, Waits, loopVars, drawVars
<1>15. CASE JudgeBug
  BY <1>15 DEF JudgeBug, ThrowOut, SkipReason, Conclude, Waits, loopVars, drawVars
<1>16. CASE JudgeUnobserved
  BY <1>16 DEF JudgeUnobserved, Conclude, Waits, loopVars, drawVars
<1>17. CASE JudgeExcluded
  BY <1>17 DEF JudgeExcluded, Conclude, MayReplace, TooManyExcluded, Waits, loopVars, drawVars
<1>18. CASE JudgeLost
  BY <1>18 DEF JudgeLost, MayReplace, Waits, loopVars, drawVars
<1>19. CASE JudgeReading
  BY <1>19 DEF JudgeReading, Waits, loopVars, drawVars
<1>20. CASE Abort
  BY <1>20 DEF Abort, Waits, loopVars, drawVars
<1>21. CASE UNCHANGED vars
  BY <1>21 DEF vars, loopVars, drawVars, Waits
<1>. QED  BY StepCases, <1>1, <1>2, <1>3, <1>4, <1>5, <1>6, <1>7, <1>8, <1>9, <1>10, <1>11, <1>12, <1>13, <1>14, <1>15, <1>16, <1>17, <1>18, <1>19, <1>20, <1>21

\* The draws taken are a number.
LEMMA TakenIsNat == TypeOK => Taken \in Nat
BY DEF TypeOK, Taken

\* A draw that is judged, not dropped, is taken.
LEMMA SentStep ==
    ASSUME TypeOK, AskedAtMost, DrawsAccounted, SentAtMost, [Next]_vars
    PROVE  SentAtMost'
<1>0. Taken \in Nat /\ PerDraw \in Nat
  BY TakenIsNat, DilutionAssumption
<1>. DEFINE cost == PerDraw * Taken
<1>a. cost \in Nat /\ PerDraw * (Taken + 1) = cost + PerDraw
  BY <1>0, OneMore
<1>1. CASE Prepared
  <2>1. Taken' = Taken
    BY <1>1 DEF Prepared, loopVars, Taken
  <2>2. (PerDraw * Taken)' = cost
    BY <2>1
  <2>. HIDE DEF cost
  <2>. QED  BY <1>0, <1>a, <1>1, <2>2 DEF Prepared, drawVars, loopVars, SentAtMost, InDraw, TypeOK, AskedAtMost, DrawsAccounted, Waits
<1>2. CASE PrepareThrows
  <2>1. Taken' = Taken
    BY <1>2 DEF PrepareThrows, loopVars, Taken
  <2>2. (PerDraw * Taken)' = cost
    BY <2>1
  <2>. HIDE DEF cost
  <2>. QED  BY <1>0, <1>a, <1>2, <2>2 DEF PrepareThrows, ThrowOut, SkipReason, Conclude, drawVars, loopVars, SentAtMost, InDraw, TypeOK, AskedAtMost, DrawsAccounted, Waits
<1>3. CASE Replace
  <2>1. Taken' = Taken
    BY <1>3 DEF Replace, loopVars, Taken
  <2>2. (PerDraw * Taken)' = cost
    BY <2>1
  <2>. HIDE DEF cost
  <2>. QED  BY <1>0, <1>a, <1>3, <2>2 DEF Replace, StartDraw, drawVars, loopVars, SentAtMost, InDraw, TypeOK, AskedAtMost, DrawsAccounted, Waits
<1>4. CASE NextPlanned
  <2>1. Taken' = Taken
    BY <1>4 DEF NextPlanned, loopVars, Taken
  <2>2. (PerDraw * Taken)' = cost
    BY <2>1
  <2>. HIDE DEF cost
  <2>. QED  BY <1>0, <1>a, <1>4, <2>2 DEF NextPlanned, StartDraw, drawVars, loopVars, SentAtMost, InDraw, TypeOK, AskedAtMost, DrawsAccounted, Waits
<1>5. CASE AllDrawn
  <2>1. Taken' = Taken
    BY <1>5 DEF AllDrawn, loopVars, Taken
  <2>2. (PerDraw * Taken)' = cost
    BY <2>1
  <2>. HIDE DEF cost
  <2>. QED  BY <1>0, <1>a, <1>5, <2>2 DEF AllDrawn, Conclude, drawVars, loopVars, SentAtMost, InDraw, TypeOK, AskedAtMost, DrawsAccounted, Waits
<1>6. CASE MomentComes
  <2>1. Taken' = Taken
    BY <1>6 DEF MomentComes, loopVars, Taken
  <2>2. (PerDraw * Taken)' = cost
    BY <2>1
  <2>. HIDE DEF cost
  <2>. QED  BY <1>0, <1>a, <1>6, <2>2 DEF MomentComes, ThrowOut, SkipReason, Conclude, drawVars, loopVars, SentAtMost, InDraw, TypeOK, AskedAtMost, DrawsAccounted, Waits
<1>7. CASE Ask
  <2>1. Taken' = Taken
    BY <1>7 DEF Ask, loopVars, Taken
  <2>2. (PerDraw * Taken)' = cost
    BY <2>1
  <2>. HIDE DEF cost
  <2>. QED  BY <1>0, <1>a, <1>7, <2>2 DEF Ask, drawVars, loopVars, SentAtMost, InDraw, TypeOK, AskedAtMost, DrawsAccounted, Waits
<1>8. CASE AskAborted
  <2>1. Taken' = Taken
    BY <1>8 DEF AskAborted, loopVars, Taken
  <2>2. (PerDraw * Taken)' = cost
    BY <2>1
  <2>. HIDE DEF cost
  <2>. QED  BY <1>0, <1>a, <1>8, <2>2 DEF AskAborted, ThrowOut, SkipReason, Conclude, drawVars, loopVars, SentAtMost, InDraw, TypeOK, AskedAtMost, DrawsAccounted, Waits
<1>9. CASE AskOverBudget
  <2>1. Taken' = Taken
    BY <1>9 DEF AskOverBudget, loopVars, Taken
  <2>2. (PerDraw * Taken)' = cost
    BY <2>1
  <2>. HIDE DEF cost
  <2>. QED  BY <1>0, <1>a, <1>9, <2>2 DEF AskOverBudget, Conclude, drawVars, loopVars, SentAtMost, InDraw, TypeOK, AskedAtMost, DrawsAccounted, Waits
<1>10. CASE GoesOn
  <2>1. Taken' = Taken
    BY <1>10 DEF GoesOn, loopVars, Taken
  <2>2. (PerDraw * Taken)' = cost
    BY <2>1
  <2>. HIDE DEF cost
  <2>. QED  BY <1>0, <1>a, <1>10, <2>2 DEF GoesOn, Travelled, drawVars, loopVars, SentAtMost, InDraw, TypeOK, AskedAtMost, DrawsAccounted, Waits
<1>11. CASE Heard
  <2>1. Taken' = Taken
    BY <1>11 DEF Heard, loopVars, Taken
  <2>2. (PerDraw * Taken)' = cost
    BY <2>1
  <2>. HIDE DEF cost
  <2>. QED  BY <1>0, <1>a, <1>11, <2>2 DEF Heard, Travelled, Hear, drawVars, loopVars, SentAtMost, InDraw, TypeOK, AskedAtMost, DrawsAccounted, Waits
<1>12. CASE BacksOff
  <2>1. Taken' = Taken
    BY <1>12 DEF BacksOff, loopVars, Taken
  <2>2. (PerDraw * Taken)' = cost
    BY <2>1
  <2>. HIDE DEF cost
  <2>. QED  BY <1>0, <1>a, <1>12, <2>2 DEF BacksOff, Travelled, ThrowOut, SkipReason, Conclude, drawVars, loopVars, SentAtMost, InDraw, TypeOK, AskedAtMost, DrawsAccounted, Waits
<1>13. CASE Thrown
  <2>1. Taken' = Taken
    BY <1>13 DEF Thrown, loopVars, Taken
  <2>2. (PerDraw * Taken)' = cost
    BY <2>1
  <2>. HIDE DEF cost
  <2>. QED  BY <1>0, <1>a, <1>13, <2>2 DEF Thrown, Travelled, ThrowOut, SkipReason, Conclude, drawVars, loopVars, SentAtMost, InDraw, TypeOK, AskedAtMost, DrawsAccounted, Waits
<1>14. CASE BackoffEnds
  <2>1. Taken' = Taken
    BY <1>14 DEF BackoffEnds, loopVars, Taken
  <2>2. (PerDraw * Taken)' = cost
    BY <2>1
  <2>. HIDE DEF cost
  <2>. QED  BY <1>0, <1>a, <1>14, <2>2 DEF BackoffEnds, ThrowOut, SkipReason, Conclude, Hear, drawVars, loopVars, SentAtMost, InDraw, TypeOK, AskedAtMost, DrawsAccounted, Waits
<1>15. CASE JudgeBug
  <2>1. Taken' = Taken
    BY <1>15 DEF JudgeBug, loopVars, Taken
  <2>2. (PerDraw * Taken)' = cost
    BY <2>1
  <2>. HIDE DEF cost
  <2>. QED  BY <1>0, <1>a, <1>15, <2>2 DEF JudgeBug, ThrowOut, SkipReason, Conclude, drawVars, loopVars, SentAtMost, InDraw, TypeOK, AskedAtMost, DrawsAccounted, Waits
<1>16. CASE JudgeUnobserved
  <2>1. Taken' = Taken
    BY <1>16 DEF JudgeUnobserved, loopVars, Taken
  <2>2. (PerDraw * Taken)' = cost
    BY <2>1
  <2>. HIDE DEF cost
  <2>. QED  BY <1>0, <1>a, <1>16, <2>2 DEF JudgeUnobserved, Conclude, drawVars, loopVars, SentAtMost, InDraw, TypeOK, AskedAtMost, DrawsAccounted, Waits
<1>17. CASE JudgeExcluded
  <2>1. Taken' = Taken + 1
    BY <1>17 DEF JudgeExcluded, TypeOK, Taken
  <2>2. sent' = sent /\ phase = "judge" /\ phase' \in {"slot", "ended"}
    BY <1>17 DEF JudgeExcluded, Conclude, MayReplace, TooManyExcluded, drawVars
  <2>3. sent <= cost + asked /\ asked <= PerDraw
    BY <1>0, <1>17, <2>2 DEF SentAtMost, InDraw, JudgeExcluded, SentTooMany, TypeOK, AskedAtMost
  <2>. QED  BY <1>0, <1>a, <2>1, <2>2, <2>3 DEF SentAtMost, InDraw, TypeOK
<1>18. CASE JudgeLost
  <2>1. Taken' = Taken + 1
    BY <1>18 DEF JudgeLost, TypeOK, Taken
  <2>2. sent' = sent /\ phase = "judge" /\ phase' \in {"slot", "ended"}
    BY <1>18 DEF JudgeLost, MayReplace, drawVars
  <2>3. sent <= cost + asked /\ asked <= PerDraw
    BY <1>0, <1>18, <2>2 DEF SentAtMost, InDraw, JudgeLost, SentTooMany, TypeOK, AskedAtMost
  <2>. QED  BY <1>0, <1>a, <2>1, <2>2, <2>3 DEF SentAtMost, InDraw, TypeOK
<1>19. CASE JudgeReading
  <2>1. Taken' = Taken + 1
    BY <1>19 DEF JudgeReading, TypeOK, Taken
  <2>2. sent' = sent /\ phase = "judge" /\ phase' \in {"slot", "ended"}
    BY <1>19 DEF JudgeReading, drawVars
  <2>3. sent <= cost + asked /\ asked <= PerDraw
    BY <1>0, <1>19, <2>2 DEF SentAtMost, InDraw, JudgeReading, SentTooMany, TypeOK, AskedAtMost
  <2>. QED  BY <1>0, <1>a, <2>1, <2>2, <2>3 DEF SentAtMost, InDraw, TypeOK
<1>20. CASE Abort
  <2>1. Taken' = Taken
    BY <1>20 DEF Abort, loopVars, Taken
  <2>2. (PerDraw * Taken)' = cost
    BY <2>1
  <2>. HIDE DEF cost
  <2>. QED  BY <1>0, <1>a, <1>20, <2>2 DEF Abort, Waits, drawVars, loopVars, SentAtMost, InDraw, TypeOK, AskedAtMost, DrawsAccounted
<1>21. CASE UNCHANGED vars
  BY <1>21 DEF vars, loopVars, drawVars, SentAtMost, InDraw, Taken
<1>. QED  BY StepCases, <1>1, <1>2, <1>3, <1>4, <1>5, <1>6, <1>7, <1>8, <1>9, <1>10, <1>11, <1>12, <1>13, <1>14, <1>15, <1>16, <1>17, <1>18, <1>19, <1>20, <1>21

\* A step that charges nothing and ends no draw by counting it.
Calm ==
    /\ Taken' = Taken /\ charged' = charged
    /\ \/ phase' = "ended"
       \/ InDraw /\ UNCHANGED <<asked, drawn>>
       \/ phase = "slot" /\ drawn' = 0
       \/ phase = "preparing" /\ phase' = "slot"
       \/ UNCHANGED <<phase, asked, drawn>>
    /\ phase' \in {"preparing", "slot"} => phase \in {"preparing", "slot"}

\* What is neither a request nor the count of a draw is calm.
LEMMA CalmSteps ==
    ASSUME TypeOK, [Next]_vars, ~Ask, ~JudgeExcluded, ~JudgeLost, ~JudgeReading
    PROVE  Calm
<1>. USE DEF Calm, Taken, loopVars, drawVars, InDraw
<1>1. CASE Prepared \/ PrepareThrows
  BY <1>1 DEF Prepared, PrepareThrows, ThrowOut, Conclude
<1>2. CASE Replace \/ NextPlanned \/ AllDrawn
  BY <1>2 DEF Replace, NextPlanned, StartDraw, AllDrawn, Conclude
<1>3. CASE MomentComes \/ AskAborted \/ AskOverBudget
  BY <1>3 DEF MomentComes, AskAborted, AskOverBudget, ThrowOut, Conclude
<1>4. CASE GoesOn \/ Heard \/ BacksOff \/ Thrown \/ BackoffEnds
  BY <1>4 DEF GoesOn, Heard, Hear, BacksOff, Thrown, BackoffEnds, ThrowOut, Conclude
<1>5. CASE JudgeBug \/ JudgeUnobserved
  BY <1>5 DEF JudgeBug, JudgeUnobserved, ThrowOut, Conclude
<1>6. CASE Abort \/ UNCHANGED vars
  BY <1>6 DEF Abort, vars
<1>. QED  BY StepCases, <1>1, <1>2, <1>3, <1>4, <1>5, <1>6

\* Every request is charged to its draw, and a draw that is counted kept to its
\* declaration.
LEMMA ChargedStep ==
    ASSUME TypeOK, AskedAtMost, DrawsAccounted, DrawnAtMost, ChargedAtMost, [Next]_vars
    PROVE  DrawnAtMost' /\ ChargedAtMost'
<1>0. Taken \in Nat /\ DrawTokens \in Nat /\ PerDraw \in Nat
  BY TakenIsNat, DilutionAssumption
<1>. DEFINE total == DrawTokens * Taken
<1>a. total \in Nat /\ DrawTokens * (Taken + 1) = total + DrawTokens
  BY <1>0, OneMore
<1>1. CASE Ask
  <2>1. Taken' = Taken /\ (DrawTokens * Taken)' = total /\ InDraw /\ asked' = asked + 1 /\ phase' = "out"
    BY <1>1 DEF Ask, loopVars, Taken, InDraw
  <2>2. asked \in 0..PerDraw
    BY <1>1 DEF Ask, AskedAtMost, TypeOK
  <2>3. PICK cost \in Costs[asked] : AsDeclared(cost) /\ charged' = charged + cost /\ drawn' = drawn + cost
    BY <1>1 DEF Ask
  <2>4. cost \in Nat
    BY <2>2, <2>3, DilutionAssumption
  <2>. HIDE DEF total
  <2>5. DrawnAtMost'
    BY <1>0, <2>1, <2>2, <2>3, <2>4 DEF DrawnAtMost, AsDeclared, TypeOK
  <2>6. ChargedAtMost'
    BY <1>a, <2>1, <2>3, <2>4 DEF ChargedAtMost, InDraw, TypeOK
  <2>. QED  BY <2>5, <2>6
<1>2. CASE JudgeExcluded \/ JudgeLost \/ JudgeReading
  <2>1. Taken' = Taken + 1
    BY <1>2 DEF JudgeExcluded, JudgeLost, JudgeReading, TypeOK, Taken
  <2>2. charged' = charged /\ phase = "judge" /\ phase' \in {"slot", "ended"} /\ ~SentTooMany
    BY <1>2 DEF JudgeExcluded, JudgeLost, JudgeReading, Conclude, drawVars
  <2>3. asked <= PerDraw
    BY <1>0, <2>2 DEF SentTooMany, TypeOK
  <2>4. charged <= total + drawn /\ drawn <= DrawTokens
    BY <2>2, <2>3 DEF ChargedAtMost, DrawnAtMost, InDraw
  <2>5. (DrawTokens * Taken)' = total + DrawTokens
    BY <1>a, <2>1
  <2>. HIDE DEF total
  <2>6. charged' <= total + DrawTokens
    BY <1>0, <1>a, <2>2, <2>4 DEF TypeOK
  <2>. QED  BY <2>2, <2>5, <2>6 DEF ChargedAtMost, DrawnAtMost, InDraw
<1>3. CASE ~Ask /\ ~JudgeExcluded /\ ~JudgeLost /\ ~JudgeReading
  <2>1. Calm
    BY <1>3, CalmSteps
  <2>2. (DrawTokens * Taken)' = total
    BY <2>1 DEF Calm
  <2>. HIDE DEF total
  <2>3. DrawnAtMost'
    BY <1>0, <2>1 DEF Calm, DrawnAtMost, InDraw, TypeOK
  <2>4. phase = "preparing" => charged = 0
    BY DEF DrawsAccounted
  <2>5. ChargedAtMost'
    BY <1>a, <2>1, <2>2, <2>4 DEF Calm, ChargedAtMost, InDraw, TypeOK
  <2>. QED  BY <2>3, <2>5
<1>. QED  BY <1>1, <1>2, <1>3

---------------------------------------------------------------------------
\* Every step keeps that the group has a result exactly once it ended.
LEMMA EndsStep == ASSUME Ends, [Next]_vars PROVE Ends'
<1>. USE DEF Ends
<1>1. CASE Prepared
  BY <1>1 DEF Prepared
<1>2. CASE PrepareThrows
  BY <1>2 DEF PrepareThrows, ThrowOut, SkipReason, Conclude
<1>3. CASE Replace
  BY <1>3 DEF Replace, StartDraw
<1>4. CASE NextPlanned
  BY <1>4 DEF NextPlanned, StartDraw
<1>5. CASE AllDrawn
  BY <1>5 DEF AllDrawn, Conclude
<1>6. CASE MomentComes
  BY <1>6 DEF MomentComes, ThrowOut, SkipReason, Conclude
<1>7. CASE Ask
  BY <1>7 DEF Ask
<1>8. CASE AskAborted
  BY <1>8 DEF AskAborted, ThrowOut, SkipReason, Conclude
<1>9. CASE AskOverBudget
  BY <1>9 DEF AskOverBudget, Conclude
<1>10. CASE GoesOn
  BY <1>10 DEF GoesOn, Travelled
<1>11. CASE Heard
  BY <1>11 DEF Heard, Travelled, Hear
<1>12. CASE BacksOff
  BY <1>12 DEF BacksOff, Travelled, ThrowOut, SkipReason, Conclude
<1>13. CASE Thrown
  BY <1>13 DEF Thrown, Travelled, ThrowOut, SkipReason, Conclude
<1>14. CASE BackoffEnds
  BY <1>14 DEF BackoffEnds, ThrowOut, SkipReason, Conclude, Hear
<1>15. CASE JudgeBug
  BY <1>15 DEF JudgeBug, ThrowOut, SkipReason, Conclude
<1>16. CASE JudgeUnobserved
  BY <1>16 DEF JudgeUnobserved, Conclude
<1>17. CASE JudgeExcluded
  BY <1>17 DEF JudgeExcluded, Conclude, MayReplace, TooManyExcluded
<1>18. CASE JudgeLost
  BY <1>18 DEF JudgeLost, MayReplace
<1>19. CASE JudgeReading
  BY <1>19 DEF JudgeReading
<1>20. CASE Abort
  BY <1>20 DEF Abort, Waits
<1>21. CASE UNCHANGED vars
  BY <1>21 DEF vars
<1>. QED  BY StepCases, <1>1, <1>2, <1>3, <1>4, <1>5, <1>6, <1>7, <1>8, <1>9, <1>10, <1>11, <1>12, <1>13, <1>14, <1>15, <1>16, <1>17, <1>18, <1>19, <1>20, <1>21

\* Only the end of the loop says that the group ran.
LEMMA RanStep ==
    ASSUME TypeOK, Ends, ReplacementsMatch, DrawsAccounted, RanIsComplete, [Next]_vars
    PROVE  RanIsComplete'
<1>1. CASE AllDrawn
  BY <1>1, AllowanceIsNat, DilutionAssumption
     DEF AllDrawn, Conclude, loopVars, RanIsComplete, Taken, TypeOK, ReplacementsMatch, DrawsAccounted
<1>2. CASE phase = "ended"
  <2>1. UNCHANGED vars
    BY <1>2, StepCases DEF Waits, Prepared, PrepareThrows, Replace, NextPlanned, AllDrawn, MomentComes, Ask, AskAborted, AskOverBudget, GoesOn, Heard, BacksOff, Thrown, BackoffEnds, JudgeBug, JudgeUnobserved, JudgeExcluded, JudgeLost, JudgeReading, Abort
  <2>. QED  BY <2>1 DEF vars, loopVars, RanIsComplete, Taken
<1>3. CASE ~AllDrawn /\ phase # "ended"
  <2>1. result = "none"
    BY <1>3 DEF Ends
  <2>2. result' # "ran"
    BY <1>3, <2>1, StepCases DEF Prepared, PrepareThrows, ThrowOut, SkipReason, Conclude, Replace, StartDraw, NextPlanned, MomentComes, Ask, AskAborted, AskOverBudget, GoesOn, Travelled, Heard, Hear, BacksOff, Thrown, BackoffEnds, JudgeBug, JudgeUnobserved, JudgeExcluded, MayReplace, TooManyExcluded, JudgeLost, JudgeReading, Abort, Waits, vars
  <2>. QED  BY <2>2 DEF RanIsComplete
<1>. QED  BY <1>1, <1>2, <1>3

\* Only a draw that finds the budget spent says so.
LEMMA EstimateStep ==
    ASSUME TypeOK, Ends, ReplacementsMatch, DrawsAccounted, AskedAtMost, SentAtMost,
           DrawnAtMost, ChargedAtMost, EstimateSuffices, [Next]_vars
    PROVE  EstimateSuffices'
<1>1. CASE AskOverBudget
  <2>1. asked < PerDraw => \/ budget.requests < PerDraw * (N + Allowance)
                          \/ budget.tokens < DrawTokens * (N + Allowance)
    <3>. SUFFICES ASSUME asked < PerDraw
                  PROVE  \/ budget.requests < PerDraw * (N + Allowance)
                         \/ budget.tokens < DrawTokens * (N + Allowance)
      OBVIOUS
    <3>. /\ Taken \in Nat /\ N \in Nat /\ Allowance \in Nat /\ PerDraw \in Nat /\ DrawTokens \in Nat
         /\ budget.requests \in Nat /\ budget.tokens \in Nat
         /\ sent \in Nat /\ asked \in Nat /\ charged \in Nat /\ drawn \in Nat
      BY TakenIsNat, AllowanceIsNat, DilutionAssumption DEF TypeOK
    <3>. DEFINE requests == PerDraw * Taken
                tokens == DrawTokens * Taken
                coverRequests == PerDraw * (N + Allowance)
                coverTokens == DrawTokens * (N + Allowance)
    <3>0. Taken + 1 <= N + Allowance
      BY <1>1 DEF AskOverBudget, DrawsAccounted, ReplacementsMatch, InDraw, TypeOK
    <3>1. sent <= requests + asked /\ charged <= tokens + drawn
      BY <1>1 DEF AskOverBudget, SentAtMost, ChargedAtMost, InDraw
    <3>2. PICK cost \in Costs[asked] : AsDeclared(cost) /\ ~Affordable(cost)
      BY <1>1 DEF AskOverBudget
    <3>3. cost \in Nat /\ drawn + cost <= DrawTokens
      BY <3>2, DilutionAssumption DEF AsDeclared
    <3>4. /\ PerDraw * (Taken + 1) = requests + PerDraw /\ requests \in Nat /\ coverRequests \in Nat
          /\ DrawTokens * (Taken + 1) = tokens + DrawTokens /\ tokens \in Nat /\ coverTokens \in Nat
      BY OneMore
    <3>5. PerDraw * (Taken + 1) <= coverRequests /\ DrawTokens * (Taken + 1) <= coverTokens
      BY <3>0, MoreDraws
    <3>. HIDE DEF requests, tokens, coverRequests, coverTokens
    <3>6. requests + PerDraw <= coverRequests /\ tokens + DrawTokens <= coverTokens
      BY <3>4, <3>5
    <3>7. CASE ~(sent < budget.requests)
      <4>. budget.requests < coverRequests
        BY <3>1, <3>4, <3>6, <3>7
      <4>. QED  BY DEF coverRequests
    <3>8. CASE ~(charged + cost <= budget.tokens)
      <4>. budget.tokens < coverTokens
        BY <3>1, <3>3, <3>4, <3>6, <3>8
      <4>. QED  BY DEF coverTokens
    <3>. QED  BY <3>2, <3>7, <3>8 DEF Affordable
  <2>. QED  BY <1>1, <2>1 DEF AskOverBudget, Conclude, drawVars, EstimateSuffices
<1>2. CASE phase = "ended"
  <2>1. UNCHANGED vars
    BY <1>2, StepCases DEF Waits, Prepared, PrepareThrows, Replace, NextPlanned, AllDrawn, MomentComes, Ask, AskAborted, AskOverBudget, GoesOn, Heard, BacksOff, Thrown, BackoffEnds, JudgeBug, JudgeUnobserved, JudgeExcluded, JudgeLost, JudgeReading, Abort
  <2>. QED  BY <2>1 DEF vars, loopVars, drawVars, EstimateSuffices
<1>3. CASE PrepareThrows
  BY <1>3 DEF PrepareThrows, loopVars, DrawsAccounted, EstimateSuffices
<1>4. CASE ~AskOverBudget /\ ~PrepareThrows /\ phase # "ended"
  <2>1. result = "none"
    BY <1>4 DEF Ends
  <2>2. result' # "budget-exceeded"
    BY <1>4, <2>1, StepCases DEF Prepared, Replace, StartDraw, NextPlanned, AllDrawn, Conclude, MomentComes, ThrowOut, SkipReason, Ask, AskAborted, GoesOn, Travelled, Heard, Hear, BacksOff, Thrown, BackoffEnds, JudgeBug, JudgeUnobserved, JudgeExcluded, MayReplace, TooManyExcluded, JudgeLost, JudgeReading, Abort, Waits, vars
  <2>. QED  BY <2>2 DEF EstimateSuffices
<1>. QED  BY <1>1, <1>2, <1>3, <1>4

---------------------------------------------------------------------------
\* The strengthening holds before the group is prepared.
LEMMA InvInit == Init => IInv
<1>. SUFFICES ASSUME Init PROVE IInv
  OBVIOUS
<1>1. TypeOK
  BY DEF Init, TypeOK, Phases, Waits, Results
<1>2. ReplacementsMatch
  BY AllowanceIsNat DEF Init, ReplacementsMatch
<1>3. DrawsAccounted
  BY DilutionAssumption DEF Init, DrawsAccounted, InDraw, Taken
<1>4. Taken = 0 /\ PerDraw * 0 = 0 /\ DrawTokens * 0 = 0
  BY DilutionAssumption DEF Init, Taken
<1>5. AskedAtMost /\ SentAtMost /\ DrawnAtMost /\ ChargedAtMost
  BY <1>4 DEF Init, AskedAtMost, SentAtMost, DrawnAtMost, ChargedAtMost, InDraw
<1>6. Ends /\ RanIsComplete /\ EstimateSuffices
  BY DEF Init, Ends, RanIsComplete, EstimateSuffices
<1>. QED  BY <1>1, <1>2, <1>3, <1>5, <1>6 DEF IInv

\* Every step keeps the strengthening, a conjunct at a time.
LEMMA InvStep == IInv /\ [Next]_vars => IInv'
BY TypeStep, ReplacementsStep, AccountedStep, AskedStep, SentStep, ChargedStep, EndsStep, RanStep, EstimateStep
   DEF IInv

\* So it holds throughout.
LEMMA Invariant == Spec => []IInv
BY InvInit, InvStep, PTL DEF Spec

\* Every variable keeps to its values: TypeOK.
THEOREM TypeCorrect == Spec => []TypeOK
<1>1. IInv => TypeOK
  BY DEF IInv
<1>. QED  BY <1>1, Invariant, PTL

\* A group that ran has taken every planned draw and every replacement, and is
\* short only of what failed beyond a ninth: RanIsComplete.
THEOREM NoDrawLeftOut == Spec => []RanIsComplete
<1>1. IInv => RanIsComplete
  BY DEF IInv
<1>. QED  BY <1>1, Invariant, PTL

\* What the planner budgets for the draws is enough for them, whatever fails:
\* EstimateSuffices.
THEOREM PlannedBudgetIsEnough == Spec => []EstimateSuffices
<1>1. IInv => EstimateSuffices
  BY DEF IInv
<1>. QED  BY <1>1, Invariant, PTL

\* An aborted group sends nothing more: NoDrawAfterAbort.
THEOREM AbortStopsDraws == Spec => NoDrawAfterAbort
<1>1. [Next]_vars => (signal => sent' = sent)
  <2>. SUFFICES ASSUME [Next]_vars, signal PROVE sent' = sent
    OBVIOUS
  <2>1. ~Ask
    BY DEF Ask, ThrowIfAborted
  <2>. QED  BY <2>1, StepCases DEF Prepared, PrepareThrows, Replace, NextPlanned, AllDrawn, MomentComes, AskAborted, AskOverBudget, GoesOn, Heard, BacksOff, Thrown, BackoffEnds, JudgeBug, JudgeUnobserved, JudgeExcluded, JudgeLost, JudgeReading, Abort, vars, drawVars
<1>2. [Next]_vars => [signal => sent' = sent]_vars
  BY <1>1
<1>. QED  BY <1>2, PTL DEF Spec, NoDrawAfterAbort

\* Only independent draws are counted: CountedIsIndependent. A draw is judged
\* with the connection of each of its requests in the log.
SeenIsLogged == phase \in {"out", "backoff", "judge"} => phase = "out" \/ seen # {}

\* Every step keeps what was seen of the connections in line with the log.
LEMMA SeenStep == ASSUME SeenIsLogged, [Next]_vars PROVE SeenIsLogged'
<1>1. CASE Prepared
  BY <1>1 DEF Prepared, drawVars, SeenIsLogged
<1>2. CASE PrepareThrows
  BY <1>2 DEF PrepareThrows, ThrowOut, SkipReason, Conclude, drawVars, SeenIsLogged
<1>3. CASE Replace
  BY <1>3 DEF Replace, StartDraw, drawVars, SeenIsLogged
<1>4. CASE NextPlanned
  BY <1>4 DEF NextPlanned, StartDraw, drawVars, SeenIsLogged
<1>5. CASE AllDrawn
  BY <1>5 DEF AllDrawn, Conclude, drawVars, SeenIsLogged
<1>6. CASE MomentComes
  BY <1>6 DEF MomentComes, ThrowOut, SkipReason, Conclude, drawVars, SeenIsLogged
<1>7. CASE Ask
  BY <1>7 DEF Ask, drawVars, SeenIsLogged
<1>8. CASE AskAborted
  BY <1>8 DEF AskAborted, ThrowOut, SkipReason, Conclude, drawVars, SeenIsLogged
<1>9. CASE AskOverBudget
  BY <1>9 DEF AskOverBudget, Conclude, drawVars, SeenIsLogged
<1>10. CASE GoesOn
  BY <1>10 DEF GoesOn, Travelled, drawVars, SeenIsLogged
<1>11. CASE Heard
  BY <1>11 DEF Heard, Travelled, Hear, drawVars, SeenIsLogged
<1>12. CASE BacksOff
  BY <1>12 DEF BacksOff, Travelled, ThrowOut, SkipReason, Conclude, drawVars, SeenIsLogged
<1>13. CASE Thrown
  BY <1>13 DEF Thrown, Travelled, ThrowOut, SkipReason, Conclude, drawVars, SeenIsLogged
<1>14. CASE BackoffEnds
  BY <1>14 DEF BackoffEnds, ThrowOut, SkipReason, Conclude, Hear, drawVars, SeenIsLogged
<1>15. CASE JudgeBug
  BY <1>15 DEF JudgeBug, ThrowOut, SkipReason, Conclude, drawVars, SeenIsLogged
<1>16. CASE JudgeUnobserved
  BY <1>16 DEF JudgeUnobserved, Conclude, drawVars, SeenIsLogged
<1>17. CASE JudgeExcluded
  BY <1>17 DEF JudgeExcluded, Conclude, MayReplace, TooManyExcluded, drawVars, SeenIsLogged
<1>18. CASE JudgeLost
  BY <1>18 DEF JudgeLost, MayReplace, drawVars, SeenIsLogged
<1>19. CASE JudgeReading
  BY <1>19 DEF JudgeReading, drawVars, SeenIsLogged
<1>20. CASE Abort
  BY <1>20 DEF Abort, Waits, drawVars, SeenIsLogged
<1>21. CASE UNCHANGED vars
  BY <1>21 DEF vars, drawVars, SeenIsLogged
<1>. QED  BY StepCases, <1>1, <1>2, <1>3, <1>4, <1>5, <1>6, <1>7, <1>8, <1>9, <1>10, <1>11, <1>12, <1>13, <1>14, <1>15, <1>16, <1>17, <1>18, <1>19, <1>20, <1>21

\* A draw counted as a reading had all its requests answered on fresh connections.
THEOREM CountsIndependentOnly == Spec => CountedIsIndependent
<1>1. IInv /\ SeenIsLogged /\ [Next]_vars => (readings' > readings => seen = {"fresh"} /\ asked <= PerDraw)
  <2>. SUFFICES ASSUME IInv, SeenIsLogged, [Next]_vars, readings' > readings
                PROVE  seen = {"fresh"} /\ asked <= PerDraw
    OBVIOUS
  <2>. readings \in Nat /\ asked \in Nat /\ PerDraw \in Nat
    BY DilutionAssumption DEF IInv, TypeOK
  <2>1. readings' = readings \/ JudgeReading
    BY StepCases DEF Answered, MayReplace, Prepared, PrepareThrows, Replace, NextPlanned, AllDrawn, MomentComes, Ask, AskAborted, AskOverBudget, GoesOn, Heard, BacksOff, Thrown, BackoffEnds, JudgeBug, JudgeUnobserved, JudgeExcluded, JudgeLost, Abort, vars, loopVars
  <2>2. JudgeReading
    BY <2>1
  <2>. QED  BY <2>2 DEF JudgeReading, NotIndependent, SentTooMany, SeenIsLogged
<1>2. IInv /\ SeenIsLogged /\ [Next]_vars
        => [readings' > readings => seen = {"fresh"} /\ asked <= PerDraw]_vars
  BY <1>1
<1>3. Init => SeenIsLogged
  BY DEF Init, SeenIsLogged
<1>4. SeenIsLogged /\ [Next]_vars => SeenIsLogged'
  BY SeenStep
<1>. QED  BY <1>2, <1>3, <1>4, Invariant, PTL DEF Spec, CountedIsIndependent
===========================================================================
