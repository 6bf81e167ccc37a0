---------------------------- MODULE MatrixProofs ----------------------------
(* Proofs about a rejection matrix, for every table of documented behaviour and
   every list of shapes.                                                       *)
EXTENDS Matrix, TLAPS

(* What a run keeps: every answered cell is one the documentation settles for
   the claim, answered as the answerer may; and a signal is a verdict on the
   control request or the reading of the answers, given once at the end. *)
AnswersAreAllowed ==
  \A c \in Answered :
    /\ Documents[claim][c] # "silent"
    /\ answers[c] \in Answers(Documents[claim][c])

SignalsAreRead ==
  /\ signals # {} => phase = "done"
  /\ \/ signals = {}
     \/ signals \subseteq {controlRejected, foreignRejection} /\ answerer # "vendor"
     \/ signals = rejectionSignals

IInv == TypeOK /\ AnswersAreAllowed /\ SignalsAreRead

-----------------------------------------------------------------------------
(* What the table and the answers give *)

\* The control request and every cell are answered with exchanges.
LEMMA AnswersAreExchanges ==
  ASSUME NEW documented
  PROVE  Answers(documented) \subseteq Exchanges
<1>1. {Accepted, Unread, Foreign} \subseteq Exchanges
  BY DEF Exchanges, Accepted, Unread, Foreign
<1>2. \A worded \in BOOLEAN : Refused(worded) \in Exchanges
  BY DEF Exchanges, Refused
<1> QED BY <1>1, <1>2 DEF Answers

\* An exchange has one of the four outcomes.
LEMMA OutcomeType == \A exchange : outcomeOf(exchange) \in Outcomes
BY DEF outcomeOf, Outcomes

\* What is sent is a shape of the matrix, which the table says something about.
LEMMA CellsAreDocumented ==
  ASSUME TypeOK, NEW c \in ProbeCells, NEW m \in Claims
  PROVE  c \in Cells /\ Documents[m][c] \in {"accepted", "rejected", "silent"}
<1>1. probe.cells \in Seq(Cells)
  BY TableAssumption DEF TypeOK
<1>2. c \in Cells
  BY <1>1 DEF ProbeCells
<1> QED BY <1>2, TableAssumption

\* A model is read as ruled out only by a refusal it is documented not to make.
LEMMA MismatchIsRefuted ==
  ASSUME TypeOK, NEW m \in Claims, reading(m) = Mismatch
  PROVE  \E c \in Answered : Outcome(c) = "rejected" /\ Documents[m][c] = "accepted"
<1>1. differsBy(m, "rejected")
  BY DEF reading, Match, Mismatch
<1>2. PICK c \in Judged(m) : Outcome(c) = "rejected" /\ Documents[m][c] # "rejected"
  BY <1>1 DEF differsBy
<1>3. c \in Answered /\ Documents[m][c] # "silent"
  BY <1>2 DEF Judged
<1>4. c \in ProbeCells
  BY <1>3 DEF TypeOK
<1> QED BY <1>2, <1>3, <1>4, CellsAreDocumented

\* A model is read at all only when something was refused.
LEMMA ReadingIsRefused ==
  ASSUME NEW m, reading(m) # 0
  PROVE  \E c \in Answered : Outcome(c) = "rejected"
<1>1. differsBy(m, "rejected") \/ refusesAny(m)
  BY DEF reading
<1> QED BY <1>1 DEF differsBy, refusesAny, Judged

\* The readings there are.
LEMMA ReadingType == \A m : reading(m) \in {Match, Mismatch, 0}
BY DEF reading

\* The cheaper models read as ruled out together or not at all.
LEMMA CheaperIsRefuted ==
  ASSUME TypeOK, NEW m \in Claims
  PROVE  /\ cheaperReading(m) # 0 => \E c \in Answered : Outcome(c) = "rejected"
         /\ cheaperReading(m) = Mismatch =>
              \A n \in CheaperThan[m] :
                \E c \in Answered : Outcome(c) = "rejected" /\ Documents[n][c] = "accepted"
<1>1. CheaperThan[m] \subseteq Claims
  BY TableAssumption
<1>2. ASSUME cheaperReading(m) # 0
      PROVE  \E c \in Answered : Outcome(c) = "rejected"
  <2>1. \E n \in CheaperThan[m] : reading(n) # 0
    BY <1>2 DEF cheaperReading, Match
  <2> QED BY <2>1, ReadingIsRefused
<1>3. ASSUME cheaperReading(m) = Mismatch, NEW n \in CheaperThan[m]
      PROVE  \E c \in Answered : Outcome(c) = "rejected" /\ Documents[n][c] = "accepted"
  <2>1. reading(n) # Match /\ reading(n) # 0
    BY <1>3 DEF cheaperReading, Match, Mismatch
  <2>2. reading(n) = Mismatch
    BY <2>1, ReadingType
  <2> QED BY <1>1, <2>2, MismatchIsRefuted
<1> QED BY <1>2, <1>3

\* Of what the answers give, only the identity signal moves a model.
LEMMA OnlyIdentityMoves ==
  ASSUME NEW s \in rejectionSignals
  PROVE  \/ s.claim = 0 /\ s.cheaper = 0
         \/ s.claim = reading(claim) /\ s.cheaper = cheaperReading(claim)
<1>1. s \in identitySignal => s.claim = reading(claim) /\ s.cheaper = cheaperReading(claim)
  BY DEF identitySignal, Move
<1>2. s \in strippedSignal => s.claim = 0 /\ s.cheaper = 0
  BY DEF strippedSignal, Move
<1>3. s \in foreignRejectionSignals => s.claim = 0 /\ s.cheaper = 0
  BY DEF foreignRejectionSignals, foreignRejection, Move
<1>4. s \in wordingSignal => s.claim = 0 /\ s.cheaper = 0
  BY DEF wordingSignal, Move
<1> QED BY <1>1, <1>2, <1>3, <1>4 DEF rejectionSignals

-----------------------------------------------------------------------------
(* The invariant *)

\* A run starts with nothing answered and nothing said.
LEMMA InitIInv == Init => IInv
<1> SUFFICES ASSUME Init PROVE IInv
  OBVIOUS
<1>1. TypeOK
  BY DEF Init, TypeOK, Answered, Outcomes
<1>2. AnswersAreAllowed
  BY DEF Init, AnswersAreAllowed, Answered
<1>3. SignalsAreRead
  BY DEF Init, SignalsAreRead
<1> QED BY <1>1, <1>2, <1>3 DEF IInv

\* The verdict on the control request is the only signal there is before the end.
LEMMA ControlKeeps == IInv /\ SendControl => IInv'
<1> SUFFICES ASSUME IInv, SendControl PROVE IInv'
  OBVIOUS
<1>1. control' \in Outcomes /\ phase' \in {"cells", "done"}
  BY OutcomeType DEF SendControl
<1>2. UNCHANGED <<claim, probe, answerer, answers>>
  BY DEF SendControl
<1>3. TypeOK'
  BY <1>1, <1>2 DEF IInv, TypeOK, Answered, ProbeCells
<1>4. AnswersAreAllowed'
  BY <1>2 DEF IInv, AnswersAreAllowed, Answered, Answers
<1>5. signals' \subseteq {controlRejected, foreignRejection} /\ (signals' # {} => phase' = "done")
  BY DEF SendControl
<1>6. ASSUME answerer = "vendor" PROVE signals' = {}
  <2>1. Answers("accepted") = {Accepted}
    BY <1>6 DEF Answers
  <2>2. control' = "accepted"
    BY <2>1 DEF SendControl, outcomeOf, Accepted
  <2> QED BY <2>2 DEF SendControl
<1>7. SignalsAreRead'
  <2>1. answerer' = answerer
    BY <1>2
  <2>2. signals' = {} \/ answerer' # "vendor"
    BY <1>6, <2>1
  <2> QED BY <1>5, <2>2 DEF SignalsAreRead
<1> QED BY <1>3, <1>4, <1>7 DEF IInv

\* A cell that is sent is a settled one, answered as the answerer may.
LEMMA CellKeeps == IInv /\ SendCell => IInv'
<1> SUFFICES ASSUME IInv, SendCell PROVE IInv'
  OBVIOUS
<1>1. UNCHANGED <<claim, probe, answerer, phase, control, signals>> /\ phase = "cells"
  BY DEF SendCell
<1>2. PICK i \in 1 .. Len(probe.cells) :
        /\ probe.cells[i] \in Settled \ Answered
        /\ \E exchange \in Answers(Documents[claim][probe.cells[i]]) :
             answers' = [c \in Answered \union {probe.cells[i]} |->
                           IF c = probe.cells[i] THEN exchange ELSE answers[c]]
  BY DEF SendCell
<1> DEFINE d == probe.cells[i]
<1>3. PICK exchange \in Answers(Documents[claim][d]) :
        answers' = [c \in Answered \union {d} |-> IF c = d THEN exchange ELSE answers[c]]
  BY <1>2
<1>4. Answered' = Answered \union {d} /\ answers'[d] = exchange
  BY <1>3 DEF Answered
<1>5. \A c \in Answered : answers'[c] = answers[c]
  BY <1>2, <1>3
<1>6. d \in ProbeCells /\ Documents[claim][d] # "silent"
  BY <1>2 DEF Settled
<1>7. TypeOK'
  <2>1. exchange \in Exchanges
    BY <1>3, AnswersAreExchanges
  <2>2. \A c \in Answered' : answers'[c] \in Exchanges
    BY <1>4, <1>5, <2>1 DEF IInv, TypeOK
  <2>3. Answered' \subseteq ProbeCells'
    BY <1>1, <1>4, <1>6 DEF IInv, TypeOK, ProbeCells
  <2> QED BY <1>1, <2>2, <2>3 DEF IInv, TypeOK
<1>8. AnswersAreAllowed'
  <2>1. \A documented : Answers(documented)' = Answers(documented)
    BY <1>1 DEF Answers
  <2>2. SUFFICES ASSUME NEW c \in Answered'
                 PROVE  /\ Documents[claim][c] # "silent"
                        /\ answers'[c] \in Answers(Documents[claim][c])
    BY <1>1, <2>1 DEF AnswersAreAllowed, Answers
  <2>3. CASE c = d
    BY <1>3, <1>4, <1>6, <2>3
  <2>4. CASE c \in Answered
    BY <1>5, <2>4 DEF IInv, AnswersAreAllowed
  <2> QED BY <1>4, <2>2, <2>3, <2>4
<1>9. SignalsAreRead'
  <2>1. signals' = {} /\ phase' = "cells"
    BY <1>1 DEF IInv, SignalsAreRead
  <2> QED BY <2>1 DEF SignalsAreRead
<1> QED BY <1>7, <1>8, <1>9 DEF IInv

\* The end gives the reading of the answers, which stay as they are.
LEMMA ConcludeKeeps == IInv /\ Conclude => IInv'
<1> SUFFICES ASSUME IInv, Conclude PROVE IInv'
  OBVIOUS
<1>1. UNCHANGED <<claim, probe, answerer, control, answers>>
  BY DEF Conclude
<1>2. phase' = "done" /\ signals' = rejectionSignals
  BY DEF Conclude
<1>3. TypeOK'
  BY <1>1, <1>2 DEF IInv, TypeOK, Answered, ProbeCells
<1>4. AnswersAreAllowed'
  BY <1>1 DEF IInv, AnswersAreAllowed, Answered, Answers
<1>5. rejectionSignals' = rejectionSignals
  BY <1>1 DEF rejectionSignals, identitySignal, strippedSignal, foreignRejectionSignals,
       wordingSignal, reading, cheaperReading, differsBy, isConsistent, refusesAny, Judged,
       Outcome, Answered
<1> QED BY <1>2, <1>3, <1>4, <1>5 DEF IInv, SignalsAreRead

\* A lost request ends the probe with nothing said.
LEMMA LoseKeeps == IInv /\ Lose => IInv'
<1> SUFFICES ASSUME IInv, Lose PROVE IInv'
  OBVIOUS
<1>1. UNCHANGED <<claim, probe, answerer, control, answers, signals>> /\ phase' = "lost"
  BY DEF Lose
<1>2. signals' = {}
  BY <1>1 DEF Lose, IInv, SignalsAreRead
<1>3. TypeOK'
  BY <1>1 DEF IInv, TypeOK, Answered, ProbeCells
<1>4. AnswersAreAllowed'
  BY <1>1 DEF IInv, AnswersAreAllowed, Answered, Answers
<1> QED BY <1>2, <1>3, <1>4 DEF IInv, SignalsAreRead

\* A step that changes nothing changes nothing of it.
LEMMA StutterKeeps == IInv /\ UNCHANGED vars => IInv'
<1> SUFFICES ASSUME IInv, UNCHANGED vars PROVE IInv'
  OBVIOUS
<1>1. TypeOK'
  BY DEF IInv, TypeOK, Answered, ProbeCells, vars
<1>2. AnswersAreAllowed'
  BY DEF IInv, AnswersAreAllowed, Answered, Answers, vars
<1>3. rejectionSignals' = rejectionSignals
  BY DEF vars, rejectionSignals, identitySignal, strippedSignal, foreignRejectionSignals,
       wordingSignal, reading, cheaperReading, differsBy, isConsistent, refusesAny, Judged,
       Outcome, Answered
<1>4. SignalsAreRead'
  BY <1>3 DEF IInv, SignalsAreRead, vars
<1> QED BY <1>1, <1>2, <1>4 DEF IInv

\* The invariant is inductive.
LEMMA SpecIInv == Spec => []IInv
<1>1. IInv /\ [Next]_vars => IInv'
  BY ControlKeeps, CellKeeps, ConcludeKeeps, LoseKeeps, StutterKeeps DEF Next
<1> QED BY <1>1, InitIInv, PTL DEF Spec

-----------------------------------------------------------------------------
(* Theorems *)

\* Every variable keeps its type, for every table and every matrix.
THEOREM MatrixTypes == Spec => []TypeOK
<1>1. IInv => TypeOK
  BY DEF IInv
<1> QED BY <1>1, SpecIInv, PTL

\* Whatever the answers, a model is moved only when something was refused, and held
\* against only by a refusal it is documented not to make.
LEMMA RefusalsSpeak == IInv => RefusalsOnly
<1> SUFFICES ASSUME IInv, NEW s \in signals
             PROVE  /\ s.claim # 0 \/ s.cheaper # 0 => \E c \in Answered : Outcome(c) = "rejected"
                    /\ s.claim < 0 =>
                         \E c \in Answered : Outcome(c) = "rejected" /\ Documents[claim][c] = "accepted"
                    /\ s.cheaper < 0 =>
                         \A m \in CheaperThan[claim] :
                           \E c \in Answered : Outcome(c) = "rejected" /\ Documents[m][c] = "accepted"
  BY DEF RefusalsOnly
<1>1. TypeOK /\ claim \in Claims
  BY DEF IInv, TypeOK
<1>2. \/ s.claim = 0 /\ s.cheaper = 0
      \/ s.claim = reading(claim) /\ s.cheaper = cheaperReading(claim)
  <2>1. CASE signals \subseteq {controlRejected, foreignRejection}
    BY <2>1 DEF controlRejected, foreignRejection, Move
  <2>2. CASE signals = rejectionSignals
    BY <2>2, OnlyIdentityMoves
  <2> QED BY <2>1, <2>2 DEF IInv, SignalsAreRead
<1>3. CASE s.claim = 0 /\ s.cheaper = 0
  BY <1>3
<1>4. CASE s.claim = reading(claim) /\ s.cheaper = cheaperReading(claim)
  <2>1. s.claim < 0 => reading(claim) = Mismatch
    BY <1>4, ReadingType DEF Match
  <2>2. s.cheaper < 0 => cheaperReading(claim) = Mismatch
    BY <1>4 DEF cheaperReading, Match
  <2> QED BY <1>1, <1>4, <2>1, <2>2, MismatchIsRefuted, ReadingIsRefused, CheaperIsRefuted
<1> QED BY <1>2, <1>3, <1>4

\* The claimed model, behind whatever layer, makes no refusal it is documented not
\* to make.
LEMMA ClaimMakesNone ==
  ASSUME IInv, answerer \in {"vendor", "layer"}, NEW c \in Answered,
         Documents[claim][c] = "accepted"
  PROVE  Outcome(c) # "rejected"
<1>1. answers[c] \in Answers("accepted")
  BY DEF IInv, AnswersAreAllowed
<1>2. answers[c] \in {Accepted, Unread, Foreign}
  BY <1>1 DEF Answers
<1> QED BY <1>2 DEF Outcome, outcomeOf, Accepted, Unread, Foreign

\* For every table of documented behaviour and every matrix of shapes: nothing but a
\* refusal speaks for or against a model, and nothing speaks against the claim when
\* the claimed model answers, whatever stands in between.
THEOREM NobodyIsAccusedForNothing == Spec => []AccusesOnRefusals
<1>1. IInv => ClaimIsNotAccused
  <2> SUFFICES ASSUME IInv, answerer \in {"vendor", "layer"}, NEW s \in signals
               PROVE  s.claim >= 0
    BY DEF ClaimIsNotAccused
  <2>1. ~(s.claim < 0)
    BY RefusalsSpeak, ClaimMakesNone DEF RefusalsOnly
  <2>2. s.claim \in Int
    <3>1. CASE signals \subseteq {controlRejected, foreignRejection}
      BY <3>1 DEF controlRejected, foreignRejection, Move
    <3>2. CASE signals = rejectionSignals
      BY <3>2, OnlyIdentityMoves, ReadingType DEF Match, Mismatch
    <3> QED BY <3>1, <3>2 DEF IInv, SignalsAreRead
  <2> QED BY <2>1, <2>2
<1>2. IInv => AccusesOnRefusals
  BY <1>1, RefusalsSpeak DEF AccusesOnRefusals
<1> QED BY <1>2, SpecIInv, PTL

-----------------------------------------------------------------------------
(* The vendor's own API *)

\* It answers every cell as documented, a refusal in the documented words.
LEMMA VendorIsDocumented ==
  ASSUME IInv, answerer = "vendor", NEW c \in Answered
  PROVE  /\ Outcome(c) \in {"accepted", "rejected"}
         /\ Outcome(c) = Documents[claim][c]
         /\ Outcome(c) = "rejected" => answers[c].worded
<1>1. Documents[claim][c] \in {"accepted", "rejected"}
  BY CellsAreDocumented DEF IInv, TypeOK, AnswersAreAllowed
<1>2. answers[c] \in Answers(Documents[claim][c])
  BY DEF IInv, AnswersAreAllowed
<1>3. answers[c] = IF Documents[claim][c] = "rejected" THEN Refused(TRUE) ELSE Accepted
  BY <1>2 DEF Answers
<1> QED BY <1>1, <1>3 DEF Outcome, outcomeOf, Refused, Accepted

\* So it is consistent with the claim, and no cheaper model reads above it.
LEMMA VendorIsConsistent ==
  ASSUME IInv, answerer = "vendor"
  PROVE  cheaperReading(claim) <= reading(claim)
<1>1. isConsistent(claim) /\ ~differsBy(claim, "rejected")
  BY VendorIsDocumented DEF isConsistent, differsBy, Judged
<1>2. CASE \E c \in Answered : Outcome(c) = "rejected"
  <2>1. refusesAny(claim)
    BY <1>2, VendorIsDocumented DEF refusesAny, Judged
  <2>2. reading(claim) = Match
    BY <1>1, <2>1 DEF reading
  <2> QED BY <2>2 DEF cheaperReading, Match, Mismatch
<1>3. CASE ~ \E c \in Answered : Outcome(c) = "rejected"
  <2>1. \A m : reading(m) = 0
    BY <1>3, ReadingIsRefused
  <2>2. cheaperReading(claim) = 0
    BY <2>1 DEF cheaperReading, Match
  <2> QED BY <2>1, <2>2
<1> QED BY <1>2, <1>3

\* For every table and every matrix, the vendor's API is read as direct, as the
\* first party's and as no cheaper model.
THEOREM VendorIsRead == Spec => []VendorReadsAsItself
<1>1. IInv => VendorReadsAsItself
  <2> SUFFICES ASSUME IInv, answerer = "vendor", NEW s \in signals
               PROVE  s.firstParty >= 0 /\ s.direct >= 0 /\ s.translated = 0 /\ s.cheaper <= s.claim
    BY DEF VendorReadsAsItself
  <2>1. s \in rejectionSignals
    BY DEF IInv, SignalsAreRead
  <2>2. CASE s \in identitySignal
    <3>1. s = Move("documented-rejections", reading(claim), cheaperReading(claim), 0, 0, 0)
      BY <2>2 DEF identitySignal
    <3> QED BY <3>1, VendorIsConsistent DEF Move
  <2>3. s \notin strippedSignal
    BY VendorIsDocumented DEF strippedSignal, differsBy, Judged
  <2>4. s \notin foreignRejectionSignals
    BY VendorIsDocumented DEF foreignRejectionSignals
  <2>5. CASE s \in wordingSignal
    <3>1. s = Move("rejection-wording", 0, 0, 2, 3, 0)
      BY <2>5, VendorIsDocumented DEF wordingSignal
    <3> QED BY <3>1 DEF Move
  <2> QED BY <2>1, <2>2, <2>3, <2>4, <2>5 DEF rejectionSignals
<1> QED BY <1>1, SpecIInv, PTL
=============================================================================
