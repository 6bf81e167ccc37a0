------------------------------ MODULE Tokenizer ------------------------------
(* Group C (probes/tokenizer): the input tokens a few fixed texts add to a prompt,
   against what OpenAI's two public encodings add.  The texts are three of the
   battery's eight: what a text adds is a property of text and tokenizer, and the
   encodings differ on the Chinese one most. *)
EXTENDS Accounting

(* Lengths with the separator in front: in characters, and in bytes. *)
BATTERY ==
  <<[name |-> "chinese", characters |-> 26, bytes |-> 74],
    [name |-> "base64", characters |-> 70, bytes |-> 70],
    [name |-> "code", characters |-> 66, bytes |-> 66]>>
Items == 1 .. Len(BATTERY)

basePrompt(nonce) == [name |-> "base", bytes |-> 32 + nonce]
itemPrompt(nonce, i) ==
  [name |-> BATTERY[i].name, bytes |-> basePrompt(nonce).bytes + BATTERY[i].bytes]
batteryPrompt(nonce, n) == IF n = 1 THEN basePrompt(nonce) ELSE itemPrompt(nonce, n - 1)

Prompts == 1 .. Len(BATTERY) + 1
BatteryBytes == [n \in Prompts |-> batteryPrompt(LongestNonce, n).bytes]
LongestPrompt == CHOOSE b \in {BatteryBytes[n] : n \in Prompts} : \A n \in Prompts : BatteryBytes[n] <= b

promptCost(n) == estimateTokens(BatteryBytes[n]) + MAX_OUTPUT_FLOOR
BATTERY_COST ==
  [requests |-> Len(BATTERY) + 1 + discoveryCost(LongestPrompt).requests,
   tokens |-> discoveryCost(LongestPrompt).tokens
                + promptCost(1) + promptCost(2) + promptCost(3) + promptCost(4)]

(* `measuredDeltas`: the base prompt and every item, one generation after the
   other; <<>> when one of them reports no count. *)
measuredDeltas(target, shared, heard) ==
  LET answered == IF Answered(shared, heard, Len(heard)) THEN Len(heard) ELSE Len(heard) - 1
      lost     == \E n \in 1 .. answered : ~(isSuccess(heard[n]) /\ heard[n].generates)
      counts   == [n \in Prompts |-> reportedInput(target, heard[n])]
      next     == IF Len(heard) = 0 THEN 1
                  ELSE IF "floor" \in DOMAIN shared THEN Len(heard) + 1 ELSE 1
  IN  IF "floor" \in DOMAIN shared /\ lost THEN Fail
      ELSE IF "floor" \in DOMAIN shared /\ Len(heard) = Len(BATTERY) + 1
      THEN Keep([deltas |-> IF \E n \in Prompts : counts[n] = None THEN <<>>
                            ELSE [i \in Items |-> counts[i + 1] - counts[1]]], <<>>)
      ELSE sendAtOutputFloor(target, shared, heard, next, batteryPrompt(NonceBytes, next))

localDeltas(encoding) ==
  IF encoding = "o200k_base" THEN <<17, 40, 24>> ELSE <<29, 40, 25>>

totalDeviation(measured, expected) ==
  LET deviation(i) == Abs(measured[i] - expected[i])
  IN  deviation(1) + deviation(2) + deviation(3)
isConstant(measured) == \A i \in Items : measured[i] = measured[1]

matchingEstimator(measured) ==
  \E divisor \in {3, 4}, length \in {"characters", "bytes"} :
    \A i \in Items : Abs(divisor * measured[i] - BATTERY[i][length]) <= divisor

rewrittenCounts(measured) ==
  IF isConstant(measured)
  THEN {Signal("constant-counts", "derived", [Neutral EXCEPT !.canned = 2, !.translated = 5])}
  ELSE IF matchingEstimator(measured)
  THEN {Signal("estimated-counts", "derived", [Neutral EXCEPT !.translated = 5])} ELSE {}

-----------------------------------------------------------------------------
otherEncoding(encoding) == IF encoding = "o200k_base" THEN "cl100k_base" ELSE "o200k_base"

FAR_DEVIATION == 2

(* What the counts say for a claimed encoding. *)
openaiReading(claimed, measured) ==
  LET from(encoding) == totalDeviation(measured, localDeltas(encoding))
  IN  IF from(claimed) = 0
      THEN Signal("claimed-encoding", "derived", [Neutral EXCEPT !.claim = 2, !.other = -4])
      ELSE IF from(otherEncoding(claimed)) = 0
      THEN IF claimed = "o200k_base"
           THEN Signal("older-encoding", "derived",
                       [Neutral EXCEPT !.cheaper = 2, !.claim = -4, !.translated = 5])
           ELSE Signal("newer-encoding", "derived",
                       [Neutral EXCEPT !.cheaper = 5, !.claim = -6, !.translated = 3])
      ELSE IF \A encoding \in {"o200k_base", "cl100k_base"} :
                from(encoding) >= FAR_DEVIATION * Len(BATTERY)
      THEN Signal("foreign-tokenizer", "derived",
                  [Neutral EXCEPT !.other = 4, !.claim = -4, !.cheaper = -4, !.translated = 3])
      ELSE Signal("near-encoding", "derived", Neutral)

openaiLocalCount(target, shared, heard) ==
  IF "deltas" \notin DOMAIN shared THEN measuredDeltas(target, shared, heard)
  ELSE IF shared.deltas = <<>> THEN Say({Signal("no-counts", "derived", Neutral)})
  ELSE IF rewrittenCounts(shared.deltas) # {} THEN Say(rewrittenCounts(shared.deltas))
  ELSE Say({openaiReading(target.encoding, shared.deltas)})

exactLlr(encoding, native) ==
  IF ~native THEN [Neutral EXCEPT !.other = 2, !.translated = 5]
  ELSE IF encoding = "o200k_base"
  THEN [Neutral EXCEPT !.other = 4, !.claim = -4, !.cheaper = -4, !.translated = 4]
  ELSE [Neutral EXCEPT !.other = 3, !.translated = 5]

anthropicDifferential(target, shared, heard) ==
  LET exact == {e \in {"o200k_base", "cl100k_base"} :
                  totalDeviation(shared.deltas, localDeltas(e)) = 0}
  IN  IF "deltas" \notin DOMAIN shared THEN measuredDeltas(target, shared, heard)
      ELSE IF shared.deltas = <<>> THEN Say({Signal("no-counts", "derived", Neutral)})
      ELSE IF rewrittenCounts(shared.deltas) # {} THEN Say(rewrittenCounts(shared.deltas))
      ELSE IF exact = {} THEN Say({Signal("not-openai-encoding", "derived", Neutral)})
      ELSE Say({Signal("openai-encoding", "derived", exactLlr(e, target.native)) : e \in exact})
=============================================================================
