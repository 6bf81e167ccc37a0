# VerifAI, specified

VerifAI tells the buyer of an LLM endpoint whether it is what its seller says it
is: it asks the endpoint a planned list of questions, under a budget the buyer
agreed to, and scores the answers. This directory holds TLA+ models of the part
of that program where order matters - who may spend, when, on what, and what is
recorded of it - and of how it gets from the answers to a verdict: what each probe
asks and concludes, what is planned, and what the scores say. With them are the TLC
runs that check them and the TLAPS proofs of the theorems about them. Paths below are those of the repository (`packages/...`).

## 1. The system

```
 web page (packages/web)                command line (packages/cli/src/check)
   | HTTP, polled                              |
 daemon: guard, rate limiter, routes           |
   |                                           |
 check store (cli/src/daemon/checks.ts)        |
   \___________________________  ______________/
                               \/
        prepareCheck / PreparedCheck (core/src/service)
          |  target + detection (service/target.ts, adapters/detect.ts)
          |  planner (core/src/planner)
          |  runProbes (core/src/runner) --> probes (core/src/probes)
          |                 |  Group F: runner/dilution.ts
          |  scoring, report (core/src/scoring, core/src/report)
          v
        Transport (packages/node: transport.ts, body.ts, resolver.ts)
```

Everything runs in one event loop: what is concurrent is what is awaited. A
handler or a continuation is one atomic step; between two `await`s anything else
may come in.

| component | state it keeps | operations | what makes it correct |
|---|---|---|---|
| Check store (`daemon/checks.ts`) | a Map of entries in insertion order, an expiry timer per estimate, `preparing`, `closed`; each entry's state, events and prepared check | `create`, `start`, `cancel`, expiry, `record`, `settle`, `close` | one check at a time; a key no longer than needed; ends told once; bounded memory; opens again |
| Check service (`service/check.ts`) | a prepared check with the key, discarded once | `prepareCheck`, `run`, `discard` | exactly one outcome per run; the key forgotten on each way out |
| Target and detection (`service/target.ts`, `adapters/detect.ts`) | none between calls | three detection requests sent together, answers ranked | the protocol that answered best is chosen whatever order the answers come in; what failed is told by its cause |
| Planner (`core/src/planner`) | none | choose probes, price them, fit them into the budget | the plan fits; dependencies kept; Group F priced with its replacements |
| Runner (`runner/run.ts`, `session.ts`, `retry.ts`) | loop position, shared cache, spent requests and tokens, evidence log, abort signal | `send`, attempt, retry, `shared`, settle a probe, stop, abort | never over budget; every request in the log once; an abort sends and blames nothing; a refused key ends the run |
| Group F (`runner/dilution.ts`) | draws taken, lost, excluded, replaced, owed | draw, judge, replace, wait for the spread | only independent draws counted; none left out; within the planned price |
| Scoring and report (`core/src/scoring`, `core/src/report`) | none | pool under the caps, ceiling, dispersion test, verdict, rendering | a pass and a fail are borne by what ran; nothing ruled out is named; losing a probe only blurs |
| Adapters (`core/src/adapters`) | SSE parser buffer | build requests, parse answers | independent of how the bytes are split |
| Node transport (`packages/node`) | phase of an exchange, settled or not, body bytes read | resolve, connect, exchange, read, time out, abort | settles once; the first reason to stop is told; no request to a refused address |
| Guard, rate limiter, routes (`cli/src/daemon`) | a window of counts | admit, refuse, dispatch | refusals in a fixed order; bounded memory |
| Web page (`packages/web`) | a phase, a poll loop with a failure count | poll, start, cancel, start over | shows the end the daemon told; gives up only on failures in a row |
| Probes (`core/src/probes`) | what one leaves in the shared cache for the next | send requests, read the answers, return signals | the vendor reads as itself; a layer is never a deception; within the declared cost |
| Fingerprints (`packages/fingerprints`) | tables of documented behaviour | look up a model, the cheaper ones | silence is no fact |
| Tokenizer, credentials, sources | none, or constants | count, redact, cite | - |

What is hard to test here: an answer that arrives after the abort, the stop or
the failure that made it irrelevant; requests sent together of which one fails;
the await of `prepare()` in the middle of `create()`; the expiry timer against
everything else; a retry against the budget; a draw that is lost, replaced,
excluded, at the edge of the allowance; a lost HTTP reply; a count at the threshold
that clears or accuses; one answer of several that fits another model too.
`PROJECT.json` lists
each such place with its line and the properties that would catch it.

## 2. Modules

### CheckStore, CheckSlot - the daemon's checks

`CheckStore` models `CheckStore` of `packages/cli/src/daemon/checks.ts` with what
it awaits of `service/check.ts`.

| model | code |
|---|---|
| `state`, `inserted`, `clock` | the Map: each entry's state, and its place in insertion order (`update()` keeps the place) |
| `timers` | `setTimeout(() => this.drop(id))` of each estimate |
| `key` | the API key: `held` by the `prepare()` of a create and then by its `PreparedCheck`, `lent` to the run, `nowhere` |
| `task`, `aborted` | how far `execute()` of a check is, its `AbortController` |
| `sent`, `flight`, `returned` | the requests a check's session has charged, those whose event is still to come, and how many `runProbes()` came back with |
| `stored`, `counted` | the length of the event log, the requests of the entry's progress |
| `pending`, `preparing` | `create()` between its two halves |
| `CreateBegin` / `PrepareFails`, `AdmitBusy`, `Admit` | `create()` up to and after `await prepare()` (`admit()`, with the `finally`) |
| `Start`, `CancelPrepared`, `CancelRunning`, `Expire`, `Close` | the handlers |
| `Send`, `Answer`, `Tell` | a request of the session, its event, any other event; the last two call `record()` (`Recorded`) |
| `ProbesFinish`, `Settle` | the asynchronous run: `runProbes()` coming back, `settle()` with `prune()` |

A refused call (a start of an unknown check, a second cancel) changes nothing and
is left out as a step. `CheckSlot` is the abstract promise: one slot, and ends
that are told once. `SlotSpec` states that `CheckStore` implements it, with the
live check as the slot. Left out: reports and error texts, and a logger that throws.

`record()` asks only whether the entry is there. Requests that a rejected
`Promise.all` gave up go on, so the session of a check may send and tell after its
probes came back and after its end, until its budget is used up (`MaySend`). Which
requests those are is `RunSession`'s; here any run that sent one may leave some.
`ProbesFinish` goes by what `runProbes()` returned and not by the signal: an abort
after the last probe was judged is seen by nobody. `MCCheckStore` gives the checks
their budgets.

### RunSession - a run of planned probes

`RunSession` models `runProbes()` and the session its probes send through. A
probe is a list of stages; the requests of one stage are sent together (one
request, or the `Promise.all` of `openai/route-serializers.ts`). Answers are the
classes `refusalOf()`, `failureAttempt()` and `retryWaitMs()` tell apart.

| model | code |
|---|---|
| `phase`, `at`, `stage`, `launch` | the loop of `run.ts`, the probe, its `await`, the `send()` calls still to make |
| `call`, `sentAt` | each request: in its first or second attempt, waiting for the retry, done, failed |
| `requests`, `tokens`, `evidence`, `reached` | the session's counters and log |
| `signal`, `aborted` | the abort signal, and what the loop has noticed of it |
| `Launch`, `Attempt`, `Cached` | `send()`, `attempt()` up to its await, `sharedCache()` |
| `Answered`, `AfterAnswer`, `Recorded`, `Wake` | the rest of `attempt()`, `record()`, the retry and its wait |
| `BeginProbe` ... `RunReturns` | the loop: run, skip, settle, stop, the result |

What the program does synchronously is not interleaved with events from outside:
those wait until it is `Quiet`. A request a failed fan-out leaves behind stays in
flight, may retry, and is recorded and charged while later probes run.

### Dilution - Group F

`Dilution` models `runDilution()`: planned draws one at a time, some at a moment
of the spread; `send()` as it treats a request of a draw (a transient failure is
waited out and loses the draw); `takeDraw()` and `tally()`, in the order they tell
too many requests, unobserved, reused, lost and read apart; replacements within
`N div 9`. `budget` is what the budget has left of requests and of tokens when the
draws begin; `attempt()` charges both and throws when either is short. What a request
costs is `Costs`; a probe that keeps to what it declares asks for no more than
`DrawTokens` in one draw (`AsDeclared`), which no code checks. `MCDilution` gives the
costs and the budgets.

### Page - one tab over the store

`Page` models a tab of the web page over the routes of the daemon. It extends
`CheckStore`, which is the daemon, and each serving action takes the store's step;
its own `PageInit`, `PageNext` and `PageSpec` range over the variables of both.

| model | code |
|---|---|
| `view`, `mine`, `shown` | the `Phase` of `App.tsx`, with the check it holds and the end it shows |
| `act`, `answer`, `offered` | the call of the last button: sent, served, answered or failed; the estimate a create's answer carries |
| `poll`, `failures` | `pollCheck()`: its call or its wait, the transient failures in a row |
| `Open`, `Load`, `Reload`, `Submit`, `PressStart`, `PressCancel`, `NewCheck`, `RetryPoll` | the buyer, and `session.ts` |
| `ServeCreate`, `CreateAnswered`, `ServeStart`, `ServeCancel`, `ServeStatus` | `routes.ts` over the store, the create in two halves |
| `CreateHeard`, `StartHeard`, `EstimateCancelHeard`, `RunCancelHeard` | the handlers of `CheckForm`, `EstimateView`, `RunView` |
| `StatusFinal`, `StatusRunning`, `StatusFails`, `PollAgain` | the loop of `poll.ts` |
| `Others`, `DaemonAlone` | other tabs and links on the same daemon; its timers, runs and closing |

A failed call was served before it failed, or never is. Every refusal is one
answer, `refused`, and a 429 is heard like a network failure. Other tabs do
anything the store allows to checks this page does not show. An answer that was
cut off or is no JSON ends the polling at once. The events of a run and the call
that fetches the report are left out: the final status carries the report.

### NodeTransport - one request

`NodeTransport` models one `send()` of `packages/node/src/transport.ts` and the
reading of its body (`body.ts`). The resolver, `node:http` and the decoder are the
environment, known by the listeners that hear them.

| model | code |
|---|---|
| `step` | how far `send()` is: resolving, admitted, exchanging, returning |
| `signal`, `reason`, `timer`, `listening` | `createStop()`: the caller's signal, why it stopped first, its timer and its listener |
| `socket`, `phase`, `connection`, `handed` | the request of `exchange()`, its `phase` and `connection`, whether it really went out |
| `body`, `came`, `held`, `kept`, `ended` | the body's coding, the units that arrived, the decoder holds, `readBody()` kept |
| `Begin`, `Resolved`, `Exchange`, `Return` | the four parts of `send()` between its awaits |
| `Connected`, `Secured`, `RequestFails`, `Response`, `Data`, `Decoded`, `End`, `DecoderEnds`, `BodyBreaks` | the listeners |
| `Timeout`, `Abort` | `stop()` and what it makes the exchange do |

Left out: back-pressure, bytes after the end of a coded stream, a reused socket
(the agent is off: every request has its own), requests malformed enough to
throw, headers, and the length of the deadline.

### Detection, Command - `verifai check`

`Detection` holds `classify()` and `rankProtocols()` of `adapters/detect.ts` as
operators over kinds of answers. `Command` models `runCheck()` with the signals of
`bin.ts` and the preparation of `service/target.ts`.

| model | code |
|---|---|
| `request`, `interactive`, `yes` | what was asked: the kind of problem a field has, the protocol chosen or hinted, the vendor the model's name names, the scheme; a terminal; `--yes` |
| `stage`, `exit` | what `runCheck()` awaits, the exit status |
| `interrupts` | `onSignal()`'s count |
| `attempts`, `wired`, `target` | the three requests of `detectProtocol()`, which of them went out, `protocolOf()` |
| `agreed`, `key`, `ran`, `report` | the confirmation, the `PreparedCheck`, `execute()`, `deliver()` |
| `Complete` | `completeRequest()` and `prepareCheck()` up to its first wait |
| `Answered`, `Concluded`, `Resolved`, `Refused` | an answer; and after the last one `protocolOf()`, `authOf()`, and what `prepare()` makes of them |
| `Agree`, `Decline`, `RunEnds`, `WriteEnds`, `FirstSignal`, `SecondSignal` | the rest of `runCheck()`; the handler of the signals |

The prompts for the fields are one step, planning and the run and the report are
what they come back with, and the first abort settles the detection's
requests before anything else happens. Why a field is refused is not told apart.

### Fingerprints, Matrix - the rejection matrices

`Fingerprints` is the columns of the two vendors' tables that a probe reads.
`Matrix` models `runMatrix()` of `probes/conformance/shared.ts`, which the five
matrix probes share, over any table and any list of request shapes; `MCMatrix`
gives it the five matrices and the whole table.

| model | code |
|---|---|
| `claim`, `probe` | the target's model, the matrix sent |
| `answerer` | who answers: the vendor's own API, a layer before the claimed model, or anything |
| `control`, `answers` | what came of the control request and of each cell sent so far |
| `signals` | what the probe returned |
| `SendControl`, `SendCell`, `Conclude` | `sendControl()`, one turn of `sendCells()`, `rejectionSignals()` |
| `Lose` | a request that failed for good: the probe is skipped |

### Evidence, Accounting, Tokenizer, Conformance, Causal - the other probes

What a probe does is a function of what it has heard: `Ask` a request, `Keep` an
answer for later probes (`sharedCache()`), `Say` its signals, or `Fail`. Each probe
of groups A to D is one operator from `(target, shared, heard)` to such a step,
under the name of its file:

| module | code |
|---|---|
| `Evidence` | signals and their limits (`signal()`), estimated tokens, the search for the smallest output limit an endpoint takes (`output-floor.ts`) |
| `Conformance` | group A: error envelopes, headers, CORS, unknown fields and models, foreign dialects |
| `Accounting` | group B: one shared generation, its usage, stop reason, identifier and model, the counting endpoint |
| `Tokenizer` | group C: the battery and the two readings of its counts |
| `Causal` | group D: the signed thinking and its replays, the cache's threshold and its invalidation, schema, logit bias, logprobs |

Numbers that decide - prompt lengths, limits, thresholds, likelihood ratios in
tenths - are those of the source. A text is the class its reader tells apart. The
battery has three of its eight texts, the Chinese one, on which the two encodings
differ most, among them.

### Endpoint, ProbeRun - the probes against an endpoint

`Endpoint` is external: what may stand behind the URL, as the probes' comments and
citations say. `vendor` serves the claim, `cheaper` a cheaper model, `layer` passes
the claimed model on and may drop, rename or refuse, `any` answers anyhow.

| model | code |
|---|---|
| `at`, `shared`, `heard` | the loop of `run.ts`, `sharedCache()`, the answers of the probe under way |
| `sent`, `charged`, `billed` | its requests, what `send()` charges for them, what they may bill |
| `signals`, `said` | what it returned |
| `Asked`, `Answer`, `Lose` | a request and its answer, or its loss |
| `Remember` (`Kept`), `GiveUp`, `Conclude`, `NextProbe` | an answer kept, a probe that fails, one that returns, the loop |

`EndpointsAssumption` says which pairs of a claim and an answerer are meant: an
OpenAI model over either of OpenAI's protocols or a Claude model over Anthropic's or
the compatible one, answered by itself, by a model the table calls cheaper, or by
anything. It binds no answer; the answers of each kind are `Endpoint`'s.

A retry is `RunSession`'s: here a request is answered or lost. `signals` and the
counters are of one probe at a time; how signals of many are weighed is `Verdict`.

### Plan, Verdict - from the catalogue to the headline

`Plan` models `planProbes()`: the catalogue considered in order against the profile,
the key, the opt-ins and both limits of the budget (`plan`, `requests`, `tokens`).
`Verdict` extends it with the run as scoring sees it and with
`core/src/scoring`:

| model | code |
|---|---|
| `ended`, `said`, `epsilon`, `over` | each probe's outcome, the signals, the result of Group F, an abort or a stop |
| `Runs`, `Skip`, `Draws`, `Ends` | a probe that ran, one that did not, Group F, the end short of a report |
| `report`, `Report` | what the buyer is told: `assess()`, called once in `service/check.ts` when every probe has settled; after an abort or a stop there is none |
| `familyLlr`, `axisLlr`, `heldAt`, `posteriorOf` | `aggregate.ts`: caps by calibration and family, vetoes, posteriors |
| `consistencyOf`, `consistencyPosterior` | `dispersion.ts` and `assess.ts`: uniform, fractional or unknown, and how far that is believed |
| `coverage`, `gaps`, `ceilingFor` | `ceiling.ts` |
| `identityOf`, `evidenceOf`, `verdictFor`, `assess` | `assess.ts`, `types/assessment.ts` |

Posteriors are in thousandths, from a table of the powers of ten by tenths of a
decade; which finding leads is decided exactly, on the ratios. The
penalty of the gaps is rounded up to the next thousandth. The binomial bound is a constant
operator, `exactUpper`: the run tabulates the values of the draws it has
(`Upper` of `MCVerdict`), and the proofs assume only that it is a share. The shuffle
of `paranoid` is any order. Renderings and reasons are left out.

`Draws` follows `drawAll()`: Group F ran when every planned draw and every replacement
was taken, however many of them were lost or excluded, and is `budget-exceeded` when it
was cut short of that (`toTake`). Ten readings and four lost draws of thirty are
therefore a budget that ended, never a group that stopped of itself, whatever
docs/scoring.md says of it (`LostBeyondNinthEnds`, section 5). One exclusion too many
is a skip.


## 3. What each run checks

| run | module | expect | properties |
|---|---|---|---|
| `CheckStore` | MCCheckStore | pass | OnlyOneSpends, NothingLingers, MemoryBounded, EndsAreKept, Recovers, SlotSpec |
| `RunSession` | MCRunSession | pass | BudgetKept, EvidenceAccounts, StopsAreTold, LossBlamedOnce, AbortIsClean, RunEnds |
| `Dilution` | MCDilution | pass | RanIsComplete, EstimateSuffices, NoDrawAfterAbort, CountedIsIndependent, GroupEnds |
| `Page` | MCPage | pass | DisplayIsTrue, CancelIsHeeded, PollingEnds |
| `NodeTransport` | NodeTransport | pass | ResultIsTrue, WholeBody, NothingOutlives, Answers |
| `Command` | Command | pass | ExitIsTrue, ProbesTheBest, RunsOnlyAgreed, CommandEnds |
| `Matrix` | MCMatrix | pass | AccusesOnRefusals, VendorReadsAsItself |
| `ProbeRun` | MCProbeRun | pass | TypeOK, VendorReadsAsVendor, StrippingIsNotDeception, CheaperIsNotRuledOut, CostIsEnough |
| `Verdict` | MCVerdict | pass | PlanIsTight, PassIsEarned, FailIsEarned, RuledOutIsNotNamed, GapsOnlyBlur |
| `CheckStore_overlap` | MCCheckStore | violation | AloneOnTheWire |
| `ProbeRun_kept` | MCProbeRun | violation | KeptMeansCounted |
| `Command_unasked` | Command | violation | NothingSentUnasked |

- `CheckStore`: Three checks over a store that keeps one ended one, with the requests of their runs going on after them: whatever order creates, starts, cancels, expiries, requests, run ends and the closing of the daemon come in, one check is live at most, its key is held no longer than it is, no end is lost or revised nor any event of it taken back, the store opens again, and seen from outside it is one slot (CheckSlot) whose ends are told once.
- `RunSession`: A run of three probes, one of them a fan-out of shared requests, over every answer, retry and abort: the budget and the log account for every request, an abort sends and blames nothing more, a stop is reported, and the run ends with nothing it sent left waiting.
- `Dilution`: Nine planned draws of two requests, one replacement, a budget of requests and one of tokens: lost and excluded draws are replaced within the allowance and both budgets, only independent draws are counted, an abort sends nothing more, and the group ends.
- `Page`: One tab over the store, with others about, every call of which may be refused or lost before or after it was served: what the page shows is so, a cancel it was told of is one, and no polling goes on for ever.
- `NodeTransport`: One send() to an http or https target, by name or by address, with a deadline, an abort and a failure possible between any two callbacks: it answers once and truly, with a whole body or none, and leaves nothing behind.
- `Command`: `verifai check` for every kind of request, answer to the detection, order of the answers and moment of one or two signals: it spends only on a yes, probes where the endpoint speaks best, blames no interrupt on the endpoint or the input, and its exit status and its report agree.
- `Matrix`: The rejection matrices of group A, over both vendors' tables as they are, against the vendor's API, a layer that drops settings or rewords refusals, and an endpoint that answers anyhow: only a refusal accuses, and never the model that is served.
- `ProbeRun`: The probes of groups A to D in catalogue order over one shared cache, every answer of every kind of endpoint and every request lost: the vendor reads as the vendor, a layer that loses things as a translation at worst, a cheaper model is not ruled out, and each probe stays within the cost it was planned at.
- `Verdict`: Plan, run, skips, draws and scoring in one behaviour: the plan is within its budget and tight, and each headline is borne by what ran and what was said.
- `CheckStore_overlap`: An estimate is started while another create awaits its detection requests: two checks are on the wire at once.
- `ProbeRun_kept`: A first turn of two blocks: the unaltered one alone carries the altered replay past the kept gate.
- `Command_unasked`: With the protocol left to detection, three requests with the key go out before the estimate is shown.

Each property of a passing run has a mutant: a definition next to the one that
models the code (`MayAdmitUnchecked`, `EndFinishes`, ...) with a plausible bug,
under which TLC finds the property violated.

### Bounds, and why they are enough

| run | bounds | why |
|---|---|---|
| `CheckStore` | 3 checks, 1 kept once ended, 1 event stored; one check sends 2 requests, the others 1 (`MCBudget`) | an eviction needs two ended checks, and a third to be live meanwhile; an event past the log's cap needs one more than it holds; of two requests one may end the run with the other under way, or be followed by it after the end. Places in the Map are given from a clock that stops at the number of checks |
| `CheckStore_overlap` | 2 checks | one that waits to be started, one being prepared |
| `RunSession` | 3 requests, 2 of them in one fan-out and shared by probes; 6 requests and 7 tokens of budget | five places of the program may send ten requests: both budgets run out, before and within a fan-out, with requests left behind |
| `Dilution` | 9 draws of 2 requests that cost 1 and 2 tokens; budgets of 20 requests and 30 tokens, one request less, one token less, and 5 requests | nine draws are the fewest with a replacement (`9 div 9 = 1`), so the allowance is met and passed; the first budget is just enough, the next two are one too few by the one half or by the other, five requests end the group early |
| `Page` | 3 checks, 1 kept, 1 transient failure tolerated; the runs send no request | the page asks for the state of a check and not for its figures; this page's check, the next one and another tab's; the second failure in a row is one too many |
| `NodeTransport` | 3 units of body, each decoding to 2, of which 2 are allowed | the limit is met exactly, passed by an identity body and passed within the decoder |
| `Matrix` | none: every documented model, every matrix of the catalogue | the state is finite: 95 922 states |
| `ProbeRun` | every Claude model as the claim and every cheaper one behind it; one OpenAI model with either encoding, over both protocols; a Claude behind the compatible endpoint; anything at all for a claim of each protocol | what a probe concludes depends on the claim by the columns of the table, of which each value occurs. A layer does one thing to an answer, and a different one to the next |
| `ProbeRun_kept` | one claim, any endpoint | enough for the counterexample |
| `Verdict` | a catalogue of twelve probes, of groups A to D and F, cheap and dear; six sets of options; ten results of Group F, from all draws agreeing to too many lost or the budget at an end; one probe admitted and not run (`MaxSkips`) | each of the four profiles, each way of the planner to leave a probe out, each side of the thresholds of the draws and of the ceiling occur; the loss of a second probe is the subject of `GapsOnlyBlur` itself, which takes one away from every report |
| `Command` | none: three protocols, two vendors, five kinds of failure and every kind of answer there is | the state is finite |

### Fairness, and why the code justifies it

- `CheckStore`: the armed expiry timer fires, `prepare()` comes back (its requests
  have deadlines) and the run under way ends (`RunSession`'s `RunEnds`): one fairness
  for each, since one check is live at most. No client has to call, and no request a
  run left behind has to be answered.
- `RunSession`, `Dilution`: the program goes on, every request is answered (the
  transport has a deadline, `NodeTransport`'s `Answers`) and every wait ends.
  Nobody has to abort.
- `Page`: the poller goes on, each of its calls is answered or fails, a run ends.
  Nothing is asked of the buyer, nor of the network but that it does either.
- `NodeTransport`: `send()` goes on and its timer fires. The resolver and the
  endpoint may do nothing for ever.
- `Matrix`, `ProbeRun`, `Verdict`: none. They state safety; that a run ends is
  `RunSession`'s.
- `Command`: what the system does. The buyer may leave the terminal alone for ever.

`CHECK_DEADLOCK FALSE` stands where a process is over once it is over: a closed
daemon, a run, group, request or command that ended, a page nobody uses.

## 4. What is proved

The theorems hold for every value of the constants that meets the named
assumption of the module, and are proved from it alone:

| proofs | assumption | theorems |
|---|---|---|
| `StoreProofs` | `BoundsAssumption`: finitely many checks, bounds that are natural numbers, a budget of requests for each, one ended check kept at least; `PageAssumption`: a natural number of failures tolerated | TypeCorrect, OneCheckAtATime (OnlyOneSpends), KeyIsForgotten, ClosingIsFinal, JustSettled, EndsAreFinal, MemoryIsBounded (MemoryBounded), StoreImplementsSlot (SlotSpec), KeysDoNotLinger (NothingLingers), EndsStay (EndsAreKept); of the page over it: PageUsesStore, PageTypes, PageIsTrue (DisplayIsTrue), CancelsAreHeeded (CancelIsHeeded) |
| `RunSessionProofs` | `PlanAssumption`: a program of non-empty probes, whose fan-outs send shared requests that cannot stop the run | TypeCorrect, BudgetIsKept (BudgetKept), EvidenceIsComplete (EvidenceAccounts), AbortStopsRequests, AbortIsNotBlamed, AbortedIsNotUnreachable, StopEndsTheRun, StopsAreTrue (StopsAreTold), AbortsAreClean (AbortIsClean), LossesBlameOnce (LossBlamedOnce) |
| `DilutionProofs` | `DilutionAssumption`: one draw and one request a draw at least, costs and budgets that are natural numbers; that the requests of a draw cost no more than the probe declares (`AsDeclared`) is part of `Ask` | TypeCorrect, NoDrawLeftOut (RanIsComplete), PlannedBudgetIsEnough (EstimateSuffices), AbortStopsDraws (NoDrawAfterAbort), CountsIndependentOnly (CountedIsIndependent) |
| `NodeTransportProofs` | `TransportAssumption`: a natural limit, a coding that gives one unit for each at least | TransportTypes, ResultsAreTrue (ResultIsTrue), BodiesAreWhole (WholeBody), NothingIsLeft (NothingOutlives) |
| `CommandProofs` | none | CommandTypes, InterruptsAreTold, VerdictsAreDelivered, BestIsProbed (ProbesTheBest), SpendingIsAgreed (RunsOnlyAgreed), ExitsAreTrue (ExitIsTrue) |
| `MatrixProofs` | `TableAssumption`: a table that says of each shape that a model refuses it, accepts it, or nothing, and matrices over those shapes | MatrixTypes, NobodyIsAccusedForNothing (AccusesOnRefusals), VendorIsRead (VendorReadsAsItself) |
| `ProbeRunProofs` | `EndpointsAssumption`: claims and answerers as above, any number of them | SignalsAreWellMade (TypeOK), VendorIsVendor (VendorReadsAsVendor), StrippingIsTranslation (StrippingIsNotDeception), CheaperIsStillPossible (CheaperIsNotRuledOut), ProbesStayWithinCost (CostIsEnough) |
| `VerdictProofs` | `CatalogueAssumption`, `OptionsAssumption`: natural costs and limits, a known profile; `SaysAssumption`: a probe says finitely many well-made signals; `DrawsAssumption`: draws that disagree are fewer than the draws, and the bound on what was lost is a share | PlanTypes, PlansAreTight, RunsPlanTightly (PlanIsTight), PassesAreEarned (PassIsEarned), FailsAreEarned (FailIsEarned), RuledOutIsNeverNamed (RuledOutIsNotNamed), LosingOnlyBlurs (GapsOnlyBlur), ConfidencesAreShares |

A theorem without a property beside it states one that TLC does not run again: the
type invariants, and the parts of which a property that is run is made
(`NothingLingers` of `KeyOnlyWhileLive` and `ClosedIsQuiet`, `EndsAreKept` of
`JustSettledIsKept` and `FinalIsFinal`, `StopsAreTold`, `AbortIsClean`, `ExitIsTrue`).

Each module has one inductive invariant (`IInv`, `PageInv`, `planSpecInv`,
`verdictInv`), the type invariant and the safety invariants with what they need to be
inductive:

- **CheckStore**: an armed timer always belongs to an estimate - its callback asks
  nothing, so it must never outlive a start - and the live check is the newest
  entry of the Map, so that no prune can reach it or the check that just ended.
  `MemoryBounded` needs besides that the ended checks are never more than the
  bound, which is a fact about `prune()` counting from the oldest. That an end stands
  (`EndsAreKept`) rests on no guard against late events: the log and the count of an
  ended check only grow, and what an evicted one left behind finds no entry.
  `StoreImplementsSlot` maps the store's states onto the slot's and shows every
  action to be a step of `CheckSlot` or a stutter.
- **RunSession**: only shared requests linger after a failed fan-out
  (`OnlySharedLinger`); an abort the loop has not noticed yet will make the probe
  under way fail or came after something was reached (`AbortIsSeen`); a stop in the
  log has ended the run or is about to be thrown (`StopIsThrown`). A lost request of
  the stage under way is one more than the probes blamed so far (`LossIsNew`), for a
  request an earlier probe lost is asked again before a stage waits for it.
- **Dilution**: draws are conserved - taken, under way and owed make up those
  planned and replaced (`DrawsAccounted`) - and a replacement is owed for each
  failure up to the allowance (`ReplacementsMatch`); with what a draw may have sent
  (`SentAtMost`) and been charged (`ChargedAtMost`) this bounds the group by the planner's
  price, in requests and in tokens.
- **Page**: the page is shown to take only steps of the store (`PageUsesStore`), so
  the store's invariant holds of it.
- **NodeTransport**: what `fail()` tells is read off the phase (`PhaseTells`), and
  every unit that arrived is kept or in the decoder (`NoneIsLost`).
- **Command**: what is chosen, run and written is a matter of the stage
  (`StageIsTrue`); that a ranking has a first (`DetectedIsFirst`) follows from
  `Precedes` being total and transitive.
- **Matrix**: every answer is one its answerer may give to a cell the table settles
  (`AnswersAreAllowed`), and the signals are the control's verdict or the reading of
  all the answers (`SignalsAreRead`). Then every refusal of the claimed model is
  documented of it, and the reading of the claim cannot be a mismatch.
- **Plan**: `PlanIsTight` is inductive with the types: the sums only grow, so what did
  not fit when it was considered does not fit in the finished plan.

- **Verdict**: `verdictInv` says what the scoring is fed: a plan that keeps
  `PlanIsTight`, a record of a known kind for each entry (`RecordsApply`), finitely
  many well-made signals (`Heard`), draws as they may end, and a report that is the one
  `assess()` computes from them (`ReportIsFinal`). The theorems are then about the
  arithmetic, for any signals: a posterior of 0.8 for the claim needs a ratio nine
  tenths above `unknown` and seven above each accusation, read off the first powers of
  ten (`PowerTable`, `ClaimStandsOut`, `AccusationStandsOut`); the finding named leads
  all others or is the mildest that no probe ruled out (`NamedLeads`, `MildestStands`);
  and a lost probe lowers every part of the ceiling (`LosingBlurs`). The sums of
  signals are folds over sets of any size. The library's induction takes an operator, so
  the induction is done on a set of subsets instead (`SubsetInduction`), and shows a
  sum the same in whatever order it is taken (`SumIsSum`).

- **ProbeRun**: what a probe says is a function of answers it got earlier, some of
  them asked for by another probe, so the properties of its signals are not inductive.
  `IInv` adds where the answers come from - each one heard is an answer of this
  endpoint to the request the probe sends after those before it (`HeardAsAsked`), and
  what is kept under a key is an answer to the request of that key, or for the
  battery the counts of the endpoint's tokenizer (`KnownAsKept`) - and what the probe
  may still spend: the requests it still waits for (`Due`) and their tokens
  (`LeftToCharge`), with those sent, fit the cost it declares (`Spends`). Both bounds
  fall when an answer is kept, since a probe that finds it in the cache starts with
  fewer of them to ask for. `EveryProbeKeeps` then shows for each probe, by its own
  lemma, that its next step asks within what is left, keeps only such answers, and
  says only signals that are well made and true of the four kinds of endpoint
  (`SaysTruly`); `EveryProbeWithin` that it starts within its cost. TLC finds `IInv`
  on every state the run reaches. The theorems cover any set of endpoints, all claims
  at once; the probes, their order and their numbers are the source's.

Only model-checked: liveness (`Recovers`, `RunEnds`, `GroupEnds`, `PollingEnds`,
`Answers`, `CommandEnds`), which is beyond the prover as is every use of ENABLED. Every
safety property a passing run checks is a theorem. The violations
are TLC's counterexamples.

## 5. Where the code and its words differ

A run shows each of these:

1. `CheckStore_overlap` (`packages/cli/src/daemon/checks.ts:229`): packages/cli/src/daemon/checks.ts:4-5 says "One check at a time: a run spends the buyer's money and has the endpoint's rate limits to itself, and two at once would share both." (README.md:262: "One check runs at a time."). start() looks at the entry's state and at `closed` (checks.ts:229) and not at `preparing`, so an estimate may be started while another create() awaits prepare(), whose detection (packages/core/src/service/target.ts:137, adapters/detect.ts:240) sends requests of its own; admit() only discards the outcome afterwards (checks.ts:184-187).
2. `ProbeRun_kept` (`packages/core/src/probes/causal/thinking-signature.ts:146`): docs/PROVENANCE.md:856 says "the kept gate rules that out: the altered replay is judged kept only when its thinking was counted as input". classify() (thinking-signature.ts:146-156) judges the growth of the whole prompt against half of the thinking of the whole first turn, of which only one block is altered: where the turn has a second, unaltered block, that one alone can carry the replay past the gate with none of the altered thinking counted.
3. `Command_unasked` (`packages/core/src/service/target.ts:137`): README.md:124 says "`verifai check` prints the estimate and asks before it sends anything", and README.md:130 "**Nothing is sent until you confirm.**" Unless the buyer chose a protocol or the pasted URL names one, resolveTarget() detects it (target.ts:137), which sends three requests with the key (adapters/detect.ts:240) before there is an estimate to confirm.

These are stated as properties of their modules and are refuted by TLC when added
to the configuration of the module's run; no run of this directory repeats it:

- `CancelReported` of `CheckStore` (`packages/cli/src/daemon/checks.ts:69`): packages/cli/src/daemon/checks.ts:69 says "The state after asking; a running check reports `cancelled` once it has stopped." The code reports `cancelled` only when runProbes() itself saw the abort (packages/core/src/service/check.ts:176): a cancel while the last answer is digested, or while the report is being built, ends as `finished`, and one that meets a refused key or a failure ends as `stopped` or `failed`.
- `FiguresAreFinal` of `CheckStore` (`packages/cli/src/daemon/checks.ts:135`): no document claims it, but a reader of the page may take it so, that the requests told of an ended check are those of its report. settle() sets them to what the run came back with (checks.ts:149); record() does not ask for the state, and requests a rejected Promise.all gave up (probes/conformance/openai/route-serializers.ts:101) are recorded while the report is built and after the end; a request under way at the end was counted by runProbes() and is counted again.
- `EvidenceInSendOrder` of `RunSession` (`packages/core/src/runner/session.ts:225`): docs/report-format.md:140 says "`evidence` is in send order" and packages/core/src/runner/types.ts:128 "In send order." The code appends an entry once its answer is in and digested (session.ts:225-238), so the requests of a Promise.all (probes/conformance/openai/route-serializers.ts:101), and one a failed fan-out left behind, are logged in the order their answers came.
- `SpendsWithinEstimate` of `RunSession` (`packages/core/src/service/check.ts:167`): packages/core/src/service/contract.ts:240 calls the estimate's requests and tokens "Upper bounds for the planned probes." and packages/cli/src/check/command.ts:125 asks the buyer to agree to "spending up to" them. The run is given plan.maxRequests and not plan.requests (check.ts:167), and a retry (runner/session.ts:316) is charged to that budget only, so a run may send more than the estimate.
- `LostBeyondNinthEnds` of `Dilution` (`packages/core/src/runner/dilution.ts:189`): docs/scoring.md:386-390 says "Re-running stops as soon as that is certain, at m > N / 9, so an endpoint that fails one request in three ends the group early instead of draining the budget. At N = 30 that allows three lost repetitions ...; the fourth ends Group F". tally() ends the group only for excluded draws (dilution.ts:183-188): past the allowance a lost draw is no longer replaced, but every planned draw is still sent.
- `LeavingIsRight` of `Page` (`packages/web/src/components/EstimateView.tsx:42`): packages/web/src/components/EstimateView.tsx:43 says "The daemon forgets an unstarted check on its own; leaving is still right." of a cancel that failed. The check need not be unstarted: a start the daemon served whose answer was lost leaves the page on the estimate under "The check did not start" (EstimateView.tsx:32-35, 130), and when the cancel that follows is lost too, cancel() returns to the form all the same (line 45) and the run goes on spending with no page that could stop it.
- `AcceptanceSpeaksForNone` of `Matrix` (`packages/core/src/probes/conformance/shared.ts:406`): the comment at shared.ts:9-10 says "an acceptance speaks for no model and against none". A layer that drops the setting of one cell and passes on the refusal of another leaves the claim without a reading (its refusals no longer match as a whole), while a cheaper model that accepts the former and refuses the latter matches: the acceptance has made the difference.

## 6. What is not modelled

| part | why not |
|---|---|
| Report and rendering (`core/src/report`) | layout of what `Verdict` and `RunSession` compute: no state, no order |
| Protocol adapters (`core/src/adapters`) but for detection | requests are built and answers parsed field by field; the probes are modelled from the parsed answer. The SSE parser's independence of how the bytes are split is one about strings |
| Guard, rate limiter, order of the refusals (`cli/src/daemon`) | each refusal is one answer, `refused`, to the page. The limiter's window decides only whether that answer comes |
| Network policy (`core/src/net`, `node/src/resolver.ts`) | arithmetic on addresses; `NodeTransport` takes its answer as a choice |
| Credentials, sources, tokenizer, types | redaction, citations, byte-pair counts: no state. `Tokenizer` has the counts the encodings give its texts |
| Fingerprints' sources, dates, aliases | quoted by reports and not by any decision |
| Group F's readings in `ProbeRun` | its loop is `Dilution`, its result is an input of `Verdict` |
| Requests of one probe in the run of another | `RunSession` has them; `ProbeRun` asks the routes of `route-serializers.ts` one after the other, since what it concludes takes all of their answers |
