# jim-agent, in TLA+

`jim` sells cited financial research over x402, buys data it does not have from
other x402 sellers, and watches assets for its users. This directory holds TLA+
models of the parts of it whose behaviour is decided by interleavings, failures
and retries, the TLC configurations that check them, and proofs TLAPS checks.

Paths below are relative to `src/src/jim/`. `PROJECT.json` lists the components,
the runs, the hazards with their lines, the source lines of each definition, and
the findings.

## The system

One Python process (FastAPI under asyncio, or one of the command lines) over one
store (`SqlStore` on Postgres, `MemoryStore` for tests). Nothing is shared
between processes but the store; inside a process, coroutines interleave at
`await` only. Every model takes the code between two awaits as one step.

| Component | State it keeps | Operations | Talks to |
|---|---|---|---|
| Circuit breaker (`net/resilience.py`) | per host: `failures`, `opened_at` | `resilient_call`: admit, dial, retry, fail, answer, be cancelled | every outbound call of the agent |
| Procurement (`sources/`, `research/budget.py`, `buyer/client.py`, `interop/trust.py`) | purchase cache, trust events (store); `BudgetCap` per run | `procure`, `pay`, `CompositeSource.gather`, `attribute_gate_outcome` | x402 sellers, through the breaker; the store |
| Research pipeline (`research/engine.py` and the nodes it calls) | memo cache, insights, `query_records` (store) | `run_research`: gather, memo cache, debate, synthesize, gate, judge, book, store | procurement, the models, the store |
| Seller (`seller/app.py`, `seller/audit.py`) | `payment_receipts` (store) | paid routes, `_deliver_or_refuse`, settlement of 2xx answers, audit | the x402 middleware and its facilitator; the pipeline |
| Monitors (`monitors/`) | `monitors`, `monitor_runs` (store) | scheduler tick, manual run, create, delete, enable, disable, `run_monitor_once` | sources, notification channels, the store |
| Call chain (`interop/callchain.py`) | the chain of the request being served (a `ContextVar`) | refuse an inbound request, extend the chain of an outbound one | seller, procurement, other agents |
| Webhooks (`monitors/notify.py`) | a subscriber's set of seen nonces | sign, deliver, verify | the subscriber |
| Facts, gate, blame (`research/facts.py`, `research/gate.py`, `research/completeness.py`, `sources/peer.py`, `interop/trust.py`) | the snapshot of one run, and which source each fact came from | derive, render, merge, renumber, check, blame | procurement, the pipeline |
| The watch crew (`monitors/triggers.py`, `diff.py`, `materiality.py`, `nl.py`, `create.py`, `update.py`) | the row of one monitor | propose triggers, compare, decide what is material, write the note | monitors, the gate, the models |
| Store (`store/repo.py`, `store/models.py`) | everything above that is kept | two backends with one interface | every component |
| Models (`llm.py`, `config.py`) | a pinned and an overriding mode per process | resolve a mode, pick a credential | pipeline, crew, seller |
| Evaluation (`eval/`) | run documents and a baseline marker on disk | run, promote, compare, calibrate | the gate, the pipeline |
| Surfaces (`marketplace/`, `dashboard.py`, `admin.py`) | none | check readiness, choose the facilitator, render settings and the store | HTTP, operators |

What is hard about each, and what makes it correct:

* **Breaker.** All calls of a process to a host share one breaker without a lock
  and read it once. Late answers and late failures cross. The two fields must
  agree, a dead host must not be hammered, a live one must be used again.
* **Procurement.** A payment is two round trips with a retry around both. The
  cap is checked against one response and the payment follows another; the
  cache, the trust score and the cap are read before they are used. Money
  committed, money moved and the ceiling must stay in a known relation, and a
  bad peer must cost a note, not the run.
* **Research.** Requests for one memo key overlap, and what one of them stores is
  sold by another without a judge. What ships must be sourced against the facts
  of its own run and must have been judged.
* **Seller.** Booking, settling and auditing are three writes in that order with
  failures between them. The books must agree with what was captured.
* **Monitors.** A driver works on a copy of the row and writes the whole row back
  after several awaits; the run record and the row are two writes. A cooldown
  must never hide an alert that nobody can read, crossings must not be lost,
  due monitors must be served.
* **Call chain.** No agent sees more than the header in front of it, and agents
  that run other code may forge it. No money may go round among jims, and no
  chain of purchases may grow without end.
* **Webhooks.** Copies of a delivery are late, lost, repeated and altered, and two
  clocks disagree. A delivery is acted on at most once.
* **Facts.** A figure passes derivation, merging, renumbering, rendering and a
  tolerant match before it ships or costs a seller its reputation. What passes
  must trace to what a seller handed over, and only a source that was cited in a
  failing sentence may be blamed.
* **The crew.** Ties, missing metrics, cooldowns and severities meet in one poll:
  no false alert, none lost, none repeated.
* **Store.** The two backends are written apart and tests use mostly one of them.
* **Models and surfaces.** Settings are read once, edited meanwhile, overridden,
  pinned, and read again by a check that is not the code it speaks for.
* **Evaluation.** Concurrent runs pick their names from what is on disk, and a
  baseline is a name.

## Modules

| Module | What it is |
|---|---|
| `CircuitBreaker` | what a circuit breaker promises: the abstract specification |
| `Breaker` | `resilient_call`; implements `CircuitBreaker` (mapping `Abs`) |
| `MonitorFleet` | scheduler, manual runs, edits, crashes, `run_monitor_once` |
| `Procurement` | concurrent runs buying from a crew of sources |
| `Research` | concurrent requests for one memo key, up to settlement and audit |
| `CallChain` | jims and foreign agents that buy from each other |
| `Webhooks` | signed deliveries over a lossy network, and the subscriber's check |
| `Figures` | rendering, matching and the gate's verdict: rules without state |
| `Sourcing` | from the rows of several sellers to a gated memo and the blame; extends `Figures` |
| `Crew` | what one monitor says, poll after poll, for every trigger kind; extends `Figures` |
| `Store` | `MemoryStore` and `SqlStore` driven by the same calls |
| `Eval` | `jim-eval` commands over a directory of runs |
| `Serving` | processes, credentials, the preflight and the facilitator |
| `MCServices` | one instance for `Breaker` and the small modules above: a behaviour picks a `part` and is a behaviour of that module, the other variables rest |
| `MCUpdate` | `Crew` without an Anthropic key |
| `MCMonitorFleet`, `MCProcurement`, `MCResearch` | the instances of those modules, each with several configurations |
| `MonitorFleetProofs`, `ProcurementProofs`, `ResearchProofs`, `CrewProofs`, `StoreProofs` | theorems about the module they are named after |
| `ServicesProofs` | theorems about `Breaker`, `CallChain`, `Webhooks` and `Serving` |
| `GateProofs` | theorems about the two gates: `Eval` and `Sourcing` |
| `DataLemmas` | what those proofs need of numbers, sequences and finite sets: induction, least and greatest elements, counting |

The parts are composed where they share state: `Procurement` has the cap, the
cache, the trust events and the breaker's refusals; `Research` has the pipeline,
the seller, the middleware and the ledger; `MonitorFleet` has drivers, edits and
channels; `Sourcing` and `Crew` have the gate's rules of `Figures`; `Serving` has
the models, the seller's start and the preflight. What passes between those
groups is an outcome (a purchase that fails, a gate that rejects), which the
receiving module leaves to choice.

In a module, an operator whose comment begins "Mutant of X" is no part of the
specification: it is X with a plausible bug, kept so that each property is known
to be able to fail. `PROJECT.json` pairs properties and mutants.

### Breaker and CircuitBreaker

`failures` and `openedAge` are the two fields of `_BreakerState`; the age is the
time since `opened_at`, saturated at the cooldown, because the code only compares
it with `breaker_reset_seconds`. `stage` and `attempt` are the local state of each
call. `Call` is admission and the first dial, `Answer` / `FailAndBackOff` /
`FailAndRaise` the three ways a dial ends, `Redial` the end of a backoff sleep,
`Cancel` a cancelled task. A semantic error (an HTTP status) is an answer. A
`CircuitOpen` changes nothing and is no step. `stray` is history: the dials each
call makes while the breaker cools down.

The abstract `CircuitBreaker` keeps a mode and two sets of calls, and has no
counter, threshold or clock. The mapping reads the mode off `openedAge`, and the
sets off `stage`.

### Procurement

One run per `run_research`, with its `BudgetCap` (`spent`). `CheckTrust`,
`CacheHit` / `CacheMiss`, `Quote` (the pre-flight 402), `Settle` (the paying
request at the seller), `Respond` / `Refuse` / `Lose` (its answer), `Record`,
`Debit` and `Attribute` follow `PeerSource.gather`, `procure`, `pay` and the end
of `run_research`. `Skipped` and `Failed` say which exceptions the code catches
where: fatal from the primary, a note from a peer. `paid` is the money that
moved, `lost` the part of it whose answer never came or was refused; neither is
known to the code, and comparing them with `spent` is the point. A datum is
abstracted to what the code tells apart: facts that parse, JSON without usable
facts, JSON of another shape, and no JSON. The breaker appears only as a first
dial that may find it open.

`Faults` are what may go wrong in an instance. Besides the transport, the wall clock
and the open breaker there are the exceptions `pay` may raise that nobody lists
("unlisted": a 402 header whose `accepts` is null raises `TypeError`, a payment the
x402 client cannot make, no key), which end the run from a peer too (`Break`), and
calls of the store that raise ("store"): `procure` guards none of its own
(`StoreFails`), a score that cannot be read lets the purchase go ahead
(`CheckTrust`), a trust event that cannot be written is let go (`Debit`, `Attribute`).

Two histories relate a payment to the look that allowed it. `amid` has, for each cached
datum, the runs that were buying it when it entered an empty cache; `unwarned`, for
each peer below the floor, the runs that were past their look at its score when it
fell, and those that could not look.

### Research

`run` holds the locals of each request, `cache`, `insight`, `ledger`, `receipts`
its rows in the store, `settled` what the facilitator captured, `spent` what
gathering really cost. `Begin`, `Gather`, `LookUp`, `Debate`, `Synthesize` (with
the gate and its routing, `Gated`) and `Judge` are the nodes of the graph;
`NodeFails` the exception that `run_research` turns into an error run. `Book`,
`FindInsight` / `SaveInsight` and `FindMemo` / `SaveMemo` are the store calls
after the graph, each upsert split at the await between its select and its
commit. `Updated` is the SQL the ORM emits: an UPDATE of the columns that differ
from what was selected, so two overlapping upserts can leave the fingerprint of
one run beside the memo of the other. `Settle` and `Audit` are the payment
middleware (external) and `PaymentAuditMiddleware`.

A snapshot is abstracted to the version of the data it shows, a memo to the
version it quotes and whether it quotes it well. `Fingerprint` and `Covers` are
constants: which versions hash alike, and which memos pass the gate against
which. A payment is verified before a request begins, so an unpaid request to a
paid route is no behaviour here; a run outside `Paid` is one nobody pays for (the
UI preview, the command line). The memo cache is on (`memo_cache_enabled`).

### MonitorFleet

`rows` is the `monitors` table, `fed` the material rows of `monitor_runs`. A job
is one execution of `run_monitor_once` with its own copy of the row. What is
watched is one metric per monitor, with the threshold trigger in both directions.
`SchedulerTick` reads the due rows and starts them all; `Start` takes the
semaphore; `GatherReturns` is the diff, the triggers and materiality on the copy
(the cooldown is stamped there, before delivery); `GatherCaught` and
`GatherBreaks` are the listed and the unlisted exceptions; `Push` is delivery,
`Record` and `Save` the two writes. `Create`, `Delete`, `ToggleRead` and
`ToggleSave` are the API and command line edits, the last two being one
read-modify-write. `jim-monitor preview` neither delivers
nor persists and is left out. `alerted`, `early` and `stood` are history.

The trigger there is the threshold; `Crew` has all of them, one run at a time.

### CallChain

`call` holds one record per request: buyer, seller, the `hops` its header names,
its `stage`, and the request it is made for. `Admit` and `Refuse` are
`check_inbound` in the seller's outermost middleware; `BuyAfresh` and `BuyFor` are
`outbound_payment_headers` for a purchase of its own or on behalf of a request
being served; `ForeignAsk` is a request of an agent that runs other code and sends
any of `ForeignHeaders`. `trail` is history: the jims that really funded the
request since the last foreign agent. The property is about `trail`, the code
sees only `hops`. Any request may be next, and several requests of one agent
have each their own chain, as with a `ContextVar`.

### Webhooks

A delivery is named by its nonce, which stands for the body as well; a signature is
what it binds. `signed` is what the engine sent, `outcome` what `deliver`
concluded, `seen` and `accepted` the subscriber's memory and deeds. `PostHook`,
`HookAnswered` and `HookFailed` are `WebhookChannel.deliver`; `ReceiveHook` is a
copy that arrives, at any time, any number of times and with any timestamp, and
passes `verify_delivery`. That function leaves the nonces to its caller, so
`ForgetNonce` is external: a subscriber that forgets only what has left the
window. The clocks differ by a constant `skew`. What `deliver` returns says nothing
of what the subscriber did: any status below 400 counts as delivered, and an
answer that is lost counts as failed. `HookAnswered` and `HookFailed` are therefore
not tied to `accepted`, and nothing is claimed of `outcome`.

### Figures and Sourcing

Values are in thousandths. A memo is a set of segments, each with the figures and
the citations its sentence contains: what the regular expressions of `gate.py`
extract is given, what it is compared with is modelled (`Rendered`, `Within`,
`UnitOk`, `Matches`). `GatherFacts` numbers the primary's rows and the ratios
jim derives; `BuyPeer` merges a peer's rows under new numbers and origins;
`BuyGarbage` is a peer whose answer has no usable row, debited at once, and
`SkipPeer` one that fails in another way; `WriteSegment` lets the models say anything;
`GateMemo` is the completeness signal, the verdict, the sources blamed and those
credited. `supplied` and `entered` are history: which rows each source handed over,
and under which ids they entered the snapshot. The code blames through `origins`;
`BlameIsJust` measures it by `entered`, in both directions, so an id that is reused or
mapped to another seller shows.

### Crew

`monitor` is the stored row: crew, baseline, cooldown stamps (as ages, saturated),
floor. `Add` covers `create.py` (`--watch`, defaults) and `nl.py` (the keyword
parser, and what a model may propose, through the clamps of `Disposed`).
`FirstReading`, `Reading` and `FailedRun` are a poll: `Evaluate` has one operator
per trigger kind, `Assess` is `materiality.py`, `NoteVerdicts` the gate over the
fallback note or over a model's note. An optional number is a set of at most
one. A row remembers the percentages its description named (`pcts`), `heard` is
how long ago the feed last had each key, and `crosses` the last two polls that
raised a cross of the default averages while both were present, each as the set
of directions it raised: all three are history. `Labels` are the labels metrics may have
(`OwnLabels` the ones the code names itself); `TriggerSpecs` are the triggers a schema admits.

### Store

`mem` and `sql` are the two backends, driven by the same call at the same
`instant`. Each operation has a `Mem` and an `Sql` operator, translated from its
own class, queries included (what is ordered, limited, grouped and filtered in
the database and what in Python). Calls do not overlap here. `sql` keeps its
keyed tables as sets of rows and its logs as sequences, `mem` keeps dicts as
functions and lists as sequences; a page of recent rows is the set of the last rows that
qualify, each with its place in the order (`Ranked`, `Latest`). A monitor run has its
`ran`, when it began, by which memory orders the feed, and its `at`, when it was
inserted, by which the table does; runs overlap, so `RecordRun` may record an earlier
beginning later. Likewise memory lists monitors by the creation time in the row and
the table by its own column (`Added`), and a monitor without a time is due first in
memory and last in Postgres. Embeddings are a distance, money is integral, an
average is the pair of its terms. `LedgerAssumption` says that a row has no
columns but those listed.

### Eval

A runner is a process that runs `jim-eval`. `StartRun` picks the suites and
`JudgeCalibrate` the judge's; `FinishRun` and `FinishJudge` bring the results and
the id (`NewRunId` looks at what is there); `SaveRun` writes the file, whether or not
there is one of that name by now, and then compares it with the baseline.
`BaselineSet`, `BaselineClear` and `Compare` are the other commands that decide
something. `amid` is history: for each file, the runners that had picked an id when
it was written, and have not saved since.
Rates are in ten-thousandths, scores in hundredths.

### Serving

`env` is the environment the operator edits; a `process` keeps the settings it read
at its start (`get_settings` is cached), its pin and its override. `BuildApp` pins
and `BuildMcp` does not, `SetAuthMode` is the override, `Sell` and `RunUnpaid` are
runs for a buyer and for the operator, `Preflight` is the mainnet checklist, whose
ready settings go into `approved`. The sale of a cached memo, which needs no
credential, is left out.

## What is checked

| Run | Question | Bounds |
|---|---|---|
| `MCServices` | the small modules, below | below |
| `MCUpdate` | `NoteIsSourced` **fails** | 1 monitor, 4 snapshots of a share near 12 dollars, no key |
| `MCMonitorFleet` | `SuppressionIsBacked` with a scheduler, a manual run, edits and a crash on one row | 1 monitor, clock to 1, delivery fails |
| `MCMonitorFleetSolo` | `CooldownRespected`, `BaselineKept`, `CadenceKept`, `CrossingsPublished` for one driver, all gather outcomes | clock to 7, interval 2, cooldown 5, 1 crash |
| `MCMonitorFleetCrew` | `OthersAreServed`, `ParkedIsSilent` with a monitor that raises anything | 2 monitors, semaphore of 1, clock to 2, 1 crash |
| `MCMonitorFleetHotLoop` | `DueIsServed` **fails** | 1 monitor, a channel that raises |
| `MCProcurement` | `CommittedWithinCeiling` against sellers that reprice; `RebuyNeedsOverlap`: a cached datum is paid for only by a run that was buying it already; `DistrustedUnpaid`: a peer below the floor only by a run that had looked before, or could not | 2 concurrent runs, a primary and a peer, ceiling 3, prices 0 and 2, 1 retry, unlisted exceptions, a store that fails |
| `MCProcurementCalm` | `BooksBalance`, `OutlayBounded`, `PeersNeverFatal`, `GatherEnds` | 2 runs one after the other, sellers that settle what they advertise, nothing raised that `CompositeSource` does not list |
| `MCProcurementCeiling` | `PaidWithinCeiling` **fails** | 1 run, 2 retries, lost answers |
| `MCProcurementSlow` | `PeersNeverFatal` **fails** | 2 runs, a peer slower than the wall clock |
| `MCResearch` | `ShippedIsSourced`, `ShippedIsJudged`, `BilledIsBooked` | 3 requests (2 paid), 2 at a time, 2 versions, 2 attempts, 1 crash |
| `MCResearchLedger` | `LedgerShowsTheLoss` **fails** | 1 paid request whose data costs 1 |

`MCServices` by part (235,382 states together):

| Part | Question | Bounds |
|---|---|---|
| breaker | `TypeOK`, `StampMatchesCount`, `StrayBound`; refinement `ImplementsCircuitBreaker`; `CallTerminates`, `Recovery` | 3 calls, 2 retries, threshold 3, cooldown 2 ticks, counter saturated at 4 |
| chain | `NoPaymentLoop`: no jim is paid for what its own money set off through jims; `DepthBounded` | 3 jims and a foreign agent that strips the header, 3 requests, depth 2 |
| hooks | `AcceptedOnce` | 2 deliveries, tolerance 2, skew 0 or 1, clock to 6 |
| crew | `QuietPollIsQuiet`: nothing changed, nothing said (zero thresholds aside); `CrossesAlternate`; `EverySignalIsHeard`: published now or less than a cooldown ago | 5 snapshots with ties and missing averages, 4 requests, cooldown of 1 hour |
| sourcing | `FiguresTraceToSeller`; `BlameIsJust`: whoever's rows a failing segment cites is debited, and nobody else | a primary and 2 peers, memos of at most 2 segments |
| store | `BackendsAgree`: every read of the interface, after every call; the same rows, and the same order where the calls came in the order of what they record | 3 calls in any order, times to live that expire |
| eval | `PromotedRunStands`: the promoted document is replaced only by a run that had picked the same id when it was written; `FloorMetIffAttainable` | 2 runners, 2 saved runs, 1 second, judge scores with ties and flips |
| serving | `PinHolds`, `ReadyMeansSettles` | 1 process, 5 settings (testnet, and mainnet with whole, half and no credentials) |

Each large module's `TypeOK` is checked in one of its runs.

Why the bounds are enough for the cases to happen:

* Three calls with threshold 3 let one call's failure, another's answer and a
  third's probe cross; a saturated counter keeps the only comparison the code
  makes (`>= threshold`). The cooldown of 2 ticks separates "just stamped" from
  "cooling" and "elapsed".
* In `MCMonitorFleetSolo` the cooldown is longer than two intervals, so quiet
  runs and error runs fall inside it, and the clock runs past its end.
  In `MCMonitorFleet` the hazard is the copy of a row, which one monitor shows;
  a clock to 1 is two distinct stamps.
* A ceiling of 3 with a price of 2 lets a second purchase exceed what the first
  left. Two sources are the fewest with a primary and a peer. Two runs at once are
  the fewest in which one changes the cache or the ledger between another's look and
  its payment: TLC reaches both a second payment for a cached datum and one to a peer
  below the floor, with and without a failing store. The "calm" run leaves out what
  breaks its properties (the wall clock, `MCProcurementSlow`, and likewise any other
  exception that is not listed) or makes them meaningless (a seller that reprices),
  and takes the runs one after the other because its properties are about each run.
* In `Research`, a mixed row needs two writers and a reader: three requests, two
  of them overlapping. Two versions are far apart for the fingerprint and the
  gate; `Fingerprint` and `Covers` are arbitrary in the proofs.
* A loop through one other jim needs 2 requests, through two 3, and a foreign agent
  in between is the case that the header does not cover; depth 2 is reached by
  the third request. `CallChain`, `Webhooks` and `Serving` are proved as well.
* A tolerance of 2 with a skew of 1 and a clock to 6 lets a copy be inside, at the
  edge of and outside the window on either side, and a nonce be forgotten.
* The crew's snapshots have the price before and after a move, averages that tie
  and averages that are missing; a cooldown of one hour is long enough to silence
  and short enough to end. Reads of the store differ after at most two writes and
  an expiry: three calls.

`CHECK_DEADLOCK FALSE` is set where every run is executed once and the system
then rests: a chain whose requests are all answered, deliveries past the last
instant, a memo that has its verdict, a store after its last call. The bounds in
the guards are `FailureCap`, `MaxNow`, `MaxCrashes`, `MaxActive`, `Calls`, `MaxTime`,
`MaxSegments`, `MaxCalls`, `MaxCommands` and `MaxClock`.

### Fairness

* `Breaker!Fairness` (the other parts of `MCServices` have safety properties only): `asyncio.timeout` ends every dial and asyncio wakes every
  sleeper (weak fairness of the end of each dial and of `Redial`), and time
  passes. No caller has to call, and cancellation is never forced. `Recovery`
  states the rest as its hypotheses: the host stays up, cancellations stop, and
  while the breaker is not closed calls keep being in flight.
* `MonitorFleet!FairSpec`: `run_forever` polls for ever, every await of a run
  returns (client timeouts and `resilient_call`), and `asyncio.Semaphore` is
  first come, first served. The clock need not advance, crashes are bounded.
* `Procurement!FairSpec`: every await of a run returns. Runs need not begin.

## What the runs that fail show

Each is a sentence of the repository that the code does not keep.

* `DueIsServed`: "a failing channel is logged and skipped - it never breaks the
  monitor run" (`monitors/notify.py:22`). `WebhookChannel.deliver` catches
  `httpx.HTTPError`; a spec that is no URL raises `httpx.InvalidURL`, which ends
  the run before it is rescheduled. The monitor is run again at every poll.
* `PaidWithinCeiling`: the budget "holds a hard ceiling on data spend per query"
  (`research/budget.py:5`). A retry of a paying request whose answer was lost pays
  again, and only the last payment is committed. What does hold, and is proved, is
  `OutlayBounded`: real outlay exceeds the ceiling by the lost payments at most.
* `PeersNeverFatal`: a slow peer is "skipped with a note, never fatal"
  (`sources/peer.py:265`). The wall clock of `resilient_call` raises the builtin
  `TimeoutError`, which `CompositeSource` does not list. Nor does it list what a 402
  header without `accepts`, a failure of the payment library, JSON of another shape
  or a failing store raise; the run shows the first of them.
* `LedgerShowsTheLoss`: "Rejected/errored runs ... the margin ledger must show the
  loss" (`research/engine.py:309`). Error runs are not booked, and the exception
  replaces the state that held what the data cost. The same property also fails
  on sales that are booked and then refused.

* `NoteIsSourced`: the fallback note is built "straight from the cited facts behind
  each signal, so it passes the sourcing gate *by construction*"
  (`monitors/update.py:11`). Dollars below a million are rendered whole
  (`research/facts.py:159`) and the gate matches within 2 % or 0.05: 12.40 becomes
  "$12", which is rejected, and the note is delivered with `gate_passed` false.

## What is proved

For all values of the constants, from the `ASSUME`s of the modules (which TLC
evaluates in the passing runs). Every invariant a run checks is stated by a theorem; the
hypotheses some of them need are named below.

* **Breaker** (`ServicesProofs`): `TypeCorrect`, `StampMatchesCountAlways`,
  `StrayBoundAlways`, and `Refinement`: `Spec => ImplementsCircuitBreaker`.
  `StrayBound` is not inductive: nothing in it says that a call which has used its
  retries will not dial again. `StrayBudget` bounds the stray dials of a call in
  flight by its attempt number, and `BackoffHasAttempt` says a call in backoff has
  an attempt left. The refinement needs `StampMatchesCount`: a failure in
  half-open reopens the breaker only because the count is still at the threshold.
* **MonitorFleet** (`MonitorFleetProofs`): `TypeCorrect` and
  `SuppressionIsBackedAlways`. The invariant extends from the table to every copy:
  rows an edit has read (`EditsBacked`), and the copies of running jobs, whose
  stamps are in the feed or will be recorded before that copy is saved
  (`JobsBacked`). It holds because the code records the run before it saves the
  row; a run that is saved without its record is a mutant that TLC refutes.
* **MonitorFleet with one driver** (the same module): `BaselineKeptSolo`,
  `CadenceKeptSolo`, `CrossingsPublishedSolo`, `CooldownRespectedSolo`, for one scheduler,
  no manual run and no edit, and, for the last, channels that report a failure
  instead of raising. Two writers of a row can break them, which is why they are
  stated so. `SoloInv` says what a job's copy is at each stage in terms of the
  row it will replace (`Agrees`; once rolled forward, `Rolled`: rescheduled one
  interval on, the baseline not given up, and what the new baseline crosses
  published or cooling down); `AlertInv` adds that every push a channel took is
  covered by a stamp, in the copy or in the row (`Hears`, `Covers`).
* **A parked monitor** (the same module): `ParkedIsSilentSolo`, an action property,
  for one driver and no partial snapshot. A partial snapshot makes the baseline
  "missing", and the line fires again; `MCMonitorFleetCrew` leaves it out for that
  reason. `ParkInv` says that, until a crash, a monitor that stands past a line it has
  alerted has that side as its baseline: in the row, or in the copy about to replace
  it (`Parked`). It needs that a run rolls its baseline onto the line of every key it
  publishes (`OnTheLine`).
* **Procurement** (`ProcurementProofs`): `TypeCorrect`,
  `CommittedWithinCeilingAlways`, `BooksBalanceAlways`, `OutlayBoundedAlways`. The
  strengthening is that a paying request's quote fits the remaining budget
  (`QuoteFits`; only the run itself spends from its cap) and that a charge exists
  only during the request it belongs to (`ChargesAreHonest`).
  `PeersNeverFatalGently` needs that nothing raises what the code does not list
  (`Gentle`: no wall clock, no unlisted exception, no failing store, no JSON of another
  shape); refusals, garbage, low scores, open circuits and failing transports remain.
  `RebuyNeedsOverlapAlways` and `DistrustedUnpaidAlways` hold for any number of runs at
  once and any failures. Neither is inductive, since what a run has read is used several
  steps later: `StaleInv` says of every run on its way to a payment that, if the cache
  now holds the datum or the peer is below the floor, the run is noted as one that
  looked before, or could not look (`Heeds`). A run leaves that stretch at every end of
  an attempt but a retry (`Settled`), and a verdict or a record changes what the others
  rely on only by noting all of them (`LedgerStep`, `StaleStep`).
* **Research** (`ResearchProofs`): `TypeCorrect`, `ShippedIsSourcedAlways`,
  `ShippedIsJudgedAlways`, `BilledIsBookedAlways`. `Sound` says what the locals of a
  run know at each stage; `CacheIsJudged` and `FoundStays` carry the judge's verdict
  through the memo cache, mixed rows included; `BookedFirst` and `Captured` order
  ledger, capture and crash. That sourcing survives mixed rows is due to the second
  gate check of `_memo_cache` alone: nothing in the invariant says that the
  fingerprint and the memo of a row belong together.
* **CallChain** (`ServicesProofs`): `NoPaymentLoopAlways`, `DepthBoundedAlways`, for any
  agents, requests and forged headers. Neither is inductive: `ChainInv` adds that the
  header of every request still names the whole `trail` (`HeaderCovers`), which a
  jim preserves by appending only, and that whatever is being served was checked
  (`ServedIsChecked`).
* **Webhooks** (`ServicesProofs`): `AcceptedOnceAlways`. `HookInv` adds that a delivery
  that was accepted is still remembered, or none of its copies can pass the
  window any more.
* **Serving** (`ServicesProofs`): `PinHoldsAlways` and `ReadyMeansSettlesAlways`, from
  `SellersArePinned`, `PinnedUsesKey` and `ApprovedIsReady`.
* **Sourcing** (`GateProofs`): `FiguresTraceToSellerAlways` and `BlameIsJustAlways`, for any
  sellers, rows and memos. `SourcingInv` is that every fact is, under its number, a
  row its origin supplied (`FactsAreTraced`), that the origins name for every id the one
  source whose rows entered under it (`OriginsAreTrue`), that a peer debited for garbage
  has no row in the snapshot (`GarbledIsOut`), and that a verdict is the gate's over the
  memo and facts as they stand (`VerdictStands`). A merge keeps the first because the ids it
  assigns are above all ids present (`NextIdIsNew`), so no origin is overwritten.
* **Eval** (`GateProofs`): `PromotedRunStandsAlways` and `FloorMetIffAttainableAlways`. The first
  rests on `NewRunIdIsNew`: the loop of `new_run_id` ends on a free name, by the
  pigeonhole principle, so a run whose id has a file by the time it saves must have
  picked it before that file was written (`BaselineIsKept`). The second on what a choice by rank returns from a finite pool
  of rows (`BestOfPool`): a row that meets the floor beats every row that does not.
* **Crew** (`CrewProofs`): `QuietPollIsQuietAlways`, `CrossesAlternateAlways`,
  `EverySignalIsHeardAlways`, for any labels, readings and requests. `EvaluateSays` says what each
  trigger kind can raise over one pair of snapshots. `CrewInv` adds that a row that was
  tuned by the clamps holds no threshold of zero and that the stamps of a row are the
  history of what was heard (`RowKept`), and that the last cross raised led to the side on which the
  baseline has the averages, with the crew that raised it still there
  (`CrossesFollow`).
* **Store** (`StoreProofs`): `BackendsAgreeAlways`, for any rows, texts and times to live and
  any number of calls. The same rows always, the same order under the premises that `BackendsAgree` names. `StoreInv` relates the stores table by table: a dict holds
  the latest purchase of each key (`BoughtAlike`), each log is the other's through its
  columns (`QueriesAlike`, `ReceiptsAlike`, `RunsAlike`), each keyed table has one row
  per entry of its dict (`InsightsAlike`, `MemosAlike`, `WatchesAlike`). Then each read is shown
  to depend on no more than that (`AlikeAgree`).

The library's induction theorems take an operator as a parameter, which the provers
cannot instantiate. `DataLemmas` derives induction as a fact about sets of numbers
(`NatSets`) from the well-foundedness of < on Nat; that a fold over a sequence
exists, has a value, and that a finite set has a greatest element start there.

Only model-checked: every liveness property (fairness and `ENABLED` are outside
the prover: `OthersAreServed`, `GatherEnds`, `CallTerminates`, `Recovery`). What is
proved under a hypothesis (one driver, no raising channel, no partial snapshot, gentle
sellers) is checked under the same one, by the values a
cfg gives. The violated properties are counterexamples on finite instances and need
no more.

## Seen while modelling, without a run

* The half-open breaker lets every caller through, not one probe
  (`net/resilience.py:124`). `CircuitBreaker` promises no single probe.
* A monitor deleted during its run is inserted again by `save_monitor`, and an
  enable or disable that overlaps a run can be overwritten by it.
* A manual run beside a scheduler tick can push one alert twice: `CooldownRespected`
  is checked for one driver.
* After a poll without the metric the level baseline is gone, and a value that
  still stands past its line fires again: TLC refutes `ParkedIsSilent` when "partial"
  is among the outcomes of a gather. It is checked, and proved, without.
* Two runs that miss the purchase cache together both buy, so a datum is bought
  twice inside its time to live, though `config.py` means the cache to "re-buy a datum
  at most once/day". `RebuyNeedsOverlap` says that nobody else does.
* A peer below the trust floor can still be paid: by a run that read the score before
  other runs took it down, and whenever the ledger cannot be read.
* `_decode_advertised_price` (`buyer/client.py:80`) catches three classes: a header
  whose `accepts` is null raises `TypeError`, and fails the whole run from any peer. So
  does a failure of `get_cached_purchase` or `record_purchase`, the latter after the
  money moved.
* Bought garbage of a peer is committed to the budget but is not in the
  `cost_in_usd` the ledger books.
* A query is booked at full price before its payment settles. A failed settlement,
  an `IntegrityError` of two first upserts, and every preview leave revenue that
  nobody paid.
* The memo key ignores `high_stakes` and the debate switch: a high-stakes request
  can be served a memo the ordinary judge passed.
* The fingerprint rounds to four decimals and the gate matches within 2 % or 0.05,
  so a move of a very low price is seen by neither.
* `/research/macro` is missing from the audit's path table (`seller/audit.py`): its
  receipts carry no product.

* jim cannot buy from its own seller: the buyer sends its own address and the seller
  answers 409 as for a loop (`buyer/client.py:137`, `interop/callchain.py:75`), though
  `marketplace/ui.py:8`, `sources/thegraph.py:6` and `vendor/mock_peer.py:10` describe
  such a purchase.
* `jim-mcp` sells paid output without pinning the key mode and without the
  middleware of the call chain; `PinHolds` leaves its role out. The pin of
  `jim-monitor serve` guards nothing, since `monitors/update.py:123` and
  `monitors/nl.py:243` build their client from the key.
* The preflight says READY without an Anthropic key. With `GRAPH_LIVE` off on mainnet
  the token product buys from the mock vendor.
* `jim-eval run --suite live` always exits with 1: without an offline case
  `all_offline_passed` is False (`eval/runner.py:411`), and the default at
  `eval/cli.py:169` is never taken. A comparison ignores cases and suites missing
  from the candidate. Two runs of one commit started in the same second can pick one id
  (`eval/storage.py:58`) and the second to save replaces the first, also when it has
  been promoted meanwhile (`:69`); an id ending in ".10" sorts before ".2".
* The upserts of `SqlStore` select, then insert: two first writes at once raise an
  `IntegrityError`. "The engine and the dashboard are identical regardless of backend"
  (`store/repo.py:8`) does not hold of three orders: the feed is by `ran_at` in memory
  (`:306`) and by the time of the insert in Postgres (`:669`), so that under its limit
  even the rows differ; monitors are listed by the row's creation time or by the
  column's; those never scheduled are due first in memory and last in Postgres
  (`:295`, `:636`). TLC refutes `BackendsAgree` without the premises under which it
  compares those orders.
* `monitors/diff.py:65` says the engine produces no duplicate labels;
  `CompositeSource` does, and a peer that is skipped then changes the value that is
  watched.
* `monitors/nl.py:7` says thresholds are clamped. Neither the absolute one is nor
  the percentages the keyword parser reads out of a description (`:97`, `:112`, `:158`),
  and `--watch price:0` is not checked: each fires at every poll. `QuietPollIsQuiet`
  leaves them out. The key of `price_move` in the cooldown ignores direction and
  severity, so a critical fall is silenced by a small rise.
* The gate's absolute tolerance accepts any figure near zero for a fact below
  0.05.
* `verify_delivery` accepts timestamps from the future within the tolerance: nonces
  must be kept for twice the tolerance. `deliver` may report failure though the
  subscriber has accepted.
* `marketplace/pricing.py` publishes agent and bundle tiers; the routes charge the
  base price.

## Not modelled

* Cryptography and encodings: x402 signatures, attestations, HMACs (a signature is
  what it binds), wallet keys, base64 headers.
* HTTP fetching and parsing of free sources; their failures are outcomes.
* Text: the expressions that find figures and citations in prose, `impersonal.py`,
  prompts, the wording of notes, memos and monitor descriptions.
* The datasets and scenarios of `eval/`, which are data, and its HTML view.
* Catalog, manifests, system map, pages and dashboards: renderings of settings and
  of the store, without state.
* The facilitator and the x402 middleware beyond "a 2xx is settled or is not
  delivered". A seller that settles and withholds its receipt is outside
  `Procurement`.
* The trust events of `Research` (they are in `Procurement`); their best-effort
  writing never fails a run.
* Mock vendors, tracing, dashboards, configuration, scripts: no state of their own
  to check.
* Overlapping runs of a monitor with several triggers: `MonitorFleet` overlaps
  runs with the threshold trigger, `Crew` has every trigger without overlap.

## What is left

* `Procurement` with the breaker of `Breaker` in place of a first dial that may find it
  open, and `Research` with the figures of `Sourcing` in place of `Covers`: the
  products are out of TLC's reach at bounds that show more than the parts do.
* Most of what the map does not cover is data, text and rendering, as listed
  above, and is better served by tests.
