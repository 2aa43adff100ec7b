# A TLA+ development of firstpass

Firstpass is a proxy between an agent and model providers. In *enforce* mode it
asks the cheapest model of a route's ladder first, lets gates judge the answer,
climbs until an answer clears, and keeps a hash-chained receipt of the decision.
In *observe* mode it relays bytes and only keeps the receipt. These modules state
what that program must do and check it: TLC on small instances, TLAPS for every
value of the constants. They are translated from `src/crates/firstpass-core` and
`src/crates/firstpass-proxy`; paths below are relative to `src/crates/`.

## 1. Inventory

| Part | State it keeps | Operations | What is hard |
|---|---|---|---|
| Trace store (`store.rs`, `offer_trace` in `proxy.rs`) | bounded channel, spill file, table `traces`, the writer's chain head | offer, spill, receive, insert, drain, truncate, start, stop | request tasks against a writer thread; crashes between insert and truncate; failing writes |
| Hash chain (`hashchain.rs`, `trace.rs`) | `prev_hash` of each row | seal, verify | one chain over all restarts |
| Router (`router.rs`, `condense.rs`) | one run: attempts, spend, best answer, speculative tasks | call, grade, climb, stop, condense, harvest, serve | calls ending in any order, partial failure, budget boundaries |
| Gates (`gate.rs`, `judge.rs`, `consistency.rs`, `decision.rs`) | error budget per tenant and gate | evaluate, record, disable | budgets shared by concurrent requests |
| Subprocess gate (`subprocess.rs`) | child process and its pipes | spawn, write, collect, time out, kill | full pipes, timeouts, exit races, abandoned requests |
| Enforce pipeline (`proxy.rs`) | none of its own; it orders all the others | arm, start rung, cache, route, learn, offer | state read before an await and written after it; clients that leave |
| Verified cache (`verified_cache.rs`) | answers by tenant, prompt and ladder; an index by source in Redis | get, put, evict, retract | retraction against replay, several replicas |
| Session promotion (`affinity.rs`) | a pin per session | decide, record | concurrent turns of one session; a promotion must come down |
| Certified selection (`experiment.rs`, `select.rs`) | per replica: pending outcomes, applied ids, log offset, sticky status; shared log and claims | record outcome, record pair, sync, claim, restart | replicas, lost replies, order of evidence, restarts |
| Shadow and paired spend (`shadow.rs`) | spend per day and route | may_spend, debit | check and debit apart, several in flight |
| Guardrail (`guard.rs`, `guardrail.rs`) | window of outcomes, demotion deadline | record, is_demoted, reset | stale evidence around a demotion |
| Feedback and thresholds (`proxy.rs`, `eprocess.rs`, `conformal.rs`, `ltt.rs`) | thresholds, e-values, deferred verdicts | feedback | retried posts, a handler abandoned half way |
| Start-rung learning (`bandit.rs`, `predictor.rs`, `prior.rs`) | counts, weights | choose, observe | floating point; cannot change what is served |
| Observe path and streams (`proxy.rs`, `upstream.rs`) | usage parsed so far | relay, finish, drop | exactly one receipt however a stream ends |
| Tenancy (`tenant_auth.rs`, `key_custody.rs`) | keys, rate limiters | authenticate, seal | cryptography, no protocol |
| Rest (`cli.rs`, `run.rs`, `mcp.rs`, `onboard.rs`, `ope.rs`, dialects, benches) | none, or files read once | | I/O and translation |

Interactions: a request task runs the pipeline, which calls the router, which
awaits providers and gates and reads and writes the shared gate budgets; the task
then offers the receipt to the writer thread over the channel or the spill file.
Feedback posts find the receipt in the table and feed cache retraction,
thresholds, guardrail and experiment. Replicas share only Redis (cache, pins,
outcome log); everything else dies with the process but the table and the spill
file.

`PROJECT.json` lists every component with its status and the hazards of this
code line by line, with the properties that cover each.

## 2. What is modelled

### Trace store: `AuditChain`, `TraceStore`, `ReceiptLog`

`AuditChain` is `hashchain.rs` as operators; a hash is idealised as the history it
commits to, so two histories never collide. `TraceStore` has one action per step
of `offer_trace` (`OfferSent`, `OfferFull`, `OfferClosed`, `AppendToSpill`),
`writer_loop` (`LoadHead`, `Receive`, `FoundEmpty`, `FoundDisconnected`,
`FoundClosed`) and `drain_spill` (`EnterDrain`, `DrainLine`, `Truncate`), and the
process itself (`CloseSenders`, `Crash`, `CrashInAppend`, `Exit`, `Start`). `wpc` is
where the writer is; the spill mutex is "the writer is in a drain". Every fallible
write has a failing alternative, and a crash may come between the two writes of
`writeln!`, the line and its newline (`CrashInAppend`): `torn` says that the last line
of the file has no end, and the next line joins it (`WithLine`). A process runs in
durable or best-effort mode, which may change at a restart. `acc` and `cuts`, the
crashes inside an append, are history variables.

`ReceiptLog` is the promise alone: a log, what is owed to it, and what of that is
durable. A restart in the middle of an acceptance leaves a ragged end, and what is
accepted there next is forgotten with what was loose. `TraceStore` implements it
while no write fails (`KeepsPromise`), whatever crashes.

### Router: `GateHealth`, `Ladder`, `SerialLadder`, `SpeculativeLadder`

`Ladder` holds what `run_serial` and `run_speculative` share: the variables of a
`LadderRun`, one action per step (missing provider, call, failure, rejection, answer, each
gate, elastic classification, grading), the serve rule, the condensed retry of
`run_ladder` and the tail of `route_enforce`. A gate is read as enabled, awaited, and
recorded in separate steps, since other requests record outcomes of the same gates
meanwhile (`OtherRequest`); `skipped` is a history of those found out of budget. The
request may end at an await (`Abandon`): the client of a buffered one left, or the gate it
awaits panicked. How a request is routed (registered providers, start rung, `max_rungs`,
cap, threshold, elastic lambda, condensing) is the record `policy`, drawn from the
constant `Policies`. `SerialLadder` calls one rung at a time. `SpeculativeLadder` adds the
tasks running ahead, their landing in any order (after an abandoned run too, which
detaches them), and the harvest; `spent - wasted` is what the serial engine would have
spent, and under that mapping it implements `SerialLadder`.

### Subprocess gate: `SubprocessGate`

One evaluation: spawn, write, close stdin, collect, finish or time out, against a
program that reads, writes, stalls and exits as it likes over pipes of bounded
capacity. The timer covers only the collection, as in the code. A buffered request
may be dropped at an await. The panic of `truncate` inside a multi-byte character
is an outcome.

### Serving: `VerifiedCache`, `Guardrail`, `Serving`, `Relay`

The life of a request around the ladder, whose result is an input here
(`setup.outcomes`: where the answer came from and the last verdict). `req[r]` is a
request: where it is in its handler (`pc`), what was asked where, the decision it
replays (`source`), and how many receipts it offered. A request number is also its
trace id.

- *Admission* (`Arrive`): each of the four entry points has its own test for the
  observe path (`ObservedMessages`, `ObservedGemini`, `ObservedChat`,
  `ObservedResponses`), because they differ: the OpenAI ones ask neither guardrail
  nor rollout.
- *Enforce* (`enforce_pipeline_inner`): `Lookup`, `Replay`, `RouteEnforce`, `Probe`,
  `PutEntry`, `OfferDecision`, in that order. `ClientLeaves` drops a buffered handler at
  an await; a streamed decision runs in a task of its own and is not dropped.
  `GatePanics` ends either: a subprocess gate may panic (`SubprocessGate`), which takes
  the task with it where panics unwind (`unwinds`); a release build aborts instead
  (`panic = "abort"` in `Cargo.toml`), which is a `Crash`. After
  the ladder a handler awaits only what a deployment makes it await: a shared pin or
  a sampled probe (`probed`, the step `Probe`) and a shared cache.
- *Observe*: `Forward` for whole answers and `ForwardStream` for streams; `StreamEnds`
  and `TapDropped` are the two ends of an `SseTap`. `Relay` extends `Serving` with what
  goes through the tap: streams are lines, each with its length and what it states
  (token counts, the model, the end), and one step relays one byte or newline and
  feeds it to `parse_sse_chunk_into` (`Buffered`, `Newline`), so that every cut into
  chunks is covered. `Outcome` and `Told` are `stream_trace_callback` and
  `build_stream_trace_from_usage`: the verdict and the bill of the receipt.
- *Shadow*: `MaySpend` before the evaluation, `Debit` after it, with the time read
  before, as in `evaluate_shadow`. `ShadowPanics` is an evaluation whose gate panics: it
  cost what it cost and is debited nowhere. `upset` is a history of accounts that a late
  debit or a panic has falsified.
- *Feedback*: `TraceExists`, `Origin`, `Retract` (once per id), `AppendDeferred`,
  `Learn`, and a poster who leaves at any await. Posts repeat because several may
  name one request.
- *The rest*: the writer stores receipts, entries expire, time passes, a replica
  crashes with what it holds in memory and starts again.

`VerifiedCache` and `Guardrail` are the two data structures as operators: the cache a set
of entries, one per key, each with its place in the order of storing; the guardrail a
window of posts and a deadline, whose confidence bound is reduced to the number of
failures it tolerates (`Tolerated`; `Guardrail::validate` excludes zero failures
breaching). The shared store's put is a pipeline that may fail before the entry or between
entry and index, and its retraction deletes the index even when the deletion of the entry
failed. Replicas are taken to share the table of receipts (the feedback handler reads it).

### Session promotion: `Promotion`

Turns of one session that overlap: `Decide` (the pin is a floor under what the
bandit or a preset chose), `Route`, and `record_async` as the two steps it is,
`ReadPin` and `WritePin`, so that the last write wins. A shared store may lose either;
expiry is free; a buffered turn may be abandoned. `Settle` is the environment: from
then on the cheapest rung can answer. The counters saturate at their thresholds,
beyond which the code only compares them.

### Certified selection: `EProcess`, `Experiment`, `CanonicalLog`

`EProcess` is `select.rs`: the status as a function of the evidence in order, sticky
at the first pair that decides. One bet stands for the grid of 18; ties count half a
win for "no worse", as the margin makes them. `Experiment` is one route on several
replicas, live (sessions served by either arm, outcomes reported) or paired (a
detached task runs the challenger). A job is a request of the challenger's arm, a
feedback post or a paired evaluation, and its `pc` is the await it is at: `EnsureRead`
to `EnsureSynced` is `ensure_synced`, `Claim`, `AppendRecord`, `ReadBack`, `ApplyRead` are
`record_outcome` and `record_pair`, and `WriteRow`/`Count` or `WriteInLogRow` the row and
its evidence. The log offset is read in one step and applied in another (`upto`).
Every call to the log may fail, and an append or claim that failed may have happened.
`Restart` rebuilds a monitor and the paired ledger from the replica's own tables
(`Replayed`); each replica has its own. Each of the two reads them for itself and may
fail (`Rebuilt`): a monitor that could not is `blind` (`ExperimentMonitor::unavailable`)
and blocks the challenger until the next start; a ledger that could not starts empty
(`proxy.rs:329`), and the evaluations it left out are kept in a history variable, `unread`.
Whether a sync is within the staleness bound
is chosen at each request. A background read that fails changes only a cooldown and
is left out.

`CanonicalLog` is the promise: one order of evidence; a replica holds a beginning of
it. `Experiment` implements it while nothing fails (`AgreesWithLog`).

### How they fit

`Serving` asks for what `SerialLadder` or `SpeculativeLadder` find, hands receipts to
`TraceStore`, and leaves the choice of the start rung to `Promotion` and that of the
arm to `Experiment`; a gate of the ladder is `SubprocessGate`. They are checked apart,
each with the others as an environment that may do anything they may: any verdict
of a gate, any outcome of a ladder, a receipt lost or stored at any time, any rung
served from the start up.

## 3. Runs

| Run | Asks | Bounds |
|---|---|---|
| `Store` | chain, spill, order, promise and progress of the store | 4 traces, channel of 1, both modes, 1 restart, 1 failing write or crash inside an append |
| `Serial` | the climb, the answer served, the budget, condensing, termination | 3 rungs, 2 gates, 4 policies, 5 answers of a gate, 1 outcome from elsewhere |
| `Speculative` | refinement of the serial engine, tasks, termination | 3 rungs, 1 gate, 2 rungs ahead |
| `Gate` | verdicts, leftovers and termination of a subprocess gate | pipe of 2, payloads 0, 2, 4, 38 programs |
| `Promotion` | earned promotions, and that they come down | 2 overlapping turns, 3 rungs, thresholds of 2 |
| `Serving` | replays, retraction, receipts, demotion, shadow spend, streams | 8 deployments: up to 3 requests, 3 posts, 2 replicas, a cache of 2, a window of 2, 1 crash, streams of up to 3 lines over a line buffer of 2 |
| `Experiment` | counting, durability, spend, agreement, halts | 7 deployments: 2 replicas or 1, up to 4 jobs, 2 failures and 2 restarts |
| `ServedScore` | feedback reads back the served attempt (`proxy.rs:1218`): violated | as `Serial` |
| `GateHangs` | the timeout always ends a gate (`subprocess.rs:10`): violated | as `Gate` |
| `ServingDialects` | a demoted route takes the observe path (`guard.rs:52`): violated | 2 requests, 2 posts, the OpenAI entry points |
| `ServingAttribution` | an outcome counts for the route it is about (`proxy.rs:2604`): violated | 2 requests, 3 posts, a second route with a cache |
| `ExperimentHalt` | who has synced does not serve a halted challenger (`proxy.rs:2705`): violated | 1 replica, 1 restart, 3 sessions |

Why the bounds are enough. Store: with four traces and a channel of one, one can fill the
channel, one be cut short in its append, one be acknowledged behind it and glued to it,
and one wake the writer that drains them; or two be in the file in order behind one the
writer took. The restart comes at any step and may change the mode; `MaxFaults` bounds
failing operations and crashes inside an append together. Router: three rungs give a
first, a middle and a last one; two gates give a failing and an abstaining one, one of
them behind a budget window of two; scores 0 to 2 give the floor, the threshold and the
middle, and need not agree with the verdicts (a gate may pass an answer it scores 0, and a
failing one may reach a lambda of 1). The policies of each run are chosen so that each
branch is taken (a cap reached by the second rung, a missing provider in the middle, a
start above rung 0, a `max_rungs` beyond and below what is left). Gate: payloads below, at
and above the capacity of a pipe, and programs that write more than it holds. Promotion:
three rungs let a pin rise twice and a probe come half way down; two slots give every
overwriting of one `record_async` by another. Serving: each deployment in `MCServing` is
one hazard and is as large as that takes: three answers for a cache of two (full store,
eviction), a report on a replay with one store per replica, shared, and failing; three
posts for a window of two, so that outcomes outlive a demotion; three shadowed requests
for a ceiling of two across midnight; every way to be observed with a crash; every stream
of up to three lines out of six, one of them longer than the buffer, so that a line is
given up before, between and after lines that count. Experiment: a log-wealth of 2 is one
clear pair or two ties, so one to two pairs decide; two replicas append and read in every
order; two restarts and two failures let one start lose the ledger, the monitor or both,
and the next recover.

Deadlock checking is off for the store, which may stop for good, and for `Serving`
and `Experiment`, whose bounded traffic runs out.

Fairness. Store: the writer has a blocking thread of its own, and a task that got `Full`
runs on to its append; nothing is assumed of arrivals, crashes or shutdown. Router: a
request is one task that goes on as long as what it awaits ends; provider calls have a
connect timeout of 10 s and a total one of 600 s (`provider.rs`), speculative tasks are
polled by the runtime, gates have timeouts. That last is exact only under `EndsIfHeeded`:
a subprocess gate whose program ignores a payload larger than a pipe never ends
(`GateHangs`). Subprocess gate: the task is polled, the clock runs, a program takes a step
it can take. Promotion: turns keep coming and each runs on, as the router's do; expiry is
not assumed. Serving: a decision nothing has dropped and a detached task run on, to their
end or to a gate's panic. Experiment: the interval timer ticks (`start_sync_task`). No
client is assumed to leave, and none to stay.

### Properties, by what would break them

- *Chain over time* (`ChainVerifies`): the head is memory, the rows are disk; a crash,
  a failed insert or a replay could link to a hash that is not the last row's.
- *Spill* (`SpillNeverLost`, `DuplicatesOnlyByReplay`, `SameWayInOrder`,
  `SentAccountedFor`, `SpillDrainedByAwakeWriter`): acknowledged lines survive but for
  one for each failed write or append cut short, rows repeat only by replay, each way
  in is FIFO.
- *Climb* (`ClimbsInOrder`, `ServesTheRightAnswer`, `ServedPastNoGate`): what is
  served, from any mixture of failures, rejections, abstains and disabled gates.
- *Money* (`BudgetStopsTheClimb`, `CondensingCarriesNoSpend`, `InFlightInWindow`,
  `ShadowStopsAtCeiling`, `SpendCountedOnce`): checks before, debits after.
- *Condensing* (`CondensedAfterOverflow`), *termination* (`Terminates`).
- *Speculation changes nothing but waste* (`ImplementsSerial`, which carries over what
  `Serial` shows of the climb and the cap).
- *Gate* (`VerdictIsTheChilds`, `JudgesTheWholeCandidate`, `NoChildLeft`,
  `EndsIfHeeded`).
- *Promotion* (`PinIsEarned`, `StaysDown`): overwritten pins neither promote further
  than the session climbed nor keep it up for ever.
- *Replays* (`ReplayIsProven`, `DisprovenStaysOut`): only what was served on a pass is
  replayed, and a reported failure removes it, whichever decision it names.
- *Receipts of requests* (`OneReceipt`, `StreamedIsRecorded`): however a stream or its
  client ends. *What they say* (`ReceiptTellsTheStream`): figures are restated, lines are
  cut and given up, and the tap is told the end in one of three ways; the receipt
  bills the last figures that went through and passes only what was delivered.
- *Demotion* (`DemotedOnNewEvidence`): no report takes part in two demotions, so a route
  is demoted again only by reports that came in since. A post that is sent again is another
  report, for the code as for the property.
- *Evidence* (`CountedOnce`, `EvidenceIsDurable`, `AgreesWithLog`): lost replies, retries
  and restarts neither repeat nor invent it, and replicas that read one log agree.
- *Halt* (`HaltHolds`, `HaltReachesAll`).

Each has a mutant in `PROJECT.json`: an operator next to the one it replaces, a
plausible bug under which the run fails.

## 4. Proofs

Eight modules, each over any values of the constants that satisfy the assumptions
the models name (`CapAssumption`, `ModeAssumption`, `PromotionAssumption`, ...).

`TraceStoreProofs`, for any number of traces, capacity, restarts and faults:

- `ChainInvariant`: `Spec => []ChainInv`, where `ChainInv` is `TypeOK`,
  `ChainVerifies`, `HeadIsCurrent` (whenever the writer may insert, its head is the
  hash of the last row), `DrainHasLines` (a drain has a line to take) and
  `RestartLeft` (a process that is down may be started). `ChainVerifies` alone is not
  inductive: an insert keeps it only if the head is current, and the head is current
  again after a restart only because it is loaded before anything is inserted.
- `TypeCorrect` and `ChainAlwaysVerifies` follow.
- `SpillSurvives`: `Spec => []SpillNeverLost`, whatever fails. The count of the lost is
  not inductive: a line is lost only at the truncation, long after the failure. `Doomed`
  are the acknowledged traces that are lost or that the drain under way will lose, and
  `FewDoomed` charges each of them, and a torn line, which dooms the next, to a failure or
  a cut: tearing a line and failing an insert pay for one more, and gluing a line
  passes the charge from the tear to the trace. `TornTail` and `DrainReads` say where a
  torn line and the lines of a drain are.
- `SentSurvives`: `Spec => []SentAccountedFor`, from `SentInv`: besides the property,
  `LeavesNothing` says that a writer that has returned, or is in the drain after which
  it returns, left an empty channel and (in that drain) no sender to fill it.
- `PromiseAlwaysKept`: `Spec => KeepsPromise`, the refinement of `ReceiptLog`. Under
  `faults = 0 => PromiseInv`, which adds to the above that what is owed is what
  requests were told (`Tracked`: in the channel means sent, in the file means spilled or
  cut short, nothing twice in either) and that a drain takes every line (`DrainCovers`),
  `OfferSent` maps to `AcceptReceipt`, `AppendToSpill` to that or, behind a torn line, to
  `AcceptAtRaggedEnd`, `CrashInAppend` to `ForgetMidway`, `Receive` and `DrainLine` to
  `Record`, `Truncate` to `Settle`, `Crash` and `Exit` to `ForgetVolatile`, and every other
  step to a stutter.
- `OnlyReplayDuplicates`: `Spec => []DuplicatesOnlyByReplay`, whatever fails. That a trace
  has two rows says nothing of how it came to the second, so `RowsInv` follows a receipt
  before it is a row. `RowsKnown`: one in the channel is there once, was sent and has no
  row; a line of the file, or of a drain, is of a request that was told spilled or
  dropped, or cut short by a crash; only such a trace may have two rows. `FirstLife`:
  before the first restart and fault no line is there twice, and one that is still to be
  drained, or waits for a drain, has no row.
- `SameWayAlwaysInOrder`: `Spec => []SameWayInOrder`, from `faults = 0 => OrderInv`. The
  channel and the file keep the order of acceptance (`InOrder`); of two receipts that came
  the same way, the later has no row while the earlier waits in the channel
  (`ChannelCatchesUp`), and none before the earlier has one from the file
  (`SpillCatchesUp`); and a drain is at a position of the file up to which every line is
  stored (`DrainPosition`). Glued lines are in neither order. A replay after a restart
  writes rows of old traces again, behind newer ones: the order is that of first rows, and
  a second row is never the first (`WriteFirst`).

`LadderProofs`, about `SerialLadder` with ladders of any length, any gates, policies,
costs and any outcomes of other requests: `LadderInv` says that attempts are the
rungs from the start up to the current one (`InOrderSoFar`), `best` the last of them
that was graded (`BestSoFar`), that an outcome is settled by one of the three tails
of `route_enforce` (`OutcomeSettled`), that spending at the cap ends the climb
(`WithinBudget`), and that a condensed run has the whole window of the first one
behind it (`WindowVisited`). It gives `ClimbsInOrderAlways`, `ServesTheRightAnswerAlways`,
`BudgetAlwaysStopsTheClimb` and `CondensedOnlyAfterOverflow`. None of them is
inductive: what is served is compared with all attempts, so every step has to keep
`best` and the order of attempts in step.

`TypesAlways` and `ServedPastNoGateAlways` rest on a second invariant, `GateInv`, which
follows an answer from gate to gate (`Accounted`: a gate is still to be asked, has
answered, was found disabled when its turn came, or was cut off by elastic
verification) and holds what let an answer through at lambda until it is graded
(`LetThrough`). Nothing is assumed of scores and verdicts agreeing.

`SpeculativeProofs`, for any number of rungs ahead and any order in which their calls
land: `SpeculativeImplementsSerial` is the refinement, step by step. Beginning a rung
(with the calls ahead it fires), taking its answer, gates, grading, settling and
condensing are the serial engine's steps of the same name; a call that lands and the
harvest after the loop are stutters, since both `spent` and `wasted` grow. `SpecInv`
says what the mapping needs: every task is for a rung of the window that is not
attempted yet (`TasksInWindow`), waste is billed only after a loop that stopped short of
its window (`WasteIsLate`), so that the cap is judged on the same money, and a run that
graded nothing has paid for nothing but waste (`Money`), so that a condensed retry carries
nothing over. `Climb` is
`LadderProofs` instantiated by the mapping, which carries its theorems over:
`SpeculativeClimbsInOrder`, `SpeculativeServesTheRightAnswer`,
`SpeculativeBudgetStopsTheClimb`, `SpeculativeCondensesAfterOverflow`.
`InFlightStaysInWindow` and `CondensingNeverCarriesSpend` are of this engine alone. An
abandoned run keeps its tasks, which land as before, and is an abandoned climb.

`PromotionProofs`, for any number of overlapping turns: `PinInv` strengthens
`PinIsEarned` to the pins that turns in flight have read, since a stale one is
written back later. The rung a turn starts at may exceed what was earned (a
preset chooses it), so the proof rests on a rung being recorded only when the turn
climbed to it or the pin it read was above it.

`SubprocessGateProofs`, for any capacity, payloads and programs: `GateInv` says that
what the child took, what is in the pipe and what is left make up the payload
(`NothingLost`), that stdin is closed only when nothing is left (`ClosedOnAll`) and
that a verdict once given comes from an exited child (`VerdictIsFinal`).

`ServingProofs`, for any deployment, number of requests, posts, replicas and crashes,
and any limits, ceilings and lengths of a day (no request is called `None`), by five
inductive invariants that rest on `ReplayInv`:

- `ReplayInv` gives `OneReceiptAlways` and `ReplayAlwaysProven`. `Shaped` and `Once` tie
  how often a request has offered its receipt to where it is and to what became of
  the receipt. `Settled` decisions never change (`SettledStays`), and a store grows only
  by the answer of a request that is at its put, so `Backed` holds: every entry, and
  every replay, rests on a settled pass for the same key. Neither property is
  inductive: a replay copies what the entry says, long after the decision was made.
- `RetractInv` gives `DisprovenAlwaysStaysOut`. That an entry is absent must hold against
  puts still to come, so it says that what a post names has been stored (`Checked`:
  such a decision puts nothing any more), that while a post is between reading the
  origin and retracting the second id the first is already out (`Retracting`,
  `Disproved`), and that a shared index leads to every entry.
- `GuardInv` gives `AlwaysDemotedOnNewEvidence`: a report is in one window at most, and
  in none after it took part in a demotion.
- `ShadowInv` gives `ShadowAlwaysStopsAtCeiling`: an account that nothing has upset holds
  what was spent on its day, and nothing was spent on a later one (`Balanced`). It needs
  the arithmetic of days (`WholeDays`, `DaysPass`).
- `BoundedInv` gives, with `ShadowInv`, `TypesAlways`: a replica's cache and its windows
  stay within their limits, and a key has one entry. The bound rests on a full store
  losing an entry before it takes one (`TrimmedHasRoom`): the entry stored first has
  none older and so is among the oldest half, which is never empty. That there is a first
  one, and a last for the next to follow, needs the stores to be finite and their places in
  the order of storing to be bounded (`Kept`), also in the shared store, which has no
  limit of its own.

`RelayProofs`, for streams of any lines and a line buffer of any size: `RelayServes`
shows that the bytes stutter, so every theorem about `Serving` holds of `Relay`.
`TapInv` gives `ReceiptAlwaysTellsTheStream`: a tap's buffer and overflow mark are
functions of how far the line has come (`Holding`), its usage is what the lines heard
so far state last (`Hearing`), and what has been told belongs to a request that is over
(`Settled`, which `ReplayInv` shows to be for good). The property itself speaks only
of taps that have told.

`ExperimentProofs`, for any number of replicas, sessions, jobs, failures and restarts,
and any deployment, live or paired, with or without the log. What replicas count and
debit are sequences and functions that a sync extends by whatever stretch of the log it
read; `EProcess` picks from a sequence by positions (`Pick`, `New`), so that
`TakenOver` and `ReplayedWell` can state what a sync and a restart do to
evidence of any length. `Inv`, which `Invariant` proves, has these parts:

- `LogInv`: each id is in the log once, by a process that has already begun; and live
  ones are claimed. It rests on `AppendsApart` (two jobs never append the same id:
  the claim for sessions, the job's own number for pairs) and on `JobInv`, which says
  at each `pc` what has been made of a job's item (claimed, appended, in a row).
- `EvidenceInv`: a replica counts distinct ids, each of which is in the log or in
  its own tables (`Durable`), and knows every record it has read past. It gives
  `CountsOnce` and `CountsWhatIsOnRecord`.
- `SpendInv` gives `SpendsOnce`. It is about replicas whose monitor has its history (a
  blind one spends nothing) and rows that the last start could read. Whether a record of
  the log is yet to be debited depends on who wrote it, and in which life: what a replica
  has debited and not counted is in the log under its own name or still on its way there.
- `AsksInv`: a session that is asking for the challenger is asked for by one job
  and served to nobody yet. `TableInv`: a row marked as in the log is in it.
- `CanonInv`: while nothing fails, a monitor is a beginning of the log as long as its
  offset. `ReplicasShareOneLog` follows (a record appended is `Report`, a sync
  `CatchUp`, a restart `Forget`), and so does `HaltStops`: only the two ways
  out of `ensure_synced` get a challenger going, and both ask the monitor
  that the step leaves behind, which is also why a blind replica never does,
  whatever fails. How evidence decides (`Status`) is not expanded.

That every clause is needed shows in the order of events: a sync may apply records
between the append and the read of another job, and a restart forgets what was
counted but not what was debited for a row.

Only model-checked: all liveness (fairness and ENABLED are beyond the prover), which is
`SentEventuallyStored`, `SpillDrainedByAwakeWriter`, `Terminates` of both engines,
`EndsIfHeeded`, `StaysDown`, `StreamedIsRecorded` and `HaltReachesAll`. Every invariant,
action property and refinement of a passing run is a theorem. What recursive functions
compute for every input is not proved; no recursive operator is used in a module with
proofs.

## 5. Divergences met while modelling

With a run: `ServedScore`, `GateHangs`, `ServingDialects`, `ServingAttribution`,
`ExperimentHalt` (see the findings in `PROJECT.json`). Stated in the modules, and
refuted by TLC when added to a configuration:

- `ClosedMeansDrained` (`TraceStore`): when the senders are gone, `try_recv` shows
  Disconnected before Empty and the writer returns from inside the loop, past "one
  final spill drain to capture any last-moment spills" (`store.rs:357`, `:362`).
- `SpeculationWithinCap` (`SpeculativeLadder`): `router.rs:550` says rungs ahead fire "only
  while under budget, so speculation can't blow the cap"; nothing has been spent when
  the first window fires, so the guard at `:559` holds nothing back unless the cap is 0.
- `ReplayClearedTheseGates` (`Serving`, with `OneLadder`): the cache key is tenant, prompt
  and ladder; two routes with one ladder and different gates share answers, against
  `verified_cache.rs:27`.

Read off the models without a property:

- `store.rs:103` calls the durable mode "never-drop". One failed insert in a drain loses a
  trace whose spill was acknowledged, because the drain truncates what it could not
  insert; and a crash inside the append of another (`store.rs:81`) loses one with no
  failure at all, because the next process appends behind the torn line, and the drain
  skips the two as one bad line (`SpillNeverLost` counts them).
- `store.rs:13` and `:325` promise arrival order; the fast drain (`store.rs:350`)
  takes later arrivals before the spilled ones (`SameWayInOrder` is what holds).
- `firstpass-proxy/src/config.rs:20` says the writer drains what was spilled; a line
  appended after the writer went back to sleep waits for the next arrival
  (`proxy.rs:454`), which is why `SpillDrainedByAwakeWriter` says "awake".
- Condensing looks at the attempted rungs only (`router.rs:116`): with a `max_rungs`
  below the ladder it fires while a taller rung was never asked, against
  `router.rs:38` and `condense.rs:10`. The retry is an attempt more than `max_rungs`.
- A visible gate that passes with score 0 puts elastic verification at its floor
  (`router.rs:446`): the expensive gates are skipped as "doomed", yet the verdict rule
  then serves the answer. And a failing visible gate does not keep an answer whose mean
  reaches lambda from being served (`router.rs:444`, `:479`). `ServedPastNoGate` says
  which gates an answer has to get past for that reason.
- A buffered client that leaves drops the run with its `JoinHandle`s (`proxy.rs:2648`),
  which detaches the speculative calls: they go on, are paid for, and are on no receipt,
  against "those still in flight are cancelled" (`router.rs:715`).
- `run_ladder` takes any gate result with the reason of an overflow for one
  (`router.rs:118`), and a subprocess gate may give any reason (`subprocess.rs:189`): the
  model derives an overflow from the provider only.
- `docs/guide/gates.html` says a failing inline gate "stops the gate chain
  immediately"; `eval_gates` evaluates every gate of the answer.
- An evaluation of a shadow that runs past midnight debits with the time it began
  (`proxy.rs:1536`); `debit` takes the other day for a new one and the account goes
  back to that day, and the next check starts today's from nothing. The ledger is also not
  rebuilt for shadows at a restart, unlike for paired challengers (`proxy.rs:295`).
- The cache is filled before the receipt is offered (`proxy.rs:3296`, `:3343`), so a
  dropped request or a full channel leaves answers whose `cache_source` names no
  stored receipt, which no feedback can retract (`ReplayIsProven` allows for it).
- A pin above the rung that served is released even when that rung was the best
  attempt of a ladder that failed every gate (`affinity.rs:247`; `:19` says a pass
  releases it).
- `RedisStore::retract` deletes the index even when the deletion of the entries failed
  (`verified_cache.rs:493`), after which no retry can find them.
- A feedback post that is sent again counts again in the guardrail and in the thresholds
  (`proxy.rs:1280`-`:1300`), and may demote once more a route that its first sending
  demoted; only the experiment knows a session it has counted.
- A gate that panics (`subprocess.rs:210`) takes the task of its request with it where
  panics unwind: models were called and billed, and no receipt is offered, streaming client
  or not (`proxy.rs:2622`); a shadow evaluation goes undebited. A release build dies as
  a whole.
- A guardrail window goes on filling during a demotion (`guard.rs:83`), from answers
  served before it, and decides with them when the cooldown ends (`guard.rs:98` rules
  that out for the window of the demotion itself).
- A terminal event on a last line without a newline is never parsed
  (`proxy.rs:4311`): a stream that was delivered whole is recorded as partial.
- A paired ledger that cannot read its rows at a start stays empty (`proxy.rs:329`), and
  what they cost may be spent again that day, against "their spend must survive a
  restart" (`proxy.rs:288`). `SpendCountedOnce` leaves those rows out; without
  `\ mon[r].unread` TLC refutes it.
- A monitor that could not read its tables, beside a ledger that could, debits a row of
  its own once more when the log has it too, as it does not know the record for
  counted. Its challenger is blocked, so this spend denies nothing
  (`SpendCountedOnce` is of replicas that are not `blind`).
- Two replicas may use a challenger for one more evaluation each after the cap is
  reached: spend is checked against the last sync.
- Budgets per session and per day are documented; only the per-request one exists.

## 6. Plan

Done: the router with both engines, the store, the subprocess gate, serving, promotion
and certified selection, with proofs about all of them. Next, in order:

1. The rest of the choice of a start rung (challenger arm, presets, bandit) around
   `Promotion`; keepalive frames of enforced streams.
2. The cap on tracked sessions and a change of fingerprint in `Experiment`.

## 7. Not modelled

Floating-point learning and statistics (bandit, predictor, conformal and e-process
bounds), cryptography and key hashing, message translation between dialects, the
command line, the MCP server, onboarding, read-only evaluation of stored traces and
the offline benchmarks: pure computation or I/O without a protocol between steps.
They, with the unit tests inside the source files, are most of the lines of the
repository. In the modelled parts: the alarm-only guardrail and the manual reset,
which has no caller; cost and health tallies; the cap of a million tracked
sessions; the sample of shadows and of paired evaluations, taken as everything;
the conformal and e-process thresholds that a report also feeds, with their reads of its
receipt; requests rejected as malformed, which are answered without a receipt
(`proxy.rs:3366`); the commands of a shared put one by one (`verified_cache.rs:461`: before
the entry, or between entry and index, are the two places where it fails); a session served
by several replicas at once, whose claims would compete; `redis` decoding of replies and
the expiry of claims after a day. SQLite, the file system, pipes, processes, Redis and
providers are external and modelled by what the code relies on; an insert into SQLite is
atomic.
