# Formal model of hedge-llm

TLA+ specifications of the hedging proxy in this repository, TLC
configurations that check them on small instances, and TLAPS proofs. Paths are
relative to the repository; definitions are named after the code where TLA+
allows it. `PROJECT.json` maps each definition to its lines.

    tlc -config MCHedgeRun.cfg MCHedgeRun       # model-check one run
    for m in HedgeSums.tla Hedge*Proofs.tla; do tlapm $m; done   # check the proofs

The modules with proofs are `HedgeSums`, `HedgeRunProofs`, `HedgeStreamProofs`,
`HedgeSystemProofs`, `HedgeEngineProofs`, `HedgeProxyProofs`,
`HedgeAdaptiveProofs` and `HedgeBackendProofs`.

## The system

A client asks for a chat completion. The **proxy** decodes the request, counts
it and calls `Engine.Run` with a *sink*. `Run` picks the backends that are not
cooling, resolves the request's **policy** (default or per-model override) and
its fire-after delay (static or **adaptive**), and races the backends: the
primary at once, a backup each time the fire-after timer fires or a backend
fails. The first backend to stream a usable token wins; the others are
cancelled and the winner's stream is relayed to the sink. When everything the
run started is torn down it gives its reservations back, records wins and
losses, and the proxy reports the outcome to the **metrics** and the estimator
and finishes the response.

| Component | State it keeps | Operations | Interacts by | What is hard |
| --- | --- | --- | --- | --- |
| `hedge.run` (engine.go) | backends started, failed, closed; winner; reservations; timers | startNext, forward, race, cancelLosers, relay | one goroutine runs the loop, one forwarder per backend, one producer per backend; a shared fan-in channel; contexts | select order, late events of losers, blocking dials, tear-down |
| `hedge.Engine` (engine.go) | inFlight, committedCost (`mu`); loss streaks and windows (`coolMu`) | check-and-increment, releaseN, eligibleBackends, recordOutcome, Cooling, InFlight | shared by all requests | interleaving, stale clock reads, stale eligible lists |
| `policy` | none | AllowStart, HasHeadroom | pure | boundaries |
| `adaptive.Estimator` | a ring of samples per backend | Observe, Percentile, SuggestFireAfter | written by reports, read by starting requests | two critical sections, ring wrap, rank |
| `config` | the configuration | Load, applyEnvOverrides, Validate, apply, HedgePolicyFor | read at start-up and per request | three layers of partial settings, milliseconds that overflow a Duration, merged validation |
| `proxy.Handler`, sinks | committed, writeErr, accumulated content | ServeHTTP, report, Commit, Chunk, finish | called by net/http, calls Run and the metrics | write errors at any point, winner and error together |
| `metrics.Registry` | counters, histogram | Inc*, Observe*, WriteTo | shared by all requests and by scrapes | insert under lock, add outside; a page read while requests report |
| `backend` | a channel, a response body, a script | Stream of HTTPBackend and FakeBackend | producer goroutine; a reader that may stop reading | cancellation wherever it meets the stream, order of the closes |
| `clock` | the time, registered timers, their channels | After, NewTimer, Reset, Stop, Advance, Set | the loop and fakes select on them | stale, doubled and early ticks, a send under the mutex |
| `oapi`, `cmd/hedge-llm` | - | encoding; wiring, shutdown | - | - |

What makes each part correct: a **run** relays exactly one backend's stream,
whole and in order; never exceeds its bounds; always hedges when it may; says
"all failed" only when it is true; leaves nothing behind and always returns.
The **engine's** books are the sums of what the runs hold, no request blocks
another, and a backend cools exactly when it lost often enough, never longer
than configured. The **estimator** holds exactly the latest samples. The
**configuration** a daemon starts with stays within its bounds for every model. The **handler**
sends one status line, a well-formed stream, and counts what it sent; the
**registry** loses no count and shows no half-reported outcome. A **backend**
delivers what its upstream said, whole and in order, and ends when cancelled;
a **timer** ticks once, never early, never for a deadline that was replaced.

## Modules

| Module | Models |
| --- | --- |
| `HedgePolicy` | policy.go's gates, used by the next two. |
| `HedgeRun` | One call of `Engine.Run`, statement of the race loop by statement. |
| `HedgeContract` | What `Run` promises, with no word on how. |
| `HedgeRunRefinement` | The mapping under which `HedgeRun` implements `HedgeContract`. |
| `HedgeRunProofs` | Proofs about the race: books, caps, tear-down, finality of the winner. |
| `HedgeStreamProofs` | Proofs about what reaches the sink, what a run may report, and that `HedgeRun` implements `HedgeContract`. |
| `HedgeSystem` | That race over backends of which only the send contract (`HedgeProducer`) is assumed. |
| `HedgeService` | A request from end to end: `HedgeProxy`'s handler, sink and registry, served by `HedgeSystem`'s run. |
| `HedgeSystemProofs` | The proofs that the first is `HedgeRun` and the second `HedgeProxy`, and of what both say of the upstreams. |
| `HedgeEngine` | What concurrent runs share: gauges and cooldown book. |
| `HedgeEngineProofs` | Proofs about its cooldown book and its gauges. |
| `HedgeConfig` | How the daemon gets its configuration: defaults, file, environment, validation. |
| `HedgeAdaptive` | How a request gets its policy and delay: that configuration, overrides, estimator, main's wiring. |
| `HedgeAdaptiveProofs` | Proofs about rings, percentiles, resolved policies and their validation. |
| `HedgeMetrics` | The registry: labelled counters, histogram, the scrape. |
| `HedgeProxy` | Handler and sinks over that registry, with runs that behave as `HedgeContract` says. |
| `HedgeProxyProofs` | Proofs about answers, streams, counters, pages and the histogram. |
| `HedgeTimer` | What `clock.Timer` promises its owner. |
| `HedgeClock` | FakeClock and RealClock, which keep that promise. |
| `HedgeProducer` | The send contract of backend.go, as the engine sees a `Stream`. |
| `HedgeBackend` | HTTPBackend and FakeBackend on either clock, which keep that contract. |
| `HedgeBackendProofs` | The proofs that backends and clocks keep their contracts, and of the fakes' timing. |
| `HedgeSums` | Facts about sums over finite sets, used by the proofs. |
| `MCHedge*` | Constants for TLC. |

Operators marked "a slip" are wrong variants of the operator that follows them,
such as a programmer might write; `PROJECT.json` ("mutants") names, for every
checked property, the slip that breaks it. No specification uses them.

### HedgeRun

`pc` is where the goroutine that called `Run` is: `start`, `dialing` (inside
`be.Stream`, which for `HTTPBackend` returns only when the upstream has
answered), `racing` (the pre-winner select), `committing` (inside
`sink.Commit`), `relaying`, `unwinding` (before `cancelAll`), `waiting`
(`wg.Wait`), `returned`. The branches of each `select` are separate actions;
TLC takes any that is enabled, as Go does. `Reserve` is startNext up to
`Stream`; `DialOk` and `DialErr` are its two returns, and include what the loop
does next before it selects again (create the timeout timer the first time,
re-arm the fire timer). `fwd[i]` and `prod[i]` are the forwarder's and the
producer's positions, `ch[i]` the producer's channel of capacity one, `events`
the fan-in channel. Chunks are their position in the backend's stream, so that
a gap, repetition or swap is visible; `script[i]` says which of them carry
content. The synthetic close event after a failed dial is a forwarder in
`closing`. Costs are naturals instead of floats. Time is nondeterministic: an
armed timer may tick at any moment.

### HedgeSystem

Engine, contract and upstreams in one. Each backend is a `HedgeProducer` (`Peer`)
with what its upstream has to say, `want`, fixed at the start and any sequence of
chunks in `Answers`; `HedgeRun` is instantiated (`Run`) with its producers,
channels and scripts read off those backends (`ProducerOf`, `OnChannel`,
`ScriptOf`). Steps of the loop are taken as they are. Where run and backend meet
the step is a joint one and written out: the two returns of `Stream` (`DialOk`,
`DialErr`), a receive from the channel, the close found there, the producer's
close. What a backend sees of the run is its context, `Heard`. Nothing is said
here of how a producer finds its chunks: that `HTTPBackend` and `FakeBackend`
are such producers is shown in `HedgeBackend`.
TLC checks it as the part of `HedgeService` that runs the race; every behaviour
of that module is one of this (`ServiceIsSystem`).

### HedgeService

The run of `HedgeSystem` takes the place of the one that `HedgeProxy` assumes,
for one request `q`. `Commit` and `Relay` join the loop's call of the sink with
the sink's writes, of which any may fail; `Return` joins the end of `Run` with
what the handler does with its error and its `Outcome`; `NoneEligible` is the
call that finds every backend cooling. The backends here are either all eligible
or none is: a request for which only some are cooling is a run over fewer
backends, and its report with gaps in the list is covered by `HedgeProxy` alone. No step asks whether the handler expects
it: that it does is the property `ImplementsProxy`. Other requests share only the
registry, whose sharing `HedgeProxy` shows.

### HedgeEngine

Each action is one critical section or one clock read. `stamp[r]` is the time
run `r` read before it took `coolMu`. A race is reduced to attempts, failed
dials and a winner; `Release` is `releaseN` after the tear-down, `Record` is
`recordOutcome`. The cooldown feature is on (`LossCooldownN > 0`); off, the
book is never touched. `LossCooldown` is a natural, so it stands for a setting
whose milliseconds fit a Duration (see `HedgeConfig`).

`StreakMatchesWindow` and `CooldownIsBounded` say that streak and window agree and
that no window is longer than configured, however stale the time it is written
with. That a stale time, read before the lock, may make a window *shorter* than
configured is what the code does; neither property speaks of it.

### HedgeConfig and HedgeAdaptive

A file or an environment is a function on the settings it names: `Decode` puts
a file over `Default`, `ApplyEnv` the variables over that, and `Loads` says
whether `Load` returns the outcome (`Loaded`) or an error. `conf` is whatever
`Loads` accepts of a small set of files and environments.
A setting is a machine integer, and `Milliseconds` the multiplication
`time.Duration(ms) * time.Millisecond`, which wraps around (`Wrap`). So there are
two checks, as in the code: `ValidSettings` looks at the default's milliseconds as
they were written, `ValidPolicy` at the Durations of a merged override. In the
code `fire_after_ms = 10^13` therefore loads when no model has an override, and
becomes a negative `FireAfter`, with which every backup is started at once; a
`request_timeout_ms` or `loss_cooldown_ms` of that size may equally end up as no
timeout or a window in the past. An override of one model that leaves the field
alone makes the same file fail to load, and an override of the field itself hides
it for that model. `PolicyIsInBounds` says that this is the only way in which
a policy, or the delay taken from it, leaves its bounds. A wrapped value that is
positive again is within them, and is not what was written either. `MaxInt` and
`NsPerMs` are constants, 2^63 - 1 and 10^6 in the code; the proofs hold for any.
`cost_ceiling` is an integer here and a float64 in the code; its NaN, which
passes every check, is left out.

`Resolve` is `HedgePolicyFor` and the first critical section of
`SuggestFireAfter`, `Suggest` the second (`Percentile`); `Win` is a race won and
`Observe`d. `given` is the history the ring is compared with; measured latencies
are small naturals.

### HedgeMetrics and HedgeProxy

`series` maps a label pair to a counter, `value` holds the counters:
`LocateOrInsert` is the locked part of `ObserveWin`/`ObserveLoss`, `Increment`
the atomic add outside it; a request takes the two in separate steps (`Find`,
`AddOne`). `hist` is the histogram; each of its operations is one critical
section.

`Scraped` is one read of a scrape. `WriteTo` reads whole families, each counter
by itself, so a page mixes moments. The model reads a family in one step and
keeps only what can contradict it: counters only grow, so a later read of a win
or an earlier read of a loss would only make the page worse, and the step of a
family may happen anywhere within the real scrape: at its end for the outcomes,
at its start for the losses. `page.owed[b]` is how many outcomes read so far
go with a loss of `b` if `b` was attempted: the cancellations and the wins of
others.

A run attempts the eligible backends from the first on. Which are eligible is up
to the cooldown book, so `Attempts` is every sequence of backends in configured
order: any of them may be missing, the first as well as the last. Losses are
reported by name for those attempted that did not win (`Losses`).
`OutcomesComeWithLosses` therefore compares a page, for each backend, with that
backend's losses on it and the runs that did without it (`Without`), because
it was cooling or no hedge got as far.

A response is the status lines and the pieces handed to `Write`, of which
any may be the one that fails. `Commit`, `Relay` and `Return` are the run as
`HedgeContract` allows it, and add the outcome's losses with their reasons:
`Returned` is the error handed to the handler, `Reported` what its report will
count. The error of `json.Marshal` in `sseSink.Chunk` is left out: it cannot fail
for the types it is given.

### HedgeClock

One module for both clocks, told apart by `fake`. A FakeClock operation is one
critical section of its mutex and so one step. `tick[t]` counts what is in a
timer's channel: `Advance` is enabled only if no send in it would block, and the
contract's promptness (a FakeClock has delivered all that is due when time has
passed) would fail if one could. For the RealClock the timers are the Go
runtime's: a due tick is delivered at any later moment. go.mod requires Go 1.23,
where `time.Timer.Stop` also discards a tick that is due and not received;
therefore nothing can come between the Stop, the drain and the Reset of
`realTimer`, and they are one step. `Contract` maps a clock to `HedgeTimer`:
registered is armed, a tick in the channel is ticked, and both at once, or two
registrations, map to nothing the contract knows.

### HedgeBackend

Each `Stream` is a producer with its channel of capacity one, its context and
its timer. An HTTPBackend's upstream is a script of lines by kind (`chunk`,
`malformed`, `done`, or `skip` for blanks, comments and other fields), whose end
is the body's or a read error, which the code treats alike. `Post`, `PostErr`,
`Answer`, `BadStatus` are `Stream`; `Scan` is one line of `parseSSE`; `Send` and
`GiveUpSend` the two arms of its select; `CloseBody` and `CloseChan` the deferred
calls in the order they run. A FakeBackend's script is its fields; `Wait`,
`WaitOver`, `GiveUpWait` are its selects on `Clock.After`. The reader is
anybody: `Take` may happen at any time or never again. What an upstream says,
`Says`, is its chunks up to `[DONE]`, the k-th being the line by which k were
said (`SaidBy`): a definition by counting, so that it can be reasoned about for
any response. `Stream` (the instance)
maps all this to `HedgeProducer`, from which `HedgeSystem` takes its backends,
and with them those of `HedgeRun` (`DialOk`, `DialErr`, `Produce`,
`ProducerEnd`): what is assumed there is shown here of the code. The engine's own timer (`Rearm`) lives
on the same clock.

## What the runs check

| Run | Instance | Shows |
| --- | --- | --- |
| `run_safety` | 3 backends, 2 chunks each, channel 1; policies: cap 2 and ceiling 4 without timeout, no hedging with one | Losses and timer fires compete for the third backend under both gates: books, caps, relay order, a pending hedge, finality of the winner; "all failed" is true; `HedgeRun` implements `HedgeContract`. |
| `run_live` | 2 backends, 1 chunk, channel of **one** slot; hedging off or on, with a timeout or without | Liveness: nothing depends on the fan-in buffer. |
| `service` | 1 request of all kinds, 2 backends, 2 answers (mute, and two chunks with content), channel 2; hedging without a timeout, no hedging with one | The race over upstreams is `HedgeRun`, and does to handler and sink what `HedgeProxy` expects; a 200 is one upstream's whole answer; error statuses and counters are true of the upstreams; no connection is left. |
| `engine` | 3 requests, 2 backends, streak 2, window 1, clock to 3 | Gauges are sums, no request takes from another what it may start, streak and window agree, windows are bounded. |
| `adaptive` | 2 requests, 2 backends, default window 3, files and environments of which some do not start and some overflow; 16-bit integers (`MaxInt` 32767), 100 ns to the millisecond | Ring, median, cold primaries and zero delays, validation of what is really used. |
| `proxy` | 2 requests of all kinds, 2 backends, 1 relayed chunk, 2 bucket bounds | Counters lose nothing and agree with the answers; one status; SSE framing; exact buckets; no outcome on a page without its losses, whichever backends were eligible. |
| `backend` | 1 stream of either kind (5 upstream scripts, 33 fake ones), the engine's timer, both clocks, time to 3 | Send contract, timer contract, timing of fakes, cancelled streams end. |
| `doc_*` | as above | What the documentation says and the code does not do, see below. |

**Bounds.** `MaxChunks`, `MaxNow`, `MaxSamples` and the numbers of backends and
requests bound the state space. Two backends show every interaction of a winner
with a loser, and two chunks let a role-only chunk precede the winning one or a
chunk follow it; three backends are needed where two actors compete for
one more start, or the cap binds below the number of backends. Three requests
let two of them record losses around a third that was in flight all the time.
Four samples overfill both windows. The integers of `adaptive` are narrow so that
a delay of 500 ms, twice the default, wraps to a negative Duration, while the
default's 250 ms does not. Two requests are enough for a lost update,
which is between two, and for a page that catches one in mid-report. The
latencies of `proxy` are one on a bucket's bound and one above the last.
Its states are told apart by what each label reads and whose counter a request
holds (`MCView`), not by the places the counters were inserted at: nothing but
the counter's place depends on them. (That no two labels share a counter is
proved, `SeriesInv`.)
In `service` an upstream refuses, is mute or has content to say, and
may be slow or cut short at any chunk; what is on its way when a winner commits,
a client leaves or a write fails needs no more than two of them.
In `backend` one stream suffices, as streams share nothing but a clock, whose
sharing the engine's timer shows; delays reach 2 and the clock 3, so that a
timer can be re-armed before, at and after its deadline, and left unread.

**Fairness** (`EngineFairness`, `CancellationFairness` in `HedgeRun`). Go runs
every runnable goroutine; timers tick; a select over ready branches does not
pass over one for ever, so each branch of the loop's select is weakly fair by
itself, while what a received event is belongs to one branch. The sink's writes
return. A producer whose context is cancelled ends (the contract in
`internal/backend/backend.go`, kept by both implementations), and so does a
dial (`http.NewRequestWithContext`). Nothing is assumed of upstreams: a backend
may stay silent, and a dial may hang, for ever. Only `TimeoutBoundsRace`
assumes that dials end, and `doc_timeout` shows that it has to. `HedgeBackend`
assumes less: a producer's goroutine that can go on does, and net/http ends a
request or a read whose context is cancelled; nobody need read the channel, no
upstream need answer, and time need not pass.

## What is proved

Every theorem is about its module's `Spec` (`ServiceSpec`) and holds for every
value of the constants that the assumptions allow: any number of backends,
requests, streams and timers, any costs, policies, files, scripts, latencies and
bounds. What a run checks on a small instance, the theorem of `PROJECT.json` that
names the same property shows for all of them. The bounds of the models
(`MaxChunks`, `MaxNow`, `MaxSamples`) are constants like the others, so nothing
proved depends on how large they are.

The assumptions say what the code's own checks and types give: there is a
backend and a policy; caps, costs and delays are numbers; a bucket's bounds
ascend; loss reasons are finitely many and differ from a win; and a setting that
is given has its type (`IsNamed`), which decoding sees to. Nothing is assumed of
what upstreams answer, of when clients leave or of how steps interleave.

None of the properties is inductive as it stands. Each module proves one
inductive invariant that is, by one lemma per part with a case per action, and
the properties from it.

**The race** (`HedgeRunProofs`; `IndInv`). `InFlightIsConserved`,
`InFlightIsCapped`, `CostIsConserved`, `CostIsCapped`, `NoLeak`, `HedgeIsPending`,
and the action property `WinnerStaysFinal`. That a failed dial releases one
reservation needs that the backend being dialed has not failed already; finality
needs that a winner exists only from `committing` on (`PhaseInv`);
`NoLeakAtReturn` that a forwarder which saw its channel close had its producer
end before (`TearInv`); finality of the cancellation `CancelInv`. `IndInv` was
also checked with TLC on two backends of two chunks.

**The relay** (`HedgeStreamProofs`; `StreamInv`, on top of `IndInv`).
`RelayStaysOneStream`, `SuccessMeansComplete`, `SuccessIsNeverCut`,
`AllFailedMeansIt`, `BlameStaysDeserved`. A chunk is in a producer's channel, in a forwarder's hand,
in the fan-in queue, or with the sink. `CellInv` says where the newest chunk of
a backend can be, `OrderInv` that its events stand in the queue in order and
the close behind them, and `LaneInv` that those in the queue are consecutive,
`lo .. hi`: none is missing between what the sink expects and the last one sent
unless the backend was cancelled. That is what makes a close in the relay loop
mean the end of the stream. `HeardInv` (a backend heard to close had nothing
usable left to say) makes "all failed" true; `BlameInv` (while the client stays,
nobody but the loop cancels) makes a loss deserved. `UncutInv` keeps the winner
out of the cancelled until the run ends, so that a stream returned as a success
ended by itself: complete up to its close is not enough if the close was the
race's own doing.

**The refinement** (`HedgeStreamProofs`; `RunKeepsContract`). Under the
mapping of `HedgeRunRefinement` each action of `HedgeRun` is the contract's step
of the same effect (`Ask`, `Finish`, `Win`, `Send`, `Return`) or shows nothing;
the mapping's sets are read off with `IndInv` and `StreamInv`.

**The race over its upstreams** (`HedgeSystemProofs`; `SystemInv`).
`SystemImplementsRun`: each step of `HedgeSystem` is a step of `HedgeRun` or a
stutter, so that every theorem about `HedgeRun` holds of it as well
(`SystemKeepsContract` among them). `SystemInv` says who was asked, what was sent
of what there was to say, and that a stream that ended by itself had said all of
it. `HedgeRun`'s completeness is about what a producer sent and `SystemInv` about
what its upstream had to say; together they give `SuccessIsItsAnswer` (a success
is the whole answer), `AllFailedIsTrueUpstream` and `NoConnectionIsLeft`.

**A request from end to end** (`HedgeSystemProofs`; `ServiceInv`).
`ServiceImplementsProxy`: what a real run does to handler, sink and registry is
what `HedgeProxy` lets its assumed runs do, so that `HedgeProxy`'s theorems
(one status line, well-formed streams, exact counters) hold of real requests.
`LinkInv` is the heart: it places the handler by the loop's `pc` and says that
handler and run agree on the winner, on whether the sink is committed and broken,
and on how many chunks were relayed; without it a second `Commit`, or a write
after a failed one, could not be excluded, for no guard of the sink forbids them.
`ResultInv` ties `Run`'s error to its causes, `AnswerInv` the status and the
pieces written to both, `ReportInv` says that what is still owed to the registry
or already added is a label the run deserves. `ServiceInv` was checked with TLC
on the instance of `service` before it was proved, and so was what follows from
it: `AnswersAreWhole`, `ErrorsStayTrue`, `CountsStayTrue`.

**The shared engine** (`HedgeEngineProofs`; `EngineInv`). `StreaksMatchWindows`
and `CooldownsAreBounded` from `CoolInv`, which adds that every clock read is of
the past and that a run which records has made one: without the second a loss
could be recorded as of time 0, which is how the code marks that there is no
window. `GaugesStaySums`: both gauges are sums over the runs that hold
something; `RaceInv` adds that these are finitely many and that a failed dial
gives back what it took. `StartsStayAllowed`: the gate reads sums over what the
request itself holds (`GateInv`), which no step of another changes.

**The registry and the handler** (`HedgeProxyProofs`; `ProxyInv`).
`ClientsGetOneAnswer`, `StreamsAreWellFormed`, `CountersMissNothing`,
`CountersMatchAnswers`, `PagesAreOrdered`, `HistogramsAreExact`. The hard one is
that no observation is lost although the counter is found under the lock and
added to outside: `SeriesInv` (no two labels share a counter) and `ReportInv`
(what a request still owes and what it added are distinct, a win comes after all
losses, and a counter that is held was found for the label owed next). `SumInv`
reads counters as numbers of requests, and `LossesCoverOutcomes` finds, for each
backend, a loss or a run that did without it for every cancellation and every win
of another. `PageInv` compares a page in progress with these sums, which only
grow.

**Policies and delays** (`HedgeAdaptiveProofs`; `AdaptiveInv`).
`RingsHoldTheLatest`, `SuggestionsAreMedians`, `PercentilesNeverMiss`,
`ColdPrimariesStayStatic`, `PoliciesAreInBounds`. A ring holds sample k back
from its index at `(next - k) % window`, and one more sample moves all of them by
one (`AddHolds`). For the median, the sorted snapshot is a bijection from ranks
to ring slots that keeps order (`CountAcross`), so the element of rank n has n
at or below it and the rest at or above. Validation is followed through
defaults, file and environment to each merged policy, setting by setting, and
through the conversion to Durations: one that is negative without an override
was more milliseconds than a Duration holds, and an override with one was refused.

**Backends and clocks** (`HedgeBackendProofs`; `BackendInv`). `TokensComeOnTime`;
`BackendsKeepContract` and `ClocksKeepContract`, the refinements of
`HedgeProducer` and `HedgeTimer`. `ProducerInv` counts what an HTTPBackend has
sent against the chunks in the lines it has read, and what a fake has sent
against its script, so that the chunk sent is the next one wanted and the
channel is closed only when all was sent or the context is cancelled.
`TimerInv` says that a timer is registered once, or ticked and unread, or
neither, and that a FakeClock leaves nothing due: without it `Advance` could
block on a full channel. `TimeInv` carries a fake's due time from the delay it
waited to the token it sends. `BackendInv` was also checked with TLC on the
instance of `backend`.

`HedgeSums` has the facts about sums over finite sets that costs, gauges,
counters and buckets need. The library's `MapThenSumSet` is a recursive function
chosen by `CHOOSE`; that one exists, that it is unique and that it adds one
element at a time is shown by taking a smallest set for which it fails, so that
no induction theorem with an operator parameter is needed. `SumOf` is the same
sum over a function; each module shows that what it sums is one.

Some theorems state properties that no run lists, most of them steps towards one
that a run does: `NoLeakAtReturn` (`NoConnectionLeft`), `SuccessIsComplete`,
`SuccessIsUncut` and `SuccessIsTheAnswer` (`AnswerIsWhole`), `BlameIsDeserved`
(`CountsAreTrue`), `AllFailedIsTrueOfUpstreams` (`ErrorsAreTrue`); also
`PercentileNeverMisses` and the type invariants of `HedgeEngine` and
`HedgeAdaptive`. TLC agreed with each before it was proved.

**Only model-checked:** liveness (`CancelledStreamEnds` and what `run_live`
checks), which is beyond the prover. Every safety invariant and action property
of the passing runs is proved. The `doc_*` runs show violations, so there is nothing to prove.

## Where code and documentation differ

Each is a `doc_*` run whose counterexample TLC finds.

1. `doc_all_lose`: a backend that closed without a token keeps its slot under
   `max_in_flight` until the run returns (`runningCount`), so a request can fail
   with backends never asked.
2. `doc_cancel`: after the client left, failed dials and closes of its backends
   may be taken first; the run then reports `ErrAllBackendsFailed`, counted as *failed*.
3. `doc_timeout`: `Stream` blocks inside the loop, and the timeout timer is
   created after the primary's `Stream` returned.
4. `doc_expiry`: a request in flight across a window's expiry adds its loss to
   the old streak, which trips the backend at once.
5. `doc_override`: the estimator falls back to the default policy's delay, not
   the override's, unless the former is zero.

Seen while modelling, and not runs of their own: `min_samples: 0` means 1, not
the default of 10 that config.go:72 names; a `window` below `min_samples` passes
validation and leaves adaptive timing off for ever; latency samples count from
the start of the run, so a winning backup's include the delay before it was
started; `LatencySaved` is always zero, as the primary's first token is only
known when the primary wins; with every backend cooling the client gets a 503
that says no backends are configured, counted as *failed*, which the README
ties to 502; a request without a Flusher is counted in `hedge_requests_total`
and in no outcome; `hedge_backend_cooling` says "will not be dialed", and a run
that picked its backends before may still do so; non-usable chunks the winner
streamed before its winning one are not relayed; a stream cut short by the
client's context, or by its upstream, still ends in `[DONE]`; fake.go:54 says
`OnCancel` is never called if the stream ends without cancellation, but its
watcher waits for the context, which the engine cancels in every case, so it is
called after a normal end as well; `HEDGE_LLM_COST_CEILING=NaN` parses and passes
validation, as NaN is not below zero; so do, without overrides, more milliseconds
than a Duration holds, although config.go:305 says that an override is held "to
exactly the same bounds as the default policy" (see `HedgeConfig`).

## Not modelled

SSE line syntax and JSON (text; `HedgeBackend` models what the parser does with
each kind of line), the exposition format, HTTP connection management,
authentication's comparison, the listen address and keys of the configuration,
signals and `http.Server.Shutdown` (a constant of 30 s given to the standard
library). `AddLatencySaved`'s compare-and-swap is never reached with a positive
value. The scrape's gauges read the engine and the cooldown book, which
`HedgeEngine` models. Floating-point rounding of costs: with costs that
are not sums of powers of two `committedCost` may drift by rounding, which the
clamp at zero hides.

## Plan

Done, in order of importance: `HedgePolicy`, `HedgeRun`, `HedgeContract` with
the refinement, `HedgeEngine`, `HedgeAdaptive`, `HedgeProxy`; proofs of the
race's type correctness and main invariants, and of the cooldown book; then
`HedgeClock` and `HedgeBackend` with the contracts they keep, `HedgeMetrics` with
histogram and scrape, `HedgeConfig`.

Then proved: every safety invariant and action property of the passing runs, and
the refinements of `HedgeContract`, `HedgeTimer` and `HedgeProducer`. Then, to
close the gaps between the modules: `HedgeSystem`, whose backends are
`HedgeProducer`'s and whose race is proved to be `HedgeRun`, and `HedgeService`,
whose request over such a race is proved to be one of `HedgeProxy`'s.

To model, if it is ever needed: a composition of `HedgeEngine` with the
handler's counters (gauge against requests in progress).
