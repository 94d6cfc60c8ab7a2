# Verification of the circonus unified agent

TLA+ models of the agent's metric pipeline, TLC configurations that check them
on small instances, and TLAPS proofs of the properties that matter most. Paths
are relative to the root of the repository's sources.

    tlc -config MCBuffer.cfg MCBuffer      # one run, here the run "buffer"
    tlapm BufferProofs.tla                 # the proofs of one module, up to ten minutes

`PROJECT.json` lists the runs, the lines of code behind every definition, the
hazards, the findings and the theorems.

## 1. The system

The agent collects metrics from *inputs*, sends them through a chain of
*processors* and, when configured, *aggregators*, and writes them to *outputs*.
Everything runs in one process; the parts are goroutines joined by channels of
capacity 100.

    inputs --> processors --> aggregators --+--> agg. processors --+--> outputs
                                            +----------------------+
                                               originals

### Inventory

| part | code | state | operations | hard behaviour | what must hold |
|---|---|---|---|---|---|
| metric buffer | `models/buffer.go` | ring, batch bookkeeping, selfstats | `Add`, `Batch`, `Accept`, `Reject`, `Len` | metrics arrive while a batch is out, index wrap | newest kept, order kept, each metric settled once, counters conserve |
| running output | `models/running_output.go` | buffer, `newMetricsCount`, `droppedMetrics`, `BatchReady` | `AddMetric`, `Write`, `WriteBatch` | two goroutines on the same atomics | full batches get written, delivery in order, accepted iff delivered |
| flush loop | `agent/agent.go` `runOutputs`, `flushLoop`, `flushOnce` | program counters, tick and signal channels | fan-out, flush | ticks, signals, full batches and shutdown race | it ends, nothing is left behind |
| tracking metrics | `metric/tracking.go`, `agent/accumulator.go` | reference and verdict counts of a group, delivery channel | `Copy`, `Accept`, `Reject`, `Drop`, notify | copies settled concurrently, two atomics | one report, final verdicts, no panic |
| tracking inputs | `plugins/inputs/*_consumer` | semaphore of undelivered messages | receive, wait for delivery, acknowledge | reports race with new messages | every slot accounted for, every message reported |
| agent pipeline | `agent/agent.go` `Run`, `startX`, `runX` | channels, which plugin is started or stopped | start-up, pipeline, shutdown | partial start-up, closing order | no send on a closed channel, nothing lost, a failed start-up leaves nothing running, `Run` returns |
| gather loop | `agent/agent.go` `gatherLoop`, `gatherOnce` | one collection per input | collection per tick | cancellation during a collection | collections end before the channel is closed |
| one-shot modes | `agent/agent.go` `Test`, `Once` | as the agent | one gather, then shutdown | inputs that did not start | as the agent |
| running processor | `models/running_processor.go`, `plugins/processors/streamingprocessor.go` | none of its own | filter, drop or process | emission from own goroutines | `Stop` waits, references settled |
| running aggregator | `models/running_aggregator.go`, `agent.go` `push`, `updateWindow` | window, aggregate | `Add`, `Push`, `UpdateWindow` | lock held while sending; late starts, pushes and metrics, rounded times at the window's edges | only what is late is discarded, each metric in one push, elapsed periods pushed |
| processors | `plugins/processors/*` | caches, worker pools | `Apply`, `Add` | references to tracked metrics | settle what is not passed on |
| parallel.Ordered | `plugins/processors/reverse_dns/parallel/ordered.go` | queue of futures, workers | `Enqueue`, `Stop` | workers finish out of order | emission in order, `Stop` ends |
| running input | `models/running_input.go`, `models/makemetric.go` | counters | `MakeMetric`, `Gather` | - | a metric not made is settled |
| filter | `models/filter.go`, `filter/filter.go` | compiled globs | `Select`, `Modify` | combinations of pass and drop | the documented meaning |
| tickers | `agent/tick.go` | next tick, tick channel of capacity 1 | aligned, unaligned, rolling ticks | slow readers, jitter, late timers, start times long past | one tick in each interval |
| selfstat | `selfstat/*.go` | registry | `Register`, `Incr`, `Set`, `Metrics` | concurrent registration, hash keys | one stat per key |
| circonus output | `plugins/outputs/circonus/*.go` | worker pool, destinations | `Write`, worker, creation of destinations | check then act, counters without a lock, acceptance before submission | nothing stranded, destinations bounded, accepted means submitted |
| circonus API | `internal/circonus/*.go` | check and broker caches, global tags | check lookup and creation | survives a reload | - |
| reload loop | `cmd/circonus-unified-agent/*.go` | signal and reload channels | run, reload on SIGHUP, stop | signals during shutdown | a stop is not lost |
| helpers | `internal/{limiter,process,rotate}`, `internal/internal.go` | small state machines | rate limiting, restart, rotation, alignment | timing | - |
| configuration, parsers, serializers, other plugins | `config`, `plugins/**` | per plugin | parsing, network and system calls | - | - |

## 2. The modules

| module | models | refines / composes |
|---|---|---|
| `BufferQueue` | what the buffer promises: a bounded queue that drops its oldest metrics, with one batch out | - |
| `Buffer` | `models/buffer.go`: ring, batch, settlement, counters | implements `BufferQueue` |
| `MCBuffer` | `Buffer` for TLC, with the refinement mapping | |
| `BufferProofs` | theorems on `Buffer`, and that it implements `BufferQueue` | |
| `RunningOutput` | one output: `AddMetric`, `Write`, `WriteBatch`, `flushLoop` | uses `Buffer` as its buffer, implements `Buffer`'s specification |
| `RunningOutputProofs` | theorems on `RunningOutput` | |
| `Tracking` | tracked metrics from a consumer to the outputs and back | |
| `TrackingProcessors` | `unpivot`, `dedup` and `starlark` on top of `Tracking` | extends `Tracking` |
| `TrackingProofs` | theorems on `Tracking` | |
| `Agent` | start-up, pipeline, shutdown, one-shot mode | |
| `MCAgent` | `Agent` for TLC: how many metrics each input makes | |
| `AgentProofs`, `AgentOrderProofs` | theorems on `Agent` | |
| `Reload` | `reloadLoop` and `runAgent`: generations, signals, the reload flag | abstracts `Agent` to the ways `Run` ends |
| `ReloadProofs` | theorem on `Reload` | |
| `Clock` | the shared time, `AlignTime`, `RandomDuration` | |
| `Ticker` | `AlignedTicker` and `UnalignedTicker` | on `Clock` |
| `Aggregator` | `RunningAggregator` with its two goroutines | on `Clock` |
| `Timing` | the gather loop between a ticker and an aggregator | composes `Ticker` and `Aggregator` |
| `TimingProofs` | theorems on `Timing` | |
| `Circonus` | the circonus output: workers, destinations, flushes | |
| `CirconusProofs` | theorems on `Circonus` | |
| `Filter` | `models/filter.go`: which metrics a plugin gets and what is left of them | |

**Buffer.** The variables are the fields of the Go struct (`buf`, `first`,
`last`, `size`, `batchFirst`, `batchSize`), the selfstats, the batch the caller
holds and, for each metric, how often it was accepted and rejected. Metrics are
numbered in order of arrival. Each method is one action, because the mutex is
held throughout. The caller has at most one batch out, which is what
`RunningOutput` is then shown to respect.

**RunningOutput.** Three goroutines: the one that calls `AddMetric` (`pcA`), the
flush loop (`pcF`) and the one that runs `Write` or `WriteBatch` (`pcW`). Each
access to `newMetricsCount`, `droppedMetrics`, the buffer and `BatchReady` is a
step of its own. The tick, flush-signal and batch-ready channels are Booleans: each has
capacity one and a sender that does not block. The branches for an
`AggregatingOutput`, which no output implements, are left out.

**Tracking.** A group is its tracking id; its metrics differ only in where they
are, so each place (receiver, before and after the processors, fan-out, buffers)
counts the metrics of each group. `Accept` and `Reject` count the verdict and
then decrement, and the notification follows the decrement: three steps, between
which other goroutines run. The receiver is that of `nats_consumer`, with both
`select` statements. A processor passes, clones or drops a metric;
`TrackingProcessors` adds those that do not keep to the rules.

**Agent.** The channels are named after the unit that reads them and bounded by
`ChanCap`; sending on a closed channel and closing twice set `panicked`, as in
Go. `Run` starts plugins in the order of `Plan`, and each may fail; when a service
input does, those before it are stopped one by one (phase `unwinding`) while they
may still be sending to a channel nobody reads yet. Then inputs
(periodic and service inputs), processors, the forwarder and push goroutines of
the aggregators and the outputs run; cancellation makes each stage close the
channel of the next. `mode` says whether processors emit only in step (`run`) or
also from goroutines of their own (`async`), or whether the agent runs with
`--once`. `StopWaits` are the service inputs whose `Stop` waits for metrics in
flight, as `cua/input.go` requires of all.

**Reload.** Each pass of `reloadLoop` is a generation with a signal channel of
capacity one and a goroutine that reads it once. Channels of old generations
stay registered, as in the code, and fill up unread. Receiving the flag, putting
it back and cancelling are separate steps of the listener. The agent itself is
reduced to loading, starting, running and returning. The `stop` channel of the
Windows service is left out.

**Timing.** One clock `now`. `startTime` is taken before the plugins are started;
`RunInputs` and `StartAggregators` come any time later and use it, as `runInputs`
and `runAggregators` do: the aligned ticker sets its timer now, to a duration
computed from `startTime`. Timers expire and the ticker's goroutine runs up to
`TickLag` late; pushes and metrics may be late without bound. Timers, tickers and
the rounding of `time.Time` are external. `Expire`, `AlignedRun`, `UnalignedRun` and
`Wake` are the steps of a ticker; `slot` and `lastTick` record which interval the
last tick belongs to. The state of an aggregator plugin is the set of metrics it
got since `Reset`.

**Circonus.** Workers receive batches from the unbuffered channel of `Write`. A
worker looks its destination up, creates it under the write lock if it is missing
(without looking again), records the metric, and adds to `queuedMetrics`: a load
and a store, because no lock protects it. After its batch it flushes under the
read lock; each flush is a goroutine that zeroes the counter and then submits.
The counter is only ever compared with zero and so is a Boolean. A metric of kind
`empty` is one of which nothing is recorded: it adds zero to the counter, and
`erased` records the destinations whose counter was reset that way. TrapMetrics, the
library behind a destination, is external: a failed submission may or may not
keep its metrics. `process` is the life of the agent as `Agent` and `Reload` have
it: outputs connect, or one of them fails and the others are closed, and an
agent that ran returns without closing them.

**Filter.** A compiled list is the set of strings it matches, or `Nil`. TLC goes
through every combination of the eight lists.

## 3. What is checked

| run | instance | shows |
|---|---|---|
| `buffer` | capacity 4, batches of 3, 12 metrics | `RingHoldsNewest`, `BatchPrecedesRing`, `SettledOnce`, `StatsConserved`, `GaugeCurrent`, `AcceptedInOrder`, and that the ring implements the queue (`ImplementsQueue`) |
| `output` | capacity 3, batches of 2, 4 metrics | `CountNeverOvershoots`: the equality test on the counter is never stepped over; `DeliveredInOrder` across retries; `AcceptedIffDelivered`; `ShutdownDrains`; `OverflowReportSound`; `BufferProtocol`: the goroutines use the buffer one batch at a time; `ShutdownCompletes`, `FullBatchWrites`, and `EventuallySettled` provided the ticker ticks and the destination recovers |
| `output_lastwrite` | as `output`, 3 metrics | violation, see findings |
| `tracking` | 2 messages, 2 slots, 2 outputs, processors that pass, clone or drop | `NoPanic` (no negative count, no overflow of the delivery channel), `RefsExact`, `ReportFinal`, `SlotsExact`, `EveryGroupReported` |
| `tracking_processors` | 2 messages, 1 slot | violation, see findings |
| `agent` | all three modes, 2 service inputs that also gather, 1 processor, 1 aggregator with 1 processor, 2 outputs, up to 2 metrics of an input, channels of capacity 1 | `NoPanic`, `DrainedOnReturn`, `SourceOrderKept`; `FailedStartQuiet`: when start-up fails nothing is left running and the input that failed is not stopped; `CancelReturns` |
| `agent_nats` | 1 input | violation, see findings |
| `reload` | 2 SIGHUPs, any number of SIGTERMs, with and without `--once` | `FlagInOnePlace`, `StopHonoured`, `ReloadHonoured` |
| `timing` | interval 5, jitter 2, period 4, grace 1, delay 1, precision 2, ticker late by up to 1, time up to 13, aligned or not, start times {3, 4} | `PaceKept`; `DiscardedOnlyLate`: a metric is discarded only when it or a push was late; `PushedOnce`, `PushesCatchUp`, `CancelPushes` |
| `circonus` | 2 workers, 1 plugin and the agent, 3 metrics (2 with the agent's destination) with something or nothing to record | `NothingStranded` and `AcceptedSettles`, each up to the exceptions it names; `DestinationsBounded` |
| `circonus_submit` | as `circonus` | violation, see findings |
| `filter_namedrop` | 2 names, 1 field, 1 tag, 1 value, every filter | violation, see findings |

*Bounds.* The buffer's metrics are three times its capacity, so the indices wrap
in every combination of ring and batch; the batch does not divide the capacity.
In `output` four metrics overflow the buffer, fill a batch twice, and batches
of two do not divide the capacity. In `tracking` a metric that is cloned has four
references with two outputs, enough for any two goroutines to race for the last
one, and two groups fill the slots and the delivery channel; groups of several
metrics are covered by the proof, which has no bound. In `timing` the interval and
the period have no common divisor, so that ticks fall everywhere in a window; the
two start times are next to and on a boundary of the period, the time left holds
two windows and two ticks, and the one metric may be created, added and pushed at
any moment of it; several metrics are covered by the proofs. Two workers and three metrics of one plugin are one metric more
than it takes for two destinations of one key, so that a third would have to be
possible for `DestinationsBounded` to be broken, and let a worker count while
another flushes and a third metric resets the counter; with the agent's
destination, whose statistics multiply the states, there are two (`MaxMain`). In `agent` the
first input makes two metrics in the modes in which order matters or the channel
of the inputs must be full during start-up, the others one or none (`Load`, given
by `MCAgent`). Channels of capacity one are full whenever one metric is
in them, so every sender blocks somewhere. The bounds on metrics, messages and
pushes are constants in the guards (`MaxMetrics`, `MaxMessages`, `MaxPushes`).

*Deadlock* is checked for `RunningOutput` and `Agent`, where only the state after
the return is final, and in `Agent` the start-up that hangs (`Wedged`, section 5).
The other models come to rest by design, when the metrics
are used up, the clock is at its bound or the process has ended.

*Fairness.* Weak fairness of a goroutine's steps says that the Go scheduler runs
what can run and that the plugins' `Write`, `Gather`, `Add` and `Push` return: in
`Agent` each goroutine of an input, processor, aggregator and output has its own,
and so do start-up and shutdown; in `Tracking` the receiver, the fan-out and, for
each group, whatever handles its metrics (`Handling`: processors, outputs and the
notification); in `Timing` that start-up ends and the two goroutines of the
aggregator run, while nothing makes the clock advance.
Strong fairness is assumed for a case of a `select` that is ready again and again
(Go chooses among ready cases at random): the cancellation in `gatherLoop` (in
`Agent` and in `Timing`) and in `push`, the notification in the receiver of
`nats_consumer`. In `Circonus` weak
fairness of each worker and each flush says that calls to the API and
submissions end; in `Reload` that the agent returns once it is cancelled, which is
`CancelReturns` of `Agent`. In `Tracking` it is also
assumed for `FanTake`, because the channel to the outputs is first-in first-out and
the model keeps counts. Ticks, signals, new metrics and cancellation are not
assumed to happen. `EventuallySettled` takes as its own hypothesis (`Recovering`)
that the ticker ticks and that `Output.Write` does not fail for ever.

## 4. What is proved

Every theorem holds for all values of the constants that satisfy the named
assumption of the module.

| theorem | states |
|---|---|
| `BufferProofs!TypeCorrect` | indices, sizes and counters stay in range |
| `BufferProofs!RingCorrect` | the ring holds exactly the newest `size` metrics, oldest first, and nil elsewhere |
| `BufferProofs!BatchCorrect` | the batch is a run of metrics older than the ring, adjacent to it as long as it can be restored |
| `BufferProofs!SettlementCorrect` | every metric that left ring and batch was accepted or rejected exactly once, one still held not at all |
| `BufferProofs!StatsCorrect` | added = written + dropped + held, and the size gauge is current |
| `BufferProofs!AcceptanceInOrder` | metrics are accepted in the order they arrived, whatever is rejected and retried |
| `BufferProofs!RefinementCorrect` | the ring implements the bounded queue: `Buffer` implements `BufferQueue` |
| `RunningOutputProofs!OutputTypeCorrect` | counters, program counters and locals of an output stay in range |
| `RunningOutputProofs!UsesBufferCorrectly` | the goroutines of an output keep the protocol of the buffer: `RunningOutput` implements `Buffer` |
| `RunningOutputProofs!CountCorrect` | `newMetricsCount` never steps over the batch size |
| `RunningOutputProofs!OverflowReportCorrect` | the warnings never report more drops than there were |
| `RunningOutputProofs!DeliveryOrdered` | `Output.Write` takes metrics in order of arrival, none twice |
| `RunningOutputProofs!AcceptanceCorrect` | a metric is accepted exactly when `Output.Write` took it |
| `RunningOutputProofs!ShutdownCorrect` | `flushLoop` returns with an empty buffer, unless `Output.Write` failed in the last flush |
| `TrackingProofs!NeverPanics` | no reference count goes below zero, the delivery channel never overflows |
| `TrackingProofs!ReferencesExact` | the reference count is the number of metrics of the group that are somewhere |
| `TrackingProofs!ReportsFinal` | one report, after the last settlement, with all verdicts |
| `TrackingProofs!SemaphoreExact` | the semaphore counts the groups not yet acknowledged |
| `AgentProofs!TypeCorrect` | the agent's state stays in range, no channel exceeds its capacity |
| `AgentProofs!FailedStartCorrect` | a start-up that failed has left no service input running, none whose `Stop` waits about to send, and has not stopped the one that failed |
| `AgentProofs!NoPanicCorrect` | no send on a closed channel and no second close, if every `Stop` waits |
| `AgentProofs!DrainCorrect` | when `Run` returns nothing made or summed is left behind, if every `Stop` waits |
| `AgentOrderProofs!OrderCorrect` | the outputs receive each source's metrics in order, unless processors work in the background |
| `ReloadProofs!FlagStaysInOnePlace` | one flag, and only the latest listener is after it |
| `TimingProofs!TickerKeepsPace` | one tick in each interval from the first tick on, however long the start-up took |
| `TimingProofs!OnlyLateDiscarded` | a metric is discarded only when it was later than `grace` or a push later than `delay`, up to the rounding |
| `TimingProofs!AggregatesPushedOnce` | every metric added is pushed once |
| `CirconusProofs!NothingLeftWaiting` | idle workers leave nothing waiting in the map's destinations, unless adding zero has reset the counter |
| `CirconusProofs!DestinationsStayBounded` | at most as many destinations of a plugin as workers |

*Buffer.* The inductive invariant `IInv` is the conjunction of `TypeOK`,
`RingHoldsNewest`, `BatchPrecedesRing`, `SettledOnce`, `StatsConserved` and
`GaugeCurrent`; most are not inductive alone. `RingHoldsNewest` needs
`BatchPrecedesRing`, because `Reject` puts the batch back in front of the ring,
where it belongs only if it is what came immediately before. `SettledOnce` needs
`RingHoldsNewest`, because `add` rejects whatever stands at `last`, which must be
the oldest metric still in the ring. `GaugeCurrent` needs `BatchPrecedesRing`,
because `Batch` does not set the gauge, which stays right only if `batchSize` was
zero. There is a lemma for each action, on lemmas about the index arithmetic and
about how often a metric occurs in a batch. The action property
`AcceptedInOrder` needs besides that what was accepted is older than the batch and
than the ring (`AcceptedOlder`).

*BufferQueue.* Under `IInv` ring and batch are runs of consecutive metrics, and a
run is determined by where it starts and how long it is (`RunEqual`). So each step
is a comparison of runs: appending, taking the tail, splitting and joining runs
gives runs (`RunAppend`, `RunTail`, `RunParts`, `RunConcat`). Only `Reject` into a
full ring joins two sequences that are no run: the batch is then not adjacent to
the ring, all of it is dropped and the ring is left as it is. That `Add` brings a
metric the queue has never seen comes from `SettledOnce`.

*RunningOutput.* The refinement needs only that the writer holds a batch from
`Batch` to `Accept` or `Reject` and that there is one writer at a time
(`ProtocolInv`). It makes every behaviour of an output a behaviour of the buffer, so
that an instance of `BufferProofs` hands the buffer's invariants over; the others
rest on them. `DeliveredInOrder` needs, to be inductive, that what was delivered
is older than the ring and than the batch: `Reject` moves the ring back over the
batch, and must not move it back over anything delivered (`DeliverInv`).
`ShutdownDrains` needs that in the last flush nothing is added any more and that
the ring holds fewer metrics than the batches still to be taken (`DrainInv`); when
a batch is rejected, its first metric is the one that was tried and not delivered.

*Tracking.* A group is live (its count is the number of its metrics, at least
one), ending (the count is zero and exactly one goroutine is about to notify) or
reported (one report, nothing left). `SlotsExact` and the capacity of the delivery
channel follow from one inequality: reports in the channel, groups not yet
reported and the one the receiver has in hand are no more than the slots
taken, and those no more than `MaxUndelivered`.

*Agent.* Five layers, each resting on the ones before.
(1) `Types`: the types part by part. They are not inductive separately, as the
forwarder's position is needed for the aggregators' (`AggEnd`) and both for what
flows (`FlowType`).
(2) `StartInv`: until everything is started nothing is closed, forwarded or pushed,
the inputs are started in their order, and a start-up that fails after it closed
part of the chain has not started an input. On it rests `UnwindInv`: while
`startInputs` gives up, the inputs that still run are those from the next one to
stop up to the one that failed, and an input whose `Stop` waits has something in
flight only while it runs; hence `FailedStartQuiet`.
(3) `CloseInv`: a stage has closed the channel it writes to exactly when it is
over (`Closers`), it is over only when what it reads is closed and empty
(`Enders`), and the inputs' channel is closed only after gathering has ended and
every service input was stopped (`InputEnd`). A goroutine that sends is in a stage
that is not over, and no two stages write to one channel, except that originals
and aggregates meet in the outputs' channel, which is closed after both. From this
`NoPanic`.
(4) `HeldInv`: every metric made is in a channel, in the hands of a processor or of
the forwarder, received or dropped. When `Run` returns every stage is over, and
with `CloseInv` every channel is empty, hence `DrainedOnReturn`. This needs
`NoPanic`, as a send that panics loses its metric.
(5) `OrderInv`: the places a metric passes get a rank, the distance to the outputs;
what is in a place of lower rank is older than what is in one of higher rank,
source by source. The ranks of the chain of the originals and of the chain of the
aggregates overlap, and no metric is ever in the other chain (`Lanes`). Every step
drops a metric, moves the first one of a place to the next place of its chain, or
brings a new one behind all others of its source; each of the three keeps the
order (`LoseKeeps`, `MoveKeeps`, `GainKeeps`).

`NoPanicCorrect` and `DrainCorrect` assume `StopsWait`: that `Stop` of every service
input returns only when its goroutines have delivered, the contract in
`cua/input.go`. Without it both are false, see finding 3. The other theorems do
not assume it.

*Reload.* The strengthening says that while the flag in the channel is true, or
the loop is between taking it and listening again, no listener is after it.

*Timing.* For the ticker, the invariant bounds, in each state of its timer, how
far the pending alarm or expiry is from the interval it belongs to; that jitter
and lags fit into one interval (`TickerAssumption`) is what makes the next
alignment the next interval. Nothing is assumed of when the ticker was made: the
intervals are counted from the first tick. For the window, the invariant says that
it ends at the boundary after as many periods as there were pushes, and that
before the last push a boundary is passed only once the clock has; nothing is
assumed of the lateness of pushes and metrics, which the property names instead.

*Circonus.* `NothingStranded` is not inductive: a metric may wait in a
destination as long as somebody is bound to flush it. The invariant says of every
destination of the map with unsettled metrics that a worker is still counting
them, or the counter is set and a worker has yet to look at it, or a flush is
about to submit it, or the counter was reset by `+= 0` and nothing was counted or
submitted since (`erased`, see section 5). `DestinationsBounded` counts, with a plugin's destinations, the
workers that found none and are about to create one.

*Only model-checked:* the liveness properties (`CancelReturns`,
`ShutdownCompletes`, `FullBatchWrites`, `EventuallySettled`, `EveryGroupReported`,
`StopHonoured`, `ReloadHonoured`, `PushesCatchUp`, `CancelPushes`,
`AcceptedSettles`), as neither
fairness nor `ENABLED` is in the prover's reach. Every other property that a passing
run checks, invariant, action property or refinement, has a theorem.

## 5. Findings

Each is a run whose property states what a comment, a doc, a test or an assertion
of the repository says, and which TLC refutes.

1. `output_lastwrite`: "On shutdown metrics will be written one last time"
   (`agent/agent.go:710`). `Write` returns at the first batch that fails, and the
   batches behind it are not tried.
2. `tracking_processors`: `dedup` removes a repeated tracked metric without
   settling it, and `unpivot` settles everything but its base copy; the
   consumer's slot is lost, and after `max_undelivered_messages` of these it
   stops. A starlark script that fails on a tracked metric rejects it, then the
   caller drops it; one that returns `deepcopy(metric)` returns a copy whose
   reference was dropped already; either runs into `panic("negative refcount")`.
   With `Careless` set to any one of the four the property is refuted as well.
3. `agent_nats`: `Stop` of `nats_consumer` returns before the receiver is
   through, which then sends on a channel that gets closed.
4. `circonus_submit`: "Write should write immediately to the output"
   (`docs/OUTPUTS.md:63`), "Close is called once when the output is shutting
   down" (`cua/output.go:8`). `Write` of the circonus output returns when a worker
   has taken the batch, and an orderly shutdown does not call `Close`, which
   would wait for the workers. Metrics reported as delivered are lost when the
   process ends, when their submission fails, or when their destination is
   replaced by that of another worker (`metric_destination.go:75`).
5. `filter_namedrop`: "If a match is found the metric is discarded"
   (`docs/CONFIGURATION.md:458`, `models/filter_test.go:171`). `shouldNamePass`
   lacks the negation: metrics that match are kept, the others dropped.

Noticed on the way, without a run:

- While a batch is out an output holds up to `metric_buffer_limit` metrics *and*
  the batch (`StatsConserved` allows for it), and `Write` also sends metrics added
  after it looked at the buffer's length.
- With `--once` `Stop` is also called on service inputs that did not start, while
  `testStartInputs` is said to return "only plugins successfully started"
  (`agent/agent.go:319`).
- A start-up that fails at an input can hang for good (`agent/agent.go:252`):
  `stopServiceInputs` runs before anything reads the channel of the inputs, so when
  that is full a `Stop` that waits for a metric in flight, as `cua/input.go` demands,
  never returns, and cancellation does not end it. `CancelReturns` names this state
  (`Wedged`) as its exception.
- `NothingStranded` and `AcceptedSettles` except destinations whose counter was
  reset: `queuedMetrics += 0` (`metrics.go:174`) can write back a zero over the
  count of another worker, whose metrics then wait until something else is recorded
  for that destination. `AcceptedSettles` also excepts what a replaced destination
  holds and what the process has in hand when it ends; finding 4 is about these.
- A SIGTERM that arrives after the listener has taken a SIGHUP goes to a channel
  nobody reads, until the next generation listens; `StopHonoured` is about
  signals the current listener gets to see.
- The warnings about dropped metrics can report too few: drops between the load and
  the store of `droppedMetrics`, and those of `Reject`. `OverflowReportSound` is
  about the other direction.
- `runInputs` gives the aligned ticker the start time from before the outputs were
  connected. Its first tick comes as long after the ticker was made as the next
  alignment was from that start time: late by the time the start-up took, despite
  "The first tick is emitted at the next alignment" (`agent/tick.go:26`). The ticks
  after it are aligned again. `PaceKept` counts from the first tick, and
  assumes that jitter and lags are smaller than the interval.
- "any metric created after start time will be aggregated" (`agent/agent.go:573`)
  holds only as far as `DiscardedOnlyLate` says: with the default grace of zero a
  metric that arrives just after a push with a time just before it is discarded,
  and when the start-up lasts past the end of the first window by more than
  `delay`, so are the metrics that reach `Add` before the pushes have caught up.
- `circonus.Initialize` keeps the configuration of the first generation and
  `AddGlobalTags` appends at every reload (`internal/circonus/circonus.go:180`).

## 6. What is not modelled

- *Time* in `Agent`, `RunningOutput` and `Circonus`, where ticks and periods happen
  at any moment; changes of the system clock; the intervals of `RollingTicker`.
- *Data*: names, tags, fields and values outside `Filter`. What a filter selects
  is nondeterministic in the other modules.
- *Panics* inside plugins; `panicRecover` does not see those of `Gather`, which
  runs in a goroutine of its own.
- `--test`, which prints instead of writing, and the Windows service.
- `parallel.Ordered`, the rate limiter, the restart of external processes, log
  rotation and the registry of selfstats.
- State that survives a reload in package variables: the API client, its caches
  and the global tags.
- Configuration, parsers, serializers and the other plugins, which are nearly all
  of the repository's lines: conversions and system calls behind the interfaces
  the agent uses, on which a model would have little to add to their tests.

## 7. Plan

1. *Prove.* What `TrackingProcessors` keeps of `Tracking`'s invariants when no
   processor is careless.
2. *Compose.* `Tracking` over `RunningOutput`'s settlement; `RunningOutput` over
   `Circonus`.
3. *Model.* `parallel.Ordered`; the registry of selfstats; the rate limiter and
   the restart of external processes.
