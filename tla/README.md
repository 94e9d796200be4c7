# A TLA+ verification of gostats

gostats aggregates counters, gauges and timers in process and sends them, as
statsd lines, over a TCP or UDP connection. Its hot path takes no lock: counters
are pairs of atomic words in a `sync.Map`, and idle ones are pruned by `Flush`
while other goroutines write to them. This directory holds TLA+ modules of that
code, the TLC configurations that check them on small instances, and proofs that
TLAPS checks for every value of the constants. Paths and line numbers are those
of the repository; `PROJECT.json` maps every definition to its lines.

Contents: [the system](#1-the-system), [the modules](#2-the-modules),
[the runs](#3-the-runs), [the proofs](#4-the-proofs),
[what disagrees](#5-where-the-code-and-its-words-disagree),
[what is left out](#6-what-is-not-modelled), [the plan](#7-the-plan),
[how to run it](#8-running).

## 1. The system

| component | state | operations | interacts with | what is hard |
|---|---|---|---|---|
| counters (`stats.go` 296-394, 556-603, 640-660) | `statStore.counters`; per counter `currentValue`, `lastSentValue`, `idleFlushes`, `detached`; `flushMu` | lookup, `Add`, `Set`, `Inc`; `maybeRejoin`, `rejoin`, `latch`; the counter half of `Flush` | any goroutine that holds a reference; the sink | everything is concurrent: a write may fall between any two steps of a `Flush` that is pruning the counter |
| timers (`stats.go` 428-471, 604-615, 715-755) | `statStore.timers`; per timer `active`, `idleFlushes`, `base` | lookup, `AddValue`, `AddDuration`, timespans; the timer half of `Flush` | the sink, directly | use of a timer after it was pruned and replaced |
| gauges (`stats.go` 396-426, 617-620, 688-721) | `statStore.gauges`, one atomic word each | lookup, `Set`, `Add`, `Sub`, ... ; emitted by every `Flush` | the sink | two goroutines that create one gauge; subtraction in `uint64` |
| prune threshold (`stats.go` 224-283, `settings.go` 68-124) | `pruneAfterFlushes`; the ticker | read once from the environment | counters and timers, whose age is counted in flushes | integers: rounding, overflow, truncation to `uint32`; seconds turned into ticks of another clock |
| flush lifecycle (`stats.go` 541-566, 617-632) | the ticker, the context; `statGenerators` under the `RWMutex` `mu`; `flushMu` | `Start`, `StartContext`, the flush on exit, `AddStatGenerator`, `Flush` by any goroutine | counters, gauges, generators, the sink's `Flush` | two locks, one inside the other; a `Flush` that finds its work done by another; what the last one owes |
| network sink (`net_sink.go`) | the shared `bufio.Writer` under `mu`; channels `outc`, `retryc`, `doFlush`; the connection | `FlushCounter/Gauge/Timer`, `Flush`; the goroutine `run` | the network; callers of `Flush` | a write that fails half way, retry, a dial that never succeeds, full channels, and not blocking on itself |
| scopes and names (`stats.go` 630-856) | a scope's name and its tags | `Scope`, `ScopeWithTags`, `New...`, `New...WithTags`, `NewPerInstance...` | tag sets, store | the same tags given by another route must give the same name |
| tag sets (`internal/tags/tags.go`) | none: pure functions on sorted slices and texts | `NewTagSet`, `Sort`, `Search`, `Insert`, `MergeTags`, `MergePerInstanceTags`, `Serialize`, `ParseTags`, `ParseTagSet` | scopes | hand-written sorting networks; a merge that overwrites one of its inputs; a format without escapes |
| HTTP handler (`stat_handler.go`, `stat_handler_wrapper*.go`) | a map of counters by status code under an `RWMutex`; per response `headerWritten` | `ServeHTTP`, `WriteHeader`, `Write`; what the wrapped writer offers besides | store, `net/http` | double-checked locking; `WriteHeader` called twice, never, or behind the wrapper's back |
| mock sinks (`mock/sink.go`) | maps of sums | `Flush...`, `Reset`, queries | tests | lock-free addition of floats while `Reset` swaps the map |
| runtime statistics (`runtime.go`) | none | `GenerateStats`: reads the runtime, sets gauges and counters | `Flush`, as a generator | which `Flush` sends what was read |
| logging and null sinks | none | format a line, or nothing | | nothing that has state |

What makes them correct:

* counters: what is written is reported exactly once, whatever is pruned or
  reattached meanwhile; no counter anybody holds becomes unreachable for `Flush`;
  only idle counters are pruned, and idle counters are pruned in the end;
* timers: only timers unused for the threshold are removed, and what is removed is
  the object that was found idle;
* threshold: a counter survives at least the seconds asked for, and not much longer;
* network sink: lines reach the wire in order and at most once; a line not sent is
  still held somewhere or was dropped and counted; `Flush` delivers what was
  written before it; neither `Flush` nor the goroutine behind it blocks for ever;
* flush lifecycle: a `Flush` that returns has sent everything it was called for, and `StartContext`
  does not return before that holds of what precedes the end of its context; every
  generator added before a `Flush` runs in it;
* gauges: racing to create one loses nothing that is written to it;
* HTTP handler: one counter per status, and each response counted once, under the status its
  client gets;
* tags: equal tags make equal names, by every route, and the text of a name parses back.

## 2. The modules

### CounterStore

State is the code's: the map (`counters`: the occupant of each name or `None`),
the four fields of every counter, `flushMu`, and for each goroutine where it is
(`pc`) and its local variables (`frame`). `held` is the set of objects a lookup has
returned: nothing in Go takes a reference back, so it only grows and any object in
it can be written to at any moment. `added`, `reported` and `quiet` are history.

A step is one atomic operation: one `atomic` load, store, add or CAS, one `sync.Map`
call, one lock operation. What a goroutine computes in its locals belongs to the step
before; so does `idleFlushes`, which only `Flush` touches, under `flushMu`.

| actions | code |
|---|---|
| `LookupHit`, `LookupMiss`, `Create` | `newCounter` 647-660: `Load`, then `LoadOrStore` |
| `Add`, `Set` | 308-316, the write alone |
| `MaybeRejoin` | 318-325, the load of `detached` |
| `RejoinAttach`, `RejoinOther` | 327-353: reattach, or forward to the occupant |
| `LatchLoad`, `LatchLoadLast`, `LatchCas` | 383-392, in the order of the code |
| `Forward` | 349-351 |
| `FlushLock`, `Visit`, `VisitActive`, `VisitIdle`, `Delete`, `Detach`, `RecheckActive`, `RecheckIdle`, `FlushUnlock` | 557-603 |

`latch` has three callers; `frame.ret` says where it returns. `counters.Range` visits
the names present when it reaches them, in any order, each at most once (`todo`).

### Ledger and CounterLedger

`Ledger` is what a store promises whoever counts with it: per name, `outstanding` and
`reported`; `Add` raises the one, `Report` moves from it to the other, and reports never
cease while something is outstanding. It knows no objects and no pruning.
`CounterLedger` maps `CounterStore` to it: `reported` is `reported`, and `outstanding` is
`Owed`, the part a counter still holds (`currentValue - lastSentValue`) and the part that a
`latch` has taken out and not sent yet. Each step is an `Add`, a `Report` or a
stutter. The mapping needs one object per name, without `Set`: with two, the
`latch` race of section 5 breaks the promise. `Pipeline` builds on the promise.

### TimerStore

The same map and the same `Flush`, but a timer keeps no value: `AddValue` sets
`active` and then calls the sink (`AddValue`, `FlushTimer`: two steps, since a `Flush`
may run between). `SwapUsed`, `SwapUnused` and `Delete` are the body of
`timers.Range`. The values measured are abstracted away; what is kept is the
object and its unit.

### PruneTiming

`PruneAfterFlushes` is `pruneAfterFlushesFromEnv` in Go's arithmetic: `Wrap` is the
overflow of an `int` whose largest value is `MaxInt`, `Uint32` the truncation,
`Quotient` division that truncates towards zero. The state machine follows one counter
second by second: `Second`, `Write`, `Flush`. `Drivers` says who calls `Start`: the
program with a ticker of the configured interval, `NewDefaultStore` with statsd
(the same), or `NewDefaultStore` without it (a ticker of ten seconds, whatever the interval is:
`stats.go:275`). The two bounds on an idle counter's life are therefore stated in units of the
ticker: `age * interval` against `prune * period`, which is seconds against seconds when the two
agree.

### NetSink

The channels are sequences, the `bufio.Writer` a sequence of lines, and a buffer in a
channel says whether a failed write has cut its first line. Lines are numbered in the
order in which their writers take `mu`. Callers: `WriteLock` and `WriteLine`
(`writeBuffer`, a section under `mu` split at its channel operation), `FlushStart`,
`FlushSend`, `FlushReturn`. The goroutine `run`: `ConnectOk`, `ConnectFail`, `Wake`
(the sleep), `DrainOne`, `DrainEnd`, `Connected`, `Retry`, `DropRetry`, `Tick`,
`TakeFlush`, `FlushOne`, `FlushAnswer`, `TakeBuffer`, `Requeue`. A dial may fail, and
so may any write, after any prefix of its data. The formatting of lines, write
deadlines and the pool of buffers are abstracted. The bytes of a buffer (`Bytes`) are counted in
closed form, the ordinary part of each line and what the long ones have more, and not summed
by a fold, so that the proofs can use them.

### Lifecycle

What surrounds the ranges of `Flush`: `StartContext` (`SelectTick`, `SelectDone`), users that call
`Flush` (`UserFlush`), and then for each caller `FlushLock`, `RLock`, `Generate` once per
generator, `RUnlock`, `Latch` and `SendCounter` per counter, `RangeGauges`, `SendGauge`,
`SinkFlush`, `FlushReturn`. `AddLock`, `AppendReads` and `AppendStores` are `AddStatGenerator`: Go's
`Lock` holds off new readers first and then waits for the one inside. `LoadGauge`,
`CreateGauge` and `WriteGauge` are `newGauge` and `Set`, `Add`, `Sub`. A counter is the sum `Ledger`
makes of it. `Generate` does what `runtime.go` does, and may meet a counter that grows. The
sends to the sink are the histories `reported`, `flushed` and `shown`.

### Pipeline

`NetSink` with a caller named `Loop`, which is `StartContext`: its `Flush` turns each outstanding amount
of an instance of `Ledger` into a line (`FlushCounter`), calls the sink's `Flush` (`FlushSink`) and
waits for it (`FlushDone`). Users add to counters and time things (`Add`, `AddValue`). `carries`
says what each line adds to each counter. Where `NetSink` has callers that do anything at
any time, `Pipeline` has the one order in which `Flush` does it.

### StatHandler

Each request runs its delegate, which makes up to `MaxOps` calls in any order, returns or panics.
`WriteHeader` and `Write` lead into `counter`: `RLock`, `RUnlock`, `Lock`, `Locked`, `Unlock`, then `Inc`.
`WrapResponse` picks the first of `Cases` (16 since Go 1.8, 8 before) whose
interfaces are all there. `FinalStatus` and `Flush` are those of `net/http`: external.

### TagSort, TagMerge, Scopes, TagNames, TagText

`TagSort` holds the comparisons of every network in the code and makes one per step.
By the 0-1 principle a network that sorts every sequence of zeroes and ones sorts
every sequence. `TagMerge` is the loop of `mergeTagSets` on the slice it shares with
one of its inputs, one tag per step. `Scopes` uses what those two compute as
definitions (`Sort`, `MergeTagSets`) and transcribes the rest of the tag set's
operations; its state machine goes down a chain of scopes and creates a stat with
every kind of method. `TagNames` puts `Scopes` and `TagMerge` side by side, each with keys of its
own. `TagText` is the one module about text: a text is the sequence of its
bytes, `SerializeTags` writes it and `ParseTags` and `ParseTagSet` take it apart.

`MCCounterStore`, `MCTimerStore`, `MCPruneTiming`, `MCNetSink`, `MCPipeline`, `MCLifecycle`,
`MCStatHandler` and `MCNames` (which runs the four modules of tags and names side by side)
give the constants values and symmetries for TLC. `CounterStore_proofs` (which also covers
`CounterLedger`), `TimerStore_proofs`, `PruneTiming_proofs`, `NetSink_proofs` (also `Pipeline`),
`Lifecycle_proofs`, `StatHandler_proofs` and `Names_proofs` (`TagNames`) hold the
theorems, and `FiniteLemmas` the facts they share: induction, sums over finite sets, and the order of
a finite set.

## 3. The runs

| run | instance | shows |
|---|---|---|
| CounterHeld | one counter, two writers, two flushers, threshold 2, four writes | `Attached`, `NoStranded`, `PrunedOnlyWhenIdle`, `EventuallyPruned`, and the refinement `ImplementsLedger` |
| CounterRivals | two objects for one name, two writers, threshold 1, `Add` and `Set` | `TypeOK`, `Conservation`, `NameKeepsItsCounter` |
| TimerPruned | two timers for one name, two writers, two flushers, threshold 2 | `PrunedOnlyWhenUnused`, `DeletesWhatItAged`, `EventuallyPruned` |
| PruneTiming | all settings from -1 to 12 seconds, intervals from -1 to 4, 12, unset and malformed, under each of the three tickers | `RoundedUp`, `SurvivesRequested`, `PrunedInTime` |
| NetSink | two callers, three lines of which one longer than a buffer, `outc` of two | `RetryNeverBlocks`, `SentInOrder`, `EachLineOnce`, `FlushDelivers`, `DropsNotOverstated`, `NobodyForgotten` |
| Pipeline | `StartContext` and a user, two calls, two lines, buffers of one line, `outc` of one | `ExitDelivers`, `StopsWhenCancelled`, `AddedArrives` |
| Lifecycle | `StartContext` and two users, two generators, a counter, a gauge, two calls that write or register | `FlushSendsAll`, `ExitSendsAll`, `GeneratorsSeen`, `GaugesShown`, `NoCircularWait` |
| StatHandler | two requests, three codes (200, 404, 103), two calls each, any set of interfaces, Go before and since 1.8 | `MapExclusion`, `CreatedOnce`, `CountedOnce`, `CountedAsSent`, `OffersTheSame`, `CountingEnds` |
| Names | chains of three calls over three keys (`_f`, a reserved one, another) and three values; all 0-1 sequences up to eight; all pairs of sets of up to five keys; some ten thousand texts | `NamedAfterItsTags`, `InstanceOfScope`, `SortedAtTheEnd`, `Merged`, `RoundTrip`, `ParsersAgree` |
| CounterLatch | as CounterRivals | refutes `LatchNeverRegresses` |
| TimerReattach | one timer, two writes, of which one may come after a prune | refutes `WriteReattaches` |
| PruneOverflow | integers of 8 bits | refutes `RoundedUp` |

Every module states its type invariant. The runs list that of `CounterStore`, where it holds the
`uint64` arithmetic in its words; those of the other modules, and `UnreadIntact` of `TagMerge`, which
says why `Merged` holds, pass as well when a configuration names them.

Bounds, and why they are enough:

* *Counters.* Four writes let a counter be written, pruned, rejoined, written and pruned
  again. Two writers and two flushers give every pair of concurrent calls: two latches
  of one counter, rejoin against Flush, and Flush against Flush. `Modulus` is 16, larger
  than any sum in CounterHeld, and small enough for `Set` to make deltas wrap in
  CounterRivals. Objects per name are bounded by `Counters`: with all allocated a miss
  of a lookup is disabled, which no property of a finished state depends on, and the
  fairness conditions do not mention lookups.
* *Timers.* As for counters; threshold 2 keeps ageing and deleting apart.
* *PruneTiming.* `MaxAge` is the longest that twelve seconds, in flushes of the slowest ticker, can
  ask for. The interval of 12 is longer than the ten seconds of the logging sink's ticker.
  `MaxUint32` is 7, so both sides of the clamp occur.
* *NetSink.* A buffer takes two lines, so it is full, half full and empty; `outc` of two
  and three lines give order between buffers as well as a full channel; `doFlush` holds
  one caller, so that the second blocks. In the code `doFlush` holds 8 callers and `outc` 64
  buffers over TCP (2929 over UDP): nothing depends on the number but the room it leaves.
* *Pipeline.* `BufSize` 2 and lines of size 2: each line fills a buffer, so one more does not fit
  and two lines overfill `outc`. Two calls are a counter and a timer, or one counter flushed
  twice. Larger instances exceed the time a run may take; the wider cases of the sink are in
  NetSink.
* *Lifecycle.* `Modulus` 4 makes subtraction wrap. Two calls let two users race for the same gauge,
  two generators be added while `Flush` runs, or an `Add` fall into any gap of a `Flush`; calls
  of `Flush` and ticks are not bounded. No fairness: that waiting ends is `NoCircularWait`, an
  invariant, and that everything goes on is checked in Pipeline.
* *StatHandler.* Two requests are one writer and one reader, or two writers, of the map. Two calls
  are enough for every exception `CountedAsSent` names.
* *Tags.* `Sort` has networks for up to eight tags, and all of them are run; five keys
  reach every branch of the merge, with either tail, and with up to two tags less than
  the slice has room for. Names, keys and values of up to three bytes hold each byte of the
  format and its separator, whole and in part; up to two tags make up a stat. Other
  texts are made of up to five pieces: letters, `:`, `=` and the separator.

Deadlock is checked, except in StatHandler, where requests end, and in Names, which computes
results and stops.

**Fairness.** `Fairness` of `CounterStore` and `TimerStore`: a goroutine that is inside a
call makes progress (the Go scheduler runs every runnable goroutine and none of these
calls blocks, but for `flushMu`), and a flusher calls `Flush` again (the ticker). No
writer has to look anything up or write. Weak fairness is enough for the mutex: its
holder needs the same flusher's next `FlushLock` only once it is free, and any
flusher that gets it does the work. `PipelineFairness`: `run`, `StartContext` and whoever is
inside the sink keep running (weak); a `select` does not for ever pass over a case that is
ready again and again (strong fairness of `SelectDone`, `Tick`, `TakeFlush`, `TakeBuffer`: Go
chooses uniformly). Nothing is assumed of users or of the network: `StopsWhenCancelled` holds
though every dial fails, and `AddedArrives` is conditional on the connection staying up from
some moment on. `Fairness` of `StatHandler`: goroutines run, and one that waits for
`codesMtx` gets it (strong: Go's `RWMutex` queues them); a delegate may keep its request for ever.

Every property of a passing run has a mutant in `PROJECT.json`: an operator with a
plausible mistake in it, written before the one it would replace and marked "mutated
form of", under which TLC refutes the property on the same instance.

## 4. The proofs

Every `*_proofs` module proves `Spec => []Inv` for its component with no bound on goroutines,
names, objects, keys, settings, widths or lengths: the constants are arbitrary, but for the named
assumption of the module (which TLC evaluates in every run) and the hypotheses a theorem states.

| theorem | statement |
|---|---|
| **CounterStore_proofs** | |
| `TypeCorrect` | `[]TypeOK`: in particular the `uint64` arithmetic stays in its words |
| `NeverOrphaned` | `[]Attached`: a held counter outside the map is detached, or about to be |
| `FlushesSerialized` | `[]FlushSerialized` |
| `PrunesOnlyIdle` | `[]PrunedOnlyWhenIdle` |
| `NamesKept` | `NameKeepsItsCounter`: only the `Flush` that prunes a counter takes its name away |
| `ValuesConserved` | with finitely many counters and goroutines, `[]Conservation`: any number of objects to a name, `Set`, and latches that collide included |
| `NothingStranded` | with one object per name, `[]NoStranded` |
| `ImplementsLedgerSteps` | with one object per name and no `Set`, while no counter is full, the store implements `Ledger`, step by step |
| `NothingLost` | and what was added to a name is what was reported and what is owed |
| `FewWritesFit` | when all the writes together fit in a counter, no counter is ever full: the two theorems above hold without that hypothesis |
| `LatchesGoForward` | and `LatchNeverRegresses` |
| **TimerStore_proofs** | |
| `PrunesOnlyUnused` | `[]PrunedOnlyWhenUnused` |
| `DeletesOnlyAged` | `[]DeletesWhatItAged`: what is deleted by name is the object that was swapped |
| **PruneTiming_proofs** | for settings whose sum does not overflow |
| `ThresholdIsEnough` | `[]RoundedUp` |
| `IdleCountersSurvive` | with a ticker of any period, `[]SurvivesRequested` |
| `IdleCountersGo` | and `[]PrunedInTime` |
| **NetSink_proofs** | |
| `RetryBufferSuffices` | `[]RetryNeverBlocks` |
| `WireInOrder` | `[]SentInOrder` |
| `OnePlaceEach` | `[]EachLineOnce` |
| `FlushIsComplete` | `[]FlushDelivers` |
| `CountIsLowerBound` | `[]DropsNotOverstated` |
| `RequestsAreKept` | `[]WaitOK`: a caller waiting in `Flush` is queued, being answered or answered, and one of these only |
| `RunsTheSink`, `RunsTheStore` | `PipelineSpec` implements `Spec` of `NetSink`, and `Ledger` |
| `LastFlushIsComplete` | `[]ExitReportsAll`: the last `Flush` reports what was added before the cancellation, in lines that are all on the wire, or were dropped and counted |
| `ExitFlushDelivers` | `[]ExitDelivers`: those lines carry, summed up, at least what was added to each counter; if the sink gave that `Flush` up, or a write failed, together with the lines on their way to `run` |
| **Lifecycle_proofs** | |
| `FlushDeliversItsDue`, `ExitDeliversAll` | `[]FlushSendsAll`, `[]ExitSendsAll` |
| `GeneratorsRunInEveryFlush` | `[]GeneratorsSeen`; in particular none runs twice in a `Flush` |
| `GaugesShownAsWritten` | `[]GaugesShown` |
| **StatHandler_proofs** | |
| `MapExclusive`, `CountersCreatedOnce` | `[]MapExclusion`, `[]CreatedOnce` |
| `ResponsesCountedOnce`, `ResponsesCountedAsSent` | `[]CountedOnce`, `[]CountedAsSent` |
| `WrapperIsTransparent` | `[]OffersTheSame`: for each of the 16 sets of interfaces (8 before Go 1.8) |
| **Names_proofs** | with finitely many keys |
| `MergeComputesUnion` | `[]Merged`: the merge in place leaves the union, in order, for any two sets that fit |
| `UnreadStaysIntact` | `[]UnreadIntact`: it never overwrites a tag it has still to read |
| `ScopesTyped` | `[]TypeOK`: the tags of every scope and stat are sorted, with distinct keys, and clean |
| `NamesCarryTheirTags` | `[]NamedAfterItsTags`, for chains of scopes of any length |
| `InstanceFromScope` | `[]InstanceOfScope` |

In every module `Invariance` (`PipelineInvariance` for the pipeline, `MergeInvariance` and
`ScopeInvariance` for names) is the theorem the others rest on: `IInv` holds at first, each action
keeps it, and it implies the properties. None of the properties
is inductive as it stands. What `IInv` adds:

* *Counters.* `Detach` sets the flag of the object the flusher has deleted, and `Delete` removes
  whatever occupies the name, so one has to know that the two are the same object: what the locals
  of a call refer to and where `latch` returns (`CallsOK`); a name is occupied by an object created
  under it (`OccupantsOK`); who is inside `Flush` owns `flushMu` (`FlushSerialized`); and the object
  being visited stays the occupant until this `Flush` deletes it, since writers fill empty names
  only (`VisitedInMap`). `PrunesOnlyIdle` adds `QuietOK`, which ties `idleFlushes` to the history
  of visits; `NothingStranded` adds that nothing is forwarded (`NoForwarding`), and where the second
  latch of a pruning `Flush` looks (`RecheckOK`).
* *The books.* `Conservation` is a remainder, and sums over what is left out of it at any moment; the
  invariant is the balance itself, `Books(n)`: reported, plus what waits in each counter of the name,
  plus what each call carries, minus what was added, is a multiple of `Modulus`. A step changes one
  counter and one call, and the balance by nothing or by one `Modulus` (a word wraps); a latch that
  collides takes from the counter exactly what it then carries, however wrong. What a call
  forwards must go to a counter of the same name: `CallsOK` says so (`Namesakes`).
* *The ledger.* `LatchOK`: nobody changes `lastSentValue` under a latch, and what the latch
  read first is still pending (`Fresh`), so its delta is part of what is owed. Then `Owed` changes
  with an `Add` and with a report, and no other step is seen. `Fits` says that an `Add` does not
  overflow what is pending; `FewWritesFit` proves it from the size of all writes, as it holds in
  CounterHeld. `Straight` (no counter has wrapped) turns `Fresh` into `LatchNeverRegresses`. The
  condition of one object is real: CounterLatch refutes the property with two.
* *Timers.* `MarksOK`: `active` and `idleFlushes` are what happened since; `AgesOK`: an occupant
  that has reached the threshold is being deleted, so no `Flush` swaps it again; `CreatorsOK`:
  the object a lookup is about to store is its own.
* *Timing.* `LifeOK`: an idle counter is between `idleFlushes` periods and one period more old,
  and what has passed since the last tick. The threshold is `ThresholdOK`: its product with the
  interval is neither below the seconds asked for (unless it is clamped) nor a period above;
  `FlushesLast` and `FlushesEnd` turn it into time under a ticker of any period. The hypotheses are
  `NoOverflow` (PruneOverflow shows the contrary) and `AgesCounted` (the model's bound on ages
  exceeds what the settings ask for, in the slowest ticker). The run PruneTiming meets both.
* *The sink.* The sink is one queue (`OrderOK`): the wire, then what `run` could not write, then
  `outc`, the buffer, and the line being written, with every line of one before every line of
  the next; `PlacesOK` makes that all there is. This is kept by a retry only because `run` takes
  nothing from `outc` while it holds a buffer it could not write: `RunOK` says that then `retryc`
  is empty and the connection closed. `FlushOK` follows a request: the lines written before
  it are ahead of it (`Ahead`), and, while `run` answers it and no write has failed, within the `left`
  buffers still to be taken (`AnswerOK`).
* *The pipeline.* `AmountsOK`: what was added before the cancellation is reported, but for the
  counters the last `Flush` has still to visit; `LinesOK`: the lines due are numbered before that
  `Flush` asks the sink, hence out when it is answered. The sink's `IInv` comes with `RunsTheSink`.
  `ExitFlushDelivers` adds `ReportedInLines`: what is reported of a counter is the sum of what the
  lines written so far carry of it. A sum over the lines that have left is no smaller than one over those
  that were due. `LeftOK` is for a `Flush` given up: once the sink's part of the last `Flush` has
  emptied the buffer, no line due is in it or being written (`Behind`), so by `PlacesOK` it has
  left, or is in a channel or in the hands of `run`.
* *The lifecycle.* `SumsOK`: what was added is outstanding, reported, or in the hands of the
  owner of `flushMu`, and nobody else has anything in hand (`LocksOK`, `HandsOK`); `DueOK`, `MadeOK`
  and `ShownOK` follow each `Flush` past counters, generators and gauges; `RegistryOK`: what
  `append` reads under the lock is what it stores; `OnceOK`: it holds no generator twice; `RunsOK`:
  a generator this `Flush` has still to run has not run in it; `GaugesOK`: a gauge has one object.
* *The handler.* `LockOK` for the map; `CountOK` and `StatusOK` follow each response between the
  wrapper's view (`headerWritten`) and that of `net/http`.
* *The merge.* `MergeInv`: what has been written is the beginning of the union (`Written`), nothing
  still to be read has been written over (`Intact`), and `k` is at most `i + j` (`MergeTypes`), which
  is why: the unread part of the second set starts at `j` plus the length of the first.
* *Names.* `ScopeInv`: a scope's tags are the one sorted sequence of the set it was given, with
  distinct keys, and so are a stat's. A sequence sorted by distinct keys is determined by its set
  (`SortUnique`); the binary search finds where a key is or belongs (`SearchSplits`), so that
  `Insert`, `MergeTags` and `MergePerInstanceTags` each make that sequence of the set they should
  (`InsertSorts`, `MergeTagsSorts`, `MergePerInstanceTagsSorts`), whatever the lengths.

`FiniteLemmas` does the inductions these sums, sequences and searches need. The library states
induction for a predicate, which cannot be used here; it is stated for the *set* of what has the
property instead, and follows from the least element of a set of naturals, which the library
states for sets. The functions that recur over subsets or positions get their equations the same
way: that a function with these equations exists is shown by induction on the size.

What each assumption asks: constants of the right type, capacities that are not zero, sinks whose
buffers hold one line, `None` outside the sets it is added to, `Writers` and `Flushers` disjoint,
in Lifecycle `GaugeNames` and `Generators` disjoint (no user writes a gauge a generator writes),
keys that are numbers, and in Scopes that cleaning empties no text and leaves the default instance
(the text `i`) alone. The theorems with a sum or a set of tags ask, as hypotheses, that counters,
goroutines or keys are finitely many, as those of a program are.

Only model-checked, and why:

* Liveness under fairness, which TLAPS does not do: `EventuallyPruned`, `StopsWhenCancelled`,
  `AddedArrives`, `CountingEnds`, and the fairness in `ImplementsLedger`.
* What is said with ENABLED: `NoCircularWait`, and `NobodyForgotten`, whose first half (a request
  is in one place) is `RequestsAreKept`.
* `SortedAtTheEnd`: that a particular list of comparisons sorts is a computation, not a theorem for
  every value of a constant; TLC runs every network on every sequence of zeroes and ones. The 0-1
  principle itself, which takes this to all sequences, is cited and not proved.
* `RoundTrip`, `ParsersAgree`: what parsers compute on texts, by operators that recur over them.

## 5. Where the code and its words disagree

Found by a run (listed under "findings"):

* **CounterLatch.** `latch` loads `currentValue` at `stats.go:385` and `lastSentValue` at 386.
  If another latch of the same counter completes between the two, the CAS succeeds
  with a fresh `last` and a stale `value`: `lastSentValue` goes *back* and the delta wraps to
  nearly 2^64. The comment at 380-382 says a stale read is never committed. Two latches of one
  counter need `Flush` on one side and a `rejoin` that forwards on the other, hence two
  objects for one name: with one object `ImplementsLedger` (CounterHeld) excludes it, because
  `flushMu` keeps the latches of `Flush` apart, and `LatchesGoForward` proves the comment right. With fairness, the same instance also
  refutes `EventuallyReported` (everything written is reported in the end; no run lists it, since
  `ImplementsLedger` says more where it holds): the difference may stay in a counter nobody visits any more
  ("Nothing is lost", `docs/idle-pruning.md:27`). When the two loads are exchanged, so that
  `last` is the older one, TLC finds `EventuallyReported` to hold for the rivals.
* **TimerReattach.** `docs/idle-pruning.md:24-26` says that a write to a pruned counter *or
  timer* reattaches it. The property is about calls of `AddValue`
  that begin when the map no longer holds their timer (`late` remembers whose they are).
  `AddValue` sends the value but never touches the map. Nothing is lost; the timer stays out
  of the store, and a lookup creates a second one, perhaps with another unit.
* **PruneOverflow.** "n >= 1 always" (`stats.go:258`) is false when
  `pruneIdleSeconds + flushIntervalS - 1` overflows: then the quotient is negative, the clamp does
  not see it, and the low 32 bits may be 0 (never prune) or 1 (prune at every flush).

Statements of comments that the modules also hold, which the code does not meet and
which no run of the project lists; put the name in the INVARIANT of the run's
configuration to see the counterexample:

* `SurvivesFromCreation` (PruneTiming): a counter that was created and never written ages at
  the first tick, however soon it comes, and is pruned up to one period early.
* `SurvivesSeconds` (PruneTiming): without statsd the ticker of `NewDefaultStore` (`stats.go:275`) is
  not the interval the threshold was computed from, and with an interval above ten seconds an idle
  counter goes before the seconds asked for, as `stats.go:245-248` warns a caller with another
  ticker. `SurvivesRequested` says what does hold, for every ticker.
* `LogsOncePerInterval` (NetSink): the condition of `net_sink.go:196` compares remainders, and holds
  for nearly every drop rather than once per 32 kB.
* `AlwaysInstance` (Scopes): the store's own `NewPerInstance...` methods keep an empty `_f`, which
  serialization then drops; those of a scope replace it by `i`.
* `CountsReserved` (Scopes): of the methods of `subScope` that take tags for a stat, only
  `NewPerInstanceMilliTimer` validates them.

Behaviour no comment rules out, which a reader of the properties should know:

* A delegate that begins with an informational status (`WriteHeader(103)`) is counted under it,
  and its later final status is swallowed by `headerWritten`: the client gets a 200. A
  delegate that calls `Flush` first, through the interface `wrapResponse` passes on, sends a 200
  before the wrapper knows; a status written after that is counted and never sent.
  A delegate that writes nothing is not counted. `CountedAsSent` names the three. When the
  delegate panics, `span.Complete` (`stat_handler.go:53`) does not run: no time is taken.
* A generator that calls `AddStatGenerator` waits for ever, for the read lock its own caller holds
  (`stats.go:561`). The comment of `Store` rules out calling `Flush` there, not this.
* The sink's `Flush` returns at once when its buffer does not fit into `outc`
  (`net_sink.go:160-162`). If that is the last one, older buffers are still in `outc` when
  `StartContext` returns. `ExitDelivers` then says only that what is due is out of the
  `bufio.Writer`: on the wire, or in a channel or in the hands of `run`, if it runs on.
* A retry that fails also resets the `bufio.Writer` (`net_sink.go:304-306`, through
  `handleFlushErrorSize`): lines there, which nobody tried to send, are lost, and only the
  retried buffer is counted. `EachLineOnce` has them among the lost, and
  `DropsNotOverstated` says that the count is not too high, not that it is complete.
* A generator registered twice runs twice in each `Flush`. In Lifecycle each is registered once.
* `runtime.go` registers `sys` and `lookups`, and `GenerateStats` never sets them: both stay at zero.
* A pruned timer and the one that took its name may have different units and go on sending under
  the same name.
* `loggingSink` turns counts into `float64`: above 2^53 they are rounded.

## 6. What is not modelled

* The mock sinks: test doubles that no program runs with. Their parser is in TagText.
* `joinScopes` and the formatting of numbers; lines are numbered, names are tags.
* `Hijack`, `Push` and `CloseNotify` of a wrapped writer: calls of the writer underneath that
  leave the handler's state alone.
* Parsing of settings other than the two that pruning uses.
* Logging and null sinks: no state. Of the runtime statistics, which reading goes into which stat.
* A `Logger` or a generator that calls back into the library: the repository has none.
* The memory model: the code uses `sync/atomic` and `sync.Map` for everything shared, which
  Go makes sequentially consistent, and `idleFlushes` only under `flushMu`.

## 7. The plan

Order: what carries a value from `Add` to the wire first, then what feeds it.

1. Done: `CounterStore` with its proofs, `TimerStore`, `PruneTiming`, `NetSink`, `TagSort`,
   `TagMerge`, `Scopes`.
2. Done: `Ledger` and the refinement; `Lifecycle`; `Pipeline`; `StatHandler`; `TagText`.
3. Done: the proofs of section 4, for every component with a state of its own and for tag sets and
   names.
4. Next, for the proofs:
   * `Pipeline` over `CounterLedger` instead of `Ledger`, so that `ExitReportsAll` speaks of the
     counters themselves;
   * `Sort` itself: that the networks of TagSort, proved one by one, compute the `Sort` of Scopes for
     every order of their input;
   * a form of `RoundTrip` for names as sequences of pieces, without recursion over their bytes.

## 8. Running

In this directory, `tlc -config <Run>.cfg <MCModule>.tla` runs TLC (`PROJECT.json` names the
module of each run) and `tlapm <Module>_proofs.tla` checks the proofs of a module: Lifecycle takes
about six minutes, CounterStore and NetSink five each, Names two, each of the others less than one.
The community modules have to be in TLC's path.
