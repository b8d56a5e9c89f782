# Verification of the search-trends service

TLA+ models of the search-trends service (Go), TLC configurations that check
them on small instances, and TLAPS proofs of their safety properties for every instance.
The service reads search events from Kafka, counts them in a sliding window kept
in memory, and serves the most frequent queries over gRPC; words on a stop-list
are not counted.

    Kafka -> Consumer -> decoder -> stop-list -> limiter -> Aggregator -> top cache -> gRPC
             Consumer.tla           StopList.tla            Aggregator.tla  TopHeap.tla
                           \------------- Pipeline.tla -------------/       TopRequests.tla

    configuration -> run of main.go -> the parts, their end, the exit code
    Settings.tla     Lifecycle.tla

## The system

| Part | State | Operations | Runs in |
|---|---|---|---|
| aggregator (`internal/aggregator/aggregator.go`) | ring of buckets, counters, top cache, dirty flag, two gauges; one RWMutex | `Add`, `RebuildTop`, `GetTop`/`Snapshot`, `Run` | Kafka goroutine, rebuild goroutine, gRPC goroutines |
| query normalizer (`normalizer.go`) | none | `NormalizeQuery` | callers |
| stop-list (`internal/stoplist`) | atomic pointer to a map, a mutex for writers | `Add`, `Remove`, `Contains`, `List`, `Size` | gRPC goroutines, Kafka goroutine |
| Kafka consumer (`internal/kafka/consumer.go`) | message in hand, retry counter; the broker keeps the committed offset | `Run`, `processMessage`, `commitWithRetry` | one goroutine |
| decoder (`decoder.go`, `event.go`) | none | `Decode` | Kafka goroutine |
| event handler and wiring (`cmd/app/main.go`) | none of its own | stop-list, limiter, `Add`, in this order; an error group of four goroutines | |
| gRPC handlers (`internal/server/search_trends.go`) | stop-list size gauge | `GetTop`, `AddStopWord`, `RemoveStopWord`, `ListStopWords`, `HealthCheck` | one goroutine per request |
| gRPC and metrics servers (`grpc.go`, `metrics.go`) | listeners, calls under way | `Run`, graceful stop | one goroutine each, and one that waits for the context |
| anti-spam limiter | none (a stub that allows everything) | `Allow` | Kafka goroutine |
| configuration (`internal/config/config.go`) | none after the start | `Load`, `Validate`, and the checks of the constructors | `run` |
| metrics registry, test producer, protobuf code | | | |

What is hard here:

- `Add` and `RebuildTop` read the clock *before* they wait for the mutex, so a
  critical section may run with a stale `now`, after one with a later reading.
- A slot of the ring is reused for another second. What is subtracted from the
  global counters has to be what was added to them, in every order of events.
- The cache is rebuilt only if the dirty flag is set or buckets expired in the
  same call, so every change of a counter has to leave one of the two behind.
- `buildTop` drops candidates for good while Go visits the map in any order it likes.
- Stop-list readers take no lock, and the size gauge is read and set in two steps.
- The commit is separate from the processing: crashes, rebalances, answers that
  are lost and cancellation fall in between. With a commit interval it is queued, and a
  rebalance or a crash loses the queue.
- Four places check or replace a setting, each a different selection of them; what gets
  through all four must not make a part count nothing, and some of it makes one panic.
- A query is normalized by two functions, one for the look-up and one for the count,
  and the stop-list may change between the two.
- A signal or the failure of one part has to end four goroutines and two more that
  stop the servers, whatever each of them is doing, and only then may the process exit.

The complete list, each at its line, is under `hazards` in `PROJECT.json`.

## Modules

| Module | Models | Remarks |
|---|---|---|
| `Totals` | the sum over a ring | a recursive function, so that it can be reasoned about |
| `TopItems` | `buildTop`, `isBetter`, `sortTop`, `normalizeLimit`, the slice of `GetTop` | `IsTopOf` is the reference definition of a Top-N list |
| `TopHeap` | `buildTop` as it runs: the loop over the map, the bounded heap, the sort | returns the list of `TopItems`, in whatever order the map is visited; `container/heap` is external |
| `TopRequests` | `GetTop` of the gRPC service, `maxInt`, `toStatusError`, `Snapshot` | composes `TopHeap` with the requests that read the list |
| `Aggregator` | `New`, `Add`, `RebuildTop`, `Run`, `GetTop` | state and actions below |
| `SlidingWindow` | abstract: a complete record of accepted events, and lists published from it | no ring, nothing expires |
| `WindowHistory` | `Aggregator` plus a history variable with the accepted events | refinement of `SlidingWindow` |
| `StopSet` | abstract: a set on which every call takes effect in one instant | |
| `StopList` | `Manager` and its callers, the stop-list handlers and the Kafka handler's `Contains` | refinement of `StopSet` |
| `Consumer` | `Run`, `processMessage`, `commitWithRetry`, `sleep`, with broker, synchronous and queued commits, rebalance, crash and restart | broker and reader are external |
| `Normalizer` | `NormalizeQuery`, `stoplist.normalize` | operators on sequences of runes, the loops as recursive functions; `IsNormalization` is the reference definition |
| `Pipeline` | the Kafka handler of `main.go` from decoder to list, with the stop-list handlers | composes normalizer, stop-list (atomic, by `StopSet`), limiter and aggregator |
| `Settings` | `defaultConfig`, `Validate`, the checks and replacements of `New`, `newKafkaReader`, `NewConsumerWithReader` | operators on configurations; `Sound` is what the other modules assume of their constants |
| `Lifecycle` | `run` of `main.go` from `Load` to the exit, `GRPCServer.Run`, `MetricsServer.Run` | `net/http`, `grpc-go`, `errgroup` are external |
| `CommonTheorems` | induction over numbers, lemmas on `Total`, `buildTop`, `IsTopOf` | proofs |
| `AggregatorProofs` | the invariants of `Aggregator` | proofs |
| `WindowProofs` | `NeverOvercounts`, and the refinement of `SlidingWindow` | proofs; extends `AggregatorProofs` |
| `TopProofs` | the invariants of `TopHeap` and `TopRequests` | proofs |
| `StopListProofs` | the invariants of `StopList`, and the refinement of `StopSet` | proofs |
| `ConsumerProofs`, `LifecycleProofs` | the invariants of `Consumer` and of `Lifecycle` with `Settings` | proofs |
| `PipelineProofs` | what the two normalizers compute, and the properties of `Pipeline` | proofs |
| `MCAggregator`, `MCWindow`, `MCTop`, `MCStopList`, `MCConsumer`, `MCPipeline`, `MCLifecycle` | small instances | constants only |

Definitions whose comment starts with "Fault:" are variants of the definition
after them with a plausible mistake. No specification uses them; each shows that
some property notices the mistake (`mutants` in `PROJECT.json`).

### Aggregator

`clock` is the wall clock in ticks; `buckets`, `counters`, `topCache`,
`topGeneratedAt`, `dirty` are the fields of `InMemoryAggregator`; `gauges` are the
two gauges that `setCounterMetricsLocked` sets; `adding` and `rebuilding` hold the
local variables of the calls that wait for the mutex; `cancelled` is the context.

`Add` is two actions: `AddBegin` (`Arrive`) checks the context, reads the clock and
judges the event in the order of `validateAndNormalize`; `AddLocked` is the whole
critical section: expiry, reuse of the slot, counting, dirty flag, gauges.
`RebuildTop` is split at the same place (`RebuildBegin`, `RebuildLocked`).
`RunReturns` is the end of `Run`. `GetTop` changes nothing and is an operator: its
critical section is a copy under the read lock.

Data that is abstracted: a normalized query is its position in lexicographic order;
`NormalizeQuery` is a constant function from raw texts, in which 0 stands for both
of its errors; a map of counters is a total function in which 0 is an absent key.
The Prometheus counters of events and rebuilds, and the duration histograms, are
left out.

### TopHeap and TopRequests

`counters` is any map of counters; `unvisited` are the keys to which the loop of `buildTop`
has not come, so that every order of Go's map iteration is a behaviour. `Visit` is the body of
the loop with its three branches. `SiftUp` and `SiftDown` are one exchange each of `up` and
`down` of `container/heap`, through `Less` and `Swap` of `topItemHeap`. `Return` is the copy
and `sortTop`. `Aggregator` uses `buildTop` of `TopItems`, a definition without a loop;
`ReturnsTop` justifies that.

`GetTop` may then be called with every limit of `LimitBits` bits, on a platform of every
width in `IntWidths`, and with a context that is live, cancelled or past its deadline. `answer`
is the last answer. The conversion of the limit to `int` wraps around as Go's does;
`PositiveOnly` is the loop that drops items without a positive count.

### StopList

The maps are cells of a heap, so that "a reader still holds an old map" is a state.
Writers go through `Lock`, `Check`, `Clone`, `Store`, `Unlock`; readers through
`Load` and then `Contains` or `List`; the handlers then do `ReadSize` and `SetGauge`, two steps, as in
`setStopListSize`. Words are already normalized.

### Consumer

One partition. `committed` is the group's offset at the broker, `position` that of
the reader; `pc` is the place in `Run`. A fetch or commit may fail with an ordinary
error (retried after a sleep) or with a deadline of the client itself, which
`isContextError` takes for the end of the context. A failed commit may have reached
the broker. `Crash` may happen anywhere; `Restart` starts at the committed offset,
or at the configured end when there is none. In mode "async" (`commit_interval_ms` above 0)
a commit puts the offset in `queued`; `Flush` is the reader's own goroutine that sends it, and
`Rebalance`, `Crash` with `Restart` and a return of `Run` may come first. `ProcessMessage` is
`processMessage` with every verdict of decoder and handler, the failed handler of
consumer.go:207 included. `outcome`, `processed`, `handledNow` and `skipped` are history
variables. The decoder is represented by its verdict on a message: "malformed" stands for
`ErrDecode` and `ErrValidation`.

### Normalizer and Pipeline

A rune is a representative of what the two functions tell apart: a letter in both
cases, another letter, a space, a control character that is a space too (tab, line
feed), a control character that is not. `QueryRune` and `StopRune` are the bodies of the
two loops, in the order of their conditions; `QueryLoop` and `StopLoop` run them over a
text, with the running length check of the former. The reference definition has no loop:
`Kept` are the places of a text that its normal form keeps, the letters and one space
between two of them, and a text is the normal form if it is what is found at these places, in order,
in lower case.

`Pipeline` takes one message at a time through `Decode`, `Contains`, `Allow` and
`Add`, a step each, while `AddStopWord` and `RemoveStopWord` change the set, `Slide`
lets time pass by half a window and `RebuildTop` publishes. Of the aggregator only the
sets of counted queries are kept. `call.blocked` is a history variable: the words that
have been on the stop-list ever since the message was received.

### Settings and Lifecycle

A configuration is a record, a file the part of one that it sets. `Load` overrides the defaults
and validates; `NewAggregator`, `NewConsumer` and `StartGroup` are the constructors in the
order of `run`, each of which may refuse the configuration, replace settings or panic. `cfg` is
the configuration on its way; `Refuse` is a return of `run` before there is a reader to
close. `Duration` is the conversion of milliseconds, which wraps around.

There are four panics over settings (`Panics`): `make` of the ring and of the cache in `aggregator.New`;
`kafka.NewReader` on a minimum above the maximum of a fetch; `time.NewTicker` in the
commit loop of the reader, on an interval that the conversion made negative; `http.ServeMux`, on a path
that is no pattern or is `/healthz`. The last two happen in goroutines (`doomed`), where no
`defer` of `run` sees them (errgroup v0.8.0 does not recover): the process ends at once with exit
code 2, the reader open and calls cut. `ordinary` is a history variable: whether the file has only
settings for which none of the unchecked limits matters (`Ordinary`).

`process` follows `run`, `part` what the four functions of the error group have
returned, `firstError` what the group keeps. `Done` is the group's context. The gRPC
server has a listener (`grpc`) and the goroutine that calls `GracefulStop` (`stopper`),
which ends when the last call has; `Serve` returns after that. The metrics server
returns as soon as `Shutdown` begins; the wait for its requests, of at most five
seconds, is in the other goroutine and nothing waits for it. `faults` is a history
variable. `ConsumerTimesOut` is the return of a consumer whose client ran into a
deadline of its own: the group goes on without it.

## Runs

| Run | Question | Result |
|---|---|---|
| `aggregator_races` | Are ring, counters, cache, dirty flag and gauges consistent with two adders and the rebuild loop in every order, late, early and invalid events, and a clock that is also set back? Can a count ever be too high? | holds; never |
| `aggregator_cache` | Is what a reader gets a Top-N list, for every limit? Do counted events reach the cache, do idle queries leave it, does the loop stop? | holds |
| `window_exact` | Does the ring implement the sliding window? | holds for one adder, a clock that moves forward, and events of the last `Window` of seconds |
| `window_slots` | Are the counters exact for every event `Add` accepts? | **violated** |
| `window_size` | Are they exact for a bucket size other than a second? | **violated** |
| `top_heap` | Does the bounded heap keep the best items in every order of the map, does `buildTop` return the list that `Aggregator` takes it to return, and is every answer to `GetTop` right for its limit? | holds |
| `stoplist` | Is the stop-list an atomic set, and does every call return? | holds |
| `stoplist_gauge` | Does the size gauge show the size when all requests are done? | **violated** |
| `consumer` | With commits that wait and with queued ones: is everything committed processed, is no commit made for a failed message, and everything produced committed in the end; are retries within their limit and without a second processing; does a cancelled context end `Run`? | holds |
| `pipeline` | Do the loops of the normalizers compute the normal form, is a query that is blocked throughout never counted, and does one that stays blocked leave the list? | holds for texts without tabs and line feeds |
| `pipeline_tab` | Is it also not counted if it contains a tab? | **violated** |
| `lifecycle` | Are the parts built with settings they can work with, or not at all; which settings make the process panic; is the exit code right, are calls drained and the reader closed last, and does the process exit after a signal or a failure? | holds; only settings outside `Ordinary` panic, and never those of a fetch; the exit needs clients that do not hold a stream open for ever |

The four violations disagree with what the repository says of itself; the quotes
are under `findings` in `PROJECT.json`:

- *window_slots*: `Add` accepts events from `now - Window` to `now +
  AllowedFutureSkew`, a longer stretch than the ring has slots for. An event ahead of
  the clock, or just inside the old edge, takes the slot of a live second and clears it.
- *window_size*: the expiry and the slot are computed from seconds, not from buckets;
  with another `bucket_size` the window is shorter than configured.
- *stoplist_gauge*: the size is read and the gauge set without a lock around the two.
- *pipeline_tab*: `stoplist.normalize` drops a tab as a control character, `NormalizeQuery`
  makes a space of it; "a b" written with a tab is looked up as "ab".

Also seen, without a statement in the repository that contradicts it: a rebuild that
waits for the mutex while an `Add` with a later reading of the clock runs publishes
the counts of the later window under its own, earlier time. `SlidingWindow` therefore
lets a list be computed at any instant between the start of the rebuild and its
publication. A message whose handler failed is not committed, but the commit of a later one
covers it: `OffsetFollowsProcessed` says what does hold, that the group's offset always
follows a message that was handled or discarded. (The handler that `main.go` installs fails
only with the error of the context.) `Validate` lets settings through that make the
process panic later, instead of ending it with an error: a `metrics.path` of `/healthz` or without
a slash, a `max_limit` or a number of buckets that cannot be allocated, a `commit_interval_ms` that no
`Duration` holds. `KnownPanicsOnly` says that no other file leads to
one of the panics in the model. A word of the
configuration that is longer than 256 runes can never be removed by a request (`StopWordsMatchable`).
And `GracefulStop` has no time limit: while a client keeps a
health watch open the process does not exit, and the configured `shutdown_timeout` is
read by nothing. `ShutdownCompletes` states this condition.

### Bounds

- Aggregator: a window of two buckets (`Window = 2`, `BucketSize = Second = 1`) is the
  smallest in which one slot expires while another lives and both are reused. In
  `aggregator_races` there are two ticks to a second, so that readings of the clock differ
  within one, and one query, since no step relates counts of different queries; the clock
  goes back and forth by half a second. The lags of events cover every verdict: too far
  ahead, ahead, now, in the window, at its edge, expired. `MaxCount` stops an `Add` for a query that
  has that count; with two adders between check and mutex it may be exceeded by one. The
  service has one adder, the Kafka goroutine; the second is there because `Add` locks for any number.
  `aggregator_cache` has two queries, limits from 0 to above the maximum, and counts that
  tie; the proof of `ReadsAreTop` covers every number of queries and limits.
- Window: two ticks to a second, so that a clock inside a second differs from one at its
  start; `MaxClock` lets the window move on by more than its length. `MaxPerSecond` and
  `LastSecond` bound the history only.
- Top list: six queries and a heap of four, so that an item sinks two levels, items are dropped
  and given up, and ties fall on both sides of the limit; fewer queries than the limit are among
  the maps too. Limits of three bits against integers of three and four: on the narrower
  platform half of the limits do not fit, and both 0 and limits above `MaxLimit` occur.
- Stop-list: two callers show every race between two critical sections; one more
  address than callers is always enough, as a caller holds at most one map.
- Consumer: three messages (one before, at and after a failure), two attempts, two
  errors, one restart, one rebalance, in each of the two modes of commit.
- Pipeline: all texts of up to three runes whose normal form is empty, "a" or "a a", and
  two longer ones, one over the limit and one that reaches it only with a space that is
  trimmed later; an initial word is over it too; a limit of three runes stands for 256. `pipeline` leaves tabs out of the texts,
  `pipeline_tab` has them. Half windows are enough for "counted before, expired since".
- Settings: the file that only names the brokers, and all that differ from it in up to two
  settings, each at the values that some check, or some panic, tells apart; the checks relate
  two at most. TLC's integers are smaller than Go's: durations have two units to the millisecond and
  wrap around at 2^20, and `make` allocates up to 1000 elements.
- Lifecycle: two unary calls, one stream, one scrape; failures are not bounded.

`SYMMETRY` is used for adders, and only in runs without liveness. Deadlock is not
checked for the consumer and the life cycle: `Run` may return, the service may stay
down, and a process that has exited does nothing.

### Fairness

- Aggregator: weak fairness of the rebuild steps and of `RunReturns`. The ticker keeps
  firing, and `sync.RWMutex` does not starve a waiting writer. Nothing is assumed of
  adders, events or the clock.
- Stop-list: weak fairness of each caller's next step, and strong fairness of `Lock`,
  which the starvation mode of `sync.Mutex` provides.
- Consumer: weak fairness of the loop's steps and of `Flush` (the timer of the reader's commit
  loop), and strong fairness of `FetchCancelled`,
  since a `select` on a done context and a ready message chooses at random. Errors are
  finitely many (`MaxErrors`): with a broker that is down forever nothing is committed.
- Pipeline: weak fairness of `Slide` (time passes) and of `RebuildTop` (the ticker). The
  handler may stop at any step.
- Lifecycle: weak fairness of each goroutine's steps and of the end of unary calls, whose
  handlers wait for nothing but short critical sections. None of streams, signals, failures.

## Proofs

What is proved holds for every value of the constants that meets the named assumptions.
Each invariant was checked by TLC, as a whole, before its proof.

| Module | Theorem | Property |
|---|---|---|
| `AggregatorProofs` | `TypeCorrect`, `CountersExact`, `SlotsConsistent`, `CacheNeverSilentlyStale`, `GaugesCorrect`, `ReadersSeeTop` | `TypeOK`, `CountersMatchBuckets`, `SlotHoldsItsSecond`, `CacheFresh`, `GaugesAgree`, `ReadsAreTop` |
| `WindowProofs` | `NoOvercount`, `SlidingWindowImplemented` | `NeverOvercounts`, `ImplementsSlidingWindow` |
| `CommonTheorems` | `BuildTopIsTop` | what `buildTop` returns |
| `TopProofs` | `HeapInOrder`, `BestKept`, `LoopReturnsTop`, `AnswersCorrect` | `HeapOrdered`, `KeepsBest`, `ReturnsTop`, `AnswersAreTop` |
| `StopListProofs` | `TypeCorrect`, `MutexHeld`, `Atomicity` | `TypeOK`, `WriterHoldsMutex`, `ImplementsStopSet` |
| `ConsumerProofs` | `TypeCorrect`, `AtLeastOnce`, `FailedIsWithheld`, `CountedOnce` | `TypeOK`, `CommittedAreProcessed`, `OffsetFollowsProcessed`, `CountedOncePerDelivery` |
| `PipelineProofs` | `NormalizeQueryIsRight` | what `NormalizeQuery` computes |
| `PipelineProofs` | `TypeCorrect`, `NormalizesRightAlways`, `BlockedNeverCounted`, `StopWordsFixed` | `TypeOK`, `NormalizesRight`, `BlockedIsNotCounted`, `StopWordsMatchable` |
| `LifecycleProofs` | `TypeCorrect`, `PartsSound`, `PanicsKnown`, `ExitCodeCorrect`, `ReaderSafe`, `CallsSafe` | `TypeOK`, `WiredIsSound`, `KnownPanicsOnly`, `ExitCodeRight`, `ReaderClosedAfterUse`, `CallsDrained` |

### Aggregator

For every configuration that `New` accepts, every finite set of queries, any number of
adders, any events and any clock steps. The inductive invariant `IInv` is the conjunction
of the first five properties. None of
`CountersMatchBuckets` and `CacheFresh` is inductive alone. When a bucket is cleared
the counters lose its counts; that they then equal the total of the ring needs that
they did before *and* that the subtraction was not cut off at zero, which follows
because a part of the ring sums to no more than all of it. That nothing is counted
under an empty bucket's mark needs that a waiting `Add` never carries second 0, which
is in `TypeOK` and comes from the check against `now - Window` in `AddBegin` and from
`StartClock` being past the first window after the epoch. `ReadsAreTop` follows from
`CacheFresh` with two facts of `CommonTheorems`: `buildTop` satisfies `IsTopOf`
(`BuildTopIsTop`), and a prefix of a top list is the top list for a smaller limit
(`PrefixOfTop`). Both rest on `RankOnto`: the ranks of n items are exactly 1..n.

`CommonTheorems` also shows that `Total` of a sum is the sum of the totals, that the total of
natural numbers is one, what changing one point changes, and that a total is no more than
another one into whose terms its positive terms can be mapped one to one
(`TotalInjection`). Induction over the length of the ring is done by set
induction on the finite set of lengths for which the fact holds, since the library's
induction theorems with an operator parameter are out of reach of the installed provers.

### The window

`NoOvercount`: no published count is too high. `HistoryInv` adds to `IInv` that a bucket
holds no more of any query than was accepted for its second. After the expiry of a rebuild
every second in the ring is in the window (`LiveIsInWindow`) and no two slots hold the same
one, so `TotalInjection` bounds the total by the count of the window. What is published
stays right as the record only grows. The hypothesis is that a bucket is a whole number of
seconds (`WholeSeconds`): `New` also accepts shorter ones, and then the cutoff, a number of
seconds, reaches further back than the window does.

`SlidingWindowImplemented`: the counts are exact, and every step of the ring is a step of
`SlidingWindow`. The hypothesis `Punctual` says what the runs `window_slots` and
`window_size` show to be needed: buckets of one second, events no older than the ring has
slots for and not ahead of the clock, one adder, a clock that is not set back. The service has one
adder, the Kafka goroutine. The invariant `WindowInv` asserts two instants, the readings of
the clock by the last `Add` and the last rebuild that had the mutex, such that the calls
that wait have later readings (`CallsInOrder`), the ring holds only seconds of the
window of the former (`RingInOrder`), and of every second that neither of the two has let
expire it holds all that was accepted (`Complete`). The step that matters is an `Add` that
takes over a slot: the slot's second and the event's are both in a window as long as the
ring, so they are equal or the former has expired (`SlotsDiffer`). A rebuild publishes
the window of the later of the two instants; equality of the counts is `TotalInjection`
in both directions.

### Top list

`LoopInv` is `LoopTypeOK`, the heap order (`HeapInvariant`, weakened at the place
where an item is on its way up or down), that the heap holds the best of the keys visited and as
many as fit (`Contents`), and `ReturnsTop`. That a full heap may drop the new item or its
root needs that the root is the worst, which is the heap order along a path to the root.
`LoopReturnsTop` then identifies the sorted heap with `buildTop` through the uniqueness of
a sorted list. In `AnswersCorrect` a limit above `maxInt` is refused before it is converted,
so that the conversion does not wrap, for every width of `int`; the filter of the handler
drops nothing, as no listed count is 0. Assumptions: `HeapAssumption`, `WidthAssumption`.

### Stop-list

`IInv` is `TypeOK`, the fields a call has in each step (`CallShape`), and what the writer that
holds the mutex knows of the map it copies (`WriterKnows`). A writer always finds a
free address, by a pigeonhole argument on the callers (`NewRefIsFree`), and no step changes a
map that a reader holds. In the refinement a writer takes effect at `Store`, or at the
check that finds nothing to do; a reader when it loads the pointer. Assumption: `StopListAssumption`.

### Consumer

`IInv` is `TypeOK`, `ReadInOrder` (everything before the reader's position, but the message
in hand, was processed or skipped, and a message is being committed only after that),
`OffsetsEarned` (the committed and the queued offset follow a processed message, with
nothing unprocessed before it) and `Deliveries` (how often the process has handled a message, against its position and the number
of rebalances). `CommittedAreProcessed` alone is not inductive: a lost answer, a queued
offset and a retry make an offset of the past become the committed one later.
Assumption: `ConsumerAssumption`.

### Normalizer and pipeline

What the loops compute is proved for texts of every length, by the set induction of
`CommonTheorems` on the number of runes read. Both loops only ever build clean texts
(`IsClean`: lower case, no control characters, no space at the front or after another one,
and `previousWasSpace` says whether the last rune is a space), so that the trim at the
end takes off at most one space. From this:

- `NormalizeQueryIsRight`: `Follows` maps every written rune to the place of the text it was
  written for; the places are those of `Kept`, except for a space at the end that is not followed
  by a letter, which is the one that the trim takes off (`QueryFollows`). The running length check never
  refuses a text whose normal form fits, as it is made after a letter is written.
- A text in normal form is a fixed point of both functions (`QueryFixed`, `StopFixed`).
- On a text without a control character that is a space the two functions agree
  (`Agreement`), as only for such a rune does the order of the two conditions matter.

The inductive invariant `IInv` of the pipeline is `TypeOK`, `Checked` (the message in hand is one that was
sent, and past `Contains` its look-up form is none of the words blocked since it was
received) and `WordsNormal` (the stop-list holds only normal forms). `BlockedIsNotCounted`
needs that a word which was not blocked at `Contains` does not enter `call.blocked` later,
and that `Add` counts the form that `Contains` looked up. It has the hypothesis that no text of a message contains a tab
or a line feed; the run `pipeline_tab` violates the property without it. `StopWordsFixed` also needs
`WordsShort`: only a word of the configuration is longer than a request may be, as `buildSet`
does not check that. Such a word blocks its query, and a request to remove it is refused
(`LongRefused`).

Assumption: `PipelineAssumption`, which gives types and positive limits.

The attempt to prove `IsNormalization` showed that definitions by `CASE` whose guards
overlap (a tab is a space and a control character) do not say which branch is taken,
though TLC takes the first; they are `IF` chains in the order of the code now.

### Life cycle

`PartsSound` and `PanicsKnown` follow the configuration through `Load` and the constructors:
`Checked` says what the settings that got so far satisfy, and that ordinary ones still are
(`DurationFits`: an interval in range does not wrap). The other three need the
relation of the error group, the two servers and their stoppers in each phase of `run`
(`Phases`, `ReaderOpen`, `Served`): nothing returns before it can, the first error is kept,
`Serve` returns without an error only after the last call. Assumptions: `LifecycleAssumption`, `SettingsAssumption`, and `FilesAssumption`: the values
of a file have the types of the fields of `Config`, as `yaml.Unmarshal` refuses others.

### Assumptions and limits

`ConfigAssumption` is the checks of `New`, and a clock later than `Window + BucketSize +
Second` after the epoch; `HistoryAssumption` says that the record has room for every second
that is accepted; `QueryAssumption` and `InputAssumption` give types.

Only model-checked are the liveness properties, as liveness under fairness and `ENABLED` are
out of the prover's reach: `DirtyIsRebuilt`, `IdleQueryLeaves`, `RunEventuallyReturns`,
`EveryCallReturns`, `EveryMessageCommitted`, `CancelStopsRun`, `BlockedWordDisappears` and
`ShutdownCompletes`. Every other property of a run that passes is proved.

## Not modelled

- JSON and time parsing: whether a payload parses is a choice; what follows from it is modelled.
- Invalid UTF-8, and letters whose lower case is not one rune of the same kind.
- The metrics registry: 19 collectors of distinct names are registered once on a new registry
  and only written to afterwards. The gauges that follow program state are variables of
  `Aggregator` and `StopList`; counters and histograms are left out.
- The test producer, a load generator that is no part of the service, and generated protobuf code.
- Settings that nothing checks, among them `shutdown_timeout` and `antispam`, which nothing reads
  either, and `initial_words`, whose normalization is in `Pipeline`.
- More than one partition: offsets of different partitions do not meet in the consumer, which
  handles one message at a time.
- Overflow of `int64` counters: a window cannot hold 2^63 events. Overflow in the times that `Add`
  computes from a window or a skew of centuries.

## Plan

The order was: aggregator with its abstract window, stop-list, consumer, the proofs of
the aggregator's invariants, then normalizer, pipeline and life cycle, then the heap of
`buildTop` with the `GetTop` handler, queued commits and the configuration, then the proofs
of all these, the normalizers and the pipeline last. Every operation that changes state has
its action, and every safety property that a run finds to hold has its theorem.
