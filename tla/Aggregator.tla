----------------------------- MODULE Aggregator -----------------------------
(***************************************************************************)
(* InMemoryAggregator of internal/aggregator: a ring of per-second buckets *)
(* that counts search queries over a sliding window, global counters that  *)
(* are the totals of the buckets, and a cached Top-N list rebuilt by a     *)
(* background goroutine.                                                   *)
(*                                                                         *)
(* Add and RebuildTop read the wall clock BEFORE they take the mutex, so   *)
(* each is two steps here: one that reads the clock (and, for Add,         *)
(* validates the event), and one that is the whole critical section.       *)
(* Other callers may run, and the clock may move, between the two.         *)
(*                                                                         *)
(* Time is counted in ticks since the Unix epoch, `Second' of them to a    *)
(* second.  Truncate is computed from the epoch: time.Truncate works from  *)
(* year 1, which is the same for every bucket size that divides a day.     *)
(***************************************************************************)
EXTENDS Integers, FiniteSets, Sequences, TopItems, Totals

CONSTANTS
  Queries,            \* normalized queries, as lexicographic positions
  RawQueries,         \* query texts as they arrive in events
  Normalized,         \* what NormalizeQuery makes of each of them
  Adders,             \* goroutines that call Add (the service has one)
  Second,             \* ticks in a second
  Window, BucketSize, AllowedFutureSkew,  \* the configuration, in ticks
  DefaultLimit, MaxLimit,
  ReadLimits,         \* limits that callers of GetTop ask for
  Lags,               \* clock minus event timestamp, for the events that arrive
  ClockSteps,         \* by how much the wall clock may jump in one step
  StartClock,         \* time of New()
  MaxClock,           \* bound: last instant that is explored
  MaxCount            \* bound: no Add starts for a query with this count

\* The text is empty, or too long, after normalization.
NoQuery == 0

\* time.Time{}: the zero value, long before the epoch.
ZeroTime == -1

\* bucket.unixSecond of a bucket that was never used or has been cleared.
NoSecond == 0

\* The checks and defaults of New, and a clock that is past 1970.
ASSUME ConfigAssumption ==
  /\ Second \in Nat \ {0}
  /\ Window \in Nat \ {0} /\ BucketSize \in Nat \ {0} /\ Window % BucketSize = 0
  /\ AllowedFutureSkew \in Nat \ {0}
  /\ DefaultLimit \in Nat \ {0} /\ MaxLimit \in Nat /\ MaxLimit >= DefaultLimit
  /\ StartClock \in Nat /\ StartClock >= Window + BucketSize + Second
  /\ MaxClock \in Nat /\ MaxClock >= StartClock

ASSUME QueryAssumption ==
  /\ IsFiniteSet(Queries) /\ Queries \subseteq Nat \ {NoQuery}
  /\ Normalized \in [RawQueries -> Queries \cup {NoQuery}]

ASSUME InputAssumption ==
  Lags \subseteq Int /\ ClockSteps \subseteq Int /\ ReadLimits \subseteq Nat /\ MaxCount \in Nat

VARIABLES
  clock,           \* the wall clock, read by time.Now()
  buckets,         \* a.buckets
  counters,        \* a.counters
  topCache,        \* a.topCache
  topGeneratedAt,  \* a.topGeneratedAt
  dirty,           \* a.dirty
  gauges,          \* the unique_queries and top_cache_size gauges
  adding,          \* for each adder, its call of Add
  rebuilding,      \* Run and its call of RebuildTop
  cancelled        \* the context of the service is done

state == <<buckets, counters, topCache, topGeneratedAt, dirty, gauges>>
vars == <<clock, state, adding, rebuilding, cancelled>>

-----------------------------------------------------------------------------
(* Buckets *)

bucketCount == Window \div BucketSize

Index == 0..(bucketCount - 1)

NoCounts == [q \in Queries |-> 0]

EmptyBucket == [unixSecond |-> NoSecond, counts |-> NoCounts]

Unix(t) == t \div Second

Truncate(t) == (t \div BucketSize) * BucketSize

bucketIndex(unixSecond) == unixSecond % bucketCount

\* Fault: the window is one second too long.
CutoffSecondEarly(now) == Unix(Truncate(now)) - bucketCount

CutoffSecond(now) == Unix(Truncate(now)) - bucketCount + 1

\* The buckets that expireLocked(now) clears.
Expired(now) ==
  {i \in Index : /\ buckets[i].unixSecond # NoSecond
                 /\ buckets[i].unixSecond < CutoffSecond(now)}

\* clearBucketLocked of every bucket in `cleared': what is left of the ring ...
ClearedBuckets(cleared) ==
  [i \in Index |-> IF i \in cleared THEN EmptyBucket ELSE buckets[i]]

\* ... and of the counters; a counter that would not stay positive is deleted.
ClearedCount(q, cleared) ==
  [i \in Index |-> IF i \in cleared THEN buckets[i].counts[q] ELSE 0]

\* Fault: the counts of the cleared buckets stay in the counters.
RemainingCountersKept(cleared) == counters

RemainingCounters(cleared) ==
  [q \in Queries |->
     LET nextCount == counters[q] - Total(ClearedCount(q, cleared), bucketCount)
     IN  IF nextCount <= 0 THEN 0 ELSE nextCount]

\* Fault: the gauges are set before the state they show is changed.
setCounterMetricsEarly ==
  gauges' = [uniqueQueries |-> Cardinality(ActiveQueries(counters)),
             topCacheSize  |-> Len(topCache)]

\* setCounterMetricsLocked, called at the end of a critical section.
setCounterMetrics ==
  gauges' = [uniqueQueries |-> Cardinality(ActiveQueries(counters')),
             topCacheSize  |-> Len(topCache')]

-----------------------------------------------------------------------------
(* Add *)

\* The check of the context, then validateAndNormalize: the verdict on an
\* event, in the order of the checks.
Verdict(raw, timestamp, now) ==
  IF cancelled THEN "cancelled"
  ELSE IF timestamp = ZeroTime \/ timestamp > now + AllowedFutureSkew THEN "invalid"
  ELSE IF timestamp < now - Window THEN "expired"
  ELSE IF Normalized[raw] = NoQuery THEN "invalid"
  ELSE "locking"

NotAdding == [status |-> "idle", now |-> 0, query |-> NoQuery, second |-> NoSecond]

\* Add up to a.mu.Lock(): the clock is read and the event is judged.  An event
\* with another verdict than "locking" is answered at once and changes nothing.
AddBegin(a, raw, timestamp) ==
  LET verdict == Verdict(raw, timestamp, clock)
  IN  /\ adding[a].status # "locking"
      /\ verdict = "locking" => counters[Normalized[raw]] < MaxCount
      /\ adding' = [adding EXCEPT ![a] =
           IF verdict = "locking"
           THEN [status |-> verdict, now |-> clock, query |-> Normalized[raw],
                 second |-> Unix(Truncate(timestamp))]
           ELSE NotAdding]
      /\ UNCHANGED <<clock, state, rebuilding, cancelled>>

\* Fault: a slot that holds another second is taken over as it is.
ClearedByAddExpiredOnly(call) == Expired(call.now)

\* The buckets a locked Add clears: the expired ones, and the slot of the event
\* when it holds another second.
ClearedByAdd(call) ==
  LET slot == bucketIndex(call.second)
  IN  Expired(call.now) \cup {i \in {slot} : buckets[i].unixSecond # call.second}

\* Fault: a slot that was cleared does not get its second.
CountedUnlabelled(ring, call) ==
  [ring EXCEPT ![bucketIndex(call.second)].counts[call.query] = @ + 1]

\* The ring after the event is counted in its slot.
Counted(ring, call) ==
  [ring EXCEPT ![bucketIndex(call.second)].unixSecond = call.second,
               ![bucketIndex(call.second)].counts[call.query] = @ + 1]

\* Add from a.mu.Lock() to its return.
AddLocked(a) ==
  LET call    == adding[a]
      cleared == ClearedByAdd(call)
  IN  /\ call.status = "locking"
      /\ buckets' = Counted(ClearedBuckets(cleared), call)
      /\ counters' = [RemainingCounters(cleared) EXCEPT ![call.query] = @ + 1]
      /\ dirty' = TRUE
      /\ UNCHANGED <<topCache, topGeneratedAt>>
      /\ setCounterMetrics
      /\ adding' = [adding EXCEPT ![a] = NotAdding]
      /\ UNCHANGED <<clock, rebuilding, cancelled>>

-----------------------------------------------------------------------------
(* RebuildTop, called by Run for every tick of its ticker *)

NotRebuilding == [status |-> "idle", now |-> 0]

\* Fault: RebuildTop goes on although the context is done.
RebuildBeginUnchecked ==
  /\ rebuilding.status = "idle"
  /\ rebuilding' = [status |-> "locking", now |-> clock]
  /\ UNCHANGED <<clock, state, adding, cancelled>>

\* RebuildTop up to a.mu.Lock(): the context is live and the clock is read.
RebuildBegin ==
  /\ rebuilding.status = "idle"
  /\ ~cancelled
  /\ rebuilding' = [status |-> "locking", now |-> clock]
  /\ UNCHANGED <<clock, state, adding, cancelled>>

\* Fault: the result of expireLocked is ignored.
NeedsRebuildDirtyOnly(cleared) == dirty

\* The cache is out of date: an Add set dirty, or buckets expired just now.
NeedsRebuild(cleared) == dirty \/ cleared # {}

\* RebuildTop from a.mu.Lock() to its return.
RebuildLocked ==
  LET now     == rebuilding.now
      cleared == Expired(now)
  IN  /\ rebuilding.status = "locking"
      /\ buckets' = ClearedBuckets(cleared)
      /\ counters' = RemainingCounters(cleared)
      /\ \/ /\ ~NeedsRebuild(cleared)
            /\ UNCHANGED <<topCache, topGeneratedAt, dirty>>
         \/ /\ NeedsRebuild(cleared)
            /\ topCache' = buildTop(counters', MaxLimit)
            /\ topGeneratedAt' = now
            /\ dirty' = FALSE
      /\ setCounterMetrics
      /\ rebuilding' = NotRebuilding
      /\ UNCHANGED <<clock, adding, cancelled>>

\* Fault: Run leaves its loop after any call of RebuildTop.
RunReturnsEarly ==
  /\ rebuilding.status = "idle"
  /\ rebuilding' = [NotRebuilding EXCEPT !.status = "stopped"]
  /\ UNCHANGED <<clock, state, adding, cancelled>>

\* Run returns: its select sees the context done, or the tick comes first and
\* RebuildTop reports the context error.
RunReturns ==
  /\ rebuilding.status = "idle"
  /\ cancelled
  /\ rebuilding' = [NotRebuilding EXCEPT !.status = "stopped"]
  /\ UNCHANGED <<clock, state, adding, cancelled>>

-----------------------------------------------------------------------------
(* GetTop and the environment *)

\* The items GetTop(limit) copies out of the cache under the read lock.
GetTop(limit) == FirstItems(topCache, normalizeLimit(limit, DefaultLimit, MaxLimit))

\* The wall clock moves; it may be set back.
Tick ==
  /\ \E step \in ClockSteps :
       /\ clock + step \in StartClock..MaxClock
       /\ clock' = clock + step
  /\ UNCHANGED <<state, adding, rebuilding, cancelled>>

\* The service is asked to stop.
Cancel ==
  /\ ~cancelled
  /\ cancelled' = TRUE
  /\ UNCHANGED <<clock, state, adding, rebuilding>>

\* An event reaches the aggregator.
Arrive(a) ==
  \E raw \in RawQueries, timestamp \in {clock - lag : lag \in Lags} \cup {ZeroTime} :
     AddBegin(a, raw, timestamp)

Init ==
  /\ clock = StartClock
  /\ buckets = [i \in Index |-> EmptyBucket]
  /\ counters = NoCounts
  /\ topCache = <<>>
  /\ topGeneratedAt = StartClock
  /\ dirty = FALSE
  /\ gauges = [uniqueQueries |-> 0, topCacheSize |-> 0]
  /\ adding = [a \in Adders |-> NotAdding]
  /\ rebuilding = NotRebuilding
  /\ cancelled = FALSE

Next ==
  \/ Tick
  \/ Cancel
  \/ \E a \in Adders : Arrive(a)
  \/ \E a \in Adders : AddLocked(a)
  \/ RebuildBegin
  \/ RebuildLocked
  \/ RunReturns

Spec == Init /\ [][Next]_vars

(***************************************************************************)
(* Run's ticker keeps firing and sync.RWMutex does not starve a waiting    *)
(* writer, so a rebuild keeps being started and finished, and Run's select *)
(* notices a context that is done.  Nothing is assumed of the clock or of  *)
(* the events, and an Add need not finish.                                 *)
(***************************************************************************)
Fairness ==
  /\ WF_vars(RebuildBegin)
  /\ WF_vars(RebuildLocked)
  /\ WF_vars(RunReturns)

FairSpec == Spec /\ Fairness

-----------------------------------------------------------------------------
(* Properties *)

Items == [query : Queries, count : Nat \ {0}]

Buckets == [unixSecond : Nat, counts : [Queries -> Nat]]

AddCalls ==
  {NotAdding} \cup
  [status : {"locking"}, now : StartClock..MaxClock, query : Queries, second : Nat \ {NoSecond}]

RebuildCalls ==
  [status : {"idle", "stopped"}, now : {0}]
  \cup
  [status : {"locking"}, now : StartClock..MaxClock]

\* The types of the aggregator's fields.  In particular the second of an Add
\* that waits for the mutex is never 0, the value with which a bucket says that
\* it is empty, and the cache is a list of positive counts (aggregator.go:39-56).
TypeOK ==
  /\ clock \in StartClock..MaxClock
  /\ buckets \in [Index -> Buckets]
  /\ counters \in [Queries -> Nat]
  /\ topCache \in Seq(Items)
  /\ topGeneratedAt \in StartClock..MaxClock
  /\ dirty \in BOOLEAN
  /\ gauges \in [uniqueQueries : Nat, topCacheSize : Nat]
  /\ adding \in [Adders -> AddCalls]
  /\ rebuilding \in RebuildCalls
  /\ cancelled \in BOOLEAN

RingTotal(q) == Total([i \in Index |-> buckets[i].counts[q]], bucketCount)

\* The global counters are exactly the totals of the ring, whatever is cleared,
\* reused or counted in between, by calls with whatever reading of the clock: the
\* subtraction in clearBucketLocked never hides a drift by deleting a counter
\* that went below zero (aggregator.go:301-314, README "Global Counters: exact
\* query counts for all active buckets").
CountersMatchBuckets == \A q \in Queries : counters[q] = RingTotal(q)

\* A bucket in use holds the second that maps to its slot, so that no later Add
\* of that second can miss it, and a bucket that says it is empty really is: its
\* counts would never expire, as expireLocked skips it (aggregator.go:289).
SlotHoldsItsSecond ==
  \A i \in Index :
    IF buckets[i].unixSecond = NoSecond
    THEN buckets[i].counts = NoCounts
    ELSE bucketIndex(buckets[i].unixSecond) = i

\* As long as dirty is not set the cache needs no rebuild: every step that
\* changes a counter sets dirty or replaces the cache in the same critical
\* section.  Add discards the result of expireLocked and relies on setting dirty
\* itself (aggregator.go:127, 141, 194-203).
CacheFresh == ~dirty => topCache = buildTop(counters, MaxLimit)

\* How many items a reader that asks for `limit' may expect.
Expected(limit) == IF limit = 0 THEN DefaultLimit ELSE Smaller(limit, MaxLimit)

\* What any reader gets while dirty is not set is a Top-N list of the counters,
\* by the definition of one that does not mention how it is built: the right
\* length for the limit it asked for (0 is the default, too large the maximum),
\* the best queries and no others, best first, ties in query order
\* (aggregator.go:148-169, 272-281, 342-388).
ReadsAreTop ==
  ~dirty => \A limit \in ReadLimits :
              IsTopOf(GetTop(limit), counters, Expected(limit))

\* The two gauges show the state they are named after whenever the mutex is free,
\* after the early return of RebuildTop too (aggregator.go:195-198, 322-329).
GaugesAgree ==
  gauges = [uniqueQueries |-> Cardinality(ActiveQueries(counters)),
            topCacheSize  |-> Len(topCache)]

\* Counted events reach the cache: a set dirty flag is eventually cleared, unless
\* the service is stopped, however often Add sets it again (aggregator.go:209-227).
DirtyIsRebuilt == dirty ~> (~dirty \/ cancelled)

\* A bucket that the window still covers holds q.
LiveInRing(q) ==
  \E i \in Index : i \notin Expired(clock) /\ buckets[i].counts[q] > 0

Cached(q) == \E k \in 1..Len(topCache) : topCache[k].query = q

\* Nobody is adding q and the window does not cover what was counted of it.
Idle(q) == ~LiveInRing(q) /\ \A a \in Adders : adding[a].query # q

\* A query that is no longer searched for leaves the list for good by itself: with
\* no Add that would set dirty, the rebuild notices that buckets expired
\* (aggregator.go:194-198).
IdleQueryLeaves ==
  \A q \in Queries : <>[]Idle(q) => <>[](~Cached(q) \/ cancelled)

\* A stopped service stops the rebuild loop, and it stays stopped
\* (aggregator.go:215-221).
RunEventuallyReturns == cancelled ~> [](rebuilding.status = "stopped")

=============================================================================
