-------------------------- MODULE AggregatorProofs --------------------------
(***************************************************************************)
(* The safety properties of Aggregator, for every configuration that New   *)
(* accepts, any number of adders and any movement of the clock.            *)
(*                                                                         *)
(* The inductive invariant is the conjunction of the properties.  They     *)
(* need one another: that the ring and the counters agree makes the        *)
(* deletion of a non-positive counter exact, and that an unused slot holds *)
(* no counts makes it right to skip it.                                    *)
(***************************************************************************)
EXTENDS Aggregator, CommonTheorems

USE DEF NoQuery, NoSecond, ZeroTime

-----------------------------------------------------------------------------
(* Arithmetic of the ring *)

\* Quotient and remainder.
LEMMA Division ==
  ASSUME NEW a \in Int, NEW b \in Nat, b > 0
  PROVE  /\ a \div b \in Int
         /\ a = b * (a \div b) + (a % b)
         /\ (a \div b) * b > a - b
         /\ a >= b => a \div b >= 1
<1>1. a \div b \in Int OBVIOUS
<1>2. a = b * (a \div b) + (a % b) OBVIOUS
<1>3. (a \div b) * b > a - b OBVIOUS
<1>4. a >= b => a \div b >= 1 OBVIOUS
<1> QED BY <1>1, <1>2, <1>3, <1>4

\* The ring has at least one bucket.
LEMMA RingNotEmpty == bucketCount \in Nat \ {0} /\ Index = 0..bucketCount-1
<1>1. Window \in Nat \ {0} /\ BucketSize \in Nat \ {0} /\ Window % BucketSize = 0
  BY ConfigAssumption
<1> DEFINE d == Window \div BucketSize
<1>2. d \in Int /\ Window = BucketSize * d + 0
  BY <1>1, Division
<1> HIDE DEF d
<1>3. d > 0
  BY <1>1, <1>2
<1> QED BY <1>2, <1>3 DEF bucketCount, Index, d

\* Every second has a slot.
LEMMA SlotInRing == \A s \in Nat : bucketIndex(s) \in Index
BY RingNotEmpty DEF bucketIndex

\* The second of an event that is not older than the window is past 1970.
LEMMA SecondPositive ==
  ASSUME NEW t \in Int, t >= BucketSize + Second
  PROVE  Unix(Truncate(t)) \in Nat \ {NoSecond}
<1>1. Second \in Nat /\ Second > 0 /\ BucketSize \in Nat /\ BucketSize > 0
  BY ConfigAssumption
<1>2. t \div BucketSize \in Int /\ Truncate(t) > t - BucketSize
  BY <1>1, Division DEF Truncate
<1>3. Truncate(t) \in Int
  BY <1>1, <1>2 DEF Truncate
<1>4. Truncate(t) >= Second
  BY <1>1, <1>2, <1>3
<1>5. Truncate(t) \div Second \in Int /\ Truncate(t) \div Second >= 1
  BY <1>1, <1>3, <1>4, Division
<1> QED BY <1>5 DEF Unix

-----------------------------------------------------------------------------
(* Clearing buckets *)

\* Clearing keeps the types.
LEMMA ClearingTypes ==
  ASSUME TypeOK, NEW cleared \in SUBSET Index
  PROVE  /\ ClearedBuckets(cleared) \in [Index -> Buckets]
         /\ RemainingCounters(cleared) \in [Queries -> Nat]
<1>1. EmptyBucket \in Buckets
  BY DEF EmptyBucket, Buckets, NoCounts
<1>2. ClearedBuckets(cleared) \in [Index -> Buckets]
  BY <1>1 DEF ClearedBuckets, TypeOK
<1>3. ASSUME NEW q \in Queries
      PROVE  Total(ClearedCount(q, cleared), bucketCount) \in Nat
  <2>1. ClearedCount(q, cleared) \in [0..bucketCount-1 -> Nat]
    BY RingNotEmpty DEF ClearedCount, TypeOK, Buckets
  <2> QED BY <2>1, RingNotEmpty, TotalNat
<1>4. RemainingCounters(cleared) \in [Queries -> Nat]
  BY <1>3 DEF RemainingCounters, TypeOK
<1> QED BY <1>2, <1>4

\* Clearing keeps the counters equal to the totals of the ring: what is subtracted
\* is exactly what the cleared buckets held, so the difference is never negative.
LEMMA ClearingKeepsTotals ==
  ASSUME TypeOK, CountersMatchBuckets, NEW cleared \in SUBSET Index, NEW q \in Queries
  PROVE  RemainingCounters(cleared)[q] =
           Total([i \in Index |-> ClearedBuckets(cleared)[i].counts[q]], bucketCount)
<1> DEFINE ring == [i \in Index |-> buckets[i].counts[q]]
           gone == ClearedCount(q, cleared)
           kept == [i \in Index |-> ClearedBuckets(cleared)[i].counts[q]]
<1>1. ring \in [0..bucketCount-1 -> Nat] /\ gone \in [0..bucketCount-1 -> Nat]
  <2>1. \A i \in Index : buckets[i].counts[q] \in Nat
    BY DEF TypeOK, Buckets
  <2>2. Index = 0..bucketCount-1
    BY RingNotEmpty
  <2>3. ring \in [0..bucketCount-1 -> Nat]
    BY <2>1, <2>2
  <2>4. gone \in [0..bucketCount-1 -> Nat]
    BY <2>1, <2>2 DEF ClearedCount
  <2> QED BY <2>3, <2>4
<1>2. kept \in [0..bucketCount-1 -> Nat]
  BY RingNotEmpty, ClearingTypes DEF Buckets
<1>3. \A i \in 0..bucketCount-1 : ring[i] = kept[i] + gone[i]
  BY RingNotEmpty
     DEF ClearedCount, ClearedBuckets, EmptyBucket, NoCounts, TypeOK, Buckets
<1>4. counters[q] = Total(ring, bucketCount)
  BY DEF CountersMatchBuckets, RingTotal
<1> HIDE DEF ring, gone, kept
<1>5. Total(ring, bucketCount) = Total(kept, bucketCount) + Total(gone, bucketCount)
  <2>1. /\ ring \in [0..bucketCount-1 -> Int]
        /\ gone \in [0..bucketCount-1 -> Int]
        /\ kept \in [0..bucketCount-1 -> Int]
        /\ bucketCount \in Nat
    BY <1>1, <1>2, RingNotEmpty
  <2> QED BY <2>1, <1>3, TotalPlus
<1>6. Total(kept, bucketCount) \in Nat /\ Total(gone, bucketCount) \in Nat
  BY <1>1, <1>2, RingNotEmpty, TotalNat
<1>7. RemainingCounters(cleared)[q] =
        IF counters[q] - Total(gone, bucketCount) <= 0
        THEN 0 ELSE counters[q] - Total(gone, bucketCount)
  BY DEF RemainingCounters, gone
<1>8. RemainingCounters(cleared)[q] = Total(kept, bucketCount)
  BY <1>4, <1>5, <1>6, <1>7
<1> QED BY <1>8 DEF kept

\* Clearing nothing changes nothing.
LEMMA ClearingNothing ==
  ASSUME TypeOK
  PROVE  ClearedBuckets({}) = buckets /\ RemainingCounters({}) = counters
<1>1. ClearedBuckets({}) = buckets
  BY DEF ClearedBuckets, TypeOK
<1>2. ASSUME NEW q \in Queries
      PROVE  Total(ClearedCount(q, {}), bucketCount) = 0
  <2>1. /\ ClearedCount(q, {}) \in [0..bucketCount-1 -> Int]
        /\ \A i \in 0..bucketCount-1 : ClearedCount(q, {})[i] = 0
    BY RingNotEmpty DEF ClearedCount
  <2> QED BY <2>1, RingNotEmpty, TotalZero
<1>3. RemainingCounters({}) = counters
  BY <1>2 DEF RemainingCounters, TypeOK
<1> QED BY <1>1, <1>3

\* Clearing leaves every slot empty or with a second of its own.
LEMMA ClearingKeepsSlots ==
  ASSUME TypeOK, SlotHoldsItsSecond, NEW cleared \in SUBSET Index, NEW i \in Index
  PROVE  LET b == ClearedBuckets(cleared)[i]
         IN  IF b.unixSecond = NoSecond THEN b.counts = NoCounts
             ELSE bucketIndex(b.unixSecond) = i
BY DEF SlotHoldsItsSecond, ClearedBuckets, EmptyBucket

\* A list that buildTop computes is a list of items.
LEMMA TopIsList ==
  ASSUME NEW c \in [Queries -> Nat]
  PROVE  IsCounterMap(c) /\ buildTop(c, MaxLimit) \in Seq(Items)
<1>1. IsCounterMap(c)
  BY QueryAssumption DEF IsCounterMap
<1> DEFINE size == Smaller(MaxLimit, Cardinality(ItemsOf(c)))
<1>2. size \in Nat /\ buildTop(c, MaxLimit) \in [1..size -> ItemsOf(c)]
  BY <1>1, BuildTopRanks, ConfigAssumption
<1>3. ItemsOf(c) \subseteq Items
  BY DEF ItemsOf, ActiveQueries, Items
<1> HIDE DEF size
<1> QED BY <1>1, <1>2, <1>3

-----------------------------------------------------------------------------
(* The inductive invariant *)

IInv ==
  /\ TypeOK
  /\ SlotHoldsItsSecond
  /\ CountersMatchBuckets
  /\ CacheFresh
  /\ GaugesAgree

\* The gauges are naturals: they are the sizes of a finite set and of a list.
LEMMA GaugeTypes ==
  ASSUME NEW c \in [Queries -> Nat], NEW list \in Seq(Items)
  PROVE  [uniqueQueries |-> Cardinality(ActiveQueries(c)), topCacheSize |-> Len(list)]
           \in [uniqueQueries : Nat, topCacheSize : Nat]
<1>1. ActiveQueries(c) \in SUBSET Queries
  BY DEF ActiveQueries
<1>2. Cardinality(ActiveQueries(c)) \in Nat
  BY <1>1, QueryAssumption, FS_Subset, FS_CardinalityType
<1> QED BY <1>2

\* A new aggregator satisfies the invariant.
LEMMA InitInvariant == Init => IInv
<1> SUFFICES ASSUME Init PROVE IInv OBVIOUS
<1>1. NoCounts \in [Queries -> Nat] /\ EmptyBucket \in Buckets
  BY DEF NoCounts, EmptyBucket, Buckets
<1>2. ActiveQueries(NoCounts) = {} /\ ItemsOf(NoCounts) = {}
  BY DEF ActiveQueries, ItemsOf, NoCounts
<1>3. StartClock \in StartClock..MaxClock
  BY ConfigAssumption
<1>4. TypeOK
  <2>1. buckets \in [Index -> Buckets] /\ counters \in [Queries -> Nat]
    BY <1>1 DEF Init
  <2>2. topCache \in Seq(Items)
    BY DEF Init
  <2>3. gauges \in [uniqueQueries : Nat, topCacheSize : Nat]
    BY DEF Init
  <2>4. adding \in [Adders -> AddCalls]
    BY DEF Init, AddCalls
  <2>5. rebuilding \in RebuildCalls
    BY DEF Init, RebuildCalls, NotRebuilding
  <2> QED BY <1>3, <2>1, <2>2, <2>3, <2>4, <2>5 DEF Init, TypeOK
<1>5. SlotHoldsItsSecond
  BY DEF Init, SlotHoldsItsSecond, EmptyBucket
<1>6. CountersMatchBuckets
  <2> SUFFICES ASSUME NEW q \in Queries PROVE counters[q] = RingTotal(q)
    BY DEF CountersMatchBuckets
  <2> DEFINE ring == [i \in Index |-> buckets[i].counts[q]]
  <2>1. ring \in [0..bucketCount-1 -> Int] /\ \A i \in 0..bucketCount-1 : ring[i] = 0
    BY RingNotEmpty DEF Init, EmptyBucket, NoCounts
  <2> HIDE DEF ring
  <2>2. Total(ring, bucketCount) = 0
    BY <2>1, RingNotEmpty, TotalZero
  <2> QED BY <2>2 DEF Init, NoCounts, RingTotal, ring
<1>7. CacheFresh
  <2>1. Smaller(MaxLimit, Cardinality(ItemsOf(NoCounts))) = 0
    BY <1>2, FS_EmptySet, ConfigAssumption DEF Smaller
  <2>2. buildTop(NoCounts, MaxLimit) \in [1..0 -> ItemsOf(NoCounts)]
    BY <2>1, <1>1, TopIsList, BuildTopRanks, ConfigAssumption
  <2>3. buildTop(NoCounts, MaxLimit) = << >>
    BY <2>2
  <2> QED BY <2>3 DEF Init, CacheFresh
<1>8. GaugesAgree
  BY <1>2, FS_EmptySet DEF Init, GaugesAgree
<1> QED BY <1>4, <1>5, <1>6, <1>7, <1>8 DEF IInv

\* Steps that leave the fields of the aggregator alone.
LEMMA IdleInvariant ==
  ASSUME IInv, UNCHANGED state, TypeOK'
  PROVE  IInv'
<1>1. SlotHoldsItsSecond'
  BY DEF IInv, state, SlotHoldsItsSecond
<1>2. CountersMatchBuckets'
  BY DEF IInv, state, CountersMatchBuckets, RingTotal
<1>3. CacheFresh'
  BY DEF IInv, state, CacheFresh
<1>4. GaugesAgree'
  BY DEF IInv, state, GaugesAgree
<1> QED BY <1>1, <1>2, <1>3, <1>4 DEF IInv

\* An Add that got the mutex keeps the invariant.
LEMMA AddInvariant ==
  ASSUME IInv, NEW a \in Adders, AddLocked(a)
  PROVE  IInv'
<1> DEFINE call    == adding[a]
           slot    == bucketIndex(call.second)
           cleared == ClearedByAdd(call)
           ring    == ClearedBuckets(cleared)
           left    == RemainingCounters(cleared)
<1>1. /\ call.status = "locking" /\ call.now \in StartClock..MaxClock
      /\ call.query \in Queries /\ call.second \in Nat \ {NoSecond}
  BY DEF IInv, TypeOK, AddCalls, AddLocked, NotAdding
<1>2. slot \in Index /\ cleared \in SUBSET Index
  BY <1>1, SlotInRing DEF ClearedByAdd, Expired
<1>3. ring \in [Index -> Buckets] /\ left \in [Queries -> Nat]
  BY <1>2, ClearingTypes DEF IInv
<1>4. /\ buckets' = [ring EXCEPT ![slot].unixSecond = call.second,
                                 ![slot].counts[call.query] = @ + 1]
      /\ counters' = [left EXCEPT ![call.query] = @ + 1]
      /\ dirty' = TRUE
      /\ topCache' = topCache /\ topGeneratedAt' = topGeneratedAt
      /\ adding' = [adding EXCEPT ![a] = NotAdding]
      /\ clock' = clock /\ rebuilding' = rebuilding /\ cancelled' = cancelled
      /\ gauges' = [uniqueQueries |-> Cardinality(ActiveQueries(counters')),
                    topCacheSize  |-> Len(topCache')]
  BY DEF AddLocked, Counted, setCounterMetrics
<1> HIDE DEF ring, left, cleared, call, slot
<1>5. /\ buckets' \in [Index -> Buckets]
      /\ counters' \in [Queries -> Nat]
  BY <1>1, <1>2, <1>3, <1>4 DEF Buckets
<1>6. /\ \A i \in Index \ {slot} : buckets'[i] = ring[i]
      /\ buckets'[slot].unixSecond = call.second
      /\ buckets'[slot].counts = [ring[slot].counts EXCEPT ![call.query] = @ + 1]
  BY <1>2, <1>3, <1>4 DEF Buckets
<1>7. TypeOK'
  <2>1. gauges' \in [uniqueQueries : Nat, topCacheSize : Nat]
    BY <1>4, <1>5, GaugeTypes DEF IInv, TypeOK
  <2>2. adding' \in [Adders -> AddCalls]
    BY <1>4 DEF IInv, TypeOK, AddCalls
  <2> QED BY <1>4, <1>5, <2>1, <2>2 DEF IInv, TypeOK
<1>8. SlotHoldsItsSecond'
  <2> SUFFICES ASSUME NEW i \in Index
               PROVE  IF buckets'[i].unixSecond = NoSecond
                      THEN buckets'[i].counts = NoCounts
                      ELSE bucketIndex(buckets'[i].unixSecond) = i
    BY DEF SlotHoldsItsSecond
  <2>1. CASE i = slot
    BY <2>1, <1>1, <1>6 DEF slot
  <2>2. CASE i # slot
    BY <2>2, <1>2, <1>6, ClearingKeepsSlots DEF ring, IInv
  <2> QED BY <2>1, <2>2
<1>9. CountersMatchBuckets'
  <2> SUFFICES ASSUME NEW q \in Queries PROVE counters'[q] = RingTotal(q)'
    BY DEF CountersMatchBuckets
  <2> DEFINE f == [i \in Index |-> ring[i].counts[q]]
             g == [i \in Index |-> buckets'[i].counts[q]]
  <2>1. left[q] = Total(f, bucketCount)
    BY <1>2, ClearingKeepsTotals DEF left, ring, IInv
  <2>2. f \in [0..bucketCount-1 -> Int] /\ g \in [0..bucketCount-1 -> Int]
    BY <1>3, <1>5, RingNotEmpty DEF Buckets
  <2>3. slot \in 0..bucketCount-1 /\ bucketCount \in Nat
    BY <1>2, RingNotEmpty
  <2>4. \A j \in 0..bucketCount-1 : j # slot => g[j] = f[j]
    BY <1>6, RingNotEmpty
  <2>5. g[slot] - f[slot] = IF q = call.query THEN 1 ELSE 0
    <3>1. ring[slot].counts \in [Queries -> Nat]
      BY <1>2, <1>3 DEF Buckets
    <3>2. f[slot] = ring[slot].counts[q] /\ g[slot] = buckets'[slot].counts[q]
      BY <1>2
    <3>3. buckets'[slot].counts[q] =
            IF q = call.query THEN ring[slot].counts[q] + 1 ELSE ring[slot].counts[q]
      BY <1>1, <1>6, <3>1
    <3>4. ring[slot].counts[q] \in Nat
      BY <3>1
    <3> QED BY <3>2, <3>3, <3>4
  <2>6. counters'[q] = left[q] + (IF q = call.query THEN 1 ELSE 0)
    BY <1>1, <1>3, <1>4
  <2>7. left[q] \in Nat /\ g[slot] \in Int /\ f[slot] \in Int
    BY <1>3, <2>2, <2>3
  <2>8. RingTotal(q)' = Total(g, bucketCount)
    BY DEF RingTotal
  <2> HIDE DEF f, g
  <2>9. Total(g, bucketCount) = Total(f, bucketCount) + g[slot] - f[slot]
    BY <2>2, <2>3, <2>4, TotalPoint
  <2> QED BY <2>1, <2>5, <2>6, <2>7, <2>8, <2>9
<1>10. CacheFresh' /\ GaugesAgree'
  BY <1>4 DEF CacheFresh, GaugesAgree
<1> QED BY <1>7, <1>8, <1>9, <1>10 DEF IInv

\* A rebuild that got the mutex keeps the invariant.
LEMMA RebuildInvariant ==
  ASSUME IInv, RebuildLocked
  PROVE  IInv'
<1> DEFINE cleared == Expired(rebuilding.now)
<1>1. cleared \in SUBSET Index
  BY DEF Expired
<1>2. rebuilding.now \in StartClock..MaxClock
  BY DEF IInv, TypeOK, RebuildCalls, RebuildLocked
<1>3. /\ buckets' = ClearedBuckets(cleared)
      /\ counters' = RemainingCounters(cleared)
      /\ rebuilding' = NotRebuilding
      /\ clock' = clock /\ adding' = adding /\ cancelled' = cancelled
      /\ gauges' = [uniqueQueries |-> Cardinality(ActiveQueries(counters')),
                    topCacheSize  |-> Len(topCache')]
  BY DEF RebuildLocked, setCounterMetrics
<1>4. \/ /\ cleared = {} /\ dirty = FALSE
         /\ topCache' = topCache /\ topGeneratedAt' = topGeneratedAt /\ dirty' = dirty
      \/ /\ topCache' = buildTop(counters', MaxLimit)
         /\ topGeneratedAt' = rebuilding.now /\ dirty' = FALSE
  BY DEF RebuildLocked, NeedsRebuild, IInv, TypeOK
<1> HIDE DEF cleared
<1>5. buckets' \in [Index -> Buckets] /\ counters' \in [Queries -> Nat]
  BY <1>1, <1>3, ClearingTypes DEF IInv
<1>6. topCache' \in Seq(Items) /\ topGeneratedAt' \in StartClock..MaxClock
  BY <1>2, <1>4, <1>5, TopIsList DEF IInv, TypeOK
<1>7. TypeOK'
  <2>1. gauges' \in [uniqueQueries : Nat, topCacheSize : Nat]
    BY <1>3, <1>5, <1>6, GaugeTypes
  <2>2. rebuilding' \in RebuildCalls
    BY <1>3 DEF RebuildCalls, NotRebuilding
  <2>3. dirty' \in BOOLEAN
    BY <1>4
  <2> QED BY <1>3, <1>5, <1>6, <2>1, <2>2, <2>3 DEF IInv, TypeOK
<1>8. SlotHoldsItsSecond'
  BY <1>1, <1>3, ClearingKeepsSlots DEF SlotHoldsItsSecond, IInv
<1>9. CountersMatchBuckets'
  <2> SUFFICES ASSUME NEW q \in Queries PROVE counters'[q] = RingTotal(q)'
    BY DEF CountersMatchBuckets
  <2>1. RingTotal(q)' =
          Total([i \in Index |-> ClearedBuckets(cleared)[i].counts[q]], bucketCount)
    BY <1>3 DEF RingTotal
  <2> QED BY <2>1, <1>1, <1>3, ClearingKeepsTotals DEF IInv
<1>10. CacheFresh'
  <2>1. CASE topCache' = buildTop(counters', MaxLimit)
    BY <2>1 DEF CacheFresh
  <2>2. CASE cleared = {} /\ dirty = FALSE /\ topCache' = topCache
    <3>1. counters' = counters
      BY <2>2, <1>3, ClearingNothing DEF IInv
    <3> QED BY <2>2, <3>1 DEF CacheFresh, IInv
  <2> QED BY <1>4, <2>1, <2>2
<1>11. GaugesAgree'
  BY <1>3 DEF GaugesAgree
<1> QED BY <1>7, <1>8, <1>9, <1>10, <1>11 DEF IInv

\* An event that is judged worth counting is not older than the window, so its
\* second is not the mark of an empty bucket.
LEMMA ArriveType ==
  ASSUME TypeOK, NEW a \in Adders, Arrive(a)
  PROVE  TypeOK'
<1>1. PICK raw \in RawQueries,
           timestamp \in {clock - lag : lag \in Lags} \cup {ZeroTime} :
        AddBegin(a, raw, timestamp)
  BY DEF Arrive
<1> DEFINE verdict == Verdict(raw, timestamp, clock)
           begun == [status |-> "locking", now |-> clock, query |-> Normalized[raw],
                     second |-> Unix(Truncate(timestamp))]
<1>2. clock \in StartClock..MaxClock /\ StartClock \in Nat /\ MaxClock \in Nat
  BY ConfigAssumption DEF TypeOK
<1>3. timestamp \in Int
  BY <1>1, <1>2, InputAssumption
<1>4. ASSUME verdict = "locking" PROVE begun \in AddCalls
  <2>1. timestamp # ZeroTime /\ ~(timestamp < clock - Window) /\ Normalized[raw] # NoQuery
    BY <1>4 DEF Verdict
  <2>2. Normalized[raw] \in Queries
    BY <2>1, QueryAssumption
  <2>3. timestamp >= BucketSize + Second
    BY <2>1, <1>2, <1>3, ConfigAssumption
  <2>4. Unix(Truncate(timestamp)) \in Nat \ {NoSecond}
    BY <2>3, <1>3, SecondPositive
  <2> QED BY <2>2, <2>4, <1>2 DEF AddCalls
<1>5. adding' = [adding EXCEPT ![a] = IF verdict = "locking" THEN begun ELSE NotAdding]
  BY <1>1 DEF AddBegin
<1>6. NotAdding \in AddCalls
  BY DEF AddCalls
<1> HIDE DEF verdict, begun
<1>7. adding' \in [Adders -> AddCalls]
  BY <1>4, <1>5, <1>6 DEF TypeOK
<1>8. UNCHANGED <<clock, state, rebuilding, cancelled>>
  BY <1>1 DEF AddBegin
<1> QED BY <1>7, <1>8 DEF TypeOK, state

\* Every step keeps the invariant.
LEMMA NextInvariant == IInv /\ [Next]_vars => IInv'
<1> SUFFICES ASSUME IInv, [Next]_vars PROVE IInv' OBVIOUS
<1>1. CASE Tick
  <2>1. TypeOK'
    BY <1>1 DEF Tick, IInv, TypeOK, state
  <2> QED BY <1>1, <2>1, IdleInvariant DEF Tick
<1>2. CASE Cancel
  <2>1. TypeOK'
    BY <1>2 DEF Cancel, IInv, TypeOK, state
  <2> QED BY <1>2, <2>1, IdleInvariant DEF Cancel
<1>3. CASE \E a \in Adders : Arrive(a)
  <2>1. PICK a \in Adders : Arrive(a) BY <1>3
  <2>2. TypeOK'
    BY <2>1, ArriveType DEF IInv
  <2>3. UNCHANGED state
    BY <2>1 DEF Arrive, AddBegin
  <2> QED BY <2>2, <2>3, IdleInvariant
<1>4. CASE \E a \in Adders : AddLocked(a)
  BY <1>4, AddInvariant
<1>5. CASE RebuildBegin
  <2>1. rebuilding' \in RebuildCalls
    BY <1>5 DEF RebuildBegin, IInv, TypeOK, RebuildCalls
  <2>2. TypeOK'
    BY <1>5, <2>1 DEF RebuildBegin, IInv, TypeOK, state
  <2> QED BY <1>5, <2>2, IdleInvariant DEF RebuildBegin
<1>6. CASE RebuildLocked
  BY <1>6, RebuildInvariant
<1>7. CASE RunReturns
  <2>1. rebuilding' \in RebuildCalls
    BY <1>7 DEF RunReturns, RebuildCalls, NotRebuilding
  <2>2. TypeOK'
    BY <1>7, <2>1 DEF RunReturns, IInv, TypeOK, state
  <2> QED BY <1>7, <2>2, IdleInvariant DEF RunReturns
<1>8. CASE UNCHANGED vars
  <2>1. TypeOK'
    BY <1>8 DEF vars, state, IInv, TypeOK
  <2> QED BY <1>8, <2>1, IdleInvariant DEF vars
<1> QED BY <1>1, <1>2, <1>3, <1>4, <1>5, <1>6, <1>7, <1>8 DEF Next

-----------------------------------------------------------------------------
(* Theorems *)

\* In every reachable state the invariant holds.
THEOREM Invariance == Spec => []IInv
BY InitInvariant, NextInvariant, PTL DEF Spec

\* The fields of the aggregator keep their types; no pending Add has the second
\* that marks an empty bucket (aggregator.go:39-56, 104-122).
THEOREM TypeCorrect == Spec => []TypeOK
<1>1. IInv => TypeOK BY DEF IInv
<1> QED BY <1>1, Invariance, PTL

\* The global counters are the totals of the ring, with any number of concurrent
\* adders, readings of the clock and reused slots (aggregator.go:127-140, 301-314).
THEOREM CountersExact == Spec => []CountersMatchBuckets
<1>1. IInv => CountersMatchBuckets BY DEF IInv
<1> QED BY <1>1, Invariance, PTL

\* A bucket in use is in the slot of its second and an unused one holds nothing
\* (aggregator.go:129-137, 289, 312-313).
THEOREM SlotsConsistent == Spec => []SlotHoldsItsSecond
<1>1. IInv => SlotHoldsItsSecond BY DEF IInv
<1> QED BY <1>1, Invariance, PTL

\* The cache needs no rebuild unless dirty says so (aggregator.go:141, 194-203).
THEOREM CacheNeverSilentlyStale == Spec => []CacheFresh
<1>1. IInv => CacheFresh BY DEF IInv
<1> QED BY <1>1, Invariance, PTL

\* The gauges follow the counters and the cache (aggregator.go:142, 196, 204, 322-329).
THEOREM GaugesCorrect == Spec => []GaugesAgree
<1>1. IInv => GaugesAgree BY DEF IInv
<1> QED BY <1>1, Invariance, PTL

\* What a reader gets from a clean cache is the Top-N list of the counters, for
\* every limit it may ask for (aggregator.go:148-169, 272-281, 342-388).
THEOREM ReadersSeeTop == Spec => []ReadsAreTop
<1>1. IInv => ReadsAreTop
  <2> SUFFICES ASSUME IInv, ~dirty, NEW limit \in ReadLimits
               PROVE  IsTopOf(GetTop(limit), counters, Expected(limit))
    BY DEF ReadsAreTop
  <2> DEFINE l == normalizeLimit(limit, DefaultLimit, MaxLimit)
  <2>0. l = Expected(limit)
    BY ConfigAssumption, InputAssumption DEF normalizeLimit, Expected, Smaller
  <2>1. l \in Nat /\ l <= MaxLimit /\ MaxLimit \in Nat
    BY ConfigAssumption, InputAssumption DEF normalizeLimit
  <2>2. IsCounterMap(counters)
    BY TopIsList DEF IInv, TypeOK
  <2>3. topCache = buildTop(counters, MaxLimit)
    BY DEF IInv, CacheFresh
  <2>4. GetTop(limit) = FirstItems(topCache, l)
    BY DEF GetTop
  <2> HIDE DEF l
  <2>5. GetTop(limit) = buildTop(counters, l)
    BY <2>1, <2>2, <2>3, <2>4, PrefixOfTop
  <2>6. IsTopOf(GetTop(limit), counters, l)
    BY <2>1, <2>2, <2>5, BuildTopIsTop
  <2> QED BY <2>0, <2>6
<1> QED BY <1>1, Invariance, PTL

=============================================================================
