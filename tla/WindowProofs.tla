---------------------------- MODULE WindowProofs ----------------------------
(***************************************************************************)
(* Proofs about the aggregator and the events that it has accepted: what   *)
(* is published is never more than the window holds, for any number of     *)
(* adders, any events and any movement of the clock, and it is exactly     *)
(* that if the events and the clock are punctual.                          *)
(***************************************************************************)
EXTENDS WindowHistory, AggregatorProofs

USE DEF NoQuery, NoSecond, ZeroTime

-----------------------------------------------------------------------------
(* Arithmetic of the window *)

\* Buckets of whole seconds, as the default of one second: New also accepts shorter ones.
WholeSeconds == BucketSize % Second = 0

\* Division keeps the order.
LEMMA DivisionMonotone ==
  ASSUME NEW a \in Int, NEW b \in Int, NEW c \in Nat, c > 0, a <= b
  PROVE  a \div c <= b \div c
<1> DEFINE x == a \div c
           y == b \div c
<1>1. x \in Int /\ y \in Int /\ c * x <= a /\ b < c * y + c
  OBVIOUS
<1> HIDE DEF x, y
<1> SUFFICES ASSUME x >= y + 1 PROVE FALSE
  BY <1>1 DEF x, y
<1>2. c * x >= c * (y + 1)
  BY <1>1
<1>3. c * (y + 1) = c * y + c
  BY <1>1
<1> QED BY <1>1, <1>2, <1>3

\* The second of an event that is not too far ahead is one that the history records.
LEMMA SecondRecorded ==
  ASSUME NEW t \in Int, t <= MaxClock + AllowedFutureSkew
  PROVE  Unix(Truncate(t)) <= LastSecond
<1>1. Second \in Nat /\ Second > 0 /\ BucketSize \in Nat /\ BucketSize > 0
      /\ MaxClock + AllowedFutureSkew \in Int
  BY ConfigAssumption
<1>2. Truncate(t) \in Int /\ Truncate(t) <= t
  <2>1. t \div BucketSize \in Int /\ BucketSize * (t \div BucketSize) <= t
    BY <1>1
  <2> QED BY <1>1, <2>1 DEF Truncate
<1>3. Unix(Truncate(t)) <= Unix(MaxClock + AllowedFutureSkew)
  BY <1>1, <1>2, DivisionMonotone DEF Unix
<1>4. Unix(Truncate(t)) \in Int /\ Unix(MaxClock + AllowedFutureSkew) \in Int
  BY <1>1, <1>2 DEF Unix
<1> QED BY <1>3, <1>4, HistoryAssumption

\* A second that does not expire is in the window.
LEMMA LiveIsInWindow ==
  ASSUME WholeSeconds, NEW now \in Int, NEW s \in Nat, s >= CutoffSecond(now)
  PROVE  Promised!InWindow(s, now)
<1>1. Second \in Nat /\ Second > 0 /\ BucketSize \in Nat /\ BucketSize > 0 /\ Window \in Nat
  BY ConfigAssumption
<1>2. bucketCount \in Nat /\ Window = BucketSize * bucketCount
  <2>1. Window \in Int /\ Window % BucketSize = 0
    BY ConfigAssumption
  <2>2. Window \div BucketSize \in Int /\ Window = BucketSize * (Window \div BucketSize) + 0
    BY <1>1, <2>1, Division
  <2> QED BY <1>1, <2>2, RingNotEmpty DEF bucketCount
<1> DEFINE k == BucketSize \div Second
           x == now \div BucketSize
<1>3. k \in Int /\ BucketSize = Second * k
  <2>1. BucketSize \in Int /\ BucketSize % Second = 0
    BY <1>1 DEF WholeSeconds
  <2>2. BucketSize \div Second \in Int /\ BucketSize = Second * (BucketSize \div Second) + 0
    BY <1>1, <2>1, Division
  <2> QED BY <1>1, <2>2
<1>4. x \in Int
  BY <1>1
<1>5. Truncate(now) = x * BucketSize
  BY DEF Truncate
<1> HIDE DEF k, x
<1>6. k >= 1
  BY <1>1, <1>3
<1>7. Unix(Truncate(now)) = x * k
  <2>1. Truncate(now) = Second * (x * k)
    BY <1>1, <1>3, <1>4, <1>5
  <2>2. x * k \in Int
    BY <1>3, <1>4
  <2>3. (Second * (x * k)) \div Second = x * k
    BY <1>1, <2>2
  <2> QED BY <2>1, <2>3 DEF Unix
<1>8. s >= x * k - bucketCount + 1
  BY <1>7 DEF CutoffSecond
<1>9. s * Second >= (x * k - bucketCount + 1) * Second
  BY <1>1, <1>2, <1>3, <1>4, <1>8
<1>10. (x * k - bucketCount + 1) * Second = x * BucketSize - bucketCount * Second + Second
  BY <1>1, <1>2, <1>3, <1>4
<1>11. bucketCount * Second <= Window
  BY <1>1, <1>2, <1>3, <1>6
<1>12. s * Second > x * BucketSize - Window
  <2>1. s * Second \in Int /\ x * BucketSize \in Int /\ bucketCount * Second \in Int
    BY <1>1, <1>2, <1>4
  <2> QED BY <1>1, <1>9, <1>10, <1>11, <2>1
<1> QED BY <1>12 DEF Promised!InWindow, x

-----------------------------------------------------------------------------
(* The ring and the record of the events *)

\* A ring whose slots hold no more than was recorded for their seconds.
Backed(ring, record) ==
  \A i \in Index :
    ring[i].unixSecond # NoSecond =>
      /\ ring[i].unixSecond <= LastSecond
      /\ \A q \in Queries : ring[i].counts[q] <= record[q][ring[i].unixSecond]

Records == [Queries -> [0..LastSecond -> Nat]]

\* What `record' has of q in the window.
CountIn(record, q, now) ==
  Total([s \in 0..LastSecond |-> IF Promised!InWindow(s, now) THEN record[q][s] ELSE 0],
        LastSecond + 1)

\* The abstract window sums as the ring does.
LEMMA TotalsAgree ==
  ASSUME NEW f, NEW n
  PROVE  Promised!Total(f, n) = Total(f, n)
BY DEF Promised!Total, Total

\* The count of the abstract window is taken from what was accepted.
LEMMA WindowCountIn ==
  ASSUME NEW q, NEW now
  PROVE  /\ Promised!WindowCount(q, now) = CountIn(accepted, q, now)
         /\ Promised!WindowCount(q, now)' = CountIn(accepted', q, now)
BY TotalsAgree DEF Promised!WindowCount, Promised!Seconds, CountIn

\* A count is a natural number.
LEMMA CountInNat ==
  ASSUME NEW record \in Records, NEW q \in Queries, NEW now
  PROVE  CountIn(record, q, now) \in Nat
<1> DEFINE f == [s \in 0..LastSecond |-> IF Promised!InWindow(s, now) THEN record[q][s] ELSE 0]
<1>1. LastSecond + 1 \in Nat /\ 0..LastSecond = 0..(LastSecond + 1) - 1
  BY HistoryAssumption
<1>2. f \in [0..LastSecond -> Nat]
  BY DEF Records
<1> HIDE DEF f
<1> QED BY <1>1, <1>2, TotalNat DEF CountIn, f

\* More events, higher counts.
LEMMA CountInMonotone ==
  ASSUME NEW old \in Records, NEW new \in Records, NEW q \in Queries, NEW now,
         \A s \in 0..LastSecond : old[q][s] <= new[q][s]
  PROVE  CountIn(old, q, now) <= CountIn(new, q, now)
<1> DEFINE f == [s \in 0..LastSecond |-> IF Promised!InWindow(s, now) THEN old[q][s] ELSE 0]
           g == [s \in 0..LastSecond |-> IF Promised!InWindow(s, now) THEN new[q][s] ELSE 0]
<1>1. LastSecond \in Nat /\ LastSecond + 1 \in Nat /\ 0..LastSecond = 0..(LastSecond + 1) - 1
  BY HistoryAssumption
<1>2. f \in [0..LastSecond -> Nat] /\ g \in [0..LastSecond -> Nat]
  BY DEF Records
<1>3. \A s \in 0..LastSecond : f[s] <= g[s]
  BY DEF Records
<1> HIDE DEF f, g
<1>4. Total(f, LastSecond + 1) <= Total(g, LastSecond + 1)
  BY <1>1, <1>2, <1>3, TotalMonotone
<1> QED BY <1>4 DEF CountIn, f, g

\* A ring from which everything expired has been cleared holds no more than the window:
\* no two slots hold the same second.
LEMMA RingWithinWindow ==
  ASSUME NEW ring \in [Index -> Buckets], NEW record \in Records, NEW now, NEW q \in Queries,
         Backed(ring, record),
         \A i \in Index :
           IF ring[i].unixSecond = NoSecond
           THEN ring[i].counts = NoCounts
           ELSE /\ bucketIndex(ring[i].unixSecond) = i
                /\ Promised!InWindow(ring[i].unixSecond, now)
  PROVE  Total([i \in Index |-> ring[i].counts[q]], bucketCount) <= CountIn(record, q, now)
<1> DEFINE f == [i \in Index |-> ring[i].counts[q]]
           g == [s \in 0..LastSecond |-> IF Promised!InWindow(s, now) THEN record[q][s] ELSE 0]
           h == [i \in Index |-> ring[i].unixSecond]
<1>1. /\ LastSecond \in Nat /\ LastSecond + 1 \in Nat /\ 0..LastSecond = 0..(LastSecond + 1) - 1
      /\ bucketCount \in Nat /\ Index = 0..bucketCount-1
  BY HistoryAssumption, RingNotEmpty
<1>2. f \in [Index -> Nat] /\ g \in [0..LastSecond -> Nat]
  BY DEF Records, Buckets
<1>3. \A i \in Index : ring[i].unixSecond \in Nat
  BY DEF Buckets
<1>4. \A i \in Index : f[i] > 0 => ring[i].unixSecond # NoSecond
  BY DEF NoCounts
<1>5. ASSUME NEW i \in Index, f[i] > 0 PROVE h[i] \in 0..LastSecond /\ f[i] <= g[h[i]]
  <2>1. ring[i].unixSecond \in 0..LastSecond /\ Promised!InWindow(ring[i].unixSecond, now)
    BY <1>1, <1>3, <1>4, <1>5 DEF Backed
  <2>2. ring[i].counts[q] <= record[q][ring[i].unixSecond]
    BY <1>4, <1>5 DEF Backed
  <2> QED BY <2>1, <2>2
<1>6. \A i, j \in Index : f[i] > 0 /\ f[j] > 0 /\ h[i] = h[j] => i = j
  BY <1>4
<1> HIDE DEF f, g, h
<1>7. Total(f, bucketCount) <= Total(g, LastSecond + 1)
  BY <1>1, <1>2, <1>5, <1>6, TotalInjection
<1> QED BY <1>7 DEF CountIn, f, g

-----------------------------------------------------------------------------
(* Never too high *)

PendingRecorded ==
  \A a \in Adders : adding[a].status = "locking" => adding[a].second <= LastSecond

HistoryInv ==
  /\ IInv
  /\ accepted \in Records
  /\ PendingRecorded
  /\ Backed(buckets, accepted)

\* With the history the aggregator does what it does without.
LEMMA HistoryIsAggregator == [HistoryNext]_historyVars => [Next]_vars
BY DEF HistoryNext, ArriveBounded, AddRecorded, Next, historyVars

\* A new aggregator has recorded nothing.
LEMMA HistoryInitInvariant == HistoryInit => HistoryInv /\ NeverOvercounts
<1> SUFFICES ASSUME HistoryInit PROVE HistoryInv /\ NeverOvercounts
  OBVIOUS
<1>1. IInv
  BY InitInvariant DEF HistoryInit
<1>2. accepted \in Records
  BY DEF HistoryInit, Records
<1>3. PendingRecorded
  BY DEF HistoryInit, Init, PendingRecorded, NotAdding
<1>4. Backed(buckets, accepted)
  BY DEF HistoryInit, Init, Backed, EmptyBucket
<1>5. NeverOvercounts
  BY DEF HistoryInit, Init, NeverOvercounts
<1> QED BY <1>1, <1>2, <1>3, <1>4, <1>5 DEF HistoryInv

\* What does not count and does not clear.
LEMMA QuietInvariant ==
  ASSUME HistoryInv, IInv', UNCHANGED <<buckets, accepted>>, PendingRecorded'
  PROVE  HistoryInv'
BY DEF HistoryInv

\* An event that is judged worth counting has a second that the history records.
LEMMA ArriveRecorded ==
  ASSUME HistoryInv, NEW a \in Adders, Arrive(a)
  PROVE  PendingRecorded'
<1>1. PICK raw \in RawQueries,
           timestamp \in {clock - lag : lag \in Lags} \cup {ZeroTime} :
        AddBegin(a, raw, timestamp)
  BY DEF Arrive
<1>2. clock \in StartClock..MaxClock /\ adding \in [Adders -> AddCalls]
  BY DEF HistoryInv, IInv, TypeOK
<1>3. /\ timestamp \in Int /\ clock \in Int /\ MaxClock \in Int /\ clock <= MaxClock
      /\ AllowedFutureSkew \in Int
  <2>1. /\ clock \in Int /\ MaxClock \in Int /\ clock <= MaxClock /\ AllowedFutureSkew \in Int
    BY <1>2, ConfigAssumption
  <2>2. timestamp \in Int
    BY <1>1, <2>1, InputAssumption
  <2> QED BY <2>1, <2>2
<1> DEFINE verdict == Verdict(raw, timestamp, clock)
           second == Unix(Truncate(timestamp))
           begun == [status |-> "locking", now |-> clock, query |-> Normalized[raw],
                     second |-> second]
<1>4. ASSUME verdict = "locking" PROVE second <= LastSecond
  <2>1. ~(timestamp > clock + AllowedFutureSkew)
    BY <1>4 DEF Verdict
  <2>2. timestamp <= MaxClock + AllowedFutureSkew
    BY <1>3, <2>1
  <2> QED BY <1>3, <2>2, SecondRecorded
<1>5. adding' = [adding EXCEPT ![a] = IF verdict = "locking" THEN begun ELSE NotAdding]
  BY <1>1 DEF AddBegin
<1> HIDE DEF verdict, second
<1>6. ASSUME NEW b \in Adders, adding'[b].status = "locking"
      PROVE  adding'[b].second <= LastSecond
  <2>1. CASE b # a
    BY <1>2, <1>5, <1>6, <2>1 DEF HistoryInv, PendingRecorded
  <2>2. CASE b = a /\ verdict = "locking"
    BY <1>2, <1>4, <1>5, <2>2
  <2>3. CASE b = a /\ verdict # "locking"
    BY <1>2, <1>5, <1>6, <2>3 DEF NotAdding
  <2> QED BY <2>1, <2>2, <2>3
<1> QED BY <1>6 DEF PendingRecorded

\* An Add that got the mutex counts in the ring and in the record, in the same second; a
\* slot that it takes over has been cleared.
LEMMA AddRecordedInvariant ==
  ASSUME HistoryInv, NEW a \in Adders, AddRecorded(a)
  PROVE  /\ HistoryInv'
         /\ \A q \in Queries : \A s \in 0..LastSecond : accepted[q][s] <= accepted'[q][s]
<1> DEFINE call    == adding[a]
           slot    == bucketIndex(call.second)
           cleared == ClearedByAdd(call)
           ring    == ClearedBuckets(cleared)
<1>1. /\ call.status = "locking" /\ call.query \in Queries
      /\ call.second \in Nat \ {NoSecond} /\ call.second \in 0..LastSecond
  <2>1. /\ call.status = "locking" /\ call.query \in Queries
        /\ call.second \in Nat \ {NoSecond}
    BY DEF HistoryInv, IInv, TypeOK, AddCalls, AddRecorded, AddLocked, NotAdding
  <2>2. call.second <= LastSecond /\ LastSecond \in Nat
    BY <2>1, HistoryAssumption DEF HistoryInv, PendingRecorded
  <2> QED BY <2>1, <2>2
<1>2. slot \in Index /\ cleared \in SUBSET Index
  BY <1>1, SlotInRing DEF ClearedByAdd, Expired
<1>3. ring \in [Index -> Buckets]
  BY <1>2, ClearingTypes DEF HistoryInv, IInv
<1>4. /\ buckets' = [ring EXCEPT ![slot].unixSecond = call.second,
                                 ![slot].counts[call.query] = @ + 1]
      /\ adding' = [adding EXCEPT ![a] = NotAdding]
      /\ accepted' = [accepted EXCEPT ![call.query][call.second] = @ + 1]
  BY DEF AddRecorded, AddLocked, Counted
<1>5. IInv'
  BY AddInvariant DEF HistoryInv, AddRecorded
<1>6. slot \notin cleared => buckets[slot].unixSecond = call.second
  BY DEF ClearedByAdd
<1>7. /\ \A i \in cleared : ring[i].unixSecond = NoSecond /\ ring[i].counts = NoCounts
      /\ \A i \in Index \ cleared : ring[i] = buckets[i]
  BY <1>2 DEF ClearedBuckets, EmptyBucket
<1> HIDE DEF ring, cleared, slot, call
<1>8. /\ \A i \in Index \ {slot} : buckets'[i] = ring[i]
      /\ buckets'[slot].unixSecond = call.second
      /\ buckets'[slot].counts = [ring[slot].counts EXCEPT ![call.query] = @ + 1]
  BY <1>2, <1>3, <1>4 DEF Buckets
<1>9. /\ accepted' \in Records
      /\ \A q \in Queries : \A s \in 0..LastSecond :
           /\ accepted[q][s] \in Nat /\ accepted[q][s] <= accepted'[q][s]
           /\ q = call.query /\ s = call.second => accepted'[q][s] = accepted[q][s] + 1
  <2> DEFINE p == call.query
             t == call.second
             row == [accepted[p] EXCEPT ![t] = @ + 1]
  <2>1. p \in Queries /\ t \in 0..LastSecond
    BY <1>1
  <2> HIDE DEF p, t
  <2>2. accepted \in [Queries -> [0..LastSecond -> Nat]]
    BY DEF HistoryInv, Records
  <2>3. /\ row \in [0..LastSecond -> Nat] /\ row[t] = accepted[p][t] + 1
        /\ \A s \in 0..LastSecond : accepted[p][s] \in Nat /\ accepted[p][s] <= row[s]
    <3> DEFINE old == accepted[p]
    <3>1. old \in [0..LastSecond -> Nat]
      BY <2>1, <2>2
    <3> HIDE DEF old
    <3>2. row = [old EXCEPT ![t] = @ + 1]
      BY DEF old
    <3> HIDE DEF row
    <3>3. /\ row \in [0..LastSecond -> Nat] /\ row[t] = old[t] + 1
          /\ \A s \in 0..LastSecond : old[s] \in Nat /\ old[s] <= row[s]
      BY <2>1, <3>1, <3>2
    <3> QED BY <3>3 DEF old
  <2>4. accepted' = [accepted EXCEPT ![p] = row]
    BY <1>4 DEF p, t
  <2> HIDE DEF row
  <2>5. accepted' \in Records /\ accepted'[p] = row
    BY <2>1, <2>2, <2>3, <2>4 DEF Records
  <2>6. \A q \in Queries \ {p} : accepted'[q] = accepted[q]
    BY <2>2, <2>4
  <2>7. ASSUME NEW q \in Queries, NEW s \in 0..LastSecond
        PROVE  accepted[q][s] \in Nat /\ accepted[q][s] <= accepted'[q][s]
    <3>1. CASE q = p
      BY <2>3, <2>5, <3>1
    <3>2. CASE q # p
      <4>1. accepted'[q] = accepted[q]
        BY <2>6, <3>2
      <4>2. accepted[q][s] \in Nat
        BY <2>2
      <4> QED BY <4>1, <4>2
    <3> QED BY <3>1, <3>2
  <2> QED BY <2>3, <2>5, <2>7 DEF p, t
<1>10. PendingRecorded'
  <2>1. adding \in [Adders -> AddCalls]
    BY DEF HistoryInv, IInv, TypeOK
  <2> QED BY <1>4, <2>1 DEF HistoryInv, PendingRecorded, NotAdding
<1>11. ASSUME NEW i \in Index, buckets'[i].unixSecond # NoSecond
       PROVE  /\ buckets'[i].unixSecond <= LastSecond
              /\ \A q \in Queries :
                   buckets'[i].counts[q] <= accepted'[q][buckets'[i].unixSecond]
  <2>1. CASE i # slot
    <3>1. i \notin cleared /\ buckets'[i] = buckets[i]
      BY <1>7, <1>8, <1>11, <2>1
    <3>2. /\ buckets[i].unixSecond <= LastSecond /\ buckets[i].unixSecond \in Nat
          /\ \A q \in Queries : buckets[i].counts[q] <= accepted[q][buckets[i].unixSecond]
          /\ \A q \in Queries : buckets[i].counts[q] \in Nat
      BY <1>11, <3>1 DEF HistoryInv, Backed, IInv, TypeOK, Buckets
    <3>3. buckets[i].unixSecond \in 0..LastSecond /\ LastSecond \in Nat
      BY <3>2, HistoryAssumption
    <3>4. accepted' \in Records
      BY <1>9
    <3>5. \A q \in Queries : buckets[i].counts[q] <= accepted'[q][buckets[i].unixSecond]
      <4> DEFINE u == buckets[i].unixSecond
      <4>1. u \in 0..LastSecond
        BY <3>3
      <4>2. \A q \in Queries :
              buckets[i].counts[q] <= accepted[q][u] /\ buckets[i].counts[q] \in Nat
        BY <3>2
      <4> HIDE DEF u
      <4>3. ASSUME NEW q \in Queries PROVE buckets[i].counts[q] <= accepted'[q][u]
        <5>1. /\ accepted[q][u] \in Nat /\ accepted'[q][u] \in Nat
              /\ accepted[q][u] <= accepted'[q][u]
          BY <1>9, <3>4, <4>1 DEF Records
        <5> QED BY <4>2, <5>1
      <4> QED BY <4>3 DEF u
    <3> QED BY <3>1, <3>2, <3>5
  <2>2. CASE i = slot
    <3>1. ASSUME NEW q \in Queries PROVE ring[slot].counts[q] <= accepted[q][call.second]
      <4>1. CASE slot \in cleared
        BY <1>1, <1>7, <1>9, <4>1 DEF NoCounts
      <4>2. CASE slot \notin cleared
        BY <1>1, <1>2, <1>6, <1>7, <4>2 DEF HistoryInv, Backed
      <4> QED BY <4>1, <4>2
    <3>2. ring[slot].counts \in [Queries -> Nat]
      BY <1>2, <1>3 DEF Buckets
    <3>3. ASSUME NEW q \in Queries PROVE buckets'[slot].counts[q] <= accepted'[q][call.second]
      <4>1. accepted'[q][call.second] \in Nat /\ accepted[q][call.second] \in Nat
        BY <1>1, <1>9 DEF Records
      <4>2. CASE q = call.query
        <5>1. buckets'[slot].counts[q] = ring[slot].counts[q] + 1
          BY <1>8, <3>2, <4>2
        <5>2. accepted'[q][call.second] = accepted[q][call.second] + 1
          BY <1>1, <1>9, <4>2
        <5> QED BY <3>1, <3>2, <4>1, <5>1, <5>2
      <4>3. CASE q # call.query
        <5>1. buckets'[slot].counts[q] = ring[slot].counts[q]
          BY <1>8, <3>2, <4>3
        <5>2. accepted[q][call.second] <= accepted'[q][call.second]
          BY <1>1, <1>9
        <5> QED BY <3>1, <3>2, <4>1, <5>1, <5>2
      <4> QED BY <4>2, <4>3
    <3>4. call.second <= LastSecond
      BY <1>1, HistoryAssumption
    <3> QED BY <1>8, <2>2, <3>3, <3>4
  <2> QED BY <2>1, <2>2
<1>12. Backed(buckets', accepted')
  BY <1>11 DEF Backed
<1> QED BY <1>5, <1>9, <1>10, <1>12 DEF HistoryInv

\* What was published stays below what the window held: the record only grows.
LEMMA PublishedStays ==
  ASSUME HistoryInv, accepted' \in Records, NeverOvercounts,
         UNCHANGED <<topCache, topGeneratedAt>>,
         \A q \in Queries : \A s \in 0..LastSecond : accepted[q][s] <= accepted'[q][s]
  PROVE  NeverOvercounts'
<1> SUFFICES ASSUME NEW k \in 1..Len(topCache)
             PROVE  topCache[k].count <=
                      Promised!WindowCount(topCache[k].query, topGeneratedAt)'
  BY DEF NeverOvercounts
<1> DEFINE q == topCache[k].query
           before == CountIn(accepted, q, topGeneratedAt)
           after == CountIn(accepted', q, topGeneratedAt)
<1>1. topCache[k] \in Items
  BY DEF HistoryInv, IInv, TypeOK
<1>2. q \in Queries /\ topCache[k].count \in Nat
  BY <1>1 DEF Items
<1>3. topCache[k].count <= before
  BY WindowCountIn DEF NeverOvercounts
<1>4. before <= after
  BY <1>2, CountInMonotone DEF HistoryInv
<1>5. before \in Nat /\ after \in Nat
  BY <1>2, CountInNat DEF HistoryInv
<1>6. Promised!WindowCount(topCache[k].query, topGeneratedAt)' = after
  <2>1. Promised!WindowCount(topCache[k].query, topGeneratedAt)' =
          Promised!Total([s \in 0..LastSecond |->
            IF Promised!InWindow(s, topGeneratedAt') THEN accepted'[topCache'[k].query][s]
            ELSE 0],
            LastSecond + 1)
    BY DEF Promised!WindowCount, Promised!Seconds
  <2> QED BY <2>1, TotalsAgree DEF CountIn
<1> HIDE DEF before, after
<1> QED BY <1>2, <1>3, <1>4, <1>5, <1>6

\* The published counts after a step, compared with the record after the step.
LEMMA PublishedWithin ==
  ASSUME \A k \in 1..Len(topCache') :
           topCache'[k].count <= CountIn(accepted', topCache'[k].query, topGeneratedAt')
  PROVE  NeverOvercounts'
<1>1. \A k : Promised!WindowCount(topCache[k].query, topGeneratedAt)' =
        CountIn(accepted', topCache'[k].query, topGeneratedAt')
  BY TotalsAgree DEF Promised!WindowCount, Promised!Seconds, CountIn
<1> QED BY <1>1 DEF NeverOvercounts

\* What was accepted before the step is still accepted when the step records nothing.
LEMMA RecordsStay ==
  ASSUME accepted \in Records, accepted' = accepted
  PROVE  \A q \in Queries : \A s \in 0..LastSecond : accepted[q][s] <= accepted'[q][s]
<1> SUFFICES ASSUME NEW q \in Queries, NEW s \in 0..LastSecond
             PROVE  accepted[q][s] <= accepted'[q][s]
  OBVIOUS
<1>1. accepted[q] \in [0..LastSecond -> Nat]
  BY DEF Records
<1>2. accepted[q][s] \in Nat
  BY <1>1
<1>3. accepted'[q][s] = accepted[q][s]
  OBVIOUS
<1> QED BY <1>2, <1>3

\* A rebuild only clears.
LEMMA RebuildKeepsRecord ==
  ASSUME HistoryInv, RebuildLocked, UNCHANGED accepted
  PROVE  HistoryInv'
<1>1. IInv'
  BY RebuildInvariant DEF HistoryInv
<1>2. adding' = adding /\ buckets' = ClearedBuckets(Expired(rebuilding.now))
  BY DEF RebuildLocked
<1>3. \A i \in Index : buckets'[i].unixSecond # NoSecond => buckets'[i] = buckets[i]
  BY <1>2 DEF ClearedBuckets, EmptyBucket
<1>4. Backed(buckets', accepted')
  BY <1>3 DEF HistoryInv, Backed
<1>5. PendingRecorded'
  BY <1>2 DEF HistoryInv, PendingRecorded
<1> QED BY <1>1, <1>4, <1>5 DEF HistoryInv

\* What a rebuild publishes is what the ring holds after the expiry.
LEMMA RebuildHistoryInvariant ==
  ASSUME WholeSeconds, HistoryInv, NeverOvercounts, RebuildLocked, UNCHANGED accepted
  PROVE  HistoryInv' /\ NeverOvercounts'
<1> DEFINE now == rebuilding.now
           cleared == Expired(now)
<1>1. IInv'
  BY RebuildInvariant DEF HistoryInv
<1>2. now \in Int
  BY ConfigAssumption DEF HistoryInv, IInv, TypeOK, RebuildCalls, RebuildLocked
<1>3. /\ buckets' = ClearedBuckets(cleared) /\ counters' = RemainingCounters(cleared)
      /\ adding' = adding
  BY DEF RebuildLocked
<1>4. \A i \in Index : buckets'[i].unixSecond # NoSecond =>
        buckets'[i] = buckets[i] /\ buckets[i].unixSecond >= CutoffSecond(now)
  <2>1. CutoffSecond(now) \in Int
    <3>1. Second \in Nat /\ Second > 0 /\ BucketSize \in Nat /\ BucketSize > 0
      BY ConfigAssumption
    <3>2. Truncate(now) \in Int
      BY <1>2, <3>1 DEF Truncate
    <3>3. Unix(Truncate(now)) \in Int
      BY <3>1, <3>2 DEF Unix
    <3> QED BY <3>3, RingNotEmpty DEF CutoffSecond
  <2>2. \A i \in Index : buckets[i].unixSecond \in Nat
    BY DEF HistoryInv, IInv, TypeOK, Buckets
  <2> QED BY <1>3, <2>1, <2>2 DEF ClearedBuckets, EmptyBucket, Expired
<1> HIDE DEF cleared, now
<1>5. HistoryInv'
  BY RebuildKeepsRecord
<1>6. CASE UNCHANGED <<topCache, topGeneratedAt>>
  <2>1. \A q \in Queries : \A s \in 0..LastSecond : accepted[q][s] <= accepted'[q][s]
    BY RecordsStay DEF HistoryInv
  <2> QED BY <1>5, <1>6, <2>1, PublishedStays DEF HistoryInv
<1>7. CASE topCache' = buildTop(counters', MaxLimit) /\ topGeneratedAt' = now
  <2>1. ASSUME NEW q \in Queries PROVE counters'[q] <= CountIn(accepted, q, now)
    <3>1. counters'[q] = Total([i \in Index |-> buckets'[i].counts[q]], bucketCount)
      BY <1>1 DEF IInv, CountersMatchBuckets, RingTotal
    <3>2. buckets' \in [Index -> Buckets] /\ accepted \in Records /\ Backed(buckets', accepted)
      BY <1>1, <1>5 DEF HistoryInv, IInv, TypeOK
    <3>3. ASSUME NEW i \in Index
          PROVE  IF buckets'[i].unixSecond = NoSecond
                 THEN buckets'[i].counts = NoCounts
                 ELSE /\ bucketIndex(buckets'[i].unixSecond) = i
                      /\ Promised!InWindow(buckets'[i].unixSecond, now)
      <4>1. IF buckets'[i].unixSecond = NoSecond
            THEN buckets'[i].counts = NoCounts
            ELSE bucketIndex(buckets'[i].unixSecond) = i
        BY <1>1 DEF IInv, SlotHoldsItsSecond
      <4>2. buckets'[i].unixSecond \in Nat
        BY <1>1 DEF IInv, TypeOK, Buckets
      <4>3. buckets'[i].unixSecond # NoSecond => Promised!InWindow(buckets'[i].unixSecond, now)
        BY <1>2, <1>4, <4>2, LiveIsInWindow
      <4> QED BY <4>1, <4>3
    <3>4. Total([i \in Index |-> buckets'[i].counts[q]], bucketCount) <=
            CountIn(accepted, q, now)
      BY <3>2, <3>3, RingWithinWindow
    <3> QED BY <3>1, <3>4
  <2>2. ASSUME NEW k \in 1..Len(topCache')
        PROVE  topCache'[k].count <= CountIn(accepted', topCache'[k].query, topGeneratedAt')
    <3>1. counters' \in [Queries -> Nat] /\ MaxLimit \in Nat
      BY <1>1, ConfigAssumption DEF IInv, TypeOK
    <3>2. IsCounterMap(counters')
      BY <3>1, TopIsList
    <3> DEFINE size == Smaller(MaxLimit, Cardinality(ItemsOf(counters')))
    <3>3. size \in Nat /\ topCache' \in [1..size -> ItemsOf(counters')]
      BY <1>7, <3>1, <3>2, BuildTopRanks
    <3> HIDE DEF size
    <3>4. topCache'[k] \in ItemsOf(counters')
      BY <3>3
    <3>5. topCache'[k].query \in Queries /\ topCache'[k].count = counters'[topCache'[k].query]
      BY <3>1, <3>4 DEF ItemsOf, ActiveQueries
    <3>6. topCache'[k].count <= CountIn(accepted, topCache'[k].query, now)
      BY <2>1, <3>5
    <3> QED BY <1>7, <3>6
  <2> QED BY <1>5, <2>2, PublishedWithin
<1> QED BY <1>5, <1>6, <1>7 DEF RebuildLocked, now

\* Every step keeps the published counts within the window.
LEMMA HistoryNextInvariant ==
  ASSUME WholeSeconds, HistoryInv, NeverOvercounts, [HistoryNext]_historyVars
  PROVE  HistoryInv' /\ NeverOvercounts'
<1>1. IInv'
  BY NextInvariant, HistoryIsAggregator DEF HistoryInv
<1>2. ASSUME accepted' = accepted, UNCHANGED <<topCache, topGeneratedAt>>
      PROVE  NeverOvercounts'
  <2>1. \A q \in Queries : \A s \in 0..LastSecond : accepted[q][s] <= accepted'[q][s]
    BY <1>2, RecordsStay DEF HistoryInv
  <2> QED BY <1>2, <2>1, PublishedStays DEF HistoryInv
<1>3. ASSUME NEW a \in Adders, ArriveBounded(a) PROVE HistoryInv' /\ NeverOvercounts'
  <2>1. PendingRecorded'
    BY <1>3, ArriveRecorded DEF ArriveBounded
  <2>2. UNCHANGED <<buckets, accepted, topCache, topGeneratedAt>>
    BY <1>3 DEF ArriveBounded, Arrive, AddBegin, state
  <2> QED BY <1>1, <1>2, <2>1, <2>2, QuietInvariant
<1>4. ASSUME NEW a \in Adders, AddRecorded(a) PROVE HistoryInv' /\ NeverOvercounts'
  <2>1. UNCHANGED <<topCache, topGeneratedAt>>
    BY <1>4 DEF AddRecorded, AddLocked
  <2> QED BY <1>4, <2>1, AddRecordedInvariant, PublishedStays DEF HistoryInv
<1>5. CASE RebuildLocked /\ UNCHANGED accepted
  BY <1>5, RebuildHistoryInvariant
<1>6. ASSUME UNCHANGED <<accepted, state, adding>> PROVE HistoryInv' /\ NeverOvercounts'
  <2>1. PendingRecorded'
    BY <1>6 DEF HistoryInv, PendingRecorded
  <2>2. UNCHANGED <<buckets, accepted, topCache, topGeneratedAt>>
    BY <1>6 DEF state
  <2> QED BY <1>1, <1>2, <2>1, <2>2, QuietInvariant
<1> QED
  BY <1>3, <1>4, <1>5, <1>6
     DEF HistoryNext, historyVars, vars, Tick, Cancel, RebuildBegin, RunReturns

\* No published count is higher than what the window holds: with buckets of whole seconds,
\* for any number of adders, late and early events, and a clock that is set back
\* (NeverOvercounts; aggregator.go:194-203, 283-299).
THEOREM NoOvercount ==
  ASSUME WholeSeconds
  PROVE  HistorySpec => []NeverOvercounts
<1>1. HistoryInit => HistoryInv /\ NeverOvercounts
  BY HistoryInitInvariant
<1>2. HistoryInv /\ NeverOvercounts /\ [HistoryNext]_historyVars =>
        (HistoryInv /\ NeverOvercounts)'
  BY HistoryNextInvariant
<1> QED BY <1>1, <1>2, PTL DEF HistorySpec
-----------------------------------------------------------------------------
(* The sliding window *)

\* Buckets of one second, one adder, a clock that only moves forward, and events of the
\* last Window of seconds: the conditions under which the counts are exact.
Punctual ==
  /\ BucketSize = Second
  /\ \A a, b \in Adders : a = b
  /\ ClockSteps \subseteq Nat
  /\ Lags \subseteq 0..(Window - BucketSize)

\* With buckets of one second a time and the start of its bucket have the same second.
LEMMA UnixOfTruncate ==
  ASSUME Punctual, NEW t \in Int
  PROVE  /\ Unix(t) \in Int /\ Unix(Truncate(t)) = Unix(t)
         /\ CutoffSecond(t) = Unix(t) - bucketCount + 1 /\ CutoffSecond(t) \in Int
<1>1. Second \in Nat /\ Second > 0 /\ BucketSize = Second
  BY ConfigAssumption DEF Punctual
<1> DEFINE x == t \div Second
<1>2. x \in Int
  BY <1>1
<1>3. Unix(t) = x /\ Truncate(t) = x * Second
  BY <1>1 DEF Unix, Truncate
<1> HIDE DEF x
<1>4. (x * Second) \div Second = x
  BY <1>1, <1>2
<1>5. Unix(Truncate(t)) = x
  BY <1>3, <1>4 DEF Unix
<1> QED BY <1>2, <1>3, <1>5, RingNotEmpty DEF CutoffSecond

\* The cutoff moves with the clock.
LEMMA CutoffMonotone ==
  ASSUME Punctual, NEW t \in Int, NEW u \in Int, t <= u
  PROVE  Unix(t) <= Unix(u) /\ CutoffSecond(t) <= CutoffSecond(u)
<1>1. Second \in Nat /\ Second > 0
  BY ConfigAssumption
<1>2. Unix(t) <= Unix(u)
  BY <1>1, DivisionMonotone DEF Unix
<1>3. Unix(t) \in Int /\ CutoffSecond(t) = Unix(t) - bucketCount + 1
  BY UnixOfTruncate
<1>4. Unix(u) \in Int /\ CutoffSecond(u) = Unix(u) - bucketCount + 1
  BY UnixOfTruncate
<1>5. bucketCount \in Nat
  BY RingNotEmpty
<1> QED BY <1>2, <1>3, <1>4, <1>5

\* A punctual event has a second of the window.
LEMMA PunctualSecond ==
  ASSUME Punctual, NEW t \in Int, NEW lag \in Lags
  PROVE  Unix(t - lag) \in CutoffSecond(t)..Unix(t)
<1>1. Second \in Nat /\ Second > 0 /\ BucketSize = Second /\ Window \in Nat
  BY ConfigAssumption DEF Punctual
<1>2. lag \in Nat /\ lag <= Window - Second /\ t - lag \in Int
  <2>1. lag \in 0..(Window - Second)
    BY <1>1 DEF Punctual
  <2> QED BY <1>1, <2>1
<1>3. bucketCount \in Nat /\ Window = Second * bucketCount
  <2>1. Window \in Int /\ Window % Second = 0
    BY <1>1, ConfigAssumption
  <2>2. Window \div Second \in Int /\ Window = Second * (Window \div Second) + 0
    BY <1>1, <2>1, Division
  <2> QED BY <1>1, <2>2, RingNotEmpty DEF bucketCount
<1> DEFINE x == t \div Second
           y == (t - lag) \div Second
<1>4. x \in Int /\ Second * x <= t
  BY <1>1
<1>5. y \in Int /\ t - lag < Second * y + Second
  BY <1>1, <1>2
<1>6. y <= x
  BY <1>1, <1>2, DivisionMonotone
<1>7. Unix(t) = x /\ Unix(t - lag) = y
  BY DEF Unix
<1> HIDE DEF x, y
<1>8. y >= x - bucketCount + 1
  <2> SUFFICES ASSUME y + 1 <= x - bucketCount + 1 PROVE FALSE
    BY <1>3, <1>4, <1>5
  <2>1. Second * (y + 1) <= Second * (x - bucketCount + 1)
    BY <1>1, <1>3, <1>4, <1>5
  <2>2. /\ Second * (y + 1) = Second * y + Second
        /\ Second * (x - bucketCount + 1) = Second * x - Second * bucketCount + Second
    BY <1>1, <1>3, <1>4, <1>5
  <2>3. Second * x \in Int /\ Second * y \in Int
    BY <1>1, <1>4, <1>5
  <2> QED BY <1>1, <1>2, <1>3, <1>4, <1>5, <2>1, <2>2, <2>3
<1> QED BY <1>3, <1>4, <1>5, <1>6, <1>7, <1>8, UnixOfTruncate

\* What the window covers does not expire.
LEMMA InWindowIsLive ==
  ASSUME Punctual, NEW now \in Int, NEW s \in Nat, Promised!InWindow(s, now)
  PROVE  s >= CutoffSecond(now)
<1>1. Second \in Nat /\ Second > 0 /\ BucketSize = Second /\ Window \in Nat
  BY ConfigAssumption DEF Punctual
<1>2. bucketCount \in Nat /\ Window = Second * bucketCount
  <2>1. Window \in Int /\ Window % Second = 0
    BY <1>1, ConfigAssumption
  <2>2. Window \div Second \in Int /\ Window = Second * (Window \div Second) + 0
    BY <1>1, <2>1, Division
  <2> QED BY <1>1, <2>2, RingNotEmpty DEF bucketCount
<1> DEFINE x == now \div Second
<1>3. x \in Int /\ Unix(now) = x
  BY <1>1 DEF Unix
<1>4. s * Second > x * Second - Second * bucketCount
  BY <1>1, <1>2 DEF Promised!InWindow
<1> HIDE DEF x
<1>5. s > x - bucketCount
  <2> SUFFICES ASSUME s <= x - bucketCount PROVE FALSE
    BY <1>2, <1>3
  <2>1. s * Second <= (x - bucketCount) * Second
    BY <1>1, <1>2, <1>3
  <2>2. (x - bucketCount) * Second = x * Second - Second * bucketCount
    BY <1>1, <1>2, <1>3
  <2>3. s * Second \in Int /\ x * Second \in Int /\ Second * bucketCount \in Int
    BY <1>1, <1>2, <1>3
  <2> QED BY <1>4, <2>1, <2>2, <2>3
<1> QED BY <1>2, <1>3, <1>5, UnixOfTruncate

\* Two seconds of a window as long as the ring have different slots.
LEMMA SlotsDiffer ==
  ASSUME NEW s \in Nat, NEW t \in Nat, bucketIndex(s) = bucketIndex(t),
         s - t < bucketCount, t - s < bucketCount
  PROVE  s = t
<1>1. bucketCount \in Nat /\ bucketCount > 0
  BY RingNotEmpty
<1> DEFINE n == bucketCount
           x == s \div n
           y == t \div n
<1>2. /\ x \in Int /\ s = n * x + (s % n) /\ s % n \in Int
      /\ y \in Int /\ t = n * y + (t % n) /\ t % n \in Int
  BY <1>1, Division
<1>3. s % n = t % n
  BY DEF bucketIndex
<1> HIDE DEF n, x, y
<1>4. n \in Nat /\ s - t < n /\ t - s < n
  BY <1>1 DEF n
<1>5. s - t = n * (x - y)
  BY <1>2, <1>3, <1>4
<1>6. ~(x - y >= 1)
  BY <1>2, <1>4, <1>5
<1>7. ~(x - y <= -1)
  BY <1>2, <1>4, <1>5
<1> QED BY <1>2, <1>5, <1>6, <1>7, <1>4

\* What the ring holds of q in second s.
InRing(q, s) ==
  IF buckets[bucketIndex(s)].unixSecond = s THEN buckets[bucketIndex(s)].counts[q] ELSE 0

\* The calls read the clock in the order in which they get the mutex: lastAdd and
\* lastRebuild are what the last Add and the last rebuild that had it read.
CallsInOrder(lastAdd, lastRebuild) ==
  /\ lastAdd <= clock
  /\ topGeneratedAt <= lastRebuild /\ lastRebuild <= clock
  /\ \A a \in Adders :
       adding[a].status = "locking" =>
         /\ lastAdd <= adding[a].now /\ adding[a].now <= clock
         /\ adding[a].second \in CutoffSecond(adding[a].now)..Unix(adding[a].now)
  /\ rebuilding.status = "locking" =>
       lastRebuild <= rebuilding.now /\ rebuilding.now <= clock

\* The ring holds no second outside the window of the last Add.
RingInOrder(lastAdd) ==
  \A i \in Index :
    buckets[i].unixSecond # NoSecond =>
      buckets[i].unixSecond \in CutoffSecond(lastAdd)..Unix(lastAdd)

\* The ring holds all that was accepted of every second that neither of them let expire.
Complete(lastAdd, lastRebuild) ==
  \A q \in Queries : \A s \in 0..LastSecond :
    s >= CutoffSecond(lastAdd) /\ s >= CutoffSecond(lastRebuild) =>
      accepted[q][s] = InRing(q, s)

WindowInv ==
  /\ HistoryInv
  /\ \E lastAdd, lastRebuild \in StartClock..MaxClock :
       CallsInOrder(lastAdd, lastRebuild) /\ RingInOrder(lastAdd)
       /\ Complete(lastAdd, lastRebuild)

\* An empty ring holds all of nothing.
LEMMA WindowInitInvariant == HistoryInit => WindowInv
<1> SUFFICES ASSUME HistoryInit PROVE WindowInv
  OBVIOUS
<1>1. HistoryInv
  BY HistoryInitInvariant
<1>2. StartClock \in StartClock..MaxClock /\ StartClock \in Int
  BY ConfigAssumption
<1>3. CallsInOrder(StartClock, StartClock)
  BY <1>2 DEF CallsInOrder, HistoryInit, Init, NotAdding, NotRebuilding
<1>4. RingInOrder(StartClock)
  BY DEF RingInOrder, HistoryInit, Init, EmptyBucket
<1>5. ASSUME NEW q \in Queries, NEW s \in 0..LastSecond PROVE accepted[q][s] = InRing(q, s)
  <2>1. bucketIndex(s) \in Index
    BY SlotInRing, HistoryAssumption
  <2>2. buckets[bucketIndex(s)] = EmptyBucket
    BY <2>1 DEF HistoryInit, Init
  <2> QED BY <2>2 DEF InRing, HistoryInit, EmptyBucket, NoCounts
<1> QED BY <1>1, <1>2, <1>3, <1>4, <1>5 DEF WindowInv, Complete

\* Steps of the clock and of Run, outside the mutex.
LEMMA QuietWindowInvariant ==
  ASSUME Punctual, WindowInv, HistoryInv', UNCHANGED <<state, accepted, adding>>,
         clock' >= clock,
         \/ rebuilding' = rebuilding
         \/ rebuilding'.status = "locking" /\ rebuilding'.now = clock /\ clock' = clock
         \/ rebuilding'.status # "locking"
  PROVE  WindowInv'
<1>1. PICK lastAdd \in StartClock..MaxClock, lastRebuild \in StartClock..MaxClock :
        CallsInOrder(lastAdd, lastRebuild) /\ RingInOrder(lastAdd)
        /\ Complete(lastAdd, lastRebuild)
  BY DEF WindowInv
<1>2. clock \in Int /\ clock' \in Int /\ lastAdd \in Int /\ lastRebuild \in Int
  BY <1>1, ConfigAssumption DEF HistoryInv, WindowInv, IInv, TypeOK
<1>3. CallsInOrder(lastAdd, lastRebuild)'
  <2>1. lastAdd <= clock' /\ lastRebuild <= clock' /\ topGeneratedAt' <= lastRebuild
    BY <1>1, <1>2 DEF CallsInOrder, state
  <2>2. ASSUME NEW a \in Adders, adding[a].status = "locking"
        PROVE  adding[a].now <= clock'
    <3>1. adding[a].now \in Int
      BY <2>2, ConfigAssumption DEF WindowInv, HistoryInv, IInv, TypeOK, AddCalls, NotAdding
    <3> QED BY <1>1, <1>2, <2>2, <3>1 DEF CallsInOrder
  <2>3. ASSUME rebuilding'.status = "locking"
        PROVE  lastRebuild <= rebuilding'.now /\ rebuilding'.now <= clock'
    <3>1. CASE rebuilding' = rebuilding
      <4>1. rebuilding.now \in Int
        BY <2>3, <3>1, ConfigAssumption DEF WindowInv, HistoryInv, IInv, TypeOK, RebuildCalls
      <4> QED BY <1>1, <1>2, <2>3, <3>1, <4>1 DEF CallsInOrder
    <3>2. CASE rebuilding' # rebuilding
      BY <1>1, <1>2, <2>3, <3>2 DEF CallsInOrder
    <3> QED BY <3>1, <3>2
  <2> QED BY <1>1, <2>1, <2>2, <2>3 DEF CallsInOrder
<1>4. RingInOrder(lastAdd)'
  BY <1>1 DEF RingInOrder, state
<1>5. Complete(lastAdd, lastRebuild)'
  BY <1>1 DEF Complete, InRing, state
<1> QED BY <1>1, <1>3, <1>4, <1>5 DEF WindowInv

\* An event that waits for the mutex has a second of the window of its clock reading.
LEMMA ArriveWindowInvariant ==
  ASSUME Punctual, WindowInv, HistoryInv', NEW a \in Adders, ArriveBounded(a)
  PROVE  WindowInv'
<1>1. PICK lastAdd \in StartClock..MaxClock, lastRebuild \in StartClock..MaxClock :
        CallsInOrder(lastAdd, lastRebuild) /\ RingInOrder(lastAdd)
        /\ Complete(lastAdd, lastRebuild)
  BY DEF WindowInv
<1>2. PICK raw \in RawQueries,
           timestamp \in {clock - lag : lag \in Lags} \cup {ZeroTime} :
        AddBegin(a, raw, timestamp)
  BY DEF Arrive, ArriveBounded
<1>3. UNCHANGED <<clock, state, rebuilding, cancelled, accepted>>
  BY <1>2 DEF AddBegin, ArriveBounded
<1>4. clock \in Int /\ lastAdd \in Int /\ lastRebuild \in Int /\ adding \in [Adders -> AddCalls]
  BY <1>1, ConfigAssumption DEF HistoryInv, WindowInv, IInv, TypeOK
<1> DEFINE verdict == Verdict(raw, timestamp, clock)
           second == Unix(Truncate(timestamp))
           begun == [status |-> "locking", now |-> clock, query |-> Normalized[raw],
                     second |-> second]
<1>5. adding' = [adding EXCEPT ![a] = IF verdict = "locking" THEN begun ELSE NotAdding]
  BY <1>2 DEF AddBegin
<1>6. ASSUME verdict = "locking" PROVE second \in CutoffSecond(clock)..Unix(clock)
  <2>1. timestamp # ZeroTime
    BY <1>6 DEF Verdict
  <2>2. PICK lag \in Lags : timestamp = clock - lag
    BY <1>2, <2>1
  <2>3. timestamp \in Int
    BY <1>4, <2>2, InputAssumption
  <2>4. second = Unix(timestamp)
    BY <2>3, UnixOfTruncate
  <2> QED BY <1>4, <2>2, <2>4, PunctualSecond
<1> HIDE DEF verdict, second
<1>7. ASSUME NEW b \in Adders, adding'[b].status = "locking"
      PROVE  /\ lastAdd <= adding'[b].now /\ adding'[b].now <= clock
             /\ adding'[b].second \in CutoffSecond(adding'[b].now)..Unix(adding'[b].now)
  <2>1. b = a
    BY DEF Punctual
  <2>2. CASE verdict = "locking"
    <3>1. adding'[b] = begun
      BY <1>4, <1>5, <2>1, <2>2
    <3>2. adding'[b].now = clock /\ adding'[b].second = second
      BY <3>1
    <3>3. lastAdd <= clock
      BY <1>1 DEF CallsInOrder
    <3> QED BY <1>4, <1>6, <2>2, <3>2, <3>3
  <2>3. CASE verdict # "locking"
    BY <1>4, <1>5, <1>7, <2>1, <2>3 DEF NotAdding
  <2> QED BY <2>2, <2>3
<1>8. CallsInOrder(lastAdd, lastRebuild)'
  <2>1. /\ lastAdd <= clock' /\ topGeneratedAt' <= lastRebuild /\ lastRebuild <= clock'
        /\ rebuilding'.status = "locking" =>
             lastRebuild <= rebuilding'.now /\ rebuilding'.now <= clock'
    BY <1>1, <1>3 DEF CallsInOrder, state
  <2> QED BY <1>3, <1>7, <2>1 DEF CallsInOrder
<1>9. RingInOrder(lastAdd)'
  BY <1>1, <1>3 DEF RingInOrder, state
<1>10. Complete(lastAdd, lastRebuild)'
  BY <1>1, <1>3 DEF Complete, InRing, state
<1> QED BY <1>1, <1>8, <1>9, <1>10 DEF WindowInv

\* An Add that got the mutex clears nothing but what has expired: a slot that it takes over
\* holds a second that is older than the window.
LEMMA AddWindowInvariant ==
  ASSUME Punctual, WindowInv, NEW a \in Adders, AddRecorded(a)
  PROVE  WindowInv'
<1> DEFINE call    == adding[a]
           slot    == bucketIndex(call.second)
           cleared == ClearedByAdd(call)
           ring    == ClearedBuckets(cleared)
<1>1. PICK lastAdd \in StartClock..MaxClock, lastRebuild \in StartClock..MaxClock :
        CallsInOrder(lastAdd, lastRebuild) /\ RingInOrder(lastAdd)
        /\ Complete(lastAdd, lastRebuild)
  BY DEF WindowInv
<1>2. HistoryInv'
  BY AddRecordedInvariant DEF WindowInv
<1>3. /\ call.status = "locking" /\ call.query \in Queries /\ call.now \in StartClock..MaxClock
      /\ call.second \in Nat \ {NoSecond} /\ call.second \in 0..LastSecond
  <2>1. /\ call.status = "locking" /\ call.query \in Queries
        /\ call.now \in StartClock..MaxClock /\ call.second \in Nat \ {NoSecond}
    BY DEF WindowInv, HistoryInv, IInv, TypeOK, AddCalls, AddRecorded, AddLocked, NotAdding
  <2>2. call.second <= LastSecond /\ LastSecond \in Nat
    BY <2>1, HistoryAssumption DEF WindowInv, HistoryInv, PendingRecorded
  <2> QED BY <2>1, <2>2
<1>4. PICK now \in StartClock..MaxClock : now = call.now
  BY <1>3
<1>5. PICK e \in 0..LastSecond : e = call.second
  BY <1>3
<1>6. /\ now \in Int /\ lastAdd \in Int /\ lastRebuild \in Int /\ clock \in Int
      /\ e \in Nat /\ LastSecond \in Nat
  BY <1>1, <1>4, <1>5, ConfigAssumption, HistoryAssumption
     DEF WindowInv, HistoryInv, IInv, TypeOK
<1>7. /\ lastAdd <= now /\ now <= clock
      /\ e \in CutoffSecond(now)..Unix(now)
  BY <1>1, <1>3, <1>4, <1>5 DEF CallsInOrder
<1>8. /\ Unix(lastAdd) \in Int /\ Unix(now) \in Int /\ Unix(lastAdd) <= Unix(now)
      /\ CutoffSecond(lastAdd) \in Int /\ CutoffSecond(now) \in Int
      /\ CutoffSecond(lastAdd) <= CutoffSecond(now)
      /\ CutoffSecond(now) = Unix(now) - bucketCount + 1
  BY <1>6, <1>7, UnixOfTruncate, CutoffMonotone
<1>9. bucketCount \in Nat /\ slot \in Index
  BY <1>3, RingNotEmpty, SlotInRing
<1>10. cleared \in SUBSET Index /\ ring \in [Index -> Buckets]
  BY <1>9, ClearingTypes DEF WindowInv, HistoryInv, IInv, ClearedByAdd, Expired
<1>11. /\ buckets' = [ring EXCEPT ![slot].unixSecond = call.second,
                                  ![slot].counts[call.query] = @ + 1]
       /\ adding' = [adding EXCEPT ![a] = NotAdding]
       /\ accepted' = [accepted EXCEPT ![call.query][call.second] = @ + 1]
       /\ UNCHANGED <<clock, rebuilding, topGeneratedAt>>
  BY DEF AddRecorded, AddLocked, Counted
<1>12. /\ \A i \in cleared : ring[i].unixSecond = NoSecond /\ ring[i].counts = NoCounts
       /\ \A i \in Index \ cleared : ring[i] = buckets[i]
  BY <1>10 DEF ClearedBuckets, EmptyBucket
<1>13. buckets \in [Index -> Buckets] /\ \A i \in Index : buckets[i].unixSecond \in Nat
  BY DEF WindowInv, HistoryInv, IInv, TypeOK, Buckets
<1>14. \A i \in cleared :
         buckets[i].unixSecond # NoSecond => buckets[i].unixSecond < CutoffSecond(now)
  <2> SUFFICES ASSUME NEW i \in cleared, buckets[i].unixSecond # NoSecond,
                      i \notin Expired(now)
               PROVE  FALSE
    BY DEF Expired
  <2>1. i = slot /\ buckets[i].unixSecond # e
    BY <1>4, <1>5 DEF ClearedByAdd
  <2>2. buckets[i].unixSecond \in Nat /\ buckets[i].unixSecond \in CutoffSecond(now)..Unix(now)
    <3>1. buckets[i].unixSecond \in CutoffSecond(lastAdd)..Unix(lastAdd)
      BY <1>1, <1>10 DEF RingInOrder
    <3>2. ~(buckets[i].unixSecond < CutoffSecond(now))
      BY <1>10 DEF Expired
    <3> QED BY <1>8, <1>10, <1>13, <3>1, <3>2
  <2>3. bucketIndex(buckets[i].unixSecond) = bucketIndex(e)
    BY <1>5, <1>10, <2>1 DEF WindowInv, HistoryInv, IInv, SlotHoldsItsSecond
  <2> QED BY <1>6, <1>7, <1>8, <1>9, <2>1, <2>2, <2>3, SlotsDiffer
<1>15. \A i \in Index \ cleared : buckets[i].unixSecond # NoSecond =>
         buckets[i].unixSecond >= CutoffSecond(now)
  BY <1>4, <1>8, <1>13 DEF ClearedByAdd, Expired
<1>16. slot \notin cleared => buckets[slot].unixSecond = e
  BY <1>5 DEF ClearedByAdd
<1>17. buckets[slot].unixSecond = e => slot \notin cleared
  BY <1>3, <1>5, <1>6, <1>7, <1>8, <1>14
<1> DEFINE p == call.query
<1>18. p \in Queries /\ e # NoSecond /\ slot = bucketIndex(e)
  BY <1>3, <1>5
<1>19. /\ buckets' = [ring EXCEPT ![slot].unixSecond = e, ![slot].counts[p] = @ + 1]
       /\ accepted' = [accepted EXCEPT ![p][e] = @ + 1]
  BY <1>5, <1>11
<1> HIDE DEF ring, cleared, slot, call, p
<1>20. /\ \A i \in Index \ {slot} : buckets'[i] = ring[i]
       /\ buckets'[slot].unixSecond = e
       /\ buckets'[slot].counts = [ring[slot].counts EXCEPT ![p] = @ + 1]
       /\ ring[slot].counts \in [Queries -> Nat]
  BY <1>9, <1>10, <1>19 DEF Buckets
<1>21. CallsInOrder(now, lastRebuild)'
  <2>1. /\ now <= clock' /\ topGeneratedAt' <= lastRebuild /\ lastRebuild <= clock'
        /\ rebuilding'.status = "locking" =>
             lastRebuild <= rebuilding'.now /\ rebuilding'.now <= clock'
    BY <1>1, <1>7, <1>11 DEF CallsInOrder
  <2>2. \A b \in Adders : adding'[b].status # "locking"
    <3>1. adding \in [Adders -> AddCalls]
      BY DEF WindowInv, HistoryInv, IInv, TypeOK
    <3> QED BY <1>11, <3>1 DEF Punctual, NotAdding
  <2> QED BY <2>1, <2>2 DEF CallsInOrder
<1>22. RingInOrder(now)'
  <2>1. ASSUME NEW i \in Index, buckets'[i].unixSecond # NoSecond
        PROVE  buckets'[i].unixSecond \in CutoffSecond(now)..Unix(now)
    <3>1. CASE i = slot
      BY <1>7, <1>20, <3>1
    <3>2. CASE i # slot
      <4>1. i \notin cleared /\ buckets'[i] = buckets[i]
        BY <1>12, <1>20, <2>1, <3>2
      <4>2. buckets[i].unixSecond \in CutoffSecond(lastAdd)..Unix(lastAdd)
        BY <1>1, <2>1, <4>1 DEF RingInOrder
      <4>3. buckets[i].unixSecond >= CutoffSecond(now)
        BY <1>15, <2>1, <4>1
      <4> QED BY <1>8, <4>1, <4>2, <4>3
    <3> QED BY <3>1, <3>2
  <2> QED BY <2>1 DEF RingInOrder
<1>23. ASSUME NEW q \in Queries, NEW s \in 0..LastSecond,
              s >= CutoffSecond(now), s >= CutoffSecond(lastRebuild)
       PROVE  accepted'[q][s] = InRing(q, s)'
  <2>1. accepted[q][s] = InRing(q, s)
    <3>1. s >= CutoffSecond(lastAdd)
      BY <1>6, <1>8, <1>23
    <3> QED BY <1>1, <1>23, <3>1 DEF Complete
  <2>2. bucketIndex(s) \in Index /\ s \in Nat
    BY <1>6, SlotInRing
  <2>3. /\ accepted \in [Queries -> [0..LastSecond -> Nat]]
        /\ accepted[q] \in [0..LastSecond -> Nat]
    BY DEF WindowInv, HistoryInv, Records
  <2>4. CASE s = e
    <3>1. InRing(q, s) = ring[slot].counts[q]
      <4>1. CASE slot \in cleared
        BY <1>9, <1>12, <1>17, <1>18, <2>4, <4>1 DEF InRing, NoCounts
      <4>2. CASE slot \notin cleared
        BY <1>9, <1>12, <1>16, <1>18, <2>4, <4>2 DEF InRing
      <4> QED BY <4>1, <4>2
    <3>2. InRing(q, s)' = buckets'[slot].counts[q]
      BY <1>18, <1>20, <2>4 DEF InRing
    <3>3. accepted'[q][s] = IF q = p THEN accepted[q][s] + 1 ELSE accepted[q][s]
      BY <1>18, <1>19, <2>3, <2>4
    <3>4. buckets'[slot].counts[q] = IF q = p THEN ring[slot].counts[q] + 1
                                     ELSE ring[slot].counts[q]
      BY <1>18, <1>20
    <3> QED BY <2>1, <3>1, <3>2, <3>3, <3>4
  <2>5. CASE s # e
    <3>1. accepted'[q][s] = accepted[q][s]
      <4>1. CASE q = p
        BY <1>18, <1>19, <2>3, <2>5, <4>1
      <4>2. CASE q # p
        BY <1>18, <1>19, <2>3, <4>2
      <4> QED BY <4>1, <4>2
    <3>2. CASE bucketIndex(s) = slot
      <4>1. InRing(q, s)' = 0
        BY <1>20, <2>5, <3>2 DEF InRing
      <4>2. InRing(q, s) = 0
        <5>1. CASE slot \notin cleared
          BY <1>16, <2>5, <3>2, <5>1 DEF InRing
        <5>2. CASE slot \in cleared /\ s # NoSecond
          BY <1>8, <1>13, <1>14, <1>23, <2>2, <3>2, <5>2 DEF InRing
        <5>3. CASE s = NoSecond
          BY <1>9, <3>2, <5>3
             DEF InRing, WindowInv, HistoryInv, IInv, SlotHoldsItsSecond, NoCounts
        <5> QED BY <5>1, <5>2, <5>3
      <4> QED BY <2>1, <3>1, <4>1, <4>2
    <3>3. CASE bucketIndex(s) # slot /\ bucketIndex(s) \notin cleared
      BY <1>12, <1>20, <2>1, <2>2, <3>1, <3>3 DEF InRing
    <3>4. CASE bucketIndex(s) # slot /\ bucketIndex(s) \in cleared
      <4>1. InRing(q, s)' = 0
        BY <1>12, <1>20, <2>2, <3>4 DEF InRing, NoCounts
      <4>2. InRing(q, s) = 0
        <5>1. CASE s # NoSecond
          BY <1>8, <1>13, <1>14, <1>23, <2>2, <3>4, <5>1 DEF InRing
        <5>2. CASE s = NoSecond
          BY <2>2, <5>2 DEF InRing, WindowInv, HistoryInv, IInv, SlotHoldsItsSecond, NoCounts
        <5> QED BY <5>1, <5>2
      <4> QED BY <2>1, <3>1, <4>1, <4>2
    <3> QED BY <3>2, <3>3, <3>4
  <2> QED BY <2>4, <2>5
<1>24. Complete(now, lastRebuild)'
  BY <1>23 DEF Complete
<1> QED BY <1>1, <1>2, <1>4, <1>21, <1>22, <1>24 DEF WindowInv

\* A ring that holds all of the window holds no less than the window.
LEMMA RingCoversWindow ==
  ASSUME NEW ring \in [Index -> Buckets], NEW record \in Records, NEW now, NEW q \in Queries,
         \A s \in 0..LastSecond :
           Promised!InWindow(s, now) /\ record[q][s] > 0 =>
             /\ ring[bucketIndex(s)].unixSecond = s
             /\ ring[bucketIndex(s)].counts[q] = record[q][s]
  PROVE  CountIn(record, q, now) <= Total([i \in Index |-> ring[i].counts[q]], bucketCount)
<1> DEFINE f == [s \in 0..LastSecond |-> IF Promised!InWindow(s, now) THEN record[q][s] ELSE 0]
           g == [i \in Index |-> ring[i].counts[q]]
           h == [s \in 0..LastSecond |-> bucketIndex(s)]
<1>1. /\ LastSecond \in Nat /\ LastSecond + 1 \in Nat /\ 0..LastSecond = 0..(LastSecond + 1) - 1
      /\ bucketCount \in Nat /\ Index = 0..bucketCount-1
  BY HistoryAssumption, RingNotEmpty
<1>2. f \in [0..LastSecond -> Nat] /\ g \in [Index -> Nat]
  BY DEF Records, Buckets
<1>3. \A s \in 0..LastSecond : f[s] > 0 => Promised!InWindow(s, now) /\ record[q][s] > 0
  OBVIOUS
<1>4. ASSUME NEW s \in 0..LastSecond, f[s] > 0 PROVE h[s] \in Index /\ f[s] <= g[h[s]]
  <2>1. bucketIndex(s) \in Index
    BY <1>1, SlotInRing
  <2>2. ring[bucketIndex(s)].counts[q] = f[s]
    BY <1>3, <1>4
  <2>3. g[h[s]] = f[s] /\ f[s] \in Nat
    BY <1>2, <2>1, <2>2
  <2> QED BY <2>1, <2>3
<1>5. ASSUME NEW s \in 0..LastSecond, NEW t \in 0..LastSecond, f[s] > 0, f[t] > 0, h[s] = h[t]
      PROVE  s = t
  BY <1>3, <1>5
<1> HIDE DEF f, g, h
<1>6. Total(f, LastSecond + 1) <= Total(g, bucketCount)
  BY <1>1, <1>2, <1>4, <1>5, TotalInjection
<1> QED BY <1>6 DEF CountIn, f, g

\* The abstract window ranks as the aggregator does.
LEMMA TopsAgree ==
  ASSUME NEW c, NEW n
  PROVE  Promised!buildTop(c, n) = buildTop(c, n)
<1>1. ASSUME NEW S PROVE Promised!Cardinality(S) = Cardinality(S)
  BY DEF Promised!Cardinality, Cardinality
<1>2. Promised!ItemsOf(c) = ItemsOf(c)
  BY DEF Promised!ItemsOf, Promised!ActiveQueries, ItemsOf, ActiveQueries
<1>3. ASSUME NEW item, NEW items PROVE Promised!Rank(item, items) = Rank(item, items)
  <2>1. {other \in items : Promised!isBetter(other, item)} =
          {other \in items : isBetter(other, item)}
    BY DEF Promised!isBetter, isBetter
  <2> QED BY <1>1, <2>1 DEF Promised!Rank, Rank
<1>4. ASSUME NEW m, NEW k PROVE Promised!Smaller(m, k) = Smaller(m, k)
  BY DEF Promised!Smaller, Smaller
<1> DEFINE items == ItemsOf(c)
           size == Smaller(n, Cardinality(items))
           promised(k) == CHOOSE item \in items : Promised!Rank(item, items) = k
           built(k) == CHOOSE item \in items : Rank(item, items) = k
<1>5. Promised!buildTop(c, n) = [k \in 1..size |-> promised(k)]
  BY <1>1, <1>2, <1>4 DEF Promised!buildTop
<1>6. buildTop(c, n) = [k \in 1..size |-> built(k)]
  BY DEF buildTop
<1>7. ASSUME NEW k PROVE promised(k) = built(k)
  BY <1>3
<1> HIDE DEF items, size, promised, built
<1> QED BY <1>5, <1>6, <1>7

\* The rebuild clears what expired and publishes, if anything, exactly the window of the
\* later one of its own reading of the clock and that of the last Add.
LEMMA RebuildWindow ==
  ASSUME Punctual, WindowInv, HistoryInv', RebuildLocked, UNCHANGED accepted
  PROVE  WindowInv' /\ [Promised!Next]_(Promised!vars)
<1> DEFINE cleared == Expired(rebuilding.now)
<1>1. PICK lastAdd \in StartClock..MaxClock, lastRebuild \in StartClock..MaxClock :
        CallsInOrder(lastAdd, lastRebuild) /\ RingInOrder(lastAdd)
        /\ Complete(lastAdd, lastRebuild)
  BY DEF WindowInv
<1>2. PICK now \in StartClock..MaxClock : now = rebuilding.now
  BY DEF WindowInv, HistoryInv, IInv, TypeOK, RebuildCalls, RebuildLocked
<1>3. now \in Int /\ lastAdd \in Int /\ lastRebuild \in Int /\ clock \in Int
  BY <1>1, <1>2, ConfigAssumption DEF WindowInv, HistoryInv, IInv, TypeOK
<1>4. lastRebuild <= now /\ now <= clock /\ lastAdd <= clock /\ topGeneratedAt <= lastRebuild
  BY <1>1, <1>2 DEF CallsInOrder, RebuildLocked
<1>5. /\ CutoffSecond(lastAdd) \in Int /\ CutoffSecond(now) \in Int
      /\ CutoffSecond(lastRebuild) \in Int /\ CutoffSecond(lastRebuild) <= CutoffSecond(now)
  BY <1>3, <1>4, UnixOfTruncate, CutoffMonotone
<1>6. /\ buckets' = ClearedBuckets(cleared) /\ counters' = RemainingCounters(cleared)
      /\ UNCHANGED <<clock, adding, accepted>> /\ rebuilding' = NotRebuilding
  BY DEF RebuildLocked
<1>7. /\ buckets \in [Index -> Buckets] /\ buckets' \in [Index -> Buckets]
      /\ \A i \in Index : buckets[i].unixSecond \in Nat
  BY DEF WindowInv, HistoryInv, IInv, TypeOK, Buckets
<1>8. /\ \A i \in cleared : /\ buckets[i].unixSecond # NoSecond
                            /\ buckets[i].unixSecond < CutoffSecond(now)
                            /\ buckets'[i].unixSecond = NoSecond
                            /\ buckets'[i].counts = NoCounts
      /\ \A i \in Index \ cleared : /\ buckets'[i] = buckets[i]
                                    /\ buckets[i].unixSecond # NoSecond =>
                                         buckets[i].unixSecond >= CutoffSecond(now)
      /\ cleared \in SUBSET Index
  BY <1>2, <1>5, <1>6, <1>7 DEF ClearedBuckets, EmptyBucket, Expired
<1> HIDE DEF cleared
<1>9. RingInOrder(lastAdd)'
  BY <1>1, <1>8 DEF RingInOrder
<1>10. ASSUME NEW q \in Queries, NEW s \in 0..LastSecond,
              s >= CutoffSecond(lastAdd), s >= CutoffSecond(now)
       PROVE  accepted[q][s] = InRing(q, s)'
  <2>1. bucketIndex(s) \in Index /\ s \in Nat
    BY SlotInRing, HistoryAssumption
  <2>2. accepted[q][s] = InRing(q, s)
    <3>1. s >= CutoffSecond(lastRebuild)
      BY <1>5, <1>10, <2>1
    <3> QED BY <1>1, <1>10, <3>1 DEF Complete
  <2>3. CASE bucketIndex(s) \notin cleared
    BY <1>8, <2>1, <2>2, <2>3 DEF InRing
  <2>4. CASE bucketIndex(s) \in cleared
    <3>1. buckets[bucketIndex(s)].unixSecond # s
      BY <1>5, <1>7, <1>8, <1>10, <2>1, <2>4
    <3> QED BY <1>8, <2>2, <2>4, <3>1 DEF InRing, NoCounts
  <2> QED BY <2>3, <2>4
<1>11. Complete(lastAdd, now)'
  BY <1>6, <1>10 DEF Complete
<1>12. ASSUME topGeneratedAt' <= now PROVE WindowInv'
  <2>1. CallsInOrder(lastAdd, now)'
    BY <1>1, <1>4, <1>6, <1>12 DEF CallsInOrder, NotRebuilding
  <2> QED BY <1>1, <1>2, <1>9, <1>11, <2>1 DEF WindowInv
<1>13. CASE UNCHANGED <<topCache, topGeneratedAt>>
  <2>1. topGeneratedAt' <= now
    <3>1. topGeneratedAt \in Int
      BY ConfigAssumption DEF WindowInv, HistoryInv, IInv, TypeOK
    <3> QED BY <1>3, <1>4, <1>13, <3>1
  <2> QED BY <1>6, <1>12, <1>13, <2>1 DEF Promised!vars
<1>14. CASE topCache' = buildTop(counters', MaxLimit) /\ topGeneratedAt' = now
  <2>1. PICK asOf \in StartClock..MaxClock :
          asOf >= lastAdd /\ asOf >= now /\ (asOf = lastAdd \/ asOf = now)
    BY <1>1, <1>2, <1>3
  <2>2. asOf \in Int /\ asOf <= clock
    BY <1>3, <1>4, <2>1
  <2>3. ASSUME NEW q \in Queries PROVE counters'[q] = Promised!WindowCount(q, asOf)
    <3>1. counters'[q] = Total([i \in Index |-> buckets'[i].counts[q]], bucketCount)
      BY DEF HistoryInv, IInv, CountersMatchBuckets, RingTotal
    <3>2. accepted \in Records /\ Backed(buckets', accepted)
      BY <1>6 DEF HistoryInv
    <3>3. CutoffSecond(asOf) = CutoffSecond(lastAdd) \/ CutoffSecond(asOf) = CutoffSecond(now)
      BY <2>1
    <3>4. WholeSeconds
      BY ConfigAssumption DEF Punctual, WholeSeconds
    <3>5. ASSUME NEW i \in Index
          PROVE  IF buckets'[i].unixSecond = NoSecond
                 THEN buckets'[i].counts = NoCounts
                 ELSE /\ bucketIndex(buckets'[i].unixSecond) = i
                      /\ Promised!InWindow(buckets'[i].unixSecond, asOf)
      <4>1. IF buckets'[i].unixSecond = NoSecond
            THEN buckets'[i].counts = NoCounts
            ELSE bucketIndex(buckets'[i].unixSecond) = i
        BY DEF HistoryInv, IInv, SlotHoldsItsSecond
      <4>2. ASSUME buckets'[i].unixSecond # NoSecond
            PROVE  Promised!InWindow(buckets'[i].unixSecond, asOf)
        <5>1. /\ buckets'[i].unixSecond \in Nat
              /\ buckets'[i].unixSecond >= CutoffSecond(now)
              /\ buckets'[i].unixSecond >= CutoffSecond(lastAdd)
          BY <1>1, <1>5, <1>7, <1>8, <4>2 DEF RingInOrder
        <5>2. buckets'[i].unixSecond >= CutoffSecond(asOf)
          BY <3>3, <5>1
        <5> QED BY <2>2, <3>4, <5>1, <5>2, LiveIsInWindow
      <4> QED BY <4>1, <4>2
    <3>6. Total([i \in Index |-> buckets'[i].counts[q]], bucketCount) <=
            CountIn(accepted, q, asOf)
      BY <1>7, <3>2, <3>5, RingWithinWindow
    <3>7. ASSUME NEW s \in 0..LastSecond, Promised!InWindow(s, asOf), accepted[q][s] > 0
          PROVE  /\ buckets'[bucketIndex(s)].unixSecond = s
                 /\ buckets'[bucketIndex(s)].counts[q] = accepted[q][s]
      <4>1. s \in Nat
        BY HistoryAssumption
      <4>2. s >= CutoffSecond(asOf)
        BY <2>2, <3>7, <4>1, InWindowIsLive
      <4>3. s >= CutoffSecond(lastAdd) /\ s >= CutoffSecond(now)
        <5>1. /\ CutoffSecond(lastAdd) <= CutoffSecond(asOf)
              /\ CutoffSecond(now) <= CutoffSecond(asOf)
          BY <1>3, <2>1, <2>2, CutoffMonotone
        <5> QED BY <1>5, <3>3, <4>1, <4>2, <5>1
      <4>4. accepted[q][s] = InRing(q, s)'
        BY <1>10, <4>3
      <4> QED BY <3>7, <4>4 DEF InRing
    <3>8. CountIn(accepted, q, asOf) <=
            Total([i \in Index |-> buckets'[i].counts[q]], bucketCount)
      BY <1>7, <3>2, <3>7, RingCoversWindow
    <3>9. counters'[q] \in Nat /\ CountIn(accepted, q, asOf) \in Nat
      BY <3>2, CountInNat DEF HistoryInv, IInv, TypeOK
    <3> QED BY <3>1, <3>6, <3>8, <3>9, WindowCountIn
  <2>4. counters' = Promised!WindowCounts(asOf)
    <3>1. counters' \in [Queries -> Nat]
      BY DEF HistoryInv, IInv, TypeOK
    <3> QED BY <2>3, <3>1 DEF Promised!WindowCounts
  <2>5. Promised!Publish(now, asOf)
    <3>1. topCache' = Promised!buildTop(Promised!WindowCounts(asOf), MaxLimit)
      BY <1>14, <2>4, TopsAgree
    <3>2. topGeneratedAt <= now
      <4>1. topGeneratedAt \in Int
        BY ConfigAssumption DEF WindowInv, HistoryInv, IInv, TypeOK
      <4> QED BY <1>3, <1>4, <4>1
    <3> QED BY <1>6, <1>14, <2>1, <2>2, <3>1, <3>2 DEF Promised!Publish
  <2>6. Promised!Next
    BY <1>2, <2>1, <2>5 DEF Promised!Next
  <2> QED BY <1>3, <1>12, <1>14, <2>6
<1> QED BY <1>2, <1>13, <1>14 DEF RebuildLocked

\* Every step keeps the calls in order and is a step of the sliding window.
LEMMA HistoryNextWindow ==
  ASSUME Punctual, WindowInv, [HistoryNext]_historyVars
  PROVE  WindowInv' /\ [Promised!Next]_(Promised!vars)
<1>1. ASSUME UNCHANGED <<clock, accepted, topCache, topGeneratedAt>>
      PROVE  UNCHANGED Promised!vars
  BY <1>1 DEF Promised!vars
<1>2. IInv'
  BY NextInvariant, HistoryIsAggregator DEF WindowInv, HistoryInv
<1>3. ASSUME UNCHANGED <<accepted, state, adding>> PROVE HistoryInv'
  <2>1. PendingRecorded'
    BY <1>3 DEF WindowInv, HistoryInv, PendingRecorded
  <2> QED BY <1>2, <1>3, <2>1, QuietInvariant DEF WindowInv, state
<1>4. clock \in Int
  BY ConfigAssumption DEF WindowInv, HistoryInv, IInv, TypeOK
<1>5. ASSUME NEW a \in Adders, ArriveBounded(a)
      PROVE  WindowInv' /\ [Promised!Next]_(Promised!vars)
  <2>1. UNCHANGED <<clock, state, accepted>>
    BY <1>5 DEF ArriveBounded, Arrive, AddBegin
  <2>2. PendingRecorded'
    BY <1>5, ArriveRecorded DEF ArriveBounded, WindowInv
  <2>3. HistoryInv'
    BY <1>2, <2>1, <2>2, QuietInvariant DEF WindowInv, state
  <2>4. WindowInv'
    BY <1>5, <2>3, ArriveWindowInvariant
  <2> QED BY <1>1, <2>1, <2>4 DEF state
<1>6. ASSUME NEW a \in Adders, AddRecorded(a)
      PROVE  WindowInv' /\ [Promised!Next]_(Promised!vars)
  <2>1. PICK q \in Queries, s \in 0..LastSecond : q = adding[a].query /\ s = adding[a].second
    <3>1. /\ adding[a].status = "locking" /\ adding[a].query \in Queries
          /\ adding[a].second \in Nat
      BY <1>6 DEF WindowInv, HistoryInv, IInv, TypeOK, AddCalls, AddRecorded, AddLocked,
                  NotAdding
    <3>2. adding[a].second <= LastSecond /\ LastSecond \in Nat
      BY <3>1, HistoryAssumption DEF WindowInv, HistoryInv, PendingRecorded
    <3> QED BY <3>1, <3>2
  <2>2. Promised!Record(q, s)
    BY <1>6, <2>1 DEF AddRecorded, AddLocked, Promised!Record
  <2>3. Promised!Next
    BY <2>1, <2>2 DEF Promised!Next, Promised!Seconds
  <2>4. WindowInv'
    BY <1>6, AddWindowInvariant
  <2> QED BY <2>3, <2>4
<1>7. CASE Tick /\ UNCHANGED accepted
  <2>1. /\ clock' \in StartClock..MaxClock /\ clock' >= clock
        /\ UNCHANGED <<state, adding, rebuilding, accepted>>
    BY <1>4, <1>7, ConfigAssumption DEF Tick, Punctual
  <2>2. WindowInv'
    <3>1. HistoryInv'
      BY <1>3, <2>1
    <3>2. UNCHANGED <<state, accepted, adding>> /\ rebuilding' = rebuilding
      BY <2>1
    <3> QED BY <2>1, <3>1, <3>2, QuietWindowInvariant
  <2>3. CASE clock' = clock
    BY <1>1, <2>1, <2>2, <2>3 DEF state
  <2>4. CASE clock' > clock
    <3>1. Promised!Advance
      BY <2>1, <2>4 DEF Promised!Advance, state
    <3> QED BY <2>2, <3>1 DEF Promised!Next
  <2>5. clock' \in Int
    BY <2>1, ConfigAssumption
  <2> QED BY <1>4, <2>1, <2>3, <2>4, <2>5
<1>8. CASE RebuildLocked /\ UNCHANGED accepted
  <2>1. HistoryInv'
    BY <1>8, RebuildKeepsRecord DEF WindowInv
  <2> QED BY <1>8, <2>1, RebuildWindow
<1>9. CASE \/ (Cancel \/ RebuildBegin \/ RunReturns) /\ UNCHANGED accepted
           \/ UNCHANGED historyVars
  <2>1. /\ UNCHANGED <<clock, state, adding, accepted>>
        /\ \/ rebuilding' = rebuilding
           \/ rebuilding'.status = "locking" /\ rebuilding'.now = clock /\ clock' = clock
           \/ rebuilding'.status # "locking"
    BY <1>9 DEF Cancel, RebuildBegin, RunReturns, NotRebuilding, historyVars, vars
  <2>2. WindowInv'
    <3>1. HistoryInv'
      BY <1>3, <2>1
    <3>2. UNCHANGED <<state, accepted, adding>> /\ clock' >= clock
      BY <1>4, <2>1
    <3> QED BY <2>1, <3>1, <3>2, QuietWindowInvariant
  <2> QED BY <1>1, <2>1, <2>2 DEF state
<1> QED BY <1>5, <1>6, <1>7, <1>8, <1>9 DEF HistoryNext

\* The ring with its expiry, its reuse of slots and its cached list implements the sliding
\* window over the complete record: with buckets of one second, one adder, a clock that is
\* never set back and events of the window (ImplementsSlidingWindow; aggregator.go:104-146,
\* 171-207, 283-314).
THEOREM SlidingWindowImplemented ==
  ASSUME Punctual
  PROVE  HistorySpec => ImplementsSlidingWindow
<1>1. HistoryInit => WindowInv
  BY WindowInitInvariant
<1>2. HistoryInit => Promised!Init
  BY ConfigAssumption DEF HistoryInit, Init, Promised!Init, Promised!Seconds
<1>3. WindowInv /\ [HistoryNext]_historyVars => WindowInv' /\ [Promised!Next]_(Promised!vars)
  BY HistoryNextWindow
<1> QED BY <1>1, <1>2, <1>3, PTL DEF HistorySpec, ImplementsSlidingWindow, Promised!Spec

=============================================================================
