---------------------------- MODULE SlidingWindow ----------------------------
(***************************************************************************)
(* What the aggregator promises: it counts every event it accepted, in the *)
(* second of its timestamp, and from time to time publishes the Top-N list *)
(* of the counts of exactly the seconds the window covers.  There is no    *)
(* ring here and nothing expires: the window is applied to the complete    *)
(* record.                                                                 *)
(*                                                                         *)
(* A list carries the time at which its computation was started.  The      *)
(* window it shows is that of some instant between then and its            *)
(* publication: the events of the meantime may have moved the window on.   *)
(***************************************************************************)
EXTENDS Integers, Sequences, TopItems, Totals

CONSTANTS
  Queries,
  LastSecond,          \* bound: no event is later
  Times,               \* the instants of the wall clock
  Second, Window, BucketSize,
  MaxLimit

VARIABLES
  clock,
  accepted,            \* for each query, how many events each second has
  top,
  generatedAt

vars == <<clock, accepted, top, generatedAt>>

Seconds == 0..LastSecond

\* The window at `now' covers a second that starts less than Window before the
\* start of the current bucket, or later.
InWindow(second, now) == second * Second > (now \div BucketSize) * BucketSize - Window

WindowCount(q, now) ==
  Total([s \in Seconds |-> IF InWindow(s, now) THEN accepted[q][s] ELSE 0],
        LastSecond + 1)

WindowCounts(now) == [q \in Queries |-> WindowCount(q, now)]

Init ==
  /\ clock \in Times
  /\ accepted = [q \in Queries |-> [s \in Seconds |-> 0]]
  /\ top = <<>>
  /\ generatedAt = clock

Advance ==
  /\ \E now \in Times : now > clock /\ clock' = now
  /\ UNCHANGED <<accepted, top, generatedAt>>

Record(q, s) ==
  /\ accepted' = [accepted EXCEPT ![q][s] = @ + 1]
  /\ UNCHANGED <<clock, top, generatedAt>>

Publish(startedAt, asOf) ==
  /\ generatedAt <= startedAt /\ startedAt <= asOf /\ asOf <= clock
  /\ top' = buildTop(WindowCounts(asOf), MaxLimit)
  /\ generatedAt' = startedAt
  /\ UNCHANGED <<clock, accepted>>

Next ==
  \/ Advance
  \/ \E q \in Queries, s \in Seconds : Record(q, s)
  \/ \E startedAt, asOf \in Times : Publish(startedAt, asOf)

Spec == Init /\ [][Next]_vars

=============================================================================
