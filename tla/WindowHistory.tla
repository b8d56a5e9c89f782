---------------------------- MODULE WindowHistory ----------------------------
(***************************************************************************)
(* The aggregator with a record of every event it accepted, to compare the *)
(* counts it keeps with what the window should hold.  The record is a      *)
(* history variable: no action of Aggregator depends on it.                *)
(***************************************************************************)
EXTENDS Aggregator

CONSTANTS
  LastSecond,       \* bound: the last second an event may have
  MaxPerSecond      \* bound: no Add starts for a query and second with this many

ASSUME HistoryAssumption ==
  /\ LastSecond \in Nat
  /\ LastSecond >= Unix(MaxClock + AllowedFutureSkew)
  /\ MaxPerSecond \in Nat

VARIABLE accepted   \* for each query, how many events of each second were added

historyVars == <<vars, accepted>>

Promised ==
  INSTANCE SlidingWindow
    WITH Times <- StartClock..MaxClock, top <- topCache, generatedAt <- topGeneratedAt

HistoryInit ==
  /\ Init
  /\ accepted = [q \in Queries |-> [s \in 0..LastSecond |-> 0]]

ArriveBounded(a) ==
  /\ Arrive(a)
  /\ adding'[a].status = "locking" =>
       accepted[adding'[a].query][adding'[a].second] < MaxPerSecond
  /\ UNCHANGED accepted

AddRecorded(a) ==
  /\ AddLocked(a)
  /\ accepted' = [accepted EXCEPT ![adding[a].query][adding[a].second] = @ + 1]

HistoryNext ==
  \/ \E a \in Adders : ArriveBounded(a)
  \/ \E a \in Adders : AddRecorded(a)
  \/ (Tick \/ Cancel \/ RebuildBegin \/ RebuildLocked \/ RunReturns) /\ UNCHANGED accepted

HistorySpec == HistoryInit /\ [][HistoryNext]_historyVars

-----------------------------------------------------------------------------
(* Properties *)

\* The ring, the expiry and the cache together implement the sliding window: every
\* list that is published is the Top-N list of the exact counts of the window, and
\* the times the lists carry do not go back.  Holds for one adder, a clock that
\* only moves forward and events whose second is one of the last Window of
\* seconds (README "The aggregator uses exact in-memory counting";
\* aggregator.go:104-146, 171-207, 283-314).
ImplementsSlidingWindow == Promised!Spec

\* No published count is higher than the number of accepted events of that query
\* in the window, even if events arrive late or ahead of time, adders race and
\* the clock is set back: an expired bucket is never published and no event is
\* counted twice (aggregator.go:194-203, 283-299).
NeverOvercounts ==
  \A k \in 1..Len(topCache) :
    topCache[k].count <= Promised!WindowCount(topCache[k].query, topGeneratedAt)

\* The counters that a clean cache was built from are the exact counts of the
\* window at some instant since the rebuild read the clock (README "Global
\* Counters: exact query counts for all active buckets").
ExactCounts ==
  ~dirty => \E asOf \in topGeneratedAt..clock :
              \A q \in Queries : counters[q] = Promised!WindowCount(q, asOf)

=============================================================================
