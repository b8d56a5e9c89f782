------------------------------ MODULE TopItems ------------------------------
(***************************************************************************)
(* The Top-N list of package aggregator: ranking of counters (buildTop,    *)
(* isBetter) and the slice a reader receives (normalizeLimit, GetTop).     *)
(*                                                                         *)
(* A normalized query is represented by its position in lexicographic      *)
(* order, a positive integer, so that the string comparison of isBetter is *)
(* the comparison of integers.  A counter map is a total function to Nat   *)
(* in which 0 stands for an absent key: the code never stores a counter    *)
(* that is not positive.                                                   *)
(***************************************************************************)
EXTENDS Integers, FiniteSets, Sequences

Smaller(m, n) == IF m < n THEN m ELSE n

\* Fault: counters that are not positive are not left out.
ActiveQueriesWithZeros(counters) == DOMAIN counters

\* Queries with a counter, the key set of the map.
ActiveQueries(counters) == {q \in DOMAIN counters : counters[q] > 0}

ItemsOf(counters) ==
  {[query |-> q, count |-> counters[q]] : q \in ActiveQueries(counters)}

\* Higher count first; ties by query, ascending.
isBetter(left, right) ==
  \/ left.count > right.count
  \/ left.count = right.count /\ left.query < right.query

\* The position of an item in the order of isBetter.
Rank(item, items) == Cardinality({other \in items : isBetter(other, item)}) + 1

\* Fault: the items are left as the min-heap has them, worst first.
buildTopUnsorted(counters, limit) ==
  LET items == ItemsOf(counters)
      size  == Smaller(limit, Cardinality(items))
  IN  [k \in 1..size |-> CHOOSE item \in items : Rank(item, items) = size - k + 1]

\* The bounded min-heap keeps the best `limit' items and sortTop orders them.
buildTop(counters, limit) ==
  LET items == ItemsOf(counters)
  IN  [k \in 1..Smaller(limit, Cardinality(items)) |->
         CHOOSE item \in items : Rank(item, items) = k]

normalizeLimit(limit, default, max) ==
  CASE limit <= 0  -> default
    [] limit > max -> max
    [] OTHER       -> limit

\* What a reader of `cache' is given: its first `limit' items.
FirstItems(cache, limit) == SubSeq(cache, 1, Smaller(limit, Len(cache)))

(***************************************************************************)
(* What a Top-N list has to be, without saying how it is computed.         *)
(***************************************************************************)
IsTopOf(list, counters, limit) ==
  LET listed == {list[k].query : k \in 1..Len(list)}
  IN  /\ Len(list) = Smaller(limit, Cardinality(ActiveQueries(counters)))
      /\ \A k \in 1..Len(list) : list[k] \in ItemsOf(counters)
      /\ \A j, k \in 1..Len(list) : j < k => isBetter(list[j], list[k])
      /\ \A q \in ActiveQueries(counters) \ listed, k \in 1..Len(list) :
           isBetter(list[k], [query |-> q, count |-> counters[q]])

=============================================================================
