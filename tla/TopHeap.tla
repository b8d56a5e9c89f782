------------------------------- MODULE TopHeap -------------------------------
(***************************************************************************)
(* buildTop of package aggregator as it runs: a loop over the counter map, *)
(* in the order in which Go happens to visit the keys, that keeps the best *)
(* items in a min-heap of at most MaxLimit, and a sort at the end.         *)
(*                                                                         *)
(* TopItems defines the list that Aggregator takes buildTop to return; the *)
(* loop is shown to return that list.  container/heap and sort.Slice are   *)
(* external, but heap.Push and heap.Fix are written out, one exchange a    *)
(* step, because they work through Less, Swap and Push of topItemHeap.     *)
(***************************************************************************)
EXTENDS TopItems

CONSTANTS
  Queries,         \* normalized queries, as lexicographic positions
  Counts,          \* counts that a query may have, 0 for none
  DefaultLimit, MaxLimit

ASSUME HeapAssumption ==
  /\ IsFiniteSet(Queries) /\ Queries \subseteq Nat \ {0}
  /\ Counts \subseteq Nat
  /\ DefaultLimit \in Nat \ {0} /\ MaxLimit \in Nat /\ MaxLimit >= DefaultLimit

VARIABLES
  counters,     \* the map, which nobody changes meanwhile: RebuildTop holds the mutex
  unvisited,    \* keys the loop has not come to
  candidates,   \* the heap; its root is element 1
  pc,           \* "range", "up", "down" or "returned"
  at,           \* the element that heap.Push or heap.Fix is moving
  items         \* what buildTop returns

heapVars == <<counters, unvisited, candidates, pc, at, items>>

-----------------------------------------------------------------------------
(* container/heap over topItemHeap *)

\* Fault: of two equal counts the query that comes first is the smaller item.
LessTiesReversed(left, right) ==
  \/ left.count < right.count
  \/ left.count = right.count /\ left.query < right.query

\* topItemHeap.Less: the item that isBetter ranks last is the smallest.
Less(left, right) ==
  \/ left.count < right.count
  \/ left.count = right.count /\ left.query > right.query

Swap(heap, i, j) == [heap EXCEPT ![i] = heap[j], ![j] = heap[i]]

Parent(i) == i \div 2

\* The smaller one of the children of element i; the left one if there is no other.
SmallerChild(heap, i) ==
  IF 2 * i + 1 <= Len(heap) /\ Less(heap[2 * i + 1], heap[2 * i])
  THEN 2 * i + 1
  ELSE 2 * i

\* heap.Push, after the item was appended: up exchanges it with its parent ...
SiftUp ==
  /\ pc = "up"
  /\ IF at > 1 /\ Less(candidates[at], candidates[Parent(at)])
     THEN /\ candidates' = Swap(candidates, at, Parent(at))
          /\ at' = Parent(at)
          /\ UNCHANGED pc
     ELSE pc' = "range" /\ at' = 0 /\ UNCHANGED candidates
  /\ UNCHANGED <<counters, unvisited, items>>

\* ... and heap.Fix of the root: down exchanges it with its smaller child.
SiftDown ==
  /\ pc = "down"
  /\ LET child == SmallerChild(candidates, at)
     IN  IF child <= Len(candidates) /\ Less(candidates[child], candidates[at])
         THEN /\ candidates' = Swap(candidates, at, child)
              /\ at' = child
              /\ UNCHANGED pc
         ELSE pc' = "range" /\ at' = 0 /\ UNCHANGED candidates
  /\ UNCHANGED <<counters, unvisited, items>>

-----------------------------------------------------------------------------
(* buildTop *)

Item(q) == [query |-> q, count |-> counters[q]]

\* Fault: the heap may grow one item past the limit.
HasRoomForOneMore == Len(candidates) <= MaxLimit

HasRoom == Len(candidates) < MaxLimit

\* The body of the loop for the key q.
Visit(q) ==
  /\ pc = "range"
  /\ q \in unvisited
  /\ unvisited' = unvisited \ {q}
  /\ \/ /\ HasRoom
        /\ candidates' = Append(candidates, Item(q))
        /\ pc' = "up" /\ at' = Len(candidates')
     \/ /\ ~HasRoom /\ isBetter(Item(q), candidates[1])
        /\ candidates' = [candidates EXCEPT ![1] = Item(q)]
        /\ pc' = "down" /\ at' = 1
     \/ /\ ~HasRoom /\ ~isBetter(Item(q), candidates[1])
        /\ UNCHANGED <<candidates, pc, at>>
  /\ UNCHANGED <<counters, items>>

\* Fault: the items are left in the order of the heap.
ReturnUnsorted ==
  /\ pc = "range"
  /\ unvisited = {}
  /\ items' = candidates
  /\ pc' = "returned"
  /\ UNCHANGED <<counters, unvisited, candidates, at>>

\* The copy, sorted by sortTop.
Return ==
  LET kept == {candidates[i] : i \in 1..Len(candidates)}
  IN  /\ pc = "range"
      /\ unvisited = {}
      /\ items' = [k \in 1..Len(candidates) |-> CHOOSE item \in kept : Rank(item, kept) = k]
      /\ pc' = "returned"
      /\ UNCHANGED <<counters, unvisited, candidates, at>>

\* Every map of counters; a count of 0 is a key that is not there.
HeapInit ==
  /\ counters \in [Queries -> Counts]
  /\ unvisited = ActiveQueries(counters)
  /\ candidates = <<>>
  /\ pc = "range" /\ at = 0
  /\ items = <<>>

HeapNext == (\E q \in Queries : Visit(q)) \/ SiftUp \/ SiftDown \/ Return

-----------------------------------------------------------------------------
(* Properties *)

\* Between two keys no item is better than one below it, so that the root is the
\* item to give up (aggregator.go:358-366, 405-411).
HeapOrdered ==
  pc = "range" =>
    \A i \in 2..Len(candidates) : isBetter(candidates[i], candidates[Parent(i)])

\* Between two keys the heap holds the best MaxLimit of the items that the loop has
\* visited, each once, whatever the order of the visit (aggregator.go:347-367).
KeepsBest ==
  LET visited == ActiveQueries(counters) \ unvisited
      kept    == {candidates[i].query : i \in 1..Len(candidates)}
  IN  pc = "range" =>
        /\ Len(candidates) = Smaller(MaxLimit, Cardinality(visited))
        /\ Cardinality(kept) = Len(candidates) /\ kept \subseteq visited
        /\ \A i \in 1..Len(candidates) : candidates[i] = Item(candidates[i].query)
        /\ \A q \in visited \ kept, p \in kept : isBetter(Item(p), Item(q))

\* The loop returns the list that Aggregator takes it to return: the order in which
\* Go visits the map does not show (aggregator.go:342-374).
ReturnsTop == pc = "returned" => items = buildTop(counters, MaxLimit)

==============================================================================
