------------------------------ MODULE TopProofs ------------------------------
(***************************************************************************)
(* Proofs that the loop of buildTop returns the Top-N list, whatever the   *)
(* order in which it visits the map, and that a request is answered with   *)
(* the part of it that was asked for; for all counters, limits and widths. *)
(***************************************************************************)
EXTENDS TopRequests, CommonTheorems

-----------------------------------------------------------------------------
(* Heaps of totally ordered items *)

\* On T, isBetter is a strict total order.
Ordered(T) ==
  /\ \A a \in T : ~isBetter(a, a)
  /\ \A a, b, c \in T : isBetter(a, b) /\ isBetter(b, c) => isBetter(a, c)
  /\ \A a, b \in T : a = b \/ isBetter(a, b) \/ isBetter(b, a)

Distinct(heap) == \A i, j \in 1..Len(heap) : heap[i] = heap[j] => i = j

\* No item is better than one below it ...
IsHeap(heap) == \A i \in 2..Len(heap) : isBetter(heap[i], heap[Parent(i)])

\* ... and if item k is taken out, the others still are in order.
Around(heap, k) ==
  \A i \in 2..Len(heap) : Parent(i) = k /\ k > 1 => isBetter(heap[i], heap[Parent(k)])

\* The item at k may be better than its parent's place allows: up moves it.
UpHeap(heap, k) ==
  /\ \A i \in 2..Len(heap) : i # k => isBetter(heap[i], heap[Parent(i)])
  /\ Around(heap, k)

\* The item at k may be worse than its children: down moves it.
DownHeap(heap, k) ==
  /\ \A i \in 2..Len(heap) : Parent(i) # k => isBetter(heap[i], heap[Parent(i)])
  /\ Around(heap, k)

\* Positions in a heap.
LEMMA ParentFacts ==
  ASSUME NEW i \in Nat, i >= 2
  PROVE  /\ Parent(i) \in Nat /\ Parent(i) >= 1 /\ Parent(i) < i
         /\ \A k \in Nat : Parent(i) = k <=> (i = 2 * k \/ i = 2 * k + 1)
BY DEF Parent

\* Less is isBetter the other way round.
LEMMA LessIsWorse ==
  ASSUME NEW a, NEW b, a.count \in Nat, b.count \in Nat, a.query \in Nat, b.query \in Nat
  PROVE  Less(a, b) <=> isBetter(b, a)
BY DEF Less, isBetter

\* An exchange of two items.
LEMMA SwapFacts ==
  ASSUME NEW T, NEW heap \in Seq(T), NEW i \in 1..Len(heap), NEW j \in 1..Len(heap)
  PROVE  /\ Swap(heap, i, j) \in Seq(T) /\ Len(Swap(heap, i, j)) = Len(heap)
         /\ i # j => Swap(heap, i, j)[i] = heap[j]
         /\ Swap(heap, i, j)[j] = heap[i]
         /\ \A k \in 1..Len(heap) : k # i /\ k # j => Swap(heap, i, j)[k] = heap[k]
BY DEF Swap

\* The root of a heap is its worst item: the first one that is not better than the
\* root would have a parent that is.
LEMMA RootIsWorst ==
  ASSUME NEW T, Ordered(T), NEW heap \in Seq(T), IsHeap(heap)
  PROVE  \A i \in 2..Len(heap) : isBetter(heap[i], heap[1])
<1> DEFINE Bad == {i \in 2..Len(heap) : ~isBetter(heap[i], heap[1])}
<1> SUFFICES ASSUME Bad # {} PROVE FALSE
  OBVIOUS
<1>1. Len(heap) \in Nat /\ Bad \subseteq Nat
  OBVIOUS
<1> HIDE DEF Bad
<1>2. PICK x \in Bad : \A y \in Bad : ~(<<y, x>> \in OpToRel(<, Nat))
  BY <1>1, WFMin, NatLessThanWellFounded
<1>3. \A y \in Bad : ~(y < x)
  BY <1>1, <1>2 DEF OpToRel
<1>4. x \in 2..Len(heap) /\ ~isBetter(heap[x], heap[1])
  BY DEF Bad
<1>5. Parent(x) \in 1..Len(heap) /\ Parent(x) < x /\ x \in Nat /\ x >= 2
  BY <1>1, <1>4, ParentFacts
<1>6. isBetter(heap[x], heap[Parent(x)])
  BY <1>4 DEF IsHeap
<1>7. CASE Parent(x) = 1
  BY <1>4, <1>6, <1>7
<1>8. CASE Parent(x) # 1
  <2>1. Parent(x) \in 2..Len(heap) /\ Parent(x) \notin Bad
    BY <1>1, <1>3, <1>5, <1>8
  <2>2. isBetter(heap[Parent(x)], heap[1])
    BY <2>1 DEF Bad
  <2>3. heap[x] \in T /\ heap[Parent(x)] \in T /\ heap[1] \in T
    BY <1>1, <1>4, <1>5
  <2> QED BY <1>4, <1>6, <2>2, <2>3 DEF Ordered
<1> QED BY <1>7, <1>8

\* One exchange of up.
LEMMA UpStep ==
  ASSUME NEW T, Ordered(T), NEW heap \in Seq(T), NEW k \in 2..Len(heap), UpHeap(heap, k),
         isBetter(heap[Parent(k)], heap[k])
  PROVE  UpHeap(Swap(heap, k, Parent(k)), Parent(k))
<1> DEFINE p == Parent(k)
           new == Swap(heap, k, p)
           n == Len(heap)
<1>1. n \in Nat /\ k \in Nat /\ k >= 2 /\ k <= n /\ k \in 1..n
  OBVIOUS
<1>2. p \in Nat /\ p \in 1..n /\ p < k /\ p >= 1
  BY <1>1, ParentFacts
<1>3. isBetter(heap[p], heap[k])
  OBVIOUS
<1> HIDE DEF p
<1>4. /\ Len(new) = n /\ new[k] = heap[p] /\ new[p] = heap[k]
      /\ \A i \in 1..n : i # k /\ i # p => new[i] = heap[i]
  BY <1>1, <1>2, SwapFacts
<1>5. \A i \in 1..n : heap[i] \in T
  OBVIOUS
<1> HIDE DEF new
<1>6. ASSUME NEW i \in 2..n, i # p
      PROVE  isBetter(new[i], new[Parent(i)])
  <2>1. /\ Parent(i) \in 1..n /\ Parent(i) < i /\ i \in 1..n
    BY <1>1, ParentFacts
  <2>2. CASE i = k
    BY <1>4, <1>3, <2>2 DEF p
  <2>3. CASE i # k /\ Parent(i) = k
    <3>1. isBetter(heap[i], heap[p])
      BY <1>1, <2>3 DEF UpHeap, Around, p
    <3> QED BY <1>4, <1>6, <2>1, <2>3, <3>1
  <2>4. CASE i # k /\ Parent(i) = p
    <3>1. isBetter(heap[i], heap[p])
      BY <2>4 DEF UpHeap
    <3>2. isBetter(heap[i], heap[k])
      BY <1>1, <1>2, <1>5, <1>3, <2>1, <3>1 DEF Ordered
    <3> QED BY <1>4, <1>6, <2>1, <2>4, <3>2
  <2>5. CASE i # k /\ Parent(i) # k /\ Parent(i) # p
    <3>1. isBetter(heap[i], heap[Parent(i)])
      BY <2>5 DEF UpHeap
    <3> QED BY <1>4, <1>6, <2>1, <2>5, <3>1
  <2> QED BY <2>2, <2>3, <2>4, <2>5
<1>7. ASSUME NEW i \in 2..n, Parent(i) = p, p > 1
      PROVE  isBetter(new[i], new[Parent(p)])
  <2>1. Parent(p) \in 1..n /\ Parent(p) < p /\ p \in 2..n /\ i \in 1..n /\ p < i
    BY <1>1, <1>2, <1>7, ParentFacts
  <2>2. isBetter(heap[p], heap[Parent(p)]) /\ p # k
    BY <1>2, <2>1 DEF UpHeap
  <2>3. new[Parent(p)] = heap[Parent(p)]
    BY <1>2, <1>4, <2>1
  <2>4. CASE i = k
    BY <1>4, <2>2, <2>3, <2>4
  <2>5. CASE i # k
    <3>1. isBetter(heap[i], heap[p])
      BY <1>7, <2>5 DEF UpHeap
    <3>2. isBetter(heap[i], heap[Parent(p)])
      BY <1>2, <1>5, <2>1, <2>2, <3>1 DEF Ordered
    <3> QED BY <1>4, <2>1, <2>3, <2>5, <3>2
  <2> QED BY <2>4, <2>5
<1>8. UpHeap(new, p)
  BY <1>4, <1>6, <1>7 DEF UpHeap, Around
<1> QED BY <1>8 DEF new, p

\* The end of up.
LEMMA UpEnd ==
  ASSUME NEW heap, NEW k, UpHeap(heap, k),
         k <= 1 \/ isBetter(heap[k], heap[Parent(k)])
  PROVE  IsHeap(heap)
BY DEF UpHeap, IsHeap

\* The child with which down compares is the worse one.
LEMMA SmallerChildFacts ==
  ASSUME NEW T, Ordered(T), NEW heap \in Seq(T), NEW k \in 1..Len(heap),
         \A a \in T : a.count \in Nat /\ a.query \in Nat, Distinct(heap),
         SmallerChild(heap, k) <= Len(heap)
  PROVE  /\ SmallerChild(heap, k) \in 2..Len(heap) /\ Parent(SmallerChild(heap, k)) = k
         /\ \A i \in 2..Len(heap) :
              Parent(i) = k =>
                i = SmallerChild(heap, k) \/ isBetter(heap[i], heap[SmallerChild(heap, k)])
<1> DEFINE n == Len(heap)
           child == SmallerChild(heap, k)
<1>1. n \in Nat /\ k \in Nat /\ k >= 1
  OBVIOUS
<1>2. \A i \in 1..n : heap[i] \in T
  OBVIOUS
<1>3. CASE 2 * k + 1 <= n /\ Less(heap[2 * k + 1], heap[2 * k])
  <2>1. child = 2 * k + 1 /\ 2 * k \in 2..n /\ 2 * k + 1 \in 2..n
    BY <1>1, <1>3 DEF SmallerChild
  <2>2. Parent(2 * k + 1) = k
    BY <1>1, ParentFacts
  <2>3. isBetter(heap[2 * k], heap[2 * k + 1])
    BY <1>1, <1>2, <1>3, <2>1, LessIsWorse
  <2> HIDE DEF child
  <2>4. ASSUME NEW i \in 2..n, Parent(i) = k
        PROVE  i = child \/ isBetter(heap[i], heap[child])
    <3>1. i = 2 * k \/ i = 2 * k + 1
      BY <1>1, <2>4, ParentFacts
    <3> QED BY <2>1, <2>3, <3>1
  <2> QED BY <2>1, <2>2, <2>4 DEF child
<1>4. CASE ~(2 * k + 1 <= n /\ Less(heap[2 * k + 1], heap[2 * k]))
  <2>1. child = 2 * k /\ 2 * k \in 2..n
    BY <1>1, <1>4 DEF SmallerChild
  <2>2. Parent(2 * k) = k
    BY <1>1, ParentFacts
  <2> HIDE DEF child
  <2>3. ASSUME NEW i \in 2..n, Parent(i) = k
        PROVE  i = child \/ isBetter(heap[i], heap[child])
    <3>1. i = 2 * k \/ i = 2 * k + 1
      BY <1>1, <2>3, ParentFacts
    <3>2. CASE i = 2 * k + 1
      <4>1. ~Less(heap[i], heap[2 * k]) /\ heap[i] \in T /\ heap[2 * k] \in T
        BY <1>1, <1>2, <1>4, <2>1, <3>2
      <4>2. ~isBetter(heap[2 * k], heap[i])
        BY <4>1, LessIsWorse
      <4>3. heap[i] # heap[2 * k]
        BY <1>1, <2>1, <3>2 DEF Distinct
      <4> QED BY <2>1, <4>1, <4>2, <4>3 DEF Ordered
    <3> QED BY <2>1, <3>1, <3>2
  <2> QED BY <2>1, <2>2, <2>3 DEF child
<1> QED BY <1>3, <1>4

\* One exchange of down.
LEMMA DownStep ==
  ASSUME NEW T, Ordered(T), NEW heap \in Seq(T), NEW k \in 1..Len(heap), DownHeap(heap, k),
         NEW child \in 2..Len(heap), Parent(child) = k, isBetter(heap[k], heap[child]),
         \A i \in 2..Len(heap) : Parent(i) = k => i = child \/ isBetter(heap[i], heap[child])
  PROVE  DownHeap(Swap(heap, k, child), child)
<1> DEFINE new == Swap(heap, k, child)
           n == Len(heap)
<1>1. n \in Nat /\ k \in Nat /\ child \in Nat /\ k < child /\ child \in 1..n /\ k >= 1
  BY ParentFacts
<1>2. /\ Len(new) = n /\ new[k] = heap[child] /\ new[child] = heap[k]
      /\ \A i \in 1..n : i # k /\ i # child => new[i] = heap[i]
  BY <1>1, SwapFacts
<1> HIDE DEF new
<1>3. ASSUME NEW i \in 2..n, Parent(i) # child
      PROVE  isBetter(new[i], new[Parent(i)])
  <2>1. /\ Parent(i) \in 1..n /\ Parent(i) < i /\ i \in 1..n
    BY <1>1, ParentFacts
  <2>2. CASE i = child
    BY <1>2, <2>2
  <2>3. CASE i # child /\ Parent(i) = k
    BY <1>2, <2>1, <2>3
  <2>4. CASE i = k
    <3>1. isBetter(heap[child], heap[Parent(k)])
      BY <1>1, <2>4 DEF DownHeap, Around
    <3> QED BY <1>2, <1>3, <2>1, <2>4, <3>1
  <2>5. CASE i # child /\ Parent(i) # k /\ i # k
    <3>1. isBetter(heap[i], heap[Parent(i)])
      BY <2>5 DEF DownHeap
    <3> QED BY <1>2, <1>3, <2>1, <2>5, <3>1
  <2> QED BY <2>2, <2>3, <2>4, <2>5
<1>4. ASSUME NEW i \in 2..n, Parent(i) = child
      PROVE  isBetter(new[i], new[Parent(child)])
  <2>1. child < i /\ i \in 1..n
    BY <1>1, <1>4, ParentFacts
  <2>2. isBetter(heap[i], heap[child])
    BY <1>1, <1>4 DEF DownHeap
  <2> QED BY <1>1, <1>2, <2>1, <2>2
<1>5. DownHeap(new, child)
  BY <1>2, <1>3, <1>4 DEF DownHeap, Around
<1> QED BY <1>5 DEF new

\* The end of down: there is no child, or the worse one is better than its parent.
LEMMA DownEnd ==
  ASSUME NEW T, Ordered(T), NEW heap \in Seq(T), NEW k \in 1..Len(heap), DownHeap(heap, k),
         NEW child \in Nat, child >= 2 * k,
         \/ child > Len(heap) /\ child = 2 * k
         \/ /\ child <= Len(heap) /\ isBetter(heap[child], heap[k])
            /\ \A i \in 2..Len(heap) :
                 Parent(i) = k => i = child \/ isBetter(heap[i], heap[child])
  PROVE  IsHeap(heap)
<1> DEFINE n == Len(heap)
<1>1. n \in Nat /\ k \in Nat /\ k >= 1 /\ \A i \in 1..n : heap[i] \in T
  OBVIOUS
<1>2. ASSUME NEW i \in 2..n
      PROVE  isBetter(heap[i], heap[Parent(i)])
  <2>1. CASE Parent(i) # k
    BY <2>1 DEF DownHeap
  <2>2. CASE Parent(i) = k
    <3>1. i >= 2 * k /\ i \in 1..n
      BY <1>1, <2>2, ParentFacts
    <3>2. child <= n /\ child \in 1..n
      BY <1>1, <3>1
    <3>3. isBetter(heap[child], heap[k]) /\ (i = child \/ isBetter(heap[i], heap[child]))
      BY <1>1, <2>2, <3>2
    <3> QED BY <1>1, <2>2, <3>1, <3>2, <3>3 DEF Ordered
  <2> QED BY <2>1, <2>2
<1> QED BY <1>2 DEF IsHeap

-----------------------------------------------------------------------------
(* What the heap holds *)

Holds(heap, item) == \E i \in 1..Len(heap) : heap[i] = item

\* The heap holds the best MaxLimit of the items in `seen', each once.
Contents(heap, seen) ==
  /\ Distinct(heap) /\ Len(heap) <= MaxLimit
  /\ \A i \in 1..Len(heap) : heap[i] \in seen
  /\ Len(heap) < MaxLimit => \A item \in seen : Holds(heap, item)
  /\ \A item \in seen : Holds(heap, item) \/ \A i \in 1..Len(heap) : isBetter(heap[i], item)

\* An exchange does not change what the heap holds.
LEMMA SwapContents ==
  ASSUME NEW T, NEW seen, NEW heap \in Seq(T), NEW i \in 1..Len(heap), NEW j \in 1..Len(heap),
         Contents(heap, seen), i # j
  PROVE  Contents(Swap(heap, i, j), seen)
<1> DEFINE new == Swap(heap, i, j)
           n == Len(heap)
           to(k) == IF k = i THEN j ELSE IF k = j THEN i ELSE k
<1>1. /\ Len(new) = n /\ n \in Nat
      /\ \A k \in 1..n : to(k) \in 1..n /\ new[k] = heap[to(k)] /\ new[to(k)] = heap[k]
      /\ \A k, m \in 1..n : to(k) = to(m) => k = m
  <2>1. /\ Len(new) = n /\ n \in Nat /\ new[i] = heap[j] /\ new[j] = heap[i]
        /\ \A k \in 1..n : k # i /\ k # j => new[k] = heap[k]
    BY SwapFacts
  <2> HIDE DEF new
  <2> QED BY <2>1
<1> HIDE DEF new, to
<1>2. Distinct(new)
  <2> SUFFICES ASSUME NEW k \in 1..n, NEW m \in 1..n, new[k] = new[m] PROVE k = m
    BY <1>1 DEF Distinct
  <2>1. to(k) \in 1..n /\ to(m) \in 1..n /\ heap[to(k)] = heap[to(m)]
    BY <1>1
  <2>2. to(k) = to(m)
    BY <2>1 DEF Contents, Distinct
  <2> QED BY <1>1, <2>2
<1>3. \A item : Holds(heap, item) => Holds(new, item)
  BY <1>1 DEF Holds
<1>4. \A k \in 1..n : new[k] \in seen
  BY <1>1 DEF Contents
<1>5. ASSUME NEW item \in seen
      PROVE  Holds(new, item) \/ \A k \in 1..n : isBetter(new[k], item)
  BY <1>1, <1>3 DEF Contents
<1>6. Contents(new, seen)
  BY <1>1, <1>2, <1>3, <1>4, <1>5 DEF Contents
<1> QED BY <1>6 DEF new

\* While there is room the heap holds everything.
LEMMA AppendContents ==
  ASSUME NEW T, NEW seen, NEW heap \in Seq(T), NEW x \in T, x \notin seen,
         Contents(heap, seen), Len(heap) < MaxLimit
  PROVE  Contents(Append(heap, x), seen \cup {x})
<1> DEFINE new == Append(heap, x)
           n == Len(heap)
<1>1. /\ n \in Nat /\ MaxLimit \in Nat /\ Len(new) = n + 1 /\ new[n + 1] = x
      /\ \A i \in 1..n : new[i] = heap[i]
  BY HeapAssumption
<1> HIDE DEF new
<1>2. \A i \in 1..(n + 1) : i \in 1..n \/ i = n + 1
  BY <1>1
<1>3. \A i \in 1..(n + 1) : new[i] \in seen \cup {x}
  BY <1>1, <1>2 DEF Contents
<1>4. Distinct(new)
  BY <1>1, <1>2 DEF Contents, Distinct
<1>5. \A item \in seen \cup {x} : Holds(new, item)
  <2>1. Holds(new, x)
    BY <1>1 DEF Holds
  <2>2. ASSUME NEW item \in seen PROVE Holds(new, item)
    <3>1. PICK i \in 1..n : heap[i] = item
      BY DEF Contents, Holds
    <3> QED BY <1>1, <3>1 DEF Holds
  <2> QED BY <2>1, <2>2
<1>6. Len(new) <= MaxLimit
  BY <1>1
<1>7. Contents(new, seen \cup {x})
  BY <1>1, <1>3, <1>4, <1>5, <1>6 DEF Contents
<1> QED BY <1>7 DEF new

\* An item that is better than the root takes its place: the root is the one to give up.
LEMMA ReplaceContents ==
  ASSUME NEW T, Ordered(T), NEW seen \in SUBSET T, NEW heap \in Seq(T), NEW x \in T,
         x \notin seen, IsHeap(heap), Contents(heap, seen), ~(Len(heap) < MaxLimit),
         isBetter(x, heap[1])
  PROVE  /\ [heap EXCEPT ![1] = x] \in Seq(T)
         /\ Len([heap EXCEPT ![1] = x]) = Len(heap)
         /\ 1 \in 1..Len(heap)
         /\ Contents([heap EXCEPT ![1] = x], seen \cup {x})
<1> DEFINE new == [heap EXCEPT ![1] = x]
           n == Len(heap)
<1>1. n \in Nat /\ n = MaxLimit /\ n >= 1
  BY HeapAssumption DEF Contents
<1>2. /\ new \in Seq(T) /\ Len(new) = n /\ new[1] = x
      /\ \A i \in 2..n : new[i] = heap[i] /\ i \in 1..n
  BY <1>1
<1>3. \A i \in 1..n : i = 1 \/ i \in 2..n
  BY <1>1
<1>4. \A i \in 1..n : heap[i] \in T /\ heap[i] \in seen
  BY DEF Contents
<1> HIDE DEF new
<1>5. \A i \in 2..n : isBetter(heap[i], heap[1])
  BY RootIsWorst
<1>6. \A i \in 1..n : isBetter(new[i], heap[1])
  BY <1>2, <1>3, <1>5
<1>7. Distinct(new)
  BY <1>2, <1>3, <1>4 DEF Contents, Distinct
<1>8. \A i \in 1..n : new[i] \in seen \cup {x}
  BY <1>2, <1>3, <1>4
<1>9. ASSUME NEW item \in seen \cup {x}
      PROVE  Holds(new, item) \/ \A i \in 1..n : isBetter(new[i], item)
  <2>1. CASE item = x
    BY <1>1, <1>2, <2>1 DEF Holds
  <2>2. CASE item \in seen /\ item = heap[1]
    BY <1>6, <2>2
  <2>3. CASE \E i \in 2..n : item = heap[i]
    BY <1>2, <2>3 DEF Holds
  <2>4. CASE item \in seen /\ ~Holds(heap, item)
    <3>1. \A i \in 1..n : isBetter(heap[i], item)
      BY <2>4 DEF Contents
    <3>2. isBetter(x, item)
      BY <1>1, <1>4, <2>4, <3>1 DEF Ordered
    <3> QED BY <1>2, <1>3, <3>1, <3>2
  <2> QED BY <1>3, <2>1, <2>2, <2>3, <2>4 DEF Holds
<1>10. Contents(new, seen \cup {x})
  BY <1>1, <1>2, <1>7, <1>8, <1>9 DEF Contents
<1> QED BY <1>1, <1>2, <1>10 DEF new

\* An item that is not better than the root is worse than all of the heap.
LEMMA SkipContents ==
  ASSUME NEW T, Ordered(T), NEW seen \in SUBSET T, NEW heap \in Seq(T), NEW x \in T,
         x \notin seen, IsHeap(heap), Contents(heap, seen), ~(Len(heap) < MaxLimit),
         ~isBetter(x, heap[1])
  PROVE  Contents(heap, seen \cup {x})
<1> DEFINE n == Len(heap)
<1>1. n \in Nat /\ n = MaxLimit /\ n >= 1
  BY HeapAssumption DEF Contents
<1>2. \A i \in 1..n : heap[i] \in T /\ heap[i] \in seen
  BY DEF Contents
<1>3. isBetter(heap[1], x)
  BY <1>1, <1>2 DEF Ordered
<1>4. \A i \in 2..n : isBetter(heap[i], heap[1])
  BY RootIsWorst
<1>5. \A i \in 1..n : isBetter(heap[i], x)
  <2>1. \A i \in 1..n : i = 1 \/ i \in 2..n
    BY <1>1
  <2> QED BY <1>1, <1>2, <1>3, <1>4, <2>1 DEF Ordered
<1> QED BY <1>1, <1>2, <1>5 DEF Contents

\* The numbers from 1 to n are n.
LEMMA SizeUpTo ==
  ASSUME NEW n \in Nat
  PROVE  IsFiniteSet(1..n) /\ Cardinality(1..n) = n
<1>1. 1 \in Int /\ n \in Int /\ n - 1 + 1 = n
  OBVIOUS
<1>2. Cardinality(1..n) = IF 1 > n THEN 0 ELSE n - 1 + 1
  BY <1>1, FS_Interval
<1> QED BY <1>1, <1>2, FS_Interval

\* The items of the heap.
Kept(heap) == {heap[i] : i \in 1..Len(heap)}

\* How many items the heap holds.
LEMMA ContentsSize ==
  ASSUME NEW T, NEW seen, IsFiniteSet(seen), NEW heap \in Seq(T), Contents(heap, seen)
  PROVE  /\ IsFiniteSet(Kept(heap)) /\ Kept(heap) \subseteq seen
         /\ Cardinality(Kept(heap)) = Len(heap)
         /\ Len(heap) = Smaller(MaxLimit, Cardinality(seen))
<1> DEFINE n == Len(heap)
           kept == Kept(heap)
           f == [i \in 1..n |-> heap[i]]
<1>1. n \in Nat /\ n <= MaxLimit /\ MaxLimit \in Nat /\ kept \subseteq seen
  BY HeapAssumption DEF Contents, Kept
<1>2. f \in Bijection(1..n, kept)
  <2>1. f \in [1..n -> kept]
    BY DEF Kept
  <2>2. \A i, j \in 1..n : f[i] = f[j] => i = j
    BY DEF Contents, Distinct
  <2>3. \A x \in kept : \E i \in 1..n : f[i] = x
    BY DEF Kept
  <2> QED BY <2>1, <2>2, <2>3, Fun_IsBij
<1>3. n < MaxLimit => kept = seen
  BY <1>1 DEF Contents, Holds, Kept
<1>4. ExistsBijection(1..n, kept)
  BY <1>2 DEF ExistsBijection
<1> HIDE DEF n, kept, f
<1>5. IsFiniteSet(1..n) /\ Cardinality(1..n) = n
  BY <1>1, SizeUpTo
<1>6. IsFiniteSet(kept) /\ Cardinality(kept) = n
  BY <1>4, <1>5, FS_Bijection
<1>7. Cardinality(kept) <= Cardinality(seen) /\ Cardinality(seen) \in Nat
  BY <1>1, FS_Subset, FS_CardinalityType
<1>8. n = Smaller(MaxLimit, Cardinality(seen))
  BY <1>1, <1>3, <1>6, <1>7 DEF Smaller
<1> QED BY <1>1, <1>6, <1>8 DEF n, kept

\* Once every item has been seen, the heap in the order of isBetter is the list that
\* buildTop is defined to return.
LEMMA SortedIsTop ==
  ASSUME NEW map, IsCounterMap(map), NEW heap \in Seq(ItemsOf(map)),
         Contents(heap, ItemsOf(map))
  PROVE  [k \in 1..Len(heap) |-> CHOOSE item \in Kept(heap) : Rank(item, Kept(heap)) = k] =
           buildTop(map, MaxLimit)
<1> DEFINE all == ItemsOf(map)
           n == Len(heap)
           kept == Kept(heap)
<1>1. IsFiniteSet(all)
  BY ItemsFinite
<1>2. /\ IsFiniteSet(kept) /\ kept \subseteq all /\ Cardinality(kept) = n
      /\ n = Smaller(MaxLimit, Cardinality(all)) /\ n \in Nat
  BY <1>1, ContentsSize
<1>3. \A a \in all \ kept : \A b \in kept : isBetter(b, a)
  BY DEF Contents, Holds, Kept
<1>4. \A a, b \in all : ~(isBetter(a, b) /\ isBetter(b, a))
  BY BetterIsTotalOrder
<1> HIDE DEF kept
<1>5. ASSUME NEW a \in kept PROVE Rank(a, kept) = Rank(a, all)
  <2>1. {other \in kept : isBetter(other, a)} = {other \in all : isBetter(other, a)}
    BY <1>2, <1>3, <1>4
  <2> QED BY <2>1 DEF Rank
<1>6. ASSUME NEW k \in 1..n
      PROVE  (CHOOSE item \in kept : Rank(item, kept) = k) =
               (CHOOSE item \in all : Rank(item, all) = k)
  <2>1. Cardinality(all) \in Nat /\ k \in 1..Cardinality(all) /\ MaxLimit \in Nat
    BY <1>1, <1>2, FS_CardinalityType, HeapAssumption DEF Smaller
  <2>2. PICK top \in all : Rank(top, all) = k
    BY <2>1, RankOnto
  <2>3. top \in kept
    <3> SUFFICES ASSUME top \notin kept PROVE FALSE
      OBVIOUS
    <3> DEFINE better == {other \in all : isBetter(other, top)}
    <3>1. kept \subseteq better
      BY <1>2, <1>3
    <3>2. IsFiniteSet(better)
      BY <1>1, FS_Subset
    <3>3. Cardinality(kept) <= Cardinality(better) /\ Cardinality(better) \in Nat
      BY <3>1, <3>2, FS_Subset, FS_CardinalityType
    <3>4. Rank(top, all) = Cardinality(better) + 1
      BY DEF Rank
    <3> HIDE DEF better
    <3> QED BY <1>2, <2>2, <3>3, <3>4
  <2>4. \A item \in all : Rank(item, all) = k => item = top
    BY <2>2, RankOrders
  <2>5. \A item \in kept : Rank(item, kept) = k <=> item = top
    BY <1>2, <1>5, <2>2, <2>3, <2>4
  <2>6. (CHOOSE item \in kept : Rank(item, kept) = k) = top
    BY <2>3, <2>5, Zenon
  <2>7. (CHOOSE item \in all : Rank(item, all) = k) = top
    BY <2>2, <2>4, Zenon
  <2> QED BY <2>6, <2>7
<1>7. buildTop(map, MaxLimit) = [k \in 1..n |-> CHOOSE item \in all : Rank(item, all) = k]
  BY <1>2 DEF buildTop
<1>8. [k \in 1..n |-> CHOOSE item \in kept : Rank(item, kept) = k] = buildTop(map, MaxLimit)
  BY <1>6, <1>7
<1> QED BY <1>8 DEF kept

-----------------------------------------------------------------------------
(* The inductive invariant *)

\* The items of the keys that the loop has visited.
Seen == {Item(q) : q \in ActiveQueries(counters) \ unvisited}

LoopTypeOK ==
  /\ counters \in [Queries -> Nat] /\ unvisited \subseteq ActiveQueries(counters)
  /\ candidates \in Seq(ItemsOf(counters))
  /\ pc \in {"range", "up", "down", "returned"}
  /\ pc \in {"up", "down"} => at \in 1..Len(candidates)

HeapInvariant ==
  /\ pc \in {"range", "returned"} => IsHeap(candidates)
  /\ pc = "up" => UpHeap(candidates, at)
  /\ pc = "down" => DownHeap(candidates, at)

LoopInv == LoopTypeOK /\ HeapInvariant /\ Contents(candidates, Seen) /\ ReturnsTop

\* The counters are a map whose items are ordered by isBetter.
LEMMA CountersOrdered ==
  ASSUME LoopTypeOK
  PROVE  /\ IsCounterMap(counters) /\ Ordered(ItemsOf(counters))
         /\ Seen \in SUBSET ItemsOf(counters)
         /\ \A q \in ActiveQueries(counters) : Item(q) \in ItemsOf(counters)
         /\ \A a \in ItemsOf(counters) : a.count \in Nat /\ a.query \in Nat
<1>1. IsCounterMap(counters)
  BY HeapAssumption DEF LoopTypeOK, IsCounterMap
<1>2. /\ Ordered(ItemsOf(counters))
      /\ \A a \in ItemsOf(counters) : a.count \in Nat /\ a.query \in Nat
  BY <1>1, BetterIsTotalOrder DEF Ordered
<1>3. \A q \in ActiveQueries(counters) : Item(q) \in ItemsOf(counters)
  BY DEF Item, ItemsOf
<1> QED BY <1>1, <1>2, <1>3 DEF Seen

\* The loop starts with nothing seen and an empty heap.
LEMMA LoopInit == HeapInit => LoopInv
<1> SUFFICES ASSUME HeapInit PROVE LoopInv
  OBVIOUS
<1>1. LoopTypeOK
  <2>1. counters \in [Queries -> Nat]
    BY HeapAssumption DEF HeapInit
  <2>2. candidates \in Seq(ItemsOf(counters))
    BY DEF HeapInit
  <2> QED BY <2>1, <2>2 DEF HeapInit, LoopTypeOK
<1>2. Seen = {} /\ Len(candidates) = 0
  BY DEF HeapInit, Seen
<1>3. Contents(candidates, Seen)
  BY <1>2, HeapAssumption DEF Contents, Distinct
<1> QED BY <1>1, <1>2, <1>3 DEF LoopInv, HeapInvariant, IsHeap, ReturnsTop, HeapInit

\* The loop body: an item for which there is room goes to the end of the heap, one that
\* is better than the root takes its place, any other one is dropped.
LEMMA VisitInvariant ==
  ASSUME LoopInv, NEW q \in Queries, Visit(q)
  PROVE  LoopInv'
<1> DEFINE T == ItemsOf(counters)
           n == Len(candidates)
           x == Item(q)
<1>1. /\ LoopTypeOK /\ IsHeap(candidates) /\ Contents(candidates, Seen)
      /\ candidates \in Seq(T) /\ n \in Nat /\ pc = "range"
  BY DEF LoopInv, LoopTypeOK, HeapInvariant, Visit
<1>2. Ordered(T) /\ Seen \in SUBSET T /\ x \in T
  <2>1. q \in ActiveQueries(counters)
    BY <1>1 DEF LoopTypeOK, Visit
  <2> QED BY <1>1, <2>1, CountersOrdered
<1>3. counters' = counters /\ unvisited' = unvisited \ {q} /\ q \in unvisited
  BY DEF Visit
<1>4. Seen' = Seen \cup {x} /\ x \notin Seen
  <2>1. q \in ActiveQueries(counters)
    BY <1>1, <1>3 DEF LoopTypeOK
  <2>2. \A p : Item(p)' = Item(p)
    BY <1>3 DEF Item
  <2>3. \A p : Item(p) = x => p = q
    BY DEF Item
  <2> HIDE DEF x
  <2>4. x = Item(q)
    BY DEF x
  <2> QED BY <1>3, <2>1, <2>2, <2>3, <2>4 DEF Seen
<1>5. ReturnsTop'
  BY <1>1 DEF Visit, ReturnsTop
<1> HIDE DEF x
<1>6. CASE /\ HasRoom /\ candidates' = Append(candidates, x)
           /\ pc' = "up" /\ at' = Len(candidates')
  <2>1. candidates' \in Seq(T) /\ Len(candidates') = n + 1 /\ at' = n + 1
    BY <1>1, <1>2, <1>6
  <2>2. \A i \in 1..n : candidates'[i] = candidates[i]
    BY <1>1, <1>2, <1>6
  <2>3. Contents(candidates', Seen')
    <3>1. Contents(Append(candidates, x), Seen \cup {x})
      BY <1>1, <1>2, <1>4, <1>6, AppendContents DEF HasRoom
    <3> QED BY <1>4, <1>6, <3>1
  <2>4. UpHeap(candidates', at')
    <3>1. ASSUME NEW i \in 2..(n + 1)
          PROVE  /\ i # n + 1 => isBetter(candidates'[i], candidates'[Parent(i)])
                 /\ Parent(i) # n + 1
      <4>1. Parent(i) \in Nat /\ Parent(i) >= 1 /\ Parent(i) < i
        BY <1>1, ParentFacts
      <4>2. CASE i # n + 1
        <5>1. i \in 1..n /\ i \in 2..n /\ Parent(i) \in 1..n
          BY <1>1, <4>1, <4>2
        <5> QED BY <1>1, <2>2, <4>1, <5>1 DEF IsHeap
      <4> QED BY <1>1, <4>1, <4>2
    <3> QED BY <2>1, <3>1 DEF UpHeap, Around
  <2>5. LoopTypeOK'
    BY <1>1, <1>3, <1>6, <2>1 DEF LoopTypeOK
  <2> QED BY <1>5, <1>6, <2>3, <2>4, <2>5 DEF LoopInv, HeapInvariant
<1>7. CASE /\ ~HasRoom /\ isBetter(x, candidates[1])
           /\ candidates' = [candidates EXCEPT ![1] = x] /\ pc' = "down" /\ at' = 1
  <2>1. /\ candidates' \in Seq(T) /\ Len(candidates') = n /\ 1 \in 1..n
        /\ Contents(candidates', Seen \cup {x})
    <3>1. ~(n < MaxLimit) /\ isBetter(x, candidates[1]) /\ x \notin Seen
      BY <1>4, <1>7 DEF HasRoom
    <3> DEFINE new == [candidates EXCEPT ![1] = x]
    <3>2. /\ new \in Seq(T) /\ Len(new) = n /\ 1 \in 1..n
          /\ Contents(new, Seen \cup {x})
      <4> HIDE DEF T
      <4> QED BY <1>1, <1>2, <3>1, ReplaceContents
    <3> QED BY <1>7, <3>2
  <2>2. \A i \in 2..n : candidates'[i] = candidates[i]
    BY <1>1, <1>7
  <2>3. DownHeap(candidates', at')
    <3>1. ASSUME NEW i \in 2..n, Parent(i) # 1
          PROVE  isBetter(candidates'[i], candidates'[Parent(i)])
      <4>1. Parent(i) \in 2..n
        BY <1>1, <3>1, ParentFacts
      <4> QED BY <1>1, <2>2, <4>1 DEF IsHeap
    <3> QED BY <1>7, <2>1, <3>1 DEF DownHeap, Around
  <2>4. LoopTypeOK'
    BY <1>1, <1>3, <1>7, <2>1 DEF LoopTypeOK
  <2> QED BY <1>4, <1>5, <1>7, <2>1, <2>3, <2>4 DEF LoopInv, HeapInvariant
<1>8. CASE ~HasRoom /\ ~isBetter(x, candidates[1]) /\ UNCHANGED <<candidates, pc, at>>
  <2>1. Contents(candidates, Seen \cup {x})
    BY <1>1, <1>2, <1>4, <1>8, SkipContents DEF HasRoom
  <2>2. LoopTypeOK'
    BY <1>1, <1>3, <1>8 DEF LoopTypeOK
  <2> QED BY <1>1, <1>4, <1>5, <1>8, <2>1, <2>2 DEF LoopInv, HeapInvariant
<1> QED BY <1>6, <1>7, <1>8 DEF Visit, x

\* What the counters and the visited keys determine does not change while an item moves.
LEMMA SeenUnchanged ==
  ASSUME UNCHANGED <<counters, unvisited>>
  PROVE  Seen' = Seen
BY DEF Seen, Item

\* heap.Push.
LEMMA SiftUpInvariant ==
  ASSUME LoopInv, SiftUp
  PROVE  LoopInv'
<1> DEFINE T == ItemsOf(counters)
           n == Len(candidates)
           p == Parent(at)
<1>1. /\ LoopTypeOK /\ UpHeap(candidates, at) /\ Contents(candidates, Seen) /\ pc = "up"
      /\ candidates \in Seq(T) /\ n \in Nat /\ at \in 1..n
  BY DEF LoopInv, LoopTypeOK, HeapInvariant, SiftUp
<1>2. Ordered(T) /\ \A a \in T : a.count \in Nat /\ a.query \in Nat
  BY <1>1, CountersOrdered
<1>3. counters' = counters /\ unvisited' = unvisited /\ Seen' = Seen
  BY SeenUnchanged DEF SiftUp
<1>4. CASE at > 1 /\ Less(candidates[at], candidates[p])
  <2>1. candidates' = Swap(candidates, at, p) /\ at' = p /\ pc' = pc
    BY <1>4 DEF SiftUp
  <2>2. at \in 2..n /\ p \in 1..n /\ p # at
    BY <1>1, <1>4, ParentFacts
  <2>3. isBetter(candidates[p], candidates[at])
    BY <1>1, <1>2, <1>4, <2>2, LessIsWorse
  <2>4. UpHeap(candidates', at')
    BY <1>1, <1>2, <2>1, <2>2, <2>3, UpStep
  <2>5. Contents(candidates', Seen)
    BY <1>1, <2>1, <2>2, SwapContents
  <2>6. candidates' \in Seq(T) /\ Len(candidates') = n
    BY <1>1, <2>1, <2>2, SwapFacts
  <2>7. LoopTypeOK'
    BY <1>1, <1>3, <2>1, <2>2, <2>6 DEF LoopTypeOK
  <2> QED BY <1>1, <1>3, <2>1, <2>4, <2>5, <2>7 DEF LoopInv, HeapInvariant, ReturnsTop
<1>5. CASE ~(at > 1 /\ Less(candidates[at], candidates[p]))
  <2>1. candidates' = candidates /\ pc' = "range"
    BY <1>5 DEF SiftUp
  <2>2. at <= 1 \/ isBetter(candidates[at], candidates[p])
    <3> SUFFICES ASSUME at > 1 PROVE isBetter(candidates[at], candidates[p])
      BY <1>1
    <3>1. at \in 2..n /\ p \in 1..n /\ p # at
      BY <1>1, ParentFacts
    <3>2. candidates[at] \in T /\ candidates[p] \in T
      BY <1>1, <3>1
    <3>3. ~isBetter(candidates[p], candidates[at])
      BY <1>2, <1>5, <3>2, LessIsWorse
    <3>4. candidates[at] # candidates[p]
      BY <1>1, <3>1 DEF Contents, Distinct
    <3> QED BY <1>2, <3>2, <3>3, <3>4 DEF Ordered
  <2>3. IsHeap(candidates)
    BY <1>1, <2>2, UpEnd
  <2>4. LoopTypeOK'
    BY <1>1, <1>3, <2>1 DEF LoopTypeOK
  <2> QED BY <1>1, <1>3, <2>1, <2>3, <2>4 DEF LoopInv, HeapInvariant, ReturnsTop
<1> QED BY <1>4, <1>5

\* heap.Fix.
LEMMA SiftDownInvariant ==
  ASSUME LoopInv, SiftDown
  PROVE  LoopInv'
<1> DEFINE T == ItemsOf(counters)
           n == Len(candidates)
           child == SmallerChild(candidates, at)
<1>1. /\ LoopTypeOK /\ DownHeap(candidates, at) /\ Contents(candidates, Seen) /\ pc = "down"
      /\ candidates \in Seq(T) /\ n \in Nat /\ at \in 1..n /\ Distinct(candidates)
  BY DEF LoopInv, LoopTypeOK, HeapInvariant, SiftDown, Contents
<1>2. Ordered(T) /\ \A a \in T : a.count \in Nat /\ a.query \in Nat
  BY <1>1, CountersOrdered
<1>3. counters' = counters /\ unvisited' = unvisited /\ Seen' = Seen
  BY SeenUnchanged DEF SiftDown
<1>4. child \in Nat /\ child >= 2 * at /\ (child > n => child = 2 * at)
  BY <1>1 DEF SmallerChild
<1>5. child <= n =>
        /\ child \in 2..n /\ Parent(child) = at
        /\ \A i \in 2..n :
             Parent(i) = at => i = child \/ isBetter(candidates[i], candidates[child])
  BY <1>1, <1>2, SmallerChildFacts
<1>6. CASE child <= n /\ Less(candidates[child], candidates[at])
  <2>1. candidates' = Swap(candidates, at, child) /\ at' = child /\ pc' = pc
    BY <1>6 DEF SiftDown
  <2> HIDE DEF child
  <2>2. child \in 2..n /\ child \in 1..n /\ child # at
    BY <1>1, <1>4, <1>5, <1>6
  <2>3. isBetter(candidates[at], candidates[child])
    BY <1>1, <1>2, <1>6, <2>2, LessIsWorse
  <2>4. DownHeap(candidates', at')
    BY <1>1, <1>2, <1>5, <1>6, <2>1, <2>2, <2>3, DownStep
  <2>5. Contents(candidates', Seen)
    BY <1>1, <2>1, <2>2, SwapContents
  <2>6. candidates' \in Seq(T) /\ Len(candidates') = n
    BY <1>1, <2>1, <2>2, SwapFacts
  <2>7. LoopTypeOK'
    BY <1>1, <1>3, <2>1, <2>2, <2>6 DEF LoopTypeOK
  <2> QED BY <1>1, <1>3, <2>1, <2>4, <2>5, <2>7 DEF LoopInv, HeapInvariant, ReturnsTop
<1>7. CASE ~(child <= n /\ Less(candidates[child], candidates[at]))
  <2>1. candidates' = candidates /\ pc' = "range"
    BY <1>7 DEF SiftDown
  <2> HIDE DEF child
  <2>2. child <= n => isBetter(candidates[child], candidates[at])
    <3> SUFFICES ASSUME child <= n PROVE isBetter(candidates[child], candidates[at])
      OBVIOUS
    <3>1. child \in 1..n /\ child # at
      BY <1>1, <1>4, <1>5
    <3>2. candidates[at] \in T /\ candidates[child] \in T
      BY <1>1, <3>1
    <3>3. ~isBetter(candidates[at], candidates[child])
      BY <1>2, <1>7, <3>2, LessIsWorse
    <3>4. candidates[at] # candidates[child]
      BY <1>1, <3>1 DEF Distinct
    <3> QED BY <1>2, <3>2, <3>3, <3>4 DEF Ordered
  <2>3. IsHeap(candidates)
    <3>1. \/ child > n /\ child = 2 * at
          \/ child <= n
      BY <1>1, <1>4
    <3> QED BY <1>1, <1>2, <1>4, <1>5, <2>2, <3>1, DownEnd
  <2>4. LoopTypeOK'
    BY <1>1, <1>3, <2>1 DEF LoopTypeOK
  <2> QED BY <1>1, <1>3, <2>1, <2>3, <2>4 DEF LoopInv, HeapInvariant, ReturnsTop
<1> QED BY <1>6, <1>7

\* The sort at the end: every key has been visited.
LEMMA ReturnInvariant ==
  ASSUME LoopInv, Return
  PROVE  LoopInv'
<1>1. /\ LoopTypeOK /\ Contents(candidates, Seen) /\ candidates \in Seq(ItemsOf(counters))
      /\ IsHeap(candidates)
  BY DEF LoopInv, LoopTypeOK, HeapInvariant, Return
<1>2. Seen = ItemsOf(counters)
  BY DEF Seen, ItemsOf, Item, Return
<1>3. counters' = counters /\ candidates' = candidates /\ pc' = "returned" /\ Seen' = Seen
  BY SeenUnchanged DEF Return
<1>4. items' = buildTop(counters, MaxLimit)
  <2>1. items' = [k \in 1..Len(candidates) |->
                    CHOOSE item \in Kept(candidates) : Rank(item, Kept(candidates)) = k]
    BY DEF Return, Kept
  <2> QED BY <1>1, <1>2, <2>1, CountersOrdered, SortedIsTop
<1>5. LoopTypeOK'
  BY <1>1, <1>3 DEF LoopTypeOK, Return
<1> QED BY <1>1, <1>3, <1>4, <1>5 DEF LoopInv, HeapInvariant, ReturnsTop

\* A request changes nothing of the loop, nor does a step that changes nothing.
LEMMA LoopUnchanged ==
  ASSUME LoopInv, UNCHANGED heapVars
  PROVE  LoopInv'
<1>1. Seen' = Seen
  BY SeenUnchanged DEF heapVars
<1>2. LoopTypeOK' /\ HeapInvariant' /\ ReturnsTop'
  BY DEF LoopInv, LoopTypeOK, HeapInvariant, ReturnsTop, heapVars
<1> QED BY <1>1, <1>2 DEF LoopInv, heapVars

\* The invariant of the loop of buildTop holds (aggregator.go:342-374).
THEOREM LoopInvariance == Spec => []LoopInv
<1>1. Init => LoopInv
  BY LoopInit DEF Init
<1>2. LoopInv /\ [Next]_vars => LoopInv'
  <2> SUFFICES ASSUME LoopInv, [Next]_vars PROVE LoopInv'
    OBVIOUS
  <2>1. ASSUME NEW q \in Queries, Visit(q) PROVE LoopInv'
    BY <2>1, VisitInvariant
  <2>2. CASE SiftUp
    BY <2>2, SiftUpInvariant
  <2>3. CASE SiftDown
    BY <2>3, SiftDownInvariant
  <2>4. CASE Return
    BY <2>4, ReturnInvariant
  <2>5. CASE UNCHANGED heapVars
    BY <2>5, LoopUnchanged
  <2> QED BY <2>1, <2>2, <2>3, <2>4, <2>5 DEF Next, HeapNext, GetTop, vars
<1> QED BY <1>1, <1>2, PTL DEF Spec

\* Between two keys the heap is in order (HeapOrdered; aggregator.go:358-366, 405-411).
THEOREM HeapInOrder == Spec => []HeapOrdered
<1>1. LoopInv => HeapOrdered
  BY DEF LoopInv, HeapInvariant, IsHeap, HeapOrdered
<1> QED BY <1>1, LoopInvariance, PTL

\* Between two keys the heap holds the best of what was visited, whatever the order of
\* the visits (KeepsBest; aggregator.go:347-367).
THEOREM BestKept == Spec => []KeepsBest
<1>1. LoopInv => KeepsBest
  <2> SUFFICES ASSUME LoopInv PROVE KeepsBest
    OBVIOUS
  <2> DEFINE T == ItemsOf(counters)
             n == Len(candidates)
             visited == ActiveQueries(counters) \ unvisited
             kept == {candidates[i].query : i \in 1..n}
             f == [q \in visited |-> Item(q)]
             g == [i \in 1..n |-> candidates[i].query]
  <2>1. LoopTypeOK /\ Contents(candidates, Seen) /\ candidates \in Seq(T) /\ n \in Nat
    BY DEF LoopInv, LoopTypeOK
  <2>2. IsFiniteSet(visited)
    <3>1. visited \subseteq Queries /\ IsFiniteSet(Queries)
      BY <2>1, HeapAssumption DEF LoopTypeOK, ActiveQueries
    <3> QED BY <3>1, FS_Subset
  <2>3. \A q : Item(q).query = q /\ Item(q) = [query |-> q, count |-> counters[q]]
    BY DEF Item
  <2>4. f \in Bijection(visited, Seen)
    <3>1. f \in [visited -> Seen] /\ \A x \in Seen : \E q \in visited : f[q] = x
      BY DEF Seen
    <3>2. \A p, q \in visited : f[p] = f[q] => p = q
      BY <2>3
    <3> QED BY <3>1, <3>2, Fun_IsBij
  <2>5. IsFiniteSet(Seen) /\ Cardinality(Seen) = Cardinality(visited)
    <3>1. ExistsBijection(visited, Seen)
      BY <2>4 DEF ExistsBijection
    <3> QED BY <2>2, <3>1, FS_Bijection
  <2>6. n = Smaller(MaxLimit, Cardinality(visited))
    BY <2>1, <2>5, ContentsSize
  <2>7. ASSUME NEW i \in 1..n
        PROVE  candidates[i].query \in visited /\ candidates[i] = Item(candidates[i].query)
    <3>1. PICK q \in visited : candidates[i] = Item(q)
      BY <2>1 DEF Contents, Seen
    <3> QED BY <2>3, <3>1
  <2>8. g \in Bijection(1..n, kept)
    <3>1. g \in [1..n -> kept] /\ \A x \in kept : \E i \in 1..n : g[i] = x
      OBVIOUS
    <3>2. ASSUME NEW i \in 1..n, NEW j \in 1..n, g[i] = g[j] PROVE i = j
      <4>1. candidates[i] = candidates[j]
        BY <2>7, <3>2
      <4> QED BY <2>1, <4>1 DEF Contents, Distinct
    <3> QED BY <3>1, <3>2, Fun_IsBij
  <2>9. Cardinality(kept) = n
    <3>1. ExistsBijection(1..n, kept)
      BY <2>8 DEF ExistsBijection
    <3> HIDE DEF kept, n
    <3>2. IsFiniteSet(1..n) /\ Cardinality(1..n) = n
      BY <2>1, SizeUpTo
    <3> QED BY <3>1, <3>2, FS_Bijection
  <2>10. kept \subseteq visited
    BY <2>7
  <2>11. ASSUME NEW q \in visited \ kept, NEW p \in kept
         PROVE  isBetter(Item(p), Item(q))
    <3>1. Item(q) \in Seen
      BY DEF Seen
    <3>2. ~Holds(candidates, Item(q))
      BY <2>3 DEF Holds
    <3>3. PICK i \in 1..n : candidates[i].query = p
      OBVIOUS
    <3>4. candidates[i] = Item(p)
      BY <2>7, <3>3
    <3>5. isBetter(candidates[i], Item(q))
      BY <2>1, <3>1, <3>2 DEF Contents
    <3> QED BY <3>4, <3>5
  <2> QED BY <2>6, <2>7, <2>9, <2>10, <2>11 DEF KeepsBest
<1> QED BY <1>1, LoopInvariance, PTL

\* The loop returns the list that buildTop is defined to return (ReturnsTop;
\* aggregator.go:342-374).
THEOREM LoopReturnsTop == Spec => []ReturnsTop
<1>1. LoopInv => ReturnsTop
  BY DEF LoopInv
<1> QED BY <1>1, LoopInvariance, PTL

-----------------------------------------------------------------------------
(* The answers *)

\* Nothing is left out of a list of positive counts.
LEMMA AllPositive ==
  ASSUME NEW T, NEW list \in Seq(T), \A i \in 1..Len(list) : list[i].count > 0
  PROVE  PositiveOnly(list) = list
<1> DEFINE n == Len(list)
           positive == {i \in 1..n : list[i].count > 0}
           Place(i) == Cardinality({j \in positive : j <= i})
<1>1. positive = 1..n /\ n \in Nat
  OBVIOUS
<1>2. Cardinality(positive) = n
  BY <1>1, SizeUpTo
<1>3. ASSUME NEW i \in 1..n PROVE Place(i) = i
  <2>1. {j \in positive : j <= i} = 1..i
    BY <1>1
  <2>2. Cardinality(1..i) = i
    BY <1>1, SizeUpTo
  <2> QED BY <2>1, <2>2, Zenon
<1> HIDE DEF Place
<1>4. ASSUME NEW k \in 1..n PROVE (CHOOSE i \in positive : Place(i) = k) = k
  <2>1. \A i \in positive : Place(i) = k <=> i = k
    BY <1>1, <1>3
  <2>2. k \in positive
    BY <1>1
  <2> HIDE DEF positive
  <2> QED BY <2>1, <2>2, Zenon
<1>5. PositiveOnly(list) = [k \in 1..n |-> list[CHOOSE i \in positive : Place(i) = k]]
  BY <1>2 DEF PositiveOnly, Place
<1> HIDE DEF positive
<1>6. PositiveOnly(list) = [k \in 1..n |-> list[k]]
  BY <1>4, <1>5
<1>7. list = [k \in 1..n |-> list[k]]
  OBVIOUS
<1> QED BY <1>6, <1>7

\* A limit that is not larger than the greatest int is not changed by the conversion: half
\* of a power of two is not larger than it, as the subsets of a set are no fewer than
\* those of a part of it.
LEMMA ConversionIsExact ==
  ASSUME NEW width \in Nat \ {0}, NEW limit \in Nat, ~(limit > maxInt(width))
  PROVE  ToInt(limit, width) = limit
<1> DEFINE full == 2^width
           half == 2^(width - 1)
<1>1. width - 1 \in Nat /\ width \in Nat
  OBVIOUS
<1>2. /\ IsFiniteSet(SUBSET (1..width)) /\ Cardinality(SUBSET (1..width)) = full
      /\ Cardinality(SUBSET (1..(width - 1))) = half
  BY <1>1, SizeUpTo, FS_SUBSET
<1>3. SUBSET (1..(width - 1)) \subseteq SUBSET (1..width)
  BY <1>1
<1> HIDE DEF full, half
<1>4. full \in Nat /\ half <= full
  BY <1>2, <1>3, FS_Subset, FS_CardinalityType
<1>5. half \in Nat
  <2>1. IsFiniteSet(SUBSET (1..(width - 1)))
    BY <1>2, <1>3, FS_Subset
  <2> QED BY <1>2, <2>1, FS_CardinalityType
<1>6. maxInt(width) = half - 1
  BY DEF maxInt, half
<1>7. limit < full /\ ~(limit > half - 1)
  BY <1>4, <1>5, <1>6
<1>8. limit % full = limit
  BY <1>4, <1>7
<1>9. ToInt(limit, width) =
        IF limit % full > half - 1 THEN (limit % full) - full ELSE limit % full
  BY <1>6 DEF ToInt, full
<1> QED BY <1>7, <1>8, <1>9

\* An answer is the list that was asked for.
LEMMA AnswerIsTop ==
  ASSUME LoopInv, pc = "returned", NEW limit \in Nat, NEW width \in Nat \ {0},
         ~(limit > maxInt(width))
  PROVE  IsTopOf(PositiveOnly(Snapshot(ToInt(limit, width))), counters, Expected(limit))
<1> DEFINE e == Expected(limit)
           T == ItemsOf(counters)
           list == buildTop(counters, e)
<1>1. e \in Nat /\ e <= MaxLimit /\ normalizeLimit(limit, DefaultLimit, MaxLimit) = e
  BY HeapAssumption DEF Expected, Smaller, normalizeLimit
<1>2. items = buildTop(counters, MaxLimit) /\ IsCounterMap(counters) /\ MaxLimit \in Nat
  BY HeapAssumption, CountersOrdered DEF LoopInv, ReturnsTop
<1>3. Snapshot(ToInt(limit, width)) = list
  <2>1. Snapshot(limit) = FirstItems(buildTop(counters, MaxLimit), e)
    BY <1>1, <1>2 DEF Snapshot
  <2> HIDE DEF e
  <2> QED BY <1>1, <1>2, <2>1, PrefixOfTop, ConversionIsExact
<1> HIDE DEF e
<1>4. list \in Seq(T) /\ \A i \in 1..Len(list) : list[i].count > 0
  <2> DEFINE size == Smaller(e, Cardinality(T))
  <2>1. size \in Nat /\ list \in [1..size -> T]
    BY <1>1, <1>2, BuildTopRanks
  <2>2. \A a \in T : a.count > 0
    BY DEF ItemsOf, ActiveQueries
  <2> HIDE DEF list, size, T
  <2> QED BY <2>1, <2>2
<1>5. PositiveOnly(list) = list
  <2> HIDE DEF list, T
  <2> QED BY <1>4, AllPositive
<1>6. IsTopOf(list, counters, e)
  BY <1>1, <1>2, BuildTopIsTop
<1> QED BY <1>3, <1>5, <1>6 DEF e

\* Every answer is the Top-N list of the counters, as long as was asked for, or an error
\* (AnswersAreTop; search_trends.go:58-89, aggregator.go:148-169, 272-281).
THEOREM AnswersCorrect == Spec => []AnswersAreTop
<1>1. Init => AnswersAreTop
  BY DEF Init, NoAnswer, AnswersAreTop
<1>2. LoopInv /\ AnswersAreTop /\ [Next]_vars => AnswersAreTop'
  <2> SUFFICES ASSUME LoopInv, AnswersAreTop, [Next]_vars PROVE AnswersAreTop'
    OBVIOUS
  <2>1. CASE UNCHANGED <<counters, answer>>
    BY <2>1 DEF AnswersAreTop
  <2>2. ASSUME NEW limit \in 0..(2^LimitBits - 1), NEW width \in IntWidths,
               NEW context \in {"live", "canceled", "expired"}, GetTop(limit, width, context)
        PROVE  AnswersAreTop'
    <3>1. /\ limit \in Nat /\ width \in Nat \ {0} /\ pc = "returned" /\ counters' = counters
      BY <2>2, WidthAssumption DEF GetTop, heapVars
    <3>2. CASE limit > maxInt(width) /\ Answer("InvalidArgument", <<>>, limit, width)
      BY <3>2 DEF Answer, AnswersAreTop
    <3>3. CASE ~(limit > maxInt(width)) /\ Answer(StatusCode(context), <<>>, limit, width)
      BY <3>3 DEF Answer, StatusCode, AnswersAreTop
    <3>4. CASE /\ ~(limit > maxInt(width))
               /\ Answer("OK", PositiveOnly(Snapshot(ToInt(limit, width))), limit, width)
      <4> DEFINE list == PositiveOnly(Snapshot(ToInt(limit, width)))
      <4>1. IsTopOf(list, counters, Expected(limit))
        BY <3>1, <3>4, AnswerIsTop
      <4> HIDE DEF list
      <4>2. answer'.code = "OK" /\ answer'.items = list /\ answer'.limit = limit
              /\ answer'.width = width
        BY <3>4 DEF Answer, list
      <4> QED BY <3>1, <3>4, <4>1, <4>2 DEF AnswersAreTop, Expected
    <3> QED BY <2>2, <3>2, <3>3, <3>4 DEF GetTop
  <2>3. ASSUME HeapNext, UNCHANGED answer PROVE UNCHANGED counters
    BY <2>3 DEF HeapNext, Visit, SiftUp, SiftDown, Return
  <2> QED BY <2>1, <2>2, <2>3 DEF Next, vars, heapVars
<1> QED BY <1>1, <1>2, LoopInvariance, PTL DEF Spec

==============================================================================
