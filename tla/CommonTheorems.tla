--------------------------- MODULE CommonTheorems ---------------------------
(***************************************************************************)
(* What the proofs of several components rest on: induction over the       *)
(* natural numbers, what Total computes, for every function and every      *)
(* bound, and what buildTop returns, for every counter map and limit.  The *)
(* induction goes through a set (SetInduction) instead of a predicate, in  *)
(* the form that the well-foundedness of < on Nat provides.                *)
(***************************************************************************)
EXTENDS Totals, TopItems, WellFoundedInduction, FiniteSetTheorems, FunctionTheorems, TLAPS

\* s lists the partial totals of f up to n.
Partial(s, f, n) ==
  /\ s \in [0..n -> Int]
  /\ s[0] = 0
  /\ \A k \in 1..n : s[k] = s[k - 1] + f[k - 1]

\* Induction for a set of natural numbers: one that holds 0 and is closed under
\* successor is all of Nat.  Its complement would have a least element.
LEMMA SetInduction ==
  ASSUME NEW S, S \subseteq Nat, 0 \in S, \A n \in S : n + 1 \in S
  PROVE  S = Nat
<1>1. SUFFICES ASSUME S # Nat PROVE FALSE OBVIOUS
<1> DEFINE T == Nat \ S
<1>2. T # {} /\ T \subseteq Nat BY <1>1
<1> HIDE DEF T
<1>3. PICK x \in T : \A y \in T : ~ (<<y,x>> \in OpToRel(<,Nat))
  BY <1>2, WFMin, NatLessThanWellFounded
<1>4. \A y \in T : ~(y < x)
  BY <1>2, <1>3 DEF OpToRel
<1>5. x \in Nat /\ x # 0 BY <1>2 DEF T
<1>6. x-1 \in S BY <1>4, <1>5 DEF T
<1>7. x \in S BY <1>6, <1>5
<1>8. QED BY <1>7 DEF T

\* The partial totals exist, by induction on how many there are.
LEMMA PartialExists ==
  ASSUME NEW n \in Nat, NEW f \in [0..n-1 -> Int]
  PROVE  \E s : Partial(s, f, n)
<1> DEFINE S == {k \in Nat : k <= n => \E s : Partial(s, f, k)}
<1>1. 0 \in S
  <2>1. Partial([k \in 0..0 |-> 0], f, 0) BY DEF Partial
  <2> QED BY <2>1
<1>2. ASSUME NEW k \in S PROVE k+1 \in S
  <2>1. SUFFICES ASSUME k + 1 <= n PROVE \E s : Partial(s, f, k+1) OBVIOUS
  <2>2. PICK s : Partial(s, f, k) BY <2>1
  <2> DEFINE t == [j \in 0..(k+1) |-> IF j = k+1 THEN s[k] + f[k] ELSE s[j]]
  <2>3. k \in Nat /\ f[k] \in Int /\ s[k] \in Int BY <2>1, <2>2 DEF Partial
  <2>4. t \in [0..(k+1) -> Int] BY <2>2, <2>3 DEF Partial
  <2>5. t[0] = 0 BY <2>2, <2>3 DEF Partial
  <2>6. ASSUME NEW j \in 1..(k+1) PROVE t[j] = t[j-1] + f[j-1]
    <3>1. CASE j = k + 1
      BY <3>1, <2>3
    <3>2. CASE j # k + 1
      <4>1. j \in 1..k /\ j - 1 \in 0..k /\ j - 1 # k + 1
        BY <3>2, <2>3
      <4>2. s[j] = s[j - 1] + f[j - 1]
        BY <4>1, <2>2 DEF Partial
      <4>3. t[j] = s[j] /\ t[j - 1] = s[j - 1]
        BY <4>1, <3>2, <2>3
      <4> QED BY <4>2, <4>3
    <3> QED BY <3>1, <3>2
  <2>7. Partial(t, f, k+1)
    BY <2>4, <2>5, <2>6 DEF Partial
  <2> QED BY <2>7
<1>3. S = Nat BY <1>1, <1>2, SetInduction
<1>4. n \in S BY <1>3
<1> QED BY <1>4

\* The recursion of Total computes the last partial total.
LEMMA TotalIsPartial ==
  ASSUME NEW n \in Nat, NEW f \in [0..n-1 -> Int], NEW s, Partial(s, f, n)
  PROVE  Total(f, n) = s[n]
<1> DEFINE r == CHOOSE r : r = [k \in 0..n |-> IF k = 0 THEN 0 ELSE r[k - 1] + f[k - 1]]
<1>1. s = [k \in 0..n |-> IF k = 0 THEN 0 ELSE s[k - 1] + f[k - 1]]
  BY DEF Partial
<1>2. r = [k \in 0..n |-> IF k = 0 THEN 0 ELSE r[k - 1] + f[k - 1]]
  BY <1>1
<1>3. Total(f, n) = r[n]
  BY DEF Total
<1> HIDE DEF r
<1>4. \A k \in 0..n : r[k] = s[k]
  <2> DEFINE S == {k \in Nat : k <= n => r[k] = s[k]}
  <2>1. 0 \in S BY <1>2 DEF Partial
  <2>2. ASSUME NEW k \in S PROVE k+1 \in S
     BY <1>2 DEF Partial
  <2>3. S = Nat BY <2>1, <2>2, SetInduction
  <2> QED BY <2>3
<1> QED BY <1>3, <1>4

\* Every total is the last of some partial totals.
LEMMA TotalWitness ==
  ASSUME NEW n \in Nat, NEW f \in [0..n-1 -> Int]
  PROVE  \E s : Partial(s, f, n) /\ Total(f, n) = s[n]
BY PartialExists, TotalIsPartial

\* Totals add up.
LEMMA TotalPlus ==
  ASSUME NEW n \in Nat, NEW f \in [0..n-1 -> Int], NEW g \in [0..n-1 -> Int],
         NEW h \in [0..n-1 -> Int], \A i \in 0..n-1 : h[i] = f[i] + g[i]
  PROVE  Total(h, n) = Total(f, n) + Total(g, n)
<1>1. PICK s : Partial(s, f, n) /\ Total(f, n) = s[n] BY TotalWitness
<1>2. PICK t : Partial(t, g, n) /\ Total(g, n) = t[n] BY TotalWitness
<1> DEFINE u == [k \in 0..n |-> s[k] + t[k]]
<1>3. Partial(u, h, n)
  <2>1. u \in [0..n -> Int] /\ u[0] = 0 BY <1>1, <1>2 DEF Partial
  <2>2. ASSUME NEW k \in 1..n PROVE u[k] = u[k - 1] + h[k - 1]
    BY <1>1, <1>2 DEF Partial
  <2> QED BY <2>1, <2>2 DEF Partial
<1>4. Total(h, n) = u[n] BY <1>3, TotalIsPartial
<1> QED BY <1>1, <1>2, <1>4 DEF Partial

\* The total of natural numbers is one.
LEMMA TotalNat ==
  ASSUME NEW n \in Nat, NEW f \in [0..n-1 -> Nat]
  PROVE  Total(f, n) \in Nat
<1>1. PICK s : Partial(s, f, n) /\ Total(f, n) = s[n] BY TotalWitness
<1> DEFINE S == {k \in Nat : k <= n => s[k] \in Nat}
<1>2. 0 \in S BY <1>1 DEF Partial
<1>3. ASSUME NEW k \in S PROVE k + 1 \in S
  <2>1. SUFFICES ASSUME k + 1 <= n PROVE s[k + 1] \in Nat OBVIOUS
  <2>2. s[k + 1] = s[k] + f[k] BY <1>1, <2>1 DEF Partial
  <2> QED BY <2>1, <2>2
<1>4. S = Nat BY <1>2, <1>3, SetInduction
<1>5. n \in S BY <1>4
<1> QED BY <1>1, <1>5

\* The total of zeros is zero.
LEMMA TotalZero ==
  ASSUME NEW n \in Nat, NEW f \in [0..n-1 -> Int], \A i \in 0..n-1 : f[i] = 0
  PROVE  Total(f, n) = 0
<1> DEFINE s == [k \in 0..n |-> 0]
<1>1. Partial(s, f, n) BY DEF Partial
<1> QED BY <1>1, TotalIsPartial

\* A change at one point changes the total by as much.
LEMMA TotalPoint ==
  ASSUME NEW n \in Nat, NEW f \in [0..n-1 -> Int], NEW g \in [0..n-1 -> Int],
         NEW i \in 0..n-1, \A j \in 0..n-1 : j # i => g[j] = f[j]
  PROVE  Total(g, n) = Total(f, n) + g[i] - f[i]
<1>1. PICK s : Partial(s, f, n) /\ Total(f, n) = s[n] BY TotalWitness
<1> DEFINE u == [k \in 0..n |-> IF k > i THEN s[k] + g[i] - f[i] ELSE s[k]]
<1>2. Partial(u, g, n)
  <2>1. u \in [0..n -> Int] /\ u[0] = 0 BY <1>1 DEF Partial
  <2>2. ASSUME NEW k \in 1..n PROVE u[k] = u[k - 1] + g[k - 1]
    <3>1. s[k] = s[k-1] + f[k-1] BY <1>1 DEF Partial
    <3>2. CASE k - 1 = i BY <3>1, <3>2, <1>1 DEF Partial
    <3>3. CASE k - 1 # i
      <4>1. k - 1 \in 0..n-1 /\ k \in 0..n /\ k - 1 \in 0..n
        OBVIOUS
      <4>2. g[k - 1] = f[k - 1] /\ f[k - 1] \in Int /\ f[i] \in Int /\ g[i] \in Int
        BY <3>3, <4>1
      <4>3. s[k] \in Int /\ s[k - 1] \in Int
        BY <4>1, <1>1 DEF Partial
      <4>4. CASE k - 1 > i
        <5>1. u[k] = s[k] + g[i] - f[i] /\ u[k - 1] = s[k - 1] + g[i] - f[i]
          BY <4>1, <4>4
        <5> QED BY <5>1, <4>2, <4>3, <3>1
      <4>5. CASE k - 1 < i
        <5>1. u[k] = s[k] /\ u[k - 1] = s[k - 1]
          BY <4>1, <4>5
        <5> QED BY <5>1, <4>2, <3>1
      <4> QED BY <3>3, <4>4, <4>5
    <3> QED BY <3>2, <3>3
  <2> QED BY <2>1, <2>2 DEF Partial
<1>3. Total(g, n) = u[n] BY <1>2, TotalIsPartial
<1> QED BY <1>1, <1>3 DEF Partial

\* Larger terms have a larger total.
LEMMA TotalMonotone ==
  ASSUME NEW n \in Nat, NEW f \in [0..n-1 -> Nat], NEW g \in [0..n-1 -> Nat],
         \A i \in 0..n-1 : f[i] <= g[i]
  PROVE  Total(f, n) <= Total(g, n)
<1> DEFINE d == [i \in 0..n-1 |-> g[i] - f[i]]
<1>1. d \in [0..n-1 -> Nat] /\ \A i \in 0..n-1 : g[i] = f[i] + d[i]
  OBVIOUS
<1> HIDE DEF d
<1>2. /\ f \in [0..n-1 -> Int] /\ g \in [0..n-1 -> Int] /\ d \in [0..n-1 -> Int]
  BY <1>1
<1>3. Total(g, n) = Total(f, n) + Total(d, n)
  BY <1>1, <1>2, TotalPlus
<1>4. Total(d, n) \in Nat /\ Total(f, n) \in Nat
  BY <1>1, TotalNat
<1> QED BY <1>3, <1>4

\* If the positive terms of f go to different terms of g that are no smaller, the total of
\* f is no larger than that of g.  The induction is on how many terms of f are counted,
\* against the terms of g that they go to.
LEMMA TotalInjection ==
  ASSUME NEW n \in Nat, NEW m \in Nat,
         NEW f \in [0..n-1 -> Nat], NEW g \in [0..m-1 -> Nat], NEW h,
         \A i \in 0..n-1 : f[i] > 0 => h[i] \in 0..m-1 /\ f[i] <= g[h[i]],
         \A i, j \in 0..n-1 : f[i] > 0 /\ f[j] > 0 /\ h[i] = h[j] => i = j
  PROVE  Total(f, n) <= Total(g, m)
<1> DEFINE taken(k) == {j \in 0..m-1 : \E i \in 0..n-1 : i < k /\ f[i] > 0 /\ h[i] = j}
           part(k) == [j \in 0..m-1 |-> IF j \in taken(k) THEN g[j] ELSE 0]
<1>1. PICK s : Partial(s, f, n) /\ Total(f, n) = s[n]
  <2>1. f \in [0..n-1 -> Int]
    OBVIOUS
  <2> QED BY <2>1, TotalWitness
<1> DEFINE S == {k \in Nat : k <= n => s[k] <= Total(part(k), m)}
<1>2. \A k \in Nat : part(k) \in [0..m-1 -> Nat] /\ part(k) \in [0..m-1 -> Int]
  OBVIOUS
<1>3. \A k \in Nat : Total(part(k), m) \in Nat
  BY <1>2, TotalNat
<1>4. 0 \in S
  <2>1. s[0] = 0
    BY <1>1 DEF Partial
  <2>2. Total(part(0), m) \in Nat
    BY <1>3
  <2> QED BY <2>1, <2>2
<1>5. ASSUME NEW k \in S PROVE k + 1 \in S
  <2> SUFFICES ASSUME k + 1 <= n PROVE s[k + 1] <= Total(part(k + 1), m)
    OBVIOUS
  <2>1. k \in Nat /\ k \in 0..n-1 /\ k + 1 \in 1..n /\ k \in 0..n /\ s[k] <= Total(part(k), m)
    OBVIOUS
  <2>2. s[k + 1] = s[k] + f[k] /\ s[k] \in Int /\ f[k] \in Nat
    BY <1>1, <2>1 DEF Partial
  <2>3. CASE f[k] = 0
    <3>1. taken(k + 1) = taken(k)
      BY <2>1, <2>3
    <3>2. part(k + 1) = part(k)
      BY <3>1
    <3> HIDE DEF part, S
    <3>3. Total(part(k + 1), m) = Total(part(k), m)
      BY <3>2
    <3>4. s[k + 1] = s[k]
      BY <2>2, <2>3
    <3> QED BY <2>1, <3>3, <3>4
  <2>4. CASE f[k] > 0
    <3> DEFINE t == h[k]
    <3>1. t \in 0..m-1 /\ f[k] <= g[t] /\ g[t] \in Nat
      BY <2>1, <2>4
    <3>2. t \notin taken(k) /\ taken(k + 1) = taken(k) \cup {t}
      <4>1. t \notin taken(k)
        BY <2>1, <2>4
      <4>2. taken(k + 1) = taken(k) \cup {t}
        BY <2>1, <2>4, <3>1
      <4> QED BY <4>1, <4>2
    <3> HIDE DEF t, taken
    <3>3. /\ part(k)[t] = 0 /\ part(k + 1)[t] = g[t]
          /\ \A j \in 0..m-1 : j # t => part(k + 1)[j] = part(k)[j]
      BY <3>1, <3>2
    <3>4. part(k) \in [0..m-1 -> Int] /\ part(k + 1) \in [0..m-1 -> Int]
      BY <1>2, <2>1
    <3>5. Total(part(k), m) \in Nat
      BY <1>3, <2>1
    <3> DEFINE old == part(k)
               new == part(k + 1)
    <3> HIDE DEF old, new, S
    <3>6. Total(new, m) = Total(old, m) + new[t] - old[t]
      <4>1. \A j \in 0..m-1 : j # t => new[j] = old[j]
        BY <3>3 DEF old, new
      <4>2. old \in [0..m-1 -> Int] /\ new \in [0..m-1 -> Int]
        BY <3>4 DEF old, new
      <4> QED BY <3>1, <4>1, <4>2, TotalPoint
    <3>7. Total(new, m) = Total(old, m) + g[t] - 0
      BY <3>3, <3>6 DEF old, new
    <3>8. Total(old, m) \in Nat /\ s[k] <= Total(old, m)
      BY <2>1, <3>5 DEF old
    <3>9. s[k + 1] <= Total(new, m)
      <4> DEFINE x == Total(old, m)
                 y == Total(new, m)
                 a == s[k]
                 b == f[k]
                 d == g[t]
      <4>1. /\ x \in Nat /\ a \in Int /\ b \in Nat /\ d \in Nat
            /\ s[k + 1] = a + b /\ y = x + d - 0 /\ a <= x /\ b <= d
        BY <2>2, <3>1, <3>7, <3>8
      <4> HIDE DEF x, y, a, b, d
      <4>2. a + b <= y
        BY <4>1
      <4> QED BY <4>1, <4>2 DEF y
    <3> QED BY <3>9 DEF new
  <2> QED BY <2>2, <2>3, <2>4
<1>6. s[n] <= Total(part(n), m)
  <2> HIDE DEF part, taken
  <2>1. S = Nat
    BY <1>4, <1>5, SetInduction
  <2> QED BY <2>1
<1>7. Total(part(n), m) <= Total(g, m)
  <2>1. \A j \in 0..m-1 : part(n)[j] <= g[j]
    OBVIOUS
  <2>2. part(n) \in [0..m-1 -> Nat]
    BY <1>2
  <2> HIDE DEF part
  <2> QED BY <2>1, <2>2, TotalMonotone
<1>8. s[n] \in Int /\ Total(part(n), m) \in Nat /\ Total(g, m) \in Nat
  <2>1. s[n] \in Int
    BY <1>1 DEF Partial
  <2>2. Total(part(n), m) \in Nat
    BY <1>3
  <2> QED BY <2>1, <2>2, TotalNat
<1> HIDE DEF part
<1> QED BY <1>1, <1>6, <1>7, <1>8

-----------------------------------------------------------------------------
(* The Top-N list. *)

\* A counter map: finitely many queries, each a number, with natural counts.
IsCounterMap(counters) ==
  \E queries \in SUBSET Nat : IsFiniteSet(queries) /\ counters \in [queries -> Nat]

\* There are finitely many items, one for each active query.
LEMMA ItemsFinite ==
  ASSUME NEW counters, IsCounterMap(counters)
  PROVE  /\ IsFiniteSet(ItemsOf(counters))
         /\ Cardinality(ItemsOf(counters)) = Cardinality(ActiveQueries(counters))
<1> DEFINE Q == ActiveQueries(counters)
           f == [q \in Q |-> [query |-> q, count |-> counters[q]]]
<1>1. IsFiniteSet(Q)
  BY FS_Subset DEF IsCounterMap, ActiveQueries
<1>2. f \in Bijection(Q, ItemsOf(counters))
  <2>1. f \in [Q -> ItemsOf(counters)]
    BY DEF ItemsOf
  <2>2. \A p, q \in Q : f[p] = f[q] => p = q
    OBVIOUS
  <2>3. \A item \in ItemsOf(counters) : \E q \in Q : f[q] = item
    BY DEF ItemsOf
  <2> QED BY <2>1, <2>2, <2>3, Fun_IsBij
<1>3. ExistsBijection(Q, ItemsOf(counters))
  BY <1>2 DEF ExistsBijection
<1> QED BY <1>1, <1>3, FS_Bijection

\* On the items of one map, isBetter is a strict total order.
LEMMA BetterIsTotalOrder ==
  ASSUME NEW counters, IsCounterMap(counters)
  PROVE  /\ \A a \in ItemsOf(counters) :
              a.query \in ActiveQueries(counters) /\ a.query \in Nat /\ a.count \in Nat
                /\ a.count = counters[a.query] /\ a = [query |-> a.query, count |-> a.count]
         /\ \A a \in ItemsOf(counters) : ~isBetter(a, a)
         /\ \A a, b, c \in ItemsOf(counters) :
              isBetter(a, b) /\ isBetter(b, c) => isBetter(a, c)
         /\ \A a, b \in ItemsOf(counters) : a = b \/ isBetter(a, b) \/ isBetter(b, a)
<1>1. ASSUME NEW a \in ItemsOf(counters)
      PROVE  /\ a.query \in ActiveQueries(counters) /\ a.query \in Nat /\ a.count \in Nat
             /\ a.count = counters[a.query] /\ a = [query |-> a.query, count |-> a.count]
  BY DEF ItemsOf, IsCounterMap, ActiveQueries
<1>2. \A a \in ItemsOf(counters) : ~isBetter(a, a)
  BY <1>1 DEF isBetter
<1>3. \A a, b, c \in ItemsOf(counters) :
        isBetter(a, b) /\ isBetter(b, c) => isBetter(a, c)
  BY <1>1 DEF isBetter
<1>4. ASSUME NEW a \in ItemsOf(counters), NEW b \in ItemsOf(counters)
      PROVE  a = b \/ isBetter(a, b) \/ isBetter(b, a)
  <2>1. CASE a.query = b.query
    BY <2>1, <1>1
  <2>2. CASE a.query # b.query
    BY <2>2, <1>1 DEF isBetter
  <2> QED BY <2>1, <2>2
<1> QED BY <1>1, <1>2, <1>3, <1>4

\* Better items have smaller ranks, so the rank decides which item is better.
LEMMA RankOrders ==
  ASSUME NEW counters, IsCounterMap(counters),
         NEW a \in ItemsOf(counters), NEW b \in ItemsOf(counters)
  PROVE  LET items == ItemsOf(counters)
         IN  /\ Rank(a, items) \in 1..Cardinality(items)
             /\ isBetter(a, b) <=> Rank(a, items) < Rank(b, items)
             /\ Rank(a, items) = Rank(b, items) => a = b
<1> DEFINE items == ItemsOf(counters)
           better(x) == {other \in items : isBetter(other, x)}
<1>1. IsFiniteSet(items) /\ Cardinality(items) \in Nat
  BY ItemsFinite, FS_CardinalityType
<1>2. ASSUME NEW x \in items
      PROVE  IsFiniteSet(better(x)) /\ Cardinality(better(x)) \in Nat
  <2>1. better(x) \in SUBSET items OBVIOUS
  <2> QED BY <1>1, <2>1, FS_Subset, FS_CardinalityType
<1>3. ASSUME NEW x \in items, NEW y \in items, isBetter(x, y)
      PROVE  Cardinality(better(x)) < Cardinality(better(y))
  <2>1. better(x) \in SUBSET better(y)
    BY <1>3, BetterIsTotalOrder
  <2>2. x \in better(y) /\ x \notin better(x)
    BY <1>3, BetterIsTotalOrder
  <2>3. /\ Cardinality(better(x)) <= Cardinality(better(y))
        /\ Cardinality(better(x)) # Cardinality(better(y))
    BY <2>1, <2>2, <1>2, FS_Subset
  <2> QED BY <2>3, <1>2
<1>4. Cardinality(better(a)) < Cardinality(items)
  <2>1. better(a) \in SUBSET items /\ a \notin better(a)
    BY BetterIsTotalOrder
  <2>2. /\ Cardinality(better(a)) <= Cardinality(items)
        /\ Cardinality(better(a)) # Cardinality(items)
    BY <2>1, <1>1, FS_Subset
  <2> QED BY <2>2, <1>1, <1>2
<1>5. /\ Rank(a, items) = Cardinality(better(a)) + 1
      /\ Rank(b, items) = Cardinality(better(b)) + 1
  BY DEF Rank
<1> HIDE DEF better
<1>6. Rank(a, items) \in 1..Cardinality(items)
  BY <1>1, <1>2, <1>4, <1>5
<1>7. isBetter(a, b) => Rank(a, items) < Rank(b, items)
  BY <1>2, <1>3, <1>5
<1>8. isBetter(b, a) => Rank(b, items) < Rank(a, items)
  BY <1>2, <1>3, <1>5
<1>9. a = b \/ isBetter(a, b) \/ isBetter(b, a)
  BY BetterIsTotalOrder
<1>10. Rank(a, items) \in Nat /\ Rank(b, items) \in Nat
  BY <1>2, <1>5
<1>11. a = b => Rank(a, items) = Rank(b, items)
  OBVIOUS
<1> QED BY <1>6, <1>7, <1>8, <1>9, <1>10, <1>11

\* Every position up to the number of items is the rank of one of them: the rank
\* is an injection between two sets of the same size.
LEMMA RankOnto ==
  ASSUME NEW counters, IsCounterMap(counters),
         NEW k \in 1..Cardinality(ItemsOf(counters))
  PROVE  \E item \in ItemsOf(counters) : Rank(item, ItemsOf(counters)) = k
<1> DEFINE items == ItemsOf(counters)
           positions == 1..Cardinality(items)
           f == [item \in items |-> Rank(item, items)]
<1>1. IsFiniteSet(items) /\ Cardinality(items) \in Nat
  BY ItemsFinite, FS_CardinalityType
<1>2. IsFiniteSet(positions) /\ Cardinality(positions) = Cardinality(items)
  BY <1>1, FS_Interval
<1>3. f \in Injection(items, positions)
  <2>1. f \in [items -> positions]
    BY RankOrders
  <2>2. \A x, y \in items : f[x] = f[y] => x = y
    BY RankOrders
  <2> QED BY <2>1, <2>2, Fun_IsInj
<1>4. f \in Surjection(items, positions)
  BY <1>2, <1>3, FS_Injection
<1>5. \A t \in positions : \E item \in items : f[item] = t
  <2> HIDE DEF f, positions
  <2> QED BY <1>4, Fun_SurjectionProperties
<1>6. PICK item \in items : f[item] = k
  BY <1>5
<1> QED BY <1>6

\* What buildTop puts at position k is the item of rank k.
LEMMA BuildTopRanks ==
  ASSUME NEW counters, IsCounterMap(counters), NEW limit \in Nat
  PROVE  LET items == ItemsOf(counters)
             size  == Smaller(limit, Cardinality(items))
         IN  /\ size \in Nat /\ size <= Cardinality(items) /\ size <= limit
             /\ buildTop(counters, limit) \in [1..size -> items]
             /\ \A k \in 1..size : Rank(buildTop(counters, limit)[k], items) = k
<1> DEFINE items == ItemsOf(counters)
           size  == Smaller(limit, Cardinality(items))
           chosen(k) == CHOOSE item \in items : Rank(item, items) = k
<1>1. Cardinality(items) \in Nat
  BY ItemsFinite, FS_CardinalityType
<1>2. size \in Nat /\ size <= Cardinality(items) /\ size <= limit
  BY <1>1 DEF Smaller
<1>3. ASSUME NEW k \in 1..size
      PROVE  chosen(k) \in items /\ Rank(chosen(k), items) = k
  <2>1. k \in 1..Cardinality(items) BY <1>1, <1>2
  <2> QED BY <2>1, RankOnto
<1>4. buildTop(counters, limit) = [k \in 1..size |-> chosen(k)]
  BY DEF buildTop
<1> HIDE DEF chosen, size, items
<1> QED BY <1>2, <1>3, <1>4 DEF items, size

\* The list buildTop computes is a Top-N list of the counters: of the right length,
\* with the best queries in order (aggregator.go:342-388).
THEOREM BuildTopIsTop ==
  ASSUME NEW counters, IsCounterMap(counters), NEW limit \in Nat
  PROVE  IsTopOf(buildTop(counters, limit), counters, limit)
<1> DEFINE items == ItemsOf(counters)
           size  == Smaller(limit, Cardinality(items))
           list  == buildTop(counters, limit)
           listed == {list[k].query : k \in 1..Len(list)}
<1>1. /\ size \in Nat /\ list \in [1..size -> items]
      /\ \A k \in 1..size : Rank(list[k], items) = k
  BY BuildTopRanks
<1>2. size = Smaller(limit, Cardinality(ActiveQueries(counters)))
  BY ItemsFinite
<1> HIDE DEF list, size
<1>3. Len(list) = size
  BY <1>1
<1>4. ASSUME NEW j \in 1..size, NEW k \in 1..size, j < k
      PROVE  isBetter(list[j], list[k])
  BY <1>1, <1>4, RankOrders
<1>5. ASSUME NEW q \in ActiveQueries(counters) \ listed, NEW k \in 1..size
      PROVE  isBetter(list[k], [query |-> q, count |-> counters[q]])
  <2> DEFINE item == [query |-> q, count |-> counters[q]]
             r    == Rank(item, items)
  <2>1. item \in items
    BY DEF ItemsOf
  <2>2. r \in 1..Cardinality(items)
    BY <2>1, RankOrders
  <2>3. r \notin 1..size
    <3>1. SUFFICES ASSUME r \in 1..size PROVE FALSE OBVIOUS
    <3>2. list[r] \in items /\ Rank(list[r], items) = r
      BY <3>1, <1>1
    <3>3. list[r] = item
      BY <3>2, <2>1, RankOrders
    <3>4. list[r].query = q
      BY <3>3
    <3> QED BY <3>1, <3>4, <1>3
  <2>4. k < r
    <3>1. Cardinality(items) \in Nat
      BY ItemsFinite, FS_CardinalityType
    <3> QED BY <2>2, <2>3, <1>1, <3>1
  <2>5. list[k] \in items /\ Rank(list[k], items) = k
    BY <1>1
  <2> QED BY <2>1, <2>4, <2>5, RankOrders
<1> QED BY <1>1, <1>2, <1>3, <1>4, <1>5 DEF IsTopOf, list

\* A prefix of a Top-N list is the shorter Top-N list.
LEMMA PrefixOfTop ==
  ASSUME NEW counters, IsCounterMap(counters), NEW limit \in Nat, NEW max \in Nat, limit <= max
  PROVE  FirstItems(buildTop(counters, max), limit) = buildTop(counters, limit)
<1> DEFINE items == ItemsOf(counters)
           card  == Cardinality(items)
           long  == buildTop(counters, max)
           size  == Smaller(limit, card)
           chosen(k) == CHOOSE item \in items : Rank(item, items) = k
<1>1. card \in Nat
  BY ItemsFinite, FS_CardinalityType
<1>2. /\ long = [k \in 1..Smaller(max, card) |-> chosen(k)]
      /\ buildTop(counters, limit) = [k \in 1..size |-> chosen(k)]
  BY DEF buildTop
<1>3. size \in Nat /\ Smaller(max, card) \in Nat /\ Smaller(limit, Smaller(max, card)) = size
  BY <1>1 DEF Smaller
<1>4. long \in Seq(items) /\ Len(long) = Smaller(max, card)
  <2>1. long \in [1..Smaller(max, card) -> items]
    BY BuildTopRanks
  <2> HIDE DEF long, card, items
  <2> QED BY <1>3, <2>1
<1> HIDE DEF long, card, chosen, items
<1>5. FirstItems(long, limit) = SubSeq(long, 1, size)
  BY <1>3, <1>4 DEF FirstItems
<1>6. size <= Len(long)
  BY <1>1, <1>4 DEF Smaller
<1>7. SubSeq(long, 1, size) = [k \in 1..size |-> long[k]]
  BY <1>3, <1>4, <1>6
<1>8. \A k \in 1..size : long[k] = chosen(k)
  BY <1>2, <1>3, <1>4, <1>6
<1> QED BY <1>2, <1>5, <1>7, <1>8 DEF long

=============================================================================
