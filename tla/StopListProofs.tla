--------------------------- MODULE StopListProofs ---------------------------
(***************************************************************************)
(* Proofs that the copy-on-write stop-list is an atomic set of words, for  *)
(* any words and any number of callers.                                    *)
(***************************************************************************)
EXTENDS StopList, FiniteSetTheorems, TLAPS

-----------------------------------------------------------------------------
(* The inductive invariant *)

Labels ==
  {"idle", "lock", "check", "clone", "store", "unlock", "load", "read", "size", "gauge",
   "return"}

Locked == {"check", "clone", "store", "unlock"}

\* What a call holds where it is: a map from its load to its use, a clone until it is
\* stored, and no answer before it is decided.
CallShape(call) ==
  /\ call.pc = "idle" => call = NoCall
  /\ call.pc \in {"lock"} \cup Locked => call.op \in {"add", "remove"} /\ call.word \in Words
  /\ call.pc \in {"load", "read"} =>
       \/ call.op = "contains" /\ call.word \in Words
       \/ call.op = "list" /\ call.word = NoWord
  /\ call.pc \in {"clone", "read"} <=> call.seen # None
  /\ call.pc = "store" <=> call.next # None
  /\ call.pc \in {"lock", "check", "clone", "store", "load", "read"} =>
       call.yes = FALSE /\ call.listed = {}

\* What a writer knows while it owns the mutex: that the map it cloned is the current
\* one, that there is something to change, and that its clone has the change.
WriterKnows(c, call, owner, current, maps) ==
  /\ call.pc \in Locked <=> owner = c
  /\ call.pc = "clone" => call.seen = current
  /\ call.pc \in {"clone", "store"} =>
       ((call.word \in maps[current]) <=> (call.op # "add"))
  /\ call.pc = "store" =>
       maps[call.next] = IF call.op = "add" THEN maps[current] \cup {call.word}
                                            ELSE maps[current] \ {call.word}

IInv ==
  /\ TypeOK
  /\ \A c \in Callers : CallShape(calls[c]) /\ WriterKnows(c, calls[c], mu, words, heap)

\* The fields of a call.
LEMMA Fields ==
  ASSUME NEW r \in CallRecords
  PROVE  /\ r.pc \in Labels /\ r.op \in {"none", "add", "remove", "contains", "list"}
         /\ r.word \in Words \cup {NoWord}
         /\ r.seen \in Refs \cup {None} /\ r.next \in Refs \cup {None} /\ r.yes \in BOOLEAN
         /\ r.listed \in SUBSET Words /\ r.size \in 0..Cardinality(Words)
BY Zenon DEF CallRecords, Labels

\* No more words are blocked than there are.
LEMMA SizeBound ==
  ASSUME NEW set \in SUBSET Words
  PROVE  Cardinality(set) \in 0..Cardinality(Words)
<1>1. IsFiniteSet(Words) /\ IsFiniteSet(set) /\ Cardinality(set) <= Cardinality(Words)
  BY StopListAssumption, FS_Subset
<1>2. Cardinality(set) \in Nat /\ Cardinality(Words) \in Nat
  BY <1>1, FS_CardinalityType
<1> QED BY <1>1, <1>2

\* A caller that is not in a call has a record of the right shape.
LEMMA NoCallShape ==
  /\ NoCall \in CallRecords /\ NoCall.pc = "idle" /\ NoCall.seen = None
  /\ CallShape(NoCall)
<1>1. Cardinality({}) \in 0..Cardinality(Words)
  BY SizeBound
<1>2. 0 \in 0..Cardinality(Words)
  BY <1>1, FS_EmptySet
<1>3. NoCall \in CallRecords
  BY <1>2 DEF NoCall, CallRecords
<1> QED BY <1>3 DEF NoCall, CallShape, Locked

\* At the start nobody is in a call and the mutex is free.
LEMMA InitInvariant == Init => IInv
<1> SUFFICES ASSUME Init PROVE IInv
  OBVIOUS
<1>1. Cardinality(Callers) \in Nat /\ Cardinality(Refs) > Cardinality(Callers)
  BY StopListAssumption, FS_CardinalityType
<1>2. Refs # {}
  BY <1>1, FS_EmptySet
<1>3. words \in Refs
  BY <1>2, Zenon DEF Init
<1>4. heap \in [Refs -> SUBSET Words]
  BY StopListAssumption DEF Init
<1>5. gauge \in 0..Cardinality(Words)
  BY SizeBound, StopListAssumption DEF Init
<1>6. TypeOK
  BY <1>3, <1>4, <1>5, NoCallShape DEF Init, TypeOK
<1>7. ASSUME NEW c \in Callers
      PROVE  CallShape(calls[c]) /\ WriterKnows(c, calls[c], mu, words, heap)
  <2>1. calls[c] = NoCall /\ mu = None
    BY DEF Init
  <2>2. None # c
    BY StopListAssumption
  <2> QED BY <2>1, <2>2, NoCallShape DEF WriterKnows, Locked
<1> QED BY <1>6, <1>7 DEF IInv

-----------------------------------------------------------------------------
(* What an action does to the calls *)

\* The others' calls stay as they are, and the caller's own goes on to label p.
Proceeds(c, p, s, n, y, l) ==
  /\ calls' \in [Callers -> CallRecords]
  /\ \A d \in Callers \ {c} : calls'[d] = calls[d]
  /\ calls'[c].op = calls[c].op /\ calls'[c].word = calls[c].word
  /\ calls'[c].pc = p /\ calls'[c].seen = s /\ calls'[c].next = n
  /\ calls'[c].yes = y /\ calls'[c].listed = l

\* The effect of each step on the record of its caller: taking the mutex ...
LEMMA LockEffect ==
  ASSUME IInv, NEW c \in Callers, Lock(c)
  PROVE  Proceeds(c, "check", calls[c].seen, calls[c].next, calls[c].yes, calls[c].listed)
<1>1. calls[c] \in CallRecords
  BY DEF IInv, TypeOK
<1>2. [calls[c] EXCEPT !.pc = "check"] \in CallRecords
  BY <1>1, Zenon DEF CallRecords
<1> QED BY <1>1, <1>2 DEF Lock, IInv, TypeOK, Proceeds, CallRecords

\* ... looking at the present map: there is nothing to do, or something to clone ...
LEMMA CheckEffect ==
  ASSUME IInv, NEW c \in Callers, Check(c)
  PROVE  \/ /\ (calls[c].word \in heap[words]) <=> (calls[c].op = "add")
            /\ Proceeds(c, "unlock", None, calls[c].next, calls[c].yes, calls[c].listed)
         \/ /\ (calls[c].word \in heap[words]) <=> (calls[c].op # "add")
            /\ Proceeds(c, "clone", words, calls[c].next, calls[c].yes, calls[c].listed)
<1>1. calls[c] \in CallRecords /\ words \in Refs
  BY DEF IInv, TypeOK
<1>2. CASE (calls[c].word \in heap[words]) <=> (calls[c].op = "add")
  <2>1. [calls[c] EXCEPT !.seen = None, !.pc = "unlock"] \in CallRecords
    BY <1>1, Zenon DEF CallRecords
  <2>2. calls' = [calls EXCEPT ![c] = [calls[c] EXCEPT !.seen = None, !.pc = "unlock"]]
    BY <1>2 DEF Check, AfterCheck, IInv, TypeOK
  <2> QED BY <1>1, <1>2, <2>1, <2>2 DEF IInv, TypeOK, Proceeds, CallRecords
<1>3. CASE ~((calls[c].word \in heap[words]) <=> (calls[c].op = "add"))
  <2>1. [calls[c] EXCEPT !.seen = words, !.pc = "clone"] \in CallRecords
    BY <1>1, Zenon DEF CallRecords
  <2>2. calls' = [calls EXCEPT ![c] = [calls[c] EXCEPT !.seen = words, !.pc = "clone"]]
    BY <1>3 DEF Check, AfterCheck, IInv, TypeOK
  <2> QED BY <1>1, <1>3, <2>1, <2>2 DEF IInv, TypeOK, Proceeds, CallRecords
<1> QED BY <1>2, <1>3

\* A writer about to clone finds an address that nobody holds: everybody holds at most
\* one, and the writer itself only that of the current map.
LEMMA NewRefIsFree ==
  ASSUME IInv, NEW c \in Callers, calls[c].pc = "clone"
  PROVE  NewRef \in Refs /\ NewRef \notin InUse
<1> SUFFICES ASSUME Refs \subseteq InUse PROVE FALSE
  BY Zenon DEF NewRef
<1> DEFINE holds(d, ref) == calls[d].seen = ref \/ calls[d].next = ref
           holder == [ref \in Refs |->
                        IF ref = words THEN c ELSE CHOOSE d \in Callers : holds(d, ref)]
<1>1. \A d \in Callers : calls[d].seen = None \/ calls[d].next = None
  BY DEF IInv, CallShape
<1>2. \A ref \in Refs : holds(c, ref) => ref = words
  <2>1. calls[c].seen = words /\ calls[c].next = None
    BY DEF IInv, CallShape, WriterKnows
  <2> QED BY <2>1, StopListAssumption
<1>3. ASSUME NEW ref \in Refs, ref # words
      PROVE  holder[ref] \in Callers \ {c} /\ holds(holder[ref], ref)
  <2>1. \E d \in Callers : holds(d, ref)
    BY <1>3 DEF InUse
  <2>2. holder[ref] \in Callers /\ holds(holder[ref], ref)
    BY <1>3, <2>1, Zenon
  <2> QED BY <2>2, <1>2, <1>3
<1>4. holder \in [Refs -> Callers]
  <2>1. \A ref \in Refs : holder[ref] \in Callers
    BY <1>3
  <2> QED BY <2>1
<1> HIDE DEF holder
<1>5. IsFiniteSet(Refs) /\ IsFiniteSet(Callers) /\ Cardinality(Callers) < Cardinality(Refs)
  BY StopListAssumption, FS_CardinalityType
<1>6. PICK x \in Refs, y \in Refs : x # y /\ holder[x] = holder[y]
  BY <1>4, <1>5, FS_PigeonHole
<1>7. holder[words] = c
  BY DEF holder, IInv, TypeOK
<1>8. x # words /\ y # words
  BY <1>3, <1>6, <1>7
<1> QED BY <1>1, <1>3, <1>6, <1>8, StopListAssumption

\* ... cloning it into a map that nobody refers to ...
LEMMA CloneEffect ==
  ASSUME IInv, NEW c \in Callers, Clone(c)
  PROVE  /\ Proceeds(c, "store", None, NewRef, calls[c].yes, calls[c].listed)
         /\ heap' \in [Refs -> SUBSET Words]
         /\ \A ref \in Refs \cap InUse : heap'[ref] = heap[ref]
         /\ heap'[NewRef] = IF calls[c].op = "add" THEN heap[words] \cup {calls[c].word}
                                                   ELSE heap[words] \ {calls[c].word}
<1>1. calls[c] \in CallRecords /\ calls[c].pc = "clone"
  BY DEF IInv, TypeOK, Clone
<1>2. NewRef \in Refs /\ NewRef \notin InUse
  BY <1>1, NewRefIsFree
<1> DEFINE new == NewRef
           changed == IF calls[c].op = "add" THEN heap[words] \cup {calls[c].word}
                                             ELSE heap[words] \ {calls[c].word}
<1>3. new \in Refs /\ new \notin InUse
  BY <1>2
<1>4. Proceeds(c, "store", None, new, calls[c].yes, calls[c].listed)
  <2>1. calls' = [calls EXCEPT ![c] =
                    [calls[c] EXCEPT !.seen = None, !.next = new, !.pc = "store"]]
    BY DEF Clone, IInv, TypeOK
  <2> HIDE DEF new
  <2>2. [calls[c] EXCEPT !.seen = None, !.next = new, !.pc = "store"] \in CallRecords
    BY <1>1, <1>3, Zenon DEF CallRecords
  <2> QED BY <1>1, <2>1, <2>2 DEF IInv, TypeOK, Proceeds, CallRecords
<1>5. calls[c].seen = words /\ calls[c].word \in Words /\ words \in Refs
  BY <1>1 DEF IInv, TypeOK, CallShape, WriterKnows, Locked
<1>6. changed \in SUBSET Words /\ heap \in [Refs -> SUBSET Words]
  BY <1>5 DEF IInv, TypeOK
<1>7. heap' = [ref \in Refs |-> CASE ref = new    -> changed
                                  [] ref \in InUse -> heap[ref]
                                  [] OTHER         -> {}]
  BY <1>5 DEF Clone
<1> HIDE DEF new, changed
<1>8. /\ heap' \in [Refs -> SUBSET Words]
      /\ \A ref \in Refs \cap InUse : heap'[ref] = heap[ref]
      /\ heap'[new] = changed
  BY <1>3, <1>6, <1>7
<1> QED BY <1>4, <1>8 DEF new, changed

\* ... publishing the clone ...
LEMMA StoreEffect ==
  ASSUME IInv, NEW c \in Callers, Store(c)
  PROVE  Proceeds(c, "unlock", calls[c].seen, None, TRUE, calls[c].listed)
<1>1. calls[c] \in CallRecords
  BY DEF IInv, TypeOK
<1>2. [calls[c] EXCEPT !.next = None, !.yes = TRUE, !.pc = "unlock"] \in CallRecords
  BY <1>1, Zenon DEF CallRecords
<1> QED BY <1>1, <1>2 DEF Store, IInv, TypeOK, Proceeds, CallRecords

\* ... releasing the mutex ...
LEMMA UnlockEffect ==
  ASSUME IInv, NEW c \in Callers, Unlock(c)
  PROVE  Proceeds(c, "size", calls[c].seen, calls[c].next, calls[c].yes, calls[c].listed)
<1>1. calls[c] \in CallRecords
  BY DEF IInv, TypeOK
<1>2. [calls[c] EXCEPT !.pc = "size"] \in CallRecords
  BY <1>1, Zenon DEF CallRecords
<1> QED BY <1>1, <1>2 DEF Unlock, IInv, TypeOK, Proceeds, CallRecords

\* ... loading the pointer to the map ...
LEMMA LoadEffect ==
  ASSUME IInv, NEW c \in Callers, Load(c)
  PROVE  Proceeds(c, "read", words, calls[c].next, calls[c].yes, calls[c].listed)
<1>1. calls[c] \in CallRecords /\ words \in Refs
  BY DEF IInv, TypeOK
<1>2. [calls[c] EXCEPT !.seen = words, !.pc = "read"] \in CallRecords
  BY <1>1, Zenon DEF CallRecords
<1> QED BY <1>1, <1>2 DEF Load, IInv, TypeOK, Proceeds, CallRecords

\* ... looking up a word in the map that was loaded ...
LEMMA ContainsEffect ==
  ASSUME IInv, NEW c \in Callers, Contains(c)
  PROVE  Proceeds(c, "return", None, calls[c].next, calls[c].word \in heap[calls[c].seen],
                  calls[c].listed)
<1> DEFINE there == calls[c].word \in heap[calls[c].seen]
<1>1. calls[c] \in CallRecords /\ there \in BOOLEAN
  BY DEF IInv, TypeOK
<1>2. calls' = [calls EXCEPT ![c] =
                  [calls[c] EXCEPT !.yes = there, !.seen = None, !.pc = "return"]]
  BY Zenon DEF Contains
<1> HIDE DEF there
<1>3. [calls[c] EXCEPT !.yes = there, !.seen = None, !.pc = "return"] \in CallRecords
  BY <1>1, Zenon DEF CallRecords
<1>4. Proceeds(c, "return", None, calls[c].next, there, calls[c].listed)
  BY <1>1, <1>2, <1>3 DEF IInv, TypeOK, Proceeds, CallRecords
<1> QED BY <1>4 DEF there

\* ... listing it ...
LEMMA ListEffect ==
  ASSUME IInv, NEW c \in Callers, List(c)
  PROVE  Proceeds(c, "size", None, calls[c].next, calls[c].yes, heap[calls[c].seen])
<1>1. calls[c] \in CallRecords /\ calls[c].seen \in Refs /\ heap[calls[c].seen] \in SUBSET Words
  <2>1. calls[c] \in CallRecords /\ calls[c].seen # None
    BY DEF IInv, TypeOK, List, CallShape
  <2>2. calls[c].seen \in Refs
    BY <2>1, Fields
  <2> QED BY <2>1, <2>2 DEF IInv, TypeOK
<1>2. [calls[c] EXCEPT !.listed = heap[calls[c].seen], !.seen = None, !.pc = "size"]
        \in CallRecords
  BY <1>1, Zenon DEF CallRecords
<1> QED BY <1>1, <1>2 DEF List, IInv, TypeOK, Proceeds, CallRecords

\* ... and reading the size for the gauge.
LEMMA ReadSizeEffect ==
  ASSUME IInv, NEW c \in Callers, ReadSize(c)
  PROVE  Proceeds(c, "gauge", calls[c].seen, calls[c].next, calls[c].yes, calls[c].listed)
<1>1. calls[c] \in CallRecords /\ Size \in 0..Cardinality(Words)
  BY SizeBound DEF IInv, TypeOK, Size
<1> HIDE DEF Size
<1>2. [calls[c] EXCEPT !.size = Size, !.pc = "gauge"] \in CallRecords
  BY <1>1, Zenon DEF CallRecords
<1> QED BY <1>1, <1>2 DEF ReadSize, IInv, TypeOK, Proceeds, CallRecords

\* A request that is rejected leaves the call as it was; another one is on its way to
\* the mutex or to the pointer.
LEMMA CallEffect ==
  ASSUME IInv, NEW c \in Callers, NEW request \in Requests, Call(c, request[1], request[2])
  PROVE  \/ calls' = calls
         \/ /\ calls' \in [Callers -> CallRecords]
            /\ \A d \in Callers \ {c} : calls'[d] = calls[d]
            /\ calls'[c].op = request[1] /\ calls'[c].word = request[2]
            /\ \/ request[1] \in {"add", "remove", "contains"} /\ request[2] \in Words
               \/ request[1] = "list" /\ request[2] = NoWord
            /\ calls'[c].pc = IF request[1] \in {"add", "remove"} THEN "lock" ELSE "load"
            /\ calls'[c].seen = None /\ calls'[c].next = None
            /\ calls'[c].yes = FALSE /\ calls'[c].listed = {}
<1> DEFINE op == request[1]
           word == request[2]
           p == IF op \in {"add", "remove"} THEN "lock" ELSE "load"
           r == [NoCall EXCEPT !.pc = p, !.op = op, !.word = word]
<1>1. \/ op \in {"add", "remove", "contains"} /\ word \in Words \cup {NoWord}
      \/ op = "list" /\ word = NoWord
  BY DEF Requests
<1>2. calls[c] = NoCall
  BY DEF Call, IInv, CallShape
<1>3. CASE op # "list" /\ word = NoWord
  <2>1. calls' = [calls EXCEPT ![c] = NoCall]
    BY <1>3 DEF Call
  <2> QED BY <1>2, <2>1 DEF IInv, TypeOK
<1>4. CASE ~(op # "list" /\ word = NoWord)
  <2>1. calls' = [calls EXCEPT ![c] = r]
    BY <1>4 DEF Call
  <2>2. /\ p \in {"lock", "load"} /\ op \in {"add", "remove", "contains", "list"}
        /\ word \in Words \cup {NoWord}
    BY <1>1
  <2>3. \/ op \in {"add", "remove", "contains"} /\ word \in Words
        \/ op = "list" /\ word = NoWord
    BY <1>1, <1>4
  <2> HIDE DEF op, word, p
  <2>4. r \in CallRecords
    <3>1. NoCall \in CallRecords
      BY NoCallShape
    <3> QED BY <3>1, <2>2, Zenon DEF CallRecords
  <2>5. /\ r.op = op /\ r.word = word /\ r.pc = p /\ r.seen = None /\ r.next = None
        /\ r.yes = FALSE /\ r.listed = {}
    BY DEF NoCall
  <2> HIDE DEF r
  <2>6. /\ calls' \in [Callers -> CallRecords] /\ calls'[c] = r
        /\ \A d \in Callers \ {c} : calls'[d] = calls[d]
    BY <2>1, <2>4 DEF IInv, TypeOK
  <2> QED BY <2>3, <2>5, <2>6 DEF op, word, p
<1> QED BY <1>3, <1>4

\* A call that has answered is over.
LEMMA EndEffect ==
  ASSUME IInv, NEW c \in Callers, SetGauge(c) \/ Return(c)
  PROVE  /\ calls' \in [Callers -> CallRecords] /\ calls'[c] = NoCall
         /\ \A d \in Callers \ {c} : calls'[d] = calls[d]
BY NoCallShape DEF SetGauge, Return, IInv, TypeOK

-----------------------------------------------------------------------------
(* The invariant is preserved *)

\* Whoever does not own the mutex leaves the maps and the pointer alone, and what the
\* others know remains true.
LEMMA StepInvariant ==
  ASSUME IInv, NEW c \in Callers,
         calls' \in [Callers -> CallRecords],
         \A d \in Callers \ {c} : calls'[d] = calls[d],
         CallShape(calls'[c]), WriterKnows(c, calls'[c], mu', words', heap'),
         words' \in Refs, heap' \in [Refs -> SUBSET Words], gauge' \in 0..Cardinality(Words),
         mu' = mu \/ (mu = None /\ mu' = c) \/ (mu = c /\ mu' = None),
         mu = c \/ UNCHANGED <<words, heap>>
  PROVE  IInv'
<1>1. TypeOK'
  BY DEF IInv, TypeOK
<1>2. ASSUME NEW d \in Callers
      PROVE  CallShape(calls'[d]) /\ WriterKnows(d, calls'[d], mu', words', heap')
  <2>1. CASE d = c
    BY <2>1
  <2>2. CASE d # c
    <3>1. /\ calls'[d] = calls[d] /\ None # d
          /\ CallShape(calls[d]) /\ WriterKnows(d, calls[d], mu, words, heap)
      BY <2>2, StopListAssumption DEF IInv
    <3>2. CASE mu = c
      BY <2>2, <3>1, <3>2 DEF WriterKnows, Locked
    <3>3. CASE UNCHANGED <<words, heap>>
      BY <2>2, <3>1, <3>3 DEF WriterKnows, Locked
    <3> QED BY <3>2, <3>3
  <2> QED BY <2>1, <2>2
<1> QED BY <1>1, <1>2 DEF IInv

\* A new call refers to no map and does not hold the mutex.
LEMMA CallInvariant ==
  ASSUME IInv, NEW c \in Callers, NEW request \in Requests, Call(c, request[1], request[2])
  PROVE  IInv'
<1>1. UNCHANGED <<words, heap, mu, gauge>> /\ calls[c].pc = "idle" /\ mu # c
  BY DEF Call, IInv, WriterKnows, Locked
<1>2. CASE calls' = calls
  BY <1>1, <1>2 DEF IInv, TypeOK
<1>3. CASE calls' # calls
  <2>1. CallShape(calls'[c]) /\ WriterKnows(c, calls'[c], mu', words', heap')
    BY <1>1, <1>3, CallEffect DEF CallShape, WriterKnows, Locked
  <2> QED BY <1>1, <1>3, <2>1, CallEffect, StepInvariant DEF IInv, TypeOK
<1> QED BY <1>2, <1>3

\* Only one writer passes the mutex.
LEMMA LockInvariant ==
  ASSUME IInv, NEW c \in Callers, Lock(c)
  PROVE  IInv'
<1>1. UNCHANGED <<words, heap, gauge>> /\ calls[c].pc = "lock" /\ mu = None /\ mu' = c
  BY DEF Lock, MutexFree
<1>2. CallShape(calls'[c]) /\ WriterKnows(c, calls'[c], mu', words', heap')
  <2>1. CallShape(calls[c]) /\ WriterKnows(c, calls[c], mu, words, heap)
    BY DEF IInv
  <2>2. CallShape(calls'[c])
    BY <1>1, <2>1, LockEffect DEF Proceeds, CallShape, Locked
  <2>3. WriterKnows(c, calls'[c], mu', words', heap')
    BY <1>1, <2>1, LockEffect DEF Proceeds, WriterKnows, Locked
  <2> QED BY <2>2, <2>3
<1>3. /\ calls' \in [Callers -> CallRecords]
      /\ \A d \in Callers \ {c} : calls'[d] = calls[d]
  BY LockEffect DEF Proceeds
<1>4. /\ words' \in Refs /\ heap' \in [Refs -> SUBSET Words]
      /\ gauge' \in 0..Cardinality(Words)
  BY <1>1 DEF IInv, TypeOK
<1> QED BY <1>1, <1>2, <1>3, <1>4, StepInvariant

\* What the writer finds stays true while it holds the mutex.
LEMMA CheckInvariant ==
  ASSUME IInv, NEW c \in Callers, Check(c)
  PROVE  IInv'
<1>1. UNCHANGED <<words, heap, mu, gauge>> /\ calls[c].pc = "check" /\ words \in Refs
  BY DEF Check, IInv, TypeOK
<1>2. words # None
  BY <1>1, StopListAssumption
<1>3. CallShape(calls'[c]) /\ WriterKnows(c, calls'[c], mu', words', heap')
  BY <1>1, <1>2, CheckEffect DEF IInv, Proceeds, CallShape, WriterKnows, Locked
<1> QED BY <1>1, <1>3, CheckEffect, StepInvariant DEF IInv, TypeOK, Proceeds

\* The clone overwrites no map that somebody may read.
LEMMA CloneInvariant ==
  ASSUME IInv, NEW c \in Callers, Clone(c)
  PROVE  IInv'
<1>1. UNCHANGED <<words, mu, gauge>> /\ calls[c].pc = "clone" /\ mu = c /\ words \in Refs
  BY DEF Clone, IInv, TypeOK, WriterKnows, Locked
<1>2. NewRef \in Refs /\ NewRef # None
  BY <1>1, NewRefIsFree, StopListAssumption
<1>3. heap'[words] = heap[words]
  BY <1>1, CloneEffect DEF InUse
<1>4. CallShape(calls'[c])
  BY <1>1, <1>2, CloneEffect DEF IInv, Proceeds, CallShape, Locked
<1>5. WriterKnows(c, calls'[c], mu', words', heap')
  <2>1. /\ calls'[c].pc = "store" /\ calls'[c].next = NewRef
        /\ calls'[c].op = calls[c].op /\ calls'[c].word = calls[c].word
        /\ heap'[NewRef] = IF calls[c].op = "add" THEN heap[words] \cup {calls[c].word}
                                                  ELSE heap[words] \ {calls[c].word}
    BY CloneEffect DEF Proceeds
  <2>2. (calls[c].word \in heap[words]) <=> (calls[c].op # "add")
    BY <1>1 DEF IInv, WriterKnows
  <2> HIDE DEF NewRef
  <2> QED BY <1>1, <1>3, <2>1, <2>2 DEF WriterKnows, Locked
<1> QED BY <1>1, <1>4, <1>5, CloneEffect, StepInvariant DEF IInv, TypeOK, Proceeds

\* The published map is the present one with the change of the writer.
LEMMA StoreInvariant ==
  ASSUME IInv, NEW c \in Callers, Store(c)
  PROVE  IInv'
<1>1. UNCHANGED <<heap, mu, gauge>> /\ calls[c].pc = "store" /\ mu = c
  BY DEF Store, IInv, WriterKnows, Locked
<1>2. words' \in Refs
  <2>1. calls[c] \in CallRecords /\ calls[c].next # None
    BY <1>1 DEF IInv, TypeOK, CallShape
  <2> QED BY <2>1, Fields DEF Store
<1>3. CallShape(calls'[c]) /\ WriterKnows(c, calls'[c], mu', words', heap')
  <2>1. CallShape(calls[c]) /\ WriterKnows(c, calls[c], mu, words, heap)
    BY DEF IInv
  <2>2. CallShape(calls'[c])
    BY <1>1, <2>1, StoreEffect DEF Proceeds, CallShape, Locked
  <2>3. WriterKnows(c, calls'[c], mu', words', heap')
    BY <1>1, <2>1, StoreEffect DEF Proceeds, WriterKnows, Locked
  <2> QED BY <2>2, <2>3
<1>4. /\ calls' \in [Callers -> CallRecords]
      /\ \A d \in Callers \ {c} : calls'[d] = calls[d]
  BY StoreEffect DEF Proceeds
<1>5. /\ heap' \in [Refs -> SUBSET Words] /\ gauge' \in 0..Cardinality(Words)
  BY <1>1 DEF IInv, TypeOK
<1> QED BY <1>1, <1>2, <1>3, <1>4, <1>5, StepInvariant

\* The next writer starts from what this one has published.
LEMMA UnlockInvariant ==
  ASSUME IInv, NEW c \in Callers, Unlock(c)
  PROVE  IInv'
<1>1. /\ UNCHANGED <<words, heap, gauge>> /\ calls[c].pc = "unlock"
      /\ mu = c /\ mu' = None /\ None # c
  BY StopListAssumption DEF Unlock, IInv, WriterKnows, Locked
<1>2. CallShape(calls'[c]) /\ WriterKnows(c, calls'[c], mu', words', heap')
  BY <1>1, UnlockEffect DEF IInv, Proceeds, CallShape, WriterKnows, Locked
<1> QED BY <1>1, <1>2, UnlockEffect, StepInvariant DEF IInv, TypeOK, Proceeds

\* Readers and the gauge never touch the mutex.
LEMMA ReaderInvariant ==
  ASSUME IInv, NEW c \in Callers,
         Load(c) \/ Contains(c) \/ List(c) \/ ReadSize(c) \/ SetGauge(c) \/ Return(c)
  PROVE  IInv'
<1>1. /\ UNCHANGED <<words, heap, mu>>
      /\ calls[c].pc \in {"load", "read", "size", "gauge", "return"} /\ mu # c
  BY DEF Load, Contains, List, ReadSize, SetGauge, Return, IInv, WriterKnows, Locked
<1>2. words \in Refs /\ words # None
  BY StopListAssumption DEF IInv, TypeOK
<1>3. gauge' \in 0..Cardinality(Words)
  <2>1. calls[c] \in CallRecords /\ gauge \in 0..Cardinality(Words)
    BY DEF IInv, TypeOK
  <2> QED BY <2>1, Fields DEF Load, Contains, List, ReadSize, SetGauge, Return
<1>4. /\ calls' \in [Callers -> CallRecords]
      /\ \A d \in Callers \ {c} : calls'[d] = calls[d]
      /\ CallShape(calls'[c]) /\ WriterKnows(c, calls'[c], mu', words', heap')
  <2>1. CASE Load(c)
    <3>1. Proceeds(c, "read", words, calls[c].next, calls[c].yes, calls[c].listed)
      BY <2>1, LoadEffect
    <3>2. calls[c].pc = "load" /\ CallShape(calls[c])
      BY <2>1 DEF Load, IInv
    <3>3. CallShape(calls'[c])
      BY <1>2, <3>1, <3>2 DEF Proceeds, CallShape, Locked
    <3> QED BY <1>1, <3>1, <3>3 DEF Proceeds, WriterKnows, Locked
  <2>2. CASE Contains(c)
    BY <1>1, <2>2, ContainsEffect
    DEF Contains, IInv, Proceeds, CallShape, WriterKnows, Locked
  <2>3. CASE List(c)
    BY <1>1, <2>3, ListEffect DEF List, IInv, Proceeds, CallShape, WriterKnows, Locked
  <2>4. CASE ReadSize(c)
    BY <1>1, <2>4, ReadSizeEffect
    DEF ReadSize, IInv, Proceeds, CallShape, WriterKnows, Locked
  <2>5. CASE SetGauge(c) \/ Return(c)
    BY <1>1, <2>5, EndEffect, NoCallShape DEF WriterKnows, Locked
  <2> QED BY <2>1, <2>2, <2>3, <2>4, <2>5
<1> QED BY <1>1, <1>3, <1>4, StepInvariant DEF IInv, TypeOK

\* Every step of every caller preserves the invariant.
LEMMA NextInvariant ==
  ASSUME IInv, [Next]_vars
  PROVE  IInv'
<1>1. CASE UNCHANGED vars
  BY <1>1 DEF IInv, TypeOK, vars
<1>2. ASSUME NEW c \in Callers, NEW request \in Requests, Call(c, request[1], request[2])
      PROVE  IInv'
  BY <1>2, CallInvariant
<1>3. ASSUME NEW c \in Callers, Proceed(c)
      PROVE  IInv'
  BY <1>3, LockInvariant, CheckInvariant, CloneInvariant, StoreInvariant, UnlockInvariant,
     ReaderInvariant
  DEF Proceed
<1> QED BY <1>1, <1>2, <1>3 DEF Next

\* The inductive invariant holds in every reachable state.
THEOREM Invariance == Spec => []IInv
<1>1. IInv /\ [Next]_vars => IInv'
  BY NextInvariant
<1> QED BY <1>1, InitInvariant, PTL DEF Spec

\* Types of the pointer, the maps and the calls (stoplist.go:11-15).
THEOREM TypeCorrect == Spec => []TypeOK
<1>1. IInv => TypeOK BY DEF IInv
<1> QED BY <1>1, Invariance, PTL

\* Writers exclude each other, and what a writer stores is the current map with its
\* change (stoplist.go:34-44, 55-65).
THEOREM MutexHeld == Spec => []WriterHoldsMutex
<1>1. IInv => WriterHoldsMutex
  BY DEF IInv, WriterKnows, WriterHoldsMutex, Locked
<1> QED BY <1>1, Invariance, PTL

-----------------------------------------------------------------------------
(* The refinement *)

\* The request that a call stands for, by where the call is.
LEMMA RequestIdle ==
  ASSUME NEW call, NEW maps, call.pc = "idle"
  PROVE  RequestOf(call, maps) = [phase |-> "idle"]
BY DEF RequestOf, Decided

\* ... one that has not decided yet has only been called ...
LEMMA RequestCalled ==
  ASSUME NEW call, NEW maps, call.pc \in {"lock", "check", "clone", "store", "load"}
  PROVE  RequestOf(call, maps) = [phase |-> "called", op |-> call.op, word |-> call.word]
BY DEF RequestOf, Decided

\* ... a reader has decided when it loaded the map, and answers from that map ...
LEMMA RequestRead ==
  ASSUME NEW call, NEW maps, call.pc = "read"
  PROVE  RequestOf(call, maps) =
           [phase |-> "done", op |-> call.op, word |-> call.word,
            yes |-> call.op = "contains" /\ call.word \in maps[call.seen],
            listed |-> IF call.op = "list" THEN maps[call.seen] ELSE call.listed]
BY DEF RequestOf, Decided

\* ... and any other has the answer that it will return.
LEMMA RequestDone ==
  ASSUME NEW call, NEW maps, call.pc \in {"unlock", "size", "gauge", "return"}
  PROVE  RequestOf(call, maps) =
           [phase |-> "done", op |-> call.op, word |-> call.word,
            yes |-> call.yes, listed |-> call.listed]
BY DEF RequestOf, Decided

\* The requests of all callers, which stand for the variable of StopSet.
Asked == [c \in Callers |-> RequestOf(calls[c], heap)]

\* The initial states are initial states of the stop set.
LEMMA InitRefines == Init => Promised!Init
<1> SUFFICES ASSUME Init PROVE Promised!Init
  OBVIOUS
<1>1. Init => IInv
  BY InitInvariant
<1>2. heap[words] = Initial
  BY <1>1 DEF IInv, TypeOK, Init
<1>3. \A c \in Callers : RequestOf(calls[c], heap) = [phase |-> "idle"]
  BY NoCallShape, RequestIdle DEF Init
<1> QED BY <1>2, <1>3 DEF Promised!Init, Promised!NoRequest

\* A map that somebody holds is not changed, so an action touches the request of its
\* own caller only.
LEMMA OnlyOwnRequest ==
  ASSUME IInv, NEW c \in Callers,
         \A d \in Callers \ {c} : calls'[d] = calls[d],
         \A d \in Callers : calls[d].seen # None => heap'[calls[d].seen] = heap[calls[d].seen],
         NEW r, RequestOf(calls'[c], heap') = r
  PROVE  Asked' = [Asked EXCEPT ![c] = r]
<1>1. ASSUME NEW d \in Callers \ {c}
      PROVE  RequestOf(calls'[d], heap') = RequestOf(calls[d], heap)
  <2>1. calls'[d] = calls[d] /\ calls[d].pc \in Labels /\ CallShape(calls[d])
    BY Fields DEF IInv, TypeOK
  <2>2. CASE calls[d].pc = "idle"
    BY <2>1, <2>2, RequestIdle
  <2>3. CASE calls[d].pc \in {"lock", "check", "clone", "store", "load"}
    BY <2>1, <2>3, RequestCalled
  <2>4. CASE calls[d].pc = "read"
    <3>1. heap'[calls[d].seen] = heap[calls[d].seen]
      BY <2>1, <2>4 DEF CallShape
    <3> QED BY <2>1, <2>4, <3>1, RequestRead
  <2>5. CASE calls[d].pc \in {"unlock", "size", "gauge", "return"}
    BY <2>1, <2>5, RequestDone
  <2> QED BY <2>1, <2>2, <2>3, <2>4, <2>5 DEF Labels
<1> QED BY <1>1 DEF Asked

\* A step after which the caller's request and the current map are what they were.
LEMMA StutterRefines ==
  ASSUME IInv, NEW c \in Callers,
         \A d \in Callers \ {c} : calls'[d] = calls[d],
         \A d \in Callers : calls[d].seen # None => heap'[calls[d].seen] = heap[calls[d].seen],
         RequestOf(calls'[c], heap') = RequestOf(calls[c], heap),
         heap'[words'] = heap[words]
  PROVE  UNCHANGED Promised!vars
<1>1. Asked' = [Asked EXCEPT ![c] = RequestOf(calls[c], heap)]
  BY OnlyOwnRequest
<1>2. Asked' = Asked
  BY <1>1 DEF Asked
<1> QED BY <1>2 DEF Asked, Promised!vars

\* The steps of a writer that the callers do not notice: the clone is not published yet.
LEMMA CloneStutters ==
  ASSUME IInv, NEW c \in Callers, Clone(c)
  PROVE  UNCHANGED Promised!vars
<1>1. calls[c].pc = "clone" /\ words' = words /\ words \in Refs
  BY DEF Clone, IInv, TypeOK
<1>2. heap'[words'] = heap[words]
  BY <1>1, CloneEffect DEF InUse
<1>3. ASSUME NEW d \in Callers, calls[d].seen # None
      PROVE  heap'[calls[d].seen] = heap[calls[d].seen]
  <2>1. calls[d].seen \in Refs
    BY <1>3, Fields DEF IInv, TypeOK
  <2>2. calls[d].seen \in InUse
    BY DEF InUse
  <2> QED BY <2>1, <2>2, CloneEffect
<1>4. /\ calls'[c].pc = "store" /\ calls'[c].op = calls[c].op
      /\ calls'[c].word = calls[c].word
      /\ \A d \in Callers \ {c} : calls'[d] = calls[d]
  BY CloneEffect DEF Proceeds
<1>5. RequestOf(calls'[c], heap') = RequestOf(calls[c], heap)
  BY <1>1, <1>4, RequestCalled
<1> QED BY <1>2, <1>3, <1>4, <1>5, StutterRefines

\* Taking the mutex decides nothing.
LEMMA LockStutters ==
  ASSUME IInv, NEW c \in Callers, Lock(c)
  PROVE  UNCHANGED Promised!vars
<1>1. UNCHANGED <<words, heap>> /\ calls[c].pc = "lock"
  BY DEF Lock
<1>2. /\ calls'[c].pc = "check" /\ calls'[c].op = calls[c].op
      /\ calls'[c].word = calls[c].word
      /\ \A d \in Callers \ {c} : calls'[d] = calls[d]
  BY LockEffect DEF Proceeds
<1>3. RequestOf(calls'[c], heap') = RequestOf(calls[c], heap)
  BY <1>1, <1>2, RequestCalled
<1> QED BY <1>1, <1>2, <1>3, StutterRefines

\* A call that has decided keeps its answer until it returns.
LEMMA DecidedStutters ==
  ASSUME IInv, NEW c \in Callers, Unlock(c) \/ Contains(c) \/ List(c) \/ ReadSize(c)
  PROVE  UNCHANGED Promised!vars
<1>1. UNCHANGED <<words, heap>>
  BY DEF Unlock, Contains, List, ReadSize
<1>2. CASE Unlock(c) \/ ReadSize(c)
  <2>1. /\ calls[c].pc \in {"unlock", "size"} /\ calls'[c].pc \in {"size", "gauge"}
        /\ calls'[c].op = calls[c].op /\ calls'[c].word = calls[c].word
        /\ calls'[c].yes = calls[c].yes /\ calls'[c].listed = calls[c].listed
        /\ \A d \in Callers \ {c} : calls'[d] = calls[d]
    BY <1>2, UnlockEffect, ReadSizeEffect DEF Unlock, ReadSize, Proceeds
  <2>2. RequestOf(calls'[c], heap') = RequestOf(calls[c], heap)
    BY <2>1, RequestDone
  <2> QED BY <1>1, <2>1, <2>2, StutterRefines
<1>3. CASE Contains(c)
  <2>1. /\ calls[c].pc = "read" /\ calls[c].op = "contains" /\ calls'[c].pc = "return"
        /\ calls'[c].op = calls[c].op /\ calls'[c].word = calls[c].word
        /\ calls'[c].yes = (calls[c].word \in heap[calls[c].seen])
        /\ calls'[c].listed = calls[c].listed
        /\ \A d \in Callers \ {c} : calls'[d] = calls[d]
    BY <1>3, ContainsEffect DEF Contains, Proceeds
  <2>2. RequestOf(calls'[c], heap') = RequestOf(calls[c], heap)
    BY <2>1, RequestDone, RequestRead
  <2> QED BY <1>1, <2>1, <2>2, StutterRefines
<1>4. CASE List(c)
  <2> DEFINE no == FALSE
  <2>1. /\ calls[c].pc = "read" /\ calls[c].op = "list" /\ calls'[c].pc = "size"
        /\ calls'[c].op = calls[c].op /\ calls'[c].word = calls[c].word
        /\ calls'[c].yes = calls[c].yes /\ calls'[c].listed = heap[calls[c].seen]
        /\ \A d \in Callers \ {c} : calls'[d] = calls[d]
    BY <1>4, ListEffect DEF List, Proceeds
  <2>2. calls[c].yes = no
    BY <2>1 DEF IInv, CallShape
  <2>3. no = (calls[c].op = "contains" /\ calls[c].word \in heap[calls[c].seen])
    BY <2>1
  <2> HIDE DEF no
  <2>4. RequestOf(calls'[c], heap') = RequestOf(calls[c], heap)
    BY <2>1, <2>2, <2>3, RequestRead, RequestDone
  <2> QED BY <1>1, <2>1, <2>4, StutterRefines
<1> QED BY <1>2, <1>3, <1>4

\* The instant at which a call takes effect.
LEMMA PerformRefines ==
  ASSUME IInv, NEW c \in Callers,
         \A d \in Callers \ {c} : calls'[d] = calls[d], heap' = heap,
         NEW op, NEW word, NEW yes, NEW listed,
         RequestOf(calls[c], heap) = [phase |-> "called", op |-> op, word |-> word],
         RequestOf(calls'[c], heap') =
           [phase |-> "done", op |-> op, word |-> word, yes |-> yes, listed |-> listed],
         yes = ((op # "list") /\ ((word \in heap[words]) <=> (op # "add"))),
         listed = IF op = "list" THEN heap[words] ELSE {},
         heap[words'] = CASE op = "add"    -> heap[words] \cup {word}
                          [] op = "remove" -> heap[words] \ {word}
                          [] OTHER         -> heap[words]
  PROVE  Promised!Perform(c)
<1>1. Asked' = [Asked EXCEPT ![c] =
                 [phase |-> "done", op |-> op, word |-> word, yes |-> yes, listed |-> listed]]
  BY OnlyOwnRequest
<1>2. Asked[c] = [phase |-> "called", op |-> op, word |-> word]
  BY DEF Asked
<1>3. Asked[c].phase = "called" /\ Asked[c].op = op /\ Asked[c].word = word
  BY <1>2
<1> QED BY <1>1, <1>3 DEF Asked, Promised!Perform

\* The check decides a call with nothing to do; otherwise nothing is decided yet.
LEMMA CheckRefines ==
  ASSUME IInv, NEW c \in Callers, Check(c)
  PROVE  Promised!Perform(c) \/ UNCHANGED Promised!vars
<1> DEFINE no == FALSE
<1>1. /\ UNCHANGED <<words, heap>> /\ calls[c].pc = "check"
      /\ calls[c].op \in {"add", "remove"} /\ calls[c].yes = no /\ calls[c].listed = {}
  BY DEF Check, IInv, CallShape, Locked
<1>2. /\ calls'[c].op = calls[c].op /\ calls'[c].word = calls[c].word
      /\ calls'[c].yes = no /\ calls'[c].listed = {}
      /\ \A d \in Callers \ {c} : calls'[d] = calls[d]
  BY <1>1, CheckEffect DEF Proceeds
<1>3. RequestOf(calls[c], heap) =
        [phase |-> "called", op |-> calls[c].op, word |-> calls[c].word]
  BY <1>1, RequestCalled
<1>4. CASE calls'[c].pc = "unlock"
  <2>1. (calls[c].word \in heap[words]) <=> (calls[c].op = "add")
    BY <1>4, CheckEffect DEF Proceeds
  <2>2. no = ((calls[c].op # "list") /\
              ((calls[c].word \in heap[words]) <=> (calls[c].op # "add")))
    BY <2>1
  <2> HIDE DEF no
  <2>3. RequestOf(calls'[c], heap') =
          [phase |-> "done", op |-> calls[c].op, word |-> calls[c].word,
           yes |-> no, listed |-> {}]
    <3>1. RequestOf(calls'[c], heap') =
            [phase |-> "done", op |-> calls'[c].op, word |-> calls'[c].word,
             yes |-> calls'[c].yes, listed |-> calls'[c].listed]
      BY <1>4, RequestDone
    <3> QED BY <1>2, <3>1
  <2>4. heap[words'] = CASE calls[c].op = "add"    -> heap[words] \cup {calls[c].word}
                         [] calls[c].op = "remove" -> heap[words] \ {calls[c].word}
                         [] OTHER                  -> heap[words]
    <3>1. CASE calls[c].op = "add"
      BY <1>1, <2>1, <3>1
    <3>2. CASE calls[c].op = "remove"
      BY <1>1, <2>1, <3>2
    <3> QED BY <1>1, <3>1, <3>2
  <2>5. {} = IF calls[c].op = "list" THEN heap[words] ELSE {}
    BY <1>1
  <2>6. heap' = heap /\ \A d \in Callers \ {c} : calls'[d] = calls[d]
    BY <1>1, <1>2
  <2> QED BY <1>3, <2>2, <2>3, <2>4, <2>5, <2>6, PerformRefines, SMTT(20)
<1>5. CASE calls'[c].pc = "clone"
  <2>1. RequestOf(calls'[c], heap') = RequestOf(calls[c], heap)
    BY <1>2, <1>3, <1>5, RequestCalled
  <2> QED BY <1>1, <1>2, <2>1, StutterRefines
<1> QED BY <1>4, <1>5, CheckEffect DEF Proceeds

\* A change takes effect when the pointer to the clone is stored.
LEMMA StoreRefines ==
  ASSUME IInv, NEW c \in Callers, Store(c)
  PROVE  Promised!Perform(c)
<1> DEFINE done == TRUE
<1>1. /\ heap' = heap /\ words' = calls[c].next /\ calls[c].pc = "store"
      /\ calls[c].op \in {"add", "remove"} /\ calls[c].listed = {}
      /\ (calls[c].word \in heap[words]) <=> (calls[c].op # "add")
      /\ heap[words'] = IF calls[c].op = "add" THEN heap[words] \cup {calls[c].word}
                                               ELSE heap[words] \ {calls[c].word}
  BY DEF Store, IInv, CallShape, WriterKnows, Locked
<1>2. /\ calls'[c].op = calls[c].op /\ calls'[c].word = calls[c].word
      /\ calls'[c].pc = "unlock" /\ calls'[c].yes = done /\ calls'[c].listed = {}
      /\ \A d \in Callers \ {c} : calls'[d] = calls[d]
  BY <1>1, StoreEffect DEF Proceeds
<1>3. RequestOf(calls[c], heap) =
        [phase |-> "called", op |-> calls[c].op, word |-> calls[c].word]
  BY <1>1, RequestCalled
<1>4. done = ((calls[c].op # "list") /\
              ((calls[c].word \in heap[words]) <=> (calls[c].op # "add")))
  BY <1>1
<1> HIDE DEF done
<1>5. RequestOf(calls'[c], heap') =
        [phase |-> "done", op |-> calls[c].op, word |-> calls[c].word,
         yes |-> done, listed |-> {}]
  <2>1. RequestOf(calls'[c], heap') =
          [phase |-> "done", op |-> calls'[c].op, word |-> calls'[c].word,
           yes |-> calls'[c].yes, listed |-> calls'[c].listed]
    <3>1. calls'[c].pc = "unlock"
      BY <1>2
    <3> QED BY <3>1, RequestDone
  <2> QED BY <1>2, <2>1
<1>6. heap[words'] = CASE calls[c].op = "add"    -> heap[words] \cup {calls[c].word}
                       [] calls[c].op = "remove" -> heap[words] \ {calls[c].word}
                       [] OTHER                  -> heap[words]
  BY <1>1
<1>7. {} = IF calls[c].op = "list" THEN heap[words] ELSE {}
  BY <1>1
<1> QED BY <1>1, <1>2, <1>3, <1>4, <1>5, <1>6, <1>7, PerformRefines

\* A reader is answered from the map to which the pointer it loaded points.
LEMMA LoadRefines ==
  ASSUME IInv, NEW c \in Callers, Load(c)
  PROVE  Promised!Perform(c)
<1> DEFINE there == calls[c].op = "contains" /\ calls[c].word \in heap[words]
           found == IF calls[c].op = "list" THEN heap[words] ELSE {}
<1>1. /\ UNCHANGED <<words, heap>> /\ calls[c].pc = "load"
      /\ calls[c].op \in {"contains", "list"} /\ calls[c].listed = {}
  BY DEF Load, IInv, CallShape
<1>2. /\ calls'[c].op = calls[c].op /\ calls'[c].word = calls[c].word
      /\ calls'[c].pc = "read" /\ calls'[c].seen = words /\ calls'[c].listed = {}
      /\ \A d \in Callers \ {c} : calls'[d] = calls[d]
  BY <1>1, LoadEffect DEF Proceeds
<1>3. RequestOf(calls[c], heap) =
        [phase |-> "called", op |-> calls[c].op, word |-> calls[c].word]
  BY <1>1, RequestCalled
<1>4. /\ there = (calls'[c].op = "contains" /\ calls'[c].word \in heap'[calls'[c].seen])
      /\ found = IF calls'[c].op = "list" THEN heap'[calls'[c].seen] ELSE calls'[c].listed
  BY <1>1, <1>2
<1>5. there = ((calls[c].op # "list") /\
               ((calls[c].word \in heap[words]) <=> (calls[c].op # "add")))
  BY <1>1
<1>6. heap[words'] = CASE calls[c].op = "add"    -> heap[words] \cup {calls[c].word}
                       [] calls[c].op = "remove" -> heap[words] \ {calls[c].word}
                       [] OTHER                  -> heap[words]
  BY <1>1
<1>7. found = IF calls[c].op = "list" THEN heap[words] ELSE {}
  OBVIOUS
<1> HIDE DEF there, found
<1>8. RequestOf(calls'[c], heap') =
        [phase |-> "done", op |-> calls[c].op, word |-> calls[c].word,
         yes |-> there, listed |-> found]
  <2> DEFINE answer == calls'[c].op = "contains" /\ calls'[c].word \in heap'[calls'[c].seen]
             list == IF calls'[c].op = "list" THEN heap'[calls'[c].seen] ELSE calls'[c].listed
  <2>1. RequestOf(calls'[c], heap') =
          [phase |-> "done", op |-> calls'[c].op, word |-> calls'[c].word,
           yes |-> answer, listed |-> list]
    BY <1>2, RequestRead
  <2>2. there = answer /\ found = list
    BY <1>4
  <2> HIDE DEF answer, list
  <2> QED BY <1>2, <2>1, <2>2
<1>9. heap' = heap /\ \A d \in Callers \ {c} : calls'[d] = calls[d]
  BY <1>1, <1>2
<1> QED BY <1>3, <1>5, <1>6, <1>7, <1>8, <1>9, PerformRefines, SMTT(20)

\* A request that validation accepts is a request of the set.
LEMMA CallRefines ==
  ASSUME IInv, NEW c \in Callers, NEW request \in Requests, Call(c, request[1], request[2])
  PROVE  Promised!Call(c) \/ UNCHANGED Promised!vars
<1>1. UNCHANGED <<words, heap>> /\ calls[c].pc = "idle"
  BY DEF Call
<1>2. CASE calls' = calls
  BY <1>1, <1>2 DEF Promised!vars
<1>3. CASE calls' # calls
  <2>1. /\ \A d \in Callers \ {c} : calls'[d] = calls[d]
        /\ calls'[c].op = request[1] /\ calls'[c].word = request[2]
        /\ \/ request[1] \in {"add", "remove", "contains"} /\ request[2] \in Words
           \/ request[1] = "list" /\ request[2] = NoWord
        /\ calls'[c].pc \in {"lock", "load"}
    BY <1>3, CallEffect
  <2>2. RequestOf(calls'[c], heap') =
          [phase |-> "called", op |-> request[1], word |-> request[2]]
    BY <2>1, RequestCalled
  <2>3. Asked' = [Asked EXCEPT ![c] =
                   [phase |-> "called", op |-> request[1], word |-> request[2]]]
    BY <1>1, <2>1, <2>2, OnlyOwnRequest
  <2>4. Asked[c].phase = "idle"
    BY <1>1, RequestIdle DEF Asked
  <2>5. request \in Promised!Requests
    BY <2>1 DEF Requests, Promised!Requests
  <2> QED BY <1>1, <2>3, <2>4, <2>5 DEF Asked, Promised!Call
<1> QED BY <1>2, <1>3

\* The end of a call is the return of its answer.
LEMMA EndRefines ==
  ASSUME IInv, NEW c \in Callers, SetGauge(c) \/ Return(c)
  PROVE  Promised!Return(c)
<1>1. UNCHANGED <<words, heap>> /\ calls[c].pc \in {"gauge", "return"}
  BY DEF SetGauge, Return
<1>2. RequestOf(calls'[c], heap') = [phase |-> "idle"]
  BY EndEffect, NoCallShape, RequestIdle
<1>3. Asked' = [Asked EXCEPT ![c] = [phase |-> "idle"]]
  BY <1>1, <1>2, EndEffect, OnlyOwnRequest
<1>4. Asked[c].phase = "done"
  BY <1>1, RequestDone DEF Asked
<1> QED BY <1>1, <1>3, <1>4 DEF Asked, Promised!Return, Promised!NoRequest

\* Every step is a step of the stop set or changes nothing of it.
LEMMA NextRefines ==
  ASSUME IInv, [Next]_vars
  PROVE  [Promised!Next]_(Promised!vars)
<1>1. CASE UNCHANGED vars
  BY <1>1 DEF vars, Promised!vars
<1>2. ASSUME NEW c \in Callers, NEW request \in Requests, Call(c, request[1], request[2])
      PROVE  [Promised!Next]_(Promised!vars)
  BY <1>2, CallRefines DEF Promised!Next
<1>3. ASSUME NEW c \in Callers, Proceed(c)
      PROVE  [Promised!Next]_(Promised!vars)
  <2>1. CASE Lock(c) \/ Clone(c) \/ Unlock(c) \/ Contains(c) \/ List(c) \/ ReadSize(c)
    BY <2>1, LockStutters, CloneStutters, DecidedStutters
  <2>2. CASE Check(c) \/ Store(c) \/ Load(c)
    BY <2>2, CheckRefines, StoreRefines, LoadRefines DEF Promised!Next
  <2>3. CASE SetGauge(c) \/ Return(c)
    BY <2>3, EndRefines DEF Promised!Next
  <2> QED BY <1>3, <2>1, <2>2, <2>3 DEF Proceed
<1> QED BY <1>1, <1>2, <1>3 DEF Next

\* The copy-on-write map is an atomic set: every call takes effect in one instant, at
\* the store, the check or the load, whatever the other callers do, and is answered
\* from the set of that instant (stoplist.go:22-92).
THEOREM Atomicity == Spec => ImplementsStopSet
<1>1. Init => Promised!Init
  BY InitRefines
<1>2. IInv /\ [Next]_vars => [Promised!Next]_(Promised!vars)
  BY NextRefines
<1> QED BY <1>1, <1>2, Invariance, PTL DEF Spec, ImplementsStopSet, Promised!Spec

=============================================================================
