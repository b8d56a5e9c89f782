------------------------------ MODULE StopList ------------------------------
(***************************************************************************)
(* Manager of internal/stoplist, as its callers use it: the gRPC handlers  *)
(* AddStopWord, RemoveStopWord and ListStopWords, and the Kafka handler,   *)
(* which asks Contains.                                                    *)
(*                                                                         *)
(* The manager holds an atomic pointer to a map.  Writers take a mutex,    *)
(* load the pointer, change a clone and store a pointer to it; readers     *)
(* load the pointer without the mutex and then look into the map.  So the  *)
(* maps are modelled as cells of a heap, and a reader may be suspended     *)
(* between loading the pointer and reading the cell.                       *)
(*                                                                         *)
(* Requests carry words as they are after validation and normalization     *)
(* (NormalizeQuery, then normalize); a request that validation rejects is  *)
(* answered at once and touches nothing.                                   *)
(***************************************************************************)
EXTENDS Integers, FiniteSets

CONSTANTS
  Words,       \* normalized words
  NoWord,      \* what validation makes of an invalid word
  Initial,     \* the words of the configuration
  Callers,     \* goroutines
  Refs,        \* addresses of maps
  None         \* no address, no owner of the mutex

ASSUME StopListAssumption ==
  /\ IsFiniteSet(Words) /\ NoWord \notin Words /\ Initial \subseteq Words
  /\ IsFiniteSet(Callers) /\ IsFiniteSet(Refs)
  /\ None \notin Callers /\ None \notin Refs
  /\ Cardinality(Refs) > Cardinality(Callers)

VARIABLES
  words,    \* m.words: the address of the current map
  heap,     \* the maps
  mu,       \* m.mu: its owner
  calls,    \* for each caller, its call
  gauge     \* the stoplist_size gauge

vars == <<words, heap, mu, calls, gauge>>

NoCall ==
  [pc |-> "idle", op |-> "none", word |-> NoWord, seen |-> None,
   next |-> None, yes |-> FALSE, listed |-> {}, size |-> 0]

\* Addresses that somebody holds; the garbage collector may hand out the others.
InUse == {words} \cup {calls[c].seen : c \in Callers} \cup {calls[c].next : c \in Callers}

NewRef == CHOOSE ref \in Refs : ref \notin InUse

\* Fault: the capacity cloneSet allocates is taken for the length.
SizeOfCapacity == Cardinality(heap[words]) + 1

Size == Cardinality(heap[words])

-----------------------------------------------------------------------------
(* Requests *)

\* A handler starts: after the checks of the context and of the word it calls the
\* manager.  Writers wait for the mutex, readers go straight to the pointer.
Call(c, op, word) ==
  /\ calls[c].pc = "idle"
  /\ calls' = [calls EXCEPT ![c] =
       IF op # "list" /\ word = NoWord THEN NoCall
       ELSE [NoCall EXCEPT !.pc = IF op \in {"add", "remove"} THEN "lock" ELSE "load",
                           !.op = op, !.word = word]]
  /\ UNCHANGED <<words, heap, mu, gauge>>

\* Fault: writers do not exclude each other.
MutexIgnored == TRUE

MutexFree == mu = None

\* m.mu.Lock()
Lock(c) ==
  /\ calls[c].pc = "lock"
  /\ MutexFree
  /\ mu' = c
  /\ calls' = [calls EXCEPT ![c].pc = "check"]
  /\ UNCHANGED <<words, heap, gauge>>

\* Fault: the early return leaves the mutex locked.
AfterCheckLocked(done) == IF done THEN "size" ELSE "clone"

\* The early return runs the deferred Unlock.
AfterCheck(done) == IF done THEN "unlock" ELSE "clone"

\* Add and Remove: load the map; nothing to do if it is as asked for already.
Check(c) ==
  LET call == calls[c]
      done == (call.word \in heap[words]) <=> (call.op = "add")
  IN  /\ call.pc = "check"
      /\ calls' = [calls EXCEPT ![c].seen = IF done THEN None ELSE words,
                                ![c].pc   = AfterCheck(done)]
      /\ UNCHANGED <<words, heap, mu, gauge>>

\* Fault: the current map is changed in place.
CloneInPlace(c) ==
  LET call == calls[c]
  IN  /\ call.pc = "clone"
      /\ heap' = [heap EXCEPT ![call.seen] =
                    IF call.op = "add" THEN @ \cup {call.word} ELSE @ \ {call.word}]
      /\ calls' = [calls EXCEPT ![c].seen = None, ![c].next = call.seen, ![c].pc = "store"]
      /\ UNCHANGED <<words, mu, gauge>>

\* cloneSet, and the change to the clone.  Maps that nobody holds are forgotten.
Clone(c) ==
  LET call == calls[c]
      copy == heap[call.seen]
  IN  /\ call.pc = "clone"
      /\ heap' = [ref \in Refs |->
           CASE ref = NewRef   -> IF call.op = "add" THEN copy \cup {call.word}
                                                     ELSE copy \ {call.word}
             [] ref \in InUse -> heap[ref]
             [] OTHER          -> {}]
      /\ calls' = [calls EXCEPT ![c].seen = None, ![c].next = NewRef, ![c].pc = "store"]
      /\ UNCHANGED <<words, mu, gauge>>

\* m.words.Store(next)
Store(c) ==
  /\ calls[c].pc = "store"
  /\ words' = calls[c].next
  /\ calls' = [calls EXCEPT ![c].next = None, ![c].yes = TRUE, ![c].pc = "unlock"]
  /\ UNCHANGED <<heap, mu, gauge>>

\* The deferred m.mu.Unlock()
Unlock(c) ==
  /\ calls[c].pc = "unlock"
  /\ mu' = None
  /\ calls' = [calls EXCEPT ![c].pc = "size"]
  /\ UNCHANGED <<words, heap, gauge>>

\* Contains and List: load the pointer ...
Load(c) ==
  /\ calls[c].pc = "load"
  /\ calls' = [calls EXCEPT ![c].seen = words, ![c].pc = "read"]
  /\ UNCHANGED <<words, heap, mu, gauge>>

\* ... and look the word up in the map it points to.
Contains(c) ==
  LET call == calls[c]
  IN  /\ call.pc = "read" /\ call.op = "contains"
      /\ calls' = [calls EXCEPT ![c].yes = call.word \in heap[call.seen],
                                ![c].seen = None, ![c].pc = "return"]
      /\ UNCHANGED <<words, heap, mu, gauge>>

\* ... or collect its words; their order is left out.
List(c) ==
  LET call == calls[c]
  IN  /\ call.pc = "read" /\ call.op = "list"
      /\ calls' = [calls EXCEPT ![c].listed = heap[call.seen],
                                ![c].seen = None, ![c].pc = "size"]
      /\ UNCHANGED <<words, heap, mu, gauge>>

\* setStopListSize: h.stopWords.Size() ...
ReadSize(c) ==
  /\ calls[c].pc = "size"
  /\ calls' = [calls EXCEPT ![c].size = Size, ![c].pc = "gauge"]
  /\ UNCHANGED <<words, heap, mu, gauge>>

\* ... is the argument of h.metrics.SetStopListSize; then the handler answers.
SetGauge(c) ==
  /\ calls[c].pc = "gauge"
  /\ gauge' = calls[c].size
  /\ calls' = [calls EXCEPT ![c] = NoCall]
  /\ UNCHANGED <<words, heap, mu>>

\* Contains has answered.
Return(c) ==
  /\ calls[c].pc = "return"
  /\ calls' = [calls EXCEPT ![c] = NoCall]
  /\ UNCHANGED <<words, heap, mu, gauge>>

-----------------------------------------------------------------------------

\* List takes no word.
Requests ==
  {"add", "remove", "contains"} \X (Words \cup {NoWord}) \cup {<<"list", NoWord>>}

\* NewManager, and the gauge that run sets before it starts the servers.
Init ==
  /\ words \in {CHOOSE ref \in Refs : TRUE}
  /\ heap = [ref \in Refs |-> IF ref = words THEN Initial ELSE {}]
  /\ mu = None
  /\ calls = [c \in Callers |-> NoCall]
  /\ gauge = Cardinality(Initial)

Proceed(c) ==
  \/ Lock(c) \/ Check(c) \/ Clone(c) \/ Store(c) \/ Unlock(c)
  \/ Load(c) \/ Contains(c) \/ List(c)
  \/ ReadSize(c) \/ SetGauge(c) \/ Return(c)

Next ==
  \E c \in Callers :
    \/ \E request \in Requests : Call(c, request[1], request[2])
    \/ Proceed(c)

Spec == Init /\ [][Next]_vars

(***************************************************************************)
(* A goroutine that can run does, and sync.Mutex hands itself to a waiter  *)
(* that has been overtaken for too long (its starvation mode): Lock is     *)
(* strongly fair.                                                          *)
(***************************************************************************)
Fairness == \A c \in Callers : WF_vars(Proceed(c)) /\ SF_vars(Lock(c))

FairSpec == Spec /\ Fairness

-----------------------------------------------------------------------------
(* Properties *)

CallRecords ==
  [pc : {"idle", "lock", "check", "clone", "store", "unlock", "load", "read",
         "size", "gauge", "return"},
   op : {"none", "add", "remove", "contains", "list"}, word : Words \cup {NoWord},
   seen : Refs \cup {None}, next : Refs \cup {None}, yes : BOOLEAN,
   listed : SUBSET Words, size : 0..Cardinality(Words)]

\* Where each caller can be, and what it holds there.
TypeOK ==
  /\ words \in Refs
  /\ heap \in [Refs -> SUBSET Words]
  /\ mu \in Callers \cup {None}
  /\ calls \in [Callers -> CallRecords]
  /\ gauge \in 0..Cardinality(Words)

\* The effect of a call has been decided: by the store, by the check that finds
\* nothing to do, or by the load of a reader.
Decided(call) == call.pc \in {"unlock", "read", "size", "gauge", "return"}

\* The request that a call stands for, with the maps of the heap.
RequestOf(call, maps) ==
  CASE call.pc = "idle" -> [phase |-> "idle"]
    [] Decided(call) ->
         [phase |-> "done", op |-> call.op, word |-> call.word,
          yes    |-> IF call.pc = "read"
                     THEN call.op = "contains" /\ call.word \in maps[call.seen]
                     ELSE call.yes,
          listed |-> IF call.pc = "read" /\ call.op = "list"
                     THEN maps[call.seen] ELSE call.listed]
    [] OTHER -> [phase |-> "called", op |-> call.op, word |-> call.word]

Promised ==
  INSTANCE StopSet WITH
    set <- heap[words], requests <- [c \in Callers |-> RequestOf(calls[c], heap)]

\* The copy-on-write map is an atomic set: no update is lost to a concurrent one,
\* every answer is that of one instant within the call, and a reader that is
\* suspended with a map in hand still reads the map it loaded (stoplist.go:22-92,
\* README "stored as an atomic copy-on-write snapshot").
ImplementsStopSet == Promised!Spec

\* Only the owner of the mutex is between Lock and Unlock, and while it works on a
\* clone the current map is still the one it cloned (stoplist.go:34-44, 55-65).
WriterHoldsMutex ==
  \A c \in Callers :
    /\ calls[c].pc \in {"check", "clone", "store", "unlock"} <=> mu = c
    /\ calls[c].pc = "clone" => calls[c].seen = words
    /\ calls[c].pc = "store" =>
         heap[calls[c].next] = IF calls[c].op = "add"
                               THEN heap[words] \cup {calls[c].word}
                               ELSE heap[words] \ {calls[c].word}

\* Every call of the stop-list returns, the early return of a writer that finds
\* nothing to do releases the mutex too (stoplist.go:34-40, 55-61).
EveryCallReturns ==
  \A c \in Callers : (calls[c].pc # "idle") ~> (calls[c].pc = "idle")

\* When no request is under way the gauge shows the number of words, "Current number
\* of stop-list entries." (metrics.go:188; search_trends.go:221-225).
GaugeSettles ==
  (\A c \in Callers : calls[c].pc = "idle") => gauge = Size

=============================================================================
