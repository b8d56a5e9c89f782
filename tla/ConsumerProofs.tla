--------------------------- MODULE ConsumerProofs ---------------------------
(***************************************************************************)
(* Proofs that the loop of the Kafka consumer never commits past a message *)
(* it has not processed, and never counts a delivery twice, for every      *)
(* length of the log and any number of errors, restarts and rebalances.    *)
(***************************************************************************)
EXTENDS Consumer, TLAPS

-----------------------------------------------------------------------------
(* The inductive invariant *)

InHand == {"process", "commit", "commitBackoff"}

Done(offset) == offset \in skipped \/ outcome[offset] # "none"

\* A running reader has passed over nothing but the message it is processing, the
\* messages before the one in hand are done, and one is committed only once it is.
ReadInOrder ==
  /\ pc \notin {"returned", "down"} =>
       \A offset \in Offsets :
         offset < position => Done(offset) \/ (pc = "process" /\ offset = msg)
  /\ pc \in InHand => \A offset \in Offsets : offset < msg => Done(offset)
  /\ pc \in {"commit", "commitBackoff"} => Done(msg) /\ msg \in processed

\* An offset that was committed, or may be with what is queued, covers only messages
\* that are done, and follows one that was processed.
OffsetEarned(next) ==
  /\ \A offset \in Offsets : offset < next => Done(offset)
  /\ next > 0 => next - 1 \in processed

OffsetsEarned == OffsetEarned(committed) /\ OffsetEarned(queued)

\* What the reader has yet to fetch was counted at most once for each rebalance, and
\* a message in hand that it will fetch again once less.
Deliveries ==
  /\ \A offset \in Offsets :
       /\ handledNow[offset] <= 1 + rebalances
       /\ offset >= position => handledNow[offset] <= rebalances
  /\ pc = "process" =>
       /\ handledNow[msg] <= rebalances
       /\ msg >= position => handledNow[msg] + 1 <= rebalances

IInv == TypeOK /\ ReadInOrder /\ OffsetsEarned /\ Deliveries

-----------------------------------------------------------------------------
(* Initially *)

\* Nothing has been read, processed or committed at the start.
LEMMA InitInvariant == Init => IInv
<1> SUFFICES ASSUME Init PROVE IInv
  OBVIOUS
<1>1. TypeOK
  <2>1. log \in Seq({"event", "malformed"}) /\ Len(log) = 0
    BY DEF Init
  <2>2. /\ 0 \in 0..MaxLog /\ 0 \in 0..CommitRetries /\ 0 \in 0..MaxErrors
        /\ 0 \in 0..MaxRestarts /\ 0 \in 0..MaxRebalances
    BY ConsumerAssumption
  <2>3. cancelled \in BOOLEAN
    BY Zenon DEF Init
  <2> QED BY <2>1, <2>2, <2>3 DEF Init, TypeOK
<1>2. ReadInOrder /\ OffsetsEarned /\ Deliveries
  BY ConsumerAssumption
  DEF Init, ReadInOrder, OffsetsEarned, OffsetEarned, Deliveries, InHand, NoCommit, Offsets
<1> QED BY <1>1, <1>2 DEF IInv

-----------------------------------------------------------------------------
(* The broker *)

\* A new message is behind everything that was fetched, queued or committed.
LEMMA ProduceInvariant ==
  ASSUME IInv, Produce
  PROVE  IInv'
<1> USE DEF IInv, Produce, broker, loop, history, bounds
<1>1. TypeOK'
  <2>1. /\ log' \in Seq({"event", "malformed"}) /\ Len(log') = Len(log) + 1
        /\ Len(log) \in Nat
    BY DEF TypeOK
  <2>2. /\ Len(log') <= MaxLog /\ committed' \in {NoCommit} \cup 0..Len(log')
        /\ queued' \in {NoCommit} \cup 1..Len(log') /\ position' \in 0..Len(log')
        /\ pc' \in {"process", "commit", "commitBackoff"} => msg' < Len(log')
    BY <2>1, ConsumerAssumption DEF TypeOK, NoCommit
  <2> HIDE DEF Produce
  <2>3. UNCHANGED <<mode, queued, pc, msg, attempt, result, cancelled, outcome, handledNow,
                    processed, skipped, errors, restarts, rebalances>>
    BY DEF Produce
  <2> QED BY <2>1, <2>2, <2>3 DEF TypeOK
<1>2. ReadInOrder'
  BY DEF ReadInOrder, Done, Offsets
<1>3. OffsetsEarned'
  BY DEF OffsetsEarned, OffsetEarned, Done, Offsets
<1>4. Deliveries'
  BY DEF Deliveries, Offsets
<1> QED BY <1>1, <1>2, <1>3, <1>4

\* A reader that is sent to its start has nothing behind it but what is done.
LEMMA SeekPasses ==
  ASSUME IInv, SeekToStart, outcome' = outcome, UNCHANGED log
  PROVE  /\ position' \in 0..Len(log)
         /\ skipped' \subseteq Offsets /\ skipped \subseteq skipped'
         /\ \A offset \in Offsets : offset < position' => Done(offset)'
         /\ \A offset \in Offsets : Done(offset) => Done(offset)'
<1>1. /\ Len(log) \in Nat /\ MaxLog \in Nat /\ Len(log) <= MaxLog
      /\ committed # NoCommit => committed \in 0..Len(log)
      /\ skipped \subseteq Offsets
  BY ConsumerAssumption DEF IInv, TypeOK, NoCommit
<1>2. CASE committed # NoCommit
  <2>1. position' = committed /\ skipped' = skipped
    BY <1>2 DEF SeekToStart
  <2> QED BY <1>1, <1>2, <2>1 DEF IInv, OffsetsEarned, OffsetEarned, Done, Offsets
<1>3. CASE committed = NoCommit /\ StartOffset = "earliest"
  <2>1. position' = 0 /\ skipped' = skipped
    BY <1>3 DEF SeekToStart
  <2> QED BY <1>1, <2>1 DEF Done, Offsets
<1>4. CASE committed = NoCommit /\ StartOffset # "earliest"
  <2>1. position' = Len(log) /\ skipped' = skipped \cup 0..(Len(log) - 1)
    BY <1>4 DEF SeekToStart
  <2>2. /\ 0..(Len(log) - 1) \subseteq Offsets
        /\ \A offset \in Offsets : offset < Len(log) => offset \in 0..(Len(log) - 1)
    BY <1>1 DEF Offsets
  <2> QED BY <1>1, <2>1, <2>2 DEF Done
<1> QED BY <1>2, <1>3, <1>4

\* A rebalance allows one more delivery of every message, the one in hand included.
LEMMA RebalanceInvariant ==
  ASSUME IInv, Rebalance
  PROVE  IInv'
<1>1. /\ UNCHANGED <<log, committed, mode, pc, msg, attempt, result, cancelled, outcome,
                     processed, handledNow, errors, restarts>>
      /\ queued' = NoCommit /\ rebalances < MaxRebalances /\ rebalances' = rebalances + 1
      /\ SeekToStart
  BY DEF Rebalance, loop
<1>2. /\ position' \in 0..Len(log)
      /\ skipped' \subseteq Offsets /\ skipped \subseteq skipped'
      /\ \A offset \in Offsets : offset < position' => Done(offset)'
      /\ \A offset \in Offsets : Done(offset) => Done(offset)'
  BY <1>1, SeekPasses
<1>3. rebalances' \in 0..MaxRebalances /\ rebalances \in Nat
  BY <1>1, ConsumerAssumption DEF IInv, TypeOK
<1>4. TypeOK'
  BY <1>1, <1>2, <1>3 DEF IInv, TypeOK
<1>5. ReadInOrder'
  <2>1. pc \in InHand => msg \in Offsets
    BY ConsumerAssumption DEF IInv, TypeOK, InHand, Offsets
  <2> QED BY <1>1, <1>2, <2>1 DEF IInv, ReadInOrder, InHand, Offsets
<1>6. OffsetsEarned'
  BY <1>1, <1>2 DEF IInv, TypeOK, OffsetsEarned, OffsetEarned, NoCommit, Offsets
<1>7. Deliveries'
  <2>1. \A offset \in Offsets :
          handledNow[offset] \in Nat /\ handledNow[offset] <= 1 + rebalances
    BY DEF IInv, TypeOK, Deliveries
  <2>2. pc = "process" =>
          msg \in Offsets /\ handledNow[msg] \in Nat /\ handledNow[msg] <= rebalances
    <3>1. pc = "process" => msg \in Offsets
      BY ConsumerAssumption DEF IInv, TypeOK, Offsets
    <3> QED BY <2>1, <3>1 DEF IInv, Deliveries
  <2>3. pc = "process" =>
          handledNow[msg] + 1 <= rebalances + 1 /\ handledNow[msg] <= rebalances + 1
    BY <2>2, <1>3
  <2> QED BY <1>1, <1>3, <2>1, <2>2, <2>3 DEF Deliveries, Offsets
<1> QED BY <1>4, <1>5, <1>6, <1>7 DEF IInv

\* What was queued had been earned.
LEMMA FlushInvariant ==
  ASSUME IInv, Flush
  PROVE  IInv'
<1> USE DEF IInv, Flush, broker, loop, history, bounds, NoCommit
<1>1. TypeOK'
  BY DEF TypeOK
<1>2. ReadInOrder'
  BY DEF ReadInOrder, Done, Offsets, InHand
<1>3. OffsetsEarned'
  BY DEF OffsetsEarned, OffsetEarned, Done, Offsets
<1>4. Deliveries'
  BY DEF Deliveries, Offsets
<1> QED BY <1>1, <1>2, <1>3, <1>4

-----------------------------------------------------------------------------
(* Run *)

\* The message that is fetched is the first one that is not passed.
LEMMA FetchInvariant ==
  ASSUME IInv, Fetch
  PROVE  IInv'
<1> USE DEF IInv, Fetch, broker, loop, history, bounds
<1>1. TypeOK'
  BY ConsumerAssumption DEF TypeOK, NoCommit
<1>2. ReadInOrder'
  BY ConsumerAssumption DEF TypeOK, ReadInOrder, Done, Offsets, InHand
<1>3. OffsetsEarned'
  BY DEF OffsetsEarned, OffsetEarned, Done, Offsets
<1>4. Deliveries'
  BY ConsumerAssumption DEF TypeOK, Deliveries, Offsets
<1> QED BY <1>1, <1>2, <1>3, <1>4

\* Steps of the loop that only change where it is: it waits, tries again or returns,
\* or the process dies.  None of them lets go of a message and keeps the reader.
LEMMA MoveInvariant ==
  ASSUME IInv,
         \/ FetchFails \/ FetchCancelled \/ FetchTimesOut \/ FetchBackoff
         \/ HandleCancelled \/ CommitBackoff \/ Cancel \/ Crash
  PROVE  IInv'
<1>1. /\ UNCHANGED <<log, committed, mode, queued, position, msg, outcome, processed,
                     handledNow, skipped, restarts, rebalances>>
      /\ \/ pc' \in {"returned", "down"}
         \/ pc' = pc
         \/ pc \in {"fetch", "fetchBackoff"} /\ pc' \in {"fetch", "fetchBackoff"}
         \/ pc = "commitBackoff" /\ pc' = "commit"
  BY DEF FetchFails, FetchCancelled, FetchTimesOut, FetchBackoff, HandleCancelled,
         CommitBackoff, Cancel, Crash, Fails, Goto, RunReturns, Retry,
         broker, loop, history, bounds
<1>2. attempt' \in 0..CommitRetries
  <2>1. attempt' = attempt \/ (attempt < CommitRetries /\ attempt' = attempt + 1)
    BY DEF FetchFails, FetchCancelled, FetchTimesOut, FetchBackoff, HandleCancelled,
           CommitBackoff, Cancel, Crash, Fails, Goto, RunReturns, Retry, AttemptsLeft, loop
  <2> QED BY <2>1, ConsumerAssumption DEF IInv, TypeOK
<1>3. errors' \in 0..MaxErrors
  <2>1. errors' = errors \/ (errors < MaxErrors /\ errors' = errors + 1)
    BY DEF FetchFails, FetchCancelled, FetchTimesOut, FetchBackoff, HandleCancelled,
           CommitBackoff, Cancel, Crash, Fails, bounds
  <2> QED BY <2>1, ConsumerAssumption DEF IInv, TypeOK
<1>4. result' \in {"none", "nil", "error"}
  BY DEF FetchFails, FetchCancelled, FetchTimesOut, FetchBackoff, HandleCancelled,
         CommitBackoff, Cancel, Crash, Goto, RunReturns, Retry, loop, IInv, TypeOK
<1>5. cancelled' \in BOOLEAN
  BY Zenon
  DEF FetchFails, FetchCancelled, FetchTimesOut, FetchBackoff, HandleCancelled,
      CommitBackoff, Cancel, Crash, IInv, TypeOK
<1>6. TypeOK'
  <2>1. /\ pc' \in {"fetch", "fetchBackoff", "process", "commit", "commitBackoff",
                    "returned", "down"}
        /\ pc' \in {"process", "commit", "commitBackoff"} => msg' < Len(log')
    BY <1>1 DEF IInv, TypeOK
  <2> QED BY <1>1, <1>2, <1>3, <1>4, <1>5, <2>1 DEF IInv, TypeOK
<1>7. ReadInOrder'
  BY <1>1 DEF IInv, ReadInOrder, Done, Offsets, InHand
<1>8. OffsetsEarned'
  BY <1>1 DEF IInv, OffsetsEarned, OffsetEarned, Done, Offsets
<1>9. Deliveries'
  BY <1>1 DEF IInv, Deliveries, Offsets
<1> QED BY <1>6, <1>7, <1>8, <1>9 DEF IInv

\* Processing finishes the message in hand, whatever the verdict; only a message whose
\* handler did not fail goes on to the commit.
LEMMA ProcessInvariant ==
  ASSUME IInv, NEW verdict \in {"malformed", "ok", "validation", "failed"},
         ProcessMessage(verdict)
  PROVE  IInv'
<1>1. /\ pc = "process" /\ msg \in Offsets /\ msg < Len(log) /\ msg \in Nat
      /\ UNCHANGED <<log, committed, mode, queued, position, msg, result, cancelled,
                     skipped, errors, restarts, rebalances>>
      /\ outcome' = [outcome EXCEPT ![msg] = verdict]
      /\ \/ /\ pc' = "commit" /\ attempt' = 1
            /\ processed' = processed \cup {msg}
         \/ pc' = "fetch" /\ attempt' = attempt /\ processed' = processed
  BY ConsumerAssumption
  DEF IInv, TypeOK, ProcessMessage, shouldCommit, ToCommit, Goto, broker, bounds, Offsets
<1>2. \/ handledNow' = handledNow
      \/ handledNow' = [handledNow EXCEPT ![msg] = @ + 1]
  BY DEF ProcessMessage
<1>3. /\ outcome' \in [Offsets -> {"none", "malformed", "ok", "validation", "failed"}]
      /\ outcome'[msg] # "none"
      /\ \A offset \in Offsets : Done(offset) => Done(offset)'
      /\ Done(msg)'
  BY <1>1 DEF IInv, TypeOK, Done
<1>4. TypeOK'
  <2>1. handledNow' \in [Offsets -> Nat]
    BY <1>1, <1>2 DEF IInv, TypeOK
  <2>2. attempt' \in 0..CommitRetries
    BY <1>1, ConsumerAssumption DEF IInv, TypeOK
  <2>3. processed' \subseteq Offsets
    BY <1>1 DEF IInv, TypeOK
  <2> QED BY <1>1, <1>3, <2>1, <2>2, <2>3 DEF IInv, TypeOK
<1>5. ReadInOrder'
  BY <1>1, <1>3 DEF IInv, ReadInOrder, InHand, Offsets
<1>6. OffsetsEarned'
  BY <1>1, <1>3 DEF IInv, OffsetsEarned, OffsetEarned, Offsets
<1>7. Deliveries'
  <2>1. \A offset \in Offsets : offset \in Int /\ handledNow[offset] \in Nat
    BY DEF IInv, TypeOK, Offsets
  <2>2. \A offset \in Offsets :
          handledNow'[offset] \in {handledNow[offset],
                                   IF offset = msg THEN handledNow[offset] + 1
                                                   ELSE handledNow[offset]}
    BY <1>1, <1>2 DEF IInv, TypeOK
  <2>3. rebalances \in Nat /\ position \in Int
    BY DEF IInv, TypeOK
  <2>4. \A offset \in Offsets :
          /\ handledNow'[offset] <= 1 + rebalances
          /\ offset >= position => handledNow'[offset] <= rebalances
    BY <1>1, <2>1, <2>2, <2>3 DEF IInv, Deliveries
  <2> QED BY <1>1, <2>4 DEF Deliveries, Offsets
<1> QED BY <1>4, <1>5, <1>6, <1>7 DEF IInv

\* A commit, answered or not, stores the offset after a message that was processed and
\* behind which everything is done.
LEMMA CommitInvariant ==
  ASSUME IInv, Commit \/ CommitFails \/ CommitCancelled \/ CommitTimesOut
  PROVE  IInv'
<1>1. /\ pc = "commit" /\ pc' \in {"fetch", "commitBackoff", "returned"}
      /\ UNCHANGED <<log, mode, position, msg, attempt, cancelled, outcome, processed,
                     handledNow, skipped, restarts, rebalances>>
      /\ result' \in {result, "nil"}
      /\ errors' = errors \/ (errors < MaxErrors /\ errors' = errors + 1)
      /\ StoreOffset \/ UNCHANGED <<committed, queued>>
  BY DEF Commit, CommitFails, CommitCancelled, CommitTimesOut, CommitUnanswered, Fails,
         Goto, RunReturns, history, bounds
<1>2. /\ msg \in Offsets /\ msg \in Nat /\ Len(log) \in Nat /\ msg + 1 \in 1..Len(log)
      /\ msg \in processed /\ \A offset \in Offsets : offset < msg + 1 => Done(offset)
  <2>1. /\ msg \in Offsets /\ msg \in Nat /\ Len(log) \in Nat /\ msg + 1 \in 1..Len(log)
    BY <1>1, ConsumerAssumption DEF IInv, TypeOK, Offsets
  <2>2. Done(msg) /\ msg \in processed /\ \A offset \in Offsets : offset < msg => Done(offset)
    BY <1>1 DEF IInv, ReadInOrder, InHand
  <2>3. \A offset \in Offsets : offset < msg + 1 => offset < msg \/ offset = msg
    BY <2>1 DEF Offsets
  <2> QED BY <2>1, <2>2, <2>3
<1>3. /\ committed' \in {committed, msg + 1}
      /\ queued' \in {queued, msg + 1}
      /\ queued' # queued => mode = "async"
  BY <1>1 DEF StoreOffset
<1>4. TypeOK'
  <2>1. errors' \in 0..MaxErrors
    BY <1>1, ConsumerAssumption DEF IInv, TypeOK
  <2>2. /\ committed' \in {NoCommit} \cup 0..Len(log)
        /\ queued' \in {NoCommit} \cup 1..Len(log)
        /\ queued' # NoCommit => mode = "async"
    BY <1>2, <1>3 DEF IInv, TypeOK
  <2> QED BY <1>1, <2>1, <2>2 DEF IInv, TypeOK
<1>5. ReadInOrder'
  <2>1. \A offset \in Offsets : Done(offset)' <=> Done(offset)
    BY <1>1 DEF Done
  <2> QED BY <1>1, <1>2, <2>1 DEF IInv, ReadInOrder, InHand, Offsets
<1>6. OffsetsEarned'
  <2>1. \A offset \in Offsets : Done(offset)' <=> Done(offset)
    BY <1>1 DEF Done
  <2>2. OffsetEarned(msg + 1)
    BY <1>2 DEF OffsetEarned
  <2>3. OffsetEarned(committed) /\ OffsetEarned(queued)
    BY DEF IInv, OffsetsEarned
  <2>4. CASE committed' = committed
    BY <1>1, <1>3, <2>1, <2>2, <2>3, <2>4 DEF OffsetsEarned, OffsetEarned, Offsets
  <2>5. CASE committed' = msg + 1
    BY <1>1, <1>3, <2>1, <2>2, <2>3, <2>5 DEF OffsetsEarned, OffsetEarned, Offsets
  <2> QED BY <1>3, <2>4, <2>5
<1>7. Deliveries'
  BY <1>1 DEF IInv, Deliveries, Offsets
<1> QED BY <1>4, <1>5, <1>6, <1>7 DEF IInv

-----------------------------------------------------------------------------
(* The process *)

\* A new process reads from what was committed and has counted nothing.
LEMMA RestartInvariant ==
  ASSUME IInv, Restart
  PROVE  IInv'
<1>1. /\ UNCHANGED <<log, committed, mode, outcome, processed, errors, rebalances>>
      /\ pc' = "fetch" /\ msg' = 0 /\ attempt' = 0 /\ result' = "none" /\ cancelled' = FALSE
      /\ handledNow' = [offset \in Offsets |-> 0] /\ queued' = NoCommit
      /\ restarts < MaxRestarts /\ restarts' = restarts + 1
      /\ SeekToStart
  BY DEF Restart
<1>2. /\ position' \in 0..Len(log)
      /\ skipped' \subseteq Offsets /\ skipped \subseteq skipped'
      /\ \A offset \in Offsets : offset < position' => Done(offset)'
      /\ \A offset \in Offsets : Done(offset) => Done(offset)'
  BY <1>1, SeekPasses
<1>3. TypeOK'
  <2>1. restarts' \in 0..MaxRestarts /\ msg' \in 0..MaxLog /\ attempt' \in 0..CommitRetries
    BY <1>1, ConsumerAssumption DEF IInv, TypeOK
  <2>2. handledNow' \in [Offsets -> Nat]
    BY <1>1
  <2> QED BY <1>1, <1>2, <2>1, <2>2 DEF IInv, TypeOK
<1>4. ReadInOrder'
  BY <1>1, <1>2 DEF ReadInOrder, InHand, Offsets
<1>5. OffsetsEarned'
  BY <1>1, <1>2 DEF IInv, TypeOK, OffsetsEarned, OffsetEarned, NoCommit, Offsets
<1>6. Deliveries'
  BY <1>1 DEF IInv, TypeOK, Deliveries, Offsets
<1> QED BY <1>3, <1>4, <1>5, <1>6 DEF IInv

\* Every step of the consumer and of the broker preserves the invariant.
LEMMA NextInvariant ==
  ASSUME IInv, [Next]_vars
  PROVE  IInv'
<1>1. CASE Produce BY <1>1, ProduceInvariant
<1>2. CASE Rebalance BY <1>2, RebalanceInvariant
<1>3. CASE Flush BY <1>3, FlushInvariant
<1>4. CASE FetchStep BY <1>4, FetchInvariant, MoveInvariant DEF FetchStep
<1>5. CASE Process BY <1>5, ProcessInvariant, MoveInvariant DEF Process
<1>6. CASE CommitStep BY <1>6, CommitInvariant, MoveInvariant DEF CommitStep
<1>7. CASE Cancel BY <1>7, MoveInvariant
<1>8. CASE Crash BY <1>8, MoveInvariant
<1>9. CASE Restart BY <1>9, RestartInvariant
<1>10. CASE UNCHANGED vars
  BY <1>10
  DEF IInv, TypeOK, ReadInOrder, OffsetsEarned, OffsetEarned, Deliveries, Done, Offsets,
      vars, broker, loop, history, bounds
<1> QED
  BY <1>1, <1>2, <1>3, <1>4, <1>5, <1>6, <1>7, <1>8, <1>9, <1>10 DEF Next

-----------------------------------------------------------------------------
(* The theorems *)

\* The inductive invariant holds in every reachable state.
THEOREM Invariance == Spec => []IInv
<1>1. IInv /\ [Next]_vars => IInv'
  BY NextInvariant
<1> QED BY <1>1, InitInvariant, PTL DEF Spec

\* The reader stays within the partition and a commit within its attempts
\* (consumer.go:115, 216-245).
THEOREM TypeCorrect == Spec => []TypeOK
<1>1. IInv => TypeOK BY DEF IInv
<1> QED BY <1>1, Invariance, PTL

\* At-least-once processing: nothing is committed that has not been processed, for any
\* number of crashes, rebalances and lost answers (consumer.go:132-153).
THEOREM AtLeastOnce == Spec => []CommittedAreProcessed
<1>1. IInv => CommittedAreProcessed
  <2> SUFFICES ASSUME IInv, NEW offset \in 0..(committed - 1)
               PROVE  Done(offset)
    BY DEF CommittedAreProcessed, Done
  <2>1. offset \in Offsets /\ offset < committed
    BY ConsumerAssumption DEF IInv, TypeOK, NoCommit, Offsets
  <2> QED BY <2>1 DEF IInv, OffsetsEarned, OffsetEarned
<1> QED BY <1>1, Invariance, PTL

\* The message of a failed handler is never the last one that is committed
\* (consumer.go:144-148, 207-208).
THEOREM FailedIsWithheld == Spec => []OffsetFollowsProcessed
<1>1. IInv => OffsetFollowsProcessed
  BY DEF IInv, OffsetsEarned, OffsetEarned, OffsetFollowsProcessed
<1> QED BY <1>1, Invariance, PTL

\* One process counts a message at most once, and once more for each rebalance
\* (consumer.go:216-245).
THEOREM CountedOnce == Spec => []CountedOncePerDelivery
<1>1. IInv => CountedOncePerDelivery
  BY DEF IInv, Deliveries, CountedOncePerDelivery
<1> QED BY <1>1, Invariance, PTL

=============================================================================
