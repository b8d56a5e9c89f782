------------------------------ MODULE Consumer ------------------------------
(***************************************************************************)
(* Consumer of internal/kafka: the loop that fetches a message, processes  *)
(* it and commits its offset, with the retries, the context checks and the *)
(* ways in which Run returns.                                              *)
(*                                                                         *)
(* The broker and the kafka-go reader are external: one partition, a       *)
(* committed offset of the group that survives restarts, and a read        *)
(* position that does not.  A commit that fails may have reached the       *)
(* broker; a rebalance sends the reader back to the committed offset; the  *)
(* process may crash between any two steps.                                *)
(*                                                                         *)
(* With commit_interval_ms 0 CommitMessages waits for the broker.  With a  *)
(* longer interval it only queues the offset, which the reader sends when  *)
(* the interval is over; a rebalance or a crash may be faster.             *)
(***************************************************************************)
EXTENDS Integers, Sequences

CONSTANTS
  StartOffset,      \* "latest" or "earliest": where to read without a commit
  CommitModes,      \* commit_interval_ms: "sync" for 0, "async" for more
  CommitRetries,    \* attempts of commitWithRetry
  HandlerResults,   \* what the handler may return: "ok", "validation", "failed"
  MaxLog,           \* bound: messages produced
  MaxErrors,        \* bound: failed fetches and commits
  MaxRestarts,      \* bound: times the service is started again
  MaxRebalances     \* bound: rebalances of the consumer group

ASSUME ConsumerAssumption ==
  /\ StartOffset \in {"latest", "earliest"}
  /\ CommitModes \subseteq {"sync", "async"}
  /\ CommitRetries \in Nat \ {0}
  /\ HandlerResults \subseteq {"ok", "validation", "failed"}
  /\ {MaxLog, MaxErrors, MaxRestarts, MaxRebalances} \subseteq Nat

\* The group has not committed anything.
NoCommit == -1

VARIABLES
  log,         \* the messages of the partition, "event" or "malformed"
  committed,   \* the next offset of the group, or NoCommit
  mode,        \* one of CommitModes
  queued,      \* the offset that an asynchronous reader has yet to send, or NoCommit
  position,    \* the next offset the reader will fetch
  pc,          \* where Run is
  msg,         \* the offset of the message it has in hand
  attempt,     \* of commitWithRetry
  result,      \* what Run returned: "none" (yet), "nil" or "error"
  cancelled,   \* the context of the service is done
  outcome,     \* history: what became of each offset when it was last delivered
  processed,   \* history: offsets that were ever handled or discarded
  handledNow,  \* history: how often this process handled each offset
  skipped,     \* history: offsets that a start at "latest" passed over
  errors, restarts, rebalances   \* counters for the bounds

broker == <<log, committed, mode, queued, position>>
loop == <<pc, msg, attempt, result>>
history == <<outcome, processed, handledNow, skipped>>
bounds == <<errors, restarts, rebalances>>
vars == <<broker, loop, cancelled, history, bounds>>

Offsets == 0..(MaxLog - 1)

-----------------------------------------------------------------------------
(* The broker *)

Produce ==
  /\ Len(log) < MaxLog
  /\ \E message \in {"event", "malformed"} : log' = Append(log, message)
  /\ UNCHANGED <<committed, mode, queued, position, loop, cancelled, history, bounds>>

\* Where the reader starts: at the committed offset, or at the configured end.
SeekToStart ==
  IF committed # NoCommit
  THEN position' = committed /\ UNCHANGED skipped
  ELSE IF StartOffset = "earliest"
  THEN position' = 0 /\ UNCHANGED skipped
  ELSE position' = Len(log) /\ skipped' = skipped \cup 0..(Len(log) - 1)

\* Offsets that were not sent in time are lost with the generation of the group.
Rebalance ==
  /\ pc # "down"
  /\ rebalances < MaxRebalances
  /\ SeekToStart
  /\ queued' = NoCommit
  /\ rebalances' = rebalances + 1
  /\ UNCHANGED <<log, committed, mode, loop, cancelled, outcome, processed, handledNow,
                 errors, restarts>>

\* The reader sends the offset it has queued; if that fails it keeps it.
Flush ==
  /\ pc # "down"
  /\ queued # NoCommit
  /\ committed' = queued
  /\ queued' = NoCommit
  /\ UNCHANGED <<log, mode, position, loop, cancelled, history, bounds>>

-----------------------------------------------------------------------------
(* Run *)

Goto(label) == pc' = label /\ UNCHANGED <<msg, attempt, result>>

RunReturns(value) == pc' = "returned" /\ result' = value /\ UNCHANGED <<msg, attempt>>

Fails == errors < MaxErrors /\ errors' = errors + 1 /\ UNCHANGED <<restarts, rebalances>>

\* FetchMessage returns the next message.
Fetch ==
  /\ pc = "fetch"
  /\ position < Len(log)
  /\ msg' = position
  /\ position' = position + 1
  /\ pc' = "process"
  /\ UNCHANGED <<log, committed, mode, queued, attempt, result, cancelled, history, bounds>>

\* FetchMessage fails: sleep, then fetch again.
FetchFails ==
  /\ pc = "fetch"
  /\ Fails
  /\ Goto("fetchBackoff")
  /\ UNCHANGED <<broker, cancelled, history>>

\* Fault: the error of the context is retried like any other.
FetchCancelledRetries ==
  /\ pc = "fetch"
  /\ cancelled
  /\ Goto("fetchBackoff")
  /\ UNCHANGED <<broker, cancelled, history, bounds>>

\* FetchMessage returns the error of the context.
FetchCancelled ==
  /\ pc = "fetch"
  /\ cancelled
  /\ RunReturns("nil")
  /\ UNCHANGED <<broker, cancelled, history, bounds>>

\* FetchMessage reports a timeout of its own, which isContextError takes for one of
\* the context: Run returns although the service goes on.
FetchTimesOut ==
  /\ pc = "fetch"
  /\ Fails
  /\ RunReturns("nil")
  /\ UNCHANGED <<broker, cancelled, history>>

\* sleep after a failed fetch: the timer fires, or the context ends it.
FetchBackoff ==
  /\ pc = "fetchBackoff"
  /\ \/ Goto("fetch")
     \/ cancelled /\ RunReturns("nil")
  /\ UNCHANGED <<broker, cancelled, history, bounds>>

ToCommit == pc' = "commit" /\ attempt' = 1 /\ UNCHANGED <<msg, result>>

\* What may come of the message in hand: the decoder rejects it, or the handler
\* accepts it, answers with a validation error, or fails.
Verdicts == IF log[msg + 1] = "malformed" THEN {"malformed"} ELSE HandlerResults

\* Fault: a malformed payload is skipped without a commit.
shouldCommitDecoded(verdict) == verdict \in {"ok", "validation"}

\* Fault: the message of a failed handler is committed all the same.
shouldCommitAlways(verdict) == TRUE

\* The first result of processMessage: invalid messages are discarded for good, that
\* of a failed handler is not committed, and the loop goes on.
shouldCommit(verdict) == verdict # "failed"

\* processMessage, and what Run does next.
ProcessMessage(verdict) ==
  /\ pc = "process"
  /\ verdict \in Verdicts
  /\ outcome' = [outcome EXCEPT ![msg] = verdict]
  /\ processed' = IF verdict = "failed" THEN processed ELSE processed \cup {msg}
  /\ handledNow' = IF verdict = "ok" THEN [handledNow EXCEPT ![msg] = @ + 1] ELSE handledNow
  /\ IF shouldCommit(verdict) THEN ToCommit ELSE Goto("fetch")
  /\ UNCHANGED <<broker, cancelled, skipped, bounds>>

\* Fault: the error of the context does not keep the message from being committed.
HandleCancelledCommits ==
  /\ pc = "process"
  /\ log[msg + 1] = "event"
  /\ cancelled
  /\ ToCommit
  /\ UNCHANGED <<broker, cancelled, history, bounds>>

\* The handler returns the error of the context.
HandleCancelled ==
  /\ pc = "process"
  /\ log[msg + 1] = "event"
  /\ cancelled
  /\ RunReturns("nil")
  /\ UNCHANGED <<broker, cancelled, history, bounds>>

\* The broker stores the offset after the message in hand, or the reader queues it
\* behind the others, of which it will send the highest.
StoreOffset ==
  \/ mode = "sync" /\ committed' = msg + 1 /\ UNCHANGED queued
  \/ /\ mode = "async"
     /\ queued' = IF msg + 1 > queued THEN msg + 1 ELSE queued
     /\ UNCHANGED committed

\* A commit whose answer is lost.  Queueing an offset cannot fail.
CommitUnanswered ==
  /\ pc = "commit"
  /\ mode = "sync"
  /\ Fails
  /\ StoreOffset \/ UNCHANGED <<committed, queued>>
  /\ UNCHANGED <<log, mode, position, cancelled, history>>

Commit ==
  /\ pc = "commit"
  /\ StoreOffset
  /\ Goto("fetch")
  /\ UNCHANGED <<log, mode, position, cancelled, history, bounds>>

CommitFails == CommitUnanswered /\ Goto("commitBackoff")

\* As FetchTimesOut.
CommitTimesOut == CommitUnanswered /\ RunReturns("nil")

CommitCancelled ==
  /\ pc = "commit"
  /\ cancelled
  /\ StoreOffset \/ UNCHANGED <<committed, queued>>
  /\ RunReturns("nil")
  /\ UNCHANGED <<log, mode, position, cancelled, history, bounds>>

\* Fault: one attempt too many.
AttemptsLeftOneMore == attempt <= CommitRetries

AttemptsLeft == attempt < CommitRetries

\* Fault: the retry of a commit processes the message again.
RetryProcessing == Goto("process")

Retry == pc' = "commit" /\ attempt' = attempt + 1 /\ UNCHANGED <<msg, result>>

\* sleep after a failed commit, the last one too; then the next attempt or the error.
CommitBackoff ==
  /\ pc = "commitBackoff"
  /\ \/ AttemptsLeft /\ Retry
     \/ ~AttemptsLeft /\ RunReturns("error")
     \/ cancelled /\ RunReturns("nil")
  /\ UNCHANGED <<broker, cancelled, history, bounds>>

-----------------------------------------------------------------------------
(* The process *)

\* SIGTERM, or an error of another part of the service.
Cancel ==
  /\ pc # "down"
  /\ ~cancelled
  /\ cancelled' = TRUE
  /\ UNCHANGED <<broker, loop, history, bounds>>

Crash ==
  /\ pc # "down"
  /\ Goto("down")
  /\ UNCHANGED <<broker, cancelled, history, bounds>>

\* A process that crashed, or left because of a signal or an error, is started anew.
Restart ==
  /\ pc = "down" \/ (pc = "returned" /\ (cancelled \/ result = "error"))
  /\ restarts < MaxRestarts
  /\ SeekToStart
  /\ pc' = "fetch" /\ msg' = 0 /\ attempt' = 0 /\ result' = "none"
  /\ cancelled' = FALSE
  /\ handledNow' = [offset \in Offsets |-> 0]
  /\ queued' = NoCommit
  /\ restarts' = restarts + 1
  /\ UNCHANGED <<log, committed, mode, outcome, processed, errors, rebalances>>

Init ==
  /\ log = <<>> /\ committed = NoCommit /\ position = 0
  /\ mode \in CommitModes /\ queued = NoCommit
  /\ pc = "fetch" /\ msg = 0 /\ attempt = 0 /\ result = "none"
  /\ cancelled = FALSE
  /\ outcome = [offset \in Offsets |-> "none"]
  /\ handledNow = [offset \in Offsets |-> 0]
  /\ processed = {} /\ skipped = {}
  /\ errors = 0 /\ restarts = 0 /\ rebalances = 0

Process ==
  \/ \E verdict \in {"malformed", "ok", "validation", "failed"} : ProcessMessage(verdict)
  \/ HandleCancelled

CommitStep == Commit \/ CommitFails \/ CommitCancelled \/ CommitTimesOut \/ CommitBackoff

FetchStep == Fetch \/ FetchFails \/ FetchCancelled \/ FetchTimesOut \/ FetchBackoff

Next ==
  \/ Produce \/ Rebalance \/ Flush
  \/ FetchStep \/ Process \/ CommitStep
  \/ Cancel \/ Crash \/ Restart

Spec == Init /\ [][Next]_vars

(***************************************************************************)
(* The loop takes its steps while it can.  FetchMessage chooses at random  *)
(* between a message and a context that is done, so it does not overlook   *)
(* the context forever.  The reader sends what it has queued when its      *)
(* interval is over.  Nobody has to restart the service.                   *)
(***************************************************************************)
Fairness ==
  /\ WF_vars(FetchStep) /\ WF_vars(Process) /\ WF_vars(CommitStep)
  /\ SF_vars(FetchCancelled) /\ WF_vars(Flush)

FairSpec == Spec /\ Fairness

-----------------------------------------------------------------------------
(* Properties *)

\* The reader never runs past the end of the partition, a message in hand is one of
\* the partition, and a commit is tried at most CommitRetries times
\* (consumer.go:115, 216-245).
TypeOK ==
  /\ log \in Seq({"event", "malformed"}) /\ Len(log) <= MaxLog
  /\ committed \in {NoCommit} \cup 0..Len(log)
  /\ mode \in CommitModes /\ queued \in {NoCommit} \cup 1..Len(log)
  /\ queued # NoCommit => mode = "async"
  /\ position \in 0..Len(log)
  /\ pc \in {"fetch", "fetchBackoff", "process", "commit", "commitBackoff", "returned", "down"}
  /\ msg \in 0..MaxLog /\ attempt \in 0..CommitRetries
  /\ pc \in {"process", "commit", "commitBackoff"} => msg < Len(log)
  /\ result \in {"none", "nil", "error"}
  /\ cancelled \in BOOLEAN
  /\ outcome \in [Offsets -> {"none", "malformed", "ok", "validation", "failed"}]
  /\ handledNow \in [Offsets -> Nat]
  /\ processed \subseteq Offsets /\ skipped \subseteq Offsets
  /\ errors \in 0..MaxErrors /\ restarts \in 0..MaxRestarts /\ rebalances \in 0..MaxRebalances

\* An offset is committed only after every message before it was processed (handled,
\* deliberately discarded, or failed in the handler) across crashes, rebalances, a
\* cancelled context and commits whose answer is lost: at-least-once processing.
\* A failed message counts as processed, because the commit of a later one covers
\* it (consumer.go:132-153).
CommittedAreProcessed ==
  \A offset \in 0..(committed - 1) : offset \in skipped \/ outcome[offset] # "none"

\* The commit of a message whose handler failed is withheld: the offset of the group
\* always follows one that was handled or deliberately discarded, also when offsets
\* are queued, lost and repeated.  So a failed message is passed over only with a
\* later one that was processed, and the last one is delivered again (README "Manual
\* Kafka commit after successful processing or intentional invalid-message discard";
\* consumer.go:144-148, 207-208).
OffsetFollowsProcessed == committed > 0 => committed - 1 \in processed

\* One process counts an event more than once only when a rebalance delivered it
\* again: retries of the commit never repeat the processing (consumer.go:216-245).
CountedOncePerDelivery == \A offset \in Offsets : handledNow[offset] <= 1 + rebalances

Stopped == pc \in {"returned", "down"}

\* Every message whose handler does not fail is eventually committed while the loop
\* runs: neither a malformed one nor failed fetches and commits hold up those behind
\* it (consumer.go:114-154, README "invalid JSON: log, commit, continue").
EveryMessageCommitted ==
  \A offset \in Offsets :
    (offset < Len(log)) ~> \/ committed > offset \/ offset \in skipped
                           \/ outcome[offset] = "failed" \/ Stopped

\* Once the context is done Run returns, wherever it was (consumer.go:116-128,
\* 133-151, 332-342).
CancelStopsRun == cancelled ~> Stopped

=============================================================================
