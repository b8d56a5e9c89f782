------------------------------ MODULE Pipeline ------------------------------
(***************************************************************************)
(* An event on its way from the decoder to the list of top queries: the    *)
(* Kafka handler that cmd/app/main.go puts together from the stop-list,    *)
(* the limiter and the aggregator, while the gRPC handlers change the      *)
(* stop-list and the aggregator's goroutine rebuilds the list.             *)
(*                                                                         *)
(* The stop-list is an atomic set here, which StopList shows it to be.  Of *)
(* the aggregator there are the queries it has counted in the newer and in *)
(* the older half of the window, and the queries of its cache; its counts  *)
(* and the ring are the business of Aggregator.  Each call of the handler  *)
(* is a step: a stop word may be added or removed between any two.         *)
(***************************************************************************)
EXTENDS Normalizer

CONSTANTS
  Texts,           \* query texts of messages
  WordRequests,    \* texts in requests to add or remove a stop word
  InitialWords,    \* texts of the configuration
  MaxQueryRunes,   \* the limit for queries
  MaxWordRunes     \* the limit for stop words, 256 in the code

ASSUME PipelineAssumption ==
  /\ Texts \cup WordRequests \cup InitialWords \subseteq Seq(Runes)
  /\ MaxQueryRunes \in Nat \ {0} /\ MaxWordRunes \in Nat \ {0}

VARIABLES
  words,       \* the stop-list
  call,        \* the message that is being processed
  recent,      \* queries counted in the newer half of the window
  older,       \* queries counted in the older half
  top,         \* the queries of the cached list
  cancelled    \* the context of the service is done

vars == <<words, call, recent, older, top, cancelled>>

\* `blocked' is a history variable: the words that have been in the stop-list all
\* the time since the message was received.
NoMessage == [pc |-> "idle", query |-> <<>>, blocked |-> {}]

-----------------------------------------------------------------------------
(* The message *)

\* Decode: the payload is no JSON, lacks a field, or has a timestamp that does not
\* parse ("json", "event_id", "timestamp"), or its query is blank.  Which of the errors
\* is returned does not matter to the consumer.
Rejected(query, fault) == fault # "none" \/ TrimSpace(query) = <<>>

\* A rejected payload is done with; the query of any other goes on as it was sent.
Decode(query, fault) ==
  /\ call.pc = "idle"
  /\ call' = IF Rejected(query, fault) THEN NoMessage
             ELSE [pc |-> "contains", query |-> query, blocked |-> words]
  /\ UNCHANGED <<words, recent, older, top, cancelled>>

\* stopWords.Contains: a blocked query is done with.
Contains ==
  /\ call.pc = "contains"
  /\ call' = IF normalize(call.query) \in words THEN NoMessage
             ELSE [call EXCEPT !.pc = "allow"]
  /\ UNCHANGED <<words, recent, older, top, cancelled>>

\* The consumer's Run returns when the handler reports the context error.
Abort == call' = [NoMessage EXCEPT !.pc = "returned"]

\* limiter.Allow lets everything pass but a context that is done.
Allow ==
  /\ call.pc = "allow"
  /\ IF cancelled THEN Abort ELSE call' = [call EXCEPT !.pc = "add"]
  /\ UNCHANGED <<words, recent, older, top, cancelled>>

\* Fault: a query that is too long is counted all the same.
AcceptedTooLong(normalized, time) == ~cancelled /\ time = "current" /\ normalized.err # "empty"

\* validateAndNormalize
Accepted(normalized, time) == ~cancelled /\ time = "current" /\ normalized.err = "none"

\* agg.Add of an event whose time is "current", "expired" or "invalid".  The handler
\* answers nil to a validation error too, so the message is done with.
Add(time) ==
  LET normalized == NormalizeQuery(call.query, MaxQueryRunes)
  IN  /\ call.pc = "add"
      /\ recent' = IF Accepted(normalized, time) THEN recent \cup {normalized.text} ELSE recent
      /\ IF cancelled THEN Abort ELSE call' = NoMessage
      /\ UNCHANGED <<words, older, top, cancelled>>

-----------------------------------------------------------------------------
(* The stop-list handlers *)

\* Fault: the handler hands on the text of the request.
StopWordUnnormalized(request) == Normal(request)

\* validateStopWordRequest, and normalize in the manager.
StopWord(request) ==
  LET validated == NormalizeQuery(TrimSpace(request), MaxWordRunes)
  IN  IF validated.err = "none" THEN Normal(normalize(validated.text)) ELSE validated

\* A request that is invalid is answered with an error.
AddStopWord(request) ==
  LET word == StopWord(request)
  IN  /\ word.err = "none" /\ word.text # <<>>
      /\ words' = words \cup {word.text}
      /\ UNCHANGED <<call, recent, older, top, cancelled>>

RemoveStopWord(request) ==
  LET word == StopWord(request)
  IN  /\ word.err = "none" /\ word.text # <<>>
      /\ words' = words \ {word.text}
      /\ call' = [call EXCEPT !.blocked = @ \ {word.text}]
      /\ UNCHANGED <<recent, older, top, cancelled>>

-----------------------------------------------------------------------------
(* The aggregator *)

\* Time passes: what was counted in the older half of the window expires.
Slide ==
  /\ older' = recent
  /\ recent' = {}
  /\ UNCHANGED <<words, call, top, cancelled>>

\* Fault: without new events the list is left as it is.
RebuildTopDirtyOnly ==
  /\ ~cancelled
  /\ recent # {}
  /\ top' = recent \cup older
  /\ UNCHANGED <<words, call, recent, older, cancelled>>

RebuildTop ==
  /\ ~cancelled
  /\ top' = recent \cup older
  /\ UNCHANGED <<words, call, recent, older, cancelled>>

Cancel ==
  /\ ~cancelled
  /\ cancelled' = TRUE
  /\ UNCHANGED <<words, call, recent, older, top>>

\* buildSet
Init ==
  /\ words = {normalize(word) : word \in InitialWords} \ {<<>>}
  /\ call = NoMessage
  /\ recent = {} /\ older = {} /\ top = {}
  /\ cancelled = FALSE

Faults == {"none", "json", "event_id", "timestamp"}

HandleMessage ==
  \/ \E query \in Texts, fault \in Faults : Decode(query, fault)
  \/ Contains
  \/ Allow
  \/ \E time \in {"current", "expired", "invalid"} : Add(time)

Next ==
  \/ HandleMessage
  \/ \E request \in WordRequests : AddStopWord(request) \/ RemoveStopWord(request)
  \/ Slide \/ RebuildTop \/ Cancel

Spec == Init /\ [][Next]_vars

(***************************************************************************)
(* Time passes and the ticker of the rebuild loop keeps firing.  Messages  *)
(* and requests may stop at any point.                                     *)
(***************************************************************************)
FairSpec == Spec /\ WF_vars(Slide) /\ WF_vars(RebuildTop)

-----------------------------------------------------------------------------
(* Properties *)

\* The normal forms of the texts that can be counted.
Forms ==
  {form.text : form \in {f \in {NormalizeQuery(text, MaxQueryRunes) : text \in Texts} :
                            f.err = "none"}}

\* What is counted and listed are normal forms of queries, never a raw text
\* (aggregator.go:112-139).
TypeOK ==
  /\ words \subseteq Seq(Runes)
  /\ call \in [pc : {"idle", "contains", "allow", "add", "returned"},
               query : Texts \cup {<<>>}, blocked : SUBSET words]
  /\ recent \subseteq Forms /\ older \subseteq Forms /\ top \subseteq Forms
  /\ cancelled \in BOOLEAN

\* For every text that reaches the handler, the loop of NormalizeQuery with its
\* running length check computes what a normal form is: the letters in lower case,
\* single spaces between them, or the right error (normalizer.go:17-66).
NormalizesRight ==
  call.pc # "idle" /\ call.pc # "returned" =>
    IsNormalization(NormalizeQuery(call.query, MaxQueryRunes), call.query, MaxQueryRunes)

\* A stop word is a fixed point of normalize, so that a query can match it, and of
\* NormalizeQuery, so that a later request for the same text can remove it; the one
\* exception is a word of the configuration, whose length nothing checks, that is too
\* long for a request (search_trends.go:180-196, stoplist.go:28-32, 94-141).
StopWordsMatchable ==
  \A word \in words :
    /\ normalize(word) = word
    /\ \/ NormalizeQuery(word, MaxWordRunes) = Normal(word)
       \/ /\ NormalizeQuery(word, MaxWordRunes) = Failed("tooLong")
          /\ word \in {normalize(initial) : initial \in InitialWords}

\* A query that is blocked all the time from the receipt of its message on is not
\* counted (README "Stop-list rejects blocked queries.", "normalized before
\* matching"; main.go:94-115).
BlockedIsNotCounted == [][(recent' \ recent) \cap call.blocked = {}]_vars

\* A query that stays blocked leaves the list in the end: events that were checked
\* before, or counted before, expire (main.go:94-115, aggregator.go:194-203).
BlockedWordDisappears ==
  \A query \in Forms : <>[](query \in words) => <>[](query \notin top \/ cancelled)

=============================================================================
