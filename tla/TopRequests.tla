----------------------------- MODULE TopRequests -----------------------------
(***************************************************************************)
(* GetTop of the gRPC service: from the limit of a request, an unsigned    *)
(* integer of fixed width, to the items of the answer, read from a list    *)
(* that buildTop has made.                                                 *)
(*                                                                         *)
(* The width of a limit is 32 bits and that of an int 32 or 64, depending  *)
(* on the platform; here they are small, so that a limit may still be too  *)
(* large for an int.                                                       *)
(***************************************************************************)
EXTENDS TopHeap

CONSTANTS
  LimitBits,    \* width of the limit of a request
  IntWidths     \* widths of int on the platforms

ASSUME WidthAssumption == LimitBits \in Nat \ {0} /\ IntWidths \subseteq Nat \ {0}

VARIABLE answer   \* of the last request, with the request and the width of int

vars == <<heapVars, answer>>

NoAnswer == [code |-> "none", items |-> <<>>, limit |-> 0, width |-> 0]

maxInt(width) == 2^(width - 1) - 1

\* The conversion of an unsigned integer to int wraps around.
ToInt(n, width) ==
  LET low == n % 2^width IN IF low > maxInt(width) THEN low - 2^width ELSE low

\* The code of toStatusError for the error of a context that is done.
StatusCode(context) == IF context = "canceled" THEN "Canceled" ELSE "DeadlineExceeded"

\* The items of GetTop in the aggregator.
Snapshot(limit) == FirstItems(items, normalizeLimit(limit, DefaultLimit, MaxLimit))

\* The loop of the handler leaves out the items whose count is not positive.  (The same
\* as SelectSeq, about which nothing can be proved.)
PositiveOnly(list) ==
  LET positive == {i \in 1..Len(list) : list[i].count > 0}
      Place(i) == Cardinality({j \in positive : j <= i})
  IN  [k \in 1..Cardinality(positive) |-> list[CHOOSE i \in positive : Place(i) = k]]

Answer(code, listed, limit, width) ==
  answer' = [code |-> code, items |-> listed, limit |-> limit, width |-> width]

\* Fault: the limit is converted without a look at its size.
GetTopUnchecked(limit, width, context) ==
  /\ pc = "returned"
  /\ \/ context # "live" /\ Answer(StatusCode(context), <<>>, limit, width)
     \/ /\ context = "live"
        /\ Answer("OK", PositiveOnly(Snapshot(ToInt(limit, width))), limit, width)
  /\ UNCHANGED heapVars

GetTop(limit, width, context) ==
  LET tooLarge == limit > maxInt(width)
  IN  /\ pc = "returned"
      /\ \/ tooLarge /\ Answer("InvalidArgument", <<>>, limit, width)
         \/ /\ ~tooLarge /\ context # "live"
            /\ Answer(StatusCode(context), <<>>, limit, width)
         \/ /\ ~tooLarge /\ context = "live"
            /\ Answer("OK", PositiveOnly(Snapshot(ToInt(limit, width))), limit, width)
      /\ UNCHANGED heapVars

Init == HeapInit /\ answer = NoAnswer

Next ==
  \/ HeapNext /\ UNCHANGED answer
  \/ \E limit \in 0..(2^LimitBits - 1), width \in IntWidths,
        context \in {"live", "canceled", "expired"} : GetTop(limit, width, context)

Spec == Init /\ [][Next]_vars

-----------------------------------------------------------------------------
(* Properties *)

\* How many items a request for `limit' may expect.
Expected(limit) == IF limit = 0 THEN DefaultLimit ELSE Smaller(limit, MaxLimit)

\* An answer has the best queries, as many as were asked for, from the counters to
\* the wire: 0 is the default, any number above the maximum the maximum, unless
\* the platform cannot represent it, which is an error and never a shorter list
\* (search_trends.go:58-89, aggregator.go:148-169, 272-281).
AnswersAreTop ==
  /\ answer.code = "OK" => IsTopOf(answer.items, counters, Expected(answer.limit))
  /\ answer.code # "none" /\ answer.limit > maxInt(answer.width)
       => answer.code = "InvalidArgument"

==============================================================================
