------------------------------ MODULE StopSet ------------------------------
(***************************************************************************)
(* What the stop-list promises its callers: a set of words on which every  *)
(* call takes effect in one instant between its start and its return, and  *)
(* is answered from the set of that instant.                               *)
(***************************************************************************)
EXTENDS FiniteSets

CONSTANTS Words, NoWord, Callers, Initial

VARIABLES
  set,        \* the blocked words
  requests    \* for each caller: its request, and the answer once it has one

vars == <<set, requests>>

Requests == {"add", "remove", "contains"} \X Words \cup {<<"list", NoWord>>}

NoRequest == [phase |-> "idle"]

Init ==
  /\ set = Initial
  /\ requests = [c \in Callers |-> NoRequest]

Call(c) ==
  /\ requests[c].phase = "idle"
  /\ \E request \in Requests :
       requests' = [requests EXCEPT ![c] =
         [phase |-> "called", op |-> request[1], word |-> request[2]]]
  /\ UNCHANGED set

\* The answer `yes' says that a word was added or removed, or that it is there.
Perform(c) ==
  LET call == requests[c]
  IN  /\ call.phase = "called"
      /\ requests' = [requests EXCEPT ![c] =
           [phase  |-> "done", op |-> call.op, word |-> call.word,
            yes    |-> (call.op # "list") /\ ((call.word \in set) <=> (call.op # "add")),
            listed |-> IF call.op = "list" THEN set ELSE {}]]
      /\ set' = CASE call.op = "add"    -> set \cup {call.word}
                  [] call.op = "remove" -> set \ {call.word}
                  [] OTHER              -> set

Return(c) ==
  /\ requests[c].phase = "done"
  /\ requests' = [requests EXCEPT ![c] = NoRequest]
  /\ UNCHANGED set

Next == \E c \in Callers : Call(c) \/ Perform(c) \/ Return(c)

Spec == Init /\ [][Next]_vars

=============================================================================
