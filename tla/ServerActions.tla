--------------------------- MODULE ServerActions ---------------------------
(***************************************************************************)
(* How a page of the dashboard talks to its server: by server actions,     *)
(* asynchronous functions that the browser calls.  Next.js sends those of  *)
(* a tab, and the refreshes of its router, one after the other in the      *)
(* order they were called: calls[t] is that queue, and its head is under   *)
(* way.  What follows an await in a handler runs when the answer of its    *)
(* call arrives.                                                           *)
(***************************************************************************)
EXTENDS Integers, Sequences

CONSTANTS
    Tab,          \* open pages
    MaxCalls      \* bound: calls of a tab that a user adds to

VARIABLE calls

Busy(t, fn) == calls[t] # <<>> /\ Head(calls[t]).fn = fn
Call(t, c) == Len(calls[t]) < MaxCalls /\ calls' = [calls EXCEPT ![t] = Append(@, c)]
\* The head is answered; what follows in its handler makes the calls of `more`.
Answer(t, more) == calls' = [calls EXCEPT ![t] = Tail(@) \o more]
\* The head goes on with its next step.
GoOn(t, c) == calls' = [calls EXCEPT ![t] = <<c>> \o Tail(@)]

Waiting(t) == {calls[t][n] : n \in 1..Len(calls[t])}
=============================================================================
