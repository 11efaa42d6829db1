----------------------------- MODULE Overview -----------------------------
(***************************************************************************)
(* The pages that only look: the system overview with its live audit feed  *)
(* and the "live arena" in which a prompt is tried, the two analytics      *)
(* pages and the audit page; and the assistant that floats over every page *)
(* and keeps its conversation from one to the next.  They wait in one      *)
(* queue, the feed's polls among them.                                     *)
(*                                                                         *)
(* What the gateway counts is left out; what remains is who waits for what.*)
(***************************************************************************)
EXTENDS ServerActions

CONSTANT MaxPrompt           \* bound: prompts of a conversation, and those tried

Prompt == 1..MaxPrompt
None == 0

VARIABLES
    page,                    \* the page of each tab
    assistant                \* its conversation with the assistant

vars == <<page, assistant, calls>>

Message == [role : {"user", "assistant"}, prompt : Prompt]
Assistant == [open : BOOLEAN, messages : Seq(Message), loading : BOOLEAN]
Path == {"overview", "analytics", "gpu", "audit"}
Page == [at : Path,
         asking : 0..2,                            \* fetches that ask for the user first
         loading : BOOLEAN, refreshing : BOOLEAN,
         tried : Prompt \cup {None}, executing : BOOLEAN,
         trace : Prompt \cup {None}]               \* the prompt the trace, or the error, is of

\* Actions of the gateway a fetch of the page is for.
Parts(at) == CASE at = "gpu" -> 3 [] at = "audit" -> 2 [] OTHER -> 1

Fresh(at) == [at |-> at, asking |-> IF at = "overview" THEN 0 ELSE 1,
              loading |-> at # "overview", refreshing |-> FALSE,
              tried |-> None, executing |-> FALSE, trace |-> None]

-----------------------------------------------------------------------------
(* What the user does, and the clock                                        *)

\* A call made by a page that was left tells nobody.  (A fetch of it that still asks for
\* the user is dropped: it would only lengthen the queue.)
Visit(t, at) ==
    /\ page' = [page EXCEPT ![t] = Fresh(at)]
    /\ calls' = [calls EXCEPT ![t] =
          [n \in DOMAIN @ |-> IF @[n].fn = "chat" THEN @[n] ELSE [@[n] EXCEPT !.live = FALSE]]]
    /\ UNCHANGED assistant

\* The feed polls when it is mounted and every five seconds, answered or not.
FetchAudit(t) ==
    /\ page[t].at = "overview"
    /\ Call(t, [fn |-> "audit", live |-> TRUE])
    /\ UNCHANGED <<page, assistant>>

HandleExecute(t, n) ==
    /\ page[t].at = "overview" /\ ~page[t].executing
    /\ page' = [page EXCEPT ![t].tried = n, ![t].executing = TRUE, ![t].trace = None]
    /\ Call(t, [fn |-> "execute", prompt |-> n, live |-> TRUE])
    /\ UNCHANGED assistant

\* The button is there while the page loads.
Refresh(t) ==
    /\ page[t].at \in {"analytics", "gpu"} /\ ~page[t].refreshing
    /\ page[t].asking < 2
    /\ page' = [page EXCEPT ![t].asking = @ + 1, ![t].refreshing = TRUE]
    /\ UNCHANGED <<assistant, calls>>

SetOpen(t) ==
    /\ assistant' = [assistant EXCEPT ![t].open = ~@]
    /\ UNCHANGED <<page, calls>>

HandleSend(t) ==
    LET n == Len(SelectSeq(assistant[t].messages, LAMBDA m : m.role = "user")) + 1 IN
    /\ assistant[t].open /\ ~assistant[t].loading /\ n \in Prompt
    /\ assistant' = [assistant EXCEPT ![t].loading = TRUE,
          ![t].messages = Append(@, [role |-> "user", prompt |-> n])]
    /\ Call(t, [fn |-> "chat", prompt |-> n])
    /\ UNCHANGED page

-----------------------------------------------------------------------------
(* The answers                                                              *)

\* The browser's client knows the user and the organisation, or not; the audit page does
\* not call without a user.
Ended(p) == [p EXCEPT !.loading = FALSE, !.refreshing = FALSE]
UserFound(t) ==
    /\ page[t].asking > 0
    /\ \/ /\ page' = [page EXCEPT ![t].asking = @ - 1]
          /\ Call(t, [fn |-> "metrics", left |-> Parts(page[t].at), live |-> TRUE])
       \/ /\ page' = [page EXCEPT ![t] = [Ended(@) EXCEPT !.asking = page[t].asking - 1]]
          /\ UNCHANGED calls
    /\ UNCHANGED assistant

\* Promise.all: after the last of its calls, or the first that throws, whose successors
\* then tell nobody.
GetMetrics(t) ==
    LET c == Head(calls[t]) IN
    /\ Busy(t, "metrics")
    /\ \/ /\ c.left > 1 /\ UNCHANGED page
          /\ GoOn(t, [c EXCEPT !.left = @ - 1])
       \/ /\ page' = IF c.live THEN [page EXCEPT ![t] = Ended(@)] ELSE page
          /\ IF c.left > 1 THEN GoOn(t, [c EXCEPT !.left = @ - 1, !.live = FALSE])
                           ELSE Answer(t, <<>>)
    /\ UNCHANGED assistant

GetMemzentAudit(t) ==
    /\ Busy(t, "audit") /\ Answer(t, <<>>)
    /\ UNCHANGED <<page, assistant>>

Executed(t) ==
    LET c == Head(calls[t]) IN
    /\ Busy(t, "execute") /\ Answer(t, <<>>)
    /\ page' = IF c.live THEN [page EXCEPT ![t].trace = c.prompt, ![t].executing = FALSE] ELSE page
    /\ UNCHANGED assistant

\* An answer, or an error in its place.
Replied(t) ==
    LET c == Head(calls[t]) IN
    /\ Busy(t, "chat") /\ Answer(t, <<>>)
    /\ assistant' = [assistant EXCEPT ![t].loading = FALSE,
          ![t].messages = Append(@, [role |-> "assistant", prompt |-> c.prompt])]
    /\ UNCHANGED page

-----------------------------------------------------------------------------
Init ==
    /\ page = [t \in Tab |-> Fresh("overview")]
    /\ assistant = [t \in Tab |-> [open |-> FALSE, messages |-> <<>>, loading |-> FALSE]]
    /\ calls = [t \in Tab |-> <<>>]

Handle(t) ==
    \/ \E at \in Path : Visit(t, at)
    \/ FetchAudit(t) \/ Refresh(t) \/ SetOpen(t) \/ HandleSend(t)
    \/ \E n \in Prompt : HandleExecute(t, n)
Serve(t) == GetMetrics(t) \/ GetMemzentAudit(t) \/ Executed(t) \/ Replied(t)

Next == \E t \in Tab : Handle(t) \/ UserFound(t) \/ Serve(t)

\* The browser's client and the gateway answer.
Spec == Init /\ [][Next]_vars /\ \A t \in Tab : WF_vars(UserFound(t)) /\ WF_vars(Serve(t))

-----------------------------------------------------------------------------
\* The types.
TypeOK ==
    /\ page \in [Tab -> Page]
    /\ assistant \in [Tab -> Assistant]

\* A page shows a spinner only while a fetch of its own is under way, the arena and the
\* assistant only while their prompt is.
LocksAreTrue ==
    \A t \in Tab :
        LET fetching == page[t].asking > 0
                        \/ \E c \in Waiting(t) : c.fn = "metrics" /\ c.live IN
        /\ page[t].loading \/ page[t].refreshing => fetching
        /\ page[t].executing <=> \E c \in Waiting(t) : c.fn = "execute" /\ c.live
        /\ assistant[t].loading <=> \E c \in Waiting(t) : c.fn = "chat"

\* The answers of the assistant stand under the questions they answer, and the trace of
\* the arena is that of the prompt in its field, wherever the user went meanwhile.
AnswersFollow ==
    \A t \in Tab :
        LET m == assistant[t].messages IN
        /\ \A n \in DOMAIN m : m[n].role = "assistant" =>
              n > 1 /\ m[n - 1] = [role |-> "user", prompt |-> m[n].prompt]
        /\ page[t].trace \in {None, page[t].tried}

Locked(t, control) ==
    CASE control = "form" -> page[t].executing \/ page[t].refreshing
      [] control = "side" -> assistant[t].open /\ assistant[t].loading
=============================================================================
