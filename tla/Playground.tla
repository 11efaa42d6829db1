---------------------------- MODULE Playground ----------------------------
(***************************************************************************)
(* The playground of the dashboard: chat sessions of one organisation,     *)
(* their messages in the gateway's database, and the page with which       *)
(* several tabs list, open, create and delete sessions and run prompts.    *)
(*                                                                         *)
(* A prompt is a number; it stands for its text and, with the role         *)
(* "assistant", for its answer.  Titles, timings and costs are left out.   *)
(***************************************************************************)
EXTENDS ServerActions, SequencesExt

CONSTANTS
    MaxSession,   \* bound: sessions ever created
    MaxPrompt     \* bound: prompts ever run

Session == 1..MaxSession
Prompt == 1..MaxPrompt
None == 0

VARIABLES
    session,      \* chat_sessions: "free", "live" or "deleted" of every id
    log,          \* chat_messages of every session, in order
    asked,        \* ghost: the session that was open when a prompt was run
    page          \* state of the page of each tab

vars == <<session, log, asked, page, calls>>

Message == [role : {"user", "assistant"}, prompt : Prompt]
UserSaid(n) == [role |-> "user", prompt |-> n]
AssistantSaid(n) == [role |-> "assistant", prompt |-> n]

Page == [active : Session \cup {None}, shown : Seq(Message),
         status : {"idle", "running", "done", "error"},
         result : Prompt \cup {None},           \* the run the panels are about
         listed : SUBSET Session, loading : BOOLEAN]

\* A handler first asks the browser's database client for the user and the organisation:
\* its call may overtake those of earlier handlers.  (Bound: it overtakes no run, so that
\* one is not overtaken for ever.)
Ask(t, c) ==
    /\ Len(calls[t]) < MaxCalls
    /\ \E n \in 1..(Len(calls[t]) + 1) :
          /\ \A m \in n..Len(calls[t]) : calls[t][m].fn \notin {"run", "answer"}
          /\ calls' = [calls EXCEPT ![t] = InsertAt(@, n, c)]

Used == {n \in Prompt : asked[n] # None}
IsLive(s) == s # None /\ session[s] = "live"

-----------------------------------------------------------------------------
(* What the user does                                                       *)

\* mutant: the status of a run stays when another session is opened
OpenedStatusStays(p, s) == [p EXCEPT !.active = s, !.shown = <<>>, !.result = None]
\* The page as handleSelectSession leaves it before its first await.
Opened(p, s) == [p EXCEPT !.active = s, !.shown = <<>>, !.result = None, !.status = "idle"]
GetMessages(s) == [fn |-> "messages", session |-> s]

HandleSelectSession(t, s) ==
    /\ ~page[t].loading /\ s \in page[t].listed
    /\ page' = [page EXCEPT ![t] = Opened(@, s)]
    /\ Ask(t, GetMessages(s))
    /\ UNCHANGED <<session, log, asked>>

HandleCreateSession(t) ==
    /\ Ask(t, [fn |-> "create"])
    /\ UNCHANGED <<session, log, asked, page>>

\* The handler remembers which session was open when the button was pressed.
HandleDeleteSession(t, s) ==
    /\ ~page[t].loading /\ s \in page[t].listed
    /\ Ask(t, [fn |-> "delete", session |-> s, active |-> page[t].active])
    /\ UNCHANGED <<session, log, asked, page>>

\* The form is disabled without a session and while a run is under way; with the
\* form disabled, the branch of handleRun that creates a session is out of reach.
HandleRun(t) ==
    /\ page[t].active # None /\ page[t].status # "running"
    /\ \E n \in Prompt : 
          /\ Used = 1..(n - 1)
          /\ LET msgs == Append(page[t].shown, UserSaid(n)) IN
             /\ page' = [page EXCEPT ![t] =
                    [@ EXCEPT !.shown = msgs, !.status = "running", !.result = None]]
             /\ Ask(t, [fn |-> "run", session |-> page[t].active, prompt |-> n, msgs |-> msgs])
          /\ asked' = [asked EXCEPT ![n] = page[t].active]
    /\ UNCHANGED <<session, log>>

-----------------------------------------------------------------------------
(* What the gateway does, and what the handler does with the answer         *)

\* loadSessions: the list, [] after an error; the first session is opened.
LoadSessions(t) ==
    /\ Busy(t, "list")
    /\ \/ \E s \in Session :
             /\ IsLive(s)
             /\ page' = [page EXCEPT ![t] =
                    [Opened(@, s) EXCEPT !.listed = {x \in Session : IsLive(x)}, !.loading = FALSE]]
             /\ Answer(t, <<GetMessages(s)>>)
       \/ page' = [page EXCEPT ![t].loading = FALSE] /\ Answer(t, <<>>)
    /\ UNCHANGED <<session, log, asked>>

\* getSessionMessages: [] after an error of the gateway; if the call itself
\* throws, what is shown stays.
GetSessionMessages(t) ==
    /\ Busy(t, "messages")
    /\ \E msgs \in {log[Head(calls[t]).session], <<>>, page[t].shown} :
          page' = [page EXCEPT ![t].shown = msgs]
    /\ Answer(t, <<>>)
    /\ UNCHANGED <<session, log, asked>>

\* createSession: the row, then the page opens it; or the answer is an error.
Created(p, s) == [Opened(p, s) EXCEPT !.listed = p.listed \cup {s}]
CreateSession(t) ==
    /\ Busy(t, "create")
    /\ \/ \E s \in Session :
             /\ session[s] = "free" /\ \A r \in 1..(s - 1) : session[r] # "free"
             /\ session' = [session EXCEPT ![s] = "live"]
             /\ page' \in {page, [page EXCEPT ![t] = Created(@, s)]}
       \/ UNCHANGED <<session, page>>
    /\ Answer(t, <<>>)
    /\ UNCHANGED <<log, asked>>

\* deleteSession: the row goes, and its messages with it; the page forgets it,
\* and closes it when it was open as the button was pressed.
Deleted(p, c) ==
    LET q == [p EXCEPT !.listed = @ \ {c.session}] IN
    IF c.active = c.session THEN Opened(q, None) ELSE q
DeleteSession(t) ==
    LET c == Head(calls[t]) IN
    /\ Busy(t, "delete")
    /\ \/ /\ session' = [session EXCEPT ![c.session] = "deleted"]
          /\ log' = [log EXCEPT ![c.session] = <<>>]
          /\ page' \in {page, [page EXCEPT ![t] = Deleted(@, c)]}
       \/ UNCHANGED <<session, log, page>>
    /\ Answer(t, <<>>)
    /\ UNCHANGED asked

\* Another member of the organisation deletes a session: from a page of theirs,
\* or through the API.
DeletedElsewhere(s) ==
    /\ IsLive(s)
    /\ session' = [session EXCEPT ![s] = "deleted"]
    /\ log' = [log EXCEPT ![s] = <<>>]
    /\ UNCHANGED <<asked, page, calls>>

\* AppendMessage: a transaction that fails for a session that is gone, and may
\* fail for others; Process logs the error and goes on.
AppendMessage(s, m) ==
    \/ IsLive(s) /\ log' = [log EXCEPT ![s] = Append(@, m)]
    \/ log' = log

\* Process saves the prompt, looks for an answer...
Prompted(t) ==
    LET c == Head(calls[t]) IN
    /\ Busy(t, "run")
    /\ AppendMessage(c.session, UserSaid(c.prompt))
    /\ GoOn(t, [c EXCEPT !.fn = "answer"])
    /\ UNCHANGED <<session, asked, page>>

\* mutant: the answer is saved in the session that is open by then
AnsweredWhereOpen(t) ==
    LET c == Head(calls[t])
        msgs == Append(c.msgs, AssistantSaid(c.prompt)) IN
    /\ Busy(t, "answer") /\ page[t].active # None
    /\ AppendMessage(page[t].active, AssistantSaid(c.prompt))
    /\ page' = [page EXCEPT ![t] =
           [@ EXCEPT !.shown = msgs, !.result = c.prompt, !.status = "done"]]
    /\ Answer(t, <<>>)
    /\ UNCHANGED <<session, asked>>
\* ...and saves it.  The page shows it under the messages the run began with.
Answered(t) ==
    LET c == Head(calls[t])
        msgs == Append(c.msgs, AssistantSaid(c.prompt)) IN
    /\ Busy(t, "answer")
    /\ AppendMessage(c.session, AssistantSaid(c.prompt))
    /\ page' = [page EXCEPT ![t] =
           [@ EXCEPT !.shown = msgs, !.result = c.prompt, !.status = "done"]]
    /\ Answer(t, <<>>)
    /\ UNCHANGED <<session, asked>>

\* The request is refused or fails, or its answer is lost on the way.
RunFailed(t) ==
    /\ Busy(t, "run") \/ Busy(t, "answer")
    /\ page' = [page EXCEPT ![t] =
           [@ EXCEPT !.result = Head(calls[t]).prompt, !.status = "error"]]
    /\ Answer(t, <<>>)
    /\ UNCHANGED <<session, log, asked>>

-----------------------------------------------------------------------------
\* Sessions may exist, and the tabs have just been opened.
Init ==
    /\ \E n \in 0..(MaxSession - 1) :
          session = [s \in Session |-> IF s <= n THEN "live" ELSE "free"]
    /\ log = [s \in Session |-> <<>>]
    /\ asked = [n \in Prompt |-> None]
    /\ page = [t \in Tab |-> [active |-> None, shown |-> <<>>, status |-> "idle",
                              result |-> None, listed |-> {}, loading |-> TRUE]]
    /\ calls = [t \in Tab |-> <<[fn |-> "list"]>>]

Handle(t) ==
    \/ \E s \in Session : HandleSelectSession(t, s) \/ HandleDeleteSession(t, s)
    \/ HandleCreateSession(t) \/ HandleRun(t)
Serve(t) ==
    \/ LoadSessions(t) \/ GetSessionMessages(t) \/ CreateSession(t) \/ DeleteSession(t)
    \/ Prompted(t) \/ Answered(t) \/ RunFailed(t)

Next ==
    \/ \E t \in Tab : Handle(t) \/ Serve(t)
    \/ \E s \in Session : DeletedElsewhere(s)

\* A server action is answered or fails in the end.
Spec == Init /\ [][Next]_vars /\ \A t \in Tab : WF_vars(Serve(t))

-----------------------------------------------------------------------------
\* The types.
TypeOK ==
    /\ session \in [Session -> {"free", "live", "deleted"}]
    /\ log \in [Session -> Seq(Message)]
    /\ asked \in [Prompt -> Session \cup {None}]
    /\ page \in [Tab -> Page]

\* A session holds the prompts that were run while it was open on a page, each
\* once and before its answer, whatever was opened, created or deleted while the
\* run was under way; and a session that was deleted holds nothing again.
FiledWhereAsked ==
    \A s \in Session :
        /\ log[s] # <<>> => session[s] = "live"
        /\ \A i \in 1..Len(log[s]) :
              /\ asked[log[s][i].prompt] = s
              /\ \A j \in 1..(i - 1) : log[s][j].prompt = log[s][i].prompt =>
                    log[s][j].role = "user" /\ log[s][i].role = "assistant"

\* The form is locked only while a run of the tab is under way, and the panels
\* show a run exactly when the status says that one is over.
LocksAreTrue ==
    \A t \in Tab :
        /\ page[t].status = "running" => \E c \in Waiting(t) : c.fn \in {"run", "answer"}
        /\ page[t].result # None <=> page[t].status \in {"done", "error"}

Locked(t, control) == control = "form" /\ page[t].status = "running"

=============================================================================
