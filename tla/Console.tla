------------------------------ MODULE Console ------------------------------
(***************************************************************************)
(* The console of Memzent: the pages of the dashboard and of the website,  *)
(* each a module of its own with the part of the gateway and the tables it *)
(* works on.  They share what a browser shares, the pages of its tabs and  *)
(* their calls; a user stays on one site, chosen at the start.  What holds *)
(* of every page is stated here.                                           *)
(***************************************************************************)
EXTENDS Integers, Sequences, FiniteSets

CONSTANTS
    Tab, Window,                    \* tabs with a page, and those of the login
    MaxCalls, ToolCalls,            \* bounds: calls of a tab
    MaxSession, MaxPrompt,
    Tool, Loop, MaxDesc,
    MaxHook, MaxForm,
    Provider, Workflow,
    User, NoUser, MaxOrg,
    Slug, MaxText

ASSUME ConsoleAssumption ==
    /\ {MaxCalls, ToolCalls, MaxSession, MaxPrompt, MaxDesc, MaxHook, MaxForm, MaxText}
          \subseteq Nat \ {0}
    /\ MaxOrg \in Nat /\ Tab \subseteq Window
    /\ Loop \notin Tab /\ NoUser \notin User

VARIABLES
    site,                           \* where the user is
    page, calls,
    session, log, asked,            \* playground
    tool, drawn, sent, vectoring, refresh,
    hook,
    org,
    row, reviewed,
    orgs, members, login,
    post, public, reader,
    assistant

P == INSTANCE Playground
T == INSTANCE ToolPages WITH MaxCalls <- ToolCalls
H == INSTANCE WebhookPages
O == INSTANCE OrgPages
W == INSTANCE Workflows
L == INSTANCE Tenancy WITH Tab <- Window, session <- login
B == INSTANCE Blog
V == INSTANCE Overview

chat == <<session, log, asked>>
tools == <<tool, drawn, sent, vectoring, refresh>>
workflows == <<row, reviewed>>
tenants == <<orgs, members, login>>
blog == <<post, public, reader>>
vars == <<site, page, calls, chat, tools, hook, org, workflows, tenants, blog, assistant>>

\* The tables of a site the user is not on.
Away == "away"
NoChat == session = Away /\ log = Away /\ asked = Away
NoTools == tool = Away /\ drawn = Away /\ sent = Away /\ vectoring = Away /\ refresh = Away
NoHooks == hook = Away
NoOrg == org = Away
NoWorkflows == row = Away /\ reviewed = Away
NoTenants == orgs = Away /\ members = Away /\ login = Away
NoBlog == post = Away /\ public = Away /\ reader = Away
NoAssistant == assistant = Away

Init ==
    \/ /\ site = "playground" /\ P!Init
       /\ NoTools /\ NoHooks /\ NoOrg /\ NoWorkflows /\ NoTenants /\ NoBlog /\ NoAssistant
    \/ /\ site = "tools" /\ T!Init
       /\ NoChat /\ NoHooks /\ NoOrg /\ NoWorkflows /\ NoTenants /\ NoBlog /\ NoAssistant
    \/ /\ site = "webhooks" /\ H!Init
       /\ NoChat /\ NoTools /\ NoOrg /\ NoWorkflows /\ NoTenants /\ NoBlog /\ NoAssistant
    \/ /\ site = "organisation" /\ O!Init
       /\ NoChat /\ NoTools /\ NoHooks /\ NoWorkflows /\ NoTenants /\ NoBlog /\ NoAssistant
    \/ /\ site = "workflows" /\ W!Init
       /\ NoChat /\ NoTools /\ NoHooks /\ NoOrg /\ NoTenants /\ NoBlog /\ NoAssistant
    \/ /\ site = "login" /\ L!Init /\ calls = Away
       /\ NoChat /\ NoTools /\ NoHooks /\ NoOrg /\ NoWorkflows /\ NoBlog /\ NoAssistant
    \/ /\ site = "blog" /\ B!Init
       /\ NoChat /\ NoTools /\ NoHooks /\ NoOrg /\ NoWorkflows /\ NoTenants /\ NoAssistant
    \/ /\ site = "overview" /\ V!Init
       /\ NoChat /\ NoTools /\ NoHooks /\ NoOrg /\ NoWorkflows /\ NoTenants /\ NoBlog

OnPlayground(A) == site = "playground" /\ A /\ UNCHANGED <<site, tools, hook, org, workflows, tenants, blog, assistant>>
OnTools(A) == site = "tools" /\ A /\ UNCHANGED <<site, chat, hook, org, workflows, tenants, blog, assistant>>
OnWebhooks(A) == site = "webhooks" /\ A /\ UNCHANGED <<site, chat, tools, org, workflows, tenants, blog, assistant>>
OnOrganisation(A) == site = "organisation" /\ A /\ UNCHANGED <<site, chat, tools, hook, workflows, tenants, blog, assistant>>
OnWorkflows(A) == site = "workflows" /\ A /\ UNCHANGED <<site, chat, tools, hook, org, tenants, blog, assistant>>
OnLogin(A) == site = "login" /\ A /\ UNCHANGED <<site, calls, chat, tools, hook, org, workflows, blog, assistant>>
OnBlog(A) == site = "blog" /\ A /\ UNCHANGED <<site, chat, tools, hook, org, workflows, tenants, assistant>>
OnOverview(A) == site = "overview" /\ A /\ UNCHANGED <<site, chat, tools, hook, org, workflows, tenants, blog>>

Next ==
    \/ OnPlayground(P!Next) \/ OnTools(T!Next) \/ OnWebhooks(H!Next) \/ OnOrganisation(O!Next)
    \/ OnWorkflows(W!Next) \/ OnLogin(L!Next) \/ OnBlog(B!Next)
    \/ OnOverview(V!Next)

-----------------------------------------------------------------------------
\* The call at the head of a tab's queue is answered or fails in the end; of the blog,
\* whose calls have no order, every kind is.
Answers(t) ==
    \/ /\ t \in Tab
       /\ \/ OnPlayground(P!Serve(t)) \/ OnTools(T!Serve(t) \/ T!Refreshing(t))
          \/ OnWebhooks(H!Serve(t)) \/ OnOrganisation(O!Serve(t)) \/ OnWorkflows(W!Serve(t))
          \/ OnBlog(B!Saved(t)) \/ OnOverview(V!Serve(t))
    \/ OnLogin(L!Serve(t))
Fairness ==
    /\ \A t \in Tab \cup Window : WF_vars(Answers(t))
    /\ WF_vars(OnTools(T!Refreshing(Loop)) \/ OnBlog(\E t \in Tab : B!Loaded(t)))
    /\ WF_vars(OnTools(\E v \in T!Vector : T!Vectorize(v)) \/ OnBlog(\E t \in Tab : B!Deleted(t)))
    /\ WF_vars(OnBlog(\E t \in Tab : B!Uploaded(t)) \/ OnOverview(\E t \in Tab : V!UserFound(t)))

Spec == Init /\ [][Next]_vars /\ Fairness

-----------------------------------------------------------------------------
\* The types.
TypeOK ==
    CASE site = "playground" -> P!TypeOK
      [] site = "tools" -> T!TypeOK
      [] site = "webhooks" -> H!TypeOK
      [] site = "organisation" -> O!TypeOK
      [] site = "workflows" -> W!TypeOK
      [] site = "login" -> L!TypeOK
      [] site = "blog" -> B!TypeOK
      [] site = "overview" -> V!TypeOK

\* A page shows a spinner or a disabled control only while a call is under way whose
\* answer takes it away, whatever was opened, closed, left or refused meanwhile.
LocksAreTrue ==
    CASE site = "playground" -> P!LocksAreTrue
      [] site = "tools" -> T!LocksAreTrue
      [] site = "webhooks" -> H!LocksAreTrue
      [] site = "organisation" -> O!LocksAreTrue
      [] site = "blog" -> B!LocksAreTrue
      [] site = "overview" -> V!LocksAreTrue
      [] OTHER -> TRUE

Locked(t, control) ==
    CASE site = "playground" -> t \in Tab /\ P!Locked(t, control)
      [] site = "tools" -> t \in Tab /\ T!Locked(t, control)
      [] site = "webhooks" -> t \in Tab /\ H!Locked(t, control)
      [] site = "organisation" -> t \in Tab /\ O!Locked(t, control)
      [] site = "login" -> L!Locked(t, control)
      [] site = "blog" -> t \in Tab /\ B!Locked(t, control)
      [] site = "overview" -> t \in Tab /\ V!Locked(t, control)
      [] OTHER -> FALSE
\* A locked control is unlocked in the end, or its page left: none waits for an answer
\* that was lost with an error, a closed dialog or a row that went.
ControlsReturn ==
    \A t \in Tab, control \in {"form", "side"} :
        Locked(t, control) ~> ~Locked(t, control)

\* A prompt and its answer are kept in the session that was open when the prompt was run;
\* the assistant and the arena show an answer with the prompt it is the answer to.
FiledWhereAsked ==
    /\ site = "playground" => P!FiledWhereAsked
    /\ site = "overview" => V!AnswersFollow

\* The description of an enabled tool is at last sent to the router, although a Refresh
\* that read an older one marks the row as synchronised.
DescriptionsSent ==
    \A i \in Tool : site = "tools" /\ T!Unsent(i) ~> site = "tools" /\ ~T!Unsent(i)

\* A webhook that was deleted does not come back, and a workflow keeps to its life: approved
\* before it is served, and never served again once it is stale or demoted.  An edit, an
\* approval, an activation or a simulation may be under way.
RemovedForGood ==
    [][/\ site = "webhooks" => H!KeepsRemoved
       /\ site = "workflows" => W!LifeStep]_vars

\* The default model, stored or on a page, is one of the default provider, although a
\* form can be edited and saved before, between and after the answers that fill it.
ModelOfProvider == site = "organisation" => O!ModelOfProvider

\* A page is about an organisation of the user it was made for, whoever has signed in or
\* out since in another tab, and however many requests provision one at a time.
ShownOrgIsTheirs == site = "login" => L!ShownOrgIsTheirs

\* What the website shows of a post was published by an editor, in those words.
DraftsStayHidden == site = "blog" => B!DraftsStayHidden
=============================================================================
