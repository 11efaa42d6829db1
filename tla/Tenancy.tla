------------------------------ MODULE Tenancy ------------------------------
(***************************************************************************)
(* Who is signed in, and which organisation a page of the dashboard is     *)
(* about: the login page, the callback of the identity provider, the proxy *)
(* that redirects, and the layout that looks for an organisation of the    *)
(* user and has one provisioned when there is none.                        *)
(*                                                                         *)
(* The tabs share one browser, and so its session.  A request carries the  *)
(* session it was sent with.                                               *)
(***************************************************************************)
EXTENDS Naturals

CONSTANTS
    Tab,
    User,
    NoUser,       \* no session
    MaxOrg        \* bound: organisations ever provisioned

None == 0
Org == 1..MaxOrg

VARIABLES
    orgs,         \* number of rows of the organizations table
    members,      \* organisations of every user
    session,      \* the user in the cookies of the browser
    page          \* of each tab: its request, or what it shows

vars == <<orgs, members, session, page>>

\* What a request waits for, or the page it ended at.
Step == {"proxy", "callback", "layout", "check", "provision", "login", "sending", "shown"}
Page == [at : Step, path : {"/", "/login", "/auth"}, user : User \cup {NoUser}, org : Org \cup {None}]
Request(path) == [at |-> "proxy", path |-> path, user |-> session, org |-> None]
Go(t, step) == page' = [page EXCEPT ![t].at = step]
Redirect(t, path) == page' = [page EXCEPT ![t] = Request(path)]

-----------------------------------------------------------------------------
(* The browser                                                              *)

Visit(t, path) ==
    /\ page[t].at \in {"login", "shown"}
    /\ Redirect(t, path)
    /\ UNCHANGED <<orgs, members, session>>

\* The button is disabled until Supabase has answered.
HandleEmailLogin(t) ==
    /\ page[t].at = "login" /\ Go(t, "sending")
    /\ UNCHANGED <<orgs, members, session>>
EmailSent(t) ==
    /\ page[t].at = "sending" /\ Go(t, "login")
    /\ UNCHANGED <<orgs, members, session>>

\* The provider, or the link of the mail, sends the browser to the callback with a code.
HandleOAuthLogin(t) ==
    /\ page[t].at = "login" /\ Redirect(t, "/auth")
    /\ UNCHANGED <<orgs, members, session>>

\* Tokens in the URL of the login page, or a sign-in that another tab made: the page
\* moves on.
SessionFound(t, u) ==
    /\ page[t].at \in {"login", "sending"}
    /\ session \in {NoUser, u}
    /\ session' = u
    /\ page' = [page EXCEPT ![t] = [Request("/") EXCEPT !.user = u]]
    /\ UNCHANGED <<orgs, members>>

\* signOutAction: the cookies go, and the tab is sent to the login page.
SignOut(t) ==
    /\ page[t].at = "shown"
    /\ session' = NoUser
    /\ page' = [page EXCEPT ![t] = [Request("/login") EXCEPT !.user = NoUser]]
    /\ UNCHANGED <<orgs, members>>

-----------------------------------------------------------------------------
(* The server                                                               *)

\* Nobody sees a page without a session, and nobody with one sees the login page.
Proxy(t) ==
    LET p == page[t] IN
    /\ p.at = "proxy"
    /\ CASE p.path = "/auth" -> Go(t, "callback")
         [] p.path = "/" -> IF p.user = NoUser THEN Redirect(t, "/login") ELSE Go(t, "layout")
         [] p.path = "/login" -> IF p.user = NoUser THEN Go(t, "login") ELSE Redirect(t, "/")
    /\ UNCHANGED <<orgs, members, session>>

\* A code is exchanged for a session, or refused.  A user without an organisation is
\* then given one by an INSERT without a slug, which the table refuses.
Callback(t) ==
    /\ page[t].at = "callback"
    /\ \/ Redirect(t, "/login") /\ session' = session
       \/ \E u \in User :
             /\ session' = u
             /\ page' = [page EXCEPT ![t] = [Request("/") EXCEPT !.user = u]]
    /\ UNCHANGED <<orgs, members>>

\* mutant: the user stands for the organisation that was not found
GetCurrentOrgOrUser(t) ==
    /\ page[t].at = "layout"
    /\ \E o \in Org : page' = [page EXCEPT ![t].at = "shown", ![t].org = o]
    /\ UNCHANGED <<orgs, members, session>>
\* getCurrentOrg: one of the user's organisations, no matter which...
GetCurrentOrg(t) ==
    LET u == page[t].user IN
    /\ page[t].at = "layout"
    /\ \/ \E o \in members[u] : page' = [page EXCEPT ![t].at = "shown", ![t].org = o]
       \/ Go(t, "check")                           \* none, or the query failed
       \/ Redirect(t, "/login")                    \* an error
    /\ UNCHANGED <<orgs, members, session>>
\* ...or the one that provision_personal_org finds...
Check(t) ==
    LET u == page[t].user IN
    /\ page[t].at = "check"
    /\ \/ \E o \in members[u] : page' = [page EXCEPT ![t].at = "shown", ![t].org = o]
       \/ members[u] = {} /\ Go(t, "provision")
       \/ Redirect(t, "/login")
    /\ UNCHANGED <<orgs, members, session>>
\* ...or inserts, even if another request inserted one after the look.
Provision(t) ==
    LET u == page[t].user IN
    /\ page[t].at = "provision"
    /\ \/ /\ orgs < MaxOrg /\ orgs' = orgs + 1
          /\ members' = [members EXCEPT ![u] = @ \cup {orgs'}]
          /\ page' = [page EXCEPT ![t].at = "shown", ![t].org = orgs']
       \/ Redirect(t, "/login") /\ UNCHANGED <<orgs, members>>
    /\ UNCHANGED session

\* An administrator adds a user to an organisation.
Join(u, o) ==
    /\ o <= orgs /\ members' = [members EXCEPT ![u] = @ \cup {o}]
    /\ UNCHANGED <<orgs, session, page>>

-----------------------------------------------------------------------------
\* The trigger that a sign-up fires gave a user an organisation, or failed.
Init ==
    /\ orgs = IF MaxOrg = 0 THEN 0 ELSE 1
    /\ members \in [User -> {{}, 1..orgs}]
    /\ session = NoUser
    /\ page = [t \in Tab |-> Request("/")]

Handle(t) ==
    \/ \E path \in {"/", "/login"} : Visit(t, path)
    \/ HandleEmailLogin(t) \/ HandleOAuthLogin(t) \/ SignOut(t)
    \/ \E u \in User : SessionFound(t, u)
Serve(t) == EmailSent(t) \/ Proxy(t) \/ Callback(t) \/ GetCurrentOrg(t) \/ Check(t) \/ Provision(t)

Next ==
    \/ \E t \in Tab : Handle(t) \/ Serve(t)
    \/ \E u \in User, o \in Org : Join(u, o)

\* A request is answered in the end.
Spec == Init /\ [][Next]_vars /\ \A t \in Tab : WF_vars(Serve(t))

-----------------------------------------------------------------------------
\* The types.
TypeOK ==
    /\ orgs \in 0..MaxOrg
    /\ members \in [User -> SUBSET Org]
    /\ session \in User \cup {NoUser}
    /\ page \in [Tab -> Page]

\* A page is about an organisation of the user it was made for, whoever has signed in or
\* out since in another tab, and however many requests provision one at a time.
ShownOrgIsTheirs ==
    \A t \in Tab : page[t].at = "shown" =>
        page[t].user \in User /\ page[t].org \in members[page[t].user]

Locked(t, control) == control = "form" /\ page[t].at = "sending"
=============================================================================
