--------------------------- MODULE ConsoleProofs ---------------------------
(***************************************************************************)
(* The console for every number of tabs, users, organisations, providers,  *)
(* posts, sessions, prompts, tools, webhooks and workflows: whose          *)
(* organisation a page shows, that models go with their providers, that    *)
(* drafts stay hidden, that what was removed stays removed and only what   *)
(* was approved is served, that prompts and answers are kept where they    *)
(* were asked, and that what is locked waits for a call under way.         *)
(***************************************************************************)
EXTENDS Console, SequenceTheorems, TLAPS

-----------------------------------------------------------------------------
(* Login                                                                    *)

(* A tab that waits for an organisation is of a user, and what it shows is
   one of the organisations m of that user. *)
TabOK(p, m) ==
    /\ p \in L!Page
    /\ p.at \in {"layout", "check", "provision", "shown"} => p.user \in User
    /\ p.at = "shown" => p.org \in m[p.user]
(* The inductive invariant: a user loses no organisation. *)
LoginInv ==
    /\ members \in [User -> SUBSET L!Org]
    /\ login \in User \cup {NoUser}
    /\ page \in [Window -> L!Page]
    /\ \A t \in Window : TabOK(page[t], members)

LEMMA LoginInit == L!Init => LoginInv
<1> SUFFICES ASSUME L!Init PROVE LoginInv
  OBVIOUS
<1>1. 1..orgs \subseteq L!Org
  BY ConsoleAssumption DEF L!Init, L!Org
<1>2. L!Request("/") \in L!Page /\ L!Request("/").at = "proxy"
  BY DEF L!Init, L!Request, L!Page, L!Step, L!None
<1>3. QED
  BY <1>1, <1>2 DEF L!Init, LoginInv, TabOK

(* A tab goes on, while users only gain organisations. *)
LEMMA Moves ==
    ASSUME LoginInv, NEW t \in Window, NEW p, page' = [page EXCEPT ![t] = p],
           login' \in User \cup {NoUser}, members' \in [User -> SUBSET L!Org],
           \A u \in User : members[u] \subseteq members'[u], TabOK(p, members')
    PROVE  LoginInv'
BY DEF LoginInv, TabOK

(* A tab sends a request. *)
LEMMA Requested ==
    ASSUME LoginInv, NEW t \in Window, NEW path \in {"/", "/login", "/auth"}, NEW u \in User \cup {NoUser},
           login' \in User \cup {NoUser}, UNCHANGED members,
           page' = [page EXCEPT ![t] = [L!Request(path) EXCEPT !.user = u]]
    PROVE  LoginInv'
<1> DEFINE p == [at |-> "proxy", path |-> path, user |-> u, org |-> L!None]
<1>1. [L!Request(path) EXCEPT !.user = u] = p
  BY DEF L!Request
<1>2. TabOK(p, members')
  BY DEF TabOK, L!Page, L!Step
<1> HIDE DEF p
<1>3. members' \in [User -> SUBSET L!Org] /\ \A v \in User : members[v] \subseteq members'[v]
  BY DEF LoginInv
<1>4. QED
  BY <1>1, <1>2, <1>3, Moves
LEMMA Redirected ==
    ASSUME LoginInv, NEW t \in Window, NEW path \in {"/", "/login", "/auth"}, L!Redirect(t, path),
           login' \in User \cup {NoUser}, UNCHANGED members
    PROVE  LoginInv'
<1>1. [L!Request(path) EXCEPT !.user = login] = L!Request(path)
  BY DEF L!Request
<1>2. QED
  BY <1>1, Requested DEF L!Redirect, LoginInv
(* A tab waits for something else. *)
LEMMA Went ==
    ASSUME LoginInv, NEW t \in Window, NEW step \in L!Step \ {"shown"}, L!Go(t, step),
           step \in {"layout", "check", "provision"} => page[t].user \in User,
           UNCHANGED <<members, login>>
    PROVE  LoginInv'
<1> DEFINE r == page[t]
           p == [at |-> step, path |-> r.path, user |-> r.user, org |-> r.org]
<1>1. r \in L!Page
  BY DEF LoginInv
<1>2. TabOK(p, members')
  BY <1>1 DEF TabOK, L!Page, L!Step
<1>3. page' = [page EXCEPT ![t] = p]
  <2>1. page' = [page EXCEPT ![t] = [r EXCEPT !.at = step]]
    BY DEF L!Go, LoginInv
  <2>2. [r EXCEPT !.at = step] = p
    BY <1>1 DEF L!Page
  <2>3. QED
    BY <2>1, <2>2
<1> HIDE DEF p
<1>4. members' \in [User -> SUBSET L!Org] /\ \A v \in User : members[v] \subseteq members'[v]
  BY DEF LoginInv
<1>5. QED
  BY <1>2, <1>3, <1>4, Moves DEF LoginInv
(* A tab shows an organisation. *)
LEMMA Showed ==
    ASSUME LoginInv, NEW t \in Window, page[t].user \in User, NEW o \in L!Org,
           page' = [page EXCEPT ![t].at = "shown", ![t].org = o], UNCHANGED login,
           members' \in [User -> SUBSET L!Org], o \in members'[page[t].user],
           \A u \in User : members[u] \subseteq members'[u]
    PROVE  LoginInv'
<1> DEFINE r == page[t]
           p == [at |-> "shown", path |-> r.path, user |-> r.user, org |-> o]
<1>1. r \in L!Page
  BY DEF LoginInv
<1>2. TabOK(p, members')
  BY <1>1 DEF TabOK, L!Page, L!Step
<1>3. page' = [page EXCEPT ![t] = p]
  <2> DEFINE q == [at |-> "shown", path |-> r.path, user |-> r.user, org |-> r.org]
             between == [page EXCEPT ![t] = q]
  <2>1. [page EXCEPT ![t].at = "shown"] = between
    <3>1. [r EXCEPT !.at = "shown"] = q
      BY <1>1 DEF L!Page
    <3>2. QED
      BY <3>1 DEF LoginInv
  <2>2. between \in [Window -> L!Page] /\ between[t] = q
    BY <1>1 DEF LoginInv, L!Page, L!Step
  <2>3. [between EXCEPT ![t].org = o] = [between EXCEPT ![t] = p]
    <3>1. [q EXCEPT !.org = o] = p
      OBVIOUS
    <3>2. QED
      BY <3>1, <2>2
  <2>4. page' = [[page EXCEPT ![t].at = "shown"] EXCEPT ![t].org = o]
    OBVIOUS
  <2>5. QED
    BY <2>1, <2>3, <2>4
<1> HIDE DEF p
<1>4. QED
  BY <1>2, <1>3, Moves DEF LoginInv

(* Who is in a browser, and what the server finds, keep the invariant. *)
LEMMA LoginNext == LoginInv /\ orgs \in 0..MaxOrg /\ L!Next => LoginInv' /\ orgs' \in 0..MaxOrg
<1>0. orgs \in 0..MaxOrg /\ L!Next => orgs' \in 0..MaxOrg
  <2>1. ASSUME NEW t \in Window, L!Handle(t) PROVE UNCHANGED orgs
    BY <2>1 DEF L!Handle, L!Visit, L!HandleEmailLogin, L!HandleOAuthLogin, L!SessionFound, L!SignOut
  <2>2. ASSUME NEW t \in Window, L!Serve(t) PROVE orgs' = orgs \/ (orgs < MaxOrg /\ orgs' = orgs + 1)
    BY <2>2 DEF L!Serve, L!EmailSent, L!Proxy, L!Callback, L!GetCurrentOrg, L!Check, L!Provision
  <2>3. QED
    BY <2>1, <2>2, ConsoleAssumption DEF L!Next, L!Join
<1> SUFFICES ASSUME LoginInv, orgs \in 0..MaxOrg, L!Next PROVE LoginInv'
  BY <1>0
<1> DEFINE Tell(t) == \/ \E path \in {"/", "/login"} : L!Visit(t, path)
                      \/ L!HandleOAuthLogin(t) \/ L!SignOut(t)
                      \/ \E u \in User : L!SessionFound(t, u)
                      \/ L!Callback(t)
           Wait(t) == L!HandleEmailLogin(t) \/ L!EmailSent(t)
           Find(t) == L!GetCurrentOrg(t) \/ L!Check(t) \/ L!Provision(t)
<1>1. ASSUME NEW t \in Window, Tell(t) PROVE LoginInv'
  <2>1. CASE \E path \in {"/", "/login"} : L!Visit(t, path)
    BY <2>1, Redirected DEF L!Visit, LoginInv
  <2>2. CASE L!HandleOAuthLogin(t)
    BY <2>2, Redirected DEF L!HandleOAuthLogin, LoginInv
  <2>3. CASE L!SignOut(t)
    BY <2>3, Requested DEF L!SignOut
  <2>4. ASSUME NEW u \in User, L!SessionFound(t, u) PROVE LoginInv'
    BY <2>4, Requested DEF L!SessionFound
  <2>5. CASE L!Callback(t)
    <3>1. CASE L!Redirect(t, "/login") /\ login' = login
      BY <2>5, <3>1, Redirected DEF L!Callback, LoginInv
    <3>2. ASSUME NEW u \in User, login' = u, page' = [page EXCEPT ![t] = [L!Request("/") EXCEPT !.user = u]]
          PROVE  LoginInv'
      BY <2>5, <3>2, Requested DEF L!Callback
    <3>3. QED
      BY <2>5, <3>1, <3>2 DEF L!Callback
  <2>6. QED
    BY <1>1, <2>1, <2>2, <2>3, <2>4, <2>5
<1>2. ASSUME NEW t \in Window, Wait(t) PROVE LoginInv'
  BY <1>2, Went DEF L!HandleEmailLogin, L!EmailSent, L!Step
<1>3. ASSUME NEW t \in Window, L!Proxy(t) PROVE LoginInv'
  <2>1. page[t] \in L!Page
    BY DEF LoginInv
  <2>2. CASE page[t].path = "/auth"
    BY <1>3, <2>2, Went DEF L!Proxy, L!Step
  <2>3. CASE page[t].path = "/"
    <3>1. CASE page[t].user = NoUser
      BY <1>3, <2>3, <3>1, Redirected DEF L!Proxy, LoginInv
    <3>2. CASE page[t].user # NoUser
      BY <1>3, <2>1, <2>3, <3>2, Went DEF L!Proxy, L!Step, L!Page
    <3>3. QED
      BY <3>1, <3>2
  <2>4. CASE page[t].path = "/login"
    <3>1. CASE page[t].user = NoUser
      BY <1>3, <2>4, <3>1, Went DEF L!Proxy, L!Step
    <3>2. CASE page[t].user # NoUser
      BY <1>3, <2>4, <3>2, Redirected DEF L!Proxy, LoginInv
    <3>3. QED
      BY <3>1, <3>2
  <2>5. QED
    BY <2>1, <2>2, <2>3, <2>4 DEF L!Page
<1>4. ASSUME NEW t \in Window, Find(t) PROVE LoginInv'
  <2>1. page[t].user \in User
    BY <1>4 DEF LoginInv, TabOK, L!GetCurrentOrg, L!Check, L!Provision
  <2>2. ASSUME NEW o \in members[page[t].user], UNCHANGED <<members, login>>,
               page' = [page EXCEPT ![t].at = "shown", ![t].org = o]
        PROVE  LoginInv'
    BY <2>1, <2>2, Showed DEF LoginInv
  <2>3. CASE L!Redirect(t, "/login") /\ UNCHANGED <<members, login>>
    BY <2>3, Redirected DEF LoginInv
  <2>4. CASE (L!Go(t, "check") \/ L!Go(t, "provision")) /\ UNCHANGED <<members, login>>
    BY <2>1, <2>4, Went DEF L!Step
  <2>5. CASE /\ orgs < MaxOrg /\ orgs' = orgs + 1 /\ orgs' \in L!Org
             /\ members' = [members EXCEPT ![page[t].user] = @ \cup {orgs'}]
             /\ page' = [page EXCEPT ![t].at = "shown", ![t].org = orgs'] /\ UNCHANGED login
    <3>1. members' \in [User -> SUBSET L!Org] /\ \A u \in User : members[u] \subseteq members'[u]
      BY <2>5 DEF LoginInv
    <3>2. orgs' \in members'[page[t].user]
      BY <2>1, <2>5 DEF LoginInv
    <3>3. QED
      BY <2>1, <2>5, <3>1, <3>2, Showed
  <2>6. orgs < MaxOrg => orgs + 1 \in L!Org
    BY ConsoleAssumption DEF L!Org
  <2>7. CASE L!GetCurrentOrg(t)
    BY <2>7, <2>2, <2>3, <2>4 DEF L!GetCurrentOrg
  <2>8. CASE L!Check(t)
    BY <2>8, <2>2, <2>3, <2>4 DEF L!Check
  <2>9. CASE L!Provision(t)
    BY <2>9, <2>3, <2>5, <2>6 DEF L!Provision
  <2>10. QED
    BY <1>4, <2>7, <2>8, <2>9
<1>5. ASSUME NEW u \in User, NEW o \in L!Org, L!Join(u, o) PROVE LoginInv'
  BY <1>5 DEF L!Join, LoginInv, TabOK
<1>6. QED
  BY <1>1, <1>2, <1>3, <1>4, <1>5 DEF L!Next, L!Handle, L!Serve

-----------------------------------------------------------------------------
(* Settings                                                                 *)

(* A model goes with its provider wherever a profile is: in the row, on a page,
   and in a call that saves it. *)
Matched == {choice \in O!Choice : choice.model \in {"none", choice.provider}}
OrgOf == [limits : O!Limits, choice : Matched, threshold : O!Threshold]
OrgPage ==
    [at : {"limits"}, form : O!Limits, loading : BOOLEAN, saving : BOOLEAN]
    \cup [at : {"settings"}, pc : {"user", "members", "ready"}, org : BOOLEAN, listed : BOOLEAN,
          choice : Matched, threshold : O!Threshold, saving : BOOLEAN, applying : BOOLEAN]
    \cup [at : {"billing"}, org : BOOLEAN, buying : {"none", "plan", "topup"}]
OrgCall(at) ==
    CASE at = "limits" -> [fn : {"load"}] \cup [fn : {"limits"}, limits : O!Limits]
      [] at = "settings" -> [fn : {"profile", "providers", "threshold"}]
                            \cup [fn : {"save"}, choice : Matched]
                            \cup [fn : {"apply"}, threshold : O!Threshold]
      [] at = "billing" -> [fn : {"checkout"}, for : {"plan", "topup"}]

OrgInv ==
    /\ org \in OrgOf
    /\ page \in [Tab -> OrgPage]
    /\ calls = [t \in Tab |-> calls[t]]
    /\ \A t \in Tab : calls[t] \in Seq(OrgCall(page[t].at))

LEMMA OrgInit == O!Init => OrgInv
<1> SUFFICES ASSUME O!Init PROVE OrgInv
  OBVIOUS
<1>1. O!NoChoice \in Matched
  BY DEF Matched, O!Choice, O!NoChoice, O!None
<1>2. {O!SpendLimits, O!Settings, O!Billing} \subseteq OrgPage
  BY <1>1 DEF OrgPage, O!SpendLimits, O!Settings, O!Billing, O!Limits, O!Threshold, O!None
<1>3. org \in OrgOf
  BY <1>1 DEF O!Init, OrgOf, O!Limits, O!Threshold, O!None
<1>4. <<O!LoadData>> \in Seq(OrgCall("limits"))
  BY DEF OrgCall, O!LoadData
<1>5. \A t \in Tab : calls[t] \in Seq(OrgCall(page[t].at))
  <2> SUFFICES ASSUME NEW t \in Tab PROVE calls[t] \in Seq(OrgCall(page[t].at))
    OBVIOUS
  <2>1. CASE page[t].at = "limits"
    BY <1>4, <2>1 DEF O!Init, O!At
  <2>2. CASE page[t].at # "limits"
    BY <2>2, EmptySeq DEF O!Init, O!At
  <2>3. QED
    BY <2>1, <2>2
<1>6. calls = [t \in Tab |-> calls[t]]
  BY DEF O!Init
<1>7. QED
  BY <1>2, <1>3, <1>5, <1>6 DEF O!Init, OrgInv

(* The queue of a tab holds calls of its page. *)
Queued(t) == \E q \in Seq(OrgCall(page[t].at)) : calls' = [calls EXCEPT ![t] = q]

(* It does after a call, and its head is one of them. *)
LEMMA OrgQueue ==
    ASSUME OrgInv, NEW t \in Tab
    PROVE  /\ \A fn : O!Busy(t, fn) => Head(calls[t]) \in OrgCall(page[t].at) /\ Head(calls[t]).fn = fn
           /\ UNCHANGED calls => Queued(t)
           /\ \A c \in OrgCall(page[t].at) : O!Call(t, c) \/ O!Enqueue(t, c) => Queued(t)
           /\ \A fn : O!Busy(t, fn) /\ O!Answer(t, <<>>) => Queued(t)
           /\ \A fn : \A c \in OrgCall(page[t].at) :
                 O!Busy(t, fn) /\ O!Answer(t, <<c>>) => Queued(t)
<1> DEFINE q == calls[t]
           K == OrgCall(page[t].at)
<1>1. q \in Seq(K) /\ calls = [u \in Tab |-> calls[u]]
  BY DEF OrgInv
<1> HIDE DEF K
<1>2. q # <<>> => Head(q) \in K /\ Tail(q) \in Seq(K)
  BY <1>1, HeadTailProperties
<1>3. \A c \in K : Append(q, c) \in Seq(K)
  BY <1>1, AppendProperties
<1>4. q # <<>> => Tail(q) \o <<>> \in Seq(K)
  BY <1>2, EmptySeq, ConcatProperties
<1>5. \A c \in K : q # <<>> => Tail(q) \o <<c>> \in Seq(K)
  <2> SUFFICES ASSUME NEW c \in K, q # <<>>
               PROVE  Tail(q) \o <<c>> \in Seq(K)
    OBVIOUS
  <2>1. <<c>> \in Seq(K)
    OBVIOUS
  <2>2. QED
    BY <1>2, <2>1, ConcatProperties
<1>6. calls = [calls EXCEPT ![t] = q]
  BY <1>1
<1>7. Queued(t) <=> \E r \in Seq(K) : calls' = [calls EXCEPT ![t] = r]
  BY DEF Queued, K
<1>8. /\ \A c \in K : O!Call(t, c) \/ O!Enqueue(t, c) => Queued(t)
      /\ \A fn : O!Busy(t, fn) /\ O!Answer(t, <<>>) => Queued(t)
      /\ \A fn : \A c \in K : O!Busy(t, fn) /\ O!Answer(t, <<c>>) => Queued(t)
  BY <1>3, <1>4, <1>5, <1>7 DEF O!Busy, O!Call, O!Enqueue, O!Answer
<1>9. \A fn : O!Busy(t, fn) => Head(calls[t]) \in K /\ Head(calls[t]).fn = fn
  BY <1>2 DEF O!Busy
<1>10. UNCHANGED calls => Queued(t)
  BY <1>1, <1>6, <1>7
<1>11. QED
  BY <1>8, <1>9, <1>10 DEF K

(* A call tells the page that made it. *)
LEMMA Owner ==
    ASSUME OrgInv, NEW t \in Tab, Head(calls[t]) \in OrgCall(page[t].at)
    PROVE  /\ Head(calls[t]).fn \in {"load", "limits"} => page[t].at = "limits"
           /\ Head(calls[t]).fn \in {"profile", "providers", "threshold", "save", "apply"}
                 => page[t].at = "settings"
           /\ Head(calls[t]).fn = "checkout" => page[t].at = "billing"
<1>1. page[t].at \in {"limits", "settings", "billing"}
  BY DEF OrgInv, OrgPage
<1>2. QED
  BY <1>1 DEF OrgCall

(* A tab stays on its page. *)
LEMMA OrgStep ==
    ASSUME OrgInv, NEW t \in Tab, NEW p \in OrgPage, p.at = page[t].at,
           page' = [page EXCEPT ![t] = p], Queued(t), org' \in OrgOf
    PROVE  OrgInv'
BY DEF OrgInv, Queued

(* What the steps of a page put in its place. *)
LEMMA LimitsStep ==
    ASSUME OrgInv, NEW t \in Tab, page[t].at = "limits", Queued(t), org' \in OrgOf,
           NEW form \in O!Limits, NEW loading \in BOOLEAN, NEW saving \in BOOLEAN,
           page' = [page EXCEPT ![t] = [@ EXCEPT !.form = form, !.loading = loading, !.saving = saving]]
    PROVE  OrgInv'
<1> DEFINE p == [at |-> "limits", form |-> form, loading |-> loading, saving |-> saving]
<1>1. [page[t] EXCEPT !.form = form, !.loading = loading, !.saving = saving] = p
  <2>1. page[t] \in [at : {"limits"}, form : O!Limits, loading : BOOLEAN, saving : BOOLEAN]
    BY DEF OrgInv, OrgPage
  <2> DEFINE r == page[t]
             a == [at |-> "limits", form |-> form, loading |-> r.loading, saving |-> r.saving]
             b == [at |-> "limits", form |-> form, loading |-> loading, saving |-> r.saving]
  <2>2. [r EXCEPT !.form = form] = a
    BY <2>1
  <2>3. [a EXCEPT !.loading = loading] = b /\ [b EXCEPT !.saving = saving] = p
    OBVIOUS
  <2>4. [page[t] EXCEPT !.form = form, !.loading = loading, !.saving = saving]
            = [[[r EXCEPT !.form = form] EXCEPT !.loading = loading] EXCEPT !.saving = saving]
    OBVIOUS
  <2>5. QED
    BY <2>2, <2>3, <2>4
<1>2. p \in OrgPage /\ p.at = page[t].at
  BY DEF OrgPage
<1> HIDE DEF p
<1>3. page' = [page EXCEPT ![t] = p]
  BY <1>1 DEF OrgInv
<1>4. QED
  BY <1>2, <1>3, OrgStep

LEMMA LimitsNext ==
    ASSUME OrgInv, NEW t \in Tab,
           \/ O!EditLimits(t) \/ O!HandleSaveLimits(t) \/ O!ClearLimits(t)
           \/ O!SetSpendLimits(t) \/ O!GetSpendLimits(t)
    PROVE  OrgInv'
<1> DEFINE r == page[t]
           Put(form, loading, saving) ==
               page' = [page EXCEPT ![t] = [@ EXCEPT !.form = form, !.loading = loading, !.saving = saving]]
<1>1. r \in OrgPage /\ org \in OrgOf
  BY DEF OrgInv
<1>2. r.at = "limits"
  <2>1. CASE O!EditLimits(t) \/ O!HandleSaveLimits(t) \/ O!ClearLimits(t)
    BY <2>1 DEF O!EditLimits, O!HandleSaveLimits, O!ClearLimits, O!Ready, O!At
  <2>2. CASE O!SetSpendLimits(t) \/ O!GetSpendLimits(t)
    BY <2>2, OrgQueue, Owner DEF O!SetSpendLimits, O!GetSpendLimits
  <2>3. QED
    BY <2>1, <2>2
<1>3. CASE O!EditLimits(t)
  <2>1. PICK form \in O!Limits : page' = [page EXCEPT ![t].form = form]
    BY <1>3 DEF O!EditLimits
  <2>2. Put(form, r.loading, r.saving)
    BY <1>1, <1>2, <2>1 DEF OrgInv, OrgPage
  <2>3. QED
    BY <1>1, <1>2, <1>3, <2>2, OrgQueue, LimitsStep DEF O!EditLimits, OrgPage
<1>4. CASE O!HandleSaveLimits(t) \/ O!ClearLimits(t)
  <2>1. PICK limits \in O!Limits : O!Call(t, [fn |-> "limits", limits |-> limits])
    BY <1>1, <1>2, <1>4 DEF O!HandleSaveLimits, O!ClearLimits, OrgPage, O!Limits, O!None
  <2>2. [fn |-> "limits", limits |-> limits] \in OrgCall(r.at)
    BY <1>2 DEF OrgCall
  <2>3. Queued(t)
    BY <2>1, <2>2, OrgQueue
  <2>4. Put(r.form, r.loading, TRUE)
    BY <1>1, <1>2, <1>4 DEF OrgInv, OrgPage, O!HandleSaveLimits, O!ClearLimits
  <2>5. QED
    BY <1>1, <1>2, <1>4, <2>3, <2>4, LimitsStep DEF O!HandleSaveLimits, O!ClearLimits, OrgPage
<1>5. CASE O!SetSpendLimits(t)
  <2>1. Head(calls[t]) \in OrgCall("limits") /\ Head(calls[t]).fn = "limits"
    BY <1>2, <1>5, OrgQueue DEF O!SetSpendLimits
  <2>2. Head(calls[t]).limits \in O!Limits
    BY <2>1 DEF OrgCall
  <2>3. org' \in OrgOf
    BY <1>1, <1>5, <2>2 DEF O!SetSpendLimits, OrgOf
  <2>4. O!LoadData \in OrgCall(r.at)
    BY <1>2 DEF OrgCall, O!LoadData
  <2>5. Queued(t)
    BY <1>5, <2>4, OrgQueue DEF O!SetSpendLimits
  <2>6. CASE page' = [page EXCEPT ![t].saving = FALSE]
    <3>1. Put(r.form, r.loading, FALSE)
      BY <1>1, <1>2, <2>6 DEF OrgInv, OrgPage
    <3>2. QED
      BY <1>1, <1>2, <2>3, <2>5, <3>1, LimitsStep DEF OrgPage
  <2>7. ASSUME NEW form \in O!Limits, page' = [page EXCEPT ![t].loading = TRUE, ![t].form = form]
        PROVE  OrgInv'
    <3>1. Put(form, TRUE, r.saving)
      BY <1>1, <1>2, <2>7 DEF OrgInv, OrgPage
    <3>2. QED
      BY <1>1, <1>2, <2>3, <2>5, <3>1, LimitsStep DEF OrgPage
  <2>8. QED
    BY <1>1, <1>2, <1>5, <2>6, <2>7 DEF O!SetSpendLimits, OrgPage, O!Limits, O!None
<1>6. CASE O!GetSpendLimits(t)
  <2>1. PICK form \in {org.limits, r.form} :
            page' = [page EXCEPT ![t].form = form, ![t].loading = FALSE, ![t].saving = FALSE]
    BY <1>6 DEF O!GetSpendLimits
  <2>2. form \in O!Limits
    BY <1>1, <1>2, <2>1 DEF OrgOf, OrgPage
  <2>3. Put(form, FALSE, FALSE)
    BY <1>1, <1>2, <2>1, <2>2 DEF OrgInv, OrgPage
  <2>4. QED
    BY <1>1, <1>2, <1>6, <2>2, <2>3, OrgQueue, LimitsStep DEF O!GetSpendLimits
<1>7. QED
  BY <1>3, <1>4, <1>5, <1>6

(* The settings page, before it asks and as it is edited. *)
SettingsPage ==
    [at : {"settings"}, pc : {"user", "members", "ready"}, org : BOOLEAN, listed : BOOLEAN,
     choice : Matched, threshold : O!Threshold, saving : BOOLEAN, applying : BOOLEAN]
LEMMA SettingsStep ==
    ASSUME OrgInv, NEW t \in Tab, page[t].at = "settings", NEW p \in SettingsPage,
           page' = [page EXCEPT ![t] = p], Queued(t), org' \in OrgOf
    PROVE  OrgInv'
<1>1. p \in OrgPage /\ p.at = page[t].at
  BY DEF SettingsPage, OrgPage
<1>2. QED
  BY <1>1, OrgStep

LEMMA SettingsEdit ==
    ASSUME OrgInv, NEW t \in Tab,
           \/ O!LoadOrg(t) \/ O!LoadMembers(t)
           \/ O!SelectProvider(t) \/ O!SelectModel(t) \/ O!SelectThreshold(t)
           \/ O!HandleSaveProfile(t) \/ O!ApplyThreshold(t)
    PROVE  OrgInv'
<1> DEFINE r == page[t]
<1>1. r.at = "settings" /\ org \in OrgOf /\ UNCHANGED org
  BY DEF OrgInv, O!LoadOrg, O!LoadMembers, O!SelectProvider, O!SelectModel, O!SelectThreshold,
     O!HandleSaveProfile, O!ApplyThreshold, O!At
<1>2. r \in SettingsPage /\ page = [u \in Tab |-> page[u]]
  BY <1>1 DEF OrgInv, OrgPage, SettingsPage
<1>3. CASE O!LoadOrg(t)
  <2>1. PICK pc \in {"members", "ready"}, known \in BOOLEAN :
            page' = [page EXCEPT ![t].pc = pc, ![t].org = known]
    BY <1>3 DEF O!LoadOrg
  <2> DEFINE a == [r EXCEPT !.pc = pc]
             p == [a EXCEPT !.org = known]
  <2>2. a \in SettingsPage
    BY <1>2, <2>1 DEF SettingsPage
  <2>3. p \in SettingsPage
    <3> HIDE DEF a
    <3> QED
      BY <2>1, <2>2 DEF SettingsPage
  <2>4. page' = [page EXCEPT ![t] = p]
    BY <1>2, <2>1
  <2> HIDE DEF p
  <2>5. QED
    BY <1>1, <1>3, <2>3, <2>4, OrgQueue, SettingsStep DEF O!LoadOrg
<1>4. CASE O!LoadMembers(t)
  <2> DEFINE p == [r EXCEPT !.pc = "ready"]
  <2>1. p \in SettingsPage /\ page' = [page EXCEPT ![t] = p]
    BY <1>2, <1>4 DEF O!LoadMembers, SettingsPage
  <2>2. [fn |-> "profile"] \in OrgCall(r.at)
    BY <1>1 DEF OrgCall
  <2>3. Queued(t)
    BY <1>4, <2>2, OrgQueue DEF O!LoadMembers
  <2> HIDE DEF p
  <2>4. QED
    BY <1>1, <2>1, <2>3, SettingsStep
<1>5. CASE O!SelectProvider(t)
  <2>1. PICK choice \in Matched : page' = [page EXCEPT ![t].choice = choice]
    BY <1>5 DEF O!SelectProvider, Matched, O!Choice, O!None
  <2> DEFINE p == [r EXCEPT !.choice = choice]
  <2>2. p \in SettingsPage /\ page' = [page EXCEPT ![t] = p]
    BY <1>2, <2>1 DEF SettingsPage
  <2> HIDE DEF p
  <2>3. QED
    BY <1>1, <1>5, <2>2, OrgQueue, SettingsStep DEF O!SelectProvider
<1>6. CASE O!SelectModel(t)
  <2>1. PICK m \in {"none", r.choice.provider} : page' = [page EXCEPT ![t].choice.model = m]
    BY <1>6 DEF O!SelectModel, O!None
  <2> DEFINE choice == [r.choice EXCEPT !.model = m]
             p == [r EXCEPT !.choice = choice]
  <2>2. choice \in Matched
    <3>1. r.choice \in Matched
      BY <1>2 DEF SettingsPage
    <3>2. QED
      BY <2>1, <3>1 DEF Matched, O!Choice, O!None
  <2>3. page' = [page EXCEPT ![t] = p]
    BY <1>2, <2>1
  <2>4. p \in SettingsPage
    <3> HIDE DEF choice
    <3> QED
      BY <1>2, <2>2 DEF SettingsPage
  <2> HIDE DEF p
  <2>5. QED
    BY <1>1, <1>6, <2>3, <2>4, OrgQueue, SettingsStep DEF O!SelectModel
<1>7. CASE O!SelectThreshold(t)
  <2>1. PICK n \in O!Threshold : page' = [page EXCEPT ![t].threshold = n]
    BY <1>7 DEF O!SelectThreshold
  <2> DEFINE p == [r EXCEPT !.threshold = n]
  <2>2. p \in SettingsPage /\ page' = [page EXCEPT ![t] = p]
    BY <1>2, <2>1 DEF SettingsPage
  <2> HIDE DEF p
  <2>3. QED
    BY <1>1, <1>7, <2>2, OrgQueue, SettingsStep DEF O!SelectThreshold
<1>8. CASE O!HandleSaveProfile(t)
  <2> DEFINE p == [r EXCEPT !.saving = TRUE]
  <2>1. p \in SettingsPage /\ page' = [page EXCEPT ![t] = p]
    BY <1>2, <1>8 DEF O!HandleSaveProfile, SettingsPage
  <2>2. [fn |-> "save", choice |-> r.choice] \in OrgCall(r.at)
    BY <1>1, <1>2 DEF OrgCall, SettingsPage
  <2>3. Queued(t)
    BY <1>8, <2>2, OrgQueue DEF O!HandleSaveProfile
  <2> HIDE DEF p
  <2>4. QED
    BY <1>1, <2>1, <2>3, SettingsStep
<1>9. CASE O!ApplyThreshold(t)
  <2> DEFINE p == [r EXCEPT !.applying = TRUE]
  <2>1. p \in SettingsPage /\ page' = [page EXCEPT ![t] = p]
    BY <1>2, <1>9 DEF O!ApplyThreshold, SettingsPage
  <2>2. [fn |-> "apply", threshold |-> r.threshold] \in OrgCall(r.at)
    BY <1>1, <1>2 DEF OrgCall, SettingsPage
  <2>3. Queued(t)
    BY <1>9, <2>2, OrgQueue DEF O!ApplyThreshold
  <2> HIDE DEF p
  <2>4. QED
    BY <1>1, <2>1, <2>3, SettingsStep
<1>10. QED
  BY <1>3, <1>4, <1>5, <1>6, <1>7, <1>8, <1>9

LEMMA SettingsServe ==
    ASSUME OrgInv, NEW t \in Tab,
           \/ O!GetOrgProfile(t) \/ O!GetMemzentProviders(t) \/ O!GetSimilarityThreshold(t)
           \/ O!UpdateOrgProfile(t) \/ O!UpdateSimilarityThreshold(t)
    PROVE  OrgInv'
<1> DEFINE r == page[t]
           c == Head(calls[t])
<1>0. /\ c \in OrgCall(r.at)
      /\ c.fn \in {"profile", "providers", "threshold", "save", "apply"}
  BY OrgQueue DEF O!GetOrgProfile, O!GetMemzentProviders, O!GetSimilarityThreshold,
     O!UpdateOrgProfile, O!UpdateSimilarityThreshold
<1>1. r.at = "settings" /\ org \in OrgOf
  BY <1>0, Owner DEF OrgInv
<1>2. r \in SettingsPage /\ page = [u \in Tab |-> page[u]]
  BY <1>1 DEF OrgInv, OrgPage, SettingsPage
<1>3. CASE O!GetOrgProfile(t)
  <2>1. PICK choice \in {org.choice, r.choice} : page' = [page EXCEPT ![t].choice = choice]
    BY <1>3 DEF O!GetOrgProfile
  <2>2. choice \in Matched
    BY <1>1, <1>2, <2>1 DEF OrgOf, SettingsPage
  <2> DEFINE p == [r EXCEPT !.choice = choice]
  <2>3. p \in SettingsPage /\ page' = [page EXCEPT ![t] = p]
    BY <1>2, <2>1, <2>2 DEF SettingsPage
  <2>4. [fn |-> "providers"] \in OrgCall(r.at)
    BY <1>1 DEF OrgCall
  <2>5. Queued(t)
    BY <1>3, <2>4, OrgQueue DEF O!GetOrgProfile
  <2> HIDE DEF p
  <2>6. QED
    BY <1>1, <1>3, <2>3, <2>5, SettingsStep DEF O!GetOrgProfile
<1>4. CASE O!GetMemzentProviders(t)
  <2>1. PICK listed \in BOOLEAN : page' = [page EXCEPT ![t].listed = listed]
    BY <1>4 DEF O!GetMemzentProviders
  <2> DEFINE p == [r EXCEPT !.listed = listed]
  <2>2. p \in SettingsPage /\ page' = [page EXCEPT ![t] = p]
    BY <1>2, <2>1 DEF SettingsPage
  <2>3. [fn |-> "threshold"] \in OrgCall(r.at)
    BY <1>1 DEF OrgCall
  <2>4. Queued(t)
    BY <1>4, <2>3, OrgQueue DEF O!GetMemzentProviders
  <2> HIDE DEF p
  <2>5. QED
    BY <1>1, <1>4, <2>2, <2>4, SettingsStep DEF O!GetMemzentProviders
<1>5. CASE O!GetSimilarityThreshold(t)
  <2>1. PICK n \in {org.threshold, 1, r.threshold} : page' = [page EXCEPT ![t].threshold = n]
    BY <1>5 DEF O!GetSimilarityThreshold
  <2>2. n \in O!Threshold
    BY <1>1, <1>2, <2>1 DEF OrgOf, SettingsPage, O!Threshold
  <2> DEFINE p == [r EXCEPT !.threshold = n]
  <2>3. p \in SettingsPage /\ page' = [page EXCEPT ![t] = p]
    BY <1>2, <2>1, <2>2 DEF SettingsPage
  <2> HIDE DEF p
  <2>4. QED
    BY <1>1, <1>5, <2>3, OrgQueue, SettingsStep DEF O!GetSimilarityThreshold
<1>6. CASE O!UpdateOrgProfile(t)
  <2>1. c.choice \in Matched
    <3>1. c.fn = "save"
      BY <1>6, OrgQueue DEF O!UpdateOrgProfile
    <3>2. QED
      BY <1>0, <1>1, <3>1 DEF OrgCall
  <2>2. org' \in OrgOf
    BY <1>1, <1>6, <2>1 DEF O!UpdateOrgProfile, OrgOf
  <2> DEFINE p == [r EXCEPT !.saving = FALSE]
  <2>3. p \in SettingsPage /\ page' = [page EXCEPT ![t] = p]
    BY <1>2, <1>6 DEF O!UpdateOrgProfile, SettingsPage
  <2> HIDE DEF p
  <2>4. QED
    BY <1>1, <1>6, <2>2, <2>3, OrgQueue, SettingsStep DEF O!UpdateOrgProfile
<1>7. CASE O!UpdateSimilarityThreshold(t)
  <2>1. c.threshold \in O!Threshold
    <3>1. c.fn = "apply"
      BY <1>7, OrgQueue DEF O!UpdateSimilarityThreshold
    <3>2. QED
      BY <1>0, <1>1, <3>1 DEF OrgCall
  <2>2. org' \in OrgOf
    BY <1>1, <1>7, <2>1 DEF O!UpdateSimilarityThreshold, OrgOf
  <2> DEFINE p == [r EXCEPT !.applying = FALSE]
  <2>3. p \in SettingsPage /\ page' = [page EXCEPT ![t] = p]
    BY <1>2, <1>7 DEF O!UpdateSimilarityThreshold, SettingsPage
  <2> HIDE DEF p
  <2>4. QED
    BY <1>1, <1>7, <2>2, <2>3, OrgQueue, SettingsStep DEF O!UpdateSimilarityThreshold
<1>8. QED
  BY <1>3, <1>4, <1>5, <1>6, <1>7

(* The page of the plans. *)
LEMMA BillingNext ==
    ASSUME OrgInv, NEW t \in Tab,
           O!LoadPlan(t) \/ O!HandleUpgrade(t) \/ O!TopUp(t) \/ O!CreateCheckoutSession(t)
    PROVE  OrgInv'
<1> DEFINE r == page[t]
           B0 == [at : {"billing"}, org : BOOLEAN, buying : {"none", "plan", "topup"}]
<1>1. r.at = "billing" /\ org \in OrgOf /\ UNCHANGED org
  <2>1. CASE O!CreateCheckoutSession(t)
    BY <2>1, OrgQueue, Owner DEF O!CreateCheckoutSession, OrgInv
  <2>2. QED
    BY <2>1 DEF OrgInv, O!LoadPlan, O!HandleUpgrade, O!TopUp, O!At
<1>2. r \in B0 /\ page = [u \in Tab |-> page[u]]
  BY <1>1 DEF OrgInv, OrgPage
<1>3. ASSUME NEW p \in B0, page' = [page EXCEPT ![t] = p], Queued(t) PROVE OrgInv'
  <2>1. p \in OrgPage /\ p.at = r.at
    BY <1>1, <1>3 DEF OrgPage
  <2>2. QED
    BY <1>1, <1>3, <2>1, OrgStep
<1>4. ASSUME NEW buying \in {"none", "plan", "topup"}, page' = [page EXCEPT ![t].buying = buying], Queued(t)
      PROVE  OrgInv'
  <2> DEFINE p == [r EXCEPT !.buying = buying]
  <2>1. p \in B0 /\ page' = [page EXCEPT ![t] = p]
    BY <1>2, <1>4
  <2> HIDE DEF p, B0
  <2>2. QED
    BY <1>3, <1>4, <2>1
<1>5. CASE O!LoadPlan(t)
  <2> DEFINE p == [r EXCEPT !.org = TRUE]
  <2>1. p \in B0 /\ page' = [page EXCEPT ![t] = p]
    BY <1>2, <1>5 DEF O!LoadPlan
  <2>2. Queued(t)
    BY <1>5, OrgQueue DEF O!LoadPlan
  <2> HIDE DEF p, B0
  <2>3. QED
    BY <1>3, <2>1, <2>2
<1>6. CASE O!HandleUpgrade(t) \/ O!TopUp(t)
  <2>1. [fn |-> "checkout", for |-> "plan"] \in OrgCall(r.at)
        /\ [fn |-> "checkout", for |-> "topup"] \in OrgCall(r.at)
    BY <1>1 DEF OrgCall
  <2>2. Queued(t)
    BY <1>6, <2>1, OrgQueue DEF O!HandleUpgrade, O!TopUp
  <2>3. QED
    BY <1>4, <1>6, <2>2 DEF O!HandleUpgrade, O!TopUp
<1>7. CASE O!CreateCheckoutSession(t)
  <2>1. CASE page' = [page EXCEPT ![t].buying = "none"] /\ O!Answer(t, <<>>)
    BY <1>4, <1>7, <2>1, OrgQueue DEF O!CreateCheckoutSession
  <2>2. CASE page' = [page EXCEPT ![t] = O!Billing] /\ calls' = [calls EXCEPT ![t] = <<>>]
    <3>1. Queued(t)
      BY <2>2, EmptySeq DEF Queued
    <3>2. O!Billing \in B0
      BY DEF O!Billing, O!None
    <3>3. QED
      BY <1>3, <2>2, <3>1, <3>2
  <2>3. QED
    BY <1>7, <2>1, <2>2 DEF O!CreateCheckoutSession, O!None
<1>8. QED
  BY <1>5, <1>6, <1>7

LEMMA OrgNext == OrgInv /\ O!Next => OrgInv'
<1> SUFFICES ASSUME OrgInv, O!Next PROVE OrgInv'
  OBVIOUS
<1>1. CASE O!ChangedElsewhere
  <2>1. PICK p \in Provider \cup {"none"}, limits \in {"none", "some"} :
            org' = [org EXCEPT !.choice = [provider |-> p, model |-> p], !.limits = limits]
    BY <1>1 DEF O!ChangedElsewhere, O!None
  <2>2. [provider |-> p, model |-> p] \in Matched
    BY <2>1 DEF Matched, O!Choice, O!None
  <2>3. org' \in OrgOf
    BY <2>1, <2>2 DEF OrgInv, OrgOf, O!Limits, O!None
  <2>4. QED
    BY <1>1, <2>3 DEF OrgInv, O!ChangedElsewhere
<1>2. ASSUME NEW t \in Tab, O!Handle(t) \/ O!Serve(t) PROVE OrgInv'
  BY <1>2, LimitsNext, SettingsEdit, SettingsServe, BillingNext DEF O!Handle, O!Serve
<1>3. QED
  BY <1>1, <1>2 DEF O!Next

-----------------------------------------------------------------------------
(* Blog                                                                     *)

(* What is published in the table was published by an editor, and so was what
   the website has of it: the ghost only grows. *)
BlogInv ==
    /\ post = [s \in Slug |-> [status |-> post[s].status, text |-> post[s].text]]
    /\ \A s \in Slug : post[s].status = "published" => <<s, post[s].text>> \in public
    /\ DOMAIN reader = {"static", "cache", "fetching", "at", "view", "status"}
    /\ B!DraftsStayHidden

LEMMA BlogInit == B!Init => BlogInv
<1> SUFFICES ASSUME B!Init PROVE BlogInv
  OBVIOUS
<1>1. PICK static \in SUBSET Slug, s \in Slug : reader = B!Visit(static, s)
  BY DEF B!Init
<1>2. B!DraftsStayHidden
  BY <1>1 DEF B!DraftsStayHidden, B!Visit, B!NoPosts, B!MergePosts, B!NoText, B!File
<1>3. QED
  BY <1>1, <1>2 DEF B!Init, BlogInv, B!NoRow, B!Visit, B!None

(* A row is written, and what it publishes is noted. *)
LEMMA Written ==
    ASSUME BlogInv, NEW s, NEW status, NEW text, UNCHANGED reader,
           post' = [post EXCEPT ![s] = [status |-> status, text |-> text]],
           public \subseteq public', status = "published" => <<s, text>> \in public'
    PROVE  BlogInv'
<1>1. /\ post' = [r \in Slug |-> [status |-> post'[r].status, text |-> post'[r].text]]
      /\ \A r \in Slug : post'[r].status = "published" => <<r, post'[r].text>> \in public'
  BY DEF BlogInv
<1>2. B!DraftsStayHidden'
  BY DEF BlogInv, B!DraftsStayHidden
<1>3. QED
  BY <1>1, <1>2 DEF BlogInv

(* The website shows and keeps only what it had, or found published. *)
LEMMA Shown ==
    ASSUME BlogInv, UNCHANGED <<post, public>>,
           DOMAIN reader' = {"static", "cache", "fetching", "at", "view", "status"},
           \A s \in Slug : reader'.cache[s] # -1 => <<s, reader'.cache[s]>> \in public,
           \A s \in Slug : reader'.view[s] \notin {-1, -2} => <<s, reader'.view[s]>> \in public
    PROVE  BlogInv'
BY DEF BlogInv, B!DraftsStayHidden, B!NoText, B!File

LEMMA BlogEdit ==
    ASSUME BlogInv, NEW t \in Tab, B!Handle(t) \/ B!Serve(t)
    PROVE  BlogInv'
<1>1. CASE UNCHANGED <<post, public, reader>>
  BY <1>1 DEF BlogInv, B!DraftsStayHidden
<1>2. CASE B!Toggled(t)
  <2>1. PICK c \in calls[t] :
            /\ c.fn = "toggle"
            /\ \/ /\ post' = [post EXCEPT ![c.slug].status = c.to]
                  /\ public' = public \cup {<<c.slug, post[c.slug].text>> : x \in {c.to} \cap {"published"}}
               \/ UNCHANGED <<post, public>>
    BY <1>2 DEF B!Toggled
  <2>2. UNCHANGED reader
    BY <1>2 DEF B!Toggled
  <2>3. CASE post' = [post EXCEPT ![c.slug].status = c.to]
             /\ public' = public \cup {<<c.slug, post[c.slug].text>> : x \in {c.to} \cap {"published"}}
    <3>1. [post EXCEPT ![c.slug].status = c.to]
              = [post EXCEPT ![c.slug] = [status |-> c.to, text |-> post[c.slug].text]]
      <4>1. CASE c.slug \in Slug
        <5>1. [post[c.slug] EXCEPT !.status = c.to] = [status |-> c.to, text |-> post[c.slug].text]
          BY <4>1 DEF BlogInv
        <5>2. QED
          BY <5>1
      <4>2. CASE c.slug \notin Slug
        BY <4>2 DEF BlogInv
      <4>3. QED
        BY <4>1, <4>2
    <3>2. public \subseteq public' /\ (c.to = "published" => <<c.slug, post[c.slug].text>> \in public')
      BY <2>3
    <3>3. QED
      BY <2>2, <2>3, <3>1, <3>2, Written
  <2>4. QED
    BY <1>1, <2>1, <2>2, <2>3
<1>3. CASE B!Deleted(t)
  <2>1. PICK c \in calls[t] : post' \in {post, [post EXCEPT ![c.slug] = B!NoRow]}
    BY <1>3 DEF B!Deleted
  <2>2. UNCHANGED <<public, reader>>
    BY <1>3 DEF B!Deleted
  <2>3. CASE post' = [post EXCEPT ![c.slug] = B!NoRow]
    <3>1. post' = [post EXCEPT ![c.slug] = [status |-> "none", text |-> 0]]
      BY <2>3 DEF B!NoRow, B!None
    <3>2. public \subseteq public' /\ ("none" = "published" => <<c.slug, 0>> \in public')
      BY <2>2
    <3>3. QED
      BY <2>2, <3>1, <3>2, Written
  <2>4. QED
    BY <1>1, <2>1, <2>2, <2>3
<1>4. CASE B!Saved(t)
  <2>1. PICK c \in calls[t] :
            \/ /\ post' = [post EXCEPT ![c.slug] = [status |-> c.status, text |-> c.text]]
               /\ public' = public \cup {<<c.slug, c.text>> : x \in {c.status} \cap {"published"}}
            \/ UNCHANGED <<post, public>>
    BY <1>4 DEF B!Saved
  <2>2. UNCHANGED reader
    BY <1>4 DEF B!Saved
  <2>3. CASE post' = [post EXCEPT ![c.slug] = [status |-> c.status, text |-> c.text]]
             /\ public' = public \cup {<<c.slug, c.text>> : x \in {c.status} \cap {"published"}}
    <3>1. public \subseteq public' /\ (c.status = "published" => <<c.slug, c.text>> \in public')
      BY <2>3
    <3>2. QED
      BY <2>2, <2>3, <3>1, Written
  <2>4. QED
    BY <1>1, <2>1, <2>2, <2>3
<1>5. B!Handle(t) \/ B!Loaded(t) \/ B!Opened(t) \/ B!Uploaded(t) => UNCHANGED <<post, public, reader>>
  BY DEF B!Handle, B!OpenList, B!SetFilter, B!TogglePublish, B!HandleDelete, B!OpenEditor, B!Type,
     B!HandleImageUpload, B!HandleSave, B!Loaded, B!Opened, B!Uploaded
<1>6. QED
  BY <1>1, <1>2, <1>3, <1>4, <1>5 DEF B!Serve

(* The website goes on: to the list, to a post, loaded anew, or answered. *)
LEMMA BlogRead == ASSUME BlogInv, B!Read PROVE BlogInv'
<1> DEFINE r == reader
           Known(posts) == \A s \in Slug : posts[s] \notin {-1, -2} => <<s, posts[s]>> \in public
<1>0. DOMAIN reader = {"static", "cache", "fetching", "at", "view", "status"}
  BY DEF BlogInv
<1>1. /\ \A s \in Slug : r.cache[s] # -1 => <<s, r.cache[s]>> \in public
      /\ Known(r.view)
  BY DEF BlogInv, B!DraftsStayHidden, B!NoText, B!File
<1>2. UNCHANGED <<post, public>>
  BY DEF B!Read, B!VisitList, B!VisitPost, B!Reload, B!FetchDBPosts
<1>3. \A static, db : (\A s \in Slug : db[s] # -1 => <<s, db[s]>> \in public) =>
          Known(B!MergePosts(static, db))
  BY DEF B!MergePosts, B!NoText, B!File
<1>4. Known(B!GetAllPosts)
  BY <1>1, <1>3 DEF B!GetAllPosts
<1>5. CASE B!VisitList
  <2>1. reader' = [reader EXCEPT !.at = "list", !.view = B!GetAllPosts, !.status = "ready"]
    BY <1>5 DEF B!VisitList
  <2>2. /\ DOMAIN reader' = {"static", "cache", "fetching", "at", "view", "status"}
        /\ reader'.cache = r.cache /\ reader'.view = B!GetAllPosts
    BY <1>0, <2>1
  <2>3. QED
    BY <1>1, <1>2, <1>4, <2>2, Shown
<1>6. ASSUME NEW s \in Slug, B!VisitPost(s) PROVE BlogInv'
  <2>1. PICK status : reader' = [reader EXCEPT !.at = s, !.view = [B!NoPosts EXCEPT ![s] = B!GetAllPosts[s]],
                                              !.status = status]
    BY <1>6 DEF B!VisitPost
  <2>2. /\ DOMAIN reader' = {"static", "cache", "fetching", "at", "view", "status"}
        /\ reader'.cache = r.cache /\ reader'.view = [B!NoPosts EXCEPT ![s] = B!GetAllPosts[s]]
    BY <1>0, <2>1
  <2>3. Known([B!NoPosts EXCEPT ![s] = B!GetAllPosts[s]])
    BY <1>4 DEF B!NoPosts, B!NoText
  <2>4. QED
    BY <1>1, <1>2, <2>2, <2>3, Shown
<1>7. CASE B!Reload
  <2>1. PICK s \in Slug : reader' = B!Visit(reader.static, s)
    BY <1>7 DEF B!Reload
  <2>2. \A u \in Slug : B!NoPosts[u] = -1
    BY DEF B!NoPosts, B!NoText
  <2>3. Known([B!NoPosts EXCEPT ![s] = B!MergePosts(reader.static, B!NoPosts)[s]])
    BY <1>3, <2>2 DEF B!NoPosts
  <2>4. QED
    BY <1>2, <2>1, <2>2, <2>3, Shown DEF B!Visit
<1>8. CASE B!FetchDBPosts
  <2>1. PICK db \in {[s \in Slug |-> IF post[s].status = "published" THEN post[s].text ELSE B!NoText], B!NoPosts} :
            LET q == [reader EXCEPT !.fetching = FALSE, !.cache = db] IN
            reader' = CASE reader.at = "list" -> [q EXCEPT !.view = B!MergePosts(reader.static, db)]
                        [] reader.status = "loading" ->
                              [q EXCEPT !.status = IF db[reader.at] = B!NoText THEN "missing" ELSE "crashed"]
                        [] OTHER -> q
    BY <1>8 DEF B!FetchDBPosts
  <2>2. \A s \in Slug : db[s] # -1 => <<s, db[s]>> \in public
    BY DEF BlogInv, B!NoPosts, B!NoText
  <2>3. Known(B!MergePosts(reader.static, db))
    BY <1>3, <2>2
  <2> DEFINE q == [reader EXCEPT !.fetching = FALSE, !.cache = db]
  <2>4. /\ DOMAIN q = {"static", "cache", "fetching", "at", "view", "status"}
        /\ q.cache = db /\ q.view = r.view
    BY <1>0
  <2>5. reader' = CASE reader.at = "list" -> [q EXCEPT !.view = B!MergePosts(reader.static, db)]
                    [] reader.status = "loading" ->
                          [q EXCEPT !.status = IF db[reader.at] = B!NoText THEN "missing" ELSE "crashed"]
                    [] OTHER -> q
    BY <2>1
  <2> HIDE DEF q
  <2>6. /\ DOMAIN reader' = {"static", "cache", "fetching", "at", "view", "status"}
        /\ reader'.cache = db /\ reader'.view \in {r.view, B!MergePosts(reader.static, db)}
    <3>1. CASE reader.at = "list"
      BY <2>4, <2>5, <3>1
    <3>2. CASE reader.at # "list" /\ reader.status = "loading"
      <4>1. PICK status : reader' = [q EXCEPT !.status = status]
        BY <2>5, <3>2
      <4>2. QED
        BY <2>4, <4>1
    <3>3. CASE reader.at # "list" /\ reader.status # "loading"
      BY <2>4, <2>5, <3>3
    <3>4. QED
      BY <3>1, <3>2, <3>3
  <2>7. QED
    BY <1>1, <1>2, <2>2, <2>3, <2>6, Shown
<1>9. QED
  BY <1>5, <1>6, <1>7, <1>8 DEF B!Read

-----------------------------------------------------------------------------
(* Webhooks                                                                 *)

(* The inductive invariant: a row has a state and what it says. *)
HookInv ==
    /\ DOMAIN hook = H!Hook
    /\ \A h \in H!Hook : DOMAIN hook[h] = {"status", "form"}

LEMMA HookInit == H!Init => HookInv
BY DEF H!Init, HookInv

(* One row is written, or another webhook is created.  Which call that answers
   does not matter, nor what is on the page by then. *)
LEMMA HookNext == HookInv /\ H!Next => HookInv' /\ H!KeepsRemoved
<1> SUFFICES ASSUME HookInv, H!Next PROVE HookInv' /\ H!KeepsRemoved
  OBVIOUS
<1>1. CASE UNCHANGED hook
  BY <1>1 DEF HookInv, H!KeepsRemoved
<1>2. ASSUME NEW h \in H!Hook, NEW form, hook[h].status = "free",
             hook' = [hook EXCEPT ![h] = [status |-> "live", form |-> form]]
      PROVE  HookInv' /\ H!KeepsRemoved
  BY <1>2 DEF HookInv, H!KeepsRemoved
<1>3. ASSUME NEW h \in H!Hook, NEW form, hook' = [hook EXCEPT ![h].form = form]
      PROVE  HookInv' /\ H!KeepsRemoved
  BY <1>3 DEF HookInv, H!KeepsRemoved
<1>4. ASSUME NEW h \in H!Hook, hook' = [hook EXCEPT ![h].status = "deleted"]
      PROVE  HookInv' /\ H!KeepsRemoved
  BY <1>4 DEF HookInv, H!KeepsRemoved
<1>5. ASSUME NEW t \in Tab, H!Handle(t) PROVE UNCHANGED hook
  BY <1>5 DEF H!Handle, H!OpenCreate, H!OpenDialog, H!Close, H!HandleCreate, H!HandleSave, H!HandleDelete
<1>6. ASSUME NEW t \in Tab, H!Serve(t) PROVE HookInv' /\ H!KeepsRemoved
  <2>1. CASE \/ H!GetWebhooks(t) \/ H!Refused(t) \/ H!GetForUpdate(t) \/ H!GetWebhookDeliveries(t)
    BY <1>1, <2>1 DEF H!GetWebhooks, H!Refused, H!GetForUpdate, H!GetWebhookDeliveries
  <2>2. CASE H!CreateWebhook(t)
    BY <1>2, <2>2 DEF H!CreateWebhook
  <2>3. CASE H!UpdateWebhook(t)
    BY <1>1, <1>3, <2>3 DEF H!UpdateWebhook, H!Live
  <2>4. CASE H!DeleteWebhook(t)
    BY <1>4, <2>4 DEF H!DeleteWebhook, H!Live
  <2>5. QED
    BY <1>6, <2>1, <2>2, <2>3, <2>4 DEF H!Serve
<1>7. ASSUME NEW h \in H!Hook, H!DeletedElsewhere(h) PROVE HookInv' /\ H!KeepsRemoved
  BY <1>4, <1>7 DEF H!DeletedElsewhere
<1>8. QED
  BY <1>1, <1>5, <1>6, <1>7 DEF H!Next

-----------------------------------------------------------------------------
(* Workflows                                                                *)

(* The workflows that have a row.  They only become more. *)
Rows == {w \in Workflow : row[w] # W!None}

(* What a page can list, and wait for, when the workflows of K have a row. *)
Lists(K) == {list \in [Workflow -> W!Status \cup {W!None}] : \A w \in Workflow \ K : list[w] = W!None}
RowsPage(K) == [filter : W!Filter, asking : SUBSET W!Filter, listed : Lists(K)]
Reviews(K) == [fn : {"approve", "activate", "reject"}, workflow : K]
RowsCall(K) == [fn : {"list"}, filter : W!Filter] \cup [fn : {"stats"}, list : Lists(K)] \cup Reviews(K)

(* The inductive invariant: nobody sees, or waits for a review of, a workflow
   without a row.  Without it a rejection could bring a row into being. *)
WorkflowInv ==
    /\ row \in [Workflow -> W!Status \cup {W!None}]
    /\ reviewed \subseteq Workflow
    /\ page \in [Tab -> RowsPage(Rows)]
    /\ calls \in [Tab -> Seq(RowsCall(Rows))]
    /\ W!ServedWasReviewed

(* A row stays, so that what was seen stays true. *)
LEMMA RowsGrow ==
    ASSUME NEW J, NEW K, J \subseteq K
    PROVE  /\ RowsPage(J) \subseteq RowsPage(K)
           /\ [Tab -> Seq(RowsCall(J))] \subseteq [Tab -> Seq(RowsCall(K))]
<1>1. Lists(J) \subseteq Lists(K)
  BY DEF Lists
<1>2. RowsCall(J) \subseteq RowsCall(K)
  BY <1>1 DEF RowsCall, Reviews
<1>3. Seq(RowsCall(J)) \subseteq Seq(RowsCall(K))
  BY <1>2, SeqMonotonic
<1>4. QED
  BY <1>1, <1>3 DEF RowsPage

(* The head of a queue is a call, and is replaced by one or goes. *)
LEMMA RowsQueue ==
    ASSUME NEW K, calls \in [Tab -> Seq(RowsCall(K))], NEW t \in Tab
    PROVE  /\ \A fn : W!Busy(t, fn) => Head(calls[t]) \in RowsCall(K) /\ Head(calls[t]).fn = fn
           /\ \A c \in RowsCall(K) : W!Call(t, c) => calls' \in [Tab -> Seq(RowsCall(K))]
           /\ \A fn : W!Busy(t, fn) /\ W!Answer(t, <<>>) => calls' \in [Tab -> Seq(RowsCall(K))]
           /\ \A fn : \A c \in RowsCall(K) :
                 W!Busy(t, fn) /\ W!GoOn(t, c) => calls' \in [Tab -> Seq(RowsCall(K))]
<1> DEFINE q == calls[t]
<1>1. q \in Seq(RowsCall(K))
  OBVIOUS
<1>2. q # <<>> => Head(q) \in RowsCall(K) /\ Tail(q) \in Seq(RowsCall(K))
  BY <1>1, HeadTailProperties
<1>3. \A c \in RowsCall(K) : Append(q, c) \in Seq(RowsCall(K))
  BY <1>1, AppendProperties
<1>4. q # <<>> => Tail(q) \o <<>> \in Seq(RowsCall(K))
  BY <1>2, EmptySeq, ConcatProperties
<1>5. \A c \in RowsCall(K) : q # <<>> => <<c>> \o Tail(q) \in Seq(RowsCall(K))
  <2> SUFFICES ASSUME NEW c \in RowsCall(K), q # <<>>
               PROVE  <<c>> \o Tail(q) \in Seq(RowsCall(K))
    OBVIOUS
  <2>1. <<c>> \in Seq(RowsCall(K))
    OBVIOUS
  <2>2. QED
    BY <1>2, <2>1, ConcatProperties
<1>6. QED
  BY <1>2, <1>3, <1>4, <1>5 DEF W!Busy, W!Call, W!Answer, W!GoOn

(* A handler's review is of a workflow with a row. *)
LEMMA ReviewedRow ==
    ASSUME NEW K, calls \in [Tab -> Seq(RowsCall(K))], NEW t \in Tab,
           W!Busy(t, "approve") \/ W!Busy(t, "activate") \/ W!Busy(t, "reject")
    PROVE  Head(calls[t]).workflow \in K
<1>1. /\ Head(calls[t]) \in RowsCall(K)
      /\ Head(calls[t]).fn \in {"approve", "activate", "reject"}
  BY RowsQueue
<1>2. QED
  BY <1>1 DEF RowsCall, Reviews

(* What the page does with the answer to a review. *)
LEMMA AnsweredPage ==
    ASSUME NEW K \in SUBSET Workflow, page \in [Tab -> RowsPage(K)],
           calls \in [Tab -> Seq(RowsCall(K))], NEW t \in Tab,
           W!Busy(t, "approve") \/ W!Busy(t, "activate") \/ W!Busy(t, "reject"),
           NEW status \in W!Status, W!Answered(t, status)
    PROVE  page' \in [Tab -> RowsPage(K)] /\ calls' \in [Tab -> Seq(RowsCall(K))]
<1> DEFINE w == Head(calls[t]).workflow
<1>1. w \in K
  BY ReviewedRow
<1>2. calls' \in [Tab -> Seq(RowsCall(K))]
  BY RowsQueue DEF W!Answered
<1>3. \A list \in Lists(K) :
          [list EXCEPT ![w] = IF @ = W!None THEN W!None ELSE status] \in Lists(K)
  BY <1>1 DEF Lists
<1> DEFINE listed == page[t].listed
           new == [listed EXCEPT ![w] = IF @ = W!None THEN W!None ELSE status]
<1>4. listed \in Lists(K)
  BY DEF RowsPage
<1>5. new \in Lists(K)
  BY <1>3, <1>4
<1>6. page' \in {page, [page EXCEPT ![t] = [@ EXCEPT !.listed = new]]}
  BY DEF W!Answered
<1>7. page' \in [Tab -> RowsPage(K)]
  <2> HIDE DEF new
  <2> QED
    BY <1>5, <1>6 DEF RowsPage
<1>8. QED
  BY <1>2, <1>7

-----------------------------------------------------------------------------
(* The lifecycle at a step that moves one row. *)
LEMMA RowMoved ==
    ASSUME row \in [Workflow -> W!Status \cup {W!None}], NEW w \in Workflow, NEW status,
           row' = [row EXCEPT ![w] = status]
    PROVE  [v \in Workflow |-> W!Stage(row[v])]'
              = [[v \in Workflow |-> W!Stage(row[v])] EXCEPT ![w] = W!Stage(status)]
OBVIOUS

(* A row that is demoted was withdrawn, or is now. *)
LEMMA RowWithdrawn ==
    ASSUME row \in [Workflow -> W!Status \cup {W!None}], NEW w \in Workflow, row[w] # W!None,
           row' = [row EXCEPT ![w] = "demoted"], reviewed' = reviewed
    PROVE  W!LifeStep
<1> DEFINE stage == [v \in Workflow |-> W!Stage(row[v])]
<1>1. stage' = [stage EXCEPT ![w] = "withdrawn"]
  BY RowMoved DEF W!Stage, W!Reviewable, W!None
<1>2. stage[w] \in {"candidate", "approved", "served", "withdrawn"}
  BY DEF W!Stage, W!Status, W!Reviewable, W!None
<1>3. CASE stage[w] = "withdrawn"
  BY <1>1, <1>3 DEF W!LifeStep
<1>4. CASE stage[w] \in {"candidate", "approved", "served"}
  BY <1>1, <1>4 DEF W!LifeStep, W!Life!Next, W!Life!Withdraw, W!Life!Move
<1>5. QED
  BY <1>2, <1>3, <1>4

(* A step of the page alone. *)
LEMMA WorkflowPage ==
    ASSUME WorkflowInv, NEW t \in Tab,
           \/ \E f \in W!Filter : W!SetFilter(t, f) \/ W!Load(t, f)
           \/ \E w \in Workflow : W!HandleApprove(t, w) \/ W!HandleReject(t, w)
           \/ W!GetWorkflows(t) \/ W!GetOfflineStats(t)
    PROVE  WorkflowInv' /\ UNCHANGED <<row, reviewed>>
<1>0. UNCHANGED <<row, reviewed>> /\ Rows' = Rows
  BY DEF W!SetFilter, W!Load, W!HandleApprove, W!HandleReject, W!GetWorkflows, W!GetOfflineStats, Rows
<1>1. page' \in [Tab -> RowsPage(Rows)] /\ calls' \in [Tab -> Seq(RowsCall(Rows))]
  <2>1. ASSUME NEW f \in W!Filter, W!SetFilter(t, f)
        PROVE  page' \in [Tab -> RowsPage(Rows)] /\ calls' \in [Tab -> Seq(RowsCall(Rows))]
    BY <2>1 DEF WorkflowInv, W!SetFilter, RowsPage
  <2>2. ASSUME NEW f \in W!Filter, W!Load(t, f)
        PROVE  page' \in [Tab -> RowsPage(Rows)] /\ calls' \in [Tab -> Seq(RowsCall(Rows))]
    <3>1. [fn |-> "list", filter |-> f] \in RowsCall(Rows)
      BY DEF RowsCall
    <3>2. calls' \in [Tab -> Seq(RowsCall(Rows))]
      BY <2>2, <3>1, RowsQueue DEF WorkflowInv, W!Load
    <3>3. QED
      BY <2>2, <3>2 DEF WorkflowInv, W!Load, RowsPage
  <2>3. ASSUME NEW w \in Workflow, W!HandleApprove(t, w) \/ W!HandleReject(t, w)
        PROVE  page' \in [Tab -> RowsPage(Rows)] /\ calls' \in [Tab -> Seq(RowsCall(Rows))]
    <3>1. page[t].listed \in Lists(Rows) /\ page[t].listed[w] # W!None
      BY <2>3 DEF WorkflowInv, RowsPage, W!HandleApprove, W!HandleReject, W!Reviewable, W!None
    <3>2. w \in Rows
      BY <3>1 DEF Lists
    <3>3. /\ [fn |-> "approve", workflow |-> w] \in RowsCall(Rows)
          /\ [fn |-> "reject", workflow |-> w] \in RowsCall(Rows)
      BY <3>2 DEF RowsCall, Reviews
    <3>4. QED
      BY <2>3, <3>3, RowsQueue DEF WorkflowInv, W!HandleApprove, W!HandleReject
  <2>4. CASE W!GetWorkflows(t)
    <3>1. W!Show("all") \in Lists(Rows) /\ W!Show("active") \in Lists(Rows)
          /\ [w \in Workflow |-> W!None] \in Lists(Rows)
      BY DEF WorkflowInv, W!Show, Lists, Rows
    <3>2. Head(calls[t]) \in RowsCall(Rows) /\ Head(calls[t]).fn = "list"
      BY <2>4, RowsQueue DEF WorkflowInv, W!GetWorkflows
    <3>3. Head(calls[t]).filter \in W!Filter
      BY <3>2 DEF RowsCall, Reviews
    <3>4. PICK list \in {W!Show(Head(calls[t]).filter), [w \in Workflow |-> W!None]} :
              W!GoOn(t, [fn |-> "stats", list |-> list])
      BY <2>4 DEF W!GetWorkflows
    <3>5. [fn |-> "stats", list |-> list] \in RowsCall(Rows)
      BY <3>1, <3>3, <3>4 DEF RowsCall, W!Filter
    <3>6. calls' \in [Tab -> Seq(RowsCall(Rows))]
      BY <2>4, <3>4, <3>5, RowsQueue DEF WorkflowInv, W!GetWorkflows
    <3>7. QED
      BY <2>4, <3>6 DEF WorkflowInv, W!GetWorkflows
  <2>5. CASE W!GetOfflineStats(t)
    <3>1. Head(calls[t]) \in RowsCall(Rows) /\ Head(calls[t]).fn = "stats"
      BY <2>5, RowsQueue DEF WorkflowInv, W!GetOfflineStats
    <3>2. Head(calls[t]).list \in Lists(Rows)
      BY <3>1 DEF RowsCall, Reviews
    <3>3. calls' \in [Tab -> Seq(RowsCall(Rows))]
      BY <2>5, RowsQueue DEF WorkflowInv, W!GetOfflineStats
    <3>4. QED
      BY <2>5, <3>2, <3>3 DEF WorkflowInv, W!GetOfflineStats, RowsPage
  <2>6. QED
    BY <2>1, <2>2, <2>3, <2>4, <2>5
<1>2. QED
  BY <1>0, <1>1 DEF WorkflowInv, W!ServedWasReviewed

(* A step of the gateway that answers a review. *)
LEMMA ReviewStep ==
    ASSUME WorkflowInv, NEW t \in Tab, W!Approve(t) \/ W!Activate(t) \/ W!Reject(t)
    PROVE  WorkflowInv' /\ W!LifeStep
<1> DEFINE w == Head(calls[t]).workflow
<1>0. w \in Rows
  BY ReviewedRow DEF WorkflowInv, W!Approve, W!Activate, W!Reject
<1>1. w \in Rows /\ w \in Workflow /\ row[w] # W!None
  BY <1>0 DEF Rows
<1>2. CASE UNCHANGED row /\ UNCHANGED reviewed
  <2>1. Rows' = Rows
    BY <1>2 DEF Rows
  <2>2. CASE W!Approve(t) /\ row[w] \in W!Reviewable /\ W!GoOn(t, [fn |-> "activate", workflow |-> w]) /\ page' = page
    <3>1. [fn |-> "activate", workflow |-> w] \in RowsCall(Rows)
      BY <1>1 DEF RowsCall, Reviews
    <3>2. calls' \in [Tab -> Seq(RowsCall(Rows))]
      BY <2>2, <3>1, RowsQueue DEF WorkflowInv, W!Approve
    <3>3. QED
      BY <1>2, <2>1, <2>2, <3>2 DEF WorkflowInv, W!ServedWasReviewed, W!LifeStep
  <2>3. CASE W!Answered(t, "active") \/ W!Answered(t, "demoted")
    <3>1. page' \in [Tab -> RowsPage(Rows)] /\ calls' \in [Tab -> Seq(RowsCall(Rows))]
      BY <2>3, AnsweredPage DEF WorkflowInv, W!Approve, W!Activate, W!Reject, W!Status, Rows
    <3>2. QED
      BY <1>2, <2>1, <3>1 DEF WorkflowInv, W!ServedWasReviewed, W!LifeStep
  <2>4. QED
    BY <2>2, <2>3 DEF W!Approve, W!Activate, W!Reject
<1>3. CASE /\ W!Approve(t) /\ row[w] \in W!Reviewable
           /\ row' = [row EXCEPT ![w] = "approved"] /\ reviewed' = reviewed \cup {w}
           /\ W!GoOn(t, [fn |-> "activate", workflow |-> w]) /\ page' = page
  <2>1. Rows' = Rows
    BY <1>1, <1>3 DEF WorkflowInv, Rows, W!None
  <2>2. [fn |-> "activate", workflow |-> w] \in RowsCall(Rows)
    BY <1>1 DEF RowsCall, Reviews
  <2>3. calls' \in [Tab -> Seq(RowsCall(Rows))]
    BY <1>3, <2>2, RowsQueue DEF WorkflowInv, W!Approve
  <2>4. row' \in [Workflow -> W!Status \cup {W!None}] /\ W!ServedWasReviewed'
    BY <1>1, <1>3 DEF WorkflowInv, W!Status, W!ServedWasReviewed
  <2>5. W!Life!Review(w)
    <3>1. W!Stage(row[w]) = "candidate" /\ W!Stage("approved") = "approved"
      BY <1>3 DEF W!Stage, W!Reviewable, W!None
    <3>2. QED
      BY <1>1, <1>3, <3>1, RowMoved DEF WorkflowInv, W!Life!Review, W!Life!Move
  <2>6. QED
    BY <1>1, <1>3, <2>1, <2>3, <2>4, <2>5 DEF WorkflowInv, W!LifeStep, W!Life!Next
<1>4. CASE W!Activate(t) /\ row[w] = "approved" /\ row' = [row EXCEPT ![w] = "active"]
  <2>1. Rows' = Rows
    BY <1>1, <1>4 DEF WorkflowInv, Rows, W!None
  <2>2. page' \in [Tab -> RowsPage(Rows)] /\ calls' \in [Tab -> Seq(RowsCall(Rows))]
    BY <1>4, AnsweredPage DEF WorkflowInv, W!Activate, W!Status, Rows
  <2>3. row' \in [Workflow -> W!Status \cup {W!None}] /\ W!ServedWasReviewed' /\ reviewed' = reviewed
    BY <1>1, <1>4 DEF WorkflowInv, W!Status, W!ServedWasReviewed, W!Activate
  <2>4. W!Life!Serve(w)
    <3>1. W!Stage(row[w]) = "approved" /\ W!Stage("active") = "served"
      BY <1>4 DEF W!Stage, W!Reviewable, W!None
    <3>2. QED
      BY <1>1, <1>4, <2>3, <3>1, RowMoved DEF WorkflowInv, W!Life!Serve, W!Life!Move
  <2>5. QED
    BY <1>1, <2>1, <2>2, <2>3, <2>4 DEF WorkflowInv, W!LifeStep, W!Life!Next
<1>5. CASE W!Reject(t) /\ row' = [row EXCEPT ![w] = "demoted"]
  <2>1. Rows' = Rows
    BY <1>1, <1>5 DEF WorkflowInv, Rows, W!None
  <2>2. page' \in [Tab -> RowsPage(Rows)] /\ calls' \in [Tab -> Seq(RowsCall(Rows))]
    BY <1>5, AnsweredPage DEF WorkflowInv, W!Reject, W!Status, Rows
  <2>3. row' \in [Workflow -> W!Status \cup {W!None}] /\ W!ServedWasReviewed' /\ reviewed' = reviewed
    BY <1>1, <1>5 DEF WorkflowInv, W!Status, W!ServedWasReviewed, W!Reject
  <2>4. W!LifeStep
    BY <1>1, <1>5, <2>3, RowWithdrawn DEF WorkflowInv
  <2>5. QED
    BY <2>1, <2>2, <2>3, <2>4 DEF WorkflowInv
<1>6. QED
  BY <1>2, <1>3, <1>4, <1>5 DEF W!Approve, W!Activate, W!Reject

(* A step of the miner, the simulator, the demotion check or somebody else. *)
LEMMA BackgroundStep ==
    ASSUME WorkflowInv, NEW w \in Workflow, W!Background(w)
    PROVE  WorkflowInv' /\ W!LifeStep
<1> USE DEF WorkflowInv
<1>1. UNCHANGED <<reviewed, page, calls>>
  BY DEF W!Background
<1>2. ASSUME NEW status \in W!Status, row' = [row EXCEPT ![w] = status],
             status \in {"approved", "active", "stale"} => w \in reviewed
      PROVE  WorkflowInv'
  <2>1. /\ row' \in [Workflow -> W!Status \cup {W!None}]
        /\ Rows \subseteq Rows'
    BY <1>2 DEF Rows, W!Status, W!None
  <2>2. page' \in [Tab -> RowsPage(Rows')] /\ calls' \in [Tab -> Seq(RowsCall(Rows'))]
    BY <1>1, <2>1, RowsGrow
  <2>3. W!ServedWasReviewed'
    BY <1>1, <1>2 DEF W!ServedWasReviewed
  <2>4. QED
    BY <1>1, <2>1, <2>2, <2>3
<1>3. CASE W!UpsertCandidate(w)
  <2>1. row[w] = W!None /\ row' = [row EXCEPT ![w] = "discovered"]
    BY <1>3 DEF W!UpsertCandidate
  <2>2. W!Life!Discover(w)
    <3>1. W!Stage(row[w]) = "unknown" /\ W!Stage("discovered") = "candidate"
      BY <2>1 DEF W!Stage, W!Reviewable, W!None
    <3>2. QED
      BY <1>1, <2>1, <3>1, RowMoved DEF W!Life!Discover, W!Life!Move
  <2>3. QED
    BY <1>2, <2>1, <2>2 DEF W!LifeStep, W!Life!Next, W!Status
<1>4. CASE W!UpdateSimulationResults(w)
  <2>1. PICK status \in {"simulated", "pending_review"} : row' = [row EXCEPT ![w] = status]
    BY <1>4 DEF W!UpdateSimulationResults
  <2>2. W!Stage(status) = "candidate" /\ W!Stage(row[w]) = "candidate"
    BY <1>4, <2>1 DEF W!UpdateSimulationResults, W!Stage, W!Reviewable, W!None
  <2>3. UNCHANGED [v \in Workflow |-> W!Stage(row[v])]
    BY <2>1, <2>2, RowMoved
  <2>4. QED
    BY <1>1, <1>2, <2>1, <2>3 DEF W!LifeStep, W!Status
<1>5. CASE W!MarkStale(w)
  <2>1. row[w] = "active" /\ row' = [row EXCEPT ![w] = "stale"]
    BY <1>5 DEF W!MarkStale
  <2>2. W!Life!Withdraw(w)
    <3>1. W!Stage(row[w]) = "served" /\ W!Stage("stale") = "withdrawn"
      BY <2>1 DEF W!Stage, W!Reviewable, W!None
    <3>2. QED
      BY <1>1, <2>1, <3>1, RowMoved DEF W!Life!Withdraw, W!Life!Move
  <2>3. QED
    BY <1>2, <2>1, <2>2 DEF W!LifeStep, W!Life!Next, W!Status, W!ServedWasReviewed
<1>6. CASE W!Demote(w) \/ W!RejectedElsewhere(w)
  <2>1. row[w] # W!None /\ row' = [row EXCEPT ![w] = "demoted"]
    BY <1>6 DEF W!Demote, W!RejectedElsewhere, W!None
  <2>2. W!LifeStep
    BY <1>1, <2>1, RowWithdrawn
  <2>3. QED
    BY <1>2, <2>1, <2>2 DEF W!Status
<1>7. QED
  BY <1>3, <1>4, <1>5, <1>6 DEF W!Background

(* No workflow has a row at first. *)
LEMMA WorkflowInit == W!Init => WorkflowInv
<1> SUFFICES ASSUME W!Init PROVE WorkflowInv
  OBVIOUS
<1>1. row \in [Workflow -> W!Status \cup {W!None}] /\ W!ServedWasReviewed /\ reviewed = {}
  BY DEF W!Init, W!ServedWasReviewed, W!None
<1>2. [w \in Workflow |-> W!None] \in Lists(Rows)
  BY DEF Lists
<1>3. page \in [Tab -> RowsPage(Rows)]
  BY <1>2 DEF W!Init, RowsPage, W!Filter
<1>4. calls \in [Tab -> Seq(RowsCall(Rows))]
  BY EmptySeq DEF W!Init
<1>5. QED
  BY <1>1, <1>3, <1>4 DEF WorkflowInv

(* Every step keeps the invariant and is one of the life of a workflow, or
   none. *)
LEMMA WorkflowNext == WorkflowInv /\ [W!Next]_(W!vars) => WorkflowInv' /\ W!LifeStep
<1> SUFFICES ASSUME WorkflowInv, [W!Next]_(W!vars) PROVE WorkflowInv' /\ W!LifeStep
  OBVIOUS
<1>1. CASE UNCHANGED W!vars
  BY <1>1 DEF W!vars, WorkflowInv, Rows, W!ServedWasReviewed, W!LifeStep
<1>2. ASSUME NEW t \in Tab, W!Handle(t) \/ W!GetWorkflows(t) \/ W!GetOfflineStats(t)
      PROVE  WorkflowInv' /\ W!LifeStep
  <2>1. WorkflowInv' /\ UNCHANGED <<row, reviewed>>
    BY <1>2, WorkflowPage DEF W!Handle
  <2>2. QED
    BY <2>1 DEF W!LifeStep
<1>3. ASSUME NEW t \in Tab, W!Approve(t) \/ W!Activate(t) \/ W!Reject(t)
      PROVE  WorkflowInv' /\ W!LifeStep
  BY <1>3, ReviewStep
<1>4. ASSUME NEW w \in Workflow, W!Background(w)
      PROVE  WorkflowInv' /\ W!LifeStep
  BY <1>4, BackgroundStep
<1>5. QED
  BY <1>1, <1>2, <1>3, <1>4 DEF W!Next, W!Serve

-----------------------------------------------------------------------------
(* The playground                                                           *)

RunCall == [fn : {"run", "answer"}, session : P!Session, prompt : P!Prompt, msgs : Seq(P!Message)]
ChatCall == [fn : {"list", "create"}] \cup [fn : {"messages"}, session : P!Session]
            \cup [fn : {"delete"}, session : P!Session, active : P!Session \cup {P!None}] \cup RunCall

(* Run c was begun in its session; what is saved of it so far is its prompt,
   once the gateway has got that far. *)
Tracked(c, a, m) ==
    /\ a[c.prompt] = c.session
    /\ \A s \in P!Session : \A k \in 1..Len(m[s]) :
          m[s][k].prompt = c.prompt => c.fn = "answer" /\ m[s][k].role = "user"
(* A run is queued once. *)
RunsOnce ==
    \A t, u \in Tab : \A i \in 1..Len(calls[t]), j \in 1..Len(calls[u]) :
        (calls[t][i] \in RunCall /\ calls[u][j] \in RunCall
            /\ calls[t][i].prompt = calls[u][j].prompt) => t = u /\ i = j
RunsTracked == \A t \in Tab : \A i \in 1..Len(calls[t]) : calls[t][i] \in RunCall => Tracked(calls[t][i], asked, log)
ChatInv ==
    /\ P!TypeOK /\ calls \in [Tab -> Seq(ChatCall)]
    /\ RunsOnce /\ RunsTracked
    /\ P!FiledWhereAsked /\ P!LocksAreTrue

LEMMA ChatInit == P!Init => ChatInv
<1> SUFFICES ASSUME P!Init PROVE ChatInv
  OBVIOUS
<1>1. P!TypeOK
  <2>1. \A n \in 0..(MaxSession - 1) : [s \in P!Session |-> IF s <= n THEN "live" ELSE "free"]
           \in [P!Session -> {"free", "live", "deleted"}]
    OBVIOUS
  <2>2. <<>> \in Seq(P!Message)
    OBVIOUS
  <2>3. QED
    BY <2>1, <2>2 DEF P!Init, P!TypeOK, P!Page
<1>2. calls \in [Tab -> Seq(ChatCall)] /\ \A t \in Tab : calls[t] = <<[fn |-> "list"]>>
  <2>1. [fn |-> "list"] \in ChatCall
    BY DEF ChatCall
  <2>2. <<[fn |-> "list"]>> \in Seq(ChatCall)
    BY <2>1
  <2>3. QED
    BY <2>2 DEF P!Init
<1>3. \A t \in Tab : \A i \in 1..Len(calls[t]) : calls[t][i] \notin RunCall
  BY <1>2 DEF RunCall
<1>4. P!FiledWhereAsked /\ P!LocksAreTrue
  BY DEF P!Init, P!FiledWhereAsked, P!LocksAreTrue
<1>5. QED
  BY <1>1, <1>2, <1>3, <1>4 DEF ChatInv, RunsOnce, RunsTracked

(* Queue r is queue q without its first h calls and with call c, once or not at all;
   f tells where the calls of r were, c is at 0. *)
Requeued(q, r, c, h, f) ==
    /\ f \in [1..Len(r) -> {0} \cup (h + 1)..Len(q)]
    /\ \A i, j \in 1..Len(r) : f[i] = f[j] => i = j
    /\ \A k \in (h + 1)..Len(q) : \E i \in 1..Len(r) : f[i] = k
    /\ \A i \in 1..Len(r) : r[i] = IF f[i] = 0 THEN c ELSE q[f[i]]

LEMMA Asked ==
    ASSUME calls \in [Tab -> Seq(ChatCall)], NEW t \in Tab, NEW c \in ChatCall, P!Ask(t, c)
    PROVE  \E r \in Seq(ChatCall) : \E f :
              /\ calls' = [calls EXCEPT ![t] = r]
              /\ Requeued(calls[t], r, c, 0, f) /\ \E i \in 1..Len(r) : f[i] = 0
<1> DEFINE q == calls[t]
<1>1. PICK n \in 1..(Len(q) + 1) :
         calls' = [calls EXCEPT ![t] = SubSeq(q, 1, n - 1) \o <<c>> \o SubSeq(q, n, Len(q))]
  BY DEF P!Ask, P!InsertAt
<1> DEFINE r == SubSeq(q, 1, n - 1) \o <<c>> \o SubSeq(q, n, Len(q))
<1> DEFINE f == [i \in 1..Len(r) |-> IF i < n THEN i ELSE IF i = n THEN 0 ELSE i - 1]
<1>2. q \in Seq(ChatCall)
  OBVIOUS
<1>3. r \in Seq(ChatCall) /\ Len(r) = Len(q) + 1
      /\ \A i \in 1..Len(r) : r[i] = IF i < n THEN q[i] ELSE IF i = n THEN c ELSE q[i - 1]
  <2> HIDE DEF q
  <2>1. SubSeq(q, 1, n - 1) \in Seq(ChatCall) /\ Len(SubSeq(q, 1, n - 1)) = n - 1
    BY <1>2
  <2>2. SubSeq(q, n, Len(q)) \in Seq(ChatCall) /\ Len(SubSeq(q, n, Len(q))) = Len(q) + 1 - n
    BY <1>2
  <2>3. /\ \A i \in 1..(n - 1) : SubSeq(q, 1, n - 1)[i] = q[i]
        /\ \A i \in 1..(Len(q) + 1 - n) : SubSeq(q, n, Len(q))[i] = q[n + i - 1]
    BY <1>2, <2>1, <2>2
  <2> DEFINE a == SubSeq(q, 1, n - 1)
             b == SubSeq(q, n, Len(q))
  <2> HIDE DEF a, b
  <2>4. a \o <<c>> \in Seq(ChatCall) /\ Len(a \o <<c>>) = n
        /\ \A i \in 1..n : (a \o <<c>>)[i] = IF i < n THEN a[i] ELSE c
    BY <1>2, <2>1 DEF a
  <2> DEFINE d == a \o <<c>>
  <2> HIDE DEF d
  <2>5. d \in Seq(ChatCall) /\ Len(d) = n /\ \A i \in 1..n : d[i] = IF i < n THEN q[i] ELSE c
    BY <2>3, <2>4 DEF d, a
  <2>6. b \in Seq(ChatCall) /\ Len(b) = Len(q) + 1 - n
        /\ \A i \in 1..(Len(q) + 1 - n) : b[i] = q[n + i - 1]
    BY <2>2, <2>3 DEF b
  <2>7. d \o b \in Seq(ChatCall) /\ Len(d \o b) = Len(d) + Len(b)
        /\ \A i \in 1..(Len(d) + Len(b)) : (d \o b)[i] = IF i <= Len(d) THEN d[i] ELSE b[i - Len(d)]
    BY <2>5, <2>6
  <2>8. Len(q) \in Nat
    BY <1>2
  <2>9. r = d \o b
    BY DEF d, a, b
  <2> HIDE DEF r, f
  <2>10. r \in Seq(ChatCall) /\ Len(r) = Len(q) + 1
    BY <2>5, <2>6, <2>7, <2>8, <2>9
  <2>11. ASSUME NEW i \in 1..Len(r)
         PROVE  r[i] = IF i < n THEN q[i] ELSE IF i = n THEN c ELSE q[i - 1]
    <3>1. r[i] = IF i <= n THEN d[i] ELSE b[i - n]
      BY <2>5, <2>6, <2>7, <2>8, <2>9, <2>10
    <3>2. CASE i <= n
      BY <2>5, <3>1, <3>2
    <3>3. CASE i > n
      <4>1. i - n \in 1..(Len(q) + 1 - n) /\ n + (i - n) - 1 = i - 1
        BY <2>8, <2>10, <3>3
      <4>2. b[i - n] = q[i - 1]
        BY <2>6, <4>1
      <4>3. QED
        BY <3>1, <3>3, <4>2
    <3>4. QED
      BY <3>2, <3>3
  <2>12. QED
    BY <2>10, <2>11
<1>4. Requeued(q, r, c, 0, f)
  <2> HIDE DEF r, q
  <2>1. \A k \in 1..Len(q) : \E i \in 1..Len(r) : f[i] = k
    <3> TAKE k \in 1..Len(q)
    <3>1. CASE k < n
      BY <1>2, <1>3, <3>1
    <3>2. CASE k >= n
      <4>1. k + 1 \in 1..Len(r) /\ f[k + 1] = k
        BY <1>2, <1>3, <3>2
      <4>2. QED
        BY <4>1
    <3>3. QED
      BY <3>1, <3>2, <1>2
  <2>2. QED
    BY <1>2, <1>3, <2>1 DEF Requeued
<1>5. \E i \in 1..Len(r) : f[i] = 0
  <2> HIDE DEF r, q
  <2>1. n \in 1..Len(r) /\ f[n] = 0
    BY <1>2, <1>3
  <2>2. QED
    BY <2>1
<1>6. calls' = [calls EXCEPT ![t] = r]
  BY <1>1
<1> HIDE DEF r, f
<1>7. QED
  BY <1>3, <1>4, <1>5, <1>6

LEMMA AnsweredQueue ==
    ASSUME calls \in [Tab -> Seq(ChatCall)], NEW t \in Tab, calls[t] # <<>>,
           NEW c, P!Answer(t, <<>>) \/ (c \in ChatCall /\ P!Answer(t, <<c>>))
    PROVE  \E r \in Seq(ChatCall) : \E f :
              calls' = [calls EXCEPT ![t] = r] /\ Requeued(calls[t], r, c, 1, f)
<1> DEFINE q == calls[t]
<1>1. q \in Seq(ChatCall) /\ Len(q) > 0 /\ Tail(q) \in Seq(ChatCall) /\ Len(Tail(q)) = Len(q) - 1
      /\ \A i \in 1..Len(Tail(q)) : Tail(q)[i] = q[i + 1]
  OBVIOUS
<1>2. CASE P!Answer(t, <<>>)
  <2> DEFINE r == Tail(q) \o <<>>
             f == [i \in 1..Len(r) |-> i + 1]
  <2>1. r \in Seq(ChatCall) /\ Len(r) = Len(q) - 1 /\ \A i \in 1..Len(r) : r[i] = q[i + 1]
    BY <1>1
  <2>2. calls' = [calls EXCEPT ![t] = r]
    BY <1>2 DEF P!Answer
  <2> HIDE DEF r, q
  <2>3. \A k \in 2..Len(q) : k - 1 \in 1..Len(r) /\ f[k - 1] = k
    BY <1>1, <2>1
  <2>4. Requeued(q, r, c, 1, f)
    BY <1>1, <2>1, <2>3 DEF Requeued
  <2> HIDE DEF f
  <2>5. QED
    BY <2>1, <2>2, <2>4 DEF q
<1>3. CASE c \in ChatCall /\ P!Answer(t, <<c>>)
  <2> DEFINE r == Tail(q) \o <<c>>
             f == [i \in 1..Len(r) |-> IF i < Len(q) THEN i + 1 ELSE 0]
  <2>1. r \in Seq(ChatCall) /\ Len(r) = Len(q)
        /\ \A i \in 1..Len(r) : r[i] = IF i < Len(q) THEN q[i + 1] ELSE c
    <3> DEFINE a == Tail(q)
    <3> HIDE DEF a, q
    <3>1. a \in Seq(ChatCall) /\ Len(a) = Len(q) - 1 /\ Len(q) \in Nat
          /\ \A i \in 1..Len(a) : a[i] = q[i + 1]
      BY <1>1 DEF a
    <3>2. a \o <<c>> \in Seq(ChatCall) /\ Len(a \o <<c>>) = Len(a) + 1
          /\ \A i \in 1..(Len(a) + 1) : (a \o <<c>>)[i] = IF i <= Len(a) THEN a[i] ELSE c
      BY <1>3, <3>1
    <3>3. r = a \o <<c>>
      BY DEF a, r
    <3> HIDE DEF r
    <3>4. QED
      BY <3>1, <3>2, <3>3
  <2>2. calls' = [calls EXCEPT ![t] = r]
    BY <1>3 DEF P!Answer
  <2> HIDE DEF r, q
  <2>3. \A k \in 2..Len(q) : k - 1 \in 1..Len(r) /\ f[k - 1] = k
    BY <1>1, <2>1
  <2>4. Requeued(q, r, c, 1, f)
    BY <1>1, <2>1, <2>3 DEF Requeued
  <2> HIDE DEF f
  <2>5. QED
    BY <2>1, <2>2, <2>4 DEF q
<1>4. QED
  BY <1>2, <1>3

LEMMA WentOn ==
    ASSUME calls \in [Tab -> Seq(ChatCall)], NEW t \in Tab, calls[t] # <<>>,
           NEW c \in ChatCall, P!GoOn(t, c)
    PROVE  \E r \in Seq(ChatCall) : \E f :
              /\ calls' = [calls EXCEPT ![t] = r]
              /\ Requeued(calls[t], r, c, 1, f) /\ \E i \in 1..Len(r) : f[i] = 0
<1> DEFINE q == calls[t]
           r == <<c>> \o Tail(q)
           f == [i \in 1..Len(r) |-> IF i = 1 THEN 0 ELSE i]
<1>1. q \in Seq(ChatCall) /\ Len(q) > 0 /\ Tail(q) \in Seq(ChatCall) /\ Len(Tail(q)) = Len(q) - 1
      /\ \A i \in 1..Len(Tail(q)) : Tail(q)[i] = q[i + 1]
  OBVIOUS
<1>2. r \in Seq(ChatCall) /\ Len(r) = Len(q) /\ \A i \in 1..Len(r) : r[i] = IF i = 1 THEN c ELSE q[i]
  BY <1>1
<1>3. calls' = [calls EXCEPT ![t] = r]
  BY DEF P!GoOn
<1> HIDE DEF r, q
<1>4. Requeued(q, r, c, 1, f) /\ 1 \in 1..Len(r) /\ f[1] = 0
  BY <1>1, <1>2 DEF Requeued
<1> HIDE DEF f
<1>5. QED
  BY <1>2, <1>3, <1>4 DEF q

(* What happens to the queue of a tab: the calls of it that remain, with c, and
   a page that is locked only for one of them. *)
LEMMA ChatStep ==
    ASSUME ChatInv, NEW t \in Tab, NEW c, NEW h \in {0, 1}, NEW r \in Seq(ChatCall), NEW f, NEW p \in P!Page,
           Requeued(calls[t], r, c, h, f),
           calls' = [calls EXCEPT ![t] = r], page' = [page EXCEPT ![t] = p],
           session' \in [P!Session -> {"free", "live", "deleted"}],
           log' \in [P!Session -> Seq(P!Message)],
           asked' \in [P!Prompt -> P!Session \cup {P!None}],
           P!FiledWhereAsked',
           c \in RunCall => \A u \in Tab : \A j \in 1..Len(calls[u]) :
               calls[u][j] \in RunCall /\ calls[u][j].prompt = c.prompt => u = t /\ j <= h,
           c \in RunCall => Tracked(c, asked', log'),
           \A u \in Tab : \A j \in 1..Len(calls[u]) :
               calls[u][j] \in RunCall /\ ~(u = t /\ j <= h) => Tracked(calls[u][j], asked', log'),
           p.status = "running" =>
               \/ page[t].status = "running" /\ (h = 1 => calls[t][1] \notin RunCall)
               \/ c \in RunCall /\ \E i \in 1..Len(r) : f[i] = 0,
           p.result # P!None <=> p.status \in {"done", "error"}
    PROVE  ChatInv'
<1>1. calls' \in [Tab -> Seq(ChatCall)] /\ \A u \in Tab : calls'[u] = IF u = t THEN r ELSE calls[u]
  BY DEF ChatInv
<1>2. P!TypeOK'
  BY DEF ChatInv, P!TypeOK
<1> DEFINE Old(i) == /\ f[i] \in 1..Len(calls[t]) /\ f[i] > h
                     /\ r[i] = calls[t][f[i]] /\ calls'[t][i] = r[i]
           New(i) == f[i] = 0 /\ r[i] = c /\ calls'[t][i] = c
<1>0. /\ calls'[t] = r /\ Len(calls[t]) \in Nat
      /\ \A i \in 1..Len(r) : Old(i) \/ New(i)
      /\ \A i, j \in 1..Len(r) : f[i] = f[j] => i = j
  <2>1. Len(calls[t]) \in Nat /\ calls'[t] = r
    BY <1>1 DEF ChatInv
  <2>2. \A i \in 1..Len(r) : f[i] \in {0} \cup (h + 1)..Len(calls[t])
    BY DEF Requeued
  <2>3. \A i \in 1..Len(r) : f[i] # 0 => f[i] \in 1..Len(calls[t]) /\ f[i] > h
    BY <2>1, <2>2
  <2>4. QED
    BY <2>1, <2>3 DEF Requeued
<1> HIDE DEF Old, New
<1>3. RunsOnce'
  <2> SUFFICES ASSUME NEW u \in Tab, NEW v \in Tab, NEW i \in 1..Len(calls'[u]), NEW j \in 1..Len(calls'[v]),
                      calls'[u][i] \in RunCall, calls'[v][j] \in RunCall,
                      calls'[u][i].prompt = calls'[v][j].prompt
               PROVE  u = v /\ i = j
    BY DEF RunsOnce
  <2>0. \A x, y \in Tab : \A k \in 1..Len(calls[x]), l \in 1..Len(calls[y]) :
           (calls[x][k] \in RunCall /\ calls[y][l] \in RunCall
            /\ calls[x][k].prompt = calls[y][l].prompt) => x = y /\ k = l
    BY DEF ChatInv, RunsOnce
  <2>6. \A x \in Tab : x # t => calls'[x] = calls[x]
    BY <1>1
  <2>1. CASE u # t /\ v # t
    <3>1. i \in 1..Len(calls[u]) /\ j \in 1..Len(calls[v])
          /\ calls'[u] = calls[u] /\ calls'[v] = calls[v]
      BY <2>1, <2>6
    <3>2. /\ calls[u][i] \in RunCall /\ calls[v][j] \in RunCall
          /\ calls[u][i].prompt = calls[v][j].prompt
      BY <3>1, Zenon
    <3>3. \A k \in 1..Len(calls[u]), l \in 1..Len(calls[v]) :
             (calls[u][k] \in RunCall /\ calls[v][l] \in RunCall
              /\ calls[u][k].prompt = calls[v][l].prompt) => u = v /\ k = l
      BY <2>0, Zenon
    <3> HIDE DEF RunCall
    <3>4. QED
      BY <3>1, <3>2, <3>3
  <2>2. CASE u = t /\ v # t
    <3>1. j \in 1..Len(calls[v]) /\ calls'[v] = calls[v] /\ i \in 1..Len(r)
      BY <1>0, <2>2, <2>6
    <3>2. CASE New(i)
      BY <2>2, <3>1, <3>2 DEF New
    <3>3. CASE Old(i)
      BY <2>2, <3>1, <3>3, <2>0 DEF Old
    <3>4. QED
      BY <1>0, <3>1, <3>2, <3>3
  <2>3. CASE u # t /\ v = t
    <3>1. i \in 1..Len(calls[u]) /\ calls'[u] = calls[u] /\ j \in 1..Len(r)
      BY <1>0, <2>3, <2>6
    <3>2. CASE New(j)
      BY <2>3, <3>1, <3>2 DEF New
    <3>3. CASE Old(j)
      BY <2>3, <3>1, <3>3, <2>0 DEF Old
    <3>4. QED
      BY <1>0, <3>1, <3>2, <3>3
  <2>4. CASE u = t /\ v = t
    <3>1. i \in 1..Len(r) /\ j \in 1..Len(r)
      BY <1>0, <2>4
    <3>2. CASE New(i) /\ New(j)
      BY <1>0, <2>4, <3>1, <3>2 DEF New
    <3>3. CASE Old(i) /\ Old(j)
      <4>1. f[i] = f[j]
        BY <2>0, <2>4, <3>3 DEF Old
      <4>2. QED
        BY <1>0, <2>4, <3>1, <4>1
    <3>4. CASE New(i) /\ Old(j)
      BY <1>0, <2>4, <3>4 DEF Old, New
    <3>5. CASE Old(i) /\ New(j)
      BY <1>0, <2>4, <3>5 DEF Old, New
    <3>6. QED
      BY <1>0, <3>1, <3>2, <3>3, <3>4, <3>5
  <2>5. QED
    BY <2>1, <2>2, <2>3, <2>4
<1>4. RunsTracked'
  <2> SUFFICES ASSUME NEW u \in Tab, NEW i \in 1..Len(calls'[u]), calls'[u][i] \in RunCall
               PROVE  Tracked(calls'[u][i], asked', log')
    BY DEF RunsTracked
  <2>1. CASE u # t
    <3>1. calls'[u][i] = calls[u][i] /\ i \in 1..Len(calls[u])
      BY <1>1, <2>1
    <3>2. QED
      BY <2>1, <3>1
  <2>2. CASE u = t /\ New(i)
    BY <2>2 DEF New
  <2>3. CASE u = t /\ Old(i)
    <3>1. f[i] \in 1..Len(calls[t]) /\ ~(u = t /\ f[i] <= h) /\ calls'[u][i] = calls[u][f[i]]
      BY <2>3 DEF Old
    <3>2. QED
      BY <3>1
  <2>4. QED
    BY <1>0, <2>1, <2>2, <2>3
<1>5. P!LocksAreTrue'
  <2> SUFFICES ASSUME NEW u \in Tab
               PROVE  /\ page'[u].status = "running" =>
                            \E i \in 1..Len(calls'[u]) : calls'[u][i].fn \in {"run", "answer"}
                      /\ page'[u].result # P!None <=> page'[u].status \in {"done", "error"}
    BY DEF P!LocksAreTrue, P!Waiting
  <2>1. \A v \in Tab : page'[v] = IF v = t THEN p ELSE page[v]
    BY DEF ChatInv, P!TypeOK
  <2>2. /\ page[u].status = "running" =>
              \E i \in 1..Len(calls[u]) : calls[u][i].fn \in {"run", "answer"}
        /\ page[u].result # P!None <=> page[u].status \in {"done", "error"}
    BY DEF ChatInv, P!LocksAreTrue, P!Waiting
  <2>3. CASE u # t
    BY <1>1, <2>1, <2>2, <2>3
  <2>4. CASE u = t /\ p.status = "running"
    <3>1. CASE c \in RunCall /\ \E i \in 1..Len(r) : f[i] = 0
      BY <1>1, <2>1, <2>4, <3>1 DEF Requeued, RunCall
    <3>2. CASE page[t].status = "running" /\ (h = 1 => calls[t][1] \notin RunCall)
      <4>1. PICK k \in 1..Len(calls[t]) : calls[t][k].fn \in {"run", "answer"}
        BY <2>2, <2>4, <3>2
      <4>2. calls[t][k] \in RunCall
        <5>1. calls[t][k] \in ChatCall
          BY DEF ChatInv
        <5>2. QED
          BY <4>1, <5>1 DEF ChatCall, RunCall
      <4>3. k \in (h + 1)..Len(calls[t])
        BY <3>2, <4>1, <4>2 DEF ChatInv
      <4>4. PICK i \in 1..Len(r) : f[i] = k
        BY <4>3 DEF Requeued
      <4>5. r[i] = calls[t][k]
        <5>1. k # 0
          OBVIOUS
        <5>2. QED
          BY <1>0, <4>4, <5>1 DEF Old, New
      <4>6. QED
        BY <1>1, <2>1, <2>4, <4>1, <4>5
    <3>3. QED
      BY <2>4, <3>1, <3>2
  <2>5. CASE u = t /\ p.status # "running"
    BY <2>1, <2>5
  <2>6. QED
    BY <2>3, <2>4, <2>5, <2>1, <2>2
<1>6. QED
  BY <1>1, <1>2, <1>3, <1>4, <1>5 DEF ChatInv

(* As long as nothing is saved, what was saved is where it was asked. *)
LEMMA StillFiled ==
    ASSUME ChatInv, UNCHANGED <<log, asked>>,
           \A s \in P!Session : session[s] = "live" => session'[s] = "live"
    PROVE  /\ P!FiledWhereAsked'
           /\ \A u \in Tab : \A j \in 1..Len(calls[u]) :
                 calls[u][j] \in RunCall => Tracked(calls[u][j], asked', log')
<1>1. P!FiledWhereAsked'
  BY DEF ChatInv, P!FiledWhereAsked
<1>2. QED
  BY <1>1 DEF ChatInv, RunsTracked

(* What is known of a page and of the sessions before a step. *)
LEMMA ChatTyped ==
    ASSUME ChatInv, NEW t \in Tab
    PROVE  /\ page[t] \in P!Page /\ P!None \notin P!Session /\ P!None \notin P!Prompt
           /\ page = [page EXCEPT ![t] = page[t]]
           /\ page[t].result # P!None <=> page[t].status \in {"done", "error"}
           /\ calls[t] \in Seq(ChatCall)
BY DEF ChatInv, P!TypeOK, P!LocksAreTrue, P!None, P!Session, P!Prompt

LEMMA OpenedPage ==
    ASSUME ChatInv, NEW p \in P!Page, NEW s \in P!Session \cup {P!None}
    PROVE  P!Opened(p, s) \in P!Page /\ P!Opened(p, s).status = "idle" /\ P!Opened(p, s).result = P!None
<1>1. <<>> \in Seq(P!Message)
  OBVIOUS
<1>2. QED
  BY <1>1 DEF P!Opened, P!Page

(* A call that asks for no run is queued, and the page changed or not. *)
LEMMA Handled ==
    ASSUME ChatInv, NEW t \in Tab, NEW c \in ChatCall \ RunCall, P!Ask(t, c), UNCHANGED <<session, log, asked>>,
           NEW p \in P!Page, page' = [page EXCEPT ![t] = p],
           p.status = "running" => page[t].status = "running",
           p.result # P!None <=> p.status \in {"done", "error"}
    PROVE  ChatInv'
<1>1. PICK r \in Seq(ChatCall) : \E f :
         calls' = [calls EXCEPT ![t] = r] /\ Requeued(calls[t], r, c, 0, f)
  BY Asked DEF ChatInv
<1>2. PICK f : calls' = [calls EXCEPT ![t] = r] /\ Requeued(calls[t], r, c, 0, f)
  BY <1>1
<1>3. /\ P!FiledWhereAsked'
      /\ \A u \in Tab : \A j \in 1..Len(calls[u]) :
            calls[u][j] \in RunCall => Tracked(calls[u][j], asked', log')
  BY StillFiled
<1>4. /\ session' \in [P!Session -> {"free", "live", "deleted"}]
      /\ log' \in [P!Session -> Seq(P!Message)]
      /\ asked' \in [P!Prompt -> P!Session \cup {P!None}]
  BY DEF ChatInv, P!TypeOK
<1>5. /\ c \notin RunCall /\ 0 \in {0, 1} /\ 0 # 1
      /\ \A u \in Tab : \A j \in 1..Len(calls[u]) :
            calls[u][j] \in RunCall /\ ~(u = t /\ j <= 0) => Tracked(calls[u][j], asked', log')
  BY <1>3
<1>6. QED
  BY <1>2, <1>3, <1>4, <1>5, ChatStep

LEMMA ChatClicks ==
    ASSUME ChatInv, NEW t \in Tab, NEW s \in P!Session,
           P!HandleSelectSession(t, s) \/ P!HandleDeleteSession(t, s) \/ P!HandleCreateSession(t)
    PROVE  ChatInv'
<1>1. CASE P!HandleSelectSession(t, s)
  <2>1. P!GetMessages(s) \in ChatCall \ RunCall
    BY DEF P!GetMessages, ChatCall, RunCall
  <2>2. P!Opened(page[t], s) \in P!Page
        /\ P!Opened(page[t], s).status = "idle" /\ P!Opened(page[t], s).result = P!None
    BY ChatTyped, OpenedPage
  <2>3. P!Ask(t, P!GetMessages(s)) /\ page' = [page EXCEPT ![t] = P!Opened(page[t], s)]
        /\ UNCHANGED <<session, log, asked>>
    BY <1>1 DEF P!HandleSelectSession
  <2>4. QED
    BY <2>1, <2>2, <2>3, Handled
<1>2. CASE P!HandleDeleteSession(t, s)
  <2> DEFINE c == [fn |-> "delete", session |-> s, active |-> page[t].active]
  <2>1. c \in ChatCall \ RunCall
    BY ChatTyped DEF ChatCall, RunCall, P!Page
  <2>2. P!Ask(t, c) /\ page' = [page EXCEPT ![t] = page[t]] /\ UNCHANGED <<session, log, asked>>
    BY <1>2, ChatTyped DEF P!HandleDeleteSession
  <2> HIDE DEF c
  <2>3. PICK p \in P!Page :
        /\ page' = [page EXCEPT ![t] = p]
        /\ p.status = "running" => page[t].status = "running"
        /\ p.result # P!None <=> p.status \in {"done", "error"}
    BY <2>2, ChatTyped
  <2>4. QED
    BY <2>1, <2>2, <2>3, Handled
<1>3. CASE P!HandleCreateSession(t)
  <2>1. [fn |-> "create"] \in ChatCall \ RunCall
    BY DEF ChatCall, RunCall
  <2>2. P!Ask(t, [fn |-> "create"]) /\ page' = [page EXCEPT ![t] = page[t]]
        /\ UNCHANGED <<session, log, asked>>
    BY <1>3, ChatTyped DEF P!HandleCreateSession
  <2>3. PICK p \in P!Page :
        /\ page' = [page EXCEPT ![t] = p]
        /\ p.status = "running" => page[t].status = "running"
        /\ p.result # P!None <=> p.status \in {"done", "error"}
    BY <2>2, ChatTyped
  <2>4. QED
    BY <2>1, <2>2, <2>3, Handled
<1>4. QED
  BY <1>1, <1>2, <1>3

(* A run is queued with a prompt that nobody has used. *)
LEMMA RunStarted == ASSUME ChatInv, NEW t \in Tab, P!HandleRun(t) PROVE ChatInv'
<1>1. page[t].active \in P!Session
  BY ChatTyped DEF P!HandleRun, P!Page
<1>2. PICK n \in P!Prompt :
         /\ P!Used = 1..(n - 1)
         /\ page' = [page EXCEPT ![t] = [@ EXCEPT !.shown = Append(page[t].shown, P!UserSaid(n)),
                                                  !.status = "running", !.result = P!None]]
         /\ P!Ask(t, [fn |-> "run", session |-> page[t].active, prompt |-> n,
                      msgs |-> Append(page[t].shown, P!UserSaid(n))])
         /\ asked' = [asked EXCEPT ![n] = page[t].active]
  BY DEF P!HandleRun
<1> DEFINE msgs == Append(page[t].shown, P!UserSaid(n))
           c == [fn |-> "run", session |-> page[t].active, prompt |-> n, msgs |-> msgs]
           p == [page[t] EXCEPT !.shown = msgs, !.status = "running", !.result = P!None]
<1>3. msgs \in Seq(P!Message)
  <2>1. page[t].shown \in Seq(P!Message) /\ P!UserSaid(n) \in P!Message
    BY ChatTyped DEF P!Page, P!UserSaid, P!Message
  <2>2. QED
    BY <2>1
<1>4. c \in RunCall /\ c \in ChatCall /\ c.prompt = n /\ c.session = page[t].active
  BY <1>1, <1>3 DEF ChatCall, RunCall
<1>5. p \in P!Page /\ p.status = "running" /\ p.result = P!None
  BY <1>3, ChatTyped DEF P!Page
<1>6. page' = [page EXCEPT ![t] = p] /\ P!Ask(t, c)
  BY <1>2
<1> HIDE DEF msgs, c, p
<1>7. n \notin P!Used
  BY <1>2 DEF P!Prompt
<1>8. asked[n] = P!None
  BY <1>7 DEF P!Used
<1>9. UNCHANGED <<session, log>> /\ asked' \in [P!Prompt -> P!Session \cup {P!None}]
      /\ \A m \in P!Prompt : m # n => asked'[m] = asked[m]
  BY <1>1, <1>2 DEF ChatInv, P!TypeOK, P!HandleRun
<1>10. asked'[n] = page[t].active
  BY <1>2 DEF ChatInv, P!TypeOK
<1>11. \A s \in P!Session : \A k \in 1..Len(log[s]) :
          log[s][k].prompt \in P!Prompt /\ log[s][k].prompt # n
  <2> SUFFICES ASSUME NEW s \in P!Session, NEW k \in 1..Len(log[s])
               PROVE  log[s][k].prompt \in P!Prompt /\ log[s][k].prompt # n
    OBVIOUS
  <2>1. asked[log[s][k].prompt] = s
    BY DEF ChatInv, P!FiledWhereAsked
  <2>2. log[s][k] \in P!Message
    BY DEF ChatInv, P!TypeOK
  <2>3. QED
    BY <1>8, <2>1, <2>2, ChatTyped DEF P!Message
<1>12. P!FiledWhereAsked'
  <2> SUFFICES ASSUME NEW s \in P!Session
               PROVE  /\ log'[s] # <<>> => session'[s] = "live"
                      /\ \A i \in 1..Len(log'[s]) :
                            /\ asked'[log'[s][i].prompt] = s
                            /\ \A j \in 1..(i - 1) : log'[s][j].prompt = log'[s][i].prompt =>
                                  log'[s][j].role = "user" /\ log'[s][i].role = "assistant"
    BY DEF P!FiledWhereAsked
  <2>1. log' = log /\ session' = session
    BY <1>9
  <2>2. \A i \in 1..Len(log[s]) : asked'[log[s][i].prompt] = asked[log[s][i].prompt]
    BY <1>9, <1>11
  <2>3. /\ log[s] # <<>> => session[s] = "live"
        /\ \A i \in 1..Len(log[s]) :
              /\ asked[log[s][i].prompt] = s
              /\ \A j \in 1..(i - 1) : log[s][j].prompt = log[s][i].prompt =>
                    log[s][j].role = "user" /\ log[s][i].role = "assistant"
    BY DEF ChatInv, P!FiledWhereAsked
  <2>4. QED
    BY <2>1, <2>2, <2>3, Zenon
<1>13. \A u \in Tab : \A j \in 1..Len(calls[u]) : calls[u][j] \in RunCall =>
          calls[u][j].prompt # n /\ Tracked(calls[u][j], asked', log')
  <2> SUFFICES ASSUME NEW u \in Tab, NEW j \in 1..Len(calls[u]), calls[u][j] \in RunCall
               PROVE  calls[u][j].prompt # n /\ Tracked(calls[u][j], asked', log')
    OBVIOUS
  <2>1. Tracked(calls[u][j], asked, log)
    BY DEF ChatInv, RunsTracked
  <2>2. calls[u][j].prompt \in P!Prompt /\ calls[u][j].session \in P!Session
    BY DEF RunCall
  <2>3. calls[u][j].prompt # n
    BY <1>8, <2>1, <2>2, ChatTyped DEF Tracked
  <2>4. QED
    BY <1>9, <2>1, <2>2, <2>3 DEF Tracked
<1>14. Tracked(c, asked', log')
  BY <1>4, <1>9, <1>10, <1>11 DEF Tracked
<1>15. PICK r \in Seq(ChatCall) : \E f :
         calls' = [calls EXCEPT ![t] = r] /\ Requeued(calls[t], r, c, 0, f) /\ \E i \in 1..Len(r) : f[i] = 0
  BY <1>4, <1>6, Asked DEF ChatInv
<1>16. PICK f :
         calls' = [calls EXCEPT ![t] = r] /\ Requeued(calls[t], r, c, 0, f) /\ \E i \in 1..Len(r) : f[i] = 0
  BY <1>15
<1>17. session' \in [P!Session -> {"free", "live", "deleted"}] /\ log' \in [P!Session -> Seq(P!Message)]
  BY <1>9 DEF ChatInv, P!TypeOK
<1>18. \A u \in Tab : \A j \in 1..Len(calls[u]) :
          ~(calls[u][j] \in RunCall /\ calls[u][j].prompt = c.prompt)
  BY <1>4, <1>13
<1>19. QED
  BY <1>4, <1>5, <1>6, <1>9, <1>12, <1>13, <1>14, <1>16, <1>17, <1>18, ChatStep

(* The call under way, by its name. *)
LEMMA ChatHead ==
    ASSUME ChatInv, NEW t \in Tab, NEW fn, P!Busy(t, fn)
    PROVE  /\ calls[t] # <<>> /\ 1 \in 1..Len(calls[t]) /\ calls[t][1] = Head(calls[t])
           /\ Head(calls[t]) \in ChatCall /\ Head(calls[t]).fn = fn
           /\ fn \in {"run", "answer"} <=> Head(calls[t]) \in RunCall
           /\ fn \in {"messages", "delete"} => Head(calls[t]).session \in P!Session
           /\ fn = "delete" => Head(calls[t]).active \in P!Session \cup {P!None}
<1>1. calls[t] \in Seq(ChatCall) /\ calls[t] # <<>> /\ Head(calls[t]).fn = fn
  BY DEF ChatInv, P!Busy
<1>2. Head(calls[t]) \in ChatCall /\ 1 \in 1..Len(calls[t]) /\ calls[t][1] = Head(calls[t])
  BY <1>1
<1>3. QED
  BY <1>1, <1>2 DEF ChatCall, RunCall

(* A call is answered that saves nothing. *)
LEMMA Served ==
    ASSUME ChatInv, NEW t \in Tab, calls[t] # <<>>, NEW c \in ChatCall \ RunCall,
           P!Answer(t, <<>>) \/ P!Answer(t, <<c>>), UNCHANGED <<log, asked>>,
           session' \in [P!Session -> {"free", "live", "deleted"}],
           \A s \in P!Session : session[s] = "live" => session'[s] = "live",
           NEW p \in P!Page, page' = [page EXCEPT ![t] = p],
           p.status = "running" => page[t].status = "running" /\ calls[t][1] \notin RunCall,
           p.result # P!None <=> p.status \in {"done", "error"}
    PROVE  ChatInv'
<1>1. PICK r \in Seq(ChatCall) : \E f :
         calls' = [calls EXCEPT ![t] = r] /\ Requeued(calls[t], r, c, 1, f)
  BY AnsweredQueue DEF ChatInv
<1>2. PICK f : calls' = [calls EXCEPT ![t] = r] /\ Requeued(calls[t], r, c, 1, f)
  BY <1>1
<1>3. /\ P!FiledWhereAsked'
      /\ \A u \in Tab : \A j \in 1..Len(calls[u]) :
            calls[u][j] \in RunCall => Tracked(calls[u][j], asked', log')
  BY StillFiled
<1>4. /\ log' \in [P!Session -> Seq(P!Message)]
      /\ asked' \in [P!Prompt -> P!Session \cup {P!None}]
  BY DEF ChatInv, P!TypeOK
<1>5. /\ c \notin RunCall /\ 1 \in {0, 1}
      /\ \A u \in Tab : \A j \in 1..Len(calls[u]) :
            calls[u][j] \in RunCall /\ ~(u = t /\ j <= 1) => Tracked(calls[u][j], asked', log')
  BY <1>3
<1>6. QED
  BY <1>2, <1>3, <1>4, <1>5, ChatStep

LEMMA ListServed == ASSUME ChatInv, NEW t \in Tab, P!LoadSessions(t) PROVE ChatInv'
<1>1. calls[t] # <<>> /\ calls[t][1] \notin RunCall
  <2>1. P!Busy(t, "list")
    BY DEF P!LoadSessions
  <2>2. QED
    BY <2>1, ChatHead
<1>2. /\ UNCHANGED <<log, asked>> /\ session' \in [P!Session -> {"free", "live", "deleted"}]
      /\ \A s \in P!Session : session[s] = "live" => session'[s] = "live"
  BY DEF P!LoadSessions, ChatInv, P!TypeOK
<1>3. ASSUME NEW s \in P!Session,
             page' = [page EXCEPT ![t] =
                [P!Opened(@, s) EXCEPT !.listed = {x \in P!Session : P!IsLive(x)}, !.loading = FALSE]],
             P!Answer(t, <<P!GetMessages(s)>>)
      PROVE  ChatInv'
  <2>1. P!GetMessages(s) \in ChatCall \ RunCall
    BY DEF P!GetMessages, ChatCall, RunCall
  <2>2. PICK o \in P!Page : o = P!Opened(page[t], s) /\ o.status = "idle" /\ o.result = P!None
    BY ChatTyped, OpenedPage
  <2>3. PICK l \in SUBSET P!Session : l = {x \in P!Session : P!IsLive(x)}
    OBVIOUS
  <2> DEFINE new == [o EXCEPT !.listed = l, !.loading = FALSE]
  <2>7. new \in P!Page /\ new.status = "idle" /\ new.result = P!None
    BY <2>2, <2>3 DEF P!Page
  <2>4. PICK p \in P!Page : p = new /\ p.status = "idle" /\ p.result = P!None
    BY <2>7
  <2>5. page' = [page EXCEPT ![t] = p]
    BY <1>3, <2>2, <2>3, <2>4
  <2>6. QED
    BY <1>1, <1>2, <1>3, <2>1, <2>4, <2>5, Served
<1>4. ASSUME page' = [page EXCEPT ![t].loading = FALSE], P!Answer(t, <<>>)
      PROVE  ChatInv'
  <2> DEFINE new == [page[t] EXCEPT !.loading = FALSE]
  <2>5. new \in P!Page /\ new.status = page[t].status /\ new.result = page[t].result
    BY ChatTyped DEF P!Page
  <2>1. PICK p \in P!Page : p = new /\ p.status = page[t].status /\ p.result = page[t].result
    BY <2>5
  <2>2. page' = [page EXCEPT ![t] = p]
    BY <1>4, <2>1
  <2>3. [fn |-> "list"] \in ChatCall \ RunCall
    BY DEF ChatCall, RunCall
  <2>6. /\ p.status = "running" => page[t].status = "running" /\ calls[t][1] \notin RunCall
        /\ p.result # P!None <=> p.status \in {"done", "error"}
    BY <1>1, <2>1, ChatTyped
  <2>4. QED
    BY <1>1, <1>2, <1>4, <2>2, <2>3, <2>6, Served
<1>5. QED
  BY <1>3, <1>4 DEF P!LoadSessions

LEMMA MessagesServed == ASSUME ChatInv, NEW t \in Tab, P!GetSessionMessages(t) PROVE ChatInv'
<1>1. P!Busy(t, "messages") /\ P!Answer(t, <<>>) /\ UNCHANGED <<session, log, asked>>
  BY DEF P!GetSessionMessages
<1>2. calls[t] # <<>> /\ calls[t][1] \notin RunCall /\ Head(calls[t]).session \in P!Session
  BY <1>1, ChatHead
<1>3. PICK msgs \in {log[Head(calls[t]).session], <<>>, page[t].shown} : page' = [page EXCEPT ![t].shown = msgs]
  BY DEF P!GetSessionMessages
<1>4. msgs \in Seq(P!Message)
  <2>1. log[Head(calls[t]).session] \in Seq(P!Message) /\ <<>> \in Seq(P!Message)
    BY <1>2 DEF ChatInv, P!TypeOK
  <2>2. page[t].shown \in Seq(P!Message)
    BY ChatTyped DEF P!Page
  <2>3. QED
    BY <2>1, <2>2
<1> DEFINE new == [page[t] EXCEPT !.shown = msgs]
<1>9. new \in P!Page /\ new.status = page[t].status /\ new.result = page[t].result
  BY <1>4, ChatTyped DEF P!Page
<1>5. PICK p \in P!Page : p = new /\ p.status = page[t].status /\ p.result = page[t].result
  BY <1>9
<1>6. page' = [page EXCEPT ![t] = p]
  BY <1>3, <1>5
<1>7. [fn |-> "list"] \in ChatCall \ RunCall /\ session' \in [P!Session -> {"free", "live", "deleted"}]
  BY <1>1 DEF ChatCall, RunCall, ChatInv, P!TypeOK
<1>8. QED
  BY <1>1, <1>2, <1>5, <1>6, <1>7, ChatTyped, Served

LEMMA CreateServed == ASSUME ChatInv, NEW t \in Tab, P!CreateSession(t) PROVE ChatInv'
<1>1. P!Busy(t, "create") /\ P!Answer(t, <<>>) /\ UNCHANGED <<log, asked>>
  BY DEF P!CreateSession
<1>2. calls[t] # <<>> /\ calls[t][1] \notin RunCall
  BY <1>1, ChatHead
<1>3. [fn |-> "list"] \in ChatCall \ RunCall
  BY DEF ChatCall, RunCall
<1>4. /\ session' \in [P!Session -> {"free", "live", "deleted"}]
      /\ \A s \in P!Session : session[s] = "live" => session'[s] = "live"
  BY DEF P!CreateSession, ChatInv, P!TypeOK
<1>5. \E p \in P!Page : /\ page' = [page EXCEPT ![t] = p]
                        /\ p.status = "running" => page[t].status = "running"
                        /\ p.result # P!None <=> p.status \in {"done", "error"}
  <2>1. CASE page' = page
    BY <2>1, ChatTyped
  <2>2. ASSUME NEW s \in P!Session, page' = [page EXCEPT ![t] = P!Created(@, s)]
        PROVE  \E p \in P!Page : /\ page' = [page EXCEPT ![t] = p] /\ p.status = "idle" /\ p.result = P!None
    <3>1. PICK o \in P!Page : o = P!Opened(page[t], s) /\ o.status = "idle" /\ o.result = P!None
      BY ChatTyped, OpenedPage
    <3>2. P!Created(page[t], s) = [o EXCEPT !.listed = page[t].listed \cup {s}]
          /\ page[t].listed \in SUBSET P!Session
      BY <3>1, ChatTyped DEF P!Created, P!Page
    <3>3. P!Created(page[t], s) \in P!Page
          /\ P!Created(page[t], s).status = "idle" /\ P!Created(page[t], s).result = P!None
      BY <3>1, <3>2 DEF P!Page
    <3>4. QED
      BY <2>2, <3>3
  <2>3. CASE \E s \in P!Session : page' = [page EXCEPT ![t] = P!Created(@, s)]
    BY <2>2, <2>3
  <2>4. QED
    BY <2>1, <2>3 DEF P!CreateSession
<1>6. QED
  BY <1>1, <1>2, <1>3, <1>4, <1>5, Served

LEMMA RunFailure == ASSUME ChatInv, NEW t \in Tab, P!RunFailed(t) PROVE ChatInv'
<1>1. calls[t] # <<>> /\ Head(calls[t]).prompt \in P!Prompt
  BY ChatHead DEF P!RunFailed, RunCall
<1>2. P!Answer(t, <<>>) /\ UNCHANGED <<session, log, asked>>
  BY DEF P!RunFailed
<1> DEFINE new == [page[t] EXCEPT !.result = Head(calls[t]).prompt, !.status = "error"]
<1>7. new \in P!Page /\ new.status = "error" /\ new.result # P!None
  BY <1>1, ChatTyped DEF P!Page
<1>3. PICK p \in P!Page : p = new /\ p.status = "error" /\ p.result # P!None
  BY <1>7
<1>4. page' = [page EXCEPT ![t] = p]
  BY <1>3 DEF P!RunFailed
<1>5. [fn |-> "list"] \in ChatCall \ RunCall /\ session' \in [P!Session -> {"free", "live", "deleted"}]
  BY <1>2 DEF ChatCall, RunCall, ChatInv, P!TypeOK
<1>6. QED
  BY <1>1, <1>2, <1>3, <1>4, <1>5, Served

(* A session goes, and its messages with it. *)
LEMMA Emptied ==
    ASSUME ChatInv, NEW s \in P!Session, session' = [session EXCEPT ![s] = "deleted"],
           log' = [log EXCEPT ![s] = <<>>], asked' = asked
    PROVE  /\ session' \in [P!Session -> {"free", "live", "deleted"}]
           /\ log' \in [P!Session -> Seq(P!Message)]
           /\ asked' \in [P!Prompt -> P!Session \cup {P!None}]
           /\ P!FiledWhereAsked'
           /\ \A u \in Tab : \A j \in 1..Len(calls[u]) :
                 calls[u][j] \in RunCall => Tracked(calls[u][j], asked', log')
<1>1. <<>> \in Seq(P!Message) /\ Len(<<>>) = 0
  OBVIOUS
<1>2. /\ session' \in [P!Session -> {"free", "live", "deleted"}]
      /\ log' \in [P!Session -> Seq(P!Message)]
      /\ asked' \in [P!Prompt -> P!Session \cup {P!None}]
  BY <1>1 DEF ChatInv, P!TypeOK
<1>3. /\ log'[s] = <<>>
      /\ \A x \in P!Session : x # s => log'[x] = log[x] /\ session'[x] = session[x]
  BY DEF ChatInv, P!TypeOK
<1>4. P!FiledWhereAsked'
  <2> SUFFICES ASSUME NEW x \in P!Session
               PROVE  /\ log'[x] # <<>> => session'[x] = "live"
                      /\ \A i \in 1..Len(log'[x]) :
                            /\ asked'[log'[x][i].prompt] = x
                            /\ \A j \in 1..(i - 1) : log'[x][j].prompt = log'[x][i].prompt =>
                                  log'[x][j].role = "user" /\ log'[x][i].role = "assistant"
    BY DEF P!FiledWhereAsked
  <2>1. CASE x = s
    BY <1>1, <1>3, <2>1
  <2>2. CASE x # s
    BY <1>3, <2>2 DEF ChatInv, P!FiledWhereAsked
  <2>3. QED
    BY <2>1, <2>2
<1>5. ASSUME NEW u \in Tab, NEW j \in 1..Len(calls[u]), calls[u][j] \in RunCall
      PROVE  Tracked(calls[u][j], asked', log')
  <2>1. Tracked(calls[u][j], asked, log)
    BY <1>5 DEF ChatInv, RunsTracked
  <2>2. QED
    BY <1>1, <1>3, <2>1 DEF Tracked
<1>6. QED
  BY <1>2, <1>4, <1>5

LEMMA DeleteServed == ASSUME ChatInv, NEW t \in Tab, P!DeleteSession(t) PROVE ChatInv'
<1> DEFINE c == Head(calls[t])
<1>1. P!Busy(t, "delete") /\ P!Answer(t, <<>>) /\ asked' = asked
  BY DEF P!DeleteSession
<1>2. calls[t] # <<>> /\ calls[t][1] \notin RunCall /\ c.session \in P!Session
      /\ c.active \in P!Session \cup {P!None}
  BY <1>1, ChatHead
<1>3. PICK l \in ChatCall \ RunCall : l = [fn |-> "list"]
  BY DEF ChatCall, RunCall
<1>4. CASE UNCHANGED <<session, log, page>>
  <2>1. PICK p \in P!Page : /\ page' = [page EXCEPT ![t] = p] /\ p = page[t]
                            /\ p.result # P!None <=> p.status \in {"done", "error"}
    BY <1>4, ChatTyped
  <2>2. UNCHANGED <<log, asked>> /\ session' \in [P!Session -> {"free", "live", "deleted"}]
        /\ \A s \in P!Session : session[s] = "live" => session'[s] = "live"
    BY <1>1, <1>4 DEF ChatInv, P!TypeOK
  <2>3. p.status = "running" => page[t].status = "running" /\ calls[t][1] \notin RunCall
    BY <1>2, <2>1
  <2>4. QED
    BY <1>1, <1>2, <1>3, <2>1, <2>2, <2>3, Served
<1>5. CASE /\ session' = [session EXCEPT ![c.session] = "deleted"]
           /\ log' = [log EXCEPT ![c.session] = <<>>]
           /\ page' \in {page, [page EXCEPT ![t] = P!Deleted(@, c)]}
  <2>1. /\ P!Deleted(page[t], c) \in P!Page
        /\ P!Deleted(page[t], c).status \in {"idle", page[t].status}
        /\ P!Deleted(page[t], c).result # P!None <=> P!Deleted(page[t], c).status \in {"done", "error"}
    <3> DEFINE q == [page[t] EXCEPT !.listed = @ \ {c.session}]
    <3> HIDE DEF c
    <3>1. q \in P!Page /\ q.status = page[t].status /\ q.result = page[t].result
      BY ChatTyped DEF P!Page
    <3>2. P!None \in P!Session \cup {P!None}
      OBVIOUS
    <3>3. P!Deleted(page[t], c) = IF c.active = c.session THEN P!Opened(q, P!None) ELSE q
      BY DEF P!Deleted
    <3> HIDE DEF q
    <3>4. QED
      BY <3>1, <3>2, <3>3, ChatTyped, OpenedPage
  <2>2. PICK p \in P!Page : /\ page' = [page EXCEPT ![t] = p] /\ p.status \in {"idle", page[t].status}
                            /\ p.result # P!None <=> p.status \in {"done", "error"}
    <3>1. CASE page' = page
      BY <3>1, ChatTyped
    <3>2. CASE page' = [page EXCEPT ![t] = P!Deleted(@, c)]
      <4>1. PICK d \in P!Page : /\ d = P!Deleted(page[t], c) /\ d.status \in {"idle", page[t].status}
                                /\ d.result # P!None <=> d.status \in {"done", "error"}
        BY <2>1
      <4>2. page' = [page EXCEPT ![t] = d]
        BY <3>2, <4>1
      <4>3. QED
        BY <4>1, <4>2
    <3>3. QED
      BY <1>5, <3>1, <3>2
  <2>3. PICK s \in P!Session : s = c.session
    BY <1>2
  <2>4. /\ session' \in [P!Session -> {"free", "live", "deleted"}]
        /\ log' \in [P!Session -> Seq(P!Message)]
        /\ asked' \in [P!Prompt -> P!Session \cup {P!None}]
        /\ P!FiledWhereAsked'
        /\ \A u \in Tab : \A j \in 1..Len(calls[u]) :
              calls[u][j] \in RunCall => Tracked(calls[u][j], asked', log')
    BY <1>1, <1>5, <2>3, Emptied
  <2>5. PICK r \in Seq(ChatCall) : \E f :
           calls' = [calls EXCEPT ![t] = r] /\ Requeued(calls[t], r, l, 1, f)
    BY <1>1, <1>2, AnsweredQueue DEF ChatInv
  <2>6. PICK f : calls' = [calls EXCEPT ![t] = r] /\ Requeued(calls[t], r, l, 1, f)
    BY <2>5
  <2>7. /\ l \notin RunCall /\ 1 \in {0, 1}
        /\ \A u \in Tab : \A j \in 1..Len(calls[u]) :
              calls[u][j] \in RunCall /\ ~(u = t /\ j <= 1) => Tracked(calls[u][j], asked', log')
        /\ p.status = "running" => page[t].status = "running" /\ calls[t][1] \notin RunCall
    BY <1>2, <2>2, <2>4
  <2>8. QED
    BY <2>2, <2>4, <2>6, <2>7, ChatStep
<1>6. QED
  BY <1>4, <1>5 DEF P!DeleteSession

LEMMA ElsewhereDeleted == ASSUME ChatInv, NEW s \in P!Session, P!DeletedElsewhere(s) PROVE ChatInv'
<1>1. /\ session' = [session EXCEPT ![s] = "deleted"] /\ log' = [log EXCEPT ![s] = <<>>]
      /\ UNCHANGED <<asked, page, calls>>
  BY DEF P!DeletedElsewhere
<1>2. /\ session' \in [P!Session -> {"free", "live", "deleted"}]
      /\ log' \in [P!Session -> Seq(P!Message)]
      /\ asked' \in [P!Prompt -> P!Session \cup {P!None}]
      /\ P!FiledWhereAsked'
      /\ \A u \in Tab : \A j \in 1..Len(calls[u]) :
            calls[u][j] \in RunCall => Tracked(calls[u][j], asked', log')
  BY <1>1, Emptied
<1>3. P!LocksAreTrue'
  BY <1>1 DEF ChatInv, P!LocksAreTrue, P!Waiting
<1>4. P!TypeOK'
  BY <1>1, <1>2 DEF ChatInv, P!TypeOK
<1>5. RunsOnce' /\ RunsTracked' /\ calls' \in [Tab -> Seq(ChatCall)]
  <2>1. calls' = calls
    BY <1>1
  <2>2. RunsOnce'
    BY <2>1 DEF ChatInv, RunsOnce
  <2>3. RunsTracked'
    BY <1>2, <2>1 DEF RunsTracked
  <2>4. QED
    BY <2>1, <2>2, <2>3 DEF ChatInv
<1>6. QED
  BY <1>2, <1>3, <1>4, <1>5 DEF ChatInv

(* What AppendMessage does: m at the end of the messages of s, or nothing. *)
LEMMA Appended ==
    ASSUME ChatInv, NEW s \in P!Session, NEW m \in P!Message, P!AppendMessage(s, m)
    PROVE  /\ log' \in [P!Session -> Seq(P!Message)]
           /\ log' = log \/ (/\ session[s] = "live" /\ Len(log'[s]) = Len(log[s]) + 1
                             /\ Len(log[s]) \in Nat /\ log'[s][Len(log[s]) + 1] = m
                             /\ \A k \in 1..Len(log[s]) : log'[s][k] = log[s][k]
                             /\ \A x \in P!Session : x # s => log'[x] = log[x])
<1>1. CASE log' = log
  BY <1>1 DEF ChatInv, P!TypeOK
<1>2. CASE P!IsLive(s) /\ log' = [log EXCEPT ![s] = Append(@, m)]
  <2>1. log \in [P!Session -> Seq(P!Message)] /\ log[s] \in Seq(P!Message)
    BY DEF ChatInv, P!TypeOK
  <2>2. Append(log[s], m) \in Seq(P!Message) /\ Len(Append(log[s], m)) = Len(log[s]) + 1
        /\ Len(log[s]) \in Nat /\ Append(log[s], m)[Len(log[s]) + 1] = m
        /\ \A k \in 1..Len(log[s]) : Append(log[s], m)[k] = log[s][k]
    BY <2>1
  <2>3. log'[s] = Append(log[s], m) /\ \A x \in P!Session : x # s => log'[x] = log[x]
    BY <1>2, <2>1
  <2>4. log' \in [P!Session -> Seq(P!Message)]
    BY <1>2, <2>1, <2>2
  <2>5. QED
    BY <1>2, <2>2, <2>3, <2>4 DEF P!IsLive
<1>3. QED
  BY <1>1, <1>2 DEF P!AppendMessage

(* Saving a message of run c keeps the messages in order and the other runs
   tracked. *)
LEMMA Saved ==
    ASSUME ChatInv, NEW t \in Tab, NEW c \in RunCall, 1 \in 1..Len(calls[t]), calls[t][1] = c, NEW m \in P!Message,
           P!AppendMessage(c.session, m), m.prompt = c.prompt, UNCHANGED <<session, asked>>,
           (c.fn = "run" /\ m.role = "user") \/ (c.fn = "answer" /\ m.role = "assistant")
    PROVE  /\ P!FiledWhereAsked' /\ log' \in [P!Session -> Seq(P!Message)]
           /\ \A u \in Tab : \A j \in 1..Len(calls[u]) :
                 calls[u][j] \in RunCall /\ ~(u = t /\ j <= 1) =>
                     calls[u][j].prompt # c.prompt /\ Tracked(calls[u][j], asked', log')
           /\ c.fn = "run" => Tracked([c EXCEPT !.fn = "answer"], asked', log')
<1> DEFINE s == c.session
<1>1. s \in P!Session /\ Tracked(c, asked, log)
  BY DEF RunCall, ChatInv, RunsTracked
<1>2. /\ log' \in [P!Session -> Seq(P!Message)]
      /\ log' = log \/ (/\ session[s] = "live" /\ Len(log'[s]) = Len(log[s]) + 1
                        /\ Len(log[s]) \in Nat /\ log'[s][Len(log[s]) + 1] = m
                        /\ \A k \in 1..Len(log[s]) : log'[s][k] = log[s][k]
                        /\ \A x \in P!Session : x # s => log'[x] = log[x])
  BY <1>1, Appended
<1> HIDE DEF s
<1>3. \A x \in P!Session : \A k \in 1..Len(log'[x]) :
         \/ k \in 1..Len(log[x]) /\ log'[x][k] = log[x][k]
         \/ x = s /\ k = Len(log[s]) + 1 /\ log'[x][k] = m
  BY <1>1, <1>2
<1>4. \A x \in P!Session : log'[x] # <<>> => session'[x] = "live"
  <2> TAKE x \in P!Session
  <2>1. CASE log'[x] = log[x]
    BY <2>1 DEF ChatInv, P!FiledWhereAsked
  <2>2. CASE x = s /\ session[s] = "live"
    BY <2>2
  <2>3. QED
    BY <1>2, <2>1, <2>2
<1>5. P!FiledWhereAsked'
  <2> SUFFICES ASSUME NEW x \in P!Session, NEW i \in 1..Len(log'[x])
               PROVE  /\ asked'[log'[x][i].prompt] = x
                      /\ \A j \in 1..(i - 1) : log'[x][j].prompt = log'[x][i].prompt =>
                            log'[x][j].role = "user" /\ log'[x][i].role = "assistant"
    BY <1>4 DEF P!FiledWhereAsked
  <2>1. Len(log[x]) \in Nat /\ Len(log'[x]) \in Nat
    BY <1>2 DEF ChatInv, P!TypeOK
  <2>2. CASE i \in 1..Len(log[x]) /\ log'[x][i] = log[x][i]
    <3>1. ASSUME NEW j \in 1..(i - 1)
          PROVE  j \in 1..Len(log[x]) /\ log'[x][j] = log[x][j]
      <4>1. j \in 1..Len(log[x]) /\ j \in 1..Len(log'[x]) /\ j # Len(log[x]) + 1
        BY <2>1, <2>2
      <4>2. QED
        BY <1>3, <4>1
    <3>2. QED
      <4>1. /\ asked[log[x][i].prompt] = x
            /\ \A j \in 1..(i - 1) : log[x][j].prompt = log[x][i].prompt =>
                  log[x][j].role = "user" /\ log[x][i].role = "assistant"
        BY <2>2 DEF ChatInv, P!FiledWhereAsked
      <4>2. QED
        BY <2>2, <3>1, <4>1
  <2>3. CASE x = s /\ i = Len(log[s]) + 1 /\ log'[x][i] = m
    <3>1. asked'[m.prompt] = s
      BY <1>1 DEF Tracked, s
    <3>2. ASSUME NEW j \in 1..(i - 1), log'[x][j].prompt = m.prompt
          PROVE  log'[x][j].role = "user" /\ m.role = "assistant"
      <4>1. j \in 1..Len(log[s]) /\ log'[x][j] = log[s][j]
        BY <1>3, <2>1, <2>3
      <4>2. QED
        BY <1>1, <2>3, <3>2, <4>1 DEF Tracked
    <3>3. QED
      BY <2>3, <3>1, <3>2
  <2>4. QED
    BY <1>3, <2>2, <2>3
<1>6. ASSUME NEW u \in Tab, NEW j \in 1..Len(calls[u]), calls[u][j] \in RunCall, ~(u = t /\ j <= 1)
      PROVE  calls[u][j].prompt # c.prompt /\ Tracked(calls[u][j], asked', log')
  <2>1. Tracked(calls[u][j], asked, log)
    BY <1>6 DEF ChatInv, RunsTracked
  <2>2. calls[u][j].prompt # c.prompt
    BY <1>6 DEF ChatInv, RunsOnce
  <2>3. QED
    BY <1>3, <2>1, <2>2 DEF Tracked
<1>7. ASSUME c.fn = "run" PROVE Tracked([c EXCEPT !.fn = "answer"], asked', log')
  <2> DEFINE d == [c EXCEPT !.fn = "answer"]
  <2>1. d.prompt = c.prompt /\ d.session = c.session /\ d.fn = "answer"
    BY DEF RunCall
  <2> HIDE DEF d
  <2>2. m.role = "user"
    BY <1>7
  <2>3. Tracked(d, asked', log')
    BY <1>1, <1>3, <1>7, <2>1, <2>2 DEF Tracked
  <2>4. QED
    BY <2>3 DEF d
<1>8. QED
  BY <1>2, <1>5, <1>6, <1>7

(* The head is answered or goes on, and saves a message. *)
LEMMA PromptServed == ASSUME ChatInv, NEW t \in Tab, P!Prompted(t) PROVE ChatInv'
<1>1. P!Busy(t, "run") /\ UNCHANGED <<session, asked, page>>
  BY DEF P!Prompted
<1>2. PICK c \in RunCall : c = Head(calls[t]) /\ c.fn = "run"
  BY <1>1, ChatHead
<1>3. calls[t] # <<>> /\ 1 \in 1..Len(calls[t]) /\ calls[t][1] = c
  BY <1>1, <1>2, ChatHead
<1>4. c.session \in P!Session /\ c.prompt \in P!Prompt
  BY DEF RunCall
<1>5. P!AppendMessage(c.session, P!UserSaid(c.prompt)) /\ P!GoOn(t, [c EXCEPT !.fn = "answer"])
  BY <1>2 DEF P!Prompted
<1>6. P!UserSaid(c.prompt) \in P!Message /\ P!UserSaid(c.prompt).prompt = c.prompt
      /\ P!UserSaid(c.prompt).role = "user"
  BY <1>4 DEF P!UserSaid, P!Message
<1>7. /\ P!FiledWhereAsked' /\ log' \in [P!Session -> Seq(P!Message)]
      /\ \A u \in Tab : \A j \in 1..Len(calls[u]) :
            calls[u][j] \in RunCall /\ ~(u = t /\ j <= 1) =>
                calls[u][j].prompt # c.prompt /\ Tracked(calls[u][j], asked', log')
      /\ Tracked([c EXCEPT !.fn = "answer"], asked', log')
  <2>1. PICK m \in P!Message : m = P!UserSaid(c.prompt) /\ m.prompt = c.prompt /\ m.role = "user"
    BY <1>6
  <2>2. P!AppendMessage(c.session, m)
    BY <1>5, <2>1
  <2>3. /\ UNCHANGED <<session, asked>>
        /\ (c.fn = "run" /\ m.role = "user") \/ (c.fn = "answer" /\ m.role = "assistant")
    BY <1>1, <1>2, <2>1
  <2>4. /\ P!FiledWhereAsked' /\ log' \in [P!Session -> Seq(P!Message)]
        /\ \A u \in Tab : \A j \in 1..Len(calls[u]) :
              calls[u][j] \in RunCall /\ ~(u = t /\ j <= 1) =>
                  calls[u][j].prompt # c.prompt /\ Tracked(calls[u][j], asked', log')
        /\ c.fn = "run" => Tracked([c EXCEPT !.fn = "answer"], asked', log')
    BY <1>3, <2>1, <2>2, <2>3, Saved
  <2>5. QED
    BY <1>2, <2>4
<1> DEFINE new == [c EXCEPT !.fn = "answer"]
<1>16. new \in RunCall /\ new.prompt = c.prompt
  BY <1>2 DEF RunCall
<1>8. PICK d \in RunCall : d = new /\ d.prompt = c.prompt
  BY <1>16
<1>9. d \in ChatCall
  BY DEF ChatCall
<1>10. PICK r \in Seq(ChatCall) : \E f :
          /\ calls' = [calls EXCEPT ![t] = r]
          /\ Requeued(calls[t], r, d, 1, f) /\ \E i \in 1..Len(r) : f[i] = 0
  BY <1>3, <1>5, <1>8, <1>9, WentOn DEF ChatInv
<1>11. PICK f : /\ calls' = [calls EXCEPT ![t] = r]
                /\ Requeued(calls[t], r, d, 1, f) /\ \E i \in 1..Len(r) : f[i] = 0
  BY <1>10
<1>12. PICK p \in P!Page : /\ page' = [page EXCEPT ![t] = p] /\ p = page[t]
                           /\ p.result # P!None <=> p.status \in {"done", "error"}
  BY <1>1, ChatTyped
<1>13. /\ session' \in [P!Session -> {"free", "live", "deleted"}]
       /\ asked' \in [P!Prompt -> P!Session \cup {P!None}]
  BY <1>1 DEF ChatInv, P!TypeOK
<1>14. /\ \A u \in Tab : \A j \in 1..Len(calls[u]) :
             calls[u][j] \in RunCall /\ calls[u][j].prompt = d.prompt => u = t /\ j <= 1
       /\ \A u \in Tab : \A j \in 1..Len(calls[u]) :
             calls[u][j] \in RunCall /\ ~(u = t /\ j <= 1) => Tracked(calls[u][j], asked', log')
       /\ Tracked(d, asked', log') /\ 1 \in {0, 1}
  BY <1>7, <1>8
<1>17. p.status = "running" => d \in RunCall /\ \E i \in 1..Len(r) : f[i] = 0
  BY <1>11
<1>18. Requeued(calls[t], r, d, 1, f) /\ calls' = [calls EXCEPT ![t] = r]
  BY <1>11
<1>19. page' = [page EXCEPT ![t] = p] /\ (p.result # P!None <=> p.status \in {"done", "error"})
  BY <1>12
<1>20. P!FiledWhereAsked' /\ log' \in [P!Session -> Seq(P!Message)]
  BY <1>7
<1>15. QED
  <2>1. d \in RunCall => \A u \in Tab : \A j \in 1..Len(calls[u]) :
            calls[u][j] \in RunCall /\ calls[u][j].prompt = d.prompt => u = t /\ j <= 1
    BY <1>14
  <2>2. d \in RunCall => Tracked(d, asked', log')
    BY <1>14
  <2>3. \A u \in Tab : \A j \in 1..Len(calls[u]) :
            calls[u][j] \in RunCall /\ ~(u = t /\ j <= 1) => Tracked(calls[u][j], asked', log')
    BY <1>14
  <2>4. p.status = "running" =>
            \/ page[t].status = "running" /\ (1 = 1 => calls[t][1] \notin RunCall)
            \/ d \in RunCall /\ \E i \in 1..Len(r) : f[i] = 0
    BY <1>17
  <2>5. 1 \in {0, 1}
    OBVIOUS
  <2>6. calls' = [calls EXCEPT ![t] = r] /\ page' = [page EXCEPT ![t] = p]
    BY <1>18, <1>19
  <2>7. Requeued(calls[t], r, d, 1, f)
    BY <1>18
  <2>8. p.result # P!None <=> p.status \in {"done", "error"}
    BY <1>19
  <2>9. QED
    BY <1>13, <1>20, <2>1, <2>2, <2>3, <2>4, <2>5, <2>6, <2>7, <2>8, ChatStep

LEMMA AnswerServed == ASSUME ChatInv, NEW t \in Tab, P!Answered(t) PROVE ChatInv'
<1>1. P!Busy(t, "answer") /\ UNCHANGED <<session, asked>> /\ P!Answer(t, <<>>)
  BY DEF P!Answered
<1>2. PICK c \in RunCall : c = Head(calls[t]) /\ c.fn = "answer"
  BY <1>1, ChatHead
<1>3. calls[t] # <<>> /\ 1 \in 1..Len(calls[t]) /\ calls[t][1] = c
  BY <1>1, <1>2, ChatHead
<1>4. c.session \in P!Session /\ c.prompt \in P!Prompt /\ c.msgs \in Seq(P!Message)
  BY DEF RunCall
<1>5. P!AppendMessage(c.session, P!AssistantSaid(c.prompt))
  BY <1>2 DEF P!Answered
<1>6. P!AssistantSaid(c.prompt) \in P!Message /\ P!AssistantSaid(c.prompt).prompt = c.prompt
      /\ P!AssistantSaid(c.prompt).role = "assistant"
  BY <1>4 DEF P!AssistantSaid, P!Message
<1>7. /\ P!FiledWhereAsked' /\ log' \in [P!Session -> Seq(P!Message)]
      /\ \A u \in Tab : \A j \in 1..Len(calls[u]) :
            calls[u][j] \in RunCall /\ ~(u = t /\ j <= 1) => Tracked(calls[u][j], asked', log')
  BY <1>1, <1>2, <1>3, <1>5, <1>6, Saved
<1>8. PICK l \in ChatCall \ RunCall : l = [fn |-> "list"]
  BY DEF ChatCall, RunCall
<1>9. PICK r \in Seq(ChatCall) : \E f :
         calls' = [calls EXCEPT ![t] = r] /\ Requeued(calls[t], r, l, 1, f)
  BY <1>1, <1>3, AnsweredQueue DEF ChatInv
<1>10. PICK f : calls' = [calls EXCEPT ![t] = r] /\ Requeued(calls[t], r, l, 1, f)
  BY <1>9
<1> DEFINE msgs == Append(c.msgs, P!AssistantSaid(c.prompt))
           new == [page[t] EXCEPT !.shown = msgs, !.result = c.prompt, !.status = "done"]
<1>11. page' = [page EXCEPT ![t] = new]
  BY <1>2 DEF P!Answered
<1>12. msgs \in Seq(P!Message)
  BY <1>4, <1>6
<1> HIDE DEF msgs
<1>13. new \in P!Page /\ new.status = "done" /\ new.result # P!None
  BY <1>4, <1>12, ChatTyped DEF P!Page
<1> HIDE DEF new
<1>14. PICK p \in P!Page : page' = [page EXCEPT ![t] = p] /\ p.status = "done" /\ p.result # P!None
  BY <1>11, <1>13
<1>15. /\ session' \in [P!Session -> {"free", "live", "deleted"}]
       /\ asked' \in [P!Prompt -> P!Session \cup {P!None}]
       /\ l \notin RunCall /\ 1 \in {0, 1}
  BY <1>1 DEF ChatInv, P!TypeOK
<1>16. QED
  BY <1>7, <1>10, <1>14, <1>15, ChatStep

LEMMA ChatNext == ChatInv /\ [P!Next]_(P!vars) => ChatInv'
<1> SUFFICES ASSUME ChatInv, [P!Next]_(P!vars) PROVE ChatInv'
  OBVIOUS
<1>1. CASE UNCHANGED P!vars
  <2>1. UNCHANGED <<session, log, asked, page, calls>>
    BY <1>1 DEF P!vars
  <2>2. P!TypeOK' /\ calls' \in [Tab -> Seq(ChatCall)]
    BY <2>1 DEF ChatInv, P!TypeOK
  <2>3. P!FiledWhereAsked' /\ P!LocksAreTrue'
    BY <2>1 DEF ChatInv, P!FiledWhereAsked, P!LocksAreTrue, P!Waiting
  <2>4. RunsOnce' /\ RunsTracked'
    BY <2>1 DEF ChatInv, RunsOnce, RunsTracked
  <2>5. QED
    BY <2>2, <2>3, <2>4 DEF ChatInv
<1>2. ASSUME NEW t \in Tab, P!Handle(t) PROVE ChatInv'
  <2>1. CASE P!HandleRun(t)
    BY <2>1, RunStarted
  <2>2. CASE P!HandleCreateSession(t)
    <3>1. 1 \in P!Session
      BY ConsoleAssumption DEF P!Session
    <3>2. QED
      BY <2>2, <3>1, ChatClicks
  <2>3. CASE \E s \in P!Session : P!HandleSelectSession(t, s) \/ P!HandleDeleteSession(t, s)
    BY <2>3, ChatClicks
  <2>4. QED
    BY <1>2, <2>1, <2>2, <2>3 DEF P!Handle
<1>3. ASSUME NEW t \in Tab, P!Serve(t) PROVE ChatInv'
  BY <1>3, ListServed, MessagesServed, CreateServed, DeleteServed, PromptServed, AnswerServed, RunFailure
     DEF P!Serve
<1>4. QED
  BY <1>1, <1>2, <1>3, ElsewhereDeleted DEF P!Next

-----------------------------------------------------------------------------
(* The overview                                                             *)

LookCall == [fn : {"audit"}, live : BOOLEAN] \cup [fn : {"execute"}, prompt : V!Prompt, live : BOOLEAN]
            \cup [fn : {"metrics"}, left : 1..3, live : BOOLEAN] \cup [fn : {"chat"}, prompt : V!Prompt]
Chats(c) == c.fn = "chat"
Tries(c) == c.fn = "execute" /\ c.live
Fetches(c) == c.fn = "metrics" /\ c.live

(* The spinners of page p go with a fetch that is queued, or about to be. *)
Fetching(p, q) == (p.loading \/ p.refreshing) => p.asking > 0 \/ \E i \in 1..Len(q) : Fetches(q[i])
(* The arena waits for one call, which is about the prompt in its field. *)
Trying(p, q) ==
    /\ p.executing <=> \E i \in 1..Len(q) : Tries(q[i])
    /\ \A i, j \in 1..Len(q) : Tries(q[i]) /\ Tries(q[j]) => i = j
    /\ \A i \in 1..Len(q) : Tries(q[i]) => q[i].prompt = p.tried
    /\ p.trace \in {V!None, p.tried}
(* The assistant waits for one call, which answers the last message. *)
Talking(a, q) ==
    /\ a.loading <=> \E i \in 1..Len(q) : Chats(q[i])
    /\ \A i, j \in 1..Len(q) : Chats(q[i]) /\ Chats(q[j]) => i = j
    /\ \A i \in 1..Len(q) : Chats(q[i]) =>
          a.messages # <<>> /\ a.messages[Len(a.messages)] = [role |-> "user", prompt |-> q[i].prompt]
    /\ \A n \in 1..Len(a.messages) : a.messages[n].role = "assistant" =>
          n > 1 /\ a.messages[n - 1] = [role |-> "user", prompt |-> a.messages[n].prompt]
ViewInv(p, a, q) ==
    /\ p \in V!Page /\ a \in V!Assistant /\ q \in Seq(LookCall)
    /\ Fetching(p, q) /\ Trying(p, q) /\ Talking(a, q)
OverviewInv ==
    /\ page \in [Tab -> V!Page] /\ assistant \in [Tab -> V!Assistant] /\ calls \in [Tab -> Seq(LookCall)]
    /\ \A t \in Tab : ViewInv(page[t], assistant[t], calls[t])

LEMMA FreshPage ==
    ASSUME NEW at \in V!Path
    PROVE  /\ V!Fresh(at) \in V!Page /\ ~V!Fresh(at).executing /\ V!Fresh(at).trace = V!None
           /\ (V!Fresh(at).loading \/ V!Fresh(at).refreshing) => V!Fresh(at).asking > 0
<1>1. CASE at = "overview"
  <2>1. V!Fresh(at) = [at |-> at, asking |-> 0, loading |-> FALSE, refreshing |-> FALSE,
                       tried |-> V!None, executing |-> FALSE, trace |-> V!None]
    BY <1>1 DEF V!Fresh
  <2>2. QED
    BY <2>1 DEF V!Page
<1>2. CASE at # "overview"
  <2>1. V!Fresh(at) = [at |-> at, asking |-> 1, loading |-> TRUE, refreshing |-> FALSE,
                       tried |-> V!None, executing |-> FALSE, trace |-> V!None]
    BY <1>2 DEF V!Fresh
  <2>2. QED
    BY <2>1 DEF V!Page
<1>3. QED
  BY <1>1, <1>2

LEMMA OverviewInit == V!Init => OverviewInv
<1> SUFFICES ASSUME V!Init PROVE OverviewInv
  OBVIOUS
<1> DEFINE p == V!Fresh("overview")
           a == [open |-> FALSE, messages |-> <<>>, loading |-> FALSE]
<1>1. page = [t \in Tab |-> p] /\ assistant = [t \in Tab |-> a] /\ calls = [t \in Tab |-> <<>>]
  BY DEF V!Init
<1>2. p \in V!Page /\ ~p.executing /\ p.trace = V!None
      /\ ((p.loading \/ p.refreshing) => p.asking > 0)
  BY FreshPage DEF V!Path
<1>3. <<>> \in Seq(V!Message) /\ <<>> \in Seq(LookCall) /\ Len(<<>>) = 0
  OBVIOUS
<1>4. a \in V!Assistant /\ ~a.loading /\ a.messages = <<>>
  BY <1>3 DEF V!Assistant
<1> HIDE DEF p, a
<1>5. ViewInv(p, a, <<>>)
  BY <1>2, <1>3, <1>4 DEF ViewInv, Fetching, Trying, Talking
<1>6. QED
  BY <1>1, <1>2, <1>3, <1>4, <1>5 DEF OverviewInv

(* One tab goes on. *)
LEMMA ViewStep ==
    ASSUME OverviewInv, NEW t \in Tab, NEW p, NEW a, NEW q, ViewInv(p, a, q),
           page' = [page EXCEPT ![t] = p], assistant' = [assistant EXCEPT ![t] = a],
           calls' = [calls EXCEPT ![t] = q]
    PROVE  OverviewInv'
<1>1. p \in V!Page /\ a \in V!Assistant /\ q \in Seq(LookCall)
  BY DEF ViewInv
<1>2. \A u \in Tab : /\ page'[u] = IF u = t THEN p ELSE page[u]
                     /\ assistant'[u] = IF u = t THEN a ELSE assistant[u]
                     /\ calls'[u] = IF u = t THEN q ELSE calls[u]
  BY DEF OverviewInv
<1>3. \A u \in Tab : ViewInv(page'[u], assistant'[u], calls'[u])
  BY <1>2 DEF OverviewInv
<1>4. QED
  BY <1>1, <1>3 DEF OverviewInv

LEMMA Viewed ==
    ASSUME OverviewInv, NEW t \in Tab
    PROVE  /\ ViewInv(page[t], assistant[t], calls[t])
           /\ page = [page EXCEPT ![t] = page[t]] /\ assistant = [assistant EXCEPT ![t] = assistant[t]]
           /\ calls = [calls EXCEPT ![t] = calls[t]]
           /\ V!None \notin V!Prompt
BY DEF OverviewInv, V!None, V!Prompt

(* A call at the end of the queue. *)
LEMMA Appending ==
    ASSUME NEW q \in Seq(LookCall), NEW c \in LookCall
    PROVE  /\ Append(q, c) \in Seq(LookCall) /\ Len(Append(q, c)) = Len(q) + 1 /\ Len(q) \in Nat
           /\ Append(q, c)[Len(q) + 1] = c /\ \A i \in 1..Len(q) : Append(q, c)[i] = q[i]
OBVIOUS

LEMMA Called ==
    ASSUME NEW p \in V!Page, NEW a \in V!Assistant, NEW q \in Seq(LookCall), NEW c \in LookCall
    PROVE  /\ Fetching(p, q) => Fetching(p, Append(q, c))
           /\ Fetches(c) => Fetching(p, Append(q, c))
           /\ Trying(p, q) /\ ~Tries(c) => Trying(p, Append(q, c))
           /\ Talking(a, q) /\ ~Chats(c) => Talking(a, Append(q, c))
<1> DEFINE r == Append(q, c)
<1>1. r \in Seq(LookCall) /\ Len(r) = Len(q) + 1 /\ Len(q) \in Nat
      /\ r[Len(q) + 1] = c /\ \A i \in 1..Len(q) : r[i] = q[i]
  BY Appending
<1> HIDE DEF r
<1>2. \A i \in 1..Len(r) : (i \in 1..Len(q) /\ r[i] = q[i]) \/ (i = Len(q) + 1 /\ r[i] = c)
  BY <1>1
<1>3. \A i \in 1..Len(q) : i \in 1..Len(r)
  BY <1>1
<1>4. Len(q) + 1 \in 1..Len(r)
  BY <1>1
<1>5. Fetching(p, q) => Fetching(p, r)
  BY <1>1, <1>3 DEF Fetching
<1>6. Fetches(c) => Fetching(p, r)
  BY <1>1, <1>4 DEF Fetching
<1>7. Trying(p, q) /\ ~Tries(c) => Trying(p, r)
  BY <1>1, <1>2, <1>3 DEF Trying
<1>8. Talking(a, q) /\ ~Chats(c) => Talking(a, r)
  BY <1>1, <1>2, <1>3 DEF Talking
<1>9. QED
  BY <1>5, <1>6, <1>7, <1>8 DEF r

(* The head is answered, or goes on as c with the same prompt. *)
LEMMA Left ==
    ASSUME NEW p \in V!Page, NEW a \in V!Assistant, NEW q \in Seq(LookCall), q # <<>>
    PROVE  /\ Tail(q) \in Seq(LookCall)
           /\ Fetching(p, q) /\ ~Fetches(Head(q)) => Fetching(p, Tail(q))
           /\ Trying(p, q) /\ ~Tries(Head(q)) => Trying(p, Tail(q))
           /\ Talking(a, q) /\ ~Chats(Head(q)) => Talking(a, Tail(q))
<1> DEFINE r == Tail(q)
<1>1. r \in Seq(LookCall) /\ Len(r) = Len(q) - 1 /\ Len(q) \in Nat /\ Len(q) > 0
      /\ Head(q) = q[1] /\ \A i \in 1..Len(r) : r[i] = q[i + 1]
  OBVIOUS
<1> HIDE DEF r
<1>2. \A i \in 1..Len(r) : i + 1 \in 1..Len(q) /\ r[i] = q[i + 1]
  BY <1>1
<1>3. \A i \in 1..Len(q) : (i = 1 /\ q[i] = Head(q)) \/ (i - 1 \in 1..Len(r) /\ r[i - 1] = q[i])
  BY <1>1
<1>4. Fetching(p, q) /\ ~Fetches(Head(q)) => Fetching(p, r)
  BY <1>3 DEF Fetching
<1>5. Trying(p, q) /\ ~Tries(Head(q)) => Trying(p, r)
  BY <1>1, <1>2, <1>3 DEF Trying
<1>6. Talking(a, q) /\ ~Chats(Head(q)) => Talking(a, r)
  BY <1>1, <1>2, <1>3 DEF Talking
<1>7. QED
  BY <1>1, <1>4, <1>5, <1>6 DEF r

LEMMA WentOnWith ==
    ASSUME NEW p \in V!Page, NEW a \in V!Assistant, NEW q \in Seq(LookCall), q # <<>>,
           Head(q).fn = "metrics", NEW c \in LookCall, c.fn = "metrics"
    PROVE  /\ <<c>> \o Tail(q) \in Seq(LookCall)
           /\ Fetching(p, q) /\ (Fetches(Head(q)) => Fetches(c)) => Fetching(p, <<c>> \o Tail(q))
           /\ Trying(p, q) => Trying(p, <<c>> \o Tail(q))
           /\ Talking(a, q) => Talking(a, <<c>> \o Tail(q))
<1> DEFINE b == Tail(q)
           r == <<c>> \o b
<1>1. b \in Seq(LookCall) /\ Len(b) = Len(q) - 1 /\ Len(q) \in Nat /\ Len(q) > 0
      /\ Head(q) = q[1] /\ \A i \in 1..Len(b) : b[i] = q[i + 1]
  OBVIOUS
<1> HIDE DEF b
<1>2. r \in Seq(LookCall) /\ Len(r) = Len(b) + 1
      /\ \A i \in 1..Len(r) : r[i] = IF i = 1 THEN c ELSE b[i - 1]
  BY <1>1
<1> HIDE DEF r
<1>3. /\ Len(r) = Len(q) /\ r[1] = c /\ 1 \in 1..Len(q)
      /\ \A i \in 1..Len(q) : i = 1 \/ r[i] = q[i]
  BY <1>1, <1>2
<1>4. ~Tries(c) /\ ~Chats(c) /\ ~Tries(Head(q)) /\ ~Chats(Head(q))
  BY DEF Tries, Chats
<1>5. Fetching(p, q) /\ (Fetches(Head(q)) => Fetches(c)) => Fetching(p, r)
  BY <1>1, <1>3 DEF Fetching
<1>6. Trying(p, q) => Trying(p, r)
  BY <1>1, <1>3, <1>4 DEF Trying
<1>7. Talking(a, q) => Talking(a, r)
  BY <1>1, <1>3, <1>4 DEF Talking
<1>8. QED
  BY <1>2, <1>5, <1>6, <1>7 DEF r, b

LEMMA VisitStep == ASSUME OverviewInv, NEW t \in Tab, NEW at \in V!Path, V!Visit(t, at) PROVE OverviewInv'
<1> DEFINE q == calls[t]
           r == [n \in DOMAIN q |-> IF q[n].fn = "chat" THEN q[n] ELSE [q[n] EXCEPT !.live = FALSE]]
           p == V!Fresh(at)
           a == assistant[t]
<1>1. page' = [page EXCEPT ![t] = p] /\ assistant' = [assistant EXCEPT ![t] = a]
      /\ calls' = [calls EXCEPT ![t] = r]
  BY Viewed DEF V!Visit
<1>2. q \in Seq(LookCall) /\ ViewInv(page[t], a, q) /\ a \in V!Assistant
  BY Viewed DEF ViewInv
<1> HIDE DEF q
<1>3. ASSUME NEW c \in LookCall
      PROVE  /\ (IF c.fn = "chat" THEN c ELSE [c EXCEPT !.live = FALSE]) \in LookCall
             /\ ~Tries(IF c.fn = "chat" THEN c ELSE [c EXCEPT !.live = FALSE])
             /\ ~Fetches(IF c.fn = "chat" THEN c ELSE [c EXCEPT !.live = FALSE])
             /\ Chats(IF c.fn = "chat" THEN c ELSE [c EXCEPT !.live = FALSE]) <=> Chats(c)
  BY DEF LookCall, Tries, Fetches, Chats
<1>4. /\ r \in Seq(LookCall) /\ Len(r) = Len(q)
      /\ \A i \in 1..Len(q) : /\ ~Tries(r[i]) /\ ~Fetches(r[i]) /\ (Chats(r[i]) <=> Chats(q[i]))
                              /\ Chats(q[i]) => r[i] = q[i]
  <2>1. DOMAIN q = 1..Len(q) /\ Len(q) \in Nat /\ \A i \in 1..Len(q) : q[i] \in LookCall
    BY <1>2
  <2>2. \A i \in 1..Len(q) : r[i] = IF q[i].fn = "chat" THEN q[i] ELSE [q[i] EXCEPT !.live = FALSE]
    BY <2>1
  <2>3. r \in [1..Len(q) -> LookCall]
    BY <1>3, <2>1
  <2>4. r \in Seq(LookCall) /\ Len(r) = Len(q)
    BY <2>1, <2>3
  <2> HIDE DEF r
  <2>5. QED
    BY <1>3, <2>1, <2>2, <2>4 DEF Chats
<1> HIDE DEF r
<1>5. p \in V!Page /\ Fetching(p, r) /\ Trying(p, r)
  BY <1>4, FreshPage DEF Fetching, Trying
<1>6. Talking(a, r)
  BY <1>2, <1>4 DEF ViewInv, Talking
<1> HIDE DEF p, a
<1>7. ViewInv(p, a, r)
  BY <1>2, <1>4, <1>5, <1>6 DEF ViewInv
<1>8. QED
  BY <1>1, <1>7, ViewStep

LEMMA AuditStep == ASSUME OverviewInv, NEW t \in Tab, V!FetchAudit(t) PROVE OverviewInv'
<1> DEFINE p == page[t]
           a == assistant[t]
           q == calls[t]
           c == [fn |-> "audit", live |-> TRUE]
<1>1. page' = [page EXCEPT ![t] = p] /\ assistant' = [assistant EXCEPT ![t] = a]
      /\ calls' = [calls EXCEPT ![t] = Append(q, c)]
  BY Viewed DEF V!FetchAudit, V!Call
<1>2. c \in LookCall /\ ~Tries(c) /\ ~Chats(c)
  BY DEF LookCall, Tries, Chats
<1>3. ViewInv(p, a, q)
  BY Viewed
<1> HIDE DEF p, a, q, c
<1>4. ViewInv(p, a, Append(q, c))
  BY <1>2, <1>3, Called, Appending DEF ViewInv
<1>5. QED
  BY <1>1, <1>4, ViewStep

LEMMA ExecuteStep == ASSUME OverviewInv, NEW t \in Tab, NEW n \in V!Prompt, V!HandleExecute(t, n) PROVE OverviewInv'
<1> DEFINE p == [page[t] EXCEPT !.tried = n, !.executing = TRUE, !.trace = V!None]
           a == assistant[t]
           q == calls[t]
           c == [fn |-> "execute", prompt |-> n, live |-> TRUE]
           r == Append(q, c)
<1>1. page' = [page EXCEPT ![t] = p] /\ assistant' = [assistant EXCEPT ![t] = a]
      /\ calls' = [calls EXCEPT ![t] = r]
  BY Viewed DEF V!HandleExecute, V!Call
<1>2. c \in LookCall /\ Tries(c) /\ ~Chats(c) /\ c.prompt = n
  BY DEF LookCall, Tries, Chats
<1>3. ViewInv(page[t], a, q) /\ ~page[t].executing
  BY Viewed DEF V!HandleExecute
<1>4. /\ p \in V!Page /\ p.executing /\ p.tried = n /\ p.trace = V!None
      /\ p.loading = page[t].loading /\ p.refreshing = page[t].refreshing /\ p.asking = page[t].asking
  BY <1>3 DEF ViewInv, V!Page
<1> HIDE DEF p, a, q, c
<1>5. r \in Seq(LookCall) /\ Len(r) = Len(q) + 1 /\ Len(q) \in Nat
      /\ r[Len(q) + 1] = c /\ \A i \in 1..Len(q) : r[i] = q[i]
  BY <1>2, <1>3, Appending DEF ViewInv
<1>6. Fetching(p, q)
  BY <1>3, <1>4 DEF ViewInv, Fetching
<1>7. Fetching(p, r) /\ Talking(a, r)
  BY <1>2, <1>3, <1>4, <1>6, Called DEF ViewInv
<1> HIDE DEF r
<1>8. \A i \in 1..Len(q) : ~Tries(q[i])
  BY <1>3 DEF ViewInv, Trying
<1>9. \A i \in 1..Len(r) : Tries(r[i]) <=> i = Len(q) + 1
  BY <1>2, <1>5, <1>8
<1>10. Len(q) + 1 \in 1..Len(r)
  BY <1>5
<1>11. Trying(p, r)
  BY <1>2, <1>4, <1>5, <1>9, <1>10 DEF Trying
<1>12. ViewInv(p, a, r)
  BY <1>3, <1>4, <1>5, <1>7, <1>11 DEF ViewInv
<1>13. QED
  BY <1>1, <1>12, ViewStep

LEMMA RefreshStep == ASSUME OverviewInv, NEW t \in Tab, V!Refresh(t) PROVE OverviewInv'
<1> DEFINE p == [page[t] EXCEPT !.asking = @ + 1, !.refreshing = TRUE]
           a == assistant[t]
           q == calls[t]
<1>1. page' = [page EXCEPT ![t] = p] /\ assistant' = [assistant EXCEPT ![t] = a]
      /\ calls' = [calls EXCEPT ![t] = q]
  BY Viewed DEF V!Refresh
<1>2. ViewInv(page[t], a, q) /\ page[t].asking < 2 /\ page[t] \in V!Page
  BY Viewed DEF V!Refresh, ViewInv
<1>6. page[t].asking + 1 \in 0..2 /\ page[t].asking + 1 > 0
  BY <1>2 DEF V!Page
<1>3. /\ p \in V!Page /\ p.executing = page[t].executing /\ p.tried = page[t].tried
      /\ p.trace = page[t].trace /\ p.asking = page[t].asking + 1
  BY <1>2, <1>6 DEF V!Page
<1> HIDE DEF p, a, q
<1>4. ViewInv(p, a, q)
  BY <1>2, <1>3, <1>6 DEF ViewInv, Fetching, Trying
<1>5. QED
  BY <1>1, <1>4, ViewStep

LEMMA OpenStep == ASSUME OverviewInv, NEW t \in Tab, V!SetOpen(t) PROVE OverviewInv'
<1> DEFINE p == page[t]
           a == [assistant[t] EXCEPT !.open = ~@]
           q == calls[t]
<1>1. page' = [page EXCEPT ![t] = p] /\ assistant' = [assistant EXCEPT ![t] = a]
      /\ calls' = [calls EXCEPT ![t] = q]
  BY Viewed DEF V!SetOpen
<1>2. ViewInv(p, assistant[t], q)
  BY Viewed
<1>3. a \in V!Assistant /\ a.messages = assistant[t].messages /\ a.loading = assistant[t].loading
  BY <1>2 DEF ViewInv, V!Assistant
<1> HIDE DEF p, a, q
<1>4. ViewInv(p, a, q)
  BY <1>2, <1>3 DEF ViewInv, Talking
<1>5. QED
  BY <1>1, <1>4, ViewStep

LEMMA SendStep == ASSUME OverviewInv, NEW t \in Tab, V!HandleSend(t) PROVE OverviewInv'
<1> DEFINE n == Len(SelectSeq(assistant[t].messages, LAMBDA m : m.role = "user")) + 1
           u == [role |-> "user", prompt |-> n]
           p == page[t]
           a == [assistant[t] EXCEPT !.loading = TRUE, !.messages = Append(@, u)]
           q == calls[t]
           c == [fn |-> "chat", prompt |-> n]
           r == Append(q, c)
<1>1. page' = [page EXCEPT ![t] = p] /\ assistant' = [assistant EXCEPT ![t] = a]
      /\ calls' = [calls EXCEPT ![t] = r]
  BY Viewed DEF V!HandleSend, V!Call
<1>2. n \in V!Prompt /\ ~assistant[t].loading
  BY DEF V!HandleSend
<1> HIDE DEF n
<1>3. c \in LookCall /\ ~Tries(c) /\ Chats(c) /\ c.prompt = n
  BY <1>2 DEF LookCall, Tries, Chats
<1>4. ViewInv(p, assistant[t], q)
  BY Viewed
<1> DEFINE old == assistant[t].messages
           new == Append(old, u)
<1>5. u \in V!Message /\ old \in Seq(V!Message) /\ u.role = "user"
  BY <1>2, <1>4 DEF ViewInv, V!Assistant, V!Message
<1> HIDE DEF old
<1>6. new \in Seq(V!Message) /\ Len(new) = Len(old) + 1 /\ Len(old) \in Nat
      /\ new[Len(old) + 1] = u /\ \A i \in 1..Len(old) : new[i] = old[i]
  BY <1>5
<1>7. a.messages = new /\ a.loading
  BY <1>4 DEF ViewInv, V!Assistant, old
<1>8. a \in V!Assistant
  BY <1>4, <1>6 DEF ViewInv, V!Assistant, old
<1> HIDE DEF new, a, p, q, c
<1>9. r \in Seq(LookCall) /\ Len(r) = Len(q) + 1 /\ Len(q) \in Nat
      /\ r[Len(q) + 1] = c /\ \A i \in 1..Len(q) : r[i] = q[i]
  BY <1>3, <1>4, Appending DEF ViewInv
<1>10. Fetching(p, r) /\ Trying(p, r)
  BY <1>3, <1>4, Called DEF ViewInv
<1> HIDE DEF r
<1>11. \A i \in 1..Len(q) : ~Chats(q[i])
  BY <1>2, <1>4 DEF ViewInv, Talking
<1>12. \A i \in 1..Len(r) : Chats(r[i]) <=> i = Len(q) + 1
  BY <1>3, <1>9, <1>11
<1>13. Len(q) + 1 \in 1..Len(r)
  BY <1>9
<1>14. a.messages # <<>> /\ a.messages[Len(a.messages)] = u
  BY <1>6, <1>7
<1>15. ASSUME NEW i \in 1..Len(a.messages), a.messages[i].role = "assistant"
       PROVE  i > 1 /\ a.messages[i - 1] = [role |-> "user", prompt |-> a.messages[i].prompt]
  <2>1. i \in 1..Len(old) /\ a.messages[i] = old[i]
    BY <1>5, <1>6, <1>7, <1>15
  <2>2. i > 1 /\ old[i - 1] = [role |-> "user", prompt |-> old[i].prompt]
    BY <1>4, <1>15, <2>1 DEF ViewInv, Talking, old
  <2>3. i - 1 \in 1..Len(old)
    BY <1>6, <2>1, <2>2
  <2>4. QED
    BY <1>6, <1>7, <2>1, <2>2, <2>3
<1>16. Talking(a, r)
  <2>1. a.loading <=> \E i \in 1..Len(r) : Chats(r[i])
    BY <1>7, <1>12, <1>13
  <2>2. \A i, j \in 1..Len(r) : Chats(r[i]) /\ Chats(r[j]) => i = j
    BY <1>12
  <2>3. \A i \in 1..Len(r) : Chats(r[i]) =>
          a.messages # <<>> /\ a.messages[Len(a.messages)] = [role |-> "user", prompt |-> r[i].prompt]
    BY <1>3, <1>9, <1>12, <1>14
  <2>4. QED
    BY <1>15, <2>1, <2>2, <2>3 DEF Talking
<1>17. ViewInv(p, a, r)
  BY <1>4, <1>8, <1>9, <1>10, <1>16 DEF ViewInv
<1>18. QED
  BY <1>1, <1>17, ViewStep

LEMMA FoundStep == ASSUME OverviewInv, NEW t \in Tab, V!UserFound(t) PROVE OverviewInv'
<1> DEFINE a == assistant[t]
           q == calls[t]
           c == [fn |-> "metrics", left |-> V!Parts(page[t].at), live |-> TRUE]
<1>1. ViewInv(page[t], a, q) /\ page[t] \in V!Page /\ page[t].asking > 0
      /\ assistant' = [assistant EXCEPT ![t] = a]
  BY Viewed DEF V!UserFound, ViewInv
<1>2. c \in LookCall /\ ~Tries(c) /\ ~Chats(c) /\ Fetches(c)
  BY DEF LookCall, Tries, Chats, Fetches, V!Parts
<1>3. page[t].asking - 1 \in 0..2
  BY <1>1 DEF V!Page
<1> HIDE DEF a, c
<1>4. CASE page' = [page EXCEPT ![t].asking = @ - 1] /\ V!Call(t, c)
  <2> DEFINE p == [page[t] EXCEPT !.asking = @ - 1]
             r == Append(q, c)
  <2>1. page' = [page EXCEPT ![t] = p] /\ calls' = [calls EXCEPT ![t] = r]
    BY <1>4 DEF V!Call
  <2>2. p \in V!Page /\ p.executing = page[t].executing /\ p.tried = page[t].tried /\ p.trace = page[t].trace
    BY <1>1, <1>3 DEF V!Page
  <2> HIDE DEF p, q
  <2>3. Trying(p, q)
    BY <1>1, <2>2 DEF ViewInv, Trying
  <2>4. ViewInv(p, a, r)
    BY <1>1, <1>2, <2>2, <2>3, Called, Appending DEF ViewInv
  <2> HIDE DEF r
  <2>5. QED
    BY <1>1, <2>1, <2>4, ViewStep
<1>5. CASE page' = [page EXCEPT ![t] = [V!Ended(@) EXCEPT !.asking = page[t].asking - 1]] /\ UNCHANGED calls
  <2> DEFINE p == [V!Ended(page[t]) EXCEPT !.asking = page[t].asking - 1]
  <2>1. page' = [page EXCEPT ![t] = p] /\ calls' = [calls EXCEPT ![t] = q]
    BY <1>5, Viewed
  <2>2. /\ p \in V!Page /\ p.executing = page[t].executing /\ p.tried = page[t].tried
        /\ p.trace = page[t].trace /\ ~p.loading /\ ~p.refreshing
    BY <1>1, <1>3 DEF V!Page, V!Ended
  <2> HIDE DEF p, q
  <2>3. ViewInv(p, a, q)
    BY <1>1, <2>2 DEF ViewInv, Trying, Fetching
  <2>4. QED
    BY <1>1, <2>1, <2>3, ViewStep
<1>6. QED
  BY <1>4, <1>5 DEF V!UserFound, c

(* The call under way. *)
LEMMA LookHead ==
    ASSUME OverviewInv, NEW t \in Tab, NEW fn, V!Busy(t, fn)
    PROVE  /\ calls[t] \in Seq(LookCall) /\ calls[t] # <<>> /\ Head(calls[t]) \in LookCall
           /\ Head(calls[t]).fn = fn /\ 1 \in 1..Len(calls[t]) /\ Head(calls[t]) = calls[t][1]
BY DEF OverviewInv, V!Busy

LEMMA Emptying ==
    ASSUME NEW q \in Seq(LookCall)
    PROVE  q \o <<>> = q
OBVIOUS

LEMMA MetricsStep == ASSUME OverviewInv, NEW t \in Tab, V!GetMetrics(t) PROVE OverviewInv'
<1> DEFINE a == assistant[t]
           q == calls[t]
           c == Head(q)
<1>1. ViewInv(page[t], a, q) /\ page[t] \in V!Page /\ assistant' = [assistant EXCEPT ![t] = a]
  BY Viewed DEF V!GetMetrics, ViewInv
<1>2. q \in Seq(LookCall) /\ q # <<>> /\ c \in LookCall /\ c.fn = "metrics"
  BY LookHead DEF V!GetMetrics
<1>3. c.left \in 1..3 /\ c.live \in BOOLEAN /\ ~Tries(c) /\ ~Chats(c) /\ (Fetches(c) <=> c.live)
  BY <1>2 DEF LookCall, Tries, Chats, Fetches
<1>4. CASE c.left > 1 /\ UNCHANGED page /\ V!GoOn(t, [c EXCEPT !.left = @ - 1])
  <2> DEFINE d == [c EXCEPT !.left = @ - 1]
             r == <<d>> \o Tail(q)
             p == page[t]
  <2>1. page' = [page EXCEPT ![t] = p] /\ calls' = [calls EXCEPT ![t] = r]
    BY <1>4, Viewed DEF V!GoOn
  <2>2. c.left - 1 \in 1..3
    BY <1>3, <1>4
  <2>3. d \in LookCall /\ d.fn = "metrics" /\ (Fetches(c) => Fetches(d))
    BY <1>2, <1>3, <2>2 DEF LookCall, Fetches
  <2> HIDE DEF a, p, q, d
  <2>4. ViewInv(p, a, r)
    BY <1>1, <1>2, <2>3, WentOnWith DEF ViewInv, p
  <2> HIDE DEF r
  <2>5. QED
    BY <1>1, <2>1, <2>4, ViewStep
<1>5. CASE /\ page' = IF c.live THEN [page EXCEPT ![t] = V!Ended(@)] ELSE page
           /\ IF c.left > 1 THEN V!GoOn(t, [c EXCEPT !.left = @ - 1, !.live = FALSE]) ELSE V!Answer(t, <<>>)
  <2> DEFINE p == IF c.live THEN V!Ended(page[t]) ELSE page[t]
             d == [c EXCEPT !.left = @ - 1, !.live = FALSE]
             r == IF c.left > 1 THEN <<d>> \o Tail(q) ELSE Tail(q)
  <2>1. page' = [page EXCEPT ![t] = p]
    BY <1>5, Viewed
  <2>2. calls' = [calls EXCEPT ![t] = r]
    <3>1. Tail(q) \in Seq(LookCall)
      BY <1>2
    <3>2. Tail(q) \o <<>> = Tail(q)
      BY <3>1, Emptying
    <3>3. CASE c.left > 1
      BY <1>5, <3>3 DEF V!GoOn
    <3>4. CASE ~(c.left > 1)
      BY <1>5, <3>2, <3>4 DEF V!Answer
    <3>5. QED
      BY <3>3, <3>4
  <2>3. /\ p \in V!Page /\ p.executing = page[t].executing /\ p.tried = page[t].tried
        /\ p.trace = page[t].trace /\ p.asking = page[t].asking
        /\ c.live => ~p.loading /\ ~p.refreshing
        /\ ~c.live => p = page[t]
    BY <1>1 DEF V!Page, V!Ended
  <2>4. ASSUME c.left > 1 PROVE d \in LookCall /\ d.fn = "metrics"
    <3>1. c.left - 1 \in 1..3
      BY <1>3, <2>4
    <3>2. QED
      BY <1>2, <1>3, <3>1 DEF LookCall
  <2> HIDE DEF a, d, p
  <2>5. r \in Seq(LookCall) /\ Trying(page[t], r) /\ Talking(a, r)
        /\ (~c.live => Fetching(page[t], r))
    <3>1. Trying(page[t], q) /\ Talking(a, q) /\ Fetching(page[t], q) /\ a \in V!Assistant
      BY <1>1 DEF ViewInv
    <3> HIDE DEF q
    <3>2. CASE c.left > 1
      BY <1>1, <1>2, <1>3, <2>4, <3>1, <3>2, WentOnWith
    <3>3. CASE ~(c.left > 1)
      BY <1>1, <1>2, <1>3, <3>1, <3>3, Left
    <3>4. QED
      BY <3>2, <3>3
  <2> HIDE DEF r
  <2>6. Trying(p, r)
    BY <2>3, <2>5 DEF Trying
  <2>7. Fetching(p, r)
    BY <1>3, <2>3, <2>5 DEF Fetching
  <2>8. ViewInv(p, a, r)
    BY <1>1, <2>3, <2>5, <2>6, <2>7 DEF ViewInv
  <2>9. QED
    BY <1>1, <2>1, <2>2, <2>8, ViewStep
<1>6. QED
  BY <1>4, <1>5 DEF V!GetMetrics

LEMMA PollStep == ASSUME OverviewInv, NEW t \in Tab, V!GetMemzentAudit(t) PROVE OverviewInv'
<1> DEFINE p == page[t]
           a == assistant[t]
           q == calls[t]
<1>1. ViewInv(p, a, q) /\ page' = [page EXCEPT ![t] = p] /\ assistant' = [assistant EXCEPT ![t] = a]
  BY Viewed DEF V!GetMemzentAudit
<1>2. q \in Seq(LookCall) /\ q # <<>> /\ Head(q).fn = "audit"
  BY LookHead DEF V!GetMemzentAudit
<1>3. ~Fetches(Head(q)) /\ ~Tries(Head(q)) /\ ~Chats(Head(q))
  BY <1>2 DEF Fetches, Tries, Chats
<1>4. calls' = [calls EXCEPT ![t] = Tail(q) \o <<>>]
  BY DEF V!GetMemzentAudit, V!Answer
<1> HIDE DEF p, a, q
<1>5. ViewInv(p, a, Tail(q)) /\ Tail(q) \in Seq(LookCall)
  BY <1>1, <1>2, <1>3, Left DEF ViewInv
<1>6. calls' = [calls EXCEPT ![t] = Tail(q)]
  BY <1>4, <1>5, Emptying
<1>7. QED
  BY <1>1, <1>5, <1>6, ViewStep

LEMMA ExecutedStep == ASSUME OverviewInv, NEW t \in Tab, V!Executed(t) PROVE OverviewInv'
<1> DEFINE a == assistant[t]
           q == calls[t]
           c == Head(q)
           r == Tail(q)
           p == IF c.live THEN [page[t] EXCEPT !.trace = c.prompt, !.executing = FALSE] ELSE page[t]
<1>1. ViewInv(page[t], a, q) /\ page[t] \in V!Page /\ assistant' = [assistant EXCEPT ![t] = a]
  BY Viewed DEF V!Executed, ViewInv
<1>2. q \in Seq(LookCall) /\ q # <<>> /\ c \in LookCall /\ c.fn = "execute"
      /\ c = q[1] /\ 1 \in 1..Len(q)
  BY LookHead DEF V!Executed
<1>3. c.live \in BOOLEAN /\ c.prompt \in V!Prompt /\ ~Fetches(c) /\ ~Chats(c) /\ (Tries(c) <=> c.live)
  BY <1>2 DEF LookCall, Tries, Chats, Fetches
<1>4. page' = [page EXCEPT ![t] = p]
  BY Viewed DEF V!Executed
<1>5. calls' = [calls EXCEPT ![t] = r]
  <2>1. r \o <<>> = r
    BY <1>2, Emptying
  <2>2. QED
    BY <2>1 DEF V!Executed, V!Answer
<1>6. /\ p \in V!Page /\ p.tried = page[t].tried /\ p.loading = page[t].loading
      /\ p.refreshing = page[t].refreshing /\ p.asking = page[t].asking
      /\ c.live => ~p.executing /\ p.trace = c.prompt
      /\ ~c.live => p = page[t]
  BY <1>1, <1>3 DEF V!Page
<1> HIDE DEF p, a
<1>7. r \in Seq(LookCall) /\ Fetching(page[t], r) /\ Talking(a, r) /\ (~c.live => Trying(page[t], r))
  BY <1>1, <1>2, <1>3, Left DEF ViewInv
<1>8. Fetching(p, r)
  BY <1>6, <1>7 DEF Fetching
<1>9. Trying(p, r)
  <2>1. CASE ~c.live
    BY <1>6, <1>7, <2>1
  <2>2. CASE c.live
    <3>1. \A i \in 1..Len(r) : i + 1 \in 1..Len(q) /\ i + 1 # 1 /\ r[i] = q[i + 1]
      BY <1>2
    <3> HIDE DEF r, c, q
    <3>2. \A i \in 1..Len(r) : ~Tries(r[i])
      BY <1>1, <1>2, <1>3, <2>2, <3>1 DEF ViewInv, Trying
    <3>3. c.prompt = page[t].tried
      BY <1>1, <1>2, <1>3, <2>2 DEF ViewInv, Trying
    <3>4. QED
      BY <1>6, <2>2, <3>2, <3>3 DEF Trying
  <2>3. QED
    BY <1>3, <2>1, <2>2
<1> HIDE DEF r
<1>10. ViewInv(p, a, r)
  BY <1>1, <1>6, <1>7, <1>8, <1>9 DEF ViewInv
<1>11. QED
  BY <1>1, <1>4, <1>5, <1>10, ViewStep

LEMMA RepliedStep == ASSUME OverviewInv, NEW t \in Tab, V!Replied(t) PROVE OverviewInv'
<1> DEFINE p == page[t]
           q == calls[t]
           c == Head(q)
           r == Tail(q)
           u == [role |-> "assistant", prompt |-> c.prompt]
           old == assistant[t].messages
           new == Append(old, u)
           a == [assistant[t] EXCEPT !.loading = FALSE, !.messages = Append(@, u)]
<1>1. ViewInv(p, assistant[t], q) /\ page' = [page EXCEPT ![t] = p]
  BY Viewed DEF V!Replied
<1>2. q \in Seq(LookCall) /\ q # <<>> /\ c \in LookCall /\ c.fn = "chat" /\ c = q[1] /\ 1 \in 1..Len(q)
  BY LookHead DEF V!Replied
<1>3. c.prompt \in V!Prompt /\ ~Fetches(c) /\ Chats(c) /\ ~Tries(c)
  BY <1>2 DEF LookCall, Tries, Chats, Fetches
<1>4. assistant' = [assistant EXCEPT ![t] = a]
  BY DEF V!Replied
<1>5. calls' = [calls EXCEPT ![t] = r]
  <2>1. r \o <<>> = r
    BY <1>2, Emptying
  <2>2. QED
    BY <2>1 DEF V!Replied, V!Answer
<1>6. u \in V!Message /\ old \in Seq(V!Message) /\ u.prompt = c.prompt
  BY <1>1, <1>3 DEF ViewInv, V!Assistant, V!Message
<1>7. \A i \in 1..Len(r) : i + 1 \in 1..Len(q) /\ i + 1 # 1 /\ r[i] = q[i + 1]
  BY <1>2
<1> HIDE DEF old, u, p
<1>8. new \in Seq(V!Message) /\ Len(new) = Len(old) + 1 /\ Len(old) \in Nat
      /\ new[Len(old) + 1] = u /\ \A i \in 1..Len(old) : new[i] = old[i]
  BY <1>6
<1>9. a \in V!Assistant /\ a.messages = new /\ ~a.loading
  BY <1>1, <1>8 DEF ViewInv, V!Assistant, old
<1> HIDE DEF a, new, c, q
<1>10. r \in Seq(LookCall) /\ Fetching(p, r) /\ Trying(p, r)
  BY <1>1, <1>2, <1>3, Left DEF ViewInv, c
<1> HIDE DEF r
<1>11. \A i \in 1..Len(r) : ~Chats(r[i])
  BY <1>1, <1>2, <1>3, <1>7 DEF ViewInv, Talking
<1>12. old # <<>> /\ old[Len(old)] = [role |-> "user", prompt |-> c.prompt]
  BY <1>1, <1>2, <1>3 DEF ViewInv, Talking, old
<1>13. Len(old) > 0
  BY <1>6, <1>12
<1>14. ASSUME NEW i \in 1..Len(new), new[i].role = "assistant"
       PROVE  i > 1 /\ new[i - 1] = [role |-> "user", prompt |-> new[i].prompt]
  <2>1. CASE i = Len(old) + 1
    <3>1. i > 1 /\ i - 1 = Len(old) /\ i - 1 \in 1..Len(old)
      BY <1>8, <1>13, <2>1
    <3>2. QED
      BY <1>6, <1>8, <1>12, <2>1, <3>1
  <2>2. CASE i \in 1..Len(old)
    <3>1. i > 1 /\ old[i - 1] = [role |-> "user", prompt |-> old[i].prompt]
      BY <1>1, <1>8, <1>14, <2>2 DEF ViewInv, Talking, old
    <3>2. i - 1 \in 1..Len(old)
      BY <1>8, <2>2, <3>1
    <3>3. QED
      BY <1>8, <2>2, <3>1, <3>2
  <2>3. QED
    BY <1>8, <2>1, <2>2
<1>15. Talking(a, r)
  BY <1>9, <1>11, <1>14 DEF Talking
<1>16. ViewInv(p, a, r)
  BY <1>1, <1>9, <1>10, <1>15 DEF ViewInv
<1>17. QED
  BY <1>1, <1>4, <1>5, <1>16, ViewStep

LEMMA OverviewNext == OverviewInv /\ [V!Next]_(V!vars) => OverviewInv'
<1> SUFFICES ASSUME OverviewInv, [V!Next]_(V!vars) PROVE OverviewInv'
  OBVIOUS
<1>1. CASE UNCHANGED V!vars
  BY <1>1 DEF V!vars, OverviewInv
<1>2. ASSUME NEW t \in Tab, V!Handle(t) PROVE OverviewInv'
  BY <1>2, VisitStep, AuditStep, RefreshStep, OpenStep, SendStep, ExecuteStep DEF V!Handle
<1>3. ASSUME NEW t \in Tab, V!Serve(t) PROVE OverviewInv'
  BY <1>3, MetricsStep, PollStep, ExecutedStep, RepliedStep DEF V!Serve
<1>4. QED
  BY <1>1, <1>2, <1>3, FoundStep DEF V!Next

LEMMA OverviewHolds == OverviewInv => V!TypeOK /\ V!LocksAreTrue /\ V!AnswersFollow
<1> SUFFICES ASSUME OverviewInv PROVE V!TypeOK /\ V!LocksAreTrue /\ V!AnswersFollow
  OBVIOUS
<1>1. V!TypeOK
  BY DEF OverviewInv, V!TypeOK
<1>2. ASSUME NEW t \in Tab
      PROVE  LET fetching == page[t].asking > 0
                              \/ \E c \in V!Waiting(t) : c.fn = "metrics" /\ c.live IN
             /\ page[t].loading \/ page[t].refreshing => fetching
             /\ page[t].executing <=> \E c \in V!Waiting(t) : c.fn = "execute" /\ c.live
             /\ assistant[t].loading <=> \E c \in V!Waiting(t) : c.fn = "chat"
  BY DEF OverviewInv, ViewInv, Fetching, Trying, Talking, Fetches, Tries, Chats, V!Waiting
<1>3. ASSUME NEW t \in Tab
      PROVE  LET m == assistant[t].messages IN
             /\ \A n \in DOMAIN m : m[n].role = "assistant" =>
                   n > 1 /\ m[n - 1] = [role |-> "user", prompt |-> m[n].prompt]
             /\ page[t].trace \in {V!None, page[t].tried}
  <2>1. ViewInv(page[t], assistant[t], calls[t])
    BY DEF OverviewInv
  <2>2. assistant[t].messages \in Seq(V!Message)
    BY <2>1 DEF ViewInv, V!Assistant
  <2>3. DOMAIN assistant[t].messages = 1..Len(assistant[t].messages)
    BY <2>2
  <2>4. QED
    BY <2>1, <2>3 DEF ViewInv, Trying, Talking
<1>4. QED
  BY <1>1, <1>2, <1>3 DEF V!LocksAreTrue, V!AnswersFollow


-----------------------------------------------------------------------------
(* What a queue holds.                                                      *)
Items(q) == {q[n] : n \in 1..Len(q)}

LEMMA NoItems == Items(<<>>) = {}
BY DEF Items

LEMMA OneItem == \A c : Items(<<c>>) = {c}
BY DEF Items

(* What is in a queue that was extended, or has lost its head. *)
LEMMA ItemsJoin ==
    ASSUME NEW S, NEW q \in Seq(S), NEW r \in Seq(S)
    PROVE  q \o r \in Seq(S) /\ Items(q \o r) = Items(q) \cup Items(r)
<1> DEFINE s == q \o r
<1>1. /\ s \in Seq(S) /\ Len(s) = Len(q) + Len(r)
      /\ Len(q) \in Nat /\ Len(r) \in Nat
      /\ \A i \in 1..Len(s) : s[i] = IF i <= Len(q) THEN q[i] ELSE r[i - Len(q)]
  BY ConcatProperties
<1> HIDE DEF s
<1>2. ASSUME NEW i \in 1..Len(s) PROVE s[i] \in Items(q) \cup Items(r)
  <2>1. CASE i <= Len(q)
    BY <1>1, <2>1 DEF Items
  <2>2. CASE ~(i <= Len(q))
    <3>1. i - Len(q) \in 1..Len(r) /\ s[i] = r[i - Len(q)]
      BY <1>1, <2>2
    <3>2. QED
      BY <3>1 DEF Items
  <2>3. QED
    BY <2>1, <2>2
<1>3. ASSUME NEW i \in 1..Len(q) PROVE q[i] \in Items(s)
  <2>1. i \in 1..Len(s) /\ s[i] = q[i]
    BY <1>1
  <2>2. QED
    BY <2>1 DEF Items
<1>4. ASSUME NEW i \in 1..Len(r) PROVE r[i] \in Items(s)
  <2>1. i + Len(q) \in 1..Len(s) /\ ~(i + Len(q) <= Len(q)) /\ i + Len(q) - Len(q) = i
    BY <1>1
  <2>2. s[i + Len(q)] = r[i]
    BY <1>1, <2>1
  <2>3. QED
    BY <2>1, <2>2 DEF Items
<1>5. Items(s) = Items(q) \cup Items(r)
  <2>1. Items(s) \subseteq Items(q) \cup Items(r)
    BY <1>2 DEF Items
  <2>2. Items(q) \subseteq Items(s) /\ Items(r) \subseteq Items(s)
    BY <1>3, <1>4 DEF Items
  <2>3. QED
    BY <2>1, <2>2
<1>6. QED
  BY <1>1, <1>5 DEF s

LEMMA ItemsAppend ==
    ASSUME NEW S, NEW q \in Seq(S), NEW c \in S
    PROVE  Append(q, c) \in Seq(S) /\ Items(Append(q, c)) = Items(q) \cup {c}
<1>1. <<c>> \in Seq(S)
  OBVIOUS
<1>2. Append(q, c) = q \o <<c>>
  BY AppendIsConcat, Zenon
<1>3. q \o <<c>> \in Seq(S) /\ Items(q \o <<c>>) = Items(q) \cup Items(<<c>>)
  BY <1>1, ItemsJoin, Zenon
<1>4. QED
  BY <1>2, <1>3, OneItem

LEMMA ItemsTail ==
    ASSUME NEW S, NEW q \in Seq(S), q # <<>>
    PROVE  /\ Head(q) \in S /\ Tail(q) \in Seq(S) /\ Items(q) = {Head(q)} \cup Items(Tail(q))
           /\ q = <<Head(q)>> \o Tail(q)
<1>1. Head(q) \in S /\ Tail(q) \in Seq(S) /\ <<Head(q)>> \in Seq(S)
  BY HeadTailProperties
<1>2. q = <<Head(q)>> \o Tail(q)
  <2> DEFINE r == Tail(q)
             s == <<Head(q)>> \o r
  <2>1. Len(q) \in Nat \ {0} /\ Len(r) = Len(q) - 1 /\ r \in Seq(S)
        /\ \A i \in 1..Len(r) : r[i] = q[i + 1]
    BY HeadTailProperties
  <2> HIDE DEF r
  <2>2. /\ s \in Seq(S) /\ Len(s) = 1 + Len(r)
        /\ \A i \in 1..Len(s) : s[i] = IF i <= 1 THEN Head(q) ELSE r[i - 1]
    BY <1>1, <2>1, ConcatProperties
  <2> HIDE DEF s
  <2>3. Len(s) = Len(q) /\ Head(q) = q[1]
    BY <2>1, <2>2
  <2>4. ASSUME NEW i \in 1..Len(q) PROVE s[i] = q[i]
    <3>1. CASE i = 1
      BY <2>2, <2>3, <3>1
    <3>2. CASE i # 1
      <4>1. i - 1 \in 1..Len(r) /\ (i - 1) + 1 = i /\ ~(i <= 1) /\ i \in 1..Len(s)
        BY <2>1, <2>3, <3>2
      <4>2. QED
        BY <2>1, <2>2, <4>1
    <3>3. QED
      BY <3>1, <3>2
  <2>5. s = q
    BY <2>2, <2>3, <2>4, SeqEqual
  <2>6. QED
    BY <2>5 DEF s, r
<1>3. Items(<<Head(q)>> \o Tail(q)) = Items(<<Head(q)>>) \cup Items(Tail(q))
  BY <1>1, ItemsJoin, Zenon
<1>4. Items(<<Head(q)>>) = {Head(q)}
  BY OneItem, Zenon
<1>5. QED
  BY <1>1, <1>2, <1>3, <1>4, Zenon

LEMMA ItemsIn ==
    ASSUME NEW S, NEW q \in Seq(S) PROVE Items(q) \subseteq S
BY DEF Items

-----------------------------------------------------------------------------
(* Organisation: its locks                                                  *)

(* What is locked on page p waits for one of the calls waiting. *)
OrgLock(p, waiting) ==
    /\ p.at = "limits" => /\ p.saving => \E c \in waiting : c.fn \in {"limits", "load"}
                          /\ p.loading => \E c \in waiting : c.fn = "load"
    /\ p.at = "settings" => /\ p.saving => \E c \in waiting : c.fn = "save"
                            /\ p.applying => \E c \in waiting : c.fn = "apply"
    /\ p.at = "billing" => (p.buying # "none" => \E c \in waiting : c.fn = "checkout" /\ c.for = p.buying)
OrgLocked == \A t \in Tab : OrgLock(page[t], Items(calls[t]))

LEMMA OrgLocksAre == OrgInv => (OrgLocked <=> O!LocksAreTrue)
<1> SUFFICES ASSUME OrgInv PROVE OrgLocked <=> O!LocksAreTrue
  OBVIOUS
<1> DEFINE Is(t) == CASE O!At(t, "limits") -> /\ page[t].saving => O!Asked(t, {"limits", "load"})
                                              /\ page[t].loading => O!Asked(t, {"load"})
                      [] O!At(t, "settings") -> /\ page[t].saving => O!Asked(t, {"save"})
                                                /\ page[t].applying => O!Asked(t, {"apply"})
                      [] O!At(t, "billing") -> page[t].buying # O!None =>
                             \E c \in O!Waiting(t) : c.fn = "checkout" /\ c.for = page[t].buying
<1>1. ASSUME NEW t \in Tab PROVE OrgLock(page[t], Items(calls[t])) <=> Is(t)
  <2>1. page[t].at \in {"limits", "settings", "billing"}
    BY DEF OrgInv, OrgPage
  <2>2. O!Waiting(t) = Items(calls[t])
    BY DEF O!Waiting, Items
  <2>3. CASE page[t].at = "limits"
    BY <2>2, <2>3 DEF OrgLock, O!At, O!Asked
  <2>4. CASE page[t].at = "settings"
    BY <2>2, <2>4 DEF OrgLock, O!At, O!Asked
  <2>5. CASE page[t].at = "billing"
    BY <2>2, <2>5 DEF OrgLock, O!At, O!None
  <2>6. QED
    BY <2>1, <2>3, <2>4, <2>5
<1>2. O!LocksAreTrue <=> \A t \in Tab : Is(t)
  BY DEF O!LocksAreTrue
<1> HIDE DEF Is
<1>3. QED
  BY <1>1, <1>2 DEF OrgLocked

(* A call joins those under way; an answer takes one of them away. *)
LEMMA OrgItems ==
    ASSUME OrgInv, NEW t \in Tab
    PROVE  /\ UNCHANGED calls => Items(calls'[t]) = Items(calls[t])
           /\ \A c \in OrgCall(page[t].at) : O!Call(t, c) \/ O!Enqueue(t, c) =>
                 Items(calls'[t]) = Items(calls[t]) \cup {c}
           /\ \A fn : O!Busy(t, fn) /\ O!Answer(t, <<>>) =>
                 \A d \in Items(calls[t]) : d.fn # fn => d \in Items(calls'[t])
           /\ \A fn : \A c \in OrgCall(page[t].at) : O!Busy(t, fn) /\ O!Answer(t, <<c>>) =>
                 /\ c \in Items(calls'[t])
                 /\ \A d \in Items(calls[t]) : d.fn # fn => d \in Items(calls'[t])
<1> DEFINE q == calls[t]
           K == OrgCall(page[t].at)
<1>1. q \in Seq(K) /\ calls = [u \in Tab |-> calls[u]]
  BY DEF OrgInv
<1> HIDE DEF K
<1>2. \A c \in K : Items(Append(q, c)) = Items(q) \cup {c}
  BY <1>1, ItemsAppend
<1>3. q # <<>> => Tail(q) \in Seq(K) /\ Items(q) = {Head(q)} \cup Items(Tail(q))
  BY <1>1, ItemsTail
<1>4. q # <<>> => Items(Tail(q) \o <<>>) = Items(Tail(q))
  <2> SUFFICES ASSUME q # <<>> PROVE Items(Tail(q) \o <<>>) = Items(Tail(q))
    OBVIOUS
  <2>1. <<>> \in Seq(K)
    BY EmptySeq
  <2>2. Tail(q) \in Seq(K)
    BY <1>3
  <2>3. Items(Tail(q) \o <<>>) = Items(Tail(q)) \cup Items(<<>>)
    BY <2>1, <2>2, ItemsJoin
  <2>4. QED
    BY <2>3, NoItems
<1>5. ASSUME q # <<>>, NEW c \in K PROVE Items(Tail(q) \o <<c>>) = Items(Tail(q)) \cup {c}
  <2>1. <<c>> \in Seq(K)
    OBVIOUS
  <2>2. Tail(q) \in Seq(K)
    BY <1>3, <1>5
  <2>3. Items(Tail(q) \o <<c>>) = Items(Tail(q)) \cup Items(<<c>>)
    BY <2>1, <2>2, ItemsJoin
  <2>4. QED
    BY <2>3, OneItem
<1>6. \A c \in K : O!Call(t, c) \/ O!Enqueue(t, c) => calls'[t] = Append(q, c)
  BY <1>1 DEF O!Call, O!Enqueue
<1>7. \A s : O!Answer(t, s) => calls'[t] = Tail(q) \o s
  BY <1>1 DEF O!Answer
<1>8. \A fn : O!Busy(t, fn) => q # <<>> /\ Head(q).fn = fn
  BY DEF O!Busy
<1>9. ASSUME NEW fn, O!Busy(t, fn), O!Answer(t, <<>>), NEW d \in Items(q), d.fn # fn
      PROVE  d \in Items(calls'[t])
  BY <1>3, <1>4, <1>7, <1>8, <1>9
<1>10. ASSUME NEW fn, NEW c \in K, O!Busy(t, fn), O!Answer(t, <<c>>)
       PROVE  /\ c \in Items(calls'[t])
              /\ \A d \in Items(q) : d.fn # fn => d \in Items(calls'[t])
  <2>1. q # <<>> /\ Head(q).fn = fn /\ calls'[t] = Tail(q) \o <<c>>
    BY <1>7, <1>8, <1>10
  <2>2. Items(q) = {Head(q)} \cup Items(Tail(q))
    BY <1>3, <2>1
  <2>3. Items(calls'[t]) = Items(Tail(q)) \cup {c}
    BY <1>5, <2>1, <1>10, Zenon
  <2>4. QED
    BY <2>1, <2>2, <2>3
<1>11. \A c \in K : O!Call(t, c) \/ O!Enqueue(t, c) => Items(calls'[t]) = Items(q) \cup {c}
  BY <1>2, <1>6
<1>12. UNCHANGED calls => Items(calls'[t]) = Items(q)
  OBVIOUS
<1>13. QED
  BY <1>9, <1>10, <1>11, <1>12 DEF K

(* A step of one tab. *)
LEMMA OrgLockStep ==
    ASSUME OrgInv, OrgLocked, NEW t \in Tab,
           NEW p, page' = [page EXCEPT ![t] = p],
           \/ UNCHANGED calls
           \/ \E c : O!Call(t, c) \/ O!Enqueue(t, c)
           \/ \E s : O!Answer(t, s)
           \/ calls' = [calls EXCEPT ![t] = <<>>],
           OrgLock(p, Items(calls'[t]))
    PROVE  OrgLocked'
<1>1. \A u \in Tab : page'[u] = IF u = t THEN p ELSE page[u]
  BY DEF OrgInv
<1>2. \A u \in Tab : u # t => calls'[u] = calls[u]
  BY DEF OrgInv, O!Call, O!Enqueue, O!Answer
<1>3. QED
  BY <1>1, <1>2 DEF OrgLocked

LEMMA LimitsLocks ==
    ASSUME OrgInv, OrgLocked, NEW t \in Tab,
           \/ O!EditLimits(t) \/ O!HandleSaveLimits(t) \/ O!ClearLimits(t)
           \/ O!SetSpendLimits(t) \/ O!GetSpendLimits(t)
    PROVE  OrgLocked'
<1> DEFINE r == page[t]
           Before == Items(calls[t])
           After == Items(calls'[t])
           R == [at : {"limits"}, form : O!Limits, loading : BOOLEAN, saving : BOOLEAN]
<1>1. r \in OrgPage /\ page = [u \in Tab |-> page[u]] /\ OrgLock(r, Before)
  BY DEF OrgInv, OrgLocked
<1>2. r.at = "limits"
  <2>1. CASE O!EditLimits(t) \/ O!HandleSaveLimits(t) \/ O!ClearLimits(t)
    BY <2>1 DEF O!EditLimits, O!HandleSaveLimits, O!ClearLimits, O!Ready, O!At
  <2>2. CASE O!SetSpendLimits(t) \/ O!GetSpendLimits(t)
    BY <2>2, OrgQueue, Owner DEF O!SetSpendLimits, O!GetSpendLimits
  <2>3. QED
    BY <2>1, <2>2
<1>3. r \in R
  BY <1>1, <1>2 DEF OrgPage
<1>4. /\ r.saving => \E c \in Before : c.fn \in {"limits", "load"}
      /\ r.loading => \E c \in Before : c.fn = "load"
  BY <1>1, <1>2 DEF OrgLock
<1>5. ASSUME NEW p, p.at = "limits", page' = [page EXCEPT ![t] = p],
             p.saving => \E c \in After : c.fn \in {"limits", "load"},
             p.loading => \E c \in After : c.fn = "load",
             \/ UNCHANGED calls
             \/ \E c : O!Call(t, c) \/ O!Enqueue(t, c)
             \/ \E s : O!Answer(t, s)
      PROVE  OrgLocked'
  <2>1. OrgLock(p, After)
    BY <1>5 DEF OrgLock
  <2>2. QED
    BY <1>5, <2>1, OrgLockStep
<1>6. CASE O!EditLimits(t)
  <2>1. PICK form \in O!Limits : page' = [page EXCEPT ![t].form = form]
    BY <1>6 DEF O!EditLimits
  <2>2. page' = [page EXCEPT ![t] = [r EXCEPT !.form = form]] /\ UNCHANGED calls
    BY <1>1, <1>6, <2>1 DEF O!EditLimits
  <2>3. After = Before
    BY <2>2, OrgItems
  <2> DEFINE p == [r EXCEPT !.form = form]
  <2>4. p.at = "limits" /\ p.saving = r.saving /\ p.loading = r.loading
    BY <1>3
  <2> HIDE DEF p, After, Before
  <2>5. QED
    BY <1>4, <1>5, <2>2, <2>3, <2>4 DEF p
<1>7. CASE O!HandleSaveLimits(t) \/ O!ClearLimits(t)
  <2>1. PICK limits \in O!Limits : O!Call(t, [fn |-> "limits", limits |-> limits])
    BY <1>3, <1>7 DEF O!HandleSaveLimits, O!ClearLimits, O!Limits, O!None
  <2> DEFINE c == [fn |-> "limits", limits |-> limits]
             p == [r EXCEPT !.saving = TRUE]
  <2>2. c \in OrgCall(r.at) /\ c.fn = "limits"
    BY <1>2 DEF OrgCall
  <2>3. After = Before \cup {c}
    BY <2>1, <2>2, OrgItems
  <2>4. page' = [page EXCEPT ![t] = p]
    BY <1>1, <1>7 DEF O!HandleSaveLimits, O!ClearLimits
  <2>5. p.at = "limits" /\ p.loading = r.loading
    BY <1>3
  <2>6. O!Call(t, c)
    BY <2>1
  <2> HIDE DEF p, c, After, Before
  <2>7. QED
    BY <1>4, <1>5, <2>2, <2>3, <2>4, <2>5, <2>6
<1>8. CASE O!SetSpendLimits(t)
  <2>1. O!Busy(t, "limits")
    BY <1>8 DEF O!SetSpendLimits
  <2>2. CASE page' = [page EXCEPT ![t].saving = FALSE] /\ O!Answer(t, <<>>)
    <3> DEFINE p == [r EXCEPT !.saving = FALSE]
    <3>1. page' = [page EXCEPT ![t] = p]
      BY <1>1, <2>2
    <3>2. p.at = "limits" /\ p.saving = FALSE /\ p.loading = r.loading
      BY <1>3
    <3>3. \A d \in Before : d.fn # "limits" => d \in After
      BY <2>1, <2>2, OrgItems
    <3> HIDE DEF p, After, Before
    <3>4. QED
      BY <1>4, <1>5, <2>2, <3>1, <3>2, <3>3
  <2>3. ASSUME NEW form, page' = [page EXCEPT ![t].loading = TRUE, ![t].form = form],
               O!Answer(t, <<O!LoadData>>)
        PROVE  OrgLocked'
    <3> DEFINE p == [[r EXCEPT !.loading = TRUE] EXCEPT !.form = form]
    <3>1. page' = [page EXCEPT ![t] = p]
      BY <1>1, <2>3
    <3>2. p.at = "limits"
      BY <1>3
    <3>3. O!LoadData \in OrgCall(r.at) /\ O!LoadData.fn = "load"
      BY <1>2 DEF OrgCall, O!LoadData
    <3>4. O!LoadData \in After
      BY <2>1, <2>3, <3>3, OrgItems
    <3> HIDE DEF p, After, Before
    <3>5. QED
      BY <1>5, <2>3, <3>1, <3>2, <3>3, <3>4
  <2>4. QED
    BY <1>8, <2>2, <2>3 DEF O!SetSpendLimits
<1>9. CASE O!GetSpendLimits(t)
  <2>1. PICK form : page' = [page EXCEPT ![t].form = form, ![t].loading = FALSE, ![t].saving = FALSE]
    BY <1>9 DEF O!GetSpendLimits
  <2> DEFINE a == [r EXCEPT !.form = form]
             b == [a EXCEPT !.loading = FALSE]
             p == [b EXCEPT !.saving = FALSE]
  <2>2. page' = [page EXCEPT ![t] = p]
    BY <1>1, <2>1
  <2>3. p.at = "limits" /\ p.saving = FALSE /\ p.loading = FALSE
    <3>1. DOMAIN a = DOMAIN r /\ a.at = "limits"
      BY <1>3
    <3>2. DOMAIN b = DOMAIN r /\ b.at = "limits" /\ b.loading = FALSE
      <4> HIDE DEF a
      <4> QED
        BY <1>3, <3>1
    <3>3. QED
      <4> HIDE DEF b
      <4> QED
        BY <1>3, <3>2
  <2>4. O!Answer(t, <<>>)
    BY <1>9 DEF O!GetSpendLimits
  <2> HIDE DEF p
  <2>5. QED
    BY <1>5, <2>2, <2>3, <2>4
<1>10. QED
  BY <1>6, <1>7, <1>8, <1>9

(* A step of the settings: it ends or begins one wait, or neither. *)
LEMMA SettingsWait ==
    ASSUME OrgInv, OrgLocked, NEW t \in Tab, page[t].at = "settings",
           NEW p, page' = [page EXCEPT ![t] = p], p.at = "settings",
           p.saving => page[t].saving \/ \E c \in Items(calls'[t]) : c.fn = "save",
           p.applying => page[t].applying \/ \E c \in Items(calls'[t]) : c.fn = "apply",
           \/ UNCHANGED calls
           \/ \E c \in OrgCall("settings") : O!Call(t, c) \/ O!Enqueue(t, c)
           \/ \E fn : O!Busy(t, fn) /\ (fn = "save" => ~p.saving) /\ (fn = "apply" => ~p.applying)
                      /\ (O!Answer(t, <<>>) \/ \E c \in OrgCall("settings") : O!Answer(t, <<c>>))
    PROVE  OrgLocked'
<1> DEFINE Before == Items(calls[t])
           After == Items(calls'[t])
<1>1. /\ page[t].saving => \E c \in Before : c.fn = "save"
      /\ page[t].applying => \E c \in Before : c.fn = "apply"
  BY DEF OrgLocked, OrgLock
<1>2. /\ p.saving => \A c \in Before : c.fn = "save" => c \in After
      /\ p.applying => \A c \in Before : c.fn = "apply" => c \in After
  <2>1. CASE UNCHANGED calls
    BY <2>1
  <2>2. CASE \E c \in OrgCall("settings") : O!Call(t, c) \/ O!Enqueue(t, c)
    BY <2>2, OrgItems
  <2>3. ASSUME NEW fn, O!Busy(t, fn), fn = "save" => ~p.saving, fn = "apply" => ~p.applying,
               O!Answer(t, <<>>) \/ \E c \in OrgCall("settings") : O!Answer(t, <<c>>)
        PROVE  /\ p.saving => \A c \in Before : c.fn = "save" => c \in After
               /\ p.applying => \A c \in Before : c.fn = "apply" => c \in After
    <3>1. \A d \in Before : d.fn # fn => d \in After
      BY <2>3, OrgItems
    <3>2. QED
      BY <2>3, <3>1
  <2>4. QED
    BY <2>1, <2>2, <2>3
<1>3. OrgLock(p, After)
  <2> HIDE DEF Before, After
  <2>1. /\ p.saving => \E c \in After : c.fn = "save"
        /\ p.applying => \E c \in After : c.fn = "apply"
    BY <1>1, <1>2 DEF After
  <2>2. QED
    BY <2>1 DEF OrgLock
<1>4. QED
  BY <1>3, OrgLockStep

LEMMA SettingsLocks ==
    ASSUME OrgInv, OrgLocked, NEW t \in Tab,
           \/ O!LoadOrg(t) \/ O!LoadMembers(t)
           \/ O!SelectProvider(t) \/ O!SelectModel(t) \/ O!SelectThreshold(t)
           \/ O!HandleSaveProfile(t) \/ O!ApplyThreshold(t)
           \/ O!GetOrgProfile(t) \/ O!GetMemzentProviders(t) \/ O!GetSimilarityThreshold(t)
           \/ O!UpdateOrgProfile(t) \/ O!UpdateSimilarityThreshold(t)
    PROVE  OrgLocked'
<1> DEFINE r == page[t]
<1>1. r.at = "settings"
  <2>1. CASE \/ O!LoadOrg(t) \/ O!LoadMembers(t) \/ O!SelectProvider(t) \/ O!SelectModel(t)
             \/ O!SelectThreshold(t) \/ O!HandleSaveProfile(t) \/ O!ApplyThreshold(t)
    BY <2>1 DEF O!LoadOrg, O!LoadMembers, O!SelectProvider, O!SelectModel, O!SelectThreshold,
       O!HandleSaveProfile, O!ApplyThreshold, O!At
  <2>2. CASE \/ O!GetOrgProfile(t) \/ O!GetMemzentProviders(t) \/ O!GetSimilarityThreshold(t)
             \/ O!UpdateOrgProfile(t) \/ O!UpdateSimilarityThreshold(t)
    <3>1. /\ Head(calls[t]) \in OrgCall(r.at)
          /\ Head(calls[t]).fn \in {"profile", "providers", "threshold", "save", "apply"}
      BY <2>2, OrgQueue DEF O!GetOrgProfile, O!GetMemzentProviders, O!GetSimilarityThreshold,
         O!UpdateOrgProfile, O!UpdateSimilarityThreshold
    <3>2. QED
      BY <3>1, Owner
  <2>3. QED
    BY <2>1, <2>2
<1>2. r \in SettingsPage /\ page = [u \in Tab |-> page[u]]
  BY <1>1 DEF OrgInv, OrgPage, SettingsPage
<1>3. /\ [fn |-> "profile"] \in OrgCall("settings") /\ [fn |-> "providers"] \in OrgCall("settings")
      /\ [fn |-> "threshold"] \in OrgCall("settings")
      /\ [fn |-> "save", choice |-> r.choice] \in OrgCall("settings")
      /\ [fn |-> "apply", threshold |-> r.threshold] \in OrgCall("settings")
  BY <1>2 DEF OrgCall, SettingsPage
<1>4. CASE O!LoadOrg(t)
  <2>1. PICK pc, known : page' = [page EXCEPT ![t].pc = pc, ![t].org = known]
    BY <1>4 DEF O!LoadOrg
  <2> DEFINE a == [r EXCEPT !.pc = pc]
             p == [a EXCEPT !.org = known]
  <2>2. DOMAIN a = DOMAIN r /\ a.at = r.at /\ a.saving = r.saving /\ a.applying = r.applying
    BY <1>2 DEF SettingsPage
  <2>3. p.at = r.at /\ p.saving = r.saving /\ p.applying = r.applying
    <3> HIDE DEF a
    <3> QED
      BY <1>2, <2>2 DEF SettingsPage
  <2>4. page' = [page EXCEPT ![t] = p] /\ UNCHANGED calls
    BY <1>2, <1>4, <2>1 DEF O!LoadOrg
  <2> HIDE DEF p
  <2>5. QED
    BY <1>1, <2>3, <2>4, SettingsWait
<1>5. CASE O!LoadMembers(t)
  <2> DEFINE p == [r EXCEPT !.pc = "ready"]
  <2>1. /\ page' = [page EXCEPT ![t] = p] /\ O!Enqueue(t, [fn |-> "profile"])
        /\ p.at = r.at /\ p.saving = r.saving /\ p.applying = r.applying
    BY <1>2, <1>5 DEF O!LoadMembers, SettingsPage
  <2> HIDE DEF p
  <2>2. QED
    BY <1>1, <1>3, <2>1, SettingsWait
<1>6. CASE O!SelectProvider(t)
  <2>1. PICK choice : page' = [page EXCEPT ![t].choice = choice]
    BY <1>6 DEF O!SelectProvider
  <2> DEFINE p == [r EXCEPT !.choice = choice]
  <2>2. /\ page' = [page EXCEPT ![t] = p] /\ UNCHANGED calls
        /\ p.at = r.at /\ p.saving = r.saving /\ p.applying = r.applying
    BY <1>2, <1>6, <2>1 DEF O!SelectProvider, SettingsPage
  <2> HIDE DEF p
  <2>3. QED
    BY <1>1, <2>2, SettingsWait
<1>7. CASE O!SelectModel(t)
  <2>1. PICK m : page' = [page EXCEPT ![t].choice.model = m]
    BY <1>7 DEF O!SelectModel
  <2> DEFINE choice == [r.choice EXCEPT !.model = m]
             p == [r EXCEPT !.choice = choice]
  <2>2. /\ page' = [page EXCEPT ![t] = p] /\ UNCHANGED calls
    BY <1>2, <1>7, <2>1 DEF O!SelectModel
  <2>3. p.at = r.at /\ p.saving = r.saving /\ p.applying = r.applying
    <3> HIDE DEF choice
    <3> QED
      BY <1>2 DEF SettingsPage
  <2> HIDE DEF p
  <2>4. QED
    BY <1>1, <2>2, <2>3, SettingsWait
<1>8. CASE O!SelectThreshold(t)
  <2>1. PICK n : page' = [page EXCEPT ![t].threshold = n]
    BY <1>8 DEF O!SelectThreshold
  <2> DEFINE p == [r EXCEPT !.threshold = n]
  <2>2. /\ page' = [page EXCEPT ![t] = p] /\ UNCHANGED calls
        /\ p.at = r.at /\ p.saving = r.saving /\ p.applying = r.applying
    BY <1>2, <1>8, <2>1 DEF O!SelectThreshold, SettingsPage
  <2> HIDE DEF p
  <2>3. QED
    BY <1>1, <2>2, SettingsWait
<1>9. CASE O!HandleSaveProfile(t)
  <2> DEFINE p == [r EXCEPT !.saving = TRUE]
             c == [fn |-> "save", choice |-> r.choice]
  <2>1. /\ page' = [page EXCEPT ![t] = p] /\ O!Call(t, c)
        /\ p.at = r.at /\ p.applying = r.applying
    BY <1>2, <1>9 DEF O!HandleSaveProfile, SettingsPage
  <2>2. c \in Items(calls'[t]) /\ c.fn = "save"
    BY <1>1, <1>3, <2>1, OrgItems
  <2> HIDE DEF p
  <2>3. QED
    BY <1>1, <1>3, <2>1, <2>2, SettingsWait
<1>10. CASE O!ApplyThreshold(t)
  <2> DEFINE p == [r EXCEPT !.applying = TRUE]
             c == [fn |-> "apply", threshold |-> r.threshold]
  <2>1. /\ page' = [page EXCEPT ![t] = p] /\ O!Call(t, c)
        /\ p.at = r.at /\ p.saving = r.saving
    BY <1>2, <1>10 DEF O!ApplyThreshold, SettingsPage
  <2>2. c \in Items(calls'[t]) /\ c.fn = "apply"
    BY <1>1, <1>3, <2>1, OrgItems
  <2> HIDE DEF p
  <2>3. QED
    BY <1>1, <1>3, <2>1, <2>2, SettingsWait
<1>11. CASE O!GetOrgProfile(t)
  <2>1. PICK choice : page' = [page EXCEPT ![t].choice = choice]
    BY <1>11 DEF O!GetOrgProfile
  <2> DEFINE p == [r EXCEPT !.choice = choice]
  <2>2. /\ page' = [page EXCEPT ![t] = p]
        /\ p.at = r.at /\ p.saving = r.saving /\ p.applying = r.applying
    BY <1>2, <2>1 DEF SettingsPage
  <2>3. O!Busy(t, "profile") /\ O!Answer(t, <<[fn |-> "providers"]>>)
    BY <1>11 DEF O!GetOrgProfile
  <2> HIDE DEF p
  <2>4. QED
    BY <1>1, <1>3, <2>2, <2>3, SettingsWait
<1>12. CASE O!GetMemzentProviders(t)
  <2>1. PICK listed : page' = [page EXCEPT ![t].listed = listed]
    BY <1>12 DEF O!GetMemzentProviders
  <2> DEFINE p == [r EXCEPT !.listed = listed]
  <2>2. /\ page' = [page EXCEPT ![t] = p]
        /\ p.at = r.at /\ p.saving = r.saving /\ p.applying = r.applying
    BY <1>2, <2>1 DEF SettingsPage
  <2>3. O!Busy(t, "providers") /\ O!Answer(t, <<[fn |-> "threshold"]>>)
    BY <1>12 DEF O!GetMemzentProviders
  <2> HIDE DEF p
  <2>4. QED
    BY <1>1, <1>3, <2>2, <2>3, SettingsWait
<1>13. CASE O!GetSimilarityThreshold(t)
  <2>1. PICK n : page' = [page EXCEPT ![t].threshold = n]
    BY <1>13 DEF O!GetSimilarityThreshold
  <2> DEFINE p == [r EXCEPT !.threshold = n]
  <2>2. /\ page' = [page EXCEPT ![t] = p]
        /\ p.at = r.at /\ p.saving = r.saving /\ p.applying = r.applying
    BY <1>2, <2>1 DEF SettingsPage
  <2>3. O!Busy(t, "threshold") /\ O!Answer(t, <<>>)
    BY <1>13 DEF O!GetSimilarityThreshold
  <2> HIDE DEF p
  <2>4. QED
    BY <1>1, <2>2, <2>3, SettingsWait
<1>14. CASE O!UpdateOrgProfile(t)
  <2> DEFINE p == [r EXCEPT !.saving = FALSE]
  <2>1. /\ page' = [page EXCEPT ![t] = p]
        /\ p.at = r.at /\ p.saving = FALSE /\ p.applying = r.applying
        /\ O!Busy(t, "save") /\ O!Answer(t, <<>>)
    BY <1>2, <1>14 DEF O!UpdateOrgProfile, SettingsPage
  <2> HIDE DEF p
  <2>2. QED
    BY <1>1, <2>1, SettingsWait
<1>15. CASE O!UpdateSimilarityThreshold(t)
  <2> DEFINE p == [r EXCEPT !.applying = FALSE]
  <2>1. /\ page' = [page EXCEPT ![t] = p]
        /\ p.at = r.at /\ p.applying = FALSE /\ p.saving = r.saving
        /\ O!Busy(t, "apply") /\ O!Answer(t, <<>>)
    BY <1>2, <1>15 DEF O!UpdateSimilarityThreshold, SettingsPage
  <2> HIDE DEF p
  <2>2. QED
    BY <1>1, <2>1, SettingsWait
<1>16. QED
  BY <1>4, <1>5, <1>6, <1>7, <1>8, <1>9, <1>10, <1>11, <1>12, <1>13, <1>14, <1>15

LEMMA PlanLocks ==
    ASSUME OrgInv, OrgLocked, NEW t \in Tab,
           O!LoadPlan(t) \/ O!HandleUpgrade(t) \/ O!TopUp(t) \/ O!CreateCheckoutSession(t)
    PROVE  OrgLocked'
<1> DEFINE r == page[t]
           Before == Items(calls[t])
           After == Items(calls'[t])
<1>1. r.at = "billing"
  <2>1. CASE O!CreateCheckoutSession(t)
    BY <2>1, OrgQueue, Owner DEF O!CreateCheckoutSession
  <2>2. QED
    BY <2>1 DEF O!LoadPlan, O!HandleUpgrade, O!TopUp, O!At
<1>2. /\ r \in [at : {"billing"}, org : BOOLEAN, buying : {"none", "plan", "topup"}]
      /\ page = [u \in Tab |-> page[u]]
  BY <1>1 DEF OrgInv, OrgPage
<1>3. ASSUME NEW p, p.at = "billing", page' = [page EXCEPT ![t] = p],
             p.buying # "none" => \E c \in After : c.fn = "checkout" /\ c.for = p.buying,
             \/ UNCHANGED calls
             \/ \E c : O!Call(t, c) \/ O!Enqueue(t, c)
             \/ \E s : O!Answer(t, s)
             \/ calls' = [calls EXCEPT ![t] = <<>>]
      PROVE  OrgLocked'
  <2>1. OrgLock(p, After)
    BY <1>3 DEF OrgLock
  <2>2. QED
    BY <1>3, <2>1, OrgLockStep
<1>4. CASE O!LoadPlan(t)
  <2> DEFINE p == [r EXCEPT !.org = TRUE]
  <2>1. page' = [page EXCEPT ![t] = p] /\ p.at = "billing" /\ p.buying = r.buying /\ UNCHANGED calls
    BY <1>2, <1>4 DEF O!LoadPlan
  <2>2. r.buying # "none" => \E c \in Before : c.fn = "checkout" /\ c.for = r.buying
    BY <1>1 DEF OrgLocked, OrgLock
  <2> HIDE DEF p
  <2>3. QED
    BY <1>3, <2>1, <2>2
<1>5. ASSUME NEW for \in {"plan", "topup"}, O!Call(t, [fn |-> "checkout", for |-> for]),
             page' = [page EXCEPT ![t].buying = for]
      PROVE  OrgLocked'
  <2> DEFINE p == [r EXCEPT !.buying = for]
             c == [fn |-> "checkout", for |-> for]
  <2>1. page' = [page EXCEPT ![t] = p] /\ p.at = "billing" /\ p.buying = for
    BY <1>2, <1>5
  <2>2. c \in OrgCall(r.at) /\ c.fn = "checkout" /\ c.for = for
    BY <1>1 DEF OrgCall
  <2>3. c \in After
    BY <1>5, <2>2, OrgItems
  <2>4. O!Call(t, c)
    BY <1>5
  <2> HIDE DEF p, c, After
  <2>5. QED
    BY <1>3, <2>1, <2>2, <2>3, <2>4
<1>6. CASE O!CreateCheckoutSession(t)
  <2>1. CASE page' = [page EXCEPT ![t].buying = "none"] /\ O!Answer(t, <<>>)
    <3> DEFINE p == [r EXCEPT !.buying = "none"]
    <3>1. page' = [page EXCEPT ![t] = p] /\ p.at = "billing" /\ p.buying = "none"
      BY <1>2, <2>1
    <3> HIDE DEF p
    <3>2. QED
      BY <1>3, <2>1, <3>1
  <2>2. CASE page' = [page EXCEPT ![t] = O!Billing] /\ calls' = [calls EXCEPT ![t] = <<>>]
    <3>1. O!Billing.at = "billing" /\ O!Billing.buying = "none"
      BY DEF O!Billing, O!None
    <3>2. QED
      BY <1>3, <2>2, <3>1
  <2>3. QED
    BY <1>6, <2>1, <2>2 DEF O!CreateCheckoutSession, O!None
<1>7. QED
  BY <1>4, <1>5, <1>6 DEF O!HandleUpgrade, O!TopUp

LEMMA OrgLocksNext == OrgInv /\ OrgLocked /\ O!Next => OrgLocked'
<1> SUFFICES ASSUME OrgInv, OrgLocked, O!Next PROVE OrgLocked'
  OBVIOUS
<1>1. CASE O!ChangedElsewhere
  BY <1>1 DEF O!ChangedElsewhere, OrgLocked
<1>2. ASSUME NEW t \in Tab, O!Handle(t) \/ O!Serve(t) PROVE OrgLocked'
  BY <1>2, LimitsLocks, SettingsLocks, PlanLocks DEF O!Handle, O!Serve
<1>3. QED
  BY <1>1, <1>2 DEF O!Next

LEMMA OrgLocksInit == O!Init => OrgLocked
<1> SUFFICES ASSUME O!Init, NEW t \in Tab PROVE OrgLock(page[t], Items(calls[t]))
  BY DEF OrgLocked
<1>1. page[t] \in {O!SpendLimits, O!Settings, O!Billing}
  BY DEF O!Init
<1>2. CASE page[t] = O!SpendLimits
  <2>1. calls[t] = <<O!LoadData>>
    BY <1>2 DEF O!Init, O!At, O!SpendLimits
  <2>2. Items(calls[t]) = {O!LoadData} /\ O!LoadData.fn = "load"
    BY <2>1, OneItem DEF O!LoadData
  <2>3. QED
    BY <1>2, <2>2 DEF OrgLock, O!SpendLimits
<1>3. CASE page[t] # O!SpendLimits
  BY <1>1, <1>3 DEF OrgLock, O!Settings, O!Billing, O!None
<1>4. QED
  BY <1>2, <1>3

(* The types of the pages. *)
LEMMA OrgTypes == OrgInv => O!TypeOK
<1>1. Matched \subseteq O!Choice
  BY DEF Matched
<1>2. OrgOf \subseteq O!Org /\ OrgPage \subseteq O!Page
  BY <1>1 DEF OrgOf, O!Org, OrgPage, O!Page, O!None
<1>3. QED
  BY <1>2 DEF OrgInv, O!TypeOK

-----------------------------------------------------------------------------
(* Blog: its types and locks                                                *)

ListCall == [fn : {"load"}, filter : B!Filter, here : BOOLEAN]
            \cup [fn : {"toggle"}, slug : Slug, here : BOOLEAN, to : {"published", "draft"}]
            \cup [fn : {"delete"}, slug : Slug, here : BOOLEAN]
EditCall == [fn : {"open"}, slug : Slug, here : BOOLEAN] \cup [fn : {"upload"}, here : BOOLEAN]
            \cup [fn : {"save"}, slug : Slug, text : B!Text, status : {"draft", "published"}, here : BOOLEAN]
ListPage == [at : {"list"}, filter : B!Filter, listed : [Slug -> {"none", "draft", "published"}],
          loading : BOOLEAN, deleting : Slug \cup {"none"}]
EditorPage == [at : {"editor"}, slug : Slug, text : B!Text, saving : BOOLEAN, uploading : BOOLEAN]

(* Page p has made the calls K that are still here, and what is locked on it
   waits for one of these. *)
Awaits(K, fn) == \E c \in K : c.fn = fn /\ c.here
BlogTab(p, K) ==
    /\ p \in ListPage \cup EditorPage /\ K \subseteq ListCall \cup EditCall
    /\ \A c \in K : c.here => (p.at = "list" <=> c \in ListCall)
    /\ p.at = "list" => (p.loading => Awaits(K, "load")) /\ (p.deleting # "none" => Awaits(K, "delete"))
    /\ p.at = "editor" => (p.saving => Awaits(K, "save")) /\ (p.uploading => Awaits(K, "upload"))
BlogTables == post \in [Slug -> B!Row] /\ public \subseteq Slug \X B!Text /\ reader \in B!Reader
BlogPages ==
    /\ BlogTables
    /\ page = [t \in Tab |-> page[t]] /\ calls = [t \in Tab |-> calls[t]]
    /\ \A t \in Tab : BlogTab(page[t], calls[t])

LEMMA BlogHolds == BlogPages => B!TypeOK /\ B!LocksAreTrue
<1> SUFFICES ASSUME BlogPages PROVE B!TypeOK /\ B!LocksAreTrue
  OBVIOUS
<1>1. ListPage \cup EditorPage = B!Page
  BY DEF ListPage, EditorPage, B!Page, B!None
<1>2. B!TypeOK
  BY <1>1 DEF BlogPages, BlogTab, BlogTables, B!TypeOK
<1>3. ASSUME NEW t \in Tab
      PROVE  IF page[t].at = "list"
             THEN /\ page[t].loading => B!Waiting(t, {"load"})
                  /\ page[t].deleting # B!None => B!Waiting(t, {"delete"})
             ELSE /\ page[t].saving => B!Waiting(t, {"save"})
                  /\ page[t].uploading => B!Waiting(t, {"upload"})
  <2>1. BlogTab(page[t], calls[t]) /\ page[t].at \in {"list", "editor"}
    BY DEF BlogPages, BlogTab, ListPage, EditorPage
  <2>2. \A fn : Awaits(calls[t], fn) => B!Waiting(t, {fn})
    BY DEF Awaits, B!Waiting
  <2>3. QED
    BY <2>1, <2>2 DEF BlogTab, B!None
<1>4. QED
  BY <1>2, <1>3 DEF B!LocksAreTrue

(* The website keeps its types. *)
LEMMA Merged ==
    ASSUME NEW static \in SUBSET Slug, NEW db \in B!Posts
    PROVE  B!MergePosts(static, db) \in B!Posts
BY DEF B!MergePosts, B!Posts, B!File, B!NoText

LEMMA NoPostsTyped == B!NoPosts \in B!Posts
BY DEF B!NoPosts, B!Posts, B!NoText

LEMMA Visited ==
    ASSUME NEW static \in SUBSET Slug, NEW s \in Slug
    PROVE  B!Visit(static, s) \in B!Reader
<1>1. B!MergePosts(static, B!NoPosts) \in B!Posts
  BY Merged, NoPostsTyped
<1>2. [B!NoPosts EXCEPT ![s] = B!MergePosts(static, B!NoPosts)[s]] \in B!Posts
  BY <1>1, NoPostsTyped DEF B!Posts
<1>3. QED
  BY <1>2, NoPostsTyped DEF B!Visit, B!Reader

LEMMA BlogPagesInit == B!Init => BlogPages
<1> SUFFICES ASSUME B!Init PROVE BlogPages
  OBVIOUS
<1>0. 0 \in B!Text
  BY ConsoleAssumption DEF B!Text
<1>1. BlogTables
  BY <1>0, Visited DEF B!Init, BlogTables, B!NoRow, B!Row, B!None
<1>2. ASSUME NEW t \in Tab PROVE BlogTab(page[t], calls[t])
  <2>1. page[t] = B!Fresh("all") /\ calls[t] = {B!LoadAll("all")}
    BY DEF B!Init
  <2>2. B!Fresh("all") \in ListPage
    BY DEF B!Fresh, ListPage, B!Filter, B!None
  <2>3. B!LoadAll("all") \in ListCall /\ B!LoadAll("all").fn = "load" /\ B!LoadAll("all").here
    BY DEF B!LoadAll, ListCall, B!Filter
  <2>4. B!Fresh("all").at = "list" /\ B!Fresh("all").deleting = "none"
    BY DEF B!Fresh, B!None
  <2>5. QED
    BY <2>1, <2>2, <2>3, <2>4 DEF BlogTab, Awaits
<1>3. QED
  BY <1>1, <1>2 DEF B!Init, BlogPages

(* A step of one tab. *)
LEMMA BlogStep ==
    ASSUME BlogPages, BlogTables', NEW t \in Tab, NEW p, NEW K, BlogTab(p, K),
           page' = [page EXCEPT ![t] = p], calls' = [calls EXCEPT ![t] = K]
    PROVE  BlogPages'
BY DEF BlogPages

(* A call is answered; the page, if it is still there, is freed of it. *)
LEMMA BlogAnswered ==
    ASSUME BlogPages, BlogTables', NEW t \in Tab, NEW c \in calls[t], NEW p,
           c.here => p \in ListPage \cup EditorPage /\ p.at = page[t].at,
           c.here /\ p.at = "list" => /\ p.loading => page[t].loading /\ c.fn # "load"
                                      /\ p.deleting # "none" => page[t].deleting # "none" /\ c.fn # "delete",
           c.here /\ p.at = "editor" => /\ p.saving => page[t].saving /\ c.fn # "save"
                                        /\ p.uploading => page[t].uploading /\ c.fn # "upload",
           B!Then(t, c, p), B!Answer(t, c)
    PROVE  BlogPages'
<1> DEFINE K == calls[t] \ {c}
           r == IF c.here THEN p ELSE page[t]
<1>1. BlogTab(page[t], calls[t])
  BY DEF BlogPages
<1>2. page' = [page EXCEPT ![t] = r] /\ calls' = [calls EXCEPT ![t] = K]
  BY DEF BlogPages, B!Then, B!Answer
<1>3. \A fn : Awaits(calls[t], fn) /\ (c.here => c.fn # fn) => Awaits(K, fn)
  BY DEF Awaits
<1>4. K \subseteq calls[t]
  OBVIOUS
<1> HIDE DEF K
<1>5. CASE c.here
  <2>1. r = p /\ p.at = page[t].at
    BY <1>5
  <2> HIDE DEF r
  <2>2. p.at \in {"list", "editor"}
    BY <1>5 DEF ListPage, EditorPage
  <2>3. p.at = "list" => /\ p.loading => Awaits(K, "load")
                         /\ p.deleting # "none" => Awaits(K, "delete")
    BY <1>1, <1>3, <1>5, <2>1 DEF BlogTab
  <2>4. p.at = "editor" => /\ p.saving => Awaits(K, "save")
                           /\ p.uploading => Awaits(K, "upload")
    BY <1>1, <1>3, <1>5, <2>1 DEF BlogTab
  <2>5. BlogTab(p, K)
    BY <1>1, <1>4, <1>5, <2>1, <2>3, <2>4 DEF BlogTab
  <2>6. QED
    BY <1>2, <2>1, <2>5, BlogStep
<1>6. CASE ~c.here
  <2>1. r = page[t]
    BY <1>6
  <2> HIDE DEF r
  <2>2. \A fn : Awaits(calls[t], fn) => Awaits(K, fn)
    BY <1>3, <1>6
  <2>3. BlogTab(r, K)
    BY <1>1, <1>4, <2>1, <2>2 DEF BlogTab
  <2>4. QED
    BY <1>2, <2>3, BlogStep
<1>7. QED
  BY <1>5, <1>6

(* A page of the list or the editor makes a call, or is edited. *)
LEMMA BlogCalled ==
    ASSUME BlogPages, UNCHANGED <<post, public, reader>>, NEW t \in Tab,
           NEW p \in ListPage \cup EditorPage, p.at = page[t].at,
           NEW c \in ListCall \cup EditCall, c \in ListCall <=> p.at = "list", c.here,
           p.at = "list" => /\ p.loading => page[t].loading \/ c.fn = "load"
                            /\ p.deleting # "none" => page[t].deleting # "none" \/ c.fn = "delete",
           p.at = "editor" => /\ p.saving => page[t].saving \/ c.fn = "save"
                              /\ p.uploading => page[t].uploading \/ c.fn = "upload",
           page' = [page EXCEPT ![t] = p], B!Call(t, c)
    PROVE  BlogPages'
<1> DEFINE K == calls[t] \cup {c}
<1>1. BlogTab(page[t], calls[t]) /\ BlogTables'
  BY DEF BlogPages, BlogTables
<1>2. calls' = [calls EXCEPT ![t] = K]
  BY DEF BlogPages, B!Call
<1>3. (\A fn : Awaits(calls[t], fn) => Awaits(K, fn)) /\ Awaits(K, c.fn)
  BY DEF Awaits
<1>4. K \subseteq ListCall \cup EditCall /\ \A d \in K : d.here => (p.at = "list" <=> d \in ListCall)
  BY <1>1 DEF BlogTab
<1> HIDE DEF K
<1>5. /\ p.at = "list" => (p.loading => Awaits(K, "load")) /\ (p.deleting # "none" => Awaits(K, "delete"))
      /\ p.at = "editor" => (p.saving => Awaits(K, "save")) /\ (p.uploading => Awaits(K, "upload"))
  BY <1>1, <1>3 DEF BlogTab
<1>6. BlogTab(p, K)
  BY <1>4, <1>5 DEF BlogTab
<1>7. QED
  BY <1>1, <1>2, <1>6, BlogStep

(* What is left behind by a page: calls whose answers find it no more. *)
LEMMA BlogLeft ==
    ASSUME BlogPages, NEW t \in Tab
    PROVE  B!Left(t) \subseteq ListCall \cup EditCall /\ \A c \in B!Left(t) : ~c.here
<1>1. ASSUME NEW c \in calls[t] PROVE LET d == [c EXCEPT !.here = FALSE] IN d \in ListCall \cup EditCall /\ ~d.here
  <2>1. c \in ListCall \cup EditCall
    BY DEF BlogPages, BlogTab
  <2>2. CASE c \in ListCall
    BY <2>2 DEF ListCall
  <2>3. CASE c \in EditCall
    BY <2>3 DEF EditCall
  <2>4. QED
    BY <2>1, <2>2, <2>3
<1>2. QED
  BY <1>1 DEF B!Left

(* What a page is, by what it is at. *)
LEMMA BlogAt ==
    ASSUME BlogPages, NEW t \in Tab
    PROVE  /\ BlogTab(page[t], calls[t])
           /\ page[t].at = "list" => page[t] \in ListPage
           /\ page[t].at = "editor" => page[t] \in EditorPage
           /\ page[t].at \in {"list", "editor"}
           /\ page = [u \in Tab |-> page[u]] /\ calls = [u \in Tab |-> calls[u]]
           /\ BlogTables
<1>1. BlogTab(page[t], calls[t]) /\ BlogTables
  BY DEF BlogPages
<1>2. page = [u \in Tab |-> page[u]] /\ calls = [u \in Tab |-> calls[u]]
  BY DEF BlogPages
<1>3. QED
  BY <1>1, <1>2 DEF BlogTab, ListPage, EditorPage

(* What an editor does on the list, and in the editor. *)
LEMMA BlogListClicks ==
    ASSUME BlogPages, NEW t \in Tab,
           \/ \E filter \in B!Filter : B!SetFilter(t, filter)
           \/ \E s \in Slug : B!TogglePublish(t, s) \/ B!HandleDelete(t, s)
    PROVE  BlogPages'
<1> DEFINE r == page[t]
<1>1. r.at = "list" /\ UNCHANGED <<post, public, reader>>
  BY DEF B!SetFilter, B!TogglePublish, B!HandleDelete, B!Rows
<1>2. r \in ListPage /\ page = [u \in Tab |-> page[u]]
  BY <1>1, BlogAt
<1>3. ASSUME NEW filter \in B!Filter, B!SetFilter(t, filter) PROVE BlogPages'
  <2> DEFINE a == [r EXCEPT !.filter = filter]
             p == [a EXCEPT !.loading = TRUE]
             c == B!LoadAll(filter)
  <2>1. a \in ListPage /\ a.deleting = r.deleting
    BY <1>2 DEF ListPage
  <2>2. p \in ListPage /\ p.at = "list" /\ p.deleting = r.deleting
    <3> HIDE DEF a
    <3> QED
      BY <2>1 DEF ListPage
  <2>3. page' = [page EXCEPT ![t] = p] /\ B!Call(t, c)
    BY <1>2, <1>3 DEF B!SetFilter
  <2>4. c \in ListCall /\ c.fn = "load" /\ c.here
    BY DEF B!LoadAll, ListCall
  <2> HIDE DEF p, c
  <2>5. QED
    BY <1>1, <2>2, <2>3, <2>4, BlogCalled
<1>4. ASSUME NEW s \in Slug, B!TogglePublish(t, s) PROVE BlogPages'
  <2> DEFINE c == [fn |-> "toggle", slug |-> s, here |-> TRUE,
                   to |-> IF r.listed[s] = "draft" THEN "published" ELSE "draft"]
  <2>1. page' = [page EXCEPT ![t] = r] /\ B!Call(t, c)
    BY <1>2, <1>4 DEF B!TogglePublish
  <2>2. c \in ListCall /\ c.here
    BY DEF ListCall
  <2> HIDE DEF c
  <2>3. QED
    BY <1>1, <1>2, <2>1, <2>2, BlogCalled
<1>5. ASSUME NEW s \in Slug, B!HandleDelete(t, s) PROVE BlogPages'
  <2> DEFINE p == [r EXCEPT !.deleting = s]
             c == [fn |-> "delete", slug |-> s, here |-> TRUE]
  <2>1. p \in ListPage /\ p.at = "list" /\ p.loading = r.loading
    BY <1>2 DEF ListPage
  <2>2. page' = [page EXCEPT ![t] = p] /\ B!Call(t, c)
    BY <1>2, <1>5 DEF B!HandleDelete
  <2>3. c \in ListCall /\ c.fn = "delete" /\ c.here
    BY DEF ListCall
  <2> HIDE DEF p, c
  <2>4. QED
    BY <1>1, <2>1, <2>2, <2>3, BlogCalled
<1>6. QED
  BY <1>3, <1>4, <1>5

LEMMA BlogEditorClicks ==
    ASSUME BlogPages, NEW t \in Tab,
           \/ \E s \in Slug, text \in B!Text : B!Type(t, s, text)
           \/ B!HandleImageUpload(t) \/ \E status \in {"draft", "published"} : B!HandleSave(t, status)
    PROVE  BlogPages'
<1> DEFINE r == page[t]
<1>1. r.at = "editor" /\ UNCHANGED <<post, public, reader>>
  BY DEF B!Type, B!HandleImageUpload, B!HandleSave
<1>2. r \in EditorPage /\ page = [u \in Tab |-> page[u]] /\ calls = [u \in Tab |-> calls[u]]
      /\ BlogTab(r, calls[t]) /\ BlogTables'
  BY <1>1, BlogAt DEF BlogTables
<1>3. \A c \in EditCall : c \notin ListCall
  BY DEF EditCall, ListCall
<1>4. ASSUME NEW s \in Slug, NEW text \in B!Text, B!Type(t, s, text) PROVE BlogPages'
  <2> DEFINE a == [r EXCEPT !.slug = s]
             p == [a EXCEPT !.text = text]
  <2>1. a \in EditorPage /\ a.saving = r.saving /\ a.uploading = r.uploading
    BY <1>2 DEF EditorPage
  <2>2. p \in EditorPage /\ p.at = "editor" /\ p.saving = r.saving /\ p.uploading = r.uploading
    <3> HIDE DEF a
    <3> QED
      BY <2>1 DEF EditorPage
  <2>3. page' = [page EXCEPT ![t] = p] /\ calls' = [calls EXCEPT ![t] = calls[t]]
    BY <1>2, <1>4 DEF B!Type
  <2> HIDE DEF p
  <2>4. BlogTab(p, calls[t])
    BY <1>1, <1>2, <2>2 DEF BlogTab
  <2>5. QED
    BY <1>2, <2>3, <2>4, BlogStep
<1>5. CASE B!HandleImageUpload(t)
  <2> DEFINE p == [r EXCEPT !.uploading = TRUE]
             c == [fn |-> "upload", here |-> TRUE]
  <2>1. p \in EditorPage /\ p.at = "editor" /\ p.saving = r.saving
    BY <1>2 DEF EditorPage
  <2>2. page' = [page EXCEPT ![t] = p] /\ B!Call(t, c)
    BY <1>2, <1>5 DEF B!HandleImageUpload
  <2>3. c \in EditCall /\ c.fn = "upload" /\ c.here
    BY DEF EditCall
  <2> HIDE DEF p, c
  <2>4. QED
    BY <1>1, <1>3, <2>1, <2>2, <2>3, BlogCalled
<1>6. ASSUME NEW status \in {"draft", "published"}, B!HandleSave(t, status) PROVE BlogPages'
  <2> DEFINE p == [r EXCEPT !.saving = TRUE]
             c == [fn |-> "save", slug |-> r.slug, text |-> r.text, status |-> status, here |-> TRUE]
  <2>1. p \in EditorPage /\ p.at = "editor" /\ p.uploading = r.uploading
    BY <1>2 DEF EditorPage
  <2>2. page' = [page EXCEPT ![t] = p] /\ B!Call(t, c)
    BY <1>2, <1>6 DEF B!HandleSave
  <2>3. c \in EditCall /\ c.fn = "save" /\ c.here
    BY <1>2 DEF EditCall, EditorPage
  <2> HIDE DEF p, c
  <2>4. QED
    BY <1>1, <1>3, <2>1, <2>2, <2>3, BlogCalled
<1>7. QED
  BY <1>4, <1>5, <1>6

(* To the list and to the editor: what was waited for finds its page no more. *)
LEMMA BlogMoves ==
    ASSUME BlogPages, NEW t \in Tab, B!OpenList(t) \/ \E s \in Slug : B!OpenEditor(t, s)
    PROVE  BlogPages'
<1>1. BlogTables' /\ UNCHANGED <<post, public, reader>>
  BY DEF BlogPages, BlogTables, B!OpenList, B!OpenEditor
<1>2. CASE B!OpenList(t)
  <2> DEFINE p == B!Fresh("all")
             c == B!LoadAll("all")
             K == B!Left(t) \cup {c}
  <2>1. p \in ListPage /\ p.at = "list" /\ p.deleting = "none"
    BY DEF B!Fresh, ListPage, B!Filter, B!None
  <2>2. c \in ListCall /\ c.fn = "load" /\ c.here
    BY DEF B!LoadAll, ListCall, B!Filter
  <2>3. page' = [page EXCEPT ![t] = p] /\ calls' = [calls EXCEPT ![t] = K]
    BY <1>2 DEF B!OpenList
  <2> HIDE DEF p, c
  <2>4. BlogTab(p, K)
    BY <2>1, <2>2, BlogLeft DEF BlogTab, Awaits
  <2> HIDE DEF K
  <2>5. QED
    BY <1>1, <2>3, <2>4, BlogStep
<1>3. ASSUME NEW s \in Slug, B!OpenEditor(t, s) PROVE BlogPages'
  <2> DEFINE p == [at |-> "editor", slug |-> s, text |-> 0, saving |-> FALSE, uploading |-> FALSE]
             c == [fn |-> "open", slug |-> s, here |-> TRUE]
             K == B!Left(t) \cup IF page[t].listed[s] = B!None THEN {} ELSE {c}
  <2>1. p \in EditorPage /\ p.at = "editor" /\ ~p.saving /\ ~p.uploading
    BY ConsoleAssumption DEF EditorPage, B!Text
  <2>2. c \in EditCall /\ c \notin ListCall
    BY DEF EditCall, ListCall
  <2>3. page' = [page EXCEPT ![t] = p] /\ calls' = [calls EXCEPT ![t] = K]
    BY <1>3 DEF B!OpenEditor
  <2> HIDE DEF p, c
  <2>4. BlogTab(p, K)
    BY <2>1, <2>2, BlogLeft DEF BlogTab
  <2> HIDE DEF K
  <2>5. QED
    BY <1>1, <2>3, <2>4, BlogStep
<1>4. QED
  BY <1>2, <1>3

(* The calls of the list are answered. *)
LEMMA BlogListServed ==
    ASSUME BlogPages, NEW t \in Tab, B!Loaded(t) \/ B!Toggled(t) \/ B!Deleted(t)
    PROVE  BlogPages'
<1> DEFINE r == page[t]
<1>1. /\ \A c \in calls[t] : c \in ListCall \cup EditCall
      /\ \A c \in calls[t] : c.here /\ c \in ListCall => r.at = "list" /\ r \in ListPage
      /\ BlogTables
  BY BlogAt DEF BlogTab
<1>2. CASE B!Loaded(t)
  <2>1. PICK c \in calls[t] : /\ c.fn = "load"
          /\ LET list == [s \in Slug |-> IF c.filter \in {"all", post[s].status} THEN post[s].status ELSE B!None] IN
             \E rows \in {list, [s \in Slug |-> B!None]} :
                B!Then(t, c, [page[t] EXCEPT !.listed = rows, !.loading = FALSE])
          /\ B!Answer(t, c)
    BY <1>2 DEF B!Loaded
  <2>2. c \in ListCall
    BY <1>1, <2>1 DEF EditCall
  <2>3. PICK rows \in [Slug -> {"none", "draft", "published"}] :
            B!Then(t, c, [page[t] EXCEPT !.listed = rows, !.loading = FALSE])
    <3>1. \A s \in Slug : post[s].status \in {"none", "draft", "published"}
      BY <1>1 DEF BlogTables, B!Row, B!None
    <3>2. QED
      BY <2>1, <3>1 DEF B!None
  <2> DEFINE a == [r EXCEPT !.listed = rows]
             p == [a EXCEPT !.loading = FALSE]
  <2>4. c.here => p \in ListPage /\ p.at = "list" /\ p.deleting = r.deleting /\ ~p.loading
    <3> SUFFICES ASSUME c.here PROVE p \in ListPage /\ p.at = "list" /\ p.deleting = r.deleting /\ ~p.loading
      OBVIOUS
    <3>1. r \in ListPage
      BY <1>1, <2>2
    <3>2. a \in ListPage /\ a.deleting = r.deleting
      BY <2>3, <3>1 DEF ListPage
    <3> HIDE DEF a
    <3>3. QED
      BY <3>2 DEF ListPage
  <2>5. B!Then(t, c, p)
    BY <2>3
  <2>6. BlogTables'
    BY <1>1, <1>2 DEF B!Loaded, BlogTables
  <2> HIDE DEF p
  <2>7. QED
    BY <1>1, <2>1, <2>2, <2>4, <2>5, <2>6, BlogAnswered
<1>3. CASE B!Toggled(t)
  <2> DEFINE Page(c) == [page[t] EXCEPT !.listed[c.slug] = IF @ = B!None THEN B!None ELSE c.to]
  <2>1. PICK c \in calls[t] : /\ c.fn = "toggle"
          /\ \/ /\ post[c.slug].status # B!None
                /\ post' = [post EXCEPT ![c.slug].status = c.to]
                /\ public' = public \cup {<<c.slug, post[c.slug].text>> : x \in {c.to} \cap {"published"}}
             \/ UNCHANGED <<post, public>>
          /\ B!Then(t, c, Page(c))
          /\ B!Answer(t, c)
    BY <1>3 DEF B!Toggled
  <2>2. c \in ListCall /\ c.slug \in Slug /\ c.to \in {"published", "draft"}
    BY <1>1, <2>1 DEF ListCall, EditCall
  <2> DEFINE p == Page(c)
  <2>3. c.here => p \in ListPage /\ p.at = "list" /\ p.deleting = r.deleting /\ p.loading = r.loading
    <3> SUFFICES ASSUME c.here
                 PROVE  p \in ListPage /\ p.at = "list" /\ p.deleting = r.deleting /\ p.loading = r.loading
      OBVIOUS
    <3>1. r \in ListPage
      BY <1>1, <2>2
    <3> DEFINE x == IF r.listed[c.slug] = B!None THEN B!None ELSE c.to
               list == [r.listed EXCEPT ![c.slug] = x]
    <3>2. x \in {"none", "draft", "published"}
      BY <2>2 DEF B!None
    <3>3. p = [r EXCEPT !.listed = list]
      OBVIOUS
    <3> HIDE DEF x
    <3>4. list \in [Slug -> {"none", "draft", "published"}]
      BY <3>1, <3>2 DEF ListPage
    <3> HIDE DEF list, p
    <3>5. QED
      BY <3>1, <3>3, <3>4 DEF ListPage
  <2>4. B!Then(t, c, p)
    BY <2>1
  <2>5. BlogTables'
    <3>1. UNCHANGED reader
      BY <1>3 DEF B!Toggled
    <3>2. post[c.slug] \in B!Row
      BY <1>1, <2>2 DEF BlogTables
    <3>3. [post EXCEPT ![c.slug].status = c.to] \in [Slug -> B!Row]
      BY <1>1, <2>2, <3>2 DEF BlogTables, B!Row
    <3>4. QED
      BY <1>1, <2>1, <2>2, <3>1, <3>2, <3>3 DEF BlogTables, B!Row
  <2> HIDE DEF p
  <2>6. QED
    BY <1>1, <2>1, <2>2, <2>3, <2>4, <2>5, BlogAnswered
<1>4. CASE B!Deleted(t)
  <2> DEFINE Page(c) == [page[t] EXCEPT !.listed[c.slug] = B!None, !.deleting = B!None]
  <2>1. PICK c \in calls[t] : /\ c.fn = "delete" /\ post' \in {post, [post EXCEPT ![c.slug] = B!NoRow]}
                              /\ B!Then(t, c, Page(c)) /\ B!Answer(t, c)
    BY <1>4 DEF B!Deleted
  <2>2. c \in ListCall /\ c.slug \in Slug
    BY <1>1, <2>1 DEF ListCall, EditCall
  <2> DEFINE p == Page(c)
  <2>3. c.here => p \in ListPage /\ p.at = "list" /\ p.deleting = "none" /\ p.loading = r.loading
    <3> SUFFICES ASSUME c.here
                 PROVE  p \in ListPage /\ p.at = "list" /\ p.deleting = "none" /\ p.loading = r.loading
      OBVIOUS
    <3>1. r \in ListPage
      BY <1>1, <2>2
    <3> DEFINE list == [r.listed EXCEPT ![c.slug] = "none"]
               a == [r EXCEPT !.listed = list]
    <3>2. p = [a EXCEPT !.deleting = "none"]
      BY DEF B!None
    <3>3. list \in [Slug -> {"none", "draft", "published"}]
      BY <3>1 DEF ListPage
    <3> HIDE DEF list
    <3>4. a \in ListPage /\ a.loading = r.loading
      BY <3>1, <3>3 DEF ListPage
    <3> HIDE DEF a, p
    <3>5. QED
      BY <3>2, <3>4 DEF ListPage
  <2>4. B!Then(t, c, p)
    BY <2>1
  <2>5. BlogTables'
    <3>1. B!NoRow \in B!Row
      BY ConsoleAssumption DEF B!NoRow, B!Row, B!Text, B!None
    <3>2. QED
      BY <1>1, <1>4, <2>1, <3>1 DEF BlogTables, B!Deleted
  <2> HIDE DEF p
  <2>6. QED
    BY <1>1, <2>1, <2>2, <2>3, <2>4, <2>5, BlogAnswered
<1>5. QED
  BY <1>2, <1>3, <1>4

(* The calls of the editor are answered. *)
LEMMA BlogEditorServed ==
    ASSUME BlogPages, NEW t \in Tab, B!Opened(t) \/ B!Uploaded(t) \/ B!Saved(t)
    PROVE  BlogPages'
<1> DEFINE r == page[t]
<1>1. /\ \A c \in calls[t] : c \in ListCall \cup EditCall
      /\ \A c \in calls[t] : c.here /\ c \notin ListCall => r.at = "editor" /\ r \in EditorPage
      /\ r \in ListPage \cup EditorPage
      /\ BlogTables
  BY BlogAt DEF BlogTab
<1>2. CASE B!Opened(t)
  <2> DEFINE Page(c) == [page[t] EXCEPT !.slug = c.slug, !.text = post[c.slug].text]
  <2>1. PICK c \in calls[t] : /\ c.fn = "open"
                              /\ \/ post[c.slug].status # B!None /\ B!Then(t, c, Page(c))
                                 \/ page' = page
                              /\ B!Answer(t, c)
    BY <1>2 DEF B!Opened
  <2>2. c \in EditCall /\ c \notin ListCall /\ c.slug \in Slug
    BY <1>1, <2>1 DEF ListCall, EditCall
  <2>3. BlogTables'
    BY <1>1, <1>2 DEF B!Opened, BlogTables
  <2>4. CASE page' = page
    <3>1. B!Then(t, c, r)
      BY <2>4, BlogAt DEF B!Then
    <3>2. c.here => r.at = "editor"
      BY <1>1, <2>2
    <3>3. QED
      BY <1>1, <2>1, <2>3, <3>1, <3>2, BlogAnswered
  <2>5. CASE B!Then(t, c, Page(c))
    <3> DEFINE text == post[c.slug].text
               a == [r EXCEPT !.slug = c.slug]
               p == [a EXCEPT !.text = text]
    <3>1. text \in B!Text
      BY <1>1, <2>2 DEF BlogTables, B!Row
    <3> HIDE DEF text
    <3>2. c.here => p \in EditorPage /\ p.at = "editor" /\ p.saving = r.saving /\ p.uploading = r.uploading
      <4> SUFFICES ASSUME c.here
                   PROVE  p \in EditorPage /\ p.at = "editor" /\ p.saving = r.saving /\ p.uploading = r.uploading
        OBVIOUS
      <4>1. a \in EditorPage /\ a.saving = r.saving /\ a.uploading = r.uploading
        BY <1>1, <2>2 DEF EditorPage
      <4> HIDE DEF a
      <4>2. QED
        BY <3>1, <4>1 DEF EditorPage
    <3>3. B!Then(t, c, p)
      BY <2>5 DEF text
    <3>4. c.here => r.at = "editor"
      BY <1>1, <2>2
    <3> HIDE DEF p
    <3>5. QED
      BY <2>1, <2>3, <3>2, <3>3, <3>4, BlogAnswered
  <2>6. QED
    BY <2>1, <2>4, <2>5
<1>3. CASE B!Uploaded(t)
  <2>1. PICK c \in calls[t], text \in B!Text :
            /\ c.fn = "upload" /\ B!Then(t, c, [page[t] EXCEPT !.uploading = FALSE, !.text = text])
            /\ B!Answer(t, c)
    BY <1>3 DEF B!Uploaded
  <2>2. c \in EditCall /\ c \notin ListCall
    BY <1>1, <2>1 DEF ListCall, EditCall
  <2> DEFINE a == [r EXCEPT !.uploading = FALSE]
             p == [a EXCEPT !.text = text]
  <2>3. c.here => p \in EditorPage /\ p.at = "editor" /\ p.saving = r.saving /\ ~p.uploading
    <3> SUFFICES ASSUME c.here
                 PROVE  p \in EditorPage /\ p.at = "editor" /\ p.saving = r.saving /\ ~p.uploading
      OBVIOUS
    <3>1. a \in EditorPage /\ a.saving = r.saving /\ ~a.uploading
      BY <1>1, <2>2 DEF EditorPage
    <3> HIDE DEF a
    <3>2. QED
      BY <2>1, <3>1 DEF EditorPage
  <2>4. c.here => r.at = "editor"
    BY <1>1, <2>2
  <2>5. B!Then(t, c, p)
    BY <2>1
  <2>6. BlogTables'
    BY <1>1, <1>3 DEF B!Uploaded, BlogTables
  <2> HIDE DEF p
  <2>7. QED
    BY <2>1, <2>3, <2>4, <2>5, <2>6, BlogAnswered
<1>4. CASE B!Saved(t)
  <2> DEFINE p == [page[t] EXCEPT !.saving = FALSE]
  <2>1. PICK c \in calls[t] : /\ c.fn = "save"
          /\ \/ /\ post' = [post EXCEPT ![c.slug] = [status |-> c.status, text |-> c.text]]
                /\ public' = public \cup {<<c.slug, c.text>> : x \in {c.status} \cap {"published"}}
             \/ UNCHANGED <<post, public>>
          /\ B!Then(t, c, p)
          /\ B!Answer(t, c)
    BY <1>4 DEF B!Saved
  <2>2. c \in EditCall /\ c \notin ListCall
        /\ c.slug \in Slug /\ c.text \in B!Text /\ c.status \in {"draft", "published"}
    BY <1>1, <2>1 DEF ListCall, EditCall
  <2>3. c.here => p \in EditorPage /\ p.at = "editor" /\ p.uploading = r.uploading /\ ~p.saving
    BY <1>1, <2>2 DEF EditorPage
  <2>4. c.here => r.at = "editor"
    BY <1>1, <2>2
  <2>5. BlogTables'
    <3>1. UNCHANGED reader
      BY <1>4 DEF B!Saved
    <3>2. [status |-> c.status, text |-> c.text] \in B!Row
      BY <2>2 DEF B!Row
    <3>3. QED
      BY <1>1, <2>1, <2>2, <3>1, <3>2 DEF BlogTables
  <2> HIDE DEF p
  <2>6. QED
    BY <2>1, <2>3, <2>4, <2>5, BlogAnswered
<1>5. QED
  BY <1>2, <1>3, <1>4

(* The website, which has its types whatever it reads. *)
LEMMA BlogReader ==
    ASSUME BlogPages, B!Read
    PROVE  BlogPages'
<1> DEFINE r == reader
           Statuses == {"loading", "ready", "missing", "crashed"}
<1>1. BlogTables /\ UNCHANGED <<post, public, page, calls>>
  BY DEF BlogPages, B!Read, B!VisitList, B!VisitPost, B!Reload, B!FetchDBPosts
<1> SUFFICES reader' \in B!Reader
  BY <1>1 DEF BlogPages, BlogTables
<1>2. r \in B!Reader
  BY <1>1 DEF BlogTables
<1>3. B!GetAllPosts \in B!Posts
  <2>1. r.static \in SUBSET Slug /\ r.cache \in B!Posts
    BY <1>2 DEF B!Reader
  <2>2. QED
    BY <2>1, Merged DEF B!GetAllPosts
<1>4. ASSUME NEW at \in Slug \cup {"list"}, NEW view \in B!Posts, NEW status \in Statuses,
             reader' = [reader EXCEPT !.at = at, !.view = view, !.status = status]
      PROVE  reader' \in B!Reader
  <2> DEFINE a == [r EXCEPT !.at = at]
             b == [a EXCEPT !.view = view]
             p == [b EXCEPT !.status = status]
  <2>1. a \in B!Reader
    BY <1>2 DEF B!Reader
  <2>2. b \in B!Reader
    <3> HIDE DEF a
    <3> QED
      BY <2>1 DEF B!Reader
  <2>3. p \in B!Reader
    <3> HIDE DEF b
    <3> QED
      BY <2>2 DEF B!Reader
  <2>4. reader' = p
    BY <1>4
  <2>5. QED
    BY <2>3, <2>4
<1>5. CASE B!VisitList
  BY <1>3, <1>4, <1>5 DEF B!VisitList
<1>6. ASSUME NEW s \in Slug, B!VisitPost(s) PROVE reader' \in B!Reader
  <2> DEFINE view == [B!NoPosts EXCEPT ![s] = B!GetAllPosts[s]]
  <2>1. view \in B!Posts
    BY <1>3, NoPostsTyped DEF B!Posts
  <2>2. PICK status \in Statuses : reader' = [reader EXCEPT !.at = s, !.view = view, !.status = status]
    BY <1>6 DEF B!VisitPost
  <2> HIDE DEF view
  <2>3. QED
    BY <1>4, <2>1, <2>2
<1>7. CASE B!Reload
  <2>1. r.static \in SUBSET Slug
    BY <1>2 DEF B!Reader
  <2>2. QED
    BY <1>7, <2>1, Visited DEF B!Reload
<1>8. CASE B!FetchDBPosts
  <2>1. PICK db \in {[s \in Slug |-> IF post[s].status = "published" THEN post[s].text ELSE B!NoText], B!NoPosts} :
            LET q == [reader EXCEPT !.fetching = FALSE, !.cache = db] IN
            reader' = CASE reader.at = "list" -> [q EXCEPT !.view = B!MergePosts(reader.static, db)]
                        [] reader.status = "loading" ->
                              [q EXCEPT !.status = IF db[reader.at] = B!NoText THEN "missing" ELSE "crashed"]
                        [] OTHER -> q
    BY <1>8 DEF B!FetchDBPosts
  <2>2. db \in B!Posts
    <3>1. \A s \in Slug : post[s].text \in B!Text
      BY <1>1 DEF BlogTables, B!Row
    <3>2. [s \in Slug |-> IF post[s].status = "published" THEN post[s].text ELSE B!NoText] \in B!Posts
      BY <3>1 DEF B!Posts
    <3>3. QED
      BY <2>1, <3>2, NoPostsTyped
  <2> DEFINE a == [reader EXCEPT !.fetching = FALSE]
             q == [a EXCEPT !.cache = db]
  <2>3. a \in B!Reader
    BY <1>2 DEF B!Reader
  <2>4. q \in B!Reader
    <3> HIDE DEF a
    <3> QED
      BY <2>2, <2>3 DEF B!Reader
  <2>5. reader' = CASE reader.at = "list" -> [q EXCEPT !.view = B!MergePosts(reader.static, db)]
                    [] reader.status = "loading" ->
                          [q EXCEPT !.status = IF db[reader.at] = B!NoText THEN "missing" ELSE "crashed"]
                    [] OTHER -> q
    BY <2>1
  <2>6. B!MergePosts(reader.static, db) \in B!Posts
    <3>1. r.static \in SUBSET Slug
      BY <1>2 DEF B!Reader
    <3>2. QED
      BY <2>2, <3>1, Merged
  <2> HIDE DEF q
  <2>7. \/ reader' = [q EXCEPT !.view = B!MergePosts(reader.static, db)]
        \/ \E status \in Statuses : reader' = [q EXCEPT !.status = status]
        \/ reader' = q
    <3>1. CASE reader.at = "list" /\ reader.status # "loading"
      BY <2>5, <3>1
    <3>2. CASE reader.at = "list" /\ reader.status = "loading"
      BY <2>5, <3>2
    <3>3. CASE reader.at # "list" /\ reader.status = "loading"
      BY <2>5, <3>3
    <3>4. CASE reader.at # "list" /\ reader.status # "loading"
      BY <2>5, <3>4
    <3>5. QED
      BY <3>1, <3>2, <3>3, <3>4
  <2>8. QED
    BY <2>4, <2>6, <2>7 DEF B!Reader
<1>9. QED
  BY <1>5, <1>6, <1>7, <1>8 DEF B!Read

LEMMA BlogPagesNext == BlogPages /\ B!Next => BlogPages'
BY BlogListClicks, BlogEditorClicks, BlogMoves, BlogListServed, BlogEditorServed, BlogReader
   DEF B!Next, B!Handle, B!Serve

-----------------------------------------------------------------------------
(* The dialogs of the webhooks and of the tools                             *)

(* The calls of a dialog that is closed are shown no more. *)
Faded(c, gone) == [c EXCEPT !.shown = c.shown /\ c.from \notin gone]
LEMMA FadedItems ==
    ASSUME NEW S, NEW q \in Seq(S), NEW gone, \A c \in S : Faded(c, gone) \in S
    PROVE  /\ H!Gone(q, gone) = T!Gone(q, gone)
           /\ T!Gone(q, gone) \in Seq(S)
           /\ Items(T!Gone(q, gone)) = {Faded(c, gone) : c \in Items(q)}
<1> DEFINE g == [n \in 1..Len(q) |-> Faded(q[n], gone)]
<1>1. DOMAIN q = 1..Len(q) /\ Len(q) \in Nat /\ \A n \in 1..Len(q) : q[n] \in S
  OBVIOUS
<1>2. H!Gone(q, gone) = g /\ T!Gone(q, gone) = g
  BY <1>1 DEF H!Gone, T!Gone, Faded
<1>3. g \in Seq(S) /\ Len(g) = Len(q) /\ \A n \in 1..Len(g) : g[n] = Faded(q[n], gone)
  <2>1. \A n \in 1..Len(q) : Faded(q[n], gone) \in S
    BY <1>1
  <2> HIDE DEF Faded
  <2>2. g \in Seq(S)
    BY <1>1, <2>1
  <2>3. Len(g) = Len(q)
    BY <1>1, <2>2, LenProperties
  <2>4. QED
    BY <2>2, <2>3
<1> HIDE DEF g
<1>4. Items(g) = {Faded(c, gone) : c \in Items(q)}
  BY <1>3 DEF Items
<1>5. QED
  BY <1>2, <1>3, <1>4

(* The calls of the page, each with the dialog it is from. *)
HookCall ==
    [fn : {"list"}, from : {"page"}, shown : {FALSE}]
    \cup [fn : {"logs"}, from : {"logs"}, item : H!Hook, shown : BOOLEAN]
    \cup [fn : {"create"}, from : {"create"}, item : {0}, shown : BOOLEAN, form : H!Form]
    \cup [fn : {"edit", "write"}, from : {"edit"}, item : H!Hook, shown : BOOLEAN, form : H!Form]
    \cup [fn : {"delete"}, from : {"delete"}, item : H!Hook, shown : BOOLEAN]

(* What is shown on page p belongs to its dialog, and the button of that is
   disabled only while it has a call under way. *)
HookTab(p, q) ==
    /\ p \in H!Page /\ q \in Seq(HookCall)
    /\ \A c \in Items(q) : c.shown => c.from = p.dialog.fn
    /\ p.dialog.fn \in {"create", "edit", "delete"} /\ p.dialog.busy =>
          \E c \in Items(q) : c.from = p.dialog.fn /\ c.shown
HookPages ==
    /\ hook \in [H!Hook -> H!Row]
    /\ page = [t \in Tab |-> page[t]] /\ calls = [t \in Tab |-> calls[t]]
    /\ \A t \in Tab : HookTab(page[t], calls[t])

LEMMA HookHolds == HookPages => H!TypeOK /\ H!LocksAreTrue
<1> SUFFICES ASSUME HookPages PROVE H!TypeOK /\ H!LocksAreTrue
  OBVIOUS
<1>1. H!TypeOK
  BY DEF HookPages, HookTab, H!TypeOK
<1>2. ASSUME NEW t \in Tab, H!Saving(t), page[t].dialog.fn # "logs"
      PROVE  \E c \in H!Waiting(t) : c.from = page[t].dialog.fn /\ c.shown
  <2>1. HookTab(page[t], calls[t])
    BY DEF HookPages
  <2>2. page[t].dialog.fn \in {"create", "edit", "delete"} /\ page[t].dialog.busy
    BY <1>2, <2>1 DEF HookTab, H!Saving, H!Page, H!Dialog
  <2>3. H!Waiting(t) = Items(calls[t])
    BY DEF H!Waiting, Items
  <2>4. QED
    BY <2>1, <2>2, <2>3 DEF HookTab
<1>3. QED
  BY <1>1, <1>2 DEF H!LocksAreTrue

LEMMA HookStep ==
    ASSUME HookPages, NEW t \in Tab, NEW p, NEW q, HookTab(p, q), hook' \in [H!Hook -> H!Row],
           page' = [page EXCEPT ![t] = p], calls' = [calls EXCEPT ![t] = q]
    PROVE  HookPages'
BY DEF HookPages

(* A page without a dialog, of which no call is shown. *)
LEMMA HookClosed ==
    ASSUME NEW p \in H!Page, NEW q \in Seq(HookCall), p.dialog = H!Closed,
           \A c \in Items(q) : ~c.shown
    PROVE  HookTab(p, q)
BY DEF HookTab, H!Closed

LEMMA HookFaded ==
    ASSUME NEW p, NEW q \in Seq(HookCall), HookTab(p, q) \/ \A c \in Items(q) : c.shown => c.from = p.dialog.fn
    PROVE  /\ H!Gone(q, {p.dialog.fn}) \in Seq(HookCall)
           /\ \A c \in Items(H!Gone(q, {p.dialog.fn})) : ~c.shown
<1> DEFINE g == {p.dialog.fn}
<1>1. ASSUME NEW c \in HookCall
      PROVE  Faded(c, g) \in HookCall /\ Faded(c, g).shown = (c.shown /\ c.from \notin g)
  <2> DEFINE x == c.shown /\ c.from \notin g
  <2>1. x \in BOOLEAN /\ (c.shown = FALSE => x = FALSE)
    OBVIOUS
  <2>2. Faded(c, g) = [c EXCEPT !.shown = x]
    BY DEF Faded
  <2> HIDE DEF x
  <2>3. [c EXCEPT !.shown = x] \in HookCall /\ [c EXCEPT !.shown = x].shown = x
    BY <2>1 DEF HookCall
  <2>4. QED
    BY <2>2, <2>3 DEF x
<1>2. \A c \in Items(q) : c \in HookCall /\ (c.shown => c.from \in g)
  BY ItemsIn DEF HookTab
<1> HIDE DEF g
<1>3. H!Gone(q, g) \in Seq(HookCall) /\ Items(H!Gone(q, g)) = {Faded(c, g) : c \in Items(q)}
  <2>1. \A c \in HookCall : Faded(c, g) \in HookCall
    BY <1>1
  <2>2. /\ H!Gone(q, g) = T!Gone(q, g) /\ T!Gone(q, g) \in Seq(HookCall)
        /\ Items(T!Gone(q, g)) = {Faded(c, g) : c \in Items(q)}
    BY <2>1, FadedItems
  <2>3. QED
    BY <2>2
<1>4. QED
  BY <1>1, <1>2, <1>3 DEF g

(* The queue without its head, and with the list fetched anew. *)
LEMMA HookQueue ==
    ASSUME HookPages, NEW t \in Tab
    PROVE  LET r == page[t]  q == calls[t]  c == Head(q) IN
           /\ HookTab(r, q) /\ r \in H!Page /\ q \in Seq(HookCall)
           /\ page = [u \in Tab |-> page[u]] /\ calls = [u \in Tab |-> calls[u]]
           /\ q # <<>> => /\ c \in HookCall /\ Tail(q) \in Seq(HookCall)
                          /\ Items(q) = {c} \cup Items(Tail(q))
           /\ H!Refreshed \in Seq(HookCall) /\ <<>> \in Seq(HookCall)
           /\ \A d \in Items(H!Refreshed) : ~d.shown
           /\ Items(<<>>) = {}
<1>1. HookTab(page[t], calls[t]) /\ page[t] \in H!Page /\ calls[t] \in Seq(HookCall)
  BY DEF HookPages, HookTab
<1>2. page = [u \in Tab |-> page[u]] /\ calls = [u \in Tab |-> calls[u]]
  BY DEF HookPages
<1>3. calls[t] # <<>> => /\ Head(calls[t]) \in HookCall /\ Tail(calls[t]) \in Seq(HookCall)
                         /\ Items(calls[t]) = {Head(calls[t])} \cup Items(Tail(calls[t]))
  BY <1>1, ItemsTail
<1>4. H!Refreshed \in Seq(HookCall) /\ \A d \in Items(H!Refreshed) : ~d.shown
  <2> DEFINE c == [fn |-> "list", from |-> "page", shown |-> FALSE]
  <2>1. c \in HookCall /\ ~c.shown
    BY DEF HookCall
  <2> HIDE DEF c
  <2>2. <<c>> \in Seq(HookCall) /\ Items(<<c>>) = {c}
    BY <2>1, OneItem
  <2>3. H!Refreshed = <<c>>
    BY DEF H!Refreshed, c
  <2>4. QED
    BY <2>1, <2>2, <2>3
<1>5. QED
  BY <1>1, <1>2, <1>3, <1>4, NoItems, EmptySeq

(* A call is made by the dialog that is open. *)
LEMMA HookSubmitted ==
    ASSUME HookPages, NEW t \in Tab, UNCHANGED hook, NEW c \in HookCall, c.shown, c.from = page[t].dialog.fn,
           H!Submit(t, c)
    PROVE  HookPages'
<1> DEFINE r == page[t]
           q == calls[t]
<1>1. HookTab(r, q) /\ r \in H!Page /\ q \in Seq(HookCall)
  BY HookQueue
<1>2. c.from \in {"logs", "create", "edit", "delete"}
  BY <1>1 DEF HookCall, H!Page, H!Dialog, H!Closed
<1> DEFINE d == [r.dialog EXCEPT !.busy = TRUE]
           p == [r EXCEPT !.dialog = d]
<1>3. d \in H!Dialog /\ d.fn = r.dialog.fn
  <2>1. r.dialog \in H!Dialog
    BY <1>1 DEF H!Page
  <2>2. QED
    BY <1>2, <2>1 DEF H!Dialog, H!Closed
<1>4. p \in H!Page /\ p.dialog = d
  <2> HIDE DEF d
  <2> QED
    BY <1>1, <1>3 DEF H!Page
<1>5. page' = [page EXCEPT ![t] = p] /\ calls' = [calls EXCEPT ![t] = Append(q, c)]
  BY HookQueue DEF H!Submit, H!Call
<1> HIDE DEF p, d
<1>6. Append(q, c) \in Seq(HookCall) /\ Items(Append(q, c)) = Items(q) \cup {c}
  BY <1>1, ItemsAppend
<1>7. HookTab(p, Append(q, c))
  BY <1>1, <1>3, <1>4, <1>6 DEF HookTab
<1>8. hook' \in [H!Hook -> H!Row]
  BY DEF HookPages
<1>9. QED
  BY <1>5, <1>7, <1>8, HookStep

(* A dialog is opened, the log with its call. *)
LEMMA HookOpened ==
    ASSUME HookPages, NEW t \in Tab, UNCHANGED hook, page[t].dialog = H!Closed,
           NEW d \in H!Dialog, ~(d.fn \in {"create", "edit", "delete"} /\ d.busy), H!SetDialog(t, d),
           UNCHANGED calls \/ \E c \in HookCall : c.from = d.fn /\ H!Call(t, c)
    PROVE  HookPages'
<1> DEFINE r == page[t]
           q == calls[t]
           p == [r EXCEPT !.dialog = d]
<1>1. HookTab(r, q) /\ r \in H!Page /\ q \in Seq(HookCall) /\ hook' \in [H!Hook -> H!Row]
  BY HookQueue DEF HookPages
<1>2. p \in H!Page /\ p.dialog = d /\ page' = [page EXCEPT ![t] = p]
  BY <1>1, HookQueue DEF H!Page, H!SetDialog
<1>3. \A c \in Items(q) : ~c.shown
  <2>1. \A c \in Items(q) : c \in HookCall /\ (c.shown => c.from = "closed")
    BY <1>1, ItemsIn DEF HookTab, H!Closed
  <2>2. \A c \in HookCall : c.from # "closed"
    BY DEF HookCall
  <2>3. QED
    BY <2>1, <2>2
<1> HIDE DEF p
<1>4. CASE UNCHANGED calls
  <2>1. HookTab(p, q)
    BY <1>1, <1>2, <1>3 DEF HookTab
  <2>2. calls' = [calls EXCEPT ![t] = q]
    BY <1>4, HookQueue
  <2>3. QED
    BY <1>1, <1>2, <2>1, <2>2, HookStep
<1>5. ASSUME NEW c \in HookCall, c.from = d.fn, H!Call(t, c) PROVE HookPages'
  <2>1. Append(q, c) \in Seq(HookCall) /\ Items(Append(q, c)) = Items(q) \cup {c}
    BY <1>1, ItemsAppend
  <2>2. HookTab(p, Append(q, c))
    BY <1>2, <1>3, <1>5, <2>1 DEF HookTab
  <2>3. calls' = [calls EXCEPT ![t] = Append(q, c)]
    BY <1>5, HookQueue DEF H!Call
  <2>4. QED
    BY <1>1, <1>2, <2>2, <2>3, HookStep
<1>6. QED
  BY <1>4, <1>5

(* The head is answered: what else was shown still is. *)
LEMMA HookAnswered ==
    ASSUME HookPages, NEW t \in Tab, calls[t] # <<>>, hook' \in [H!Hook -> H!Row],
           NEW s \in Seq(HookCall), \A d \in Items(s) : ~d.shown, H!Answer(t, s),
           NEW p \in H!Page, page' = [page EXCEPT ![t] = p], p.dialog.fn = page[t].dialog.fn,
           p.dialog.fn \in {"create", "edit", "delete"} /\ p.dialog.busy =>
              page[t].dialog.busy /\ ~(Head(calls[t]).shown /\ Head(calls[t]).from = p.dialog.fn)
    PROVE  HookPages'
<1> DEFINE r == page[t]
           q == calls[t]
           c == Head(q)
           k == Tail(q)
           z == k \o s
<1>1. /\ HookTab(r, q) /\ k \in Seq(HookCall) /\ Items(q) = {c} \cup Items(k)
      /\ calls = [u \in Tab |-> calls[u]]
  BY HookQueue
<1>3. calls' = [calls EXCEPT ![t] = z]
  BY <1>1 DEF H!Answer
<1> HIDE DEF k
<1>2. z \in Seq(HookCall) /\ Items(z) = Items(k) \cup Items(s)
  BY <1>1, ItemsJoin
<1> HIDE DEF z
<1>4. \A d \in Items(z) : d.shown => d.from = p.dialog.fn
  BY <1>1, <1>2 DEF HookTab
<1>5. p.dialog.fn \in {"create", "edit", "delete"} /\ p.dialog.busy =>
          \E d \in Items(z) : d.from = p.dialog.fn /\ d.shown
  BY <1>1, <1>2 DEF HookTab
<1>6. HookTab(p, z)
  BY <1>2, <1>4, <1>5 DEF HookTab
<1>7. QED
  BY <1>3, <1>6, HookStep

(* A call fails: its dialog, if it is still open, is unlocked. *)
LEMMA HookFailed ==
    ASSUME HookPages, NEW t \in Tab, calls[t] # <<>>, hook' \in [H!Hook -> H!Row],
           NEW heard, H!Failed(t, heard), heard \in BOOLEAN,
           Head(calls[t]).shown /\ Head(calls[t]).from \in {"create", "edit", "delete"} => heard,
           Head(calls[t]).from # "closed"
    PROVE  HookPages'
<1> DEFINE r == page[t]
           c == Head(calls[t])
           hit == heard /\ r.dialog.fn = c.from
           d == IF hit THEN [r.dialog EXCEPT !.busy = FALSE] ELSE r.dialog
           p == [r EXCEPT !.dialog = d]
<1>1. r \in H!Page /\ page = [u \in Tab |-> page[u]] /\ <<>> \in Seq(HookCall) /\ Items(<<>>) = {}
  BY HookQueue
<1>2. r.dialog \in H!Dialog
  BY <1>1 DEF H!Page
<1>3. d \in H!Dialog /\ d.fn = r.dialog.fn /\ (hit => ~d.busy) /\ (~hit => d = r.dialog)
  <2> DEFINE e == [r.dialog EXCEPT !.busy = FALSE]
  <2>1. ASSUME r.dialog.fn # "closed" PROVE e \in H!Dialog /\ e.fn = r.dialog.fn /\ ~e.busy
    <3> DEFINE k == r.dialog
    <3>1. k \in H!Dialog /\ k.fn # "closed"
      BY <1>2, <2>1
    <3> HIDE DEF k
    <3>2. k.fn \in {"logs", "create", "edit", "delete"}
      BY <3>1 DEF H!Dialog, H!Closed
    <3>3. [k EXCEPT !.busy = FALSE] \in H!Dialog /\ [k EXCEPT !.busy = FALSE].fn = k.fn
          /\ ~[k EXCEPT !.busy = FALSE].busy
      <4>1. CASE k \in [fn : {"create"}, busy : BOOLEAN, secret : H!Hook \cup {H!None}]
        BY <4>1 DEF H!Dialog
      <4>2. CASE k \in [fn : {"edit", "delete", "logs"}, item : H!Hook, busy : BOOLEAN]
        BY <4>2 DEF H!Dialog
      <4>3. QED
        BY <3>1, <4>1, <4>2 DEF H!Dialog, H!Closed
    <3>4. QED
      BY <3>3 DEF k
  <2> HIDE DEF e
  <2>2. hit => r.dialog.fn # "closed"
    OBVIOUS
  <2>3. d = IF hit THEN e ELSE r.dialog
    BY DEF e
  <2> HIDE DEF d, hit
  <2>4. QED
    BY <1>2, <2>1, <2>2, <2>3
<1>4. page' = [page EXCEPT ![t] = p] /\ H!Answer(t, <<>>)
  BY <1>1 DEF H!Failed
<1> HIDE DEF d
<1>5. p \in H!Page /\ p.dialog = d
  BY <1>1, <1>3 DEF H!Page
<1>6. p.dialog.fn \in {"create", "edit", "delete"} /\ p.dialog.busy =>
          r.dialog.busy /\ ~(c.shown /\ c.from = p.dialog.fn)
  BY <1>3, <1>5
<1> HIDE DEF p
<1>7. p.dialog.fn = r.dialog.fn
  BY <1>3, <1>5
<1>8. QED
  BY <1>1, <1>4, <1>5, <1>6, <1>7, HookAnswered

(* The dialog goes, and what it showed with it. *)
LEMMA HookGone ==
    ASSUME HookPages, NEW t \in Tab, hook' \in [H!Hook -> H!Row], NEW q \in Seq(HookCall),
           Items(q) \subseteq Items(calls[t]), NEW s \in Seq(HookCall), \A d \in Items(s) : ~d.shown,
           NEW p \in H!Page, p.dialog = H!Closed, page' = [page EXCEPT ![t] = p],
           calls' = [calls EXCEPT ![t] = H!Gone(q, H!OfDialog(t)) \o s]
    PROVE  HookPages'
<1> DEFINE g == H!Gone(q, {page[t].dialog.fn})
           z == g \o s
<1>1. H!OfDialog(t) = {page[t].dialog.fn}
  BY DEF H!OfDialog
<1>2. \A c \in Items(q) : c.shown => c.from = page[t].dialog.fn
  BY HookQueue DEF HookTab
<1>3. g \in Seq(HookCall) /\ \A c \in Items(g) : ~c.shown
  BY <1>2, HookFaded
<1> HIDE DEF g
<1>4. z \in Seq(HookCall) /\ Items(z) = Items(g) \cup Items(s)
  BY <1>3, ItemsJoin
<1>5. calls' = [calls EXCEPT ![t] = z]
  BY <1>1 DEF g
<1> HIDE DEF z
<1>6. HookTab(p, z)
  BY <1>3, <1>4, HookClosed
<1>7. QED
  BY <1>5, <1>6, HookStep

(* It succeeds: its dialog goes, or is another by now. *)
LEMMA HookSucceeded ==
    ASSUME HookPages, NEW t \in Tab, calls[t] # <<>>, hook' \in [H!Hook -> H!Row],
           NEW fn \in {"edit", "delete"}, Head(calls[t]).from = fn, H!Succeeded(t, fn)
    PROVE  HookPages'
<1> DEFINE r == page[t]
           q == calls[t]
           c == Head(q)
           d == r.dialog
<1>1. /\ r \in H!Page /\ page = [u \in Tab |-> page[u]] /\ Tail(q) \in Seq(HookCall)
      /\ Items(q) = {c} \cup Items(Tail(q))
      /\ H!Refreshed \in Seq(HookCall) /\ \A x \in Items(H!Refreshed) : ~x.shown
  BY HookQueue
<1>2. CASE d.fn = fn /\ (c.shown \/ d.item = c.item)
  <2>1. H!SetDialog(t, H!Closed)
        /\ calls' = [calls EXCEPT ![t] = H!Gone(Tail(@), H!OfDialog(t)) \o H!Refreshed]
    BY <1>2 DEF H!Succeeded
  <2>2. calls' = [calls EXCEPT ![t] = H!Gone(Tail(q), H!OfDialog(t)) \o H!Refreshed]
    BY <2>1
  <2> DEFINE p == [r EXCEPT !.dialog = H!Closed]
  <2>3. p \in H!Page /\ p.dialog = H!Closed /\ page' = [page EXCEPT ![t] = p]
    BY <1>1, <2>1 DEF H!Page, H!Dialog, H!SetDialog
  <2> HIDE DEF p
  <2>4. QED
    BY <1>1, <2>2, <2>3, HookGone
<1>3. CASE ~(d.fn = fn /\ (c.shown \/ d.item = c.item))
  <2>1. page' = [page EXCEPT ![t] = r] /\ H!Answer(t, H!Refreshed)
    BY <1>1, <1>3 DEF H!Succeeded
  <2>2. QED
    BY <1>1, <1>3, <2>1, HookAnswered
<1>4. QED
  BY <1>2, <1>3

(* A new list may take the dialog of a row with it. *)
LEMMA HookListed ==
    ASSUME HookPages, NEW t \in Tab, H!GetWebhooks(t)
    PROVE  HookPages'
<1> DEFINE r == page[t]
           q == calls[t]
           c == Head(q)
<1>1. q # <<>> /\ c.fn = "list" /\ UNCHANGED hook
  BY DEF H!GetWebhooks, H!Busy
<1>2. /\ r \in H!Page /\ page = [u \in Tab |-> page[u]] /\ Tail(q) \in Seq(HookCall)
      /\ Items(q) = {c} \cup Items(Tail(q)) /\ c \in HookCall
      /\ <<>> \in Seq(HookCall) /\ \A x \in Items(<<>>) : ~x.shown
  BY <1>1, HookQueue
<1>3. ~c.shown
  BY <1>1, <1>2 DEF HookCall
<1>4. hook \in [H!Hook -> H!Row] /\ hook' \in [H!Hook -> H!Row]
  BY <1>1 DEF HookPages
<1>5. PICK items \in {H!Live, {}} :
          H!Listed(t, [h \in H!Hook |-> IF h \in items THEN hook[h].form ELSE H!None], items)
  BY DEF H!GetWebhooks
<1> DEFINE list == [h \in H!Hook |-> IF h \in items THEN hook[h].form ELSE H!None]
           a == [r EXCEPT !.listed = list]
<1>6. list \in [H!Hook -> H!Form \cup {0}]
  BY <1>4 DEF H!Row, H!None
<1>7. H!Listed(t, list, items)
  BY <1>5
<1> HIDE DEF list
<1>8. a \in H!Page /\ a.dialog = r.dialog
  BY <1>2, <1>6 DEF H!Page, H!None
<1>9. CASE "item" \in DOMAIN page[t].dialog /\ page[t].dialog.item \notin items
  <2>1. page' = [page EXCEPT ![t].listed = list, ![t].dialog = H!Closed]
        /\ calls' = [calls EXCEPT ![t] = H!Gone(Tail(@), H!OfDialog(t))]
    BY <1>7, <1>9 DEF H!Listed
  <2> DEFINE p == [a EXCEPT !.dialog = H!Closed]
             z == H!Gone(Tail(q), H!OfDialog(t))
  <2>2. page' = [page EXCEPT ![t] = p]
    BY <1>2, <2>1
  <2>3. p \in H!Page /\ p.dialog = H!Closed
    <3> HIDE DEF a
    <3> QED
      BY <1>8 DEF H!Page, H!Dialog
  <2>4. calls' = [calls EXCEPT ![t] = z]
    BY <2>1
  <2>5. z \in Seq(HookCall) /\ \A x \in Items(z) : ~x.shown
    <3>1. \A x \in Items(Tail(q)) : x.shown => x.from = r.dialog.fn
      BY <1>2, HookQueue DEF HookTab
    <3>2. QED
      BY <1>2, <3>1, HookFaded DEF H!OfDialog
  <2> HIDE DEF p, z
  <2>6. HookTab(p, z)
    BY <2>3, <2>5, HookClosed
  <2>7. QED
    BY <1>4, <2>2, <2>4, <2>6, HookStep
<1>10. CASE ~("item" \in DOMAIN page[t].dialog /\ page[t].dialog.item \notin items)
  <2>1. page' = [page EXCEPT ![t].listed = list] /\ H!Answer(t, <<>>)
    BY <1>7, <1>10 DEF H!Listed
  <2>2. page' = [page EXCEPT ![t] = a]
    BY <1>2, <2>1
  <2> HIDE DEF a
  <2>3. QED
    BY <1>1, <1>2, <1>3, <1>4, <1>8, <2>1, <2>2, HookAnswered
<1>11. QED
  BY <1>9, <1>10

(* What a member does keeps the locks true. *)
LEMMA HookOpen ==
    ASSUME HookPages, NEW t \in Tab, H!OpenCreate(t) \/ \E h \in H!Hook : H!OpenDialog(t, h)
    PROVE  HookPages'
<1>1. CASE H!OpenCreate(t)
  <2> DEFINE d == [fn |-> "create", busy |-> FALSE, secret |-> H!None]
  <2>1. d \in H!Dialog /\ ~d.busy
    BY DEF H!Dialog
  <2>2. page[t].dialog = H!Closed /\ H!SetDialog(t, d) /\ UNCHANGED <<hook, calls>>
    BY <1>1 DEF H!OpenCreate
  <2> HIDE DEF d
  <2>3. QED
    BY <2>1, <2>2, HookOpened
<1>2. ASSUME NEW h \in H!Hook, H!OpenDialog(t, h) PROVE HookPages'
  <2>1. PICK fn \in {"edit", "delete", "logs"} :
            /\ H!SetDialog(t, [fn |-> fn, item |-> h, busy |-> fn = "logs"])
            /\ IF fn = "logs" THEN H!Call(t, [fn |-> fn, from |-> fn, item |-> h, shown |-> TRUE])
                              ELSE UNCHANGED calls
    BY <1>2 DEF H!OpenDialog
  <2> DEFINE d == [fn |-> fn, item |-> h, busy |-> fn = "logs"]
             c == [fn |-> fn, from |-> fn, item |-> h, shown |-> TRUE]
  <2>2. page[t].dialog = H!Closed /\ UNCHANGED hook
    BY <1>2 DEF H!OpenDialog
  <2>3. d \in H!Dialog /\ d.fn = fn /\ (d.busy => fn = "logs")
    BY <1>2 DEF H!Dialog
  <2>4. H!SetDialog(t, d) /\ (fn = "logs" => H!Call(t, c)) /\ (fn # "logs" => UNCHANGED calls)
    BY <2>1
  <2>5. fn = "logs" => c \in HookCall /\ c.from = fn
    BY <1>2 DEF HookCall
  <2> HIDE DEF d, c
  <2>6. QED
    BY <2>2, <2>3, <2>4, <2>5, HookOpened
<1>3. QED
  BY <1>1, <1>2

LEMMA HookClose ==
    ASSUME HookPages, NEW t \in Tab, H!Close(t)
    PROVE  HookPages'
<1> DEFINE r == page[t]
           q == calls[t]
           z == H!Gone(q, H!OfDialog(t))
           p == [r EXCEPT !.dialog = H!Closed]
<1>1. /\ HookTab(r, q) /\ q \in Seq(HookCall) /\ r \in H!Page
      /\ page = [u \in Tab |-> page[u]]
  BY HookQueue
<1>2. H!SetDialog(t, H!Closed) /\ calls' = [calls EXCEPT ![t] = z] /\ UNCHANGED hook
  BY DEF H!Close, H!CloseDialog
<1>3. p \in H!Page /\ p.dialog = H!Closed /\ page' = [page EXCEPT ![t] = p]
  BY <1>1, <1>2 DEF H!Page, H!Dialog, H!SetDialog
<1>4. z \in Seq(HookCall) /\ \A x \in Items(z) : ~x.shown
  BY <1>1, HookFaded DEF H!OfDialog
<1>5. hook' \in [H!Hook -> H!Row]
  BY <1>2 DEF HookPages
<1> HIDE DEF z, p
<1>6. QED
  BY <1>2, <1>3, <1>4, <1>5, HookClosed, HookStep

LEMMA HookSubmits ==
    ASSUME HookPages, NEW t \in Tab, H!HandleCreate(t) \/ H!HandleSave(t) \/ H!HandleDelete(t)
    PROVE  HookPages'
<1>1. page[t] \in H!Page
  BY HookQueue
<1>2. page[t].dialog.fn \in {"edit", "delete"} => page[t].dialog.item \in H!Hook
  BY <1>1 DEF H!Page, H!Dialog, H!Closed
<1>3. CASE H!HandleCreate(t)
  <2>1. PICK form \in H!Form :
            H!Submit(t, [fn |-> "create", from |-> "create", item |-> H!None, shown |-> TRUE, form |-> form])
    BY <1>3 DEF H!HandleCreate
  <2> DEFINE c == [fn |-> "create", from |-> "create", item |-> H!None, shown |-> TRUE, form |-> form]
  <2>2. c \in HookCall /\ c.shown /\ c.from = page[t].dialog.fn
    BY <1>3 DEF HookCall, H!HandleCreate, H!Ready, H!None
  <2>3. H!Submit(t, c) /\ UNCHANGED hook
    BY <1>3, <2>1 DEF H!HandleCreate
  <2> HIDE DEF c
  <2>4. QED
    BY <2>2, <2>3, HookSubmitted
<1>4. CASE H!HandleSave(t)
  <2>1. PICK form \in H!Form :
            H!Submit(t, [fn |-> "edit", from |-> "edit", item |-> page[t].dialog.item, shown |-> TRUE,
                         form |-> form])
    BY <1>4 DEF H!HandleSave
  <2> DEFINE c == [fn |-> "edit", from |-> "edit", item |-> page[t].dialog.item, shown |-> TRUE,
                   form |-> form]
  <2>2. c \in HookCall /\ c.shown /\ c.from = page[t].dialog.fn
    BY <1>2, <1>4 DEF HookCall, H!HandleSave, H!Ready
  <2>3. H!Submit(t, c) /\ UNCHANGED hook
    BY <1>4, <2>1 DEF H!HandleSave
  <2> HIDE DEF c
  <2>4. QED
    BY <2>2, <2>3, HookSubmitted
<1>5. CASE H!HandleDelete(t)
  <2> DEFINE c == [fn |-> "delete", from |-> "delete", item |-> page[t].dialog.item, shown |-> TRUE]
  <2>1. c \in HookCall /\ c.shown /\ c.from = page[t].dialog.fn
    BY <1>2, <1>5 DEF HookCall, H!HandleDelete, H!Ready
  <2>2. H!Submit(t, c) /\ UNCHANGED hook
    BY <1>5 DEF H!HandleDelete
  <2> HIDE DEF c
  <2>3. QED
    BY <2>1, <2>2, HookSubmitted
<1>6. QED
  BY <1>3, <1>4, <1>5

(* So do the answers of the gateway, one lemma for each. *)
LEMMA HookRefused ==
    ASSUME HookPages, NEW t \in Tab, H!Refused(t) \/ H!GetWebhookDeliveries(t)
    PROVE  HookPages'
<1>1. hook \in [H!Hook -> H!Row] /\ UNCHANGED hook /\ calls[t] # <<>>
  BY DEF HookPages, H!Refused, H!GetWebhookDeliveries, H!Busy
<1>2. Head(calls[t]) \in HookCall
  BY <1>1, HookQueue
<1>3. Head(calls[t]).shown \in BOOLEAN /\ Head(calls[t]).from # "closed"
  BY <1>2 DEF HookCall
<1>4. CASE H!Refused(t)
  BY <1>1, <1>3, <1>4, HookFailed DEF H!Refused, H!Fails
<1>5. CASE H!GetWebhookDeliveries(t)
  <2>1. Head(calls[t]).from = "logs"
    BY <1>2, <1>5 DEF HookCall, H!GetWebhookDeliveries, H!Busy
  <2>2. PICK heard \in {FALSE, Head(calls[t]).shown} : H!Failed(t, heard)
    BY <1>5 DEF H!GetWebhookDeliveries
  <2>3. QED
    BY <1>1, <1>3, <2>1, <2>2, HookFailed
<1>6. QED
  BY <1>4, <1>5

LEMMA HookCreated ==
    ASSUME HookPages, NEW t \in Tab, H!CreateWebhook(t)
    PROVE  HookPages'
<1> DEFINE r == page[t]
           c == Head(calls[t])
<1>1. calls[t] # <<>> /\ c.fn = "create"
  BY DEF H!CreateWebhook, H!Busy
<1>2. /\ HookTab(r, calls[t]) /\ r \in H!Page /\ page = [u \in Tab |-> page[u]] /\ c \in HookCall
      /\ c \in Items(calls[t])
      /\ H!Refreshed \in Seq(HookCall) /\ \A d \in Items(H!Refreshed) : ~d.shown
  BY <1>1, HookQueue
<1>3. c.from = "create" /\ c.form \in H!Form /\ c.shown \in BOOLEAN /\ (c.shown => r.dialog.fn = "create")
  BY <1>1, <1>2 DEF HookCall, HookTab
<1>4. PICK h \in H!Hook :
          /\ hook' = [hook EXCEPT ![h] = [status |-> "live", form |-> c.form]]
          /\ \/ /\ page' = IF c.shown
                           THEN [page EXCEPT ![t].dialog.busy = FALSE, ![t].dialog.secret = h] ELSE page
                /\ H!Answer(t, H!Refreshed)
             \/ H!Fails(t)
  BY DEF H!CreateWebhook
<1>5. hook' \in [H!Hook -> H!Row]
  BY <1>3, <1>4 DEF HookPages, H!Row
<1>6. CASE H!Fails(t)
  BY <1>1, <1>3, <1>5, <1>6, HookFailed DEF H!Fails
<1>7. CASE /\ page' = IF c.shown
                      THEN [page EXCEPT ![t].dialog.busy = FALSE, ![t].dialog.secret = h] ELSE page
           /\ H!Answer(t, H!Refreshed)
  <2>1. CASE c.shown
    <3> DEFINE p == [r EXCEPT !.dialog.busy = FALSE, !.dialog.secret = h]
    <3>1. r.dialog \in H!Dialog /\ r.dialog.fn = "create"
      BY <1>2, <1>3, <2>1 DEF H!Page
    <3>2. r.dialog \in [fn : {"create"}, busy : BOOLEAN, secret : H!Hook \cup {H!None}]
      BY <3>1 DEF H!Dialog, H!Closed
    <3> DEFINE d == [fn |-> "create", busy |-> FALSE, secret |-> h]
    <3>3. d \in H!Dialog /\ d.fn = "create" /\ ~d.busy
      BY DEF H!Dialog
    <3>4. p = [r EXCEPT !.dialog = d]
      <4> DEFINE k == r.dialog
      <4>1. [k EXCEPT !.busy = FALSE, !.secret = h] = d
        <5> HIDE DEF k
        <5>1. k \in [fn : {"create"}, busy : BOOLEAN, secret : H!Hook \cup {H!None}]
          BY <3>2 DEF k
        <5> DEFINE e == [k EXCEPT !.busy = FALSE, !.secret = h]
        <5>2. /\ e \in [fn : {"create"}, busy : BOOLEAN, secret : H!Hook \cup {H!None}]
              /\ e.busy = FALSE /\ e.secret = h
          BY <5>1
        <5> HIDE DEF e
        <5>3. e = d
          BY <5>2
        <5>4. QED
          BY <5>3 DEF e
      <4>2. p.dialog = [k EXCEPT !.busy = FALSE, !.secret = h] /\ p.listed = r.listed
        BY <1>2 DEF H!Page
      <4>3. QED
        BY <1>2, <4>1, <4>2 DEF H!Page
    <3>5. page' = [page EXCEPT ![t] = p]
      BY <1>2, <1>7, <2>1
    <3> HIDE DEF p, d
    <3>6. p \in H!Page /\ p.dialog = d
      BY <1>2, <3>3, <3>4 DEF H!Page
    <3>7. QED
      BY <1>1, <1>2, <1>5, <1>7, <3>1, <3>3, <3>5, <3>6, HookAnswered
  <2>2. CASE ~c.shown
    <3>1. page' = [page EXCEPT ![t] = r]
      BY <1>2, <1>7, <2>2
    <3>2. QED
      BY <1>1, <1>2, <1>5, <1>7, <2>2, <3>1, HookAnswered
  <2>3. QED
    BY <2>1, <2>2
<1>8. QED
  BY <1>4, <1>6, <1>7

LEMMA HookRead ==
    ASSUME HookPages, NEW t \in Tab, H!GetForUpdate(t)
    PROVE  HookPages'
<1> DEFINE r == page[t]
           q == calls[t]
           c == Head(q)
           e == [c EXCEPT !.fn = "write"]
           k == Tail(q)
           b == <<e>>
           z == b \o k
<1>1. q # <<>> /\ c.fn = "edit" /\ UNCHANGED hook /\ page' = page /\ calls' = [calls EXCEPT ![t] = z]
  BY DEF H!GetForUpdate, H!Busy, H!GoOn
<1>2. /\ HookTab(r, q) /\ page = [u \in Tab |-> page[u]] /\ c \in HookCall /\ k \in Seq(HookCall)
      /\ Items(q) = {c} \cup Items(k)
  BY <1>1, HookQueue
<1>3. e \in HookCall /\ e.from = c.from /\ e.shown = c.shown
  BY <1>1, <1>2 DEF HookCall
<1> HIDE DEF e, k
<1>4. b \in Seq(HookCall) /\ Items(b) = {e}
  BY <1>3, OneItem
<1> HIDE DEF b
<1>5. z \in Seq(HookCall) /\ Items(z) = Items(b) \cup Items(k)
  BY <1>2, <1>4, ItemsJoin
<1> HIDE DEF z
<1>6. HookTab(r, z)
  BY <1>2, <1>3, <1>4, <1>5 DEF HookTab
<1>7. page' = [page EXCEPT ![t] = r] /\ hook' \in [H!Hook -> H!Row]
  BY <1>1, <1>2 DEF HookPages
<1>8. QED
  BY <1>1, <1>6, <1>7, HookStep

LEMMA HookWritten ==
    ASSUME HookPages, NEW t \in Tab, H!UpdateWebhook(t) \/ H!DeleteWebhook(t)
    PROVE  HookPages'
<1> DEFINE c == Head(calls[t])
<1>1. calls[t] # <<>> /\ c.fn \in {"write", "delete"}
  BY DEF H!UpdateWebhook, H!DeleteWebhook, H!Busy
<1>2. c \in HookCall /\ hook \in [H!Hook -> H!Row]
  BY <1>1, HookQueue DEF HookPages
<1>3. c.shown \in BOOLEAN /\ c.from = (IF c.fn = "write" THEN "edit" ELSE "delete")
      /\ c.item \in H!Hook /\ (c.fn = "write" => c.form \in H!Form)
  BY <1>1, <1>2 DEF HookCall
<1>4. CASE H!UpdateWebhook(t)
  <2>1. c.fn = "write"
    BY <1>4 DEF H!UpdateWebhook, H!Busy
  <2>2. hook' = hook \/ hook' = [hook EXCEPT ![c.item].form = c.form]
    BY <1>4 DEF H!UpdateWebhook
  <2>3. hook' \in [H!Hook -> H!Row]
    BY <1>2, <1>3, <2>1, <2>2 DEF H!Row
  <2>4. H!Succeeded(t, "edit") \/ H!Fails(t)
    BY <1>4 DEF H!UpdateWebhook
  <2>5. QED
    BY <1>1, <1>3, <2>1, <2>3, <2>4, HookSucceeded, HookFailed DEF H!Fails
<1>5. CASE H!DeleteWebhook(t)
  <2>1. c.fn = "delete" /\ hook' = [hook EXCEPT ![c.item].status = "deleted"]
        /\ (H!Succeeded(t, "delete") \/ H!Fails(t))
    BY <1>5 DEF H!DeleteWebhook, H!Busy
  <2>2. hook' \in [H!Hook -> H!Row]
    BY <1>2, <1>3, <2>1 DEF H!Row
  <2>3. QED
    BY <1>1, <1>3, <2>1, <2>2, HookSucceeded, HookFailed DEF H!Fails
<1>6. QED
  BY <1>4, <1>5

LEMMA HookPagesInit == H!Init => HookPages
<1> SUFFICES ASSUME H!Init PROVE HookPages
  OBVIOUS
<1>1. MaxForm \in Nat \ {0}
  BY ConsoleAssumption
<1>2. hook \in [H!Hook -> H!Row]
  BY <1>1 DEF H!Init, H!Row, H!Hook, H!Form
<1> DEFINE p == [listed |-> [h \in H!Hook |-> H!None], dialog |-> H!Closed]
<1>3. page = [t \in Tab |-> p] /\ calls = [t \in Tab |-> H!Refreshed]
  BY DEF H!Init
<1>4. p \in H!Page /\ p.dialog = H!Closed
  BY DEF H!Page, H!Dialog
<1> HIDE DEF p
<1>5. H!Refreshed \in Seq(HookCall) /\ \A d \in Items(H!Refreshed) : ~d.shown
  <2> DEFINE c == [fn |-> "list", from |-> "page", shown |-> FALSE]
  <2>1. c \in HookCall /\ ~c.shown
    BY DEF HookCall
  <2> HIDE DEF c
  <2>2. <<c>> \in Seq(HookCall) /\ Items(<<c>>) = {c}
    BY <2>1, OneItem
  <2>3. H!Refreshed = <<c>>
    BY DEF H!Refreshed, c
  <2>4. QED
    BY <2>1, <2>2, <2>3
<1>6. HookTab(p, H!Refreshed)
  BY <1>4, <1>5, HookClosed
<1>7. QED
  BY <1>2, <1>3, <1>6 DEF HookPages

LEMMA HookPagesNext == HookPages /\ H!Next => HookPages'
<1> SUFFICES ASSUME HookPages, H!Next PROVE HookPages'
  OBVIOUS
<1>1. ASSUME NEW t \in Tab, H!Handle(t) PROVE HookPages'
  BY <1>1, HookOpen, HookClose, HookSubmits DEF H!Handle
<1>2. ASSUME NEW t \in Tab, H!Serve(t) PROVE HookPages'
  BY <1>2, HookListed, HookRefused, HookCreated, HookRead, HookWritten DEF H!Serve
<1>3. ASSUME NEW h \in H!Hook, H!DeletedElsewhere(h) PROVE HookPages'
  BY <1>3 DEF H!DeletedElsewhere, HookPages, H!Row
<1>4. QED
  BY <1>1, <1>2, <1>3 DEF H!Next

-----------------------------------------------------------------------------
(* The tools                                                                *)

ToolCall ==
    [fn : {"list"}, from : {"page"}, shown : {FALSE}]
    \cup [fn : {"sync"}, from : {"sync"}, shown : BOOLEAN]
    \cup [fn : {"edit"}, from : {"edit"}, item : Tool, desc : T!Desc, enabled : {"unsaid", "on", "off"},
          shown : BOOLEAN]
    \cup [fn : {"write"}, from : {"edit"}, item : Tool, desc : T!Desc, enabled : {"on", "off"},
          shown : BOOLEAN]
    \cup [fn : {"delete"}, from : {"delete"}, item : Tool, desc : {0}, enabled : {"off"}, shown : BOOLEAN]
    \cup [fn : {"register"}, from : {"register"}, item : Tool, desc : T!Desc, enabled : {"on"}, shown : BOOLEAN]
    \cup [fn : {"provision", "synced"}, from : {"provision"}, item : Tool, desc : T!Desc, enabled : {"on"},
          shown : BOOLEAN]

(* What is shown on page p belongs to its dialog or is its synchronisation; it is
   locked only while the call that locked it is under way. *)
ToolTab(p, q) ==
    /\ p \in T!Page /\ q \in Seq(ToolCall)
    /\ \A c \in Items(q) : c.shown => c.from \in {p.dialog.fn, "sync"}
    /\ p.sync = "syncing" => \E c \in Items(q) : c.from = "sync" /\ c.shown
    /\ p.dialog.fn # "closed" /\ p.dialog.busy =>
          \E c \in Items(q) : c.from = p.dialog.fn /\ (c.shown \/ c.from = "register")

(* The registry: a tool that is enabled has a description. *)
Registry ==
    /\ tool \in [Tool -> T!Row] /\ \A i \in Tool : tool[i].status = "on" => tool[i].desc \in T!Desc
    /\ drawn \in T!Desc /\ sent \subseteq T!Vector /\ vectoring \subseteq T!Vector
    /\ refresh \in [Tab \cup {Loop} -> T!Refresh]
ToolTabs ==
    /\ Registry
    /\ page = [t \in Tab |-> page[t]] /\ calls = [t \in Tab |-> calls[t]]
    /\ \A t \in Tab : ToolTab(page[t], calls[t])

LEMMA ToolHolds == ToolTabs => T!TypeOK /\ T!LocksAreTrue
<1> SUFFICES ASSUME ToolTabs PROVE T!TypeOK /\ T!LocksAreTrue
  OBVIOUS
<1>1. T!TypeOK
  BY DEF ToolTabs, Registry, ToolTab, T!TypeOK
<1>2. ASSUME NEW t \in Tab
      PROVE  /\ page[t].sync = "syncing" => \E c \in T!Waiting(t) : c.from = "sync" /\ c.shown
             /\ T!Saving(t) => \E c \in T!Waiting(t) :
                   c.from = page[t].dialog.fn /\ (c.shown \/ c.from = "register")
  <2>1. ToolTab(page[t], calls[t])
    BY DEF ToolTabs
  <2>2. T!Saving(t) => page[t].dialog.fn # "closed" /\ page[t].dialog.busy
    <3>1. page[t].dialog \in T!Dialog
      BY <2>1 DEF ToolTab, T!Page
    <3>2. QED
      BY <3>1 DEF T!Saving, T!Dialog, T!Closed
  <2>3. T!Waiting(t) = Items(calls[t])
    BY DEF T!Waiting, Items
  <2>4. QED
    BY <2>1, <2>2, <2>3 DEF ToolTab
<1>3. QED
  BY <1>1, <1>2 DEF T!LocksAreTrue

LEMMA ToolStep ==
    ASSUME ToolTabs, NEW t \in Tab, NEW p, NEW q, ToolTab(p, q), Registry',
           page' = [page EXCEPT ![t] = p], calls' = [calls EXCEPT ![t] = q]
    PROVE  ToolTabs'
BY DEF ToolTabs

(* What fades is still a call, of the same dialog. *)
LEMMA ToolFaded ==
    ASSUME NEW q \in Seq(ToolCall), NEW gone
    PROVE  /\ T!Gone(q, gone) \in Seq(ToolCall)
           /\ \A d \in Items(T!Gone(q, gone)) : \E c \in Items(q) :
                 d.from = c.from /\ (d.shown <=> c.shown /\ c.from \notin gone)
           /\ \A c \in Items(q) : \E d \in Items(T!Gone(q, gone)) :
                 d.from = c.from /\ (d.shown <=> c.shown /\ c.from \notin gone)
<1>1. ASSUME NEW c \in ToolCall
      PROVE  /\ Faded(c, gone) \in ToolCall /\ Faded(c, gone).from = c.from
             /\ Faded(c, gone).shown = (c.shown /\ c.from \notin gone)
  <2> DEFINE x == c.shown /\ c.from \notin gone
  <2>1. x \in BOOLEAN /\ (c.shown = FALSE => x = FALSE)
    OBVIOUS
  <2>2. Faded(c, gone) = [c EXCEPT !.shown = x]
    BY DEF Faded
  <2> HIDE DEF x
  <2>3. [c EXCEPT !.shown = x] \in ToolCall /\ [c EXCEPT !.shown = x].shown = x
        /\ [c EXCEPT !.shown = x].from = c.from
    BY <2>1 DEF ToolCall
  <2>4. QED
    BY <2>2, <2>3 DEF x
<1>2. /\ T!Gone(q, gone) \in Seq(ToolCall)
      /\ Items(T!Gone(q, gone)) = {Faded(c, gone) : c \in Items(q)}
  <2>1. \A c \in ToolCall : Faded(c, gone) \in ToolCall
    BY <1>1
  <2>2. QED
    BY <2>1, FadedItems
<1>3. Items(q) \subseteq ToolCall
  BY ItemsIn
<1>4. QED
  BY <1>1, <1>2, <1>3

(* The queue without its head, and with the list fetched anew. *)
LEMMA ToolQueue ==
    ASSUME ToolTabs, NEW t \in Tab
    PROVE  LET r == page[t]  q == calls[t]  c == Head(q) IN
           /\ ToolTab(r, q) /\ r \in T!Page /\ q \in Seq(ToolCall)
           /\ page = [u \in Tab |-> page[u]] /\ calls = [u \in Tab |-> calls[u]]
           /\ q # <<>> => /\ c \in ToolCall /\ Tail(q) \in Seq(ToolCall)
                          /\ Items(q) = {c} \cup Items(Tail(q))
           /\ <<>> \in Seq(ToolCall) /\ Items(<<>>) = {}
<1>1. ToolTab(page[t], calls[t]) /\ page[t] \in T!Page /\ calls[t] \in Seq(ToolCall)
  BY DEF ToolTabs, ToolTab
<1>2. page = [u \in Tab |-> page[u]] /\ calls = [u \in Tab |-> calls[u]]
  BY DEF ToolTabs
<1>3. calls[t] # <<>> => /\ Head(calls[t]) \in ToolCall /\ Tail(calls[t]) \in Seq(ToolCall)
                         /\ Items(calls[t]) = {Head(calls[t])} \cup Items(Tail(calls[t]))
  BY <1>1, ItemsTail
<1>4. QED
  BY <1>1, <1>2, <1>3, NoItems, EmptySeq

LEMMA ToolList == T!Refreshed \in Seq(ToolCall) /\ \A d \in Items(T!Refreshed) : ~d.shown
<1> DEFINE c == [fn |-> "list", from |-> "page", shown |-> FALSE]
<1>1. c \in ToolCall /\ ~c.shown
  BY DEF ToolCall
<1> HIDE DEF c
<1>2. <<c>> \in Seq(ToolCall) /\ Items(<<c>>) = {c}
  BY <1>1, OneItem
<1>3. T!Refreshed = <<c>>
  BY DEF T!Refreshed, c
<1>4. QED
  BY <1>1, <1>2, <1>3

(* The head is answered, and what it locked is unlocked. *)
LEMMA ToolAnswered ==
    ASSUME ToolTabs, NEW t \in Tab, calls[t] # <<>>, Registry',
           NEW s \in Seq(ToolCall), \A d \in Items(s) : ~d.shown, T!Answer(t, s),
           NEW p \in T!Page, page' = [page EXCEPT ![t] = p], p.dialog.fn = page[t].dialog.fn,
           p.sync = "syncing" => page[t].sync = "syncing" /\ ~(Head(calls[t]).shown /\ Head(calls[t]).from = "sync"),
           p.dialog.fn # "closed" /\ p.dialog.busy =>
              /\ page[t].dialog.busy
              /\ Head(calls[t]).from = p.dialog.fn => ~Head(calls[t]).shown /\ p.dialog.fn # "register"
    PROVE  ToolTabs'
<1> DEFINE r == page[t]
           q == calls[t]
           c == Head(q)
           k == Tail(q)
           z == k \o s
<1>1. /\ ToolTab(r, q) /\ k \in Seq(ToolCall) /\ Items(q) = {c} \cup Items(k)
      /\ calls = [u \in Tab |-> calls[u]]
  BY ToolQueue
<1>2. calls' = [calls EXCEPT ![t] = z]
  BY <1>1 DEF T!Answer
<1> HIDE DEF k
<1>3. z \in Seq(ToolCall) /\ Items(z) = Items(k) \cup Items(s)
  BY <1>1, ItemsJoin
<1> HIDE DEF z
<1>4. \A d \in Items(z) : d.shown => d.from \in {p.dialog.fn, "sync"}
  BY <1>1, <1>3 DEF ToolTab
<1>5. p.sync = "syncing" => \E d \in Items(z) : d.from = "sync" /\ d.shown
  BY <1>1, <1>3 DEF ToolTab
<1>6. p.dialog.fn # "closed" /\ p.dialog.busy =>
          \E d \in Items(z) : d.from = p.dialog.fn /\ (d.shown \/ d.from = "register")
  BY <1>1, <1>3 DEF ToolTab
<1>7. ToolTab(p, z)
  BY <1>3, <1>4, <1>5, <1>6 DEF ToolTab
<1>8. QED
  BY <1>2, <1>7, ToolStep

(* A call is added by the dialog that is open, or by the button of the synchronisation. *)
LEMMA ToolAdded ==
    ASSUME ToolTabs, NEW t \in Tab, NEW c \in ToolCall, c.shown, Registry', T!Call(t, c),
           NEW p \in T!Page, page' = [page EXCEPT ![t] = p], p.dialog.fn = page[t].dialog.fn,
           p.sync = "syncing" => page[t].sync = "syncing" \/ c.from = "sync",
           p.dialog.fn # "closed" /\ p.dialog.busy => page[t].dialog.busy \/ c.from = p.dialog.fn,
           c.from \in {p.dialog.fn, "sync"}
    PROVE  ToolTabs'
<1> DEFINE r == page[t]
           q == calls[t]
           z == Append(q, c)
<1>1. ToolTab(r, q) /\ q \in Seq(ToolCall) /\ calls = [u \in Tab |-> calls[u]]
  BY ToolQueue
<1>2. z \in Seq(ToolCall) /\ Items(z) = Items(q) \cup {c}
  BY <1>1, ItemsAppend
<1>3. calls' = [calls EXCEPT ![t] = z]
  BY <1>1 DEF T!Call
<1> HIDE DEF z
<1>4. \A d \in Items(z) : d.shown => d.from \in {p.dialog.fn, "sync"}
  BY <1>1, <1>2 DEF ToolTab
<1>5. p.sync = "syncing" => \E d \in Items(z) : d.from = "sync" /\ d.shown
  BY <1>1, <1>2 DEF ToolTab
<1>6. p.dialog.fn # "closed" /\ p.dialog.busy =>
          \E d \in Items(z) : d.from = p.dialog.fn /\ (d.shown \/ d.from = "register")
  BY <1>1, <1>2 DEF ToolTab
<1>7. ToolTab(p, z)
  BY <1>2, <1>4, <1>5, <1>6 DEF ToolTab
<1>8. QED
  BY <1>3, <1>7, ToolStep

(* The page is mounted anew: nothing is locked, and nothing shown. *)
LEMMA ToolFresh ==
    ASSUME ToolTabs, NEW t \in Tab, Registry', NEW p \in T!Page, p.sync # "syncing",
           p.dialog = T!Closed \/ ~p.dialog.busy, page' = [page EXCEPT ![t] = p],
           NEW z \in Seq(ToolCall), \A d \in Items(z) : ~d.shown, calls' = [calls EXCEPT ![t] = z]
    PROVE  ToolTabs'
<1>1. ToolTab(p, z)
  BY DEF ToolTab, T!Closed
<1>2. QED
  BY <1>1, ToolStep

(* The dialog goes; a synchronisation stays. *)
LEMMA ToolGone ==
    ASSUME ToolTabs, NEW t \in Tab, Registry', NEW q \in Seq(ToolCall),
           Items(q) \subseteq Items(calls[t]),
           \A c \in Items(calls[t]) : c.from = "sync" => c \in Items(q),
           NEW s \in Seq(ToolCall), \A d \in Items(s) : ~d.shown,
           NEW p \in T!Page, p.dialog = T!Closed, p.sync = page[t].sync,
           page' = [page EXCEPT ![t] = p],
           \/ calls' = [calls EXCEPT ![t] = T!Gone(q, T!OfDialog(t)) \o s]
           \/ s = <<>> /\ calls' = [calls EXCEPT ![t] = T!Gone(q, T!OfDialog(t))]
    PROVE  ToolTabs'
<1> DEFINE gone == T!OfDialog(t)
           g == T!Gone(q, gone)
           z == g \o s
<1>1. ToolTab(page[t], calls[t]) /\ gone = {page[t].dialog.fn}
  BY ToolQueue DEF T!OfDialog
<1>2. "sync" \notin gone
  <2>1. page[t].dialog \in T!Dialog
    BY <1>1 DEF ToolTab, T!Page
  <2>2. QED
    BY <1>1, <2>1 DEF T!Dialog, T!Closed
<1> HIDE DEF gone
<1>3. /\ g \in Seq(ToolCall)
      /\ \A d \in Items(g) : d.shown => \E c \in Items(q) : d.from = c.from /\ c.shown /\ c.from \notin gone
      /\ \A c \in Items(q) : c.shown /\ c.from \notin gone => \E d \in Items(g) : d.from = c.from /\ d.shown
  BY ToolFaded
<1>4. \/ calls' = [calls EXCEPT ![t] = z]
      \/ Items(s) = {} /\ calls' = [calls EXCEPT ![t] = g]
  <2>1. s = <<>> => Items(s) = {}
    BY NoItems
  <2>2. T!OfDialog(t) = gone
    BY DEF gone
  <2>3. QED
    BY <2>1, <2>2
<1> HIDE DEF g
<1>5. z \in Seq(ToolCall) /\ Items(z) = Items(g) \cup Items(s)
  BY <1>3, ItemsJoin
<1>6. PICK y \in {z, g} : y \in Seq(ToolCall) /\ calls' = [calls EXCEPT ![t] = y] /\ Items(y) = Items(g) \cup Items(s)
  BY <1>3, <1>4, <1>5
<1> HIDE DEF z
<1>7. \A d \in Items(y) : d.shown => d.from = "sync"
  BY <1>1, <1>3, <1>6 DEF ToolTab
<1>8. p.sync = "syncing" => \E d \in Items(y) : d.from = "sync" /\ d.shown
  <2> SUFFICES ASSUME p.sync = "syncing" PROVE \E d \in Items(y) : d.from = "sync" /\ d.shown
    OBVIOUS
  <2>1. PICK c \in Items(calls[t]) : c.from = "sync" /\ c.shown
    BY <1>1 DEF ToolTab
  <2>2. QED
    BY <1>2, <1>3, <1>6, <2>1
<1>9. ToolTab(p, y)
  BY <1>6, <1>7, <1>8 DEF ToolTab, T!Closed
<1>10. QED
  BY <1>6, <1>9, ToolStep

LEMMA ToolBusy ==
    ASSUME NEW d \in T!Dialog, d.fn # "closed", NEW b \in BOOLEAN
    PROVE  LET e == [d EXCEPT !.busy = b] IN e \in T!Dialog /\ e.fn = d.fn /\ e.busy = b
<1>1. CASE d \in [fn : {"edit", "delete"}, item : Tool, seed : T!Desc, busy : BOOLEAN]
  BY <1>1 DEF T!Dialog
<1>2. CASE d \in [fn : {"register", "provision"}, busy : BOOLEAN]
  BY <1>2 DEF T!Dialog
<1>3. QED
  BY <1>1, <1>2 DEF T!Dialog, T!Closed

(* A call fails: its dialog, if it is still open, is unlocked. *)
LEMMA ToolFailed ==
    ASSUME ToolTabs, NEW t \in Tab, calls[t] # <<>>, Registry', NEW heard \in BOOLEAN, T!Failed(t, heard),
           Head(calls[t]).shown \/ Head(calls[t]).from = "register" => heard,
           Head(calls[t]).from \notin {"closed", "sync"}
    PROVE  ToolTabs'
<1> DEFINE r == page[t]
           c == Head(calls[t])
           hit == heard /\ r.dialog.fn = c.from
           e == [r.dialog EXCEPT !.busy = FALSE]
           d == IF hit THEN e ELSE r.dialog
           p == [r EXCEPT !.dialog = d]
<1>1. r \in T!Page /\ page = [u \in Tab |-> page[u]] /\ <<>> \in Seq(ToolCall) /\ Items(<<>>) = {}
  BY ToolQueue
<1>2. r.dialog \in T!Dialog
  BY <1>1 DEF T!Page
<1>3. hit => e \in T!Dialog /\ e.fn = r.dialog.fn /\ e.busy = FALSE
  BY <1>2, ToolBusy
<1>4. page' = [page EXCEPT ![t] = p] /\ T!Answer(t, <<>>)
  BY <1>1 DEF T!Failed
<1> HIDE DEF e
<1>5. d \in T!Dialog /\ d.fn = r.dialog.fn /\ (hit => ~d.busy) /\ (~hit => d = r.dialog)
  BY <1>2, <1>3
<1> HIDE DEF d
<1>6. p \in T!Page /\ p.dialog = d /\ p.sync = r.sync
  BY <1>1, <1>5 DEF T!Page
<1> HIDE DEF p
<1>7. p.dialog.fn = r.dialog.fn
  BY <1>5, <1>6
<1>8. p.dialog.fn # "closed" /\ p.dialog.busy =>
          r.dialog.busy /\ (c.from = p.dialog.fn => ~c.shown /\ p.dialog.fn # "register")
  BY <1>5, <1>6
<1>9. QED
  BY <1>1, <1>4, <1>6, <1>7, <1>8, ToolAnswered

(* It succeeds: its dialog goes, or is another by now. *)
LEMMA ToolSucceeded ==
    ASSUME ToolTabs, NEW t \in Tab, calls[t] # <<>>, Registry',
           NEW fn \in {"edit", "delete"}, Head(calls[t]).from = fn, T!Succeeded(t, fn)
    PROVE  ToolTabs'
<1> DEFINE r == page[t]
           q == calls[t]
           c == Head(q)
           d == r.dialog
<1>1. /\ r \in T!Page /\ page = [u \in Tab |-> page[u]] /\ Tail(q) \in Seq(ToolCall)
      /\ Items(q) = {c} \cup Items(Tail(q))
      /\ T!Refreshed \in Seq(ToolCall) /\ \A x \in Items(T!Refreshed) : ~x.shown
  BY ToolQueue, ToolList
<1>2. CASE d.fn = fn /\ (c.shown \/ d.item = c.item)
  <2>1. T!SetDialog(t, T!Closed)
        /\ calls' = [calls EXCEPT ![t] = T!Gone(Tail(@), T!OfDialog(t)) \o T!Refreshed]
    BY <1>2 DEF T!Succeeded
  <2>2. calls' = [calls EXCEPT ![t] = T!Gone(Tail(q), T!OfDialog(t)) \o T!Refreshed]
    BY <2>1
  <2> DEFINE p == [r EXCEPT !.dialog = T!Closed]
  <2>3. p \in T!Page /\ p.dialog = T!Closed /\ p.sync = r.sync /\ page' = [page EXCEPT ![t] = p]
    BY <1>1, <2>1 DEF T!Page, T!Dialog, T!SetDialog
  <2> HIDE DEF p
  <2>4. Items(Tail(q)) \subseteq Items(q) /\ \A x \in Items(q) : x.from = "sync" => x \in Items(Tail(q))
    BY <1>1
  <2>5. QED
    BY <1>1, <2>2, <2>3, <2>4, ToolGone
<1>3. CASE ~(d.fn = fn /\ (c.shown \/ d.item = c.item))
  <2>1. page' = [page EXCEPT ![t] = r] /\ T!Answer(t, T!Refreshed)
    BY <1>1, <1>3 DEF T!Succeeded
  <2>2. QED
    BY <1>1, <1>3, <2>1, ToolAnswered
<1>4. QED
  BY <1>2, <1>3

(* The head goes on. *)
LEMMA ToolGoesOn ==
    ASSUME ToolTabs, NEW t \in Tab, calls[t] # <<>>, Registry', UNCHANGED page,
           NEW e \in ToolCall, e.from = Head(calls[t]).from, e.shown = Head(calls[t]).shown, T!GoOn(t, e)
    PROVE  ToolTabs'
<1> DEFINE r == page[t]
           q == calls[t]
           c == Head(q)
           k == Tail(q)
           b == <<e>>
           z == b \o k
<1>1. calls' = [calls EXCEPT ![t] = z]
  BY DEF T!GoOn
<1>2. /\ ToolTab(r, q) /\ page = [u \in Tab |-> page[u]] /\ k \in Seq(ToolCall)
      /\ Items(q) = {c} \cup Items(k)
  BY ToolQueue
<1> HIDE DEF k
<1>3. b \in Seq(ToolCall) /\ Items(b) = {e}
  BY OneItem
<1> HIDE DEF b
<1>4. z \in Seq(ToolCall) /\ Items(z) = Items(b) \cup Items(k)
  BY <1>2, <1>3, ItemsJoin
<1> HIDE DEF z
<1>5. \A d \in Items(z) : d.shown => d.from \in {r.dialog.fn, "sync"}
  BY <1>2, <1>3, <1>4 DEF ToolTab
<1>6. r.sync = "syncing" => \E d \in Items(z) : d.from = "sync" /\ d.shown
  BY <1>2, <1>3, <1>4 DEF ToolTab
<1>7. r.dialog.fn # "closed" /\ r.dialog.busy =>
          \E d \in Items(z) : d.from = r.dialog.fn /\ (d.shown \/ d.from = "register")
  BY <1>2, <1>3, <1>4 DEF ToolTab
<1>8. ToolTab(r, z)
  BY <1>2, <1>4, <1>5, <1>6, <1>7 DEF ToolTab
<1>9. page' = [page EXCEPT ![t] = r]
  BY <1>2
<1>10. QED
  BY <1>1, <1>8, <1>9, ToolStep

(* All calls are forgotten by a page that is left. *)
LEMMA ToolForgotten ==
    ASSUME NEW q \in Seq(ToolCall)
    PROVE  LET g == T!Gone(q, T!Everything) IN
           /\ g \in Seq(ToolCall) /\ \A d \in Items(g) : ~d.shown
           /\ g \o T!Refreshed \in Seq(ToolCall) /\ \A d \in Items(g \o T!Refreshed) : ~d.shown
<1> DEFINE g == T!Gone(q, T!Everything)
           z == g \o T!Refreshed
<1>1. \A c \in ToolCall : c.shown => c.from \in T!Everything
  BY DEF ToolCall, T!Everything
<1>2. Items(q) \subseteq ToolCall
  BY ItemsIn
<1>3. /\ g \in Seq(ToolCall)
      /\ \A d \in Items(g) : \E c \in Items(q) : d.shown <=> c.shown /\ c.from \notin T!Everything
  BY ToolFaded
<1> HIDE DEF g
<1>4. \A d \in Items(g) : ~d.shown
  BY <1>1, <1>2, <1>3
<1>5. T!Refreshed \in Seq(ToolCall) /\ \A d \in Items(T!Refreshed) : ~d.shown
  BY ToolList
<1>6. z \in Seq(ToolCall) /\ Items(z) = Items(g) \cup Items(T!Refreshed)
  BY <1>3, <1>5, ItemsJoin
<1> HIDE DEF z
<1>7. \A d \in Items(z) : ~d.shown
  BY <1>4, <1>5, <1>6
<1>8. QED
  BY <1>3, <1>4, <1>6, <1>7 DEF g, z

LEMMA ToolFreshPage ==
    /\ T!Fresh \in T!Page /\ T!Fresh.dialog = T!Closed /\ T!Fresh.sync # "syncing"
    /\ LET p == [T!Fresh EXCEPT !.dialog = [fn |-> "provision", busy |-> FALSE]] IN
       p \in T!Page /\ ~p.dialog.busy /\ p.sync # "syncing"
BY DEF T!Fresh, T!Page, T!Dialog, T!Closed

(* A synchronisation ends, of the button or of a new tool. *)
LEMMA ToolSyncEnds ==
    ASSUME ToolTabs, NEW t \in Tab, Registry', T!SyncEnds(t)
    PROVE  ToolTabs'
<1> DEFINE r == page[t]
           q == calls[t]
           c == Head(q)
<1>1. q # <<>>
  BY DEF T!SyncEnds, T!Busy
<1>2. /\ r \in T!Page /\ page = [u \in Tab |-> page[u]] /\ c \in ToolCall /\ Tail(q) \in Seq(ToolCall)
      /\ <<>> \in Seq(ToolCall) /\ Items(<<>>) = {}
  BY <1>1, ToolQueue
<1>3. ASSUME T!Busy(t, "sync"), T!Answer(t, <<>>),
             page' = IF c.shown THEN [page EXCEPT ![t].sync = "ended", ![t].timer = TRUE] ELSE page
      PROVE  ToolTabs'
  <2>1. c.from = "sync"
    BY <1>2, <1>3 DEF ToolCall, T!Busy
  <2>2. r.dialog.fn # "sync"
    BY <1>2 DEF T!Page, T!Dialog, T!Closed
  <2>3. CASE c.shown
    <3> DEFINE p == [r EXCEPT !.sync = "ended", !.timer = TRUE]
    <3>1. p \in T!Page /\ p.dialog = r.dialog /\ p.sync = "ended"
      BY <1>2 DEF T!Page
    <3>2. page' = [page EXCEPT ![t] = p]
      BY <1>2, <1>3, <2>3
    <3> HIDE DEF p
    <3>3. p.dialog.fn = r.dialog.fn /\ p.dialog.busy = r.dialog.busy /\ p.sync # "syncing"
          /\ c.from # p.dialog.fn
      BY <2>1, <2>2, <3>1
    <3>4. QED
      BY <1>1, <1>2, <1>3, <3>1, <3>2, <3>3, ToolAnswered
  <2>4. CASE ~c.shown
    <3>1. page' = [page EXCEPT ![t] = r]
      BY <1>2, <1>3, <2>4
    <3>2. QED
      BY <1>1, <1>2, <1>3, <2>1, <2>2, <2>4, <3>1, ToolAnswered
  <2>5. QED
    BY <2>3, <2>4
<1>4. ASSUME T!Busy(t, "synced"), T!Pushed(t)
      PROVE  ToolTabs'
  <2> DEFINE z == T!Gone(Tail(q), T!Everything) \o T!Refreshed
  <2>1. page' = [page EXCEPT ![t] = T!Fresh] /\ calls' = [calls EXCEPT ![t] = z]
    BY <1>4 DEF T!Pushed, T!Leave
  <2>2. z \in Seq(ToolCall) /\ \A d \in Items(z) : ~d.shown
    BY <1>2, ToolForgotten
  <2> HIDE DEF z
  <2>3. QED
    BY <2>1, <2>2, ToolFreshPage, ToolFresh
<1>5. ASSUME T!Busy(t, "synced"), T!Fails(t)
      PROVE  ToolTabs'
  <2>1. c.from = "provision" /\ c.shown \in BOOLEAN
    BY <1>2, <1>5 DEF ToolCall, T!Busy
  <2>2. T!Failed(t, c.shown)
    <3>1. (c.shown \/ c.from = "register") = c.shown
      BY <2>1
    <3>2. QED
      BY <1>5, <3>1 DEF T!Fails
  <2>3. QED
    BY <1>1, <2>1, <2>2, ToolFailed
<1>6. QED
  BY <1>3, <1>4, <1>5 DEF T!SyncEnds

LEMMA ToolTables ==
    ASSUME ToolTabs, Registry', UNCHANGED <<page, calls>>
    PROVE  ToolTabs'
BY DEF ToolTabs

(* A step of a page that leaves the registry alone. *)
LEMMA ToolAlone ==
    ASSUME ToolTabs, UNCHANGED T!registry
    PROVE  /\ drawn' \in T!Desc => Registry'
           /\ UNCHANGED drawn => Registry'
BY DEF ToolTabs, Registry, T!registry

(* What an administrator does keeps the locks true, and the registry typed. *)
LEMMA ToolOpen ==
    ASSUME ToolTabs, NEW t \in Tab, T!OpenDialog(t)
    PROVE  ToolTabs'
<1> DEFINE r == page[t]
           q == calls[t]
<1>1. /\ ToolTab(r, q) /\ r \in T!Page /\ q \in Seq(ToolCall)
      /\ page = [u \in Tab |-> page[u]] /\ calls = [u \in Tab |-> calls[u]]
  BY ToolQueue
<1>2. Registry' /\ UNCHANGED calls /\ r.dialog = T!Closed
  BY ToolAlone DEF T!OpenDialog
<1>3. \A c \in Items(q) : c.shown => c.from = "sync"
  <2>1. \A c \in Items(q) : c \in ToolCall /\ (c.shown => c.from \in {"closed", "sync"})
    BY <1>1, <1>2, ItemsIn DEF ToolTab, T!Closed
  <2>2. \A c \in ToolCall : c.from # "closed"
    BY DEF ToolCall
  <2>3. QED
    BY <2>1, <2>2
<1>4. PICK d : /\ T!SetDialog(t, d) /\ d \in T!Dialog
               /\ d.busy => d.fn = "register" /\ \E c \in Items(q) : c.from = "register"
  <2>1. ASSUME NEW i \in Tool, NEW fn \in {"edit", "delete"}, r.listed[i] # T!None,
               T!SetDialog(t, [fn |-> fn, item |-> i, seed |-> r.listed[i], busy |-> FALSE])
        PROVE  \E d : /\ T!SetDialog(t, d) /\ d \in T!Dialog
                      /\ d.busy => d.fn = "register" /\ \E c \in Items(q) : c.from = "register"
    <3> DEFINE d == [fn |-> fn, item |-> i, seed |-> r.listed[i], busy |-> FALSE]
    <3>1. d \in T!Dialog /\ ~d.busy
      BY <1>1, <2>1 DEF T!Page, T!Dialog
    <3>2. QED
      BY <2>1, <3>1
  <2>2. ASSUME T!SetDialog(t, [fn |-> "register", busy |-> \E c \in T!Waiting(t) : c.from = "register"])
        PROVE  \E d : /\ T!SetDialog(t, d) /\ d \in T!Dialog
                      /\ d.busy => d.fn = "register" /\ \E c \in Items(q) : c.from = "register"
    <3> DEFINE b == \E c \in T!Waiting(t) : c.from = "register"
               d == [fn |-> "register", busy |-> b]
    <3>1. b \in BOOLEAN /\ (b => \E c \in Items(q) : c.from = "register")
      BY DEF T!Waiting, Items
    <3> HIDE DEF b
    <3>2. d \in T!Dialog /\ d.busy = b /\ d.fn = "register"
      BY <3>1 DEF T!Dialog
    <3>3. T!SetDialog(t, d)
      BY <2>2 DEF b
    <3> HIDE DEF d
    <3>4. QED
      BY <3>1, <3>2, <3>3
  <2>3. QED
    BY <2>1, <2>2 DEF T!OpenDialog
<1> DEFINE p == [r EXCEPT !.dialog = d]
<1>5. p \in T!Page /\ p.dialog = d /\ p.sync = r.sync /\ page' = [page EXCEPT ![t] = p]
  BY <1>1, <1>4 DEF T!Page, T!SetDialog
<1> HIDE DEF p
<1>6. ToolTab(p, q)
  BY <1>1, <1>3, <1>4, <1>5 DEF ToolTab
<1>7. calls' = [calls EXCEPT ![t] = q]
  BY <1>1, <1>2
<1>8. QED
  BY <1>2, <1>5, <1>6, <1>7, ToolStep

LEMMA ToolWizard ==
    ASSUME ToolTabs, NEW t \in Tab, T!OpenWizard(t) \/ T!LeaveWizard(t)
    PROVE  ToolTabs'
<1> DEFINE q == calls[t]
           g == T!Gone(q, T!Everything)
           z == g \o T!Refreshed
           w == [T!Fresh EXCEPT !.dialog = [fn |-> "provision", busy |-> FALSE]]
<1>1. Registry' /\ q \in Seq(ToolCall)
  BY ToolAlone, ToolQueue DEF T!OpenWizard, T!LeaveWizard
<1>2. /\ g \in Seq(ToolCall) /\ \A d \in Items(g) : ~d.shown
      /\ z \in Seq(ToolCall) /\ \A d \in Items(z) : ~d.shown
  BY <1>1, ToolForgotten
<1>3. w \in T!Page /\ ~w.dialog.busy /\ w.sync # "syncing"
  BY ToolFreshPage
<1>4. CASE T!OpenWizard(t)
  <2>1. page' = [page EXCEPT ![t] = w] /\ calls' = [calls EXCEPT ![t] = g]
    BY <1>4 DEF T!OpenWizard
  <2> HIDE DEF w, g
  <2>2. QED
    BY <1>1, <1>2, <1>3, <2>1, ToolFresh
<1>5. CASE T!LeaveWizard(t)
  <2>1. page' = [page EXCEPT ![t] = T!Fresh] /\ calls' = [calls EXCEPT ![t] = z]
    BY <1>5 DEF T!LeaveWizard, T!Leave
  <2> HIDE DEF z
  <2>2. QED
    BY <1>1, <1>2, <2>1, ToolFresh, ToolFreshPage
<1>6. QED
  BY <1>4, <1>5

LEMMA ToolClose ==
    ASSUME ToolTabs, NEW t \in Tab, T!Close(t)
    PROVE  ToolTabs'
<1> DEFINE r == page[t]
           q == calls[t]
           p == [r EXCEPT !.dialog = T!Closed]
<1>1. /\ ToolTab(r, q) /\ q \in Seq(ToolCall) /\ r \in T!Page
      /\ page = [u \in Tab |-> page[u]] /\ <<>> \in Seq(ToolCall) /\ Items(<<>>) = {}
  BY ToolQueue
<1>2. /\ T!SetDialog(t, T!Closed) /\ calls' = [calls EXCEPT ![t] = T!Gone(q, T!OfDialog(t))]
      /\ Registry'
  BY ToolAlone DEF T!Close, T!CloseDialog
<1>3. p \in T!Page /\ p.dialog = T!Closed /\ p.sync = r.sync /\ page' = [page EXCEPT ![t] = p]
  BY <1>1, <1>2 DEF T!Page, T!Dialog, T!SetDialog
<1> HIDE DEF p
<1>4. QED
  BY <1>1, <1>2, <1>3, ToolGone

(* The form of the dialog that is open is sent. *)
LEMMA ToolSent ==
    ASSUME ToolTabs, NEW t \in Tab, NEW i \in Tool, NEW desc, NEW enabled, Registry',
           page[t].dialog # T!Closed, T!Sent(t, i, desc, enabled),
           \/ page[t].dialog.fn = "edit" /\ desc \in T!Desc /\ enabled \in {"unsaid", "on", "off"}
           \/ page[t].dialog.fn = "delete" /\ desc = 0 /\ enabled = "off"
           \/ page[t].dialog.fn \in {"register", "provision"} /\ desc \in T!Desc /\ enabled = "on"
    PROVE  ToolTabs'
<1> DEFINE r == page[t]
           fn == r.dialog.fn
           c == [fn |-> fn, from |-> fn, item |-> i, desc |-> desc, enabled |-> enabled, shown |-> TRUE]
           e == [r.dialog EXCEPT !.busy = TRUE]
           p == [r EXCEPT !.dialog = e]
<1>1. r \in T!Page /\ page = [u \in Tab |-> page[u]]
  BY ToolQueue
<1>2. c \in ToolCall /\ c.shown /\ c.from = fn
  BY DEF ToolCall
<1>3. e \in T!Dialog /\ e.fn = fn
  <2>1. r.dialog \in T!Dialog /\ fn # "closed"
    BY <1>1 DEF T!Page
  <2>2. QED
    BY <2>1, ToolBusy
<1>4. T!Call(t, c) /\ page' = [page EXCEPT ![t] = p]
  BY <1>1 DEF T!Sent, T!Submit
<1> HIDE DEF c, e
<1>5. p \in T!Page /\ p.dialog = e /\ p.sync = r.sync
  BY <1>1, <1>3 DEF T!Page
<1> HIDE DEF p
<1>6. p.dialog.fn = r.dialog.fn /\ c.from \in {p.dialog.fn, "sync"} /\ c.from = p.dialog.fn
  BY <1>2, <1>3, <1>5
<1>7. QED
  BY <1>2, <1>4, <1>5, <1>6, ToolAdded

LEMMA ToolSubmits ==
    ASSUME ToolTabs, NEW t \in Tab,
           T!HandleSave(t) \/ T!HandleDelete(t) \/ T!HandleRegister(t) \/ T!HandleProvision(t)
    PROVE  ToolTabs'
<1>1. page[t] \in T!Page /\ drawn \in T!Desc
  BY ToolQueue DEF ToolTabs, Registry
<1>2. page[t].dialog.fn \in {"edit", "delete"} => page[t].dialog.item \in Tool
  BY <1>1 DEF T!Page, T!Dialog, T!Closed
<1>3. page[t].dialog.fn # "closed" => page[t].dialog # T!Closed
  BY DEF T!Closed
<1>4. CASE T!HandleSave(t)
  <2>1. PICK desc \in {page[t].dialog.seed, drawn + 1} \cap T!Desc, enabled \in {"unsaid", "on", "off"} :
            /\ drawn' = IF desc > drawn THEN desc ELSE drawn
            /\ T!Sent(t, page[t].dialog.item, desc, enabled)
    BY <1>4 DEF T!HandleSave
  <2>2. page[t].dialog.fn = "edit"
    BY <1>4 DEF T!HandleSave, T!Ready
  <2>3. drawn' \in T!Desc
    BY <1>1, <2>1
  <2>4. Registry'
    BY <1>4, <2>3, ToolAlone DEF T!HandleSave
  <2>5. QED
    BY <1>2, <1>3, <2>1, <2>2, <2>4, ToolSent
<1>5. CASE T!HandleDelete(t)
  <2>1. page[t].dialog.fn = "delete" /\ Registry' /\ T!Sent(t, page[t].dialog.item, 0, "off")
    BY <1>5, ToolAlone DEF T!HandleDelete, T!Ready, T!None
  <2>2. QED
    BY <1>2, <1>3, <2>1, ToolSent
<1>6. CASE T!HandleRegister(t) \/ T!HandleProvision(t)
  <2>1. page[t].dialog.fn \in {"register", "provision"} /\ T!Submitted(t)
    BY <1>6 DEF T!HandleRegister, T!HandleProvision, T!Ready
  <2>2. drawn + 1 \in T!Desc /\ drawn' = drawn + 1
    <3>1. MaxDesc \in Nat
      BY ConsoleAssumption
    <3>2. QED
      BY <1>1, <2>1, <3>1 DEF T!Submitted, T!Desc
  <2>3. Registry'
    BY <2>1, <2>2, ToolAlone DEF T!Submitted
  <2>4. PICK i \in Tool : T!Sent(t, i, drawn + 1, "on")
    BY <2>1 DEF T!Submitted
  <2>5. QED
    BY <1>3, <2>1, <2>2, <2>3, <2>4, ToolSent
<1>7. QED
  BY <1>4, <1>5, <1>6

LEMMA ToolSync ==
    ASSUME ToolTabs, NEW t \in Tab, T!HandleSync(t) \/ T!SyncTimeout(t)
    PROVE  ToolTabs'
<1> DEFINE r == page[t]
           q == calls[t]
<1>1. /\ ToolTab(r, q) /\ r \in T!Page
      /\ page = [u \in Tab |-> page[u]] /\ calls = [u \in Tab |-> calls[u]]
  BY ToolQueue
<1>2. Registry'
  BY ToolAlone DEF T!HandleSync, T!SyncTimeout
<1>3. CASE T!HandleSync(t)
  <2> DEFINE c == [fn |-> "sync", from |-> "sync", shown |-> TRUE]
             p == [r EXCEPT !.sync = "syncing"]
  <2>1. c \in ToolCall /\ c.shown /\ c.from = "sync"
    BY DEF ToolCall
  <2>2. T!Call(t, c) /\ page' = [page EXCEPT ![t] = p]
    BY <1>1, <1>3 DEF T!HandleSync
  <2>3. p \in T!Page /\ p.dialog = r.dialog
    BY <1>1 DEF T!Page
  <2> HIDE DEF c, p
  <2>4. p.dialog.fn = r.dialog.fn /\ p.dialog.busy = r.dialog.busy
    BY <2>3
  <2>5. QED
    BY <1>2, <2>1, <2>2, <2>3, <2>4, ToolAdded
<1>4. CASE T!SyncTimeout(t)
  <2>1. PICK more \in BOOLEAN : page' = [page EXCEPT ![t].sync = "idle", ![t].timer = more]
    BY <1>4 DEF T!SyncTimeout
  <2> DEFINE p == [r EXCEPT !.sync = "idle", !.timer = more]
  <2>2. page' = [page EXCEPT ![t] = p]
    BY <1>1, <2>1
  <2>3. p \in T!Page /\ p.dialog = r.dialog /\ p.sync = "idle"
    BY <1>1 DEF T!Page
  <2> HIDE DEF p
  <2>4. ToolTab(p, q)
    BY <1>1, <2>3 DEF ToolTab
  <2>5. calls' = [calls EXCEPT ![t] = q]
    BY <1>1, <1>4 DEF T!SyncTimeout
  <2>6. QED
    BY <1>2, <2>2, <2>4, <2>5, ToolStep
<1>5. QED
  BY <1>3, <1>4

(* So do the answers of the gateway, one lemma for each. *)
LEMMA ToolListed ==
    ASSUME ToolTabs, NEW t \in Tab, T!GetMemzentTools(t)
    PROVE  ToolTabs'
<1> DEFINE r == page[t]
           q == calls[t]
           c == Head(q)
<1>1. q # <<>> /\ c.fn = "list" /\ Registry' /\ Registry
  BY ToolAlone DEF T!GetMemzentTools, T!Busy, ToolTabs
<1>2. /\ r \in T!Page /\ page = [u \in Tab |-> page[u]] /\ Tail(q) \in Seq(ToolCall)
      /\ Items(q) = {c} \cup Items(Tail(q)) /\ c \in ToolCall
      /\ <<>> \in Seq(ToolCall) /\ \A x \in Items(<<>>) : ~x.shown
  BY <1>1, ToolQueue
<1>3. ~c.shown /\ c.from = "page"
  BY <1>1, <1>2 DEF ToolCall
<1>4. PICK items \in {{i \in Tool : tool[i].status = "on"}, {}} :
          T!Listed(t, [i \in Tool |-> IF i \in items THEN tool[i].desc ELSE T!None], items)
  BY DEF T!GetMemzentTools
<1> DEFINE list == [i \in Tool |-> IF i \in items THEN tool[i].desc ELSE T!None]
           a == [r EXCEPT !.listed = list]
<1>5. list \in [Tool -> T!Desc \cup {T!None}]
  BY <1>1, <1>4 DEF Registry
<1>6. T!Listed(t, list, items)
  BY <1>4
<1> HIDE DEF list
<1>7. a \in T!Page /\ a.dialog = r.dialog /\ a.sync = r.sync
  BY <1>2, <1>5 DEF T!Page
<1>8. CASE "item" \in DOMAIN page[t].dialog /\ page[t].dialog.item \notin items
  <2>1. page' = [page EXCEPT ![t].listed = list, ![t].dialog = T!Closed]
        /\ calls' = [calls EXCEPT ![t] = T!Gone(Tail(@), T!OfDialog(t))]
    BY <1>6, <1>8 DEF T!Listed
  <2> DEFINE p == [a EXCEPT !.dialog = T!Closed]
  <2>2. page' = [page EXCEPT ![t] = p]
    BY <1>2, <2>1
  <2>3. p \in T!Page /\ p.dialog = T!Closed /\ p.sync = r.sync
    <3> HIDE DEF a
    <3> QED
      BY <1>7 DEF T!Page, T!Dialog
  <2>4. calls' = [calls EXCEPT ![t] = T!Gone(Tail(q), T!OfDialog(t))]
    BY <2>1
  <2> HIDE DEF p
  <2>5. Items(Tail(q)) \subseteq Items(q) /\ \A x \in Items(q) : x.from = "sync" => x \in Items(Tail(q))
    BY <1>2, <1>3
  <2>6. QED
    BY <1>1, <1>2, <2>2, <2>3, <2>4, <2>5, ToolGone
<1>9. CASE ~("item" \in DOMAIN page[t].dialog /\ page[t].dialog.item \notin items)
  <2>1. page' = [page EXCEPT ![t].listed = list] /\ T!Answer(t, <<>>)
    BY <1>6, <1>9 DEF T!Listed
  <2>2. page' = [page EXCEPT ![t] = a]
    BY <1>2, <2>1
  <2> HIDE DEF a
  <2>3. a.dialog.fn = r.dialog.fn /\ a.dialog.busy = r.dialog.busy
    BY <1>7
  <2>4. a.dialog.fn # "closed" /\ a.dialog.busy =>
          r.dialog.busy /\ (c.from = a.dialog.fn => ~c.shown /\ a.dialog.fn # "register")
    BY <1>3, <2>3
  <2>5. a.sync = "syncing" => r.sync = "syncing" /\ ~(c.shown /\ c.from = "sync")
    BY <1>3, <1>7
  <2>6. QED
    BY <1>1, <1>2, <1>7, <2>1, <2>2, <2>3, <2>4, <2>5, ToolAnswered
<1>10. QED
  BY <1>8, <1>9

(* What the head knows of itself. *)
LEMMA ToolHead ==
    ASSUME ToolTabs, NEW t \in Tab, calls[t] # <<>>
    PROVE  LET c == Head(calls[t]) IN
           /\ c \in ToolCall /\ c.shown \in BOOLEAN /\ c.from # "closed"
           /\ c.fn \in {"edit", "write"} => c.from = "edit" /\ c.item \in Tool /\ c.desc \in T!Desc
           /\ c.fn = "write" => c.enabled \in {"on", "off"}
           /\ c.fn = "delete" => c.from = "delete" /\ c.item \in Tool
           /\ c.fn = "register" => c.from = "register" /\ c.item \in Tool /\ c.desc \in T!Desc
           /\ c.fn \in {"provision", "synced"} => c.from = "provision" /\ c.item \in Tool /\ c.desc \in T!Desc
<1>1. Head(calls[t]) \in ToolCall
  BY ToolQueue
<1>2. QED
  BY <1>1 DEF ToolCall

LEMMA ToolFails ==
    ASSUME ToolTabs, NEW t \in Tab, calls[t] # <<>>, Registry', T!Fails(t),
           Head(calls[t]).fn \in {"edit", "write", "delete", "register", "provision", "synced"}
    PROVE  ToolTabs'
<1> DEFINE c == Head(calls[t])
           heard == c.shown \/ c.from = "register"
<1>1. c.shown \in BOOLEAN /\ c.from \notin {"closed", "sync"}
  BY ToolHead
<1>2. T!Failed(t, heard)
  BY DEF T!Fails
<1>3. heard \in BOOLEAN
  BY <1>1
<1>4. c.shown \/ c.from = "register" => heard
  OBVIOUS
<1> HIDE DEF heard
<1>5. QED
  BY <1>1, <1>2, <1>3, <1>4, ToolFailed

(* A row is written, and may be sent to the router. *)
LEMMA RowWritten ==
    ASSUME Registry, NEW i \in Tool, NEW x \in T!Row, x.status = "on" => x.desc \in T!Desc,
           tool' = [tool EXCEPT ![i] = x], UNCHANGED <<sent, refresh, drawn>>,
           vectoring' \subseteq T!Vector
    PROVE  Registry'
BY DEF Registry

LEMMA ToolRead ==
    ASSUME ToolTabs, NEW t \in Tab, T!Refused(t) \/ T!GetTool(t)
    PROVE  ToolTabs'
<1> DEFINE c == Head(calls[t])
<1>1. Registry' /\ calls[t] # <<>>
  BY ToolAlone DEF T!Refused, T!GetTool, T!Busy
<1>2. CASE T!Refused(t)
  <2>1. c.fn \in {"edit", "write", "delete", "register", "provision"} /\ T!Fails(t)
    BY <1>2 DEF T!Refused, T!Busy
  <2>2. QED
    BY <1>1, <2>1, ToolFails
<1>3. CASE T!GetTool(t)
  <2> DEFINE x == IF c.enabled = "unsaid" THEN "on" ELSE c.enabled
             e == [c EXCEPT !.fn = "write", !.enabled = x]
  <2>1. c \in ToolCall /\ c.fn = "edit"
    BY <1>1, <1>3, ToolQueue DEF T!GetTool, T!Busy
  <2>2. x \in {"on", "off"}
    BY <2>1 DEF ToolCall
  <2>3. T!GoOn(t, e) /\ UNCHANGED page
    BY <1>3 DEF T!GetTool
  <2> HIDE DEF x
  <2>4. e \in ToolCall /\ e.from = c.from /\ e.shown = c.shown
    BY <2>1, <2>2 DEF ToolCall
  <2> HIDE DEF e
  <2>5. QED
    BY <1>1, <2>3, <2>4, ToolGoesOn
<1>4. QED
  BY <1>2, <1>3

LEMMA ToolUpdated ==
    ASSUME ToolTabs, NEW t \in Tab, T!UpdateTool(t) \/ T!DisableTool(t)
    PROVE  ToolTabs'
<1> DEFINE c == Head(calls[t])
           o == tool[c.item]
<1>1. Registry /\ calls[t] # <<>>
  BY DEF ToolTabs, T!UpdateTool, T!DisableTool, T!Busy
<1>2. CASE T!UpdateTool(t)
  <2> DEFINE x == [o EXCEPT !.desc = c.desc, !.status = c.enabled, !.drifted = TRUE]
  <2>1. c.fn = "write" /\ c.from = "edit" /\ c.item \in Tool /\ c.desc \in T!Desc /\ c.enabled \in {"on", "off"}
    BY <1>1, <1>2, ToolHead DEF T!UpdateTool, T!Busy
  <2>2. /\ tool' = [tool EXCEPT ![c.item] = x] /\ vectoring' = vectoring \cup {<<c.item, c.desc>>}
        /\ UNCHANGED <<sent, refresh, drawn>> /\ (T!Succeeded(t, "edit") \/ T!Fails(t))
    BY <1>2 DEF T!UpdateTool
  <2>3. x \in T!Row /\ x.desc \in T!Desc
    BY <1>1, <2>1 DEF Registry, T!Row
  <2>4. vectoring' \subseteq T!Vector
    BY <1>1, <2>1, <2>2 DEF Registry, T!Vector
  <2> HIDE DEF x
  <2>5. Registry'
    BY <1>1, <2>1, <2>2, <2>3, <2>4, RowWritten
  <2>6. QED
    BY <1>1, <2>1, <2>2, <2>5, ToolSucceeded, ToolFails
<1>3. CASE T!DisableTool(t)
  <2> DEFINE x == [o EXCEPT !.status = "off", !.drifted = TRUE]
  <2>1. c.fn = "delete" /\ c.from = "delete" /\ c.item \in Tool
    BY <1>1, <1>3, ToolHead DEF T!DisableTool, T!Busy
  <2>2. /\ tool' = [tool EXCEPT ![c.item] = x]
        /\ UNCHANGED <<sent, vectoring, refresh, drawn>> /\ (T!Succeeded(t, "delete") \/ T!Fails(t))
    BY <1>3 DEF T!DisableTool
  <2>3. x \in T!Row /\ x.status = "off"
    <3>1. o \in T!Row
      BY <1>1, <2>1 DEF Registry
    <3>2. QED
      BY <3>1 DEF T!Row
  <2>4. vectoring' \subseteq T!Vector
    BY <1>1, <2>2 DEF Registry
  <2> HIDE DEF x
  <2>5. Registry'
    BY <1>1, <2>1, <2>2, <2>3, <2>4, RowWritten
  <2>6. QED
    BY <1>1, <2>1, <2>2, <2>5, ToolSucceeded, ToolFails
<1>4. QED
  BY <1>2, <1>3

LEMMA ToolInserted ==
    ASSUME ToolTabs, NEW t \in Tab, T!RegisterTool(t) \/ T!CreateMemzentTool(t)
    PROVE  ToolTabs'
<1> DEFINE c == Head(calls[t])
           o == tool[c.item]
<1>1. Registry /\ calls[t] # <<>>
  BY DEF ToolTabs, T!RegisterTool, T!CreateMemzentTool, T!Busy
<1>2. CASE T!RegisterTool(t)
  <2> DEFINE x == [status |-> "on", owner |-> IF o.status = "none" THEN "system" ELSE o.owner,
                   desc |-> c.desc, drifted |-> TRUE]
  <2>1. c.fn = "register" /\ c.item \in Tool /\ c.desc \in T!Desc
    BY <1>1, <1>2, ToolHead DEF T!RegisterTool, T!Busy
  <2>2. /\ tool' = [tool EXCEPT ![c.item] = x] /\ vectoring' = vectoring \cup {<<c.item, c.desc>>}
        /\ UNCHANGED <<sent, refresh, drawn>> /\ (T!Reloaded(t) \/ T!Fails(t))
    BY <1>2 DEF T!RegisterTool
  <2>3. x \in T!Row /\ x.desc \in T!Desc
    <3>1. o \in T!Row
      BY <1>1, <2>1 DEF Registry
    <3>2. QED
      BY <2>1, <3>1 DEF T!Row
  <2>4. vectoring' \subseteq T!Vector
    BY <1>1, <2>1, <2>2 DEF Registry, T!Vector
  <2> HIDE DEF x
  <2>5. Registry'
    BY <1>1, <2>1, <2>2, <2>3, <2>4, RowWritten
  <2>6. CASE T!Reloaded(t)
    BY <2>5, <2>6, ToolFresh, ToolFreshPage, ToolList DEF T!Reloaded, T!Leave
  <2>7. CASE T!Fails(t)
    BY <1>1, <2>1, <2>5, <2>7, ToolFails
  <2>8. QED
    BY <2>2, <2>6, <2>7
<1>3. CASE T!CreateMemzentTool(t)
  <2> DEFINE x == [status |-> "on", owner |-> "org", desc |-> c.desc, drifted |-> TRUE]
             e == [c EXCEPT !.fn = "synced"]
  <2>1. c \in ToolCall /\ c.fn = "provision" /\ c.item \in Tool /\ c.desc \in T!Desc
    BY <1>1, <1>3, ToolHead DEF T!CreateMemzentTool, T!Busy
  <2>2. /\ tool' = [tool EXCEPT ![c.item] = x] /\ UNCHANGED <<sent, vectoring, refresh, drawn, page>>
        /\ T!GoOn(t, e)
    BY <1>3 DEF T!CreateMemzentTool
  <2>3. x \in T!Row /\ x.desc \in T!Desc
    BY <2>1 DEF T!Row
  <2>4. vectoring' \subseteq T!Vector
    BY <1>1, <2>2 DEF Registry
  <2> HIDE DEF x
  <2>5. Registry'
    BY <1>1, <2>1, <2>2, <2>3, <2>4, RowWritten
  <2>6. e \in ToolCall /\ e.from = c.from /\ e.shown = c.shown
    BY <2>1 DEF ToolCall
  <2> HIDE DEF e
  <2>7. QED
    BY <1>1, <2>2, <2>5, <2>6, ToolGoesOn
<1>4. QED
  BY <1>2, <1>3

LEMMA ToolSyncFails ==
    ASSUME ToolTabs, NEW t \in Tab, T!SyncFails(t)
    PROVE  ToolTabs'
<1>1. T!SyncEnds(t) /\ refresh' = [refresh EXCEPT ![t] = T!Idle] /\ UNCHANGED <<tool, sent, vectoring, drawn>>
  BY DEF T!SyncFails
<1>2. Registry'
  BY <1>1 DEF ToolTabs, Registry, T!Idle, T!Refresh
<1>3. QED
  BY <1>1, <1>2, ToolSyncEnds

(* Refresh. *)
LEMMA ToolSelect ==
    ASSUME ToolTabs, NEW l \in Tab \cup {Loop}, T!Select(l)
    PROVE  ToolTabs'
<1> DEFINE S == {<<i, tool[i].desc>> : i \in T!Drifted}
           x == [pc |-> "send", send |-> S, mark |-> T!Drifted]
<1>1. Registry /\ UNCHANGED <<tool, sent, vectoring, drawn>>
  BY DEF ToolTabs, T!Select
<1>2. CASE T!Drifted = {} /\ l \in Tab
  <2>1. T!SyncEnds(l) /\ refresh' = refresh
    BY <1>2 DEF T!Select
  <2>2. Registry'
    BY <1>1, <2>1 DEF Registry
  <2>3. QED
    BY <1>2, <2>1, <2>2, ToolSyncEnds
<1>3. CASE ~(T!Drifted = {} /\ l \in Tab)
  <2>1. refresh' = [refresh EXCEPT ![l] = x] /\ UNCHANGED <<page, calls>>
    BY <1>3 DEF T!Select
  <2>2. S \subseteq T!Vector /\ T!Drifted \subseteq Tool
    BY <1>1 DEF Registry, T!Drifted, T!Vector
  <2> HIDE DEF S
  <2>3. x \in T!Refresh
    BY <2>2 DEF T!Refresh
  <2> HIDE DEF x
  <2>4. Registry'
    BY <1>1, <2>1, <2>3 DEF Registry
  <2>5. QED
    BY <2>1, <2>4, ToolTables
<1>4. QED
  BY <1>2, <1>3

LEMMA ToolSend ==
    ASSUME ToolTabs, NEW l \in Tab \cup {Loop}, T!Send(l)
    PROVE  ToolTabs'
<1> DEFINE f == refresh[l]
<1>1. Registry /\ UNCHANGED <<tool, vectoring, drawn, page, calls>>
  BY DEF ToolTabs, T!Send
<1>2. PICK v \in f.send :
          /\ sent' = sent \cup {v}
          /\ refresh' = [refresh EXCEPT ![l].send = @ \ {v},
                                        ![l].pc = IF refresh[l].send = {v} THEN "mark" ELSE @]
  BY DEF T!Send
<1>3. f \in T!Refresh /\ refresh = [u \in Tab \cup {Loop} |-> refresh[u]]
  BY <1>1 DEF Registry
<1> DEFINE pc == IF f.send = {v} THEN "mark" ELSE f.pc
           x == [f EXCEPT !.send = f.send \ {v}, !.pc = pc]
<1>4. refresh' = [refresh EXCEPT ![l] = x]
  BY <1>2, <1>3
<1>5. pc \in {"idle", "send", "mark"} /\ f.send \ {v} \in SUBSET T!Vector
  BY <1>3 DEF T!Refresh
<1> HIDE DEF pc
<1>6. x \in T!Refresh
  BY <1>3, <1>5 DEF T!Refresh
<1> HIDE DEF x
<1>7. v \in T!Vector
  BY <1>3 DEF T!Refresh
<1>8. Registry'
  BY <1>1, <1>2, <1>4, <1>6, <1>7 DEF Registry
<1>9. QED
  BY <1>1, <1>8, ToolTables

LEMMA ToolMark ==
    ASSUME ToolTabs, NEW l \in Tab \cup {Loop}, T!Mark(l)
    PROVE  ToolTabs'
<1> DEFINE f == refresh[l]
<1>1. Registry /\ UNCHANGED <<sent, vectoring, drawn>>
  BY DEF ToolTabs, T!Mark
<1>2. PICK i \in f.mark :
          /\ tool' \in {tool, [tool EXCEPT ![i].drifted = FALSE]}
          /\ IF f.mark # {i}
             THEN refresh' = [refresh EXCEPT ![l].mark = @ \ {i}] /\ UNCHANGED <<page, calls>>
             ELSE /\ refresh' = [refresh EXCEPT ![l] = T!Idle]
                  /\ IF l \in Tab THEN T!SyncEnds(l) ELSE UNCHANGED <<page, calls>>
  BY DEF T!Mark
<1>3. f \in T!Refresh /\ i \in Tool
  BY <1>1 DEF Registry, T!Refresh
<1>4. tool' \in [Tool -> T!Row] /\ \A j \in Tool : tool'[j].status = "on" => tool'[j].desc \in T!Desc
  <2> DEFINE x == [tool[i] EXCEPT !.drifted = FALSE]
  <2>1. tool[i] \in T!Row /\ tool \in [Tool -> T!Row]
        /\ \A j \in Tool : tool[j].status = "on" => tool[j].desc \in T!Desc
    BY <1>1, <1>3 DEF Registry
  <2>2. x \in T!Row /\ x.status = tool[i].status /\ x.desc = tool[i].desc
    BY <2>1 DEF T!Row
  <2>3. tool' = tool \/ tool' = [tool EXCEPT ![i] = x]
    BY <1>2, <1>3, <2>1
  <2> HIDE DEF x
  <2>4. QED
    BY <1>3, <2>1, <2>2, <2>3
<1>5. CASE f.mark # {i}
  <2> DEFINE x == [f EXCEPT !.mark = f.mark \ {i}]
  <2>1. refresh' = [refresh EXCEPT ![l] = x]
    BY <1>1, <1>2, <1>5 DEF Registry
  <2>2. x \in T!Refresh
    BY <1>3 DEF T!Refresh
  <2> HIDE DEF x
  <2>3. Registry'
    BY <1>1, <1>4, <2>1, <2>2 DEF Registry
  <2>4. QED
    BY <1>2, <1>5, <2>3, ToolTables
<1>6. CASE ~(f.mark # {i})
  <2>1. T!Idle \in T!Refresh
    BY DEF T!Idle, T!Refresh
  <2>2. Registry'
    BY <1>1, <1>2, <1>4, <1>6, <2>1 DEF Registry
  <2>3. QED
    BY <1>2, <1>6, <2>2, ToolSyncEnds, ToolTables
<1>7. QED
  BY <1>5, <1>6

LEMMA ToolVectorize ==
    ASSUME ToolTabs, NEW v \in T!Vector, T!Vectorize(v)
    PROVE  ToolTabs'
<1>1. Registry' /\ UNCHANGED <<page, calls>>
  BY DEF ToolTabs, Registry, T!Vectorize
<1>2. QED
  BY <1>1, ToolTables

LEMMA ToolTabsInit == T!Init => ToolTabs
<1> SUFFICES ASSUME T!Init PROVE ToolTabs
  OBVIOUS
<1>1. 1 \in T!Desc
  <2>1. MaxDesc \in Nat \ {0}
    BY ConsoleAssumption
  <2>2. QED
    BY <2>1 DEF T!Desc
<1>2. Registry
  <2>1. T!Idle \in T!Refresh
    BY DEF T!Idle, T!Refresh
  <2>2. PICK old \in SUBSET Tool, owner \in {"org", "system"} :
          /\ tool = [i \in Tool |-> IF i \in old
                THEN [status |-> "on", owner |-> owner, desc |-> 1, drifted |-> FALSE]
                ELSE [status |-> "none", owner |-> "org", desc |-> T!None, drifted |-> FALSE]]
          /\ sent = {<<i, 1>> : i \in old}
    BY DEF T!Init
  <2>3. tool \in [Tool -> T!Row] /\ \A i \in Tool : tool[i].status = "on" => tool[i].desc \in T!Desc
    BY <1>1, <2>2 DEF T!Row
  <2>4. sent \subseteq T!Vector
    BY <1>1, <2>2 DEF T!Vector
  <2>5. drawn = 1 /\ vectoring = {} /\ refresh = [r \in Tab \cup {Loop} |-> T!Idle]
    BY DEF T!Init
  <2>6. QED
    BY <1>1, <2>1, <2>3, <2>4, <2>5 DEF Registry
<1>3. ToolTab(T!Fresh, T!Refreshed)
  BY ToolList, ToolFreshPage DEF ToolTab, T!Closed
<1>4. page = [t \in Tab |-> T!Fresh] /\ calls = [t \in Tab |-> T!Refreshed]
  BY DEF T!Init
<1>5. QED
  BY <1>2, <1>3, <1>4 DEF ToolTabs

LEMMA ToolTabsNext == ToolTabs /\ T!Next => ToolTabs'
<1> SUFFICES ASSUME ToolTabs, T!Next PROVE ToolTabs'
  OBVIOUS
<1>1. ASSUME NEW t \in Tab, T!Handle(t) PROVE ToolTabs'
  BY <1>1, ToolOpen, ToolWizard, ToolClose, ToolSubmits, ToolSync DEF T!Handle
<1>2. ASSUME NEW t \in Tab, T!Serve(t) PROVE ToolTabs'
  BY <1>2, ToolListed, ToolRead, ToolUpdated, ToolInserted, ToolSyncFails DEF T!Serve
<1>3. ASSUME NEW l \in Tab \cup {Loop}, T!Refreshing(l) PROVE ToolTabs'
  BY <1>3, ToolSelect, ToolSend, ToolMark DEF T!Refreshing
<1>4. ASSUME NEW v \in T!Vector, T!Vectorize(v) PROVE ToolTabs'
  BY <1>4, ToolVectorize
<1>5. QED
  BY <1>1, <1>2, <1>3, <1>4 DEF T!Next

-----------------------------------------------------------------------------
(* The console                                                              *)

(* A user stays on one site, and its invariant holds there. *)
ConsoleInv ==
    /\ site \in {"playground", "tools", "webhooks", "organisation", "workflows", "login", "blog",
                "overview"}
    /\ site = "login" => LoginInv /\ orgs \in 0..MaxOrg
    /\ site = "organisation" => OrgInv /\ OrgLocked
    /\ site = "blog" => BlogInv /\ BlogPages
    /\ site = "webhooks" => HookInv /\ HookPages
    /\ site = "tools" => ToolTabs
    /\ site = "workflows" => WorkflowInv
    /\ site = "playground" => ChatInv
    /\ site = "overview" => OverviewInv

LEMMA ConsoleInit == Init => ConsoleInv
<1>1. L!Init => orgs \in 0..MaxOrg
  BY ConsoleAssumption DEF L!Init
<1>2. QED
  BY <1>1, LoginInit, OrgInit, OrgLocksInit, BlogInit, BlogPagesInit, HookInit, HookPagesInit,
     ToolTabsInit, WorkflowInit, ChatInit, OverviewInit
     DEF Init, ConsoleInv

LEMMA ConsoleNext == ConsoleInv /\ [Next]_vars => ConsoleInv'
<1> SUFFICES ASSUME ConsoleInv, [Next]_vars PROVE ConsoleInv'
  OBVIOUS
<1>1. CASE UNCHANGED vars
  <2>1. /\ UNCHANGED <<site, page, calls, org, hook, row, reviewed, orgs, members, login>>
        /\ UNCHANGED <<post, public, reader, tool, drawn, sent, vectoring, refresh>>
    BY <1>1 DEF vars, workflows, tenants, blog, tools
  <2>2. LoginInv => LoginInv'
    BY <2>1 DEF LoginInv, TabOK, L!Org, L!Page, L!Step, L!None
  <2>3. OrgInv => OrgInv'
    BY <2>1 DEF OrgInv
  <2>4. BlogInv => BlogInv'
    BY <2>1 DEF BlogInv, B!DraftsStayHidden
  <2>5. HookInv => HookInv'
    BY <2>1 DEF HookInv
  <2>6. WorkflowInv => WorkflowInv'
    BY <2>1 DEF WorkflowInv, Rows, W!ServedWasReviewed
  <2>7. UNCHANGED P!vars /\ UNCHANGED V!vars
    BY <1>1 DEF vars, chat, P!vars, V!vars
  <2>8. (ChatInv => ChatInv') /\ (OverviewInv => OverviewInv')
    BY <2>7, ChatNext, OverviewNext
  <2>9. (OrgLocked => OrgLocked') /\ (HookPages => HookPages')
    BY <2>1 DEF OrgLocked, HookPages
  <2>10. (BlogPages => BlogPages') /\ (ToolTabs => ToolTabs')
    BY <2>1 DEF BlogPages, BlogTables, ToolTabs, Registry
  <2>11. QED
    BY <2>1, <2>2, <2>3, <2>4, <2>5, <2>6, <2>8, <2>9, <2>10 DEF ConsoleInv
<1>2. CASE OnLogin(L!Next)
  BY <1>2, LoginNext DEF OnLogin, ConsoleInv
<1>3. CASE OnOrganisation(O!Next)
  BY <1>3, OrgNext, OrgLocksNext DEF OnOrganisation, ConsoleInv
<1>4. CASE OnBlog(B!Next)
  <2>1. B!Next /\ BlogInv => BlogInv'
    BY BlogEdit, BlogRead DEF B!Next
  <2>2. QED
    BY <1>4, <2>1, BlogPagesNext DEF OnBlog, ConsoleInv
<1>5. CASE OnWebhooks(H!Next)
  BY <1>5, HookNext, HookPagesNext DEF OnWebhooks, ConsoleInv
<1>6. CASE OnWorkflows(W!Next)
  BY <1>6, WorkflowNext DEF OnWorkflows, ConsoleInv
<1>7. CASE OnPlayground(P!Next)
  BY <1>7, ChatNext DEF OnPlayground, ConsoleInv
<1>8. CASE OnOverview(V!Next)
  BY <1>8, OverviewNext DEF OnOverview, ConsoleInv
<1>9. CASE OnTools(T!Next)
  BY <1>9, ToolTabsNext DEF OnTools, ConsoleInv
<1>10. QED
  BY <1>1, <1>2, <1>3, <1>4, <1>5, <1>6, <1>7, <1>8, <1>9 DEF Next

LEMMA ConsoleAlways == Spec => []ConsoleInv
BY ConsoleInit, ConsoleNext, PTL DEF Spec

(* Every table, page and call is what the code can make it: the types of the
   eight sites. *)
THEOREM Typing == Spec => []TypeOK
<1>1. LoginInv /\ orgs \in 0..MaxOrg => L!TypeOK
  BY DEF LoginInv, L!TypeOK, L!Org, L!Page, L!Step, L!None
<1>2. WorkflowInv => W!TypeOK
  BY DEF WorkflowInv, W!TypeOK, RowsPage, W!Page, Lists
<1>3. ConsoleInv => TypeOK
  BY <1>1, <1>2, OrgTypes, BlogHolds, HookHolds, ToolHolds, OverviewHolds
     DEF ConsoleInv, ChatInv, TypeOK
<1>4. QED
  BY <1>3, ConsoleAlways, PTL

(* A button, a form or a spinner is locked only while a call is under way whose
   answer unlocks it: the flags of the pages and dialogs, against the queue of
   the tab's calls, whatever was closed, left or refused meanwhile. *)
THEOREM Locks == Spec => []LocksAreTrue
<1>1. ConsoleInv => LocksAreTrue
  BY OrgLocksAre, BlogHolds, HookHolds, ToolHolds, OverviewHolds DEF ConsoleInv, ChatInv, LocksAreTrue
<1>2. QED
  BY <1>1, ConsoleAlways, PTL

(* A page is about an organisation of the user it was made for: the pages and
   requests of Tenancy, however many tabs sign in and out meanwhile. *)
THEOREM ShownOrg == Spec => []ShownOrgIsTheirs
<1>1. ConsoleInv => ShownOrgIsTheirs
  BY DEF ConsoleInv, LoginInv, TabOK, ShownOrgIsTheirs, L!ShownOrgIsTheirs
<1>2. QED
  BY <1>1, ConsoleAlways, PTL

(* The default model goes with the default provider, in the row and on every
   page of the settings, whatever is saved before the profile was loaded. *)
THEOREM Models == Spec => []ModelOfProvider
<1>1. OrgInv => O!ModelOfProvider
  <2> SUFFICES ASSUME OrgInv, NEW t \in Tab, O!At(t, "settings")
               PROVE  org.choice \in Matched /\ page[t].choice \in Matched
    BY DEF Matched, O!ModelOfProvider, O!None, OrgInv, OrgOf
  <2>1. page[t] \in OrgPage /\ page[t].at = "settings"
    BY DEF OrgInv, O!At
  <2>2. QED
    BY <2>1 DEF OrgInv, OrgOf, OrgPage
<1>2. ConsoleInv => ModelOfProvider
  BY <1>1 DEF ConsoleInv, ModelOfProvider
<1>3. QED
  BY <1>2, ConsoleAlways, PTL

(* A prompt and its answer are kept in the session that was open when it was
   run, and the assistant shows an answer under its own prompt: the runs and
   deletions of Playground and the trials and messages of Overview, whatever
   is opened, deleted or answered meanwhile in this tab or another. *)
THEOREM Filed == Spec => []FiledWhereAsked
<1>1. ConsoleInv => FiledWhereAsked
  BY OverviewHolds DEF ConsoleInv, ChatInv, FiledWhereAsked
<1>2. QED
  BY <1>1, ConsoleAlways, PTL

(* What the website shows of a post was published by an editor in those words:
   the list, the editor and the website of Blog. *)
THEOREM Drafts == Spec => []DraftsStayHidden
<1>1. ConsoleInv => DraftsStayHidden
  BY DEF ConsoleInv, BlogInv, DraftsStayHidden
<1>2. QED
  BY <1>1, ConsoleAlways, PTL

(* A webhook that was deleted does not come back, whatever edit was under way,
   and the row of a workflow keeps to its life: the gateway's halves of
   WebhookPages and Workflows. *)
THEOREM Removal == Spec => RemovedForGood
<1> DEFINE A == /\ site = "webhooks" => H!KeepsRemoved
                /\ site = "workflows" => W!LifeStep
<1>1. ConsoleInv /\ [Next]_vars => [A]_vars
  <2> SUFFICES ASSUME ConsoleInv, Next PROVE A
    OBVIOUS
  <2>1. CASE site = "webhooks"
    <3>1. H!Next
      BY <2>1 DEF Next, OnPlayground, OnTools, OnWebhooks, OnOrganisation, OnWorkflows, OnLogin,
                  OnBlog, OnOverview
    <3>2. QED
      BY <2>1, <3>1, HookNext DEF ConsoleInv
  <2>2. CASE site = "workflows"
    <3>1. W!Next
      BY <2>2 DEF Next, OnPlayground, OnTools, OnWebhooks, OnOrganisation, OnWorkflows, OnLogin,
                  OnBlog, OnOverview
    <3>2. QED
      BY <2>2, <3>1, WorkflowNext DEF ConsoleInv
  <2>3. QED
    BY <2>1, <2>2
<1>2. RemovedForGood <=> [][A]_vars
  BY DEF RemovedForGood
<1> HIDE DEF A
<1>3. QED
  BY <1>1, <1>2, ConsoleAlways, PTL DEF Spec

(* What the gateway serves was approved by an administrator. *)
THEOREM Approval == W!Spec => []W!ServedWasReviewed
<1>1. WorkflowInv => W!ServedWasReviewed
  BY DEF WorkflowInv
<1>2. QED
  BY <1>1, WorkflowInit, WorkflowNext, PTL DEF W!Spec

(* A workflow that was taken out of use is never served again, and one is
   served only after its approval: every step of the table is a step of
   Lifecycle, or changes neither stage nor approvals. *)
THEOREM Implementation == W!Spec => W!ImplementsLifecycle
<1>1. W!Init => W!Life!Init
  <2>1. W!Stage(W!None) = "unknown"
    BY DEF W!Stage, W!Reviewable, W!None
  <2>2. QED
    BY <2>1 DEF W!Init, W!Life!Init
<1>2. W!LifeStep <=> [W!Life!Next]_<<[w \in Workflow |-> W!Stage(row[w])], reviewed>>
  BY DEF W!LifeStep
<1>3. QED
  BY <1>1, <1>2, WorkflowInit, WorkflowNext, PTL DEF W!Spec, W!ImplementsLifecycle, W!Life!Spec

(* The types hold. *)
THEOREM WorkflowTyping == W!Spec => []W!TypeOK
<1>1. WorkflowInv => W!TypeOK
  BY DEF WorkflowInv, W!TypeOK, RowsPage, W!Page, Lists
<1>2. QED
  BY <1>1, WorkflowInit, WorkflowNext, PTL DEF W!Spec
=============================================================================
