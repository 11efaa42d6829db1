----------------------------- MODULE OrgPages -----------------------------
(***************************************************************************)
(* The pages on which the administrators of an organisation set its spend  *)
(* limits, its profile and similarity threshold, and its plan.             *)
(*                                                                         *)
(* A form of four limits is one value: no limit, limits, or one below zero.*)
(* Of a profile the model keeps the default provider and the default       *)
(* model; a model stands for the provider that has it.                     *)
(***************************************************************************)
EXTENDS ServerActions

CONSTANT Provider

None == "none"
Limits == {None, "some", "negative"}
Threshold == 1..2
Choice == [provider : Provider \cup {None}, model : Provider \cup {None}]

VARIABLES
    org,          \* the row of the organisation, with its limits and its threshold
    page          \* the page of each tab

vars == <<org, page, calls>>

Org == [limits : Limits, choice : Choice, threshold : Threshold]
Page == [at : {"limits"}, form : Limits, loading : BOOLEAN, saving : BOOLEAN]
        \cup [at : {"settings"}, pc : {"user", "members", "ready"}, org : BOOLEAN, listed : BOOLEAN,
              choice : Choice, threshold : Threshold, saving : BOOLEAN, applying : BOOLEAN]
        \cup [at : {"billing"}, org : BOOLEAN, buying : {None, "plan", "topup"}]

NoChoice == [provider |-> None, model |-> None]
At(t, name) == page[t].at = name
Enqueue(t, c) == calls' = [calls EXCEPT ![t] = Append(@, c)]

-----------------------------------------------------------------------------
(* Spend limits                                                             *)

LoadData == [fn |-> "load"]
SpendLimits == [at |-> "limits", form |-> None, loading |-> TRUE, saving |-> FALSE]

\* The page is a spinner while it loads, and its form while it does not.
EditLimits(t) ==
    /\ At(t, "limits") /\ ~page[t].loading
    /\ \E form \in Limits : page' = [page EXCEPT ![t].form = form]
    /\ UNCHANGED <<org, calls>>
Ready(t) == At(t, "limits") /\ ~page[t].loading /\ ~page[t].saving
HandleSaveLimits(t) ==
    /\ Ready(t) /\ page[t].form # "negative"
    /\ Call(t, [fn |-> "limits", limits |-> page[t].form])
    /\ page' = [page EXCEPT ![t].saving = TRUE]
    /\ UNCHANGED org
ClearLimits(t) ==
    /\ Ready(t)
    /\ Call(t, [fn |-> "limits", limits |-> None])
    /\ page' = [page EXCEPT ![t].saving = TRUE]
    /\ UNCHANGED org

\* Stored, then loadData is awaited; or refused; or stored and the answer lost.
SetSpendLimits(t) ==
    LET c == Head(calls[t]) IN
    /\ Busy(t, "limits")
    /\ \/ /\ org' = [org EXCEPT !.limits = c.limits]
          /\ page' = [page EXCEPT ![t].loading = TRUE, ![t].form = IF c.limits = None THEN None ELSE @]
          /\ Answer(t, <<LoadData>>)
       \/ /\ org' \in {org, [org EXCEPT !.limits = c.limits]}
          /\ page' = [page EXCEPT ![t].saving = FALSE]
          /\ Answer(t, <<>>)
\* The three calls of loadData, of which the second reads the limits.  When it fails,
\* the form stays as it is.
GetSpendLimits(t) ==
    /\ Busy(t, "load")
    /\ \E form \in {org.limits, page[t].form} :
          page' = [page EXCEPT ![t].form = form, ![t].loading = FALSE, ![t].saving = FALSE]
    /\ Answer(t, <<>>)
    /\ UNCHANGED org

-----------------------------------------------------------------------------
(* Settings                                                                 *)

Settings == [at |-> "settings", pc |-> "user", org |-> FALSE, listed |-> FALSE, choice |-> NoChoice,
             threshold |-> 1, saving |-> FALSE, applying |-> FALSE]

\* The effect asks Supabase who the user is and for an organisation; without one, the
\* user stands for it...
LoadOrg(t) ==
    /\ At(t, "settings") /\ page[t].pc = "user"
    /\ \E pc \in {"members", "ready"}, known \in BOOLEAN :
          /\ pc = "members" => known
          /\ page' = [page EXCEPT ![t].pc = pc, ![t].org = known]
    /\ UNCHANGED <<org, calls>>
\* ...then for its members, and then it calls three server actions one after the other.
LoadMembers(t) ==
    /\ At(t, "settings") /\ page[t].pc = "members"
    /\ page' = [page EXCEPT ![t].pc = "ready"]
    /\ Enqueue(t, [fn |-> "profile"])
    /\ UNCHANGED org
GetOrgProfile(t) ==
    /\ Busy(t, "profile")
    /\ \E choice \in {org.choice, page[t].choice} : page' = [page EXCEPT ![t].choice = choice]
    /\ Answer(t, <<[fn |-> "providers"]>>)
    /\ UNCHANGED org
GetMemzentProviders(t) ==
    /\ Busy(t, "providers")
    /\ \E listed \in BOOLEAN : page' = [page EXCEPT ![t].listed = listed]
    /\ Answer(t, <<[fn |-> "threshold"]>>)
    /\ UNCHANGED org
\* After an error of the gateway it is the default, which is 1 here.
GetSimilarityThreshold(t) ==
    /\ Busy(t, "threshold")
    /\ \E n \in {org.threshold, 1, page[t].threshold} : page' = [page EXCEPT ![t].threshold = n]
    /\ Answer(t, <<>>)
    /\ UNCHANGED org

\* mutant: the model stays when another provider is selected
SelectProviderOnly(t) ==
    /\ At(t, "settings")
    /\ \E p \in (IF page[t].listed THEN Provider ELSE {}) \cup {None} :
          page' = [page EXCEPT ![t].choice.provider = p]
    /\ UNCHANGED <<org, calls>>
\* A provider comes with a model of its own, if it has any.
SelectProvider(t) ==
    /\ At(t, "settings")
    /\ \E p \in (IF page[t].listed THEN Provider ELSE {}) \cup {None} :
          \E m \in {None, p} : page' = [page EXCEPT ![t].choice = [provider |-> p, model |-> m]]
    /\ UNCHANGED <<org, calls>>
\* The models on offer are those of the provider, if it is in the list.
SelectModel(t) ==
    /\ At(t, "settings") /\ page[t].choice.provider # None
    /\ \E m \in {None} \cup (IF page[t].listed THEN {page[t].choice.provider} ELSE {}) :
          page' = [page EXCEPT ![t].choice.model = m]
    /\ UNCHANGED <<org, calls>>
SelectThreshold(t) ==
    /\ At(t, "settings")
    /\ \E n \in Threshold : page' = [page EXCEPT ![t].threshold = n]
    /\ UNCHANGED <<org, calls>>

HandleSaveProfile(t) ==
    /\ At(t, "settings") /\ page[t].org /\ ~page[t].saving
    /\ Call(t, [fn |-> "save", choice |-> page[t].choice])
    /\ page' = [page EXCEPT ![t].saving = TRUE]
    /\ UNCHANGED org
ApplyThreshold(t) ==
    /\ At(t, "settings") /\ page[t].org /\ ~page[t].applying
    /\ Call(t, [fn |-> "apply", threshold |-> page[t].threshold])
    /\ page' = [page EXCEPT ![t].applying = TRUE]
    /\ UNCHANGED org

UpdateOrgProfile(t) ==
    /\ Busy(t, "save")
    /\ org' \in {org, [org EXCEPT !.choice = Head(calls[t]).choice]}
    /\ page' = [page EXCEPT ![t].saving = FALSE]
    /\ Answer(t, <<>>)
UpdateSimilarityThreshold(t) ==
    /\ Busy(t, "apply")
    /\ org' \in {org, [org EXCEPT !.threshold = Head(calls[t]).threshold]}
    /\ page' = [page EXCEPT ![t].applying = FALSE]
    /\ Answer(t, <<>>)

-----------------------------------------------------------------------------
(* Plans                                                                    *)

Billing == [at |-> "billing", org |-> FALSE, buying |-> None]

LoadPlan(t) ==
    /\ At(t, "billing") /\ ~page[t].org
    /\ page' = [page EXCEPT ![t].org = TRUE]
    /\ UNCHANGED <<org, calls>>
\* A plan other than the current one; a top-up is offered while a plan is being bought.
HandleUpgrade(t) ==
    /\ At(t, "billing") /\ page[t].org /\ page[t].buying = None
    /\ Call(t, [fn |-> "checkout", for |-> "plan"])
    /\ page' = [page EXCEPT ![t].buying = "plan"]
    /\ UNCHANGED org
TopUp(t) ==
    /\ At(t, "billing") /\ page[t].org /\ page[t].buying # "topup"
    /\ Call(t, [fn |-> "checkout", for |-> "topup"])
    /\ page' = [page EXCEPT ![t].buying = "topup"]
    /\ UNCHANGED org
\* An error unlocks the page; a URL takes it away, until the user comes back to a new one.
CreateCheckoutSession(t) ==
    /\ Busy(t, "checkout")
    /\ \/ page' = [page EXCEPT ![t].buying = None] /\ Answer(t, <<>>)
       \/ page' = [page EXCEPT ![t] = Billing] /\ calls' = [calls EXCEPT ![t] = <<>>]
    /\ UNCHANGED org

-----------------------------------------------------------------------------
\* Another administrator, from another page.
ChangedElsewhere ==
    /\ \E p \in Provider \cup {None}, limits \in {None, "some"} :
          org' = [org EXCEPT !.choice = [provider |-> p, model |-> p], !.limits = limits]
    /\ UNCHANGED <<page, calls>>

\* The tabs have just been opened; the row may say anything an administrator wrote.
Init ==
    /\ org = [limits |-> None, choice |-> NoChoice, threshold |-> 1]
    /\ page \in [Tab -> {SpendLimits, Settings, Billing}]
    /\ calls = [t \in Tab |-> IF At(t, "limits") THEN <<LoadData>> ELSE <<>>]

Handle(t) ==
    \/ EditLimits(t) \/ HandleSaveLimits(t) \/ ClearLimits(t)
    \/ SelectProvider(t) \/ SelectModel(t) \/ SelectThreshold(t)
    \/ HandleSaveProfile(t) \/ ApplyThreshold(t)
    \/ HandleUpgrade(t) \/ TopUp(t)
    \/ LoadOrg(t) \/ LoadMembers(t) \/ LoadPlan(t)
Serve(t) ==
    \/ SetSpendLimits(t) \/ GetSpendLimits(t) \/ GetOrgProfile(t) \/ GetMemzentProviders(t)
    \/ GetSimilarityThreshold(t) \/ UpdateOrgProfile(t) \/ UpdateSimilarityThreshold(t)
    \/ CreateCheckoutSession(t)

Next == ChangedElsewhere \/ \E t \in Tab : Handle(t) \/ Serve(t)

\* A call is answered in the end.
Spec == Init /\ [][Next]_vars /\ \A t \in Tab : WF_vars(Serve(t))

-----------------------------------------------------------------------------
\* The types.
TypeOK == org \in Org /\ page \in [Tab -> Page]

Asked(t, fns) == \E c \in Waiting(t) : c.fn \in fns
\* A spinner turns, and a button is disabled, only while the calls they are about are
\* under way.
LocksAreTrue ==
    \A t \in Tab :
        CASE At(t, "limits") -> /\ page[t].saving => Asked(t, {"limits", "load"})
                                /\ page[t].loading => Asked(t, {"load"})
          [] At(t, "settings") -> /\ page[t].saving => Asked(t, {"save"})
                                  /\ page[t].applying => Asked(t, {"apply"})
          [] At(t, "billing") -> page[t].buying # None =>
                                     \E c \in Waiting(t) : c.fn = "checkout" /\ c.for = page[t].buying

\* The default model, stored or on a page, is one of the default provider, although a
\* form can be edited and saved before, between and after the answers that fill it.
ModelOfProvider ==
    \A choice \in {org.choice} \cup {page[t].choice : t \in {u \in Tab : At(u, "settings")}} :
        choice.model \in {None, choice.provider}

Locked(t, control) ==
    CASE At(t, "limits") -> IF control = "form" THEN page[t].saving ELSE page[t].loading
      [] At(t, "settings") -> IF control = "form" THEN page[t].saving ELSE page[t].applying
      [] At(t, "billing") -> control = "form" /\ page[t].buying # None
=============================================================================
