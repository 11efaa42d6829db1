--------------------------- MODULE WebhookPages ---------------------------
(***************************************************************************)
(* The webhooks of an organisation and the page on which its members list, *)
(* create, edit and delete them and read their delivery logs.              *)
(*                                                                         *)
(* A webhook is a number, and so is what a form says of it: its URL, its   *)
(* events, its description and whether it is enabled.  A form is sent as a *)
(* whole.                                                                  *)
(***************************************************************************)
EXTENDS Dialogs

CONSTANTS
    MaxHook,      \* bound: webhooks ever created
    MaxForm       \* bound: different forms

None == 0
Hook == 1..MaxHook
Form == 1..MaxForm

VARIABLE hook     \* the rows of the table: their state and what they say

vars == <<hook, page, calls>>

Row == [status : {"free", "live", "deleted"}, form : Form]
Dialog == {Closed} \cup [fn : {"create"}, busy : BOOLEAN, secret : Hook \cup {None}]
                   \cup [fn : {"edit", "delete", "logs"}, item : Hook, busy : BOOLEAN]
Page == [listed : [Hook -> Form \cup {None}], dialog : Dialog]

Live == {h \in Hook : hook[h].status = "live"}

-----------------------------------------------------------------------------
(* What a member does                                                       *)

\* The log is asked for at once.
OpenCreate(t) ==
    /\ page[t].dialog = Closed
    /\ SetDialog(t, [fn |-> "create", busy |-> FALSE, secret |-> None])
    /\ UNCHANGED <<hook, calls>>
OpenDialog(t, h) ==
    /\ page[t].dialog = Closed /\ page[t].listed[h] # None
    /\ \E fn \in {"edit", "delete", "logs"} :
          /\ SetDialog(t, [fn |-> fn, item |-> h, busy |-> fn = "logs"])
          /\ IF fn = "logs" THEN Call(t, [fn |-> fn, from |-> fn, item |-> h, shown |-> TRUE])
                            ELSE UNCHANGED calls
    /\ UNCHANGED hook
Close(t) == CloseDialog(t) /\ UNCHANGED hook

\* Without a URL or an event the form is not sent.
HandleCreate(t) ==
    /\ Ready(t, "create") /\ page[t].dialog.secret = None
    /\ \E form \in Form :
          Submit(t, [fn |-> "create", from |-> "create", item |-> None, shown |-> TRUE, form |-> form])
    /\ UNCHANGED hook

\* What the list showed, or something new.
HandleSave(t) ==
    /\ Ready(t, "edit")
    /\ \E form \in Form :
          Submit(t, [fn |-> "edit", from |-> "edit", item |-> page[t].dialog.item, shown |-> TRUE,
                     form |-> form])
    /\ UNCHANGED hook
HandleDelete(t) ==
    /\ Ready(t, "delete")
    /\ Submit(t, [fn |-> "delete", from |-> "delete", item |-> page[t].dialog.item, shown |-> TRUE])
    /\ UNCHANGED hook

-----------------------------------------------------------------------------
(* The gateway answers the head of a queue, and the page goes on            *)

\* getWebhooks: none after an error.
GetWebhooks(t) ==
    /\ Busy(t, "list")
    /\ \E items \in {Live, {}} :
          Listed(t, [h \in Hook |-> IF h \in items THEN hook[h].form ELSE None], items)
    /\ UNCHANGED hook

Fails(t) == Failed(t, Head(calls[t]).shown)
Refused(t) ==
    /\ Busy(t, "create") \/ Busy(t, "edit") \/ Busy(t, "delete")
    /\ Fails(t)
    /\ UNCHANGED hook

\* The answer to a creation holds the secret; a dialog that was closed meanwhile does
\* not show it, and no later answer holds it.
CreateWebhook(t) ==
    LET c == Head(calls[t]) IN
    /\ Busy(t, "create")
    /\ \E h \in Hook :
          /\ hook[h].status = "free" /\ \A g \in 1..(h - 1) : hook[g].status # "free"
          /\ hook' = [hook EXCEPT ![h] = [status |-> "live", form |-> c.form]]
          /\ \/ /\ page' = IF c.shown
                           THEN [page EXCEPT ![t].dialog.busy = FALSE, ![t].dialog.secret = h] ELSE page
                /\ Answer(t, Refreshed)
             \/ Fails(t)

\* mutant: a PUT of a row that went is never answered
UpdateWebhookHangs(t) ==
    LET c == Head(calls[t]) IN
    /\ Busy(t, "write") /\ c.item \in Live
    /\ hook' = [hook EXCEPT ![c.item].form = c.form]
    /\ Succeeded(t, "edit") \/ Fails(t)
\* HandleWebhookByID reads the row for a PUT, and writes it if it is still there.
GetForUpdate(t) ==
    /\ Busy(t, "edit") /\ Head(calls[t]).item \in Live
    /\ GoOn(t, [Head(calls[t]) EXCEPT !.fn = "write"])
    /\ UNCHANGED <<hook, page>>
UpdateWebhook(t) ==
    LET c == Head(calls[t]) IN
    /\ Busy(t, "write")
    /\ \/ /\ c.item \in Live
          /\ hook' = [hook EXCEPT ![c.item].form = c.form]
          /\ Succeeded(t, "edit") \/ Fails(t)
       \/ hook' = hook /\ Fails(t)
DeleteWebhook(t) ==
    LET c == Head(calls[t]) IN
    /\ Busy(t, "delete") /\ c.item \in Live
    /\ hook' = [hook EXCEPT ![c.item].status = "deleted"]
    /\ Succeeded(t, "delete") \/ Fails(t)

\* getWebhookDeliveries: [] after an error of the gateway; when the call itself fails,
\* nothing ends the loading.
GetWebhookDeliveries(t) ==
    /\ Busy(t, "logs")
    /\ \E heard \in {FALSE, Head(calls[t]).shown} : Failed(t, heard)
    /\ UNCHANGED hook

\* Another member deletes a webhook.
DeletedElsewhere(h) ==
    /\ h \in Live
    /\ hook' = [hook EXCEPT ![h].status = "deleted"]
    /\ UNCHANGED <<page, calls>>

-----------------------------------------------------------------------------
Init ==
    /\ \E n \in 0..(MaxHook - 1) :
          hook = [h \in Hook |-> [status |-> IF h <= n THEN "live" ELSE "free",
                                  form |-> 1]]
    /\ page = [t \in Tab |-> [listed |-> [h \in Hook |-> None], dialog |-> Closed]]
    /\ calls = [t \in Tab |-> Refreshed]

Handle(t) ==
    \/ OpenCreate(t) \/ Close(t) \/ \E h \in Hook : OpenDialog(t, h)
    \/ HandleCreate(t) \/ HandleSave(t) \/ HandleDelete(t)
Serve(t) ==
    \/ GetWebhooks(t) \/ Refused(t) \/ CreateWebhook(t) \/ GetForUpdate(t) \/ UpdateWebhook(t)
    \/ DeleteWebhook(t) \/ GetWebhookDeliveries(t)

Next ==
    \/ \E t \in Tab : Handle(t) \/ Serve(t)
    \/ \E h \in Hook : DeletedElsewhere(h)

\* A call is answered in the end.
Spec == Init /\ [][Next]_vars /\ \A t \in Tab : WF_vars(Serve(t))

-----------------------------------------------------------------------------
\* The types.
TypeOK ==
    /\ hook \in [Hook -> Row]
    /\ page \in [Tab -> Page]

\* A button of a dialog is disabled only while the call it made is under way.  The log,
\* which has no button, is left out: see GetWebhookDeliveries.
LocksAreTrue ==
    \A t \in Tab : Saving(t) /\ page[t].dialog.fn # "logs" =>
        \E c \in Waiting(t) : c.from = page[t].dialog.fn /\ c.shown

\* The step brings no deleted webhook back.
KeepsRemoved == \A h \in Hook : hook[h].status = "deleted" => hook'[h].status = "deleted"

Locked(t, control) == control = "form" /\ Saving(t) /\ page[t].dialog.fn # "logs"
=============================================================================
