----------------------------- MODULE ToolPages -----------------------------
(***************************************************************************)
(* The tool registry: the rows of the tools table, the Refresh that has    *)
(* the router vectorise their descriptions, and the pages of the dashboard *)
(* with which administrators register, provision, edit, disable and        *)
(* synchronise tools.                                                      *)
(*                                                                         *)
(* A row is its description, a number that stands for the name and the     *)
(* other texts too.  last_synced_at and updated_at only matter through     *)
(* their comparison, which is `drifted`.  The wizard of /tools/new is a    *)
(* page of its own; it is a dialog here, which takes the list away.        *)
(***************************************************************************)
EXTENDS Dialogs

CONSTANTS
    Tool,         \* identifiers of tools
    Loop,         \* the refresh loop of the gateway
    MaxDesc       \* bound: descriptions ever typed

None == 0
Desc == 1..MaxDesc

VARIABLES
    tool,         \* the rows of the table
    drawn,        \* descriptions typed so far
    sent,         \* what the router was ever asked to vectorise
    vectoring,    \* goroutines that will ask the router
    refresh       \* Refresh, called by the loop or by the sync of a tab

registry == <<tool, sent, vectoring, refresh>>
vars == <<registry, drawn, page, calls>>

Vector == Tool \X Desc
Row == [status : {"none", "on", "off"}, owner : {"org", "system"},
        desc : Desc \cup {None}, drifted : BOOLEAN]
\* Refresh: the drifted rows still to be sent, and those to be marked after that.
Refresh == [pc : {"idle", "send", "mark"}, send : SUBSET Vector, mark : SUBSET Tool]
Idle == [pc |-> "idle", send |-> {}, mark |-> {}]

Dialog == {Closed} \cup [fn : {"edit", "delete"}, item : Tool, seed : Desc, busy : BOOLEAN]
                   \cup [fn : {"register", "provision"}, busy : BOOLEAN]
Page == [listed : [Tool -> Desc \cup {None}], dialog : Dialog,
         sync : {"idle", "syncing", "ended"}, timer : BOOLEAN]

Fresh == [listed |-> [i \in Tool |-> None], dialog |-> Closed, sync |-> "idle", timer |-> FALSE]
Sent(t, i, desc, enabled) ==
    LET fn == page[t].dialog.fn IN
    Submit(t, [fn |-> fn, from |-> fn, item |-> i, desc |-> desc, enabled |-> enabled, shown |-> TRUE])

-----------------------------------------------------------------------------
(* What an administrator does                                               *)

\* A dialog about a tool begins with what the list showed of it.  The registration
\* is only hidden while it is closed: its call keeps its button disabled.
OpenDialog(t) ==
    /\ page[t].dialog = Closed
    /\ \/ \E i \in Tool, fn \in {"edit", "delete"} :
             /\ page[t].listed[i] # None
             /\ SetDialog(t, [fn |-> fn, item |-> i, seed |-> page[t].listed[i], busy |-> FALSE])
       \/ SetDialog(t, [fn |-> "register", busy |-> \E c \in Waiting(t) : c.from = "register"])
    /\ UNCHANGED <<registry, drawn, calls>>

\* To the wizard, and back to a list that is fetched anew; what the page waited for
\* finds it no more.
Everything == {"edit", "delete", "register", "provision", "sync"}
OpenWizard(t) ==
    /\ page[t].dialog = Closed
    /\ page' = [page EXCEPT ![t] = [Fresh EXCEPT !.dialog = [fn |-> "provision", busy |-> FALSE]]]
    /\ calls' = [calls EXCEPT ![t] = Gone(@, Everything)]
    /\ UNCHANGED <<registry, drawn>>
Leave(t) == page' = [page EXCEPT ![t] = Fresh]
LeaveWizard(t) ==
    /\ page[t].dialog.fn = "provision" /\ Len(calls[t]) < MaxCalls
    /\ Leave(t)
    /\ calls' = [calls EXCEPT ![t] = Gone(@, Everything) \o Refreshed]
    /\ UNCHANGED <<registry, drawn>>

Close(t) ==
    /\ page[t].dialog.fn # "provision"
    /\ CloseDialog(t)
    /\ UNCHANGED <<registry, drawn>>

\* The form of an edit: the texts as they were listed, or new ones.  The list does not
\* say whether a tool is enabled; unless the toggle is used, neither does the form.
HandleSave(t) ==
    /\ Ready(t, "edit")
    /\ \E desc \in {page[t].dialog.seed, drawn + 1} \cap Desc, enabled \in {"unsaid", "on", "off"} :
          /\ drawn' = IF desc > drawn THEN desc ELSE drawn
          /\ Sent(t, page[t].dialog.item, desc, enabled)
    /\ UNCHANGED registry

HandleDelete(t) ==
    /\ Ready(t, "delete")
    /\ Sent(t, page[t].dialog.item, None, "off")
    /\ UNCHANGED <<registry, drawn>>

\* A new tool, or one that is there already, with a description of its own.
Submitted(t) ==
    /\ drawn < MaxDesc /\ drawn' = drawn + 1
    /\ \E i \in Tool : Sent(t, i, drawn + 1, "on")
    /\ UNCHANGED registry
\* RegisterToolBtn sends its form to the gateway; the wizard's goes into the table.
HandleRegister(t) == Ready(t, "register") /\ Submitted(t)
HandleProvision(t) == Ready(t, "provision") /\ Submitted(t)

HandleSync(t) ==
    /\ page[t].dialog = Closed /\ page[t].sync # "syncing"
    /\ Call(t, [fn |-> "sync", from |-> "sync", shown |-> TRUE])
    /\ page' = [page EXCEPT ![t].sync = "syncing"]
    /\ UNCHANGED <<registry, drawn>>

\* A timer of an earlier answer goes off; it may find a later synchronisation.
SyncTimeout(t) ==
    /\ page[t].timer
    /\ \E more \in BOOLEAN : page' = [page EXCEPT ![t].sync = "idle", ![t].timer = more]
    /\ UNCHANGED <<registry, drawn, calls>>

-----------------------------------------------------------------------------
(* The gateway answers the head of a queue, and the page goes on            *)

\* ListTools: the enabled ones; the page shows none after an error.
GetMemzentTools(t) ==
    /\ Busy(t, "list")
    /\ \E items \in {{i \in Tool : tool[i].status = "on"}, {}} :
          Listed(t, [i \in Tool |-> IF i \in items THEN tool[i].desc ELSE None], items)
    /\ UNCHANGED <<registry, drawn>>

Fails(t) == Failed(t, Head(calls[t]).shown \/ Head(calls[t]).from = "register")

Refused(t) ==
    /\ \E fn \in {"edit", "write", "delete", "register", "provision"} : Busy(t, fn)
    /\ Fails(t)
    /\ UNCHANGED <<registry, drawn>>

\* mutant: a form that does not say whether the tool is enabled is written as it came
GetToolUnmerged(t) ==
    LET c == Head(calls[t]) IN
    /\ Busy(t, "edit")
    /\ tool[c.item].status = "on" /\ tool[c.item].owner = "org"
    /\ GoOn(t, [c EXCEPT !.fn = "write"])
    /\ UNCHANGED <<registry, drawn, page>>
\* HandleUpdateTool reads the row, which must be enabled and of the organisation...
GetTool(t) ==
    LET c == Head(calls[t]) IN
    /\ Busy(t, "edit")
    /\ tool[c.item].status = "on" /\ tool[c.item].owner = "org"
    /\ GoOn(t, [c EXCEPT !.fn = "write", !.enabled = IF @ = "unsaid" THEN "on" ELSE @])
    /\ UNCHANGED <<registry, drawn, page>>

\* mutant: the vector is left to the next Refresh
UpdateToolLater(t) ==
    LET c == Head(calls[t]) IN
    /\ Busy(t, "write")
    /\ tool' = [tool EXCEPT ![c.item] =
           [@ EXCEPT !.desc = c.desc, !.status = c.enabled, !.drifted = TRUE]]
    /\ Succeeded(t, "edit") \/ Fails(t)
    /\ UNCHANGED <<sent, vectoring, refresh, drawn>>
\* ...writes all of it back, whatever became of it meanwhile, and has it vectorised.
UpdateTool(t) ==
    LET c == Head(calls[t]) IN
    /\ Busy(t, "write")
    /\ tool' = [tool EXCEPT ![c.item] =
           [@ EXCEPT !.desc = c.desc, !.status = c.enabled, !.drifted = TRUE]]
    /\ vectoring' = vectoring \cup {<<c.item, c.desc>>}
    /\ Succeeded(t, "edit") \/ Fails(t)
    /\ UNCHANGED <<sent, refresh, drawn>>

\* DisableTool: of the organisation's tools only.
DisableTool(t) ==
    LET c == Head(calls[t]) IN
    /\ Busy(t, "delete")
    /\ tool[c.item].status # "none" /\ tool[c.item].owner = "org"
    /\ tool' = [tool EXCEPT ![c.item] = [@ EXCEPT !.status = "off", !.drifted = TRUE]]
    /\ Succeeded(t, "delete") \/ Fails(t)
    /\ UNCHANGED <<sent, vectoring, refresh, drawn>>

\* The page is loaded anew, and what it had not sent yet is forgotten.
Reloaded(t) == Leave(t) /\ calls' = [calls EXCEPT ![t] = Refreshed]
\* The router takes the tab to another page, from whichever it shows by now.
Pushed(t) == Leave(t) /\ calls' = [calls EXCEPT ![t] = Gone(Tail(@), Everything) \o Refreshed]

\* RegisterTool inserts a row of no organisation, or overwrites the one that is there.
RegisterTool(t) ==
    LET c == Head(calls[t]) IN
    /\ Busy(t, "register")
    /\ tool' = [tool EXCEPT ![c.item] =
           [status |-> "on", owner |-> IF @.status = "none" THEN "system" ELSE @.owner,
            desc |-> c.desc, drifted |-> TRUE]]
    /\ vectoring' = vectoring \cup {<<c.item, c.desc>>}
    /\ Reloaded(t) \/ Fails(t)
    /\ UNCHANGED <<sent, refresh, drawn>>

\* createMemzentTool inserts a row of the organisation, then asks for a synchronisation,
\* whose errors it swallows.
CreateMemzentTool(t) ==
    LET c == Head(calls[t]) IN
    /\ Busy(t, "provision")
    /\ tool[c.item].status = "none"
    /\ tool' = [tool EXCEPT ![c.item] =
           [status |-> "on", owner |-> "org", desc |-> c.desc, drifted |-> TRUE]]
    /\ GoOn(t, [c EXCEPT !.fn = "synced"])
    /\ UNCHANGED <<sent, vectoring, refresh, drawn, page>>

\* A synchronisation ends: of the button, or of a provisioned tool.
SyncEnds(t) ==
    \/ /\ Busy(t, "sync")
       /\ page' = IF Head(calls[t]).shown
                  THEN [page EXCEPT ![t].sync = "ended", ![t].timer = TRUE] ELSE page
       /\ Answer(t, <<>>)
    \/ Busy(t, "synced") /\ (Pushed(t) \/ Fails(t))
SyncFails(t) ==
    /\ SyncEnds(t)
    /\ refresh' = [refresh EXCEPT ![t] = Idle]
    /\ UNCHANGED <<tool, sent, vectoring, drawn>>

-----------------------------------------------------------------------------
(* Refresh, and what the goroutines do                                      *)

\* The enabled rows that drifted are read...
Drifted == {i \in Tool : tool[i].status = "on" /\ tool[i].drifted}
Select(r) ==
    /\ refresh[r] = Idle
    /\ r \in Tab => Busy(r, "sync") \/ Busy(r, "synced")
    /\ IF Drifted = {} /\ r \in Tab
       THEN SyncEnds(r) /\ refresh' = refresh
       ELSE /\ Drifted # {}
            /\ refresh' = [refresh EXCEPT ![r] =
                   [pc |-> "send", send |-> {<<i, tool[i].desc>> : i \in Drifted}, mark |-> Drifted]]
            /\ UNCHANGED <<page, calls>>
    /\ UNCHANGED <<tool, sent, vectoring, drawn>>

\* ...sent to the router one after the other...
Send(r) ==
    /\ \E v \in refresh[r].send :
          /\ sent' = sent \cup {v}
          /\ refresh' = [refresh EXCEPT ![r].send = @ \ {v},
                                        ![r].pc = IF refresh[r].send = {v} THEN "mark" ELSE @]
    /\ UNCHANGED <<tool, vectoring, drawn, page, calls>>

\* ...and marked as synchronised, whatever came of that; an error of the UPDATE is ignored.
Mark(r) ==
    /\ refresh[r].pc = "mark"
    /\ \E i \in refresh[r].mark :
          /\ tool' \in {tool, [tool EXCEPT ![i].drifted = FALSE]}
          /\ IF refresh[r].mark # {i}
             THEN refresh' = [refresh EXCEPT ![r].mark = @ \ {i}] /\ UNCHANGED <<page, calls>>
             ELSE /\ refresh' = [refresh EXCEPT ![r] = Idle]
                  /\ IF r \in Tab THEN SyncEnds(r) ELSE UNCHANGED <<page, calls>>
    /\ UNCHANGED <<sent, vectoring, drawn>>

\* The goroutine of a registration or an update.
Vectorize(v) ==
    /\ v \in vectoring
    /\ sent' = sent \cup {v}
    /\ vectoring' = vectoring \ {v}
    /\ UNCHANGED <<tool, refresh, drawn, page, calls>>

-----------------------------------------------------------------------------
\* Some tools may have been provisioned and synchronised, with the first description.
Init ==
    /\ \E old \in SUBSET Tool, owner \in {"org", "system"} :
          /\ tool = [i \in Tool |-> IF i \in old
                THEN [status |-> "on", owner |-> owner, desc |-> 1, drifted |-> FALSE]
                ELSE [status |-> "none", owner |-> "org", desc |-> None, drifted |-> FALSE]]
          /\ sent = {<<i, 1>> : i \in old}
    /\ drawn = 1
    /\ vectoring = {}
    /\ refresh = [r \in Tab \cup {Loop} |-> Idle]
    /\ page = [t \in Tab |-> Fresh]
    /\ calls = [t \in Tab |-> Refreshed]

Handle(t) ==
    \/ OpenDialog(t) \/ OpenWizard(t) \/ LeaveWizard(t) \/ Close(t) \/ HandleSave(t) \/ HandleDelete(t)
    \/ HandleRegister(t) \/ HandleProvision(t) \/ HandleSync(t) \/ SyncTimeout(t)
Serve(t) ==
    \/ GetMemzentTools(t) \/ Refused(t) \/ GetTool(t) \/ UpdateTool(t) \/ DisableTool(t)
    \/ RegisterTool(t) \/ CreateMemzentTool(t) \/ SyncFails(t)
Refreshing(r) == Select(r) \/ Send(r) \/ Mark(r)

Next ==
    \/ \E t \in Tab : Handle(t) \/ Serve(t)
    \/ \E r \in Tab \cup {Loop} : Refreshing(r)
    \/ \E v \in Vector : Vectorize(v)

\* Calls are answered; the loop goes on; goroutines run.
Fairness ==
    /\ \A t \in Tab : WF_vars(Serve(t) \/ Refreshing(t))
    /\ WF_vars(Refreshing(Loop))
    /\ WF_vars(\E v \in Vector : Vectorize(v))

Spec == Init /\ [][Next]_vars /\ Fairness

-----------------------------------------------------------------------------
\* The types.
TypeOK ==
    /\ tool \in [Tool -> Row]
    /\ drawn \in Desc
    /\ sent \subseteq Vector /\ vectoring \subseteq Vector
    /\ refresh \in [Tab \cup {Loop} -> Refresh]
    /\ page \in [Tab -> Page]

\* The router was never asked to vectorise the description of an enabled tool.
Unsent(i) == tool[i].status = "on" /\ <<i, tool[i].desc>> \notin sent

\* A control is locked only while the call that locked it is under way.
LocksAreTrue ==
    \A t \in Tab :
        /\ page[t].sync = "syncing" => \E c \in Waiting(t) : c.from = "sync" /\ c.shown
        /\ Saving(t) => \E c \in Waiting(t) :
              c.from = page[t].dialog.fn /\ (c.shown \/ c.from = "register")

Locked(t, control) == IF control = "form" THEN Saving(t) ELSE page[t].sync = "syncing"
=============================================================================
