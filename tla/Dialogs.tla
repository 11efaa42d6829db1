------------------------------ MODULE Dialogs ------------------------------
(***************************************************************************)
(* The dialogs of the tools page and of the webhooks page.  One covers the *)
(* page, so that one is open at a time: page[t].dialog.  While its call is *)
(* under way its button is disabled (`busy`), but it can be closed, and    *)
(* another opened, before the answer comes.  A call is `shown` as long as  *)
(* the dialog that made it is open.                                        *)
(***************************************************************************)
EXTENDS ServerActions

VARIABLE page

Closed == [fn |-> "closed"]
Ready(t, fn) == page[t].dialog.fn = fn /\ ~page[t].dialog.busy
Saving(t) == page[t].dialog # Closed /\ page[t].dialog.busy
SetDialog(t, d) == page' = [page EXCEPT ![t].dialog = d]
\* The calls q of a tab, of which those from `gone` find no dialog any more.
Gone(q, gone) == [n \in DOMAIN q |-> [q[n] EXCEPT !.shown = @ /\ q[n].from \notin gone]]
OfDialog(t) == {page[t].dialog.fn}

\* The button of the dialog is pressed: it is disabled until the call c is answered.
Submit(t, c) == Call(t, c) /\ page' = [page EXCEPT ![t].dialog.busy = TRUE]

\* The cross, Cancel, or a click beside the dialog.
CloseDialog(t) ==
    /\ page[t].dialog # Closed
    /\ SetDialog(t, Closed)
    /\ calls' = [calls EXCEPT ![t] = Gone(@, OfDialog(t))]

\* The call was refused or failed, or its answer is lost: the dialog shows an error.
Failed(t, heard) ==
    /\ page' = [page EXCEPT ![t].dialog =
           IF heard /\ @.fn = Head(calls[t]).from THEN [@ EXCEPT !.busy = FALSE] ELSE @]
    /\ Answer(t, <<>>)

\* It succeeded: the list is fetched anew, and the dialog is closed; so is one like it
\* that was opened for the same item meanwhile.
Refreshed == <<[fn |-> "list", from |-> "page", shown |-> FALSE]>>
Succeeded(t, fn) ==
    LET c == Head(calls[t])  d == page[t].dialog IN
    IF d.fn = fn /\ (c.shown \/ d.item = c.item)
    THEN SetDialog(t, Closed) /\ calls' = [calls EXCEPT ![t] = Gone(Tail(@), OfDialog(t)) \o Refreshed]
    ELSE page' = page /\ Answer(t, Refreshed)

\* A new list arrives.  A dialog of an item that it does not hold goes with its row.
Listed(t, list, items) ==
    IF "item" \in DOMAIN page[t].dialog /\ page[t].dialog.item \notin items
    THEN /\ page' = [page EXCEPT ![t].listed = list, ![t].dialog = Closed]
         /\ calls' = [calls EXCEPT ![t] = Gone(Tail(@), OfDialog(t))]
    ELSE page' = [page EXCEPT ![t].listed = list] /\ Answer(t, <<>>)

=============================================================================
