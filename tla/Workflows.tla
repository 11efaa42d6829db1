----------------------------- MODULE Workflows -----------------------------
(***************************************************************************)
(* The life of a workflow: the miner discovers it, the simulator replays   *)
(* it, an administrator approves or rejects it on the workflows page, the  *)
(* gateway serves it while it is active, and the demotion check takes it   *)
(* out of use.                                                             *)
(*                                                                         *)
(* A row is its status.  Frequencies, hit counts and accuracies are left   *)
(* out: whatever depends on them may or may not happen.  So is the cache   *)
(* of active workflows in the gateway.                                     *)
(***************************************************************************)
EXTENDS ServerActions

CONSTANT Workflow

None == "none"
Status == {"discovered", "simulated", "pending_review", "approved", "active", "stale", "demoted"}
Reviewable == {"discovered", "simulated", "pending_review"}

VARIABLES
    row,          \* the status of every workflow in the table
    reviewed,     \* ghost: the workflows that an administrator approved
    page          \* the page of each tab

vars == <<row, reviewed, page, calls>>

Filter == {"all", "active"}
Show(filter) ==
    [w \in Workflow |-> IF filter = "all" \/ row[w] = "active" THEN row[w] ELSE None]
\* `asking`: loads that wait for Supabase, each for the filter it began with.
Page == [filter : Filter, asking : SUBSET Filter, listed : [Workflow -> Status \cup {None}]]

-----------------------------------------------------------------------------
(* What an administrator does                                               *)

\* Every change of the filter begins a load of its own.
SetFilter(t, f) ==
    /\ f # page[t].filter
    /\ page' = [page EXCEPT ![t].filter = f, ![t].asking = @ \cup {f}]
    /\ UNCHANGED <<row, reviewed, calls>>
\* Supabase answers the loads in any order; the server actions are called then.
Load(t, f) ==
    /\ f \in page[t].asking
    /\ page' = [page EXCEPT ![t].asking = @ \ {f}]
    /\ Call(t, [fn |-> "list", filter |-> f])
    /\ UNCHANGED <<row, reviewed>>

\* The buttons are never disabled, and go by the status that is listed.
HandleApprove(t, w) ==
    /\ page[t].listed[w] \in Reviewable
    /\ Call(t, [fn |-> "approve", workflow |-> w])
    /\ UNCHANGED <<row, reviewed, page>>
HandleReject(t, w) ==
    /\ page[t].listed[w] \in Reviewable \cup {"active"}
    /\ Call(t, [fn |-> "reject", workflow |-> w])
    /\ UNCHANGED <<row, reviewed, page>>

-----------------------------------------------------------------------------
(* What the gateway does, and what the page makes of the answer             *)

\* ListCandidates; [] after an error.  The page shows the list when the second call of
\* the load has been answered as well.
GetWorkflows(t) ==
    /\ Busy(t, "list")
    /\ \E list \in {Show(Head(calls[t]).filter), [w \in Workflow |-> None]} :
          GoOn(t, [fn |-> "stats", list |-> list])
    /\ UNCHANGED <<row, reviewed, page>>
GetOfflineStats(t) ==
    /\ Busy(t, "stats")
    /\ page' \in {page, [page EXCEPT ![t].listed = Head(calls[t]).list]}
    /\ Answer(t, <<>>)
    /\ UNCHANGED <<row, reviewed>>

\* The page takes every answer, an error too, for the status it asked for; only when the
\* call itself fails does the list stay.
Answered(t, status) ==
    LET w == Head(calls[t]).workflow IN
    /\ page' \in {page, [page EXCEPT ![t].listed[w] = IF @ = None THEN None ELSE status]}
    /\ Answer(t, <<>>)

\* Approve: of a workflow that can still be reviewed...
Approve(t) ==
    LET w == Head(calls[t]).workflow IN
    /\ Busy(t, "approve")
    /\ \/ /\ row[w] \in Reviewable
          /\ row' = [row EXCEPT ![w] = "approved"]
          /\ reviewed' = reviewed \cup {w}
          /\ GoOn(t, [fn |-> "activate", workflow |-> w])
          /\ page' = page
       \/ UNCHANGED <<row, reviewed>> /\ Answered(t, "active")
\* mutant: the activation does not ask whether the workflow is still approved
ActivateAnyway(t) ==
    /\ Busy(t, "activate")
    /\ row' = [row EXCEPT ![Head(calls[t]).workflow] = "active"]
    /\ Answered(t, "active")
    /\ UNCHANGED reviewed
\* ...which the handler then activates, if it is still approved; an error is ignored, and
\* the gateway may die before.
Activate(t) ==
    LET w == Head(calls[t]).workflow IN
    /\ Busy(t, "activate")
    /\ \/ row[w] = "approved" /\ row' = [row EXCEPT ![w] = "active"]
       \/ row' = row
    /\ Answered(t, "active")
    /\ UNCHANGED reviewed
Reject(t) ==
    /\ Busy(t, "reject")
    /\ row' \in {row, [row EXCEPT ![Head(calls[t]).workflow] = "demoted"]}
    /\ Answered(t, "demoted")
    /\ UNCHANGED reviewed

-----------------------------------------------------------------------------
(* What happens to a workflow meanwhile                                     *)

\* The miner: a pattern that is there already keeps its status.
UpsertCandidate(w) == row[w] = None /\ row' = [row EXCEPT ![w] = "discovered"]
\* The simulator writes the status it read the executions for.
UpdateSimulationResults(w) ==
    /\ row[w] \in {"discovered", "simulated"}
    /\ \E status \in {"simulated", "pending_review"} : row' = [row EXCEPT ![w] = status]
\* RunDemotionCheck: two statements, the second of which sees what the first did.
MarkStale(w) == row[w] = "active" /\ row' = [row EXCEPT ![w] = "stale"]
Demote(w) == row[w] = "stale" /\ row' = [row EXCEPT ![w] = "demoted"]
\* Another administrator, or the API.
RejectedElsewhere(w) == row[w] # None /\ row' = [row EXCEPT ![w] = "demoted"]

Background(w) ==
    /\ \/ UpsertCandidate(w) \/ UpdateSimulationResults(w) \/ MarkStale(w) \/ Demote(w)
       \/ RejectedElsewhere(w)
    /\ UNCHANGED <<reviewed, page, calls>>

-----------------------------------------------------------------------------
Init ==
    /\ row = [w \in Workflow |-> None]
    /\ reviewed = {}
    /\ page = [t \in Tab |-> [filter |-> "all", asking |-> {"all"},
                              listed |-> [w \in Workflow |-> None]]]
    /\ calls = [t \in Tab |-> <<>>]

Handle(t) ==
    \/ \E f \in Filter : SetFilter(t, f) \/ Load(t, f)
    \/ \E w \in Workflow : HandleApprove(t, w) \/ HandleReject(t, w)
Serve(t) == GetWorkflows(t) \/ GetOfflineStats(t) \/ Approve(t) \/ Activate(t) \/ Reject(t)

Next ==
    \/ \E t \in Tab : Handle(t) \/ Serve(t)
    \/ \E w \in Workflow : Background(w)

\* A call is answered in the end.
Spec == Init /\ [][Next]_vars /\ \A t \in Tab : WF_vars(Serve(t))

-----------------------------------------------------------------------------
\* The types.
TypeOK ==
    /\ row \in [Workflow -> Status \cup {None}]
    /\ reviewed \subseteq Workflow
    /\ page \in [Tab -> Page]

\* What the gateway serves, or served, was approved by an administrator, although the
\* simulator, the miner and the demotion check write the same rows.
ServedWasReviewed ==
    \A w \in Workflow : row[w] \in {"approved", "active", "stale"} => w \in reviewed

\* The row as the life of a workflow that it stands for.
Stage(status) ==
    CASE status = None -> "unknown"
      [] status \in Reviewable -> "candidate"
      [] status = "approved" -> "approved"
      [] status = "active" -> "served"
      [] status \in {"stale", "demoted"} -> "withdrawn"
Life == INSTANCE Lifecycle WITH stage <- [w \in Workflow |-> Stage(row[w])]
LifeStep == [Life!Next]_<<[w \in Workflow |-> Stage(row[w])], reviewed>>

\* The table, with all that write to it, implements the life of a workflow: approved once
\* and served only then, never served again when it is stale or demoted, although it may be
\* rejected between its approval and its activation, or while the simulator replays it.
ImplementsLifecycle == Life!Spec
=============================================================================
