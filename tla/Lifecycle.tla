----------------------------- MODULE Lifecycle -----------------------------
(***************************************************************************)
(* What the gateway promises of a workflow, whatever writes to its row: it *)
(* is served only after an administrator approved it, and once it is taken *)
(* out of use it is never served again.                                    *)
(***************************************************************************)
CONSTANT Workflow

VARIABLES
    stage,        \* of every workflow
    reviewed      \* the workflows that an administrator approved

Stage == {"unknown", "candidate", "approved", "served", "withdrawn"}

Move(w, from, to) == stage[w] = from /\ stage' = [stage EXCEPT ![w] = to]

Discover(w) == Move(w, "unknown", "candidate") /\ UNCHANGED reviewed
Review(w) == Move(w, "candidate", "approved") /\ reviewed' = reviewed \cup {w}
Serve(w) == Move(w, "approved", "served") /\ UNCHANGED reviewed
Withdraw(w) ==
    /\ \E from \in {"candidate", "approved", "served"} : Move(w, from, "withdrawn")
    /\ UNCHANGED reviewed

Init == stage = [w \in Workflow |-> "unknown"] /\ reviewed = {}
Next == \E w \in Workflow : Discover(w) \/ Review(w) \/ Serve(w) \/ Withdraw(w)

Spec == Init /\ [][Next]_<<stage, reviewed>>
=============================================================================
