----------------------------- MODULE MCApiKeys -----------------------------
(* Two administrators and a member with a tab each, three calls, and a clock *)
(* that ticks once: a lifetime of 0 ends with it, as does the grace period.  *)
EXTENDS ApiKeys, TLC

CONSTANTS o1, o2, o3, ann, eve, bob
Symmetry == {f @@ g : f \in Permutations(Op), g \in Permutations(Admin)}
=============================================================================
