------------------------ MODULE MCCacheInvalidation ------------------------
(* Small instances of CacheInvalidation. *)
EXTENDS CacheInvalidation, TLC

OnePrompt == {<<"p">>}
TwoKeys == {<<"p", "c">>}

(* Bumps; one operation of each kind. *)
Bumps == [o \in Op |-> "config"]
Mixed == [o1 |-> "flush", o2 |-> "tool", o3 |-> "config"]

(* Requests, gateways and events of one kind are alike. *)
Alike == Permutations(Request) \cup Permutations(Op) \cup Permutations(Gateway)

EachTool == [o \in Op |-> SetToSeq(Tool)]
============================================================================
