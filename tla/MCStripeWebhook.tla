-------------------------- MODULE MCStripeWebhook --------------------------
(* A small instance of StripeWebhook: an organisation that pays as a
   customer and as a guest and subscribes, one that only pays, two handlers
   and two deliveries of each event. *)
EXTENDS StripeWebhook, TLC

CONSTANTS acme, globex, h1, h2, k1, k2, k3

TwoOrgs == {acme, globex}
OneOrg == {acme}
TwoHandlers == {h1, h2}
ThreeCheckouts == {k1, k2, k3}
Amounts == {0, 2, 4}
NothingYet == [o \in TwoOrgs |-> 0]
Payers == (k1 :> acme) @@ (k2 :> globex) @@ (k3 :> acme)
Prices == (k1 :> 2) @@ (k2 :> 4) @@ (k3 :> 4)
Tiers == {"free", "pro"}
AGuest == {k3}

Symmetry == Permutations(TwoHandlers)
============================================================================
