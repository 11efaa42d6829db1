-------------------------- MODULE MCBillingLedger --------------------------
(* A small instance of BillingLedger: one organisation that can afford some
   of the amounts and one that has nothing, and three concurrent calls. *)
EXTENDS BillingLedger, TLC

CONSTANTS rich, poor, c1, c2, c3

MCOrg == {rich, poor}
MCCall == {c1, c2, c3}
MCAmount == {1, 2}
MCOpening == (rich :> 2) @@ (poor :> 0)
============================================================================
