------------------------------- MODULE MCJWKS -------------------------------
(* A small instance of JWKS. *)
EXTENDS JWKS

OneSeed ==
  [k \in Kid |-> IF k = "seeded" THEN CHOOSE key \in Key : TRUE ELSE None]
=============================================================================
