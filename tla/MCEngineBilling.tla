-------------------------- MODULE MCEngineBilling --------------------------
(* Small instances of EngineBilling: one or two organisations with little
   money, two requests, two days that end a month or not, and few caps. *)
EXTENDS EngineBilling, TLC

CONSTANTS acme, globex, r1, r2, r3

Caps(day, month, tokens) ==
  [day |-> day, month |-> month, dayTokens |-> tokens, monthTokens |-> NoCap]

OneOrg == {acme}
TwoOrgs == {acme, globex}
TwoRequests == {r1, r2}
Amounts == 0..4
OpeningTwo == acme :> 2
OpeningTwoAndNone == (acme :> 2) @@ (globex :> 0)
LLMCosts == {4}
TopUps == {2}
DollarCaps == {Caps(NoCap, NoCap, NoCap), Caps(2, NoCap, NoCap), Caps(NoCap, 2, NoCap)}
DayCapOne == {Caps(1, NoCap, NoCap)}
TokenCapOne == {Caps(NoCap, NoCap, 1)}
============================================================================
