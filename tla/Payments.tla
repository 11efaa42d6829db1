------------------------------ MODULE Payments ------------------------------
(***************************************************************************)
(* Payments by Stripe: the events it delivers to the gateway, and what is  *)
(* kept of their deliveries and of the credits made for them.  What must   *)
(* hold of these is stated here; StripeWebhook says how they change.       *)
(***************************************************************************)
EXTENDS Account, FiniteSets, Functions

CONSTANTS Handler,      \* concurrent HTTP handlers
          Checkout,     \* paid top-up sessions
          OrgOf,        \* OrgOf[k]: metadata org_id of checkout k
          Price,        \* Price[k]: its amount
          Guest,        \* checkouts whose session names no customer
          Tier,         \* subscription tiers, "free" among them
          Linked,       \* organisations whose row holds a stripe_customer_id
          MaxChanges,   \* bound: subscription changes per organisation
          MaxAttempts   \* Stripe gives up on an event after so many deliveries

(* The n-th change of o's subscription: created and updated carry the plan,
   deleted ends it. *)
Change == [org : Org, n : 1..MaxChanges]
Event == Checkout \cup Change

ASSUME CheckoutAssumption ==
  /\ OrgOf \in [Checkout -> Org] /\ Price \in [Checkout -> Amount]
  /\ Guest \subseteq Checkout
  /\ "free" \in Tier /\ Linked \subseteq Org
  /\ Checkout \cap Change = {}
ASSUME DeliveryAssumption ==
  IsFiniteSet(Handler) /\ IsFiniteSet(Checkout) /\ MaxAttempts \in Nat

VARIABLES attempts,  \* attempts[e]: deliveries of event e so far
          acked,     \* events Stripe saw a 2xx for
          credits    \* history: credits[k]: TopUps committed for checkout k

(* What the checkouts of an organisation have added to its balance. *)
Credited(o) ==
  SumFunctionOnSet([k \in Checkout |-> credits[k] * Stored(Price[k])],
                   {k \in Checkout : OrgOf[k] = o})
----------------------------------------------------------------------------
(* A checkout credits its organisation at most once per delivery, and nothing
   else credits anybody. *)
CreditsAccounted ==
  /\ \A k \in Checkout : credits[k] <= attempts[k]
  /\ \A o \in Org : booked[o] = Opening[o] + Credited(o)
============================================================================
