--------------------------- MODULE StripeWebhook ---------------------------
(***************************************************************************)
(* StripeHandler of internal/billing/stripe.go: Stripe delivers each event *)
(* at least once and in any order until it sees a 2xx; concurrent handlers *)
(* of POST /v1/webhooks/stripe credit the ledger or set the tier and       *)
(* answer 200.  Events carry a valid signature: others are answered 400    *)
(* before anything happens.                                                *)
(***************************************************************************)
EXTENDS Payments, Sequences

VARIABLES tier,      \* tier[o]: organizations.subscription_tier
          plan,      \* plan[o]: the plans Stripe had o on, oldest first
          handler    \* handler[h]: the event it works on and how far it is

vars == <<balance, booked, tier, plan, attempts, acked, handler, credits>>

Free == [pc |-> "free"]

Init ==
  /\ AccountInit
  /\ tier = [o \in Org |-> "free"]
  /\ plan = [o \in Org |-> <<>>]
  /\ attempts = [e \in Event |-> 0]
  /\ acked = {}
  /\ handler = [h \in Handler |-> Free]
  /\ credits = [k \in Checkout |-> 0]

Emitted == Checkout \cup {e \in Change : e.n \in DOMAIN plan[e.org]}

(* In Stripe: a subscription changes, a delivery is made or made again. *)
ChangePlan(o) ==
  /\ Len(plan[o]) < MaxChanges
  /\ \E t \in Tier : plan' = [plan EXCEPT ![o] = Append(@, t)]
  /\ UNCHANGED <<balance, booked, tier, attempts, acked, handler, credits>>

Deliver(h) ==
  /\ handler[h] = Free
  /\ \E e \in Emitted \ acked :
       /\ attempts[e] < MaxAttempts
       /\ attempts' = [attempts EXCEPT ![e] = @ + 1]
       /\ handler' = [handler EXCEPT ![h] = [pc |-> "received", event |-> e]]
  /\ UNCHANGED <<balance, booked, tier, plan, acked, credits>>

(* The body cannot be read: 503, and Stripe will try again. *)
Unreadable(h) ==
  /\ handler[h].pc = "received"
  /\ handler' = [handler EXCEPT ![h] = Free]
  /\ UNCHANGED <<balance, booked, tier, plan, attempts, acked, credits>>

(* A session without a customer: session.Customer is nil, the log line that
   reads its ID panics, and net/http drops the connection. *)
PanicOnGuest(h) ==
  /\ handler[h].pc = "received" /\ handler[h].event \in Guest
  /\ handler' = [handler EXCEPT ![h] = Free]
  /\ UNCHANGED <<balance, booked, tier, plan, attempts, acked, credits>>

(* The body of the handler, once per delivery: no record is kept of the
   events seen, and an error of the database is logged, not answered. *)
Finish(h) ==
  /\ handler' = [handler EXCEPT ![h].pc = "done"]
  /\ UNCHANGED <<plan, attempts, acked>>

HandleCheckoutRetried(h) ==      \* mutant: TopUp is called again after it succeeded
  /\ handler[h].pc = "received" /\ handler[h].event \in Checkout
  /\ LET k == handler[h].event
     IN Credit(OrgOf[k], Price[k]) /\ credits' = [credits EXCEPT ![k] = @ + 1]
  /\ UNCHANGED <<tier, plan, attempts, acked, handler>>

HandleCheckout(h) ==
  /\ handler[h].pc = "received" /\ handler[h].event \in Checkout \ Guest
  /\ LET k == handler[h].event
     IN \/ /\ Credit(OrgOf[k], Price[k])
           /\ credits' = [credits EXCEPT ![k] = @ + 1]
        \/ UNCHANGED <<balance, booked, credits>>
  /\ Finish(h)
  /\ UNCHANGED tier

HandleSubscription(h) ==
  /\ handler[h].pc = "received" /\ handler[h].event \in Change
  /\ LET e == handler[h].event
     IN tier' \in {tier, IF e.org \in Linked
                         THEN [tier EXCEPT ![e.org] = plan[e.org][e.n]] ELSE tier}
  /\ Finish(h)
  /\ UNCHANGED <<balance, booked, credits>>

(* The 200 reaches Stripe, or is lost on the way. *)
Respond(h) ==
  /\ handler[h].pc = "done"
  /\ acked' \in {acked, acked \cup {handler[h].event}}
  /\ handler' = [handler EXCEPT ![h] = Free]
  /\ UNCHANGED <<balance, booked, tier, plan, attempts, credits>>

(* The gateway dies: no response is sent. *)
Crash ==
  /\ \E h \in Handler : handler[h] # Free
  /\ handler' = [h \in Handler |-> Free]
  /\ UNCHANGED <<balance, booked, tier, plan, attempts, acked, credits>>

Next ==
  \/ \E o \in Org : ChangePlan(o)
  \/ \E h \in Handler : \/ Deliver(h) \/ Unreadable(h) \/ PanicOnGuest(h)
                        \/ HandleCheckout(h) \/ HandleSubscription(h) \/ Respond(h)
  \/ Crash

Spec == Init /\ [][Next]_vars
----------------------------------------------------------------------------
TypeOK ==
  /\ balance \in [Org -> Nat] /\ booked \in [Org -> Nat]
  /\ tier \in [Org -> Tier]
  /\ attempts \in [Event -> 0..MaxAttempts]
  /\ acked \subseteq Event
  /\ credits \in [Checkout -> Nat]
  /\ \A h \in Handler :
       handler[h] = Free \/ (handler[h].pc \in {"received", "done"} /\ handler[h].event \in Event)

(* website/src/App.tsx:280: a top-up adds the amount to the balance. *)
CreditedOnce == \A k \in Checkout : credits[k] <= 1

(* spend-limits-budget-forecasting.md:108: "complete payment, balance updates
   instantly": a payment Stripe is told was processed is in the balance. *)
AckedWereCredited == \A k \in Checkout : k \in acked => credits[k] > 0

(* stripe.go:248: "Persist tier change to organizations table via
   stripe_customer_id mapping": when Stripe has nothing more to say about an
   organisation, its tier is the one it pays for. *)
TierFollowsPlan ==
  \A o \in Org :
    (plan[o] # <<>> /\ \A n \in DOMAIN plan[o] : [org |-> o, n |-> n] \in acked)
      => tier[o] = plan[o][Len(plan[o])]
============================================================================
