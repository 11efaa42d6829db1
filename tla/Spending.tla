------------------------------ MODULE Spending ------------------------------
(***************************************************************************)
(* What the gateway spends of its organisations' money: requests, the      *)
(* charges for their answers, the sums of the ledger and the caps set on   *)
(* them.  What must hold of these is stated here; EngineBilling says how   *)
(* they change.                                                            *)
(*                                                                         *)
(* billing_ledger is kept as the sums the code asks for: what the negative *)
(* rows of each day and of each month add up to.  Org holds billed         *)
(* organisations only; the ledger skips the others (BillingLedger,         *)
(* Default).                                                               *)
(***************************************************************************)
EXTENDS Account, FiniteSets, Functions

CONSTANTS Request,       \* requests, each served at most once
          CacheCost,     \* what a cache hit is charged
          LLMCost,       \* what a generation may be charged
          TopUpAmount,   \* credits applied from outside
          CapSets,       \* the values SetSpendLimits may store
          NoCap,         \* SQL NULL in a cap column
          LastDay,       \* bound: days 0..LastDay
          DaysPerMonth

ASSUME CostAssumption ==
  /\ CacheCost \in Nat /\ LLMCost \subseteq Nat /\ TopUpAmount \subseteq Nat
  /\ {CacheCost} \cup LLMCost \cup TopUpAmount \subseteq Amount
ASSUME DateAssumption == LastDay \in Nat /\ DaysPerMonth \in Nat \ {0}
ASSUME CapAssumption ==
  /\ NoCap \notin Int
  /\ \A c \in CapSets :
       /\ DOMAIN c = {"day", "month", "dayTokens", "monthTokens"}
       /\ \A f \in DOMAIN c : c[f] \in Int \cup {NoCap}
ASSUME RequestAssumption == IsFiniteSet(Request)

VARIABLES spent,   \* spent[o][d]: ABS(SUM(amount)) of o's debits on day d
          spentIn, \* spentIn[o][m]: the same for month m
          req,     \* req[r]: the request in Process
          charge,  \* charge[r]: the goroutine that deducts its price
          fence,   \* history: grounds to block r standing since it arrived
          purse    \* history: the balance r's pre-check read, and what answers
                   \* had paid by then

MonthOf(d) == d \div DaysPerMonth
Day == 0..LastDay
Month == 0..MonthOf(LastDay)

Through == {"admitted", "served", "failed"}

(* What o has paid for the answer to r, and for all its answers. *)
Share(o, r) ==
  IF charge[r].pc = "paid" /\ req[r].org = o /\ req[r].pc = "served"
  THEN Stored(charge[r].amount) ELSE 0
Paid(o) == SumFunctionOnSet([r \in Request |-> Share(o, r)], Request)
----------------------------------------------------------------------------
(* engine.go:470-500: a request of an API key that arrives when the balance
   is gone or a dollar cap is reached does not get through, whatever else
   commits between the reads of its pre-check, unless that ground is lifted
   meanwhile or the query that would have seen it fails. *)
GroundsStop ==
  \A r \in Request :
    /\ req[r].pc \in Through /\ req[r].auth = "apikey"
    => fence[r] \cap {"balance", "day", "month"} = {}

(* Every micro the ledger counts as spent was deducted for one answer: no
   answer is charged twice, none is charged that was not given. *)
SpendIsPaid ==
  \A o \in Org : /\ SumFunctionOnSet(spent[o], Day) = Paid(o)
                 /\ SumFunctionOnSet(spentIn[o], Month) = Paid(o)

(* engine.go:476, 1124, 1245: the balance is read long before the price is
   deducted.  An answer goes unpaid only when the others have been quicker:
   with what answers paid since its balance was read, it costs more than that
   balance was, whatever was charged, credited or lost in between. *)
UnpaidWereOvertaken ==
  \A r \in Request :
    charge[r].pc = "short" =>
      ~Covers(purse[r] - Paid(req[r].org), charge[r].amount)
============================================================================
