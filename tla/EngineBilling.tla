--------------------------- MODULE EngineBilling ---------------------------
(***************************************************************************)
(* The money side of MemzentEngine.Process (internal/engine/engine.go):    *)
(* the pre-check of a request against the balance and the spend caps of    *)
(* its organisation, one database read after the other, and the charge     *)
(* that a goroutine of its own makes after the answer.  Deduct and TopUp   *)
(* are the atomic steps of Account, which BillingLedger implements.        *)
(***************************************************************************)
EXTENDS Spending, FiniteSetsExt

CONSTANT MaxBalance     \* bound: no credit above this balance

VARIABLES caps,    \* caps[o]: the four spend cap columns of o's row
          today    \* CURRENT_DATE

vars == <<balance, booked, spent, spentIn, caps, today, req, charge, fence,
          purse>>

Auth == {"apikey", "jwt"}

Idle == [pc |-> "idle"]
NoCharge == [pc |-> "none"]

Init ==
  /\ AccountInit
  /\ spent = [o \in Org |-> [d \in Day |-> 0]]
  /\ spentIn = [o \in Org |-> [m \in Month |-> 0]]
  /\ caps \in [Org -> CapSets]
  /\ today = 0
  /\ req = [r \in Request |-> Idle]
  /\ charge = [r \in Request |-> NoCharge]
  /\ fence = [r \in Request |-> {}]
  /\ purse = [r \in Request |-> 0]
----------------------------------------------------------------------------
(* The two sums of CheckSpendLimits, and the tokens: no INSERT of ledger.go
   names tokens_used, so every row has the column's default. *)
DaySpend(o) == spent[o][today]
MonthSpend(o) == spentIn[o][MonthOf(today)]
TokensBooked == 0

Reached(sum, cap) == cap # NoCap /\ sum >= cap

(* What answers already given add to the ledger once charged, and the tokens
   (one unit each) of those charged today: not read by the code, only by
   fence. *)
Outstanding(o) == MapThenSumSet(LAMBDA r : Stored(charge[r].amount),
  {r \in Request : charge[r].pc \in {"queued", "begun"} /\ req[r].org = o})
TokensToday(o) == Cardinality(
  {r \in Request : charge[r].pc = "paid" /\ charge[r].day = today
                   /\ req[r].org = o /\ req[r].tokens})

Grounds(o) ==
     (IF balance[o] <= 0 THEN {"balance"} ELSE {})
\cup (IF Reached(DaySpend(o), caps[o].day) THEN {"day"} ELSE {})
\cup (IF Reached(MonthSpend(o), caps[o].month) THEN {"month"} ELSE {})
\cup (IF Reached(DaySpend(o) + Outstanding(o), caps[o].day) THEN {"due"} ELSE {})
\cup (IF Reached(TokensToday(o), caps[o].dayTokens) THEN {"tokens"} ELSE {})

(* Grounds that no longer stand, for requests of organisation o. *)
Lift(o, grounds) ==
  fence' = [r \in Request |-> IF req[r].pc # "idle" /\ req[r].org = o
                              THEN fence[r] \ grounds ELSE fence[r]]

CapGrounds == {"day", "month", "due", "tokens"}

Goto(r, pc) == req' = [req EXCEPT ![r].pc = pc]
----------------------------------------------------------------------------
(* A request reaches Process with the organisation and the authentication
   method the middleware put in its context. *)
Arrive(r) ==
  /\ req[r].pc = "idle"
  /\ \E o \in Org, auth \in Auth :
       /\ req' = [req EXCEPT ![r] = [pc |-> "arrived", org |-> o, auth |-> auth]]
       /\ fence' = [fence EXCEPT ![r] = Grounds(o)]
  /\ UNCHANGED <<balance, booked, spent, spentIn, caps, today, charge, purse>>

(* GetOrgSettings; a failure is remembered, not returned. *)
FetchSettings(r) ==
  /\ req[r].pc = "arrived"
  /\ \E funds \in {"unknown", IF balance[req[r].org] > 0 THEN "some" ELSE "none"} :
       req' = [req EXCEPT ![r] = [pc |-> "fetched", org |-> @.org, auth |-> @.auth,
                                  funds |-> funds]]
  /\ purse' = [purse EXCEPT ![r] = balance[req[r].org] + Paid(req[r].org)]
  /\ UNCHANGED <<balance, booked, spent, spentIn, caps, today, charge, fence>>

(* The rate limits and the viewer check, which need no money. *)
RefuseEarly(r) ==
  /\ req[r].pc = "fetched"
  /\ Goto(r, "rejected")
  /\ UNCHANGED <<balance, booked, spent, spentIn, caps, today, charge, fence, purse>>

PreCheckUnfunded(r) ==           \* mutant: an empty balance is let through
  /\ req[r].pc = "fetched"
  /\ Goto(r, IF req[r].auth = "jwt" THEN "admitted"
             ELSE IF req[r].funds # "unknown" THEN "caps" ELSE "rejected")
  /\ UNCHANGED <<balance, booked, spent, spentIn, caps, today, charge, fence, purse>>

(* A.1: dashboard sessions bypass the pre-check; others need known funds. *)
PreCheck(r) ==
  /\ req[r].pc = "fetched"
  /\ Goto(r, IF req[r].auth = "jwt" THEN "admitted"
             ELSE IF req[r].funds = "some" THEN "caps" ELSE "rejected")
  /\ UNCHANGED <<balance, booked, spent, spentIn, caps, today, charge, fence, purse>>

(* CheckSpendLimits reads the caps.  An error, or no cap at all, lets the
   request through. *)
ReadCaps(r) ==
  /\ req[r].pc = "caps"
  /\ LET c == caps[req[r].org]
     IN \/ /\ c = [f \in DOMAIN c |-> NoCap]
           /\ Goto(r, "admitted")
           /\ UNCHANGED fence
        \/ /\ c # [f \in DOMAIN c |-> NoCap]
           /\ req' = [req EXCEPT ![r] = [pc |-> "daysum", org |-> @.org,
                                         auth |-> @.auth, caps |-> c]]
           /\ UNCHANGED fence
        \/ /\ Goto(r, "admitted")
           /\ fence' = [fence EXCEPT ![r] = @ \ CapGrounds]
  /\ UNCHANGED <<balance, booked, spent, spentIn, caps, today, charge, purse>>

(* It sums today's debits; the error of the query is dropped and the sum
   stays 0. *)
SumDay(r) ==
  /\ req[r].pc = "daysum"
  /\ \/ /\ req' = [req EXCEPT ![r] = [pc |-> "monthsum", org |-> @.org, auth |-> @.auth,
                                      caps |-> @.caps, daySpend |-> DaySpend(@.org)]]
        /\ UNCHANGED fence
     \/ /\ req' = [req EXCEPT ![r] = [pc |-> "monthsum", org |-> @.org, auth |-> @.auth,
                                      caps |-> @.caps, daySpend |-> 0]]
        /\ fence' = [fence EXCEPT ![r] = @ \ {"day", "due"}]
  /\ UNCHANGED <<balance, booked, spent, spentIn, caps, today, charge, purse>>

(* It sums this month's, with the same reading of errors, and compares. *)
Verdict(r, monthSpend) ==
  LET c == req[r].caps
  IN IF \/ Reached(req[r].daySpend, c.day) \/ Reached(monthSpend, c.month)
        \/ Reached(TokensBooked, c.dayTokens) \/ Reached(TokensBooked, c.monthTokens)
     THEN "rejected" ELSE "admitted"

SumMonth(r) ==
  /\ req[r].pc = "monthsum"
  /\ \/ /\ Goto(r, Verdict(r, MonthSpend(req[r].org)))
        /\ UNCHANGED fence
     \/ /\ Goto(r, Verdict(r, 0))
        /\ fence' = [fence EXCEPT ![r] = @ \ {"month"}]
  /\ UNCHANGED <<balance, booked, spent, spentIn, caps, today, charge, purse>>

(* An answer, and the goroutine that will charge for it unless it is free. *)
Answer(r, cost, tokens) ==
  /\ req' = [req EXCEPT ![r] = [pc |-> "served", org |-> @.org, auth |-> @.auth,
                                tokens |-> tokens]]
  /\ charge' = [charge EXCEPT ![r] =
                  IF cost > 0 THEN [pc |-> "queued", amount |-> cost] ELSE NoCharge]

(* A cache layer answers: chargeCacheHit. *)
ServeCached(r) ==
  /\ req[r].pc = "admitted"
  /\ Answer(r, CacheCost, FALSE)
  /\ UNCHANGED <<balance, booked, spent, spentIn, caps, today, fence, purse>>

(* The provider answers, and its price is known only now; or it fails, and
   nothing is charged. *)
Generate(r) ==
  /\ req[r].pc = "admitted"
  /\ \/ \E cost \in LLMCost : Answer(r, cost, TRUE)
     \/ Goto(r, "failed") /\ UNCHANGED charge
  /\ UNCHANGED <<balance, booked, spent, spentIn, caps, today, fence, purse>>

(* The charging goroutine opens its transaction: now() is fixed, and with it
   the day the row will count for. *)
BeginCharge(r) ==
  /\ charge[r].pc = "queued"
  /\ charge' = [charge EXCEPT ![r] = [pc |-> "begun", amount |-> @.amount, day |-> today]]
  /\ UNCHANGED <<balance, booked, spent, spentIn, caps, today, req, fence, purse>>

(* Mutants of the charge, for the mutation runs only: one made again after it
   succeeded, one tried again for ever, one that an equal balance refuses. *)
CommitChargeAgain(r) ==
  /\ charge[r].pc = "begun"
  /\ Debit(req[r].org, charge[r].amount)
  /\ spent' = [spent EXCEPT ![req[r].org][charge[r].day] = @ + Stored(charge[r].amount)]
  /\ spentIn' = [spentIn EXCEPT ![req[r].org][MonthOf(charge[r].day)] =
                                    @ + Stored(charge[r].amount)]
  /\ UNCHANGED <<caps, today, req, charge, fence, purse>>

ShortChargeRetried(r) ==
  /\ charge[r].pc = "begun"
  /\ ~Covers(balance[req[r].org], charge[r].amount)
  /\ charge' = [charge EXCEPT ![r] = [pc |-> "queued", amount |-> @.amount]]
  /\ UNCHANGED <<balance, booked, spent, spentIn, caps, today, req, fence, purse>>

ShortChargeAtEqual(r) ==
  /\ charge[r].pc = "begun"
  /\ 2 * balance[req[r].org] <= charge[r].amount
  /\ charge' = [charge EXCEPT ![r].pc = "short"]
  /\ UNCHANGED <<balance, booked, spent, spentIn, caps, today, req, fence, purse>>

CommitCharge(r) ==
  /\ charge[r].pc = "begun"
  /\ Debit(req[r].org, charge[r].amount)
  /\ spent' = [spent EXCEPT ![req[r].org][charge[r].day] = @ + Stored(charge[r].amount)]
  /\ spentIn' = [spentIn EXCEPT ![req[r].org][MonthOf(charge[r].day)] =
                                    @ + Stored(charge[r].amount)]
  /\ charge' = [charge EXCEPT ![r].pc = "paid"]
  /\ UNCHANGED <<caps, today, req, fence, purse>>

(* ErrInsufficientBalance is logged; the answer is already out. *)
ShortCharge(r) ==
  /\ charge[r].pc = "begun"
  /\ ~Covers(balance[req[r].org], charge[r].amount)
  /\ charge' = [charge EXCEPT ![r].pc = "short"]
  /\ UNCHANGED <<balance, booked, spent, spentIn, caps, today, req, fence, purse>>

(* So is any other error; nobody tries again. *)
FailCharge(r) ==
  /\ charge[r].pc \in {"queued", "begun"}
  /\ charge' = [charge EXCEPT ![r].pc = "failed"]
  /\ UNCHANGED <<balance, booked, spent, spentIn, caps, today, req, fence, purse>>
----------------------------------------------------------------------------
TopUp(o) ==
  /\ \E amount \in TopUpAmount :
       balance[o] + Stored(amount) <= MaxBalance /\ Credit(o, amount)
  /\ Lift(o, {"balance"})
  /\ UNCHANGED <<spent, spentIn, caps, today, req, charge, purse>>

SetSpendLimits(o) ==
  /\ \E c \in CapSets \ {caps[o]} : caps' = [caps EXCEPT ![o] = c]
  /\ Lift(o, CapGrounds)
  /\ UNCHANGED <<balance, booked, spent, spentIn, today, req, charge, purse>>

(* Midnight, and at the end of a month the first of the next. *)
NextDay ==
  /\ today < LastDay
  /\ today' = today + 1
  /\ fence' = [r \in Request |-> fence[r] \
                 (IF MonthOf(today') = MonthOf(today) THEN CapGrounds \ {"month"}
                                                      ELSE CapGrounds)]
  /\ UNCHANGED <<balance, booked, spent, spentIn, caps, req, charge, purse>>

(* The gateway dies with its requests and goroutines. *)
Responded == {"served", "rejected", "failed", "lost"}
Settled   == {"none", "paid", "short", "failed", "lost"}

Crash ==
  /\ req' = [r \in Request |->
               IF req[r].pc \in Responded \cup {"idle"} THEN req[r]
               ELSE [req[r] EXCEPT !.pc = "lost"]]
  /\ charge' = [r \in Request |->
                  IF charge[r].pc \in Settled THEN charge[r]
                  ELSE [charge[r] EXCEPT !.pc = "lost"]]
  /\ <<req', charge'>> # <<req, charge>>
  /\ UNCHANGED <<balance, booked, spent, spentIn, caps, today, fence, purse>>

Handle(r) ==
  \/ FetchSettings(r) \/ RefuseEarly(r) \/ PreCheck(r)
  \/ ReadCaps(r) \/ SumDay(r) \/ SumMonth(r)
  \/ ServeCached(r) \/ Generate(r)

ChargeFor(r) == BeginCharge(r) \/ CommitCharge(r) \/ ShortCharge(r)

Next ==
  \/ \E r \in Request : Arrive(r) \/ Handle(r) \/ ChargeFor(r) \/ FailCharge(r)
  \/ \E o \in Org : TopUp(o) \/ SetSpendLimits(o)
  \/ NextDay
  \/ Crash

(* The Go scheduler runs every goroutine and the database answers it; that
   it ever answers with an error is not assumed. *)
Spec == Init /\ [][Next]_vars /\ \A r \in Request : WF_vars(ChargeFor(r))
----------------------------------------------------------------------------
TypeOK ==
  /\ balance \in [Org -> Int] /\ booked \in [Org -> Int]
  /\ spent \in [Org -> [Day -> Nat]] /\ spentIn \in [Org -> [Month -> Nat]]
  /\ caps \in [Org -> CapSets]
  /\ today \in Day
  /\ \A r \in Request :
       /\ req[r].pc \in {"idle", "arrived", "fetched", "caps", "daysum", "monthsum",
                         "admitted"} \cup Responded
       /\ charge[r].pc \in {"queued", "begun"} \cup Settled
       /\ fence[r] \subseteq {"balance"} \cup CapGrounds
       /\ purse[r] \in Int

(* Every answer given is at last charged, or its charge given up. *)
AnswersSettle ==
  \A r \in Request : charge[r].pc = "queued" ~> charge[r].pc \in Settled

(* dashboard/src/app/docs/spend-limits/page.tsx:88: "The engine blocks
   requests the moment a cap is exceeded." *)
BlocksAtDollarCap ==
  \A r \in Request :
    req[r].pc = "served" /\ req[r].auth = "apikey" => "due" \notin fence[r]

(* page.tsx:142: "Daily and monthly token consumption must be under" the
   caps; page.tsx:268 shows the message of the refusal. *)
BlocksAtTokenCap ==
  \A r \in Request :
    req[r].pc = "served" /\ req[r].auth = "apikey" => "tokens" \notin fence[r]

(* ledger.go:216-218: ErrInsufficientBalance "guards against concurrent
   requests double-spending the same balance": what requests of API keys are
   answered never costs more than what was ever paid in. *)
PaidIn(o) == booked[o] + SumFunctionOnSet(spent[o], Day)

NoDoubleSpend ==
  \A o \in Org :
    MapThenSumSet(LAMBDA r : Stored(charge[r].amount),
      {r \in Request : charge[r].pc # "none" /\ req[r].org = o
                       /\ req[r].auth = "apikey"}) <= PaidIn(o)
============================================================================
