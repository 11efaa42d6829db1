------------------------------ MODULE Account ------------------------------
(***************************************************************************)
(* What internal/billing/ledger.go promises its callers: every debit and   *)
(* every credit of an organisation happens at once or not at all, is       *)
(* booked in the ledger in the same instant, and a debit never takes more  *)
(* than the organisation has.  BillingLedger implements it with database   *)
(* transactions; EngineBilling and StripeWebhook are built on it.          *)
(*                                                                         *)
(* Money.  Balances and ledger rows are NUMERIC(15,6): whole micro-        *)
(* dollars.  The amounts the Go code passes are not (a price per million   *)
(* tokens times a token count), so an amount is counted here in half       *)
(* micro-dollars, the coarsest unit that still has the ties PostgreSQL     *)
(* rounds away from zero when it stores a value.                           *)
(***************************************************************************)
EXTENDS Integers

CONSTANTS Org,      \* the rows of table organizations
          Amount,   \* the amounts callers name, in half micros
          Opening   \* organizations.token_balance at the start, in micros

VARIABLES balance,  \* balance[o]: organizations.token_balance
          booked    \* booked[o]: SUM(amount) of the rows of billing_ledger

accountVars == <<balance, booked>>

ASSUME AmountAssumption == Amount \subseteq Nat
ASSUME OpeningAssumption == Opening \in [Org -> Nat]

StoredTruncated(amount) == amount \div 2   \* mutant: storing truncates

(* The micros a non-negative amount is stored as: NUMERIC(15,6) rounds half
   away from zero. *)
Stored(amount) == (amount + 1) \div 2

(* The micros left when an amount is subtracted from a stored balance: the
   difference is what gets rounded, so the tie goes the other way. *)
Left(micros, amount) == Stored(2 * micros - amount)

(* The condition of Deduct's UPDATE, COALESCE(token_balance, 0) >= amount. *)
Covers(micros, amount) == 2 * micros >= amount

(* migration 016 books the balance an organisation starts with as a grant *)
AccountInit ==
  /\ balance = Opening
  /\ booked = Opening

(* A committed Deduct. *)
Debit(o, amount) ==
  /\ Covers(balance[o], amount)
  /\ balance' = [balance EXCEPT ![o] = Left(@, amount)]
  /\ booked' = [booked EXCEPT ![o] = @ - Stored(amount)]

(* A committed TopUp. *)
Credit(o, amount) ==
  /\ balance' = [balance EXCEPT ![o] = @ + Stored(amount)]
  /\ booked' = [booked EXCEPT ![o] = @ + Stored(amount)]

AccountNext == \E o \in Org, amount \in Amount : Debit(o, amount) \/ Credit(o, amount)

AccountSpec == AccountInit /\ [][AccountNext]_accountVars
============================================================================
