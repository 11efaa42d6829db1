--------------------------- MODULE BillingLedger ---------------------------
(***************************************************************************)
(* Ledger.Deduct and Ledger.TopUp of internal/billing/ledger.go as the     *)
(* database runs them: concurrent transactions of an UPDATE of the row of  *)
(* organizations, which locks it, an INSERT into billing_ledger, and a     *)
(* COMMIT, any of which may fail, in a gateway that may crash.  A balance  *)
(* is visible to others only once committed.                               *)
(***************************************************************************)
EXTENDS Account, FiniteSets

CONSTANTS Call,     \* invocations of Deduct and TopUp
          Unknown,  \* an id that is no row of organizations
          Default,  \* the ids the ledger skips: "default" and ""
          Nobody    \* holder of a row lock nobody holds

VARIABLES call,     \* call[c]: the invocation and how far it is
          lock      \* lock[o]: the call whose transaction locked o's row

vars == <<balance, booked, call, lock>>

ASSUME NamesAssumption ==
  /\ Unknown \notin Org
  /\ Default \notin Org
  /\ Nobody \notin Call
ASSUME CallAssumption == IsFiniteSet(Call)

Named == Org \cup {Unknown, Default}

Running  == {"begun", "updated", "inserted"}
Returned == {"ok", "insufficient", "failed", "lost"}

CallType == [pc : {"idle"} \cup Running \cup Returned,
             kind : {"deduct", "topup"}, org : Named, amount : Amount]

Init ==
  /\ AccountInit
  /\ call \in [Call -> {r \in CallType : r.pc = "idle"}]
  /\ lock = [o \in Org |-> Nobody]

Goto(c, pc) == call' = [call EXCEPT ![c].pc = pc]

Unlock(c) == lock' = [o \in Org |-> IF lock[o] = c THEN Nobody ELSE lock[o]]

(* The early returns: a zero deduction and the system organisation touch
   nothing.  TopUp does not test its amount. *)
Skipped(r) == r.org = Default \/ (r.kind = "deduct" /\ r.amount = 0)

(* The caller enters Deduct or TopUp: return at once or BeginTx. *)
Begin(c) ==
  /\ call[c].pc = "idle"
  /\ Goto(c, IF Skipped(call[c]) THEN "ok" ELSE "begun")
  /\ UNCHANGED <<balance, booked, lock>>

(* Mutants of the transactions, for the mutation runs only. *)
UpdateDeductUnchecked(c) ==           \* a plain UPDATE, without the condition
  /\ call[c].pc = "begun" /\ call[c].kind = "deduct"
  /\ \E o \in Org : o = call[c].org /\ lock[o] = Nobody /\ lock' = [lock EXCEPT ![o] = c]
  /\ Goto(c, "updated")
  /\ UNCHANGED <<balance, booked>>

UpdateTopUpAutocommit(c) ==           \* the UPDATE outside the transaction
  /\ call[c].pc = "begun" /\ call[c].kind = "topup"
  /\ \A o \in Org : o = call[c].org => lock[o] = Nobody
  /\ lock' = [o \in Org |-> IF o = call[c].org THEN c ELSE lock[o]]
  /\ balance' = [o \in Org |-> IF o = call[c].org
                               THEN balance[o] + Stored(call[c].amount) ELSE balance[o]]
  /\ Goto(c, "updated")
  /\ UNCHANGED booked

FailHoldingLock(c) ==                 \* no deferred Rollback
  /\ call[c].pc \in Running
  /\ Goto(c, "failed")
  /\ UNCHANGED <<balance, booked, lock>>

(* Deduct's conditional UPDATE matches and locks the row. *)
UpdateDeduct(c) ==
  /\ call[c].pc = "begun" /\ call[c].kind = "deduct"
  /\ \E o \in Org :
       /\ o = call[c].org
       /\ lock[o] = Nobody
       /\ Covers(balance[o], call[c].amount)
       /\ lock' = [lock EXCEPT ![o] = c]
  /\ Goto(c, "updated")
  /\ UNCHANGED <<balance, booked>>

(* It matches no row: ErrInsufficientBalance and the deferred Rollback.  Only
   a row that matches is waited for, so this is decided by the committed
   balance, whoever has the lock. *)
Insufficient(c) ==
  /\ call[c].pc = "begun" /\ call[c].kind = "deduct"
  /\ \A o \in Org : o = call[c].org => ~Covers(balance[o], call[c].amount)
  /\ Goto(c, "insufficient")
  /\ UNCHANGED <<balance, booked, lock>>

(* TopUp's UPDATE is unconditional and its row count is not looked at. *)
UpdateTopUp(c) ==
  /\ call[c].pc = "begun" /\ call[c].kind = "topup"
  /\ \A o \in Org : o = call[c].org => lock[o] = Nobody
  /\ lock' = [o \in Org |-> IF o = call[c].org THEN c ELSE lock[o]]
  /\ Goto(c, "updated")
  /\ UNCHANGED <<balance, booked>>

(* The INSERT; its foreign key refuses an organisation that does not exist. *)
Insert(c) ==
  /\ call[c].pc = "updated"
  /\ \/ call[c].org \in Org /\ Goto(c, "inserted") /\ UNCHANGED lock
     \/ call[c].org \notin Org /\ Goto(c, "failed") /\ Unlock(c)
  /\ UNCHANGED <<balance, booked>>

(* COMMIT: the new balance is the one the UPDATE computed from the locked
   row.  The acknowledgement may be lost, and the caller told of an error. *)
Commit(c) ==
  /\ call[c].pc = "inserted"
  /\ \E o \in Org :
       /\ o = call[c].org
       /\ \/ /\ call[c].kind = "deduct"
             /\ balance' = [balance EXCEPT ![o] = Left(@, call[c].amount)]
             /\ booked' = [booked EXCEPT ![o] = @ - Stored(call[c].amount)]
          \/ /\ call[c].kind = "topup"
             /\ Credit(o, call[c].amount)
  /\ \E answer \in {"ok", "failed"} : Goto(c, answer)
  /\ Unlock(c)

(* A statement, or the COMMIT itself, fails: the deferred Rollback undoes
   everything and releases the row. *)
Fail(c) ==
  /\ call[c].pc \in Running
  /\ Goto(c, "failed")
  /\ Unlock(c)
  /\ UNCHANGED <<balance, booked>>

(* The gateway dies: its goroutines are gone and the database rolls their
   transactions back. *)
Crash ==
  /\ \E c \in Call : call[c].pc \in Running
  /\ call' = [c \in Call |-> IF call[c].pc \in Running
                             THEN [call[c] EXCEPT !.pc = "lost"] ELSE call[c]]
  /\ lock' = [o \in Org |-> Nobody]
  /\ UNCHANGED <<balance, booked>>

Execute(c) ==
  UpdateDeduct(c) \/ Insufficient(c) \/ UpdateTopUp(c) \/ Insert(c) \/ Commit(c)

Next == Crash \/ \E c \in Call : Begin(c) \/ Execute(c) \/ Fail(c)

(* A transaction that can go on does: PostgreSQL wakes the waiters of a row
   lock, and no transaction here holds one while it waits for another.  That
   a caller ever comes is not assumed, nor that a statement ever fails. *)
Spec == Init /\ [][Next]_vars /\ \A c \in Call : WF_vars(Execute(c))
----------------------------------------------------------------------------
TypeOK ==
  /\ balance \in [Org -> Int]
  /\ booked \in [Org -> Int]
  /\ call \in [Call -> CallType]
  /\ lock \in [Org -> Call \cup {Nobody}]

(* A row is locked by exactly the transaction that is past its UPDATE of it:
   no two transactions compute a balance from the same committed one. *)
RowLocked ==
  \A c \in Call, o \in Org :
    lock[o] = c <=> call[c].pc \in {"updated", "inserted"} /\ call[c].org = o

(* The balance a Deduct tested is still there when it commits: no concurrent
   deduction spends it in between (ledger.go:216-224). *)
CoveredUntilCommit ==
  \A c \in Call, o \in Org :
    lock[o] = c /\ call[c].kind = "deduct" => Covers(balance[o], call[c].amount)

(* ledger.go:222-224: concurrent deductions cannot race each other into a
   negative balance. *)
NoOverdraft == \A o \in Org : balance[o] >= 0

(* Money may only appear in the books, never disappear from them: the ledger
   sum never exceeds the balance, and falls behind it only by the rounding of
   deductions whose amount is not a whole number of micros, one micro each. *)
Deducted(o) == {c \in Call : /\ call[c].org = o /\ call[c].kind = "deduct"
                             /\ call[c].amount % 2 = 1
                             /\ call[c].pc \in {"ok", "failed"}}

BooksAgree ==
  \A o \in Org : booked[o] <= balance[o] /\ balance[o] - booked[o] <= Cardinality(Deducted(o))

(* The account that the committed state stands for: locks and the progress of
   transactions are hidden. *)
Atomic == INSTANCE Account WITH balance <- balance, booked <- booked

(* The transactions implement the account: every step is one whole debit or
   credit of the committed state, or changes nothing anyone can see. *)
ImplementsAccount == Atomic!AccountSpec

(* No call waits for a row lock for ever. *)
CallsReturn == \A c \in Call : call[c].pc = "begun" ~> call[c].pc \in Returned
============================================================================
