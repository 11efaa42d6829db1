--------------------------- MODULE BillingProofs ---------------------------
(***************************************************************************)
(* Money for every set of organisations, calls, requests, payments and     *)
(* amounts: what the transactions of the ledger do to a balance, what      *)
(* Stripe's deliveries add to it, what the engine spends of it.            *)
(***************************************************************************)
EXTENDS BillingLedger, Payments, Spending, Sequences, FiniteSetTheorems, TLAPS

CONSTANT MaxBalance

VARIABLES tier, plan, handler, caps, today

Stripe == INSTANCE StripeWebhook
Engine == INSTANCE EngineBilling

----------------------------------------------------------------------------
(* Sums over finite sets.  There is no induction principle to cite for a    *)
(* property of sets, so each lemma looks at a smallest counterexample.      *)

(* Every set of finite sets has a smallest one. *)
LEMMA Smallest ==
  ASSUME NEW S, IsFiniteSet(S), NEW B, B \subseteq SUBSET S, B # {}
  PROVE  \E T \in B : \A U \in B : ~(U \subseteq T /\ U # T)
<1>1. B \subseteq FiniteSubsetsOf(S)
  BY FS_FiniteSubsetsOfFinite
<1>2. IsWellFoundedOn(StrictSubsetOrdering(S), FiniteSubsetsOf(S))
  BY FS_StrictSubsetOrderingWellFounded
<1>3. PICK T \in B : \A U \in B : <<U, T>> \notin StrictSubsetOrdering(S)
  BY <1>1, <1>2, WFMin
<1>4. QED
  BY <1>3 DEF StrictSubsetOrdering

(* The recursion that a sum stands for, over the subsets of a finite set. *)
First(s) == CHOOSE x \in s : TRUE
IsSum(g, fun, S) ==
  g = [s \in SUBSET S |-> IF s = {} THEN 0 ELSE fun[First(s)] + g[s \ {First(s)}]]

LEMMA FirstIn == ASSUME NEW s, s # {} PROVE First(s) \in s
BY DEF First

LEMMA SumsAgree ==
  ASSUME NEW fun, NEW S, IsFiniteSet(S), NEW T \in SUBSET S, NEW g, NEW h,
         IsSum(g, fun, S), IsSum(h, fun, T), NEW s \in SUBSET T
  PROVE  g[s] = h[s]
<1> DEFINE B == {u \in SUBSET T : g[u] # h[u]}
<1>1. ASSUME B # {} PROVE FALSE
  <2>1. PICK u \in B : \A v \in B : ~(v \subseteq u /\ v # u)
    <3>1. B \subseteq SUBSET S
      OBVIOUS
    <3> HIDE DEF B
    <3>2. QED
      BY <1>1, <3>1, Smallest
  <2>2. u # {} /\ u \in SUBSET S /\ u \in SUBSET T
    BY <2>1 DEF IsSum
  <2>3. First(u) \in u
    BY <2>2, FirstIn
  <2>4. g[u \ {First(u)}] = h[u \ {First(u)}]
    BY <2>1, <2>2, <2>3
  <2>5. QED
    BY <2>1, <2>2, <2>4 DEF IsSum
<1>2. QED
  BY <1>1

LEMMA SumsExist ==
  ASSUME NEW fun, NEW S, IsFiniteSet(S)
  PROVE  \E g : IsSum(g, fun, S)
<1> DEFINE B == {T \in SUBSET S : ~ \E g : IsSum(g, fun, T)}
           W(s) == CHOOSE g : IsSum(g, fun, s)
<1>1. ASSUME B # {} PROVE FALSE
  <2>1. PICK T \in B : \A U \in B : ~(U \subseteq T /\ U # T)
    <3>1. B \subseteq SUBSET S
      OBVIOUS
    <3> HIDE DEF B
    <3>2. QED
      BY <1>1, <3>1, Smallest
  <2>2. \A s \in SUBSET T : s # T => IsSum(W(s), fun, s) /\ IsFiniteSet(s)
    BY <2>1, FS_Subset
  <2> DEFINE below(s) == s \ {First(s)}
             G == [s \in SUBSET T |-> IF s = {} THEN 0
                                      ELSE fun[First(s)] + W(below(s))[below(s)]]
  <2>3. \A s \in SUBSET T : s # T => G[s] = W(s)[s]
    <3>1. SUFFICES ASSUME NEW s \in SUBSET T, s # T PROVE G[s] = W(s)[s]
      OBVIOUS
    <3>2. IsSum(W(s), fun, s) /\ IsFiniteSet(s)
      <4> HIDE DEF W
      <4>1. QED
        BY <2>2, <3>1
    <3>3. CASE s = {}
      BY <3>2, <3>3 DEF IsSum
    <3>4. CASE s # {}
      <4>1. First(s) \in s
        BY <3>4, FirstIn
      <4>2. below(s) \in SUBSET T /\ below(s) # T /\ below(s) \in SUBSET s
        BY <4>1
      <4>3. IsSum(W(below(s)), fun, below(s))
        BY <2>2, <4>2
      <4>4. W(s)[below(s)] = W(below(s))[below(s)]
        <5> HIDE DEF W
        <5>1. QED
          BY <3>2, <4>2, <4>3, SumsAgree
      <4>5. W(s)[s] = fun[First(s)] + W(s)[below(s)]
        BY <3>2, <3>4 DEF IsSum
      <4>6. QED
        BY <3>4, <4>4, <4>5
    <3>5. QED
      BY <3>3, <3>4
  <2>4. ASSUME NEW s \in SUBSET T, s # {}
        PROVE  G[s] = fun[First(s)] + G[below(s)]
    <3>1. below(s) \in SUBSET T /\ below(s) # T
      BY <2>4, FirstIn
    <3>2. QED
      BY <2>3, <2>4, <3>1
  <2>5. IsSum(G, fun, T)
    <3> DEFINE H == [s \in SUBSET T |-> IF s = {} THEN 0 ELSE fun[First(s)] + G[s \ {First(s)}]]
    <3>1. \A s \in SUBSET T : G[s] = H[s]
      <4>1. \A s \in SUBSET T : s = {} => G[s] = 0
        OBVIOUS
      <4> HIDE DEF G
      <4>2. QED
        BY <2>4, <4>1
    <3>2. G = H
      BY <3>1
    <3>3. QED
      BY <3>2 DEF IsSum
  <2>6. QED
    BY <2>1, <2>5
<1>2. QED
  BY <1>1, FS_Subset

LEMMA SumDef ==
  ASSUME NEW fun, NEW S
  PROVE  SumFunctionOnSet(fun, S) = (CHOOSE g : IsSum(g, fun, S))[S]
BY DEF SumFunctionOnSet, FoldFunctionOnSet, MapThenFoldSet, IsSum, First

(* The two equations of a sum. *)
LEMMA SumEmpty ==
  ASSUME NEW fun
  PROVE  SumFunctionOnSet(fun, {}) = 0
<1>1. PICK g : IsSum(g, fun, {})
  BY SumsExist, FS_EmptySet
<1>2. IsSum(CHOOSE h : IsSum(h, fun, {}), fun, {})
  BY <1>1
<1>3. QED
  BY <1>2, SumDef DEF IsSum

LEMMA SumFirst ==
  ASSUME NEW fun, NEW S, IsFiniteSet(S), S # {}
  PROVE  SumFunctionOnSet(fun, S) = fun[First(S)] + SumFunctionOnSet(fun, S \ {First(S)})
<1> DEFINE W(s) == CHOOSE g : IsSum(g, fun, s)
           R == S \ {First(S)}
<1>1. IsFiniteSet(R) /\ First(S) \in S /\ R \in SUBSET S
  BY FS_Subset, FirstIn
<1>2. IsSum(W(S), fun, S) /\ IsSum(W(R), fun, R)
  BY <1>1, SumsExist
<1>3. W(S)[R] = W(R)[R]
  <2> HIDE DEF W, R
  <2>1. QED
    BY <1>1, <1>2, SumsAgree
<1>4. W(S)[S] = fun[First(S)] + W(S)[R]
  BY <1>2 DEF IsSum
<1>5. QED
  BY <1>3, <1>4, SumDef

(* A sum of integers is one. *)
LEMMA SumType ==
  ASSUME NEW S, IsFiniteSet(S), NEW fun, \A s \in S : fun[s] \in Int
  PROVE  SumFunctionOnSet(fun, S) \in Int
<1> DEFINE B == {T \in SUBSET S : SumFunctionOnSet(fun, T) \notin Int}
<1>1. ASSUME B # {} PROVE FALSE
  <2>1. PICK T \in B : \A U \in B : ~(U \subseteq T /\ U # T)
    <3>1. B \subseteq SUBSET S
      OBVIOUS
    <3> HIDE DEF B
    <3>2. QED
      BY <1>1, <3>1, Smallest
  <2>2. T # {} /\ IsFiniteSet(T) /\ T \in SUBSET S
    <3>1. SumFunctionOnSet(fun, {}) \in Int
      BY SumEmpty
    <3>2. QED
      BY <2>1, <3>1, FS_Subset
  <2>3. First(T) \in T /\ fun[First(T)] \in Int
    BY <2>2, FirstIn
  <2> DEFINE R == T \ {First(T)}
  <2>4. R \in SUBSET S /\ R \subseteq T /\ R # T
    BY <2>2, <2>3
  <2>5. SumFunctionOnSet(fun, R) \in Int
    BY <2>1, <2>4
  <2>6. SumFunctionOnSet(fun, T) = fun[First(T)] + SumFunctionOnSet(fun, R)
    BY <2>2, SumFirst
  <2>7. SumFunctionOnSet(fun, T) \in Int
    BY <2>3, <2>5, <2>6
  <2>8. QED
    BY <2>1, <2>7
<1>2. QED
  BY <1>1

(* Any element can be taken out first. *)
LEMMA SumOne ==
  ASSUME NEW S, IsFiniteSet(S), NEW fun, \A s \in S : fun[s] \in Int, NEW x \in S
  PROVE  SumFunctionOnSet(fun, S) = fun[x] + SumFunctionOnSet(fun, S \ {x})
<1> DEFINE F(T) == SumFunctionOnSet(fun, T)
           B == {T \in SUBSET S : \E y \in T : F(T) # fun[y] + F(T \ {y})}
<1>1. ASSUME B # {} PROVE FALSE
  <2>1. PICK T \in B : \A U \in B : ~(U \subseteq T /\ U # T)
    <3>1. B \subseteq SUBSET S
      OBVIOUS
    <3> HIDE DEF B
    <3>2. QED
      BY <1>1, <3>1, Smallest
  <2>2. PICK y \in T : F(T) # fun[y] + F(T \ {y})
    BY <2>1
  <2>3. T \in SUBSET S /\ IsFiniteSet(T) /\ T # {}
    BY <2>1, <2>2, FS_Subset
  <2> DEFINE c == First(T)
  <2>4. c \in T /\ F(T) = fun[c] + F(T \ {c})
    BY <2>3, FirstIn, SumFirst
  <2>5. c # y
    BY <2>2, <2>4
  <2>6. ASSUME NEW a \in T, NEW b \in T, a # b
        PROVE  F(T \ {a}) = fun[b] + F((T \ {a}) \ {b})
    <3>1. T \ {a} \in SUBSET S /\ T \ {a} \subseteq T /\ T \ {a} # T /\ b \in T \ {a}
      BY <2>3, <2>6
    <3>2. T \ {a} \notin B
      BY <2>1, <3>1
    <3> HIDE DEF F
    <3>3. QED
      BY <3>1, <3>2
  <2>7. (T \ {c}) \ {y} = (T \ {y}) \ {c}
    OBVIOUS
  <2>8. F(T \ {c}) = fun[y] + F((T \ {y}) \ {c}) /\ F(T \ {y}) = fun[c] + F((T \ {y}) \ {c})
    BY <2>2, <2>4, <2>5, <2>6, <2>7
  <2>9. F((T \ {y}) \ {c}) \in Int /\ fun[y] \in Int /\ fun[c] \in Int
    <3>1. (T \ {y}) \ {c} \in SUBSET S
      BY <2>3
    <3>2. QED
      BY <2>3, <2>4, <3>1, FS_Subset, SumType
  <2> HIDE DEF F, c
  <2>10. QED
    BY <2>2, <2>4, <2>8, <2>9
<1>2. QED
  BY <1>1

(* Functions that agree have the same sum. *)
LEMMA SumSame ==
  ASSUME NEW S, IsFiniteSet(S), NEW fun, NEW gun, \A s \in S : fun[s] = gun[s]
  PROVE  SumFunctionOnSet(fun, S) = SumFunctionOnSet(gun, S)
<1> DEFINE B == {T \in SUBSET S : SumFunctionOnSet(fun, T) # SumFunctionOnSet(gun, T)}
<1>1. ASSUME B # {} PROVE FALSE
  <2>1. PICK T \in B : \A U \in B : ~(U \subseteq T /\ U # T)
    <3>1. B \subseteq SUBSET S
      OBVIOUS
    <3> HIDE DEF B
    <3>2. QED
      BY <1>1, <3>1, Smallest
  <2>2. T # {} /\ IsFiniteSet(T) /\ T \in SUBSET S
    BY <2>1, SumEmpty, FS_Subset
  <2>3. First(T) \in T /\ fun[First(T)] = gun[First(T)]
    BY <2>2, FirstIn
  <2> DEFINE R == T \ {First(T)}
  <2>4. R \in SUBSET S /\ R \subseteq T /\ R # T
    BY <2>2, <2>3
  <2>5. SumFunctionOnSet(fun, R) = SumFunctionOnSet(gun, R)
    BY <2>1, <2>4
  <2>6. /\ SumFunctionOnSet(fun, T) = fun[First(T)] + SumFunctionOnSet(fun, R)
        /\ SumFunctionOnSet(gun, T) = gun[First(T)] + SumFunctionOnSet(gun, R)
    BY <2>2, SumFirst
  <2>7. QED
    BY <2>1, <2>3, <2>5, <2>6
<1>2. QED
  BY <1>1

(* The sum when one of its terms grows. *)
LEMMA SumAdd ==
  ASSUME NEW S, IsFiniteSet(S), NEW fun, NEW gun, NEW x \in S, NEW n \in Int,
         \A s \in S : fun[s] \in Int,
         \A s \in S : gun[s] = IF s = x THEN fun[s] + n ELSE fun[s]
  PROVE  /\ SumFunctionOnSet(fun, S) \in Int
         /\ SumFunctionOnSet(gun, S) = SumFunctionOnSet(fun, S) + n
<1> DEFINE R == S \ {x}
<1>1. IsFiniteSet(R) /\ R \in SUBSET S
  BY FS_Subset
<1>2. (\A s \in S : gun[s] \in Int) /\ gun[x] = fun[x] + n /\ fun[x] \in Int
  OBVIOUS
<1>3. SumFunctionOnSet(fun, R) = SumFunctionOnSet(gun, R) /\ SumFunctionOnSet(fun, R) \in Int
  BY <1>1, SumSame, SumType
<1>4. SumFunctionOnSet(fun, S) = fun[x] + SumFunctionOnSet(fun, R)
  BY SumOne
<1>5. SumFunctionOnSet(gun, S) = gun[x] + SumFunctionOnSet(gun, R)
  BY <1>2, SumOne
<1>6. QED
  BY <1>2, <1>3, <1>4, <1>5

(* A sum of zeros is zero. *)
LEMMA SumZero ==
  ASSUME NEW S, IsFiniteSet(S), NEW fun, \A s \in S : fun[s] = 0
  PROVE  SumFunctionOnSet(fun, S) = 0
<1> DEFINE B == {T \in SUBSET S : SumFunctionOnSet(fun, T) # 0}
<1>1. ASSUME B # {} PROVE FALSE
  <2>1. PICK T \in B : \A U \in B : ~(U \subseteq T /\ U # T)
    <3>1. B \subseteq SUBSET S
      OBVIOUS
    <3> HIDE DEF B
    <3>2. QED
      BY <1>1, <3>1, Smallest
  <2>2. T # {} /\ IsFiniteSet(T) /\ T \in SUBSET S
    BY <2>1, SumEmpty, FS_Subset
  <2>3. First(T) \in T /\ fun[First(T)] = 0
    BY <2>2, FirstIn
  <2> DEFINE R == T \ {First(T)}
  <2>4. SumFunctionOnSet(fun, R) = 0
    BY <2>1, <2>2, <2>3
  <2>5. SumFunctionOnSet(fun, T) = fun[First(T)] + SumFunctionOnSet(fun, R)
    BY <2>2, SumFirst
  <2>6. QED
    BY <2>1, <2>3, <2>4, <2>5
<1>2. QED
  BY <1>1
----------------------------------------------------------------------------
(* The ledger: the balances never go negative, the books agree with them up *)
(* to rounding, and the transactions implement Account.                     *)

(* The inductive invariant.  NoOverdraft alone is not inductive: a commit is
   harmless only because the row is locked since its condition was tested. *)
Inv == TypeOK /\ RowLocked /\ CoveredUntilCommit /\ NoOverdraft /\ BooksAgree

(* Storing and subtracting amounts: the ledger takes what the balance loses,
   or one micro more when the amount ends in half a micro. *)
LEMMA StoredType ==
  ASSUME NEW a \in Nat
  PROVE  Stored(a) \in Nat
BY DEF Stored

(* What storing leaves of a balance: at a tie one micro more than the amount
   booked would, and nothing negative of a balance that covers the amount. *)
LEMMA Rounding ==
  ASSUME NEW b \in Int, NEW a \in Nat
  PROVE  /\ Left(b, a) \in Int
         /\ a % 2 = 0 => Left(b, a) = b - Stored(a)
         /\ a % 2 = 1 => Left(b, a) = b - Stored(a) + 1
         /\ Covers(b, a) => Left(b, a) >= 0
BY DEF Stored, Left, Covers

(* What a committing transaction needs to know. *)
LEMMA CommitFacts ==
  ASSUME Inv, NEW c \in Call, Commit(c)
  PROVE  \E o \in Org :
           /\ o = call[c].org /\ lock[o] = c
           /\ \/ /\ call[c].kind = "deduct"
                 /\ Debit(o, call[c].amount)
              \/ /\ call[c].kind = "topup"
                 /\ Credit(o, call[c].amount)
<1>1. PICK o \in Org :
        /\ o = call[c].org
        /\ \/ /\ call[c].kind = "deduct"
              /\ balance' = [balance EXCEPT ![o] = Left(@, call[c].amount)]
              /\ booked' = [booked EXCEPT ![o] = @ - Stored(call[c].amount)]
           \/ /\ call[c].kind = "topup"
              /\ Credit(o, call[c].amount)
  BY DEF Commit
<1>2. lock[o] = c
  BY <1>1 DEF Commit, Inv, RowLocked
<1>3. call[c].kind = "deduct" => Covers(balance[o], call[c].amount)
  BY <1>2 DEF Inv, CoveredUntilCommit
<1>4. QED
  BY <1>1, <1>2, <1>3 DEF Debit

(* A step changes the account only by a commit. *)
LEMMA OnlyCommits ==
  ASSUME [Next]_vars, ~\E c \in Call : Commit(c)
  PROVE  UNCHANGED accountVars
BY DEF Next, vars, accountVars, Crash, Begin, Execute, UpdateDeduct,
       Insufficient, UpdateTopUp, Insert, Fail, Goto

(* The opening state is well typed. *)
LEMMA TypeInit == Init => TypeOK
BY OpeningAssumption, SMT DEF Init, AccountInit, TypeOK, CallType

(* Every step keeps the types. *)
LEMMA TypeStep ==
  ASSUME Inv, [Next]_vars
  PROVE  TypeOK'
<1>. USE DEF Inv, TypeOK, CallType, Running, Returned
<1>1. ASSUME NEW c \in Call, Begin(c)
      PROVE  TypeOK'
  BY <1>1 DEF Begin, Goto
<1>2. ASSUME NEW c \in Call, UpdateDeduct(c)
      PROVE  TypeOK'
  BY <1>2 DEF UpdateDeduct, Goto
<1>3. ASSUME NEW c \in Call, Insufficient(c)
      PROVE  TypeOK'
  BY <1>3 DEF Insufficient, Goto
<1>4. ASSUME NEW c \in Call, UpdateTopUp(c)
      PROVE  TypeOK'
  BY <1>4 DEF UpdateTopUp, Goto
<1>5. ASSUME NEW c \in Call, Insert(c)
      PROVE  TypeOK'
  BY <1>5 DEF Insert, Goto, Unlock
<1>6. ASSUME NEW c \in Call, Commit(c)
      PROVE  TypeOK'
  <2>1. PICK o \in Org : Debit(o, call[c].amount) \/ Credit(o, call[c].amount)
    BY <1>6, CommitFacts
  <2>. DEFINE a == call[c].amount
  <2>2. Left(balance[o], a) \in Int /\ Stored(a) \in Int
    <3>1. a \in Nat /\ balance[o] \in Int
      BY AmountAssumption
    <3>. HIDE DEF a
    <3>. QED
      BY <3>1, Rounding, StoredType
  <2>3. balance' \in [Org -> Int] /\ booked' \in [Org -> Int]
    BY <2>1, <2>2 DEF Debit, Credit
  <2>4. call' \in [Call -> CallType] /\ lock' \in [Org -> Call \cup {Nobody}]
    BY <1>6 DEF Commit, Goto, Unlock
  <2>. QED
    BY <2>3, <2>4
<1>7. ASSUME NEW c \in Call, Fail(c)
      PROVE  TypeOK'
  BY <1>7 DEF Fail, Goto, Unlock
<1>8. ASSUME Crash
      PROVE  TypeOK'
  <2>1. \A c \in Call : [call[c] EXCEPT !.pc = "lost"] \in CallType
    OBVIOUS
  <2>2. call' \in [Call -> CallType]
    BY <1>8, <2>1 DEF Crash
  <2>3. lock' \in [Org -> Call \cup {Nobody}]
    BY <1>8 DEF Crash
  <2>. QED
    BY <1>8, <2>2, <2>3 DEF Crash
<1>9. ASSUME UNCHANGED vars
      PROVE  TypeOK'
  BY <1>9 DEF vars
<1>. QED
  BY <1>1, <1>2, <1>3, <1>4, <1>5, <1>6, <1>7, <1>8, <1>9 DEF Next, Execute

(* Every step keeps the locks with their updaters. *)
LEMMA LockStep ==
  ASSUME Inv, [Next]_vars
  PROVE  RowLocked'
<1>. USE NamesAssumption DEF Inv, TypeOK, CallType, RowLocked, Running
<1>1. ASSUME NEW c \in Call, Begin(c)
      PROVE  RowLocked'
  BY <1>1 DEF Begin, Goto
<1>2. ASSUME NEW c \in Call, UpdateDeduct(c)
      PROVE  RowLocked'
  BY <1>2 DEF UpdateDeduct, Goto
<1>3. ASSUME NEW c \in Call, Insufficient(c)
      PROVE  RowLocked'
  BY <1>3 DEF Insufficient, Goto
<1>4. ASSUME NEW c \in Call, UpdateTopUp(c)
      PROVE  RowLocked'
  BY <1>4 DEF UpdateTopUp, Goto
<1>5. ASSUME NEW c \in Call, Insert(c)
      PROVE  RowLocked'
  BY <1>5 DEF Insert, Goto, Unlock
<1>6. ASSUME NEW c \in Call, Commit(c)
      PROVE  RowLocked'
  BY <1>6 DEF Commit, Goto, Unlock
<1>7. ASSUME NEW c \in Call, Fail(c)
      PROVE  RowLocked'
  BY <1>7 DEF Fail, Goto, Unlock
<1>8. ASSUME Crash
      PROVE  RowLocked'
  BY <1>8 DEF Crash
<1>9. ASSUME UNCHANGED vars
      PROVE  RowLocked'
  BY <1>9 DEF vars
<1>. QED
  BY <1>1, <1>2, <1>3, <1>4, <1>5, <1>6, <1>7, <1>8, <1>9 DEF Next, Execute

(* The kind, organisation and amount of a call never change. *)
LEMMA CallFixed ==
  ASSUME Inv, [Next]_vars, NEW c \in Call
  PROVE  /\ call'[c].kind = call[c].kind
         /\ call'[c].org = call[c].org
         /\ call'[c].amount = call[c].amount
BY DEF Inv, TypeOK, CallType, Next, vars, Crash, Begin, Execute, UpdateDeduct,
       Insufficient, UpdateTopUp, Insert, Commit, Fail, Goto, Unlock

(* The cover that an UPDATE found stays until its COMMIT. *)
LEMMA CoveredStep ==
  ASSUME Inv, [Next]_vars
  PROVE  CoveredUntilCommit'
<1>. SUFFICES ASSUME NEW c \in Call, NEW o \in Org,
                     lock'[o] = c, call'[c].kind = "deduct"
              PROVE  Covers(balance'[o], call'[c].amount)
  BY CallFixed DEF CoveredUntilCommit
<1>1. call[c].kind = "deduct" /\ call'[c].amount = call[c].amount
  BY CallFixed
<1>2. CASE lock[o] = c
  <2>1. ~\E d \in Call : Commit(d) /\ call[d].org = o
    BY <1>2, LockStep, NamesAssumption
    DEF Inv, TypeOK, CallType, RowLocked, Commit, Goto, Unlock
  <2>2. balance'[o] = balance[o]
    BY <2>1, OnlyCommits, CommitFacts
    DEF Inv, TypeOK, accountVars, Debit, Credit
  <2>. QED
    BY <1>1, <1>2, <2>2 DEF Inv, CoveredUntilCommit
<1>3. CASE lock[o] # c
  <2>1. UpdateDeduct(c) \/ UpdateTopUp(c)
    BY <1>3, NamesAssumption
    DEF Inv, TypeOK, Next, vars, Crash, Begin, Execute, UpdateDeduct,
        Insufficient, UpdateTopUp, Insert, Commit, Fail, Goto, Unlock
  <2>. QED
    BY <1>1, <1>3, <2>1 DEF Inv, TypeOK, UpdateDeduct, UpdateTopUp
<1>. QED
  BY <1>2, <1>3

(* No step makes a balance negative. *)
LEMMA NoOverdraftStep ==
  ASSUME Inv, [Next]_vars
  PROVE  NoOverdraft'
<1>. USE DEF Inv, TypeOK, NoOverdraft
<1>1. CASE \E c \in Call : Commit(c)
  <2>1. PICK c \in Call : Commit(c)
    BY <1>1
  <2>2. call[c].amount \in Nat
    BY AmountAssumption DEF CallType
  <2>3. PICK o \in Org : Debit(o, call[c].amount) \/ Credit(o, call[c].amount)
    BY <2>1, CommitFacts
  <2>4. CASE Debit(o, call[c].amount)
    BY <2>2, <2>4, Rounding DEF Debit
  <2>5. CASE Credit(o, call[c].amount)
    BY <2>2, <2>5, StoredType DEF Credit
  <2>. QED
    BY <2>3, <2>4, <2>5
<1>2. CASE ~\E c \in Call : Commit(c)
  BY <1>2, OnlyCommits DEF accountVars
<1>. QED
  BY <1>1, <1>2

(* The deductions that may have cost the ledger a micro. *)
LEMMA DeductedFinite ==
  ASSUME NEW o \in Org
  PROVE  /\ IsFiniteSet(Deducted(o))
         /\ Cardinality(Deducted(o)) \in Nat
<1>1. Deducted(o) \subseteq Call
  BY DEF Deducted
<1>. QED
  BY <1>1, CallAssumption, FS_Subset, FS_CardinalityType

(* A call that has deducted stays one that has. *)
LEMMA DeductedGrows ==
  ASSUME Inv, [Next]_vars, NEW o \in Org
  PROVE  /\ IsFiniteSet(Deducted(o)')
         /\ Deducted(o) \subseteq Deducted(o)'
         /\ Cardinality(Deducted(o)) <= Cardinality(Deducted(o)')
         /\ Cardinality(Deducted(o)') \in Nat
<1>1. ASSUME NEW c \in Call, call[c].pc \in {"ok", "failed"}
      PROVE  call'[c].pc = call[c].pc
  BY <1>1 DEF Inv, TypeOK, Running, Next, vars, Crash, Begin, Execute,
       UpdateDeduct, Insufficient, UpdateTopUp, Insert, Commit, Fail, Goto, Unlock
<1>2. Deducted(o) \subseteq Deducted(o)'
  BY <1>1, CallFixed DEF Deducted
<1>3. Deducted(o)' \subseteq Call
  BY DEF Deducted
<1>4. IsFiniteSet(Deducted(o)')
  BY <1>3, CallAssumption, FS_Subset
<1>. QED
  BY <1>2, <1>4, FS_Subset, FS_CardinalityType

(* Balance and books move together. *)
LEMMA BooksStep ==
  ASSUME Inv, [Next]_vars
  PROVE  BooksAgree'
<1>. SUFFICES ASSUME NEW o \in Org
              PROVE  /\ booked'[o] <= balance'[o]
                     /\ balance'[o] - booked'[o] <= Cardinality(Deducted(o)')
  BY DEF BooksAgree
<1>. DEFINE n == Cardinality(Deducted(o))
            m == Cardinality(Deducted(o)')
<1>1. /\ balance[o] \in Int /\ booked[o] \in Int
      /\ booked[o] <= balance[o] /\ balance[o] - booked[o] <= n
  BY DEF Inv, TypeOK, BooksAgree
<1>2. n \in Nat /\ m \in Nat /\ n <= m
  BY DeductedFinite, DeductedGrows
<1>3. CASE \E c \in Call : Commit(c)
  <2>1. PICK c \in Call : Commit(c)
    BY <1>3
  <2>. DEFINE a == call[c].amount
  <2>2. a \in Nat
    BY AmountAssumption DEF Inv, TypeOK, CallType
  <2>3. PICK p \in Org :
          /\ p = call[c].org
          /\ \/ call[c].kind = "deduct" /\ Debit(p, a)
             \/ call[c].kind = "topup" /\ Credit(p, a)
    BY <2>1, CommitFacts
  <2>4. CASE p # o
    <3>1. balance'[o] = balance[o] /\ booked'[o] = booked[o]
      BY <2>3, <2>4 DEF Inv, TypeOK, Debit, Credit
    <3>. QED
      BY <1>1, <1>2, <3>1
  <2>5. CASE p = o /\ Credit(o, a)
    <3>1. /\ balance'[o] = balance[o] + Stored(a)
          /\ booked'[o] = booked[o] + Stored(a)
      BY <2>5 DEF Inv, TypeOK, Credit
    <3>. QED
      BY <1>1, <1>2, <2>2, <3>1, StoredType
  <2>6. CASE p = o /\ call[c].kind = "deduct" /\ Debit(o, a)
    <3>1. /\ balance'[o] = Left(balance[o], a)
          /\ booked'[o] = booked[o] - Stored(a)
      BY <2>6 DEF Inv, TypeOK, Debit
    <3>2. CASE a % 2 = 0
      <4>1. Left(balance[o], a) = balance[o] - Stored(a)
        BY <1>1, <2>2, <3>2, Rounding
      <4>. QED
        BY <1>1, <1>2, <2>2, <3>1, <4>1, StoredType
    <3>3. CASE a % 2 = 1
      <4>1. c \notin Deducted(o)
        BY <2>1 DEF Commit, Deducted
      <4>2. call'[c].pc \in {"ok", "failed"}
        BY <2>1 DEF Commit, Goto, Inv, TypeOK
      <4>3. c \in Deducted(o)'
        BY <2>3, <2>6, <3>3, <4>2, CallFixed DEF Deducted
      <4>4. Deducted(o) \cup {c} \subseteq Deducted(o)'
        BY <4>3, DeductedGrows
      <4>5. Cardinality(Deducted(o) \cup {c}) = n + 1
        BY <4>1, DeductedFinite, FS_AddElement
      <4>6. n + 1 <= m
        BY <4>4, <4>5, DeductedGrows, FS_Subset
      <4>7. Left(balance[o], a) = balance[o] - Stored(a) + 1
        BY <1>1, <2>2, <3>3, Rounding
      <4>. QED
        BY <1>1, <1>2, <2>2, <3>1, <4>6, <4>7, StoredType
    <3>. QED
      BY <2>2, <3>2, <3>3
  <2>. QED
    BY <2>3, <2>4, <2>5, <2>6
<1>4. CASE ~\E c \in Call : Commit(c)
  <2>1. balance' = balance /\ booked' = booked
    BY <1>4, OnlyCommits DEF accountVars
  <2>. QED
    BY <1>1, <1>2, <2>1
<1>. QED
  BY <1>3, <1>4

(* The inductive invariant holds at the start. *)
LEMMA InvInit == Init => Inv
<1>. SUFFICES ASSUME Init PROVE Inv
  OBVIOUS
<1>1. TypeOK
  BY TypeInit
<1>2. RowLocked /\ CoveredUntilCommit
  BY NamesAssumption DEF Init, RowLocked, CoveredUntilCommit, CallType
<1>3. NoOverdraft
  <2>1. \A o \in Org : Opening[o] >= 0
    BY OpeningAssumption
  <2>2. balance = Opening
    BY DEF Init, AccountInit
  <2>. QED
    BY <2>1, <2>2 DEF NoOverdraft
<1>4. BooksAgree
  <2>1. ASSUME NEW o \in Org
        PROVE  Opening[o] \in Nat /\ Cardinality(Deducted(o)) \in Nat
    BY OpeningAssumption, DeductedFinite
  <2>2. ASSUME NEW o \in Org
        PROVE  /\ Opening[o] <= Opening[o]
               /\ Opening[o] - Opening[o] <= Cardinality(Deducted(o))
    BY <2>1
  <2>3. balance = Opening /\ booked = Opening
    BY DEF Init, AccountInit
  <2>. QED
    BY <2>2, <2>3, Zenon DEF BooksAgree
<1>. QED
  BY <1>1, <1>2, <1>3, <1>4 DEF Inv

(* Inv holds in every reachable state. *)
THEOREM Invariance == Spec => []Inv
<1>1. Inv /\ [Next]_vars => Inv'
  BY TypeStep, LockStep, CoveredStep, NoOverdraftStep, BooksStep DEF Inv
<1>. QED
  BY <1>1, InvInit, PTL DEF Spec

(* No sequence of concurrent deductions, failures and crashes makes the
   balance of an organisation negative (ledger.go:222-224). *)
THEOREM Solvency == Spec => []NoOverdraft
<1>1. Inv => NoOverdraft
  BY DEF Inv
<1>. QED
  BY <1>1, Invariance, PTL

(* The books never show more than the balance, and lag behind it by at most
   one micro for each deduction that ends in half a micro. *)
THEOREM Bookkeeping == Spec => []BooksAgree
<1>1. Inv => BooksAgree
  BY DEF Inv
<1>. QED
  BY <1>1, Invariance, PTL

(* The variables have their types, and a row is locked by exactly the
   transaction that is past its UPDATE. *)
THEOREM Typing == Spec => [](TypeOK /\ RowLocked)
<1>1. Inv => TypeOK /\ RowLocked
  BY DEF Inv
<1>. QED
  BY <1>1, Invariance, PTL

(* The transactions of Deduct and TopUp implement the atomic account. *)
THEOREM Refinement == Spec => ImplementsAccount
<1>1. Init => Atomic!AccountInit
  BY DEF Init, AccountInit, Atomic!AccountInit
<1>2. Inv /\ [Next]_vars => [Atomic!AccountNext]_(Atomic!accountVars)
  <2>. SUFFICES ASSUME Inv, [Next]_vars, \E c \in Call : Commit(c)
                PROVE  Atomic!AccountNext
    BY OnlyCommits DEF Atomic!accountVars, accountVars
  <2>1. PICK c \in Call : Commit(c)
    OBVIOUS
  <2>2. call[c].amount \in Amount
    BY DEF Inv, TypeOK, CallType
  <2>. QED
    BY <2>1, <2>2, CommitFacts
    DEF Debit, Credit, Covers, Left, Stored, Atomic!AccountNext, Atomic!Debit, Atomic!Credit,
        Atomic!Covers, Atomic!Left, Atomic!Stored
<1>. QED
  BY <1>1, <1>2, Invariance, PTL DEF Spec, ImplementsAccount, Atomic!AccountSpec
----------------------------------------------------------------------------
(* Stripe: every credit is for a delivery of its checkout.                  *)

HandlerType == [pc : {"free"}] \cup [pc : {"received", "done"}, event : Event]

(* The handlers that may still credit checkout k. *)
InHand(k) == {h \in Handler : handler[h].pc = "received" /\ handler[h].event = k}

PaymentTypes ==
  /\ balance \in [Org -> Nat] /\ booked \in [Org -> Nat]
  /\ tier \in [Org -> Tier] /\ plan \in [Org -> Seq(Tier)]
  /\ attempts \in [Event -> 0..MaxAttempts]
  /\ acked \subseteq Event
  /\ credits \in [Checkout -> Nat]
  /\ handler \in [Handler -> HandlerType]
  /\ \A h \in Handler : handler[h].pc # "free" => handler[h].event \in Stripe!Emitted

(* The inductive invariant: each delivery of a checkout is in hand, is
   credited or is spent. *)
PaymentInv ==
  /\ PaymentTypes
  /\ \A k \in Checkout : credits[k] + Cardinality(InHand(k)) <= attempts[k]
  /\ \A o \in Org : booked[o] = Opening[o] + Credited(o)

LEMMA InHandType ==
  ASSUME NEW k
  PROVE  IsFiniteSet(InHand(k)) /\ Cardinality(InHand(k)) \in Nat
<1>1. InHand(k) \subseteq Handler
  BY DEF InHand
<1>2. QED
  BY <1>1, DeliveryAssumption, FS_Subset, FS_CardinalityType

(* Fewer handlers at work leave the deliveries accounted for. *)
LEMMA LessInHand ==
  ASSUME NEW k, InHand(k)' \subseteq InHand(k)
  PROVE  Cardinality(InHand(k)') \in Nat /\ Cardinality(InHand(k)') <= Cardinality(InHand(k))
<1>1. IsFiniteSet(InHand(k)') /\ Cardinality(InHand(k)') <= Cardinality(InHand(k))
  BY InHandType, FS_Subset
<1>2. QED
  BY <1>1, FS_CardinalityType

LEMMA PaymentsBegin == Stripe!Init => PaymentInv
<1> SUFFICES ASSUME Stripe!Init PROVE PaymentInv
  OBVIOUS
<1>1. PaymentTypes
  BY OpeningAssumption, CheckoutAssumption, DeliveryAssumption
  DEF Stripe!Init, Stripe!AccountInit, Stripe!Event, Stripe!Change, Event, Change,
      Stripe!Free, PaymentTypes, HandlerType
<1>2. \A h \in Handler : handler[h].pc = "free"
  BY DEF Stripe!Init, Stripe!Free
<1>3. \A k \in Checkout : credits[k] + Cardinality(InHand(k)) <= attempts[k]
  <2>1. \A k \in Checkout : InHand(k) = {}
    BY <1>2 DEF InHand
  <2>2. \A k \in Checkout : credits[k] = 0 /\ attempts[k] = 0
    BY DEF Stripe!Init, Stripe!Event, Stripe!Change, Event
  <2>3. QED
    BY <2>1, <2>2, FS_EmptySet
<1>4. \A o \in Org : booked[o] = Opening[o] + Credited(o)
  <2>1. ASSUME NEW o \in Org PROVE Credited(o) = 0
    <3> DEFINE fun == [k \in Checkout |-> credits[k] * Stored(Price[k])]
               T == {k \in Checkout : OrgOf[k] = o}
    <3>1. ASSUME NEW k \in Checkout PROVE credits[k] * Stored(Price[k]) = 0
      <4>1. credits[k] = 0 /\ Stored(Price[k]) \in Nat
        BY CheckoutAssumption, AmountAssumption, StoredType DEF Stripe!Init
      <4>2. QED
        BY <4>1
    <3>2. \A k \in T : fun[k] = 0
      BY <3>1
    <3>3. IsFiniteSet(T)
      BY DeliveryAssumption, FS_Subset
    <3> HIDE DEF fun, T
    <3>4. SumFunctionOnSet(fun, T) = 0
      BY <3>2, <3>3, SumZero
    <3>5. QED
      BY <3>4 DEF Credited, fun, T
  <2>2. \A o \in Org : booked[o] = Opening[o] /\ Opening[o] \in Nat
    BY OpeningAssumption DEF Stripe!Init, Stripe!AccountInit
  <2>3. ASSUME NEW o \in Org PROVE booked[o] = Opening[o] + Credited(o)
    <3>1. Credited(o) = 0
      BY <2>1
    <3>2. QED
      BY <2>2, <3>1
  <2>4. QED
    BY <2>3
<1>5. QED
  BY <1>1, <1>2, <1>3, <1>4 DEF PaymentInv

(* A committed credit for checkout k: what is booked grows by its price. *)
LEMMA CreditCounts ==
  ASSUME PaymentInv, NEW k \in Checkout, Stripe!Credit(OrgOf[k], Price[k]),
         credits' = [credits EXCEPT ![k] = @ + 1]
  PROVE  /\ balance' \in [Org -> Nat] /\ booked' \in [Org -> Nat]
         /\ \A o \in Org : booked'[o] = Opening[o] + Credited(o)'
<1> DEFINE p == Stored(Price[k])
           own == OrgOf[k]
<1>1. p \in Nat /\ own \in Org
  BY CheckoutAssumption, AmountAssumption, StoredType
<1>2. /\ balance' = [balance EXCEPT ![own] = @ + p]
      /\ booked' = [booked EXCEPT ![own] = @ + p]
  BY DEF Stripe!Credit, Stripe!Stored, Stored
<1>3. ASSUME NEW o \in Org
      PROVE  booked'[o] = Opening[o] + Credited(o)'
  <2> DEFINE fun == [j \in Checkout |-> credits[j] * Stored(Price[j])]
             gun == [j \in Checkout |-> credits'[j] * Stored(Price[j])]
             T == {j \in Checkout : OrgOf[j] = o}
  <2>1. IsFiniteSet(T)
    BY DeliveryAssumption, FS_Subset
  <2>2. ASSUME NEW j \in Checkout
        PROVE  fun[j] \in Int /\ gun[j] = IF j = k THEN fun[j] + p ELSE fun[j]
    <3> DEFINE c == credits[j]
               q == Stored(Price[j])
    <3>1. c \in Nat /\ q \in Nat
      BY CheckoutAssumption, AmountAssumption, StoredType DEF PaymentInv, PaymentTypes
    <3>2. credits'[j] = IF j = k THEN c + 1 ELSE c
      BY DEF PaymentInv, PaymentTypes
    <3>3. c * q \in Int /\ (c + 1) * q = c * q + q
      <4> HIDE DEF c, q
      <4>1. QED
        BY <3>1
    <3>4. fun[j] = c * q /\ gun[j] = (IF j = k THEN (c + 1) * q ELSE c * q) /\ (j = k => q = p)
      BY <3>2
    <3> HIDE DEF fun, gun, c, q, p
    <3>5. QED
      BY <3>3, <3>4
  <2>3. Credited(o) = SumFunctionOnSet(fun, T) /\ Credited(o)' = SumFunctionOnSet(gun, T)
    BY DEF Credited
  <2>4. booked[o] = Opening[o] + Credited(o) /\ booked[o] \in Nat /\ Opening[o] \in Nat
    BY OpeningAssumption DEF PaymentInv, PaymentTypes
  <2>5. T \subseteq Checkout /\ (k \in T <=> own = o)
    OBVIOUS
  <2>6. SumFunctionOnSet(fun, T) \in Int
    <3> HIDE DEF fun, T
    <3>1. QED
      BY <2>1, <2>2, <2>5, SumType
  <2>7. CASE own = o
    <3>1. SumFunctionOnSet(gun, T) = SumFunctionOnSet(fun, T) + p
      <4> HIDE DEF fun, gun, T, p, own
      <4>1. QED
        BY <1>1, <2>1, <2>2, <2>5, <2>7, SumAdd
    <3>2. booked'[o] = booked[o] + p
      BY <1>1, <1>2, <2>7 DEF PaymentInv, PaymentTypes
    <3> HIDE DEF fun, gun, T, p
    <3>3. QED
      BY <1>1, <2>3, <2>4, <2>6, <3>1, <3>2
  <2>8. CASE own # o
    <3>1. SumFunctionOnSet(gun, T) = SumFunctionOnSet(fun, T)
      <4> HIDE DEF fun, gun, T
      <4>1. QED
        BY <2>1, <2>2, <2>5, <2>8, SumSame
    <3>2. booked'[o] = booked[o]
      BY <1>2, <2>8 DEF PaymentInv, PaymentTypes
    <3>3. QED
      BY <2>3, <2>4, <3>1, <3>2
  <2>9. QED
    BY <2>7, <2>8
<1>4. balance' \in [Org -> Nat] /\ booked' \in [Org -> Nat]
  BY <1>1, <1>2 DEF PaymentInv, PaymentTypes
<1>5. QED
  BY <1>3, <1>4

(* Steps that credit nothing leave the account as it is. *)
LEMMA AccountKept ==
  ASSUME PaymentInv, UNCHANGED <<balance, booked, credits>>
  PROVE  /\ balance' \in [Org -> Nat] /\ booked' \in [Org -> Nat]
         /\ credits' \in [Checkout -> Nat]
         /\ \A o \in Org : booked'[o] = Opening[o] + Credited(o)'
BY DEF PaymentInv, PaymentTypes, Credited

(* A handler lets go of its event. *)
LEMMA LetGo ==
  ASSUME PaymentInv, NEW H \in SUBSET Handler,
         handler' = [h \in Handler |-> IF h \in H THEN Stripe!Free ELSE handler[h]],
         acked' \subseteq Event, UNCHANGED <<balance, booked, tier, plan, attempts, credits>>
  PROVE  PaymentInv'
<1>1. PaymentTypes'
  BY AccountKept
  DEF PaymentInv, PaymentTypes, HandlerType, Stripe!Free, Stripe!Emitted, Stripe!Change
<1>2. ASSUME NEW k \in Checkout
      PROVE  credits'[k] + Cardinality(InHand(k)') <= attempts'[k]
  <2>1. InHand(k)' \subseteq InHand(k)
    BY DEF InHand, Stripe!Free
  <2>2. credits'[k] = credits[k] /\ attempts'[k] = attempts[k] /\ credits[k] \in Nat /\ attempts[k] \in Nat
    BY DEF PaymentInv, PaymentTypes, Event
  <2>3. credits[k] + Cardinality(InHand(k)) <= attempts[k]
    BY DEF PaymentInv
  <2>4. QED
    BY <2>1, <2>2, <2>3, LessInHand, InHandType
<1>3. QED
  BY <1>1, <1>2, AccountKept DEF PaymentInv

(* An event is delivered to a handler. *)
LEMMA DeliverStep ==
  ASSUME PaymentInv, NEW h \in Handler, Stripe!Deliver(h)
  PROVE  PaymentInv'
<1>1. PICK e \in Stripe!Emitted \ acked :
         /\ attempts[e] < MaxAttempts
         /\ attempts' = [attempts EXCEPT ![e] = @ + 1]
         /\ handler' = [handler EXCEPT ![h] = [pc |-> "received", event |-> e]]
  BY DEF Stripe!Deliver
<1>2. e \in Event
  BY <1>1 DEF Stripe!Emitted, Stripe!Change, Event, Change
<1>3. handler[h].pc = "free" /\ UNCHANGED <<balance, booked, tier, plan, acked, credits>>
  BY DEF Stripe!Deliver, Stripe!Free
<1>4. attempts' \in [Event -> 0..MaxAttempts]
  BY <1>1, <1>2, DeliveryAssumption DEF PaymentInv, PaymentTypes
<1>5. PaymentTypes'
  <2>1. handler' \in [Handler -> HandlerType]
    BY <1>1, <1>2 DEF PaymentInv, PaymentTypes, HandlerType
  <2>2. \A g \in Handler : handler'[g].pc # "free" => handler'[g].event \in Stripe!Emitted'
    BY <1>1, <1>3 DEF PaymentInv, PaymentTypes, Stripe!Emitted, Stripe!Change
  <2>3. QED
    BY <1>3, <1>4, <2>1, <2>2, AccountKept DEF PaymentInv, PaymentTypes
<1>6. ASSUME NEW k \in Checkout
      PROVE  credits'[k] + Cardinality(InHand(k)') <= attempts'[k]
  <2>1. /\ credits'[k] = credits[k] /\ credits[k] \in Nat /\ attempts[k] \in Nat
        /\ credits[k] + Cardinality(InHand(k)) <= attempts[k]
    BY <1>3 DEF PaymentInv, PaymentTypes, Event
  <2>2. CASE k = e
    <3>1. InHand(k)' = InHand(k) \cup {h} /\ h \notin InHand(k)
      BY <1>1, <1>3, <2>2 DEF InHand, PaymentInv, PaymentTypes
    <3>2. Cardinality(InHand(k)') = Cardinality(InHand(k)) + 1
      BY <3>1, InHandType, FS_AddElement
    <3>3. attempts'[k] = attempts[k] + 1
      BY <1>1, <1>2, <2>2 DEF PaymentInv, PaymentTypes
    <3>4. QED
      BY <2>1, <3>2, <3>3, InHandType
  <2>3. CASE k # e
    <3>1. InHand(k)' \subseteq InHand(k)
      BY <1>1, <2>3 DEF InHand, PaymentInv, PaymentTypes
    <3>2. attempts'[k] = attempts[k]
      BY <1>1, <2>3 DEF PaymentInv, PaymentTypes, Event
    <3>3. QED
      BY <2>1, <3>1, <3>2, LessInHand, InHandType
  <2>4. QED
    BY <2>2, <2>3
<1>7. QED
  BY <1>3, <1>5, <1>6, AccountKept DEF PaymentInv

(* A handler goes through its event to the end. *)
LEMMA Finished ==
  ASSUME PaymentInv, NEW h \in Handler, handler[h].pc = "received", Stripe!Finish(h)
  PROVE  /\ handler' \in [Handler -> HandlerType]
         /\ \A g \in Handler : handler'[g].pc # "free" => handler'[g].event \in Stripe!Emitted'
         /\ \A k \in Checkout : InHand(k)' = InHand(k) \ {h}
<1>1. handler[h] \in [pc : {"received", "done"}, event : Event]
  BY DEF PaymentInv, PaymentTypes, HandlerType
<1>2. \A g \in Handler : /\ handler'[g].pc = IF g = h THEN "done" ELSE handler[g].pc
                         /\ g # h => handler'[g] = handler[g]
                         /\ handler'[g].event = handler[g].event
  BY <1>1 DEF Stripe!Finish, PaymentInv, PaymentTypes
<1>3. handler' \in [Handler -> HandlerType]
  BY <1>1 DEF Stripe!Finish, PaymentInv, PaymentTypes, HandlerType
<1>4. UNCHANGED <<plan, attempts, acked>>
  BY DEF Stripe!Finish
<1>5. QED
  BY <1>1, <1>2, <1>3, <1>4
  DEF PaymentInv, PaymentTypes, Stripe!Emitted, Stripe!Change, InHand

LEMMA CheckoutStep ==
  ASSUME PaymentInv, NEW h \in Handler, Stripe!HandleCheckout(h)
  PROVE  PaymentInv'
<1> DEFINE k == handler[h].event
<1>1. /\ handler[h].pc = "received" /\ k \in Checkout
      /\ Stripe!Finish(h) /\ UNCHANGED <<tier, plan, attempts, acked>>
  BY CheckoutAssumption DEF Stripe!HandleCheckout, Stripe!Finish
<1>2. \/ Stripe!Credit(OrgOf[k], Price[k]) /\ credits' = [credits EXCEPT ![k] = @ + 1]
      \/ UNCHANGED <<balance, booked, credits>>
  BY DEF Stripe!HandleCheckout
<1> HIDE DEF k
<1>3. /\ balance' \in [Org -> Nat] /\ booked' \in [Org -> Nat]
      /\ credits' \in [Checkout -> Nat]
      /\ \A o \in Org : booked'[o] = Opening[o] + Credited(o)'
      /\ \A j \in Checkout : credits'[j] <= credits[j] + (IF j = k THEN 1 ELSE 0)
  <2>1. CASE Stripe!Credit(OrgOf[k], Price[k]) /\ credits' = [credits EXCEPT ![k] = @ + 1]
    <3>1. credits \in [Checkout -> Nat]
      BY DEF PaymentInv, PaymentTypes
    <3>2. /\ credits' \in [Checkout -> Nat]
          /\ \A j \in Checkout : credits'[j] <= credits[j] + (IF j = k THEN 1 ELSE 0)
      BY <1>1, <2>1, <3>1
    <3>3. QED
      BY <1>1, <2>1, <3>2, CreditCounts
  <2>2. CASE UNCHANGED <<balance, booked, credits>>
    BY <2>2, AccountKept DEF PaymentInv, PaymentTypes
  <2>3. QED
    BY <1>2, <2>1, <2>2
<1>4. PaymentTypes'
  BY <1>1, <1>3, Finished DEF PaymentInv, PaymentTypes
<1>5. ASSUME NEW j \in Checkout
      PROVE  credits'[j] + Cardinality(InHand(j)') <= attempts'[j]
  <2>1. /\ credits[j] \in Nat /\ credits'[j] \in Nat /\ attempts[j] \in Nat
        /\ attempts'[j] = attempts[j]
        /\ credits[j] + Cardinality(InHand(j)) <= attempts[j]
    BY <1>1, <1>3 DEF PaymentInv, PaymentTypes, Event
  <2>2. InHand(j)' = InHand(j) \ {h}
    BY <1>1, Finished
  <2>3. CASE j = k
    <3>1. h \in InHand(j)
      BY <1>1, <2>3 DEF InHand, k
    <3>2. Cardinality(InHand(j)') = Cardinality(InHand(j)) - 1
      BY <2>2, <3>1, InHandType, FS_RemoveElement
    <3>3. QED
      BY <1>3, <2>1, <2>3, <3>2, InHandType
  <2>4. CASE j # k
    <3>1. Cardinality(InHand(j)') \in Nat /\ Cardinality(InHand(j)') <= Cardinality(InHand(j))
      BY <2>2, LessInHand
    <3>2. credits'[j] <= credits[j]
      BY <1>3, <2>1, <2>4
    <3>3. QED
      BY <2>1, <3>1, <3>2, InHandType
  <2>5. QED
    BY <2>3, <2>4
<1>6. QED
  BY <1>1, <1>3, <1>4, <1>5, Finished DEF PaymentInv

LEMMA SubscriptionStep ==
  ASSUME PaymentInv, NEW h \in Handler, Stripe!HandleSubscription(h)
  PROVE  PaymentInv'
<1>1. /\ handler[h].pc = "received" /\ handler[h].event \in Stripe!Change
      /\ Stripe!Finish(h) /\ UNCHANGED <<balance, booked, credits, plan, attempts, acked>>
  BY DEF Stripe!HandleSubscription, Stripe!Finish
<1>2. tier' \in [Org -> Tier]
  <2> DEFINE e == handler[h].event
  <2>1. e \in Stripe!Emitted
    BY <1>1 DEF PaymentInv, PaymentTypes
  <2>2. e.org \in Linked => plan[e.org][e.n] \in Tier
    <3>1. CASE e.n \in DOMAIN plan[e.org] /\ e.org \in Org
      <4>1. plan[e.org] \in Seq(Tier)
        BY <3>1 DEF PaymentInv, PaymentTypes
      <4>2. QED
        BY <3>1, <4>1
    <3>2. QED
      BY <1>1, <2>1, <3>1, CheckoutAssumption DEF Stripe!Emitted, Stripe!Change, Change
  <2>3. QED
    BY <2>2, CheckoutAssumption DEF Stripe!HandleSubscription, PaymentInv, PaymentTypes
<1>3. PaymentTypes'
  BY <1>1, <1>2, Finished, AccountKept DEF PaymentInv, PaymentTypes
<1>4. ASSUME NEW j \in Checkout
      PROVE  credits'[j] + Cardinality(InHand(j)') <= attempts'[j]
  <2>1. /\ credits[j] \in Nat /\ credits'[j] = credits[j] /\ attempts[j] \in Nat
        /\ attempts'[j] = attempts[j]
        /\ credits[j] + Cardinality(InHand(j)) <= attempts[j]
    BY <1>1 DEF PaymentInv, PaymentTypes, Event
  <2>2. Cardinality(InHand(j)') \in Nat /\ Cardinality(InHand(j)') <= Cardinality(InHand(j))
    BY <1>1, Finished, LessInHand
  <2>3. QED
    BY <2>1, <2>2, InHandType
<1>5. QED
  BY <1>1, <1>3, <1>4, Finished, AccountKept DEF PaymentInv

LEMMA PlanStep ==
  ASSUME PaymentInv, NEW o \in Org, Stripe!ChangePlan(o)
  PROVE  PaymentInv'
<1>1. PICK t \in Tier : plan' = [plan EXCEPT ![o] = Append(@, t)]
  BY DEF Stripe!ChangePlan
<1>2. UNCHANGED <<balance, booked, tier, attempts, acked, handler, credits>>
  BY DEF Stripe!ChangePlan
<1>3. plan[o] \in Seq(Tier) /\ DOMAIN plan = Org
  BY DEF PaymentInv, PaymentTypes
<1>4. plan' \in [Org -> Seq(Tier)]
  BY <1>1, <1>3 DEF PaymentInv, PaymentTypes
<1>5. ASSUME NEW p \in Org PROVE DOMAIN plan[p] \subseteq DOMAIN plan'[p]
  <2>1. plan[p] \in Seq(Tier)
    BY DEF PaymentInv, PaymentTypes
  <2>2. DOMAIN Append(plan[o], t) = 1..(Len(plan[o]) + 1) /\ DOMAIN plan[o] = 1..Len(plan[o])
    BY <1>3
  <2>3. Len(plan[o]) \in Nat
    BY <1>3
  <2>4. QED
    BY <1>1, <1>3, <2>2, <2>3
<1>6. Stripe!Emitted \subseteq Stripe!Emitted'
  BY <1>5 DEF Stripe!Emitted, Stripe!Change
<1>7. PaymentTypes'
  BY <1>2, <1>4, <1>6 DEF PaymentInv, PaymentTypes
<1>8. QED
  BY <1>2, <1>7 DEF PaymentInv, InHand, Credited

(* Every step of Stripe and of the handlers keeps the invariant. *)
LEMMA PaymentStep ==
  ASSUME PaymentInv, [Stripe!Next]_(Stripe!vars)
  PROVE  PaymentInv'
<1>1. ASSUME NEW h \in Handler,
             Stripe!Unreadable(h) \/ Stripe!PanicOnGuest(h) \/ Stripe!Respond(h)
      PROVE  PaymentInv'
  <2>1. handler' = [g \in Handler |-> IF g \in {h} THEN Stripe!Free ELSE handler[g]]
    BY <1>1 DEF Stripe!Unreadable, Stripe!PanicOnGuest, Stripe!Respond, PaymentInv, PaymentTypes
  <2>2. acked' \subseteq Event
    BY <1>1
    DEF Stripe!Unreadable, Stripe!PanicOnGuest, Stripe!Respond, PaymentInv, PaymentTypes,
        HandlerType
  <2>3. UNCHANGED <<balance, booked, tier, plan, attempts, credits>>
    BY <1>1 DEF Stripe!Unreadable, Stripe!PanicOnGuest, Stripe!Respond
  <2>4. QED
    BY <2>1, <2>2, <2>3, LetGo
<1>2. ASSUME Stripe!Crash
      PROVE  PaymentInv'
  <2>1. handler' = [g \in Handler |-> IF g \in Handler THEN Stripe!Free ELSE handler[g]]
    BY <1>2 DEF Stripe!Crash
  <2>2. acked' \subseteq Event /\ UNCHANGED <<balance, booked, tier, plan, attempts, credits>>
    BY <1>2 DEF Stripe!Crash, PaymentInv, PaymentTypes
  <2>3. QED
    BY <2>1, <2>2, LetGo
<1>3. CASE UNCHANGED Stripe!vars
  BY <1>3
  DEF Stripe!vars, PaymentInv, PaymentTypes, InHand, Credited,
      Stripe!Emitted, Stripe!Change
<1>4. QED
  BY <1>1, <1>2, <1>3, PlanStep, DeliverStep, CheckoutStep, SubscriptionStep DEF Stripe!Next

LEMMA PaymentsAlways == Stripe!Spec => []PaymentInv
BY PaymentsBegin, PaymentStep, PTL DEF Stripe!Spec

(* An organisation is credited its checkouts and nothing else, each at most
   once per delivery, for all prices. *)
THEOREM CreditsCounted == Stripe!Spec => []CreditsAccounted
<1>1. ASSUME PaymentInv PROVE CreditsAccounted
  <2>1. ASSUME NEW k \in Checkout PROVE credits[k] <= attempts[k]
    <3>1. /\ credits[k] \in Nat /\ attempts[k] \in Nat
          /\ credits[k] + Cardinality(InHand(k)) <= attempts[k]
      BY <1>1 DEF PaymentInv, PaymentTypes, Event
    <3>2. QED
      BY <3>1, InHandType
  <2>2. QED
    BY <1>1, <2>1 DEF PaymentInv, CreditsAccounted
<1>2. QED
  BY <1>1, PaymentsAlways, PTL

(* The types of StripeWebhook. *)
THEOREM PaymentTyping == Stripe!Spec => []Stripe!TypeOK
<1>1. ASSUME PaymentInv PROVE Stripe!TypeOK
  BY <1>1
  DEF PaymentInv, PaymentTypes, HandlerType, Stripe!TypeOK, Stripe!Free, Stripe!Event,
      Stripe!Change, Event, Change
<1>2. QED
  BY <1>1, PaymentsAlways, PTL

----------------------------------------------------------------------------
(* The engine: grounds to refuse a request stop it, and what is counted as  *)
(* spent is what answers were charged.                                      *)

RequestType ==
       [pc : {"idle"}]
  \cup [pc : {"arrived", "lost"}, org : Org, auth : Engine!Auth]
  \cup [pc : {"fetched", "caps", "admitted", "rejected", "failed", "lost"},
        org : Org, auth : Engine!Auth, funds : {"unknown", "some", "none"}]
  \cup [pc : {"daysum", "lost"}, org : Org, auth : Engine!Auth, caps : CapSets]
  \cup [pc : {"monthsum", "admitted", "rejected", "failed", "lost"},
        org : Org, auth : Engine!Auth, caps : CapSets, daySpend : Nat]
  \cup [pc : {"served"}, org : Org, auth : Engine!Auth, tokens : BOOLEAN]

ChargeType ==
       [pc : {"none"}]
  \cup [pc : {"queued", "failed", "lost"}, amount : Amount]
  \cup [pc : {"begun", "paid", "short", "failed", "lost"}, amount : Amount, day : Day]

AllGrounds == {"balance"} \cup Engine!CapGrounds

SpendTypes ==
  /\ balance \in [Org -> Int] /\ booked \in [Org -> Int]
  /\ spent \in [Org -> [Day -> Nat]] /\ spentIn \in [Org -> [Month -> Nat]]
  /\ caps \in [Org -> CapSets] /\ today \in Day
  /\ req \in [Request -> RequestType]
  /\ charge \in [Request -> ChargeType]
  /\ fence \in [Request -> SUBSET AllGrounds]

(* What a ground f that still stands says of a request q past the reads that
   could have seen it. *)
BalanceStands(q, f) ==
  "balance" \in f =>
    /\ balance[q.org] <= 0
    /\ q.pc \notin {"caps", "daysum", "monthsum"} \cup Through
    /\ q.pc = "fetched" => q.funds # "some"
DayStands(q, f) ==
  "day" \in f =>
    /\ Engine!Reached(Engine!DaySpend(q.org), caps[q.org].day)
    /\ q.pc \in {"daysum", "monthsum"} => q.caps = caps[q.org]
    /\ q.pc = "monthsum" => Engine!Reached(q.daySpend, q.caps.day)
    /\ q.pc \notin Through
MonthStands(q, f) ==
  "month" \in f =>
    /\ Engine!Reached(Engine!MonthSpend(q.org), caps[q.org].month)
    /\ q.pc \in {"daysum", "monthsum"} => q.caps = caps[q.org]
    /\ q.pc \notin Through
Stands(q, f) ==
  q.pc # "idle" /\ q.auth = "apikey" =>
    BalanceStands(q, f) /\ DayStands(q, f) /\ MonthStands(q, f)

(* The inductive invariant: a ground that stands is still true, and was seen
   by every read made since that could see it. *)
SpendInv ==
  /\ SpendTypes
  /\ \A r \in Request : charge[r].pc # "none" => req[r].pc = "served"
  /\ \A r \in Request : Stands(req[r], fence[r])
  /\ SpendIsPaid

LEMMA MonthType ==
  ASSUME NEW d \in Day
  PROVE  MonthOf(d) \in Month
<1>1. d \in Nat /\ LastDay \in Nat /\ d <= LastDay /\ DaysPerMonth \in Nat \ {0}
  BY DateAssumption DEF Day
<1>2. d \div DaysPerMonth \in Nat /\ LastDay \div DaysPerMonth \in Nat
  BY <1>1
<1>3. d \div DaysPerMonth <= LastDay \div DaysPerMonth
  <2> DEFINE a == d \div DaysPerMonth
             b == LastDay \div DaysPerMonth
             n == DaysPerMonth
  <2>1. n * a <= d /\ LastDay < n * b + n
    BY <1>1
  <2>2. a \in Nat /\ b \in Nat /\ n \in Nat \ {0}
    BY <1>1, <1>2
  <2>3. n * a < n * b + n /\ n * b + n = n * (b + 1)
    <3>1. n * a \in Int /\ n * b \in Int /\ n * (b + 1) \in Int /\ n * b + n = n * (b + 1)
      <4> HIDE DEF a, b, n
      <4>1. QED
        BY <2>2
    <3> HIDE DEF a, b, n
    <3>2. QED
      BY <1>1, <2>1, <2>2, <3>1
  <2> HIDE DEF a, b, n
  <2>4. a < b + 1
    BY <2>2, <2>3
  <2>5. QED
    BY <2>2, <2>4 DEF a, b
<1>4. QED
  BY <1>2, <1>3 DEF MonthOf, Month

LEMMA DatesFinite ==
  /\ IsFiniteSet(Day) /\ IsFiniteSet(Month)
  /\ 0 \in Day /\ 0 \in Month
<1>1. 0 \in Day
  BY DateAssumption DEF Day
<1>2. MonthOf(LastDay) \in Nat
  BY DateAssumption DEF MonthOf
<1>3. QED
  BY <1>1, <1>2, DateAssumption, FS_Interval DEF Day, Month

LEMMA SpendBegin == Engine!Init => SpendInv
<1> SUFFICES ASSUME Engine!Init PROVE SpendInv
  OBVIOUS
<1>1. SpendTypes
  <2>1. balance \in [Org -> Int] /\ booked \in [Org -> Int]
    BY OpeningAssumption DEF Engine!Init, Engine!AccountInit
  <2>2. spent \in [Org -> [Day -> Nat]] /\ spentIn \in [Org -> [Month -> Nat]]
    BY DEF Engine!Init, Engine!Day, Engine!Month, Engine!MonthOf, Day, Month, MonthOf
  <2>3. caps \in [Org -> CapSets] /\ today \in Day
    BY DatesFinite DEF Engine!Init
  <2>4. req \in [Request -> RequestType] /\ charge \in [Request -> ChargeType]
    BY DEF Engine!Init, Engine!Idle, Engine!NoCharge, RequestType, ChargeType
  <2>5. fence \in [Request -> SUBSET AllGrounds]
    BY DEF Engine!Init
  <2>6. QED
    BY <2>1, <2>2, <2>3, <2>4, <2>5 DEF SpendTypes
<1>2. \A r \in Request : charge[r].pc = "none" /\ req[r].pc = "idle"
  BY DEF Engine!Init, Engine!Idle, Engine!NoCharge
<1>3. SpendIsPaid
  <2>1. ASSUME NEW o \in Org
        PROVE  /\ SumFunctionOnSet(spent[o], Day) = 0 /\ SumFunctionOnSet(spentIn[o], Month) = 0
               /\ Paid(o) = 0
    <3>1. \A d \in Day : spent[o][d] = 0
      BY DEF Engine!Init, Engine!Day, Day
    <3>2. \A m \in Month : spentIn[o][m] = 0
      BY DEF Engine!Init, Engine!Month, Month, Engine!MonthOf, MonthOf
    <3> DEFINE fun == [r \in Request |-> Share(o, r)]
    <3>3. \A r \in Request : fun[r] = 0
      BY <1>2 DEF Share
    <3> HIDE DEF fun
    <3>4. SumFunctionOnSet(fun, Request) = 0
      BY <3>3, RequestAssumption, SumZero
    <3>5. QED
      BY <3>1, <3>2, <3>4, DatesFinite, SumZero DEF Paid, fun
  <2>2. QED
    BY <2>1 DEF SpendIsPaid
<1>4. QED
  BY <1>1, <1>2, <1>3 DEF SpendInv, Stands

(* What o paid stays what its charges say while these say the same. *)
LEMMA PaidKept ==
  ASSUME SpendIsPaid, UNCHANGED <<spent, spentIn>>,
         \A o \in Org, r \in Request : Share(o, r)' = Share(o, r)
  PROVE  SpendIsPaid'
<1>1. ASSUME NEW o \in Org PROVE Paid(o)' = Paid(o)
  BY DEF Paid
<1>2. QED
  BY <1>1 DEF SpendIsPaid

(* A request that is not charged yet goes on. *)
LEMMA RequestMoves ==
  ASSUME SpendInv, NEW r \in Request, NEW q \in RequestType, NEW f \in SUBSET AllGrounds,
         req' = [req EXCEPT ![r] = q], fence' = [fence EXCEPT ![r] = f],
         charge[r].pc = "none", Stands(q, f),
         UNCHANGED <<balance, booked, spent, spentIn, caps, today, charge>>
  PROVE  SpendInv'
<1>1. SpendTypes'
  BY DEF SpendInv, SpendTypes
<1>2. \A s \in Request : charge'[s].pc # "none" => req'[s].pc = "served"
  BY DEF SpendInv, SpendTypes
<1>3. \A s \in Request : Stands(req[s], fence[s])'
  <2>1. \A p, g : Stands(p, g)' <=> Stands(p, g)
    BY DEF Stands, BalanceStands, DayStands, MonthStands, Engine!DaySpend, Engine!MonthSpend, Engine!MonthOf
  <2>2. \A s \in Request : Stands(req'[s], fence'[s])
    BY DEF SpendInv, SpendTypes
  <2>3. QED
    BY <2>1, <2>2
<1>4. SpendIsPaid'
  <2>1. \A o \in Org, s \in Request : Share(o, s)' = Share(o, s)
    BY DEF Share, SpendInv, SpendTypes
  <2>2. SpendIsPaid /\ UNCHANGED <<spent, spentIn>>
    BY DEF SpendInv
  <2>3. QED
    BY <2>1, <2>2, PaidKept
<1>5. QED
  BY <1>1, <1>2, <1>3, <1>4 DEF SpendInv

(* What the position of a request says of the rest of it. *)
LEMMA Shapes ==
  ASSUME SpendInv, NEW r \in Request
  PROVE  /\ req[r].pc = "arrived" => req[r] \in [pc : {"arrived"}, org : Org, auth : Engine!Auth]
         /\ req[r].pc \in {"fetched", "caps"} =>
              req[r] \in [pc : {"fetched", "caps"}, org : Org, auth : Engine!Auth,
                          funds : {"unknown", "some", "none"}]
         /\ req[r].pc = "daysum" =>
              req[r] \in [pc : {"daysum"}, org : Org, auth : Engine!Auth, caps : CapSets]
         /\ req[r].pc = "monthsum" =>
              req[r] \in [pc : {"monthsum"}, org : Org, auth : Engine!Auth, caps : CapSets, daySpend : Nat]
         /\ req[r].pc # "idle" => req[r].org \in Org /\ req[r].auth \in Engine!Auth
         /\ req[r].pc # "served" => charge[r].pc = "none"
         /\ Stands(req[r], fence[r]) /\ fence[r] \in SUBSET AllGrounds
         /\ req' = req => req' = [req EXCEPT ![r] = req[r]]
         /\ fence' = fence => fence' = [fence EXCEPT ![r] = fence[r]]
BY DEF SpendInv, SpendTypes, RequestType

LEMMA ArriveStep ==
  ASSUME SpendInv, NEW r \in Request, Engine!Arrive(r)
  PROVE  SpendInv'
<1>1. PICK o \in Org, auth \in Engine!Auth :
        /\ req' = [req EXCEPT ![r] = [pc |-> "arrived", org |-> o, auth |-> auth]]
        /\ fence' = [fence EXCEPT ![r] = Engine!Grounds(o)]
  BY DEF Engine!Arrive
<1> DEFINE q == [pc |-> "arrived", org |-> o, auth |-> auth]
           f == Engine!Grounds(o)
<1>2. q \in RequestType
  BY DEF RequestType
<1>3. f \in SUBSET AllGrounds
  BY DEF Engine!Grounds, AllGrounds, Engine!CapGrounds
<1>4. Stands(q, f)
  BY DEF Engine!Grounds, Stands, BalanceStands, DayStands, MonthStands, Through
<1>5. charge[r].pc = "none" /\ UNCHANGED <<balance, booked, spent, spentIn, caps, today, charge>>
  BY Shapes DEF Engine!Arrive
<1> HIDE DEF q, f
<1>6. QED
  BY <1>1, <1>2, <1>3, <1>4, <1>5, RequestMoves DEF q, f

LEMMA FetchStep ==
  ASSUME SpendInv, NEW r \in Request, Engine!FetchSettings(r)
  PROVE  SpendInv'
<1>1. req[r] \in [pc : {"arrived"}, org : Org, auth : Engine!Auth]
  BY Shapes DEF Engine!FetchSettings
<1>2. PICK funds \in {"unknown", IF balance[req[r].org] > 0 THEN "some" ELSE "none"} :
        req' = [req EXCEPT ![r] = [pc |-> "fetched", org |-> @.org, auth |-> @.auth, funds |-> funds]]
  BY DEF Engine!FetchSettings
<1> DEFINE q == [pc |-> "fetched", org |-> req[r].org, auth |-> req[r].auth, funds |-> funds]
<1>3. q \in RequestType /\ req' = [req EXCEPT ![r] = q]
  BY <1>1, <1>2 DEF RequestType
<1>4. Stands(q, fence[r])
  <2>1. Stands(req[r], fence[r]) /\ balance[q.org] \in Int
    BY <1>1, Shapes DEF SpendInv, SpendTypes
  <2>2. QED
    BY <1>1, <2>1 DEF Stands, BalanceStands, DayStands, MonthStands, Through
<1>5. /\ charge[r].pc = "none" /\ UNCHANGED <<balance, booked, spent, spentIn, caps, today, charge>>
      /\ fence[r] \in SUBSET AllGrounds /\ fence' = [fence EXCEPT ![r] = fence[r]]
  BY <1>1, Shapes DEF Engine!FetchSettings
<1> HIDE DEF q
<1>6. QED
  BY <1>3, <1>4, <1>5, RequestMoves

(* The pre-check before any cap is read: refused, let through, or on. *)
LEMMA PreCheckStep ==
  ASSUME SpendInv, NEW r \in Request, Engine!RefuseEarly(r) \/ Engine!PreCheck(r)
  PROVE  SpendInv'
<1>1. req[r] \in [pc : {"fetched", "caps"}, org : Org, auth : Engine!Auth, funds : {"unknown", "some", "none"}]
  BY Shapes DEF Engine!RefuseEarly, Engine!PreCheck
<1>2. PICK pc \in {"admitted", "caps", "rejected"} :
        /\ Engine!Goto(r, pc)
        /\ pc = "admitted" => req[r].auth = "jwt"
        /\ pc = "caps" => req[r].funds = "some"
  BY DEF Engine!RefuseEarly, Engine!PreCheck
<1> DEFINE q == [req[r] EXCEPT !.pc = pc]
<1>3. q \in RequestType /\ req' = [req EXCEPT ![r] = q]
  BY <1>1, <1>2 DEF RequestType, Engine!Goto, SpendInv, SpendTypes
<1>4. Stands(q, fence[r])
  <2>1. Stands(req[r], fence[r]) /\ req[r].pc = "fetched"
    BY Shapes DEF Engine!RefuseEarly, Engine!PreCheck
  <2>2. q.pc = pc /\ q.org = req[r].org /\ q.auth = req[r].auth /\ q.funds = req[r].funds
    BY <1>1
  <2>3. QED
    BY <1>1, <1>2, <2>1, <2>2 DEF Stands, BalanceStands, DayStands, MonthStands, Through
<1>5. /\ charge[r].pc = "none" /\ UNCHANGED <<balance, booked, spent, spentIn, caps, today, charge>>
      /\ fence[r] \in SUBSET AllGrounds /\ fence' = [fence EXCEPT ![r] = fence[r]]
  BY <1>1, Shapes DEF Engine!RefuseEarly, Engine!PreCheck
<1> HIDE DEF q
<1>6. QED
  BY <1>3, <1>4, <1>5, RequestMoves

LEMMA CapsStep ==
  ASSUME SpendInv, NEW r \in Request, Engine!ReadCaps(r)
  PROVE  SpendInv'
<1>1. /\ req[r] \in [pc : {"fetched", "caps"}, org : Org, auth : Engine!Auth, funds : {"unknown", "some", "none"}]
      /\ req[r].pc = "caps" /\ req[r].org \in Org
  BY Shapes DEF Engine!ReadCaps
<1> DEFINE c == caps[req[r].org]
           adm == [req[r] EXCEPT !.pc = "admitted"]
           day == [pc |-> "daysum", org |-> req[r].org, auth |-> req[r].auth, caps |-> c]
<1>2. c \in CapSets
  BY <1>1 DEF SpendInv, SpendTypes
<1>3. /\ adm \in RequestType /\ day \in RequestType
      /\ adm.pc = "admitted" /\ adm.org = req[r].org /\ adm.auth = req[r].auth
  BY <1>1, <1>2 DEF RequestType
<1>4. /\ charge[r].pc = "none" /\ UNCHANGED <<balance, booked, spent, spentIn, caps, today, charge>>
      /\ fence[r] \in SUBSET AllGrounds /\ fence[r] \ Engine!CapGrounds \in SUBSET AllGrounds
      /\ fence' = fence => fence' = [fence EXCEPT ![r] = fence[r]]
  BY <1>1, Shapes DEF Engine!ReadCaps
<1>5. Stands(req[r], fence[r]) /\ req[r].pc = "caps"
  BY Shapes DEF Engine!ReadCaps
<1>6. CASE c = [f \in DOMAIN c |-> NoCap] /\ Engine!Goto(r, "admitted") /\ UNCHANGED fence
  <2>1. c.day = NoCap /\ c.month = NoCap
    BY <1>2, <1>6, CapAssumption
  <2>2. Stands(adm, fence[r])
    BY <1>3, <1>5, <2>1
    DEF Stands, BalanceStands, DayStands, MonthStands, Through, Engine!Reached
  <2>3. req' = [req EXCEPT ![r] = adm] /\ fence' = [fence EXCEPT ![r] = fence[r]]
    BY <1>4, <1>6 DEF Engine!Goto, SpendInv, SpendTypes
  <2> HIDE DEF adm
  <2>4. QED
    BY <1>3, <1>4, <2>2, <2>3, RequestMoves
<1>7. CASE /\ req' = [req EXCEPT ![r] = [pc |-> "daysum", org |-> @.org, auth |-> @.auth, caps |-> c]]
           /\ UNCHANGED fence
  <2>1. Stands(day, fence[r])
    BY <1>5 DEF Stands, BalanceStands, DayStands, MonthStands, Through
  <2>2. req' = [req EXCEPT ![r] = day] /\ fence' = [fence EXCEPT ![r] = fence[r]]
    BY <1>4, <1>7 DEF SpendInv, SpendTypes
  <2> HIDE DEF day
  <2>3. QED
    BY <1>3, <1>4, <2>1, <2>2, RequestMoves
<1>8. CASE Engine!Goto(r, "admitted") /\ fence' = [fence EXCEPT ![r] = @ \ Engine!CapGrounds]
  <2>1. Stands(adm, fence[r] \ Engine!CapGrounds)
    BY <1>3, <1>5 DEF Stands, BalanceStands, DayStands, MonthStands, Through, Engine!CapGrounds
  <2>2. req' = [req EXCEPT ![r] = adm] /\ fence' = [fence EXCEPT ![r] = fence[r] \ Engine!CapGrounds]
    BY <1>8 DEF Engine!Goto, SpendInv, SpendTypes
  <2> HIDE DEF adm
  <2>3. QED
    BY <1>3, <1>4, <2>1, <2>2, RequestMoves
<1>9. QED
  BY <1>6, <1>7, <1>8 DEF Engine!ReadCaps

LEMMA SumDayStep ==
  ASSUME SpendInv, NEW r \in Request, Engine!SumDay(r)
  PROVE  SpendInv'
<1>1. req[r] \in [pc : {"daysum"}, org : Org, auth : Engine!Auth, caps : CapSets]
  BY Shapes DEF Engine!SumDay
<1> DEFINE q(n) == [pc |-> "monthsum", org |-> req[r].org, auth |-> req[r].auth,
                    caps |-> req[r].caps, daySpend |-> n]
           less == fence[r] \ {"day", "due"}
<1>2. Engine!DaySpend(req[r].org) \in Nat
  BY <1>1 DEF Engine!DaySpend, SpendInv, SpendTypes
<1>3. \A n \in Nat : q(n) \in RequestType
  BY <1>1 DEF RequestType
<1>4. /\ charge[r].pc = "none" /\ UNCHANGED <<balance, booked, spent, spentIn, caps, today, charge>>
      /\ fence[r] \in SUBSET AllGrounds /\ less \in SUBSET AllGrounds
      /\ fence' = fence => fence' = [fence EXCEPT ![r] = fence[r]]
  BY <1>1, Shapes DEF Engine!SumDay
<1>5. Stands(req[r], fence[r]) /\ req[r].pc = "daysum"
  BY Shapes DEF Engine!SumDay
<1>6. CASE /\ req' = [req EXCEPT ![r] = [pc |-> "monthsum", org |-> @.org, auth |-> @.auth,
                                       caps |-> @.caps, daySpend |-> Engine!DaySpend(@.org)]]
           /\ UNCHANGED fence
  <2> DEFINE p == q(Engine!DaySpend(req[r].org))
  <2>1. Stands(p, fence[r])
    BY <1>1, <1>5 DEF Stands, BalanceStands, DayStands, MonthStands, Through
  <2>2. req' = [req EXCEPT ![r] = p] /\ fence' = [fence EXCEPT ![r] = fence[r]] /\ p \in RequestType
    BY <1>2, <1>3, <1>4, <1>6 DEF SpendInv, SpendTypes
  <2> HIDE DEF p
  <2>3. QED
    BY <1>4, <2>1, <2>2, RequestMoves
<1>7. CASE /\ req' = [req EXCEPT ![r] = [pc |-> "monthsum", org |-> @.org, auth |-> @.auth,
                                       caps |-> @.caps, daySpend |-> 0]]
           /\ fence' = [fence EXCEPT ![r] = @ \ {"day", "due"}]
  <2> DEFINE p == q(0)
  <2>1. Stands(p, less)
    BY <1>1, <1>5 DEF Stands, BalanceStands, DayStands, MonthStands, Through
  <2>2. req' = [req EXCEPT ![r] = p] /\ fence' = [fence EXCEPT ![r] = less] /\ p \in RequestType
    BY <1>3, <1>7 DEF SpendInv, SpendTypes
  <2> HIDE DEF p, less
  <2>3. QED
    BY <1>4, <2>1, <2>2, RequestMoves
<1>8. QED
  BY <1>6, <1>7 DEF Engine!SumDay

LEMMA SumMonthStep ==
  ASSUME SpendInv, NEW r \in Request, Engine!SumMonth(r)
  PROVE  SpendInv'
<1>1. req[r] \in [pc : {"monthsum"}, org : Org, auth : Engine!Auth, caps : CapSets, daySpend : Nat]
  BY Shapes DEF Engine!SumMonth
<1> DEFINE sum == Engine!MonthSpend(req[r].org)
           less == fence[r] \ {"month"}
<1>2. PICK n, f : /\ Engine!Goto(r, Engine!Verdict(r, n)) /\ fence' = [fence EXCEPT ![r] = f]
                  /\ (n = sum /\ f = fence[r]) \/ f = less
  <2>1. CASE Engine!Goto(r, Engine!Verdict(r, sum)) /\ UNCHANGED fence
    BY <2>1, Shapes
  <2>2. CASE Engine!Goto(r, Engine!Verdict(r, 0)) /\ fence' = [fence EXCEPT ![r] = @ \ {"month"}]
    BY <2>2 DEF SpendInv, SpendTypes
  <2>3. QED
    BY <2>1, <2>2 DEF Engine!SumMonth
<1> DEFINE q == [req[r] EXCEPT !.pc = Engine!Verdict(r, n)]
<1>3. Engine!Verdict(r, n) \in {"rejected", "admitted"}
  BY DEF Engine!Verdict
<1>4. /\ q \in RequestType /\ req' = [req EXCEPT ![r] = q]
      /\ q.pc = Engine!Verdict(r, n) /\ q.org = req[r].org /\ q.auth = req[r].auth
  BY <1>1, <1>2, <1>3 DEF RequestType, Engine!Goto, SpendInv, SpendTypes
<1>5. /\ charge[r].pc = "none" /\ UNCHANGED <<balance, booked, spent, spentIn, caps, today, charge>>
      /\ f \in SUBSET AllGrounds
  BY <1>1, <1>2, Shapes DEF Engine!SumMonth
<1>6. Stands(q, f)
  <2>1. Stands(req[r], fence[r]) /\ req[r].pc = "monthsum"
    BY Shapes DEF Engine!SumMonth
  <2>2. ASSUME "day" \in f, req[r].auth = "apikey" PROVE Engine!Verdict(r, n) = "rejected"
    <3>1. Engine!Reached(req[r].daySpend, req[r].caps.day)
      BY <1>2, <2>1, <2>2 DEF Stands, DayStands
    <3>2. QED
      BY <3>1 DEF Engine!Verdict
  <2>3. ASSUME "month" \in f, req[r].auth = "apikey" PROVE Engine!Verdict(r, n) = "rejected"
    <3>1. n = sum /\ Engine!Reached(sum, req[r].caps.month)
      BY <1>2, <2>1, <2>3 DEF Stands, MonthStands
    <3>2. QED
      BY <3>1 DEF Engine!Verdict
  <2>4. f \subseteq fence[r]
    BY <1>2
  <2> HIDE DEF q, sum, less
  <2>5. QED
    BY <1>3, <1>4, <2>1, <2>2, <2>3, <2>4
    DEF Stands, BalanceStands, DayStands, MonthStands, Through
<1> HIDE DEF q
<1>7. QED
  BY <1>2, <1>4, <1>5, <1>6, RequestMoves

(* An admitted request is answered, and its charge queued unless it is free. *)
LEMMA AnswerStep ==
  ASSUME SpendInv, NEW r \in Request, NEW cost \in Amount, NEW tokens \in BOOLEAN,
         req[r].pc = "admitted", Engine!Answer(r, cost, tokens),
         UNCHANGED <<balance, booked, spent, spentIn, caps, today, fence>>
  PROVE  SpendInv'
<1> DEFINE q == [pc |-> "served", org |-> req[r].org, auth |-> req[r].auth, tokens |-> tokens]
           c == IF cost > 0 THEN [pc |-> "queued", amount |-> cost] ELSE Engine!NoCharge
<1>1. /\ req[r].org \in Org /\ req[r].auth \in Engine!Auth /\ charge[r].pc = "none"
      /\ Stands(req[r], fence[r])
  BY Shapes
<1>2. q \in RequestType /\ c \in ChargeType /\ c.pc \in {"none", "queued"}
  BY <1>1 DEF RequestType, ChargeType, Engine!NoCharge
<1>3. req' = [req EXCEPT ![r] = q] /\ charge' = [charge EXCEPT ![r] = c]
  BY DEF Engine!Answer, SpendInv, SpendTypes
<1>4. q.pc = "served" /\ q.org = req[r].org /\ q.auth = req[r].auth
  OBVIOUS
<1> HIDE DEF q, c
<1>5. SpendTypes'
  BY <1>2, <1>3 DEF SpendInv, SpendTypes
<1>6. \A s \in Request : charge'[s].pc # "none" => req'[s].pc = "served"
  BY <1>3, <1>4 DEF SpendInv, SpendTypes
<1>7. \A s \in Request : Stands(req[s], fence[s])'
  <2>1. \A p, g : Stands(p, g)' <=> Stands(p, g)
    BY DEF Stands, BalanceStands, DayStands, MonthStands, Engine!DaySpend, Engine!MonthSpend, Engine!MonthOf
  <2>2. Stands(q, fence[r])
    BY <1>1, <1>4 DEF Stands, BalanceStands, DayStands, MonthStands, Through
  <2>3. \A s \in Request : Stands(req'[s], fence[s])
    BY <1>3, <2>2 DEF SpendInv, SpendTypes
  <2>4. QED
    BY <2>1, <2>3
<1>8. SpendIsPaid'
  <2>1. \A o \in Org, s \in Request : Share(o, s)' = Share(o, s)
    BY <1>1, <1>2, <1>3 DEF Share, SpendInv, SpendTypes
  <2>2. SpendIsPaid /\ UNCHANGED <<spent, spentIn>>
    BY DEF SpendInv
  <2>3. QED
    BY <2>1, <2>2, PaidKept
<1>9. QED
  BY <1>5, <1>6, <1>7, <1>8 DEF SpendInv

LEMMA ServeStep ==
  ASSUME SpendInv, NEW r \in Request, Engine!ServeCached(r) \/ Engine!Generate(r)
  PROVE  SpendInv'
<1>1. CASE Engine!ServeCached(r)
  <2>1. CacheCost \in Amount /\ FALSE \in BOOLEAN
    BY CostAssumption
  <2>2. QED
    BY <1>1, <2>1, AnswerStep DEF Engine!ServeCached
<1>2. CASE Engine!Generate(r) /\ \E cost \in LLMCost : Engine!Answer(r, cost, TRUE)
  <2>1. PICK cost \in LLMCost : Engine!Answer(r, cost, TRUE)
    BY <1>2
  <2>2. cost \in Amount /\ TRUE \in BOOLEAN
    BY CostAssumption
  <2>3. QED
    BY <1>2, <2>1, <2>2, AnswerStep DEF Engine!Generate
<1>3. CASE Engine!Generate(r) /\ Engine!Goto(r, "failed") /\ UNCHANGED charge
  <2> DEFINE q == [req[r] EXCEPT !.pc = "failed"]
  <2>1. req[r].pc = "admitted" /\ req[r] \in RequestType
    BY <1>3 DEF Engine!Generate, SpendInv, SpendTypes
  <2>2. /\ q \in RequestType /\ req' = [req EXCEPT ![r] = q]
        /\ q.pc = "failed" /\ q.org = req[r].org /\ q.auth = req[r].auth
    BY <1>3, <2>1 DEF RequestType, Engine!Goto, SpendInv, SpendTypes
  <2> HIDE DEF q
  <2>3. Stands(q, fence[r])
    BY <2>1, <2>2, Shapes DEF Stands, BalanceStands, DayStands, MonthStands, Through
  <2>4. /\ charge[r].pc = "none" /\ UNCHANGED <<balance, booked, spent, spentIn, caps, today, charge>>
        /\ fence[r] \in SUBSET AllGrounds /\ fence' = [fence EXCEPT ![r] = fence[r]]
    BY <1>3, <2>1, Shapes DEF Engine!Generate
  <2>5. QED
    BY <2>2, <2>3, <2>4, RequestMoves
<1>4. QED
  BY <1>1, <1>2, <1>3 DEF Engine!Generate

(* A charge goes on without a commit. *)
LEMMA ChargeMoves ==
  ASSUME SpendInv, NEW r \in Request,
         Engine!BeginCharge(r) \/ Engine!ShortCharge(r) \/ Engine!FailCharge(r)
  PROVE  SpendInv'
<1>1. UNCHANGED <<balance, booked, spent, spentIn, caps, today, req, fence>>
  BY DEF Engine!BeginCharge, Engine!ShortCharge, Engine!FailCharge
<1>2. charge[r] \in ChargeType /\ charge[r].pc \in {"queued", "begun"} /\ today \in Day
  BY DEF SpendInv, SpendTypes, Engine!BeginCharge, Engine!ShortCharge, Engine!FailCharge
<1>3. PICK c \in ChargeType : charge' = [charge EXCEPT ![r] = c] /\ c.pc \notin {"none", "paid"}
  <2>1. CASE Engine!BeginCharge(r)
    <3> DEFINE c == [pc |-> "begun", amount |-> charge[r].amount, day |-> today]
    <3>1. c \in ChargeType /\ charge' = [charge EXCEPT ![r] = c] /\ c.pc = "begun"
      BY <1>2, <2>1 DEF ChargeType, Engine!BeginCharge, SpendInv, SpendTypes
    <3>2. QED
      BY <3>1
  <2>2. CASE Engine!ShortCharge(r)
    <3> DEFINE c == [charge[r] EXCEPT !.pc = "short"]
    <3>1. charge[r].pc = "begun"
      BY <2>2 DEF Engine!ShortCharge
    <3>2. c \in ChargeType /\ charge' = [charge EXCEPT ![r] = c] /\ c.pc = "short"
      BY <1>2, <2>2, <3>1 DEF ChargeType, Engine!ShortCharge, SpendInv, SpendTypes
    <3>3. QED
      BY <3>2
  <2>3. CASE Engine!FailCharge(r)
    <3> DEFINE c == [charge[r] EXCEPT !.pc = "failed"]
    <3>1. c \in ChargeType /\ charge' = [charge EXCEPT ![r] = c] /\ c.pc = "failed"
      BY <1>2, <2>3 DEF ChargeType, Engine!FailCharge, SpendInv, SpendTypes
    <3>2. QED
      BY <3>1
  <2>4. QED
    BY <2>1, <2>2, <2>3
<1>4. SpendTypes'
  BY <1>1, <1>3 DEF SpendInv, SpendTypes
<1>5. \A s \in Request : charge'[s].pc # "none" => req'[s].pc = "served"
  BY <1>1, <1>2, <1>3 DEF SpendInv, SpendTypes
<1>6. \A s \in Request : Stands(req[s], fence[s])'
  <2>1. \A p, g : Stands(p, g)' <=> Stands(p, g)
    BY <1>1
    DEF Stands, BalanceStands, DayStands, MonthStands, Engine!DaySpend, Engine!MonthSpend,
        Engine!MonthOf
  <2>2. QED
    BY <1>1, <2>1 DEF SpendInv
<1>7. SpendIsPaid'
  <2>1. \A o \in Org, s \in Request : Share(o, s)' = Share(o, s)
    BY <1>1, <1>2, <1>3 DEF Share, SpendInv, SpendTypes
  <2>2. SpendIsPaid /\ UNCHANGED <<spent, spentIn>>
    BY <1>1 DEF SpendInv
  <2>3. QED
    BY <2>1, <2>2, PaidKept
<1>8. QED
  BY <1>4, <1>5, <1>6, <1>7 DEF SpendInv

(* A debit never helps an organisation that has nothing. *)
LEMMA DebitLowers ==
  ASSUME NEW b \in Int, NEW a \in Nat, Engine!Covers(b, a)
  PROVE  /\ Engine!Left(b, a) \in Int
         /\ b <= 0 => Engine!Left(b, a) <= 0
BY DEF Engine!Covers, Engine!Left, Engine!Stored

(* Caps reached by a sum are reached by a larger one. *)
LEMMA StaysReached ==
  ASSUME NEW c \in CapSets, NEW f \in {"day", "month"}, NEW m \in Nat, NEW n \in Nat, m <= n,
         Engine!Reached(m, c[f])
  PROVE  Engine!Reached(n, c[f])
<1>1. c[f] \in Int \cup {NoCap}
  BY CapAssumption
<1>2. QED
  BY <1>1 DEF Engine!Reached

LEMMA CommitStep ==
  ASSUME SpendInv, NEW r \in Request, Engine!CommitCharge(r)
  PROVE  SpendInv'
<1> DEFINE own == req[r].org
           d == charge[r].day
           a == charge[r].amount
           p == Stored(a)
<1>1. charge[r] \in [pc : {"begun"}, amount : Amount, day : Day] /\ own \in Org
  <2>1. charge[r].pc = "begun" /\ charge[r] \in ChargeType
    BY DEF Engine!CommitCharge, SpendInv, SpendTypes
  <2>2. req[r].pc = "served"
    BY <2>1 DEF SpendInv
  <2>3. QED
    BY <2>1, <2>2, Shapes DEF ChargeType
<1>2. a \in Nat /\ p \in Nat /\ d \in Day /\ MonthOf(d) \in Month
  BY <1>1, AmountAssumption, StoredType, MonthType
<1>3. /\ Engine!Debit(own, a)
      /\ spent' = [spent EXCEPT ![own][d] = @ + p]
      /\ spentIn' = [spentIn EXCEPT ![own][MonthOf(d)] = @ + p]
      /\ charge' = [charge EXCEPT ![r].pc = "paid"]
      /\ UNCHANGED <<caps, today, req, fence>>
  BY DEF Engine!CommitCharge, Engine!Stored, Stored, Engine!MonthOf, MonthOf
<1> HIDE DEF own, d, a, p
<1>4. /\ \A o \in Org, e \in Day :
           spent'[o][e] = IF o = own /\ e = d THEN spent[o][e] + p ELSE spent[o][e]
      /\ \A o \in Org, m \in Month :
           spentIn'[o][m] = IF o = own /\ m = MonthOf(d) THEN spentIn[o][m] + p ELSE spentIn[o][m]
      /\ spent' \in [Org -> [Day -> Nat]] /\ spentIn' \in [Org -> [Month -> Nat]]
  BY <1>1, <1>2, <1>3 DEF SpendInv, SpendTypes
<1>5. /\ balance' \in [Org -> Int] /\ booked' \in [Org -> Int]
      /\ \A o \in Org : balance[o] <= 0 => balance'[o] <= 0
  <2>1. Engine!Covers(balance[own], a) /\ balance' = [balance EXCEPT ![own] = Engine!Left(@, a)]
    BY <1>3 DEF Engine!Debit
  <2>2. booked' = [booked EXCEPT ![own] = @ - p]
    BY <1>3 DEF Engine!Debit, Engine!Stored, Stored, p
  <2>3. balance[own] \in Int
    BY <1>1 DEF SpendInv, SpendTypes
  <2>4. QED
    BY <1>1, <1>2, <2>1, <2>2, <2>3, DebitLowers DEF SpendInv, SpendTypes
<1>6. charge'[r] = [charge[r] EXCEPT !.pc = "paid"] /\ \A s \in Request \ {r} : charge'[s] = charge[s]
  BY <1>3 DEF SpendInv, SpendTypes
<1>7. charge'[r] \in [pc : {"paid"}, amount : Amount, day : Day] /\ charge'[r].amount = a
  BY <1>1, <1>6 DEF a
<1>8. SpendTypes'
  <2>1. charge' \in [Request -> ChargeType]
    <3>1. DOMAIN charge' = Request /\ charge' = [s \in Request |-> charge'[s]]
      BY <1>3 DEF SpendInv, SpendTypes
    <3>2. \A s \in Request : charge'[s] \in ChargeType
      BY <1>6, <1>7 DEF SpendInv, SpendTypes, ChargeType
    <3>3. QED
      BY <3>1, <3>2
  <2>2. QED
    BY <1>3, <1>4, <1>5, <2>1 DEF SpendInv, SpendTypes
<1>9. \A s \in Request : charge'[s].pc # "none" => req'[s].pc = "served"
  BY <1>1, <1>3, <1>6 DEF SpendInv
<1>10. \A s \in Request : Stands(req[s], fence[s])'
  <2>1. SUFFICES ASSUME NEW s \in Request, req[s].pc # "idle", req[s].auth = "apikey"
                 PROVE  Stands(req[s], fence[s])'
    BY <1>3 DEF Stands
  <2> DEFINE o == req[s].org
             now == MonthOf(today)
  <2>2. o \in Org /\ Stands(req[s], fence[s]) /\ caps[o] \in CapSets /\ today \in Day /\ now \in Month
    BY <2>1, Shapes, MonthType DEF SpendInv, SpendTypes
  <2>3. /\ spent[o][today] \in Nat /\ spent'[o][today] \in Nat /\ spent[o][today] <= spent'[o][today]
        /\ spentIn[o][now] \in Nat /\ spentIn'[o][now] \in Nat /\ spentIn[o][now] <= spentIn'[o][now]
    <3>1. /\ \A e \in Day : spent[o][e] \in Nat /\ spent'[o][e] \in Nat
          /\ \A m \in Month : spentIn[o][m] \in Nat /\ spentIn'[o][m] \in Nat
      BY <1>4, <2>2 DEF SpendInv, SpendTypes
    <3>2. /\ spent'[o][today] \in {spent[o][today], spent[o][today] + p}
          /\ spentIn'[o][now] \in {spentIn[o][now], spentIn[o][now] + p}
      BY <1>4, <2>2
    <3> HIDE DEF now, o
    <3>3. QED
      BY <1>2, <2>2, <3>1, <3>2
  <2>4. BalanceStands(req[s], fence[s])'
    BY <1>3, <1>5, <2>1, <2>2 DEF Stands, BalanceStands
  <2>5. DayStands(req[s], fence[s])'
    <3>1. "day" \in fence[s] => Engine!Reached(spent'[o][today], caps[o].day)
      BY <2>1, <2>2, <2>3, StaysReached DEF Stands, DayStands, Engine!DaySpend
    <3>2. QED
      BY <1>3, <2>1, <2>2, <3>1 DEF Stands, DayStands, Engine!DaySpend, Engine!Reached
  <2>6. MonthStands(req[s], fence[s])'
    <3>1. "month" \in fence[s] => Engine!Reached(spentIn'[o][now], caps[o].month)
      BY <2>1, <2>2, <2>3, StaysReached
      DEF Stands, MonthStands, Engine!MonthSpend, Engine!MonthOf, MonthOf
    <3>2. QED
      BY <1>3, <2>1, <2>2, <3>1
      DEF Stands, MonthStands, Engine!MonthSpend, Engine!Reached, Engine!MonthOf, MonthOf
  <2>7. QED
    BY <2>4, <2>5, <2>6 DEF Stands
<1>11. SpendIsPaid'
  <2>1. SUFFICES ASSUME NEW o \in Org
                 PROVE  /\ SumFunctionOnSet(spent'[o], Day) = Paid(o)'
                        /\ SumFunctionOnSet(spentIn'[o], Month) = Paid(o)'
    BY DEF SpendIsPaid
  <2> DEFINE fun == [s \in Request |-> Share(o, s)]
             gun == [s \in Request |-> Share(o, s)']
             x == IF o = own THEN p ELSE 0
  <2>2. x \in Nat
    BY <1>2
  <2>3. \A s \in Request : fun[s] \in Int /\ gun[s] = IF s = r THEN fun[s] + x ELSE fun[s]
    <3>1. SUFFICES ASSUME NEW s \in Request
                   PROVE  fun[s] \in Int /\ gun[s] = IF s = r THEN fun[s] + x ELSE fun[s]
      OBVIOUS
    <3>2. CASE s = r
      <4>1. fun[s] = 0
        BY <1>1, <3>2 DEF Share
      <4>2. gun[s] = x
        BY <1>1, <1>3, <1>7, <1>9, <3>2 DEF Share, own, p
      <4>3. QED
        BY <2>2, <3>2, <4>1, <4>2
    <3>3. CASE s # r
      <4>1. fun[s] = gun[s]
        BY <1>3, <1>6, <3>3 DEF Share
      <4>2. fun[s] \in Int
        <5>1. charge[s].pc = "paid" => Stored(charge[s].amount) \in Nat
          BY AmountAssumption, StoredType DEF SpendInv, SpendTypes, ChargeType
        <5>2. QED
          BY <5>1 DEF Share
      <4>3. QED
        BY <3>3, <4>1, <4>2
    <3>4. QED
      BY <3>2, <3>3
  <2>4. Paid(o) = SumFunctionOnSet(fun, Request) /\ Paid(o)' = SumFunctionOnSet(gun, Request)
    BY DEF Paid
  <2>5. Paid(o)' = Paid(o) + x
    <3> HIDE DEF fun, gun, x
    <3>1. SumFunctionOnSet(gun, Request) = SumFunctionOnSet(fun, Request) + x
      BY <2>2, <2>3, RequestAssumption, SumAdd
    <3>2. QED
      BY <2>4, <3>1
  <2>6. SumFunctionOnSet(spent'[o], Day) = SumFunctionOnSet(spent[o], Day) + x
    <3> DEFINE g == spent[o]
               h == spent'[o]
    <3>1. \A e \in Day : g[e] \in Int
      BY DEF SpendInv, SpendTypes
    <3>2. \A e \in Day : h[e] = IF e = d THEN g[e] + x ELSE g[e]
      BY <1>4 DEF SpendInv, SpendTypes
    <3> HIDE DEF x, g, h
    <3>3. SumFunctionOnSet(h, Day) = SumFunctionOnSet(g, Day) + x
      BY <1>2, <2>2, <3>1, <3>2, DatesFinite, SumAdd
    <3>4. QED
      BY <3>3 DEF g, h
  <2>7. SumFunctionOnSet(spentIn'[o], Month) = SumFunctionOnSet(spentIn[o], Month) + x
    <3> DEFINE g == spentIn[o]
               h == spentIn'[o]
               n == MonthOf(d)
    <3>1. \A m \in Month : g[m] \in Int
      BY DEF SpendInv, SpendTypes
    <3>2. \A m \in Month : h[m] = IF m = n THEN g[m] + x ELSE g[m]
      BY <1>4 DEF SpendInv, SpendTypes
    <3>3. n \in Month
      BY <1>2
    <3> HIDE DEF x, g, h, n
    <3>4. SumFunctionOnSet(h, Month) = SumFunctionOnSet(g, Month) + x
      BY <2>2, <3>1, <3>2, <3>3, DatesFinite, SumAdd
    <3>5. QED
      BY <3>4 DEF g, h
  <2>8. SumFunctionOnSet(spent[o], Day) = Paid(o) /\ SumFunctionOnSet(spentIn[o], Month) = Paid(o)
    BY DEF SpendInv, SpendIsPaid
  <2>9. QED
    BY <2>5, <2>6, <2>7, <2>8
<1>12. QED
  BY <1>8, <1>9, <1>10, <1>11 DEF SpendInv

(* Credits, new limits and midnight lift the grounds they may end. *)
LEMMA LiftStep ==
  ASSUME SpendInv, NEW o \in Org, Engine!TopUp(o) \/ Engine!SetSpendLimits(o)
  PROVE  SpendInv'
<1>1. UNCHANGED <<spent, spentIn, today, req, charge>>
  BY DEF Engine!TopUp, Engine!SetSpendLimits
<1>2. /\ balance' \in [Org -> Int] /\ booked' \in [Org -> Int] /\ caps' \in [Org -> CapSets]
      /\ \A p \in Org : p # o => balance'[p] = balance[p] /\ caps'[p] = caps[p]
  <2>1. CASE Engine!TopUp(o)
    <3>1. PICK a \in TopUpAmount : Engine!Credit(o, a)
      BY <2>1 DEF Engine!TopUp
    <3>2. Engine!Stored(a) \in Int
      BY CostAssumption DEF Engine!Stored
    <3>3. QED
      BY <2>1, <3>1, <3>2 DEF Engine!TopUp, Engine!Credit, SpendInv, SpendTypes
  <2>2. CASE Engine!SetSpendLimits(o)
    BY <2>2 DEF Engine!SetSpendLimits, SpendInv, SpendTypes
  <2>3. QED
    BY <2>1, <2>2
<1>3. PICK G \in SUBSET AllGrounds :
        /\ Engine!Lift(o, G)
        /\ \/ balance' = balance /\ G = Engine!CapGrounds
           \/ caps' = caps /\ G = {"balance"}
  <2>1. CASE Engine!TopUp(o)
    <3>1. Engine!Lift(o, {"balance"}) /\ caps' = caps
      BY <2>1 DEF Engine!TopUp
    <3>2. {"balance"} \in SUBSET AllGrounds
      BY DEF AllGrounds
    <3>3. QED
      BY <3>1, <3>2
  <2>2. CASE Engine!SetSpendLimits(o)
    BY <2>2 DEF Engine!SetSpendLimits, AllGrounds
  <2>3. QED
    BY <2>1, <2>2
<1>4. \A s \in Request : fence'[s] = IF req[s].pc # "idle" /\ req[s].org = o THEN fence[s] \ G ELSE fence[s]
  BY <1>3 DEF Engine!Lift
<1>5. SpendTypes'
  <2>1. fence' \in [Request -> SUBSET AllGrounds]
    BY <1>3 DEF Engine!Lift, SpendInv, SpendTypes
  <2>2. QED
    BY <1>1, <1>2, <2>1 DEF SpendInv, SpendTypes
<1>6. \A s \in Request : Stands(req[s], fence[s])'
  <2>1. SUFFICES ASSUME NEW s \in Request, req[s].pc # "idle", req[s].auth = "apikey"
                 PROVE  Stands(req[s], fence[s])'
    BY <1>1 DEF Stands
  <2>2. req[s].org \in Org /\ Stands(req[s], fence[s])
    BY <2>1, Shapes
  <2>3. CASE req[s].org # o
    BY <1>1, <1>2, <1>4, <2>1, <2>2, <2>3
    DEF Stands, BalanceStands, DayStands, MonthStands, Engine!DaySpend, Engine!MonthSpend,
        Engine!MonthOf, Engine!Reached
  <2>4. CASE req[s].org = o /\ caps' = caps /\ G = {"balance"}
    BY <1>1, <1>4, <2>1, <2>2, <2>4
    DEF Stands, BalanceStands, DayStands, MonthStands, Engine!DaySpend, Engine!MonthSpend,
        Engine!MonthOf, Engine!Reached
  <2>5. CASE req[s].org = o /\ balance' = balance /\ G = Engine!CapGrounds
    BY <1>1, <1>4, <2>1, <2>2, <2>5
    DEF Stands, BalanceStands, DayStands, MonthStands, Engine!CapGrounds
  <2>6. QED
    BY <1>3, <2>3, <2>4, <2>5
<1>7. SpendIsPaid'
  <2>1. \A p \in Org, s \in Request : Share(p, s)' = Share(p, s)
    BY <1>1 DEF Share
  <2>2. SpendIsPaid /\ UNCHANGED <<spent, spentIn>>
    BY <1>1 DEF SpendInv
  <2>3. QED
    BY <2>1, <2>2, PaidKept
<1>8. QED
  BY <1>1, <1>5, <1>6, <1>7 DEF SpendInv

LEMMA MidnightStep ==
  ASSUME SpendInv, Engine!NextDay
  PROVE  SpendInv'
<1>1. UNCHANGED <<balance, booked, spent, spentIn, caps, req, charge>>
  BY DEF Engine!NextDay
<1>2. today' \in Day
  BY DateAssumption DEF Engine!NextDay, SpendInv, SpendTypes, Day
<1>3. \A s \in Request : /\ fence'[s] \subseteq fence[s] /\ "day" \notin fence'[s]
                         /\ "month" \in fence'[s] => MonthOf(today') = MonthOf(today)
  BY DEF Engine!NextDay, Engine!CapGrounds, Engine!MonthOf, MonthOf
<1>4. SpendTypes'
  <2>1. fence' \in [Request -> SUBSET AllGrounds]
    BY DEF Engine!NextDay, SpendInv, SpendTypes
  <2>2. QED
    BY <1>1, <1>2, <2>1 DEF SpendInv, SpendTypes
<1>5. \A s \in Request : Stands(req[s], fence[s])'
  <2>1. SUFFICES ASSUME NEW s \in Request, req[s].pc # "idle", req[s].auth = "apikey"
                 PROVE  Stands(req[s], fence[s])'
    BY <1>1 DEF Stands
  <2>2. Stands(req[s], fence[s])
    BY Shapes
  <2>3. BalanceStands(req[s], fence[s])' /\ DayStands(req[s], fence[s])'
    BY <1>1, <1>3, <2>1, <2>2 DEF Stands, BalanceStands, DayStands
  <2>4. MonthStands(req[s], fence[s])'
    BY <1>1, <1>3, <2>1, <2>2
    DEF Stands, MonthStands, Engine!MonthSpend, Engine!MonthOf, MonthOf, Engine!Reached
  <2>5. QED
    BY <2>3, <2>4 DEF Stands
<1>6. SpendIsPaid'
  <2>1. \A p \in Org, s \in Request : Share(p, s)' = Share(p, s)
    BY <1>1 DEF Share
  <2>2. SpendIsPaid /\ UNCHANGED <<spent, spentIn>>
    BY <1>1 DEF SpendInv
  <2>3. QED
    BY <2>1, <2>2, PaidKept
<1>7. QED
  BY <1>1, <1>4, <1>5, <1>6 DEF SpendInv

(* The gateway dies: what was under way is lost, what was settled stays. *)
LEMMA DeathStep ==
  ASSUME SpendInv, Engine!Crash
  PROVE  SpendInv'
<1>1. UNCHANGED <<balance, booked, spent, spentIn, caps, today, fence>>
  BY DEF Engine!Crash
<1>2. ASSUME NEW s \in Request
      PROVE  /\ req'[s] \in RequestType
             /\ \/ req'[s] = req[s]
                \/ /\ req[s].pc \notin {"idle", "served"} /\ req'[s].pc = "lost"
                   /\ req'[s].org = req[s].org /\ req'[s].auth = req[s].auth
  <2>1. req[s] \in RequestType
    BY DEF SpendInv, SpendTypes
  <2>2. CASE req[s].pc \in Engine!Responded \cup {"idle"}
    BY <2>1, <2>2 DEF Engine!Crash
  <2>3. CASE req[s].pc \notin Engine!Responded \cup {"idle"}
    <3>1. req'[s] = [req[s] EXCEPT !.pc = "lost"]
      BY <2>3 DEF Engine!Crash
    <3>2. QED
      BY <2>1, <2>3, <3>1 DEF RequestType, Engine!Responded
  <2>4. QED
    BY <2>2, <2>3
<1>3. ASSUME NEW s \in Request
      PROVE  /\ charge'[s] \in ChargeType
             /\ \/ charge'[s] = charge[s]
                \/ charge[s].pc \in {"queued", "begun"} /\ charge'[s].pc = "lost"
  <2>1. charge[s] \in ChargeType
    BY DEF SpendInv, SpendTypes
  <2>2. CASE charge[s].pc \in Engine!Settled
    BY <2>1, <2>2 DEF Engine!Crash
  <2>3. CASE charge[s].pc \notin Engine!Settled
    <3>1. charge'[s] = [charge[s] EXCEPT !.pc = "lost"]
      BY <2>3 DEF Engine!Crash
    <3>2. QED
      BY <2>1, <2>3, <3>1 DEF ChargeType, Engine!Settled
  <2>4. QED
    BY <2>2, <2>3
<1>4. SpendTypes'
  <2>1. req' \in [Request -> RequestType] /\ charge' \in [Request -> ChargeType]
    BY <1>2, <1>3 DEF Engine!Crash
  <2>2. QED
    BY <1>1, <2>1 DEF SpendInv, SpendTypes
<1>5. \A s \in Request : charge'[s].pc # "none" => req'[s].pc = "served"
  BY <1>2, <1>3 DEF SpendInv
<1>6. \A s \in Request : Stands(req[s], fence[s])'
  <2>1. \A p, g : Stands(p, g)' <=> Stands(p, g)
    BY <1>1
    DEF Stands, BalanceStands, DayStands, MonthStands, Engine!DaySpend, Engine!MonthSpend,
        Engine!MonthOf
  <2>2. ASSUME NEW s \in Request PROVE Stands(req'[s], fence[s])
    <3>1. Stands(req[s], fence[s])
      BY Shapes
    <3>2. CASE req'[s] = req[s]
      BY <3>1, <3>2
    <3>3. CASE req'[s] # req[s]
      BY <1>2, <3>1, <3>3 DEF Stands, BalanceStands, DayStands, MonthStands, Through
    <3>4. QED
      BY <3>2, <3>3
  <2>3. QED
    BY <1>1, <2>1, <2>2
<1>7. SpendIsPaid'
  <2>1. ASSUME NEW o \in Org, NEW s \in Request PROVE Share(o, s)' = Share(o, s)
    <3>1. charge[s].pc = "paid" => req[s].pc = "served"
      BY DEF SpendInv
    <3>2. QED
      BY <1>2, <1>3, <3>1 DEF Share
  <2>2. SpendIsPaid /\ UNCHANGED <<spent, spentIn>>
    BY <1>1 DEF SpendInv
  <2>3. QED
    BY <2>1, <2>2, PaidKept
<1>8. QED
  BY <1>4, <1>5, <1>6, <1>7 DEF SpendInv

LEMMA SpendStep ==
  ASSUME SpendInv, [Engine!Next]_(Engine!vars)
  PROVE  SpendInv'
<1>1. CASE UNCHANGED Engine!vars
  <2>1. UNCHANGED <<balance, booked, spent, spentIn, caps, today, req, charge, fence>>
    BY <1>1 DEF Engine!vars
  <2>2. SpendIsPaid'
    <3>1. \A o \in Org, s \in Request : Share(o, s)' = Share(o, s)
      BY <2>1 DEF Share
    <3>2. SpendIsPaid /\ UNCHANGED <<spent, spentIn>>
      BY <2>1 DEF SpendInv
    <3>3. QED
      BY <3>1, <3>2, PaidKept
  <2>3. \A p, g : Stands(p, g)' <=> Stands(p, g)
    BY <2>1
    DEF Stands, BalanceStands, DayStands, MonthStands, Engine!DaySpend, Engine!MonthSpend,
        Engine!MonthOf
  <2>4. \A s \in Request : Stands(req[s], fence[s])'
    BY <2>1, <2>3 DEF SpendInv
  <2>5. SpendTypes'
    BY <2>1 DEF SpendInv, SpendTypes
  <2>6. QED
    BY <2>1, <2>2, <2>4, <2>5 DEF SpendInv
<1>2. ASSUME NEW r \in Request, Engine!Handle(r)
      PROVE  SpendInv'
  BY <1>2, FetchStep, PreCheckStep, CapsStep, SumDayStep, SumMonthStep, ServeStep
  DEF Engine!Handle
<1>3. ASSUME NEW r \in Request, Engine!ChargeFor(r) \/ Engine!FailCharge(r)
      PROVE  SpendInv'
  BY <1>3, ChargeMoves, CommitStep DEF Engine!ChargeFor
<1>4. QED
  BY <1>1, <1>2, <1>3, ArriveStep, LiftStep, MidnightStep, DeathStep DEF Engine!Next

LEMMA SpendAlways == Engine!Spec => []SpendInv
BY SpendBegin, SpendStep, PTL DEF Engine!Spec

(* For any number of requests, whatever commits between the reads of a
   pre-check and for all caps: an empty balance or a reached dollar cap stops
   a request of an API key that arrived under it, unless the ground is lifted
   or its query fails (engine.go:470-500). *)
THEOREM Refusal == Engine!Spec => []GroundsStop
<1>1. ASSUME SpendInv PROVE GroundsStop
  BY <1>1 DEF SpendInv, Stands, BalanceStands, DayStands, MonthStands, GroundsStop, Through
<1>2. QED
  BY <1>1, SpendAlways, PTL

(* What the ledger counts as spent, by day and by month, is the sum of what
   answers were charged, for all prices and any number of requests. *)
THEOREM Spent == Engine!Spec => []SpendIsPaid
<1>1. SpendInv => SpendIsPaid
  BY DEF SpendInv
<1>2. QED
  BY <1>1, SpendAlways, PTL

(* What an organisation has and what answers of it have paid, together, never
   get less: a charge moves money from one to the other, at worst without the
   half micro that rounding gives away. *)
LEMMA WorthKept ==
  ASSUME SpendInv, SpendInv', [Engine!Next]_(Engine!vars), NEW o \in Org
  PROVE  /\ Paid(o) \in Int /\ Paid(o)' \in Int /\ balance[o] \in Int /\ balance'[o] \in Int
         /\ Paid(o) <= Paid(o)'
         /\ balance[o] + Paid(o) <= balance'[o] + Paid(o)'
<1> DEFINE g == spent[o]
           h == spent'[o]
<1>1. (\A e \in Day : g[e] \in Int /\ h[e] \in Int) /\ balance[o] \in Int /\ balance'[o] \in Int
  BY DEF SpendInv, SpendTypes
<1>2. Paid(o) = SumFunctionOnSet(g, Day) /\ Paid(o)' = SumFunctionOnSet(h, Day)
  BY DEF SpendInv, SpendIsPaid
<1> HIDE DEF g, h
<1>3. SumFunctionOnSet(g, Day) \in Int /\ SumFunctionOnSet(h, Day) \in Int
  BY <1>1, DatesFinite, SumType
<1>4. CASE \E r \in Request : Engine!CommitCharge(r)
  <2>1. PICK r \in Request : Engine!CommitCharge(r)
    BY <1>4
  <2> DEFINE a == charge[r].amount
             d == charge[r].day
             x == IF o = req[r].org THEN Stored(a) ELSE 0
  <2>2. charge[r] \in ChargeType /\ charge[r].pc = "begun"
    BY <2>1 DEF Engine!CommitCharge, SpendInv, SpendTypes
  <2>3. a \in Nat /\ d \in Day /\ Stored(a) \in Nat
    BY <2>2, AmountAssumption, StoredType DEF ChargeType
  <2>4. x \in Int /\ 0 <= x
    BY <2>3
  <2>5. \A e \in Day : h[e] = IF e = d THEN g[e] + x ELSE g[e]
    BY <1>1, <2>1, <2>3
    DEF Engine!CommitCharge, Engine!Stored, Stored, SpendInv, SpendTypes, g, h
  <2>6. balance[o] <= balance'[o] + x
    <3>1. balance' = [balance EXCEPT ![req[r].org] = Left(@, a)]
      BY <2>1 DEF Engine!CommitCharge, Engine!Debit, Engine!Left, Left, Engine!Stored, Stored
    <3>2. balance'[o] = IF o = req[r].org THEN Left(balance[o], a) ELSE balance[o]
      BY <3>1 DEF SpendInv, SpendTypes
    <3> HIDE DEF a
    <3>3. Left(balance[o], a) \in {balance[o] - Stored(a), balance[o] - Stored(a) + 1}
      <4>1. a % 2 \in {0, 1}
        BY <2>3
      <4>2. QED
        BY <1>1, <2>3, <4>1, Rounding
    <3>4. QED
      BY <1>1, <2>3, <3>2, <3>3
  <2>7. SumFunctionOnSet(h, Day) = SumFunctionOnSet(g, Day) + x
    <3>1. d \in Day /\ x \in Int /\ \A e \in Day : g[e] \in Int
      BY <1>1, <2>3, <2>4
    <3> HIDE DEF x, d
    <3>2. QED
      BY <2>5, <3>1, DatesFinite, SumAdd
  <2> HIDE DEF x
  <2>8. Paid(o) \in Int /\ Paid(o)' \in Int /\ Paid(o)' = Paid(o) + x
    BY <1>2, <1>3, <2>7
  <2>9. QED
    BY <1>1, <2>4, <2>6, <2>8
<1>5. CASE ~\E r \in Request : Engine!CommitCharge(r)
  <2>1. UNCHANGED spent /\ balance[o] <= balance'[o]
    <3>1. CASE \E p \in Org : Engine!TopUp(p)
      <4>1. PICK p \in Org : Engine!TopUp(p)
        BY <3>1
      <4>2. PICK a \in TopUpAmount : Engine!Credit(p, a)
        BY <4>1 DEF Engine!TopUp
      <4>3. Engine!Stored(a) \in Nat
        BY CostAssumption, StoredType DEF Engine!Stored, Stored
      <4>4. QED
        BY <1>1, <4>1, <4>2, <4>3 DEF Engine!TopUp, Engine!Credit, SpendInv, SpendTypes
    <3>2. CASE ~\E p \in Org : Engine!TopUp(p)
      <4>1. UNCHANGED <<spent, balance>>
        BY <1>5, <3>2
        DEF Engine!Next, Engine!vars, Engine!Handle, Engine!ChargeFor, Engine!Arrive,
            Engine!FetchSettings, Engine!RefuseEarly, Engine!PreCheck, Engine!ReadCaps,
            Engine!SumDay, Engine!SumMonth, Engine!ServeCached, Engine!Generate,
            Engine!BeginCharge, Engine!ShortCharge, Engine!FailCharge,
            Engine!SetSpendLimits, Engine!NextDay, Engine!Crash
      <4>2. QED
        BY <1>1, <4>1
    <3>3. QED
      BY <3>1, <3>2
  <2>2. g = h
    BY <2>1 DEF g, h
  <2>3. QED
    BY <1>1, <1>2, <1>3, <2>1, <2>2
<1>6. QED
  BY <1>4, <1>5

(* What a purse knows: once the settings are read, no more than there still
   is and what answers have paid. *)
Fetched(r) == req[r].pc \notin {"idle", "arrived", "lost"}

PurseInv ==
  /\ purse \in [Request -> Int]
  /\ \A r \in Request : Fetched(r) => purse[r] <= balance[req[r].org] + Paid(req[r].org)
  /\ UnpaidWereOvertaken

LEMMA SamePaid == \A o : Engine!Paid(o) = Paid(o)
BY DEF Engine!Paid, Paid, Engine!Share, Share, Engine!Stored, Stored,
       Engine!SumFunctionOnSet, SumFunctionOnSet, Engine!FoldFunctionOnSet, FoldFunctionOnSet,
       Engine!MapThenFoldSet, MapThenFoldSet

(* A request that only goes on stays with its organisation. *)
LEMMA GoesOn ==
  ASSUME SpendInv, NEW s \in Request, NEW pc, Engine!Goto(s, pc), req[s].pc # "idle"
  PROVE  req'[s].org = req[s].org /\ \A t \in Request \ {s} : req'[t] = req[t]
<1>1. req' = [req EXCEPT ![s].pc = pc] /\ req \in [Request -> RequestType]
  BY DEF Engine!Goto, SpendInv, SpendTypes
<1>2. req'[s] = [req[s] EXCEPT !.pc = pc] /\ \A t \in Request \ {s} : req'[t] = req[t]
  BY <1>1
<1>3. req[s] \in RequestType
  BY <1>1
<1>4. [req[s] EXCEPT !.pc = pc].org = req[s].org
  BY <1>3 DEF RequestType
<1>5. QED
  BY <1>2, <1>4

(* A purse is filled when the settings are read, and kept. *)
LEMMA PurseMoves ==
  ASSUME SpendInv, PurseInv, [Engine!Next]_(Engine!vars), NEW r \in Request
  PROVE  \/ /\ purse'[r] = purse[r]
            /\ Fetched(r)' => Fetched(r) /\ req'[r].org = req[r].org
         \/ /\ Engine!FetchSettings(r)
            /\ purse'[r] = balance[req[r].org] + Paid(req[r].org)
            /\ req'[r].org = req[r].org
<1>1. CASE Engine!FetchSettings(r)
  <2>1. purse'[r] = balance[req[r].org] + Paid(req[r].org)
    BY <1>1, SamePaid DEF Engine!FetchSettings, PurseInv
  <2>2. req'[r].org = req[r].org
    BY <1>1 DEF Engine!FetchSettings, SpendInv, SpendTypes
  <2>3. QED
    BY <1>1, <2>1, <2>2
<1>2. CASE \E s \in Request \ {r} : Engine!FetchSettings(s)
  BY <1>2 DEF Engine!FetchSettings, PurseInv, SpendInv, SpendTypes, Fetched
<1>3. CASE ~\E s \in Request : Engine!FetchSettings(s)
  <2>1. purse' = purse
    BY <1>3
    DEF Engine!Next, Engine!vars, Engine!Handle, Engine!ChargeFor, Engine!Arrive,
        Engine!RefuseEarly, Engine!PreCheck, Engine!ReadCaps, Engine!SumDay, Engine!SumMonth,
        Engine!ServeCached, Engine!Generate, Engine!BeginCharge, Engine!CommitCharge,
        Engine!ShortCharge, Engine!FailCharge, Engine!TopUp, Engine!SetSpendLimits,
        Engine!NextDay, Engine!Crash
  <2>2. Fetched(r)' => Fetched(r) /\ req'[r].org = req[r].org
    <3>1. CASE req'[r] = req[r]
      BY <3>1 DEF Fetched
    <3>2. CASE \E s \in Request : Engine!Arrive(s)
      BY <3>2 DEF Engine!Arrive, Fetched, SpendInv, SpendTypes
    <3>3. ASSUME NEW s \in Request, NEW pc, Engine!Goto(s, pc), req[s].pc \notin {"idle", "arrived", "lost"}
          PROVE  Fetched(r)' => Fetched(r) /\ req'[r].org = req[r].org
      BY <3>3, GoesOn DEF Fetched
    <3>4. ASSUME NEW s \in Request, NEW q, req' = [req EXCEPT ![s] = q], q.org = req[s].org,
                 req[s].pc \notin {"idle", "arrived", "lost"}
          PROVE  Fetched(r)' => Fetched(r) /\ req'[r].org = req[r].org
      BY <3>4 DEF Fetched, SpendInv, SpendTypes
    <3>5. ASSUME NEW s \in Request, Engine!Handle(s)
          PROVE  Fetched(r)' => Fetched(r) /\ req'[r].org = req[r].org
      <4>1. CASE Engine!RefuseEarly(s) \/ Engine!PreCheck(s)
        BY <3>3, <4>1 DEF Engine!RefuseEarly, Engine!PreCheck
      <4>2. CASE Engine!ReadCaps(s)
        BY <3>3, <3>4, <4>2 DEF Engine!ReadCaps
      <4>3. CASE Engine!SumDay(s)
        BY <3>4, <4>3 DEF Engine!SumDay
      <4>4. CASE Engine!SumMonth(s)
        BY <3>3, <4>4 DEF Engine!SumMonth
      <4>5. CASE Engine!ServeCached(s)
        BY <3>4, <4>5 DEF Engine!ServeCached, Engine!Answer
      <4>6. CASE Engine!Generate(s)
        BY <3>3, <3>4, <4>6 DEF Engine!Generate, Engine!Answer
      <4>7. QED
        BY <1>3, <3>5, <4>1, <4>2, <4>3, <4>4, <4>5, <4>6 DEF Engine!Handle
    <3>6. CASE Engine!Crash
      <4>1. CASE req'[r] = req[r]
        BY <4>1 DEF Fetched
      <4>2. CASE req'[r] # req[r]
        <5>1. req'[r] = [req[r] EXCEPT !.pc = "lost"]
          BY <3>6, <4>2 DEF Engine!Crash
        <5>2. req'[r].pc = "lost"
          BY <5>1 DEF SpendInv, SpendTypes, RequestType
        <5>3. QED
          BY <5>2 DEF Fetched
      <4>3. QED
        BY <4>1, <4>2
    <3>7. QED
      BY <3>1, <3>2, <3>5, <3>6
      DEF Engine!Next, Engine!vars, Engine!ChargeFor, Engine!BeginCharge,
          Engine!CommitCharge, Engine!ShortCharge, Engine!FailCharge, Engine!TopUp,
          Engine!SetSpendLimits, Engine!NextDay
  <2>3. QED
    BY <2>1, <2>2
<1>4. QED
  BY <1>1, <1>2, <1>3

LEMMA PurseStep ==
  ASSUME SpendInv, SpendInv', PurseInv, [Engine!Next]_(Engine!vars)
  PROVE  PurseInv'
<1>1. purse' \in [Request -> Int]
  <2>1. ASSUME NEW r \in Request PROVE purse'[r] \in Int
    <3>1. Engine!FetchSettings(r) => req[r].org \in Org
      BY Shapes DEF Engine!FetchSettings
    <3>2. QED
      BY <3>1, PurseMoves, WorthKept DEF PurseInv
  <2>2. DOMAIN purse' = Request /\ purse' = [r \in Request |-> purse'[r]]
    <3>1. CASE \E r \in Request : Engine!FetchSettings(r)
      BY <3>1 DEF Engine!FetchSettings, PurseInv
    <3>2. CASE ~\E r \in Request : Engine!FetchSettings(r)
      <4>1. purse' = purse
        BY <3>2
        DEF Engine!Next, Engine!vars, Engine!Handle, Engine!ChargeFor, Engine!Arrive,
            Engine!RefuseEarly, Engine!PreCheck, Engine!ReadCaps, Engine!SumDay, Engine!SumMonth,
            Engine!ServeCached, Engine!Generate, Engine!BeginCharge, Engine!CommitCharge,
            Engine!ShortCharge, Engine!FailCharge, Engine!TopUp, Engine!SetSpendLimits,
            Engine!NextDay, Engine!Crash
      <4>2. QED
        BY <4>1 DEF PurseInv
    <3>3. QED
      BY <3>1, <3>2
  <2>3. QED
    BY <2>1, <2>2
<1>2. ASSUME NEW r \in Request, Fetched(r)'
      PROVE  /\ req'[r].org \in Org /\ req'[r].org = req[r].org
             /\ purse'[r] <= (balance[req[r].org] + Paid(req[r].org))'
  <2>1. req'[r].org \in Org /\ req'[r].org = req[r].org
    BY <1>2, PurseMoves, Shapes DEF SpendInv, SpendTypes, RequestType, Fetched
  <2> DEFINE o == req[r].org
  <2>2. /\ Paid(o) \in Int /\ Paid(o)' \in Int /\ balance[o] \in Int /\ balance'[o] \in Int
        /\ balance[o] + Paid(o) <= balance'[o] + Paid(o)'
    BY <2>1, WorthKept
  <2>3. purse'[r] \in Int /\ purse'[r] <= balance[o] + Paid(o)
    <3>1. CASE purse'[r] = purse[r] /\ (Fetched(r)' => Fetched(r))
      BY <1>2, <3>1 DEF PurseInv
    <3>2. CASE purse'[r] = balance[o] + Paid(o)
      BY <2>2, <3>2
    <3>3. QED
      BY <3>1, <3>2, PurseMoves
  <2>4. (balance[req[r].org] + Paid(req[r].org))' = balance'[o] + Paid(o)'
    BY <2>1 DEF Paid, Share
  <2> HIDE DEF o
  <2>5. QED
    BY <2>1, <2>2, <2>3, <2>4 DEF o
<1>3. UnpaidWereOvertaken'
  <2>1. SUFFICES ASSUME NEW r \in Request, charge'[r].pc = "short"
                 PROVE  ~Covers(purse[r] - Paid(req[r].org), charge[r].amount)'
    BY DEF UnpaidWereOvertaken
  <2>2. Fetched(r)'
    BY <2>1 DEF SpendInv, Fetched
  <2> DEFINE o == req[r].org
  <2>3. o \in Org /\ req'[r].org = o
    BY <1>2, <2>2
  <2>4. Paid(req[r].org)' = Paid(o)'
    BY <2>3 DEF Paid, Share
  <2>5. /\ Paid(o) \in Int /\ Paid(o)' \in Int /\ balance[o] \in Int /\ Paid(o) <= Paid(o)'
    BY <2>3, WorthKept
  <2>6. charge'[r].amount \in Nat
    BY <2>1, AmountAssumption DEF SpendInv, SpendTypes, ChargeType
  <2>7. ~Engine!FetchSettings(r)
    BY <2>1 DEF Engine!FetchSettings, SpendInv
  <2>8. Fetched(r) /\ purse'[r] = purse[r] /\ purse[r] \in Int
    BY <2>2, <2>7, PurseMoves DEF PurseInv
  <2> HIDE DEF o
  <2>9. CASE charge'[r] = charge[r]
    <3>1. ~Covers(purse[r] - Paid(o), charge[r].amount)
      BY <2>1, <2>9 DEF PurseInv, UnpaidWereOvertaken, o
    <3>2. QED
      BY <2>4, <2>5, <2>6, <2>8, <2>9, <3>1 DEF Covers
  <2>10. CASE Engine!ShortCharge(r)
    <3>1. charge'[r].amount = charge[r].amount /\ ~Covers(balance[o], charge[r].amount)
      BY <2>10 DEF Engine!ShortCharge, Engine!Covers, Covers, SpendInv, SpendTypes, ChargeType, o
    <3>2. purse[r] <= balance[o] + Paid(o)
      BY <2>8 DEF PurseInv, o
    <3>3. QED
      BY <2>4, <2>5, <2>6, <2>8, <3>1, <3>2 DEF Covers
  <2>11. charge'[r] = charge[r] \/ Engine!ShortCharge(r)
    <3>1. CASE Engine!Crash
      BY <2>1, <3>1 DEF Engine!Crash, SpendInv, SpendTypes, ChargeType, Engine!Settled
    <3>2. ASSUME NEW s \in Request, Engine!ChargeFor(s) \/ Engine!FailCharge(s)
          PROVE  charge'[r] = charge[r] \/ Engine!ShortCharge(r)
      BY <2>1, <3>2
      DEF Engine!ChargeFor, Engine!FailCharge, Engine!BeginCharge, Engine!CommitCharge,
          Engine!ShortCharge, SpendInv, SpendTypes, ChargeType
    <3>3. ASSUME NEW s \in Request, Engine!Handle(s)
          PROVE  charge'[r] = charge[r]
      BY <2>1, <3>3
      DEF Engine!Handle, Engine!FetchSettings, Engine!RefuseEarly, Engine!PreCheck,
          Engine!ReadCaps, Engine!SumDay, Engine!SumMonth, Engine!ServeCached, Engine!Generate,
          Engine!Answer, Engine!NoCharge, SpendInv, SpendTypes
    <3>4. QED
      BY <3>1, <3>2, <3>3
      DEF Engine!Next, Engine!vars, Engine!Arrive, Engine!TopUp, Engine!SetSpendLimits,
          Engine!NextDay
  <2>12. QED
    BY <2>9, <2>10, <2>11
<1>4. QED
  BY <1>1, <1>2, <1>3 DEF PurseInv

LEMMA PurseBegin == Engine!Init => PurseInv
BY DEF Engine!Init, PurseInv, Fetched, UnpaidWereOvertaken, Engine!Idle, Engine!NoCharge

LEMMA PurseAlways == Engine!Spec => []PurseInv
BY SpendBegin, SpendStep, SpendAlways, PurseBegin, PurseStep, PTL DEF Engine!Spec

(* An answer goes unpaid only when it costs more than its pre-check saw less
   what answers have paid since: for any number of requests, credits, crashes
   and midnights between the read of the balance and the charge
   (engine.go:476, 1124, 1245). *)
THEOREM Overtaken == Engine!Spec => []UnpaidWereOvertaken
<1>1. PurseInv => UnpaidWereOvertaken
  BY DEF PurseInv
<1>2. QED
  BY <1>1, PurseAlways, PTL


(* The types of EngineBilling. *)
THEOREM SpendTyping == Engine!Spec => []Engine!TypeOK
<1>1. ASSUME SpendInv, PurseInv PROVE Engine!TypeOK
  BY <1>1
  DEF SpendInv, SpendTypes, PurseInv, RequestType, ChargeType, AllGrounds, Engine!TypeOK,
      Engine!Day, Engine!Month,
      Engine!MonthOf, Day, Month, MonthOf, Engine!Responded, Engine!Settled
<1>2. QED
  BY <1>1, SpendAlways, PurseAlways, PTL
============================================================================
