----------------------------- MODULE TrustLedger -----------------------------
(***************************************************************************)
(* The trust (IOLTA) ledger of src/modules/trust and the retainer_balance  *)
(* cache it keeps on matters.  A request opens a PostgreSQL transaction,   *)
(* takes a transaction-scoped advisory lock on its account (organisation,  *)
(* client, matter), reads the newest ledger row of the account, inserts    *)
(* the next row and copies the newest balance into the matter.             *)
(*                                                                         *)
(* created_at is filled by DEFAULT now(), which in PostgreSQL is the start *)
(* of the TRANSACTION, not of the INSERT: a request that waited for the    *)
(* lock stamps its row with a time before rows committed while it waited.  *)
(* "Newest" is always ORDER BY created_at DESC.                            *)
(*                                                                         *)
(* One organisation.  A request of Requests runs once, so the ledger is as *)
(* long as the requests are many.                                          *)
(***************************************************************************)
EXTENDS Integers, Sequences, FiniteSets, Functions

CONSTANTS Accounts,     \* [client, matter] pairs that requests name
          Requests,     \* HTTP requests and worker jobs that run concurrently
          Kinds,        \* the kinds of request that occur, see AllKinds
          Amounts,      \* cents a request may ask for
          Threshold     \* matters.retainer_low_balance_threshold

AllKinds == {"deposit", "withdrawal", "payment", "refund"}

ASSUME TrustAssumption ==
    /\ Kinds \subseteq AllKinds
    /\ Amounts \subseteq Int
    /\ Threshold \in Nat

Matters == {a.matter : a \in Accounts}

VARIABLES now,      \* the database clock, read once by every BEGIN
          ledger,   \* trust_transactions in the order rows were committed
          tx,       \* the transaction each request runs
          retainer, \* matters.retainer_balance
          alerts,   \* RetainerLowBalance events stored with a commit
          refunded  \* history: matters whose retainer_balance a refund wrote last

vars == <<now, ledger, tx, retainer, alerts, refunded>>

NoTx == [phase |-> "new"]

Row == [account : Accounts, type : {"deposit", "withdrawal"}, amount : Int,
        balance_after : Int, created_at : Nat]

Waiting == [phase : {"open"}, kind : AllKinds, account : Accounts,
            amount : Int, started : Nat]
Reading == [phase : {"read"}, kind : AllKinds, account : Accounts,
            amount : Int, started : Nat, balance : Int]
Aborted   == [phase : {"aborted"}]
Committed == [phase : {"committed"}, kind : AllKinds, account : Accounts]

TypeOK ==
    /\ now \in Nat
    /\ ledger \in Seq(Row)
    /\ tx \in [Requests -> {NoTx} \cup Waiting \cup Reading \cup Aborted \cup Committed]
    /\ retainer \in [Matters -> Int]
    /\ alerts \subseteq [matter : Matters, balance : Int]
    /\ refunded \subseteq Matters

Init ==
    /\ now = 0
    /\ ledger = <<>>
    /\ tx = [r \in Requests |-> NoTx]
    /\ retainer = [m \in Matters |-> 0]
    /\ alerts = {}
    /\ refunded = {}

-----------------------------------------------------------------------------
(* Reading the ledger.                                                     *)

RowsOf(rows, a) == {i \in DOMAIN rows : rows[i].account = a}

\* ORDER BY created_at DESC LIMIT 1, and 0 when the account has no row.
IsNewest(rows, a, i) ==
    /\ i \in RowsOf(rows, a)
    /\ \A j \in RowsOf(rows, a) : rows[j].created_at <= rows[i].created_at

LatestBalances(rows, a) ==
    IF RowsOf(rows, a) = {}
    THEN {0}
    ELSE {rows[i].balance_after : i \in {j \in DOMAIN rows : IsNewest(rows, a, j)}}

\* The transactions that hold the advisory lock: it is released by the end
\* of the transaction only.
Holds(r, a) == tx[r].phase = "read" /\ tx[r].kind # "refund" /\ tx[r].account = a

\* Mutant: no advisory lock.
FreeWithoutLock(a) == TRUE

Free(a) == \A r \in Requests : ~Holds(r, a)

\* Mutant: withdrawals are not checked against the balance.
EnoughUnchecked(kind, balance, amount) == TRUE

Enough(kind, balance, amount) == kind = "withdrawal" => balance >= amount

HasRead(t, b) ==
    [phase |-> "read", kind |-> t.kind, account |-> t.account,
     amount |-> t.amount, started |-> t.started, balance |-> b]

-----------------------------------------------------------------------------
(* A request arrives and opens its transaction; amounts that are not       *)
(* positive are answered 400.                                              *)
Begin(r, kind, a, amount) ==
    /\ tx[r] = NoTx
    /\ amount > 0
    /\ tx' = [tx EXCEPT ![r] = [phase |-> "open", kind |-> kind, account |-> a,
                                amount |-> amount, started |-> now]]
    /\ now' = now + 1
    /\ UNCHANGED <<ledger, retainer, alerts, refunded>>

\* recordDeposit / recordWithdrawal up to the balance check: the advisory
\* lock, then the newest balance.  Too small a balance is answered 400.
LockAndRead(r) ==
    /\ tx[r].phase = "open"
    /\ tx[r].kind # "refund"
    /\ Free(tx[r].account)
    /\ \E b \in LatestBalances(ledger, tx[r].account) :
          tx' = [tx EXCEPT ![r] = IF Enough(@.kind, b, @.amount)
                                  THEN HasRead(@, b)
                                  ELSE [phase |-> "aborted"]]
    /\ UNCHANGED <<now, ledger, retainer, alerts, refunded>>

\* lock_timeout = 5s: the waiter gives up with 409.
LockTimeout(r) ==
    /\ tx[r].phase = "open"
    /\ tx[r].kind # "refund"
    /\ ~Free(tx[r].account)
    /\ tx' = [tx EXCEPT ![r] = [phase |-> "aborted"]]
    /\ UNCHANGED <<now, ledger, retainer, alerts, refunded>>

NewBalance(t) ==
    IF t.kind = "withdrawal" THEN t.balance - t.amount ELSE t.balance + t.amount

\* Mutant: source and transaction_type swapped.
NextRowSwapped(t) ==
    [account |-> t.account, type |-> "manual", amount |-> t.amount,
     balance_after |-> NewBalance(t), created_at |-> t.started]

NextRow(t) ==
    [account |-> t.account,
     type |-> IF t.kind = "withdrawal" THEN "withdrawal" ELSE "deposit",
     amount |-> t.amount,
     balance_after |-> NewBalance(t),
     created_at |-> t.started]

\* Mutant: the balance is read before the row is inserted.
SyncBeforeInsert(a, rows) ==
    \E b \in LatestBalances(ledger, a) :
       /\ retainer' = [retainer EXCEPT ![a.matter] = b]
       /\ alerts' = IF b < Threshold
                    THEN alerts \cup {[matter |-> a.matter, balance |-> b]}
                    ELSE alerts

\* syncBalanceAndCheckThreshold: the account's newest balance, read after
\* the insert, goes to the matter; RetainerLowBalance joins the transaction.
SyncRetainer(a, rows) ==
    \E b \in LatestBalances(rows, a) :
       /\ retainer' = [retainer EXCEPT ![a.matter] = b]
       /\ alerts' = IF b < Threshold
                    THEN alerts \cup {[matter |-> a.matter, balance |-> b]}
                    ELSE alerts

\* The transaction commits; what it was remains known.
End(r) ==
    tx' = [tx EXCEPT ![r] = [phase |-> "committed", kind |-> tx[r].kind,
                             account |-> tx[r].account]]

\* manualDeposit / manualWithdrawal: insert, synchronise, commit.  A payment
\* never gets here: it inserts created_by = 'webhook', which the uuid column
\* refuses, so it can only abort.
Commit(r) ==
    /\ tx[r].phase = "read"
    /\ tx[r].kind \in {"deposit", "withdrawal"}
    /\ ledger' = Append(ledger, NextRow(tx[r]))
    /\ SyncRetainer(tx[r].account, Append(ledger, NextRow(tx[r])))
    /\ refunded' = refunded \ {tx[r].account.matter}
    /\ End(r)
    /\ UNCHANGED now

\* persistExecutedRefund on a retainer invoice reads the matter ...
RefundRead(r) ==
    /\ tx[r].phase = "open"
    /\ tx[r].kind = "refund"
    /\ tx' = [tx EXCEPT ![r] = HasRead(@, retainer[@.account.matter])]
    /\ UNCHANGED <<now, ledger, retainer, alerts, refunded>>

\* Mutant: the decrement is not clamped at zero.
DecrementedUnclamped(balance, amount) == balance - amount

Decremented(balance, amount) == IF balance < amount THEN 0 ELSE balance - amount

\* ... and writes the decremented balance, without the lock or a ledger row.
RefundCommit(r) ==
    /\ tx[r].phase = "read"
    /\ tx[r].kind = "refund"
    /\ retainer' = [retainer EXCEPT ![tx[r].account.matter] =
                                   Decremented(tx[r].balance, tx[r].amount)]
    /\ refunded' = refunded \cup {tx[r].account.matter}
    /\ End(r)
    /\ UNCHANGED <<now, ledger, alerts>>

\* Any statement may fail, and the process or its connection may die: the
\* transaction rolls back and its lock goes.
Abort(r) ==
    /\ tx[r].phase \in {"open", "read"}
    /\ tx' = [tx EXCEPT ![r] = [phase |-> "aborted"]]
    /\ UNCHANGED <<now, ledger, retainer, alerts, refunded>>

Next ==
    \E r \in Requests :
       \/ \E kind \in Kinds, a \in Accounts, amount \in Amounts :
             Begin(r, kind, a, amount)
       \/ LockAndRead(r)
       \/ LockTimeout(r)
       \/ Commit(r)
       \/ RefundRead(r)
       \/ RefundCommit(r)
       \/ Abort(r)

Spec == Init /\ [][Next]_vars

-----------------------------------------------------------------------------
(* Properties.                                                             *)

Signed(row) == IF row.type = "withdrawal" THEN -row.amount ELSE row.amount

\* i is the row of account a committed just before row j.
Precedes(a, i, j) ==
    /\ i \in RowsOf(ledger, a)
    /\ i < j
    /\ \A k \in RowsOf(ledger, a) : k < j => k <= i

FirstRow(a, j) == \A i \in RowsOf(ledger, a) : i >= j

\* balance_after of every row is the balance_after of the account's row
\* before it, plus or minus the row's own amount.
RunningBalance(a) ==
    \A j \in RowsOf(ledger, a) :
       \/ FirstRow(a, j) /\ ledger[j].balance_after = Signed(ledger[j])
       \/ \E i \in DOMAIN ledger :
             /\ Precedes(a, i, j)
             /\ ledger[j].balance_after = ledger[i].balance_after + Signed(ledger[j])

\* Transactions of the account committed in the order they began.
InStartOrder(a) ==
    \A i, j \in RowsOf(ledger, a) :
       i < j => ledger[i].created_at < ledger[j].created_at

\* The money an account has received and not paid out.
Funds(a) ==
    SumFunctionOnSet([i \in DOMAIN ledger |-> Signed(ledger[i])], RowsOf(ledger, a))

\* As long as an account's transactions commit in the order they began, its
\* rows are a running balance and the newest balance is all the money it has,
\* whatever runs beside them or fails.
RunningBalanceWhenOrdered ==
    \A a \in Accounts :
       InStartOrder(a) => RunningBalance(a) /\ Funds(a) \in LatestBalances(ledger, a)

\* The balance a lock holder has read is still the account's newest balance
\* when it inserts: no deposit or withdrawal slips in between.
ReadStillNewest ==
    \A r \in Requests :
       (tx[r].phase = "read" /\ tx[r].kind # "refund")
          => tx[r].balance \in LatestBalances(ledger, tx[r].account)

\* No row and no matter ever shows a negative balance.
BalancesNonNegative ==
    /\ \A i \in DOMAIN ledger : ledger[i].balance_after >= 0
    /\ \A m \in Matters : retainer[m] >= 0

\* The cache of m holds the newest balance of account a, and somebody has been
\* told if that is low.
CacheFollows(m, a) ==
    /\ a.matter = m
    /\ RowsOf(ledger, a) # {}
    /\ retainer[m] \in LatestBalances(ledger, a)
    /\ retainer[m] < Threshold => [matter |-> m, balance |-> retainer[m]] \in alerts

\* A matter's cached retainer_balance is the newest balance of an account of
\* the matter, however transactions on its accounts interleave, and when it is
\* under the threshold a RetainerLowBalance alert tells that very balance.  A
\* refund, which writes the cache alone and from a balance it read before,
\* spoils that only until the next deposit or withdrawal of the matter.
CacheMatchesLedger ==
    \A m \in Matters :
       \/ m \in refunded
       \/ retainer[m] = 0 /\ \A a \in Accounts : a.matter = m => RowsOf(ledger, a) = {}
       \/ \E a \in Accounts : CacheFollows(m, a)

\* A withdrawal is refused when the account does not have the money.
FundsNeverNegative == \A a \in Accounts : Funds(a) >= 0
=============================================================================
