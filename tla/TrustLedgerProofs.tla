-------------------------- MODULE TrustLedgerProofs --------------------------
(* Proofs about TrustLedger, for any accounts, requests, amounts and        *)
(* threshold.                                                               *)
EXTENDS TrustLedger, Sums, TLAPS

LEMMA PhaseType ==
    ASSUME TypeOK, NEW r \in Requests
    PROVE  /\ tx[r].phase = "open" => tx[r] \in Waiting
           /\ tx[r].phase = "read" => tx[r] \in Reading
           /\ tx[r].phase \notin {"open", "read"} => tx[r] \in {NoTx} \cup Aborted \cup Committed
  BY DEF TypeOK, NoTx, Waiting, Reading, Aborted, Committed

\* What a SELECT of the newest balance returns is an integer.
LEMMA LatestIsInt ==
    ASSUME NEW rows \in Seq(Row), NEW a, NEW b \in LatestBalances(rows, a)
    PROVE  b \in Int
<1>1. CASE RowsOf(rows, a) = {}
  BY <1>1 DEF LatestBalances
<1>2. CASE RowsOf(rows, a) # {}
  <2>1. PICK i \in DOMAIN rows : b = rows[i].balance_after
    BY <1>2, Zenon DEF LatestBalances
  <2>2. rows[i] \in Row
    BY <2>1
  <2> QED
    BY <2>1, <2>2 DEF Row
<1> QED
  BY <1>1, <1>2

LEMMA NextRowType ==
    ASSUME NEW t \in Reading
    PROVE  NextRow(t) \in Row
  BY DEF Reading, NextRow, Row, NewBalance

LEMMA TypeInit == Init => TypeOK
  BY TrustAssumption DEF Init, TypeOK, Matters

LEMMA TypeStep == TypeOK /\ [Next]_vars => TypeOK'
<1> SUFFICES ASSUME TypeOK, [Next]_vars PROVE TypeOK'
  OBVIOUS
<1>1. CASE UNCHANGED vars
  BY <1>1 DEF vars, TypeOK
<1>2. ASSUME NEW r \in Requests, NEW kind \in Kinds, NEW a \in Accounts,
             NEW amount \in Amounts, Begin(r, kind, a, amount)
      PROVE  TypeOK'
  <2>1. [phase |-> "open", kind |-> kind, account |-> a, amount |-> amount,
         started |-> now] \in Waiting
    BY <1>2, TrustAssumption DEF Waiting, TypeOK
  <2> QED
    BY <1>2, <2>1 DEF Begin, TypeOK
<1>3. ASSUME NEW r \in Requests, LockAndRead(r) PROVE TypeOK'
  <2>1. tx[r] \in Waiting
    BY <1>3, PhaseType DEF LockAndRead
  <2>2. PICK b \in LatestBalances(ledger, tx[r].account) :
           tx' = [tx EXCEPT ![r] = IF Enough(tx[r].kind, b, tx[r].amount)
                                   THEN HasRead(tx[r], b)
                                   ELSE [phase |-> "aborted"]]
    BY <1>3 DEF LockAndRead
  <2>3. HasRead(tx[r], b) \in Reading
    BY <2>1, LatestIsInt DEF HasRead, Waiting, Reading, TypeOK
  <2> QED
    BY <1>3, <2>2, <2>3 DEF LockAndRead, TypeOK, Aborted, Committed
<1>4. ASSUME NEW r \in Requests, LockTimeout(r) PROVE TypeOK'
  BY <1>4 DEF LockTimeout, TypeOK, Aborted, Committed
<1>5. ASSUME NEW r \in Requests, Commit(r) PROVE TypeOK'
  <2>1. tx[r] \in Reading
    BY <1>5, PhaseType DEF Commit
  <2>2. Append(ledger, NextRow(tx[r])) \in Seq(Row)
    BY <2>1, NextRowType DEF TypeOK
  <2>3. tx[r].account \in Accounts /\ tx[r].account.matter \in Matters
    BY <2>1 DEF Reading, Matters
  <2>4. retainer' \in [Matters -> Int] /\ alerts' \subseteq [matter : Matters, balance : Int]
    <3> DEFINE rows == Append(ledger, NextRow(tx[r]))
    <3>1. PICK b \in LatestBalances(rows, tx[r].account) :
             /\ retainer' = [retainer EXCEPT ![tx[r].account.matter] = b]
             /\ alerts' = IF b < Threshold
                          THEN alerts \cup {[matter |-> tx[r].account.matter, balance |-> b]}
                          ELSE alerts
      BY <1>5 DEF Commit, SyncRetainer
    <3>2. b \in Int
      <4> HIDE DEF rows
      <4> QED BY <2>2, <3>1, LatestIsInt DEF rows
    <3> HIDE DEF rows
    <3> QED
      BY <2>3, <3>1, <3>2 DEF TypeOK
  <2> QED
    BY <1>5, <2>1, <2>2, <2>4 DEF Commit, End, TypeOK, Reading, Committed
<1>6. ASSUME NEW r \in Requests, RefundRead(r) PROVE TypeOK'
  <2>1. tx[r] \in Waiting
    BY <1>6, PhaseType DEF RefundRead
  <2>2. retainer[tx[r].account.matter] \in Int
    BY <2>1 DEF TypeOK, Waiting, Matters
  <2>3. HasRead(tx[r], retainer[tx[r].account.matter]) \in Reading
    BY <2>1, <2>2 DEF HasRead, Waiting, Reading
  <2> QED
    BY <1>6, <2>3 DEF RefundRead, TypeOK
<1>7. ASSUME NEW r \in Requests, RefundCommit(r) PROVE TypeOK'
  <2>1. tx[r] \in Reading
    BY <1>7, PhaseType DEF RefundCommit
  <2>2. tx[r].balance \in Int /\ tx[r].amount \in Int
    BY <2>1 DEF Reading
  <2>3. Decremented(tx[r].balance, tx[r].amount) \in Int
    BY <2>2 DEF Decremented
  <2>4. tx[r].account \in Accounts /\ tx[r].account.matter \in Matters
    BY <2>1 DEF Reading, Matters
  <2>5. refunded' \subseteq Matters
    BY <1>7, <2>4 DEF RefundCommit, TypeOK
  <2> QED
    BY <1>7, <2>1, <2>3, <2>5 DEF RefundCommit, End, TypeOK, Reading, Committed
<1>8. ASSUME NEW r \in Requests, Abort(r) PROVE TypeOK'
  BY <1>8 DEF Abort, TypeOK, Aborted, Committed
<1> QED
  BY <1>1, <1>2, <1>3, <1>4, <1>5, <1>6, <1>7, <1>8 DEF Next

\* The state of trust_transactions, matters.retainer_balance and the open
\* transactions always has the shape the schema gives it.
THEOREM TypeCorrect == Spec => []TypeOK
  BY TypeInit, TypeStep, PTL DEF Spec

-----------------------------------------------------------------------------
(* The lock and the balance read under it.                                  *)

\* At most one transaction holds an account's lock.
LockExclusive ==
    \A r, s \in Requests : \A a \in Accounts :
       Holds(r, a) /\ Holds(s, a) => r = s

LedgerInv == TypeOK /\ LockExclusive /\ ReadStillNewest

\* A row of another account changes nothing an account reads.
LEMMA OtherAccount ==
    ASSUME NEW rows \in Seq(Row), NEW row \in Row, NEW a, row.account # a
    PROVE  /\ RowsOf(Append(rows, row), a) = RowsOf(rows, a)
           /\ LatestBalances(Append(rows, row), a) = LatestBalances(rows, a)
<1> DEFINE more == Append(rows, row)
<1>1. /\ DOMAIN more = 1..Len(rows) + 1
      /\ DOMAIN rows = 1..Len(rows)
      /\ Len(rows) \in Nat
      /\ \A i \in 1..Len(rows) : more[i] = rows[i]
      /\ more[Len(rows) + 1] = row
  OBVIOUS
<1> HIDE DEF more
<1>2. RowsOf(more, a) = RowsOf(rows, a)
  BY <1>1 DEF RowsOf
<1>3. \A i \in RowsOf(rows, a) : i \in DOMAIN rows /\ more[i] = rows[i]
  BY <1>1 DEF RowsOf
<1>4. \A i : IsNewest(more, a, i) <=> IsNewest(rows, a, i)
  BY <1>2, <1>3 DEF IsNewest
<1>5. {more[i].balance_after : i \in {j \in DOMAIN more : IsNewest(more, a, j)}}
        = {rows[i].balance_after : i \in {j \in DOMAIN rows : IsNewest(rows, a, j)}}
  BY <1>3, <1>4, <1>1 DEF IsNewest
<1> QED
  BY <1>2, <1>5 DEF LatestBalances, more

LEMMA LedgerInvInit == Init => LedgerInv
<1> SUFFICES ASSUME Init PROVE LedgerInv
  OBVIOUS
<1>1. TypeOK
  BY TypeInit
<1>2. \A r \in Requests : tx[r].phase = "new"
  BY DEF Init, NoTx
<1> QED
  BY <1>1, <1>2 DEF LedgerInv, LockExclusive, ReadStillNewest, Holds

LEMMA LedgerInvStep == LedgerInv /\ [Next]_vars => LedgerInv'
<1> SUFFICES ASSUME LedgerInv, [Next]_vars PROVE LedgerInv'
  OBVIOUS
<1> USE DEF LedgerInv
<1>0. TypeOK'
  BY TypeStep
<1>1. CASE UNCHANGED vars
  BY <1>1 DEF vars, TypeOK, LockExclusive, ReadStillNewest, Holds
<1>2. ASSUME NEW r \in Requests, UNCHANGED ledger,
             \A s \in Requests \ {r} : tx'[s] = tx[s],
             tx'[r].phase # "read"
      PROVE  LockExclusive' /\ ReadStillNewest'
  BY <1>2 DEF LockExclusive, ReadStillNewest, Holds
<1>3. ASSUME NEW r \in Requests, NEW kind \in Kinds, NEW a \in Accounts,
             NEW amount \in Amounts, Begin(r, kind, a, amount)
      PROVE  LedgerInv'
  BY <1>0, <1>2, <1>3 DEF Begin, TypeOK
<1>4. ASSUME NEW r \in Requests, LockAndRead(r) PROVE LedgerInv'
  <2>1. tx[r] \in Waiting
    BY <1>4, PhaseType DEF LockAndRead
  <2>2. PICK b \in LatestBalances(ledger, tx[r].account) :
           tx' = [tx EXCEPT ![r] = IF Enough(tx[r].kind, b, tx[r].amount)
                                   THEN HasRead(tx[r], b)
                                   ELSE [phase |-> "aborted"]]
    BY <1>4 DEF LockAndRead
  <2>3. UNCHANGED ledger /\ \A s \in Requests \ {r} : tx'[s] = tx[s]
    BY <1>4, <2>2 DEF LockAndRead, TypeOK
  <2>4. CASE ~Enough(tx[r].kind, b, tx[r].amount)
    <3>1. tx'[r].phase # "read"
      BY <2>2, <2>4 DEF TypeOK
    <3> QED BY <1>0, <1>2, <2>3, <3>1
  <2>5. CASE Enough(tx[r].kind, b, tx[r].amount)
    <3>1. tx'[r] = HasRead(tx[r], b)
      BY <2>2, <2>5 DEF TypeOK
    <3>2. ReadStillNewest'
      BY <2>3, <3>1 DEF ReadStillNewest, HasRead
    <3>3. \A s \in Requests : ~Holds(s, tx[r].account)
      BY <1>4 DEF LockAndRead, Free
    <3>4. \A s \in Requests \ {r} : \A a : Holds(s, a)' <=> Holds(s, a)
      BY <2>3 DEF Holds
    <3>5. \A a : Holds(r, a)' => a = tx[r].account
      BY <3>1 DEF Holds, HasRead
    <3>6. LockExclusive'
      BY <3>3, <3>4, <3>5 DEF LockExclusive
    <3> QED BY <1>0, <3>2, <3>6
  <2> QED BY <2>4, <2>5
<1>5. ASSUME NEW r \in Requests, LockTimeout(r) PROVE LedgerInv'
  BY <1>0, <1>2, <1>5 DEF LockTimeout, TypeOK
<1>6. ASSUME NEW r \in Requests, Commit(r) PROVE LedgerInv'
  <2>1. tx[r] \in Reading
    BY <1>6, PhaseType DEF Commit
  <2>2. /\ ledger' = Append(ledger, NextRow(tx[r]))
        /\ End(r)
        /\ Holds(r, tx[r].account)
    BY <1>6 DEF Commit, Holds
  <2>3. NextRow(tx[r]) \in Row /\ NextRow(tx[r]).account = tx[r].account
    BY <2>1, NextRowType DEF NextRow
  <2>4. LockExclusive'
    BY <2>2 DEF LockExclusive, Holds, End, TypeOK
  <2>5. ASSUME NEW s \in Requests, tx'[s].phase = "read", tx'[s].kind # "refund"
        PROVE  tx'[s].balance \in LatestBalances(ledger', tx'[s].account)
    <3>1. s # r /\ tx'[s] = tx[s]
      BY <2>2, <2>5 DEF End, TypeOK
    <3>2. tx[s] \in Reading
      BY <2>5, <3>1, PhaseType
    <3>3. Holds(s, tx[s].account) /\ tx[s].account \in Accounts
      BY <2>5, <3>1, <3>2 DEF Holds, Reading
    <3>4. tx[s].account # tx[r].account
      BY <2>2, <3>1, <3>3 DEF LockExclusive
    <3>5. LatestBalances(ledger', tx[s].account) = LatestBalances(ledger, tx[s].account)
      BY <2>2, <2>3, <3>4, OtherAccount DEF TypeOK
    <3> QED
      BY <2>5, <3>1, <3>5 DEF ReadStillNewest
  <2> QED
    BY <1>0, <2>4, <2>5 DEF ReadStillNewest
<1>7. ASSUME NEW r \in Requests, RefundRead(r) PROVE LedgerInv'
  <2>1. /\ UNCHANGED ledger
        /\ tx'[r].kind = "refund"
        /\ \A s \in Requests \ {r} : tx'[s] = tx[s]
    BY <1>7 DEF RefundRead, HasRead, TypeOK
  <2> QED
    BY <1>0, <2>1 DEF LockExclusive, ReadStillNewest, Holds
<1>8. ASSUME NEW r \in Requests, RefundCommit(r) PROVE LedgerInv'
  BY <1>0, <1>2, <1>8 DEF RefundCommit, End, TypeOK
<1>9. ASSUME NEW r \in Requests, Abort(r) PROVE LedgerInv'
  BY <1>0, <1>2, <1>9 DEF Abort, TypeOK
<1> QED
  BY <1>1, <1>3, <1>4, <1>5, <1>6, <1>7, <1>8, <1>9 DEF Next

\* No deposit or withdrawal slips in between the balance a lock holder has
\* read and the row it inserts from it.
THEOREM ReadsStayNewest == Spec => []ReadStillNewest
<1>1. LedgerInv => ReadStillNewest
  BY DEF LedgerInv
<1> QED
  BY <1>1, LedgerInvInit, LedgerInvStep, PTL DEF Spec
-----------------------------------------------------------------------------
(* The running balance.                                                     *)

RunningInv == LedgerInv /\ RunningBalanceWhenOrdered

\* The row appended after reading the newest balance continues the running
\* balance, if it is also the youngest of its account.
LEMMA AppendRuns ==
    ASSUME LedgerInv, RunningBalanceWhenOrdered,
           NEW r \in Requests, Commit(r),
           NEW a \in Accounts, InStartOrder(a)'
    PROVE  RunningBalance(a)'
<1> USE DEF LedgerInv
<1> DEFINE row == NextRow(tx[r])
<1>1. tx[r] \in Reading
  BY PhaseType DEF Commit
<1>2. /\ row \in Row
      /\ row.account = tx[r].account
      /\ row.balance_after = tx[r].balance + Signed(row)
  BY <1>1, NextRowType DEF NextRow, NewBalance, Signed, Reading
<1>3. /\ ledger' = Append(ledger, row)
      /\ tx[r].balance \in LatestBalances(ledger, tx[r].account)
  BY DEF Commit, ReadStillNewest
<1> HIDE DEF row
<1>n. PICK n \in Nat : n = Len(ledger) + 1
  BY DEF TypeOK
<1>4. /\ DOMAIN ledger = 1..Len(ledger) /\ DOMAIN ledger' = 1..n
      /\ n \in Nat /\ Len(ledger) \in Nat
      /\ ledger'[n] = row
      /\ \A i \in 1..Len(ledger) : ledger'[i] = ledger[i] /\ ledger[i] \in Row
  BY <1>2, <1>3, <1>n DEF TypeOK
<1>5. n = Len(ledger) + 1
  BY <1>n
<1>6. RowsOf(ledger', a) = IF a = tx[r].account THEN RowsOf(ledger, a) \cup {n}
                                                ELSE RowsOf(ledger, a)
  BY <1>2, <1>4, <1>5 DEF RowsOf
<1>7. \A i \in RowsOf(ledger, a) :
         i \in 1..Len(ledger) /\ i < n /\ ledger'[i] = ledger[i] /\ ledger[i] \in Row
  BY <1>4, <1>5 DEF RowsOf
<1>8. InStartOrder(a)
  BY <1>6, <1>7 DEF InStartOrder
<1>9. RunningBalance(a)
  BY <1>8 DEF RunningBalanceWhenOrdered
<1>10. ASSUME NEW j \in RowsOf(ledger, a)
       PROVE  \/ FirstRow(a, j)' /\ ledger'[j].balance_after = Signed(ledger'[j])
              \/ \E i \in DOMAIN ledger' :
                    /\ Precedes(a, i, j)'
                    /\ ledger'[j].balance_after = ledger'[i].balance_after + Signed(ledger'[j])
  <2>1. ledger'[j] = ledger[j] /\ j \in 1..Len(ledger)
    BY <1>7
  <2>2. CASE FirstRow(a, j) /\ ledger[j].balance_after = Signed(ledger[j])
    <3>1. FirstRow(a, j)'
      BY <1>4, <1>5, <1>6, <2>1, <2>2 DEF FirstRow
    <3> QED BY <2>1, <2>2, <3>1
  <2>3. ASSUME NEW i \in DOMAIN ledger, Precedes(a, i, j),
               ledger[j].balance_after = ledger[i].balance_after + Signed(ledger[j])
        PROVE  /\ i \in DOMAIN ledger' /\ Precedes(a, i, j)'
               /\ ledger'[j].balance_after = ledger'[i].balance_after + Signed(ledger'[j])
    <3>1. i \in DOMAIN ledger' /\ ledger'[i] = ledger[i]
      BY <1>4, <1>5
    <3>2. Precedes(a, i, j)'
      BY <1>4, <1>5, <1>6, <2>1, <2>3 DEF Precedes
    <3> QED BY <2>1, <2>3, <3>1, <3>2
  <2> QED
    BY <1>9, <2>2, <2>3 DEF RunningBalance
<1>11. ASSUME a = tx[r].account
       PROVE  \/ FirstRow(a, n)' /\ ledger'[n].balance_after = Signed(ledger'[n])
              \/ \E i \in DOMAIN ledger' :
                    /\ Precedes(a, i, n)'
                    /\ ledger'[n].balance_after = ledger'[i].balance_after + Signed(ledger'[n])
  <2>1. CASE RowsOf(ledger, a) = {}
    <3>1. tx[r].balance = 0
      BY <1>3, <1>11, <2>1 DEF LatestBalances
    <3>2. Signed(row) \in Int
      BY <1>2 DEF Signed, Row
    <3>3. FirstRow(a, n)'
      BY <1>4, <1>6, <1>11, <2>1 DEF FirstRow
    <3> QED BY <1>2, <1>4, <3>1, <3>2, <3>3
  <2>2. CASE RowsOf(ledger, a) # {}
    <3>1. PICK i \in DOMAIN ledger :
             IsNewest(ledger, a, i) /\ tx[r].balance = ledger[i].balance_after
      BY <1>3, <1>11, <2>2, Zenon DEF LatestBalances
    <3>2. i \in RowsOf(ledger, a)
      BY <3>1 DEF IsNewest
    <3>3. ASSUME NEW k \in RowsOf(ledger, a) PROVE k <= i
      <4>1. ledger[k].created_at <= ledger[i].created_at
        BY <3>1 DEF IsNewest
      <4>2. ledger[k].created_at \in Nat /\ ledger[i].created_at \in Nat
        BY <1>7, <3>2 DEF Row
      <4>3. i < k => ledger[i].created_at < ledger[k].created_at
        BY <1>8, <3>2 DEF InStartOrder
      <4>4. i \in Int /\ k \in Int
        BY <1>7, <3>2
      <4> QED BY <4>1, <4>2, <4>3, <4>4
    <3>4. Precedes(a, i, n)'
      BY <1>4, <1>5, <1>6, <1>7, <3>2, <3>3 DEF Precedes
    <3>5. i \in DOMAIN ledger' /\ ledger'[i] = ledger[i]
      BY <1>4, <1>5
    <3> QED BY <1>2, <1>4, <3>1, <3>4, <3>5
  <2> QED BY <2>1, <2>2
<1> QED
  BY <1>6, <1>10, <1>11 DEF RunningBalance

\* What an account has been paid, over any rows.
FundsIn(rows, a) ==
    SumFunctionOnSet([i \in DOMAIN rows |-> Signed(rows[i])], RowsOf(rows, a))

LEMMA RowsFinite ==
    ASSUME NEW rows \in Seq(Row), NEW a
    PROVE  /\ IsFiniteSet(RowsOf(rows, a))
           /\ \A i \in RowsOf(rows, a) : Signed(rows[i]) \in Int
           /\ FundsIn(rows, a) \in Int
<1>1. IsFiniteSet(RowsOf(rows, a))
  <2>1. IsFiniteSet(1..Len(rows))
    BY FS_Interval
  <2>2. RowsOf(rows, a) \in SUBSET (1..Len(rows))
    BY DEF RowsOf
  <2> QED
    BY <2>1, <2>2, FS_Subset
<1>2. \A i \in RowsOf(rows, a) : i \in DOMAIN rows /\ rows[i] \in Row
  BY DEF RowsOf
<1>3. \A i \in RowsOf(rows, a) : Signed(rows[i]) \in Int
  BY <1>2 DEF Signed, Row
<1>4. \A i \in RowsOf(rows, a) : [k \in DOMAIN rows |-> Signed(rows[k])][i] \in Int
  BY <1>2, <1>3
<1>5. FundsIn(rows, a) \in Int
  BY <1>1, <1>4, SumInt DEF FundsIn
<1> QED
  BY <1>1, <1>3, <1>5

\* A new row adds its own amount to the funds of its account, and to no other.
LEMMA FundsAppend ==
    ASSUME NEW rows \in Seq(Row), NEW row \in Row, NEW a
    PROVE  FundsIn(Append(rows, row), a)
              = IF row.account = a THEN Signed(row) + FundsIn(rows, a) ELSE FundsIn(rows, a)
<1> DEFINE more == Append(rows, row)
<1> DEFINE n == Len(rows) + 1
<1> DEFINE f == [i \in DOMAIN rows |-> Signed(rows[i])]
<1> DEFINE g == [i \in DOMAIN more |-> Signed(more[i])]
<1>1. /\ DOMAIN more = 1..n
      /\ DOMAIN rows = 1..Len(rows)
      /\ Len(rows) \in Nat
      /\ \A i \in 1..Len(rows) : more[i] = rows[i]
      /\ more[n] = row
      /\ n \in 1..n /\ n \notin 1..Len(rows)
      /\ 1..n = 1..Len(rows) \cup {n}
  OBVIOUS
<1> HIDE DEF more, n
<1>2. RowsOf(more, a) = IF row.account = a THEN RowsOf(rows, a) \cup {n} ELSE RowsOf(rows, a)
  BY <1>1 DEF RowsOf
<1>3. \A i \in RowsOf(rows, a) : f[i] = g[i] /\ f[i] \in Int
  BY <1>1, RowsFinite DEF RowsOf
<1>4. n \notin RowsOf(rows, a) /\ g[n] = Signed(row) /\ g[n] \in Int
  BY <1>1 DEF RowsOf, Signed, Row
<1> HIDE DEF f, g
<1>5. IsFiniteSet(RowsOf(rows, a))
  BY RowsFinite
<1>6. SumFunctionOnSet(g, RowsOf(rows, a)) = SumFunctionOnSet(f, RowsOf(rows, a))
  BY <1>3, <1>5, SumSame
<1>7. \A i \in RowsOf(rows, a) : g[i] \in Int
  BY <1>3
<1>8. SumFunctionOnSet(g, RowsOf(rows, a) \cup {n}) = g[n] + SumFunctionOnSet(g, RowsOf(rows, a))
  BY <1>4, <1>5, <1>7, SumAdd
<1>9. /\ FundsIn(more, a) = SumFunctionOnSet(g, RowsOf(more, a))
      /\ FundsIn(rows, a) = SumFunctionOnSet(f, RowsOf(rows, a))
  BY DEF FundsIn, f, g
<1> QED
  BY <1>2, <1>4, <1>6, <1>8, <1>9 DEF more

\* In an account in order only one row is the newest.
LEMMA NewestIsOne ==
    ASSUME TypeOK, NEW a, InStartOrder(a),
           NEW b \in LatestBalances(ledger, a), NEW c \in LatestBalances(ledger, a)
    PROVE  b = c
<1>1. CASE RowsOf(ledger, a) = {}
  BY <1>1 DEF LatestBalances
<1>2. CASE RowsOf(ledger, a) # {}
  <2>1. PICK i \in DOMAIN ledger : IsNewest(ledger, a, i) /\ b = ledger[i].balance_after
    BY <1>2, Zenon DEF LatestBalances
  <2>2. PICK j \in DOMAIN ledger : IsNewest(ledger, a, j) /\ c = ledger[j].balance_after
    BY <1>2, Zenon DEF LatestBalances
  <2>3. i \in RowsOf(ledger, a) /\ j \in RowsOf(ledger, a)
    BY <2>1, <2>2 DEF IsNewest
  <2>4. ledger[i].created_at <= ledger[j].created_at /\ ledger[j].created_at <= ledger[i].created_at
    BY <2>1, <2>2, <2>3 DEF IsNewest
  <2>5. ledger[i] \in Row /\ ledger[j] \in Row /\ i \in Int /\ j \in Int
    BY DEF TypeOK
  <2>6. ~(ledger[i].created_at < ledger[j].created_at) /\ ~(ledger[j].created_at < ledger[i].created_at)
    BY <2>4, <2>5 DEF Row
  <2>7. i = j
    BY <2>3, <2>5, <2>6 DEF InStartOrder
  <2> QED
    BY <2>1, <2>2, <2>7
<1> QED
  BY <1>1, <1>2

\* The row appended shows all the money of its account, if it is its youngest.
LEMMA AppendFunds ==
    ASSUME LedgerInv, RunningBalanceWhenOrdered,
           NEW r \in Requests, Commit(r),
           NEW a \in Accounts, InStartOrder(a)'
    PROVE  Funds(a)' \in LatestBalances(ledger', a)
<1> USE DEF LedgerInv
<1> DEFINE row == NextRow(tx[r])
<1>1. tx[r] \in Reading
  BY PhaseType DEF Commit
<1>2. /\ row \in Row
      /\ row.account = tx[r].account
      /\ row.balance_after = tx[r].balance + Signed(row)
      /\ row.balance_after = Signed(row) + tx[r].balance
  BY <1>1, NextRowType DEF NextRow, NewBalance, Signed, Reading
<1>3. /\ ledger' = Append(ledger, row)
      /\ tx[r].balance \in LatestBalances(ledger, tx[r].account)
      /\ ledger \in Seq(Row)
  BY DEF Commit, ReadStillNewest, TypeOK
<1>4. Funds(a) = FundsIn(ledger, a) /\ Funds(a)' = FundsIn(ledger', a)
  BY DEF Funds, FundsIn
<1> HIDE DEF row
<1>5. /\ DOMAIN ledger = 1..Len(ledger) /\ DOMAIN ledger' = 1..Len(ledger) + 1
      /\ Len(ledger) \in Nat
      /\ ledger'[Len(ledger) + 1] = row
      /\ \A i \in 1..Len(ledger) : ledger'[i] = ledger[i] /\ ledger[i] \in Row
  BY <1>2, <1>3
<1>6. RowsOf(ledger, a) \subseteq RowsOf(ledger', a)
  BY <1>5 DEF RowsOf
<1>7. \A i \in RowsOf(ledger, a) : i \in 1..Len(ledger) /\ ledger'[i] = ledger[i] /\ ledger[i] \in Row
  BY <1>5 DEF RowsOf
<1>8. InStartOrder(a)
  BY <1>6, <1>7 DEF InStartOrder
<1>9. Funds(a) \in LatestBalances(ledger, a)
  BY <1>8 DEF RunningBalanceWhenOrdered
<1>10. CASE a # tx[r].account
  <2>1. LatestBalances(ledger', a) = LatestBalances(ledger, a)
    BY <1>2, <1>3, <1>10, OtherAccount
  <2>2. FundsIn(ledger', a) = FundsIn(ledger, a)
    BY <1>2, <1>3, <1>10, FundsAppend
  <2> QED
    BY <1>4, <1>9, <2>1, <2>2
<1>11. CASE a = tx[r].account
  <2>1. tx[r].balance = Funds(a)
    BY <1>3, <1>8, <1>9, <1>11, NewestIsOne
  <2>2. FundsIn(ledger', a) = row.balance_after
    BY <1>2, <1>3, <1>4, <1>11, <2>1, FundsAppend
  <2>3. Len(ledger) + 1 \in RowsOf(ledger', a) /\ Len(ledger) + 1 \in DOMAIN ledger'
    BY <1>2, <1>5, <1>11 DEF RowsOf
  <2>4. ASSUME NEW j \in RowsOf(ledger', a)
        PROVE  ledger'[j].created_at <= ledger'[Len(ledger) + 1].created_at
    <3>1. j \in 1..Len(ledger) + 1
      BY <1>5 DEF RowsOf
    <3>2. row.created_at \in Nat
      BY <1>2 DEF Row
    <3>3. CASE j = Len(ledger) + 1
      BY <1>5, <3>2, <3>3
    <3>4. CASE j # Len(ledger) + 1
      <4>1. j < Len(ledger) + 1 /\ j \in 1..Len(ledger)
        BY <1>5, <3>1, <3>4
      <4>2. ledger'[j].created_at < ledger'[Len(ledger) + 1].created_at
        BY <2>3, <4>1 DEF InStartOrder
      <4>3. ledger'[j].created_at \in Nat
        BY <1>5, <4>1 DEF Row
      <4> QED
        BY <1>5, <3>2, <4>2, <4>3
    <3> QED
      BY <3>3, <3>4
  <2>5. IsNewest(ledger', a, Len(ledger) + 1)
    BY <2>3, <2>4 DEF IsNewest
  <2>6. row.balance_after \in LatestBalances(ledger', a)
    BY <1>5, <2>3, <2>5 DEF LatestBalances
  <2> QED
    BY <1>4, <2>2, <2>6
<1> QED
  BY <1>10, <1>11

LEMMA RunningInvStep == RunningInv /\ [Next]_vars => RunningInv'
<1> SUFFICES ASSUME RunningInv, [Next]_vars PROVE RunningInv'
  OBVIOUS
<1>1. LedgerInv'
  BY LedgerInvStep DEF RunningInv
<1>2. CASE UNCHANGED ledger
  <2>1. RunningBalanceWhenOrdered'
    BY <1>2 DEF RunningInv, RunningBalanceWhenOrdered, InStartOrder, RunningBalance,
                FirstRow, Precedes, Funds
  <2> QED BY <1>1, <2>1 DEF RunningInv
<1>3. ASSUME NEW r \in Requests, Commit(r) PROVE RunningInv'
  <2>1. \A a \in Accounts :
           InStartOrder(a)' => RunningBalance(a)' /\ Funds(a)' \in LatestBalances(ledger', a)
    BY <1>3, AppendRuns, AppendFunds DEF RunningInv
  <2> QED
    BY <1>1, <2>1 DEF RunningInv, RunningBalanceWhenOrdered
<1>4. UNCHANGED ledger \/ \E r \in Requests : Commit(r)
  BY DEF Next, vars, Begin, LockAndRead, LockTimeout, RefundRead, RefundCommit, Abort
<1> QED
  BY <1>2, <1>3, <1>4

\* Whatever requests interleave, wait, fail or die: an account whose
\* transactions committed in the order they began has a correct running
\* balance in every row, and its newest balance is all its money.
THEOREM RunningBalances == Spec => []RunningBalanceWhenOrdered
<1>1. Init => RunningInv
  <2> SUFFICES ASSUME Init PROVE RunningInv
    OBVIOUS
  <2>1. \A a \in Accounts : RowsOf(ledger, a) = {}
    BY DEF Init, RowsOf
  <2>2. \A a \in Accounts : Funds(a) = 0 /\ LatestBalances(ledger, a) = {0}
    BY <2>1, SumEmpty DEF Funds, LatestBalances
  <2> QED
    BY <2>1, <2>2, LedgerInvInit DEF RunningInv, RunningBalanceWhenOrdered, RunningBalance
<1>2. RunningInv => RunningBalanceWhenOrdered
  BY DEF RunningInv
<1> QED
  BY <1>1, <1>2, RunningInvStep, PTL DEF Spec
-----------------------------------------------------------------------------
(* No balance is negative.                                                  *)

\* What an open transaction knows: a positive amount and, once it has read,
\* a balance that is not negative and suffices for a withdrawal.
Solvent(t) ==
    /\ t.phase \in {"open", "read"} => t.amount > 0
    /\ t.phase = "read" => t.balance >= 0 /\ Enough(t.kind, t.balance, t.amount)

MoneyInv ==
    /\ TypeOK
    /\ BalancesNonNegative
    /\ \A r \in Requests : Solvent(tx[r])

LEMMA LatestNonNegative ==
    ASSUME NEW rows, \A i \in DOMAIN rows : rows[i].balance_after >= 0,
           NEW a, NEW b \in LatestBalances(rows, a)
    PROVE  b >= 0
<1>1. CASE RowsOf(rows, a) = {}
  BY <1>1 DEF LatestBalances
<1>2. CASE RowsOf(rows, a) # {}
  <2>1. PICK i \in DOMAIN rows : b = rows[i].balance_after
    BY <1>2, Zenon DEF LatestBalances
  <2> QED BY <2>1
<1> QED BY <1>1, <1>2

LEMMA MoneyInvInit == Init => MoneyInv
  BY TypeInit DEF Init, MoneyInv, BalancesNonNegative, NoTx, Solvent

LEMMA MoneyInvStep == MoneyInv /\ [Next]_vars => MoneyInv'
<1> SUFFICES ASSUME MoneyInv, [Next]_vars PROVE MoneyInv'
  OBVIOUS
<1> USE DEF MoneyInv
<1>0. TypeOK'
  BY TypeStep
<1>1. CASE UNCHANGED vars
  BY <1>1 DEF vars, TypeOK, BalancesNonNegative, Solvent
<1>2. ASSUME NEW r \in Requests, UNCHANGED <<ledger, retainer>>,
             \A s \in Requests \ {r} : tx'[s] = tx[s],
             Solvent(tx'[r])
      PROVE  MoneyInv'
  BY <1>0, <1>2 DEF BalancesNonNegative, Solvent
<1>3. ASSUME NEW r \in Requests, NEW kind \in Kinds, NEW a \in Accounts,
             NEW amount \in Amounts, Begin(r, kind, a, amount)
      PROVE  MoneyInv'
  BY <1>2, <1>3 DEF Begin, TypeOK, Solvent
<1>4. ASSUME NEW r \in Requests, LockAndRead(r) PROVE MoneyInv'
  <2>1. PICK b \in LatestBalances(ledger, tx[r].account) :
           tx' = [tx EXCEPT ![r] = IF Enough(tx[r].kind, b, tx[r].amount)
                                   THEN HasRead(tx[r], b)
                                   ELSE [phase |-> "aborted"]]
    BY <1>4 DEF LockAndRead
  <2>2. b >= 0
    BY LatestNonNegative DEF BalancesNonNegative
  <2>3. tx[r].amount > 0
    BY <1>4 DEF LockAndRead, Solvent
  <2>4. Solvent(tx'[r])
    BY <2>1, <2>2, <2>3 DEF Solvent, HasRead, Enough, TypeOK
  <2> QED BY <1>2, <1>4, <2>1, <2>4 DEF LockAndRead, TypeOK
<1>5. ASSUME NEW r \in Requests, LockTimeout(r) PROVE MoneyInv'
  BY <1>2, <1>5 DEF LockTimeout, TypeOK, Solvent
<1>6. ASSUME NEW r \in Requests, Commit(r) PROVE MoneyInv'
  <2>1. tx[r] \in Reading
    BY <1>6, PhaseType DEF Commit
  <2>2. NextRow(tx[r]) \in Row
    BY <2>1, NextRowType
  <2>3. NextRow(tx[r]).balance_after >= 0
    BY <1>6, <2>1 DEF Commit, NextRow, NewBalance, Reading, Solvent, Enough
  <2>4. \A i \in DOMAIN ledger' : ledger'[i].balance_after >= 0
    BY <1>6, <2>2, <2>3 DEF Commit, BalancesNonNegative, TypeOK
  <2>5. PICK b \in LatestBalances(ledger', tx[r].account) :
           retainer' = [retainer EXCEPT ![tx[r].account.matter] = b]
    BY <1>6 DEF Commit, SyncRetainer
  <2>6. b >= 0
    BY <2>4, LatestNonNegative
  <2>7. BalancesNonNegative'
    BY <2>4, <2>5, <2>6 DEF BalancesNonNegative, TypeOK
  <2>8. \A s \in Requests : Solvent(tx'[s])
    BY <1>6 DEF Commit, End, Solvent, TypeOK
  <2> QED BY <1>0, <2>7, <2>8
<1>7. ASSUME NEW r \in Requests, RefundRead(r) PROVE MoneyInv'
  <2>1. tx[r] \in Waiting
    BY <1>7, PhaseType DEF RefundRead
  <2>2. tx[r].account.matter \in Matters
    BY <2>1 DEF Waiting, Matters
  <2>3. Solvent(tx'[r])
    BY <1>7, <2>2 DEF RefundRead, Solvent, HasRead, Enough, TypeOK, BalancesNonNegative
  <2> QED BY <1>2, <1>7, <2>3 DEF RefundRead, TypeOK
<1>8. ASSUME NEW r \in Requests, RefundCommit(r) PROVE MoneyInv'
  <2>1. tx[r] \in Reading
    BY <1>8, PhaseType DEF RefundCommit
  <2>2. Decremented(tx[r].balance, tx[r].amount) >= 0
    BY <2>1 DEF Decremented, Reading
  <2>3. BalancesNonNegative'
    BY <1>8, <2>2 DEF RefundCommit, BalancesNonNegative, TypeOK
  <2>4. \A s \in Requests : Solvent(tx'[s])
    BY <1>8 DEF RefundCommit, End, Solvent, TypeOK
  <2> QED BY <1>0, <2>3, <2>4
<1>9. ASSUME NEW r \in Requests, Abort(r) PROVE MoneyInv'
  BY <1>2, <1>9 DEF Abort, TypeOK, Solvent
<1> QED
  BY <1>1, <1>3, <1>4, <1>5, <1>6, <1>7, <1>8, <1>9 DEF Next

\* No ledger row and no matter ever shows a negative balance.
THEOREM NoNegativeBalance == Spec => []BalancesNonNegative
<1>1. MoneyInv => BalancesNonNegative
  BY DEF MoneyInv
<1> QED
  BY <1>1, MoneyInvInit, MoneyInvStep, PTL DEF Spec

\* An account is overdrawn only after one of its transactions has committed
\* before another that began earlier.
THEOREM SolventWhenOrdered ==
    Spec => [](\A a \in Accounts : InStartOrder(a) => Funds(a) >= 0)
<1>1. MoneyInv /\ RunningBalanceWhenOrdered =>
         \A a \in Accounts : InStartOrder(a) => Funds(a) >= 0
  BY LatestNonNegative DEF MoneyInv, BalancesNonNegative, RunningBalanceWhenOrdered
<1>2. Spec => []MoneyInv
  BY MoneyInvInit, MoneyInvStep, PTL DEF Spec
<1> QED
  BY <1>1, <1>2, RunningBalances, PTL

-----------------------------------------------------------------------------
(* The cached balance.                                                      *)

\* What CacheMatchesLedger promises of matter m.
Cached(m) ==
    \/ m \in refunded
    \/ retainer[m] = 0 /\ \A a \in Accounts : a.matter = m => RowsOf(ledger, a) = {}
    \/ \E a \in Accounts : CacheFollows(m, a)

\* A matter is untouched by what happens to the others.
LEMMA CacheKept ==
    ASSUME NEW m \in Matters, Cached(m),
           retainer'[m] = retainer[m], alerts \subseteq alerts',
           m \in refunded => m \in refunded',
           \A a \in Accounts : a.matter = m =>
              /\ RowsOf(ledger', a) = RowsOf(ledger, a)
              /\ LatestBalances(ledger', a) = LatestBalances(ledger, a)
    PROVE  Cached(m)'
<1>1. CASE m \in refunded
  BY <1>1 DEF Cached
<1>2. CASE retainer[m] = 0 /\ \A a \in Accounts : a.matter = m => RowsOf(ledger, a) = {}
  BY <1>2 DEF Cached
<1>3. ASSUME NEW a \in Accounts, CacheFollows(m, a)
      PROVE  Cached(m)'
  <2>1. CacheFollows(m, a)'
    BY <1>3 DEF CacheFollows
  <2> QED
    BY <2>1 DEF Cached
<1> QED
  BY <1>1, <1>2, <1>3 DEF Cached

LEMMA CommitCaches ==
    ASSUME TypeOK, CacheMatchesLedger, NEW r \in Requests, Commit(r), NEW m \in Matters
    PROVE  Cached(m)'
<1> DEFINE row == NextRow(tx[r])
<1>1. PICK mine \in Accounts : tx[r] \in Reading /\ mine = tx[r].account
  BY PhaseType DEF Commit, Reading
<1>2. row \in Row /\ row.account = mine
  BY <1>1, NextRowType DEF NextRow
<1>3. ledger' = Append(ledger, row) /\ refunded' = refunded \ {mine.matter}
  BY <1>1 DEF Commit
<1>4. PICK b \in LatestBalances(ledger', mine) :
         /\ retainer' = [retainer EXCEPT ![mine.matter] = b]
         /\ alerts' = IF b < Threshold
                      THEN alerts \cup {[matter |-> mine.matter, balance |-> b]}
                      ELSE alerts
  BY <1>1 DEF Commit, SyncRetainer
<1> HIDE DEF row
<1>5. CASE m = mine.matter
  <2>1. RowsOf(ledger', mine) # {}
    <3>1. Len(ledger) + 1 \in DOMAIN ledger' /\ ledger'[Len(ledger) + 1] = row
      BY <1>2, <1>3 DEF TypeOK
    <3> QED
      BY <1>2, <3>1 DEF RowsOf
  <2>2. retainer'[m] = b
    BY <1>4, <1>5 DEF TypeOK
  <2>3. CacheFollows(m, mine)'
    BY <1>4, <1>5, <2>1, <2>2 DEF CacheFollows
  <2> QED
    BY <2>3 DEF Cached
<1>6. CASE m # mine.matter
  <2>1. Cached(m)
    BY DEF CacheMatchesLedger, Cached
  <2>2. retainer'[m] = retainer[m] /\ alerts \subseteq alerts'
    BY <1>4, <1>6 DEF TypeOK
  <2>3. m \in refunded => m \in refunded'
    BY <1>3, <1>6
  <2>4. ASSUME NEW a \in Accounts, a.matter = m
        PROVE  /\ RowsOf(ledger', a) = RowsOf(ledger, a)
               /\ LatestBalances(ledger', a) = LatestBalances(ledger, a)
    <3>1. row.account # a
      BY <1>2, <1>6, <2>4
    <3> QED
      BY <1>2, <1>3, <3>1, OtherAccount DEF TypeOK
  <2> QED
    BY <2>1, <2>2, <2>3, <2>4, CacheKept
<1> QED
  BY <1>5, <1>6

LEMMA RefundCommitCaches ==
    ASSUME TypeOK, CacheMatchesLedger, NEW r \in Requests, RefundCommit(r), NEW m \in Matters
    PROVE  Cached(m)'
<1>1. Cached(m)
  BY DEF CacheMatchesLedger, Cached
<1>2. /\ refunded' = refunded \cup {tx[r].account.matter}
      /\ UNCHANGED <<ledger, alerts>>
  BY DEF RefundCommit
<1>3. CASE m = tx[r].account.matter
  BY <1>2, <1>3 DEF Cached
<1>4. CASE m # tx[r].account.matter
  <2>1. retainer'[m] = retainer[m]
    BY <1>4 DEF RefundCommit, TypeOK
  <2> QED
    BY <1>1, <1>2, <2>1, CacheKept
<1> QED
  BY <1>3, <1>4

LEMMA CacheStep == TypeOK /\ CacheMatchesLedger /\ [Next]_vars => CacheMatchesLedger'
<1> SUFFICES ASSUME TypeOK, CacheMatchesLedger, [Next]_vars, NEW m \in Matters
             PROVE  Cached(m)'
  BY DEF CacheMatchesLedger, Cached
<1>1. CASE UNCHANGED <<ledger, retainer, alerts, refunded>>
  <2>1. Cached(m)
    BY DEF CacheMatchesLedger, Cached
  <2> QED
    BY <1>1, <2>1, CacheKept
<1>2. ASSUME NEW r \in Requests,
             \/ \E kind \in Kinds, a \in Accounts, amount \in Amounts : Begin(r, kind, a, amount)
             \/ LockAndRead(r) \/ LockTimeout(r) \/ RefundRead(r) \/ Abort(r)
      PROVE  Cached(m)'
  <2>1. UNCHANGED <<ledger, retainer, alerts, refunded>>
    BY <1>2 DEF Begin, LockAndRead, LockTimeout, RefundRead, Abort
  <2> QED
    BY <1>1, <2>1
<1>3. ASSUME NEW r \in Requests, Commit(r) \/ RefundCommit(r) PROVE Cached(m)'
  BY <1>3, CommitCaches, RefundCommitCaches
<1>4. CASE UNCHANGED vars
  BY <1>1, <1>4 DEF vars
<1> QED
  BY <1>2, <1>3, <1>4 DEF Next

\* However many accounts share a matter and however their transactions
\* interleave, the matter's cached balance is the newest balance of one of its
\* accounts and a low one has been alerted, except from a refund, which writes
\* the cache alone, to the next deposit or withdrawal of the matter.
THEOREM CacheMatches == Spec => []CacheMatchesLedger
<1>1. Init => CacheMatchesLedger
  BY DEF Init, CacheMatchesLedger, RowsOf
<1> QED
  BY <1>1, TypeInit, TypeStep, CacheStep, PTL DEF Spec
=============================================================================
