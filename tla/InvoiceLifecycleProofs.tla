------------------------ MODULE InvoiceLifecycleProofs ------------------------
(* Proofs about InvoiceLifecycle, for any number of requests, Stripe        *)
(* invoices and editions, with every fault.                                 *)
EXTENDS InvoiceLifecycle, TLAPS

Ops == [at : Steps, invoice : StripeIds \cup {None},
        items : Editions \cup {0}, status : Statuses]


\* Steps at which a request works on an invoice of Stripe.
Working == {"attach", "finalize", "send", "persist", "mark", "void_rolled_back", "void"}

LocatedOp(o) ==
    /\ o.at \in Working => o.invoice \in StripeIds
    /\ o.at \in {"create", "attach"} => o.items \in Editions

Located == \A p \in Handlers : LocatedOp(op[p])

StripeOK == stripe \in [StripeIds -> [state : StripeStates, items : SUBSET Editions]]
KeysOK ==
    keys \in [invoice : StripeIds \cup {None}, items : SUBSET Editions,
              finalized : BOOLEAN, sent : BOOLEAN]
RowOK ==
    row \in [status : Statuses, invoice : StripeIds \cup {None},
             items : Editions, deleted : BOOLEAN]

VoidJobs == [invoice : StripeIds, left : 0..MaxAttempts]
JobsOK   == voidJobs \subseteq VoidJobs /\ reopened \in BOOLEAN

LEMMA TypeParts ==
    TypeOK <=> /\ RowOK /\ StripeOK /\ KeysOK /\ op \in [Handlers -> Ops]
               /\ inbox \subseteq Events /\ payments \subseteq StripeIds
               /\ JobsOK
  BY DEF TypeOK, RowOK, StripeOK, KeysOK, JobsOK, VoidJobs, Ops

LEMMA TypeInit == Init => TypeOK /\ Located
<1>1. Init => JobsOK
  BY DEF Init, JobsOK, VoidJobs
<1>2. Init => RowOK /\ StripeOK /\ KeysOK /\ inbox \subseteq Events /\ payments \subseteq StripeIds
  BY InvoiceAssumption
     DEF Init, RowOK, StripeOK, KeysOK, KeysOf, Statuses, StripeStates, Editions
<1>3. Init => op \in [Handlers -> Ops] /\ Located
  BY InvoiceAssumption
     DEF Init, Ops, Idle, Statuses, Sending, Steps, Editions, Located, LocatedOp, Working
<1> QED
  BY <1>1, <1>2, <1>3, TypeParts

LEMMA IdleType == Idle \in Ops /\ Idle.at = "idle"
  BY DEF Idle, Ops, Steps, Statuses

LEMMA AnsweredType ==
    ASSUME TypeOK, Located, NEW p \in Handlers, NEW s \in StripeIds, NEW step \in Steps,
           Answered(p, step, s),
           step \in {"create", "attach"} => op[p].items \in Editions
    PROVE  op' \in [Handlers -> Ops] /\ Located'
<1>1. op \in [Handlers -> Ops]
  BY DEF TypeOK, Ops
<1>2. op[p] \in Ops
  BY <1>1
<1> SUFFICES ASSUME NEW o \in Ops, op' = [op EXCEPT ![p] = o], LocatedOp(o)
             PROVE  op' \in [Handlers -> Ops] /\ Located'
  <2>1. CASE op' = [op EXCEPT ![p] = [op[p] EXCEPT !.at = step, !.invoice = s]]
    <3>1. [op[p] EXCEPT !.at = step, !.invoice = s] \in Ops
      BY <1>2 DEF Ops
    <3>2. LocatedOp([op[p] EXCEPT !.at = step, !.invoice = s])
      BY <1>2, <3>1 DEF LocatedOp, Ops
    <3> QED
      BY <2>1, <3>1, <3>2
  <2>2. CASE op' = [op EXCEPT ![p] = [op[p] EXCEPT !.at = "rollback", !.invoice = None]]
    <3>1. [op[p] EXCEPT !.at = "rollback", !.invoice = None] \in Ops
      BY <1>2 DEF Ops, Steps, Sending
    <3>2. LocatedOp([op[p] EXCEPT !.at = "rollback", !.invoice = None])
      BY <1>2 DEF LocatedOp, Ops, Working
    <3> QED
      BY <2>2, <3>1, <3>2
  <2> QED
    BY <1>1, <2>1, <2>2 DEF Answered
<1> QED
  BY <1>1 DEF Located

LEMMA GotoType ==
    ASSUME TypeOK, Located, NEW p \in Handlers, NEW step \in Steps, Goto(p, step),
           LocatedOp([op[p] EXCEPT !.at = step])
    PROVE  op' \in [Handlers -> Ops] /\ Located'
  BY DEF Goto, TypeOK, Ops, Steps, Sending, Located, LocatedOp

LEMMA DoneType ==
    ASSUME TypeOK, Located, NEW p \in Handlers, Done(p)
    PROVE  op' \in [Handlers -> Ops] /\ Located'
  BY IdleType DEF Done, TypeOK, Ops, Steps, Sending, Located, LocatedOp, Working

LEMMA BeganType ==
    ASSUME TypeOK, Located, NEW p \in Handlers, NEW o \in Ops,
           op' = [op EXCEPT ![p] = o], LocatedOp(o)
    PROVE  op' \in [Handlers -> Ops] /\ Located'
  BY DEF TypeOK, Ops, Located, LocatedOp

LEMMA MovesType ==
    ASSUME StripeOK, NEW s \in StripeIds, NEW to \in StripeStates, StripeMoves(s, to)
    PROVE  StripeOK'
<1>1. [stripe[s] EXCEPT !.state = to] \in [state : StripeStates, items : SUBSET Editions]
  BY DEF StripeOK
<1>2. stripe' = [stripe EXCEPT ![s] = [stripe[s] EXCEPT !.state = to]]
  BY DEF StripeMoves
<1> QED
  BY <1>1, <1>2 DEF StripeOK

LEMMA VoidAtStripeType ==
    ASSUME TypeOK, NEW s \in StripeIds, VoidAtStripe(s)
    PROVE  /\ stripe' \in [StripeIds -> [state : StripeStates, items : SUBSET Editions]]
           /\ inbox' \subseteq Events
  BY DEF VoidAtStripe, StripeMoves, Emit, TypeOK, StripeStates, Events, Voidable

LEMMA QueuedType ==
    ASSUME JobsOK, NEW s \in StripeIds
    PROVE  ToReconcile(s) \subseteq VoidJobs
  BY InvoiceAssumption DEF JobsOK, ToReconcile, VoidJobs

LEMMA RetriedType ==
    ASSUME NEW s \in StripeIds, NEW left \in 1..MaxAttempts
    PROVE  Retried([invoice |-> s, left |-> left]) \subseteq VoidJobs
  BY InvoiceAssumption DEF Retried, VoidJobs

LEMMA StatusMapType ==
    ASSUME NEW state \in DOMAIN StatusMap
    PROVE  StatusMap[state] \in Statuses \ {"pending", "sending"}
  BY DEF StatusMap, Statuses

\* Each kind of step keeps the types.
LEMMA TypeSend ==
    ASSUME TypeOK, Located, NEW p \in Handlers, SendStep(p)
    PROVE  TypeOK' /\ Located'
<1> USE DEF Steps, Sending
<1>0. op[p] \in Ops /\ RowOK /\ StripeOK /\ KeysOK /\ LocatedOp(op[p])
  BY TypeParts DEF Located
<1> SUFFICES /\ RowOK' /\ StripeOK' /\ KeysOK' /\ op' \in [Handlers -> Ops] /\ Located'
             /\ inbox' \subseteq Events /\ UNCHANGED <<payments, voidJobs, reopened>>
  BY DEF TypeOK, RowOK, StripeOK, KeysOK, Ops
<1> USE <1>0
<1>1. inbox \subseteq Events
  BY DEF TypeOK
<1>2. CASE Create(p)
  <2>1. op' \in [Handlers -> Ops] /\ Located'
    BY <1>2, AnsweredType DEF Create, CreateReplays, LocatedOp
  <2>2. StripeOK'
    BY <1>2, MovesType DEF Create, StripeOK, StripeStates
  <2>3. KeysOK'
    <3>1. CASE UNCHANGED keys
      BY <3>1 DEF KeysOK
    <3>2. CASE \E s \in StripeIds : keys' = KeysOf(s)
      BY <3>2 DEF KeysOf, KeysOK
    <3> QED
      BY <1>2, <3>1, <3>2 DEF Create
  <2> QED
    BY <1>1, <1>2, <2>1, <2>2, <2>3 DEF Create, RowOK
<1>3. CASE Attach(p)
  <2>1. op[p].invoice \in StripeIds /\ op[p].items \in Editions
    BY <1>3 DEF Attach, LocatedOp, Working
  <2>2. op' \in [Handlers -> Ops] /\ Located'
    BY <1>3, <2>1, AnsweredType DEF Attach, Attached
  <2>3. StripeOK' /\ KeysOK'
    BY <1>3, <2>1 DEF Attach, StripeOK, KeysOK
  <2> QED
    BY <1>1, <1>3, <2>2, <2>3 DEF Attach, RowOK
<1>4. CASE Finalize(p)
  <2>1. op[p].invoice \in StripeIds
    BY <1>4 DEF Finalize, LocatedOp, Working
  <2>2. op' \in [Handlers -> Ops] /\ Located'
    BY <1>4, <2>1, AnsweredType DEF Finalize
  <2>3. StripeOK'
    BY <1>4, <2>1, MovesType DEF Finalize, StripeOK, StripeStates
  <2>4. KeysOK'
    BY <1>4 DEF Finalize, KeysOK
  <2> QED
    BY <1>1, <1>4, <2>2, <2>3, <2>4 DEF Finalize, RowOK
<1>5. CASE Send(p)
  <2>1. op[p].invoice \in StripeIds
    BY <1>5 DEF Send, LocatedOp, Working
  <2>2. op' \in [Handlers -> Ops] /\ Located'
    BY <1>5, <2>1, AnsweredType DEF Send
  <2>3. KeysOK'
    BY <1>5 DEF Send, KeysOK
  <2> QED
    BY <1>1, <1>5, <2>2, <2>3 DEF Send, RowOK, StripeOK
<1>6. CASE StripeError(p)
  <2>1. op' \in [Handlers -> Ops] /\ Located'
    BY <1>6 DEF StripeError, TypeOK, Ops, Located, LocatedOp, Working
  <2> QED
    BY <1>1, <1>6, <2>1 DEF StripeError, RowOK, StripeOK, KeysOK
<1>7. CASE Persist(p)
  <2>1. op[p].invoice \in StripeIds
    BY <1>7 DEF Persist, LocatedOp, Working
  <2>2. op' \in [Handlers -> Ops] /\ Located'
    BY <1>7, <2>1, GotoType DEF Persist, LocatedOp, Ops
  <2> QED
    BY <1>1, <1>7, <2>1, <2>2 DEF Persist, RowOK, StripeOK, KeysOK
<1>8. CASE Mark(p)
  <2>1. op[p].invoice \in StripeIds
    BY <1>8 DEF Mark, LocatedOp, Working
  <2>2. op' \in [Handlers -> Ops] /\ Located'
    BY <1>8, <2>1, GotoType, DoneType DEF Mark, LocatedOp, Working, Ops
  <2> QED
    BY <1>1, <1>8, <2>1, <2>2 DEF Mark, RowOK, StripeOK, KeysOK, Statuses
<1>9. CASE SendThrows(p)
  <2>2. op' \in [Handlers -> Ops] /\ Located'
    BY <1>9, GotoType DEF SendThrows, Working, LocatedOp, Ops
  <2> QED
    BY <1>1, <1>9, <2>2 DEF SendThrows, RowOK, StripeOK, KeysOK
<1>10. CASE Rollback(p)
  <2>2. op' \in [Handlers -> Ops] /\ Located'
    BY <1>10, GotoType, DoneType DEF Rollback, Ops, LocatedOp
  <2> QED
    BY <1>1, <1>10, <2>2 DEF Rollback, RolledBack, RowOK, StripeOK, KeysOK, Statuses
<1>11. CASE RollbackThrows(p)
  <2>2. op' \in [Handlers -> Ops] /\ Located'
    BY <1>11, DoneType DEF RollbackThrows
  <2> QED
    BY <1>1, <1>11, <2>2 DEF RollbackThrows, RowOK, StripeOK, KeysOK
<1>12. CASE VoidRolledBack(p)
  <2>1. op[p].invoice \in StripeIds
    BY <1>12 DEF VoidRolledBack, LocatedOp, Working
  <2>2. op' \in [Handlers -> Ops] /\ Located'
    BY <1>12, DoneType DEF VoidRolledBack
  <2> QED
    BY <1>12, <2>1, <2>2, VoidAtStripeType DEF VoidRolledBack, RowOK, StripeOK, KeysOK
<1> QED
  BY <1>2, <1>3, <1>4, <1>5, <1>6, <1>7, <1>8, <1>9, <1>10, <1>11, <1>12 DEF SendStep

\* The other steps.
LEMMA TypeOther ==
    ASSUME TypeOK, Located, [Next]_vars, \A p \in Handlers : ~SendStep(p)
    PROVE  TypeOK' /\ Located'
<1> USE TypeParts DEF Steps, Sending
<1>0. RowOK /\ StripeOK /\ KeysOK /\ op \in [Handlers -> Ops] /\ inbox \subseteq Events
      /\ payments \subseteq StripeIds /\ JobsOK
  OBVIOUS
<1> DEFINE TypeGoal ==
             /\ RowOK' /\ StripeOK' /\ KeysOK' /\ op' \in [Handlers -> Ops] /\ Located'
             /\ inbox' \subseteq Events /\ payments' \subseteq StripeIds
             /\ JobsOK'
<1> SUFFICES TypeGoal
  BY DEF TypeOK, RowOK, StripeOK, KeysOK, JobsOK, VoidJobs, Ops
<1> HIDE DEF TypeGoal
<1> USE <1>0
<1>1. ASSUME NEW p \in Handlers, Begin(p) PROVE TypeGoal
  <2>0. op[p] \in Ops
    OBVIOUS
  <2>1. CASE Lock(p)
    <3>1. [Idle EXCEPT !.at = "create", !.items = row.items] \in Ops
      BY IdleType DEF Ops, RowOK
    <3>2. op' \in [Handlers -> Ops] /\ Located'
      BY <2>1, <3>1, BeganType, IdleType DEF Lock, LocatedOp, Working, RowOK, Idle
    <3>3. RowOK'
      BY <2>1 DEF Lock, RowOK, Statuses
    <3>4. UNCHANGED <<stripe, keys, inbox, payments, voidJobs, reopened>>
      BY <2>1 DEF Lock
    <3> QED
      BY <3>2, <3>3, <3>4 DEF StripeOK, KeysOK, JobsOK, TypeGoal
  <2>2. CASE VoidLocally(p)
    <3>1. [Idle EXCEPT !.at = "void", !.invoice = row.invoice] \in Ops
      BY IdleType DEF Ops, RowOK
    <3>2. op' \in [Handlers -> Ops] /\ Located'
      BY <2>2, <3>1, BeganType, IdleType DEF VoidLocally, LocatedOp, Working, RowOK, Idle
    <3>3. RowOK'
      BY <2>2 DEF VoidLocally, RowOK, Statuses
    <3>4. UNCHANGED <<stripe, keys, inbox, payments, voidJobs, reopened>>
      BY <2>2 DEF VoidLocally
    <3> QED
      BY <3>2, <3>3, <3>4 DEF StripeOK, KeysOK, JobsOK, TypeGoal
  <2>3. CASE CheckUpdate(p)
    <3>1. ASSUME NEW to \in ManualStatuses
          PROVE  LET o == [Idle EXCEPT !.at = "set", !.status = to]
                 IN  o \in Ops /\ LocatedOp(o)
      BY IdleType, InvoiceAssumption DEF Ops, LocatedOp, Working, Idle, Statuses
    <3>2. LocatedOp([op[p] EXCEPT !.at = "edit"])
      BY <2>0 DEF LocatedOp, Working, Ops
    <3>3. op' \in [Handlers -> Ops] /\ Located'
      BY <2>3, <3>1, <3>2, BeganType, GotoType DEF CheckUpdate
    <3> QED
      BY <2>3, <3>3 DEF CheckUpdate, RowOK, StripeOK, KeysOK, JobsOK, TypeGoal
  <2>4. CASE CheckDelete(p)
    <3>2. LocatedOp([op[p] EXCEPT !.at = "delete"])
      BY <2>0 DEF LocatedOp, Working, Ops
    <3>3. op' \in [Handlers -> Ops] /\ Located'
      BY <2>4, <3>2, GotoType DEF CheckDelete
    <3> QED
      BY <2>4, <3>3 DEF CheckDelete, RowOK, StripeOK, KeysOK, JobsOK, TypeGoal
  <2>5. CASE SyncRead(p)
    <3>1. PICK to \in Statuses : op' = [op EXCEPT ![p] = [Idle EXCEPT !.at = "sync", !.status = to]]
      BY <2>5, StatusMapType DEF SyncRead, RowOK
    <3>2. [Idle EXCEPT !.at = "sync", !.status = to] \in Ops
      BY IdleType DEF Ops
    <3>3. op' \in [Handlers -> Ops] /\ Located'
      BY <3>1, <3>2, BeganType, IdleType DEF LocatedOp, Working, Idle
    <3> QED
      BY <2>5, <3>3 DEF SyncRead, RowOK, StripeOK, KeysOK, JobsOK, TypeGoal
  <2> QED
    BY <1>1, <2>1, <2>2, <2>3, <2>4, <2>5 DEF Begin
<1>2. ASSUME NEW p \in Handlers, Continue(p) \/ Crash(p) PROVE TypeGoal
  <2>0. op[p] \in Ops
    OBVIOUS
  <2>1. CASE VoidStripe(p)
    <3>1. op[p].invoice \in StripeIds
      BY <2>1 DEF VoidStripe, Located, LocatedOp, Working
    <3>2. op' \in [Handlers -> Ops] /\ Located'
      BY <2>1, DoneType DEF VoidStripe
    <3>3. JobsOK'
      BY <2>1, <3>1, QueuedType DEF VoidStripe, JobsOK
    <3> QED
      BY <2>1, <3>1, <3>2, <3>3, VoidAtStripeType
         DEF VoidStripe, RowOK, StripeOK, KeysOK, JobsOK, TypeGoal
  <2>2. CASE EditItems(p)
    <3>2. op' \in [Handlers -> Ops] /\ Located'
      BY <2>2, DoneType DEF EditItems
    <3> QED
      BY <2>2, <3>2 DEF EditItems, RowOK, StripeOK, KeysOK, JobsOK, TypeGoal
  <2>3. CASE SetStatus(p)
    <3>2. op' \in [Handlers -> Ops] /\ Located'
      BY <2>3, DoneType DEF SetStatus
    <3> QED
      BY <2>0, <2>3, <3>2 DEF SetStatus, RowOK, StripeOK, KeysOK, JobsOK, TypeGoal, Ops
  <2>4. CASE Delete(p)
    <3>2. op' \in [Handlers -> Ops] /\ Located'
      BY <2>4, DoneType DEF Delete
    <3> QED
      BY <2>4, <3>2 DEF Delete, RowOK, StripeOK, KeysOK, JobsOK, TypeGoal
  <2>5. CASE Crash(p)
    <3>2. op' \in [Handlers -> Ops] /\ Located'
      BY <2>5, DoneType DEF Crash
    <3> QED
      BY <2>5, <3>2 DEF Crash, RowOK, StripeOK, KeysOK, JobsOK, TypeGoal
  <2> QED
    BY <1>2, <2>1, <2>2, <2>3, <2>4, <2>5 DEF Continue
<1>3. ASSUME NEW s \in StripeIds, Webhook(s) \/ Job(s) \/ Outside(s) PROVE TypeGoal
  <2>1. CASE PaidWebhook(s)
    BY <2>1 DEF PaidWebhook, Taken, RowOK, StripeOK, KeysOK, JobsOK, TypeGoal, Located
  <2>2. CASE \/ StatusWebhook("payment_failed", s, OverdueRow)
             \/ StatusWebhook("voided", s, CancelledRow)
             \/ StatusWebhook("deleted", s, DeletedRow)
    <3>1. RowOK'
      BY <2>2 DEF StatusWebhook, OverdueRow, CancelledRow, DeletedRow, RowOK, Statuses
    <3>2. inbox' \subseteq Events
      BY <2>2 DEF StatusWebhook, Taken
    <3>3. UNCHANGED <<stripe, keys, op, payments, voidJobs, reopened>>
      BY <2>2 DEF StatusWebhook
    <3> QED
      BY <3>1, <3>2, <3>3 DEF StripeOK, KeysOK, JobsOK, TypeGoal, Located
  <2>3. CASE PaymentJob(s)
    BY <2>3 DEF PaymentJob, Taken, RowOK, StripeOK, KeysOK, JobsOK, TypeGoal, Located, Statuses
  <2>4. ASSUME NEW left \in 1..MaxAttempts, ReconcileVoid([invoice |-> s, left |-> left])
        PROVE  TypeGoal
    <3>1. StripeOK' /\ inbox' \subseteq Events
      BY <2>4, MovesType
         DEF ReconcileVoid, VoidOwed, Emit, Events, StripeStates, StripeOK
    <3>2. JobsOK'
      BY <2>4, RetriedType DEF ReconcileVoid, JobsOK
    <3> QED
      BY <2>4, <3>1, <3>2 DEF ReconcileVoid, RowOK, KeysOK, TypeGoal, Located
  <2>5. CASE Outside(s)
    <3>1. StripeOK' /\ inbox' \subseteq Events
      BY <2>5, MovesType
         DEF Outside, Pay, PaymentFails, InDashboard, Emit, Events, StripeStates, StripeOK
    <3> QED
      BY <2>5, <3>1
         DEF Outside, Pay, PaymentFails, InDashboard, RowOK, KeysOK, JobsOK, TypeGoal, Located
  <2> QED
    BY <1>3, <2>1, <2>2, <2>3, <2>4, <2>5 DEF Webhook, Job
<1>4. CASE UNCHANGED vars
  BY <1>4 DEF vars, RowOK, StripeOK, KeysOK, JobsOK, TypeGoal, Located
<1> QED
  BY <1>1, <1>2, <1>3, <1>4 DEF Next, TypeGoal

LEMMA TypeStep == TypeOK /\ Located /\ [Next]_vars => TypeOK' /\ Located'
  BY TypeSend, TypeOther

\* The variables keep their types, and a request that talks to Stripe about an
\* invoice has one.
THEOREM TypeCorrect == Spec => []TypeOK
<1>1. Spec => [](TypeOK /\ Located)
  BY TypeInit, TypeStep, PTL DEF Spec
<1> QED
  BY <1>1, PTL

-----------------------------------------------------------------------------
(* The row's Stripe invoice.  All attempts to send share their keys, so they *)
(* work on one invoice; a row is linked to it only after finalizing has      *)
(* succeeded once, and what is finalized stays so.                           *)

KeyOp(o, k) ==
    /\ o.at \in {"attach", "finalize", "send", "persist", "mark"} => o.invoice = k.invoice
    /\ o.at \in {"send", "persist", "mark"} => k.finalized

KeyInv ==
    /\ \A p \in Handlers : KeyOp(op[p], keys)
    /\ keys.finalized =>
          keys.invoice \in StripeIds /\ stripe[keys.invoice].state \in Finalized
    /\ row.invoice # None => row.invoice = keys.invoice /\ keys.finalized
    /\ \A s \in StripeIds : stripe[s].state # "absent" => s = keys.invoice

\* Finalized and paid invoices stay so; only Create adds one.
Kept ==
    \A s \in StripeIds :
       /\ stripe[s].state \in Finalized => stripe'[s].state \in Finalized
       /\ stripe[s].state = "paid" => stripe'[s].state = "paid"
       /\ stripe[s].state # "absent" => stripe'[s].state # "absent"

NoneAdded == \A s \in StripeIds : stripe[s].state = "absent" => stripe'[s].state = "absent"

LEMMA MoveKeeps ==
    ASSUME StripeOK, NEW s \in StripeIds, NEW to, StripeMoves(s, to),
           stripe[s].state \notin {"absent", "paid"}, to # "absent",
           stripe[s].state \in Finalized => to \in Finalized
    PROVE  Kept /\ NoneAdded
  BY DEF StripeOK, StripeMoves, Kept, NoneAdded, Finalized

LEMMA VoidKeeps ==
    ASSUME StripeOK, NEW s \in StripeIds, VoidAtStripe(s)
    PROVE  Kept /\ NoneAdded
<1>1. CASE UNCHANGED stripe
  BY <1>1 DEF Kept, NoneAdded
<1>2. CASE Voidable(s) /\ StripeMoves(s, "void")
  BY <1>2, MoveKeeps DEF Voidable, Finalized
<1> QED
  BY <1>1, <1>2 DEF VoidAtStripe

LEMMA SameKeeps == UNCHANGED stripe => Kept /\ NoneAdded
  BY DEF Kept, NoneAdded

LEMMA SendKeeps ==
    ASSUME TypeOK, Located, NEW p \in Handlers, SendStep(p)
    PROVE  Kept /\ (NoneAdded \/ Create(p))
<1> USE TypeParts, SameKeeps
<1>1. CASE Create(p)
  <2>1. CASE UNCHANGED stripe
    BY <1>1, <2>1
  <2>2. ASSUME NEW s \in StripeIds, stripe[s].state = "absent", StripeMoves(s, "draft")
        PROVE  Kept
    BY <2>2 DEF StripeMoves, StripeOK, Kept, Finalized
  <2> QED
    BY <1>1, <2>1, <2>2 DEF Create
<1>2. CASE Attach(p)
  <2>1. op[p].invoice \in StripeIds
    BY <1>2 DEF Attach, Located, LocatedOp, Working
  <2> QED
    BY <1>2, <2>1 DEF Attach, StripeOK, Kept, NoneAdded
<1>3. CASE Finalize(p)
  <2>1. op[p].invoice \in StripeIds
    BY <1>3 DEF Finalize, Located, LocatedOp, Working
  <2>2. CASE UNCHANGED stripe
    BY <2>2
  <2>3. CASE stripe[op[p].invoice].state = "draft" /\ StripeMoves(op[p].invoice, "open")
    BY <2>1, <2>3, MoveKeeps DEF Finalized
  <2> QED
    BY <1>3, <2>2, <2>3 DEF Finalize
<1>4. CASE VoidRolledBack(p)
  <2>1. op[p].invoice \in StripeIds
    BY <1>4 DEF VoidRolledBack, Located, LocatedOp, Working
  <2> QED
    BY <1>4, <2>1, VoidKeeps DEF VoidRolledBack
<1> QED
  BY <1>1, <1>2, <1>3, <1>4
     DEF SendStep, Send, StripeError, Persist, Mark, SendThrows, Rollback, RollbackThrows

LEMMA OtherKeep ==
    ASSUME TypeOK, Located, [Next]_vars, \A p \in Handlers : ~SendStep(p)
    PROVE  Kept /\ NoneAdded
<1> USE TypeParts, SameKeeps
<1>1. ASSUME NEW p \in Handlers, Begin(p) PROVE UNCHANGED stripe
  BY <1>1 DEF Begin, Lock, VoidLocally, CheckUpdate, CheckDelete, SyncRead
<1>3. ASSUME NEW p \in Handlers, VoidStripe(p) PROVE Kept /\ NoneAdded
  <2>1. op[p].invoice \in StripeIds
    BY <1>3 DEF VoidStripe, Located, LocatedOp, Working
  <2> QED
    BY <1>3, <2>1, VoidKeeps DEF VoidStripe
<1>4. ASSUME NEW p \in Handlers, EditItems(p) \/ SetStatus(p) \/ Delete(p) \/ Crash(p)
      PROVE  UNCHANGED stripe
  BY <1>4 DEF EditItems, SetStatus, Delete, Crash
<1>5. ASSUME NEW s \in StripeIds, Webhook(s) \/ Job(s) \/ Outside(s)
      PROVE  Kept /\ NoneAdded
  <2>1. CASE UNCHANGED stripe
    BY <2>1
  <2>2. CASE stripe[s].state = "open" /\ StripeMoves(s, "void")
    BY <2>2, MoveKeeps DEF Finalized
  <2>3. CASE Voidable(s) /\ (StripeMoves(s, "paid") \/ StripeMoves(s, "void"))
    BY <2>3, MoveKeeps DEF Voidable, Finalized
  <2>4. CASE stripe[s].state = "open" /\ StripeMoves(s, "uncollectible")
    BY <2>4, MoveKeeps DEF Finalized
  <2>5. CASE stripe[s].state = "draft" /\ StripeMoves(s, "deleted")
    BY <2>5, MoveKeeps DEF Finalized
  <2> QED
    BY <1>5, <2>1, <2>2, <2>3, <2>4, <2>5
       DEF Webhook, PaidWebhook, StatusWebhook, Job, PaymentJob, ReconcileVoid, VoidOwed, Owed,
           Outside, Pay, PaymentFails, InDashboard
<1> QED
  BY <1>1, <1>3, <1>4, <1>5 DEF Next, Continue, vars

\* A step that adds no invoice and leaves the keys on theirs.
LEMMA KeysKept ==
    ASSUME TypeOK, KeyInv, Kept, NoneAdded,
           keys'.invoice = keys.invoice,
           keys.finalized => keys'.finalized,
           keys'.finalized =>
              \/ keys.finalized
              \/ keys.invoice \in StripeIds /\ stripe'[keys.invoice].state \in Finalized,
           \A p \in Handlers : op'[p] = op[p] \/ KeyOp(op'[p], keys'),
           \/ row'.invoice \in {row.invoice, None}
           \/ row'.invoice = keys.invoice /\ keys.finalized
    PROVE  KeyInv'
<1>1. \A p \in Handlers : KeyOp(op[p], keys)'
  BY DEF KeyInv, KeyOp
<1>2. keys'.finalized =>
        keys'.invoice \in StripeIds /\ stripe'[keys'.invoice].state \in Finalized
  BY DEF KeyInv, Kept
<1>3. row'.invoice # None => row'.invoice = keys'.invoice /\ keys'.finalized
  BY DEF KeyInv
<1>4. \A s \in StripeIds : stripe'[s].state # "absent" => s = keys'.invoice
  BY DEF KeyInv, NoneAdded
<1> QED
  BY <1>1, <1>2, <1>3, <1>4 DEF KeyInv

\* No other step starts or continues a send.
LEMMA OtherSteps ==
    ASSUME TypeOK, [Next]_vars, \A p \in Handlers : ~SendStep(p)
    PROVE  /\ UNCHANGED keys
           /\ \A p \in Handlers :
                \/ op'[p] = op[p]
                \/ op'[p].at \notin Sending
                \/ op'[p].at = "create" /\ Lock(p)
           /\ row'.invoice = row.invoice
<1> USE DEF Sending, Idle, TypeOK
<1>1. UNCHANGED keys /\ row'.invoice = row.invoice
  BY DEF Next, Begin, Continue, Lock, VoidLocally, CheckUpdate, CheckDelete, SyncRead,
         VoidStripe, EditItems, SetStatus, Delete, Crash, Webhook, PaidWebhook,
         StatusWebhook, OverdueRow, CancelledRow, DeletedRow, Job, PaymentJob,
         ReconcileVoid, VoidOwed, Outside, Pay, PaymentFails, InDashboard, vars
<1> DEFINE Fine(p) == op'[p] = op[p] \/ op'[p].at \notin Sending \/ (op'[p].at = "create" /\ Lock(p))
<1>2. ASSUME NEW q \in Handlers, Begin(q) PROVE \A p \in Handlers : Fine(p)
  <2> SUFFICES ASSUME NEW p \in Handlers PROVE Fine(p)
    OBVIOUS
  <2>0. \E o : op' = [op EXCEPT ![q] = o]
    BY <1>2 DEF Begin, Lock, VoidLocally, CheckUpdate, CheckDelete, SyncRead, Goto
  <2>1. CASE p # q
    BY <2>0, <2>1
  <2>2. CASE Lock(q) \/ VoidLocally(q)
    <3>1. ASSUME Lock(q) PROVE op'[q].at = "create"
      BY <3>1 DEF Lock
    <3>2. ASSUME VoidLocally(q) PROVE op'[q].at = "void"
      BY <3>2 DEF VoidLocally
    <3> QED
      BY <2>1, <2>2, <3>1, <3>2
  <2>3. CASE CheckUpdate(q) \/ CheckDelete(q)
    <3>1. ASSUME NEW step \in {"edit", "delete"}, Goto(q, step) PROVE op'[q].at = step
      BY <3>1 DEF Goto
    <3>2. ASSUME NEW to, op' = [op EXCEPT ![q] = [Idle EXCEPT !.at = "set", !.status = to]]
          PROVE  op'[q].at = "set"
      BY <3>2
    <3> QED
      BY <2>1, <2>3, <3>1, <3>2 DEF CheckUpdate, CheckDelete
  <2>4. CASE SyncRead(q)
    BY <2>1, <2>4 DEF SyncRead
  <2> QED
    BY <1>2, <2>1, <2>2, <2>3, <2>4 DEF Begin
<1>3. ASSUME NEW q \in Handlers, Continue(q) \/ Crash(q) PROVE \A p \in Handlers : Fine(p)
  <2>1. Done(q)
    BY <1>3 DEF Continue, VoidStripe, EditItems, SetStatus, Delete, Crash
  <2> QED
    BY <2>1 DEF Done
<1>4. ASSUME UNCHANGED op PROVE \A p \in Handlers : Fine(p)
  BY <1>4
<1>5. \A p \in Handlers : Fine(p)
  <2> HIDE DEF Fine
  <2>1. ASSUME NEW s \in StripeIds, Webhook(s) \/ Job(s) \/ Outside(s) PROVE UNCHANGED op
    BY <2>1 DEF Webhook, PaidWebhook, StatusWebhook, Job, PaymentJob, ReconcileVoid, VoidOwed,
                Outside, Pay, PaymentFails, InDashboard
  <2> QED
    BY <1>2, <1>3, <1>4, <2>1 DEF Next, vars
<1> QED
  BY <1>1, <1>5

\* A request that leaves the path to "sent".
LEMMA GivingUp ==
    ASSUME TypeOK, KeyInv, Kept, NoneAdded, NEW p \in Handlers, UNCHANGED keys,
           \A q \in Handlers \ {p} : op'[q] = op[q],
           op'[p].at \in {"rollback", "void_rolled_back", "idle"},
           row'.invoice \in {row.invoice, None}
    PROVE  KeyInv'
<1>1. \A q \in Handlers : op'[q] = op[q] \/ KeyOp(op'[q], keys')
  BY DEF KeyOp
<1> QED
  BY <1>1, KeysKept

LEMMA MovesOne ==
    ASSUME TypeOK, NEW p \in Handlers,
           \/ \E step \in {"rollback", "void_rolled_back"} : Goto(p, step)
           \/ Done(p)
           \/ StripeError(p)
    PROVE  /\ \A q \in Handlers \ {p} : op'[q] = op[q]
           /\ op'[p].at \in {"rollback", "void_rolled_back", "idle"}
<1>1. CASE \E step \in {"rollback", "void_rolled_back"} : Goto(p, step)
  BY <1>1 DEF Goto, TypeOK
<1>2. CASE Done(p)
  BY <1>2 DEF Done, TypeOK, Idle
<1>3. CASE StripeError(p)
  BY <1>3 DEF StripeError, TypeOK
<1> QED
  BY <1>1, <1>2, <1>3

LEMMA AnsweredKeys ==
    ASSUME TypeOK, NEW p \in Handlers, NEW s, NEW step, Answered(p, step, s),
           KeyOp([at |-> step, invoice |-> s], keys')
    PROVE  \A q \in Handlers : op'[q] = op[q] \/ KeyOp(op'[q], keys')
<1>1. \A q \in Handlers \ {p} : op'[q] = op[q]
  BY DEF Answered, TypeOK
<1>2. \/ op'[p].at = step /\ op'[p].invoice = s
      \/ op'[p].at = "rollback"
  BY DEF Answered, TypeOK
<1> QED
  BY <1>1, <1>2 DEF KeyOp

LEMMA CreateKeys ==
    ASSUME TypeOK, Located, KeyInv, NEW p \in Handlers, Create(p), Kept
    PROVE  KeyInv'
<1>1. ASSUME NEW s \in StripeIds, s \in CreateReplays, Answered(p, "attach", s),
             UNCHANGED <<stripe, keys>>
      PROVE  KeyInv'
  <2>1. \A q \in Handlers : op'[q] = op[q] \/ KeyOp(op'[q], keys')
    BY <1>1, AnsweredKeys DEF KeyOp, CreateReplays
  <2> QED
    BY <1>1, <2>1, KeysKept, SameKeeps DEF Create
<1>2. ASSUME NEW s \in StripeIds, CreateReplays = {}, stripe[s].state = "absent",
             StripeMoves(s, "draft"), keys' = KeysOf(s), Answered(p, "attach", s)
      PROVE  KeyInv'
  <2>1. keys.invoice \notin StripeIds /\ ~keys.finalized /\ row.invoice = None
    BY <1>2 DEF CreateReplays, KeyInv
  <2>2. \A q \in Handlers : op'[q] = op[q] \/ KeyOp(op'[q], keys')
    BY <1>2, AnsweredKeys DEF KeyOp, KeysOf
  <2>3. \A q \in Handlers :
           op[q].at \notin {"attach", "finalize", "send", "persist", "mark"}
    BY <2>1 DEF KeyInv, KeyOp, Located, LocatedOp, Working
  <2>4. \A q \in Handlers : KeyOp(op[q], keys)'
    BY <2>2, <2>3 DEF KeyOp
  <2>5. \A t \in StripeIds : stripe'[t].state # "absent" => t = s
    BY <1>2, <2>1 DEF KeyInv, StripeMoves, TypeOK
  <2> QED
    BY <1>2, <2>1, <2>4, <2>5 DEF KeyInv, KeysOf, Create
<1> QED
  BY <1>1, <1>2 DEF Create, CreateReplays

LEMMA StripeCallKeys ==
    ASSUME TypeOK, Located, KeyInv, NEW p \in Handlers,
           Attach(p) \/ Finalize(p) \/ Send(p), Kept, NoneAdded
    PROVE  KeyInv'
<1>1. op[p].invoice = keys.invoice /\ op[p].invoice \in StripeIds
  BY DEF Attach, Finalize, Send, KeyInv, KeyOp, Located, LocatedOp, Working
<1>2. CASE Attach(p)
  <2>1. keys'.invoice = keys.invoice /\ keys'.finalized = keys.finalized
    BY <1>2 DEF Attach, TypeOK
  <2>2. \A q \in Handlers : op'[q] = op[q] \/ KeyOp(op'[q], keys')
    BY <1>1, <1>2, <2>1, AnsweredKeys DEF Attach, Attached, KeyOp
  <2> QED
    BY <1>2, <2>1, <2>2, KeysKept DEF Attach
<1>3. CASE Finalize(p)
  <2>1. keys'.invoice = keys.invoice /\ keys'.finalized
    BY <1>3 DEF Finalize, TypeOK
  <2>2. \A q \in Handlers : op'[q] = op[q] \/ KeyOp(op'[q], keys')
    BY <1>1, <1>3, <2>1, AnsweredKeys DEF Finalize, KeyOp
  <2>3. keys.finalized \/ stripe'[keys.invoice].state \in Finalized
    BY <1>1, <1>3 DEF Finalize, StripeMoves, TypeOK, Finalized
  <2> QED
    BY <1>1, <1>3, <2>1, <2>2, <2>3, KeysKept DEF Finalize
<1>4. CASE Send(p)
  <2>1. keys'.invoice = keys.invoice /\ keys'.finalized = keys.finalized /\ keys.finalized
    BY <1>4 DEF Send, TypeOK, KeyInv, KeyOp
  <2>2. \A q \in Handlers : op'[q] = op[q] \/ KeyOp(op'[q], keys')
    BY <1>1, <1>4, <2>1, AnsweredKeys DEF Send, KeyOp
  <2> QED
    BY <1>4, <2>1, <2>2, KeysKept DEF Send
<1> QED
  BY <1>2, <1>3, <1>4

LEMMA PersistKeys ==
    ASSUME TypeOK, Located, KeyInv, NEW p \in Handlers, Persist(p) \/ Mark(p)
    PROVE  KeyInv'
<1>1. op[p].invoice = keys.invoice /\ keys.finalized
  BY DEF Persist, Mark, KeyInv, KeyOp
<1>2. UNCHANGED <<stripe, keys>>
  BY DEF Persist, Mark
<1>3. row'.invoice \in {row.invoice, keys.invoice}
  BY <1>1 DEF Persist, Mark, TypeOK
<1>4. \A q \in Handlers \ {p} : op'[q] = op[q]
  BY DEF Persist, Mark, Goto, Done, TypeOK
<1>5. KeyOp(op'[p], keys')
  BY <1>1, <1>2 DEF Persist, Mark, Goto, Done, KeyOp, TypeOK, Idle
<1> QED
  BY <1>1, <1>2, <1>3, <1>4, <1>5, KeysKept, SameKeeps

LEMMA KeyStep == TypeOK /\ Located /\ KeyInv /\ [Next]_vars => KeyInv'
<1> SUFFICES ASSUME TypeOK, Located, KeyInv, [Next]_vars PROVE KeyInv'
  OBVIOUS
<1>1. ASSUME NEW p \in Handlers, SendStep(p) PROVE KeyInv'
  <2>1. CASE Create(p)
    BY <1>1, <2>1, CreateKeys, SendKeeps
  <2>2. CASE ~Create(p)
    <3>1. Kept /\ NoneAdded
      BY <1>1, <2>2, SendKeeps
    <3>2. CASE Attach(p) \/ Finalize(p) \/ Send(p)
      BY <3>1, <3>2, StripeCallKeys
    <3>3. CASE Persist(p) \/ Mark(p)
      BY <3>3, PersistKeys
    <3>4. CASE StripeError(p)
      BY <3>1, <3>4, MovesOne, GivingUp DEF StripeError
    <3>5. CASE SendThrows(p)
      BY <3>1, <3>5, MovesOne, GivingUp DEF SendThrows
    <3>6. CASE Rollback(p)
      <4>1. row'.invoice \in {row.invoice, None} /\ UNCHANGED keys
        BY <3>6 DEF Rollback, TypeOK
      <4>2. (\E step \in {"rollback", "void_rolled_back"} : Goto(p, step)) \/ Done(p)
        BY <3>6 DEF Rollback
      <4> QED
        BY <3>1, <4>1, <4>2, MovesOne, GivingUp
    <3>7. CASE RollbackThrows(p) \/ VoidRolledBack(p)
      BY <3>1, <3>7, MovesOne, GivingUp DEF RollbackThrows, VoidRolledBack
    <3> QED
      BY <1>1, <2>2, <3>2, <3>3, <3>4, <3>5, <3>6, <3>7 DEF SendStep
  <2> QED
    BY <2>1, <2>2
<1>2. CASE \A p \in Handlers : ~SendStep(p)
  <2>1. \A p \in Handlers : op'[p] = op[p] \/ KeyOp(op'[p], keys')
    BY <1>2, OtherSteps DEF KeyOp, Sending
  <2> QED
    BY <1>2, <2>1, OtherKeep, OtherSteps, KeysKept
<1> QED
  BY <1>1, <1>2

LEMMA KeyInit == Init => KeyInv
  BY InvoiceAssumption DEF Init, KeyInv, KeyOp, KeysOf, Idle

\* A row is linked only to an invoice Stripe has finalized.
THEOREM LinkedIsFinalizedAlways == Spec => []LinkedIsFinalized
<1>1. Spec => [](TypeOK /\ Located /\ KeyInv)
  BY TypeInit, TypeStep, KeyInit, KeyStep, PTL DEF Spec
<1>2. KeyInv => LinkedIsFinalized
  BY DEF KeyInv, LinkedIsFinalized
<1> QED
  BY <1>1, <1>2, PTL

\* Retrying never gives the client a second invoice to pay.
THEOREM BilledOnceAlways == Spec => []BilledOnce
<1>1. Spec => [](TypeOK /\ Located /\ KeyInv)
  BY TypeInit, TypeStep, KeyInit, KeyStep, PTL DEF Spec
<1>2. KeyInv => BilledOnce
  <2> SUFFICES ASSUME KeyInv, NEW s \in StripeIds, NEW t \in StripeIds,
                      {stripe[s].state, stripe[t].state} \subseteq {"open", "uncollectible", "paid"}
               PROVE  s = t
    BY DEF BilledOnce
  <2>1. stripe[s].state # "absent" /\ stripe[t].state # "absent"
    OBVIOUS
  <2> QED
    BY <2>1 DEF KeyInv
<1> QED
  BY <1>1, <1>2, PTL

-----------------------------------------------------------------------------
(* The lock.  While somebody sends, the row is no draft, so nobody locks it, *)
(* until a user says draft; otherwise only a sender makes it one, letting go. *)

StatusWriters == {p \in Handlers : op[p].at \in {"set", "sync"}}

\* A sync has read nothing it would write as draft.
NoneDrafts == \A p \in Handlers : op[p].at = "sync" => op[p].status # "draft"

Alone ==
    /\ \A p, q \in Senders : p = q
    /\ Senders # {} => row.status # "draft"

SendInv == (reopened \/ Alone) /\ NoneDrafts

UserDrafts == \E p \in Handlers : SetStatus(p) /\ SetsDraft(p)

\* What a step that does not send leaves of the status and the history.
NothingDrafted ==
    /\ NoneDrafts'
    /\ row'.status = "draft" => row.status = "draft" \/ UserDrafts
    /\ reopened => reopened'

DraftStep ==
    row.status # "draft" /\ row'.status = "draft" =>
       \E p \in Handlers :
          /\ op'[p] # op[p]
          /\ \/ SetsDraft(p)
             \/ p \in Senders /\ p \notin Senders' /\ row.status = "sending"

\* A step of a request that does not send writes no "draft".
LEMMA OthersDraftNothing ==
    ASSUME TypeOK, Located, KeyInv, NoneDrafts, [Next]_vars,
           \A p \in Handlers : ~SendStep(p)
    PROVE  NothingDrafted
<1>0. RowOK /\ op \in [Handlers -> Ops]
  BY TypeParts
<1>1. ASSUME NEW p \in Handlers, NEW o, op' = [op EXCEPT ![p] = o],
             o.at = "sync" => o.status # "draft"
      PROVE  NoneDrafts'
  BY <1>0, <1>1 DEF NoneDrafts
<1>2. ASSUME UNCHANGED op PROVE NoneDrafts'
  BY <1>2 DEF NoneDrafts
<1>3. ASSUME NEW p \in Handlers, Begin(p)
      PROVE  NothingDrafted
  <2>0. UNCHANGED reopened
    BY <1>3, Zenon DEF Begin, Lock, VoidLocally, CheckUpdate, CheckDelete, SyncRead
  <2>1. CASE Lock(p)
    <3>1. row'.status = "sending"
      BY <1>0, <2>1 DEF Lock, RowOK
    <3>2. NoneDrafts'
      BY <1>1, <2>1 DEF Lock, Idle
    <3> QED
      BY <2>0, <3>1, <3>2 DEF NothingDrafted
  <2>2. CASE VoidLocally(p)
    <3>1. row'.status = "cancelled"
      BY <1>0, <2>2 DEF VoidLocally, RowOK
    <3>2. NoneDrafts'
      BY <1>1, <2>2 DEF VoidLocally, Idle
    <3> QED
      BY <2>0, <3>1, <3>2 DEF NothingDrafted
  <2>3. CASE CheckUpdate(p) \/ CheckDelete(p)
    <3>1. ASSUME NEW step \in {"edit", "delete"}, Goto(p, step)
          PROVE  NoneDrafts'
      <4>1. op' = [op EXCEPT ![p] = [op[p] EXCEPT !.at = step]]
        BY <3>1 DEF Goto
      <4>2. [op[p] EXCEPT !.at = step].at = step
        BY <1>0 DEF Ops
      <4> QED
        BY <1>1, <4>1, <4>2
    <3>2. ASSUME NEW to \in ManualStatuses,
                 op' = [op EXCEPT ![p] = [Idle EXCEPT !.at = "set", !.status = to]]
          PROVE  NoneDrafts'
      <4>1. [Idle EXCEPT !.at = "set", !.status = to].at = "set"
        BY DEF Idle
      <4> QED
        BY <1>1, <3>2, <4>1
    <3>3. UNCHANGED row
      BY <2>3, Zenon DEF CheckUpdate, CheckDelete
    <3>4. NoneDrafts'
      BY <2>3, <3>1, <3>2, Zenon DEF CheckUpdate, CheckDelete
    <3> QED
      BY <2>0, <3>3, <3>4 DEF NothingDrafted
  <2>4. CASE SyncRead(p)
    <3> DEFINE state == stripe[row.invoice].state
               to    == IF state \in DOMAIN StatusMap THEN StatusMap[state] ELSE row.status
    <3>1. state \in Finalized
      BY <2>4 DEF SyncRead, KeyInv
    <3>2. to # "draft"
      BY <3>1 DEF Finalized, StatusMap
    <3>3. [Idle EXCEPT !.at = "sync", !.status = to].status = to
      BY DEF Idle
    <3>4. op' = [op EXCEPT ![p] = [Idle EXCEPT !.at = "sync", !.status = to]] /\ UNCHANGED row
      BY <2>4 DEF SyncRead
    <3> HIDE DEF to
    <3> QED
      BY <1>1, <2>0, <3>2, <3>3, <3>4 DEF NothingDrafted
  <2> QED
    BY <1>3, <2>1, <2>2, <2>3, <2>4 DEF Begin
<1>4. ASSUME NEW p \in Handlers, VoidStripe(p) \/ EditItems(p) \/ SetStatus(p) \/ Delete(p) \/ Crash(p)
      PROVE  NothingDrafted
  <2>1. NoneDrafts'
    BY <1>1, <1>4, IdleType DEF VoidStripe, EditItems, SetStatus, Delete, Crash, Done
  <2>2. CASE SetStatus(p)
    <3>1. row'.status = op[p].status /\ op[p].at \in {"set", "sync"}
      BY <1>0, <2>2 DEF SetStatus, RowOK
    <3>2. row'.status = "draft" => SetsDraft(p)
      BY <3>1 DEF NoneDrafts, SetsDraft
    <3>3. reopened => reopened'
      BY <2>2 DEF SetStatus
    <3> QED
      BY <2>1, <2>2, <3>2, <3>3 DEF NothingDrafted, UserDrafts
  <2>3. CASE VoidStripe(p) \/ EditItems(p) \/ Delete(p) \/ Crash(p)
    <3>1. row'.status = row.status
      BY <1>0, <2>3 DEF VoidStripe, EditItems, Delete, Crash, RowOK
    <3>2. UNCHANGED reopened
      BY <2>3, Zenon DEF VoidStripe, EditItems, Delete, Crash
    <3> QED
      BY <2>1, <3>1, <3>2 DEF NothingDrafted
  <2> QED
    BY <1>4, <2>2, <2>3
<1>5. ASSUME NEW s \in StripeIds, Webhook(s) \/ Job(s) \/ Outside(s)
      PROVE  NothingDrafted
  <2>1. UNCHANGED op
    BY <1>5 DEF Webhook, PaidWebhook, StatusWebhook, Job, PaymentJob, ReconcileVoid, VoidOwed,
                Outside, Pay, PaymentFails, InDashboard
  <2>2. row'.status = "draft" => row.status = "draft"
    BY <1>0, <1>5
       DEF Webhook, PaidWebhook, StatusWebhook, OverdueRow, CancelledRow, DeletedRow, Job,
           PaymentJob, ReconcileVoid, VoidOwed, Outside, Pay, PaymentFails, InDashboard, RowOK
  <2>3. UNCHANGED reopened
    BY <1>5 DEF Webhook, PaidWebhook, StatusWebhook, Job, PaymentJob, ReconcileVoid,
                Outside, Pay, PaymentFails, InDashboard
  <2> QED
    BY <1>2, <2>1, <2>2, <2>3 DEF NothingDrafted
<1>6. CASE UNCHANGED vars
  BY <1>2, <1>6 DEF vars, NothingDrafted
<1> QED
  BY <1>3, <1>4, <1>5, <1>6 DEF Next, Continue

\* A sender goes on, or lets go.
LEMMA SenderMoves ==
    ASSUME TypeOK, Located, NEW p \in Handlers, SendStep(p)
    PROVE  /\ \A q \in Handlers \ {p} : op'[q] = op[q]
           /\ op'[p].at \notin {"set", "sync"}
           /\ op[p].at \in Sending \/ op'[p].at \notin Sending
           /\ \/ row'.status \in {row.status, "sent"}
              \/ /\ op[p].at \in Sending /\ op'[p].at \notin Sending
                 /\ row.status = "sending"
           /\ UNCHANGED reopened
<1> USE DEF Sending
<1>a. UNCHANGED reopened
  BY Zenon DEF SendStep, Create, Attach, Finalize, Send, StripeError, Persist, Mark, SendThrows,
     Rollback, RollbackThrows, VoidRolledBack
<1>0. RowOK /\ op \in [Handlers -> Ops]
  BY TypeParts
<1>1. ASSUME NEW step, Goto(p, step)
      PROVE  (\A q \in Handlers \ {p} : op'[q] = op[q]) /\ op'[p].at = step
  BY <1>0, <1>1 DEF Goto, Ops
<1>2. ASSUME Done(p)
      PROVE  (\A q \in Handlers \ {p} : op'[q] = op[q]) /\ op'[p].at = "idle"
  BY <1>0, <1>2, IdleType DEF Done
<1>3. ASSUME NEW s, NEW step, Answered(p, step, s)
      PROVE  (\A q \in Handlers \ {p} : op'[q] = op[q]) /\ op'[p].at \in {step, "rollback"}
  BY <1>0, <1>3 DEF Answered, Ops
<1>4. CASE Create(p) \/ Attach(p) \/ Finalize(p) \/ Send(p)
  BY <1>a, <1>3, <1>4 DEF Create, Attach, Attached, Finalize, Send
<1>5. CASE StripeError(p)
  <2>1. op[p].at \in Sending /\ UNCHANGED row
    BY <1>5 DEF StripeError
  <2> QED
    BY <1>a, <1>5, <2>1, MovesOne
<1>6. CASE Persist(p) \/ SendThrows(p)
  <2>1. op[p].at \in Sending /\ row'.status = row.status
    BY <1>0, <1>6 DEF Persist, SendThrows, RowOK
  <2> QED
    BY <1>a, <1>1, <1>6, <2>1 DEF Persist, SendThrows
<1>7. CASE Mark(p)
  <2>1. op[p].at \in Sending /\ row'.status \in {row.status, "sent"}
    BY <1>0, <1>7 DEF Mark, RowOK
  <2> QED
    BY <1>a, <1>1, <1>2, <1>7, <2>1 DEF Mark
<1>8. CASE Rollback(p)
  <2>1. row'.status = row.status \/ row.status = "sending"
    BY <1>0, <1>8 DEF Rollback, RolledBack, RowOK
  <2>2. Goto(p, "void_rolled_back") \/ Done(p)
    BY <1>8 DEF Rollback
  <2> QED
    BY <1>a, <1>1, <1>2, <1>8, <2>1, <2>2 DEF Rollback
<1>9. CASE RollbackThrows(p) \/ VoidRolledBack(p)
  BY <1>a, <1>2, <1>9 DEF RollbackThrows, VoidRolledBack
<1> QED
  BY <1>a, <1>4, <1>5, <1>6, <1>7, <1>8, <1>9 DEF SendStep

LEMMA SendInvStep ==
    ASSUME TypeOK, Located, KeyInv, SendInv, [Next]_vars
    PROVE  SendInv' /\ DraftStep
<1>1. ASSUME NEW p \in Handlers, SendStep(p) PROVE SendInv' /\ DraftStep
  <2>1. /\ \A q \in Handlers \ {p} : op'[q] = op[q]
        /\ op'[p].at \notin {"set", "sync"}
        /\ op[p].at \in Sending \/ op'[p].at \notin Sending
        /\ \/ row'.status \in {row.status, "sent"}
           \/ /\ op[p].at \in Sending /\ op'[p].at \notin Sending
              /\ row.status = "sending"
        /\ UNCHANGED reopened
    BY <1>1, SenderMoves
  <2>2. Senders' \subseteq Senders
    BY <2>1 DEF Senders
  <2>3. NoneDrafts'
    BY <2>1 DEF SendInv, NoneDrafts
  <2>4. ASSUME Alone PROVE Alone'
    <3>1. \A q, r \in Senders' : q = r
      BY <2>2, <2>4 DEF Alone
    <3>2. Senders' # {} => row'.status # "draft"
      BY <2>1, <2>2, <2>4 DEF Alone, Senders
    <3> QED
      BY <3>1, <3>2 DEF Alone
  <2>5. DraftStep
    BY <2>1 DEF DraftStep, Senders
  <2> QED
    BY <2>1, <2>3, <2>4, <2>5 DEF SendInv
<1>2. CASE \A p \in Handlers : ~SendStep(p)
  <2>1. NothingDrafted
    BY <1>2, OthersDraftNothing DEF SendInv
  <2>2. \A p \in Handlers :
           \/ op'[p] = op[p]
           \/ op'[p].at \notin Sending
           \/ Lock(p)
    BY <1>2, OtherSteps
  <2>3. CASE \E p \in Handlers : Lock(p)
    <3>1. PICK p \in Handlers : Lock(p)
      BY <2>3
    <3>2. /\ row.status = "draft" /\ row'.status = "sending" /\ UNCHANGED reopened
          /\ \A q \in Handlers \ {p} : op'[q] = op[q]
      BY <3>1, TypeParts DEF Lock, Lockable, RowOK
    <3>3. ASSUME Alone PROVE Alone'
      <4>1. Senders' \subseteq {p}
        BY <3>2, <3>3 DEF Alone, Senders
      <4> QED
        BY <3>2, <4>1 DEF Alone
    <3> QED
      BY <2>1, <3>2, <3>3 DEF SendInv, NothingDrafted, DraftStep
  <2>4. CASE \A p \in Handlers : ~Lock(p)
    <3>1. Senders' \subseteq Senders
      BY <2>2, <2>4 DEF Senders
    <3>2. CASE UserDrafts
      <4>1. PICK p \in Handlers : SetStatus(p) /\ SetsDraft(p)
        BY <3>2 DEF UserDrafts
      <4>2. op'[p] # op[p]
        BY <4>1, TypeParts DEF SetStatus, Done, SetsDraft, Idle
      <4>3. reopened' \/ Senders = {}
        BY <4>1 DEF SetStatus
      <4>4. Alone' \/ reopened'
        BY <3>1, <4>3 DEF Alone
      <4> QED
        BY <2>1, <4>1, <4>2, <4>4 DEF SendInv, NothingDrafted, DraftStep
    <3>3. CASE ~UserDrafts
      <4>1. row'.status = "draft" => row.status = "draft"
        BY <2>1, <3>3 DEF NothingDrafted
      <4>2. Alone => Alone'
        BY <3>1, <4>1 DEF Alone
      <4> QED
        BY <2>1, <4>1, <4>2 DEF SendInv, NothingDrafted, DraftStep
    <3> QED
      BY <3>2, <3>3
  <2> QED
    BY <2>3, <2>4
<1> QED
  BY <1>1, <1>2

LEMMA SendInvInit == Init => SendInv
  BY DEF Init, SendInv, Alone, Senders, NoneDrafts, Idle, Sending

LEMMA SendInvAlways == Spec => [](TypeOK /\ Located /\ KeyInv /\ SendInv)
<1>1. Init => TypeOK /\ Located /\ KeyInv /\ SendInv
  BY TypeInit, KeyInit, SendInvInit
<1>2. TypeOK /\ Located /\ KeyInv /\ SendInv /\ [Next]_vars
         => (TypeOK /\ Located /\ KeyInv /\ SendInv)'
  BY TypeStep, KeyStep, SendInvStep
<1> QED
  BY <1>1, <1>2, PTL DEF Spec

\* One request at a time sends the invoice, until a user takes it back to
\* draft while one does: whatever statuses users set, faults happen and
\* webhooks, syncs and jobs write.
THEOREM OneSenderAlways == Spec => []OneSender
<1>1. SendInv => OneSender
  BY DEF SendInv, Alone, OneSender
<1> QED
  BY <1>1, SendInvAlways, PTL

\* An invoice becomes a draft again only when its sender gives up or a user
\* sets the status, never by what a sync, a webhook or a job writes.
THEOREM BackToDraftAlways == Spec => BackToDraft
<1>1. TypeOK /\ Located /\ KeyInv /\ SendInv /\ [Next]_vars => [DraftStep]_vars
  BY SendInvStep
<1>2. [DraftStep]_vars =>
         [row.status # "draft" /\ row'.status = "draft" =>
             \E p \in Handlers :
                /\ op'[p] # op[p]
                /\ \/ SetsDraft(p)
                   \/ p \in Senders /\ p \notin Senders' /\ row.status = "sending"]_vars
  BY DEF DraftStep
<1> QED
  BY <1>1, <1>2, SendInvAlways, PTL DEF Spec, BackToDraft

-----------------------------------------------------------------------------
(* A row is "sending" for somebody: nobody but lockInvoiceForSending writes  *)
(* that status, and a sender that ends has taken it away.                    *)

InSending == row.status = "sending" /\ ~row.deleted

NoneSends == \A p \in StatusWriters : op[p].status # "sending"

HeldInv == (InSending => Senders # {}) /\ NoneSends

\* No process dies and no transaction of the database throws.
DatabaseAnswers == "crash" \notin Faults /\ "db" \notin Faults

\* A status that is written is one of the dashboard's or Stripe's.
LEMMA OthersSendNothing ==
    ASSUME TypeOK, KeyInv, NoneSends, DatabaseAnswers,
           [Next]_vars, \A p \in Handlers : ~SendStep(p)
    PROVE  /\ NoneSends'
           /\ InSending' => InSending \/ \E p \in Handlers : Lock(p)
           /\ Senders \subseteq Senders'
<1>0. RowOK /\ op \in [Handlers -> Ops]
  BY TypeParts
<1>1. ASSUME NEW p \in Handlers, NEW o, op' = [op EXCEPT ![p] = o], op[p].at \notin Sending,
             o.at \in {"set", "sync"} => o.status # "sending"
      PROVE  NoneSends' /\ Senders \subseteq Senders'
  BY <1>0, <1>1 DEF NoneSends, StatusWriters, Senders
<1>2. ASSUME UNCHANGED op PROVE NoneSends' /\ Senders \subseteq Senders'
  BY <1>2 DEF NoneSends, StatusWriters, Senders
<1>3. ASSUME NEW p \in Handlers, Begin(p)
      PROVE  /\ NoneSends' /\ Senders \subseteq Senders'
             /\ InSending' => InSending \/ Lock(p)
  <2>0. op[p].at = "idle" /\ op[p].at \notin Sending
    <3>1. op[p].at = "idle"
      BY <1>3, Zenon DEF Begin, Lock, VoidLocally, CheckUpdate, CheckDelete, SyncRead
    <3> QED
      BY <3>1 DEF Sending
  <2>1. CASE Lock(p)
    <3>1. [Idle EXCEPT !.at = "create", !.items = row.items].at = "create"
      BY DEF Idle
    <3> QED
      BY <1>1, <2>0, <2>1, <3>1 DEF Lock
  <2>2. CASE VoidLocally(p)
    <3>1. row'.status = "cancelled"
      BY <1>0, <2>2 DEF VoidLocally, RowOK
    <3>2. NoneSends' /\ Senders \subseteq Senders'
      BY <1>1, <2>0, <2>2 DEF VoidLocally, Idle
    <3> QED
      BY <3>1, <3>2 DEF InSending
  <2>3. CASE CheckUpdate(p) \/ CheckDelete(p)
    <3>1. ASSUME NEW step \in {"edit", "delete"}, Goto(p, step)
          PROVE  NoneSends' /\ Senders \subseteq Senders'
      <4>1. op' = [op EXCEPT ![p] = [op[p] EXCEPT !.at = step]]
        BY <3>1 DEF Goto
      <4>2. [op[p] EXCEPT !.at = step].at = step
        BY <1>0 DEF Ops
      <4> QED
        BY <1>1, <2>0, <4>1, <4>2
    <3>2. ASSUME NEW to \in ManualStatuses,
                 op' = [op EXCEPT ![p] = [Idle EXCEPT !.at = "set", !.status = to]]
          PROVE  NoneSends' /\ Senders \subseteq Senders'
      <4>1. [Idle EXCEPT !.at = "set", !.status = to].status # "sending"
        BY InvoiceAssumption DEF Idle
      <4> QED
        BY <1>1, <2>0, <3>2, <4>1
    <3>3. UNCHANGED row
      BY <2>3, Zenon DEF CheckUpdate, CheckDelete
    <3>4. NoneSends' /\ Senders \subseteq Senders'
      BY <2>3, <3>1, <3>2, Zenon DEF CheckUpdate, CheckDelete
    <3> QED
      BY <3>3, <3>4 DEF InSending
  <2>4. CASE SyncRead(p)
    <3> DEFINE state == stripe[row.invoice].state
               to    == IF state \in DOMAIN StatusMap THEN StatusMap[state] ELSE row.status
    <3>1. state \in Finalized
      BY <2>4 DEF SyncRead, KeyInv
    <3>2. to # "sending"
      BY <3>1 DEF Finalized, StatusMap
    <3>3. [Idle EXCEPT !.at = "sync", !.status = to].status = to
      BY DEF Idle
    <3>4. op' = [op EXCEPT ![p] = [Idle EXCEPT !.at = "sync", !.status = to]] /\ UNCHANGED row
      BY <2>4 DEF SyncRead
    <3> HIDE DEF to
    <3> QED
      BY <1>1, <2>0, <3>2, <3>3, <3>4 DEF InSending
  <2> QED
    BY <1>3, <2>1, <2>2, <2>3, <2>4 DEF Begin
<1>4. ASSUME NEW p \in Handlers, VoidStripe(p) \/ EditItems(p) \/ SetStatus(p) \/ Delete(p)
      PROVE  NoneSends' /\ Senders \subseteq Senders' /\ (InSending' => InSending)
  <2>1. NoneSends' /\ Senders \subseteq Senders'
    BY <1>1, <1>4, IdleType DEF VoidStripe, EditItems, SetStatus, Delete, Done, Sending
  <2>2. CASE SetStatus(p)
    BY <1>0, <2>1, <2>2 DEF SetStatus, RowOK, NoneSends, StatusWriters, InSending
  <2>3. CASE VoidStripe(p) \/ EditItems(p) \/ Delete(p)
    BY <1>0, <2>1, <2>3 DEF VoidStripe, EditItems, Delete, RowOK, InSending
  <2> QED
    BY <1>4, <2>2, <2>3
<1>5. ASSUME NEW s \in StripeIds, Webhook(s) \/ Job(s) \/ Outside(s)
      PROVE  NoneSends' /\ Senders \subseteq Senders' /\ (InSending' => InSending)
  <2>1. UNCHANGED op
    BY <1>5 DEF Webhook, PaidWebhook, StatusWebhook, Job, PaymentJob, ReconcileVoid, VoidOwed,
                Outside, Pay, PaymentFails, InDashboard
  <2>2. InSending' => InSending
    BY <1>0, <1>5
       DEF Webhook, PaidWebhook, StatusWebhook, OverdueRow, CancelledRow, DeletedRow, Job,
           PaymentJob, ReconcileVoid, VoidOwed, Outside, Pay, PaymentFails, InDashboard,
           RowOK, InSending
  <2> QED
    BY <1>2, <2>1, <2>2
<1>6. CASE UNCHANGED vars
  BY <1>2, <1>6 DEF vars, InSending
<1>7. \A p \in Handlers : ~Crash(p)
  BY DEF Crash, DatabaseAnswers
<1> QED
  BY <1>3, <1>4, <1>5, <1>6, <1>7 DEF Next, Continue

\* A sender goes on, or leaves no row behind that is "sending".
LEMMA SenderHolds ==
    ASSUME TypeOK, DatabaseAnswers, NEW p \in Handlers, SendStep(p)
    PROVE  /\ InSending' => InSending
           /\ op[p].at \in Sending /\ InSending' => op'[p].at \in Sending
<1> USE DEF Sending, InSending
<1>0. RowOK /\ op \in [Handlers -> Ops]
  BY TypeParts
<1>1. ASSUME NEW step, Goto(p, step) PROVE op'[p].at = step
  BY <1>0, <1>1 DEF Goto, Ops
<1>2. ASSUME NEW s, NEW step, Answered(p, step, s) PROVE op'[p].at \in {step, "rollback"}
  BY <1>0, <1>2 DEF Answered, Ops
<1>3. CASE Create(p) \/ Attach(p) \/ Finalize(p) \/ Send(p)
  BY <1>2, <1>3 DEF Create, Attach, Attached, Finalize, Send
<1>4. CASE StripeError(p)
  BY <1>0, <1>4 DEF StripeError, Ops
<1>5. CASE Persist(p) \/ SendThrows(p)
  BY <1>0, <1>1, <1>5 DEF Persist, SendThrows, RowOK
<1>6. CASE Mark(p)
  BY <1>0, <1>1, <1>6 DEF Mark, RowOK
<1>7. CASE Rollback(p)
  BY <1>0, <1>7 DEF Rollback, RolledBack, RowOK
<1>8. CASE RollbackThrows(p) \/ VoidRolledBack(p)
  BY <1>8 DEF RollbackThrows, VoidRolledBack, DatabaseAnswers
<1> QED
  BY <1>3, <1>4, <1>5, <1>6, <1>7, <1>8 DEF SendStep

LEMMA HeldStep ==
    ASSUME DatabaseAnswers
    PROVE  TypeOK /\ Located /\ KeyInv /\ HeldInv /\ [Next]_vars => HeldInv'
<1> SUFFICES ASSUME TypeOK, Located, KeyInv, HeldInv, [Next]_vars PROVE HeldInv'
  OBVIOUS
<1>1. ASSUME NEW p \in Handlers, SendStep(p) PROVE HeldInv'
  <2>1. /\ \A q \in Handlers \ {p} : op'[q] = op[q]
        /\ op'[p].at \notin {"set", "sync"}
    BY <1>1, SenderMoves
  <2>2. NoneSends'
    BY <2>1 DEF HeldInv, NoneSends, StatusWriters
  <2>3. InSending' => \E q \in Handlers : op'[q].at \in Sending
    BY <1>1, <2>1, SenderHolds DEF HeldInv, Senders
  <2> QED
    BY <2>2, <2>3 DEF HeldInv, Senders
<1>2. CASE \A p \in Handlers : ~SendStep(p)
  <2>1. /\ NoneSends'
        /\ InSending' => InSending \/ \E p \in Handlers : Lock(p)
        /\ Senders \subseteq Senders'
    BY <1>2, OthersSendNothing DEF HeldInv
  <2>2. ASSUME NEW p \in Handlers, Lock(p) PROVE Senders' # {}
    <3>1. op'[p].at = "create"
      BY <2>2, TypeParts DEF Lock, Idle
    <3> QED
      BY <3>1 DEF Senders, Sending
  <2> QED
    BY <2>1, <2>2 DEF HeldInv
<1> QED
  BY <1>1, <1>2

\* While no process dies and the database answers, a row that is "sending" is
\* being sent by a request (sendInvoice, rollbackSendingTransaction): lost and
\* refused calls of Stripe, webhooks, edits, syncs and deletes never leave it
\* locked for good.
THEOREM SendingIsHeld ==
    ASSUME DatabaseAnswers
    PROVE  Spec => [](row.status = "sending" /\ ~row.deleted => Senders # {})
<1> DEFINE Inv == TypeOK /\ Located /\ KeyInv /\ HeldInv
<1>1. Init => Inv
  <2>1. Init => HeldInv
    BY DEF Init, HeldInv, InSending, NoneSends, StatusWriters, Idle
  <2> QED
    BY <2>1, TypeInit, KeyInit
<1>2. Inv /\ [Next]_vars => Inv'
  BY TypeStep, KeyStep, HeldStep
<1>3. Inv => (row.status = "sending" /\ ~row.deleted => Senders # {})
  BY DEF HeldInv, InSending
<1> QED
  BY <1>1, <1>2, <1>3, PTL DEF Spec

-----------------------------------------------------------------------------
(* Paid.  A paid webhook, a payment job and a sync carry the news of a       *)
(* payment that Stripe holds for good.                                       *)

Money == \E s \in StripeIds : stripe[s].state = "paid"

MoneyInv ==
    /\ \A s \in StripeIds : [type |-> "paid", invoice |-> s] \in inbox => stripe[s].state = "paid"
    /\ \A s \in payments : stripe[s].state = "paid"
    /\ \A p \in StatusWriters : op[p].status = "paid" => Money
    /\ PaidMeansMoney

\* What a step that takes no payment may do.
LEMMA MoneyKept ==
    ASSUME TypeOK, MoneyInv, Kept,
           \A s \in StripeIds : [type |-> "paid", invoice |-> s] \in inbox' =>
              [type |-> "paid", invoice |-> s] \in inbox \/ stripe'[s].state = "paid",
           \A s \in payments' :
              s \in payments \/ [type |-> "paid", invoice |-> s] \in inbox,
           payments' \subseteq StripeIds,
           \A p \in Handlers : op'[p].at \in {"set", "sync"} /\ op'[p].status = "paid" =>
              op[p] = op'[p] \/ Money,
           row'.status = "paid" => row.status = "paid" \/ Money
    PROVE  MoneyInv'
<1>1. Money => Money'
  BY DEF Money, Kept
<1>2. row.status = "paid" => Money
  BY DEF MoneyInv, PaidMeansMoney, Money
<1>3. PaidMeansMoney'
  BY <1>1, <1>2 DEF PaidMeansMoney, Money
<1>4. \A p \in StatusWriters' : op'[p].status = "paid" => Money'
  BY <1>1 DEF MoneyInv, StatusWriters
<1>5. \A s \in StripeIds : [type |-> "paid", invoice |-> s] \in inbox' => stripe'[s].state = "paid"
  BY DEF MoneyInv, Kept
<1>6. \A s \in payments' : stripe'[s].state = "paid"
  BY DEF MoneyInv, Kept
<1> QED
  BY <1>3, <1>4, <1>5, <1>6 DEF MoneyInv

LEMMA SendMoney ==
    ASSUME TypeOK, Located, MoneyInv, NEW p \in Handlers, SendStep(p)
    PROVE  MoneyInv'
<1>0. RowOK /\ StripeOK
  BY TypeParts
<1>1. Kept
  BY SendKeeps
<1>2. UNCHANGED payments /\ payments \subseteq StripeIds
  BY DEF SendStep, Create, Attach, Finalize, Send, StripeError, Persist, Mark, SendThrows,
         Rollback, RollbackThrows, VoidRolledBack, TypeOK
<1>3. inbox' = inbox \/ \E s : inbox' = inbox \cup {[type |-> "voided", invoice |-> s]}
  BY DEF SendStep, Create, Attach, Finalize, Send, StripeError, Persist, Mark, SendThrows,
         Rollback, RollbackThrows, VoidRolledBack, VoidAtStripe, Emit
<1>4. /\ \A q \in Handlers \ {p} : op'[q] = op[q]
      /\ op'[p].at \notin {"set", "sync"}
      /\ row'.status = "paid" => row.status = "paid" \/ row.status = "sending"
  BY SenderMoves
<1>5. row'.status = "paid" => row.status = "paid"
  <2>1. CASE Rollback(p)
    BY <1>0, <2>1 DEF Rollback, RolledBack, RowOK
  <2>2. CASE Mark(p)
    BY <1>0, <2>2 DEF Mark, RowOK
  <2>3. CASE ~Rollback(p) /\ ~Mark(p)
    BY <1>0, <2>3 DEF SendStep, Create, Attach, Finalize, Send, StripeError, Persist,
                      SendThrows, RollbackThrows, VoidRolledBack, RowOK
  <2> QED
    BY <2>1, <2>2, <2>3
<1>6. \A s \in StripeIds : [type |-> "paid", invoice |-> s] \in inbox'
                           => [type |-> "paid", invoice |-> s] \in inbox
  <2> DEFINE Paid(s) == [type |-> "paid", invoice |-> s]
  <2>1. \A s, t : Paid(s) # [type |-> "voided", invoice |-> t]
    OBVIOUS
  <2>2. CASE inbox' = inbox
    BY <2>2
  <2>3. ASSUME NEW t, inbox' = inbox \cup {[type |-> "voided", invoice |-> t]}
        PROVE  \A s \in StripeIds : Paid(s) \in inbox' => Paid(s) \in inbox
    BY <2>1, <2>3
  <2> QED
    BY <1>3, <2>2, <2>3
<1> QED
  BY <1>1, <1>2, <1>4, <1>5, <1>6, MoneyKept

LEMMA OtherMoney ==
    ASSUME TypeOK, Located, MoneyInv, [Next]_vars, \A p \in Handlers : ~SendStep(p)
    PROVE  MoneyInv'
<1>0. RowOK /\ StripeOK /\ op \in [Handlers -> Ops] /\ payments \subseteq StripeIds
  BY TypeParts
<1>1. Kept
  BY OtherKeep
<1>2. row.status = "paid" => Money
  BY DEF MoneyInv, PaidMeansMoney, Money
<1> DEFINE Paid(s)   == [type |-> "paid", invoice |-> s]
           NewOps    == \A p \in Handlers :
                           op'[p].at \in {"set", "sync"} /\ op'[p].status = "paid"
                              => op[p] = op'[p] \/ Money
           OtherNews == \A s \in StripeIds : Paid(s) \in inbox' => Paid(s) \in inbox
<1>3. ASSUME NEW p \in Handlers, NEW o, op' = [op EXCEPT ![p] = o],
             o.at \in {"set", "sync"} /\ o.status = "paid" => Money
      PROVE  NewOps
  BY <1>0, <1>3
<1>4. ASSUME NEW p \in Handlers, Begin(p) PROVE MoneyInv'
  <2>1. UNCHANGED <<inbox, payments>>
    BY <1>4 DEF Begin, Lock, VoidLocally, CheckUpdate, CheckDelete, SyncRead
  <2>2. row'.status = "paid" => row.status = "paid"
    BY <1>0, <1>4 DEF Begin, Lock, VoidLocally, CheckUpdate, CheckDelete, SyncRead, RowOK
  <2>3. NewOps
    <3>1. CASE Lock(p) \/ VoidLocally(p)
      BY <1>3, <3>1 DEF Lock, VoidLocally, Idle
    <3>2. CASE CheckUpdate(p) \/ CheckDelete(p)
      <4>1. ASSUME NEW step \in {"edit", "delete"}, Goto(p, step)
            PROVE  NewOps
        <5>1. op' = [op EXCEPT ![p] = [op[p] EXCEPT !.at = step]]
          BY <4>1 DEF Goto
        <5>2. [op[p] EXCEPT !.at = step].at = step
          BY <1>0 DEF Ops
        <5> QED
          BY <1>3, <5>1, <5>2
      <4>2. ASSUME NEW to \in ManualStatuses,
                   op' = [op EXCEPT ![p] = [Idle EXCEPT !.at = "set", !.status = to]]
            PROVE  NewOps
        <5>1. [Idle EXCEPT !.at = "set", !.status = to].status # "paid"
          BY InvoiceAssumption DEF Idle
        <5> QED
          BY <1>3, <4>2, <5>1
      <4> QED
        BY <3>2, <4>1, <4>2 DEF CheckUpdate, CheckDelete
    <3>3. CASE SyncRead(p)
      <4> DEFINE state == stripe[row.invoice].state
                 to    == IF state \in DOMAIN StatusMap THEN StatusMap[state] ELSE row.status
      <4>1. row.invoice \in StripeIds
        BY <1>0, <3>3 DEF SyncRead, RowOK
      <4>2. to = "paid" => Money
        BY <1>2, <4>1 DEF StatusMap, Money
      <4>3. [Idle EXCEPT !.at = "sync", !.status = to].status = to
        BY DEF Idle
      <4>4. op' = [op EXCEPT ![p] = [Idle EXCEPT !.at = "sync", !.status = to]]
        BY <3>3 DEF SyncRead
      <4> HIDE DEF to
      <4> QED
        BY <1>3, <4>2, <4>3, <4>4
    <3> QED
      BY <1>4, <3>1, <3>2, <3>3 DEF Begin
  <2> QED
    BY <1>0, <1>1, <2>1, <2>2, <2>3, MoneyKept
<1>5. ASSUME NEW p \in Handlers,
             VoidStripe(p) \/ EditItems(p) \/ SetStatus(p) \/ Delete(p) \/ Crash(p)
      PROVE  MoneyInv'
  <2>1. UNCHANGED payments
    BY <1>5 DEF VoidStripe, EditItems, SetStatus, Delete, Crash
  <2>2. OtherNews
    <3>1. \A s, t : Paid(s) # [type |-> "voided", invoice |-> t]
      OBVIOUS
    <3>2. inbox' = inbox \/ \E s : inbox' = inbox \cup {[type |-> "voided", invoice |-> s]}
      BY <1>5 DEF VoidStripe, VoidAtStripe, Emit, EditItems, SetStatus, Delete, Crash
    <3> QED
      BY <3>1, <3>2
  <2>3. NewOps
    BY <1>3, <1>5, IdleType DEF VoidStripe, EditItems, SetStatus, Delete, Crash, Done
  <2>4. row'.status = "paid" => row.status = "paid" \/ Money
    <3>1. CASE SetStatus(p)
      BY <1>0, <3>1 DEF SetStatus, RowOK, MoneyInv, StatusWriters
    <3>2. CASE ~SetStatus(p)
      BY <1>0, <1>5, <3>2 DEF VoidStripe, EditItems, Delete, Crash, RowOK
    <3> QED
      BY <3>1, <3>2
  <2> QED
    BY <1>0, <1>1, <2>1, <2>2, <2>3, <2>4, MoneyKept
<1>6. ASSUME NEW s \in StripeIds, Webhook(s) \/ Job(s) \/ Outside(s) PROVE MoneyInv'
  <2>1. NewOps
    BY <1>6 DEF Webhook, PaidWebhook, StatusWebhook, Job, PaymentJob, ReconcileVoid, VoidOwed,
                Outside, Pay, PaymentFails, InDashboard
  <2>2. \A t \in payments' : t \in payments \/ Paid(t) \in inbox
    BY <1>6 DEF Webhook, PaidWebhook, StatusWebhook, Job, PaymentJob, Taken, ReconcileVoid, VoidOwed,
                Outside, Pay, PaymentFails, InDashboard
  <2>3. payments' \subseteq StripeIds
    BY <1>0, <1>6
       DEF Webhook, PaidWebhook, StatusWebhook, Job, PaymentJob, Taken, ReconcileVoid, VoidOwed,
           Outside, Pay, PaymentFails, InDashboard
  <2>4. row'.status = "paid" => row.status = "paid" \/ Money
    <3>1. CASE PaymentJob(s)
      BY <1>0, <3>1 DEF PaymentJob, MoneyInv, Money
    <3>2. CASE ~PaymentJob(s)
      BY <1>0, <1>6, <3>2
         DEF Webhook, PaidWebhook, StatusWebhook, OverdueRow, CancelledRow, DeletedRow, Job,
             ReconcileVoid, VoidOwed, Outside, Pay, PaymentFails, InDashboard, RowOK
    <3> QED
      BY <3>1, <3>2
  <2>5. \A t \in StripeIds : Paid(t) \in inbox' => Paid(t) \in inbox \/ stripe'[t].state = "paid"
    <3>1. CASE Pay(s)
      <4>1. stripe'[s].state = "paid"
        BY <1>0, <3>1 DEF Pay, StripeMoves, StripeOK
      <4> QED
        BY <3>1, <4>1 DEF Pay, Emit
    <3>2. CASE inbox' \subseteq inbox
      BY <3>2
    <3>3. CASE \E type \in {"voided", "payment_failed", "deleted"} :
                 inbox' = inbox \cup {[type |-> type, invoice |-> s]}
      <4>1. PICK type \in {"voided", "payment_failed", "deleted"} :
               inbox' = inbox \cup {[type |-> type, invoice |-> s]}
        BY <3>3
      <4>2. \A t : Paid(t) # [type |-> type, invoice |-> s]
        <5> SUFFICES ASSUME NEW t, Paid(t) = [type |-> type, invoice |-> s] PROVE FALSE
          OBVIOUS
        <5>1. Paid(t).type = type
          OBVIOUS
        <5> QED
          BY <5>1
      <4> QED
        BY <4>1, <4>2
    <3> QED
      BY <1>6, <3>1, <3>2, <3>3
         DEF Webhook, PaidWebhook, StatusWebhook, Job, PaymentJob, Taken, ReconcileVoid, VoidOwed,
             Outside, PaymentFails, InDashboard, Emit
  <2> QED
    BY <1>1, <2>1, <2>2, <2>3, <2>4, <2>5, MoneyKept
<1>7. CASE UNCHANGED vars
  BY <1>0, <1>1, <1>7, MoneyKept DEF vars
<1> QED
  BY <1>4, <1>5, <1>6, <1>7 DEF Next, Continue

LEMMA MoneyInit == Init => MoneyInv
  BY DEF Init, MoneyInv, PaidMeansMoney, StatusWriters, Idle

\* A row says paid only when Stripe holds the money.
THEOREM PaidMeansMoneyAlways == Spec => []PaidMeansMoney
<1>1. Init => TypeOK /\ Located /\ MoneyInv
  BY TypeInit, MoneyInit
<1>2. TypeOK /\ Located /\ MoneyInv /\ [Next]_vars => (TypeOK /\ Located /\ MoneyInv)'
  <2>1. ASSUME TypeOK, Located, MoneyInv, [Next]_vars PROVE MoneyInv'
    BY <2>1, SendMoney, OtherMoney
  <2> QED
    BY <2>1, TypeStep
<1>3. MoneyInv => PaidMeansMoney
  BY DEF MoneyInv
<1> QED
  BY <1>1, <1>2, <1>3, PTL DEF Spec
===============================================================================
