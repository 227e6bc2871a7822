------------------------------ MODULE RefundProofs ------------------------------
(* Proofs about RefundRequests, PayoutFeeCredit and RefundBilling, for any    *)
(* requests, executors, amounts, payment and fee.                             *)
EXTENDS RefundBilling, Sums, TLAPS

Active(e) == exec[e].at # "idle"

\* A request being inserted has no row yet, and nothing else is open.
CreateInv ==
    /\ \A q \in creating : status[q] = "none"
    /\ \A p, q \in creating : p = q
    /\ creating # {} => \A q \in Requests : status[q] \notin Blocking

\* Executors hold different requests, each claimed and perhaps executed.
ClaimInv ==
    /\ \A e \in Executors :
          Active(e) => status[exec[e].request] \in {"executing", "executed"}
    /\ \A d, e \in Executors :
          (Active(d) /\ Active(e) /\ exec[d].request = exec[e].request) => d = e

\* Stripe has given back nothing, or what was asked for.
KeyInv ==
    \A q \in Requests :
       /\ returned[q] \in {0, asked[q]}
       /\ status[q] = "none" => returned[q] = 0
       /\ (q \in creating \/ status[q] # "none") => asked[q] > 0

\* Whoever is to book a refund, or has booked it, does so for money returned.
MoneyInv ==
    /\ \A e \in Executors :
          exec[e].at \in {"returned", "persisted"} => returned[exec[e].request] > 0
    /\ \A q \in jobs : returned[q] > 0
    /\ \A q \in Requests : status[q] = "executed" => returned[q] > 0

\* A capturable payment intent has paid nothing back; the cancelled one has
\* paid a request that no executor can take before Stripe again, unless Stripe's
\* answer was lost.
IntentInv ==
    /\ intent = "capturable" => \A q \in Requests : returned[q] = 0
    /\ intent # "captured" =>
          \A q \in Requests :
             (returned[q] > 0 /\ q \notin hidden) =>
                /\ status[q] \in {"executing", "executed"}
                /\ \A e \in Executors :
                      (Active(e) /\ exec[e].request = q)
                         => exec[e].at \in {"returned", "persisted"}

OpenInv == TypeOK /\ CreateInv /\ OneOpenRequest

BookInv == OpenInv /\ ClaimInv /\ KeyInv /\ MoneyInv

\* Stripe's answers are not lost where the code would take them for refusals.
HonestStripe == "api_error" \notin Faults /\ "lost_cancel" \notin Faults

-------------------------------------------------------------------------------
(* Types.                                                                   *)

LEMMA ExecType ==
    ASSUME TypeOK, NEW e \in Executors, exec[e].at # "idle"
    PROVE  /\ exec[e] \in [at : Steps, request : Requests]
           /\ exec[e].request \in Requests
           /\ exec[e].at \in Steps
  BY DEF TypeOK, Idle

LEMMA TypeInit == Init => TypeOK
  BY RefundAssumption DEF Init, TypeOK, Statuses

LEMMA TransitionType ==
    ASSUME TypeOK, NEW q \in Requests, NEW from \in Statuses, NEW to \in Statuses,
           Transition(q, from, to)
    PROVE  status' \in [Requests -> Statuses]
  BY DEF TypeOK, Transition

LEMMA EndsType ==
    ASSUME TypeOK, NEW q \in Requests, BackOff(q) \/ GiveUp(q)
    PROVE  status' \in [Requests -> Statuses] /\ abandoned' \subseteq Requests
<1>1. CASE Abandon(q)
  BY <1>1 DEF Abandon, TypeOK
<1>2. ASSUME NEW to \in {"approved", "failed"}, Transition(q, "executing", to),
             UNCHANGED abandoned
      PROVE  status' \in [Requests -> Statuses] /\ abandoned' \subseteq Requests
  BY <1>2, TransitionType DEF TypeOK, Statuses
<1> QED
  BY <1>1, <1>2 DEF BackOff, GiveUp

LEMMA TypeStep == TypeOK /\ [Next]_vars => TypeOK'
<1> SUFFICES ASSUME TypeOK, [Next]_vars PROVE TypeOK'
  OBVIOUS
<1>1. CASE UNCHANGED vars
  BY <1>1 DEF vars, TypeOK
<1>2. ASSUME NEW q \in Requests, NEW amount \in Amounts, StartCreate(q, amount)
      PROVE  TypeOK'
  BY <1>2, RefundAssumption DEF StartCreate, TypeOK
<1>3. ASSUME NEW q \in Requests, EndCreate(q)
      PROVE  TypeOK'
  BY <1>3 DEF EndCreate, TypeOK, Statuses
<1>4. ASSUME NEW q \in Requests, CancelRequest(q)
      PROVE  TypeOK'
  BY <1>4 DEF CancelRequest, Cancelled, TypeOK, Statuses
<1>5. ASSUME NEW q \in Requests, NEW verdict \in {"approved", "rejected"},
             ReviewRequest(q, verdict)
      PROVE  TypeOK'
  BY <1>5 DEF ReviewRequest, TypeOK, Statuses
<1>6. ASSUME NEW q \in Requests, QueueByHand(q)
      PROVE  TypeOK'
  BY <1>6 DEF QueueByHand, TypeOK
<1>7. ASSUME NEW q \in Requests, ReconcileExecuting(q)
      PROVE  TypeOK'
  BY <1>7 DEF ReconcileExecuting, TypeOK, Statuses
<1>8. ASSUME NEW q \in Requests, ReconcileExecuted(q)
      PROVE  TypeOK'
  BY <1>8 DEF ReconcileExecuted, TypeOK
<1>20. ASSUME NEW q \in Requests, JobGivenUp(q)
      PROVE  TypeOK'
  BY <1>20 DEF JobGivenUp, TypeOK
<1>9. ASSUME NEW e \in Executors, NEW q \in Requests, Claim(e, q)
      PROVE  TypeOK'
  <2>1. status' \in [Requests -> Statuses]
    BY <1>9, TransitionType DEF Claim, Statuses
  <2>2. At("claimed", q) \in [at : Steps, request : Requests]
    BY DEF At, Steps
  <2> QED
    BY <1>9, <2>1, <2>2 DEF Claim, TypeOK
<1>10. ASSUME NEW e \in Executors, PrepareFails(e)
      PROVE  TypeOK'
  <2>1. exec[e].request \in Requests
    BY <1>10, ExecType DEF PrepareFails, Works
  <2>2. status' \in [Requests -> Statuses] /\ abandoned' \subseteq Requests
    BY <1>10, <2>1, EndsType DEF PrepareFails
  <2> QED
    BY <1>10, <2>1, <2>2 DEF PrepareFails, TypeOK
<1>11. ASSUME NEW e \in Executors, CheckBalance(e)
      PROVE  TypeOK'
  <2>1. exec[e].request \in Requests
    BY <1>11, ExecType DEF CheckBalance, Works
  <2>2. At("checked", exec[e].request) \in [at : Steps, request : Requests]
    BY <2>1 DEF At, Steps
  <2>3. status' \in [Requests -> Statuses] /\ abandoned' \subseteq Requests
    BY <1>11, <2>1, EndsType DEF CheckBalance, TypeOK
  <2> QED
    BY <1>11, <2>1, <2>2, <2>3 DEF CheckBalance, TypeOK
<1>12. ASSUME NEW e \in Executors, CancelIntent(e)
      PROVE  TypeOK'
  <2>1. exec[e].request \in Requests
    BY <1>12, ExecType DEF CancelIntent, Works
  <2>2. At("returned", exec[e].request) \in [at : Steps, request : Requests]
    BY <2>1 DEF At, Steps
  <2> QED
    BY <1>12, <2>1, <2>2, PaymentAssumption DEF CancelIntent, TypeOK
<1>13. ASSUME NEW e \in Executors, CreateRefund(e)
      PROVE  TypeOK'
  <2>1. exec[e].request \in Requests
    BY <1>13, ExecType DEF CreateRefund, Works
  <2>2. At("returned", exec[e].request) \in [at : Steps, request : Requests]
    BY <2>1 DEF At, Steps
  <2>3. returned' \in [Requests -> Nat]
    BY <1>13, <2>1 DEF CreateRefund, Performed, AfterRefund, TypeOK
  <2> QED
    BY <1>13, <2>1, <2>2, <2>3 DEF CreateRefund, TypeOK
<1>14. ASSUME NEW e \in Executors, TransientError(e)
      PROVE  TypeOK'
  <2>1. exec[e].request \in Requests
    BY <1>14, ExecType DEF TransientError, Works
  <2>2. status' \in [Requests -> Statuses] /\ abandoned' \subseteq Requests
    BY <1>14, <2>1, EndsType DEF TransientError
  <2>3. returned' \in [Requests -> Nat]
    BY <1>14, <2>1 DEF TransientError, Performed, AfterRefund, TypeOK
  <2> QED
    BY <1>14, <2>1, <2>2, <2>3 DEF TransientError, TypeOK
<1>15. ASSUME NEW e \in Executors, PermanentError(e)
      PROVE  TypeOK'
  <2>1. exec[e].request \in Requests
    BY <1>15, ExecType DEF PermanentError, Works
  <2>2. status' \in [Requests -> Statuses] /\ abandoned' \subseteq Requests
    BY <1>15, <2>1, EndsType DEF PermanentError
  <2>3. returned' \in [Requests -> Nat]
    BY <1>15, <2>1 DEF PermanentError, Performed, AfterRefund, TypeOK
  <2> QED
    BY <1>15, <2>1, <2>2, <2>3 DEF PermanentError, TypeOK
<1>16. ASSUME NEW e \in Executors, Persist(e)
      PROVE  TypeOK'
  <2>1. exec[e].request \in Requests
    BY <1>16, ExecType DEF Persist, Works
  <2>2. At("persisted", exec[e].request) \in [at : Steps, request : Requests]
    BY <2>1 DEF At, Steps
  <2> QED
    BY <1>16, <2>1, <2>2 DEF Persist, TypeOK, Statuses, CanBook
<1>17. ASSUME NEW e \in Executors, PersistThrows(e)
      PROVE  TypeOK'
  <2>1. exec[e].request \in Requests
    BY <1>17, ExecType DEF PersistThrows, Works
  <2> QED
    BY <1>17, <2>1 DEF PersistThrows, Abandon, TypeOK
<1>18. ASSUME NEW e \in Executors, Dispatch(e)
      PROVE  TypeOK'
  <2>1. exec[e].request \in Requests
    BY <1>18, ExecType DEF Dispatch, Works
  <2> QED
    BY <1>18, <2>1 DEF Dispatch, TypeOK
<1>19. ASSUME NEW e \in Executors, Crash(e)
      PROVE  TypeOK'
  <2>1. exec[e].request \in Requests
    BY <1>19 DEF Crash, TypeOK, Idle
  <2> QED
    BY <1>19, <2>1 DEF Crash, Abandon, TypeOK
<1> QED
  BY <1>1, <1>2, <1>3, <1>4, <1>5, <1>6, <1>7, <1>8, <1>9, <1>10, <1>11, <1>12, <1>13,
     <1>14, <1>15, <1>16, <1>17, <1>18, <1>19, <1>20 DEF Next, Client, Practice, Worker, Proceed

\* Requests, executors, Stripe and the queue keep their types.
THEOREM TypeCorrect == Spec => []TypeOK
  BY TypeInit, TypeStep, PTL DEF Spec

-------------------------------------------------------------------------------
(* At most one open request.                                                *)

\* Nothing is opened or reserved, and no row appears or disappears.
NothingOpens ==
    /\ UNCHANGED <<creating, asked>>
    /\ \A p \in Requests :
          /\ status'[p] \in Blocking => status[p] \in Blocking
          /\ status'[p] \in Reserved => status[p] \in Reserved
          /\ status'[p] = "none" <=> status[p] = "none"

LEMMA TransitionOpensNothing ==
    ASSUME TypeOK, NEW q \in Requests, NEW from \in Blocking,
           NEW to \in {"approved", "executing", "executed", "failed"},
           Transition(q, from, to), UNCHANGED <<creating, asked>>
    PROVE  NothingOpens
  BY DEF TypeOK, Transition, NothingOpens, Blocking, Reserved, Statuses

LEMMA BackOffOpensNothing ==
    ASSUME TypeOK, NEW q \in Requests, BackOff(q), UNCHANGED <<creating, asked>>
    PROVE  NothingOpens
<1>1. CASE Abandon(q)
  BY <1>1 DEF Abandon, NothingOpens
<1>2. CASE Transition(q, "executing", "approved")
  BY <1>2, TransitionOpensNothing DEF Blocking
<1> QED
  BY <1>1, <1>2 DEF BackOff

LEMMA GiveUpOpensNothing ==
    ASSUME TypeOK, NEW q \in Requests, GiveUp(q), UNCHANGED <<creating, asked>>
    PROVE  NothingOpens
<1>1. CASE Abandon(q)
  BY <1>1 DEF Abandon, NothingOpens
<1>2. CASE Transition(q, "executing", "failed")
  BY <1>2, TransitionOpensNothing DEF Blocking
<1> QED
  BY <1>1, <1>2 DEF GiveUp

LEMMA NoOtherOpens == 
    TypeOK /\ [Next]_vars =>
       \/ NothingOpens
       \/ \E p \in Requests : EndCreate(p) \/ \E cents \in Amounts : StartCreate(p, cents)
<1> SUFFICES ASSUME TypeOK, [Next]_vars
             PROVE  \/ NothingOpens
                    \/ \E p \in Requests : EndCreate(p) \/ \E cents \in Amounts : StartCreate(p, cents)
  OBVIOUS
<1>1. CASE UNCHANGED vars
  BY <1>1 DEF vars, NothingOpens
<1>2. ASSUME NEW q \in Requests, NEW amount \in Amounts, StartCreate(q, amount)
      PROVE  \E p \in Requests : EndCreate(p) \/ \E cents \in Amounts : StartCreate(p, cents)
  BY <1>2
<1>3. ASSUME NEW q \in Requests, EndCreate(q)
      PROVE  \E p \in Requests : EndCreate(p) \/ \E cents \in Amounts : StartCreate(p, cents)
  BY <1>3
<1>4. ASSUME NEW q \in Requests, CancelRequest(q)
      PROVE  NothingOpens
  BY <1>4 DEF CancelRequest, TypeOK, NothingOpens, Blocking, Reserved, Cancelled,
     Cancellable
<1>5. ASSUME NEW q \in Requests, NEW verdict \in {"approved", "rejected"},
             ReviewRequest(q, verdict)
      PROVE  NothingOpens
  BY <1>5 DEF ReviewRequest, TypeOK, NothingOpens, Blocking, Reserved
<1>6. ASSUME NEW q \in Requests, QueueByHand(q)
      PROVE  NothingOpens
  BY <1>6 DEF QueueByHand, NothingOpens
<1>7. ASSUME NEW q \in Requests, ReconcileExecuting(q)
      PROVE  NothingOpens
  BY <1>7 DEF ReconcileExecuting, TypeOK, NothingOpens, Blocking, Reserved
<1>8. ASSUME NEW q \in Requests, ReconcileExecuted(q)
      PROVE  NothingOpens
  BY <1>8 DEF ReconcileExecuted, NothingOpens
<1>20. ASSUME NEW q \in Requests, JobGivenUp(q)
      PROVE  NothingOpens
  BY <1>20 DEF JobGivenUp, NothingOpens
<1>9. ASSUME NEW e \in Executors, NEW q \in Requests, Claim(e, q)
      PROVE  NothingOpens
  BY <1>9, TransitionOpensNothing DEF Claim, Blocking
<1>10. ASSUME NEW e \in Executors, PrepareFails(e)
      PROVE  NothingOpens
  <2>1. exec[e].request \in Requests
    BY <1>10, ExecType DEF PrepareFails, Works
  <2> QED
    BY <1>10, <2>1, BackOffOpensNothing DEF PrepareFails
<1>11. ASSUME NEW e \in Executors, CheckBalance(e)
      PROVE  NothingOpens
  <2>1. exec[e].request \in Requests
    BY <1>11, ExecType DEF CheckBalance, Works
  <2> QED
    BY <1>11, <2>1, BackOffOpensNothing DEF CheckBalance, NothingOpens
<1>12. ASSUME NEW e \in Executors, CancelIntent(e)
      PROVE  NothingOpens
  BY <1>12 DEF CancelIntent, NothingOpens
<1>13. ASSUME NEW e \in Executors, CreateRefund(e)
      PROVE  NothingOpens
  BY <1>13 DEF CreateRefund, NothingOpens
<1>14. ASSUME NEW e \in Executors, TransientError(e)
      PROVE  NothingOpens
  <2>1. exec[e].request \in Requests
    BY <1>14, ExecType DEF TransientError, Works
  <2> QED
    BY <1>14, <2>1, BackOffOpensNothing DEF TransientError
<1>15. ASSUME NEW e \in Executors, PermanentError(e)
      PROVE  NothingOpens
  <2>1. exec[e].request \in Requests
    BY <1>15, ExecType DEF PermanentError, Works
  <2> QED
    BY <1>15, <2>1, GiveUpOpensNothing DEF PermanentError
<1>16. ASSUME NEW e \in Executors, Persist(e)
      PROVE  NothingOpens
  <2>1. exec[e].request \in Requests
    BY <1>16, ExecType DEF Persist, Works
  <2> QED
    BY <1>16, <2>1 DEF Persist, CanBook, TypeOK, NothingOpens, Blocking, Reserved
<1>17. ASSUME NEW e \in Executors, PersistThrows(e)
      PROVE  NothingOpens
  BY <1>17 DEF PersistThrows, Abandon, NothingOpens
<1>18. ASSUME NEW e \in Executors, Dispatch(e)
      PROVE  NothingOpens
  BY <1>18 DEF Dispatch, NothingOpens
<1>19. ASSUME NEW e \in Executors, Crash(e)
      PROVE  NothingOpens
  BY <1>19 DEF Crash, Abandon, NothingOpens
<1> QED
  BY <1>1, <1>2, <1>3, <1>4, <1>5, <1>6, <1>7, <1>8, <1>9, <1>10, <1>11, <1>12, <1>13,
     <1>14, <1>15, <1>16, <1>17, <1>18, <1>19, <1>20 DEF Next, Client, Practice, Worker, Proceed

LEMMA OpenStep == OpenInv /\ [Next]_vars => OpenInv'
<1> SUFFICES ASSUME OpenInv, [Next]_vars PROVE OpenInv'
  OBVIOUS
<1>1. TypeOK /\ TypeOK'
  BY TypeStep DEF OpenInv
<1>2. CASE NothingOpens
  BY <1>1, <1>2 DEF OpenInv, NothingOpens, CreateInv, OneOpenRequest, TypeOK
<1>3. ASSUME NEW q \in Requests, NEW amount \in Amounts, StartCreate(q, amount)
      PROVE  OpenInv'
  BY <1>1, <1>3 DEF OpenInv, StartCreate, RowFree, CreateInv, OneOpenRequest, TypeOK
<1>4. ASSUME NEW q \in Requests, EndCreate(q)
      PROVE  OpenInv'
  <2>1. creating = {q} /\ creating' = {}
    BY <1>4 DEF OpenInv, CreateInv, EndCreate
  <2> QED
    BY <1>1, <1>4, <2>1 DEF OpenInv, EndCreate, CreateInv, OneOpenRequest, TypeOK, Blocking
<1> QED
  BY <1>1, <1>2, <1>3, <1>4, NoOtherOpens

\* One open request per invoice: the row lock serialises the checks of
\* createRequest, and no later step opens a request.
THEOREM OneOpen == Spec => []OneOpenRequest
<1>1. Init => OpenInv
  BY TypeInit DEF Init, OpenInv, CreateInv, OneOpenRequest, Blocking
<1> QED
  BY <1>1, OpenStep, PTL DEF Spec, OpenInv

-------------------------------------------------------------------------------
(* What is booked has been paid back.                                       *)

\* What a failed step of an executor does to its own request.
Released(q) ==
    /\ \A p \in Requests \ {q} : status'[p] = status[p]
    /\ status'[q] # status[q] =>
          status[q] = "executing" /\ status'[q] \in {"approved", "failed"}

LEMMA BackOffReleases ==
    ASSUME TypeOK, NEW q \in Requests, BackOff(q)
    PROVE  Released(q)
  BY DEF TypeOK, BackOff, Abandon, Transition, Released

LEMMA GiveUpReleases ==
    ASSUME TypeOK, NEW q \in Requests, GiveUp(q)
    PROVE  Released(q)
  BY DEF TypeOK, GiveUp, Abandon, Transition, Released

\* An executor that stops, having released its request or not, disturbs no
\* other executor's claim.
LEMMA StopKeepsClaims ==
    ASSUME TypeOK, TypeOK', ClaimInv, NEW e \in Executors, Active(e),
           Released(exec[e].request) \/ UNCHANGED status,
           exec' = [exec EXCEPT ![e] = Idle]
    PROVE  ClaimInv'
<1>1. exec[e].request \in Requests
  BY ExecType DEF Active
<1>2. \A d \in Executors : Active(d)' => (d # e /\ exec'[d] = exec[d] /\ Active(d))
  BY DEF TypeOK, Active, Idle
<1>3. \A d \in Executors : Active(d)' =>
         (exec[d].request \in Requests \ {exec[e].request}
            /\ status'[exec[d].request] = status[exec[d].request])
  BY <1>1, <1>2, ExecType DEF ClaimInv, Active, Released
<1> QED
  BY <1>2, <1>3 DEF ClaimInv

\* An executor that goes on with its request keeps its claim.
LEMMA ProceedKeepsClaims ==
    ASSUME TypeOK, ClaimInv, NEW e \in Executors, Active(e), NEW step \in Steps,
           exec' = [exec EXCEPT ![e] = At(step, exec[e].request)],
           \A q \in Requests : status[q] \in {"executing", "executed"} =>
                                 status'[q] \in {"executing", "executed"}
    PROVE  ClaimInv'
<1>1. \A d \in Executors : /\ Active(d)' => Active(d)
                           /\ Active(d)' => exec'[d].request = exec[d].request
                           /\ Active(d) => exec[d].request \in Requests
  BY ExecType DEF TypeOK, Active, At
<1> QED
  BY <1>1 DEF ClaimInv

BookRest == ClaimInv /\ KeyInv /\ MoneyInv

LEMMA BookStep == BookInv /\ [Next]_vars => BookRest'
<1> SUFFICES ASSUME BookInv, [Next]_vars PROVE BookRest'
  OBVIOUS
<1>0. TypeOK /\ TypeOK' /\ OpenInv /\ ClaimInv /\ KeyInv /\ MoneyInv
  BY OpenStep DEF BookInv, OpenInv
<1>1. CASE UNCHANGED vars
  BY <1>0, <1>1 DEF vars, BookRest, ClaimInv, KeyInv, MoneyInv, Active
<1>2. ASSUME NEW q \in Requests, NEW amount \in Amounts, StartCreate(q, amount)
      PROVE  BookRest'
  <2>1. \A d \in Executors : Active(d) => exec[d].request \in Requests \ {q}
    BY <1>0, <1>2, ExecType DEF StartCreate, ClaimInv, Active
  <2>2. amount > 0
    BY RefundAssumption
  <2>3. ClaimInv' /\ MoneyInv'
    BY <1>0, <1>2, <2>1 DEF StartCreate, ClaimInv, MoneyInv, Active
  <2>4. KeyInv'
    BY <1>0, <1>2, <2>2 DEF StartCreate, KeyInv, TypeOK
  <2> QED
    BY <2>3, <2>4 DEF BookRest
<1>3. ASSUME NEW q \in Requests, EndCreate(q)
      PROVE  BookRest'
  <2>1. \A d \in Executors : Active(d) => exec[d].request \in Requests \ {q}
    BY <1>0, <1>3, ExecType DEF EndCreate, OpenInv, CreateInv, ClaimInv, Active
  <2>2. ClaimInv'
    BY <1>0, <1>3, <2>1 DEF EndCreate, ClaimInv, Active, TypeOK
  <2>3. KeyInv' /\ MoneyInv'
    BY <1>0, <1>3 DEF EndCreate, OpenInv, CreateInv, KeyInv, MoneyInv, TypeOK
  <2> QED
    BY <2>2, <2>3 DEF BookRest
<1>4. ASSUME NEW q \in Requests, CancelRequest(q)
      PROVE  BookRest'
  <2>1. \A d \in Executors : Active(d) => exec[d].request \in Requests \ {q}
    BY <1>0, <1>4, ExecType DEF CancelRequest, Cancelled, Cancellable, ClaimInv, Active
  <2>2. ClaimInv'
    BY <1>0, <1>4, <2>1 DEF CancelRequest, ClaimInv, Active, TypeOK
  <2>3. KeyInv' /\ MoneyInv'
    BY <1>0, <1>4 DEF CancelRequest, Cancelled, Cancellable, KeyInv, MoneyInv, TypeOK
  <2> QED
    BY <2>2, <2>3 DEF BookRest
<1>5. ASSUME NEW q \in Requests, NEW verdict \in {"approved", "rejected"},
             ReviewRequest(q, verdict)
      PROVE  BookRest'
  <2>1. \A d \in Executors : Active(d) => exec[d].request \in Requests \ {q}
    BY <1>0, <1>5, ExecType DEF ReviewRequest, ClaimInv, Active
  <2>2. ClaimInv'
    BY <1>0, <1>5, <2>1 DEF ReviewRequest, ClaimInv, Active, TypeOK
  <2>3. KeyInv' /\ MoneyInv'
    BY <1>0, <1>5 DEF ReviewRequest, KeyInv, MoneyInv, TypeOK
  <2> QED
    BY <2>2, <2>3 DEF BookRest
<1>6. ASSUME NEW q \in Requests, QueueByHand(q)
      PROVE  BookRest'
  BY <1>0, <1>6 DEF QueueByHand, BookRest, ClaimInv, KeyInv, MoneyInv, Active
<1>7. ASSUME NEW q \in Requests, ReconcileExecuting(q)
      PROVE  BookRest'
  <2>1. ClaimInv'
    BY <1>0, <1>7, ExecType DEF ReconcileExecuting, ClaimInv, Active, TypeOK
  <2>2. KeyInv' /\ MoneyInv'
    BY <1>0, <1>7 DEF ReconcileExecuting, KeyInv, MoneyInv, TypeOK
  <2> QED
    BY <2>1, <2>2 DEF BookRest
<1>8. ASSUME NEW q \in Requests, ReconcileExecuted(q)
      PROVE  BookRest'
  BY <1>0, <1>8 DEF ReconcileExecuted, BookRest, ClaimInv, KeyInv, MoneyInv, Active
<1>20. ASSUME NEW q \in Requests, JobGivenUp(q)
      PROVE  BookRest'
  BY <1>0, <1>20 DEF JobGivenUp, BookRest, ClaimInv, KeyInv, MoneyInv, Active
<1>9. ASSUME NEW e \in Executors, NEW q \in Requests, Claim(e, q)
      PROVE  BookRest'
  <2>1. \A d \in Executors : Active(d) => exec[d].request \in Requests \ {q}
    BY <1>0, <1>9, ExecType DEF Claim, ClaimInv, Active
  <2>2. status' = [status EXCEPT ![q] = "executing"]
    BY <1>9 DEF Claim, Transition
  <2>3. ~Active(e) /\ exec' = [exec EXCEPT ![e] = At("claimed", q)]
    BY <1>9 DEF Claim, Works, Active
  <2>4. ClaimInv'
    BY <1>0, <2>1, <2>2, <2>3 DEF ClaimInv, Active, At, TypeOK
  <2>5. KeyInv' /\ MoneyInv'
    BY <1>0, <1>9, <2>1, <2>2, <2>3 DEF Claim, KeyInv, MoneyInv, At, TypeOK
  <2> QED
    BY <2>4, <2>5 DEF BookRest
<1>10. ASSUME NEW e \in Executors, PrepareFails(e)
      PROVE  BookRest'
  <2>1. Active(e) /\ exec[e].request \in Requests
    BY <1>0, <1>10, ExecType DEF PrepareFails, Active, Works
  <2>2. Released(exec[e].request)
    BY <1>0, <1>10, <2>1, BackOffReleases DEF PrepareFails
  <2>3. ClaimInv'
    BY <1>0, <1>10, <2>1, <2>2, StopKeepsClaims DEF PrepareFails
  <2>4. UNCHANGED returned
    BY <1>10 DEF PrepareFails
  <2>5. KeyInv'
    BY <1>0, <1>10, <2>1, <2>2, <2>4 DEF PrepareFails, Released, AfterRefund, KeyInv,
       ClaimInv, TypeOK
  <2>6. MoneyInv'
    BY <1>0, <1>10, <2>1, <2>2, <2>4, ExecType DEF PrepareFails, Released, AfterRefund,
       MoneyInv, KeyInv, ClaimInv, TypeOK, Idle
  <2> QED
    BY <2>3, <2>5, <2>6 DEF BookRest
<1>11. ASSUME NEW e \in Executors, CheckBalance(e)
      PROVE  BookRest'
  <2>1. Active(e) /\ exec[e].request \in Requests
    BY <1>0, <1>11, ExecType DEF CheckBalance, Active, Works
  <2> DEFINE q == exec[e].request
  <2>2. CASE exec' = [exec EXCEPT ![e] = At("checked", q)] /\ UNCHANGED status
    <3>1. ClaimInv'
      BY <1>0, <2>1, <2>2, ProceedKeepsClaims DEF Steps
    <3>2. KeyInv' /\ MoneyInv'
      BY <1>0, <1>11, <2>2 DEF CheckBalance, KeyInv, MoneyInv, At, TypeOK
    <3> QED
      BY <3>1, <3>2 DEF BookRest
  <2>3. CASE exec' = [exec EXCEPT ![e] = Idle] /\ BackOff(q)
    <3>1. Released(q)
      BY <1>0, <2>1, <2>3, BackOffReleases
    <3>2. ClaimInv'
      BY <1>0, <2>1, <2>3, <3>1, StopKeepsClaims
    <3>3. KeyInv' /\ MoneyInv'
      BY <1>0, <1>11, <2>1, <2>3, <3>1 DEF CheckBalance, Released, KeyInv, MoneyInv,
         TypeOK, Idle
    <3> QED
      BY <3>2, <3>3 DEF BookRest
  <2> QED
    BY <1>11, <2>2, <2>3 DEF CheckBalance
<1>12. ASSUME NEW e \in Executors, CancelIntent(e)
      PROVE  BookRest'
  <2>1. Active(e) /\ exec[e].request \in Requests
    BY <1>0, <1>12, ExecType DEF CancelIntent, Active, Works
  <2>2. ClaimInv'
    <3>1. /\ exec' = [exec EXCEPT ![e] = At("returned", exec[e].request)] \/ UNCHANGED exec
          /\ UNCHANGED status
      BY <1>12 DEF CancelIntent
    <3>2. CASE exec' = [exec EXCEPT ![e] = At("returned", exec[e].request)]
      BY <1>0, <2>1, <3>1, <3>2, ProceedKeepsClaims DEF Steps
    <3>3. CASE UNCHANGED exec
      BY <1>0, <3>1, <3>3 DEF ClaimInv, Active
    <3> QED
      BY <3>1, <3>2, <3>3
  <2>3. asked[exec[e].request] > 0 /\ status[exec[e].request] # "none"
    BY <1>0, <2>1 DEF ClaimInv, KeyInv
  <2>4. KeyInv' /\ MoneyInv'
    BY <1>0, <1>12, <2>1, <2>3, ExecType, PaymentAssumption DEF CancelIntent, Performed,
       AfterRefund, KeyInv, MoneyInv, At, TypeOK
  <2> QED
    BY <2>2, <2>4 DEF BookRest
<1>13. ASSUME NEW e \in Executors, CreateRefund(e)
      PROVE  BookRest'
  <2>1. Active(e) /\ exec[e].request \in Requests
    BY <1>0, <1>13, ExecType DEF CreateRefund, Active, Works
  <2>2. ClaimInv'
    <3>1. /\ exec' = [exec EXCEPT ![e] = At("returned", exec[e].request)] \/ UNCHANGED exec
          /\ UNCHANGED status
      BY <1>13 DEF CreateRefund
    <3>2. CASE exec' = [exec EXCEPT ![e] = At("returned", exec[e].request)]
      BY <1>0, <2>1, <3>1, <3>2, ProceedKeepsClaims DEF Steps
    <3>3. CASE UNCHANGED exec
      BY <1>0, <3>1, <3>3 DEF ClaimInv, Active
    <3> QED
      BY <3>1, <3>2, <3>3
  <2>3. asked[exec[e].request] > 0 /\ status[exec[e].request] # "none"
    BY <1>0, <2>1 DEF ClaimInv, KeyInv
  <2>4. KeyInv' /\ MoneyInv'
    BY <1>0, <1>13, <2>1, <2>3, ExecType, PaymentAssumption DEF CreateRefund, Performed,
       AfterRefund, KeyInv, MoneyInv, At, TypeOK
  <2> QED
    BY <2>2, <2>4 DEF BookRest
<1>14. ASSUME NEW e \in Executors, TransientError(e)
      PROVE  BookRest'
  <2>1. Active(e) /\ exec[e].request \in Requests
    BY <1>0, <1>14, ExecType DEF TransientError, Active, Works
  <2>2. Released(exec[e].request)
    BY <1>0, <1>14, <2>1, BackOffReleases DEF TransientError
  <2>3. ClaimInv'
    BY <1>0, <1>14, <2>1, <2>2, StopKeepsClaims DEF TransientError
  <2>4. UNCHANGED returned \/ returned' = AfterRefund(exec[e].request)
    BY <1>14 DEF TransientError, Performed
  <2>5. KeyInv'
    BY <1>0, <1>14, <2>1, <2>2, <2>4 DEF TransientError, Released, AfterRefund, KeyInv,
       ClaimInv, TypeOK
  <2>6. MoneyInv'
    BY <1>0, <1>14, <2>1, <2>2, <2>4, ExecType DEF TransientError, Released,
       AfterRefund, MoneyInv, KeyInv, ClaimInv, TypeOK, Idle
  <2> QED
    BY <2>3, <2>5, <2>6 DEF BookRest
<1>15. ASSUME NEW e \in Executors, PermanentError(e)
      PROVE  BookRest'
  <2>1. Active(e) /\ exec[e].request \in Requests
    BY <1>0, <1>15, ExecType DEF PermanentError, Active, Works
  <2>2. Released(exec[e].request)
    BY <1>0, <1>15, <2>1, GiveUpReleases DEF PermanentError
  <2>3. ClaimInv'
    BY <1>0, <1>15, <2>1, <2>2, StopKeepsClaims DEF PermanentError
  <2>4. UNCHANGED returned \/ returned' = AfterRefund(exec[e].request)
    BY <1>15 DEF PermanentError, Performed
  <2>5. KeyInv'
    BY <1>0, <1>15, <2>1, <2>2, <2>4 DEF PermanentError, Released, AfterRefund, KeyInv,
       ClaimInv, TypeOK
  <2>6. MoneyInv'
    BY <1>0, <1>15, <2>1, <2>2, <2>4, ExecType DEF PermanentError, Released,
       AfterRefund, MoneyInv, KeyInv, ClaimInv, TypeOK, Idle
  <2> QED
    BY <2>3, <2>5, <2>6 DEF BookRest
<1>16. ASSUME NEW e \in Executors, Persist(e)
      PROVE  BookRest'
  <2>1. Active(e) /\ exec[e].request \in Requests
    BY <1>0, <1>16, ExecType DEF Persist, Active, Works
  <2> DEFINE q == exec[e].request
  <2>2. returned[q] > 0
    BY <1>0, <1>16 DEF Persist, Works, MoneyInv
  <2>3. CASE CanBook(q)
    <3>1. /\ status' = [status EXCEPT ![q] = "executed"]
          /\ exec' = [exec EXCEPT ![e] = At("persisted", q)]
          /\ UNCHANGED jobs
      BY <1>16, <2>3 DEF Persist
    <3>2. ClaimInv'
      BY <1>0, <2>1, <3>1, ProceedKeepsClaims DEF Steps, TypeOK
    <3>3. KeyInv' /\ MoneyInv'
      BY <1>0, <1>16, <2>1, <2>2, <2>3, <3>1 DEF Persist, CanBook, KeyInv, MoneyInv,
         At, TypeOK
    <3> QED
      BY <3>2, <3>3 DEF BookRest
  <2>4. CASE ~CanBook(q)
    <3>1. ClaimInv'
      BY <1>0, <1>16, <2>1, <2>4, StopKeepsClaims DEF Persist
    <3>2. KeyInv' /\ MoneyInv'
      BY <1>0, <1>16, <2>1, <2>2, <2>4 DEF Persist, KeyInv, MoneyInv, TypeOK, Idle
    <3> QED
      BY <3>1, <3>2 DEF BookRest
  <2> QED
    BY <2>3, <2>4
<1>17. ASSUME NEW e \in Executors, PersistThrows(e)
      PROVE  BookRest'
  <2>1. Active(e) /\ exec[e].request \in Requests
    BY <1>0, <1>17, ExecType DEF PersistThrows, Active, Works
  <2>2. ClaimInv'
    BY <1>0, <1>17, <2>1, StopKeepsClaims DEF PersistThrows, Abandon
  <2>3. KeyInv' /\ MoneyInv'
    BY <1>0, <1>17 DEF PersistThrows, Abandon, KeyInv, MoneyInv, TypeOK, Idle
  <2> QED
    BY <2>2, <2>3 DEF BookRest
<1>18. ASSUME NEW e \in Executors, Dispatch(e)
      PROVE  BookRest'
  <2>1. Active(e) /\ exec[e].request \in Requests
    BY <1>0, <1>18, ExecType DEF Dispatch, Active, Works
  <2>2. ClaimInv'
    BY <1>0, <1>18, <2>1, StopKeepsClaims DEF Dispatch
  <2>3. KeyInv' /\ MoneyInv'
    BY <1>0, <1>18 DEF Dispatch, KeyInv, MoneyInv, TypeOK, Idle
  <2> QED
    BY <2>2, <2>3 DEF BookRest
<1>19. ASSUME NEW e \in Executors, Crash(e)
      PROVE  BookRest'
  <2>1. Active(e) /\ exec[e].request \in Requests
    BY <1>0, <1>19, ExecType DEF Crash, Active, Idle, TypeOK, Steps
  <2>2. ClaimInv'
    BY <1>0, <1>19, <2>1, StopKeepsClaims DEF Crash, Abandon
  <2>3. KeyInv' /\ MoneyInv'
    BY <1>0, <1>19 DEF Crash, Abandon, KeyInv, MoneyInv, TypeOK, Idle
  <2> QED
    BY <2>2, <2>3 DEF BookRest
<1> QED
  BY <1>1, <1>2, <1>3, <1>4, <1>5, <1>6, <1>7, <1>8, <1>9, <1>10, <1>11, <1>12, <1>13,
     <1>14, <1>15, <1>16, <1>17, <1>18, <1>19, <1>20 DEF Next, Client, Practice, Worker, Proceed

LEMMA BookInvariant == Spec => []BookInv
<1>1. Init => BookInv
  BY TypeInit DEF Init, BookInv, OpenInv, CreateInv, OneOpenRequest, Blocking, ClaimInv,
     KeyInv, MoneyInv, Active, Idle
<1>2. BookInv /\ [Next]_vars => BookInv'
  BY OpenStep, BookStep DEF BookInv, BookRest
<1> QED
  BY <1>1, <1>2, PTL DEF Spec

\* The books show a refund only when Stripe has paid it back, to the cent.
THEOREM ExecutedIsReturned == Spec => []ExecutedMeansReturned
<1>1. BookInv => ExecutedMeansReturned
  BY DEF BookInv, MoneyInv, KeyInv, ExecutedMeansReturned
<1> QED
  BY <1>1, BookInvariant, PTL

\* Money leaves for a request only while it is executing: an executor that
\* reaches Stripe for a request reconciled meanwhile repeats the same key.
THEOREM MoneyUnderClaim == Spec => MoneyMovesUnderClaim
<1> DEFINE Moves == \A q \in Requests : returned'[q] > returned[q] => status[q] = "executing"
<1>1. ASSUME BookInv, NEW e \in Executors, exec[e].at = "checked",
             returned' = AfterRefund(exec[e].request)
      PROVE  Moves
  <2>1. exec[e].request \in Requests
    BY <1>1, ExecType DEF BookInv, OpenInv
  <2> QED
    BY <1>1, <2>1 DEF BookInv, OpenInv, ClaimInv, Active, MoneyInv, AfterRefund, TypeOK
<1>2. ASSUME BookInv, NEW e \in Executors, CancelIntent(e)
      PROVE  Moves
  <2>1. exec[e].request \in Requests
    BY <1>2, ExecType DEF BookInv, OpenInv, CancelIntent, Works
  <2> QED
    BY <1>2, <2>1, PaymentAssumption
    DEF CancelIntent, Works, BookInv, OpenInv, ClaimInv, Active, MoneyInv, KeyInv, TypeOK
<1>3. ASSUME BookInv, UNCHANGED returned
      PROVE  Moves
  BY <1>3 DEF BookInv, OpenInv, TypeOK
<1>4. BookInv /\ [Next]_vars => [Moves]_vars
  <2> SUFFICES ASSUME BookInv, [Next]_vars PROVE Moves
    OBVIOUS
  <2>1. CASE UNCHANGED returned
    BY <1>3, <2>1
  <2>2. CASE \E e \in Executors : CancelIntent(e)
    BY <1>2, <2>2
  <2>3. CASE \E e \in Executors : exec[e].at = "checked" /\ returned' = AfterRefund(exec[e].request)
    BY <1>1, <2>3
  <2> QED
    BY <2>1, <2>2, <2>3 DEF Next, Client, Practice, Worker, Proceed, vars, StartCreate,
       EndCreate,
       CancelRequest, ReviewRequest, QueueByHand, ReconcileExecuting, ReconcileExecuted, JobGivenUp, Claim,
       PrepareFails, CheckBalance, CreateRefund, TransientError, PermanentError, Performed,
       Works, Persist, PersistThrows, Dispatch, Crash
<1> QED
  BY <1>4, BookInvariant, PTL DEF Spec, MoneyMovesUnderClaim

-------------------------------------------------------------------------------
(* Money given back stays reserved.                                         *)

KeptInv == ReturnedIsReserved /\ IntentInv

LEMMA KeptStep == BookInv /\ KeptInv /\ [Next]_vars => KeptInv'
<1> SUFFICES ASSUME BookInv, KeptInv, [Next]_vars PROVE KeptInv'
  OBVIOUS
<1>0. TypeOK /\ TypeOK' /\ OpenInv /\ ClaimInv /\ KeyInv /\ MoneyInv /\ KeptInv
  BY TypeStep DEF BookInv, OpenInv
<1>1. CASE UNCHANGED vars
  BY <1>0, <1>1 DEF vars, KeptInv, ReturnedIsReserved, IntentInv, Active
<1>2. ASSUME NEW q \in Requests, NEW amount \in Amounts, StartCreate(q, amount)
      PROVE  KeptInv'
  BY <1>0, <1>2 DEF StartCreate, KeptInv, ReturnedIsReserved, IntentInv, Active
<1>3. ASSUME NEW q \in Requests, EndCreate(q)
      PROVE  KeptInv'
  BY <1>0, <1>3 DEF EndCreate, CreateInv, OpenInv, KeyInv, TypeOK, KeptInv,
     ReturnedIsReserved, IntentInv, Active
<1>4. ASSUME NEW q \in Requests, CancelRequest(q)
      PROVE  KeptInv'
  BY <1>0, <1>4 DEF CancelRequest, Cancelled, Cancellable, TypeOK, KeptInv,
     ReturnedIsReserved, IntentInv, Active
<1>5. ASSUME NEW q \in Requests, NEW verdict \in {"approved", "rejected"},
             ReviewRequest(q, verdict)
      PROVE  KeptInv'
  BY <1>0, <1>5 DEF ReviewRequest, TypeOK, KeptInv, ReturnedIsReserved, IntentInv, Active
<1>6. ASSUME NEW q \in Requests, QueueByHand(q)
      PROVE  KeptInv'
  BY <1>0, <1>6 DEF QueueByHand, KeptInv, ReturnedIsReserved, IntentInv, Active
<1>7. ASSUME NEW q \in Requests, ReconcileExecuting(q)
      PROVE  KeptInv'
  BY <1>0, <1>7 DEF ReconcileExecuting, TypeOK, KeptInv, ReturnedIsReserved, IntentInv,
     Active
<1>8. ASSUME NEW q \in Requests, ReconcileExecuted(q)
      PROVE  KeptInv'
  BY <1>0, <1>8 DEF ReconcileExecuted, KeptInv, ReturnedIsReserved, IntentInv, Active
<1>20. ASSUME NEW q \in Requests, JobGivenUp(q)
      PROVE  KeptInv'
  BY <1>0, <1>20 DEF JobGivenUp, KeptInv, ReturnedIsReserved, IntentInv, Active
<1>9. ASSUME NEW e \in Executors, NEW q \in Requests, Claim(e, q)
      PROVE  KeptInv'
  <2>1. (returned[q] > 0 /\ q \notin hidden) => intent = "captured"
    BY <1>0, <1>9 DEF Claim, IntentInv, KeptInv
  <2>2. \A d \in Executors : Active(d)' => d = e \/ (Active(d) /\ exec'[d] = exec[d])
    BY <1>0, <1>9 DEF Claim, Active, TypeOK
  <2> QED
    BY <1>0, <1>9, <2>1, <2>2 DEF Claim, Transition, At, TypeOK, KeptInv,
       ReturnedIsReserved, IntentInv, Active
<1>10. ASSUME NEW e \in Executors, PrepareFails(e)
      PROVE  KeptInv'
  <2>1. Active(e) /\ exec[e].request \in Requests
    BY <1>0, <1>10, ExecType DEF PrepareFails, Active, Works
  <2>2. Released(exec[e].request)
    BY <1>0, <1>10, <2>1, BackOffReleases DEF PrepareFails
  <2>3. status'[exec[e].request] # "failed"
    BY <1>0, <1>10, <2>1 DEF PrepareFails, BackOff, Abandon, Transition, TypeOK, ClaimInv, Active
  <2>4. (returned[exec[e].request] > 0 /\ exec[e].request \notin hidden) => intent = "captured"
    BY <1>0, <1>10, <2>1 DEF PrepareFails, Works, IntentInv, KeptInv, Active
  <2>5. UNCHANGED returned \/ (intent = "captured" /\ returned' = AfterRefund(exec[e].request))
    BY <1>10 DEF PrepareFails, Performed
  <2>6. status[exec[e].request] \in {"executing", "executed"}
    BY <1>0, <2>1 DEF ClaimInv
  <2> QED
    BY <1>0, <1>10, <2>1, <2>2, <2>3, <2>4, <2>5, <2>6
    DEF PrepareFails, Released, AfterRefund, Idle, TypeOK, KeptInv, ReturnedIsReserved,
    IntentInv, Active
<1>11. ASSUME NEW e \in Executors, CheckBalance(e)
      PROVE  KeptInv'
  <2>1. Active(e) /\ exec[e].request \in Requests
    BY <1>0, <1>11, ExecType DEF CheckBalance, Active, Works
  <2>2. (returned[exec[e].request] > 0 /\ exec[e].request \notin hidden) => intent = "captured"
    BY <1>0, <1>11, <2>1 DEF CheckBalance, Works, IntentInv, KeptInv, Active
  <2>3. Released(exec[e].request) /\ status'[exec[e].request] # "failed"
    <3>1. UNCHANGED status \/ BackOff(exec[e].request)
      BY <1>11 DEF CheckBalance
    <3>2. status[exec[e].request] \in {"executing", "executed"}
      BY <1>0, <2>1 DEF ClaimInv
    <3>3. CASE UNCHANGED status
      BY <3>2, <3>3 DEF Released
    <3>4. CASE BackOff(exec[e].request)
      BY <1>0, <2>1, <3>2, <3>4, BackOffReleases DEF BackOff, Abandon, Transition, TypeOK
    <3> QED
      BY <3>1, <3>3, <3>4
  <2>4. \A d \in Executors \ {e} : exec'[d] = exec[d]
    BY <1>0, <1>11 DEF CheckBalance, TypeOK
  <2>5. Active(e)' => exec'[e].request = exec[e].request
    BY <1>0, <1>11, <2>1 DEF CheckBalance, TypeOK, At, Idle, Active
  <2>6. UNCHANGED <<returned, intent, hidden>>
    BY <1>11 DEF CheckBalance
  <2> QED
    BY <1>0, <2>1, <2>2, <2>3, <2>4, <2>5, <2>6 DEF Released, TypeOK, KeptInv,
       ReturnedIsReserved, IntentInv, Active
<1>12. ASSUME NEW e \in Executors, CancelIntent(e)
      PROVE  KeptInv'
  <2>1. Active(e) /\ exec[e].request \in Requests
    BY <1>0, <1>12, ExecType DEF CancelIntent, Active, Works
  <2>2. status[exec[e].request] \in {"executing", "executed"}
    BY <1>0, <2>1 DEF ClaimInv
  <2>3. \A q \in Requests : returned'[q] > 0 => q = exec[e].request
    BY <1>0, <1>12, <2>1 DEF CancelIntent, KeptInv, IntentInv, TypeOK
  <2>4. intent' = "cancelled" /\ UNCHANGED status
    BY <1>12 DEF CancelIntent
  <2>5. ReturnedIsReserved'
    BY <2>2, <2>3, <2>4 DEF ReturnedIsReserved
  <2>6. CASE exec' = [exec EXCEPT ![e] = At("returned", exec[e].request)]
    <3>1. \A d \in Executors :
             (Active(d)' /\ exec'[d].request = exec[e].request) => exec'[d].at = "returned"
      BY <1>0, <2>1, <2>6 DEF ClaimInv, Active, At, TypeOK
    <3> QED
      BY <2>2, <2>3, <2>4, <2>5, <3>1 DEF KeptInv, IntentInv, Active
  <2>7. CASE hidden' = hidden \cup {exec[e].request}
    BY <2>3, <2>4, <2>5, <2>7 DEF KeptInv, IntentInv
  <2> QED
    BY <1>12, <2>6, <2>7 DEF CancelIntent
<1>13. ASSUME NEW e \in Executors, CreateRefund(e)
      PROVE  KeptInv'
  <2>1. Active(e) /\ exec[e].request \in Requests
    BY <1>0, <1>13, ExecType DEF CreateRefund, Active, Works
  <2>2. status[exec[e].request] \in {"executing", "executed"}
    BY <1>0, <2>1 DEF ClaimInv
  <2> QED
    BY <1>0, <1>13, <2>1, <2>2 DEF CreateRefund, Performed, AfterRefund, TypeOK,
       KeptInv, ReturnedIsReserved, IntentInv, Active
<1>14. ASSUME NEW e \in Executors, TransientError(e)
      PROVE  KeptInv'
  <2>1. Active(e) /\ exec[e].request \in Requests
    BY <1>0, <1>14, ExecType DEF TransientError, Active, Works
  <2>2. Released(exec[e].request)
    BY <1>0, <1>14, <2>1, BackOffReleases DEF TransientError
  <2>3. status'[exec[e].request] # "failed"
    BY <1>0, <1>14, <2>1 DEF TransientError, BackOff, Abandon, Transition, TypeOK, ClaimInv, Active
  <2>4. (returned[exec[e].request] > 0 /\ exec[e].request \notin hidden) => intent = "captured"
    BY <1>0, <1>14, <2>1 DEF TransientError, Works, IntentInv, KeptInv, Active
  <2>5. UNCHANGED returned \/ (intent = "captured" /\ returned' = AfterRefund(exec[e].request))
    BY <1>14 DEF TransientError, Performed
  <2>6. status[exec[e].request] \in {"executing", "executed"}
    BY <1>0, <2>1 DEF ClaimInv
  <2> QED
    BY <1>0, <1>14, <2>1, <2>2, <2>3, <2>4, <2>5, <2>6
    DEF TransientError, Released, AfterRefund, Idle, TypeOK, KeptInv,
    ReturnedIsReserved, IntentInv, Active
<1>15. ASSUME NEW e \in Executors, PermanentError(e)
      PROVE  KeptInv'
  <2>1. Active(e) /\ exec[e].request \in Requests
    BY <1>0, <1>15, ExecType DEF PermanentError, Active, Works
  <2>2. Released(exec[e].request)
    BY <1>0, <1>15, <2>1, GiveUpReleases DEF PermanentError
  <2>3. \A d \in Executors : Active(d)' => d # e /\ exec'[d] = exec[d] /\ Active(d)
    BY <1>0, <1>15 DEF PermanentError, Idle, TypeOK, Active
  <2>4. hidden \subseteq hidden' /\ UNCHANGED intent
    BY <1>15 DEF PermanentError
  <2>5. \A q \in Requests \ {exec[e].request} :
           returned'[q] = returned[q] /\ status'[q] = status[q]
    BY <1>0, <1>15, <2>1, <2>2 DEF PermanentError, Performed, AfterRefund, Released, TypeOK
  <2>6. returned'[exec[e].request] = 0 \/ exec[e].request \in hidden'
    <3>1. CASE UNCHANGED <<returned, hidden>>
      BY <1>0, <1>15, <2>1, <3>1 DEF PermanentError, Works, IntentInv, KeptInv, Active,
         Performed, AfterRefund, TypeOK
    <3>2. CASE hidden' = hidden \cup {exec[e].request}
      BY <3>2
    <3> QED
      BY <1>15, <3>1, <3>2 DEF PermanentError
  <2>7. status'[exec[e].request] \in {"approved", "executing", "executed", "failed"}
    BY <1>0, <2>1, <2>2 DEF Released, ClaimInv
  <2>8. ReturnedIsReserved'
    BY <1>0, <2>4, <2>5, <2>6, <2>7 DEF KeptInv, ReturnedIsReserved, TypeOK
  <2>9. IntentInv'
    <3>1. intent = "capturable" => \A q \in Requests : returned'[q] = 0
      BY <1>0, <1>15, <2>1 DEF PermanentError, Performed, KeptInv, IntentInv
    <3> QED
      BY <1>0, <2>3, <2>4, <2>5, <2>6, <3>1 DEF KeptInv, IntentInv, Active, TypeOK
  <2> QED
    BY <2>8, <2>9 DEF KeptInv
<1>16. ASSUME NEW e \in Executors, Persist(e)
      PROVE  KeptInv'
  <2>1. Active(e) /\ exec[e].request \in Requests
    BY <1>0, <1>16, ExecType DEF Persist, Active, Works
  <2>2. \A d \in Executors \ {e} : exec'[d] = exec[d]
    BY <1>0, <1>16 DEF Persist, TypeOK
  <2>3. Active(e)' => exec'[e] = At("persisted", exec[e].request)
    BY <1>0, <1>16 DEF Persist, TypeOK, Active, Idle
  <2>4. \A q \in Requests : status'[q] = status[q] \/ status'[q] = "executed"
    BY <1>0, <1>16 DEF Persist, TypeOK
  <2>5. UNCHANGED <<returned, intent, hidden>>
    BY <1>16 DEF Persist
  <2> QED
    BY <1>0, <2>1, <2>2, <2>3, <2>4, <2>5 DEF At, KeptInv, ReturnedIsReserved,
       IntentInv, Active
<1>17. ASSUME NEW e \in Executors, PersistThrows(e)
      PROVE  KeptInv'
  <2>1. Active(e) /\ exec[e].request \in Requests
    BY <1>0, <1>17, ExecType DEF PersistThrows, Active, Works
  <2> QED
    BY <1>0, <1>17, <2>1 DEF PersistThrows, Abandon, Idle, TypeOK, KeptInv, ReturnedIsReserved,
       IntentInv, Active
<1>18. ASSUME NEW e \in Executors, Dispatch(e)
      PROVE  KeptInv'
  <2>1. Active(e) /\ exec[e].request \in Requests
    BY <1>0, <1>18, ExecType DEF Dispatch, Active, Works
  <2> QED
    BY <1>0, <1>18, <2>1 DEF Dispatch, Idle, TypeOK, KeptInv, ReturnedIsReserved,
       IntentInv, Active
<1>19. ASSUME NEW e \in Executors, Crash(e)
      PROVE  KeptInv'
  <2>1. Active(e) /\ exec[e].request \in Requests
    BY <1>0, <1>19, ExecType DEF Crash, Active, Idle, TypeOK, Steps
  <2> QED
    BY <1>0, <1>19, <2>1 DEF Crash, Abandon, Idle, TypeOK, KeptInv, ReturnedIsReserved,
       IntentInv, Active
<1> QED
  BY <1>1, <1>2, <1>3, <1>4, <1>5, <1>6, <1>7, <1>8, <1>9, <1>10, <1>11, <1>12, <1>13,
     <1>14, <1>15, <1>16, <1>17, <1>18, <1>19, <1>20 DEF Next, Client, Practice, Worker, Proceed

LEMMA KeptInvariant == Spec => []KeptInv
<1>1. Init => KeptInv
  BY DEF Init, KeptInv, ReturnedIsReserved, IntentInv
<1> QED
  BY <1>1, KeptStep, BookInvariant, PTL DEF Spec

\* Under every fault, a request with money returned stays approved, executing
\* or executed, and so keeps its amount reserved; it may be failed only where
\* Stripe answered that it had not paid back although it had: a cancelled
\* payment intent or a refund whose answer the code takes for a refusal.
THEOREM ReturnedStaysReserved == Spec => []ReturnedIsReserved
<1>1. KeptInv => ReturnedIsReserved
  BY DEF KeptInv
<1> QED
  BY <1>1, KeptInvariant, PTL

-------------------------------------------------------------------------------
(* Within the payment.                                                      *)

ReservedRequests == {q \in Requests : status[q] \in Reserved}

\* What is reserved fits in the payment, and so does what a transaction that
\* has made its checks is about to reserve.
ReserveInv ==
    /\ ReservedBy(Requests) <= Paid
    /\ \A q \in creating : asked[q] + ReservedBy(Requests) <= Paid

ReservedIsSum ==
    /\ ReservedBy(Requests) = SumFunctionOnSet(asked, ReservedRequests)
    /\ ReservedBy(Requests) \in Nat
    /\ IsFiniteSet(ReservedRequests)
    /\ \A q \in ReservedRequests : asked[q] \in Nat

LEMMA ReservedSum == TypeOK => ReservedIsSum
<1> SUFFICES ASSUME TypeOK PROVE ReservedIsSum
  OBVIOUS
<1>1. ReservedRequests \in SUBSET Requests
  BY DEF ReservedRequests
<1>2. IsFiniteSet(ReservedRequests)
  BY <1>1, PaymentAssumption, FS_Subset
<1>3. \A q \in ReservedRequests : asked[q] \in Nat
  BY <1>1 DEF TypeOK
<1>4. SumFunctionOnSet(asked, ReservedRequests) \in Nat
  BY <1>2, <1>3, SumNat
<1> QED
  BY <1>2, <1>3, <1>4 DEF ReservedBy, ReservedRequests, ReservedIsSum

LEMMA ReserveStep == OpenInv /\ ReserveInv /\ [Next]_vars => ReserveInv'
<1> SUFFICES ASSUME OpenInv, ReserveInv, [Next]_vars PROVE ReserveInv'
  OBVIOUS
<1>1. TypeOK /\ TypeOK' /\ CreateInv
  BY TypeStep DEF OpenInv
<1>2. /\ ReservedBy(Requests) = SumFunctionOnSet(asked, ReservedRequests)
      /\ ReservedBy(Requests) \in Nat
      /\ IsFiniteSet(ReservedRequests)
      /\ \A q \in ReservedRequests : asked[q] \in Nat
  BY <1>1, ReservedSum DEF ReservedIsSum
<1>a. ReservedIsSum'
  BY <1>1, ReservedSum, PTL
<1>3. /\ ReservedBy(Requests)' = SumFunctionOnSet(asked', ReservedRequests')
      /\ ReservedBy(Requests)' \in Nat
      /\ IsFiniteSet(ReservedRequests')
      /\ \A q \in ReservedRequests' : asked'[q] \in Nat
  BY <1>a DEF ReservedIsSum
<1>4. CASE NothingOpens
  <2>1. ReservedRequests' \subseteq ReservedRequests /\ UNCHANGED <<creating, asked>>
    BY <1>4 DEF NothingOpens, ReservedRequests
  <2>2. SumFunctionOnSet(asked, ReservedRequests') <= SumFunctionOnSet(asked, ReservedRequests)
    BY <1>2, <2>1, SumMonotone
  <2>3. ReservedBy(Requests)' <= ReservedBy(Requests)
    BY <1>2, <1>3, <2>1, <2>2
  <2>4. \A q \in creating : asked[q] \in Nat
    BY <1>1 DEF TypeOK
  <2> QED
    BY <1>2, <1>3, <2>1, <2>3, <2>4, PaymentAssumption DEF ReserveInv
<1>5. ASSUME NEW q \in Requests, NEW amount \in Amounts, StartCreate(q, amount)
      PROVE  ReserveInv'
  <2>1. ReservedRequests' = ReservedRequests /\ q \notin ReservedRequests
    BY <1>5 DEF StartCreate, ReservedRequests, Reserved
  <2>2. \A p \in ReservedRequests : asked[p] = asked'[p]
    BY <1>1, <1>5, <2>1 DEF StartCreate, ReservedRequests, TypeOK
  <2>3. SumFunctionOnSet(asked, ReservedRequests) = SumFunctionOnSet(asked', ReservedRequests)
    BY <1>2, <2>2, SumSame
  <2>4. ReservedBy(Requests)' = ReservedBy(Requests)
    BY <1>2, <1>3, <2>1, <2>3
  <2>5. creating' = {q} /\ asked'[q] = amount
    BY <1>1, <1>5 DEF StartCreate, RowFree, TypeOK
  <2>6. amount <= Paid - ReservedBy(Requests)
    BY <1>5 DEF StartCreate, Remaining
  <2>7. amount \in Nat /\ Paid \in Nat
    BY PaymentAssumption, RefundAssumption
  <2> QED
    BY <1>2, <2>4, <2>5, <2>6, <2>7 DEF ReserveInv
<1>6. ASSUME NEW q \in Requests, EndCreate(q)
      PROVE  ReserveInv'
  <2>1. creating = {q} /\ creating' = {} /\ asked' = asked /\ status[q] = "none"
    BY <1>1, <1>6 DEF EndCreate, CreateInv
  <2>2. CASE UNCHANGED status
    BY <1>2, <1>3, <2>1, <2>2 DEF ReserveInv, ReservedRequests
  <2>3. CASE status' = [status EXCEPT ![q] = "requested"]
    <3>1. ReservedRequests' = ReservedRequests \cup {q} /\ q \notin ReservedRequests
      BY <1>1, <2>1, <2>3 DEF ReservedRequests, Reserved, TypeOK
    <3>2. asked[q] \in Int /\ \A p \in ReservedRequests : asked[p] \in Int
      BY <1>1, <1>2 DEF TypeOK
    <3>3. SumFunctionOnSet(asked, ReservedRequests \cup {q})
             = asked[q] + SumFunctionOnSet(asked, ReservedRequests)
      BY <1>2, <3>1, <3>2, SumAdd
    <3>4. ReservedBy(Requests)' = asked[q] + ReservedBy(Requests)
      BY <1>2, <1>3, <2>1, <3>1, <3>3
    <3> QED
      BY <2>1, <3>4 DEF ReserveInv
  <2> QED
    BY <1>6, <2>2, <2>3 DEF EndCreate
<1> QED
  BY <1>1, <1>4, <1>5, <1>6, NoOtherOpens

LEMMA ReserveInvariant == Spec => [](BookInv /\ ReserveInv)
<1>1. Init => ReserveInv
  <2> SUFFICES ASSUME Init PROVE ReserveInv
    OBVIOUS
  <2>1. {q \in Requests : status[q] \in Reserved} = {} /\ creating = {}
    BY DEF Init, Reserved
  <2>2. ReservedBy(Requests) = 0
    BY <2>1, SumEmpty DEF ReservedBy
  <2> QED
    BY <2>1, <2>2, PaymentAssumption DEF ReserveInv
<1>2. BookInv => OpenInv
  BY DEF BookInv
<1> QED
  BY <1>1, <1>2, ReserveStep, BookInvariant, PTL DEF Spec

\* What open and executed requests reserve never exceeds the payment,
\* whatever Stripe answers: each transaction that reserves has checked under
\* the row lock, and only it adds to the sum.
THEOREM ReservedWithinPayment == Spec => [](ReservedBy(Requests) <= Paid)
<1>1. ReserveInv => ReservedBy(Requests) <= Paid
  BY DEF ReserveInv
<1> QED
  BY <1>1, ReserveInvariant, PTL

\* An honest Stripe hides nothing.
LEMMA NothingHidden ==
    ASSUME HonestStripe
    PROVE  Spec => [](hidden = {})
<1> DEFINE Open == hidden = {}
<1>1. Init => Open
  BY DEF Init
<1>2. Open /\ [Next]_vars => Open'
  <2> SUFFICES ASSUME Open, [Next]_vars PROVE UNCHANGED hidden
    OBVIOUS
  <2> QED
    BY DEF HonestStripe, vars, Next, Client, Practice, Worker, Proceed, StartCreate, EndCreate,
       CancelRequest, ReviewRequest, QueueByHand, ReconcileExecuting, ReconcileExecuted,
       JobGivenUp, Claim, PrepareFails, CheckBalance, CancelIntent, CreateRefund,
       TransientError, PermanentError, Persist, PersistThrows, Dispatch, Crash
<1> QED
  BY <1>1, <1>2, PTL DEF Spec

LEMMA ReturnedWithinReserved ==
    ASSUME TypeOK, KeyInv, ReturnedIsReserved, hidden = {}
    PROVE  /\ SumFunctionOnSet(returned, Requests) \in Nat
           /\ SumFunctionOnSet(returned, Requests) <= ReservedBy(Requests)
<1>1. /\ ReservedBy(Requests) = SumFunctionOnSet(asked, ReservedRequests)
      /\ IsFiniteSet(ReservedRequests)
      /\ \A q \in ReservedRequests : asked[q] \in Nat
      /\ ReservedRequests \subseteq Requests
  BY ReservedSum DEF ReservedRequests, ReservedIsSum
<1>2. /\ \A q \in Requests : returned[q] \in Nat
      /\ \A q \in Requests \ ReservedRequests : returned[q] = 0
  BY DEF TypeOK, ReturnedIsReserved, ReservedRequests, Reserved
<1>3. SumFunctionOnSet(returned, Requests) = SumFunctionOnSet(returned, ReservedRequests)
  BY <1>1, <1>2, PaymentAssumption, SumSupport
<1>4. \A q \in ReservedRequests : returned[q] \in Int /\ returned[q] <= asked[q]
  BY <1>1, <1>2 DEF KeyInv
<1>5. SumFunctionOnSet(returned, ReservedRequests) <= SumFunctionOnSet(asked, ReservedRequests)
  BY <1>1, <1>4, SumMonotone
<1>6. SumFunctionOnSet(returned, Requests) \in Nat
  BY <1>2, PaymentAssumption, SumNat
<1> QED
  BY <1>1, <1>3, <1>5, <1>6

LEMMA WithinPayment ==
    ASSUME BookInv, ReserveInv, ReturnedIsReserved, hidden = {}
    PROVE  NeverOverRefunded
<1>1. TypeOK /\ KeyInv
  BY DEF BookInv, OpenInv
<1>2. ReservedBy(Requests) \in Nat /\ ReservedBy(Requests) <= Paid
  BY <1>1, ReservedSum DEF ReserveInv, ReservedIsSum
<1> QED
  BY <1>1, <1>2, ReturnedWithinReserved, PaymentAssumption DEF NeverOverRefunded

\* The client is never paid back more than was paid, although Stripe would:
\* whatever has been returned is reserved, request by request.
THEOREM NeverOver ==
    ASSUME HonestStripe
    PROVE  Spec => []NeverOverRefunded
  BY WithinPayment, ReserveInvariant, ReturnedStaysReserved, NothingHidden, PTL

-------------------------------------------------------------------------------
(* Who is to settle a claimed request.                                      *)

\* An executor that has yet to settle the request it has claimed.
Holding == {"claimed", "checked", "returned"}
Held(q) == \E e \in Executors : exec[e].at \in Holding /\ exec[e].request = q

ClaimHeld ==
    \A q \in Requests : status[q] = "executing" => Held(q) \/ q \in abandoned

\* Nobody claims a request or lets go of one.
LEMMA HoldersStay ==
    ASSUME ClaimHeld, UNCHANGED <<exec, abandoned>>,
           \A q \in Requests : status'[q] = "executing" => status[q] = "executing"
    PROVE  ClaimHeld'
  BY DEF ClaimHeld, Held

\* One executor claims a request, goes on with it, settles it or leaves it.
LEMMA HolderMoves ==
    ASSUME TypeOK, ClaimHeld, NEW e \in Executors, NEW q \in Requests,
           exec[e].at \in Holding => exec[e].request = q,
           \A d \in Executors \ {e} : exec'[d] = exec[d],
           \A p \in Requests \ {q} : status'[p] = status[p],
           abandoned \subseteq abandoned',
           \/ status'[q] # "executing"
           \/ exec'[e].at \in Holding /\ exec'[e].request = q
           \/ q \in abandoned'
    PROVE  ClaimHeld'
<1> SUFFICES ASSUME NEW p \in Requests, status'[p] = "executing" PROVE Held(p)' \/ p \in abandoned'
  BY DEF ClaimHeld
<1>1. CASE p = q
  BY <1>1 DEF Held
<1>2. CASE p # q /\ p \notin abandoned
  <2>1. PICK d \in Executors : exec[d].at \in Holding /\ exec[d].request = p
    BY <1>2 DEF ClaimHeld, Held
  <2>2. d # e
    BY <1>2, <2>1
  <2> QED
    BY <2>1, <2>2 DEF Held
<1> QED
  BY <1>1, <1>2

\* A status written over "executing" ends the claim; a statement that is lost
\* leaves the request abandoned.
LEMMA ClaimEnds ==
    ASSUME TypeOK, NEW q \in Requests, BackOff(q) \/ GiveUp(q) \/ Abandon(q)
    PROVE  /\ status'[q] # "executing" \/ q \in abandoned'
           /\ \A p \in Requests \ {q} : status'[p] = status[p]
           /\ abandoned \subseteq abandoned'
  BY DEF TypeOK, BackOff, GiveUp, Abandon, Transition

LEMMA ClaimHeldStep == TypeOK /\ ClaimHeld /\ [Next]_vars => ClaimHeld'
<1> SUFFICES ASSUME TypeOK, ClaimHeld, [Next]_vars PROVE ClaimHeld'
  OBVIOUS
<1>1. CASE UNCHANGED vars
  BY <1>1, HoldersStay DEF vars
<1>2. ASSUME NEW q \in Requests, Client(q) \/ Practice(q) \/ QueueByHand(q) \/ Worker(q)
      PROVE  ClaimHeld'
  <2>1. UNCHANGED <<exec, abandoned>>
    BY <1>2 DEF Client, StartCreate, EndCreate, CancelRequest, Practice, ReviewRequest,
       QueueByHand, Worker, ReconcileExecuting, ReconcileExecuted, JobGivenUp
  <2>2. \A p \in Requests : status'[p] = "executing" => status[p] = "executing"
    BY <1>2 DEF TypeOK, Client, StartCreate, EndCreate, CancelRequest, Cancelled, Practice,
       ReviewRequest, QueueByHand, Worker, ReconcileExecuting, ReconcileExecuted,
       JobGivenUp
  <2> QED
    BY <2>1, <2>2, HoldersStay
<1>3. ASSUME NEW e \in Executors, NEW q \in Requests, Claim(e, q)
      PROVE  ClaimHeld'
  <2>1. exec[e].at \notin Holding
    BY <1>3 DEF Claim, Works, Holding
  <2>2. exec'[e] = At("claimed", q) /\ \A d \in Executors \ {e} : exec'[d] = exec[d]
    BY <1>3 DEF Claim, TypeOK
  <2>3. (\A p \in Requests \ {q} : status'[p] = status[p]) /\ UNCHANGED abandoned
    BY <1>3 DEF Claim, Transition, TypeOK
  <2> QED
    BY <2>1, <2>2, <2>3, HolderMoves DEF At, Holding
<1>4. ASSUME NEW e \in Executors,
             \/ PrepareFails(e) \/ TransientError(e) \/ PermanentError(e)
             \/ PersistThrows(e) \/ Crash(e)
      PROVE  ClaimHeld'
  <2>1. exec[e].request \in Requests
    BY <1>4, ExecType DEF PrepareFails, TransientError, PermanentError, PersistThrows,
       Crash, Works, Idle, TypeOK
  <2>2. \/ BackOff(exec[e].request)
        \/ GiveUp(exec[e].request)
        \/ Abandon(exec[e].request)
    BY <1>4 DEF PrepareFails, TransientError, PermanentError, PersistThrows, Crash
  <2>3. \A d \in Executors \ {e} : exec'[d] = exec[d]
    BY <1>4 DEF PrepareFails, TransientError, PermanentError, PersistThrows, Crash, TypeOK
  <2> QED
    BY <2>1, <2>2, <2>3, ClaimEnds, HolderMoves
<1>5. ASSUME NEW e \in Executors, CheckBalance(e)
      PROVE  ClaimHeld'
  <2>1. exec[e].request \in Requests
    BY <1>5, ExecType DEF CheckBalance, Works
  <2>2. \A d \in Executors \ {e} : exec'[d] = exec[d]
    BY <1>5 DEF CheckBalance, TypeOK
  <2>3. CASE /\ exec' = [exec EXCEPT ![e] = At("checked", exec[e].request)]
             /\ UNCHANGED <<status, abandoned>>
    <3>1. exec'[e] = At("checked", exec[e].request)
      BY <2>3 DEF TypeOK
    <3> QED
      BY <2>1, <2>2, <2>3, <3>1, HolderMoves DEF At, Holding
  <2>4. CASE BackOff(exec[e].request)
    BY <2>1, <2>2, <2>4, ClaimEnds, HolderMoves
  <2> QED
    BY <1>5, <2>3, <2>4 DEF CheckBalance
<1>6. ASSUME NEW e \in Executors, CancelIntent(e) \/ CreateRefund(e)
      PROVE  ClaimHeld'
  <2>1. exec[e].request \in Requests
    BY <1>6, ExecType DEF CancelIntent, CreateRefund, Works
  <2>2. UNCHANGED <<status, abandoned>>
    BY <1>6 DEF CancelIntent, CreateRefund
  <2>3. CASE UNCHANGED exec
    BY <2>2, <2>3, HoldersStay
  <2>4. CASE exec' = [exec EXCEPT ![e] = At("returned", exec[e].request)]
    <3>1. /\ exec'[e] = At("returned", exec[e].request)
          /\ \A d \in Executors \ {e} : exec'[d] = exec[d]
      BY <2>4 DEF TypeOK
    <3> QED
      BY <2>1, <2>2, <3>1, HolderMoves DEF At, Holding
  <2> QED
    BY <1>6, <2>3, <2>4 DEF CancelIntent, CreateRefund
<1>7. ASSUME NEW e \in Executors, Persist(e)
      PROVE  ClaimHeld'
  <2>1. exec[e].request \in Requests
    BY <1>7, ExecType DEF Persist, Works
  <2>2. \A d \in Executors \ {e} : exec'[d] = exec[d]
    BY <1>7 DEF Persist, TypeOK
  <2>3. /\ status'[exec[e].request] # "executing"
        /\ \A p \in Requests \ {exec[e].request} : status'[p] = status[p]
        /\ UNCHANGED abandoned
    BY <1>7, <2>1 DEF Persist, CanBook, TypeOK
  <2> QED
    BY <2>1, <2>2, <2>3, HolderMoves
<1>8. ASSUME NEW e \in Executors, Dispatch(e)
      PROVE  ClaimHeld'
  <2>1. UNCHANGED <<status, abandoned>> /\ exec[e].at \notin Holding
    BY <1>8 DEF Dispatch, Works, Holding
  <2>2. \A d \in Executors : exec[d].at \in Holding => exec'[d] = exec[d]
    BY <1>8, <2>1 DEF Dispatch, TypeOK
  <2> QED
    BY <2>1, <2>2 DEF ClaimHeld, Held
<1> QED
  BY <1>1, <1>2, <1>3, <1>4, <1>5, <1>6, <1>7, <1>8 DEF Next, Proceed

\* A refund stays 'executing' without anybody at work on it, which blocks every
\* further request (refund-requests.service.ts, executeRefund), only where its
\* executor died or lost the statement that would have ended the claim: lost
\* replies, errors of Stripe and reconciliations by hand do not suffice.
THEOREM ExecutingIsHeld == Spec => []ClaimHeld
<1>1. Init => ClaimHeld
  BY DEF Init, ClaimHeld
<1> QED
  BY <1>1, ClaimHeldStep, TypeCorrect, PTL DEF Spec

-------------------------------------------------------------------------------
(* The workflow implements RefundContract.                                  *)

\* The transaction of persistExecutedRefund.
Books(q) ==
    /\ status[q] = "executing"
    /\ status' = [status EXCEPT ![q] = "executed"]
    /\ UNCHANGED <<asked, returned>>

\* Stripe performs a refund for the first time.
PaysBack(q) ==
    /\ returned[q] = 0
    /\ asked[q] > 0
    /\ returned' = [returned EXCEPT ![q] = asked[q]]

\* The books stay as they are.
BooksKept ==
    /\ Executed' = Executed
    /\ \A q \in Executed : asked'[q] = asked[q]

LEMMA ReleasedKeepsBooks ==
    ASSUME TypeOK, NEW q \in Requests, Released(q) \/ UNCHANGED status, UNCHANGED asked
    PROVE  BooksKept
  BY DEF TypeOK, Released, BooksKept, Executed

LEMMA RefundPaysBack ==
    ASSUME TypeOK, KeyInv, NEW q \in Requests, status[q] # "none", returned' = AfterRefund(q)
    PROVE  UNCHANGED returned \/ PaysBack(q)
  BY DEF TypeOK, KeyInv, AfterRefund, PaysBack

\* A step books one refund, or has Stripe pay one back, or does neither.
StepShape ==
    \/ \E q \in Requests : Books(q)
    \/ BooksKept /\ (UNCHANGED returned \/ \E q \in Requests : PaysBack(q))

LEMMA Shapes == BookInv /\ [Next]_vars => StepShape
<1> SUFFICES ASSUME BookInv, [Next]_vars PROVE StepShape
  OBVIOUS
<1>0. TypeOK /\ ClaimInv /\ KeyInv /\ CreateInv
  BY DEF BookInv, OpenInv
<1>1. CASE UNCHANGED vars
  BY <1>1 DEF vars, StepShape, BooksKept, Executed
<1>2. ASSUME NEW q \in Requests, NEW amount \in Amounts, StartCreate(q, amount)
      PROVE  StepShape
  BY <1>0, <1>2 DEF StartCreate, TypeOK, StepShape, BooksKept, Executed
<1>3. ASSUME NEW q \in Requests, EndCreate(q)
      PROVE  StepShape
  BY <1>0, <1>3 DEF EndCreate, CreateInv, TypeOK, StepShape, BooksKept, Executed
<1>4. ASSUME NEW q \in Requests, CancelRequest(q)
      PROVE  StepShape
  BY <1>0, <1>4 DEF CancelRequest, Cancelled, Cancellable, TypeOK, StepShape,
     BooksKept, Executed
<1>5. ASSUME NEW q \in Requests, NEW verdict \in {"approved", "rejected"},
             ReviewRequest(q, verdict)
      PROVE  StepShape
  BY <1>0, <1>5 DEF ReviewRequest, TypeOK, StepShape, BooksKept, Executed
<1>6. ASSUME NEW q \in Requests, QueueByHand(q)
      PROVE  StepShape
  BY <1>6 DEF QueueByHand, StepShape, BooksKept, Executed
<1>7. ASSUME NEW q \in Requests, ReconcileExecuting(q)
      PROVE  StepShape
  BY <1>7 DEF ReconcileExecuting, StepShape, Books
<1>8. ASSUME NEW q \in Requests, ReconcileExecuted(q)
      PROVE  StepShape
  BY <1>8 DEF ReconcileExecuted, StepShape, BooksKept, Executed
<1>20. ASSUME NEW q \in Requests, JobGivenUp(q)
      PROVE  StepShape
  BY <1>20 DEF JobGivenUp, StepShape, BooksKept, Executed
<1>9. ASSUME NEW e \in Executors, NEW q \in Requests, Claim(e, q)
      PROVE  StepShape
  BY <1>0, <1>9 DEF Claim, Transition, TypeOK, StepShape, BooksKept, Executed
<1>10. ASSUME NEW e \in Executors, PrepareFails(e)
      PROVE  StepShape
  <2>1. exec[e].request \in Requests
    BY <1>0, <1>10, ExecType DEF PrepareFails, Works
  <2>2. Released(exec[e].request)
    BY <1>0, <1>10, <2>1, BackOffReleases DEF PrepareFails
  <2>3. BooksKept
    BY <1>0, <1>10, <2>1, <2>2, ReleasedKeepsBooks DEF PrepareFails
  <2> QED
    BY <1>10, <2>3 DEF PrepareFails, StepShape
<1>11. ASSUME NEW e \in Executors, CheckBalance(e)
      PROVE  StepShape
  <2>1. exec[e].request \in Requests
    BY <1>0, <1>11, ExecType DEF CheckBalance, Works
  <2>2. Released(exec[e].request) \/ UNCHANGED status
    BY <1>0, <1>11, <2>1, BackOffReleases DEF CheckBalance
  <2>3. BooksKept
    BY <1>0, <1>11, <2>1, <2>2, ReleasedKeepsBooks DEF CheckBalance
  <2> QED
    BY <1>11, <2>3 DEF CheckBalance, StepShape
<1>12. ASSUME NEW e \in Executors, CancelIntent(e)
      PROVE  StepShape
  <2>1. exec[e].request \in Requests
    BY <1>0, <1>12, ExecType DEF CancelIntent, Works
  <2>2. status[exec[e].request] \in {"executing", "executed"}
    BY <1>0, <1>12 DEF CancelIntent, Works, ClaimInv, Active
  <2>3. UNCHANGED returned \/ PaysBack(exec[e].request)
    BY <1>0, <1>12, <2>1, <2>2 DEF CancelIntent, KeyInv, TypeOK, PaysBack
  <2> QED
    BY <1>12, <2>1, <2>3 DEF CancelIntent, StepShape, BooksKept, Executed
<1>13. ASSUME NEW e \in Executors, CreateRefund(e)
      PROVE  StepShape
  <2>1. exec[e].request \in Requests
    BY <1>0, <1>13, ExecType DEF CreateRefund, Works
  <2>2. status[exec[e].request] # "none"
    BY <1>0, <1>13 DEF CreateRefund, Works, ClaimInv, Active
  <2>3. UNCHANGED returned \/ PaysBack(exec[e].request)
    BY <1>0, <1>13, <2>1, <2>2, RefundPaysBack DEF CreateRefund, Performed
  <2> QED
    BY <1>13, <2>1, <2>3 DEF CreateRefund, StepShape, BooksKept, Executed
<1>14. ASSUME NEW e \in Executors, TransientError(e)
      PROVE  StepShape
  <2>1. exec[e].request \in Requests
    BY <1>0, <1>14, ExecType DEF TransientError, Works
  <2>2. Released(exec[e].request)
    BY <1>0, <1>14, <2>1, BackOffReleases DEF TransientError
  <2>3. BooksKept
    BY <1>0, <1>14, <2>1, <2>2, ReleasedKeepsBooks DEF TransientError
  <2>4. status[exec[e].request] # "none"
    BY <1>0, <1>14 DEF TransientError, Works, ClaimInv, Active
  <2>5. UNCHANGED returned \/ PaysBack(exec[e].request)
    BY <1>0, <1>14, <2>1, <2>4, RefundPaysBack DEF TransientError, Performed
  <2> QED
    BY <2>1, <2>3, <2>5 DEF StepShape
<1>15. ASSUME NEW e \in Executors, PermanentError(e)
      PROVE  StepShape
  <2>1. exec[e].request \in Requests
    BY <1>0, <1>15, ExecType DEF PermanentError, Works
  <2>2. Released(exec[e].request)
    BY <1>0, <1>15, <2>1, GiveUpReleases DEF PermanentError
  <2>3. BooksKept
    BY <1>0, <1>15, <2>1, <2>2, ReleasedKeepsBooks DEF PermanentError
  <2>4. status[exec[e].request] # "none"
    BY <1>0, <1>15 DEF PermanentError, Works, ClaimInv, Active
  <2>5. UNCHANGED returned \/ PaysBack(exec[e].request)
    BY <1>0, <1>15, <2>1, <2>4, RefundPaysBack DEF PermanentError, Performed
  <2> QED
    BY <2>1, <2>3, <2>5 DEF StepShape
<1>16. ASSUME NEW e \in Executors, Persist(e)
      PROVE  StepShape
  <2>1. exec[e].request \in Requests
    BY <1>0, <1>16, ExecType DEF Persist, Works
  <2>2. CASE CanBook(exec[e].request)
    BY <1>16, <2>1, <2>2 DEF Persist, CanBook, StepShape, Books
  <2>3. CASE ~CanBook(exec[e].request)
    BY <1>16, <2>3 DEF Persist, StepShape, BooksKept, Executed
  <2> QED
    BY <2>2, <2>3
<1>17. ASSUME NEW e \in Executors, PersistThrows(e)
      PROVE  StepShape
  BY <1>17 DEF PersistThrows, Abandon, StepShape, BooksKept, Executed
<1>18. ASSUME NEW e \in Executors, Dispatch(e)
      PROVE  StepShape
  BY <1>18 DEF Dispatch, StepShape, BooksKept, Executed
<1>19. ASSUME NEW e \in Executors, Crash(e)
      PROVE  StepShape
  BY <1>19 DEF Crash, Abandon, StepShape, BooksKept, Executed
<1> QED
  BY <1>1, <1>2, <1>3, <1>4, <1>5, <1>6, <1>7, <1>8, <1>9, <1>10, <1>11, <1>12, <1>13,
     <1>14, <1>15, <1>16, <1>17, <1>18, <1>19, <1>20
     DEF Next, Client, Practice, Worker, Proceed

LEMMA BookedIsExecuted ==
    ASSUME TypeOK, NEW q \in Requests, Books(q)
    PROVE  Executed' = Executed \cup {q} /\ q \notin Executed
  BY DEF TypeOK, Books, Executed

LEMMA BookingImplements ==
    ASSUME BookInv, BookInv', NEW q \in Requests, Books(q)
    PROVE  Abstract!Book(q)
<1>1. TypeOK /\ MoneyInv'
  BY DEF BookInv, OpenInv
<1>2. Executed' = Executed \cup {q}
  BY <1>1, BookedIsExecuted
<1>3. returned' = returned /\ returned'[q] > 0
  BY <1>1, <1>2 DEF MoneyInv, Executed, Books
<1> QED
  BY <1>2, <1>3 DEF Abstract!Book, Executed

\* The instance has its own copy of the community module.
LEMMA AbstractTotal == Abstract!Total = SumFunctionOnSet(returned, Requests)
  BY DEF Abstract!Total, Abstract!SumFunctionOnSet, Abstract!FoldFunctionOnSet,
     Abstract!MapThenFoldSet, SumFunctionOnSet, FoldFunctionOnSet, MapThenFoldSet

LEMMA PayBackImplements ==
    ASSUME TypeOK, TypeOK', NeverOverRefunded', NEW q \in Requests, PaysBack(q), BooksKept
    PROVE  \E cents \in 1..Paid : Abstract!PayBack(q, cents)
<1>1. /\ returned[q] = 0 /\ asked[q] > 0 /\ asked[q] \in Nat
      /\ returned' = [returned EXCEPT ![q] = asked[q]]
      /\ returned'[q] = asked[q]
  BY DEF PaysBack, TypeOK
<1>a. \A p \in Requests : returned[p] \in Int /\ returned'[p] \in Int
  BY DEF TypeOK
<1>b. \A p \in Requests \ {q} : returned[p] = returned'[p]
  BY DEF PaysBack, TypeOK
<1>c. IsFiniteSet(Requests)
  BY PaymentAssumption
<1>2. SumFunctionOnSet(returned', Requests)
         = SumFunctionOnSet(returned, Requests) + returned'[q] - returned[q]
  BY <1>a, <1>b, <1>c, SumChange
<1>3. SumFunctionOnSet(returned, Requests) \in Nat
  BY PaymentAssumption, SumNat DEF TypeOK
<1>4. SumFunctionOnSet(returned', Requests) <= Paid
  BY DEF NeverOverRefunded
<1>5. asked[q] + SumFunctionOnSet(returned, Requests) <= Paid
  BY <1>1, <1>2, <1>3, <1>4
<1>6. asked[q] \in 1..Paid
  BY <1>1, <1>3, <1>5, PaymentAssumption
<1>7. Abstract!PayBack(q, asked[q])
  BY <1>1, <1>5, AbstractTotal DEF Abstract!PayBack, BooksKept, Executed
<1> QED
  BY <1>6, <1>7

LEMMA StepImplements ==
    ASSUME BookInv, BookInv', NeverOverRefunded', [Next]_vars
    PROVE  [Abstract!Next]_<<returned, Executed>>
<1>1. TypeOK /\ TypeOK'
  BY DEF BookInv, OpenInv
<1>2. ASSUME NEW q \in Requests, Books(q)
      PROVE  Abstract!Next
  BY <1>2, BookingImplements DEF Abstract!Next
<1>3. ASSUME NEW q \in Requests, PaysBack(q), BooksKept
      PROVE  Abstract!Next
  BY <1>1, <1>3, PayBackImplements DEF Abstract!Next
<1> QED
  BY <1>2, <1>3, Shapes DEF StepShape, BooksKept

\* The whole workflow, with its concurrent executors, retries, crashes and
\* reconciliation, does nothing but pay each request back once, within the
\* payment, and book what has been paid back.
THEOREM ContractKept ==
    ASSUME HonestStripe
    PROVE  Spec => KeepsContract
<1>1. Init => Abstract!Init
  BY DEF Init, Abstract!Init
<1>2. BookInv /\ BookInv' /\ NeverOverRefunded' /\ [Next]_vars
         => [Abstract!Next]_<<returned, {q \in Requests : status[q] = "executed"}>>
  BY StepImplements DEF Executed
<1> QED
  BY <1>1, <1>2, NeverOver, BookInvariant, PTL DEF Spec, KeepsContract, Abstract!Spec

-------------------------------------------------------------------------------
(* The fee credit: PayoutFeeCredit by itself.                               *)

LEMMA ProductMonotone ==
    ASSUME NEW a \in Int, NEW b \in Int, NEW d \in Nat, a <= b
    PROVE  d * a <= d * b
<1>1. d * (b - a) >= 0
  OBVIOUS
<1> QED
  BY <1>1

\* a \div d is the greatest q with d * q <= a.
LEMMA DivBounds ==
    ASSUME NEW a \in Nat, NEW d \in Nat \ {0}
    PROVE  /\ a \div d \in Nat
           /\ d * (a \div d) <= a
           /\ a < d * (a \div d) + d
  OBVIOUS

LEMMA DivMonotone ==
    ASSUME NEW a \in Nat, NEW b \in Nat, NEW d \in Nat \ {0}, a <= b
    PROVE  a \div d <= b \div d
<1> PICK x \in Nat : x = a \div d /\ d * x <= a
  BY DivBounds
<1> PICK y \in Nat : y = b \div d /\ b < d * y + d
  BY DivBounds
<1> SUFFICES ASSUME y + 1 <= x PROVE FALSE
  OBVIOUS
<1>1. d * (y + 1) <= d * x
  BY ProductMonotone
<1>2. d * (y + 1) = d * y + d
  OBVIOUS
<1> QED
  BY <1>1, <1>2

LEMMA RoundedMonotone ==
    ASSUME NEW r \in Nat, NEW s \in Nat, r <= s
    PROVE  /\ Rounded(r) \in Nat
           /\ Rounded(s) \in Nat
           /\ Rounded(r) <= Rounded(s)
<1>1. 2 * Fee \in Nat /\ 2 * Paid \in Nat \ {0} /\ Paid \in Nat
  BY PaymentAssumption, FeeAssumption
<1>2. (2 * Fee) * r <= (2 * Fee) * s
  BY <1>1, ProductMonotone
<1>3. (2 * Fee) * r + Paid \in Nat /\ (2 * Fee) * s + Paid \in Nat
  BY <1>1
<1>4. (2 * Fee) * r + Paid <= (2 * Fee) * s + Paid
  BY <1>1, <1>2
<1> DEFINE a == (2 * Fee) * r + Paid
           b == (2 * Fee) * s + Paid
           d == 2 * Paid
<1>5. a \in Nat /\ b \in Nat /\ d \in Nat \ {0} /\ a <= b
  BY <1>1, <1>3, <1>4
<1>6. Rounded(r) = a \div d /\ Rounded(s) = b \div d
  BY DEF Rounded
<1> HIDE DEF a, b, d
<1>7. a \div d \in Nat /\ b \div d \in Nat
  BY <1>5, DivBounds
<1>8. a \div d <= b \div d
  BY <1>5, DivMonotone
<1> QED
  BY <1>6, <1>7, <1>8

\* The share of the whole payment is the whole fee: a half cent more of the
\* fee, the other half lost in the division.
LEMMA RoundedOfPaid == Rounded(Paid) = Fee
<1> USE PaymentAssumption, FeeAssumption
<1>1. 2 * Fee * Paid + Paid = (2 * Paid) * Fee + Paid
  OBVIOUS
<1>a. (2 * Paid) * Fee + Paid \in Nat /\ 2 * Paid \in Nat \ {0}
  OBVIOUS
<1>b. Rounded(Paid) = ((2 * Paid) * Fee + Paid) \div (2 * Paid)
  BY <1>1 DEF Rounded
<1> PICK x \in Nat : /\ x = Rounded(Paid)
                     /\ (2 * Paid) * x <= (2 * Paid) * Fee + Paid
                     /\ (2 * Paid) * Fee + Paid < (2 * Paid) * x + 2 * Paid
  BY <1>a, <1>b, DivBounds
<1>2. ~(x <= Fee - 1)
  <2> SUFFICES ASSUME x <= Fee - 1 PROVE FALSE
    OBVIOUS
  <2>1. (2 * Paid) * x <= (2 * Paid) * (Fee - 1)
    BY ProductMonotone
  <2>2. (2 * Paid) * (Fee - 1) = (2 * Paid) * Fee - 2 * Paid
    OBVIOUS
  <2> QED
    BY <2>1, <2>2
<1>3. ~(x >= Fee + 1)
  <2> SUFFICES ASSUME x >= Fee + 1 PROVE FALSE
    OBVIOUS
  <2>1. (2 * Paid) * (Fee + 1) <= (2 * Paid) * x
    BY ProductMonotone
  <2>2. (2 * Paid) * (Fee + 1) = (2 * Paid) * Fee + 2 * Paid
    OBVIOUS
  <2> QED
    BY <2>1, <2>2
<1> QED
  BY <1>2, <1>3

\* The share of nothing is nothing: half a unit is rounded down to zero.
LEMMA RoundedOfNothing == Rounded(0) = 0
<1>1. Paid \in Nat \ {0} /\ 2 * Paid \in Nat \ {0} /\ 2 * Fee * 0 + Paid = Paid
  BY PaymentAssumption, FeeAssumption
<1> PICK x \in Nat : /\ x = Paid \div (2 * Paid)
                     /\ (2 * Paid) * x <= Paid
  BY <1>1, DivBounds
<1>2. ~(x >= 1)
  <2> SUFFICES ASSUME x >= 1 PROVE FALSE
    OBVIOUS
  <2>1. (2 * Paid) * 1 <= (2 * Paid) * x
    BY <1>1, ProductMonotone
  <2> QED
    BY <1>1, <2>1
<1>3. x = 0
  BY <1>2
<1> QED
  BY <1>1, <1>3 DEF Rounded

LEMMA EntitledMonotone ==
    ASSUME NEW r \in Nat, NEW s \in Nat, r <= s
    PROVE  /\ Entitled(r) \in 0..Fee
           /\ Entitled(s) \in 0..Fee
           /\ Entitled(r) <= Entitled(s)
  BY PaymentAssumption, FeeAssumption, RoundedMonotone DEF Entitled, AtMost

\* Credits add up: a refund booked when the credits so far are the share of
\* the refunds so far brings them to the share of all refunds, this one
\* included.  It credits no negative amount, and all credits together stay
\* within the fee.
THEOREM CreditCompletesShare ==
    ASSUME NEW before \in Nat, NEW amount \in Nat
    PROVE  /\ Credit(amount, before, Entitled(before)) \in 0..Fee
           /\ Entitled(before) + Credit(amount, before, Entitled(before))
                 = Entitled(before + amount)
<1>1. before + amount \in Nat /\ before <= before + amount
  OBVIOUS
<1>2. /\ Entitled(before) \in 0..Fee
      /\ Entitled(before + amount) \in 0..Fee
      /\ Entitled(before) <= Entitled(before + amount)
  BY <1>1, EntitledMonotone
<1> QED
  BY <1>2, PaymentAssumption, FeeAssumption DEF Credit, AtMost, AtLeast

\* Once the whole payment has been refunded, in however many parts, the
\* share credited is the whole fee, to the cent.
THEOREM WholeFeeCredited == Entitled(Paid) = Fee
  BY RoundedOfPaid, PaymentAssumption, FeeAssumption DEF Entitled, AtMost

\* The row of a refund that completes the payment takes what is left of the
\* fee, as long as the credits before it were exact.
THEOREM LastRefundTakesTheRest ==
    ASSUME NEW before \in 0..Paid
    PROVE  Credit(Paid - before, before, Entitled(before))
             = Fee - Entitled(before)
<1>1. before \in Nat /\ Paid - before \in Nat /\ before + (Paid - before) = Paid
  BY PaymentAssumption, FeeAssumption
<1>2. Entitled(before) + Credit(Paid - before, before, Entitled(before))
         = Fee
  BY <1>1, CreditCompletesShare, WholeFeeCredited
<1>3. /\ Entitled(before) \in Int
      /\ Credit(Paid - before, before, Entitled(before)) \in Int
  BY <1>1, EntitledMonotone, CreditCompletesShare, PaymentAssumption, FeeAssumption
<1> QED
  BY <1>2, <1>3, PaymentAssumption, FeeAssumption

\* A row as the code writes it: it never credits a negative amount.
SoundRow == [amount : Nat \ {0}, credit : Nat, invoiceFee : BOOLEAN]

RowsSound == rows \in [Requests -> SoundRow \cup {NoRow}]

\* The credits are exact, and the refunds within the payment.
FeeInv ==
    /\ RowsSound
    /\ AmountOf(Booked) <= Paid
    /\ CreditsAddUp

AmountsOf(Q) == [q \in Q |-> rows[q].amount]
CreditsOf(Q) == [q \in Q |-> rows[q].credit]

SumsOfRows ==
    \A Q \in SUBSET Booked :
       /\ IsFiniteSet(Q)
       /\ AmountOf(Q) = SumFunctionOnSet(AmountsOf(Q), Q)
       /\ CreditOf(Q) = SumFunctionOnSet(CreditsOf(Q), Q)
       /\ AmountOf(Q) \in Nat /\ CreditOf(Q) \in Nat
       /\ \A q \in Q : AmountsOf(Q)[q] \in Nat /\ CreditsOf(Q)[q] \in Nat

LEMMA BookedRows ==
    ASSUME RowsSound, NEW q \in Booked
    PROVE  /\ q \in Requests
           /\ rows[q] \in SoundRow
           /\ rows[q].amount \in Nat \ {0}
           /\ rows[q].credit \in Nat
           /\ rows[q].invoiceFee \in BOOLEAN
  BY DEF RowsSound, Booked, SoundRow

LEMMA RowSums == RowsSound => SumsOfRows
<1> SUFFICES ASSUME RowsSound, NEW Q \in SUBSET Booked
             PROVE  /\ IsFiniteSet(Q)
                    /\ AmountOf(Q) = SumFunctionOnSet(AmountsOf(Q), Q)
                    /\ CreditOf(Q) = SumFunctionOnSet(CreditsOf(Q), Q)
                    /\ AmountOf(Q) \in Nat /\ CreditOf(Q) \in Nat
                    /\ \A q \in Q : AmountsOf(Q)[q] \in Nat /\ CreditsOf(Q)[q] \in Nat
  BY DEF SumsOfRows
<1>1. IsFiniteSet(Q)
  <2>1. Q \in SUBSET Requests
    BY DEF Booked
  <2> QED
    BY <2>1, PaymentAssumption, FS_Subset
<1>2. \A q \in Q : AmountsOf(Q)[q] \in Nat /\ CreditsOf(Q)[q] \in Nat
  BY BookedRows DEF AmountsOf, CreditsOf
<1>3. /\ AmountOf(Q) = SumFunctionOnSet(AmountsOf(Q), Q)
      /\ CreditOf(Q) = SumFunctionOnSet(CreditsOf(Q), Q)
  BY DEF AmountOf, CreditOf, AmountsOf, CreditsOf
<1>4. /\ SumFunctionOnSet(AmountsOf(Q), Q) \in Nat
      /\ SumFunctionOnSet(CreditsOf(Q), Q) \in Nat
  BY <1>1, <1>2, SumNat
<1> QED
  BY <1>1, <1>2, <1>3, <1>4

\* The next refund: its row, and the sums with it.
LEMMA RefundRow ==
    ASSUME FeeInv, NEW q \in Requests, NEW amount \in 1..Paid, Refund(q, amount)
    PROVE  LET before == AmountOf(Booked)
           IN  /\ rows'[q].amount = amount
               /\ rows'[q].credit = Credit(amount, before, Entitled(before))
               /\ rows'[q].invoiceFee = (before + amount >= Paid)
               /\ rows'[q] \in SoundRow
               /\ \A p \in Requests \ {q} : rows'[p] = rows[p]
               /\ Booked' = Booked \cup {q}
               /\ q \notin Booked
               /\ rows' \in [Requests -> SoundRow \cup {NoRow}]
<1> PICK before \in Nat : before = AmountOf(Booked)
  BY RowSums DEF FeeInv, SumsOfRows
<1>1. CreditOf(Booked) = Entitled(before)
  BY DEF FeeInv, CreditsAddUp
<1>2. /\ rows' = [rows EXCEPT ![q] = Payload(amount, Booked)]
      /\ rows[q] = NoRow
  BY DEF Refund
<1>3. amount \in Nat \ {0}
  BY PaymentAssumption
<1>4. Credit(amount, before, Entitled(before)) \in Nat
  BY <1>3, CreditCompletesShare
<1>5. Payload(amount, Booked)
         = [amount |-> amount,
            credit |-> Credit(amount, before, Entitled(before)),
            invoiceFee |-> before + amount >= Paid]
  BY <1>1 DEF Payload, InvoiceFeeDue
<1>6. Payload(amount, Booked) \in SoundRow
  BY <1>3, <1>4, <1>5 DEF SoundRow
<1>7. /\ rows'[q] = Payload(amount, Booked)
      /\ \A p \in Requests \ {q} : rows'[p] = rows[p]
  BY <1>2 DEF FeeInv, RowsSound
<1>8. rows' \in [Requests -> SoundRow \cup {NoRow}]
  BY <1>2, <1>6 DEF FeeInv, RowsSound
<1>9. rows'[q] # NoRow
  <2>1. rows'[q].amount # 0
    BY <1>3, <1>5, <1>7
  <2> QED
    BY <2>1 DEF NoRow
<1>10. Booked' = Booked \cup {q} /\ q \notin Booked
  BY <1>2, <1>7, <1>9 DEF Booked
<1>11. /\ rows'[q].amount = amount
       /\ rows'[q].credit = Credit(amount, before, Entitled(before))
       /\ rows'[q].invoiceFee = (before + amount >= Paid)
  BY <1>5, <1>7
<1>12. rows'[q] \in SoundRow
  BY <1>6, <1>7
<1> HIDE DEF SoundRow
<1> QED
  BY <1>7, <1>8, <1>10, <1>11, <1>12

LEMMA SumsAfterRefund ==
    ASSUME FeeInv, RowsSound', NEW q \in Requests, q \notin Booked,
           Booked' = Booked \cup {q},
           \A p \in Requests \ {q} : rows'[p] = rows[p]
    PROVE  /\ AmountOf(Booked)' = rows'[q].amount + AmountOf(Booked)
           /\ CreditOf(Booked)' = rows'[q].credit + CreditOf(Booked)
<1> DEFINE B == Booked
           f == [p \in B \cup {q} |-> rows'[p].amount]
           g == [p \in B \cup {q} |-> rows'[p].credit]
<1>1. SumsOfRows /\ SumsOfRows'
  BY RowSums, PTL DEF FeeInv
<1>2. /\ IsFiniteSet(B)
      /\ AmountOf(B) = SumFunctionOnSet(AmountsOf(B), B)
      /\ CreditOf(B) = SumFunctionOnSet(CreditsOf(B), B)
  BY <1>1 DEF SumsOfRows
<1>3. /\ AmountOf(Booked)' = SumFunctionOnSet(f, B \cup {q})
      /\ CreditOf(Booked)' = SumFunctionOnSet(g, B \cup {q})
      /\ \A p \in B \cup {q} : f[p] \in Nat /\ g[p] \in Nat
  BY <1>1 DEF SumsOfRows, AmountsOf, CreditsOf
<1>4. \A p \in B : f[p] = AmountsOf(B)[p] /\ g[p] = CreditsOf(B)[p]
  BY DEF AmountsOf, CreditsOf, Booked
<1>5. f[q] = rows'[q].amount /\ g[q] = rows'[q].credit
  OBVIOUS
<1> HIDE DEF f, g, B
<1>6. q \notin B
  BY DEF B
<1>7. /\ SumFunctionOnSet(f, B \cup {q}) = f[q] + SumFunctionOnSet(f, B)
      /\ SumFunctionOnSet(g, B \cup {q}) = g[q] + SumFunctionOnSet(g, B)
  BY <1>2, <1>3, <1>6, SumAdd
<1>8. /\ SumFunctionOnSet(f, B) = SumFunctionOnSet(AmountsOf(B), B)
      /\ SumFunctionOnSet(g, B) = SumFunctionOnSet(CreditsOf(B), B)
  BY <1>2, <1>4, SumSame
<1> QED
  BY <1>2, <1>3, <1>5, <1>7, <1>8 DEF B

LEMMA FeeStep == FeeInv /\ [RowsNext]_rows => FeeInv'
<1> SUFFICES ASSUME FeeInv, [RowsNext]_rows PROVE FeeInv'
  OBVIOUS
<1>1. CASE UNCHANGED rows
  BY <1>1 DEF FeeInv, RowsSound, AmountOf, Booked, CreditsAddUp,
     CreditOf
<1>2. ASSUME NEW q \in Requests, NEW amount \in 1..Paid, Refund(q, amount)
      PROVE  FeeInv'
  <2> PICK before \in Nat : before = AmountOf(Booked)
    BY RowSums DEF FeeInv, SumsOfRows
  <2>1. /\ rows'[q].amount = amount
        /\ rows'[q].credit = Credit(amount, before, Entitled(before))
        /\ rows'[q].invoiceFee = (before + amount >= Paid)
        /\ \A p \in Requests \ {q} : rows'[p] = rows[p]
        /\ Booked' = Booked \cup {q}
        /\ q \notin Booked
    BY <1>2, RefundRow
  <2>2. RowsSound'
    BY <1>2, RefundRow DEF RowsSound
  <2>3. amount \in Nat \ {0} /\ Paid \in Nat /\ before + amount <= Paid
    BY <1>2, PaymentAssumption DEF Refund
  <2>4. AmountOf(Booked)' = before + amount
    <3>1. AmountOf(Booked)' = amount + before
      BY <2>1, <2>2, SumsAfterRefund
    <3> QED
      BY <2>3, <3>1
  <2>5. CreditOf(Booked)' = Entitled(before + amount)
    <3>1. CreditOf(Booked) = Entitled(before)
      BY DEF FeeInv, CreditsAddUp
    <3>2. CreditOf(Booked)'
             = Credit(amount, before, Entitled(before)) + Entitled(before)
      BY <2>1, <2>2, <3>1, SumsAfterRefund
    <3>3. /\ Entitled(before) \in Nat
          /\ Credit(amount, before, Entitled(before)) \in Nat
          /\ Entitled(before) + Credit(amount, before, Entitled(before))
                = Entitled(before + amount)
      BY <2>3, EntitledMonotone, CreditCompletesShare, FeeAssumption
    <3> QED
      BY <3>2, <3>3
  <2>6. \A p \in Booked : ~rows[p].invoiceFee
    <3>1. before # Paid
      BY <2>3
    <3> QED
      BY <3>1 DEF FeeInv, CreditsAddUp
  <2>7. \A p \in Booked' : rows'[p].invoiceFee => (p = q /\ before + amount >= Paid)
    BY <2>1, <2>6 DEF Booked
  <2>8. q \in Booked' /\ (before + amount = Paid <=> rows'[q].invoiceFee)
    <3>1. before + amount = Paid <=> before + amount >= Paid
      BY <2>3
    <3> QED
      BY <2>1, <3>1
  <2>9. CreditsAddUp'
    <3>1. (before + amount = Paid) <=> (\E p \in Booked' : rows'[p].invoiceFee)
      BY <2>7, <2>8
    <3>2. \A p, r \in Booked' : (rows'[p].invoiceFee /\ rows'[r].invoiceFee) => p = r
      BY <2>7
    <3> QED
      BY <2>4, <2>5, <3>1, <3>2 DEF CreditsAddUp, Entitled,
         Rounded, AtMost
  <2> QED
    BY <2>2, <2>3, <2>4, <2>9 DEF FeeInv
<1> QED
  BY <1>1, <1>2 DEF RowsNext

LEMMA FeeInit == RowsInit => FeeInv
<1> SUFFICES ASSUME RowsInit PROVE FeeInv
  OBVIOUS
<1>1. Booked = {} /\ RowsSound
  BY DEF RowsInit, Booked, RowsSound
<1>2. AmountOf({}) = 0 /\ CreditOf({}) = 0
  BY SumEmpty DEF AmountOf, CreditOf
<1>3. Entitled(0) = 0
  BY RoundedOfNothing, FeeAssumption DEF Entitled, AtMost
<1> QED
  BY <1>1, <1>2, <1>3, PaymentAssumption DEF FeeInv, CreditsAddUp

LEMMA FeeInvariant == RowsSpec => []FeeInv
  BY FeeInit, FeeStep, PTL DEF RowsSpec

\* The billing rows keep their types.
THEOREM FeeTypeCorrect == RowsSpec => []RowsTypeOK
<1>1. FeeInv => RowsTypeOK
  BY DEF FeeInv, RowsSound, SoundRow, RowsTypeOK, Row
<1> QED
  BY <1>1, FeeInvariant, PTL

\* After any sequence of refunds the credits are the rounded share of what has
\* been refunded, and the refund that completes the payment, and no other,
\* credits the invoice fee.
THEOREM CreditsAddUpAlways == RowsSpec => []CreditsAddUp
<1>1. FeeInv => CreditsAddUp
  BY DEF FeeInv
<1> QED
  BY <1>1, FeeInvariant, PTL

LEMMA RebuildOne ==
    ASSUME FeeInv, NEW q \in Booked
    PROVE  Payload(rows[q].amount, Booked \ {q}).credit = rows[q].credit
<1> DEFINE B == Booked
<1>1. SumsOfRows /\ RowsSound
  BY RowSums DEF FeeInv
<1> PICK a \in Nat, c \in Nat : a = AmountOf(B) /\ c = CreditOf(B)
  BY <1>1 DEF SumsOfRows
<1> PICK x \in Nat, y \in Nat : x = rows[q].amount /\ y = rows[q].credit
  BY <1>1, BookedRows
<1> PICK r \in Nat, s \in Nat : r = AmountOf(B \ {q}) /\ s = CreditOf(B \ {q})
  BY <1>1 DEF SumsOfRows
<1>2. a = x + r /\ c = y + s
  <2> DEFINE R == B \ {q}
  <2>1. B \in SUBSET Booked /\ R \in SUBSET Booked
    OBVIOUS
  <2>2. /\ IsFiniteSet(B) /\ IsFiniteSet(R)
        /\ a = SumFunctionOnSet(AmountsOf(B), B) /\ c = SumFunctionOnSet(CreditsOf(B), B)
        /\ r = SumFunctionOnSet(AmountsOf(R), R) /\ s = SumFunctionOnSet(CreditsOf(R), R)
        /\ \A p \in B : AmountsOf(B)[p] \in Nat /\ CreditsOf(B)[p] \in Nat
    BY <1>1, <2>1 DEF SumsOfRows
  <2>3. /\ \A p \in R : AmountsOf(B)[p] = AmountsOf(R)[p] /\ CreditsOf(B)[p] = CreditsOf(R)[p]
        /\ AmountsOf(B)[q] = x /\ CreditsOf(B)[q] = y
    BY DEF AmountsOf, CreditsOf
  <2>a. q \in B
    OBVIOUS
  <2>b. R \subseteq B /\ R = B \ {q}
    OBVIOUS
  <2> HIDE DEF R, B
  <2>4. /\ SumFunctionOnSet(AmountsOf(B), B) = x + SumFunctionOnSet(AmountsOf(B), R)
        /\ SumFunctionOnSet(CreditsOf(B), B) = y + SumFunctionOnSet(CreditsOf(B), R)
    BY <2>2, <2>3, <2>a, <2>b, SumSplit
  <2>5. SumFunctionOnSet(AmountsOf(B), R) = SumFunctionOnSet(AmountsOf(R), R)
    BY <2>2, <2>3, SumSame
  <2>6. SumFunctionOnSet(CreditsOf(B), R) = SumFunctionOnSet(CreditsOf(R), R)
    BY <2>2, <2>3, SumSame
  <2> QED
    BY <2>2, <2>4, <2>5, <2>6
<1>3. c = Entitled(a) /\ c <= Fee
  BY EntitledMonotone, FeeAssumption DEF FeeInv, CreditsAddUp
<1>4. Credit(x, r, s) = y
  BY <1>2, <1>3, FeeAssumption DEF Credit, AtMost, AtLeast
<1> QED
  BY <1>4 DEF Payload

\* A payload rebuilt by the reconciliation after later refunds credits what
\* the row of its refund says.
THEOREM RebuildAgreesAlways == RowsSpec => []RebuildAgrees
<1>1. FeeInv => RebuildAgrees
  BY RebuildOne DEF RebuildAgrees
<1> QED
  BY <1>1, FeeInvariant, PTL

-------------------------------------------------------------------------------
(* The workflow books rows as PayoutFeeCredit says.                         *)

\* The rows are those of the executed requests, each over its amount.
RowsMatch ==
    /\ rows = [q \in Requests |-> rows[q]]
    /\ \A q \in Requests :
          IF Destination /\ status[q] = "executed"
          THEN rows[q].amount = asked[q]
          ELSE rows[q] = NoRow

BilledInv == BookInv /\ ReserveInv /\ RowsMatch

LEMMA BookedAreExecuted ==
    ASSUME BilledInv, Destination
    PROVE  Booked = Executed
<1>1. \A q \in Executed : asked[q] # 0
  BY DEF BilledInv, BookInv, OpenInv, KeyInv, TypeOK, Executed
<1>2. \A q \in Executed : rows[q] # NoRow
  <2> SUFFICES ASSUME NEW q \in Executed, rows[q] = NoRow PROVE FALSE
    OBVIOUS
  <2>1. rows[q].amount = asked[q]
    BY DEF BilledInv, RowsMatch, Executed
  <2>2. rows[q].amount = 0
    BY DEF NoRow
  <2> QED
    BY <1>1, <2>1, <2>2
<1>3. \A q \in Requests : rows[q] # NoRow => q \in Executed
  BY DEF BilledInv, RowsMatch, Executed
<1> QED
  BY <1>2, <1>3 DEF Booked, Executed

LEMMA AmountsAreAsked ==
    ASSUME BilledInv, Destination
    PROVE  /\ AmountOf(Executed) = SumFunctionOnSet(asked, Executed)
           /\ SumFunctionOnSet(asked, Executed) \in Nat
<1>1. IsFiniteSet(Executed)
  <2>1. Executed \in SUBSET Requests
    BY DEF Executed
  <2> QED
    BY <2>1, PaymentAssumption, FS_Subset
<1>2. \A q \in Executed : [p \in Executed |-> rows[p].amount][q] = asked[q]
  BY DEF BilledInv, RowsMatch, Executed
<1>3. SumFunctionOnSet([p \in Executed |-> rows[p].amount], Executed)
         = SumFunctionOnSet(asked, Executed)
  BY <1>1, <1>2, SumSame
<1>4. \A q \in Executed : asked[q] \in Nat
  BY DEF BilledInv, BookInv, OpenInv, TypeOK, Executed
<1>5. SumFunctionOnSet(asked, Executed) \in Nat
  BY <1>1, <1>4, SumNat
<1> QED
  BY <1>3, <1>5 DEF AmountOf

\* Whoever books a refund finds room for it: executing and executed requests
\* are reserved.
LEMMA RoomForRefund ==
    ASSUME BilledInv, NEW q \in Requests, status[q] = "executing"
    PROVE  /\ asked[q] \in Nat \ {0}
           /\ SumFunctionOnSet(asked, Executed) \in Nat
           /\ asked[q] + SumFunctionOnSet(asked, Executed) <= Paid
<1>1. TypeOK /\ KeyInv /\ ReserveInv
  BY DEF BilledInv, BookInv, OpenInv
<1>2. asked[q] \in Nat \ {0}
  BY <1>1 DEF TypeOK, KeyInv
<1>3. /\ ReservedBy(Requests) = SumFunctionOnSet(asked, ReservedRequests)
      /\ ReservedBy(Requests) \in Nat
      /\ IsFiniteSet(ReservedRequests)
      /\ \A p \in ReservedRequests : asked[p] \in Nat
  BY <1>1, ReservedSum DEF ReservedIsSum
<1>4. /\ Executed \subseteq ReservedRequests
      /\ Executed \cup {q} \subseteq ReservedRequests
      /\ q \notin Executed
  BY DEF Executed, ReservedRequests, Reserved
<1>5. IsFiniteSet(Executed) /\ \A p \in Executed : asked[p] \in Nat
  BY <1>3, <1>4, FS_Subset
<1>6. SumFunctionOnSet(asked, Executed) \in Nat
  BY <1>5, SumNat
<1>7. SumFunctionOnSet(asked, Executed \cup {q}) = asked[q] + SumFunctionOnSet(asked, Executed)
  BY <1>2, <1>4, <1>5, SumAdd
<1>8. \A p \in Executed \cup {q} : asked[p] \in Int /\ asked[p] <= asked[p]
  BY <1>2, <1>5
<1>9. SumFunctionOnSet(asked, Executed \cup {q}) <= SumFunctionOnSet(asked, ReservedRequests)
  BY <1>3, <1>4, <1>8, SumMonotone
<1>10. ReservedBy(Requests) <= Paid
  BY <1>1 DEF ReserveInv
<1> QED
  BY <1>2, <1>3, <1>6, <1>7, <1>9, <1>10, PaymentAssumption

LEMMA RowIsPayload ==
    ASSUME BilledInv, Destination, NEW q \in Requests, status[q] = "executing"
    PROVE  RowOf(q) = Payload(asked[q], Booked)
<1>1. Booked = Executed /\ Executed \ {q} = Executed
  BY BookedAreExecuted DEF Executed
<1>2. Completes(q) = InvoiceFeeDue(asked[q], AmountOf(Executed))
  BY <1>1, AmountsAreAsked DEF Completes, InvoiceFeeDue
<1> QED
  BY <1>1, <1>2 DEF RowOf, Payload

LEMMA BookingRefunds ==
    ASSUME BilledInv, NEW q \in Requests, Books(q), InsertRows
    PROVE  [RowsNext]_rows
<1>1. TypeOK /\ status[q] = "executing"
  BY DEF BilledInv, BookInv, OpenInv, Books
<1>2. Executed' \ Executed = {q}
  BY <1>1, BookedIsExecuted
<1>3. CASE ~Destination
  BY <1>3 DEF InsertRows, BilledInv, RowsMatch
<1>4. CASE Destination
  <2>1. rows' = [rows EXCEPT ![q] = Payload(asked[q], Booked)]
    BY <1>1, <1>2, <1>4, RowIsPayload DEF InsertRows, BilledInv, RowsMatch
  <2>2. rows[q] = NoRow
    BY <1>1 DEF BilledInv, RowsMatch
  <2>3. /\ asked[q] \in Nat \ {0}
        /\ SumFunctionOnSet(asked, Executed) \in Nat
        /\ asked[q] + SumFunctionOnSet(asked, Executed) <= Paid
    BY <1>1, RoomForRefund
  <2>4. asked[q] \in 1..Paid
    BY <2>3, PaymentAssumption
  <2>5. asked[q] + AmountOf(Booked) <= Paid
    BY <1>4, <2>3, BookedAreExecuted, AmountsAreAsked
  <2>6. Refund(q, asked[q])
    BY <2>1, <2>2, <2>5 DEF Refund
  <2> QED
    BY <2>4, <2>6 DEF RowsNext
<1> QED
  BY <1>3, <1>4

LEMMA RowsMatchStep ==
    ASSUME BilledInv, StepShape, InsertRows
    PROVE  RowsMatch' /\ [RowsNext]_rows
<1>1. TypeOK
  BY DEF BilledInv, BookInv, OpenInv
<1>2. CASE BooksKept
  <2>1. rows' = rows
    BY <1>2 DEF InsertRows, BooksKept, BilledInv, RowsMatch
  <2>2. \A q \in Requests : /\ status'[q] = "executed" <=> status[q] = "executed"
                            /\ status[q] = "executed" => asked'[q] = asked[q]
    BY <1>2 DEF BooksKept, Executed
  <2> QED
    BY <2>1, <2>2 DEF BilledInv, RowsMatch
<1>3. ASSUME NEW q \in Requests, Books(q)
      PROVE  RowsMatch' /\ [RowsNext]_rows
  <2>1. Executed' \ Executed = {q}
    BY <1>1, <1>3, BookedIsExecuted
  <2>2. RowOf(q).amount = asked[q]
    BY DEF RowOf
  <2>3. RowsMatch'
    BY <1>1, <1>3, <2>1, <2>2 DEF InsertRows, BilledInv, RowsMatch, Books, TypeOK
  <2> QED
    BY <1>3, <2>3, BookingRefunds
<1> QED
  BY <1>2, <1>3 DEF StepShape

LEMMA BilledStep ==
    BilledInv /\ [BilledNext]_<<vars, rows>> => RowsMatch' /\ [RowsNext]_rows
<1> SUFFICES ASSUME BilledInv, [BilledNext]_<<vars, rows>>
             PROVE  RowsMatch' /\ [RowsNext]_rows
  OBVIOUS
<1>1. CASE UNCHANGED <<vars, rows>>
  BY <1>1 DEF BilledInv, RowsMatch, vars
<1>2. CASE BilledNext
  <2>1. StepShape /\ InsertRows
    BY <1>2, Shapes DEF BilledNext, BilledInv
  <2> QED
    BY <2>1, RowsMatchStep
<1> QED
  BY <1>1, <1>2

LEMMA BilledIsRefunds == BilledSpec => Spec
<1>1. [BilledNext]_<<vars, rows>> => [Next]_vars
  BY DEF BilledNext, vars
<1> QED
  BY <1>1, PTL DEF BilledSpec, BilledInit, Spec

LEMMA BilledStart == BilledInit => RowsMatch /\ RowsInit
  BY DEF BilledInit, RowsInit, Init, RowsMatch

LEMMA BilledInvariant == BilledSpec => []BilledInv
  BY BilledStart, BilledStep, BilledIsRefunds, ReserveInvariant, PTL DEF BilledSpec,
     BilledInv

\* However requests, executors, crashes and the reconciliation interleave, the
\* billing rows come about as PayoutFeeCredit says: one refund after another,
\* each computed from the rows before it, all within the payment.
THEOREM RowsKeepContract == BilledSpec => KeepsRows
  BY BilledStart, BilledStep, BilledInvariant, PTL DEF BilledSpec, RowsSpec, KeepsRows

\* Hence the books of the running workflow are exact: what refunds credit is
\* the share of what they paid back, and a payload rebuilt after later refunds
\* agrees with its row.
THEOREM WorkflowCreditsExactly ==
    BilledSpec => [](CreditsAddUp /\ RebuildAgrees)
  BY RowsKeepContract, CreditsAddUpAlways, RebuildAgreesAlways, PTL DEF KeepsRows

\* Once the refunds the books show make up the whole payment, in however many
\* parts, the whole payout fee has been credited, to the cent.
THEOREM FullRefundCreditsFee ==
    BilledSpec => []((Destination /\ SumFunctionOnSet(asked, Executed) = Paid)
                        => CreditOf(Booked) = Fee)
<1>1. BilledInv /\ FeeInv =>
         ((Destination /\ SumFunctionOnSet(asked, Executed) = Paid)
             => CreditOf(Booked) = Fee)
  <2> SUFFICES ASSUME BilledInv, FeeInv, Destination,
                      SumFunctionOnSet(asked, Executed) = Paid
               PROVE  CreditOf(Booked) = Fee
    OBVIOUS
  <2>1. AmountOf(Booked) = Paid
    BY BookedAreExecuted, AmountsAreAsked
  <2> QED
    BY <2>1, WholeFeeCredited DEF FeeInv, CreditsAddUp
<1> QED
  BY <1>1, BilledInvariant, RowsKeepContract, FeeInvariant, PTL DEF KeepsRows

===============================================================================
