----------------------- MODULE SubscriptionPointerProofs -----------------------
(* Proofs about SubscriptionPointer, for any number of subscriptions,       *)
(* checkout requests and webhook jobs, and for any course of a subscription *)
(* at Stripe.                                                               *)
EXTENDS SubscriptionPointer, TLAPS

\* A job that will store SubscriptionCreated.
Owes(j, s) == jobs[j].at = "after" /\ jobs[j].sub = s /\ jobs[j].first = TRUE

\* Whoever announces a subscription, or will, has seen it without a 'created'
\* event and has stored that event itself: there is only one.
Told ==
    \A s \in Subs :
       /\ announced[s] <= 1
       /\ announced[s] = 1 => s \in audited
       /\ \A j \in Jobs : Owes(j, s) => s \in audited /\ announced[s] = 0
       /\ \A j, k \in Jobs : Owes(j, s) /\ Owes(k, s) => j = k

\* Events, and the jobs they start, are about subscriptions Stripe has started.
Begun ==
    /\ \A e \in events : e.sub \in Started
    /\ \A j \in Jobs : jobs[j].at = "commit" => jobs[j].sub \in Started

Inv == TypeOK /\ Told /\ Begun

PointerStep ==
    pointer # None =>
       \/ pointer' = pointer
       \/ pointer' = None /\ rows'[pointer] \notin Entitled
       \/ pointer' \in audited' /\ pointer' \in Started

-----------------------------------------------------------------------------
\* The kinds of values.
LEMMA EventFields ==
    ASSUME NEW e \in Events
    PROVE  /\ e.sub \in Subs
           /\ e.type \in {"created", "updated"} => e.status \in Live
  BY DEF Events

LEMMA JobFields ==
    ASSUME NEW o \in JobSteps
    PROVE  /\ o.at = "commit" => /\ o.sub \in Subs /\ o.status \in Statuses
                                 /\ o.old \in Subs \cup {None} /\ o.known \in BOOLEAN
           /\ o.at = "after"  => /\ o.sub \in Subs /\ o.old \in Subs \cup {None}
                                 /\ o.first \in BOOLEAN
  BY DEF JobSteps, Idle

LEMMA RequestFields ==
    ASSUME NEW o \in RequestSteps, o.at = "session"
    PROVE  o.sub \in Subs /\ o.isNew \in BOOLEAN
  BY DEF RequestSteps, Idle

LEMMA InvInit == Init => Inv
<1> SUFFICES ASSUME Init PROVE Inv
  OBVIOUS
<1>1. TypeOK
  BY DEF Init, TypeOK, RowStates, RequestSteps, JobSteps, Statuses
<1>2. Told /\ Begun
  BY DEF Init, Told, Begun, Owes, Idle
<1> QED
  BY <1>1, <1>2 DEF Inv

\* What was started stays so; then the jobs' part is kept by steps of others.
LEMMA OthersStep ==
    ASSUME Inv, TypeOK', Started \subseteq Started', \A e \in events' : e.sub \in Started',
           UNCHANGED <<jobs, audited, announced>>
    PROVE  Inv'
  BY DEF Inv, Told, Begun, Owes

LEMMA StripeStep ==
    ASSUME TypeOK, NEW s \in Subs, NEW status \in Statuses \cup {"session"},
           stripe' = [stripe EXCEPT ![s] = status],
           status = "session" => stripe[s] = "none"
    PROVE  /\ stripe' \in [Subs -> Statuses \cup {"none", "session"}]
           /\ Started \subseteq Started'
           /\ status # "session" => s \in Started'
  BY DEF TypeOK, Started, Statuses, Live, Entitled

\* A request for a checkout.
LEMMA RequestStep ==
    ASSUME Inv, NEW r \in Requests, Request(r)
    PROVE  Inv' /\ pointer' = pointer
<1>0. TypeOK /\ Begun
  BY DEF Inv
<1>1. CASE Checkout(r) \/ FindRow(r)
  <2>1. /\ requests' \in [Requests -> RequestSteps]
        /\ UNCHANGED <<practice, stripe, events, jobs>>
    <3>1. \E st \in RequestSteps : Step(r, st)
      BY <1>1 DEF Checkout, FindRow, RequestSteps, Incomplete
    <3> QED
      BY <1>0, <1>1, <3>1 DEF Checkout, FindRow, Step, TypeOK
  <2>2. TypeOK' /\ Started' = Started
    BY <1>0, <2>1 DEF TypeOK, practice, Started
  <2> QED
    BY <1>0, <2>1, <2>2, OthersStep DEF practice, Begun
<1>2. CASE InsertRow(r)
  <2>1. requests' \in [Requests -> RequestSteps]
    BY <1>0, <1>2 DEF InsertRow, Step, TypeOK, RequestSteps
  <2>2. TypeOK' /\ Started' = Started
    BY <1>0, <1>2, <2>1 DEF InsertRow, TypeOK, Started, RowStates, Statuses, Live
  <2> QED
    BY <1>0, <1>2, <2>2, OthersStep DEF InsertRow, Begun
<1>3. CASE OpenSession(r) \/ SessionFails(r)
  <2>1. requests[r].sub \in Subs
    BY <1>0, <1>3, RequestFields DEF OpenSession, SessionFails, TypeOK
  <2>2. /\ stripe' \in [Subs -> Statuses \cup {"none", "session"}]
        /\ Started \subseteq Started'
    <3>1. CASE stripe' = stripe
      BY <1>0, <3>1 DEF TypeOK, Started
    <3>2. CASE /\ stripe[requests[r].sub] = "none"
               /\ stripe' = [stripe EXCEPT ![requests[r].sub] = "session"]
      BY <1>0, <2>1, <3>2, StripeStep
    <3> QED
      BY <1>3, <3>1, <3>2 DEF OpenSession, SessionFails, SessionFor
  <2>3. requests' \in [Requests -> RequestSteps]
    BY <1>0, <1>3 DEF OpenSession, SessionFails, Step, TypeOK, RequestSteps
  <2>4. rows' \in [Subs -> RowStates]
    BY <1>0, <1>3, <2>1 DEF OpenSession, SessionFails, practice, TypeOK, RowStates
  <2>5. UNCHANGED <<pointer, before, audited, announced, events, jobs>>
    BY <1>3 DEF OpenSession, SessionFails, practice
  <2>6. TypeOK'
    BY <1>0, <2>2, <2>3, <2>4, <2>5 DEF TypeOK
  <2> QED
    BY <1>0, <2>2, <2>5, <2>6, OthersStep DEF Begun
<1> QED
  BY <1>1, <1>2, <1>3 DEF Request

\* A change of a subscription at Stripe.
LEMMA AtStripeStep ==
    ASSUME Inv, NEW s \in Subs, AtStripe(s)
    PROVE  Inv' /\ pointer' = pointer
<1>0. TypeOK /\ Begun
  BY DEF Inv
<1>1. \E status \in Statuses, told \in SUBSET Events :
         Becomes(s, status, told) /\ \A e \in told : e.sub = s
  <2>1. CASE Subscribe(s)
    <3>1. PICK status \in Initial :
             Becomes(s, status, {[type |-> "created", sub |-> s, status |-> status]})
      BY <2>1 DEF Subscribe
    <3>2. status \in Live
      BY SubsAssumption DEF Live, Entitled
    <3> QED
      BY <3>1, <3>2 DEF Events, Statuses
  <2>2. CASE Cancel(s)
    BY <2>2 DEF Cancel, Ended, Events, Statuses
  <2>3. CASE \E status \in Live : Change(s, status)
    BY <2>3 DEF Change, Events, Statuses
  <2> QED
    BY <2>1, <2>2, <2>3 DEF AtStripe
<1>2. PICK status \in Statuses, told \in SUBSET Events :
         Becomes(s, status, told) /\ \A e \in told : e.sub = s
  BY <1>1
<1>3. /\ stripe' \in [Subs -> Statuses \cup {"none", "session"}]
      /\ Started \subseteq Started' /\ s \in Started'
  BY <1>0, <1>2, StripeStep DEF Becomes, Statuses, Live, Entitled
<1>4. /\ events' \subseteq Events
      /\ \A e \in events' : e \in events \/ e.sub = s
  BY <1>0, <1>2 DEF Becomes, Events, TypeOK
<1>5. TypeOK'
  BY <1>0, <1>2, <1>3, <1>4 DEF Becomes, practice, TypeOK
<1> QED
  BY <1>0, <1>2, <1>3, <1>4, <1>5, OthersStep DEF Becomes, practice, Begun

\* A status told by an event.
LEMMA EventStep ==
    ASSUME Inv, NEW e \in events, Updated(e) \/ Deleted(e)
    PROVE  Inv' /\ PointerStep
<1>0. TypeOK /\ Begun
  BY DEF Inv
<1>1. e.sub \in Subs /\ (e.type = "updated" => e.status \in Live)
  BY <1>0, EventFields DEF TypeOK
<1>2. TypeOK'
  BY <1>0, <1>1 DEF Updated, Deleted, Put, Claimed, Cleared, TypeOK, RowStates, Statuses
<1>3. Started' = Started /\ UNCHANGED <<events, jobs, audited, announced>>
  BY DEF Updated, Deleted, Started
<1>4. Inv'
  BY <1>0, <1>2, <1>3, OthersStep DEF Begun
<1>5. PointerStep
  BY <1>0, <1>1
     DEF Updated, Deleted, Put, Claimed, Cleared, TypeOK, Entitled, PointerStep
<1> QED
  BY <1>4, <1>5

\* A run of syncSubscriptionToOrg.
LEMMA GoStep ==
    ASSUME TypeOK, NEW j \in Jobs, NEW st \in JobSteps, Go(j, st)
    PROVE  /\ jobs' \in [Jobs -> JobSteps]
           /\ jobs'[j] = st
           /\ \A k \in Jobs : k # j => jobs'[k] = jobs[k]
  BY DEF Go, TypeOK

\* A step to work of which nothing is owed.
LEMMA QuietStep ==
    ASSUME Inv, TypeOK', NEW j \in Jobs, NEW st \in JobSteps, Go(j, st),
           st.at = "after" => st.first = FALSE,
           st.at = "commit" => st.sub \in Started,
           Started \subseteq Started', \A e \in events' : e.sub \in Started',
           UNCHANGED <<audited, announced>>
    PROVE  Inv'
<1>1. /\ jobs'[j] = st
      /\ \A k \in Jobs : k # j => jobs'[k] = jobs[k]
  BY GoStep DEF Inv
<1>2. \A k \in Jobs, s \in Subs : Owes(k, s)' => Owes(k, s)
  BY <1>1 DEF Owes
<1>3. Told'
  BY <1>2 DEF Inv, Told
<1>4. Begun'
  BY <1>1 DEF Inv, Begun
<1> QED
  BY <1>3, <1>4 DEF Inv

LEMMA StartStep ==
    ASSUME Inv, NEW j \in Jobs, NEW e \in events, Start(j, e)
    PROVE  Inv' /\ pointer' = pointer
<1>0. TypeOK /\ Begun
  BY DEF Inv
<1>1. e \in Events /\ e.sub \in Subs /\ e.sub \in Started
  BY <1>0, EventFields DEF TypeOK, Begun
<1>2. PICK st \in JobSteps : Go(j, st) /\ st.at = "commit" /\ st.sub = e.sub
  <2> DEFINE status == IF e.type = "created" THEN e.status ELSE stripe[e.sub]
             st     == [at |-> "commit", sub |-> e.sub, status |-> status,
                        old |-> Other(e.sub), known |-> Other(e.sub) \in audited]
  <2>1. status \in Statuses
    BY <1>1, EventFields DEF Started, Statuses
  <2>2. Other(e.sub) \in Subs \cup {None}
    BY <1>0 DEF Other, TypeOK
  <2>3. st \in JobSteps
    BY <1>1, <2>1, <2>2 DEF JobSteps
  <2>4. Go(j, st)
    BY DEF Start
  <2> QED
    BY <2>3, <2>4
<1>3. UNCHANGED <<practice, stripe, events, requests>>
  BY DEF Start
<1>4. TypeOK' /\ Started' = Started
  BY <1>0, <1>2, <1>3, GoStep DEF TypeOK, practice, Started
<1> QED
  BY <1>0, <1>1, <1>2, <1>3, <1>4, QuietStep DEF practice, Begun

LEMMA LoseStep ==
    ASSUME Inv, NEW j \in Jobs, Lose(j)
    PROVE  Inv' /\ pointer' = pointer
<1>0. TypeOK /\ Begun
  BY DEF Inv
<1> DEFINE op == jobs[j]
           st == [at |-> "after", sub |-> op.sub, old |-> op.sub, first |-> FALSE]
<1>1. op \in JobSteps /\ op.at = "commit" /\ op.sub \in Subs
  BY <1>0, JobFields DEF Lose, TypeOK
<1>2. st \in JobSteps /\ Go(j, st)
  BY <1>1 DEF Lose, JobSteps
<1>3. rows' \in [Subs -> RowStates]
  BY <1>0 DEF Lose, Put, TypeOK, RowStates, Statuses
<1>4. UNCHANGED <<pointer, before, audited, announced, stripe, events, requests>>
  BY DEF Lose
<1>5. TypeOK' /\ Started' = Started
  BY <1>0, <1>2, <1>3, <1>4, GoStep DEF TypeOK, Started
<1> QED
  BY <1>0, <1>2, <1>4, <1>5, QuietStep DEF Begun

\* The one step that makes a job owe the announcement.
LEMMA CommitStep ==
    ASSUME Inv, NEW j \in Jobs, Commit(j)
    PROVE  Inv' /\ PointerStep
<1>0. TypeOK /\ Told /\ Begun
  BY DEF Inv
<1> DEFINE op == jobs[j]
           st == [at |-> "after", sub |-> op.sub, old |-> Displaced(op), first |-> First(op.sub)]
<1>1. /\ op \in JobSteps /\ op.at = "commit" /\ op.sub \in Subs /\ op.sub \in Started
      /\ op.status \in Statuses /\ op.old \in Subs \cup {None}
  BY <1>0, JobFields DEF Commit, TypeOK, Begun
<1>2. st \in JobSteps /\ Go(j, st)
  BY <1>1 DEF Commit, JobSteps, Displaced, First
<1>3. rows' \in [Subs -> RowStates]
  BY <1>0, <1>1 DEF Commit, TypeOK, RowStates, Statuses
<1>4. /\ UNCHANGED <<before, announced, stripe, events, requests>>
      /\ pointer' = op.sub
      /\ audited' = audited \cup {op.sub}
  BY DEF Commit
<1>5. TypeOK' /\ Started' = Started
  BY <1>0, <1>1, <1>2, <1>3, <1>4, GoStep DEF TypeOK, Started
<1>6. /\ jobs'[j] = st
      /\ \A k \in Jobs : k # j => jobs'[k] = jobs[k]
  BY <1>0, <1>2, GoStep
<1>7. Begun'
  BY <1>0, <1>4, <1>5, <1>6 DEF Begun
<1>8. Told'
  <2> SUFFICES ASSUME NEW s \in Subs
               PROVE  /\ announced'[s] <= 1
                      /\ announced'[s] = 1 => s \in audited'
                      /\ \A k \in Jobs : Owes(k, s)' => s \in audited' /\ announced'[s] = 0
                      /\ \A k, l \in Jobs : Owes(k, s)' /\ Owes(l, s)' => k = l
    BY DEF Told
  <2>1. \A k \in Jobs : Owes(k, s)' => Owes(k, s) \/ (k = j /\ s = op.sub /\ s \notin audited)
    <3>1. CASE First(op.sub)
      BY <1>6, <3>1 DEF Owes, First
    <3>2. CASE ~First(op.sub)
      <4>1. st.first = First(op.sub)
        OBVIOUS
      <4>2. st.first # TRUE
        BY <3>2, <4>1 DEF First
      <4> QED
        BY <1>6, <4>2 DEF Owes
    <3> QED
      BY <3>1, <3>2
  <2>2. announced[s] \in Nat
    BY <1>0 DEF TypeOK
  <2>3. s \notin audited => announced[s] = 0 /\ \A k \in Jobs : ~Owes(k, s)
    BY <1>0, <2>2 DEF Told
  <2> QED
    BY <1>0, <1>4, <2>1, <2>3 DEF Told
<1>9. PointerStep
  BY <1>1, <1>4 DEF PointerStep
<1> QED
  BY <1>5, <1>7, <1>8, <1>9 DEF Inv

\* The announcement.
LEMMA AfterStep ==
    ASSUME Inv, NEW j \in Jobs, After(j)
    PROVE  Inv' /\ pointer' = pointer
<1>0. TypeOK /\ Told /\ Begun
  BY DEF Inv
<1> DEFINE op == jobs[j]
<1>1. /\ op \in JobSteps /\ op.at = "after" /\ op.sub \in Subs
      /\ op.old \in Subs \cup {None} /\ op.first \in BOOLEAN
  BY <1>0, JobFields DEF After, TypeOK
<1>2. Idle \in JobSteps /\ Go(j, Idle) /\ Idle.at = "idle"
  BY DEF After, JobSteps, Idle
<1>3. /\ stripe' \in [Subs -> Statuses \cup {"none", "session"}]
      /\ Started \subseteq Started'
      /\ events' \subseteq Events
      /\ \A e \in events' : e.sub \in Started'
  <2>1. CASE UNCHANGED <<stripe, events>>
    BY <1>0, <2>1 DEF TypeOK, Begun, Started
  <2>2. CASE /\ op.old # None /\ stripe[op.old] \in Live
             /\ stripe' = [stripe EXCEPT ![op.old] = "canceled"]
             /\ events' = events \cup Ended(op.old)
    <3>1. op.old \in Subs
      BY <1>1, <2>2
    <3>2. /\ stripe' \in [Subs -> Statuses \cup {"none", "session"}]
          /\ Started \subseteq Started' /\ op.old \in Started'
      BY <1>0, <2>2, <3>1, StripeStep DEF Statuses
    <3> QED
      BY <1>0, <2>2, <3>1, <3>2 DEF Ended, Events, TypeOK, Begun
  <2> QED
    BY <2>1, <2>2 DEF After
<1>4. UNCHANGED <<pointer, rows, before, audited, requests>>
  BY DEF After
<1>5. \/ announced' = announced
      \/ /\ announced' = [announced EXCEPT ![op.sub] = announced[op.sub] + 1]
         /\ Owes(j, op.sub)
  <2>1. CASE op.first = TRUE
    BY <1>1, <2>1 DEF After, Owes
  <2>2. CASE op.first = FALSE
    BY <1>0, <1>1, <2>2 DEF After, TypeOK
  <2> QED
    BY <1>1, <2>1, <2>2
<1>6. announced' \in [Subs -> Nat]
  BY <1>0, <1>1, <1>5 DEF TypeOK
<1>7. TypeOK'
  BY <1>0, <1>2, <1>3, <1>4, <1>6, GoStep DEF TypeOK
<1>8. CASE announced' = announced
  BY <1>2, <1>3, <1>4, <1>7, <1>8, QuietStep
<1>9. CASE /\ announced' = [announced EXCEPT ![op.sub] = announced[op.sub] + 1]
           /\ Owes(j, op.sub)
  <2>1. \A k \in Jobs, s \in Subs : Owes(k, s)' => Owes(k, s) /\ k # j
    BY <1>0, <1>2, GoStep DEF Owes
  <2>2. Told'
    <3> SUFFICES ASSUME NEW s \in Subs
                 PROVE  /\ announced'[s] <= 1
                        /\ announced'[s] = 1 => s \in audited
                        /\ \A k \in Jobs : Owes(k, s)' => s \in audited /\ announced'[s] = 0
                        /\ \A k, l \in Jobs : Owes(k, s)' /\ Owes(l, s)' => k = l
      BY <1>4 DEF Told
    <3>1. CASE s = op.sub
      <4>1. announced[s] = 0 /\ s \in audited
        BY <1>0, <1>9, <3>1 DEF Told
      <4>2. announced'[s] = 1
        BY <1>0, <1>9, <3>1, <4>1 DEF TypeOK
      <4>3. \A k \in Jobs : ~Owes(k, s)'
        BY <1>0, <1>9, <2>1, <3>1 DEF Told
      <4> QED
        BY <4>1, <4>2, <4>3
    <3>2. CASE s # op.sub
      <4>1. announced'[s] = announced[s]
        BY <1>0, <1>9, <3>2 DEF TypeOK
      <4> QED
        BY <1>0, <2>1, <4>1 DEF Told
    <3> QED
      BY <3>1, <3>2
  <2>3. Begun'
    BY <1>0, <1>2, <1>3, GoStep DEF Begun
  <2> QED
    BY <1>4, <1>7, <2>2, <2>3 DEF Inv
<1> QED
  BY <1>4, <1>5, <1>8, <1>9

LEMMA JobFailsStep ==
    ASSUME Inv, NEW j \in Jobs, JobFails(j)
    PROVE  Inv' /\ pointer' = pointer
<1>0. TypeOK /\ Begun
  BY DEF Inv
<1>1. Idle \in JobSteps /\ Go(j, Idle) /\ Idle.at = "idle"
  BY DEF JobFails, JobSteps, Idle
<1>2. UNCHANGED <<practice, stripe, events, requests>>
  BY DEF JobFails
<1>3. TypeOK' /\ Started' = Started
  BY <1>0, <1>1, <1>2, GoStep DEF TypeOK, practice, Started
<1> QED
  BY <1>0, <1>1, <1>2, <1>3, QuietStep DEF practice, Begun

-----------------------------------------------------------------------------
LEMMA InvStep ==
    ASSUME Inv, [Next]_vars
    PROVE  Inv' /\ PointerStep
<1>1. ASSUME NEW r \in Requests, Request(r)
      PROVE  Inv' /\ PointerStep
  BY <1>1, RequestStep DEF PointerStep
<1>2. ASSUME NEW s \in Subs, AtStripe(s)
      PROVE  Inv' /\ PointerStep
  BY <1>2, AtStripeStep DEF PointerStep
<1>3. ASSUME NEW e \in events, Updated(e) \/ Deleted(e)
      PROVE  Inv' /\ PointerStep
  BY <1>3, EventStep
<1>4. ASSUME NEW j \in Jobs, Job(j)
      PROVE  Inv' /\ PointerStep
  BY <1>4, StartStep, LoseStep, CommitStep, AfterStep, JobFailsStep DEF Job, PointerStep
<1>5. CASE UNCHANGED vars
  <2>1. UNCHANGED <<pointer, rows, before, audited, announced, stripe, events, requests, jobs>>
    BY <1>5 DEF vars, practice
  <2>2. TypeOK /\ Begun
    BY DEF Inv
  <2>3. TypeOK'
    BY <2>1, <2>2 DEF TypeOK
  <2>4. Started' = Started
    BY <2>1 DEF Started
  <2>5. Inv'
    BY <2>1, <2>2, <2>3, <2>4, OthersStep DEF Begun
  <2> QED
    BY <2>1, <2>5 DEF PointerStep
<1> QED
  BY <1>1, <1>2, <1>3, <1>4, <1>5 DEF Next

LEMMA InvAlways == Spec => []Inv
  BY InvInit, InvStep, PTL DEF Spec

\* Rows, subscriptions at Stripe, requests and jobs keep their types.
THEOREM TypeCorrect == Spec => []TypeOK
<1>1. Inv => TypeOK
  BY DEF Inv
<1> QED
  BY <1>1, InvAlways, PTL

\* SubscriptionCreated is stored at most once for a subscription.
THEOREM AnnouncedOnceAlways == Spec => []AnnouncedOnce
<1>1. Inv => AnnouncedOnce
  BY DEF Inv, Told, AnnouncedOnce
<1> QED
  BY <1>1, InvAlways, PTL

\* A practice loses its pointer only with the subscription it names, or to one
\* that Stripe has started and whose Stripe id is known.
THEOREM PointerHeldAlways == Spec => PointerHeld
<1>1. Inv /\ [Next]_vars => [PointerStep]_vars
  BY InvStep
<1>2. [PointerStep]_vars =>
         [pointer # None =>
             \/ pointer' = pointer
             \/ pointer' = None /\ rows'[pointer] \notin Entitled
             \/ pointer' \in audited' /\ pointer' \in Started]_vars
  BY DEF PointerStep
<1> QED
  BY <1>1, <1>2, InvAlways, PTL DEF Spec, PointerHeld
=============================================================================
