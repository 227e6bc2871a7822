-------------------------- MODULE SubscriptionPointer --------------------------
(***************************************************************************)
(* Which subscription entitles a practice (src/modules/subscriptions).     *)
(* Staff buy a plan in a Stripe checkout; webhooks keep the rows of the    *)
(* subscriptions and the practice's activeSubscriptionId, the pointer, in  *)
(* step with Stripe.  When two subscriptions meet one of them is canceled. *)
(*                                                                         *)
(* Requests and webhook jobs interleave at every step between a read and   *)
(* the transaction that uses it.  Events are delivered in any order, more  *)
(* than once (a job that fails after its transaction is run again), late   *)
(* or never.  One plan of one practice is followed.                        *)
(***************************************************************************)
EXTENDS Naturals, FiniteSets

CONSTANTS Subs,      \* ids of subscription rows
          Requests,  \* runs of createCheckoutSession
          Jobs,      \* runs of handleSubscriptionEvent
          Initial,   \* statuses in which Stripe starts a subscription
          Changes,   \* the changes of status it makes later, as pairs
          None

Entitled    == {"active", "past_due"}    \* active stands for trialing, too
Live        == Entitled \cup {"incomplete", "unpaid"}
Statuses    == Live \cup {"canceled"}
RowStates   == Statuses \cup {"absent", "deleted"}

ASSUME SubsAssumption ==
    /\ None \notin Subs
    /\ Initial \subseteq {"incomplete", "active"}
    /\ Changes \subseteq Live \X Live

VARIABLES pointer,    \* organizations.activeSubscriptionId
          rows,       \* status of each row
          stripe,     \* each subscription at Stripe, from its checkout on
          before,     \* what had started at Stripe when a row was inserted
          events,     \* events Stripe has sent
          audited,    \* rows with a 'created' subscription event and a Stripe id
          announced,  \* SubscriptionCreated events stored, by subscription
          requests,   \* what each request does
          jobs        \* what each job does

practice == <<pointer, rows, before, audited, announced>>
vars == <<practice, stripe, events, requests, jobs>>

Events ==
    [type : {"created", "updated"}, sub : Subs, status : Live]
    \cup [type : {"completed", "deleted"}, sub : Subs]

Idle == [at |-> "idle"]

RequestSteps ==
    {Idle} \cup [at : {"find", "insert"}]
    \cup [at : {"session"}, sub : Subs, isNew : BOOLEAN]

JobSteps ==
    {Idle}
    \cup [at : {"commit"}, sub : Subs, status : Statuses,
            old : Subs \cup {None}, known : BOOLEAN]
    \cup [at : {"after"}, sub : Subs, old : Subs \cup {None}, first : BOOLEAN]

TypeOK ==
    /\ pointer \in Subs \cup {None}
    /\ rows \in [Subs -> RowStates]
    /\ stripe \in [Subs -> Statuses \cup {"none", "session"}]
    /\ before \in [Subs -> SUBSET Subs]
    /\ events \subseteq Events
    /\ audited \subseteq Subs
    /\ announced \in [Subs -> Nat]
    /\ requests \in [Requests -> RequestSteps]
    /\ jobs \in [Jobs -> JobSteps]

Init ==
    /\ pointer = None
    /\ rows = [s \in Subs |-> "absent"]
    /\ stripe = [s \in Subs |-> "none"]
    /\ before = [s \in Subs |-> {}]
    /\ events = {}
    /\ audited = {}
    /\ announced = [s \in Subs |-> 0]
    /\ requests = [r \in Requests |-> Idle]
    /\ jobs = [j \in Jobs |-> Idle]

Exists(s)   == rows[s] \notin {"absent", "deleted"}
Started     == {s \in Subs : stripe[s] \in Statuses}
Step(r, st) == requests' = [requests EXCEPT ![r] = st]

\* Mutant: a job takes its next step with what it knew before.
GoStale(j, st) == jobs' = [jobs EXCEPT ![j].at = st.at]

Go(j, st)   == jobs' = [jobs EXCEPT ![j] = st]

-----------------------------------------------------------------------------
(* createCheckoutSession.                                                  *)

\* The guard against a second subscription; past_due does not count.
Checkout(r) ==
    /\ requests[r] = Idle
    /\ pointer # None => rows[pointer] # "active"
    /\ Step(r, [at |-> "find"])
    /\ UNCHANGED <<practice, stripe, events, jobs>>

Incomplete == {s \in Subs : rows[s] = "incomplete"}

\* Look for an incomplete row of the plan ...
FindRow(r) ==
    /\ requests[r].at = "find"
    /\ IF Incomplete # {}
       THEN \E s \in Incomplete : Step(r, [at |-> "session", sub |-> s, isNew |-> FALSE])
       ELSE Step(r, [at |-> "insert"])
    /\ UNCHANGED <<practice, stripe, events, jobs>>

\* ... and insert one: two requests may both find none.
InsertRow(r) ==
    /\ requests[r].at = "insert"
    /\ \E s \in Subs :
          /\ rows[s] = "absent"
          /\ rows' = [rows EXCEPT ![s] = "incomplete"]
          /\ before' = [before EXCEPT ![s] = Started]
          /\ Step(r, [at |-> "session", sub |-> s, isNew |-> TRUE])
    /\ UNCHANGED <<pointer, audited, announced, stripe, events, jobs>>

\* One session per row: the idempotency key names the row.
SessionFor(s) ==
    IF stripe[s] = "none" THEN [stripe EXCEPT ![s] = "session"] ELSE stripe

OpenSession(r) ==
    /\ requests[r].at = "session"
    /\ stripe' = SessionFor(requests[r].sub)
    /\ Step(r, Idle)
    /\ UNCHANGED <<practice, events, jobs>>

\* The call fails, or its answer is lost: a request takes back the row it has
\* inserted, also from a request that has found it since.
SessionFails(r) ==
    LET op == requests[r] IN
    /\ op.at = "session"
    /\ stripe' \in {stripe, SessionFor(op.sub)}
    /\ rows' = IF op.isNew THEN [rows EXCEPT ![op.sub] = "deleted"] ELSE rows
    /\ Step(r, Idle)
    /\ UNCHANGED <<pointer, before, audited, announced, events, jobs>>

-----------------------------------------------------------------------------
(* Stripe.                                                                 *)

Becomes(s, status, told) ==
    /\ stripe' = [stripe EXCEPT ![s] = status]
    /\ events' = events \cup told
                 \cup (IF status = "active"
                       THEN {[type |-> "completed", sub |-> s]} ELSE {})
    /\ UNCHANGED <<practice, requests, jobs>>

Subscribe(s) ==
    /\ stripe[s] = "session"
    /\ \E status \in Initial :
          Becomes(s, status, {[type |-> "created", sub |-> s, status |-> status]})

Change(s, status) ==
    /\ <<stripe[s], status>> \in Changes
    /\ Becomes(s, status, {[type |-> "updated", sub |-> s, status |-> status]})

Ended(s) == {[type |-> "deleted", sub |-> s]}

\* In the billing portal, or by Stripe after failed payments.
Cancel(s) ==
    /\ stripe[s] \in Live
    /\ Becomes(s, "canceled", Ended(s))

-----------------------------------------------------------------------------
(* Webhook jobs: customer.subscription.updated and .deleted.               *)
(* The row is looked up just before the transaction; that a failing        *)
(* checkout deletes it in between is left out.                             *)

\* A status that arrives for a row; nothing for a row that is gone.
Put(s, status) == IF Exists(s) THEN [rows EXCEPT ![s] = status] ELSE rows

\* Mutant: the pointer is cleared whatever it names.
ClearedAlways(s) == None

\* Cleared only if it still points to this subscription.
Cleared(s) == IF pointer = s THEN None ELSE pointer

\* Claimed only if not owned by a different subscription.
Claimed(s) == IF pointer = None THEN s ELSE pointer

Updated(e) ==
    /\ e.type = "updated"
    /\ Exists(e.sub)
    /\ pointer' = IF e.status \in Entitled THEN Claimed(e.sub) ELSE Cleared(e.sub)
    /\ rows' = Put(e.sub, e.status)
    /\ UNCHANGED <<before, audited, announced, stripe, events, requests, jobs>>

Deleted(e) ==
    /\ e.type = "deleted"
    /\ Exists(e.sub)
    /\ pointer' = Cleared(e.sub)
    /\ rows' = Put(e.sub, "canceled")
    /\ UNCHANGED <<before, audited, announced, stripe, events, requests, jobs>>

-----------------------------------------------------------------------------
(* checkout.session.completed and customer.subscription.created:           *)
(* syncSubscriptionToOrg.                                                  *)

\* The pointer and the row it names are read without a lock.
Other(s) == IF pointer \notin {None, s} /\ Exists(pointer) THEN pointer ELSE None

\* A completed session asks Stripe for the subscription as it is now, a created
\* event tells its status of then, as late as the other's may be when it is used.
Start(j, e) ==
    /\ jobs[j] = Idle
    /\ e.type \in {"created", "completed"}
    /\ Exists(e.sub)
    /\ Go(j, [at |-> "commit", sub |-> e.sub,
              status |-> IF e.type = "created" THEN e.status ELSE stripe[e.sub],
              old |-> Other(e.sub), known |-> Other(e.sub) \in audited])
    /\ UNCHANGED <<practice, stripe, events, requests>>

\* Stripe's time of the incoming one against the time of the other's row.
Older(s, old) == old # None /\ s \in before[old]

\* The incoming subscription is older: it is canceled, and nothing else.
Lose(j) ==
    LET op == jobs[j] IN
    /\ op.at = "commit"
    /\ Older(op.sub, op.old)
    /\ rows' = Put(op.sub, "canceled")
    /\ Go(j, [at |-> "after", sub |-> op.sub, old |-> op.sub, first |-> FALSE])
    /\ UNCHANGED <<pointer, before, audited, announced, stripe, events, requests>>

\* Mutant: the 'created' events are read before the practice's row is locked.
FirstByPointer(s) == pointer # s

\* No 'created' event yet, read once the practice's row is locked.
First(s) == s \notin audited

\* An old row read before its Stripe id was known is not canceled at Stripe.
Displaced(op) == IF op.known THEN op.old ELSE None

Commit(j) ==
    LET op == jobs[j] IN
    /\ op.at = "commit"
    /\ ~Older(op.sub, op.old)
    /\ Exists(op.sub)          \* else its subscription event has no row to refer to
    /\ pointer' = op.sub
    /\ rows' = [s \in Subs |->
                   IF s = op.sub THEN op.status
                   ELSE IF s = op.old /\ Exists(s) THEN "canceled"
                   ELSE rows[s]]
    /\ audited' = audited \cup {op.sub}
    /\ Go(j, [at |-> "after", sub |-> op.sub, old |-> Displaced(op), first |-> First(op.sub)])
    /\ UNCHANGED <<before, announced, stripe, events, requests>>

\* After the transaction: the cancellation at Stripe, whose failure is logged,
\* and SubscriptionCreated, whose failure ends the job.  Attaching the metered
\* prices changes nothing here.
After(j) ==
    LET op == jobs[j] IN
    /\ op.at = "after"
    /\ \/ /\ op.old # None /\ stripe[op.old] \in Live
          /\ stripe' = [stripe EXCEPT ![op.old] = "canceled"]
          /\ events' = events \cup Ended(op.old)
       \/ UNCHANGED <<stripe, events>>
    /\ announced' \in {announced, [announced EXCEPT ![op.sub] = @ + (IF op.first THEN 1 ELSE 0)]}
    /\ Go(j, Idle)
    /\ UNCHANGED <<pointer, rows, before, audited, requests>>

\* An exception, a deadlock or a crash: transactions roll back, what follows one
\* is not done.
JobFails(j) ==
    /\ jobs[j] # Idle
    /\ Go(j, Idle)
    /\ UNCHANGED <<practice, stripe, events, requests>>

-----------------------------------------------------------------------------
Request(r) ==
    Checkout(r) \/ FindRow(r) \/ InsertRow(r) \/ OpenSession(r) \/ SessionFails(r)

AtStripe(s) ==
    \/ Subscribe(s) \/ Cancel(s)
    \/ \E status \in Live : Change(s, status)

Job(j) ==
    \/ \E e \in events : Start(j, e)
    \/ Lose(j) \/ Commit(j)
    \/ After(j) \/ JobFails(j)

Next ==
    \/ \E r \in Requests : Request(r)
    \/ \E s \in Subs : AtStripe(s)
    \/ \E e \in events : Updated(e) \/ Deleted(e)
    \/ \E j \in Jobs : Job(j)

Spec == Init /\ [][Next]_vars

-----------------------------------------------------------------------------
(* Properties.                                                             *)

\* SubscriptionCreated is stored at most once for a subscription, though its
\* created event and its completed session both start syncSubscriptionToOrg,
\* at the same time and again after failures.
AnnouncedOnce == \A s \in Subs : announced[s] <= 1

\* A practice loses its pointer only with the subscription it names: no late
\* event of another one, canceled long ago, takes the entitlement away.  And the
\* pointer moves to another subscription only if Stripe has started that one and
\* a sync has made its Stripe id known, so that it can be canceled in its turn.
PointerHeld ==
    [][pointer # None =>
          \/ pointer' = pointer
          \/ pointer' = None /\ rows'[pointer] \notin Entitled
          \/ pointer' \in audited' /\ pointer' \in Started]_vars
=============================================================================
