--------------------------- MODULE IntakeConversion ---------------------------
(***************************************************************************)
(* How an intake becomes a matter (src/modules/practice-client-intakes,    *)
(* src/modules/engagement-contracts).  The client pays the consultation    *)
(* fee at Stripe, by the payment link or in a checkout session; webhooks   *)
(* settle the intake.  Staff triage it, and either convert it or have an   *)
(* engagement contract accepted; both make a matter.  Intakes link the     *)
(* client of the ClientDirectory when they are accepted and when they are  *)
(* paid.                                                                   *)
(*                                                                         *)
(* A request checks what it reads and writes in a later transaction: its   *)
(* op is the step between.  Webhooks come in any order and any number of   *)
(* times.                                                                  *)
(***************************************************************************)
EXTENDS ClientDirectory

CONSTANTS Intake,      \* the intake followed here, one of the user's
          Intents,     \* payment intents of its link and its sessions
          Contracts,   \* ids of engagement contracts
          Matters,     \* ids of matters
          Requests     \* HTTP requests and webhook jobs

ASSUME ConversionAssumption ==
    /\ Intake \in Intakes
    /\ None \notin Intents \cup Contracts \cup Matters
    /\ "intake" \notin Contracts \cup {None}

VARIABLES intake,      \* its row
          intents,     \* the payment intents at Stripe
          inbox,       \* webhooks that may still be delivered
          announced,   \* IntakePaymentSucceeded events stored
          metered,     \* the fee is reported, under the intake's id
          decided,     \* triage has accepted the intake at some time
          contracts,   \* rows of engagement_contracts
          matters,     \* what each matter was made from
          op           \* what each request does

payment    == <<intents, inbox, announced, metered>>
engagement == <<contracts, matters>>
vars == <<intake, payment, decided, engagement, op, directory>>

Statuses == {"open", "succeeded", "failed", "canceled", "converted"}
Triages  == {"pending_review", "accepted", "declined"}

\* What a webhook tells of the payment; which of the intake's intents or
\* sessions it is about makes no difference to its handler.
Events == {"succeeded", "payment_failed", "canceled", "session_completed"}

ContractStates == {"absent", "draft", "sent", "accepted", "declined"}

Idle == [at |-> "idle"]
Ops  == {Idle}
        \cup [at : {"checkout", "settle", "fee", "reopen", "convert", "create"}]
        \cup [at : {"send", "accept", "decline"}, contract : Contracts]

TypeOK ==
    /\ intake \in [status : Statuses, free : BOOLEAN, triage : Triages]
    /\ intents \in [Intents -> {"absent", "open", "paid", "canceled"}]
    /\ inbox \subseteq Events
    /\ announced \in Nat
    /\ metered \in BOOLEAN
    /\ decided \in BOOLEAN
    /\ contracts \in [Contracts -> [status : ContractStates, matter : Matters \cup {None}]]
    /\ matters \in [Matters -> {None, "intake"} \cup Contracts]
    /\ op \in [Requests -> Ops]
    /\ DirectoryTypeOK

\* createIntake: free intakes are complete at once, the others have a payment
\* link, whose intent is the first.
Init ==
    /\ \/ /\ intake = [status |-> "succeeded", free |-> TRUE, triage |-> "pending_review"]
          /\ intents = [n \in Intents |-> "absent"]
       \/ /\ intake = [status |-> "open", free |-> FALSE, triage |-> "pending_review"]
          /\ \E link \in Intents :
                intents = [n \in Intents |-> IF n = link THEN "open" ELSE "absent"]
    /\ inbox = {}
    /\ announced = 0
    /\ metered = FALSE
    /\ decided = FALSE
    /\ contracts = [c \in Contracts |-> [status |-> "absent", matter |-> None]]
    /\ matters = [m \in Matters |-> None]
    /\ op = [r \in Requests |-> Idle]
    /\ DirectoryInit

Begin(r, step) == op[r] = Idle /\ op' = [op EXCEPT ![r] = step]

End(r) == op' = [op EXCEPT ![r] = Idle]

\* Mutant: the row is replaced by what is to be changed of it.
Replaced(s) == intake' = [status |-> s]

SetStatus(s) == intake' = [intake EXCEPT !.status = s]

-----------------------------------------------------------------------------
(* Stripe.                                                                 *)

\* The payment, which also completes the session of the link or the checkout.
Pay(n) ==
    /\ intents[n] = "open"
    /\ intents' = [intents EXCEPT ![n] = "paid"]
    /\ inbox' = inbox \cup {"succeeded", "session_completed"}
    /\ UNCHANGED <<intake, announced, metered, decided, engagement, op, directory>>

\* A declined card: the client may try again on the same intent.
FailPayment(n) ==
    /\ intents[n] = "open"
    /\ inbox' = inbox \cup {"payment_failed"}
    /\ UNCHANGED <<intake, intents, announced, metered, decided, engagement, op, directory>>

CancelPayment(n) ==
    /\ intents[n] = "open"
    /\ intents' = [intents EXCEPT ![n] = "canceled"]
    /\ inbox' = inbox \cup {"canceled"}
    /\ UNCHANGED <<intake, announced, metered, decided, engagement, op, directory>>

\* createCheckoutSession: only for an open intake; a session of its own at
\* Stripe beside the payment link.  An open session is answered again.
CheckOut(r) ==
    /\ intake.status = "open"
    /\ Begin(r, [at |-> "checkout"])
    /\ UNCHANGED <<intake, payment, decided, engagement, directory>>

OpenSession(r) ==
    /\ op[r].at = "checkout"
    /\ \/ \E n \in Intents :
             /\ intents[n] = "absent"
             /\ intents' = [intents EXCEPT ![n] = "open"]
       \/ UNCHANGED intents
    /\ End(r)
    /\ UNCHANGED <<intake, inbox, announced, metered, decided, engagement, directory>>

-----------------------------------------------------------------------------
(* Webhooks.  An event stays in the inbox: it may be delivered again.      *)

Terminal == {"succeeded", "failed", "canceled", "converted"}

\* WHERE status = 'open', in the three payment handlers.
Settleable == intake.status = "open"

\* handlePracticeClientIntakeSucceeded: nothing to do for a succeeded intake.
Succeeded(r) ==
    /\ "succeeded" \in inbox
    /\ intake.status # "succeeded"
    /\ Begin(r, [at |-> "settle"])
    /\ UNCHANGED <<intake, payment, decided, engagement, directory>>

\* Mutant: the event is stored whether or not a row was updated.
AnnouncedAlways == announced + 1

\* The event is stored only with the row that changes.
Announced == IF Settleable THEN announced + 1 ELSE announced

Settle(r) ==
    /\ op[r].at = "settle"
    /\ announced' = Announced
    /\ IF Settleable THEN SetStatus("succeeded") ELSE UNCHANGED intake
    /\ op' = [op EXCEPT ![r] = [at |-> "fee"]]
    /\ UNCHANGED <<intents, inbox, metered, decided, engagement, directory>>

\* The fee follows the transaction; its failure is swallowed.
ReportFee(r) ==
    /\ op[r].at = "fee"
    /\ metered' \in {metered, TRUE}
    /\ End(r)
    /\ UNCHANGED <<intake, intents, inbox, announced, decided, engagement, directory>>

\* handlePracticeClientIntakeFailed and ...Canceled.
PaymentEnded(type, status) ==
    /\ type \in inbox
    /\ Settleable
    /\ SetStatus(status)
    /\ UNCHANGED <<payment, decided, engagement, op, directory>>

\* handlePracticeClientIntakeCheckoutSessionCompleted: reads first.
SessionCompleted(r) ==
    /\ "session_completed" \in inbox
    /\ intake.status \notin Terminal
    /\ Begin(r, [at |-> "reopen"])
    /\ UNCHANGED <<intake, payment, decided, engagement, directory>>

\* Mutant: the UPDATE trusts the status read before.
ReopenableUnchecked == TRUE

\* The condition of its UPDATE.
Reopenable == intake.status \notin Terminal

Reopen(r) ==
    /\ op[r].at = "reopen"
    /\ IF Reopenable THEN SetStatus("open") ELSE UNCHANGED intake
    /\ End(r)
    /\ UNCHANGED <<payment, decided, engagement, directory>>

-----------------------------------------------------------------------------
(* Staff: triage and conversion.                                           *)

\* updateTriageStatus.
Triage(t) ==
    /\ intake' = [intake EXCEPT !.triage = t]
    /\ decided' = (decided \/ t = "accepted")
    /\ UNCHANGED <<payment, engagement, op, directory>>

\* The listener of IntakeTriaged, for an acceptance of this intake that may be
\* long past, or for another intake of the user.
LinkAccepted(i) ==
    /\ i = Intake => decided
    /\ Find(i)
    /\ UNCHANGED <<intake, payment, decided, engagement, op>>

\* The directory's listener of IntakePaymentSucceeded, which asks no triage; the
\* event may be long past too.
LinkPaid ==
    /\ announced > 0
    /\ Find(Intake)
    /\ UNCHANGED <<intake, payment, decided, engagement, op>>

\* Mutant: the triage is not asked for.
ConvertibleUntriaged == intake.status = "succeeded"

Convertible == intake.status = "succeeded" /\ intake.triage = "accepted"

\* convertIntake, the checks; a converted intake is answered from its matter.
Convert(r) ==
    /\ Convertible
    /\ Begin(r, [at |-> "convert"])
    /\ UNCHANGED <<intake, payment, decided, engagement, directory>>

\* A new matter; whether the intake has one already is not asked.
MatterFrom(m, origin) ==
    /\ matters[m] = None
    /\ matters' = [matters EXCEPT ![m] = origin]

\* createMatterFromIntake and updateStatus, in one transaction.
MakeMatter(r) ==
    /\ op[r].at = "convert"
    /\ \E m \in Matters : MatterFrom(m, "intake")
    /\ SetStatus("converted")
    /\ End(r)
    /\ UNCHANGED <<payment, decided, contracts, directory>>

-----------------------------------------------------------------------------
(* Engagement contracts.                                                   *)

Accepted == {c \in Contracts : contracts[c].status = "accepted"}

\* createEngagementContract, the checks.
Draft(r) ==
    /\ intake.triage = "accepted"
    /\ Accepted = {}
    /\ Begin(r, [at |-> "create"])
    /\ UNCHANGED <<intake, payment, decided, engagement, directory>>

InsertDraft(r) ==
    /\ op[r].at = "create"
    /\ \E c \in Contracts :
          /\ contracts[c].status = "absent"
          /\ contracts' = [contracts EXCEPT ![c].status = "draft"]
    /\ End(r)
    /\ UNCHANGED <<intake, payment, decided, matters, directory>>

\* The checks of send, accept and decline.
Open(r, c, step, status) ==
    /\ contracts[c].status = status
    /\ Begin(r, [at |-> step, contract |-> c])
    /\ UNCHANGED <<intake, payment, decided, engagement, directory>>

\* send and decline write without repeating the check.
Write(r, step, status) ==
    /\ op[r].at = step
    /\ contracts' = [contracts EXCEPT ![op[r].contract].status = status]
    /\ End(r)
    /\ UNCHANGED <<intake, payment, decided, matters, directory>>

\* Mutant: no unique index on accepted contracts of an intake.
AcceptableTwice(c) == TRUE

\* The unique index.
Acceptable(c) == Accepted \subseteq {c}

Signed(c, m) == [contracts EXCEPT ![c] = [status |-> "accepted", matter |-> m]]

\* acceptEngagementContract after the PDF: matter and contract in one
\* transaction, without repeating the check.
Accept(r) ==
    LET c == op[r].contract IN
    /\ op[r].at = "accept"
    /\ Acceptable(c)
    /\ \E m \in Matters : MatterFrom(m, c) /\ contracts' = Signed(c, m)
    /\ End(r)
    /\ UNCHANGED <<intake, payment, decided, directory>>

\* The PDF fails, or the index refuses the contract.
AcceptFails(r) ==
    /\ op[r].at = "accept"
    /\ End(r)
    /\ UNCHANGED <<intake, payment, decided, engagement, directory>>

-----------------------------------------------------------------------------
Stripe == \E n \in Intents : Pay(n) \/ FailPayment(n) \/ CancelPayment(n)

Webhook(r) ==
    \/ Succeeded(r) \/ SessionCompleted(r)
    \/ Settle(r) \/ ReportFee(r) \/ Reopen(r)

Contract(r) ==
    \/ \E c \in Contracts :
          \/ Open(r, c, "send", "draft")
          \/ Open(r, c, "accept", "sent")
          \/ Open(r, c, "decline", "sent")
    \/ Draft(r) \/ InsertDraft(r) \/ Accept(r) \/ AcceptFails(r)
    \/ Write(r, "send", "sent")
    \/ Write(r, "decline", "declined")

Request(r) ==
    \/ CheckOut(r) \/ OpenSession(r)
    \/ Convert(r) \/ MakeMatter(r)

Next ==
    \/ Stripe
    \/ PaymentEnded("payment_failed", "failed")
    \/ PaymentEnded("canceled", "canceled")
    \/ \E t \in {"accepted", "declined"} : Triage(t)
    \/ \E r \in Requests : Webhook(r) \/ Request(r) \/ Contract(r)
    \/ \E i \in Intakes : LinkAccepted(i)
    \/ LinkPaid
    \/ DirectoryNext /\ UNCHANGED <<intake, payment, decided, engagement, op>>

Spec == Init /\ [][Next]_vars

-----------------------------------------------------------------------------
(* Properties.                                                             *)

Complete == intake.status \in {"succeeded", "converted"}
Paid     == \E n \in Intents : intents[n] = "paid"

\* An intake with a fee is complete, and its fee reported, only when the client
\* has paid; its IntakePaymentSucceeded is stored exactly once, whatever order
\* its webhooks come in and however often.
PaidAndTold ==
    /\ Complete => intake.free \/ Paid
    /\ metered => Paid
    /\ announced = IF Complete /\ ~intake.free THEN 1 ELSE 0

\* A matter is made only after the practice has accepted the intake at some
\* time.  An intake is converted exactly when a matter was made from it by
\* conversion.
MattersEarned ==
    /\ (\E m \in Matters : matters[m] # None) => decided
    /\ (intake.status = "converted") <=> (\E m \in Matters : matters[m] = "intake")

\* The client is bound by one contract of the intake at most, and that contract
\* names a matter that was made from it, though requests accept and decline
\* contracts they have read before.
OneSignature ==
    \A c \in Accepted :
       /\ Accepted = {c}
       /\ contracts[c].matter # None
       /\ matters[contracts[c].matter] = c

\* No webhook, late or repeated, and no request moves an intake away from the
\* end of its payment, but to convert it.
SettledStays ==
    [][intake.status \in Terminal =>
          intake'.status \in {intake.status}
                            \cup (IF intake.status = "succeeded" THEN {"converted"} ELSE {})]_vars

\* The intake that first links a client stays the one: another intake whose
\* acceptance or payment found the row unlinked does not overwrite it.
LinkKept == [][client.intake # None => client'.intake = client.intake]_vars
=============================================================================
