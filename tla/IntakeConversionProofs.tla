------------------------- MODULE IntakeConversionProofs -------------------------
(* Proofs about IntakeConversion and the ClientDirectory, for any number of *)
(* payment intents, contracts, matters, intakes and requests.               *)
EXTENDS IntakeConversion, TLAPS

\* What a request has seen before its next step, and what stays true of it.
OpGood(o) ==
    /\ o.at \in {"settle", "fee"} => Paid
    /\ o.at = "convert" => Complete /\ decided
    /\ o.at = "create" => decided
    /\ o.at \in {"send", "accept", "decline"} => contracts[o.contract].status # "absent"

Seen == \A r \in Requests : OpGood(op[r])

PayInv ==
    /\ PaidAndTold
    /\ intake.free => Complete
    /\ "succeeded" \in inbox => Paid

MatterInv ==
    /\ MattersEarned
    /\ intake.triage = "accepted" => decided
    /\ \A c \in Contracts : contracts[c].status # "absent" => decided

IntakeType == intake \in [status : Statuses, free : BOOLEAN, triage : Triages]
PaymentType ==
    /\ intents \in [Intents -> {"absent", "open", "paid", "canceled"}]
    /\ inbox \subseteq Events
    /\ announced \in Nat
    /\ metered \in BOOLEAN
ContractRows == [status : ContractStates, matter : Matters \cup {None}]
EngagementType ==
    /\ contracts \in [Contracts -> ContractRows]
    /\ matters \in [Matters -> {None, "intake"} \cup Contracts]
OpType == op \in [Requests -> Ops]

CoreType == IntakeType /\ PaymentType /\ decided \in BOOLEAN /\ EngagementType /\ OpType

Core == CoreType /\ PayInv /\ MatterInv /\ OneSignature /\ Seen

LinkInv == DirectoryTypeOK /\ (client.row = "absent" => client.intake = None)

SettledStep ==
    intake.status \in Terminal =>
       intake'.status \in {intake.status}
                         \cup (IF intake.status = "succeeded" THEN {"converted"} ELSE {})

LinkStep == client.intake # None => client'.intake = client.intake

LEMMA TypeParts == TypeOK <=> CoreType /\ DirectoryTypeOK
  BY DEF TypeOK, CoreType, IntakeType, PaymentType, EngagementType, ContractRows, OpType

-----------------------------------------------------------------------------
(* The directory.                                                          *)

LEMMA LinkInit == Init => LinkInv
  BY DEF Init, DirectoryInit, LinkInv, DirectoryTypeOK, Rows

LEMMA DirectoryStep ==
    ASSUME LinkInv,
           \/ DirectoryNext
           \/ \E i \in Intakes : Find(i)
           \/ UNCHANGED directory
    PROVE  LinkInv' /\ LinkStep
<1>0. client \in Rows /\ linking \in [Intakes -> {"idle", "link", "create"}]
  BY DEF LinkInv, DirectoryTypeOK
<1>1. ASSUME NEW i \in Intakes, LinkRow(i) \/ CreateLinked(i)
      PROVE  LinkInv' /\ LinkStep
  <2>1. linking' \in [Intakes -> {"idle", "link", "create"}]
    BY <1>0, <1>1 DEF LinkRow, CreateLinked, Linking
  <2>2. client' \in Rows /\ (client'.row = "absent" => client'.intake = None)
    BY <1>0, <1>1 DEF LinkRow, CreateLinked, Linkable, Rows, LinkInv
  <2>3. LinkStep
    BY <1>0, <1>1 DEF LinkRow, CreateLinked, Linkable, Rows, LinkInv, LinkStep
  <2> QED
    BY <2>1, <2>2, <2>3 DEF LinkInv, DirectoryTypeOK
<1>2. CASE CreateClient \/ DeleteClient
  BY <1>0, <1>2
     DEF CreateClient, DeleteClient, LinkInv, LinkStep, DirectoryTypeOK, Rows
<1>3. ASSUME NEW i \in Intakes, Find(i)
      PROVE  LinkInv' /\ LinkStep
  BY <1>0, <1>3 DEF Find, Linking, LinkInv, LinkStep, DirectoryTypeOK
<1>4. CASE UNCHANGED directory
  BY <1>4 DEF directory, LinkInv, LinkStep, DirectoryTypeOK
<1> QED
  BY <1>1, <1>2, <1>3, <1>4 DEF DirectoryNext

-----------------------------------------------------------------------------
(* The parts of a step.                                                    *)

LEMMA OpFields ==
    ASSUME NEW o \in Ops, o.at \in {"send", "accept", "decline"}
    PROVE  o.contract \in Contracts
  BY DEF Ops, Idle

LEMMA IdleOp == Idle \in Ops /\ Idle.at = "idle" /\ OpGood(Idle)
  BY DEF Idle, Ops, OpGood

\* A request moves; what the others have seen is still true.
LEMMA OpMoves ==
    ASSUME Core, NEW r \in Requests, NEW o \in Ops, op' = [op EXCEPT ![r] = o], OpGood(o)',
           Paid => Paid', Complete => Complete', decided => decided',
           \A c \in Contracts : contracts[c].status # "absent" => contracts'[c].status # "absent"
    PROVE  OpType' /\ Seen'
<1>1. op \in [Requests -> Ops] /\ \A q \in Requests : OpGood(op[q])
  BY DEF Core, CoreType, OpType, Seen
<1>2. OpType'
  BY <1>1 DEF OpType
<1>3. ASSUME NEW q \in Requests PROVE OpGood(op[q])'
  <2>1. CASE q = r
    <3>1. op'[q] = o
      BY <1>1, <2>1
    <3> QED
      BY <3>1 DEF OpGood
  <2>2. CASE q # r
    <3>1. op'[q] = op[q] /\ op[q] \in Ops
      BY <1>1, <2>2
    <3> QED
      BY <1>1, <3>1, OpFields DEF OpGood
  <2> QED
    BY <2>1, <2>2
<1> QED
  BY <1>2, <1>3 DEF Seen

LEMMA OpsStay ==
    ASSUME Core, op' = op,
           Paid => Paid', Complete => Complete', decided => decided',
           \A c \in Contracts : contracts[c].status # "absent" => contracts'[c].status # "absent"
    PROVE  OpType' /\ Seen'
<1>1. op \in [Requests -> Ops] /\ \A q \in Requests : OpGood(op[q])
  BY DEF Core, CoreType, OpType, Seen
<1>2. ASSUME NEW q \in Requests PROVE OpGood(op[q])'
  <2>1. op'[q] = op[q] /\ op[q] \in Ops
    BY <1>1
  <2> QED
    BY <1>1, <2>1, OpFields DEF OpGood
<1> QED
  BY <1>1, <1>2 DEF Seen, OpType

\* A status that is set.
LEMMA StatusSet ==
    ASSUME IntakeType, NEW s \in Statuses, SetStatus(s)
    PROVE  /\ IntakeType'
           /\ intake'.status = s /\ intake'.free = intake.free
           /\ intake'.triage = intake.triage
  BY DEF IntakeType, SetStatus

\* A step of one request that leaves the rows and the payment alone.
LEMMA OnlyOp ==
    ASSUME Core, NEW r \in Requests, NEW o \in Ops, op' = [op EXCEPT ![r] = o], OpGood(o),
           UNCHANGED <<intake, payment, decided, engagement>>
    PROVE  Core' /\ SettledStep
<1>1. UNCHANGED <<intake, intents, inbox, announced, metered, decided, contracts, matters>>
  BY DEF payment, engagement
<1>2. OpGood(o)'
  BY <1>1 DEF OpGood, Paid, Complete
<1>3. OpType' /\ Seen'
  <2>1. (Paid => Paid') /\ (Complete => Complete') /\ (decided => decided')
    BY <1>1 DEF Paid, Complete
  <2> QED
    BY <1>1, <1>2, <2>1, OpMoves
<1>4. CoreType'
  BY <1>1, <1>3 DEF Core, CoreType, IntakeType, PaymentType, EngagementType
<1>5. PayInv' /\ MatterInv' /\ OneSignature'
  BY <1>1 DEF Core, PayInv, PaidAndTold, Complete, Paid, MatterInv, MattersEarned,
              OneSignature, Accepted
<1> QED
  BY <1>1, <1>3, <1>4, <1>5 DEF Core, SettledStep

LEMMA Beginning ==
    ASSUME Core, NEW r \in Requests, NEW o \in Ops, Begin(r, o), OpGood(o),
           UNCHANGED <<intake, payment, decided, engagement>>
    PROVE  Core' /\ SettledStep
  BY OnlyOp DEF Begin

-----------------------------------------------------------------------------
(* Stripe and the payment.                                                 *)

\* Payments only add; the rows of the intake and of its engagement stay.
LEMMA Payments ==
    ASSUME Core, PaymentType', OpType', Seen', Paid => Paid',
           "succeeded" \in inbox' => Paid', metered' => Paid', announced' = announced,
           UNCHANGED <<intake, decided, engagement>>
    PROVE  Core' /\ SettledStep
<1>1. UNCHANGED <<intake, decided, contracts, matters>>
  BY DEF engagement
<1>2. CoreType'
  BY <1>1 DEF Core, CoreType, IntakeType, EngagementType
<1>3. PayInv'
  BY <1>1 DEF Core, PayInv, PaidAndTold, Complete
<1>4. MatterInv' /\ OneSignature'
  BY <1>1 DEF Core, MatterInv, MattersEarned, OneSignature, Accepted
<1> QED
  BY <1>1, <1>2, <1>3, <1>4 DEF Core, SettledStep

LEMMA StripeStep ==
    ASSUME Core, Stripe
    PROVE  Core' /\ SettledStep
<1>0. PaymentType /\ PayInv
  BY DEF Core, CoreType
<1> PICK n \in Intents : Pay(n) \/ FailPayment(n) \/ CancelPayment(n)
  BY DEF Stripe
<1>1. UNCHANGED <<intake, announced, metered, decided, engagement, op>>
  BY DEF Pay, FailPayment, CancelPayment
<1>2. PaymentType'
  BY <1>0, <1>1 DEF Pay, FailPayment, CancelPayment, PaymentType, Events
<1>3. Paid => Paid'
  BY <1>0 DEF Pay, FailPayment, CancelPayment, PaymentType, Paid
<1>4. "succeeded" \in inbox' => Paid'
  BY <1>0, <1>3 DEF Pay, FailPayment, CancelPayment, PaymentType, PayInv, Paid
<1>5. OpType' /\ Seen'
  BY <1>1, <1>3, OpsStay DEF Complete, engagement
<1>6. metered' => Paid'
  BY <1>0, <1>1, <1>3 DEF PayInv, PaidAndTold
<1> QED
  BY <1>1, <1>2, <1>3, <1>4, <1>5, <1>6, Payments

LEMMA SessionStep ==
    ASSUME Core, NEW r \in Requests, OpenSession(r) \/ ReportFee(r)
    PROVE  Core' /\ SettledStep
<1>0. PaymentType /\ PayInv
  BY DEF Core, CoreType
<1>1. UNCHANGED <<intake, inbox, announced, decided, engagement>> /\ op' = [op EXCEPT ![r] = Idle]
  BY DEF OpenSession, ReportFee, End
<1>2. PaymentType' /\ (Paid => Paid')
  BY <1>0, <1>1 DEF OpenSession, ReportFee, PaymentType, Paid
<1>3. metered' => Paid'
  <2>1. op[r].at = "fee" => Paid
    BY DEF Core, Seen, OpGood
  <2> QED
    BY <1>0, <1>2, <2>1 DEF OpenSession, ReportFee, PayInv, PaidAndTold
<1>4. OpGood(Idle)'
  BY DEF OpGood, Idle
<1>5. OpType' /\ Seen'
  BY <1>1, <1>2, <1>4, IdleOp, OpMoves DEF Complete, engagement
<1> QED
  BY <1>0, <1>1, <1>2, <1>3, <1>5, Payments DEF PayInv

\* An open intake is ended, or stays as it is.
LEMMA Settling ==
    ASSUME Core, OpType', Seen', IntakeType', intake.status = "open",
           intake'.status \in {"open", "succeeded", "failed", "canceled"},
           intake'.free = intake.free, intake'.triage = intake.triage,
           intake'.status = "succeeded" => Paid,
           announced' = IF intake'.status = "succeeded" THEN announced + 1 ELSE announced,
           UNCHANGED <<intents, inbox, metered, decided, engagement>>
    PROVE  Core' /\ SettledStep
<1>1. UNCHANGED <<intents, inbox, metered, decided, contracts, matters>>
  BY DEF engagement
<1>2. ~Complete /\ ~intake.free /\ announced = 0
  BY DEF Core, PayInv, PaidAndTold, Complete
<1>3. Paid' = Paid /\ (Complete' <=> intake'.status = "succeeded")
  BY <1>1 DEF Paid, Complete
<1>4. CoreType'
  BY <1>1, <1>2 DEF Core, CoreType, PaymentType, EngagementType
<1>5. PayInv'
  BY <1>1, <1>2, <1>3 DEF Core, PayInv, PaidAndTold
<1>6. MatterInv' /\ OneSignature'
  BY <1>1 DEF Core, MatterInv, MattersEarned, OneSignature, Accepted
<1> QED
  BY <1>4, <1>5, <1>6 DEF Core, SettledStep, Terminal

\* What the request of a step has seen.
LEMMA SeenOp ==
    ASSUME Core, NEW r \in Requests
    PROVE  op[r] \in Ops /\ OpGood(op[r])
  BY DEF Core, CoreType, OpType, Seen

LEMMA SettleStep ==
    ASSUME Core, NEW r \in Requests, Settle(r)
    PROVE  Core' /\ SettledStep
<1> DEFINE fee == [at |-> "fee"]
<1>1. op[r].at = "settle" /\ Paid
  BY SeenOp DEF Settle, OpGood
<1>2. fee \in Ops /\ op' = [op EXCEPT ![r] = fee]
  BY DEF Settle, Ops
<1>3. UNCHANGED <<intents, inbox, metered, decided, engagement, contracts, matters>>
  BY DEF Settle, engagement
<1>4. OpGood(fee) /\ OpGood(fee)' /\ Paid'
  BY <1>1, <1>3 DEF OpGood, Paid
<1>5. CASE intake.status = "open"
  <2>1. SetStatus("succeeded") /\ announced' = announced + 1
    BY <1>5 DEF Settle, Settleable, Announced
  <2>2. IntakeType
    BY DEF Core, CoreType
  <2>3. /\ IntakeType' /\ intake'.status = "succeeded"
        /\ intake'.free = intake.free /\ intake'.triage = intake.triage
    BY <2>1, <2>2, StatusSet DEF Statuses
  <2>4. ~Complete
    BY <1>5 DEF Complete
  <2>5. OpType' /\ Seen'
    BY <1>2, <1>3, <1>4, <2>4, OpMoves
  <2> QED
    BY <1>1, <1>3, <1>5, <2>1, <2>3, <2>5, Settling
<1>6. CASE intake.status # "open"
  <2>1. UNCHANGED <<intake, payment, decided, engagement>>
    BY <1>3, <1>6 DEF Settle, Settleable, Announced, payment
  <2> QED
    BY <1>2, <1>4, <2>1, OnlyOp
<1> QED
  BY <1>5, <1>6

LEMMA PaymentEndedStep ==
    ASSUME Core, NEW type, NEW status \in {"failed", "canceled"}, PaymentEnded(type, status)
    PROVE  Core' /\ SettledStep
<1>1. /\ intake.status = "open" /\ SetStatus(status) /\ op' = op
      /\ UNCHANGED <<intents, inbox, announced, metered, decided, engagement, contracts>>
  BY DEF PaymentEnded, Settleable, payment, engagement
<1>2. IntakeType
  BY DEF Core, CoreType
<1>3. /\ IntakeType' /\ intake'.status = status
      /\ intake'.free = intake.free /\ intake'.triage = intake.triage
  BY <1>1, <1>2, StatusSet DEF Statuses
<1>4. ~Complete /\ (Paid => Paid')
  BY <1>1 DEF Complete, Paid
<1>5. OpType' /\ Seen'
  BY <1>1, <1>4, OpsStay
<1> QED
  BY <1>1, <1>3, <1>5, Settling

LEMMA ReopenStep ==
    ASSUME Core, NEW r \in Requests, Reopen(r)
    PROVE  Core' /\ SettledStep
<1>1. UNCHANGED <<payment, decided, engagement>> /\ op' = [op EXCEPT ![r] = Idle]
  BY DEF Reopen, End
<1>2. IntakeType
  BY DEF Core, CoreType
<1>3. UNCHANGED intake
  BY <1>2 DEF Reopen, Reopenable, SetStatus, IntakeType, Statuses, Terminal
<1> QED
  BY <1>1, <1>3, IdleOp, OnlyOp

\* The steps of requests that only check.
LEMMA CheckStep ==
    ASSUME Core, NEW r \in Requests,
           CheckOut(r) \/ Succeeded(r) \/ SessionCompleted(r) \/ Convert(r) \/ Draft(r)
    PROVE  Core' /\ SettledStep
<1>1. PICK at \in {"checkout", "settle", "reopen", "convert", "create"} :
         /\ Begin(r, [at |-> at])
         /\ at = "settle" => "succeeded" \in inbox
         /\ at = "convert" => intake.status = "succeeded"
         /\ at \in {"convert", "create"} => intake.triage = "accepted"
  BY DEF CheckOut, Succeeded, SessionCompleted, Convert, Convertible, Draft
<1>2. [at |-> at] \in Ops
  BY DEF Ops
<1>3. OpGood([at |-> at])
  BY <1>1 DEF OpGood, Core, PayInv, MatterInv, Complete
<1>4. UNCHANGED <<intake, payment, decided, engagement>>
  BY DEF CheckOut, Succeeded, SessionCompleted, Convert, Draft
<1> QED
  BY <1>1, <1>2, <1>3, <1>4, Beginning

LEMMA OpenStep ==
    ASSUME Core, NEW r \in Requests, NEW c \in Contracts,
           NEW step \in {"send", "accept", "decline"}, NEW status \in {"draft", "sent"},
           Open(r, c, step, status)
    PROVE  Core' /\ SettledStep
<1>1. [at |-> step, contract |-> c] \in Ops
  BY DEF Ops
<1>2. OpGood([at |-> step, contract |-> c])
  BY DEF OpGood, Open
<1> QED
  BY <1>1, <1>2, Beginning DEF Open

-----------------------------------------------------------------------------
(* Triage, matters and contracts.                                          *)

LEMMA TriageStep ==
    ASSUME Core, NEW t \in {"accepted", "declined"}, Triage(t)
    PROVE  Core' /\ SettledStep
<1>1. UNCHANGED <<intents, inbox, announced, metered, contracts, matters, op>>
  BY DEF Triage, payment, engagement
<1>2. /\ IntakeType' /\ intake'.triage = t
      /\ intake'.status = intake.status /\ intake'.free = intake.free
  BY DEF Core, CoreType, IntakeType, Triage, Triages
<1>3. decided' \in BOOLEAN /\ (decided => decided') /\ (t = "accepted" => decided')
  BY DEF Triage
<1>4. (Paid <=> Paid') /\ (Complete <=> Complete')
  BY <1>1, <1>2 DEF Paid, Complete
<1>5. OpType' /\ Seen'
  BY <1>1, <1>3, <1>4, OpsStay
<1>6. CoreType'
  BY <1>1, <1>2, <1>3, <1>5 DEF Core, CoreType, PaymentType, EngagementType
<1>7. PayInv'
  BY <1>1, <1>2, <1>4 DEF Core, PayInv, PaidAndTold
<1>8. MatterInv' /\ OneSignature'
  BY <1>1, <1>2, <1>3 DEF Core, MatterInv, MattersEarned, OneSignature, Accepted
<1> QED
  BY <1>2, <1>5, <1>6, <1>7, <1>8 DEF Core, SettledStep

LEMMA MakeMatterStep ==
    ASSUME Core, NEW r \in Requests, MakeMatter(r)
    PROVE  Core' /\ SettledStep
<1>1. op[r].at = "convert" /\ Complete /\ decided
  BY SeenOp DEF MakeMatter, OpGood
<1>2. PICK m \in Matters : MatterFrom(m, "intake")
  BY DEF MakeMatter
<1>3. /\ UNCHANGED <<intents, inbox, announced, metered, decided, contracts>>
      /\ SetStatus("converted") /\ op' = [op EXCEPT ![r] = Idle]
  BY DEF MakeMatter, payment, End
<1>4. IntakeType /\ EngagementType
  BY DEF Core, CoreType
<1>5. /\ IntakeType' /\ intake'.status = "converted"
      /\ intake'.free = intake.free /\ intake'.triage = intake.triage
  BY <1>3, <1>4, StatusSet DEF Statuses
<1>6. (Paid <=> Paid') /\ Complete'
  BY <1>3, <1>5 DEF Paid, Complete
<1>7. OpGood(Idle)'
  BY DEF OpGood, Idle
<1>8. OpType' /\ Seen'
  BY <1>3, <1>6, <1>7, IdleOp, OpMoves
<1>9. /\ matters' \in [Matters -> {None, "intake"} \cup Contracts]
      /\ matters'[m] = "intake" /\ matters[m] = None
      /\ \A n \in Matters : n # m => matters'[n] = matters[n]
  BY <1>2, <1>4 DEF MatterFrom, EngagementType
<1>10. CoreType'
  BY <1>3, <1>5, <1>8, <1>9 DEF Core, CoreType, PaymentType, EngagementType
<1>11. PayInv'
  BY <1>1, <1>3, <1>5, <1>6 DEF Core, PayInv, PaidAndTold
<1>12. MatterInv'
  BY <1>1, <1>3, <1>5, <1>9 DEF Core, MatterInv, MattersEarned
<1>13. OneSignature'
  <2> SUFFICES ASSUME NEW c \in Accepted
               PROVE  /\ Accepted = {c} /\ contracts[c].matter # None
                      /\ matters'[contracts[c].matter] = c
    BY <1>3 DEF OneSignature, Accepted
  <2>1. /\ Accepted = {c} /\ contracts[c].matter # None /\ c \in Contracts
        /\ matters[contracts[c].matter] = c
    BY DEF Core, OneSignature, Accepted
  <2>2. contracts[c].matter \in Matters
    BY <1>4, <2>1 DEF EngagementType, ContractRows
  <2>3. contracts[c].matter # m
    BY <1>9, <2>1, ConversionAssumption
  <2> QED
    BY <1>9, <2>1, <2>2, <2>3
<1>14. SettledStep
  BY <1>1, <1>5 DEF SettledStep, Complete
<1> QED
  BY <1>8, <1>10, <1>11, <1>12, <1>13, <1>14 DEF Core

\* A contract that is drafted, sent or declined.
LEMMA ContractStep ==
    ASSUME Core, NEW r \in Requests, InsertDraft(r) \/ Write(r, "send", "sent")
                                     \/ Write(r, "decline", "declined")
    PROVE  Core' /\ SettledStep
<1>0. contracts \in [Contracts -> ContractRows] /\ matters \in [Matters -> {None, "intake"} \cup Contracts]
  BY DEF Core, CoreType, EngagementType
<1>1. /\ UNCHANGED <<intake, intents, inbox, announced, metered, decided, matters>>
      /\ op' = [op EXCEPT ![r] = Idle]
  BY DEF InsertDraft, Write, payment, End
<1>2. PICK c \in Contracts, status \in {"draft", "sent", "declined"} :
         contracts' = [contracts EXCEPT ![c] = [contracts[c] EXCEPT !.status = status]]
  <2>1. CASE InsertDraft(r)
    BY <2>1 DEF InsertDraft
  <2>2. CASE Write(r, "send", "sent") \/ Write(r, "decline", "declined")
    BY <2>2, SeenOp, OpFields DEF Write
  <2> QED
    BY <2>1, <2>2
<1>3. decided
  <2>1. op[r] \in Ops /\ OpGood(op[r])
    BY SeenOp
  <2>2. CASE op[r].at = "create"
    BY <2>1, <2>2 DEF OpGood
  <2>3. CASE op[r].at \in {"send", "decline"}
    BY <2>1, <2>3, OpFields DEF OpGood, Core, MatterInv
  <2> QED
    BY <2>2, <2>3 DEF InsertDraft, Write
<1>4. /\ contracts' \in [Contracts -> ContractRows]
      /\ contracts'[c].status = status
      /\ \A d \in Contracts : d # c => contracts'[d] = contracts[d]
  <2>1. [contracts[c] EXCEPT !.status = status] \in ContractRows
    BY <1>0 DEF ContractRows, ContractStates
  <2>2. [contracts[c] EXCEPT !.status = status].status = status
    BY <1>0 DEF ContractRows
  <2> QED
    BY <1>0, <1>2, <2>1, <2>2
<1>5. (Paid <=> Paid') /\ (Complete <=> Complete')
  BY <1>1 DEF Paid, Complete
<1>6. OpGood(Idle)'
  BY DEF OpGood, Idle
<1>7. OpType' /\ Seen'
  BY <1>1, <1>4, <1>5, <1>6, IdleOp, OpMoves
<1>8. CoreType'
  BY <1>0, <1>1, <1>4, <1>7 DEF Core, CoreType, IntakeType, PaymentType, EngagementType
<1>9. PayInv' /\ MatterInv'
  BY <1>1, <1>3, <1>5 DEF Core, PayInv, PaidAndTold, MatterInv, MattersEarned
<1>10. OneSignature'
  <2>1. Accepted' = Accepted \ {c}
    BY <1>4 DEF Accepted
  <2> QED
    BY <1>1, <1>4, <2>1 DEF Core, OneSignature, Accepted
<1> QED
  BY <1>1, <1>7, <1>8, <1>9, <1>10 DEF Core, SettledStep

LEMMA AcceptStep ==
    ASSUME Core, NEW r \in Requests, Accept(r)
    PROVE  Core' /\ SettledStep
<1> DEFINE c == op[r].contract
<1>0. contracts \in [Contracts -> ContractRows] /\ matters \in [Matters -> {None, "intake"} \cup Contracts]
  BY DEF Core, CoreType, EngagementType
<1>1. /\ UNCHANGED <<intake, intents, inbox, announced, metered, decided>>
      /\ op' = [op EXCEPT ![r] = Idle] /\ Accepted \subseteq {c}
  BY DEF Accept, payment, End, Acceptable
<1>2. c \in Contracts /\ decided
  BY SeenOp, OpFields DEF Accept, OpGood, Core, MatterInv
<1>3. PICK m \in Matters : MatterFrom(m, c) /\ contracts' = Signed(c, m)
  BY DEF Accept
<1>4. /\ contracts' \in [Contracts -> ContractRows]
      /\ contracts'[c].status = "accepted" /\ contracts'[c].matter = m
      /\ \A d \in Contracts : d # c => contracts'[d] = contracts[d]
  BY <1>0, <1>2, <1>3 DEF Signed, ContractRows, ContractStates
<1>5. /\ matters' \in [Matters -> {None, "intake"} \cup Contracts]
      /\ matters'[m] = c /\ matters[m] = None
      /\ \A n \in Matters : n # m => matters'[n] = matters[n]
  BY <1>0, <1>2, <1>3 DEF MatterFrom
<1>6. (Paid <=> Paid') /\ (Complete <=> Complete')
  BY <1>1 DEF Paid, Complete
<1>7. OpGood(Idle)'
  BY DEF OpGood, Idle
<1>8. OpType' /\ Seen'
  BY <1>1, <1>4, <1>6, <1>7, IdleOp, OpMoves
<1>9. CoreType'
  BY <1>1, <1>4, <1>5, <1>8 DEF Core, CoreType, IntakeType, PaymentType, EngagementType
<1>10. PayInv'
  BY <1>1, <1>6 DEF Core, PayInv, PaidAndTold
<1>11. MatterInv'
  <2>1. (\E n \in Matters : matters'[n] = "intake") <=> (\E n \in Matters : matters[n] = "intake")
    BY <1>2, <1>5, ConversionAssumption
  <2> QED
    BY <1>1, <1>2, <2>1 DEF Core, MatterInv, MattersEarned
<1>12. OneSignature'
  <2>1. Accepted' = {c}
    BY <1>1, <1>2, <1>4 DEF Accepted
  <2>2. m # None
    BY ConversionAssumption
  <2> QED
    BY <1>4, <1>5, <2>1, <2>2 DEF OneSignature
<1> QED
  BY <1>1, <1>8, <1>9, <1>10, <1>11, <1>12 DEF Core, SettledStep

-----------------------------------------------------------------------------
LEMMA CoreInit == Init => Core
<1> SUFFICES ASSUME Init PROVE Core
  OBVIOUS
<1>1. CoreType
  <2>1. IntakeType
    <3>1. \E status \in {"open", "succeeded"}, free \in BOOLEAN :
             intake = [status |-> status, free |-> free, triage |-> "pending_review"]
      BY DEF Init
    <3> QED
      BY <3>1 DEF IntakeType, Statuses, Triages
  <2>2. PaymentType
    BY DEF Init, PaymentType
  <2>3. EngagementType
    BY DEF Init, EngagementType, ContractRows, ContractStates
  <2> QED
    BY <2>1, <2>2, <2>3, IdleOp DEF Init, CoreType, OpType
<1>2. PayInv
  BY DEF Init, PayInv, PaidAndTold, Complete, Paid
<1>3. MatterInv /\ OneSignature
  BY ConversionAssumption
     DEF Init, MatterInv, MattersEarned, OneSignature, Accepted
<1>4. Seen
  BY DEF Init, Seen, OpGood, Idle
<1> QED
  BY <1>1, <1>2, <1>3, <1>4 DEF Core

LEMMA CoreStay ==
    ASSUME Core, UNCHANGED <<intake, payment, decided, engagement, op>>
    PROVE  Core' /\ SettledStep
<1>1. UNCHANGED <<intake, intents, inbox, announced, metered, decided, contracts, matters, op>>
  BY DEF payment, engagement
<1>2. (Paid <=> Paid') /\ (Complete <=> Complete')
  BY <1>1 DEF Paid, Complete
<1>3. OpType' /\ Seen'
  BY <1>1, <1>2, OpsStay
<1>4. CoreType'
  BY <1>1, <1>3 DEF Core, CoreType, IntakeType, PaymentType, EngagementType
<1>5. PayInv' /\ MatterInv' /\ OneSignature'
  BY <1>1, <1>2 DEF Core, PayInv, PaidAndTold, MatterInv, MattersEarned, OneSignature, Accepted
<1> QED
  BY <1>1, <1>3, <1>4, <1>5 DEF Core, SettledStep

LEMMA RequestStep ==
    ASSUME Core, NEW r \in Requests, Webhook(r) \/ Request(r) \/ Contract(r)
    PROVE  Core' /\ SettledStep /\ UNCHANGED directory
<1>1. CASE Webhook(r)
  <2>1. Core' /\ SettledStep
    BY <1>1, CheckStep, SettleStep, SessionStep, ReopenStep DEF Webhook
  <2> QED
    BY <1>1, <2>1 DEF Webhook, Succeeded, SessionCompleted, Settle, ReportFee, Reopen
<1>2. CASE Request(r)
  <2>1. Core' /\ SettledStep
    BY <1>2, CheckStep, SessionStep, MakeMatterStep DEF Request
  <2> QED
    BY <1>2, <2>1 DEF Request, CheckOut, OpenSession, Convert, MakeMatter
<1>3. CASE Contract(r)
  <2>1. CASE Draft(r)
    BY <2>1, CheckStep DEF Draft
  <2>2. CASE InsertDraft(r) \/ Write(r, "send", "sent") \/ Write(r, "decline", "declined")
    BY <2>2, ContractStep DEF InsertDraft, Write
  <2>3. CASE Accept(r)
    BY <2>3, AcceptStep DEF Accept
  <2>4. CASE AcceptFails(r)
    BY <2>4, IdleOp, OnlyOp DEF AcceptFails, End
  <2>5. ASSUME NEW c \in Contracts,
               \/ Open(r, c, "send", "draft")
               \/ Open(r, c, "accept", "sent")
               \/ Open(r, c, "decline", "sent")
        PROVE  Core' /\ SettledStep /\ UNCHANGED directory
    BY <2>5, OpenStep DEF Open
  <2> QED
    BY <1>3, <2>1, <2>2, <2>3, <2>4, <2>5 DEF Contract
<1> QED
  BY <1>1, <1>2, <1>3

LEMMA CoreStep ==
    ASSUME Core, [Next]_vars
    PROVE  /\ Core' /\ SettledStep
           /\ \/ DirectoryNext
              \/ \E i \in Intakes : Find(i)
              \/ UNCHANGED directory
<1>1. CASE Stripe
  BY <1>1, StripeStep DEF Stripe, Pay, FailPayment, CancelPayment
<1>2. CASE \/ PaymentEnded("payment_failed", "failed")
           \/ PaymentEnded("canceled", "canceled")
  BY <1>2, PaymentEndedStep DEF PaymentEnded
<1>3. ASSUME NEW t \in {"accepted", "declined"}, Triage(t)
      PROVE  Core' /\ SettledStep /\ UNCHANGED directory
  BY <1>3, TriageStep DEF Triage
<1>4. ASSUME NEW r \in Requests, Webhook(r) \/ Request(r) \/ Contract(r)
      PROVE  Core' /\ SettledStep /\ UNCHANGED directory
  BY <1>4, RequestStep
<1>5. ASSUME NEW i \in Intakes, LinkAccepted(i)
      PROVE  Core' /\ SettledStep /\ Find(i)
  BY <1>5, CoreStay DEF LinkAccepted
<1>8. CASE LinkPaid
  <2>1. Core' /\ SettledStep /\ Find(Intake)
    BY <1>8, CoreStay DEF LinkPaid
  <2> QED
    BY <2>1, ConversionAssumption
<1>6. CASE DirectoryNext /\ UNCHANGED <<intake, payment, decided, engagement, op>>
  BY <1>6, CoreStay
<1>7. CASE UNCHANGED vars
  BY <1>7, CoreStay DEF vars
<1> QED
  BY <1>1, <1>2, <1>3, <1>4, <1>5, <1>6, <1>7, <1>8 DEF Next

LEMMA InvAlways == Spec => [](Core /\ LinkInv)
<1>1. Init => Core /\ LinkInv
  BY CoreInit, LinkInit
<1>2. Core /\ LinkInv /\ [Next]_vars => (Core /\ LinkInv)'
  BY CoreStep, DirectoryStep
<1> QED
  BY <1>1, <1>2, PTL DEF Spec

-----------------------------------------------------------------------------
\* The intake, its payment, its engagement and the directory keep their types.
THEOREM TypeCorrect == Spec => []TypeOK
<1>1. Core /\ LinkInv => TypeOK
  BY TypeParts DEF Core, LinkInv
<1> QED
  BY <1>1, InvAlways, PTL

\* An intake with a fee is complete only when paid, and announced once.
THEOREM PaidAndToldAlways == Spec => []PaidAndTold
<1>1. Core => PaidAndTold
  BY DEF Core, PayInv
<1> QED
  BY <1>1, InvAlways, PTL

\* No matter without an acceptance by the practice.
THEOREM MattersEarnedAlways == Spec => []MattersEarned
<1>1. Core => MattersEarned
  BY DEF Core, MatterInv
<1> QED
  BY <1>1, InvAlways, PTL

\* One accepted contract at most, whose matter was made from it.
THEOREM OneSignatureAlways == Spec => []OneSignature
<1>1. Core => OneSignature
  BY DEF Core
<1> QED
  BY <1>1, InvAlways, PTL

\* An intake stays at the end of its payment, or is converted.
THEOREM SettledStaysAlways == Spec => SettledStays
<1>1. Core /\ [Next]_vars => [SettledStep]_vars
  BY CoreStep
<1>2. [SettledStep]_vars =>
         [intake.status \in Terminal =>
             intake'.status \in {intake.status}
                \cup (IF intake.status = "succeeded" THEN {"converted"} ELSE {})]_vars
  BY DEF SettledStep
<1> QED
  BY <1>1, <1>2, InvAlways, PTL DEF Spec, SettledStays

\* The first link of the user's row is kept.
THEOREM LinkKeptAlways == Spec => LinkKept
<1>1. Core /\ LinkInv /\ [Next]_vars => [LinkStep]_vars
  BY CoreStep, DirectoryStep
<1>2. [LinkStep]_vars => [client.intake # None => client'.intake = client.intake]_vars
  BY DEF LinkStep
<1> QED
  BY <1>1, <1>2, InvAlways, PTL DEF Spec, LinkKept
=============================================================================
