----------------------------- MODULE MatterBilling -----------------------------
(***************************************************************************)
(* Billing the work of a matter (src/modules/matters and invoices): time   *)
(* entries, expenses and milestones are recorded, offered to the staff as  *)
(* unbilled, and charged on invoices, which mark them.                     *)
(*                                                                         *)
(* A request that creates, deletes or voids an invoice checks what it reads*)
(* and writes in a later transaction: its op is the step between.  What    *)
(* staff charge is any work of the matter, offered now, earlier or never.  *)
(***************************************************************************)
EXTENDS Naturals, FiniteSets

CONSTANTS Work,        \* ids of entries, expenses and milestones of the matter
          Milestones,  \* those that are milestones
          TimeEntries, \* those that are time entries
          Invoices,    \* ids of invoices
          Numbers,     \* invoice numbers
          Requests,
          None

ASSUME BillingAssumption ==
    /\ Milestones \subseteq Work
    /\ TimeEntries \subseteq Work \ Milestones
    /\ None \notin Invoices \cup Numbers

VARIABLES work,      \* rows of the work, with their invoice_id
          invoices,  \* rows of the invoices
          op         \* what each request does

vars == <<work, invoices, op>>

Idle == [at |-> "idle"]
Ops  == {Idle}
        \cup [at : {"create"}, charges : SUBSET Work, number : Numbers \cup {None}]
        \cup [at : {"delete", "void"}, invoice : Invoices]

Statuses == {"absent", "draft", "sent", "cancelled", "deleted"}

TypeOK ==
    /\ work \in [Work -> [row : {"absent", "present", "deleted"},
                          billable : BOOLEAN, invoice : Invoices \cup {None}]]
    /\ invoices \in [Invoices -> [status : Statuses, number : Numbers \cup {None},
                                  charges : SUBSET Work]]
    /\ op \in [Requests -> Ops]

Init ==
    /\ work = [w \in Work |-> [row |-> "absent", billable |-> TRUE, invoice |-> None]]
    /\ invoices = [i \in Invoices |-> [status |-> "absent", number |-> None, charges |-> {}]]
    /\ op = [r \in Requests |-> Idle]

Begin(r, step) == op[r] = Idle /\ op' = [op EXCEPT ![r] = step]

\* Mutant: a request ends and still holds what it was about.
EndHolds(r) == op' = [op EXCEPT ![r].at = "idle"]

End(r) == op' = [op EXCEPT ![r] = Idle]

Present == {w \in Work : work[w].row = "present"}

-----------------------------------------------------------------------------
(* The work.  Neither an edit nor a deletion asks whether it is invoiced.  *)

Record(w) ==
    /\ work[w].row = "absent"
    /\ \E b \in BOOLEAN :
          /\ w \in Milestones => b
          /\ work' = [work EXCEPT ![w] = [row |-> "present", billable |-> b, invoice |-> None]]
    /\ UNCHANGED <<invoices, op>>

\* A milestone has no billable flag; nothing sets its status to paid.
Edit(w) ==
    /\ w \in Present \ Milestones
    /\ \E b \in BOOLEAN : work' = [work EXCEPT ![w].billable = b]
    /\ UNCHANGED <<invoices, op>>

Delete(w) ==
    /\ w \in Present
    /\ work' = [work EXCEPT ![w].row = "deleted"]
    /\ UNCHANGED <<invoices, op>>

\* getMatterUnbilled.
Offered == {w \in Present : work[w].billable /\ work[w].invoice = None}

-----------------------------------------------------------------------------
(* createInvoice.                                                          *)

\* validateInvoiceNumberUnique: deleted invoices count, too.
NumberUnused(n) == n # None => \A i \in Invoices : invoices[i].number # n

\* verifyTimeEntries wants as many rows as ids, but compares the count, which
\* the driver returns as text, with a number by !==: they always differ.
EntriesRefused(charges) == charges \cap TimeEntries # {}

\* validateInvoiceCreation: the work belongs to the matter; whether it is
\* invoiced already is not asked.
Create(r) ==
    /\ \E charges \in SUBSET Present, n \in Numbers \cup {None} :
          /\ Cardinality(charges \cap Milestones) <= 1
          /\ ~EntriesRefused(charges)
          /\ NumberUnused(n)
          /\ Begin(r, [at |-> "create", charges |-> charges, number |-> n])
    /\ UNCHANGED <<work, invoices>>

Existing == {i \in Invoices : invoices[i].status \notin {"absent", "deleted"}}

\* The unique index, which leaves deleted invoices out.
NumberFree(n) == n # None => \A i \in Existing : invoices[i].number # n

Mark(charges, i) ==
    [w \in Work |-> IF w \in charges \cap Present
                    THEN [work[w] EXCEPT !.invoice = i] ELSE work[w]]

\* Mutant: the work is marked outside the transaction.
MarkedAnyway(charges, n, i) == Mark(charges, i)

\* markAsInvoiced: whoever held the work before; undone with the invoice.
Marked(charges, n, i) == IF NumberFree(n) THEN Mark(charges, i) ELSE work

\* persistInvoiceStructure, or a 409.
Persist(r) ==
    LET step == op[r] IN
    /\ step.at = "create"
    /\ \E i \in Invoices :
          /\ invoices[i].status = "absent"
          /\ invoices' =
                IF NumberFree(step.number)
                THEN [invoices EXCEPT ![i] = [status |-> "draft", number |-> step.number,
                                              charges |-> step.charges]]
                ELSE invoices
          /\ work' = Marked(step.charges, step.number, i)
    /\ End(r)

-----------------------------------------------------------------------------
(* deleteInvoice, voidInvoice and what else sets an invoice's status.      *)

Check(r, i, step, status) ==
    /\ invoices[i].status = status
    /\ Begin(r, [at |-> step, invoice |-> i])
    /\ UNCHANGED <<work, invoices>>

\* Mutant: the work of an invoice that ends is released (unmarkInvoiced).
Released(i) == [w \in Work |-> IF work[w].invoice = i
                               THEN [work[w] EXCEPT !.invoice = None] ELSE work[w]]

\* The work of an invoice that ends stays marked.
Kept(i) == work

\* The deletion does not repeat its check.
Remove(r) ==
    /\ op[r].at = "delete"
    /\ LET i == op[r].invoice IN
          /\ invoices' = [invoices EXCEPT ![i].status = "deleted"]
          /\ work' = Kept(i)
    /\ End(r)

\* transitionInvoiceStatus: only from sent, else a 409.
Void(r) ==
    /\ op[r].at = "void"
    /\ LET i == op[r].invoice IN
          IF invoices[i].status = "sent"
          THEN invoices' = [invoices EXCEPT ![i].status = "cancelled"] /\ work' = Kept(i)
          ELSE UNCHANGED <<invoices, work>>
    /\ End(r)

\* sendInvoice, or an update of the status alone, which staff may set freely.
SetStatus(i, status) ==
    /\ i \in Existing
    /\ invoices' = [invoices EXCEPT ![i].status = status]
    /\ UNCHANGED <<work, op>>

-----------------------------------------------------------------------------
Next ==
    \/ \E w \in Work : Record(w) \/ Edit(w) \/ Delete(w)
    \/ \E i \in Invoices, status \in {"draft", "sent", "cancelled"} : SetStatus(i, status)
    \/ \E r \in Requests :
          \/ Create(r) \/ Persist(r)
          \/ \E i \in Invoices : Check(r, i, "delete", "draft") \/ Check(r, i, "void", "sent")
          \/ Remove(r) \/ Void(r)

Spec == Init /\ [][Next]_vars

-----------------------------------------------------------------------------
(* Properties.                                                             *)

\* Work that an invoice in force charges for is not offered again as unbilled,
\* though two invoices may charge for it and one of them be deleted or voided.
NotOfferedAgain ==
    \A i \in Existing : invoices[i].status # "cancelled" =>
       invoices[i].charges \cap Offered = {}

\* Work is marked only with an invoice that was created and charges for it: a
\* refused invoice leaves no mark behind.
MarkedByCharge ==
    \A w \in Work : work[w].invoice # None => w \in invoices[work[w].invoice].charges
=============================================================================
