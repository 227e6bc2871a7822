-------------------------- MODULE MatterBillingProofs --------------------------
(* Proofs about MatterBilling, for any amount of work and any number of     *)
(* milestones, invoices, numbers and requests.                              *)
EXTENDS MatterBilling, TLAPS

WorkRows == [row : {"absent", "present", "deleted"}, billable : BOOLEAN,
             invoice : Invoices \cup {None}]
InvoiceRows == [status : Statuses, number : Numbers \cup {None}, charges : SUBSET Work]

LEMMA TypeParts ==
    TypeOK <=> /\ work \in [Work -> WorkRows]
               /\ invoices \in [Invoices -> InvoiceRows]
               /\ op \in [Requests -> Ops]
  BY DEF TypeOK, WorkRows, InvoiceRows

LEMMA CreateOps ==
    ASSUME NEW o \in Ops, o.at = "create"
    PROVE  o.charges \in SUBSET Work /\ o.number \in Numbers \cup {None}
  BY DEF Ops, Idle

LEMMA EndingOps ==
    ASSUME NEW o \in Ops, o.at \in {"delete", "void"}
    PROVE  o.invoice \in Invoices
  BY DEF Ops, Idle

LEMMA Ending ==
    ASSUME TypeOK, NEW r \in Requests, End(r)
    PROVE  /\ op' \in [Requests -> Ops]
           /\ op'[r] = Idle /\ \A q \in Requests \ {r} : op'[q] = op[q]
  BY DEF TypeOK, End, Ops

LEMMA Beginning ==
    ASSUME TypeOK, NEW r \in Requests, NEW step \in Ops, Begin(r, step)
    PROVE  /\ op' \in [Requests -> Ops]
           /\ op'[r] = step /\ \A q \in Requests \ {r} : op'[q] = op[q]
  BY DEF TypeOK, Begin

\* What marking does to a row of the work.
LEMMA MarkRows ==
    ASSUME work \in [Work -> WorkRows], NEW charges, NEW i \in Invoices
    PROVE  /\ Mark(charges, i) \in [Work -> WorkRows]
           /\ \A w \in Work : Mark(charges, i)[w].row = work[w].row
           /\ \A w \in Work : Mark(charges, i)[w].invoice \in {work[w].invoice, i}
           /\ \A w \in charges \cap Work : work[w].row = "present" => Mark(charges, i)[w].invoice = i
           /\ \A w \in Work \ charges : Mark(charges, i)[w].invoice = work[w].invoice
  BY DEF Mark, WorkRows, Present

-----------------------------------------------------------------------------
(* Type correctness, and what each invoice charges for.                    *)

\* Work that a request is about to charge for has been recorded.
Recorded ==
    \A r \in Requests : op[r].at = "create" => \A w \in op[r].charges : work[w].row # "absent"

\* Work that an invoice charges for has been recorded, and is marked, with
\* whatever invoice, as long as it is there.
ChargesMarked ==
    \A i \in Invoices : \A w \in invoices[i].charges :
       /\ work[w].row # "absent"
       /\ work[w].row = "present" => work[w].invoice # None

NothingCharged == \A i \in Invoices : invoices[i].status = "absent" => invoices[i].charges = {}

Billed == TypeOK /\ Recorded /\ ChargesMarked /\ NothingCharged /\ MarkedByCharge

LEMMA BilledInit == Init => Billed
  BY DEF Init, Billed, TypeOK, Recorded, ChargesMarked, NothingCharged, MarkedByCharge,
         Idle, Ops, Statuses

\* Recording, editing and deleting work.
LEMMA WorkBilled ==
    ASSUME Billed, NEW w \in Work, Record(w) \/ Edit(w) \/ Delete(w)
    PROVE  Billed'
<1>1. work \in [Work -> WorkRows] /\ UNCHANGED <<invoices, op>>
  BY DEF Billed, TypeOK, WorkRows, Record, Edit, Delete
<1>2. /\ work' \in [Work -> WorkRows]
      /\ \A v \in Work \ {w} : work'[v] = work[v]
      /\ work[w].row = "absent" \/ work'[w].invoice = work[w].invoice
      /\ work'[w].row # "absent"
      /\ work[w].row = "absent" => work'[w].invoice = None
      /\ work[w].row # "absent" => work'[w].row \in {work[w].row, "deleted"}
  <2>1. CASE Record(w)
    BY <1>1, <2>1 DEF Record, WorkRows
  <2>2. CASE Edit(w)
    <3>1. PICK b \in BOOLEAN : work' = [work EXCEPT ![w] = [work[w] EXCEPT !.billable = b]]
      BY <2>2 DEF Edit
    <3> QED
      BY <1>1, <2>2, <3>1 DEF Edit, WorkRows, Present
  <2>3. CASE Delete(w)
    BY <1>1, <2>3 DEF Delete, WorkRows, Present
  <2> QED
    BY <2>1, <2>2, <2>3
<1>3. TypeOK'
  BY <1>1, <1>2 DEF Billed, TypeOK, WorkRows, InvoiceRows
<1>4. Recorded'
  BY <1>1, <1>2, CreateOps DEF Billed, Recorded, TypeOK
<1>5. ChargesMarked' /\ NothingCharged'
  BY <1>1, <1>2 DEF Billed, ChargesMarked, NothingCharged, TypeOK, InvoiceRows
<1>6. MarkedByCharge'
  BY <1>1, <1>2 DEF Billed, MarkedByCharge, TypeOK, WorkRows
<1> QED
  BY <1>3, <1>4, <1>5, <1>6 DEF Billed

\* A status changes, of an invoice that exists.
LEMMA StatusBilled ==
    ASSUME Billed, UNCHANGED work, NEW i \in Invoices, NEW status \in Statuses \ {"absent"},
           invoices' = [invoices EXCEPT ![i].status = status], op' \in [Requests -> Ops],
           \A q \in Requests : op'[q].at = "create" => op'[q] = op[q]
    PROVE  Billed'
<1>1. /\ invoices' \in [Invoices -> InvoiceRows]
      /\ \A j \in Invoices : invoices'[j].charges = invoices[j].charges
      /\ \A j \in Invoices : invoices'[j].status = "absent" => invoices[j].status = "absent"
  BY DEF Billed, TypeOK, InvoiceRows
<1>2. TypeOK'
  BY <1>1, TypeParts DEF Billed, TypeOK, WorkRows
<1>3. Recorded'
  BY DEF Billed, Recorded
<1>4. ChargesMarked' /\ NothingCharged' /\ MarkedByCharge'
  BY <1>1 DEF Billed, TypeOK, ChargesMarked, NothingCharged, MarkedByCharge
<1> QED
  BY <1>2, <1>3, <1>4 DEF Billed

\* A request begins; one that creates an invoice has seen the work it charges.
LEMMA BeginBilled ==
    ASSUME Billed, UNCHANGED <<work, invoices>>, NEW r \in Requests, NEW step \in Ops,
           Begin(r, step),
           step.at = "create" => \A w \in step.charges : work[w].row # "absent"
    PROVE  Billed'
<1>1. op' \in [Requests -> Ops] /\ \A q \in Requests : op'[q] \in {op[q], step}
  BY Beginning DEF Billed
<1>2. TypeOK'
  BY <1>1 DEF Billed, TypeOK
<1>3. Recorded'
  BY <1>1 DEF Billed, Recorded
<1> QED
  BY <1>2, <1>3 DEF Billed, ChargesMarked, NothingCharged, MarkedByCharge

\* An invoice is created with its marks, or refused.
LEMMA PersistBilled ==
    ASSUME Billed, NEW r \in Requests, Persist(r)
    PROVE  Billed'
<1> DEFINE step == op[r]
<1>1. PICK i \in Invoices :
         /\ invoices[i].status = "absent"
         /\ invoices' =
               IF NumberFree(step.number)
               THEN [invoices EXCEPT ![i] = [status |-> "draft", number |-> step.number,
                                             charges |-> step.charges]]
               ELSE invoices
         /\ work' = Marked(step.charges, step.number, i)
  BY DEF Persist
<1>2. step.at = "create" /\ step.charges \in SUBSET Work /\ step.number \in Numbers \cup {None}
  BY CreateOps DEF Persist, Billed, TypeOK
<1>3. /\ op' \in [Requests -> Ops]
      /\ \A q \in Requests : op'[q].at = "create" => op'[q] = op[q]
  BY Ending DEF Persist, Billed, Idle
<1>4. CASE ~NumberFree(step.number)
  <2>1. UNCHANGED <<work, invoices>>
    BY <1>1, <1>4 DEF Marked
  <2> QED
    BY <2>1, <1>3 DEF Billed, TypeOK, Recorded, ChargesMarked, NothingCharged, MarkedByCharge
<1>5. CASE NumberFree(step.number)
  <2>1. /\ work' = Mark(step.charges, i)
        /\ invoices' = [invoices EXCEPT ![i] = [status |-> "draft", number |-> step.number,
                                                charges |-> step.charges]]
    BY <1>1, <1>5 DEF Marked
  <2>2. /\ work' \in [Work -> WorkRows]
        /\ \A w \in Work : work'[w].row = work[w].row
        /\ \A w \in Work : work'[w].invoice \in {work[w].invoice, i}
        /\ \A w \in step.charges : work[w].row = "present" => work'[w].invoice = i
        /\ \A w \in Work \ step.charges : work'[w].invoice = work[w].invoice
    <3>1. work \in [Work -> WorkRows]
      BY TypeParts DEF Billed
    <3>2. /\ \A w \in Work : Mark(step.charges, i)[w].row = work[w].row
          /\ \A w \in Work : Mark(step.charges, i)[w].invoice \in {work[w].invoice, i}
          /\ \A w \in step.charges \cap Work :
                work[w].row = "present" => Mark(step.charges, i)[w].invoice = i
          /\ \A w \in Work \ step.charges : Mark(step.charges, i)[w].invoice = work[w].invoice
          /\ Mark(step.charges, i) \in [Work -> WorkRows]
      BY <3>1, MarkRows
    <3> QED
      BY <1>2, <2>1, <3>2
  <2>3. invoices \in [Invoices -> InvoiceRows] /\ invoices' \in [Invoices -> InvoiceRows]
    BY <1>2, <2>1 DEF Billed, TypeOK, InvoiceRows, Statuses
  <2>4. TypeOK'
    BY <1>3, <2>2, <2>3 DEF TypeOK, WorkRows, InvoiceRows
  <2>5. Recorded'
    BY <1>3, <2>2, CreateOps DEF Billed, Recorded, TypeOK
  <2>6. ChargesMarked'
    <3> SUFFICES ASSUME NEW j \in Invoices, NEW w \in invoices'[j].charges
                 PROVE  /\ work'[w].row # "absent"
                        /\ work'[w].row = "present" => work'[w].invoice # None
      BY DEF ChargesMarked
    <3>0. w \in Work
      BY <2>3 DEF InvoiceRows
    <3>1. CASE j = i
      <4>1. w \in step.charges
        BY <2>1, <2>3, <3>1
      <4> QED
        BY <1>2, <2>2, <3>0, <4>1, BillingAssumption DEF Billed, Recorded
    <3>2. CASE j # i
      <4>1. w \in invoices[j].charges
        BY <2>1, <2>3, <3>2
      <4> QED
        BY <2>2, <3>0, <4>1, BillingAssumption DEF Billed, ChargesMarked
    <3> QED
      BY <3>1, <3>2
  <2>7. NothingCharged'
    BY <2>1, <2>3 DEF Billed, NothingCharged
  <2>8. MarkedByCharge'
    <3> SUFFICES ASSUME NEW w \in Work, work'[w].invoice # None
                 PROVE  w \in invoices'[work'[w].invoice].charges
      BY DEF MarkedByCharge
    <3>1. CASE w \in step.charges /\ work'[w].invoice = i
      BY <2>1, <2>3, <3>1
    <3>2. CASE ~(w \in step.charges /\ work'[w].invoice = i)
      <4>1. work'[w].invoice = work[w].invoice
        BY <2>2, <3>2
      <4>2. w \in invoices[work[w].invoice].charges /\ work[w].invoice \in Invoices
        BY <4>1 DEF Billed, MarkedByCharge, TypeOK
      <4>3. work[w].invoice # i
        BY <1>1, <4>2 DEF Billed, NothingCharged
      <4> QED
        BY <2>1, <2>3, <4>1, <4>2, <4>3
    <3> QED
      BY <3>1, <3>2
  <2> QED
    BY <2>4, <2>5, <2>6, <2>7, <2>8 DEF Billed
<1> QED
  BY <1>4, <1>5

LEMMA BilledStep == Billed /\ [Next]_vars => Billed'
<1> SUFFICES ASSUME Billed, [Next]_vars
             PROVE  Billed'
  OBVIOUS
<1>1. ASSUME NEW w \in Work, Record(w) \/ Edit(w) \/ Delete(w)
      PROVE  Billed'
  BY <1>1, WorkBilled
<1>2. ASSUME NEW i \in Invoices, NEW status \in {"draft", "sent", "cancelled"},
             SetStatus(i, status)
      PROVE  Billed'
  BY <1>2, StatusBilled DEF SetStatus, Statuses, Billed, TypeOK
<1>3. ASSUME NEW r \in Requests, Create(r)
      PROVE  Billed'
  <2>1. PICK charges \in SUBSET Present, n \in Numbers \cup {None} :
           Begin(r, [at |-> "create", charges |-> charges, number |-> n])
    BY <1>3 DEF Create
  <2>2. [at |-> "create", charges |-> charges, number |-> n] \in Ops
    BY DEF Ops, Present
  <2>3. \A w \in charges : work[w].row # "absent"
    BY DEF Present
  <2> QED
    BY <1>3, <2>1, <2>2, <2>3, BeginBilled DEF Create
<1>4. ASSUME NEW r \in Requests, Persist(r)
      PROVE  Billed'
  BY <1>4, PersistBilled
<1>5. ASSUME NEW r \in Requests, NEW i \in Invoices,
             Check(r, i, "delete", "draft") \/ Check(r, i, "void", "sent")
      PROVE  Billed'
  <2>1. PICK step \in {"delete", "void"} : Begin(r, [at |-> step, invoice |-> i])
    BY <1>5 DEF Check
  <2>2. [at |-> step, invoice |-> i] \in Ops
    BY DEF Ops
  <2> QED
    BY <1>5, <2>1, <2>2, BeginBilled DEF Check
<1>6. ASSUME NEW r \in Requests, Remove(r) \/ Void(r)
      PROVE  Billed'
  <2>1. op[r].invoice \in Invoices
    BY <1>6, EndingOps DEF Remove, Void, Billed, TypeOK
  <2>2. /\ op' \in [Requests -> Ops]
        /\ \A q \in Requests : op'[q].at = "create" => op'[q] = op[q]
    BY <1>6, Ending DEF Remove, Void, Billed, Idle
  <2>3. CASE UNCHANGED invoices
    <3>1. UNCHANGED work
      BY <1>6 DEF Remove, Void, Kept
    <3> QED
      BY <2>2, <2>3, <3>1
         DEF Billed, TypeOK, Recorded, ChargesMarked, NothingCharged, MarkedByCharge
  <2>4. CASE \E status \in {"deleted", "cancelled"} :
                invoices' = [invoices EXCEPT ![op[r].invoice].status = status]
    BY <1>6, <2>1, <2>2, <2>4, StatusBilled DEF Remove, Void, Kept, Statuses
  <2> QED
    BY <1>6, <2>3, <2>4 DEF Remove, Void
<1>7. CASE UNCHANGED vars
  BY <1>7 DEF vars, Billed, TypeOK, Recorded, ChargesMarked, NothingCharged, MarkedByCharge
<1> QED
  BY <1>1, <1>2, <1>3, <1>4, <1>5, <1>6, <1>7 DEF Next

-----------------------------------------------------------------------------
LEMMA BilledAlways == Spec => []Billed
  BY BilledInit, BilledStep, PTL DEF Spec

\* Work, invoices and requests keep their types.
THEOREM TypeCorrect == Spec => []TypeOK
<1>1. Billed => TypeOK
  BY DEF Billed
<1> QED
  BY <1>1, BilledAlways, PTL

\* Work that an invoice in force charges for is not offered again.
THEOREM NotOfferedAgainAlways == Spec => []NotOfferedAgain
<1>1. Billed => NotOfferedAgain
  <2> SUFFICES ASSUME Billed, NEW i \in Existing, NEW w \in invoices[i].charges \cap Offered
               PROVE  FALSE
    BY DEF NotOfferedAgain
  <2>1. work[w].row = "present" /\ work[w].invoice = None
    BY DEF Offered, Present
  <2> QED
    BY <2>1 DEF Billed, ChargesMarked, Existing
<1> QED
  BY <1>1, BilledAlways, PTL

\* Every mark names an invoice that charges for the work.
THEOREM MarkedByChargeAlways == Spec => []MarkedByCharge
<1>1. Billed => MarkedByCharge
  BY DEF Billed
<1> QED
  BY <1>1, BilledAlways, PTL
=============================================================================
