---------------------------- MODULE RefundContract ----------------------------
(***************************************************************************)
(* What the refund workflow promises for one paid invoice, without saying  *)
(* how: every request is paid back at most once, all of them together at   *)
(* most what the client paid, and a request is booked as executed only     *)
(* when its money has gone back.                                           *)
(***************************************************************************)
EXTENDS Integers, Functions

CONSTANTS Requests, Paid

VARIABLES paidBack,   \* cents given back for each request
          booked      \* requests whose refund the books show

Total == SumFunctionOnSet(paidBack, Requests)

Init ==
    /\ paidBack = [q \in Requests |-> 0]
    /\ booked = {}

PayBack(q, cents) ==
    /\ paidBack[q] = 0
    /\ cents + Total <= Paid
    /\ paidBack' = [paidBack EXCEPT ![q] = cents]
    /\ UNCHANGED booked

Book(q) ==
    /\ paidBack[q] > 0
    /\ booked' = booked \cup {q}
    /\ UNCHANGED paidBack

Next ==
    \E q \in Requests :
       \/ \E cents \in 1..Paid : PayBack(q, cents)
       \/ Book(q)

Spec == Init /\ [][Next]_<<paidBack, booked>>
=============================================================================
