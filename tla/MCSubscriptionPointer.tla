------------------------- MODULE MCSubscriptionPointer -------------------------
(* Instance of SubscriptionPointer for TLC.                                 *)
EXTENDS SubscriptionPointer, TLC

CONSTANTS s1, s2, r1, j1, j2

\* Payments that fail for good.
Declining == {<<"active", "past_due">>, <<"past_due", "unpaid">>}

Symmetry == Permutations(Subs) \cup Permutations(Requests) \cup Permutations(Jobs)
=============================================================================
