---------------------------- MODULE MCTrustLedger ----------------------------
(* Instances of TrustLedger for TLC.                                        *)
EXTENDS TrustLedger, TLC

CONSTANTS r1, r2, r3, r4, c1, c2, m1, m2

Account(c, m) == [client |-> c, matter |-> m]

OneMatter  == {Account(c1, m1)}
Shared     == {Account(c1, m1), Account(c2, m1)}

Symmetry == Permutations(Requests)
=============================================================================
