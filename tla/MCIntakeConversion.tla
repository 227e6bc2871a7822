-------------------------- MODULE MCIntakeConversion --------------------------
(* Instance of IntakeConversion for TLC.                                    *)
EXTENDS IntakeConversion, TLC

CONSTANTS i1, i2, n1, n2, c1, c2, m1, m2, r1, r2

Symmetry == Permutations(Intents) \cup Permutations(Contracts)
            \cup Permutations(Matters) \cup Permutations(Requests)
=============================================================================
