--------------------------- MODULE MCPaymentPipeline ---------------------------
(* Instances of PaymentPipeline for TLC.                                    *)
EXTENDS PaymentPipeline, TLC

CONSTANTS w1, w2

Symmetry == Permutations(Workers)
=============================================================================
