----------------------------- MODULE MCPayments -----------------------------
(* Instances of Payments for TLC. *)
EXTENDS Payments, TLC

CONSTANTS r1, r2

RequestSymmetry == Permutations({r1, r2})
=============================================================================
