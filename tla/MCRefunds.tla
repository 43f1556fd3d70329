----------------------------- MODULE MCRefunds -----------------------------
(***************************************************************************)
(* Instances of Refunds for TLC: two request slots and the cron.           *)
(***************************************************************************)
EXTENDS Refunds, TLC

CONSTANTS r1, r2

\* No refund distinguishes two requests.
RequestSymmetry == Permutations({r1, r2})
=============================================================================
