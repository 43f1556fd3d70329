----------------------------- MODULE MCBilling ------------------------------
(* Instances of Billing for TLC. *)
EXTENDS Billing
=============================================================================
