----------------------------- MODULE MCCronOnce -----------------------------
(* Instances of CronOnce for TLC. *)
EXTENDS CronOnce, TLC

CONSTANTS i1, i2

InstanceSymmetry == Permutations(Instances)
=============================================================================
