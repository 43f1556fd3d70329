------------------------------ MODULE MCStock -------------------------------
(* Instances of Stock for TLC: two boxes of one warehouse, and an order each way. *)
EXTENDS Stock, TLC

CONSTANTS b1, b2, o1, o2, t1, t2

TwoWarehouses == {1, 2}
MCHome == b1 :> 1 @@ b2 :> 1
MCQty == b1 :> 1 @@ b2 :> 2
MCFrom == o1 :> 1 @@ o2 :> 2
MCTo == o1 :> 2 @@ o2 :> 1
MCPlanned == o1 :> 2 @@ o2 :> 1
MCOpening == 1 :> 2 @@ 2 :> 1
Symmetric == Permutations({t1, t2})
=============================================================================
