------------------------------ MODULE MCOutbox ------------------------------
(***************************************************************************)
(* Instances of Outbox for TLC.  Aggregates a and b share the partition    *)
(* key p; which of them are sequenced is chosen in each .cfg.              *)
(***************************************************************************)
EXTENDS Outbox, TLC

CONSTANTS a, b, p, d1, d2, k

\* Both aggregates are keyed by p, as channel-adapter keys orders by channel.
OnePartition == (a :> p) @@ (b :> p)

\* No run distinguishes two dispatcher slots.
DispatcherSymmetry == Permutations({d1, d2})
=============================================================================
