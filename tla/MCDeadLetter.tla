---------------------------- MODULE MCDeadLetter ----------------------------
(* Instances of DeadLetter for TLC. *)
EXTENDS DeadLetter, TLC

CONSTANTS c1, c2, hA, hB, op, q1, none

\* Three messages of one order for one handler.
OneOrder == [m \in 1 .. 3 |-> q1]
OneHandler == [m \in 1 .. 3 |-> {hA}]
\* Two messages of an order and one without a key; handler B takes the first only.
Mixed == [m \in 1 .. 3 |-> IF m = 2 THEN none ELSE q1]
FirstForBoth == [m \in 1 .. 3 |-> IF m = 1 THEN {hA, hB} ELSE {hA}]
ConsumerSymmetry == Permutations({c1, c2})
=============================================================================
