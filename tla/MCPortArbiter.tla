---------------------------- MODULE MCPortArbiter ----------------------------
(* Instances of PortArbiter for TLC: two launchers each of two runtimes (a    *)
(* restart and a duplicate of each), or two of one, on two ports.           *)
EXTENDS PortArbiter
CONSTANTS p1, p2, p3, p4, ra, rb

TwoAndTwo == [p \in {p1, p2, p3, p4} |-> IF p \in {p1, p2} THEN ra ELSE rb]
Twice == [p \in {p1, p2} |-> ra]

\* Both invariants are about the behaviours up to the first break.
Calm == broken = "no"
=============================================================================
