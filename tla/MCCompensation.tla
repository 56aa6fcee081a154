--------------------------- MODULE MCCompensation ----------------------------
(* Instances of Compensation for TLC: three obligations, two sweeps that     *)
(* overlap, and pages shorter than the list of what is owed.                 *)
EXTENDS Compensation

CONSTANTS e1, e2, e3, w1, w2
=============================================================================
