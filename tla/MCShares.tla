------------------------------ MODULE MCShares ------------------------------
(* Instances of Shares, and with it of ComputeGate, for TLC. *)
EXTENDS Shares

CONSTANTS t1, t2, t3, o1, good, other, bad, f1, f2
=============================================================================
