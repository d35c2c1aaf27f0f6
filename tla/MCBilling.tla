----------------------------- MODULE MCBilling -----------------------------
(* Instances of Billing for TLC. *)
EXTENDS Billing

CONSTANTS s1, s2
=============================================================================
