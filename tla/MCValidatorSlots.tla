-------------------------- MODULE MCValidatorSlots --------------------------
(* Instances of ValidatorSlots, and with it of ImportQueue, for TLC. *)
EXTENDS ValidatorSlots

CONSTANTS r1, r2, r3, s1, s2, v1, v2, v3

\* Two requests of one session beside others: an upload and the edit button.
SharedSession == [r \in Requests |-> IF r \in {r1, r2} THEN s1 ELSE s2]
=============================================================================
