------------------------------ MODULE MCSignIn ------------------------------
(* Instances of SignIn for TLC. *)
EXTENDS SignIn, TLC

CONSTANTS home, office

\* Two browsers are interchangeable.
ClientSymmetry == Permutations(Clients)
=============================================================================
