-------------------------- MODULE MCImportProgress --------------------------
(* Instances of ImportProgress for TLC. *)
EXTENDS ImportProgress, TLC

CONSTANTS a, b, s1, s2, s3
=============================================================================
