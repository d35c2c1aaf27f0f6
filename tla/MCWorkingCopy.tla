--------------------------- MODULE MCWorkingCopy ---------------------------
(* Instances of WorkingCopy for TLC. *)
EXTENDS WorkingCopy, TLC

CONSTANTS u1, u2, e1, x1, h1

\* Two uploads are interchangeable.
UploadSymmetry == Permutations(Uploads)
=============================================================================
