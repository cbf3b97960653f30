----------------------------- MODULE MCDocuments -----------------------------
(* Instances of Documents for TLC. *)
EXTENDS Documents, TLC

CONSTANTS web, job, b1, b2, b3

DocumentSymmetry == Permutations(Bodies)
=============================================================================
