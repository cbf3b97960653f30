---------------------------- MODULE MCNewsletter ----------------------------
(* Instances of Newsletter for TLC. *)
EXTENDS Newsletter, TLC

CONSTANTS i1, r1, w1, w2
=============================================================================
