-------------------------- MODULE MCWorkerLiveness --------------------------
(* An instance of WorkerLiveness for TLC. *)
EXTENDS WorkerLiveness, TLC

CONSTANTS w1, w2, t1
=============================================================================
