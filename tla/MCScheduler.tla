---------------------------- MODULE MCScheduler ----------------------------
(* Instances of Scheduler for TLC. *)
EXTENDS Scheduler, TLC

CONSTANTS t1, t2, o1

Usual == [overlap |-> FALSE, catchup |-> "run_once"]
Loose == [overlap |-> TRUE, catchup |-> "skip"]
MCSettings == {Usual, Loose}

TickSymmetry == Permutations(Ticks)
=============================================================================
