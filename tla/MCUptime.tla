------------------------------ MODULE MCUptime ------------------------------
(* Instances of Uptime for TLC. *)
EXTENDS Uptime, TLC

CONSTANTS cron, ping

\* A window across the night, and one that staff may enter for information only.
MCPlans == {[from |-> 1, to |-> 3, excluded |-> TRUE],
            [from |-> 0, to |-> 2, excluded |-> FALSE]}

\* UTC, a zone west of it and one east of it.
MCZones == {0, 1, -1}

\* torn stays TRUE and every property is about what was not torn: nothing to see beyond.
NotTorn == ~torn

RunnerSymmetry == Permutations(Runners)
=============================================================================
