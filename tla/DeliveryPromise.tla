--------------------------- MODULE DeliveryPromise ---------------------------
(***************************************************************************)
(* What a webhook delivery is promised: it is made one attempt at a time,    *)
(* each numbered attempt at most once and never past the last, until one      *)
(* succeeds or the last one fails; and it may be lost on the way.  What became *)
(* of it then stands.                                                         *)
(***************************************************************************)
EXTENDS Naturals

CONSTANTS Deliveries, MaxAttempts

VARIABLES
  outcome,    \* what became of a delivery
  attempts,   \* the attempts whose result is known
  sending     \* the deliveries being attempted

PInit ==
  /\ outcome = [d \in Deliveries |-> "absent"]
  /\ attempts = [d \in Deliveries |-> 0]
  /\ sending = {}

Open(d) ==
  /\ outcome[d] = "absent"
  /\ outcome' \in {[outcome EXCEPT ![d] = "open"], [outcome EXCEPT ![d] = "lost"]}
  /\ UNCHANGED <<attempts, sending>>

Begin(d) ==
  /\ outcome[d] = "open" /\ d \notin sending
  /\ sending' = sending \cup {d}
  /\ UNCHANGED <<outcome, attempts>>

Finish(d) ==
  LET n == attempts[d] + 1 IN
  /\ d \in sending
  /\ sending' = sending \ {d}
  /\ attempts' = [attempts EXCEPT ![d] = n]
  /\ \/ outcome' = [outcome EXCEPT ![d] = "success"]
     \/ n = MaxAttempts /\ outcome' = [outcome EXCEPT ![d] = "dead"]
     \/ n < MaxAttempts /\ outcome' = outcome

\* Nobody is left who would attempt it: not attempted again.
Lose(d) ==
  /\ outcome[d] = "open"
  /\ outcome' = [outcome EXCEPT ![d] = "lost"]
  /\ sending' = sending \ {d}
  /\ UNCHANGED attempts

PNext == \E d \in Deliveries : Open(d) \/ Begin(d) \/ Finish(d) \/ Lose(d)

Promised == PInit /\ [][PNext]_<<outcome, attempts, sending>>
=============================================================================
