--------------------------- MODULE ApprovalDecision ---------------------------
(***************************************************************************)
(* What the approvals primitive promises to the code behind a kind: a        *)
(* request that was filed gets one outcome, which then stands, and the        *)
(* kind's on_decision callback hears of it at most once, with that outcome.   *)
(***************************************************************************)
CONSTANT Requests

VARIABLES
  outcome,   \* what became of a request
  heard      \* the outcome its callback was given

Outcomes == {"approved", "rejected", "canceled", "expired"}

DInit ==
  /\ outcome = [r \in Requests |-> "absent"]
  /\ heard = [r \in Requests |-> "nothing"]

File(r) ==
  /\ outcome[r] = "absent"
  /\ outcome' = [outcome EXCEPT ![r] = "pending"]
  /\ UNCHANGED heard

Settle(r) ==
  /\ outcome[r] = "pending"
  /\ \E o \in Outcomes : outcome' = [outcome EXCEPT ![r] = o]
  /\ UNCHANGED heard

Tell(r) ==
  /\ outcome[r] \in Outcomes /\ heard[r] = "nothing"
  /\ heard' = [heard EXCEPT ![r] = outcome[r]]
  /\ UNCHANGED outcome

DNext == \E r \in Requests : File(r) \/ Settle(r) \/ Tell(r)

Decided == DInit /\ [][DNext]_<<outcome, heard>>
=============================================================================
