----------------------------- MODULE MCApprovals -----------------------------
(* An instance of Approvals for TLC: one request names an assignee, the other leaves
   the decision to the staff, and the cap allows one of them at a time. *)
EXTENDS Approvals, TLC

CONSTANTS r1, r2, asker, nominee, gone, boss, web, sweeper

MCNamed == r1 :> {nominee, gone} @@ r2 :> {}
=============================================================================
