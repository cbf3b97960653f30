---------------------------- MODULE Notifications ----------------------------
(***************************************************************************)
(* The in-app bell, apps/notifications: the unread rows, which a producer    *)
(* adds with notify and retires with resolve, and which their recipient      *)
(* reads.  A row that was read or pruned is one the bell no longer counts.   *)
(***************************************************************************)
EXTENDS FiniteSets

CONSTANTS Users, Subjects, Active

VARIABLE inbox   \* unread Notification rows

Kinds == {"requested", "decided"}
Row(u, s, k) == [to |-> u, subject |-> s, kind |-> k]
Rows == [to : Users, subject : Subjects, kind : Kinds]

\* notify: one row per active recipient, the actor left out.
Notify(recipients, actor, s, k) ==
  inbox' = inbox \cup {Row(u, s, k) : u \in (recipients \cap Active) \ {actor}}

\* resolve: the unread rows of one kind about a subject are marked read.
Resolve(s, k) == inbox' = {n \in inbox : ~(n.subject = s /\ n.kind = k)}

\* What either of them does when a statement of it raises: the exception is logged and
\* swallowed, the caller told of 0 rows, and the bell is as it was.
Swallowed == UNCHANGED inbox

\* mark_read: the recipient opens the list, or the daily prune takes the old rows.
MarkRead(u) == inbox' = {n \in inbox : n.to # u}
=============================================================================
