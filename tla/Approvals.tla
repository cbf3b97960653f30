------------------------------ MODULE Approvals ------------------------------
(***************************************************************************)
(* apps/approvals with the bell of apps/notifications: requests that one     *)
(* person files, that approvers decide, the requester withdraws and the      *)
(* sweep expires, from several processes at once.  Everything runs in        *)
(* autocommit: each statement is a step of its own, and on_commit callbacks  *)
(* run where they are registered.                                            *)
(***************************************************************************)
EXTENDS Integers, Sequences, FiniteSets

CONSTANTS
  Requests,       \* of one kind and one requester
  Users, Staff, Requester,
  Active,         \* the users whose account is active
  Named,          \* the assignees each request is filed with
  Expiring,       \* the requests that have an expires_at
  Procs,          \* web, REST and MCP processes
  Sweeper,        \* the process that runs sweep_expired_approvals
  None,
  Wants,          \* what people ask for: approved, rejected, canceled
  Override,       \* SMALLSTACK_APPROVALS_STAFF_OVERRIDE
  SelfApprove,    \* SMALLSTACK_APPROVALS_ALLOW_SELF_APPROVE
  Cap,            \* SMALLSTACK_APPROVALS_MAX_PENDING_PER_REQUESTER, 0 for none
  LazyLimit,      \* SMALLSTACK_APPROVALS_LAZY_EXPIRE_LIMIT
  MaxFaults       \* bound of the model: processes that die, bell calls that raise

ASSUME ApprovalsAssumption ==
  /\ Staff \cup Active \subseteq Users /\ Requester \in Users
  /\ Named \in [Requests -> SUBSET Users] /\ Expiring \subseteq Requests
  /\ Wants \subseteq {"approved", "rejected", "canceled"}
  /\ Sweeper \notin Procs /\ None \notin Users \cup Requests
  /\ Override \in BOOLEAN /\ SelfApprove \in BOOLEAN
  /\ {Cap, LazyLimit, MaxFaults} \subseteq Nat

VARIABLES
  row,        \* ApprovalRequest: status and decided_by
  assigned,   \* its assignees
  filing,     \* how far request_approval got
  overdue,    \* requests whose expires_at has passed
  proc,       \* what each process is doing
  inbox,      \* that of Notifications
  reached,    \* history: the last effect of the decision that took place
  heard,      \* history: what the kind's callback was told
  orphaned,   \* history: decisions whose process died before their last effect
  hasty,      \* history: decisions judged before the assignees were attached
  late,       \* history: requests announced after their bells were retired
  deaf,       \* history: requests whose bells were not retired, resolve having raised
  overlap,    \* history: filings that counted while another was about to insert
  faults

bell == INSTANCE Notifications WITH Subjects <- Requests

history == <<reached, heard, orphaned, hasty, late, deaf, overlap, faults>>
vars == <<row, assigned, filing, overdue, proc, inbox, history>>

Outcomes == {"approved", "rejected", "canceled", "expired"}

\* Mutant: the bells of the request are not retired.
BellsForgotten == <<"called", "recorded", "told">>

Effects == <<"called", "recorded", "resolved", "told">>
Idle == [pc |-> "idle", req |-> None, actor |-> None, want |-> "none", seen |-> "none",
         todo |-> {}]
Goto(p, r) == proc' = [proc EXCEPT ![p] = r]

Pending(r) == row[r].status = "pending"
Actionable == {r \in Requests : Pending(r) /\ r \notin overdue}
Overdue == {r \in Requests : Pending(r) /\ r \in overdue}
\* A call of the bell raises, which notify or resolve swallows, and its caller goes on.
Raises == bell!Swallowed /\ faults < MaxFaults /\ faults' = faults + 1
-----------------------------------------------------------------------------
(* Who is told and who may decide: emails.py and permissions.py *)

\* approver_users: the active assignees, or every active staff member.
Approvers(r) ==
  LET named == assigned[r] \cap Active
  IN (IF named # {} THEN named ELSE Staff \cap Active) \ {Requester}

\* can_decide, against the status the caller has loaded; no hook of the kind narrows it.
Eligible(u, names) ==
  /\ u = Requester => SelfApprove
  /\ IF names # {} THEN u \in names \/ (u \in Staff /\ Override) ELSE u \in Staff

\* Mutant: staff decide whatever the override says.
StaffMayDecide(u, r) == u \in Active /\ (u \in Staff \/ Eligible(u, assigned[r]))

CanDecide(u, r) == u \in Active /\ Eligible(u, assigned[r])
CanCancel(u) == u \in Active /\ (u = Requester \/ u \in Staff)
-----------------------------------------------------------------------------
(* request_approval *)

\* Mutant: the cap is passed by one.
CountToCap(r) ==
  /\ filing[r] = "none"
  /\ Cap = 0 \/ Cardinality(Actionable) <= Cap
  /\ filing' = [filing EXCEPT ![r] = "counted"]
  /\ overlap' = IF \E q \in Requests : filing[q] = "counted" THEN overlap + 1 ELSE overlap
  /\ UNCHANGED <<row, assigned, overdue, proc, inbox,
                 reached, heard, orphaned, hasty, late, deaf, faults>>

\* _check_pending_cap ...
Count(r) ==
  /\ filing[r] = "none"
  /\ Cap = 0 \/ Cardinality(Actionable) < Cap
  /\ filing' = [filing EXCEPT ![r] = "counted"]
  /\ overlap' = IF \E q \in Requests : filing[q] = "counted" THEN overlap + 1 ELSE overlap
  /\ UNCHANGED <<row, assigned, overdue, proc, inbox,
                 reached, heard, orphaned, hasty, late, deaf, faults>>

\* Mutant: the requester is recorded as the decider.
SaveSigned(r) ==
  /\ filing[r] = "counted"
  /\ filing' = [filing EXCEPT ![r] = "saved"]
  /\ row' = [row EXCEPT ![r] = [status |-> "pending", by |-> Requester]]
  /\ UNCHANGED <<assigned, overdue, proc, inbox, history>>

\* ... the row, pending and visible from here ...
Save(r) ==
  /\ filing[r] = "counted"
  /\ filing' = [filing EXCEPT ![r] = "saved"]
  /\ row' = [row EXCEPT ![r].status = "pending"]
  /\ UNCHANGED <<assigned, overdue, proc, inbox, history>>

\* ... its assignees (and the audit row) ...
Assign(r) ==
  /\ filing[r] = "saved"
  /\ filing' = [filing EXCEPT ![r] = "named"]
  /\ assigned' = [assigned EXCEPT ![r] = Named[r]]
  /\ UNCHANGED <<row, overdue, proc, inbox, history>>

\* ... and notify_on_request: the approvers' bells, then the mail; what raises is logged.
Announce(r) ==
  /\ filing[r] = "named"
  /\ filing' = [filing EXCEPT ![r] = "filed"]
  /\ \/ bell!Notify(Approvers(r), Requester, r, "requested") /\ UNCHANGED faults
     \/ Raises
  /\ late' = IF reached[r] \in {"resolved", "told"} THEN late \cup {r} ELSE late
  /\ UNCHANGED <<row, assigned, overdue, proc,
                 reached, heard, orphaned, hasty, deaf, overlap>>

FilingDies(r) ==
  /\ faults < MaxFaults /\ filing[r] \in {"counted", "saved", "named"}
  /\ filing' = [filing EXCEPT ![r] = "lost"]
  /\ faults' = faults + 1
  /\ UNCHANGED <<row, assigned, overdue, proc, inbox,
                 reached, heard, orphaned, hasty, late, deaf, overlap>>
-----------------------------------------------------------------------------
(* decide and cancel *)

\* When it is through with a row, a sweep goes on to its next row.
Done(p) == [Idle EXCEPT !.pc = IF proc[p].todo = {} THEN "idle" ELSE "sweeping",
                        !.todo = proc[p].todo]

\* A view, an endpoint or a tool loads the request; any signed-in user gets this far.
Load(p, u, r, want) ==
  /\ proc[p].pc = "idle" /\ row[r].status # "absent" /\ u \in Active
  /\ Goto(p, [Idle EXCEPT !.pc = "loaded", !.req = r, !.actor = u, !.want = want,
                          !.seen = row[r].status])
  /\ UNCHANGED <<row, assigned, filing, overdue, inbox, history>>

\* The tests before the claim.  A decision on an overdue request expires it instead.
Judge(p) ==
  LET r == proc[p].req
      u == proc[p].actor
      open == proc[p].seen = "pending"
      decision == proc[p].want \in {"approved", "rejected"}
      expire == decision /\ open /\ r \in overdue
      allowed == open /\ IF decision THEN CanDecide(u, r) ELSE CanCancel(u)
  IN /\ proc[p].pc = "loaded"
     /\ Goto(p, IF expire
                THEN [proc[p] EXCEPT !.pc = "claiming", !.want = "expired", !.actor = None]
                ELSE IF allowed THEN [proc[p] EXCEPT !.pc = "claiming"] ELSE Idle)
     /\ hasty' = IF allowed /\ ~expire /\ assigned[r] # Named[r]
                 THEN hasty \cup {r} ELSE hasty
     /\ UNCHANGED <<row, assigned, filing, overdue, inbox,
                    reached, heard, orphaned, late, deaf, overlap, faults>>

\* Mutant: the outcome is written without testing that the row is pending.
ClaimAnyway(p) ==
  /\ proc[p].pc = "claiming"
  /\ row' = [row EXCEPT ![proc[p].req] = [status |-> proc[p].want, by |-> proc[p].actor]]
  /\ Goto(p, [proc[p] EXCEPT !.pc = "claimed"])
  /\ UNCHANGED <<assigned, filing, overdue, inbox, history>>

\* UPDATE .. WHERE status = pending: the one who loses goes away, or to the next row.
Claim(p) ==
  LET r == proc[p].req
  IN /\ proc[p].pc = "claiming"
     /\ IF Pending(r)
        THEN /\ row' = [row EXCEPT ![r] = [status |-> proc[p].want, by |-> proc[p].actor]]
             /\ Goto(p, [proc[p] EXCEPT !.pc = "claimed"])
        ELSE /\ Goto(p, Done(p))
             /\ UNCHANGED row
     /\ UNCHANGED <<assigned, filing, overdue, inbox, history>>
-----------------------------------------------------------------------------
(* _finish, and the receiver of approval_decided: one effect after the other *)

\* _run_callback: the kind hears of the outcome; what it raises is kept in a field.
Callback(p) ==
  LET r == proc[p].req
  IN /\ proc[p].pc = "claimed"
     /\ heard' = [heard EXCEPT ![r] = IF @ = "nothing" THEN row[r].status ELSE "twice"]
     /\ reached' = [reached EXCEPT ![r] = "called"]
     /\ Goto(p, [proc[p] EXCEPT !.pc = "called"])
     /\ UNCHANGED <<row, assigned, filing, overdue, inbox,
                    orphaned, hasty, late, deaf, overlap, faults>>

\* The outcome recorded, by a save that post_save observers see and an audit row; the
\* bells of the request retired; the outcome told to the approvers and the requester,
\* by bell and mail.  The last two swallow what they raise, and go on.
Effect(p, i) ==
  LET r == proc[p].req
  IN /\ proc[p].pc = Effects[i - 1]
     /\ reached' = [reached EXCEPT ![r] = Effects[i]]
     /\ Goto(p, IF i = Len(Effects) THEN Done(p) ELSE [proc[p] EXCEPT !.pc = Effects[i]])
     /\ CASE Effects[i] = "resolved" ->
               \/ bell!Resolve(r, "requested") /\ UNCHANGED <<deaf, faults>>
               \/ Raises /\ deaf' = deaf \cup {r}
          [] Effects[i] = "told" ->
               /\ \/ /\ bell!Notify(Approvers(r) \cup {Requester}, proc[p].actor, r, "decided")
                     /\ UNCHANGED faults
                  \/ Raises
               /\ UNCHANGED deaf
          [] OTHER -> UNCHANGED <<inbox, deaf, faults>>
     /\ UNCHANGED <<row, assigned, filing, overdue, heard, orphaned, hasty, late, overlap>>

\* The process is killed, or a statement outside the swallowing ones raises: nothing
\* resumes what it was doing.
ProcDies(p) ==
  LET finishing == proc[p].pc \in {"claimed"} \cup {Effects[i] : i \in 1..Len(Effects)}
  IN /\ faults < MaxFaults /\ proc[p].pc # "idle"
     /\ proc' = [proc EXCEPT ![p] = Idle]
     /\ orphaned' = IF finishing THEN orphaned \cup {proc[p].req} ELSE orphaned
     /\ faults' = faults + 1
     /\ UNCHANGED <<row, assigned, filing, overdue, inbox,
                    reached, heard, hasty, late, deaf, overlap>>
-----------------------------------------------------------------------------
(* Expiry: the sweep takes every overdue request, a page load the first few *)

\* Mutant: the sweep leaves a backlog that page loads can drain to them.
SweepBacklog(p) ==
  /\ proc[p].pc = "idle"
  /\ \E todo \in SUBSET Overdue \ {{}} :
       /\ Cardinality(todo) > LazyLimit
       /\ Goto(p, [Idle EXCEPT !.pc = "sweeping", !.todo = todo])
  /\ UNCHANGED <<row, assigned, filing, overdue, inbox, history>>

ExpiresNow(r) ==
  /\ r \in Expiring \ overdue /\ row[r].status # "absent"
  /\ overdue' = overdue \cup {r}
  /\ UNCHANGED <<row, assigned, filing, proc, inbox, history>>

StartSweep(p) ==
  /\ proc[p].pc = "idle"
  /\ \E todo \in SUBSET Overdue \ {{}} :
       /\ IF p = Sweeper THEN todo = Overdue
          ELSE Cardinality(todo) <= LazyLimit
               /\ (todo = Overdue \/ Cardinality(todo) = LazyLimit)
       /\ Goto(p, [Idle EXCEPT !.pc = "sweeping", !.todo = todo])
  /\ UNCHANGED <<row, assigned, filing, overdue, inbox, history>>

\* mark_expired goes on to its next row, whose claim is tested like any other.
NextOverdue(p, r) ==
  /\ proc[p].pc = "sweeping" /\ r \in proc[p].todo
  /\ Goto(p, [Idle EXCEPT !.pc = "claiming", !.req = r, !.want = "expired",
                          !.todo = proc[p].todo \ {r}])
  /\ UNCHANGED <<row, assigned, filing, overdue, inbox, history>>
-----------------------------------------------------------------------------
(* People *)

\* A bound of the model: a bell is opened when it asks for a decision still to be made.
ReadBell(u) ==
  /\ \E r \in Requests : Pending(r) /\ bell!Row(u, r, "requested") \in inbox
  /\ bell!MarkRead(u)
  /\ UNCHANGED <<row, assigned, filing, overdue, proc, history>>
-----------------------------------------------------------------------------
Init ==
  /\ row = [r \in Requests |-> [status |-> "absent", by |-> None]]
  /\ assigned = [r \in Requests |-> {}]
  /\ filing = [r \in Requests |-> "none"]
  /\ overdue = {}
  /\ proc = [p \in Procs \cup {Sweeper} |-> Idle]
  /\ inbox = {}
  /\ reached = [r \in Requests |-> "nothing"]
  /\ heard = [r \in Requests |-> "nothing"]
  /\ orphaned = {} /\ hasty = {} /\ late = {} /\ deaf = {}
  /\ overlap = 0 /\ faults = 0

FileStep(r) == Count(r) \/ Save(r) \/ Assign(r) \/ Announce(r)
FinishStep(p) == Callback(p) \/ \E i \in 2..Len(Effects) : Effect(p, i)
SweepStep(p) == StartSweep(p) \/ \E r \in Requests : NextOverdue(p, r)
Step(p) == Judge(p) \/ Claim(p) \/ FinishStep(p)

Next ==
  \/ \E r \in Requests : FileStep(r) \/ FilingDies(r) \/ ExpiresNow(r)
  \/ \E p \in Procs, u \in Users, r \in Requests, want \in Wants : Load(p, u, r, want)
  \/ \E p \in Procs \cup {Sweeper} : Step(p) \/ SweepStep(p) \/ ProcDies(p)
  \/ \E u \in Users : ReadBell(u)

Spec == Init /\ [][Next]_vars

\* The scheduler fires the sweep every five minutes, and its worker runs what it began.
FairSpec == Spec /\ WF_vars(Step(Sweeper)) /\ WF_vars(SweepStep(Sweeper))
-----------------------------------------------------------------------------
(* Properties *)

Stages == {"idle", "loaded", "claiming", "sweeping", "claimed"}
          \cup {Effects[i] : i \in 1..Len(Effects) - 1}
Finishing(p, r) ==
  /\ proc[p].req = r
  /\ proc[p].pc \in {"claimed"} \cup {Effects[i] : i \in 1..Len(Effects) - 1}

\* Every variable has its type, and no undecided row names a decider (the constraint
\* approvals_pending_undecided).
TypeOK ==
  /\ row \in [Requests -> [status : Outcomes \cup {"absent", "pending"},
                           by : Users \cup {None}]]
  /\ \A r \in Requests : row[r].status \in {"absent", "pending"} => row[r].by = None
  /\ assigned \in [Requests -> SUBSET Users]
  /\ filing \in [Requests -> {"none", "counted", "saved", "named", "filed", "lost"}]
  /\ overdue \subseteq Requests
  /\ proc \in [Procs \cup {Sweeper} ->
       [pc : Stages, req : Requests \cup {None}, actor : Users \cup {None},
        want : Outcomes \cup {"none"}, seen : Outcomes \cup {"none", "pending"},
        todo : SUBSET Requests]]
  /\ inbox \subseteq bell!Rows
  /\ reached \in [Requests -> {"nothing"} \cup {Effects[i] : i \in 1..Len(Effects)}]
  /\ heard \in [Requests -> Outcomes \cup {"nothing", "twice"}]
  /\ orphaned \subseteq Requests /\ hasty \subseteq Requests /\ late \subseteq Requests
  /\ deaf \subseteq Requests
  /\ overlap \in Nat /\ faults \in 0..MaxFaults

\* However deciders, the requester and two sweeps race, a request has one outcome that
\* stands, and the kind's callback hears that outcome and hears it once: Approvals
\* implements ApprovalDecision (the conditional UPDATE of _claim settles every race).
D == INSTANCE ApprovalDecision WITH outcome <- [r \in Requests |-> row[r].status]
KeepsPromise == D!Decided

\* A request whose outcome no process is working on went through all of _finish and of
\* the receiver: callback, record, bells and mail; and no bell asks for it any more.  A
\* bell that still asks for a settled request has one of three causes: the process died
\* on the way, the bells were rung after the decision had retired them, or retiring them
\* raised and the receiver went on.
SettledIsComplete ==
  \A r \in Requests :
    /\ row[r].status \in Outcomes
    /\ r \notin orphaned
    /\ \A p \in Procs \cup {Sweeper} : ~Finishing(p, r)
    => /\ heard[r] = row[r].status /\ reached[r] = "told"
       /\ r \notin late \cup deaf => \A u \in Users : bell!Row(u, r, "requested") \notin inbox

\* Whoever approved or rejected was entitled to under the assignees the request was
\* filed with, except where the decision was judged between the insert of the row and
\* the insert of its assignees (services.py saves first and names them after).
OnlyNamedDecide ==
  \A r \in Requests :
    row[r].status \in {"approved", "rejected"} /\ r \notin hasty
      => row[r].by \in Users /\ Eligible(row[r].by, Named[r])

\* The pending cap is passed only by filings that counted while another one stood
\* between its count and its insert, and by one request for each of them.
CapKept ==
  Cap > 0 =>
    Cardinality(Actionable) + Cardinality({r \in Requests : filing[r] = "counted"})
      <= Cap + overlap

\* A request nobody decides in time does not stay open: the sweep gets to it.
OverdueEnds ==
  \A r \in Requests : (Pending(r) /\ r \in overdue) ~> (row[r].status \in Outcomes)
=============================================================================
