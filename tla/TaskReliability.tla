-------------------------- MODULE TaskReliability --------------------------
(***************************************************************************)
(* The retry chains of apps/tasks: what the workers' task_finished receiver, *)
(* the reaper, the repair sweep and the late-completion sweep do to the      *)
(* DBTaskResult and TaskAttempt rows, and chain_outcome's reading of them.   *)
(*                                                                          *)
(* Every caller (a worker's signal receiver, any worker's heartbeat thread, *)
(* the reap_tasks command) runs in autocommit, so each database statement   *)
(* is a step of its own.  A call that has read but not yet written is kept  *)
(* in calls and marks.  Whether a worker looks dead is WorkerLiveness'      *)
(* subject: a frozen worker is told from a dead one by nobody, so here any  *)
(* RUNNING row may be declared lost.                                        *)
(***************************************************************************)
EXTENDS Integers, FiniteSets

CONSTANTS
  Results,      \* ids of DBTaskResult rows; the TaskAttempt row shares the id
  Workers,      \* worker incarnations: one value per process, never reused
  NoResult,
  Paths,        \* task paths
  Policy,       \* Paths -> what @retry_policy or the defaults say of the path;
                \* a catch-all retry_on names RetrySuperseded and WorkerLost too
  Pins,         \* budgets pin_max_attempts may pin; 0 stands for "not pinned"
  Rank,         \* the order of the ids: TaskAttempt is ordered by root_id
  SweepLimit,   \* REPAIR_BATCH, how many candidates a late-completion sweep reads
  MaxRoots,     \* bound: how many tasks the application enqueues
  MaxCalls      \* bound: how many maybe_retry calls are in flight at once

\* Exceptions of a task body, by whether a narrow retry_on names them.
Raised == {"error", "fatal"}
Causes == {"first", "failed", "lost", "interrupted"}

ASSUME ConstantsAssumption ==
  /\ NoResult \notin Results
  /\ Policy \in [Paths -> [declared : BOOLEAN, attempts : Nat \ {0}, retryLost : BOOLEAN,
                           retryOn : SUBSET (Raised \cup {"superseded", "lost"})]]
  /\ Pins \subseteq Nat
  /\ Rank \in [Results -> Nat]
  /\ SweepLimit \in Nat /\ MaxRoots \in Nat /\ MaxCalls \in Nat

VARIABLES
  row,      \* DBTaskResult by id
  att,      \* TaskAttempt by id; the default record stands for "no row"
  proc,     \* worker processes: what the main thread is doing
  calls,    \* maybe_retry calls in flight
  marks     \* _mark_superseded calls in flight, by the late attempt

vars == <<row, att, proc, calls, marks>>

-----------------------------------------------------------------------------
(* Rows *)

Statuses == {"NONE", "READY", "RUNNING", "FAILED", "SUCCESSFUL"}
Excs == Raised \cup {"none", "interrupted", "lost", "superseded"}

\* age is finished_at seen from now: under REPAIR_GRACE ("new"), inside the
\* repair window ("mid"), past it ("old").  claimed says worker_ids is not empty.
Row == [status : Statuses, path : Paths \cup {"none"}, exc : Excs,
        claimed : BOOLEAN, age : {"new", "mid", "old"}]

\* max = 0 is NULL.  done and doneStatus are parent_completed_at and
\* parent_status; old says created_at is past LATE_COMPLETION_WINDOW.
Attempt == [root : Results, parent : Results \cup {NoResult}, attempt : Nat \ {0},
            cause : Causes, max : Nat, done : BOOLEAN, doneStatus : Statuses,
            cancelled : BOOLEAN, old : BOOLEAN]

Call == [of : Results, cause : Causes, stage : {"read", "insert"}]

EmptyRow == [status |-> "NONE", path |-> "none", exc |-> "none",
             claimed |-> FALSE, age |-> "new"]

\* Mutant: attempts counted from zero.
ZeroBasedAttempt(r, pin) ==
  [root |-> r, parent |-> NoResult, attempt |-> 0, cause |-> "first", max |-> pin,
   done |-> FALSE, doneStatus |-> "NONE", cancelled |-> FALSE, old |-> FALSE]

FirstAttempt(r, pin) ==
  [root |-> r, parent |-> NoResult, attempt |-> 1, cause |-> "first", max |-> pin,
   done |-> FALSE, doneStatus |-> "NONE", cancelled |-> FALSE, old |-> FALSE]

Roots == {r \in Results : row[r].status # "NONE" /\ att[r].root = r}
Children(r) == {c \in Results : att[c].parent = r}
LostChildren(r) == {c \in Children(r) : att[c].cause = "lost" /\ ~att[c].done}

-----------------------------------------------------------------------------
(* The retry decision *)

Budget(r) == IF att[r].max # 0 THEN att[r].max ELSE Policy[row[r].path].attempts

\* Mutant: a pinned chain keeps DEFAULT_POLICY.
RetriesLostIfPinned(r) == Policy[row[r].path].retryLost

\* An operator's pin on an undeclared task gets IMPLICIT_PINNED_POLICY.
RetriesLost(r) ==
  Policy[row[r].path].retryLost /\ (att[r].max = 0 \/ Policy[row[r].path].declared)

Classify(r, cause) ==
  IF row[r].exc \in {"lost", "interrupted"} THEN row[r].exc ELSE cause

WillRetry(r, cause) ==
  /\ row[r].status = "FAILED"
  /\ row[r].exc # "superseded"
  /\ att[r].attempt < Budget(r)
  /\ IF Classify(r, cause) \in {"lost", "interrupted"}
     THEN RetriesLost(r)
     ELSE row[r].exc \in Policy[row[r].path].retryOn

-----------------------------------------------------------------------------
(* The application and the worker's main thread *)

Alive(w) == proc[w].pc \in {"idle", "running", "finished"}

\* A new DBTaskResult of the path, in one transaction with its TaskAttempt row.
NewRow(n, path, attempt) ==
  /\ row[n].status = "NONE"
  /\ row' = [row EXCEPT ![n] = [@ EXCEPT !.status = "READY", !.path = path]]
  /\ att' = [att EXCEPT ![n] = attempt]

\* task.enqueue(), with pin_max_attempts in the same transaction when pin # 0.
Enqueue(n, path, pin) ==
  /\ Cardinality(Roots) < MaxRoots
  /\ NewRow(n, path, FirstAttempt(n, pin))
  /\ UNCHANGED <<proc, calls, marks>>

\* Upstream's claim: atomic, of a READY row whose run_after has passed.
Claim(w, r) ==
  /\ proc[w].pc = "idle" /\ row[r].status = "READY"
  /\ row' = [row EXCEPT ![r] = [@ EXCEPT !.status = "RUNNING", !.claimed = TRUE]]
  /\ proc' = [proc EXCEPT ![w] = [pc |-> "running", task |-> r]]
  /\ UNCHANGED <<att, calls, marks>>

\* Upstream's set_successful and set_failed: unconditional writes.
Finish(w, exc) ==
  LET status == IF exc = "none" THEN "SUCCESSFUL" ELSE "FAILED" IN
  /\ proc[w].pc = "running"
  /\ row' = [row EXCEPT ![proc[w].task] =
                [@ EXCEPT !.status = status, !.exc = exc, !.age = "new"]]
  /\ proc' = [proc EXCEPT ![w].pc = "finished"]
  /\ UNCHANGED <<att, calls, marks>>

\* _mark_superseded up to its first UPDATE: only an unmarked cause=lost child
\* of p counts as "declared lost", and one caller wins.
Mark(p) ==
  /\ att' = [c \in Results |->
               IF c \in LostChildren(p)
               THEN [att[c] EXCEPT !.done = TRUE, !.doneStatus = row[p].status]
               ELSE att[c]]
  /\ marks' = [marks EXCEPT ![p] = "cancel"]

\* The task_finished receiver: a late completion is recorded first, and only
\* an attempt that is not one is offered to maybe_retry.
Report(w) ==
  LET r == proc[w].task IN
  /\ proc[w].pc = "finished" /\ Cardinality(calls) < MaxCalls
  /\ proc' = [proc EXCEPT ![w] = [pc |-> "idle", task |-> NoResult]]
  /\ \/ /\ LostChildren(r) # {}
        /\ Mark(r)
        /\ UNCHANGED calls
     \/ /\ LostChildren(r) = {}
        /\ calls' = IF WillRetry(r, "failed")
                    THEN calls \cup {[of |-> r, cause |-> Classify(r, "failed"),
                                      stage |-> "insert"]}
                    ELSE calls
        /\ UNCHANGED <<att, marks>>
  /\ UNCHANGED row

\* The receiver raised, which it logs and forgets.
ReportLost(w) ==
  /\ proc[w].pc = "finished"
  /\ proc' = [proc EXCEPT ![w] = [pc |-> "idle", task |-> NoResult]]
  /\ UNCHANGED <<row, att, calls, marks>>

\* The process dies wherever it is.
Crash(w) ==
  /\ Alive(w)
  /\ proc' = [proc EXCEPT ![w] = [pc |-> "dead", task |-> NoResult]]
  /\ UNCHANGED <<row, att, calls, marks>>

-----------------------------------------------------------------------------
(* A sweep: reap, repair, detect late completions *)

\* Mutant: the UPDATE trusts what the pass read, so a finish in between is lost.
ReapUnchecked(r) ==
  /\ row[r].status \in {"RUNNING", "SUCCESSFUL"} /\ Cardinality(calls) < MaxCalls
  /\ row' = [row EXCEPT ![r] = [@ EXCEPT !.status = "FAILED", !.exc = "lost", !.age = "new"]]
  /\ calls' = calls \cup {[of |-> r, cause |-> "lost", stage |-> "read"]}
  /\ UNCHANGED <<att, proc, marks>>

\* A RUNNING row found lost is failed by a conditional UPDATE, and the pass
\* whose UPDATE applies goes on to maybe_retry.
Reap(r) ==
  /\ row[r].status = "RUNNING" /\ Cardinality(calls) < MaxCalls
  /\ row' = [row EXCEPT ![r] = [@ EXCEPT !.status = "FAILED", !.exc = "lost", !.age = "new"]]
  /\ calls' = calls \cup {[of |-> r, cause |-> "lost", stage |-> "read"]}
  /\ UNCHANGED <<att, proc, marks>>

\* Mutant: the sweep looks at fresh failures only.
RepairFresh(r) ==
  /\ Cardinality(calls) < MaxCalls
  /\ row[r].status = "FAILED" /\ row[r].age = "new" /\ row[r].exc # "superseded"
  /\ Children(r) = {}
  /\ Policy[row[r].path].attempts > 1 \/ att[r].max > 1
  /\ calls' = calls \cup {[of |-> r, cause |-> "failed", stage |-> "read"]}
  /\ UNCHANGED <<row, att, proc, marks>>

\* repair_missed_retries picks r.  The cap is left out: of the candidates a pass takes the
\* REPAIR_BATCH (100) that finished first, and Results stands for no more than that many.
Repair(r) ==
  /\ Cardinality(calls) < MaxCalls
  /\ row[r].status = "FAILED" /\ row[r].age = "mid" /\ row[r].exc # "superseded"
  /\ Children(r) = {}
  /\ Policy[row[r].path].attempts > 1 \/ att[r].max > 1
  /\ calls' = calls \cup {[of |-> r, cause |-> "failed", stage |-> "read"]}
  /\ UNCHANGED <<row, att, proc, marks>>

\* maybe_retry reads the row and decides ...
ReadCall(c) ==
  /\ c \in calls /\ c.stage = "read"
  /\ calls' = (calls \ {c}) \cup
       (IF WillRetry(c.of, c.cause)
        THEN {[of |-> c.of, cause |-> Classify(c.of, c.cause), stage |-> "insert"]}
        ELSE {})
  /\ UNCHANGED <<row, att, proc, marks>>

ChildOf(c) ==
  [root |-> att[c.of].root, parent |-> c.of, attempt |-> att[c.of].attempt + 1,
   cause |-> c.cause, max |-> att[c.of].max,
   done |-> FALSE, doneStatus |-> "NONE", cancelled |-> FALSE, old |-> FALSE]

\* Mutant: parent_id is not unique.
InsertCallAgain(c, n) ==
  /\ c \in calls /\ c.stage = "insert"
  /\ calls' = calls \ {c}
  /\ NewRow(n, row[c.of].path, ChildOf(c))
  /\ UNCHANGED <<proc, marks>>

\* ... and enqueues the next attempt with its TaskAttempt row in one
\* transaction, which the unique parent_id rolls back for all but the first.
InsertCall(c, n) ==
  /\ c \in calls /\ c.stage = "insert"
  /\ calls' = calls \ {c}
  /\ IF Children(c.of) = {}
     THEN NewRow(n, row[c.of].path, ChildOf(c))
     ELSE UNCHANGED <<row, att>>
  /\ UNCHANGED <<proc, marks>>

\* The candidates a late-completion sweep reads: the first SweepLimit in the
\* model's ordering, root_id then attempt.
Candidates == {c \in Results : att[c].cause = "lost" /\ ~att[c].done /\ ~att[c].old}

Before(d, c) ==
  \/ Rank[att[d].root] < Rank[att[c].root]
  \/ att[d].root = att[c].root /\ att[d].attempt < att[c].attempt

Batch == {c \in Candidates : Cardinality({d \in Candidates : Before(d, c)}) < SweepLimit}

\* Mutant: the reaper's own verdict counts as a completion.
DetectVerdict(p) ==
  /\ row[p].status \in {"SUCCESSFUL", "FAILED"}
  /\ Children(p) \cap Batch # {}
  /\ Mark(p)
  /\ UNCHANGED <<row, proc, calls>>

\* Mutant: an attempt that came back and failed is overlooked.
DetectSuccess(p) ==
  /\ row[p].status = "SUCCESSFUL"
  /\ Children(p) \cap Batch # {}
  /\ Mark(p)
  /\ UNCHANGED <<row, proc, calls>>

\* detect_late_completions reaches the attempt p.
DetectLate(p) ==
  /\ \/ row[p].status = "SUCCESSFUL"
     \/ row[p].status = "FAILED" /\ row[p].exc # "lost"
  /\ Children(p) \cap Batch # {}
  /\ Mark(p)
  /\ UNCHANGED <<row, proc, calls>>

\* The second UPDATE of _mark_superseded: cancel a retry that is still READY.
CancelRetry(p) ==
  LET ready == {c \in Children(p) : row[c].status = "READY"} IN
  /\ marks[p] = "cancel"
  /\ row' = [c \in Results |->
               IF c \in ready
               THEN [row[c] EXCEPT !.status = "FAILED", !.exc = "superseded", !.age = "new"]
               ELSE row[c]]
  /\ marks' = [marks EXCEPT ![p] = IF ready # {} THEN "flag" ELSE "none"]
  /\ UNCHANGED <<att, proc, calls>>

\* The third: retry_cancelled.
FlagCancelled(p) ==
  /\ marks[p] = "flag"
  /\ att' = [c \in Results |->
               IF c \in Children(p) THEN [att[c] EXCEPT !.cancelled = TRUE] ELSE att[c]]
  /\ marks' = [marks EXCEPT ![p] = "none"]
  /\ UNCHANGED <<row, proc, calls>>

-----------------------------------------------------------------------------
(* A call in flight dies with its process, or its statement raises, which   *)
(* the receiver and the sweep log and forget.                               *)

LoseCall(c) ==
  /\ c \in calls
  /\ calls' = calls \ {c}
  /\ UNCHANGED <<row, att, proc, marks>>

LoseMark(p) ==
  /\ marks[p] # "none"
  /\ marks' = [marks EXCEPT ![p] = "none"]
  /\ UNCHANGED <<row, att, proc, calls>>

-----------------------------------------------------------------------------
(* Time *)

\* Nobody reads the age of a failure with a retry that was not cancelled.
AgeMatters(r) ==
  row[r].status = "FAILED" /\ \A c \in Children(r) : att[c].cancelled

\* REPAIR_GRACE passes since a failure.
GraceEnds(r) ==
  /\ AgeMatters(r) /\ row[r].age = "new"
  /\ row' = [row EXCEPT ![r] = [@ EXCEPT !.age = "mid"]]
  /\ UNCHANGED <<att, proc, calls, marks>>

\* REPAIR_WINDOW passes since a failure.
WindowEnds(r) ==
  /\ AgeMatters(r) /\ row[r].age = "mid"
  /\ row' = [row EXCEPT ![r] = [@ EXCEPT !.age = "old"]]
  /\ UNCHANGED <<att, proc, calls, marks>>

\* LATE_COMPLETION_WINDOW passes since a retry the sweep still reads was enqueued.
LateWindowEnds(c) ==
  /\ c \in Candidates
  /\ att' = [att EXCEPT ![c] = [@ EXCEPT !.old = TRUE]]
  /\ UNCHANGED <<row, proc, calls, marks>>

-----------------------------------------------------------------------------
Init ==
  /\ row = [r \in Results |-> EmptyRow]
  /\ att = [r \in Results |-> FirstAttempt(r, 0)]
  /\ proc = [w \in Workers |-> [pc |-> "idle", task |-> NoResult]]
  /\ calls = {}
  /\ marks = [r \in Results |-> "none"]

WorkerStep(w) ==
  \/ Report(w) \/ ReportLost(w) \/ Crash(w)
  \/ \E r \in Results : Claim(w, r)
  \/ \E exc \in Raised \cup {"none", "interrupted"} : Finish(w, exc)

SweepStep(r) ==
  \/ Reap(r) \/ Repair(r) \/ DetectLate(r) \/ CancelRetry(r) \/ FlagCancelled(r)
  \/ LoseMark(r)
  \/ GraceEnds(r) \/ WindowEnds(r) \/ LateWindowEnds(r)

CallStep(c) ==
  \/ ReadCall(c) \/ LoseCall(c)
  \/ \E n \in Results : InsertCall(c, n)

Next ==
  \/ \E r \in Results, p \in Paths, pin \in Pins : Enqueue(r, p, pin)
  \/ \E w \in Workers : WorkerStep(w)
  \/ \E r \in Results : SweepStep(r)
  \/ \E c \in calls : CallStep(c)

Spec == Init /\ [][Next]_vars

-----------------------------------------------------------------------------
(* chain_outcome: the walk from a chain's first attempt to its latest *)

Chain(root) == {r \in Results : row[r].status # "NONE" /\ att[r].root = root}

\* The walk ends at an attempt nothing replaced, or whose retry was cancelled
\* and led nowhere.
StopsAt(r) ==
  \A c \in Children(r) : att[c].done /\ att[c].cancelled /\ Children(c) = {}

Walked(root) ==
  {r \in Chain(root) :
     \A a \in Chain(root) : att[a].attempt < att[r].attempt => ~StopsAt(a)}

Latest(root) == CHOOSE r \in Walked(root) : StopsAt(r)

OutcomeStatus(root) ==
  LET last == Latest(root) IN
  IF row[last].status = "FAILED" /\ row[last].age # "old" /\ WillRetry(last, "failed")
  THEN "RETRYING"
  ELSE row[last].status

-----------------------------------------------------------------------------
(* Safety *)

\* The type of the state, and: a worker has a task exactly while it runs it or has
\* yet to report it.
TypeOK ==
  /\ row \in [Results -> Row]
  /\ att \in [Results -> Attempt]
  /\ proc \in [Workers -> [pc : {"idle", "running", "finished", "dead"},
                           task : Results \cup {NoResult}]]
  /\ \A w \in Workers : proc[w].task # NoResult <=> proc[w].pc \in {"running", "finished"}
  /\ calls \subseteq Call
  /\ marks \in [Results -> {"none", "cancel", "flag"}]

\* Only a reap can fork a chain: an attempt that was retried for any other
\* cause is no longer being executed by anyone when its retry exists.
OnlyReapForks ==
  \A c \in Results, w \in Workers :
    /\ att[c].parent # NoResult
    /\ proc[w].pc = "running" /\ proc[w].task = att[c].parent
    => att[c].cause = "lost"

\* However the signal receiver, the reapers and the repair sweep race to retry
\* the attempts of a chain, it never grows past its budget (the policy's
\* max_attempts or the pin), no attempt is retried twice, and none but a reaped
\* one runs beside its retry.
BudgetRespected ==
  /\ \A root \in Roots : Cardinality(Chain(root)) <= Budget(root)
  /\ \A r \in Results : Cardinality(Children(r)) <= 1
  /\ OnlyReapForks

\* A cancelled retry is a decision written down, never an execution: no worker
\* ever claimed it and no path ever retries it (U4 of the retry tests).
SupersededNeverRan ==
  \A r \in Results : row[r].exc = "superseded" =>
    /\ ~row[r].claimed
    /\ Children(r) = {}
    /\ \A w \in Workers : proc[w].task # r

\* A worker's death re-runs a task body only with consent: a chain whose task
\* declares no policy, pinned by an operator, never gets a lost or interrupted
\* retry, nor does one whose policy says retry_lost=False.
LostRetryNeedsConsent ==
  \A c \in Results : att[c].cause \in {"lost", "interrupted"} =>
    /\ Policy[row[c].path].retryLost
    /\ att[c].max # 0 => Policy[row[c].path].declared

\* What parent_completed_at and parent_status say of a reaped attempt is what
\* its row ended as, written by its own worker and final; and a retry that the
\* late completion cancelled is one that never ran.
MarkerTellsTheTruth ==
  /\ SupersededNeverRan
  /\ \A c \in Results : att[c].done =>
       /\ att[c].cause = "lost"
       /\ row[att[c].parent].status = att[c].doneStatus
       /\ att[c].doneStatus \in {"SUCCESSFUL", "FAILED"}
       /\ row[att[c].parent].exc # "lost"
       /\ att[c].cancelled => row[c].exc = "superseded"

\* A terminal row is overwritten only when the claimant the reaper gave up on
\* reports: the late completion wins and is kept, and nothing else rewrites it.
OnlyTruthOverrulesAVerdict ==
  [][\A r \in Results :
       /\ row[r].status \in {"SUCCESSFUL", "FAILED"}
       /\ <<row'[r].status, row'[r].exc>> # <<row[r].status, row[r].exc>>
       => /\ row[r].exc = "lost"
          /\ \E w \in Workers : proc[w] = [pc |-> "running", task |-> r]]_vars

-----------------------------------------------------------------------------
(* What the documentation says of a chain's outcome *)

\* "RETRYING while the latest attempt failed but another is on its way" (the
\* ChainOutcome docstring): nothing can retry an attempt whose retry exists.
\* It does not hold; the README has the trace.
RetryingIsOnItsWay ==
  \A root \in Roots :
    OutcomeStatus(root) = "RETRYING" => Children(Latest(root)) = {}

-----------------------------------------------------------------------------
(* Liveness.  Sweeps keep coming: every worker's heartbeat thread makes one  *)
(* about once a minute, and the command can.  A statement may fail or its    *)
(* process die, but not every time, hence strong fairness for the calls; it  *)
(* also makes up for MaxCalls, which has the sweep wait for a slot.  With     *)
(* more than REPAIR_BATCH candidates in the window, the newer ones wait until *)
(* the older ones leave it: what is said here is of fewer.                   *)

ReadOf(r) == \E c \in calls : c.of = r /\ ReadCall(c)
InsertOf(r) == \E c \in calls, n \in Results : c.of = r /\ InsertCall(c, n)

Fairness ==
  \A r \in Results :
    /\ WF_vars(GraceEnds(r)) /\ WF_vars(DetectLate(r))
    /\ SF_vars(Repair(r)) /\ SF_vars(ReadOf(r)) /\ SF_vars(InsertOf(r))

FairSpec == Spec /\ Fairness

PoolSpent == \A n \in Results : row[n].status # "NONE"

\* A failure the policy would retry gets its retry, whatever crash or error
\* lost the receiver's or the reaper's own attempt, before the repair window
\* closes on it (or the pool of row ids, a bound, is spent).
MissedRetryRepaired ==
  \A r \in Results :
    WillRetry(r, "failed") ~>
      (~WillRetry(r, "failed") \/ Children(r) # {} \/ row[r].age = "old" \/ PoolSpent)

\* c replaced an attempt declared lost; both ran, and the original reported.
RanTwice(c) ==
  /\ att[c].cause = "lost" /\ row[c].claimed
  /\ row[att[c].parent].status \in {"SUCCESSFUL", "FAILED"}
  /\ row[att[c].parent].exc # "lost"

\* "When the reaper is the reason, it cannot run twice unnoticed" (reaper.py):
\* the marker is written even if the worker died before it could report.
ReaperRerunNoticed ==
  \A c \in Results : RanTwice(c) ~> (att[c].done \/ att[c].old)

=============================================================================
