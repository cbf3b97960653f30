--------------------------- MODULE WorkerLiveness ---------------------------
(***************************************************************************)
(* How apps/tasks decides that a worker is dead: the WorkerHeartbeat rows   *)
(* each db_worker process keeps fresh, and the reaper passes that read them. *)
(* A pass runs on a worker's heartbeat thread or on its main thread before   *)
(* the loop starts (reap_tasks is a pass like the latter: its process holds  *)
(* no task), and each of its statements is a step.  What becomes of a task   *)
(* once it is failed is TaskReliability.                                     *)
(***************************************************************************)
EXTENDS Integers, FiniteSets

CONSTANTS
  Workers,      \* process incarnations (label#token): never reused
  Tasks,
  None,
  LostAfter,    \* SMALLSTACK_TASKS_LOST_AFTER_SECONDS
  Orphan,       \* SMALLSTACK_TASKS_ORPHAN_SECONDS
  Retention,    \* HEARTBEAT_RETENTION
  ReapEvery,    \* REAP_EVERY
  MaxMissed,    \* MAX_MISSED_BEATS_BEFORE_YIELDING
  MaxTime       \* bound: the clock stops here

ASSUME ClockAssumption ==
  /\ LostAfter \in Nat /\ Orphan \in Nat /\ Retention \in Nat /\ MaxTime \in Nat
  /\ ReapEvery \in Nat \ {0} /\ MaxMissed \in Nat \ {0}
  /\ LostAfter <= Retention
  /\ None \notin Tasks \cup Workers

VARIABLES
  now,      \* the database's clock
  hb,       \* WorkerHeartbeat by worker_id; stopped_at = last_seen_at when set
  worker,   \* the processes; tardy remembers a silence past LostAfter while
            \* holding the current task
  task,     \* DBTaskResult; claimant is worker_ids[-1]
  pass      \* reaper passes under way, by the process that runs them

vars == <<now, hb, worker, task, pass>>

NoPass == [stage |-> "none", now |-> 0, running |-> {}, lost |-> {}]
Holds(w, t) == worker[w].task = t
Silent(w, time) == hb[w].there /\ time - hb[w].seen > LostAfter

-----------------------------------------------------------------------------
(* The worker's life *)

\* db_worker registers its incarnation; its first pass comes before its loop.
Register(w) ==
  /\ worker[w].pc = "new"
  /\ worker' = [worker EXCEPT ![w].pc = "starting"]
  /\ hb' = [hb EXCEPT ![w] = [there |-> TRUE, seen |-> now, stopped |-> FALSE]]
  /\ UNCHANGED <<now, task, pass>>

\* SMALLSTACK_TASKS_HEARTBEAT_ENABLED is off, or the worker is upstream's own.
StartPlain(w) ==
  /\ worker[w].pc = "new"
  /\ worker' = [worker EXCEPT ![w].pc = "plain"]
  /\ UNCHANGED <<now, hb, task, pass>>

\* Upstream's claim, on the main thread.
Claim(w, t) ==
  /\ worker[w].pc \in {"up", "plain"} /\ worker[w].task = None
  /\ task[t].status = "READY"
  /\ task' = [task EXCEPT ![t] = [status |-> "RUNNING", claimant |-> w, started |-> now]]
  /\ worker' = [worker EXCEPT ![w].task = t, ![w].tardy = Silent(w, now)]
  /\ UNCHANGED <<now, hb, pass>>

\* Upstream records the outcome, whatever the row says by now.
Finish(w) ==
  /\ worker[w].task # None
  /\ task' = [task EXCEPT ![worker[w].task].status = "DONE"]
  /\ worker' = [worker EXCEPT ![w].task = None, ![w].tardy = FALSE]
  /\ UNCHANGED <<now, hb, pass>>

Gone(w) ==
  /\ worker' = [worker EXCEPT ![w] = [pc |-> "gone", task |-> None, missed |-> 0,
                                      beats |-> 0, tardy |-> FALSE]]
  /\ pass' = [pass EXCEPT ![w] = NoPass]
  /\ UNCHANGED <<now, task>>

\* The worker loop ended, or a second signal forced it to: mark_stopped.
Exit(w) ==
  /\ worker[w].pc = "up"
  /\ Gone(w)
  /\ hb' = IF hb[w].there
           THEN [hb EXCEPT ![w].seen = now, ![w].stopped = TRUE]
           ELSE hb

\* Killed, or mark_stopped's UPDATE failed.
Crash(w) ==
  /\ worker[w].pc \in {"starting", "up", "plain"}
  /\ Gone(w)
  /\ UNCHANGED hb

-----------------------------------------------------------------------------
(* A pass: find_lost_tasks, the conditional UPDATEs, prune_heartbeats *)

\* The first query: the RUNNING rows, and the now the pass keeps to its end.
Begin(p) ==
  pass' = [pass EXCEPT ![p] =
             [stage |-> "judge", now |-> now, lost |-> {},
              running |-> {t \in Tasks : task[t].status = "RUNNING"}]]

BeginStarting(w) ==
  /\ worker[w].pc = "starting" /\ pass[w].stage = "none"
  /\ Begin(w)
  /\ UNCHANGED <<now, hb, worker, task>>

\* Mutant: the threshold is reached instead of passed.
LooksLostEarly(t, started) ==
  LET w == task[t].claimant IN
  IF hb[w].there
  THEN hb[w].stopped \/ now - hb[w].seen >= LostAfter
  ELSE task[t].started + Orphan < started

\* _lost_reason: staleness by the database clock, orphans by the pass's now.
LooksLost(t, started) ==
  LET w == task[t].claimant IN
  IF hb[w].there
  THEN hb[w].stopped \/ Silent(w, now)
  ELSE task[t].started + Orphan < started

\* The heartbeats are read and each row judged; a worker never judges its own.
Judge(p) ==
  /\ pass[p].stage = "judge"
  /\ pass' = [pass EXCEPT ![p].stage = "fail",
                          ![p].lost = {t \in pass[p].running :
                                         task[t].claimant # p /\ LooksLost(t, pass[p].now)}]
  /\ UNCHANGED <<now, hb, worker, task>>

\* One conditional UPDATE.
FailTask(p, t) ==
  /\ pass[p].stage = "fail" /\ t \in pass[p].lost
  /\ pass' = [pass EXCEPT ![p].lost = @ \ {t}]
  /\ task' = IF task[t].status = "RUNNING" THEN [task EXCEPT ![t].status = "LOST"] ELSE task
  /\ UNCHANGED <<now, hb, worker>>

\* The process goes on to its loop, or back to it.
PassOver(p) ==
  /\ pass' = [pass EXCEPT ![p] = NoPass]
  /\ worker' = [w \in Workers |->
                  IF w = p /\ worker[w].pc = "starting"
                  THEN [worker[w] EXCEPT !.pc = "up"] ELSE worker[w]]

\* Mutant: the cutoff is taken when the rows are deleted.
PruneByClock(p) ==
  /\ pass[p].stage = "fail" /\ pass[p].lost = {}
  /\ hb' = [w \in Workers |->
              [hb[w] EXCEPT !.there = @ /\ hb[w].seen + Retention >= now]]
  /\ PassOver(p)
  /\ UNCHANGED <<now, task>>

\* The pass ends by deleting the rows of workers gone for Retention.
Prune(p) ==
  /\ pass[p].stage = "fail" /\ pass[p].lost = {}
  /\ hb' = [w \in Workers |->
              [hb[w] EXCEPT !.there = @ /\ hb[w].seen + Retention >= pass[p].now]]
  /\ PassOver(p)
  /\ UNCHANGED <<now, task>>

\* A statement of the pass raised: safe_reap logs it.
PassRaises(p) ==
  /\ pass[p].stage # "none"
  /\ PassOver(p)
  /\ UNCHANGED <<now, hb, task>>

-----------------------------------------------------------------------------
(* The heartbeat thread: beat, and reap at every ReapEvery-th beat.  A pass   *)
(* runs on this thread, so a worker that reaps does not beat.                *)

Looping(w) == worker[w].pc = "up" /\ pass[w].stage = "none"

Counted(w, missed) ==
  worker' = [worker EXCEPT ![w].missed = missed, ![w].beats = (@ + 1) % ReapEvery]

ReapIfDue(w, missed) ==
  IF (worker[w].beats + 1) % ReapEvery = 0 /\ missed < MaxMissed
  THEN Begin(w)
  ELSE UNCHANGED pass

\* Mutant: heartbeats keyed by the operator's label, which Workers share.
BeatByLabel(w) ==
  /\ Looping(w)
  /\ hb' = [v \in Workers |-> IF hb[v].there THEN [hb[v] EXCEPT !.seen = now] ELSE hb[v]]
  /\ Counted(w, 0)
  /\ ReapIfDue(w, 0)
  /\ UNCHANGED <<now, task>>

\* The UPDATE raises nothing when the row was pruned.
Beat(w) ==
  /\ Looping(w)
  /\ hb' = IF hb[w].there THEN [hb EXCEPT ![w].seen = now] ELSE hb
  /\ Counted(w, 0)
  /\ ReapIfDue(w, 0)
  /\ UNCHANGED <<now, task>>

\* A skipped beat; after MaxMissed of them the worker declines to reap.
BeatFails(w) ==
  LET missed == IF worker[w].missed < MaxMissed THEN worker[w].missed + 1 ELSE MaxMissed IN
  /\ Looping(w)
  /\ Counted(w, missed)
  /\ ReapIfDue(w, missed)
  /\ UNCHANGED <<now, hb, task>>

Tick ==
  /\ now < MaxTime
  /\ now' = now + 1
  /\ worker' = [w \in Workers |->
                  [worker[w] EXCEPT !.tardy = worker[w].task # None /\ (@ \/ Silent(w, now'))]]
  /\ UNCHANGED <<hb, task, pass>>

-----------------------------------------------------------------------------
Init ==
  /\ now = 0
  /\ hb = [w \in Workers |-> [there |-> FALSE, seen |-> 0, stopped |-> FALSE]]
  /\ worker = [w \in Workers |->
                 [pc |-> "new", task |-> None, missed |-> 0, beats |-> 0, tardy |-> FALSE]]
  /\ task = [t \in Tasks |-> [status |-> "READY", claimant |-> None, started |-> 0]]
  /\ pass = [p \in Workers |-> NoPass]

WorkerStep(w) ==
  \/ Register(w) \/ StartPlain(w) \/ Finish(w) \/ Exit(w) \/ Crash(w)
  \/ BeginStarting(w) \/ Beat(w) \/ BeatFails(w)
  \/ \E t \in Tasks : Claim(w, t)

PassStep(p) ==
  \/ Judge(p) \/ Prune(p) \/ PassRaises(p)
  \/ \E t \in Tasks : FailTask(p, t)

Next == Tick \/ \E w \in Workers : WorkerStep(w) \/ PassStep(w)

Spec == Init /\ [][Next]_vars

\* A failed beat, or a pass that raised before it was done with the lost tasks
\* (one that raises later looks like a prune that deletes nothing).
Fault(w) ==
  \/ BeatFails(w)
  \/ PassRaises(w) /\ (pass[w].stage = "judge" \/ pass[w].lost # {})

\* A heartbeat thread keeps looping while its process lives, and the database
\* answers again some day: it only ever logs a failed statement and comes back.
Fairness ==
  /\ \A w \in Workers :
       /\ WF_vars(Beat(w) \/ BeatFails(w))
       /\ WF_vars(BeginStarting(w)) /\ WF_vars(Judge(w)) /\ WF_vars(Prune(w))
       /\ WF_vars(\E t \in Tasks : FailTask(w, t))
  /\ <>[][\A w \in Workers : ~Fault(w)]_vars

FairSpec == Spec /\ Fairness

-----------------------------------------------------------------------------
\* The type of the state, and: passes are under way in living processes only, and
\* a process that holds a task has joined the pool.
TypeOK ==
  /\ now \in 0..MaxTime
  /\ hb \in [Workers -> [there : BOOLEAN, seen : 0..MaxTime, stopped : BOOLEAN]]
  /\ worker \in [Workers -> [pc : {"new", "starting", "up", "plain", "gone"},
                             task : Tasks \cup {None}, missed : 0..MaxMissed,
                             beats : 0..(ReapEvery - 1), tardy : BOOLEAN]]
  /\ task \in [Tasks -> [status : {"READY", "RUNNING", "LOST", "DONE"},
                         claimant : Workers \cup {None}, started : 0..MaxTime]]
  /\ pass \in [Workers -> [stage : {"none", "judge", "fail"}, now : 0..MaxTime,
                           running : SUBSET Tasks, lost : SUBSET Tasks]]
  /\ \A w \in Workers :
       /\ pass[w].stage # "none" => worker[w].pc \in {"starting", "up"}
       /\ worker[w].task # None => worker[w].pc \in {"up", "plain"}

\* A worker cannot be dead while it runs the pass: its own pass never has the
\* task it is executing among the lost, even when its beats have been failing.
SelfSpared ==
  \A w \in Workers : worker[w].task \notin pass[w].lost

\* A worker that runs a pass spares its own task, and a live worker loses the
\* task it is executing only if it went silent past
\* the threshold while it held it, or has no heartbeat row and the task is a
\* day old: however passes, beats, exits and prunes of all the processes
\* interleave, the reaper errs towards "can't tell".
BeatingWorkerKeepsItsTask ==
  /\ TypeOK /\ SelfSpared
  /\ \A w \in Workers, t \in Tasks :
       Holds(w, t) /\ task[t].status = "LOST" =>
         \/ worker[w].tardy
         \/ ~hb[w].there /\ now - task[t].started > Orphan

\* "Any task they held was reaped long before" (HEARTBEAT_RETENTION): a pass
\* deletes no heartbeat that a task it found RUNNING still depends on, its own
\* worker's excepted.
PrunedHoldsNothing ==
  [][\A p \in Workers, w \in Workers :
       /\ pass[p].stage # "none" /\ pass'[p].stage = "none"
       /\ hb[w].there /\ ~hb'[w].there /\ w # p
       => \A t \in pass[p].running : task[t].claimant = w => task[t].status # "RUNNING"]_vars

\* Its claimant is dead, long enough for every rule to see it.
Doomed(t) ==
  LET w == task[t].claimant IN
  /\ task[t].status = "RUNNING" /\ worker[w].pc = "gone"
  /\ task[t].started + Orphan < now /\ hb[w].seen + LostAfter < now

\* A task whose worker is dead does not stay RUNNING forever while some other
\* worker lives, though a successor under the same label keeps beating.
DeadWorkersTaskReaped ==
  \A t \in Tasks :
    Doomed(t) ~> (task[t].status # "RUNNING" \/ \A w \in Workers : worker[w].pc # "up")

=============================================================================
