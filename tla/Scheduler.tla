----------------------------- MODULE Scheduler -----------------------------
(***************************************************************************)
(* apps/scheduler about one ScheduledJob row: overlapping ticks that claim   *)
(* the job, fire it and record a run; the operator's Run now and control     *)
(* page; sync_code_jobs; reconcile_run_outcomes.  Each SQL statement is a    *)
(* step of its own, so is each row read before it is written back.  Jobs     *)
(* share no state, so one row stands for all.  last_status and total_runs,   *)
(* which are only shown, are left out.                                       *)
(***************************************************************************)
EXTENDS Integers, Sequences, FiniteSets

CONSTANTS
  Ticks,      \* processes inside run_due_jobs
  Requests,   \* the rest, each done once: a request, a sync, a reconciliation
  Mortal,     \* the processes that may die half-way
  Every,      \* the period, in units of the clock
  RunAt,      \* when a "once" schedule is due
  Stale,      \* SMALLSTACK_SCHEDULER_STALE_RUN_SECONDS
  Settings,   \* the allow_overlap and catch_up the job may have, which stay
  Cadences,   \* cadences an operator or a @scheduled spec may set
  MaxTime     \* bound on the clock

Kinds == {"once", "interval", "cron", "broken"}
Procs == Ticks \cup Requests

ASSUME SchedulerAssumption ==
  /\ Ticks \cap Requests = {} /\ Mortal \subseteq Procs
  /\ Settings \subseteq [overlap : BOOLEAN, catchup : {"run_once", "skip"}]
  /\ Cadences \subseteq Kinds \ {"broken"}
  /\ Every \in Nat \ {0} /\ RunAt \in Nat \ {0} /\ Stale \in Nat
  /\ MaxTime \in Nat

VARIABLES
  clock,
  job,       \* the ScheduledJob row; next is next_run_at, 0 for NULL
  runs,      \* ScheduledJobRun rows in order of created_at; slot is scheduled_for,
             \* status queued, skipped or over (SUCCESS or FAILED)
  engine,    \* the tasks enqueued, each unfinished or over by its chain_outcome;
             \* slot and now: what it was enqueued for, and by a tick of what time
  proc,
  rewound,   \* history: the earliest slot a form's save turned next_run_at back to
  paused     \* history: it was an operator who last disabled the job

vars == <<clock, job, runs, engine, proc, rewound, paused>>

NoRow == [next |-> 0]
Never == MaxTime + 1
Off == [pc |-> "idle", row |-> NoRow, now |-> 0, slot |-> 0, task |-> 0,
        outcome |-> "", todo |-> {}]
Goto(p, r) == proc' = [proc EXCEPT ![p] = r]
Stop(p) == Goto(p, IF p \in Ticks THEN Off ELSE [Off EXCEPT !.pc = "done"])
At(p, pc) == proc[p].pc = pc

-----------------------------------------------------------------------------
(* schedules.py *)

\* next_run: strictly after the instant given; 0 is never again.
NextRun(cadence, after) ==
  CASE cadence = "once"     -> IF RunAt > after THEN RunAt ELSE 0
    [] cadence = "interval" -> after + Every
    [] cadence = "cron"     -> (after \div Every + 1) * Every
    [] cadence = "broken"   -> 0

MissedPeriods(cadence, slot, now) ==
  IF cadence = "once" THEN 0 ELSE (now - slot) \div Every

-----------------------------------------------------------------------------
(* A tick *)

\* run_due_jobs takes its time and reads the due row.
Begin(t) ==
  /\ At(t, "idle")
  /\ job.enabled /\ job.next # 0 /\ job.next <= clock
  /\ Goto(t, [Off EXCEPT !.pc = "claim", !.row = [next |-> job.next, cadence |-> job.cadence],
                    !.now = clock, !.slot = job.next])
  /\ UNCHANGED <<clock, job, runs, engine, rewound, paused>>

\* Mutant: the claim does not ask for the value observed.
ClaimUnchecked(t) ==
  LET row == proc[t].row IN
  /\ At(t, "claim")
  /\ IF row.cadence = "broken"
     THEN job' = [job EXCEPT !.enabled = FALSE] /\ Stop(t)
     ELSE /\ job' = [job EXCEPT !.next = NextRun(row.cadence, proc[t].now)]
          /\ Goto(t, [proc[t] EXCEPT !.pc = "guard"])
  /\ paused' = (paused /\ row.cadence # "broken")
  /\ UNCHANGED <<clock, runs, engine, rewound>>

\* Mutant: a cadence that does not compute is only counted as an error.
ClaimLeavesBroken(t) ==
  LET row == proc[t].row IN
  /\ At(t, "claim")
  /\ IF row.cadence # "broken" /\ job.next = row.next
     THEN /\ job' = [job EXCEPT !.next = NextRun(row.cadence, proc[t].now)]
          /\ Goto(t, [proc[t] EXCEPT !.pc = "guard"])
     ELSE UNCHANGED job /\ Stop(t)
  /\ UNCHANGED <<clock, runs, engine, rewound, paused>>

\* Mutant: the cursor goes to the slot after the one observed, so a backlog is
\* worked off one missed period after another.
ClaimPerPeriod(t) ==
  LET row == proc[t].row IN
  /\ At(t, "claim")
  /\ IF row.cadence = "broken"
     THEN job' = [job EXCEPT !.enabled = FALSE] /\ Stop(t)
     ELSE IF job.next = row.next
     THEN /\ job' = [job EXCEPT !.next = NextRun(row.cadence, row.next)]
          /\ Goto(t, [proc[t] EXCEPT !.pc = "guard"])
     ELSE UNCHANGED job /\ Stop(t)
  /\ paused' = (paused /\ row.cadence # "broken")
  /\ UNCHANGED <<clock, runs, engine, rewound>>

\* The claim: UPDATE ... WHERE next_run_at is still the one observed.  A cadence
\* that no longer computes disables the job instead.
Claim(t) ==
  LET row == proc[t].row IN
  /\ At(t, "claim")
  /\ IF row.cadence = "broken"
     THEN job' = [job EXCEPT !.enabled = FALSE] /\ Stop(t)
     ELSE IF job.next = row.next
     THEN /\ job' = [job EXCEPT !.next = NextRun(row.cadence, proc[t].now)]
          /\ Goto(t, [proc[t] EXCEPT !.pc = "guard"])
     ELSE UNCHANGED job /\ Stop(t)
  /\ paused' = (paused /\ row.cadence # "broken")
  /\ UNCHANGED <<clock, runs, engine, rewound>>

\* _previous_run_active: the newest QUEUED run is looked at, and only that one.
QueuedRuns == {r \in DOMAIN runs : runs[r].status = "queued"}
Newest(rs) == CHOOSE r \in rs : \A s \in rs : s <= r
\* Mutant: a run is waited for however old it is.
ActiveForever(r, now) == engine[runs[r].task].status = "unfinished"

Active(r, now) == /\ runs[r].at >= now - Stale
                  /\ engine[runs[r].task].status = "unfinished"
PreviousRunActive(now) == QueuedRuns # {} /\ Active(Newest(QueuedRuns), now)

RunRow(p, status) ==
  [status |-> status, slot |-> proc[p].slot, task |-> proc[p].task, at |-> clock]

\* The overlap guard and the catch-up policy: skip, with a SKIPPED run, or fire.
\* An outcome that cannot be read (_engine_result: the task's row is gone, or
\* chain_outcome raises) counts as not active.
Guard(t) ==
  \E readable \in BOOLEAN :
    LET now == proc[t].now
        skip == \/ ~job.overlap /\ readable /\ PreviousRunActive(now)
                \/ /\ job.catchup = "skip"
                   /\ MissedPeriods(proc[t].row.cadence, proc[t].slot, now) >= 1 IN
    /\ At(t, "guard")
    /\ IF skip THEN runs' = Append(runs, RunRow(t, "skipped")) /\ Stop(t)
               ELSE UNCHANGED runs /\ Goto(t, [Off EXCEPT !.pc = "fire", !.slot = proc[t].slot,
                                                         !.now = now])
    /\ UNCHANGED <<clock, job, engine, rewound, paused>>

-----------------------------------------------------------------------------
(* enqueue_and_record, for a tick and for Run now (slot 0: an instant that no  *)
(* slot of the cadence shares)                                                 *)

\* Mutant: an enqueue that raises leaves nothing behind.
FailsSilently(p, outcome) ==
  IF proc[p].slot = 0 \/ outcome = "failed" THEN Stop(p)
  ELSE Goto(p, [proc[p] EXCEPT !.pc = "record", !.task = 0, !.outcome = outcome])

\* What an exception leads to: a tick records a FAILED run,
\* and disables the job when its task_path does not resolve ("invalid"); Run now
\* only tells the operator.
Fails(p, outcome) ==
  IF proc[p].slot = 0 THEN Stop(p)
  ELSE Goto(p, [proc[p] EXCEPT !.pc = "record", !.task = 0, !.outcome = outcome])

\* The task is enqueued, or that raises.
Fire(p) ==
  /\ At(p, "fire")
  /\ \/ /\ engine' = Append(engine, [slot |-> proc[p].slot, now |-> proc[p].now,
                                    status |-> "unfinished"])
        /\ Goto(p, [proc[p] EXCEPT !.pc = "record", !.task = Len(engine) + 1,
                                   !.outcome = "queued"])
     \/ UNCHANGED engine /\ \E outcome \in {"failed", "invalid"} : Fails(p, outcome)
  /\ UNCHANGED <<clock, job, runs, rewound, paused>>

RunStatus(p) == IF proc[p].outcome = "queued" THEN "queued" ELSE "over"

\* _record.  A database error there or in the bookkeeping of a run just queued is
\* caught like one of the enqueue: a FAILED run follows.
Record(p) ==
  /\ At(p, "record")
  /\ \/ /\ runs' = Append(runs, RunRow(p, RunStatus(p)))
        /\ CASE proc[p].outcome = "invalid" -> Goto(p, [Off EXCEPT !.pc = "disable"])
             [] proc[p].outcome = "failed"  -> Stop(p)
             [] proc[p].outcome = "queued"  -> Stop(p) \/ Fails(p, "failed")
     \/ proc[p].outcome = "queued" /\ Fails(p, "failed") /\ UNCHANGED runs
  /\ UNCHANGED <<clock, job, engine, rewound, paused>>

Disable(p) ==
  /\ At(p, "disable")
  /\ job' = [job EXCEPT !.enabled = FALSE]
  /\ paused' = FALSE
  /\ Stop(p)
  /\ UNCHANGED <<clock, runs, engine, rewound>>

\* The guard's query, the record of a SKIPPED or a FAILED run or the disabling
\* raises: only the loop of run_due_jobs catches that, counts an error ...
Raise(t) ==
  /\ t \in Ticks
  /\ At(t, "guard") \/ At(t, "disable") \/ (At(t, "record") /\ RunStatus(t) = "over")
  /\ Goto(t, [Off EXCEPT !.pc = "raised", !.slot = proc[t].slot])
  /\ UNCHANGED <<clock, job, runs, engine, rewound, paused>>

\* ... and goes on: nothing more is done for the job.
CountError(t) ==
  /\ At(t, "raised")
  /\ Stop(t)
  /\ UNCHANGED <<clock, job, runs, engine, rewound, paused>>

\* The process dies, or a statement of its fails where none of its own code catches
\* it (a claim that raises leaves the job due).
Crash(p) ==
  /\ p \in Mortal /\ proc[p].pc \notin {"idle", "done"}
  /\ Stop(p)
  /\ UNCHANGED <<clock, job, runs, engine, rewound, paused>>

-----------------------------------------------------------------------------
(* The operator *)

RunNow(p) ==
  /\ At(p, "idle")
  /\ Goto(p, [Off EXCEPT !.pc = "fire"])
  /\ UNCHANGED <<clock, job, runs, engine, rewound, paused>>

\* The control page's POST, or a REST or MCP update, loads the row ...
Edit(p) ==
  /\ At(p, "idle")
  /\ Goto(p, [Off EXCEPT !.pc = "edit", !.row = job])
  /\ UNCHANGED <<clock, job, runs, engine, rewound, paused>>

\* ... and ScheduledJob.save writes all of it back, with next_run_at seeded anew
\* when the job is enabled without one or when its cadence differs from the one
\* stored.  A new cadence becomes an override.
Save(p) ==
  \E enabled \in BOOLEAN, cadence \in Cadences \cup ({proc[p].row.cadence} \ {"broken"}) :
    LET row == proc[p].row
        changed == cadence # job.cadence
        next == IF enabled /\ (row.next = 0 \/ changed)
                THEN NextRun(cadence, clock) ELSE row.next IN
    /\ job' = [row EXCEPT !.enabled = enabled, !.cadence = cadence, !.next = next,
                          !.overridden = @ \/ changed]
    /\ rewound' = IF next = row.next /\ next \notin {0, job.next} /\ next < rewound
                  THEN next ELSE rewound
    /\ paused' = IF enabled THEN FALSE ELSE paused \/ row.enabled
    /\ Stop(p)
    /\ UNCHANGED <<clock, runs, engine>>

\* reset_schedule: the sync it then runs is a sync like any other.
ResetSchedule ==
  /\ job.overridden
  /\ job' = [job EXCEPT !.overridden = FALSE]
  /\ UNCHANGED <<clock, runs, engine, proc, rewound, paused>>

-----------------------------------------------------------------------------
(* sync_code_jobs: post_migrate, and the first tick of every process *)

SyncRead(p) ==
  /\ At(p, "idle")
  /\ Goto(p, [Off EXCEPT !.pc = "sync", !.row = job])
  /\ UNCHANGED <<clock, job, runs, engine, rewound, paused>>

\* No spec of this process declares the job: it is retired, unless so many are
\* orphans that the registry is not believed.
SyncRetire(p) ==
  /\ proc[p].row.enabled
  /\ job' = [job EXCEPT !.enabled = FALSE, !.retired = TRUE, !.next = 0]
  /\ paused' = FALSE

\* A spec declares it: its cadence unless overridden, and back from retirement.
\* Only the fields that changed are saved.
SyncSpec(p, spec) ==
  LET row == proc[p].row
      cadence == IF row.overridden THEN row.cadence ELSE spec
      on == row.enabled \/ row.retired
      seed == on /\ (cadence # row.cadence \/ row.next = 0)
      saved == seed \/ row.retired \/ cadence # row.cadence
      reseed == seed \/ (saved /\ on /\ cadence # job.cadence) IN
  /\ job' = [job EXCEPT
               !.cadence = IF cadence # row.cadence THEN cadence ELSE @,
               !.enabled = @ \/ row.retired,
               !.retired = @ /\ ~row.retired,
               !.next = IF reseed THEN NextRun(cadence, clock) ELSE @]
  /\ paused' = (paused /\ ~row.retired)

SyncSave(p) ==
  /\ At(p, "sync")
  /\ \/ SyncRetire(p)
     \/ \E spec \in Cadences : SyncSpec(p, spec)
     \/ UNCHANGED <<job, paused>>
  /\ Stop(p)
  /\ UNCHANGED <<clock, runs, engine, rewound>>

-----------------------------------------------------------------------------
(* reconcile_run_outcomes *)

ReadQueued(p) ==
  /\ At(p, "idle") /\ QueuedRuns # {}
  /\ Goto(p, [Off EXCEPT !.pc = "promote", !.todo = QueuedRuns])
  /\ UNCHANGED <<clock, job, runs, engine, rewound, paused>>

\* The loop goes on with the runs left, or ends.
Onward(p, todo) ==
  IF todo = {} THEN Stop(p) ELSE Goto(p, [Off EXCEPT !.pc = "promote", !.todo = todo])

\* A run whose task is over takes its outcome, if that can be read.
Promote(p) ==
  LET r == Newest(proc[p].todo) IN
  /\ At(p, "promote")
  /\ \/ /\ engine[runs[r].task].status = "over"
        /\ runs' = [runs EXCEPT ![r].status = "over"]
     \/ UNCHANGED runs
  /\ Onward(p, proc[p].todo \ {r})
  /\ UNCHANGED <<clock, job, engine, rewound, paused>>

-----------------------------------------------------------------------------
(* The task engine and the clock, outside the app *)

\* A task's chain of attempts comes to an end; repair_missed_retries may take it
\* up again.
Settle(k) ==
  /\ \/ engine[k].status = "unfinished" /\ engine' = [engine EXCEPT ![k].status = "over"]
     \/ engine[k].status = "over" /\ engine' = [engine EXCEPT ![k].status = "unfinished"]
  /\ UNCHANGED <<clock, job, runs, proc, rewound, paused>>

Elapse ==
  /\ clock < MaxTime /\ clock' = clock + 1
  /\ UNCHANGED <<job, runs, engine, proc, rewound, paused>>

-----------------------------------------------------------------------------
\* A cadence that once computed may be broken by now: a zone gone from tzdata, an
\* update() past clean().
Init ==
  /\ clock = 0 /\ runs = << >> /\ engine = << >> /\ rewound = Never /\ paused = FALSE
  /\ \E s \in Settings, c \in Cadences \cup {"broken"} :
       job = [enabled |-> TRUE, retired |-> FALSE, overridden |-> FALSE, cadence |-> c,
              next |-> IF c = "broken" THEN Every ELSE NextRun(c, 0),
              overlap |-> s.overlap, catchup |-> s.catchup]
  /\ proc = [p \in Procs |-> Off]

TickStep(t) == Begin(t) \/ Claim(t) \/ Guard(t)
FireStep(p) == Fire(p) \/ Record(p) \/ Disable(p) \/ CountError(p)

Next ==
  \/ \E t \in Ticks : TickStep(t)
  \/ \E p \in Procs : FireStep(p) \/ Raise(p) \/ Crash(p)
  \/ \E p \in Requests : \/ RunNow(p) \/ Edit(p) \/ (At(p, "edit") /\ Save(p))
                          \/ SyncRead(p) \/ SyncSave(p) \/ ReadQueued(p) \/ Promote(p)
  \/ ResetSchedule \/ Elapse
  \/ \E k \in DOMAIN engine : Settle(k)

Spec == Init /\ [][Next]_vars

\* Cron or the beat loop keeps ticking, and a process that runs goes on.
Fairness == /\ \A t \in Ticks : WF_vars(TickStep(t))
            /\ \A p \in Procs : WF_vars(FireStep(p))
FairSpec == Spec /\ Fairness

-----------------------------------------------------------------------------
(* Properties *)

Rows == [enabled : BOOLEAN, retired : BOOLEAN, overridden : BOOLEAN, cadence : Kinds,
         next : Nat, overlap : BOOLEAN, catchup : {"run_once", "skip"}]

\* The type of the state, and: a queued run points at a task, and at one that
\* was enqueued for its slot.
TypeOK ==
  /\ clock \in 0..MaxTime
  /\ job \in Rows
  /\ \A r \in DOMAIN runs :
       /\ runs[r].status \in {"queued", "skipped", "over"}
       /\ runs[r].slot \in Nat /\ runs[r].at \in 0..clock
       /\ runs[r].task # 0 => /\ runs[r].task \in DOMAIN engine
                              /\ engine[runs[r].task].slot = runs[r].slot
       /\ runs[r].status = "queued" => runs[r].task # 0
  /\ \A p \in Procs : /\ proc[p].todo \subseteq DOMAIN runs
                       /\ proc[p].task \in {0} \cup DOMAIN engine

\* However many ticks overlap, the operator retunes the cadence and code syncs, no
\* slot is fired twice, unless a form that had loaded the row before a claim saved
\* it afterwards and so turned next_run_at back (services.py: "two concurrent
\* ticks can never double-fire the same schedule").
SlotFiresOnce ==
  /\ TypeOK
  /\ \A i, j \in DOMAIN engine :
       i # j /\ engine[i].slot = engine[j].slot /\ engine[i].slot # 0
         => rewound <= engine[i].slot

\* A dead worker never wedges a schedule: a fire is skipped for overlap only when
\* a task was enqueued within the stale threshold before its slot.
NeverWedged ==
  \A r \in DOMAIN runs :
    runs[r].status = "skipped" /\ job.catchup = "run_once"
      => \E q \in 1..(r - 1) : runs[q].task # 0 /\ runs[q].at + Stale >= runs[r].slot

\* However late the ticks come and however they overlap, a backlog fires once: of
\* two fires the later slot lies after the time of the tick that fired the earlier
\* one, unless a form turned next_run_at back that far (models.py, CatchUp: "Run
\* once, then resume").
BacklogFiresOnce ==
  \A k, l \in DOMAIN engine :
    k # l /\ engine[k].slot # 0 /\ engine[k].slot <= engine[l].slot
      => engine[l].slot > engine[k].now \/ rewound <= engine[l].slot

\* A slot once claimed leaves a run behind, whatever the enqueue and the record of
\* the queued run raise, as long as the process lives: a fire is lost without a run
\* only when the guard's query or the SKIPPED or FAILED record raised as well, which
\* the tick counts as an error.
ClaimedSlotLeavesARun ==
  \A t \in Ticks \ Mortal, s \in 1..MaxTime :
    (At(t, "guard") /\ proc[t].slot = s)
      ~> (\/ \E r \in DOMAIN runs : runs[r].slot = s
          \/ At(t, "raised") /\ proc[t].slot = s)

\* A due job is decided: it moves on to another time, or it is disabled; one that
\* raises is not left due for ever.
DueIsDecided ==
  \A s \in 1..MaxTime :
    (job.enabled /\ job.next = s /\ clock >= s) ~> (job.next # s \/ ~job.enabled)

\* What registry.py says: a job an operator disabled by hand stays off whatever
\* the sync does.  It does not hold; the README has the trace.
OperatorDisableSticks ==
  [][(paused /\ ~job.enabled /\ job'.enabled)
       => ~\E p \in Requests : At(p, "sync") /\ proc'[p] # proc[p]]_vars
=============================================================================
