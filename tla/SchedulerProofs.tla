-------------------------- MODULE SchedulerProofs --------------------------
(* Theorems about Scheduler, for any ticks, requests, cadences and clock. *)
EXTENDS Scheduler, SequenceTheorems, WellFoundedInduction, TLAPS

USE DEF Kinds
-----------------------------------------------------------------------------
(* A backlog fires once, and so does a slot.  Whoever claimed a slot moved      *)
(* next_run_at past the time of its tick, and nothing moves it back but a form  *)
(* that saves a row it loaded before: so what a process between its claim and   *)
(* its enqueue holds, and what a task was enqueued for, lies behind what is due. *)

Run == [status : {"queued", "skipped", "over"}, slot : Nat, task : Nat, at : Nat]
Task == [slot : Nat, now : Nat, status : {"unfinished", "over"}]
Proc == [pc : {"idle", "done", "claim", "guard", "fire", "record", "disable", "raised",
               "edit", "sync", "promote"},
         row : Rows \cup {NoRow} \cup [next : Nat, cadence : Kinds],
         now : Nat, slot : Nat, task : Nat,
         outcome : {"", "queued", "failed", "invalid"}, todo : SUBSET Nat]

Typed ==
  /\ clock \in 0..MaxTime /\ job \in Rows /\ rewound \in Nat
  /\ runs \in Seq(Run) /\ engine \in Seq(Task) /\ proc \in [Procs -> Proc]

\* What a run says of its task.
RunOK(r) ==
  /\ r.at <= clock
  /\ r.task # 0 => r.task \in DOMAIN engine /\ engine[r.task].slot = r.slot
  /\ r.status = "queued" => r.task # 0

\* What a process carries, by where it is.
Sound(x) ==
  /\ x.slot <= clock /\ x.now <= clock
  /\ x.task \in {0} \cup DOMAIN engine /\ x.todo \subseteq DOMAIN runs
  /\ x.pc = "claim" => x.row.next = x.slot /\ x.slot # 0 /\ x.slot <= x.now
                       /\ x.row.cadence \in Kinds
  /\ x.pc = "guard" => x.slot # 0 /\ x.slot <= x.now
  /\ x.pc \in {"claim", "guard", "fire"} => x.task = 0
  /\ x.pc = "record" =>
       /\ x.outcome # ""
       /\ IF x.outcome = "queued" THEN x.task # 0 /\ engine[x.task].slot = x.slot
                                  ELSE x.task = 0
  /\ x.pc \in {"edit", "sync"} => x.row \in Rows /\ x.row.catchup = job.catchup
  /\ x.pc = "promote" => x.todo # {} /\ \A r \in x.todo : runs[r].task # 0

\* next_run_at has left the instant behind, or was turned back.
Behind(n) == job.next = 0 \/ job.next > n \/ rewound <= job.next
\* The fire of slot s at n and the one of slot t are no two of one backlog.
Apart(s, n, t) == s # 0 /\ s <= t => t > n \/ rewound <= t
Held(p) == proc[p].pc \in {"guard", "fire"} /\ proc[p].slot # 0

EngineInv ==
  /\ \A k \in DOMAIN engine :
       engine[k].slot # 0 => /\ engine[k].slot <= engine[k].now
                             /\ engine[k].now <= clock /\ Behind(engine[k].now)
  /\ \A i, j \in DOMAIN engine :
       i # j => Apart(engine[i].slot, engine[i].now, engine[j].slot)

HeldInv ==
  /\ \A p \in Procs : Held(p) => proc[p].slot <= proc[p].now /\ Behind(proc[p].now)
  /\ \A k \in DOMAIN engine, p \in Procs :
       Held(p) => /\ Apart(engine[k].slot, engine[k].now, proc[p].slot)
                  /\ Apart(proc[p].slot, proc[p].now, engine[k].slot)
  /\ \A p, q \in Procs :
       p # q /\ Held(p) /\ Held(q) => Apart(proc[p].slot, proc[p].now, proc[q].slot)

SlotsInv == EngineInv /\ HeldInv

FireInv ==
  /\ Typed
  /\ \A r \in DOMAIN runs : RunOK(runs[r])
  /\ \A p \in Procs : Sound(proc[p])
  /\ SlotsInv

\* A run time that is computed is later than the instant it was computed from.
LEMMA NextRunLater ==
  ASSUME NEW c \in Kinds, NEW a \in Nat
  PROVE  NextRun(c, a) \in Nat /\ (NextRun(c, a) = 0 \/ NextRun(c, a) > a)
<1>1. CASE c = "once"  BY <1>1, SchedulerAssumption DEF NextRun
<1>2. CASE c = "interval"  BY <1>2, SchedulerAssumption DEF NextRun
<1>3. CASE c = "cron"
  <2>1. NextRun(c, a) = (a \div Every + 1) * Every  BY <1>3 DEF NextRun
  <2>2. a \div Every \in Nat  BY SchedulerAssumption
  <2>3. (a \div Every + 1) * Every \in Nat  BY <2>2, SchedulerAssumption
  <2>4. \A m, n \in Nat : n > 0 => (m \div n + 1) * n > m  BY Z3
  <2>5. (a \div Every + 1) * Every > a  BY <2>4, SchedulerAssumption
  <2>. QED  BY <2>1, <2>3, <2>5
<1>4. CASE c = "broken"  BY <1>4 DEF NextRun
<1>. QED  BY <1>1, <1>2, <1>3, <1>4

\* What every step leaves: time goes on, runs and tasks are only added, and a run is
\* at most found to be over.
Grow ==
  /\ clock' \in 0..MaxTime /\ clock <= clock'
  /\ job' \in Rows /\ job'.catchup = job.catchup
  /\ runs' \in Seq(Run) /\ Len(runs) <= Len(runs')
  /\ \A r \in DOMAIN runs :
       /\ runs'[r].task = runs[r].task /\ runs'[r].slot = runs[r].slot
       /\ runs'[r].at = runs[r].at
       /\ runs'[r].status = runs[r].status \/ runs'[r].status = "over"
  /\ engine' \in Seq(Task) /\ Len(engine) <= Len(engine')
  /\ \A k \in DOMAIN engine :
       engine'[k].slot = engine[k].slot /\ engine'[k].now = engine[k].now

\* How next_run_at moves: off, past the clock, or back no further than rewound says.
JobMoves ==
  job'.next \in {0, job.next} \/ job'.next > clock \/ rewound' <= job'.next

LEMMA Domains ==
  ASSUME Typed
  PROVE  /\ DOMAIN runs = 1..Len(runs) /\ Len(runs) \in Nat
         /\ DOMAIN engine = 1..Len(engine) /\ Len(engine) \in Nat
         /\ \A r \in DOMAIN runs : runs[r] \in Run
         /\ \A k \in DOMAIN engine : engine[k] \in Task
         /\ clock \in Nat /\ job.next \in Nat
         /\ \A p \in Procs : proc[p] \in Proc
<1>1. clock \in Nat /\ job.next \in Nat  BY SchedulerAssumption DEF Typed, Rows
<1>. QED  BY <1>1 DEF Typed

LEMMA DomainsGrow ==
  ASSUME Typed, Grow
  PROVE  /\ DOMAIN runs' = 1..Len(runs') /\ Len(runs') \in Nat
         /\ DOMAIN engine' = 1..Len(engine') /\ Len(engine') \in Nat
         /\ DOMAIN runs \subseteq DOMAIN runs' /\ DOMAIN engine \subseteq DOMAIN engine'
         /\ \A r \in DOMAIN runs' : runs'[r] \in Run
         /\ \A k \in DOMAIN engine' : engine'[k] \in Task
         /\ clock' \in Nat /\ job'.next \in Nat
<1>1. clock' \in Nat /\ job'.next \in Nat  BY SchedulerAssumption DEF Grow, Rows
<1>2. runs' \in Seq(Run) /\ engine' \in Seq(Task)  BY DEF Grow
<1>3. DOMAIN runs \subseteq DOMAIN runs' /\ DOMAIN engine \subseteq DOMAIN engine'
  BY <1>2, Domains DEF Grow
<1>. QED  BY <1>1, <1>2, <1>3

\* What held of a run and of a process that a step leaves alone still holds.
LEMMA GrowKeeps ==
  ASSUME FireInv, Grow
  PROVE  /\ \A r \in DOMAIN runs : RunOK(runs[r])'
         /\ \A x \in Proc : Sound(x) => Sound(x)'
<1>0. Typed /\ clock \in Nat /\ clock' \in Nat /\ clock <= clock'
  BY Domains, DomainsGrow DEF FireInv, Grow
<1>1. ASSUME NEW r \in DOMAIN runs PROVE RunOK(runs[r])'
  <2>1. RunOK(runs[r]) /\ runs[r] \in Run  BY <1>0, Domains DEF FireInv
  <2>2. /\ runs'[r].task = runs[r].task /\ runs'[r].slot = runs[r].slot
        /\ runs'[r].at = runs[r].at
        /\ runs'[r].status = runs[r].status \/ runs'[r].status = "over"
    BY DEF Grow
  <2>3. runs[r].at \in Nat  BY <2>1 DEF Run
  <2>4. runs'[r].at <= clock'  BY <1>0, <2>1, <2>2, <2>3 DEF RunOK
  <2>5. runs'[r].task # 0 =>
          runs'[r].task \in DOMAIN engine' /\ engine'[runs'[r].task].slot = runs'[r].slot
    BY <1>0, <2>1, <2>2, DomainsGrow DEF RunOK, Grow
  <2>. QED  BY <2>1, <2>2, <2>4, <2>5 DEF RunOK
<1>2. ASSUME NEW x \in Proc, Sound(x) PROVE Sound(x)'
  <2>1. x.slot \in Nat /\ x.now \in Nat  BY DEF Proc
  <2>0. x.slot <= clock /\ x.now <= clock  BY <1>2 DEF Sound
  <2>2. x.slot <= clock' /\ x.now <= clock'  BY <1>0, <2>0, <2>1
  <2>3. x.task \in {0} \cup DOMAIN engine' /\ x.todo \subseteq DOMAIN runs'
    BY <1>0, <1>2, DomainsGrow DEF Sound
  <2>4. x.task # 0 => engine'[x.task].slot = engine[x.task].slot
    BY <1>2 DEF Sound, Grow
  <2>5. \A r \in x.todo : runs'[r].task = runs[r].task
    BY <1>2 DEF Sound, Grow
  <2>6. job'.catchup = job.catchup  BY DEF Grow
  <2>. QED  BY <1>2, <2>2, <2>3, <2>4, <2>5, <2>6 DEF Sound
<1>. QED  BY <1>1, <1>2

LEMMA StepKeeps ==
  ASSUME FireInv, Grow, JobMoves, rewound' \in Nat, rewound' <= rewound,
         Len(engine') = Len(engine), proc' \in [Procs -> Proc],
         \A q \in Procs :
           \/ proc'[q] = proc[q]
           \/ /\ Sound(proc[q])'
              /\ proc'[q].pc \in {"guard", "fire"} /\ proc'[q].slot # 0
                   => /\ proc[q].pc \in {"guard", "fire"}
                      /\ proc'[q].slot = proc[q].slot /\ proc'[q].now = proc[q].now,
         \A r \in DOMAIN runs' \ DOMAIN runs : RunOK(runs[r])'
  PROVE  FireInv'
<1>1. Typed  BY DEF FireInv
<1>2. Typed'  BY DEF Typed, Grow
<1>3. \A r \in DOMAIN runs' : RunOK(runs[r])'  BY GrowKeeps
<1>4. ASSUME NEW q \in Procs PROVE Sound(proc[q])'
  <2>1. CASE proc'[q] = proc[q]
    <3>1. PICK x \in Proc : x = proc[q]  BY <1>1, Domains
    <3>2. Sound(x)'  BY <3>1, GrowKeeps DEF FireInv
    <3>. QED  BY <2>1, <3>1, <3>2 DEF Sound
  <2>. QED  BY <2>1
<1>5. \A q \in Procs : Held(q)' => /\ Held(q) /\ proc'[q].slot = proc[q].slot
                                   /\ proc'[q].now = proc[q].now
  BY DEF Held
<1>6. /\ DOMAIN engine' = DOMAIN engine
      /\ \A k \in DOMAIN engine :
           /\ engine'[k].slot = engine[k].slot /\ engine'[k].now = engine[k].now
           /\ engine[k].slot \in Nat /\ engine[k].now \in Nat
  BY <1>1, Domains, DomainsGrow DEF Grow, Task
<1>7. /\ rewound \in Nat /\ clock \in Nat /\ clock' \in Nat /\ clock <= clock'
      /\ job.next \in Nat /\ job'.next \in Nat
      /\ \A q \in Procs : /\ proc[q].slot \in Nat /\ proc[q].now \in Nat
                          /\ proc[q].now <= clock
  BY <1>1, Domains, DomainsGrow DEF Typed, Grow, Proc, FireInv, Sound
<1>8. \A n \in Nat : n <= clock /\ Behind(n) => Behind(n)'
  BY <1>7 DEF JobMoves, Behind
<1>9. \A s, n, t \in Nat : Apart(s, n, t) => Apart(s, n, t)'
  BY <1>7 DEF Apart
<1>10. EngineInv'
  <2>1. ASSUME NEW k \in DOMAIN engine', engine'[k].slot # 0
        PROVE  /\ engine'[k].slot <= engine'[k].now /\ engine'[k].now <= clock'
               /\ Behind(engine[k].now)'
    <3>1. PICK n \in Nat : n = engine[k].now /\ n = engine'[k].now  BY <1>6
    <3>2. engine[k].slot <= n /\ n <= clock /\ Behind(n)
      BY <1>6, <2>1, <3>1 DEF FireInv, SlotsInv, EngineInv
    <3>3. Behind(n)' /\ n <= clock'  BY <1>7, <1>8, <3>2
    <3>. QED  BY <1>6, <3>1, <3>2, <3>3 DEF Behind
  <2>2. ASSUME NEW i \in DOMAIN engine', NEW j \in DOMAIN engine', i # j
        PROVE  Apart(engine[i].slot, engine[i].now, engine[j].slot)'
    <3>1. PICK s \in Nat, n \in Nat, t \in Nat :
            s = engine[i].slot /\ n = engine[i].now /\ t = engine[j].slot
      BY <1>6
    <3>2. Apart(s, n, t)  BY <1>6, <2>2, <3>1 DEF FireInv, SlotsInv, EngineInv
    <3>3. Apart(s, n, t)'  BY <1>9, <3>2
    <3>. QED  BY <1>6, <3>1, <3>3 DEF Apart
  <2>. QED  BY <2>1, <2>2 DEF EngineInv
<1>11. HeldInv'
  <2>1. ASSUME NEW p \in Procs, Held(p)'
        PROVE  proc'[p].slot <= proc'[p].now /\ Behind(proc[p].now)'
    <3>1. PICK n \in Nat : n = proc[p].now  BY <1>7
    <3>2. proc[p].slot <= n /\ Behind(n) /\ n <= clock
      BY <1>5, <1>7, <2>1, <3>1 DEF FireInv, SlotsInv, HeldInv
    <3>3. Behind(n)'  BY <1>8, <3>2
    <3>. QED  BY <1>5, <2>1, <3>1, <3>2, <3>3 DEF Behind
  <2>2. ASSUME NEW k \in DOMAIN engine', NEW p \in Procs, Held(p)'
        PROVE  /\ Apart(engine[k].slot, engine[k].now, proc[p].slot)'
               /\ Apart(proc[p].slot, proc[p].now, engine[k].slot)'
    <3>1. PICK s \in Nat, n \in Nat, t \in Nat, m \in Nat :
            /\ s = engine[k].slot /\ n = engine[k].now
            /\ t = proc[p].slot /\ m = proc[p].now
      BY <1>6, <1>7
    <3>2. Apart(s, n, t) /\ Apart(t, m, s)
      BY <1>5, <1>6, <2>2, <3>1 DEF FireInv, SlotsInv, HeldInv
    <3>3. Apart(s, n, t)' /\ Apart(t, m, s)'  BY <1>9, <3>2
    <3>. QED  BY <1>5, <1>6, <2>2, <3>1, <3>3 DEF Apart
  <2>3. ASSUME NEW p \in Procs, NEW q \in Procs, p # q, Held(p)', Held(q)'
        PROVE  Apart(proc[p].slot, proc[p].now, proc[q].slot)'
    <3>1. PICK s \in Nat, n \in Nat, t \in Nat :
            s = proc[p].slot /\ n = proc[p].now /\ t = proc[q].slot
      BY <1>7
    <3>2. Apart(s, n, t)  BY <1>5, <2>3, <3>1 DEF FireInv, SlotsInv, HeldInv
    <3>3. Apart(s, n, t)'  BY <1>9, <3>2
    <3>. QED  BY <1>5, <2>3, <3>1, <3>3 DEF Apart
  <2>. QED  BY <2>1, <2>2, <2>3 DEF HeldInv
<1>. QED  BY <1>2, <1>3, <1>4, <1>10, <1>11 DEF FireInv, SlotsInv

\* One process moves to x, and claims nothing.
LEMMA MoveKeeps ==
  ASSUME FireInv, Grow, JobMoves, rewound' \in Nat, rewound' <= rewound,
         Len(engine') = Len(engine),
         NEW p \in Procs, NEW x \in Proc, Goto(p, x), Sound(x)',
         x.pc \in {"guard", "fire"} /\ x.slot # 0
           => proc[p].pc \in {"guard", "fire"} /\ x.slot = proc[p].slot /\ x.now = proc[p].now,
         \A r \in DOMAIN runs' \ DOMAIN runs : RunOK(runs[r])'
  PROVE  FireInv'
<1>1. proc \in [Procs -> Proc]  BY DEF FireInv, Typed
<1>2. proc' = [proc EXCEPT ![p] = x]  BY DEF Goto
<1>3. proc' \in [Procs -> Proc] /\ proc'[p] = x /\ \A q \in Procs : q # p => proc'[q] = proc[q]
  BY <1>1, <1>2
<1>4. Sound(proc[p])'  BY <1>3 DEF Sound
<1>. QED  BY <1>3, <1>4, StepKeeps

\* The state but for the row and the processes stays.
LEMMA GrowRow ==
  ASSUME FireInv, UNCHANGED <<clock, runs, engine>>, job' \in Rows, job'.catchup = job.catchup
  PROVE  Grow
<1>1. Typed /\ clock \in Nat  BY Domains DEF FireInv
<1>. QED  BY <1>1, Domains DEF Grow, Typed

\* A process that carries nothing is sound.
LEMMA Resting ==
  ASSUME FireInv, NEW x \in Proc, x.pc \in {"idle", "done", "fire", "disable", "raised"},
         x.slot = 0 \/ x.slot <= clock, x.now = 0, x.task = 0, x.todo = {}
  PROVE  Sound(x)
<1>1. 0 <= clock  BY Domains DEF FireInv
<1>2. x.slot <= clock /\ x.now <= clock  BY <1>1
<1>3. x.task \in {0} \cup DOMAIN engine /\ x.todo \subseteq DOMAIN runs  OBVIOUS
<1>4. x.pc \notin {"claim", "guard", "record", "edit", "sync", "promote"}  OBVIOUS
<1>. QED  BY <1>2, <1>3, <1>4 DEF Sound

LEMMA Stopped ==
  ASSUME FireInv, Grow, NEW p \in Procs, Stop(p)
  PROVE  \E x \in Proc : Goto(p, x) /\ Sound(x)' /\ x.pc \in {"idle", "done"}
<1>1. PICK x \in {Off, [Off EXCEPT !.pc = "done"]} : Goto(p, x)  BY DEF Stop
<1>2. /\ x \in Proc /\ x.pc \in {"idle", "done"}
      /\ x.slot = 0 /\ x.now = 0 /\ x.task = 0 /\ x.todo = {}
  <2>1. CASE x = Off  BY <2>1 DEF Off, Proc, NoRow
  <2>2. CASE x = [Off EXCEPT !.pc = "done"]  BY <2>2 DEF Off, Proc, NoRow
  <2>. QED  BY <2>1, <2>2
<1>3. Sound(x)  BY <1>2, Resting
<1>4. Sound(x)'  BY <1>2, <1>3, GrowKeeps
<1>. QED  BY <1>1, <1>2, <1>4

\* A process stops, and the rest of its step creates no task.
LEMMA StopKeeps ==
  ASSUME FireInv, Grow, JobMoves, rewound' \in Nat, rewound' <= rewound,
         Len(engine') = Len(engine), NEW p \in Procs, Stop(p),
         \A r \in DOMAIN runs' \ DOMAIN runs : RunOK(runs[r])'
  PROVE  FireInv'
<1>1. PICK x \in Proc : Goto(p, x) /\ Sound(x)' /\ x.pc \in {"idle", "done"}  BY Stopped
<1>. QED  BY <1>1, MoveKeeps

\* A process moves, or stops, and no more.
LEMMA AloneMoves ==
  ASSUME FireInv, UNCHANGED <<clock, job, runs, engine, rewound>>,
         NEW p \in Procs, NEW x \in Proc, Sound(x), Goto(p, x) \/ Stop(p),
         x.pc \in {"guard", "fire"} /\ x.slot # 0
           => proc[p].pc \in {"guard", "fire"} /\ x.slot = proc[p].slot /\ x.now = proc[p].now
  PROVE  FireInv'
<1>1. job \in Rows /\ rewound \in Nat  BY DEF FireInv, Typed
<1>2. Grow  BY <1>1, GrowRow
<1>3. JobMoves  BY DEF JobMoves
<1>4. Sound(x)'  BY <1>2, GrowKeeps
<1>5. \A r \in DOMAIN runs' \ DOMAIN runs : RunOK(runs[r])'  OBVIOUS
<1>. QED  BY <1>1, <1>2, <1>3, <1>4, <1>5, MoveKeeps, StopKeeps

LEMMA OffSound ==
  ASSUME FireInv
  PROVE  Off \in Proc /\ Sound(Off) /\ Off.pc = "idle"
<1>1. clock \in Nat  BY Domains DEF FireInv
<1>2. /\ Off \in Proc /\ Off.pc = "idle" /\ Off.slot = 0 /\ Off.now = 0 /\ Off.task = 0
      /\ Off.todo = {}
  BY DEF Off, Proc, NoRow
<1>. QED  BY <1>1, <1>2 DEF Sound

\* A tick takes the due row as it is; a request starts with nothing in hand, with the
\* row as it is, or with the runs that are queued.
LEMMA StartsKeep ==
  ASSUME FireInv, NEW p \in Procs,
         \/ (p \in Ticks /\ Begin(p))
         \/ RunNow(p) \/ Edit(p) \/ SyncRead(p) \/ ReadQueued(p)
  PROVE  FireInv'
<1>1. UNCHANGED <<clock, job, runs, engine, rewound>>
  BY DEF Begin, RunNow, Edit, SyncRead, ReadQueued
<1>2. /\ Typed /\ clock \in Nat /\ job.next \in Nat /\ job \in Rows
      /\ job.cadence \in Kinds
      /\ DOMAIN runs = 1..Len(runs) /\ Len(runs) \in Nat
  BY Domains DEF FireInv, Typed, Rows
<1>3. CASE Begin(p)
  <2> DEFINE r == [next |-> job.next, cadence |-> job.cadence]
             x == [Off EXCEPT !.pc = "claim", !.row = r, !.now = clock, !.slot = job.next]
  <2>1. r \in [next : Nat, cadence : Kinds] /\ r.next = job.next /\ r.cadence \in Kinds
    BY <1>2
  <2> HIDE DEF r
  <2>2. /\ x \in Proc /\ x.pc = "claim" /\ x.row = r /\ x.now = clock /\ x.slot = job.next
        /\ x.task = 0 /\ x.todo = {}
    BY <1>2, <2>1 DEF Off, Proc, NoRow
  <2>3. Goto(p, x) /\ job.next # 0 /\ job.next <= clock  BY <1>3 DEF Begin, r
  <2> HIDE DEF x
  <2>4. Sound(x)  BY <1>2, <2>1, <2>2, <2>3 DEF Sound
  <2>. QED  BY <1>1, <2>2, <2>3, <2>4, AloneMoves
<1>4. CASE RunNow(p)
  <2> DEFINE x == [Off EXCEPT !.pc = "fire"]
  <2>1. /\ x \in Proc /\ x.pc = "fire" /\ x.slot = 0 /\ x.now = 0 /\ x.task = 0 /\ x.todo = {}
    BY DEF Off, Proc, NoRow
  <2>2. Goto(p, x)  BY <1>4 DEF RunNow
  <2> HIDE DEF x
  <2>3. Sound(x)  BY <2>1, Resting
  <2>. QED  BY <1>1, <2>1, <2>2, <2>3, AloneMoves
<1>5. ASSUME NEW pc \in {"edit", "sync"}, Goto(p, [Off EXCEPT !.pc = pc, !.row = job])
      PROVE  FireInv'
  <2> DEFINE x == [Off EXCEPT !.pc = pc, !.row = job]
  <2>1. /\ x \in Proc /\ x.pc = pc /\ x.row = job /\ x.slot = 0 /\ x.now = 0 /\ x.task = 0
        /\ x.todo = {}
    BY <1>2 DEF Off, Proc, NoRow
  <2>2. Goto(p, x)  BY <1>5
  <2> HIDE DEF x
  <2>3. x.slot <= clock /\ x.now <= clock  BY <1>2, <2>1
  <2>4. x.row \in Rows /\ x.row.catchup = job.catchup  BY <1>2, <2>1
  <2>5. x.pc \notin {"claim", "guard", "fire", "record", "promote"}  BY <2>1
  <2>6. Sound(x)  BY <2>1, <2>3, <2>4, <2>5 DEF Sound
  <2>. QED  BY <1>1, <2>1, <2>2, <2>6, AloneMoves
<1>6. CASE Edit(p) \/ SyncRead(p)  BY <1>5, <1>6 DEF Edit, SyncRead
<1>7. CASE ReadQueued(p)
  <2> DEFINE x == [Off EXCEPT !.pc = "promote", !.todo = QueuedRuns]
  <2>1. /\ QueuedRuns \subseteq DOMAIN runs /\ QueuedRuns # {}
        /\ \A r \in QueuedRuns : runs[r].task # 0
    BY <1>7 DEF ReadQueued, QueuedRuns, FireInv, RunOK
  <2>2. QueuedRuns \in SUBSET Nat  BY <1>2, <2>1
  <2>3. /\ x \in Proc /\ x.pc = "promote" /\ x.todo = QueuedRuns /\ x.slot = 0 /\ x.now = 0
        /\ x.task = 0
    BY <2>2 DEF Off, Proc, NoRow
  <2>4. Goto(p, x)  BY <1>7 DEF ReadQueued
  <2> HIDE DEF x
  <2>5. Sound(x)  BY <1>2, <2>1, <2>3 DEF Sound
  <2>. QED  BY <1>1, <2>3, <2>4, <2>5, AloneMoves
<1>. QED  BY <1>3, <1>4, <1>6, <1>7

\* The row alone is written, and no process or one stops.
LEMMA RowWritten ==
  ASSUME FireInv, UNCHANGED <<clock, runs, engine>>, job' \in Rows,
         job'.catchup = job.catchup, JobMoves, rewound' \in Nat, rewound' <= rewound,
         UNCHANGED proc \/ \E p \in Procs : Stop(p)
  PROVE  FireInv'
<1>1. Grow  BY GrowRow
<1>2. \A r \in DOMAIN runs' \ DOMAIN runs : RunOK(runs[r])'  OBVIOUS
<1>3. CASE UNCHANGED proc
  <2>1. proc' \in [Procs -> Proc]  BY <1>3 DEF FireInv, Typed
  <2>. QED  BY <1>1, <1>2, <1>3, <2>1, StepKeeps
<1>. QED  BY <1>1, <1>2, <1>3, StopKeeps

LEMMA DisableKeeps ==
  ASSUME FireInv, NEW p \in Procs, Disable(p) \/ CountError(p) \/ Crash(p)
  PROVE  FireInv'
<1>1. job \in Rows /\ rewound \in Nat  BY DEF FireInv, Typed
<1>2. /\ job' = job \/ job' = [job EXCEPT !.enabled = FALSE]
      /\ Stop(p) /\ UNCHANGED <<clock, runs, engine, rewound>>
  BY DEF Disable, CountError, Crash
<1>3. job' \in Rows /\ job'.next = job.next /\ job'.catchup = job.catchup
  BY <1>1, <1>2 DEF Rows
<1>. QED  BY <1>1, <1>2, <1>3, RowWritten DEF JobMoves

LEMMA RaiseKeeps ==
  ASSUME FireInv, NEW p \in Procs, Raise(p)
  PROVE  FireInv'
<1>1. proc[p] \in Proc /\ Sound(proc[p]) /\ clock \in Nat  BY Domains DEF FireInv
<1>2. proc[p].slot \in Nat /\ proc[p].slot <= clock  BY <1>1 DEF Sound, Proc
<1> DEFINE x == [Off EXCEPT !.pc = "raised", !.slot = proc[p].slot]
<1>3. /\ x \in Proc /\ x.pc = "raised" /\ x.slot = proc[p].slot /\ x.now = 0 /\ x.task = 0
      /\ x.todo = {}
  BY <1>1, <1>2 DEF Off, Proc, NoRow
<1>4. Goto(p, x) /\ UNCHANGED <<clock, job, runs, engine, rewound>>  BY DEF Raise
<1> HIDE DEF x
<1>5. Sound(x)  BY <1>2, <1>3, Resting
<1>. QED  BY <1>3, <1>4, <1>5, AloneMoves

LEMMA ResetKeeps ==
  ASSUME FireInv, ResetSchedule
  PROVE  FireInv'
<1>1. job \in Rows /\ rewound \in Nat  BY DEF FireInv, Typed
<1>2. /\ job' = [job EXCEPT !.overridden = FALSE]
      /\ UNCHANGED <<clock, runs, engine, rewound, proc>>
  BY DEF ResetSchedule
<1>3. job' \in Rows /\ job'.next = job.next /\ job'.catchup = job.catchup
  BY <1>1, <1>2 DEF Rows
<1>. QED  BY <1>1, <1>2, <1>3, RowWritten DEF JobMoves

\* A sync takes next_run_at away, leaves it, or sets it past the clock.
LEMMA SyncKeeps ==
  ASSUME FireInv, NEW p \in Procs, SyncSave(p)
  PROVE  FireInv'
<1>1. job \in Rows /\ rewound \in Nat /\ clock \in Nat /\ proc[p] \in Proc /\ Sound(proc[p])
  BY Domains DEF FireInv, Typed
<1>2. Stop(p) /\ UNCHANGED <<clock, runs, engine, rewound>> /\ proc[p].pc = "sync"
  BY DEF SyncSave, At
<1>3. proc[p].row \in Rows  BY <1>1, <1>2 DEF Sound
<1>4. CASE SyncRetire(p)
  <2>1. job' = [job EXCEPT !.enabled = FALSE, !.retired = TRUE, !.next = 0]
    BY <1>4 DEF SyncRetire
  <2>2. job' \in Rows /\ job'.next = 0 /\ job'.catchup = job.catchup
    BY <1>1, <2>1 DEF Rows
  <2>. QED  BY <1>1, <1>2, <2>2, RowWritten DEF JobMoves
<1>5. ASSUME NEW spec \in Cadences, SyncSpec(p, spec) PROVE FireInv'
  <2>1. PICK cadence \in Kinds, c \in Kinds, e \in BOOLEAN, r \in BOOLEAN,
             n \in Nat :
          /\ n \in {job.next, NextRun(cadence, clock)}
          /\ job' = [job EXCEPT !.cadence = c, !.enabled = e, !.retired = r, !.next = n]
    <3> DEFINE row == proc[p].row
               cadence == IF row.overridden THEN row.cadence ELSE spec
               on == row.enabled \/ row.retired
               seed == on /\ (cadence # row.cadence \/ row.next = 0)
               saved == seed \/ row.retired \/ cadence # row.cadence
               reseed == seed \/ (saved /\ on /\ cadence # job.cadence)
               c == IF cadence # row.cadence THEN cadence ELSE job.cadence
               e == job.enabled \/ row.retired
               r == job.retired /\ ~row.retired
               n == IF reseed THEN NextRun(cadence, clock) ELSE job.next
    <3>1. cadence \in Kinds /\ c \in Kinds /\ e \in BOOLEAN /\ r \in BOOLEAN
      BY <1>1, <1>3, SchedulerAssumption DEF Rows
    <3>2. job' = [job EXCEPT !.cadence = c, !.enabled = e, !.retired = r, !.next = n]
      BY <1>5 DEF SyncSpec
    <3>3. n \in Nat /\ n \in {job.next, NextRun(cadence, clock)}
      BY <1>1, <3>1, NextRunLater DEF Rows
    <3> HIDE DEF cadence, c, e, r, n
    <3>. QED  BY <3>1, <3>2, <3>3
  <2>2. n \in Nat /\ (n = job.next \/ n = 0 \/ n > clock)
    BY <1>1, <2>1, NextRunLater DEF Rows
  <2>3. job' \in Rows /\ job'.next = n /\ job'.catchup = job.catchup
    BY <1>1, <2>1, <2>2 DEF Rows
  <2>. QED  BY <1>1, <1>2, <2>2, <2>3, RowWritten DEF JobMoves
<1>6. CASE UNCHANGED <<job, paused>>
  BY <1>1, <1>2, <1>6, RowWritten DEF JobMoves
<1>. QED  BY <1>4, <1>5, <1>6 DEF SyncSave

\* A form turns next_run_at back to where it saw it, and rewound says so.
LEMMA SaveKeeps ==
  ASSUME FireInv, NEW p \in Procs, At(p, "edit"), Save(p)
  PROVE  FireInv'
<1>1. job \in Rows /\ rewound \in Nat /\ clock \in Nat /\ proc[p] \in Proc /\ Sound(proc[p])
  BY Domains DEF FireInv, Typed
<1>2. PICK row \in Rows : row = proc[p].row /\ row.catchup = job.catchup
  BY <1>1 DEF At, Sound
<1>3. PICK e \in BOOLEAN, c \in Kinds, n \in Nat, o \in BOOLEAN :
        /\ n = IF e /\ (row.next = 0 \/ c # job.cadence) THEN NextRun(c, clock) ELSE row.next
        /\ job' = [row EXCEPT !.enabled = e, !.cadence = c, !.next = n, !.overridden = o]
        /\ rewound' = IF n = row.next /\ n \notin {0, job.next} /\ n < rewound
                      THEN n ELSE rewound
  <2>1. PICK e \in BOOLEAN, c \in Cadences \cup ({proc[p].row.cadence} \ {"broken"}) :
          /\ job' = [proc[p].row EXCEPT !.enabled = e, !.cadence = c,
                       !.next = IF e /\ (proc[p].row.next = 0 \/ c # job.cadence)
                                THEN NextRun(c, clock) ELSE proc[p].row.next,
                       !.overridden = @ \/ c # job.cadence]
          /\ rewound' = LET n == IF e /\ (proc[p].row.next = 0 \/ c # job.cadence)
                                 THEN NextRun(c, clock) ELSE proc[p].row.next IN
                        IF n = proc[p].row.next /\ n \notin {0, job.next} /\ n < rewound
                        THEN n ELSE rewound
    BY DEF Save
  <2> DEFINE n == IF e /\ (row.next = 0 \/ c # job.cadence)
                  THEN NextRun(c, clock) ELSE row.next
             o == row.overridden \/ c # job.cadence
  <2>2. o \in BOOLEAN  OBVIOUS
  <2>3. job' = [row EXCEPT !.enabled = e, !.cadence = c, !.next = n,
                           !.overridden = o]
    BY <1>2, <2>1 DEF Rows
  <2>4. rewound' = IF n = row.next /\ n \notin {0, job.next} /\ n < rewound
                   THEN n ELSE rewound
    BY <1>2, <2>1
  <2>5. /\ n = IF e /\ (row.next = 0 \/ c # job.cadence)
              THEN NextRun(c, clock) ELSE row.next
        /\ c \in Kinds
    BY <1>2, SchedulerAssumption DEF Rows
  <2>6. n \in Nat  BY <1>1, <1>2, <2>5, NextRunLater DEF Rows
  <2> HIDE DEF n, o
  <2>. QED  BY <2>2, <2>3, <2>4, <2>5, <2>6
<1>4. c \in Kinds /\ row.next \in Nat  BY <1>2, <1>3 DEF Rows
<1>5. n \in Nat /\ (n = row.next \/ n = 0 \/ n > clock)
  BY <1>1, <1>3, <1>4, NextRunLater
<1>6. rewound' \in Nat /\ rewound' <= rewound  BY <1>1, <1>3, <1>5
<1>7. job' \in Rows /\ job'.next = n /\ job'.catchup = job.catchup
  BY <1>2, <1>3, <1>4, <1>5 DEF Rows
<1>8. JobMoves
  <2>1. job.next \in Nat  BY <1>1 DEF Rows
  <2>. QED  BY <1>1, <1>3, <1>5, <1>7, <2>1 DEF JobMoves
<1>9. Stop(p) /\ UNCHANGED <<clock, runs, engine>>  BY DEF Save
<1>. QED  BY <1>6, <1>7, <1>8, <1>9, RowWritten

\* The engine and the clock.
LEMMA OutsideKeeps ==
  ASSUME FireInv, Elapse \/ \E k \in DOMAIN engine : Settle(k)
  PROVE  FireInv'
<1>1. /\ Typed /\ job \in Rows /\ rewound \in Nat /\ clock \in Nat
      /\ proc \in [Procs -> Proc] /\ runs \in Seq(Run) /\ engine \in Seq(Task)
      /\ clock \in 0..MaxTime
  BY Domains DEF FireInv, Typed
<1>2. UNCHANGED <<job, runs, proc, rewound>>  BY DEF Elapse, Settle
<1>3. CASE Elapse
  <2>1. clock' \in 0..MaxTime /\ clock <= clock' /\ UNCHANGED engine
    BY <1>1, <1>3, SchedulerAssumption DEF Elapse
  <2>2. Grow  BY <1>1, <1>2, <2>1, Domains DEF Grow
  <2>. QED  BY <1>1, <1>2, <2>1, <2>2, StepKeeps DEF JobMoves
<1>4. ASSUME NEW k \in DOMAIN engine, Settle(k) PROVE FireInv'
  <2>1. PICK st \in {"unfinished", "over"} : engine' = [engine EXCEPT ![k].status = st]
    BY <1>4 DEF Settle
  <2>2. PICK t \in Task : t = engine[k]  BY <1>1, Domains
  <2>3. [t EXCEPT !.status = st] \in Task /\ [t EXCEPT !.status = st].slot = t.slot
        /\ [t EXCEPT !.status = st].now = t.now
    BY DEF Task
  <2>4. engine' = [engine EXCEPT ![k] = [t EXCEPT !.status = st]]  BY <2>1, <2>2
  <2>5. engine' \in Seq(Task) /\ Len(engine') = Len(engine)
    BY <1>1, <2>3, <2>4
  <2>6. \A j \in DOMAIN engine :
          engine'[j].slot = engine[j].slot /\ engine'[j].now = engine[j].now
    BY <2>2, <2>3, <2>4
  <2>7. clock' = clock  BY <1>4 DEF Settle
  <2>8. Grow  BY <1>1, <1>2, <2>5, <2>6, <2>7, Domains DEF Grow
  <2>. QED  BY <1>1, <1>2, <2>5, <2>8, StepKeeps DEF JobMoves
<1>. QED  BY <1>3, <1>4

\* A run is added, or none; each clause a process may then be in is Sound.
LEMMA GrowRuns ==
  ASSUME FireInv, UNCHANGED <<clock, job, engine, rewound>>,
         NEW r \in Run, RunOK(r), runs' = Append(runs, r) \/ runs' = runs
  PROVE  /\ Grow /\ JobMoves /\ rewound' \in Nat /\ rewound' <= rewound
         /\ \A k \in DOMAIN runs' \ DOMAIN runs : RunOK(runs[k])'
<1>1. /\ Typed /\ job \in Rows /\ rewound \in Nat /\ clock \in Nat
      /\ clock \in 0..MaxTime
      /\ runs \in Seq(Run) /\ engine \in Seq(Task)
      /\ DOMAIN runs = 1..Len(runs) /\ Len(runs) \in Nat
  BY Domains DEF FireInv, Typed
<1>2. /\ runs' \in Seq(Run) /\ Len(runs) <= Len(runs')
      /\ \A k \in DOMAIN runs : runs'[k] = runs[k]
      /\ \A k \in DOMAIN runs' \ DOMAIN runs : runs'[k] = r
  <2>1. CASE runs' = Append(runs, r)
    <3>1. runs' \in Seq(Run) /\ Len(runs') = Len(runs) + 1
      BY <1>1, <2>1
    <3>2. DOMAIN runs' = 1..(Len(runs) + 1)  BY <3>1
    <3>3. \A k \in 1..Len(runs) : runs'[k] = runs[k]  BY <1>1, <2>1
    <3>4. runs'[Len(runs) + 1] = r  BY <1>1, <2>1
    <3>. QED  BY <1>1, <3>1, <3>2, <3>3, <3>4
  <2>2. CASE runs' = runs  BY <1>1, <2>2
  <2>. QED  BY <2>1, <2>2
<1>3. Grow  BY <1>1, <1>2 DEF Grow
<1>4. JobMoves  BY DEF JobMoves
<1>5. RunOK(r)'  BY DEF RunOK
<1>6. \A k \in DOMAIN runs' \ DOMAIN runs : RunOK(runs[k])'
  BY <1>2, <1>5 DEF RunOK
<1>. QED  BY <1>1, <1>3, <1>4, <1>6

LEMMA RunRowFacts ==
  ASSUME FireInv, NEW p \in Procs, NEW st \in {"queued", "skipped", "over"},
         st = "queued" => proc[p].task # 0,
         proc[p].task # 0 => engine[proc[p].task].slot = proc[p].slot
  PROVE  RunRow(p, st) \in Run /\ RunOK(RunRow(p, st))
<1>1. proc[p] \in Proc /\ Sound(proc[p]) /\ clock \in Nat  BY Domains DEF FireInv
<1>2. proc[p].slot \in Nat /\ proc[p].task \in Nat  BY <1>1 DEF Proc
<1>3. proc[p].task \in {0} \cup DOMAIN engine  BY <1>1 DEF Sound
<1>4. RunRow(p, st) \in Run  BY <1>1, <1>2 DEF RunRow, Run
<1>5. RunOK(RunRow(p, st))  BY <1>1, <1>3 DEF RunRow, RunOK
<1>. QED  BY <1>4, <1>5

LEMMA GuardKeeps ==
  ASSUME FireInv, NEW p \in Procs, Guard(p)
  PROVE  FireInv'
<1>1. proc[p] \in Proc /\ Sound(proc[p]) /\ proc[p].pc = "guard"
  BY Domains DEF FireInv, Guard, At
<1>2. UNCHANGED <<clock, job, engine, rewound>>  BY DEF Guard
<1>3. /\ proc[p].task = 0 /\ proc[p].slot # 0 /\ proc[p].slot <= clock /\ proc[p].slot \in Nat
      /\ proc[p].now <= clock /\ proc[p].now \in Nat
  BY <1>1 DEF Sound, Proc
<1>4. RunRow(p, "skipped") \in Run /\ RunOK(RunRow(p, "skipped"))  BY <1>3, RunRowFacts
<1>5. CASE runs' = Append(runs, RunRow(p, "skipped")) /\ Stop(p)
  BY <1>2, <1>4, <1>5, GrowRuns, StopKeeps
<1>6. CASE /\ UNCHANGED runs
           /\ Goto(p, [Off EXCEPT !.pc = "fire", !.slot = proc[p].slot, !.now = proc[p].now])
  <2> DEFINE x == [Off EXCEPT !.pc = "fire", !.slot = proc[p].slot, !.now = proc[p].now]
  <2>1. /\ x \in Proc /\ x.pc = "fire" /\ x.slot = proc[p].slot /\ x.now = proc[p].now
        /\ x.task = 0
        /\ x.todo = {}
    BY <1>3 DEF Off, Proc, NoRow
  <2>2. Goto(p, x)  BY <1>6
  <2> HIDE DEF x
  <2>3. x.slot <= clock /\ x.now <= clock  BY <1>3, <2>1, Domains DEF FireInv
  <2>4. Sound(x)  BY <2>1, <2>3 DEF Sound
  <2>. QED  BY <1>1, <1>2, <1>6, <2>1, <2>2, <2>4, AloneMoves
<1>. QED  BY <1>5, <1>6 DEF Guard

\* What Fails leaves.
LEMMA FailsKeep ==
  ASSUME FireInv, UNCHANGED <<clock, job, engine, rewound>>,
         NEW r \in Run, RunOK(r), runs' = Append(runs, r) \/ runs' = runs,
         NEW p \in Procs, NEW o \in {"failed", "invalid"}, Fails(p, o)
  PROVE  FireInv'
<1>1. /\ Grow /\ JobMoves /\ rewound' \in Nat /\ rewound' <= rewound
      /\ \A k \in DOMAIN runs' \ DOMAIN runs : RunOK(runs[k])'
  BY GrowRuns
<1>2. CASE Stop(p)  BY <1>1, <1>2, StopKeeps
<1>3. CASE Goto(p, [proc[p] EXCEPT !.pc = "record", !.task = 0, !.outcome = o])
  <2>1. PICK y \in Proc : y = proc[p] /\ Sound(y)  BY Domains DEF FireInv
  <2> DEFINE x == [y EXCEPT !.pc = "record", !.task = 0, !.outcome = o]
  <2>2. /\ x \in Proc /\ x.pc = "record" /\ x.slot = y.slot /\ x.now = y.now /\ x.task = 0
        /\ x.todo = y.todo /\ x.outcome = o
    BY DEF Proc
  <2>3. Goto(p, x)  BY <1>3, <2>1
  <2> HIDE DEF x
  <2>4. Sound(x)  BY <2>1, <2>2 DEF Sound
  <2>5. Sound(x)'  BY <1>1, <2>2, <2>4, GrowKeeps
  <2>. QED  BY <1>1, <2>2, <2>3, <2>5, MoveKeeps
<1>. QED  BY <1>2, <1>3 DEF Fails

\* What _record writes is never a skipped fire.
LEMMA RecordRow ==
  ASSUME FireInv, NEW p \in Procs, Record(p)
  PROVE  /\ proc[p].outcome \in {"queued", "failed", "invalid"}
         /\ \E r \in Run : /\ RunOK(r) /\ r.status # "skipped"
                           /\ runs' = Append(runs, r) \/ runs' = runs
<1>1. proc[p] \in Proc /\ Sound(proc[p]) /\ proc[p].pc = "record"
  BY Domains DEF FireInv, Record, At
<1>2. /\ proc[p].outcome \in {"queued", "failed", "invalid"}
      /\ proc[p].task # 0 => engine[proc[p].task].slot = proc[p].slot
      /\ proc[p].outcome = "queued" => proc[p].task # 0
  BY <1>1 DEF Sound, Proc
<1>3. RunStatus(p) \in {"queued", "over"} /\ (RunStatus(p) = "queued" => proc[p].task # 0)
  BY <1>2 DEF RunStatus
<1>4. RunRow(p, RunStatus(p)) \in Run /\ RunOK(RunRow(p, RunStatus(p)))
  BY <1>2, <1>3, RunRowFacts
<1>5. RunRow(p, RunStatus(p)).status # "skipped"  BY <1>3 DEF RunRow
<1>6. runs' = Append(runs, RunRow(p, RunStatus(p))) \/ runs' = runs  BY DEF Record
<1>. QED  BY <1>2, <1>4, <1>5, <1>6

LEMMA RecordKeeps ==
  ASSUME FireInv, NEW p \in Procs, Record(p)
  PROVE  FireInv'
<1>1. proc[p].outcome \in {"queued", "failed", "invalid"}  BY RecordRow
<1>2. UNCHANGED <<clock, job, engine, rewound>>  BY DEF Record
<1>3. PICK r \in Run : RunOK(r) /\ (runs' = Append(runs, r) \/ runs' = runs)  BY RecordRow
<1>4. Stop(p) \/ Fails(p, "failed") \/ Goto(p, [Off EXCEPT !.pc = "disable"])
  BY <1>1 DEF Record
<1>5. /\ Grow /\ JobMoves /\ rewound' \in Nat /\ rewound' <= rewound
      /\ \A k \in DOMAIN runs' \ DOMAIN runs : RunOK(runs[k])'
  BY <1>2, <1>3, GrowRuns
<1>6. CASE Stop(p)  BY <1>2, <1>5, <1>6, StopKeeps
<1>7. CASE Fails(p, "failed")  BY <1>2, <1>3, <1>7, FailsKeep
<1>8. CASE Goto(p, [Off EXCEPT !.pc = "disable"])
  <2> DEFINE x == [Off EXCEPT !.pc = "disable"]
  <2>1. /\ x \in Proc /\ x.pc = "disable" /\ x.slot = 0 /\ x.now = 0 /\ x.task = 0
        /\ x.todo = {}
    BY DEF Off, Proc, NoRow
  <2>2. Goto(p, x)  BY <1>8
  <2> HIDE DEF x
  <2>3. Sound(x)  BY <2>1, Resting
  <2>4. Sound(x)'  BY <1>5, <2>1, <2>3, GrowKeeps
  <2>. QED  BY <1>2, <1>5, <2>1, <2>2, <2>4, MoveKeeps
<1>. QED  BY <1>4, <1>6, <1>7, <1>8

\* A nonempty set of positions has a last one, which Newest picks.
LEMMA NewestIsIn ==
  ASSUME NEW N \in Nat, NEW T \in SUBSET (1..N), T # {}
  PROVE  Newest(T) \in T /\ \A n \in T : n <= Newest(T)
<1> DEFINE U == {k \in Nat : N - k \in T}
<1>0. PICK t \in T : TRUE  OBVIOUS
<1>1. t \in 1..N /\ N - t \in Nat /\ N - (N - t) = t  OBVIOUS
<1>2. N - t \in U  BY <1>1
<1>3. PICK u \in U : \A k \in U : <<k, u>> \notin OpToRel(<, Nat)
  BY <1>2, WFMin, NatLessThanWellFounded, Zenon
<1>4. \A k \in U : ~(k < u)
  <2>1. \A k \in U : k \in Nat  OBVIOUS
  <2> HIDE DEF U
  <2>. QED  BY <1>3, <2>1, Zenon DEF OpToRel
<1>5. N - u \in T  OBVIOUS
<1>6. ASSUME NEW n \in T PROVE n <= N - u
  <2>1. n \in 1..N /\ N - n \in Nat /\ N - (N - n) = n  OBVIOUS
  <2>2. N - n \in U  BY <2>1
  <2>3. ~(N - n < u) /\ u \in Nat  BY <1>4, <2>2
  <2>. QED  BY <2>1, <2>3
<1> HIDE DEF U
<1>. QED  BY <1>5, <1>6 DEF Newest

\* A promotion finds a run to be over, and nothing else.
LEMMA PromoteGrows ==
  ASSUME FireInv, NEW p \in Procs, Promote(p)
  PROVE  /\ Grow /\ DOMAIN runs' = DOMAIN runs
         /\ \E k \in proc[p].todo : Onward(p, proc[p].todo \ {k})
<1>1. /\ Typed /\ job \in Rows /\ rewound \in Nat /\ clock \in Nat
      /\ runs \in Seq(Run) /\ engine \in Seq(Task) /\ clock \in 0..MaxTime
      /\ DOMAIN runs = 1..Len(runs) /\ Len(runs) \in Nat
      /\ proc[p] \in Proc /\ Sound(proc[p]) /\ proc[p].pc = "promote"
      /\ \A r \in DOMAIN runs : RunOK(runs[r])
  BY Domains DEF FireInv, Typed, Promote, At
<1>2. PICK todo \in SUBSET (DOMAIN runs) :
        todo = proc[p].todo /\ todo # {} /\ \A r \in todo : runs[r].task # 0
  BY <1>1 DEF Sound
<1>3. PICK k \in todo : k = Newest(todo)  BY <1>1, <1>2, NewestIsIn
<1>4. runs' = runs \/ runs' = [runs EXCEPT ![k].status = "over"]
  BY <1>2, <1>3 DEF Promote
<1>5. runs = [runs EXCEPT ![k].status = runs[k].status]  BY <1>1, <1>3, Domains DEF Run
<1>6. PICK st \in {runs[k].status, "over"} : runs' = [runs EXCEPT ![k].status = st]
  BY <1>4, <1>5
<1>7. PICK t \in Run : t = runs[k]  BY <1>1, <1>3, Domains
<1>8. /\ [t EXCEPT !.status = st] \in Run
      /\ [t EXCEPT !.status = st].slot = t.slot /\ [t EXCEPT !.status = st].task = t.task
      /\ [t EXCEPT !.status = st].at = t.at /\ [t EXCEPT !.status = st].status = st
  BY <1>6, <1>7 DEF Run
<1>9. runs' = [runs EXCEPT ![k] = [t EXCEPT !.status = st]]  BY <1>6, <1>7
<1>10. UNCHANGED <<clock, job, engine, rewound>>  BY DEF Promote
<1>11. runs' \in Seq(Run) /\ Len(runs') = Len(runs) /\ DOMAIN runs' = DOMAIN runs
  BY <1>1, <1>8, <1>9
<1>12. \A r \in DOMAIN runs :
         /\ runs'[r].task = runs[r].task /\ runs'[r].slot = runs[r].slot
         /\ runs'[r].at = runs[r].at
         /\ runs'[r].status = runs[r].status \/ runs'[r].status = "over"
  BY <1>6, <1>7, <1>8, <1>9
<1>13. Grow  BY <1>1, <1>10, <1>11, <1>12 DEF Grow
<1>14. Onward(p, todo \ {k})  BY <1>2, <1>3 DEF Promote
<1>. QED  BY <1>2, <1>11, <1>13, <1>14

LEMMA PromoteKeeps ==
  ASSUME FireInv, NEW p \in Procs, Promote(p)
  PROVE  FireInv'
<1>1. /\ Typed /\ rewound \in Nat /\ clock \in Nat
      /\ DOMAIN runs = 1..Len(runs) /\ Len(runs) \in Nat
      /\ Sound(proc[p]) /\ proc[p].pc = "promote"
  BY Domains DEF FireInv, Typed, Promote, At
<1>2. PICK todo \in SUBSET (DOMAIN runs) :
        todo = proc[p].todo /\ \A r \in todo : runs[r].task # 0
  BY <1>1 DEF Sound
<1>3. PICK k \in todo : Onward(p, todo \ {k})  BY <1>2, PromoteGrows
<1>4. Grow /\ \A r \in DOMAIN runs' \ DOMAIN runs : RunOK(runs[r])'  BY PromoteGrows
<1>5. UNCHANGED <<clock, job, engine, rewound>>  BY DEF Promote
<1>6. CASE Stop(p)
  BY <1>1, <1>4, <1>5, <1>6, StopKeeps DEF JobMoves
<1>7. CASE todo \ {k} # {} /\ Goto(p, [Off EXCEPT !.pc = "promote", !.todo = todo \ {k}])
  <2> DEFINE x == [Off EXCEPT !.pc = "promote", !.todo = todo \ {k}]
  <2>1. todo \ {k} \in SUBSET Nat  BY <1>1
  <2>2. /\ x \in Proc /\ x.pc = "promote" /\ x.todo = todo \ {k} /\ x.slot = 0 /\ x.now = 0
        /\ x.task = 0
    BY <2>1 DEF Off, Proc, NoRow
  <2>3. Goto(p, x)  BY <1>7
  <2> HIDE DEF x
  <2>4. x.slot <= clock /\ x.now <= clock  BY <1>1, <2>2
  <2>5. x.todo \subseteq DOMAIN runs /\ x.todo # {} /\ \A r \in x.todo : runs[r].task # 0
    BY <1>2, <1>7, <2>2
  <2>6. Sound(x)  BY <2>2, <2>4, <2>5 DEF Sound
  <2>7. Sound(x)'  BY <1>4, <2>2, <2>6, GrowKeeps
  <2>. QED  BY <1>1, <1>4, <1>5, <2>2, <2>3, <2>7, MoveKeeps DEF JobMoves
<1>. QED  BY <1>3, <1>6, <1>7 DEF Onward

\* The claim: the slot observed is still due, so it lies past every earlier fire;
\* next_run_at leaves the time of this tick behind.
LEMMA ClaimKeeps ==
  ASSUME FireInv, NEW p \in Procs, Claim(p)
  PROVE  FireInv'
<1>1. /\ Typed /\ job \in Rows /\ rewound \in Nat /\ clock \in Nat /\ job.next \in Nat
      /\ proc \in [Procs -> Proc] /\ proc[p] \in Proc
      /\ Sound(proc[p]) /\ proc[p].pc = "claim" /\ SlotsInv
  BY Domains DEF FireInv, Typed, Claim, At
<1>2. PICK y \in Proc : y = proc[p] /\ Sound(y) /\ y.pc = "claim"  BY <1>1
<1>3. PICK s \in Nat, now \in Nat, cad \in Kinds :
        /\ s = y.slot /\ now = y.now /\ cad = y.row.cadence
        /\ s # 0 /\ s <= now /\ now <= clock /\ y.row.next = s /\ y.task = 0
  BY <1>2 DEF Sound, Proc
<1>4. UNCHANGED <<clock, runs, engine, rewound>>  BY DEF Claim
<1>5. CASE Stop(p) /\ job' \in {job, [job EXCEPT !.enabled = FALSE]}
  <2>1. job' \in Rows /\ job'.next = job.next /\ job'.catchup = job.catchup
    BY <1>1, <1>5 DEF Rows
  <2>. QED  BY <1>1, <1>4, <1>5, <2>1, RowWritten DEF JobMoves
<1>6. CASE /\ job.next = s /\ job' = [job EXCEPT !.next = NextRun(cad, now)]
           /\ Goto(p, [y EXCEPT !.pc = "guard"])
  <2>1. PICK n \in Nat : n = NextRun(cad, now) /\ (n = 0 \/ n > now)  BY NextRunLater
  <2>2. job' \in Rows /\ job'.next = n /\ job'.catchup = job.catchup
    BY <1>1, <1>6, <2>1 DEF Rows
  <2>3. Grow  BY <1>4, <2>2, GrowRow
  <2> DEFINE x == [y EXCEPT !.pc = "guard"]
  <2>4. /\ x \in Proc /\ x.pc = "guard" /\ x.slot = s /\ x.now = now /\ x.task = 0
        /\ x.todo = y.todo
    BY <1>2, <1>3 DEF Proc
  <2>5. Goto(p, x)  BY <1>6
  <2> HIDE DEF x
  <2>6. Sound(x)  BY <1>2, <1>3, <2>4 DEF Sound
  <2>7. Sound(x)'  BY <2>3, <2>4, <2>6, GrowKeeps
  <2>8. /\ proc' \in [Procs -> Proc] /\ proc'[p] = x
        /\ \A q \in Procs : q # p => proc'[q] = proc[q]
    BY <1>1, <2>4, <2>5 DEF Goto
  <2>9. \A r \in DOMAIN runs' : RunOK(runs[r])'  BY <1>4, <2>3, GrowKeeps
  <2>10. ASSUME NEW q \in Procs PROVE Sound(proc[q])'
    <3>1. CASE q = p  BY <2>7, <2>8, <3>1 DEF Sound
    <3>2. CASE q # p
      <4>1. PICK z \in Proc : z = proc[q]  BY <1>1
      <4>2. Sound(z)'  BY <2>3, <4>1, GrowKeeps DEF FireInv
      <4>. QED  BY <2>8, <3>2, <4>1, <4>2 DEF Sound
    <3>. QED  BY <3>1, <3>2
  <2>11. Typed'  BY <1>1, <1>4, <2>2, <2>8 DEF Typed
  <2>12. /\ Held(p)' /\ proc'[p].slot = s /\ proc'[p].now = now
         /\ \A q \in Procs : q # p => /\ Held(q)' <=> Held(q)
                                     /\ proc'[q].slot = proc[q].slot
                                     /\ proc'[q].now = proc[q].now
                                     /\ proc[q].slot \in Nat /\ proc[q].now \in Nat
    BY <1>1, <1>3, <2>4, <2>8 DEF Held, Proc
  <2>13. /\ Behind(now)'
         /\ \A m \in Nat : Behind(m) => /\ s > m \/ rewound <= s
                                        /\ Behind(m)'
    BY <1>1, <1>3, <1>4, <1>6, <2>1, <2>2 DEF Behind
  <2>14. \A v, m \in Nat : v <= m /\ Behind(m) => Apart(v, m, s)' /\ Apart(s, now, v)'
    BY <1>1, <1>3, <1>4, <2>13 DEF Apart
  <2>16. \A k \in DOMAIN engine : engine[k].slot \in Nat /\ engine[k].now \in Nat
    BY <1>1, Domains DEF Task
  <2>17. EngineInv'
    <3>1. ASSUME NEW k \in DOMAIN engine, engine[k].slot # 0 PROVE Behind(engine[k].now)'
      <4>1. PICK m \in Nat : m = engine[k].now  BY <2>16
      <4>2. Behind(m)'  BY <1>1, <2>13, <3>1, <4>1 DEF SlotsInv, EngineInv
      <4>. QED  BY <1>4, <4>1, <4>2 DEF Behind
    <3>2. \A k \in DOMAIN engine : engine[k].slot # 0 =>
             engine[k].slot <= engine[k].now /\ engine[k].now <= clock
      BY <1>1 DEF SlotsInv, EngineInv
    <3>3. \A i, j \in DOMAIN engine :
            i # j => Apart(engine[i].slot, engine[i].now, engine[j].slot)'
      BY <1>1, <1>4 DEF SlotsInv, EngineInv, Apart
    <3>. QED  BY <1>4, <3>1, <3>2, <3>3 DEF EngineInv
  <2>18. HeldInv'
    <3>1. ASSUME NEW q \in Procs, Held(q)'
          PROVE  proc'[q].slot <= proc'[q].now /\ Behind(proc[q].now)'
      <4>1. CASE q = p  BY <1>3, <2>12, <2>13, <4>1 DEF Behind
      <4>2. CASE q # p
        <5>1. PICK m \in Nat : m = proc[q].now  BY <2>12, <4>2
        <5>2. proc[q].slot <= m /\ Behind(m)
          BY <1>1, <2>12, <3>1, <4>2, <5>1 DEF SlotsInv, HeldInv
        <5>3. Behind(m)'  BY <2>13, <5>2
        <5>. QED  BY <2>12, <4>2, <5>1, <5>2, <5>3 DEF Behind
      <4>. QED  BY <4>1, <4>2
    <3>2. ASSUME NEW k \in DOMAIN engine', NEW q \in Procs, Held(q)'
          PROVE  /\ Apart(engine[k].slot, engine[k].now, proc[q].slot)'
                 /\ Apart(proc[q].slot, proc[q].now, engine[k].slot)'
      <4>1. PICK v \in Nat, m \in Nat : v = engine[k].slot /\ m = engine[k].now
        BY <1>4, <2>16
      <4>2. CASE q = p
        <5>1. CASE v # 0
          <6>1. v <= m /\ Behind(m)  BY <1>1, <1>4, <4>1, <5>1 DEF SlotsInv, EngineInv
          <6>2. Apart(v, m, s)' /\ Apart(s, now, v)'  BY <2>14, <6>1
          <6>. QED  BY <1>4, <2>12, <4>1, <4>2, <6>2 DEF Apart
        <5>2. CASE v = 0  BY <1>3, <1>4, <2>12, <4>1, <4>2, <5>2 DEF Apart
        <5>. QED  BY <5>1, <5>2
      <4>3. CASE q # p
        <5>1. PICK t \in Nat, n2 \in Nat : t = proc[q].slot /\ n2 = proc[q].now
          BY <2>12, <4>3
        <5>2. Apart(v, m, t) /\ Apart(t, n2, v)
          BY <1>1, <1>4, <2>12, <3>2, <4>1, <4>3, <5>1 DEF SlotsInv, HeldInv
        <5>. QED  BY <1>4, <2>12, <4>1, <4>3, <5>1, <5>2 DEF Apart
      <4>. QED  BY <4>2, <4>3
    <3>3. ASSUME NEW q \in Procs, NEW r \in Procs, q # r, Held(q)', Held(r)'
          PROVE  Apart(proc[q].slot, proc[q].now, proc[r].slot)'
      <4>1. ASSUME NEW o \in Procs, o # p, Held(o)'
            PROVE  \E v, m \in Nat : /\ v = proc[o].slot /\ m = proc[o].now
                                     /\ v = proc'[o].slot /\ m = proc'[o].now
                                     /\ v <= m /\ Behind(m)
        BY <1>1, <2>12, <4>1 DEF SlotsInv, HeldInv
      <4>2. CASE q = p
        <5>1. PICK v \in Nat, m \in Nat : v = proc'[r].slot /\ v <= m /\ Behind(m)
          BY <3>3, <4>1, <4>2
        <5>2. Apart(s, now, v)'  BY <2>14, <5>1
        <5>. QED  BY <2>12, <4>2, <5>1, <5>2 DEF Apart
      <4>3. CASE r = p
        <5>1. PICK v \in Nat, m \in Nat :
                v = proc'[q].slot /\ m = proc'[q].now /\ v <= m /\ Behind(m)
          BY <3>3, <4>1, <4>3
        <5>2. Apart(v, m, s)'  BY <2>14, <5>1
        <5>. QED  BY <2>12, <4>3, <5>1, <5>2 DEF Apart
      <4>4. CASE q # p /\ r # p
        <5>1. Apart(proc[q].slot, proc[q].now, proc[r].slot)
          BY <1>1, <2>12, <3>3, <4>4 DEF SlotsInv, HeldInv
        <5>. QED  BY <1>4, <2>12, <4>4, <5>1 DEF Apart
      <4>. QED  BY <4>2, <4>3, <4>4
    <3>. QED  BY <3>1, <3>2, <3>3 DEF HeldInv
  <2>15. SlotsInv'  BY <2>17, <2>18 DEF SlotsInv
  <2>. QED  BY <2>9, <2>10, <2>11, <2>15 DEF FireInv
<1>. QED  BY <1>2, <1>3, <1>5, <1>6 DEF Claim

\* The enqueue: what the process held, the task now stands for.
LEMMA FireKeeps ==
  ASSUME FireInv, NEW p \in Procs, Fire(p)
  PROVE  FireInv'
<1>1. /\ Typed /\ job \in Rows /\ rewound \in Nat /\ clock \in Nat
      /\ proc \in [Procs -> Proc] /\ runs \in Seq(Run) /\ engine \in Seq(Task)
      /\ clock \in 0..MaxTime /\ SlotsInv
      /\ DOMAIN engine = 1..Len(engine) /\ Len(engine) \in Nat
  BY Domains DEF FireInv, Typed
<1>2. PICK y \in Proc : y = proc[p] /\ Sound(y) /\ y.pc = "fire" /\ y.task = 0
  BY <1>1 DEF FireInv, Fire, At, Sound
<1>3. PICK s \in Nat, n \in Nat : s = y.slot /\ n = y.now /\ s <= clock /\ n <= clock
  BY <1>2 DEF Proc, Sound
<1>4. UNCHANGED <<clock, job, runs, rewound>>  BY DEF Fire
<1>5. CASE UNCHANGED engine /\ \E o \in {"failed", "invalid"} : Fails(p, o)
  <2>1. PICK o \in {"failed", "invalid"} : Fails(p, o)  BY <1>5
  <2>2. RunRow(p, "over") \in Run /\ RunOK(RunRow(p, "over"))  BY <1>2, RunRowFacts
  <2>. QED  BY <1>4, <1>5, <2>1, <2>2, FailsKeep
<1>6. CASE /\ engine' = Append(engine, [slot |-> s, now |-> n, status |-> "unfinished"])
           /\ Goto(p, [y EXCEPT !.pc = "record", !.task = Len(engine) + 1,
                                !.outcome = "queued"])
  <2>0. PICK k \in Nat : k = Len(engine) + 1  BY <1>1
  <2> DEFINE t == [slot |-> s, now |-> n, status |-> "unfinished"]
             x == [y EXCEPT !.pc = "record", !.task = k, !.outcome = "queued"]
  <2>1. t \in Task /\ t.slot = s /\ t.now = n  BY DEF Task
  <2>2. k \in Nat /\ k # 0 /\ k \notin DOMAIN engine  BY <1>1, <2>0
  <2> HIDE DEF t
  <2>3. /\ engine' \in Seq(Task) /\ Len(engine') = k /\ DOMAIN engine' = 1..k
        /\ engine'[k] = t /\ \A j \in DOMAIN engine : engine'[j] = engine[j]
        /\ DOMAIN engine' = DOMAIN engine \cup {k}
    <3>1. engine' = Append(engine, t)  BY <1>6 DEF t
    <3>2. engine' \in Seq(Task) /\ Len(engine') = k  BY <1>1, <2>0, <2>1, <3>1
    <3>3. DOMAIN engine' = 1..k  BY <3>2
    <3>4. engine'[k] = t  BY <1>1, <2>0, <3>1
    <3>5. \A j \in 1..Len(engine) : engine'[j] = engine[j]  BY <1>1, <3>1
    <3>6. 1..k = (1..Len(engine)) \cup {k}  BY <1>1, <2>0
    <3>. QED  BY <1>1, <3>2, <3>3, <3>4, <3>5, <3>6
  <2>4. Grow
    <3>1. Len(engine) <= Len(engine')  BY <1>1, <2>0, <2>3
    <3>. QED  BY <1>1, <1>4, <2>3, <3>1, Domains DEF Grow
  <2>5. /\ x \in Proc /\ x.pc = "record" /\ x.slot = s /\ x.now = y.now /\ x.task = k
        /\ x.todo = y.todo /\ x.outcome = "queued"
    BY <1>2, <1>3, <2>2 DEF Proc
  <2>6. Goto(p, x)  BY <1>6, <2>0
  <2> HIDE DEF x
  <2>7. Sound(x)'
    <3>1. Sound(y)'  BY <1>2, <2>4, GrowKeeps
    <3>2. x.slot <= clock' /\ x.now <= clock' /\ x.todo \subseteq DOMAIN runs'
      BY <1>2, <1>3, <1>4, <2>5, <3>1 DEF Sound
    <3>3. x.task \in DOMAIN engine' /\ engine'[x.task].slot = x.slot /\ x.task # 0
      BY <2>1, <2>2, <2>3, <2>5
    <3>4. x.outcome # "" /\ x.outcome = "queued"  BY <2>5
    <3>5. x.pc \notin {"claim", "guard", "fire", "edit", "sync", "promote"}  BY <2>5
    <3>. QED  BY <3>2, <3>3, <3>4, <3>5, Zenon DEF Sound
  <2>8. /\ proc' \in [Procs -> Proc] /\ proc'[p] = x
        /\ \A q \in Procs : q # p => proc'[q] = proc[q]
    BY <1>1, <2>5, <2>6 DEF Goto
  <2>9. \A r \in DOMAIN runs' : RunOK(runs[r])'  BY <1>4, <2>4, GrowKeeps
  <2>10. ASSUME NEW q \in Procs PROVE Sound(proc[q])'
    <3>1. CASE q = p
      <4>1. x = proc'[q]  BY <2>8, <3>1
      <4>. QED  BY <2>7, <4>1, Zenon DEF Sound
    <3>2. CASE q # p
      <4>1. PICK z \in Proc : z = proc[q]  BY <1>1
      <4>2. Sound(z)'  BY <2>4, <4>1, GrowKeeps DEF FireInv
      <4>. QED  BY <2>8, <3>2, <4>1, <4>2 DEF Sound
    <3>. QED  BY <3>1, <3>2
  <2>11. Typed'  BY <1>1, <1>4, <2>3, <2>8 DEF Typed
  <2>12. /\ \A v : Behind(v)' <=> Behind(v)
         /\ \A v, m, u : Apart(v, m, u)' <=> Apart(v, m, u)
    BY <1>4 DEF Behind, Apart
  <2>13. \A q \in Procs : Held(q)' => /\ q # p /\ Held(q) /\ proc'[q].slot = proc[q].slot
                                      /\ proc'[q].now = proc[q].now
    BY <2>5, <2>8 DEF Held
  <2>14. s # 0 => Held(p)  BY <1>2, <1>3 DEF Held
  <2>17. \A j \in DOMAIN engine :
           /\ Apart(engine[j].slot, engine[j].now, s) /\ Apart(s, n, engine[j].slot)
    <3>1. CASE s # 0  BY <1>1, <1>2, <1>3, <2>14, <3>1 DEF SlotsInv, HeldInv
    <3>2. CASE s = 0
      <4>1. \A j \in DOMAIN engine : engine[j].slot \in Nat  BY <1>1, Domains DEF Task
      <4>. QED  BY <3>2, <4>1 DEF Apart
    <3>. QED  BY <3>1, <3>2
  <2>18. EngineInv'
    <3>1. ASSUME NEW j \in DOMAIN engine', engine'[j].slot # 0
          PROVE  /\ engine'[j].slot <= engine'[j].now /\ engine'[j].now <= clock'
                 /\ Behind(engine[j].now)'
      <4>1. CASE j = k
        <5>1. s # 0 /\ engine'[j].slot = s /\ engine'[j].now = n
          BY <2>1, <2>3, <3>1, <4>1
        <5>2. s <= n /\ Behind(n)
          BY <1>1, <1>2, <1>3, <2>14, <5>1 DEF SlotsInv, HeldInv
        <5>. QED  BY <1>3, <1>4, <5>1, <5>2 DEF Behind
      <4>2. CASE j \in DOMAIN engine
        <5>1. /\ engine[j].slot <= engine[j].now /\ engine[j].now <= clock
              /\ Behind(engine[j].now) /\ engine'[j] = engine[j]
          BY <1>1, <2>3, <3>1, <4>2 DEF SlotsInv, EngineInv
        <5>. QED  BY <1>4, <5>1 DEF Behind
      <4>. QED  BY <2>3, <4>1, <4>2
    <3>2. ASSUME NEW i \in DOMAIN engine', NEW j \in DOMAIN engine', i # j
          PROVE  Apart(engine[i].slot, engine[i].now, engine[j].slot)'
      <4>1. CASE i \in DOMAIN engine /\ j \in DOMAIN engine
        <5>1. Apart(engine[i].slot, engine[i].now, engine[j].slot)
          BY <1>1, <3>2, <4>1 DEF SlotsInv, EngineInv
        <5>. QED  BY <1>4, <2>3, <4>1, <5>1 DEF Apart
      <4>2. CASE i = k /\ j \in DOMAIN engine
        <5>1. Apart(s, n, engine[j].slot)  BY <2>17, <4>2
        <5>. QED  BY <1>4, <2>1, <2>3, <4>2, <5>1 DEF Apart
      <4>3. CASE i \in DOMAIN engine /\ j = k
        <5>1. Apart(engine[i].slot, engine[i].now, s)  BY <2>17, <4>3
        <5>. QED  BY <1>4, <2>1, <2>3, <4>3, <5>1 DEF Apart
      <4>. QED  BY <2>3, <3>2, <4>1, <4>2, <4>3
    <3>. QED  BY <3>1, <3>2 DEF EngineInv
  <2>19. HeldInv'
    <3>1. ASSUME NEW q \in Procs, Held(q)'
          PROVE  proc'[q].slot <= proc'[q].now /\ Behind(proc[q].now)'
      <4>1. proc[q].slot <= proc[q].now /\ Behind(proc[q].now)
        BY <1>1, <2>13, <3>1 DEF SlotsInv, HeldInv
      <4>. QED  BY <1>4, <2>13, <3>1, <4>1 DEF Behind
    <3>2. ASSUME NEW j \in DOMAIN engine', NEW q \in Procs, Held(q)'
          PROVE  /\ Apart(engine[j].slot, engine[j].now, proc[q].slot)'
                 /\ Apart(proc[q].slot, proc[q].now, engine[j].slot)'
      <4>1. CASE j \in DOMAIN engine
        <5>1. /\ Apart(engine[j].slot, engine[j].now, proc[q].slot)
              /\ Apart(proc[q].slot, proc[q].now, engine[j].slot)
          BY <1>1, <2>13, <3>2, <4>1 DEF SlotsInv, HeldInv
        <5>. QED  BY <1>4, <2>3, <2>13, <3>2, <4>1, <5>1 DEF Apart
      <4>2. CASE j = k
        <5>1. proc[q].slot \in Nat /\ proc[q].now \in Nat  BY <1>1 DEF Proc
        <5>2. Apart(s, n, proc[q].slot) /\ Apart(proc[q].slot, proc[q].now, s)
          <6>1. CASE s # 0
            BY <1>1, <1>2, <1>3, <2>13, <2>14, <3>2, <6>1 DEF SlotsInv, HeldInv
          <6>2. CASE s = 0  BY <5>1, <6>2 DEF Apart
          <6>. QED  BY <6>1, <6>2
        <5>. QED  BY <1>4, <2>1, <2>3, <2>13, <3>2, <4>2, <5>2 DEF Apart
      <4>. QED  BY <2>3, <4>1, <4>2
    <3>3. ASSUME NEW q \in Procs, NEW r \in Procs, q # r, Held(q)', Held(r)'
          PROVE  Apart(proc[q].slot, proc[q].now, proc[r].slot)'
      <4>1. Apart(proc[q].slot, proc[q].now, proc[r].slot)
        BY <1>1, <2>13, <3>3 DEF SlotsInv, HeldInv
      <4>. QED  BY <1>4, <2>13, <3>3, <4>1 DEF Apart
    <3>. QED  BY <3>1, <3>2, <3>3 DEF HeldInv
  <2>16. SlotsInv'  BY <2>18, <2>19 DEF SlotsInv
  <2>. QED  BY <2>9, <2>10, <2>11, <2>16 DEF FireInv
<1>. QED  BY <1>2, <1>3, <1>5, <1>6 DEF Fire

LEMMA InitFire ==
  ASSUME Init
  PROVE  FireInv
<1>1. /\ clock = 0 /\ clock \in 0..MaxTime /\ runs = << >> /\ engine = << >>
      /\ rewound = Never /\ rewound \in Nat /\ proc = [p \in Procs |-> Off]
  BY SchedulerAssumption DEF Init, Never
<1>2. job \in Rows
  <2>1. PICK s \in Settings, c \in Cadences \cup {"broken"} :
          job = [enabled |-> TRUE, retired |-> FALSE, overridden |-> FALSE, cadence |-> c,
                 next |-> IF c = "broken" THEN Every ELSE NextRun(c, 0),
                 overlap |-> s.overlap, catchup |-> s.catchup]
    BY DEF Init
  <2>2. c \in Kinds /\ Every \in Nat /\ s \in [overlap : BOOLEAN, catchup : {"run_once", "skip"}]
    BY SchedulerAssumption
  <2>3. NextRun(c, 0) \in Nat  BY <2>2, NextRunLater
  <2> DEFINE n == IF c = "broken" THEN Every ELSE NextRun(c, 0)
  <2>4. n \in Nat  BY <2>2, <2>3
  <2> HIDE DEF n
  <2>. QED  BY <2>1, <2>2, <2>4 DEF Rows, n
<1>3. /\ Off \in Proc /\ Off.pc = "idle" /\ Off.slot = 0 /\ Off.now = 0 /\ Off.task = 0
      /\ Off.todo = {}
  BY DEF Off, Proc, NoRow
<1>4. DOMAIN runs = {} /\ DOMAIN engine = {}  BY <1>1
<1>5. Typed  BY <1>1, <1>2, <1>3 DEF Typed
<1>6. \A p \in Procs : proc[p] = Off  BY <1>1
<1>7. Sound(Off)
  <2>1. Off.slot <= clock /\ Off.now <= clock  BY <1>1, <1>3
  <2>. QED  BY <1>3, <2>1 DEF Sound
<1>8. SlotsInv  BY <1>3, <1>4, <1>6 DEF SlotsInv, EngineInv, HeldInv, Held
<1>. QED  BY <1>4, <1>5, <1>6, <1>7, <1>8 DEF FireInv

LEMMA NextFire ==
  ASSUME FireInv, [Next]_vars
  PROVE  FireInv'
<1>1. CASE UNCHANGED vars
  <2>1. UNCHANGED <<clock, job, runs, engine, rewound, proc>>  BY <1>1 DEF vars
  <2>2. job \in Rows /\ rewound \in Nat  BY DEF FireInv, Typed
  <2>. QED  BY <2>1, <2>2, RowWritten DEF JobMoves
<1>2. ASSUME NEW t \in Ticks, TickStep(t) PROVE FireInv'
  BY <1>2, StartsKeep, ClaimKeeps, GuardKeeps DEF TickStep, Procs
<1>3. ASSUME NEW p \in Procs, FireStep(p) \/ Raise(p) \/ Crash(p) PROVE FireInv'
  BY <1>3, FireKeeps, RecordKeeps, DisableKeeps, RaiseKeeps DEF FireStep
<1>4. ASSUME NEW p \in Requests,
             \/ RunNow(p) \/ Edit(p) \/ (At(p, "edit") /\ Save(p))
             \/ SyncRead(p) \/ SyncSave(p) \/ ReadQueued(p) \/ Promote(p)
      PROVE  FireInv'
  BY <1>4, StartsKeep, SaveKeeps, SyncKeeps, PromoteKeeps DEF Procs
<1>. QED  BY <1>1, <1>2, <1>3, <1>4, ResetKeeps, OutsideKeeps DEF Next

\* What a process or a task holds lies behind what is due, in every reachable state.
THEOREM SlotsHold == Spec => []FireInv
<1>1. Init => FireInv  BY InitFire
<1>2. FireInv /\ [Next]_vars => FireInv'  BY NextFire
<1>. QED  BY <1>1, <1>2, PTL DEF Spec

\* However late the ticks come and however many overlap, a backlog fires once unless a
\* stale form turned next_run_at back, for any number of processes and any schedule.
THEOREM OneFirePerBacklog == Spec => []BacklogFiresOnce
<1>1. FireInv => BacklogFiresOnce
  BY DEF FireInv, SlotsInv, EngineInv, Apart, BacklogFiresOnce
<1>. QED  BY <1>1, SlotsHold, PTL

\* However many ticks overlap, a slot is fired once unless a stale form turned
\* next_run_at back, for any number of processes and any schedule.
THEOREM OneFirePerSlot == Spec => []SlotFiresOnce
<1>1. FireInv => SlotFiresOnce
  <2> SUFFICES ASSUME FireInv PROVE SlotFiresOnce  OBVIOUS
  <2>1. /\ Typed /\ \A r \in DOMAIN runs : RunOK(runs[r]) /\ runs[r] \in Run
        /\ \A p \in Procs : Sound(proc[p])
    BY Domains DEF FireInv
  <2>2. ASSUME NEW r \in DOMAIN runs
        PROVE  /\ runs[r].status \in {"queued", "skipped", "over"}
               /\ runs[r].slot \in Nat /\ runs[r].at \in 0..clock
    <3>1. runs[r].at \in Nat /\ runs[r].at <= clock  BY <2>1 DEF Run, RunOK
    <3>2. clock \in Nat  BY <2>1, Domains
    <3>. QED  BY <2>1, <3>1, <3>2 DEF Run
  <2>3. TypeOK  BY <2>1, <2>2 DEF TypeOK, Typed, RunOK, Sound
  <2>4. ASSUME NEW i \in DOMAIN engine, NEW j \in DOMAIN engine, i # j,
               engine[i].slot = engine[j].slot, engine[i].slot # 0
        PROVE  rewound <= engine[i].slot
    <3>1. engine[i].slot \in Nat /\ engine[i].now \in Nat  BY <2>1, Domains DEF Task
    <3>2. /\ Apart(engine[i].slot, engine[i].now, engine[j].slot)
          /\ engine[i].slot <= engine[i].now
      BY <2>4 DEF FireInv, SlotsInv, EngineInv
    <3>. QED  BY <2>4, <3>1, <3>2 DEF Apart
  <2>. QED  BY <2>3, <2>4 DEF SlotFiresOnce
<1>. QED  BY <1>1, SlotsHold, PTL

-----------------------------------------------------------------------------
(* A fire is skipped for overlap only beside a run that is recent enough.       *)

\* The runs that a step adds are not skipped fires, and the job keeps its policy.
LEMMA SkipsKept ==
  ASSUME FireInv, NeverWedged, UNCHANGED runs \/ Grow, job'.catchup = job.catchup,
         DOMAIN runs \subseteq DOMAIN runs',
         \A r \in DOMAIN runs' \ DOMAIN runs : runs'[r].status # "skipped"
  PROVE  NeverWedged'
<1>1. /\ Typed /\ DOMAIN runs = 1..Len(runs) /\ Len(runs) \in Nat
      /\ \A r \in DOMAIN runs : runs[r] \in Run
  BY Domains DEF FireInv
<1>2. \A r \in DOMAIN runs :
        /\ runs'[r].task = runs[r].task /\ runs'[r].slot = runs[r].slot
        /\ runs'[r].at = runs[r].at
        /\ runs'[r].status = runs[r].status \/ runs'[r].status = "over"
  BY DEF Grow
<1>3. ASSUME NEW r \in DOMAIN runs', runs'[r].status = "skipped", job'.catchup = "run_once"
      PROVE  \E q \in 1..(r - 1) : runs'[q].task # 0 /\ runs'[q].at + Stale >= runs'[r].slot
  <2>1. r \in DOMAIN runs /\ runs[r].status = "skipped" /\ job.catchup = "run_once"
    BY <1>2, <1>3
  <2>2. PICK q \in 1..(r - 1) : runs[q].task # 0 /\ runs[q].at + Stale >= runs[r].slot
    BY <2>1 DEF NeverWedged
  <2>3. q \in DOMAIN runs  BY <1>1, <2>1
  <2>. QED  BY <1>2, <2>1, <2>2, <2>3
<1>. QED  BY <1>3 DEF NeverWedged

LEMMA GuardSkips ==
  ASSUME FireInv, NeverWedged, NEW p \in Procs, Guard(p)
  PROVE  NeverWedged'
<1>1. /\ Typed /\ runs \in Seq(Run) /\ DOMAIN runs = 1..Len(runs) /\ Len(runs) \in Nat
      /\ \A r \in DOMAIN runs : runs[r] \in Run /\ RunOK(runs[r])
      /\ proc[p] \in Proc /\ Sound(proc[p]) /\ proc[p].pc = "guard"
  BY Domains DEF FireInv, Typed, Guard, At
<1>2. UNCHANGED <<clock, job, engine>>  BY DEF Guard
<1>3. CASE UNCHANGED runs  BY <1>2, <1>3, SkipsKept
<1>4. CASE runs' = Append(runs, RunRow(p, "skipped"))
  <2>1. PICK s \in Nat, now \in Nat : s = proc[p].slot /\ now = proc[p].now /\ s <= now
    BY <1>1 DEF Sound, Proc
  <2>2. PICK n \in Nat : n = Len(runs) + 1  BY <1>1
  <2>3. /\ DOMAIN runs' = 1..n /\ runs'[n] = RunRow(p, "skipped")
        /\ \A r \in DOMAIN runs : runs'[r] = runs[r]
    <3>1. RunRow(p, "skipped") \in Run
      BY <1>1, RunRowFacts DEF Sound
    <3>2. runs' \in Seq(Run) /\ Len(runs') = n  BY <1>1, <1>4, <2>2, <3>1
    <3>3. runs'[n] = RunRow(p, "skipped")  BY <1>1, <1>4, <2>2
    <3>4. \A r \in 1..Len(runs) : runs'[r] = runs[r]  BY <1>1, <1>4
    <3>. QED  BY <1>1, <3>2, <3>3, <3>4
  <2>4. ASSUME NEW r \in DOMAIN runs', runs'[r].status = "skipped", job'.catchup = "run_once"
        PROVE  \E q \in 1..(r - 1) :
                 runs'[q].task # 0 /\ runs'[q].at + Stale >= runs'[r].slot
    <3>1. CASE r \in DOMAIN runs
      <4>1. PICK q \in 1..(r - 1) : runs[q].task # 0 /\ runs[q].at + Stale >= runs[r].slot
        BY <1>2, <2>3, <2>4, <3>1 DEF NeverWedged
      <4>2. q \in DOMAIN runs  BY <1>1, <3>1
      <4>. QED  BY <2>3, <3>1, <4>1, <4>2
    <3>2. CASE r = n
      <4>1. PreviousRunActive(now)
        <5>1. n \in DOMAIN runs' /\ n \notin DOMAIN runs  BY <1>1, <2>2, <2>3
        <5>2. runs' # runs  BY <5>1
        <5>3. job.catchup # "skip"  BY <1>2, <2>4
        <5>. QED  BY <2>1, <5>2, <5>3 DEF Guard
      <4>2. QueuedRuns # {} /\ Active(Newest(QueuedRuns), now)
        BY <4>1 DEF PreviousRunActive
      <4>3. QueuedRuns \in SUBSET (1..Len(runs))  BY <1>1 DEF QueuedRuns
      <4>4. PICK q \in QueuedRuns : q = Newest(QueuedRuns)
        BY <1>1, <4>2, <4>3, NewestIsIn
      <4>5. /\ q \in DOMAIN runs /\ runs[q].status = "queued" /\ runs[q].task # 0
            /\ runs[q].at \in Nat
        BY <1>1, <4>4 DEF QueuedRuns, RunOK, Run
      <4>6. runs[q].at >= now - Stale  BY <4>2, <4>4 DEF Active
      <4>7. runs[q].at + Stale >= s  BY <2>1, <4>5, <4>6, SchedulerAssumption
      <4>8. runs'[r].slot = s  BY <2>1, <2>3, <3>2 DEF RunRow
      <4>9. q \in 1..(r - 1)  BY <1>1, <2>2, <3>2, <4>5
      <4>. QED  BY <2>3, <4>5, <4>7, <4>8, <4>9
    <3>. QED  BY <1>1, <2>2, <2>3, <3>1, <3>2
  <2>. QED  BY <2>4 DEF NeverWedged
<1>. QED  BY <1>3, <1>4 DEF Guard

LEMMA OthersSkip ==
  ASSUME FireInv, NeverWedged, Next, \A p \in Procs : ~Guard(p)
  PROVE  NeverWedged'
<1>1. job \in Rows /\ Typed  BY DEF FireInv, Typed
<1>2. job'.catchup = job.catchup
  <2>1. ASSUME NEW p \in Procs, Claim(p) PROVE job'.catchup = job.catchup
    BY <1>1, <2>1 DEF Claim, Rows
  <2>2. ASSUME NEW p \in Procs, Disable(p) PROVE job'.catchup = job.catchup
    BY <1>1, <2>2 DEF Disable, Rows
  <2>3. ASSUME NEW p \in Procs, At(p, "edit"), Save(p) PROVE job'.catchup = job.catchup
    <3>1. proc[p].row \in Rows /\ proc[p].row.catchup = job.catchup
      BY <2>3 DEF FireInv, Sound, At
    <3>2. job'.catchup = proc[p].row.catchup  BY <2>3, <3>1 DEF Save, Rows
    <3>. QED  BY <3>1, <3>2
  <2>4. ASSUME NEW p \in Procs, SyncSave(p) PROVE job'.catchup = job.catchup
    BY <1>1, <2>4 DEF SyncSave, SyncRetire, SyncSpec, Rows
  <2>5. ResetSchedule => job'.catchup = job.catchup  BY <1>1 DEF ResetSchedule, Rows
  <2>. QED
    BY <2>1, <2>2, <2>3, <2>4, <2>5
    DEF Next, TickStep, FireStep, Begin, Fire, Record, CountError, Raise, Crash, RunNow, Edit, SyncRead,
        ReadQueued, Promote, Elapse, Settle, Procs
<1>3. CASE UNCHANGED runs  BY <1>2, <1>3, SkipsKept
<1>4. ASSUME NEW p \in Procs, Record(p) PROVE NeverWedged'
  <2>1. PICK r \in Run :
          RunOK(r) /\ r.status # "skipped" /\ (runs' = Append(runs, r) \/ runs' = runs)
    BY <1>4, RecordRow
  <2>2. UNCHANGED <<clock, job, engine, rewound>>  BY <1>4 DEF Record
  <2>3. Grow  BY <2>1, <2>2, GrowRuns
  <2>4. /\ DOMAIN runs = 1..Len(runs) /\ Len(runs) \in Nat /\ runs \in Seq(Run)
        /\ DOMAIN runs \subseteq DOMAIN runs'
    BY <1>1, <2>3, Domains, DomainsGrow DEF Typed
  <2>5. \A k \in DOMAIN runs' \ DOMAIN runs : runs'[k].status # "skipped"
    <3>1. CASE runs' = runs  BY <3>1
    <3>2. CASE runs' = Append(runs, r)
      <4>1. runs' \in Seq(Run) /\ Len(runs') = Len(runs) + 1  BY <2>4, <3>2
      <4>2. runs'[Len(runs) + 1] = r  BY <2>4, <3>2
      <4>3. \A k \in DOMAIN runs' \ DOMAIN runs : k = Len(runs) + 1  BY <2>4, <4>1
      <4>. QED  BY <2>1, <4>2, <4>3
    <3>. QED  BY <2>1, <3>1, <3>2
  <2>. QED  BY <1>2, <2>3, <2>4, <2>5, SkipsKept
<1>5. ASSUME NEW p \in Procs, Promote(p) PROVE NeverWedged'
  BY <1>2, <1>5, PromoteGrows, SkipsKept
<1>. QED
  BY <1>3, <1>4, <1>5
  DEF Next, TickStep, FireStep, Begin, Claim, Fire, Disable, CountError, Raise, Crash, RunNow,
      Edit, Save,
      SyncRead, SyncSave, ReadQueued, ResetSchedule, Elapse, Settle, Procs

\* Whatever the processes do, a fire is skipped for overlap only beside a task enqueued
\* within the stale threshold: the guard waits for no run older than that.
THEOREM NoWedge == Spec => []NeverWedged
<1>1. Init => NeverWedged  BY DEF Init, NeverWedged
<1>2. FireInv /\ NeverWedged /\ [Next]_vars => NeverWedged'
  <2>1. CASE UNCHANGED vars  BY <2>1 DEF vars, NeverWedged
  <2>2. CASE Next  BY <2>2, GuardSkips, OthersSkip
  <2>. QED  BY <2>1, <2>2
<1>. QED  BY <1>1, <1>2, SlotsHold, PTL DEF Spec
=============================================================================
