------------------------ MODULE WorkerLivenessProofs ------------------------
(* Theorems about WorkerLiveness, for any workers, tasks, thresholds and clock. *)
EXTENDS WorkerLiveness, TLAPS

-----------------------------------------------------------------------------
(* Who may be thought dead.  A pass judges from rows that others go on beating, *)
(* stopping and pruning, and fails tasks later: what it concluded must last as  *)
(* long as the worker executes the task.                                        *)

Beating == [there : BOOLEAN, seen : 0..MaxTime, stopped : BOOLEAN]
Process == [pc : {"new", "starting", "up", "plain", "gone"}, task : Tasks \cup {None},
            missed : 0..MaxMissed, beats : 0..(ReapEvery - 1), tardy : BOOLEAN]
Row == [status : {"READY", "RUNNING", "LOST", "DONE"}, claimant : Workers \cup {None},
        started : 0..MaxTime]
Pass == [stage : {"none", "judge", "fail"}, now : 0..MaxTime, running : SUBSET Tasks,
         lost : SUBSET Tasks]

\* A task is executed by the worker that claimed it, once; a claim is for good.
Claims ==
  \A t \in Tasks :
    /\ \A w \in Workers : Holds(w, t) =>
         task[t].claimant = w /\ task[t].status \in {"RUNNING", "LOST"}
    /\ task[t].status # "READY" =>
         /\ task[t].claimant \in Workers /\ worker[task[t].claimant].pc # "new"
         /\ task[t].started <= now

\* What a worker's row says of its process.
RowSays(w) ==
  /\ hb[w].seen <= now
  /\ hb[w].there => worker[w].pc # "new"
  /\ hb[w].stopped => worker[w].pc = "gone"
  /\ worker[w].task # None /\ Silent(w, now) => worker[w].tardy

\* What a pass knows stays true while it goes on: its tasks were claimed, and those it
\* has not found lost have a heartbeat that its prune will spare.
PassKnows(p) ==
  /\ pass[p].now <= now
  /\ pass[p].lost \subseteq pass[p].running
  /\ \A t \in pass[p].running : task[t].status # "READY"
  /\ pass[p].stage = "none" => pass[p].lost = {}
  /\ pass[p].stage = "fail" =>
       \A t \in pass[p].running \ pass[p].lost : LET w == task[t].claimant IN
         task[t].status = "RUNNING" /\ w # p /\ hb[w].there
           => hb[w].seen + Retention >= pass[p].now

\* Nobody doubts a worker without a reason that lasts while it executes the task.
Excused(w, t) == worker[w].tardy \/ (~hb[w].there /\ now - task[t].started > Orphan)
Doubts ==
  \A w \in Workers, t \in Tasks :
    Holds(w, t) =>
      /\ t \notin pass[w].lost
      /\ task[t].status = "LOST" \/ (\E p \in Workers : t \in pass[p].lost) => Excused(w, t)

PoolInv ==
  /\ TypeOK /\ Claims /\ Doubts
  /\ \A w \in Workers : RowSays(w) /\ PassKnows(w)

\* The types, and where passes and tasks may be.
LEMMA TypeParts ==
  TypeOK <=>
    /\ now \in 0..MaxTime
    /\ hb \in [Workers -> Beating] /\ worker \in [Workers -> Process]
    /\ task \in [Tasks -> Row] /\ pass \in [Workers -> Pass]
    /\ \A w \in Workers :
         /\ pass[w].stage # "none" => worker[w].pc \in {"starting", "up"}
         /\ worker[w].task # None => worker[w].pc \in {"up", "plain"}
BY DEF TypeOK, Beating, Process, Row, Pass

LEMMA Types ==
  ASSUME PoolInv
  PROVE  /\ now \in 0..MaxTime /\ now \in Nat /\ MaxTime \in Nat
         /\ hb \in [Workers -> Beating] /\ worker \in [Workers -> Process]
         /\ task \in [Tasks -> Row] /\ pass \in [Workers -> Pass]
         /\ None \notin Tasks /\ None \notin Workers
         /\ \A w \in Workers : /\ hb[w] \in Beating /\ hb[w].seen \in Nat
                               /\ worker[w] \in Process /\ pass[w] \in Pass
                               /\ pass[w].now \in Nat
                               /\ pass[w].running \subseteq Tasks /\ pass[w].lost \subseteq Tasks
         /\ \A t \in Tasks : task[t] \in Row /\ task[t].started \in Nat
<1>1. /\ now \in 0..MaxTime /\ MaxTime \in Nat
      /\ hb \in [Workers -> Beating] /\ worker \in [Workers -> Process]
      /\ task \in [Tasks -> Row] /\ pass \in [Workers -> Pass]
  BY ClockAssumption DEF PoolInv, TypeOK, Beating, Process, Row, Pass
<1>2. \A n \in 0..MaxTime : n \in Nat  BY <1>1
<1>3. \A w \in Workers : hb[w] \in Beating /\ hb[w].seen \in Nat
  BY <1>1, <1>2 DEF Beating
<1>4. \A w \in Workers : /\ pass[w] \in Pass /\ pass[w].now \in Nat
                         /\ pass[w].running \subseteq Tasks /\ pass[w].lost \subseteq Tasks
  BY <1>1, <1>2 DEF Pass
<1>5. \A t \in Tasks : task[t] \in Row /\ task[t].started \in Nat
  BY <1>1, <1>2 DEF Row
<1>. QED  BY <1>1, <1>2, <1>3, <1>4, <1>5, ClockAssumption

\* A worker moves to x, its row to h and its pass to y: it holds on to its task or lets
\* it go, its row is fresher or as it was, and the pass is the one it had or a new one.
LEMMA OwnStep ==
  ASSUME PoolInv, UNCHANGED <<now, task>>,
         NEW w \in Workers, NEW x \in Process, NEW h \in Beating, NEW y \in Pass,
         worker' = [worker EXCEPT ![w] = x], hb' = [hb EXCEPT ![w] = h],
         pass' = [pass EXCEPT ![w] = y],
         x.pc # "new",
         x.task # None => /\ x.task = worker[w].task /\ x.pc \in {"up", "plain"}
                          /\ worker[w].tardy => x.tardy
                          /\ h.there /\ now - h.seen > LostAfter => x.tardy,
         h.seen \in {hb[w].seen, now}, h.stopped => x.pc = "gone",
         h.there => hb[w].there \/ worker[w].pc = "new",
         y.stage # "none" => x.pc \in {"starting", "up"},
         y # pass[w] => /\ y.lost = {} /\ y.now <= now /\ y.stage # "fail"
                        /\ \A t \in y.running : task[t].status # "READY"
  PROVE  PoolInv'
<1>1. /\ worker' \in [Workers -> Process] /\ hb' \in [Workers -> Beating]
      /\ pass' \in [Workers -> Pass]
      /\ worker'[w] = x /\ hb'[w] = h /\ pass'[w] = y
      /\ \A v \in Workers : v # w =>
           worker'[v] = worker[v] /\ hb'[v] = hb[v] /\ pass'[v] = pass[v]
  BY Types
<1>2. TypeOK'
  <2>1. (/\ now \in 0..MaxTime
         /\ hb \in [Workers -> Beating] /\ worker \in [Workers -> Process]
         /\ task \in [Tasks -> Row] /\ pass \in [Workers -> Pass])'
    BY <1>1, Types
  <2>2. \A v \in Workers :
          /\ pass'[v].stage # "none" => worker'[v].pc \in {"starting", "up"}
          /\ worker'[v].task # None => worker'[v].pc \in {"up", "plain"}
    BY <1>1 DEF PoolInv, TypeOK
  <2>. QED  BY <2>1, <2>2 DEF TypeOK, Beating, Process, Row, Pass
<1>3. Claims'  BY <1>1, Types DEF PoolInv, Claims, Holds
<1>4. \A v \in Workers : RowSays(v)'
  BY <1>1, Types DEF PoolInv, RowSays, Silent
<1>5. ASSUME NEW p \in Workers PROVE PassKnows(p)'
  <2>1. \A v \in Workers : worker[v].pc # "new" =>
          (hb'[v].there => hb[v].there) /\ hb'[v].seen >= hb[v].seen
    BY <1>1, Types DEF PoolInv, RowSays
  <2>2. CASE pass'[p] = pass[p]
    <3>1. PassKnows(p)  BY DEF PoolInv
    <3>2. ASSUME pass[p].stage = "fail", NEW t \in pass[p].running \ pass[p].lost,
                 NEW v \in Workers, v = task[t].claimant,
                 task[t].status = "RUNNING", v # p, hb'[v].there
          PROVE  hb'[v].seen + Retention >= pass[p].now
      <4>1. t \in Tasks /\ worker[v].pc # "new"  BY <3>2, Types DEF PoolInv, Claims
      <4>2. hb[v].there /\ hb'[v].seen >= hb[v].seen  BY <2>1, <3>2, <4>1
      <4>3. hb[v].seen + Retention >= pass[p].now
        BY <3>1, <3>2, <4>2 DEF PassKnows
      <4>4. hb'[v].seen \in Nat /\ hb[v].seen \in Nat /\ pass[p].now \in Nat
        BY <1>1, Types
      <4>. QED  BY <4>2, <4>3, <4>4, ClockAssumption
    <3>3. \A t \in pass[p].running : task[t].status = "RUNNING" => task[t].claimant \in Workers
      BY Types DEF PoolInv, Claims
    <3>4. pass[p].stage = "fail" =>
            \A t \in pass[p].running \ pass[p].lost : LET v == task[t].claimant IN
              task[t].status = "RUNNING" /\ v # p /\ hb'[v].there
                => hb'[v].seen + Retention >= pass[p].now
      BY <3>2, <3>3
    <3>. QED  BY <2>2, <3>1, <3>4 DEF PassKnows
  <2>3. CASE p = w /\ y # pass[w]  BY <1>1, <2>3 DEF PassKnows
  <2>. QED  BY <1>1, <2>2, <2>3
<1>6. Doubts'
  <2>1. ASSUME NEW v \in Workers, NEW t \in Tasks, worker'[v].task = t
        PROVE  /\ t \notin pass'[v].lost
               /\ task[t].status = "LOST" \/ (\E p \in Workers : t \in pass'[p].lost)
                    => worker'[v].tardy \/ (~hb'[v].there /\ now - task[t].started > Orphan)
    <3>1. Holds(v, t)  BY <1>1, <2>1, Types DEF Holds
    <3>2. worker[v].pc # "new"  BY <2>1, <3>1, Types DEF PoolInv, TypeOK, Holds
    <3>3. \A p \in Workers : pass'[p].lost \subseteq pass[p].lost  BY <1>1
    <3>4. Excused(v, t) => worker'[v].tardy \/ (~hb'[v].there /\ now - task[t].started > Orphan)
      BY <1>1, <2>1, <3>2, Types DEF Excused
    <3>. QED  BY <3>1, <3>3, <3>4 DEF PoolInv, Doubts
  <2>. QED  BY <2>1 DEF Doubts, Holds, Excused
<1>. QED  BY <1>2, <1>3, <1>4, <1>5, <1>6 DEF PoolInv

\* The pass that starts now is one of those OwnStep allows.
LEMMA Begins ==
  ASSUME PoolInv, NEW p \in Workers, Begin(p)
  PROVE  \E y \in Pass : /\ pass' = [pass EXCEPT ![p] = y]
                         /\ y.lost = {} /\ y.now <= now /\ y.stage = "judge"
                         /\ \A t \in y.running : task[t].status # "READY"
<1> DEFINE y == [stage |-> "judge", now |-> now, lost |-> {},
                 running |-> {t \in Tasks : task[t].status = "RUNNING"}]
<1>1. y \in Pass  BY Types DEF Pass
<1>2. /\ y.lost = {} /\ y.now <= now /\ y.stage = "judge"
      /\ \A t \in y.running : task[t].status # "READY"
  BY Types
<1>3. pass' = [pass EXCEPT ![p] = y]  BY DEF Begin
<1> HIDE DEF y
<1>. QED  BY <1>1, <1>2, <1>3

LEMMA NoPassIs ==
  ASSUME PoolInv
  PROVE  /\ NoPass \in Pass /\ NoPass.stage = "none" /\ NoPass.lost = {}
         /\ NoPass.running = {} /\ NoPass.now <= now
BY Types DEF NoPass, Pass

\* What a process does to itself, and to its own row and pass.
LEMMA OwnStepsKeep ==
  ASSUME PoolInv, NEW w \in Workers,
         \/ Register(w) \/ StartPlain(w) \/ Exit(w) \/ Crash(w)
         \/ BeginStarting(w) \/ PassRaises(w)
  PROVE  PoolInv'
<1>1. PICK x0 \in Process, h0 \in Beating, y0 \in Pass :
        x0 = worker[w] /\ h0 = hb[w] /\ y0 = pass[w]
  BY Types
<1>2. /\ hb[w].there => worker[w].pc # "new"
      /\ hb[w].stopped => worker[w].pc = "gone"
      /\ worker[w].task # None => worker[w].pc \in {"up", "plain"}
      /\ pass[w].stage # "none" => worker[w].pc \in {"starting", "up"}
      /\ worker[w].task # None /\ Silent(w, now) => worker[w].tardy
  BY DEF PoolInv, RowSays, TypeOK
<1>3. hb' = [hb EXCEPT ![w] = h0] => hb' = hb  BY <1>1, Types
<1>4. /\ hb = [hb EXCEPT ![w] = h0] /\ pass = [pass EXCEPT ![w] = y0]
      /\ worker = [worker EXCEPT ![w] = x0]
  BY <1>1, Types
<1>5. CASE Register(w)
  <2> DEFINE x == [x0 EXCEPT !.pc = "starting"]
             h == [there |-> TRUE, seen |-> now, stopped |-> FALSE]
  <2>1. x \in Process /\ x.pc = "starting" /\ x.task = x0.task  BY DEF Process
  <2>2. h \in Beating /\ h.seen = now /\ ~h.stopped  BY Types DEF Beating
  <2>3. /\ worker' = [worker EXCEPT ![w] = x] /\ hb' = [hb EXCEPT ![w] = h]
        /\ UNCHANGED <<now, task, pass>> /\ x0.pc = "new"
    BY <1>1, <1>5 DEF Register
  <2>4. x.task = None  BY <1>1, <1>2, <2>1, <2>3
  <2> HIDE DEF x, h
  <2>. QED  BY <1>1, <1>2, <1>4, <2>1, <2>2, <2>3, <2>4, OwnStep
<1>6. CASE StartPlain(w)
  <2> DEFINE x == [x0 EXCEPT !.pc = "plain"]
  <2>1. x \in Process /\ x.pc = "plain" /\ x.task = x0.task  BY DEF Process
  <2>2. /\ worker' = [worker EXCEPT ![w] = x]
        /\ UNCHANGED <<now, hb, task, pass>> /\ x0.pc = "new"
    BY <1>1, <1>6 DEF StartPlain
  <2>3. x.task = None  BY <1>1, <1>2, <2>1, <2>2
  <2>4. ~h0.there /\ ~h0.stopped /\ y0.stage = "none"  BY <1>1, <1>2, <2>2
  <2> HIDE DEF x
  <2>. QED  BY <1>1, <1>4, <2>1, <2>2, <2>3, <2>4, OwnStep
<1>7. CASE Exit(w) \/ Crash(w)
  <2> DEFINE x == [pc |-> "gone", task |-> None, missed |-> 0, beats |-> 0, tardy |-> FALSE]
  <2>1. x \in Process /\ x.pc = "gone" /\ x.task = None
    BY ClockAssumption DEF Process
  <2>2. /\ worker' = [worker EXCEPT ![w] = x] /\ pass' = [pass EXCEPT ![w] = NoPass]
        /\ UNCHANGED <<now, task>>
    BY <1>7 DEF Exit, Crash, Gone
  <2>3. PICK h \in Beating : /\ hb' = [hb EXCEPT ![w] = h]
                             /\ h.there => hb[w].there
                             /\ h.seen \in {hb[w].seen, now}
    <3>1. [h0 EXCEPT !.seen = now, !.stopped = TRUE] \in Beating  BY Types DEF Beating
    <3>2. /\ [h0 EXCEPT !.seen = now, !.stopped = TRUE].there = h0.there
          /\ [h0 EXCEPT !.seen = now, !.stopped = TRUE].seen = now
      BY DEF Beating
    <3>3. \/ UNCHANGED hb
          \/ hb' = [hb EXCEPT ![w] = [h0 EXCEPT !.seen = now, !.stopped = TRUE]]
      BY <1>1, <1>7 DEF Exit, Crash
    <3>. QED  BY <1>1, <1>4, <3>1, <3>2, <3>3
  <2> HIDE DEF x
  <2>. QED  BY <2>1, <2>2, <2>3, NoPassIs, OwnStep
<1>8. CASE BeginStarting(w)
  <2>1. PICK y \in Pass : /\ pass' = [pass EXCEPT ![w] = y]
                          /\ y.lost = {} /\ y.now <= now /\ y.stage = "judge"
                          /\ \A t \in y.running : task[t].status # "READY"
    BY <1>8, Begins DEF BeginStarting
  <2>2. UNCHANGED <<now, hb, worker, task>> /\ x0.pc = "starting"
    BY <1>1, <1>8 DEF BeginStarting
  <2>3. x0.task = None  BY <1>1, <1>2, <2>2
  <2>. QED  BY <1>1, <1>2, <1>4, <2>1, <2>2, <2>3, OwnStep
<1>9. CASE PassRaises(w)
  <2>1. pass' = [pass EXCEPT ![w] = NoPass] /\ UNCHANGED <<now, hb, task>>
    BY <1>9 DEF PassRaises, PassOver
  <2>2. PICK x \in Process : /\ worker' = [worker EXCEPT ![w] = x] /\ x.pc = "up"
                             /\ x.task = x0.task /\ x.tardy = x0.tardy
    <3>1. worker' = [v \in Workers |->
                       IF v = w /\ worker[v].pc = "starting"
                       THEN [worker[v] EXCEPT !.pc = "up"] ELSE worker[v]]
      BY <1>9 DEF PassRaises, PassOver
    <3>2. worker[w].pc \in {"starting", "up"}  BY <1>2, <1>9 DEF PassRaises
    <3>3. CASE x0.pc = "starting"
      <4>1. /\ [x0 EXCEPT !.pc = "up"] \in Process /\ [x0 EXCEPT !.pc = "up"].pc = "up"
            /\ [x0 EXCEPT !.pc = "up"].task = x0.task
            /\ [x0 EXCEPT !.pc = "up"].tardy = x0.tardy
        BY DEF Process
      <4>2. worker' = [worker EXCEPT ![w] = [x0 EXCEPT !.pc = "up"]]
        BY <1>1, <3>1, <3>3, Types
      <4>. QED  BY <4>1, <4>2
    <3>4. CASE x0.pc = "up"
      <4>1. worker' = worker  BY <1>1, <3>1, <3>4, Types
      <4>. QED  BY <1>4, <3>4, <4>1
    <3>. QED  BY <1>1, <3>2, <3>3, <3>4
  <2>3. x.task # None /\ h0.there /\ now - h0.seen > LostAfter => x.tardy
    BY <1>1, <1>2, <2>2 DEF Silent
  <2>4. ~h0.stopped  BY <1>1, <1>2, <1>9 DEF PassRaises
  <2>. QED  BY <1>1, <1>4, <2>1, <2>2, <2>3, <2>4, NoPassIs, OwnStep
<1>. QED  BY <1>5, <1>6, <1>7, <1>8, <1>9

LEMMA BeatsKeep ==
  ASSUME PoolInv, NEW w \in Workers, Beat(w) \/ BeatFails(w)
  PROVE  PoolInv'
<1>1. PICK x0 \in Process, h0 \in Beating, y0 \in Pass :
        x0 = worker[w] /\ h0 = hb[w] /\ y0 = pass[w]
  BY Types
<1>2. /\ worker[w].task # None /\ Silent(w, now) => worker[w].tardy
      /\ hb[w].stopped => worker[w].pc = "gone"
      /\ worker[w].task # None => worker[w].pc \in {"up", "plain"}
  BY DEF PoolInv, RowSays, TypeOK
<1>3. x0.pc = "up" /\ UNCHANGED <<now, task>>  BY <1>1 DEF Beat, BeatFails, Looping
<1>4. PICK m \in 0..MaxMissed : Counted(w, m) /\ ReapIfDue(w, m)
  <2>1. 0 \in 0..MaxMissed /\ MaxMissed \in 0..MaxMissed  BY ClockAssumption
  <2>2. x0.missed \in 0..MaxMissed  BY DEF Process
  <2>3. x0.missed < MaxMissed => x0.missed + 1 \in 0..MaxMissed
    BY <2>2, ClockAssumption
  <2>. QED  BY <1>1, <2>1, <2>3 DEF Beat, BeatFails
<1>5. PICK x \in Process : /\ worker' = [worker EXCEPT ![w] = x] /\ x.pc = "up"
                           /\ x.task = x0.task /\ x.tardy = x0.tardy
  <2>1. PICK b \in 0..(ReapEvery - 1) : b = (x0.beats + 1) % ReapEvery
    <3>1. x0.beats \in 0..(ReapEvery - 1)  BY DEF Process
    <3>2. x0.beats + 1 \in Nat  BY <3>1, ClockAssumption
    <3>. QED  BY <3>2, ClockAssumption
  <2>2. worker' = [worker EXCEPT ![w].missed = m, ![w].beats = (@ + 1) % ReapEvery]
    BY <1>4 DEF Counted
  <2>3. worker' = [worker EXCEPT ![w] = [x0 EXCEPT !.missed = m, !.beats = b]]
    BY <1>1, <2>1, <2>2, Types DEF Process
  <2>4. /\ [x0 EXCEPT !.missed = m, !.beats = b] \in Process
        /\ [x0 EXCEPT !.missed = m, !.beats = b].pc = x0.pc
        /\ [x0 EXCEPT !.missed = m, !.beats = b].task = x0.task
        /\ [x0 EXCEPT !.missed = m, !.beats = b].tardy = x0.tardy
    BY DEF Process
  <2>. QED  BY <1>3, <2>3, <2>4
<1>6. PICK h \in Beating : /\ hb' = [hb EXCEPT ![w] = h]
                           /\ h.there = h0.there /\ h.stopped = h0.stopped
                           /\ h.seen \in {h0.seen, now} /\ (h = h0 \/ h.seen = now)
  <2>1. UNCHANGED hb \/ hb' = [hb EXCEPT ![w].seen = now]  BY DEF Beat, BeatFails
  <2>2. CASE UNCHANGED hb  BY <1>1, <2>2, Types
  <2>3. CASE hb' = [hb EXCEPT ![w].seen = now]
    <3>1. /\ [h0 EXCEPT !.seen = now] \in Beating
          /\ [h0 EXCEPT !.seen = now].there = h0.there
          /\ [h0 EXCEPT !.seen = now].stopped = h0.stopped
          /\ [h0 EXCEPT !.seen = now].seen = now
      BY Types DEF Beating
    <3>2. hb' = [hb EXCEPT ![w] = [h0 EXCEPT !.seen = now]]  BY <1>1, <2>3
    <3>. QED  BY <3>1, <3>2
  <2>. QED  BY <2>1, <2>2, <2>3
<1>7. x.task # None /\ h.there /\ now - h.seen > LostAfter => x.tardy
  <2>1. CASE h = h0  BY <1>1, <1>2, <1>5, <2>1 DEF Silent
  <2>2. CASE h.seen = now
    <3>1. ~(now - now > LostAfter)  BY Types, ClockAssumption
    <3>. QED  BY <2>2, <3>1
  <2>. QED  BY <1>6, <2>1, <2>2
<1>8. PICK y \in Pass : /\ pass' = [pass EXCEPT ![w] = y]
                        /\ y # pass[w] => /\ y.lost = {} /\ y.now <= now /\ y.stage # "fail"
                                          /\ \A t \in y.running : task[t].status # "READY"
  <2>1. CASE UNCHANGED pass  BY <1>1, <2>1, Types
  <2>2. CASE Begin(w)  BY <2>2, Begins
  <2>. QED  BY <1>4, <2>1, <2>2 DEF ReapIfDue
<1>9. ~h0.stopped  BY <1>1, <1>2, <1>3
<1>. QED  BY <1>1, <1>2, <1>3, <1>5, <1>6, <1>7, <1>8, <1>9, OwnStep

\* A task is claimed when no pass has seen it: it was READY.
LEMMA ClaimKeeps ==
  ASSUME PoolInv, NEW w \in Workers, NEW t \in Tasks, Claim(w, t)
  PROVE  PoolInv'
<1>1. PICK x0 \in Process : x0 = worker[w] /\ x0.pc \in {"up", "plain"} /\ x0.task = None
  BY Types DEF Claim
<1>2. task[t].status = "READY" /\ UNCHANGED <<now, hb, pass>>  BY DEF Claim
<1>3. PICK r \in Row : /\ task' = [task EXCEPT ![t] = r]
                       /\ r.status = "RUNNING" /\ r.claimant = w /\ r.started = now
  <2> DEFINE r == [status |-> "RUNNING", claimant |-> w, started |-> now]
  <2>1. r \in Row /\ r.status = "RUNNING" /\ r.claimant = w /\ r.started = now
    BY Types DEF Row
  <2>2. task' = [task EXCEPT ![t] = r]  BY DEF Claim
  <2> HIDE DEF r
  <2>. QED  BY <2>1, <2>2
<1>4. PICK x \in Process : /\ worker' = [worker EXCEPT ![w] = x]
                           /\ x.pc = x0.pc /\ x.task = t /\ (Silent(w, now) => x.tardy)
  <2> DEFINE x == [x0 EXCEPT !.task = t, !.tardy = Silent(w, now)]
  <2>1. Silent(w, now) \in BOOLEAN  BY DEF Silent
  <2>2. /\ x \in Process /\ x.pc = x0.pc /\ x.task = t /\ x.tardy = Silent(w, now)
    BY <2>1 DEF Process
  <2>3. worker' = [worker EXCEPT ![w] = x]  BY <1>1, Types DEF Claim
  <2> HIDE DEF x
  <2>. QED  BY <2>2, <2>3
<1>5. /\ worker' \in [Workers -> Process] /\ task' \in [Tasks -> Row]
      /\ worker'[w] = x /\ task'[t] = r
      /\ \A v \in Workers : v # w => worker'[v] = worker[v]
      /\ \A s \in Tasks : s # t => task'[s] = task[s]
  BY <1>3, <1>4, Types
<1>6. \A v \in Workers : ~Holds(v, t) /\ t \notin pass[v].running /\ t \notin pass[v].lost
  BY <1>2 DEF PoolInv, Claims, PassKnows
<1>7. TypeOK'
  <2>1. (/\ now \in 0..MaxTime
         /\ hb \in [Workers -> Beating] /\ worker \in [Workers -> Process]
         /\ task \in [Tasks -> Row] /\ pass \in [Workers -> Pass])'
    BY <1>2, <1>5, Types
  <2>2. \A v \in Workers :
          /\ pass'[v].stage # "none" => worker'[v].pc \in {"starting", "up"}
          /\ worker'[v].task # None => worker'[v].pc \in {"up", "plain"}
    BY <1>1, <1>2, <1>4, <1>5 DEF PoolInv, TypeOK
  <2>. QED  BY <2>1, <2>2 DEF TypeOK, Beating, Process, Row, Pass
<1>8. Claims'
  <2>1. ASSUME NEW s \in Tasks, NEW v \in Workers, Holds(v, s)'
        PROVE  task'[s].claimant = v /\ task'[s].status \in {"RUNNING", "LOST"}
    <3>1. CASE v = w  BY <1>3, <1>4, <1>5, <2>1, <3>1 DEF Holds
    <3>2. CASE v # w
      <4>1. Holds(v, s)  BY <1>5, <2>1, <3>2 DEF Holds
      <4>2. s # t  BY <1>6, <4>1
      <4>. QED  BY <1>5, <4>1, <4>2 DEF PoolInv, Claims
    <3>. QED  BY <3>1, <3>2
  <2>2. ASSUME NEW s \in Tasks, task'[s].status # "READY"
        PROVE  /\ task'[s].claimant \in Workers /\ worker'[task'[s].claimant].pc # "new"
               /\ task'[s].started <= now'
    <3>1. CASE s = t  BY <1>1, <1>2, <1>3, <1>4, <1>5, <3>1, Types
    <3>2. CASE s # t
      <4>1. /\ task[s].claimant \in Workers /\ worker[task[s].claimant].pc # "new"
            /\ task[s].started <= now
        BY <1>5, <2>2, <3>2 DEF PoolInv, Claims
      <4>. QED  BY <1>1, <1>2, <1>4, <1>5, <3>2, <4>1
    <3>. QED  BY <3>1, <3>2
  <2>. QED  BY <2>1, <2>2 DEF Claims
<1>9. ASSUME NEW v \in Workers PROVE RowSays(v)'
  <2>1. CASE v = w
    <3>1. RowSays(w)  BY DEF PoolInv
    <3>. QED  BY <1>1, <1>2, <1>4, <1>5, <2>1, <3>1 DEF RowSays, Silent
  <2>2. CASE v # w
    <3>1. RowSays(v)  BY DEF PoolInv
    <3>. QED  BY <1>2, <1>5, <2>2, <3>1 DEF RowSays, Silent
  <2>. QED  BY <2>1, <2>2
<1>10. ASSUME NEW p \in Workers PROVE PassKnows(p)'
  <2>1. PassKnows(p) /\ t \notin pass[p].running /\ pass[p].running \subseteq Tasks
    BY <1>6, Types DEF PoolInv
  <2>2. \A s \in pass[p].running : task'[s] = task[s]  BY <1>5, <2>1
  <2>. QED  BY <1>2, <2>1, <2>2 DEF PassKnows
<1>11. Doubts'
  <2>1. ASSUME NEW v \in Workers, NEW s \in Tasks, worker'[v].task = s
        PROVE  /\ s \notin pass[v].lost
               /\ task'[s].status = "LOST" \/ (\E p \in Workers : s \in pass[p].lost)
                    => worker'[v].tardy \/ (~hb[v].there /\ now - task'[s].started > Orphan)
    <3>1. CASE v = w  BY <1>3, <1>4, <1>5, <1>6, <2>1, <3>1
    <3>2. CASE v # w
      <4>1. Holds(v, s)  BY <1>5, <2>1, <3>2 DEF Holds
      <4>2. s # t  BY <1>6, <4>1
      <4>. QED  BY <1>5, <3>2, <4>1, <4>2 DEF PoolInv, Doubts, Excused
    <3>. QED  BY <3>1, <3>2
  <2>. QED  BY <1>2, <2>1 DEF Doubts, Holds, Excused
<1>. QED  BY <1>7, <1>8, <1>9, <1>10, <1>11 DEF PoolInv

LEMMA FinishKeeps ==
  ASSUME PoolInv, NEW w \in Workers, Finish(w)
  PROVE  PoolInv'
<1>1. PICK t \in Tasks : t = worker[w].task /\ Holds(w, t)
  BY Types DEF Finish, Holds, Process
<1>2. /\ task[t].claimant = w /\ task[t].status # "READY"
      /\ \A v \in Workers : v # w => ~Holds(v, t)
  BY <1>1 DEF PoolInv, Claims
<1>3. UNCHANGED <<now, hb, pass>>  BY DEF Finish
<1>4. PICK x0 \in Process, r0 \in Row : x0 = worker[w] /\ r0 = task[t]  BY Types
<1>5. PICK x \in Process : /\ worker' = [worker EXCEPT ![w] = x]
                           /\ x.pc = x0.pc /\ x.task = None
  <2> DEFINE x == [x0 EXCEPT !.task = None, !.tardy = FALSE]
  <2>1. x \in Process /\ x.pc = x0.pc /\ x.task = None  BY DEF Process
  <2>2. worker' = [worker EXCEPT ![w] = x]  BY <1>4, Types DEF Finish
  <2> HIDE DEF x
  <2>. QED  BY <2>1, <2>2
<1>6. PICK r \in Row : /\ task' = [task EXCEPT ![t] = r] /\ r.status = "DONE"
                       /\ r.claimant = r0.claimant /\ r.started = r0.started
  <2> DEFINE r == [r0 EXCEPT !.status = "DONE"]
  <2>1. /\ r \in Row /\ r.status = "DONE" /\ r.claimant = r0.claimant
        /\ r.started = r0.started
    BY DEF Row
  <2>2. task' = [task EXCEPT ![t] = r]  BY <1>1, <1>4, Types DEF Finish
  <2> HIDE DEF r
  <2>. QED  BY <2>1, <2>2
<1>7. /\ worker' \in [Workers -> Process] /\ task' \in [Tasks -> Row]
      /\ worker'[w] = x /\ task'[t] = r
      /\ \A v \in Workers : v # w => worker'[v] = worker[v]
      /\ \A s \in Tasks : s # t => task'[s] = task[s]
  BY <1>5, <1>6, Types
<1>8. TypeOK'
  <2>1. (/\ now \in 0..MaxTime
         /\ hb \in [Workers -> Beating] /\ worker \in [Workers -> Process]
         /\ task \in [Tasks -> Row] /\ pass \in [Workers -> Pass])'
    BY <1>3, <1>7, Types
  <2>2. \A v \in Workers :
          /\ pass'[v].stage # "none" => worker'[v].pc \in {"starting", "up"}
          /\ worker'[v].task # None => worker'[v].pc \in {"up", "plain"}
    BY <1>3, <1>4, <1>5, <1>7 DEF PoolInv, TypeOK
  <2>. QED  BY <2>1, <2>2 DEF TypeOK, Beating, Process, Row, Pass
<1>9. \A v \in Workers, s \in Tasks : Holds(v, s)' => Holds(v, s) /\ s # t /\ v # w
  BY <1>1, <1>2, <1>5, <1>7, Types DEF Holds
<1>10. Claims'
  <2>1. ASSUME NEW s \in Tasks, task'[s].status # "READY"
        PROVE  /\ task'[s].claimant \in Workers /\ worker'[task'[s].claimant].pc # "new"
               /\ task'[s].started <= now'
    <3>1. task[s].status # "READY" /\ task'[s].claimant = task[s].claimant
          /\ task'[s].started = task[s].started
      BY <1>2, <1>4, <1>6, <1>7, <2>1
    <3>2. \A v \in Workers : worker'[v].pc = worker[v].pc  BY <1>4, <1>5, <1>7
    <3>. QED  BY <1>3, <3>1, <3>2 DEF PoolInv, Claims
  <2>2. \A s \in Tasks, v \in Workers : Holds(v, s)' =>
          task'[s].claimant = v /\ task'[s].status \in {"RUNNING", "LOST"}
    BY <1>7, <1>9 DEF PoolInv, Claims
  <2>. QED  BY <2>1, <2>2 DEF Claims
<1>11. ASSUME NEW v \in Workers PROVE RowSays(v)'
  <2>1. RowSays(v)  BY DEF PoolInv
  <2>. QED  BY <1>3, <1>4, <1>5, <1>7, <2>1 DEF RowSays, Silent
<1>12. ASSUME NEW p \in Workers PROVE PassKnows(p)'
  <2>1. PassKnows(p) /\ pass[p].running \subseteq Tasks  BY Types DEF PoolInv
  <2>2. \A s \in pass[p].running :
          /\ task'[s].status = task[s].status \/ task'[s].status = "DONE"
          /\ task'[s].claimant = task[s].claimant
    BY <1>4, <1>6, <1>7, <2>1
  <2>. QED  BY <1>3, <2>1, <2>2 DEF PassKnows
<1>13. Doubts'
  <2>1. ASSUME NEW v \in Workers, NEW s \in Tasks, Holds(v, s)'
        PROVE  /\ s \notin pass'[v].lost
               /\ task'[s].status = "LOST" \/ (\E p \in Workers : s \in pass'[p].lost)
                    => Excused(v, s)'
    <3>1. Holds(v, s) /\ worker'[v] = worker[v] /\ task'[s] = task[s]
      BY <1>7, <1>9, <2>1
    <3>. QED  BY <1>3, <3>1 DEF PoolInv, Doubts, Excused
  <2>. QED  BY <2>1 DEF Doubts
<1>. QED  BY <1>8, <1>10, <1>11, <1>12, <1>13 DEF PoolInv

\* Time makes workers tardy as soon as their silence shows.
LEMMA TickKeeps ==
  ASSUME PoolInv, Tick
  PROVE  PoolInv'
<1>1. UNCHANGED <<hb, task, pass>> /\ now' \in 0..MaxTime /\ now' = now + 1 /\ now \in Nat
  BY Types DEF Tick
<1>2. ASSUME NEW v \in Workers
      PROVE  /\ worker'[v] \in Process
             /\ worker'[v].pc = worker[v].pc /\ worker'[v].task = worker[v].task
             /\ worker[v].task # None => /\ worker[v].tardy => worker'[v].tardy
                                         /\ Silent(v, now') => worker'[v].tardy
  <2>1. PICK x0 \in Process : x0 = worker[v]  BY Types
  <2>2. (x0.task # None /\ (x0.tardy \/ Silent(v, now'))) \in BOOLEAN  OBVIOUS
  <2>3. worker'[v] = [x0 EXCEPT !.tardy = x0.task # None /\ (x0.tardy \/ Silent(v, now'))]
    BY <2>1 DEF Tick, Process
  <2>. QED  BY <2>1, <2>2, <2>3 DEF Process
<1>3. TypeOK'
  <2>1. worker' \in [Workers -> Process]
    <3>1. worker' = [v \in Workers |-> worker'[v]]  BY DEF Tick
    <3>. QED  BY <1>2, <3>1
  <2>2. (/\ now \in 0..MaxTime
         /\ hb \in [Workers -> Beating] /\ worker \in [Workers -> Process]
         /\ task \in [Tasks -> Row] /\ pass \in [Workers -> Pass])'
    BY <1>1, <2>1, Types
  <2>3. \A v \in Workers :
          /\ pass'[v].stage # "none" => worker'[v].pc \in {"starting", "up"}
          /\ worker'[v].task # None => worker'[v].pc \in {"up", "plain"}
    BY <1>1, <1>2 DEF PoolInv, TypeOK
  <2>. QED  BY <2>2, <2>3 DEF TypeOK, Beating, Process, Row, Pass
<1>4. \A v \in Workers, s \in Tasks : Holds(v, s)' <=> Holds(v, s)  BY <1>2 DEF Holds
<1>5. Claims'
  <2>1. ASSUME NEW s \in Tasks, task[s].status # "READY"
        PROVE  /\ task[s].claimant \in Workers /\ worker'[task[s].claimant].pc # "new"
               /\ task[s].started <= now'
    <3>1. task[s].started <= now /\ task[s].started \in Nat
      BY <2>1, Types DEF PoolInv, Claims
    <3>2. task[s].started <= now'  BY <1>1, <3>1
    <3>. QED  BY <1>2, <2>1, <3>2 DEF PoolInv, Claims
  <2>. QED  BY <1>1, <1>4, <2>1 DEF PoolInv, Claims
<1>6. ASSUME NEW v \in Workers PROVE RowSays(v)'
  <2>1. RowSays(v) /\ hb[v].seen \in Nat  BY Types DEF PoolInv
  <2>2. hb[v].seen <= now'  BY <1>1, <2>1 DEF RowSays
  <2>. QED  BY <1>1, <1>2, <2>1, <2>2 DEF RowSays, Silent
<1>7. ASSUME NEW p \in Workers PROVE PassKnows(p)'
  <2>1. PassKnows(p) /\ pass[p].now \in Nat  BY Types DEF PoolInv
  <2>2. pass[p].now <= now'  BY <1>1, <2>1 DEF PassKnows
  <2>. QED  BY <1>1, <2>1, <2>2 DEF PassKnows
<1>8. Doubts'
  <2>1. ASSUME NEW v \in Workers, NEW s \in Tasks, Holds(v, s)'
        PROVE  /\ s \notin pass'[v].lost
               /\ task'[s].status = "LOST" \/ (\E p \in Workers : s \in pass'[p].lost)
                    => Excused(v, s)'
    <3>1. Holds(v, s) /\ worker[v].task # None  BY <1>4, <2>1, Types DEF Holds
    <3>2. Excused(v, s) => Excused(v, s)'
      BY <1>1, <1>2, <3>1, Types, ClockAssumption DEF Excused
    <3>. QED  BY <1>1, <3>1, <3>2 DEF PoolInv, Doubts
  <2>. QED  BY <2>1 DEF Doubts
<1>. QED  BY <1>3, <1>5, <1>6, <1>7, <1>8 DEF PoolInv

\* A pass's own steps move no process and no heartbeat row; the tasks it leaves behind
\* were claimed as before.
LEMMA JudgeKeeps ==
  ASSUME PoolInv, NEW p \in Workers, Judge(p)
  PROVE  PoolInv'
<1>1. UNCHANGED <<now, hb, worker, task>>  BY DEF Judge
<1>2. PICK y0 \in Pass : y0 = pass[p] /\ y0.stage = "judge"  BY Types DEF Judge
<1>3. PICK y \in Pass :
        /\ pass' = [pass EXCEPT ![p] = y]
        /\ y.stage = "fail" /\ y.now = y0.now /\ y.running = y0.running
        /\ y.lost = {t \in y0.running : task[t].claimant # p /\ LooksLost(t, y0.now)}
  <2> DEFINE l == {t \in y0.running : task[t].claimant # p /\ LooksLost(t, y0.now)}
             y == [y0 EXCEPT !.stage = "fail", !.lost = l]
  <2>1. l \in SUBSET Tasks  BY DEF Pass
  <2>2. pass' = [pass EXCEPT ![p] = y]  BY <1>2 DEF Judge
  <2> HIDE DEF l
  <2>3. /\ y \in Pass /\ y.stage = "fail" /\ y.now = y0.now /\ y.running = y0.running
        /\ y.lost = l
    BY <2>1 DEF Pass
  <2> HIDE DEF y
  <2>. QED  BY <2>2, <2>3 DEF l
<1>4. /\ pass' \in [Workers -> Pass] /\ pass'[p] = y
      /\ \A q \in Workers : q # p => pass'[q] = pass[q]
  BY <1>3, Types
<1>5. TypeOK'
  <2>1. (/\ now \in 0..MaxTime
         /\ hb \in [Workers -> Beating] /\ worker \in [Workers -> Process]
         /\ task \in [Tasks -> Row] /\ pass \in [Workers -> Pass])'
    BY <1>1, <1>4, Types
  <2>2. \A v \in Workers :
          /\ pass'[v].stage # "none" => worker'[v].pc \in {"starting", "up"}
          /\ worker'[v].task # None => worker'[v].pc \in {"up", "plain"}
    BY <1>1, <1>2, <1>4 DEF PoolInv, TypeOK
  <2>. QED  BY <2>1, <2>2 DEF TypeOK, Beating, Process, Row, Pass
<1>6. Claims'  BY <1>1 DEF PoolInv, Claims, Holds
<1>7. \A v \in Workers : RowSays(v)'  BY <1>1 DEF PoolInv, RowSays, Silent
<1>8. ASSUME NEW q \in Workers PROVE PassKnows(q)'
  <2>1. CASE q # p
    <3>1. PassKnows(q)  BY DEF PoolInv
    <3>. QED  BY <1>1, <1>4, <2>1, <3>1 DEF PassKnows
  <2>2. CASE q = p
    <3>1. PassKnows(p) /\ y0.now \in Nat /\ y0.running \subseteq Tasks
      BY <1>2, Types DEF PoolInv
    <3>2. ASSUME NEW t \in y.running \ y.lost, task[t].status = "RUNNING",
                 NEW w \in Workers, w = task[t].claimant, w # p, hb[w].there
          PROVE  hb[w].seen + Retention >= y.now
      <4>1. ~Silent(w, now)  BY <1>3, <3>2 DEF LooksLost
      <4>2. hb[w].seen \in Nat /\ now \in Nat /\ y.now <= now
        BY <1>2, <1>3, <3>1, Types DEF PassKnows
      <4>. QED  BY <3>1, <3>2, <4>1, <4>2, <1>3, ClockAssumption DEF Silent
    <3>3. \A t \in y.running : task[t].status = "RUNNING" => task[t].claimant \in Workers
      BY <1>3, <3>1 DEF PoolInv, Claims
    <3>4. /\ y.now <= now /\ y.lost \subseteq y.running /\ y.stage = "fail"
          /\ \A t \in y.running : task[t].status # "READY"
      BY <1>2, <1>3, <3>1 DEF PassKnows
    <3>. QED  BY <1>1, <1>4, <2>2, <3>2, <3>3, <3>4 DEF PassKnows
  <2>. QED  BY <2>1, <2>2
<1>9. Doubts'
  <2>1. ASSUME NEW v \in Workers, NEW t \in Tasks, Holds(v, t)
        PROVE  /\ t \notin pass'[v].lost
               /\ task[t].status = "LOST" \/ (\E q \in Workers : t \in pass'[q].lost)
                    => Excused(v, t)
    <3>1. task[t].claimant = v /\ task[t].status \in {"RUNNING", "LOST"}
      BY <2>1 DEF PoolInv, Claims
    <3>2. v = p => t \notin y.lost  BY <1>3, <3>1
    <3>3. t \in y.lost => Excused(v, t)
      <4> SUFFICES ASSUME t \in y.lost PROVE Excused(v, t)  OBVIOUS
      <4>1. LooksLost(t, y0.now)  BY <1>3
      <4>2. worker[v].pc # "gone" /\ worker[v].task # None
        BY <2>1, Types DEF Holds, PoolInv, TypeOK
      <4>3. CASE hb[v].there
        <5>1. ~hb[v].stopped  BY <4>2 DEF PoolInv, RowSays
        <5>2. Silent(v, now)  BY <3>1, <4>1, <4>3, <5>1 DEF LooksLost
        <5>. QED  BY <4>2, <5>2 DEF PoolInv, RowSays, Excused
      <4>4. CASE ~hb[v].there
        <5>1. task[t].started + Orphan < y0.now  BY <3>1, <4>1, <4>4 DEF LooksLost
        <5>2. /\ y0.now <= now /\ y0.now \in Nat /\ now \in Nat
              /\ task[t].started \in Nat
          BY <1>2, Types DEF PoolInv, PassKnows
        <5>3. now - task[t].started > Orphan  BY <5>1, <5>2, ClockAssumption
        <5>. QED  BY <4>4, <5>3 DEF Excused
      <4>. QED  BY <4>3, <4>4
    <3>. QED  BY <1>4, <2>1, <3>2, <3>3 DEF PoolInv, Doubts
  <2>. QED  BY <1>1, <2>1 DEF Doubts, Holds, Excused
<1>. QED  BY <1>5, <1>6, <1>7, <1>8, <1>9 DEF PoolInv

LEMMA FailTaskKeeps ==
  ASSUME PoolInv, NEW p \in Workers, NEW t \in Tasks, FailTask(p, t)
  PROVE  PoolInv'
<1>1. UNCHANGED <<now, hb, worker>> /\ pass[p].stage = "fail" /\ t \in pass[p].lost
  BY DEF FailTask
<1>2. PICK y0 \in Pass, r0 \in Row : y0 = pass[p] /\ r0 = task[t]  BY Types
<1>3. PICK y \in Pass : /\ pass' = [pass EXCEPT ![p] = y]
                        /\ y.stage = y0.stage /\ y.now = y0.now /\ y.running = y0.running
                        /\ y.lost = y0.lost \ {t}
  <2> DEFINE l == y0.lost \ {t}
             y == [y0 EXCEPT !.lost = l]
  <2>1. l \in SUBSET Tasks  BY DEF Pass
  <2>2. pass' = [pass EXCEPT ![p] = y]  BY <1>2 DEF FailTask
  <2> HIDE DEF l
  <2>3. /\ y \in Pass /\ y.stage = y0.stage /\ y.now = y0.now /\ y.running = y0.running
        /\ y.lost = l
    BY <2>1 DEF Pass
  <2> HIDE DEF y
  <2>. QED  BY <2>2, <2>3 DEF l
<1>4. PICK r \in Row : /\ task' = [task EXCEPT ![t] = r]
                       /\ r.claimant = r0.claimant /\ r.started = r0.started
                       /\ IF r0.status = "RUNNING" THEN r.status = "LOST"
                                                   ELSE r.status = r0.status
  <2> DEFINE z == [r0 EXCEPT !.status = "LOST"]
  <2>1. /\ z \in Row /\ z.status = "LOST" /\ z.claimant = r0.claimant
        /\ z.started = r0.started
    BY DEF Row
  <2>2. CASE r0.status = "RUNNING"
    <3>1. task' = [task EXCEPT ![t] = z]  BY <1>2, <2>2 DEF FailTask
    <3> HIDE DEF z
    <3>. QED  BY <2>1, <2>2, <3>1
  <2>3. CASE r0.status # "RUNNING"
    <3>1. task' = [task EXCEPT ![t] = r0]  BY <1>2, <2>3, Types DEF FailTask
    <3>. QED  BY <2>3, <3>1
  <2>. QED  BY <2>2, <2>3
<1>5. /\ pass' \in [Workers -> Pass] /\ pass'[p] = y
      /\ \A q \in Workers : q # p => pass'[q] = pass[q]
      /\ task' \in [Tasks -> Row] /\ task'[t] = r
      /\ \A s \in Tasks : s # t => task'[s] = task[s]
  BY <1>3, <1>4, Types
<1>6. r0.status # "READY"  BY <1>1, <1>2 DEF PoolInv, PassKnows
<1>7. \A s \in Tasks :
        /\ task'[s].claimant = task[s].claimant /\ task'[s].started = task[s].started
        /\ task'[s].status = "READY" <=> task[s].status = "READY"
        /\ task'[s].status = "RUNNING" => task[s].status = "RUNNING" /\ s # t
  BY <1>2, <1>4, <1>5, <1>6
<1>8. TypeOK'
  <2>1. (/\ now \in 0..MaxTime
         /\ hb \in [Workers -> Beating] /\ worker \in [Workers -> Process]
         /\ task \in [Tasks -> Row] /\ pass \in [Workers -> Pass])'
    BY <1>1, <1>5, Types
  <2>2. \A v \in Workers :
          /\ pass'[v].stage # "none" => worker'[v].pc \in {"starting", "up"}
          /\ worker'[v].task # None => worker'[v].pc \in {"up", "plain"}
    BY <1>1, <1>2, <1>3, <1>5 DEF PoolInv, TypeOK
  <2>. QED  BY <2>1, <2>2 DEF TypeOK, Beating, Process, Row, Pass
<1>9. Claims'
  <2>1. \A s \in Tasks, w \in Workers : Holds(w, s) =>
          task'[s].claimant = w /\ task'[s].status \in {"RUNNING", "LOST"}
    BY <1>2, <1>4, <1>5 DEF PoolInv, Claims
  <2>. QED  BY <1>1, <1>7, <2>1 DEF PoolInv, Claims, Holds
<1>10. \A v \in Workers : RowSays(v)'  BY <1>1 DEF PoolInv, RowSays, Silent
<1>11. ASSUME NEW q \in Workers PROVE PassKnows(q)'
  <2>1. PassKnows(q) /\ pass[q].running \subseteq Tasks  BY Types DEF PoolInv
  <2>2. CASE q # p  BY <1>1, <1>5, <1>7, <2>1, <2>2 DEF PassKnows
  <2>3. CASE q = p  BY <1>1, <1>2, <1>3, <1>5, <1>7, <2>1, <2>3 DEF PassKnows
  <2>. QED  BY <2>2, <2>3
<1>12. Doubts'
  <2>1. ASSUME NEW v \in Workers, NEW s \in Tasks, Holds(v, s)
        PROVE  /\ s \notin pass'[v].lost
               /\ task'[s].status = "LOST" \/ (\E q \in Workers : s \in pass'[q].lost)
                    => Excused(v, s)
    <3>1. \A q \in Workers : pass'[q].lost \subseteq pass[q].lost  BY <1>2, <1>3, <1>5
    <3>2. task'[s].status = "LOST" => task[s].status = "LOST" \/ s \in pass[p].lost
      BY <1>1, <1>5
    <3>. QED  BY <2>1, <3>1, <3>2 DEF PoolInv, Doubts
  <2>2. \A v \in Workers, s \in Tasks : Excused(v, s)' <=> Excused(v, s)
    BY <1>1, <1>7 DEF Excused
  <2>. QED  BY <1>1, <2>1, <2>2 DEF Doubts, Holds
<1>. QED  BY <1>8, <1>9, <1>10, <1>11, <1>12 DEF PoolInv

\* A prune takes rows away, which leaves no worker less excused.
LEMMA PruneKeeps ==
  ASSUME PoolInv, NEW p \in Workers, Prune(p)
  PROVE  PoolInv'
<1>1. UNCHANGED <<now, task>> /\ pass' = [pass EXCEPT ![p] = NoPass]
  BY DEF Prune, PassOver
<1>2. /\ pass' \in [Workers -> Pass] /\ pass'[p] = NoPass
      /\ \A q \in Workers : q # p => pass'[q] = pass[q]
  BY <1>1, NoPassIs, Types
<1>3. ASSUME NEW v \in Workers
      PROVE  /\ worker'[v] \in Process
             /\ worker'[v].pc = worker[v].pc
                \/ (v = p /\ worker[v].pc = "starting" /\ worker'[v].pc = "up")
             /\ worker'[v].task = worker[v].task /\ worker'[v].tardy = worker[v].tardy
  <2>1. PICK x0 \in Process : x0 = worker[v]  BY Types
  <2>2. /\ [x0 EXCEPT !.pc = "up"] \in Process /\ [x0 EXCEPT !.pc = "up"].pc = "up"
        /\ [x0 EXCEPT !.pc = "up"].task = x0.task
        /\ [x0 EXCEPT !.pc = "up"].tardy = x0.tardy
    BY DEF Process
  <2>3. worker'[v] = IF v = p /\ x0.pc = "starting" THEN [x0 EXCEPT !.pc = "up"] ELSE x0
    BY <2>1 DEF Prune, PassOver
  <2>. QED  BY <2>1, <2>2, <2>3
<1>4. ASSUME NEW v \in Workers
      PROVE  /\ hb'[v] \in Beating /\ hb'[v].seen = hb[v].seen
             /\ hb'[v].stopped = hb[v].stopped /\ (hb'[v].there => hb[v].there)
  <2>1. PICK h0 \in Beating : h0 = hb[v]  BY Types
  <2>2. (h0.there /\ h0.seen + Retention >= pass[p].now) \in BOOLEAN  OBVIOUS
  <2>3. hb'[v] = [h0 EXCEPT !.there = h0.there /\ h0.seen + Retention >= pass[p].now]
    BY <2>1 DEF Prune, Beating
  <2>. QED  BY <2>1, <2>2, <2>3 DEF Beating
<1>5. worker' \in [Workers -> Process] /\ hb' \in [Workers -> Beating]
  <2>1. worker' = [v \in Workers |-> worker'[v]]  BY DEF Prune, PassOver
  <2>2. hb' = [v \in Workers |-> hb'[v]]  BY DEF Prune
  <2>. QED  BY <1>3, <1>4, <2>1, <2>2
<1>6. TypeOK'
  <2>1. (/\ now \in 0..MaxTime
         /\ hb \in [Workers -> Beating] /\ worker \in [Workers -> Process]
         /\ task \in [Tasks -> Row] /\ pass \in [Workers -> Pass])'
    BY <1>1, <1>2, <1>5, Types
  <2>2. \A v \in Workers :
          /\ pass'[v].stage # "none" => worker'[v].pc \in {"starting", "up"}
          /\ worker'[v].task # None => worker'[v].pc \in {"up", "plain"}
    BY <1>2, <1>3, NoPassIs DEF PoolInv, TypeOK
  <2>. QED  BY <2>1, <2>2 DEF TypeOK, Beating, Process, Row, Pass
<1>7. Claims'  BY <1>1, <1>3 DEF PoolInv, Claims, Holds
<1>8. ASSUME NEW v \in Workers PROVE RowSays(v)'
  <2>1. RowSays(v) /\ (hb[v].stopped => worker'[v].pc = "gone")
    BY <1>3 DEF PoolInv, RowSays
  <2>. QED  BY <1>1, <1>3, <1>4, <2>1 DEF RowSays, Silent
<1>9. ASSUME NEW q \in Workers PROVE PassKnows(q)'
  <2>1. PassKnows(q) /\ pass[q].running \subseteq Tasks  BY Types DEF PoolInv
  <2>2. CASE q # p
    <3>1. \A s \in pass[q].running : task[s].status = "RUNNING" => task[s].claimant \in Workers
      BY <2>1 DEF PoolInv, Claims
    <3>. QED  BY <1>1, <1>2, <1>4, <2>1, <2>2, <3>1 DEF PassKnows
  <2>3. CASE q = p  BY <1>1, <1>2, <2>3, NoPassIs DEF PassKnows
  <2>. QED  BY <2>2, <2>3
<1>10. Doubts'
  <2>1. ASSUME NEW v \in Workers, NEW s \in Tasks, Holds(v, s)'
        PROVE  /\ s \notin pass'[v].lost
               /\ task[s].status = "LOST" \/ (\E q \in Workers : s \in pass'[q].lost)
                    => Excused(v, s)'
    <3>1. Holds(v, s)  BY <1>3, <2>1 DEF Holds
    <3>2. \A q \in Workers : pass'[q].lost \subseteq pass[q].lost  BY <1>2, NoPassIs
    <3>3. Excused(v, s) => Excused(v, s)'  BY <1>1, <1>3, <1>4 DEF Excused
    <3>. QED  BY <3>1, <3>2, <3>3 DEF PoolInv, Doubts
  <2>. QED  BY <1>1, <2>1 DEF Doubts
<1>. QED  BY <1>6, <1>7, <1>8, <1>9, <1>10 DEF PoolInv

LEMMA InitPool ==
  ASSUME Init
  PROVE  PoolInv
<1>1. 0 \in 0..MaxTime /\ 0 \in 0..MaxMissed /\ 0 \in 0..(ReapEvery - 1)
  BY ClockAssumption
<1>2. /\ now = 0
      /\ hb \in [Workers -> Beating] /\ worker \in [Workers -> Process]
      /\ task \in [Tasks -> Row] /\ pass \in [Workers -> Pass]
  BY <1>1 DEF Init, Beating, Process, Row, Pass, NoPass
<1>3. \A w \in Workers :
        /\ pass[w].stage = "none" /\ pass[w].lost = {} /\ pass[w].running = {}
        /\ pass[w].now = 0
        /\ worker[w].task = None /\ hb[w].seen = 0 /\ ~hb[w].there /\ ~hb[w].stopped
  BY DEF Init, NoPass
<1>4. \A t \in Tasks : task[t].status = "READY"  BY DEF Init
<1>5. TypeOK  BY <1>1, <1>2, <1>3 DEF TypeOK, Beating, Process, Row, Pass
<1>6. Claims  BY <1>3, <1>4, ClockAssumption DEF Claims, Holds
<1>7. Doubts  BY <1>3, ClockAssumption DEF Doubts, Holds
<1>8. \A w \in Workers : RowSays(w) /\ PassKnows(w)
  BY <1>2, <1>3 DEF RowSays, PassKnows
<1>. QED  BY <1>5, <1>6, <1>7, <1>8 DEF PoolInv

LEMMA NextPool ==
  ASSUME PoolInv, [Next]_vars
  PROVE  PoolInv'
<1>1. CASE Tick  BY <1>1, TickKeeps
<1>2. ASSUME NEW w \in Workers, WorkerStep(w) PROVE PoolInv'
  BY <1>2, OwnStepsKeep, BeatsKeep, FinishKeeps, ClaimKeeps DEF WorkerStep
<1>3. ASSUME NEW w \in Workers, PassStep(w) PROVE PoolInv'
  BY <1>3, OwnStepsKeep, JudgeKeeps, PruneKeeps, FailTaskKeeps DEF PassStep
<1>4. CASE UNCHANGED vars
  BY <1>4 DEF vars, PoolInv, TypeOK, Claims, RowSays, PassKnows, Doubts, Holds, Silent, Excused
<1>. QED  BY <1>1, <1>2, <1>3, <1>4 DEF Next

\* What passes conclude about a worker outlasts what the others do meanwhile.
THEOREM DoubtsLast == Spec => []PoolInv
<1>1. Init => PoolInv  BY InitPool
<1>2. PoolInv /\ [Next]_vars => PoolInv'  BY NextPool
<1>. QED  BY <1>1, <1>2, PTL DEF Spec

\* However passes, beats, exits and prunes interleave, a live worker loses the task it
\* executes only after a silence, or with no row and a task a day old.
THEOREM ErrsTowardsLife == Spec => []BeatingWorkerKeepsItsTask
<1>1. PoolInv => BeatingWorkerKeepsItsTask
  <2> SUFFICES ASSUME PoolInv PROVE BeatingWorkerKeepsItsTask  OBVIOUS
  <2>1. SelfSpared
    <3>1. ASSUME NEW w \in Workers PROVE worker[w].task \notin pass[w].lost
      <4>1. CASE worker[w].task \in Tasks  BY <4>1 DEF PoolInv, Doubts, Holds
      <4>2. CASE worker[w].task \notin Tasks  BY <4>2, Types
      <4>. QED  BY <4>1, <4>2
    <3>. QED  BY <3>1 DEF SelfSpared
  <2>. QED  BY <2>1 DEF PoolInv, Doubts, Excused, BeatingWorkerKeepsItsTask
<1>. QED  BY <1>1, DoubtsLast, PTL

\* A prune deletes no heartbeat that a task the pass found running still depends on.
THEOREM PruneSpares == Spec => PrunedHoldsNothing
<1>1. ASSUME PoolInv, Next, NEW p \in Workers, NEW w \in Workers,
             pass[p].stage # "none", pass'[p].stage = "none",
             hb[w].there, ~hb'[w].there, w # p,
             NEW t \in pass[p].running, task[t].claimant = w
      PROVE  task[t].status # "RUNNING"
  <2>1. PICK q \in Workers : Prune(q)
    <3>1. \A q \in Workers : ~Prune(q) => (WorkerStep(q) \/ PassStep(q) => hb'[w].there)
      <4>1. ASSUME NEW q \in Workers, WorkerStep(q) PROVE hb'[w].there
        <5>1. PICK h0 \in Beating : h0 = hb[w] /\ h0.there  BY <1>1, Types
        <5>2. \/ UNCHANGED hb
              \/ hb' = [hb EXCEPT ![q] = [there |-> TRUE, seen |-> now, stopped |-> FALSE]]
              \/ hb' = [hb EXCEPT ![q].seen = now]
              \/ hb' = [hb EXCEPT ![q].seen = now, ![q].stopped = TRUE]
          BY <4>1 DEF WorkerStep, Register, StartPlain, Finish, Exit, Crash, BeginStarting,
                      Beat, BeatFails, Claim
        <5>3. CASE q = w  BY <1>1, <5>1, <5>2, <5>3, Types DEF Beating
        <5>4. CASE q # w  BY <1>1, <5>2, <5>4, Types
        <5>. QED  BY <5>3, <5>4
      <4>2. ASSUME NEW q \in Workers, PassStep(q), ~Prune(q) PROVE hb'[w].there
        BY <1>1, <4>2 DEF PassStep, Judge, PassRaises, FailTask
      <4>. QED  BY <4>1, <4>2
    <3>2. ~Tick  BY <1>1 DEF Tick
    <3>. QED  BY <1>1, <3>1, <3>2 DEF Next
  <2>2. q = p
    <3>1. q # p => pass'[p] = pass[p]  BY <2>1, <1>1, Types DEF Prune, PassOver
    <3>. QED  BY <1>1, <3>1
  <2>3. pass[p].stage = "fail" /\ pass[p].lost = {}  BY <2>1, <2>2 DEF Prune
  <2>4. hb[w].seen + Retention < pass[p].now
    <3>1. PICK h0 \in Beating : h0 = hb[w] /\ h0.there  BY <1>1, Types
    <3>2. hb'[w].there = (h0.there /\ h0.seen + Retention >= pass[p].now)
      BY <2>1, <2>2, <3>1 DEF Prune, Beating
    <3>3. ~(hb[w].seen + Retention >= pass[p].now)  BY <1>1, <3>1, <3>2
    <3>. QED  BY <1>1, <3>3, Types, ClockAssumption
  <2>5. ~(hb[w].seen + Retention >= pass[p].now)  BY <1>1, <2>4, Types, ClockAssumption
  <2>. QED  BY <1>1, <2>3, <2>5 DEF PoolInv, PassKnows
<1>2. PoolInv /\ [Next]_vars =>
        [\A p \in Workers, w \in Workers :
           /\ pass[p].stage # "none" /\ pass'[p].stage = "none"
           /\ hb[w].there /\ ~hb'[w].there /\ w # p
           => \A t \in pass[p].running : task[t].claimant = w => task[t].status # "RUNNING"]_vars
  BY <1>1
<1>. QED  BY <1>2, DoubtsLast, PTL DEF Spec, PrunedHoldsNothing
=============================================================================
