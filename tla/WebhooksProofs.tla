-------------------------- MODULE WebhooksProofs --------------------------
(* Theorems about Webhooks, for any sites, deliveries, workers and ticks. *)
EXTENDS Webhooks, FiniteSetTheorems, TLAPS

USE DEF Status

\* The record types of TypeOK, by name.
DeliveryRow == [status : Status, site : Sites \cup {None}, attempt : 0..MaxAttempts,
                cursor : 0..MaxAttempts, due : BOOLEAN, root : Sites \cup {None},
                hops : Nat]
WorkerState == [pc : {"idle", "send", "record", "bump", "check", "disable"},
                d : Deliveries \cup {None}, attempt : 0..MaxAttempts, ok : BOOLEAN]

LEMMA Fields ==
  ASSUME TypeOK
  PROVE  /\ \A d \in Deliveries : delivery[d] \in DeliveryRow /\ jobs[d] \in Nat
         /\ \A w \in Workers : worker[w] \in WorkerState
BY DEF TypeOK, DeliveryRow, WorkerState

\* What a row becomes, of the rows of the type.
LEMMA RowEdits ==
  ASSUME NEW rw \in DeliveryRow, NEW st \in Status,
         NEW n \in 0..MaxAttempts, NEW cur \in 0..MaxAttempts
  PROVE  /\ LET x == [rw EXCEPT !.attempt = n, !.status = st, !.cursor = cur, !.due = FALSE] IN
              /\ x \in DeliveryRow /\ x.attempt = n /\ x.status = st /\ x.cursor = cur
              /\ x.site = rw.site /\ x.root = rw.root /\ x.hops = rw.hops
         /\ LET x == [rw EXCEPT !.status = st, !.cursor = cur, !.due = FALSE] IN
              /\ x \in DeliveryRow /\ x.attempt = rw.attempt /\ x.status = st /\ x.cursor = cur
              /\ x.site = rw.site /\ x.root = rw.root /\ x.hops = rw.hops
         /\ LET x == [rw EXCEPT !.due = TRUE] IN
              /\ x \in DeliveryRow /\ x.attempt = rw.attempt /\ x.status = rw.status
              /\ x.cursor = rw.cursor /\ x.site = rw.site /\ x.root = rw.root /\ x.hops = rw.hops
<1>1. LET x == [rw EXCEPT !.attempt = n, !.status = st, !.cursor = cur, !.due = FALSE] IN
        /\ x \in DeliveryRow /\ x.attempt = n /\ x.status = st /\ x.cursor = cur
        /\ x.site = rw.site /\ x.root = rw.root /\ x.hops = rw.hops
  BY DEF DeliveryRow
<1>2. LET x == [rw EXCEPT !.status = st, !.cursor = cur, !.due = FALSE] IN
        /\ x \in DeliveryRow /\ x.attempt = rw.attempt /\ x.status = st /\ x.cursor = cur
        /\ x.site = rw.site /\ x.root = rw.root /\ x.hops = rw.hops
  BY DEF DeliveryRow
<1>3. LET x == [rw EXCEPT !.due = TRUE] IN
        /\ x \in DeliveryRow /\ x.attempt = rw.attempt /\ x.status = rw.status
        /\ x.cursor = rw.cursor /\ x.site = rw.site /\ x.root = rw.root /\ x.hops = rw.hops
  BY DEF DeliveryRow
<1>. QED  BY <1>1, <1>2, <1>3

\* What a worker becomes, of the workers of the type.
LEMMA WorkerEdits ==
  ASSUME NEW x \in WorkerState, NEW ok \in BOOLEAN,
         NEW pc \in {"record", "bump", "check", "disable"}
  PROVE  /\ LET y == [x EXCEPT !.pc = pc] IN
              y \in WorkerState /\ y.pc = pc /\ y.d = x.d /\ y.attempt = x.attempt
         /\ LET y == [x EXCEPT !.pc = pc, !.ok = ok] IN
              y \in WorkerState /\ y.pc = pc /\ y.d = x.d /\ y.attempt = x.attempt
         /\ Idle \in WorkerState /\ Idle.pc = "idle" /\ Idle.d = None
<1>1. LET y == [x EXCEPT !.pc = pc] IN
        y \in WorkerState /\ y.pc = pc /\ y.d = x.d /\ y.attempt = x.attempt
  BY DEF WorkerState
<1>2. LET y == [x EXCEPT !.pc = pc, !.ok = ok] IN
        y \in WorkerState /\ y.pc = pc /\ y.d = x.d /\ y.attempt = x.attempt
  BY DEF WorkerState
<1>3. Idle \in WorkerState /\ Idle.pc = "idle" /\ Idle.d = None
  BY WebhooksAssumption DEF WorkerState, Idle
<1>. QED  BY <1>1, <1>2, <1>3

-----------------------------------------------------------------------------
(* One sender.  A row has a task, queued or sending, only while it is pending,  *)
(* and one at most; it has a retry time only while it waits for its retry, so   *)
(* a claim that finds the time it read finds nobody sending.                    *)

Sends(w, d) == worker[w].d = d /\ worker[w].pc \in {"send", "record"}

RowOK(d) ==
  /\ delivery[d].status # "none" => delivery[d].site \in Sites /\ delivery[d].root \in Sites
  /\ delivery[d].cursor # 0 <=> delivery[d].status = "retrying"
  /\ delivery[d].status \in {"none", "pending", "retrying"} => delivery[d].attempt < MaxAttempts

TaskOK(d) ==
  /\ jobs[d] \in {0, 1}
  /\ jobs[d] = 1 => delivery[d].status = "pending" /\ \A w \in Workers : ~Sends(w, d)
  /\ \A w \in Workers : Sends(w, d) => delivery[d].status = "pending"
  /\ \A v, w \in Workers : Sends(v, d) /\ Sends(w, d) => v = w

WorkerOK(w) ==
  /\ worker[w].pc = "idle" => worker[w].d = None
  /\ worker[w].pc \in {"send", "record"} => worker[w].d \in Deliveries /\ worker[w].attempt # 0

SendInv ==
  /\ TypeOK
  /\ \A d \in Deliveries : RowOK(d) /\ TaskOK(d)
  /\ \A w \in Workers : WorkerOK(w)

\* A delivery that a step leaves alone, unless one of its senders lets go.
LeftAlone(d) ==
  /\ delivery'[d] = delivery[d] /\ jobs'[d] = jobs[d]
  /\ \A w \in Workers : Sends(w, d)' => Sends(w, d)

LEMMA AloneKept ==
  ASSUME SendInv, NEW d \in Deliveries, LeftAlone(d)
  PROVE  RowOK(d)' /\ TaskOK(d)'
<1>1. RowOK(d) /\ TaskOK(d)  BY DEF SendInv
<1>2. RowOK(d)'  BY <1>1 DEF LeftAlone, RowOK
<1>3. TaskOK(d)'  BY <1>1 DEF LeftAlone, TaskOK
<1>. QED  BY <1>2, <1>3

\* A worker w alone moves, and sends at most what it sent.
LEMMA WorkerMoves ==
  ASSUME SendInv, NEW w \in Workers, NEW x \in WorkerState, delivery' = delivery, jobs' = jobs,
         tick' = tick, worker' = [worker EXCEPT ![w] = x],
         x.pc \in {"send", "record"} => worker[w].pc \in {"send", "record"} /\ x.d = worker[w].d
                                         /\ x.attempt = worker[w].attempt,
         x.pc = "idle" => x.d = None,
         endpoint' \in [Sites -> [enabled : BOOLEAN, failures : 0..DisableAfter]],
         inbox' \subseteq [site : Sites, root : Sites, hops : Nat]
  PROVE  SendInv'
<1>1. worker'[w] = x /\ \A v \in Workers : v # w => worker'[v] = worker[v]
  BY DEF SendInv, TypeOK
<1>2. TypeOK'  BY DEF SendInv, TypeOK, WorkerState
<1>3. \A v \in Workers : WorkerOK(v)'  BY <1>1 DEF SendInv, WorkerOK
<1>4. \A d \in Deliveries : LeftAlone(d)  BY <1>1 DEF LeftAlone, Sends
<1>. QED  BY <1>2, <1>3, <1>4, AloneKept DEF SendInv

\* A new row was nobody's.
LEMMA CreateKeeps ==
  ASSUME SendInv, NEW n \in Deliveries, NEW s \in Sites, NEW root \in Sites,
         NEW hops \in Nat, Create(n, s, root, hops),
         worker' = worker, tick' = tick, endpoint' = endpoint, inbox' \subseteq inbox
  PROVE  SendInv'
<1> DEFINE new == [status |-> "pending", site |-> s, attempt |-> 0, cursor |-> 0,
                   due |-> FALSE, root |-> root, hops |-> hops]
<1>1. /\ delivery[n].status = "none" /\ delivery' = [delivery EXCEPT ![n] = new]
      /\ jobs' = jobs \/ jobs' = [jobs EXCEPT ![n] = @ + 1]
  BY DEF Create
<1>2. new \in DeliveryRow  BY WebhooksAssumption DEF DeliveryRow
<1>3. /\ new.status = "pending" /\ new.site = s /\ new.root = root /\ new.attempt = 0
      /\ new.cursor = 0
  OBVIOUS
<1> HIDE DEF new
<1>4. jobs[n] = 0 /\ \A w \in Workers : ~Sends(w, n)
  BY <1>1 DEF SendInv, TaskOK
<1>5. delivery'[n] = new /\ jobs'[n] \in {0, 1}  BY <1>1, <1>4 DEF SendInv, TypeOK
<1>6. TypeOK'
  <2>1. jobs' \in [Deliveries -> Nat]  BY <1>1 DEF SendInv, TypeOK
  <2>2. delivery' \in [Deliveries -> DeliveryRow]
    BY <1>1, <1>2 DEF SendInv, TypeOK, DeliveryRow
  <2>. QED  BY <2>1, <2>2 DEF SendInv, TypeOK, DeliveryRow
<1>7. RowOK(n)'  BY <1>3, <1>5, WebhooksAssumption DEF RowOK
<1>8. TaskOK(n)'  BY <1>3, <1>4, <1>5 DEF TaskOK, Sends
<1>9. \A d \in Deliveries : d # n => LeftAlone(d)
  BY <1>1 DEF LeftAlone, Sends, SendInv, TypeOK
<1>10. \A w \in Workers : WorkerOK(w)'  BY DEF SendInv, WorkerOK
<1>. QED  BY <1>6, <1>7, <1>8, <1>9, <1>10, AloneKept DEF SendInv

\* The one task of a pending row starts, and its worker becomes the one sender.
LEMMA StartKeeps ==
  ASSUME SendInv, NEW w \in Workers, NEW d \in Deliveries, Start(w, d)
  PROVE  SendInv'
<1> DEFINE x == [pc |-> "send", d |-> d, attempt |-> delivery[d].attempt + 1, ok |-> FALSE]
<1>1. /\ worker[w].pc = "idle" /\ jobs[d] > 0 /\ jobs' = [jobs EXCEPT ![d] = @ - 1]
      /\ UNCHANGED <<delivery, tick, endpoint, inbox>>
  BY DEF Start
<1>2. /\ jobs[d] = 1 /\ delivery[d].status = "pending"
      /\ \A v \in Workers : ~Sends(v, d)
      /\ delivery[d].attempt < MaxAttempts
  BY <1>1 DEF SendInv, TaskOK, RowOK
<1>3. worker' = [worker EXCEPT ![w] = x]  BY <1>2 DEF Start, IsTerminal
<1>4. delivery[d].attempt \in Nat /\ delivery[d].attempt + 1 \in 1..MaxAttempts
  BY <1>2, Fields, WebhooksAssumption DEF SendInv, DeliveryRow
<1>5. x \in WorkerState /\ x.pc = "send" /\ x.d = d /\ x.attempt # 0
  BY <1>4 DEF WorkerState
<1> HIDE DEF x
<1>6. worker'[w] = x /\ \A v \in Workers : v # w => worker'[v] = worker[v]
  BY <1>3 DEF SendInv, TypeOK
<1>7. jobs'[d] = 0 /\ \A e \in Deliveries : e # d => jobs'[e] = jobs[e]
  BY <1>1, <1>2 DEF SendInv, TypeOK
<1>8. TypeOK'
  <2>1. jobs' \in [Deliveries -> Nat]  BY <1>1, <1>2 DEF SendInv, TypeOK
  <2>2. worker' \in [Workers -> WorkerState]
    BY <1>3, <1>5 DEF SendInv, TypeOK, WorkerState
  <2>. QED  BY <1>1, <2>1, <2>2 DEF SendInv, TypeOK, WorkerState
<1>9. RowOK(d)'  BY <1>1 DEF SendInv, RowOK
<1>10. TaskOK(d)'  BY <1>1, <1>2, <1>6, <1>7 DEF TaskOK, Sends
<1>11. \A e \in Deliveries : e # d => LeftAlone(e)
  BY <1>1, <1>5, <1>6, <1>7 DEF LeftAlone, Sends
<1>12. \A v \in Workers : WorkerOK(v)'  BY <1>5, <1>6 DEF SendInv, WorkerOK
<1>. QED  BY <1>8, <1>9, <1>10, <1>11, <1>12, AloneKept DEF SendInv

\* The POST changes the sender's place and the peer's inbox.
LEMMA PostKeeps ==
  ASSUME SendInv, NEW w \in Workers, Send(w)
  PROVE  SendInv'
<1> DEFINE d == worker[w].d
<1>1. worker[w].pc = "send" /\ UNCHANGED <<delivery, jobs, tick, endpoint>>  BY DEF Send
<1>2. d \in Deliveries /\ worker[w] \in WorkerState
  BY <1>1, Fields DEF SendInv, WorkerOK
<1>3. PICK ok \in BOOLEAN : worker' = [worker EXCEPT ![w] = [@ EXCEPT !.pc = "record", !.ok = ok]]
  BY DEF Send
<1> DEFINE x == [worker[w] EXCEPT !.pc = "record", !.ok = ok]
<1>4. x \in WorkerState /\ x.pc = "record" /\ x.d = d /\ x.attempt = worker[w].attempt
  BY <1>2 DEF WorkerState
<1>5. worker' = [worker EXCEPT ![w] = x]  BY <1>3
<1> HIDE DEF x
<1>6. inbox' \subseteq [site : Sites, root : Sites, hops : Nat]
  <2>1. Sends(w, d)  BY <1>1 DEF Sends
  <2>2. delivery[d].site \in Sites /\ delivery[d].root \in Sites /\ delivery[d].hops \in Nat
    BY <1>2, <2>1, Fields DEF SendInv, TaskOK, RowOK, DeliveryRow
  <2>3. Peer[delivery[d].site] \in Sites  BY <2>2, WebhooksAssumption
  <2>4. inbox' = inbox \/ Receive(Peer[delivery[d].site], d)  BY DEF Send
  <2>5. inbox \subseteq [site : Sites, root : Sites, hops : Nat]  BY DEF SendInv, TypeOK
  <2>. QED  BY <2>2, <2>3, <2>4, <2>5 DEF Receive
<1>7. endpoint \in [Sites -> [enabled : BOOLEAN, failures : 0..DisableAfter]]
  BY DEF SendInv, TypeOK
<1>. QED  BY <1>1, <1>4, <1>5, <1>6, <1>7, WorkerMoves

\* The one sender records what came of it, and sends no more.
LEMMA RecordKeeps ==
  ASSUME SendInv, NEW w \in Workers, Record(w)
  PROVE  SendInv'
<1>1. worker[w].pc = "record" /\ UNCHANGED <<jobs, tick, endpoint, inbox>>  BY DEF Record
<1>2. PICK d \in Deliveries, n \in 1..MaxAttempts : d = worker[w].d /\ n = worker[w].attempt
  <2>1. worker[w].d \in Deliveries /\ worker[w].attempt # 0  BY <1>1 DEF SendInv, WorkerOK
  <2>2. worker[w].attempt \in 0..MaxAttempts  BY Fields DEF SendInv, WorkerState
  <2>. QED  BY <2>1, <2>2, WebhooksAssumption
<1>3. Sends(w, d)  BY <1>1, <1>2 DEF Sends
<1>4. /\ delivery[d].status = "pending" /\ jobs[d] = 0
      /\ \A v \in Workers : Sends(v, d) => v = w
      /\ delivery[d].site \in Sites /\ delivery[d].root \in Sites
  BY <1>3 DEF SendInv, TaskOK, RowOK
<1>5. PICK st \in {"success", "dead", "retrying"}, cur \in 0..MaxAttempts :
        /\ delivery' = [delivery EXCEPT ![d] = [@ EXCEPT !.attempt = n, !.status = st,
                                                         !.cursor = cur, !.due = FALSE]]
        /\ cur # 0 <=> st = "retrying"
        /\ st = "retrying" => n < MaxAttempts
  <2>1. PICK st : st = IF worker[w].ok THEN "success"
                       ELSE IF n >= MaxAttempts THEN "dead" ELSE "retrying"
    OBVIOUS
  <2>2. PICK cur : cur = IF st = "retrying" THEN n ELSE 0
    OBVIOUS
  <2>3. delivery' = [delivery EXCEPT ![d] = [@ EXCEPT !.attempt = n, !.status = st,
                                                      !.cursor = cur, !.due = FALSE]]
    BY <1>2, <2>1, <2>2, Zenon DEF Record
  <2>4. st \in {"success", "dead", "retrying"} /\ cur \in 0..MaxAttempts
    BY <2>1, <2>2, WebhooksAssumption
  <2>5. (cur # 0 <=> st = "retrying") /\ (st = "retrying" => n < MaxAttempts)
    BY <2>1, <2>2, WebhooksAssumption
  <2>. QED  BY <2>3, <2>4, <2>5
<1>6. PICK rw \in DeliveryRow :
        /\ delivery' = [delivery EXCEPT ![d] = rw]
        /\ rw.attempt = n /\ rw.status = st /\ rw.cursor = cur
        /\ rw.site = delivery[d].site /\ rw.root = delivery[d].root
  <2>1. delivery[d] \in DeliveryRow  BY Fields DEF SendInv
  <2>2. st \in Status /\ n \in 0..MaxAttempts  BY WebhooksAssumption
  <2>3. PICK o \in DeliveryRow : o = delivery[d]  BY <2>1
  <2> DEFINE z == [o EXCEPT !.attempt = n, !.status = st, !.cursor = cur, !.due = FALSE]
  <2>4. /\ z \in DeliveryRow /\ z.attempt = n /\ z.status = st /\ z.cursor = cur
        /\ z.site = o.site /\ z.root = o.root
    BY <2>2 DEF DeliveryRow
  <2>5. delivery' = [delivery EXCEPT ![d] = z]  BY <1>5, <2>3
  <2> HIDE DEF z
  <2>. QED  BY <2>3, <2>4, <2>5
<1>7. PICK x \in WorkerState : worker' = [worker EXCEPT ![w] = x] /\ x.pc = "bump"
  <2>1. worker[w] \in WorkerState  BY Fields DEF SendInv
  <2>2. worker' = [worker EXCEPT ![w] = [@ EXCEPT !.pc = "bump"]]  BY DEF Record
  <2> DEFINE z == [worker[w] EXCEPT !.pc = "bump"]
  <2>3. z \in WorkerState /\ z.pc = "bump"  BY <2>1 DEF WorkerState
  <2>4. worker' = [worker EXCEPT ![w] = z]  BY <2>2
  <2> HIDE DEF z
  <2>. QED  BY <2>3, <2>4
<1>8. /\ delivery'[d] = rw /\ worker'[w] = x
      /\ \A v \in Workers : v # w => worker'[v] = worker[v]
      /\ \A e \in Deliveries : e # d => delivery'[e] = delivery[e]
  BY <1>6, <1>7 DEF SendInv, TypeOK
<1>9. TypeOK'
  <2>1. delivery' \in [Deliveries -> DeliveryRow]  BY <1>6 DEF SendInv, TypeOK, DeliveryRow
  <2>2. worker' \in [Workers -> WorkerState]  BY <1>7 DEF SendInv, TypeOK, WorkerState
  <2>. QED  BY <1>1, <2>1, <2>2 DEF SendInv, TypeOK, DeliveryRow, WorkerState
<1>10. \A v \in Workers, e \in Deliveries : Sends(v, e)' => Sends(v, e) /\ v # w
  BY <1>7, <1>8 DEF Sends
<1>11. RowOK(d)'  BY <1>4, <1>5, <1>6, <1>8 DEF RowOK
<1>12. TaskOK(d)'
  <2>1. \A v \in Workers : ~Sends(v, d)'  BY <1>4, <1>10
  <2>2. jobs'[d] = 0  BY <1>1, <1>4
  <2>. QED  BY <2>1, <2>2 DEF TaskOK
<1>13. \A e \in Deliveries : e # d => LeftAlone(e)
  BY <1>1, <1>8, <1>10 DEF LeftAlone
<1>14. \A v \in Workers : WorkerOK(v)'  BY <1>7, <1>8 DEF SendInv, WorkerOK
<1>. QED  BY <1>9, <1>11, <1>12, <1>13, <1>14, AloneKept DEF SendInv

\* _bump_endpoint, and a crash anywhere: nobody sends more than before.
LEMMA AfterwardsKeeps ==
  ASSUME SendInv, NEW w \in Workers, Bump(w) \/ Check(w) \/ Disable(w) \/ Crash(w)
  PROVE  SendInv'
<1> DEFINE E == [Sites -> [enabled : BOOLEAN, failures : 0..DisableAfter]]
<1>1. worker[w] \in WorkerState  BY Fields DEF SendInv
<1>2. worker[w].pc # "idle" /\ UNCHANGED <<delivery, jobs, tick, inbox>>
  BY DEF Bump, Check, Disable, Crash
<1>3. PICK x \in WorkerState : /\ worker' = [worker EXCEPT ![w] = x]
                               /\ x.pc = "idle" => x.d = None
                               /\ x.pc \notin {"send", "record"}
  <2> DEFINE Found == \E x \in WorkerState : /\ worker' = [worker EXCEPT ![w] = x]
                                             /\ x.pc = "idle" => x.d = None
                                             /\ x.pc \notin {"send", "record"}
  <2>1. ASSUME worker' = [worker EXCEPT ![w] = Idle] PROVE Found
    <3>1. Idle \in WorkerState /\ Idle.pc = "idle" /\ Idle.d = None
      BY WebhooksAssumption DEF WorkerState, Idle
    <3>. QED  BY <2>1, <3>1
  <2>2. ASSUME NEW pc \in {"check", "disable"}, worker' = [worker EXCEPT ![w].pc = pc]
        PROVE  Found
    <3> DEFINE z == [worker[w] EXCEPT !.pc = pc]
    <3>1. z \in WorkerState /\ z.pc = pc  BY <1>1 DEF WorkerState
    <3>2. worker' = [worker EXCEPT ![w] = z]  BY <2>2
    <3> HIDE DEF z
    <3>. QED  BY <3>1, <3>2
  <2>3. worker' = [worker EXCEPT ![w] = Idle]
        \/ \E pc \in {"check", "disable"} : worker' = [worker EXCEPT ![w].pc = pc]
    <3>1. CASE Bump(w)  BY <3>1 DEF Bump
    <3>2. CASE Check(w)  BY <3>2 DEF Check
    <3>3. CASE Disable(w) \/ Crash(w)  BY <3>3 DEF Disable, Crash
    <3>. QED  BY <3>1, <3>2, <3>3
  <2> HIDE DEF Found
  <2>4. Found  BY <2>1, <2>2, <2>3
  <2>. QED  BY <2>4 DEF Found
<1>4. endpoint' \in E
  <2>0. endpoint \in E  BY DEF SendInv, TypeOK
  <2>1. PICK s : s = delivery[worker[w].d].site  OBVIOUS
  <2>2. ASSUME NEW f \in 0..DisableAfter, endpoint' = [endpoint EXCEPT ![s].failures = f]
        PROVE  endpoint' \in E
    BY <2>0, <2>2
  <2>3. CASE Bump(w) /\ s \in Sites
    <3>1. endpoint[s].failures \in 0..DisableAfter  BY <2>0, <2>3
    <3>2. PICK f \in 0..DisableAfter : endpoint' = [endpoint EXCEPT ![s].failures = f]
      <4>1. CASE worker[w].ok
        <5>1. endpoint' = [endpoint EXCEPT ![s].failures = 0]  BY <2>1, <2>3, <4>1 DEF Bump
        <5>2. 0 \in 0..DisableAfter  BY WebhooksAssumption
        <5>. QED  BY <5>1, <5>2
      <4>2. CASE ~worker[w].ok
        <5>1. PICK f : f = IF endpoint[s].failures < DisableAfter
                           THEN endpoint[s].failures + 1 ELSE endpoint[s].failures
          OBVIOUS
        <5>2. endpoint' = [endpoint EXCEPT ![s].failures = f]
          BY <2>1, <2>3, <4>2, <5>1 DEF Bump
        <5>3. f \in 0..DisableAfter  BY <3>1, <5>1, WebhooksAssumption
        <5>. QED  BY <5>2, <5>3
      <4>. QED  BY <4>1, <4>2
    <3>. QED  BY <2>2, <3>2
  <2>4. CASE Bump(w) /\ s \notin Sites
    <3>1. \E z : endpoint' = [endpoint EXCEPT ![s] = z]  BY <2>1, <2>4 DEF Bump
    <3>. QED  BY <2>0, <2>4, <3>1
  <2>5. CASE Disable(w)  BY <2>0, <2>5 DEF Disable
  <2>6. CASE Check(w) \/ Crash(w)  BY <2>0, <2>6 DEF Check, Crash
  <2>. QED  BY <2>3, <2>4, <2>5, <2>6
<1>5. inbox' \subseteq [site : Sites, root : Sites, hops : Nat]  BY <1>2 DEF SendInv, TypeOK
<1>. QED  BY <1>2, <1>3, <1>4, <1>5, WorkerMoves

\* Steps that only read, or that turn an endpoint on.
LEMMA AsideKeeps ==
  ASSUME SendInv, delivery' = delivery, jobs' = jobs, worker' = worker,
         tick' \in [Ticks -> SUBSET [d : Deliveries, cursor : 1..MaxAttempts]],
         endpoint' \in [Sites -> [enabled : BOOLEAN, failures : 0..DisableAfter]],
         inbox' \subseteq inbox
  PROVE  SendInv'
<1>1. TypeOK'  BY DEF SendInv, TypeOK
<1>2. \A d \in Deliveries : LeftAlone(d)  BY DEF LeftAlone, Sends
<1>3. \A w \in Workers : WorkerOK(w)'  BY DEF SendInv, WorkerOK
<1>. QED  BY <1>1, <1>2, <1>3, AloneKept DEF SendInv

\* A tick reads the rows that wait, with the times of their retries.
LEMMA TickReadKeeps ==
  ASSUME SendInv, NEW k \in Ticks, ReadDue(k) \/ TickDies(k)
  PROVE  SendInv'
<1> DEFINE T == SUBSET [d : Deliveries, cursor : 1..MaxAttempts]
<1>1. UNCHANGED <<delivery, jobs, worker, endpoint, inbox>>  BY DEF ReadDue, TickDies
<1>2. /\ tick \in [Ticks -> T]
      /\ endpoint \in [Sites -> [enabled : BOOLEAN, failures : 0..DisableAfter]]
  BY DEF SendInv, TypeOK
<1>3. ASSUME NEW d \in Deliveries, delivery[d].status = "retrying"
      PROVE  delivery[d].cursor \in 1..MaxAttempts
  <2>1. delivery[d].cursor # 0  BY <1>3 DEF SendInv, RowOK
  <2>2. delivery[d].cursor \in 0..MaxAttempts  BY Fields DEF SendInv, DeliveryRow
  <2>. QED  BY <2>1, <2>2, WebhooksAssumption
<1>4. PICK t \in T : tick' = [tick EXCEPT ![k] = t]
  <2>1. CASE TickDies(k)  BY <2>1 DEF TickDies
  <2>2. CASE ReadDue(k)
    <3> DEFINE t == {[d |-> d, cursor |-> delivery[d].cursor] :
                       d \in {e \in Deliveries : delivery[e].status = "retrying" /\ delivery[e].due}}
    <3>1. t \in T  BY <1>3
    <3>2. tick' = [tick EXCEPT ![k] = t]  BY <2>2 DEF ReadDue
    <3> HIDE DEF t
    <3>. QED  BY <3>1, <3>2
  <2>. QED  BY <2>1, <2>2
<1>5. tick' \in [Ticks -> T]  BY <1>2, <1>4
<1>. QED  BY <1>1, <1>2, <1>5, AsideKeeps

LEMMA EnableKeeps ==
  ASSUME SendInv, NEW s \in Sites, Enable(s)
  PROVE  SendInv'
<1>1. /\ tick \in [Ticks -> SUBSET [d : Deliveries, cursor : 1..MaxAttempts]]
      /\ endpoint \in [Sites -> [enabled : BOOLEAN, failures : 0..DisableAfter]]
  BY DEF SendInv, TypeOK
<1>2. endpoint' \in [Sites -> [enabled : BOOLEAN, failures : 0..DisableAfter]]
  BY <1>1 DEF Enable
<1>3. UNCHANGED <<delivery, jobs, worker, tick, inbox>>  BY DEF Enable
<1>. QED  BY <1>1, <1>2, <1>3, AsideKeeps

\* Time passes for one delivery.
LEMMA DueKeeps ==
  ASSUME SendInv, NEW d \in Deliveries, BecomesDue(d)
  PROVE  SendInv'
<1>1. PICK o \in DeliveryRow : o = delivery[d]  BY Fields DEF SendInv
<1> DEFINE z == [o EXCEPT !.due = TRUE]
<1>2. /\ z \in DeliveryRow /\ z.attempt = o.attempt /\ z.status = o.status
      /\ z.cursor = o.cursor /\ z.site = o.site /\ z.root = o.root
  BY DEF DeliveryRow
<1>3. delivery' = [delivery EXCEPT ![d] = z] /\ UNCHANGED <<jobs, worker, tick, endpoint, inbox>>
  BY <1>1 DEF BecomesDue
<1> HIDE DEF z
<1>4. delivery'[d] = z /\ \A e \in Deliveries : e # d => delivery'[e] = delivery[e]
  BY <1>3 DEF SendInv, TypeOK
<1>5. TypeOK'
  <2>1. delivery' \in [Deliveries -> DeliveryRow]
    BY <1>2, <1>3 DEF SendInv, TypeOK, DeliveryRow
  <2>. QED  BY <1>3, <2>1 DEF SendInv, TypeOK, DeliveryRow
<1>6. RowOK(d) /\ TaskOK(d)  BY DEF SendInv
<1>7. RowOK(d)'  BY <1>1, <1>2, <1>4, <1>6 DEF RowOK
<1>8. TaskOK(d)'  BY <1>1, <1>2, <1>3, <1>4, <1>6 DEF TaskOK, Sends
<1>9. \A e \in Deliveries : e # d => LeftAlone(e)  BY <1>3, <1>4 DEF LeftAlone, Sends
<1>10. \A w \in Workers : WorkerOK(w)'  BY <1>3 DEF SendInv, WorkerOK
<1>. QED  BY <1>5, <1>7, <1>8, <1>9, <1>10, AloneKept DEF SendInv

\* Whatever another tick claimed or recorded since, a claim that applies finds the
\* delivery waiting: the time of its retry is the one the tick read.
LEMMA ClaimKeeps ==
  ASSUME SendInv, NEW k \in Ticks, NEW d \in Deliveries, Claim(k, d)
  PROVE  SendInv'
<1> DEFINE T == SUBSET [d : Deliveries, cursor : 1..MaxAttempts]
<1>0. /\ tick \in [Ticks -> T]
      /\ endpoint \in [Sites -> [enabled : BOOLEAN, failures : 0..DisableAfter]]
  BY DEF SendInv, TypeOK
<1>1. PICK o \in tick[k] :
        /\ o.d = d
        /\ tick' = [tick EXCEPT ![k] = @ \ {o}]
        /\ IF delivery[d].cursor = o.cursor
           THEN /\ delivery' = [delivery EXCEPT ![d].status = "pending",
                                                ![d].cursor = 0, ![d].due = FALSE]
                /\ jobs' \in {jobs, [jobs EXCEPT ![d] = @ + 1]}
           ELSE UNCHANGED <<delivery, jobs>>
        /\ UNCHANGED <<worker, endpoint, inbox>>
  BY DEF Claim
<1>2. o.cursor \in 1..MaxAttempts  BY <1>0, <1>1
<1>3. tick' \in [Ticks -> T]  BY <1>0, <1>1
<1>4. CASE delivery[d].cursor # o.cursor
  <2>1. UNCHANGED <<delivery, jobs>>  BY <1>1, <1>4
  <2>. QED  BY <1>0, <1>1, <1>3, <2>1, AsideKeeps
<1>5. CASE delivery[d].cursor = o.cursor
  <2>1. delivery[d].status = "retrying"
    BY <1>2, <1>5, WebhooksAssumption DEF SendInv, RowOK
  <2>2. /\ jobs[d] = 0 /\ \A w \in Workers : ~Sends(w, d)
        /\ delivery[d].site \in Sites /\ delivery[d].root \in Sites
        /\ delivery[d].attempt < MaxAttempts
    BY <2>1 DEF SendInv, TaskOK, RowOK
  <2>3. PICK p \in DeliveryRow : p = delivery[d]  BY Fields DEF SendInv
  <2> DEFINE z == [p EXCEPT !.status = "pending", !.cursor = 0, !.due = FALSE]
  <2>4. /\ z \in DeliveryRow /\ z.attempt = p.attempt /\ z.status = "pending"
        /\ z.cursor = 0 /\ z.site = p.site /\ z.root = p.root
    <3>1. 0 \in 0..MaxAttempts  BY WebhooksAssumption
    <3>. QED  BY <3>1 DEF DeliveryRow
  <2>5. /\ delivery' = [delivery EXCEPT ![d] = z]
        /\ jobs' = jobs \/ jobs' = [jobs EXCEPT ![d] = @ + 1]
    BY <1>1, <1>5, <2>3
  <2> HIDE DEF z
  <2>6. /\ delivery'[d] = z /\ jobs'[d] \in {0, 1}
        /\ \A e \in Deliveries : e # d => delivery'[e] = delivery[e] /\ jobs'[e] = jobs[e]
    BY <2>2, <2>5 DEF SendInv, TypeOK
  <2>7. TypeOK'
    <3>1. delivery' \in [Deliveries -> DeliveryRow]
      BY <2>4, <2>5 DEF SendInv, TypeOK, DeliveryRow
    <3>2. jobs' \in [Deliveries -> Nat]  BY <2>5 DEF SendInv, TypeOK
    <3>. QED  BY <1>1, <1>3, <3>1, <3>2 DEF SendInv, TypeOK, DeliveryRow
  <2>8. RowOK(d)'  BY <2>2, <2>3, <2>4, <2>6 DEF RowOK
  <2>9. TaskOK(d)'  BY <1>1, <2>2, <2>4, <2>6 DEF TaskOK, Sends
  <2>10. \A e \in Deliveries : e # d => LeftAlone(e)  BY <1>1, <2>6 DEF LeftAlone, Sends
  <2>11. \A w \in Workers : WorkerOK(w)'  BY <1>1 DEF SendInv, WorkerOK
  <2>. QED  BY <2>7, <2>8, <2>9, <2>10, <2>11, AloneKept DEF SendInv
<1>. QED  BY <1>4, <1>5

\* An event, a replay or a handler's write: a new row, or nothing at all.
LEMMA FanOutKeeps ==
  ASSUME SendInv, NEW n \in Deliveries, NEW s \in Sites, NEW root \in Sites,
         NEW hops \in Nat, FanOut(n, s, root, hops),
         worker' = worker, tick' = tick, endpoint' = endpoint, inbox' \subseteq inbox
  PROVE  SendInv'
<1>1. CASE Create(n, s, root, hops)  BY <1>1, CreateKeeps
<1>2. CASE UNCHANGED <<delivery, jobs>>
  <2>1. /\ tick \in [Ticks -> SUBSET [d : Deliveries, cursor : 1..MaxAttempts]]
        /\ endpoint \in [Sites -> [enabled : BOOLEAN, failures : 0..DisableAfter]]
    BY DEF SendInv, TypeOK
  <2>. QED  BY <1>2, <2>1, AsideKeeps
<1>. QED  BY <1>1, <1>2 DEF FanOut

LEMMA ReplayKeeps ==
  ASSUME SendInv, NEW d \in Deliveries, NEW n \in Deliveries, Replay(d, n)
  PROVE  SendInv'
<1>1. delivery[d].site \in Sites /\ delivery[d].root \in Sites /\ delivery[d].hops \in Nat
  BY Fields DEF Replay, SendInv, RowOK, DeliveryRow
<1>2. /\ Create(n, delivery[d].site, delivery[d].root, delivery[d].hops)
      /\ UNCHANGED <<worker, tick, endpoint, inbox>>
  BY DEF Replay
<1>. QED  BY <1>1, <1>2, CreateKeeps

LEMMA DispatchKeeps ==
  ASSUME SendInv, NEW r \in inbox, NEW n \in Deliveries, Dispatch(r, n)
  PROVE  SendInv'
<1>1. r.site \in Sites /\ r.root \in Sites /\ r.hops + 1 \in Nat  BY DEF SendInv, TypeOK
<1>2. inbox' \subseteq inbox /\ UNCHANGED <<worker, tick, endpoint>>  BY DEF Dispatch
<1>3. CASE FanOut(n, r.site, r.root, r.hops + 1)  BY <1>1, <1>2, <1>3, FanOutKeeps
<1>4. CASE UNCHANGED <<delivery, jobs>>
  <2>1. /\ tick \in [Ticks -> SUBSET [d : Deliveries, cursor : 1..MaxAttempts]]
        /\ endpoint \in [Sites -> [enabled : BOOLEAN, failures : 0..DisableAfter]]
    BY DEF SendInv, TypeOK
  <2>. QED  BY <1>2, <1>4, <2>1, AsideKeeps
<1>. QED  BY <1>3, <1>4 DEF Dispatch

LEMMA InitSend == Init => SendInv
<1> SUFFICES ASSUME Init PROVE SendInv
  OBVIOUS
<1>1. TypeOK
  <2>1. delivery \in [Deliveries -> DeliveryRow]
    BY WebhooksAssumption DEF Init, NoDelivery, DeliveryRow
  <2>2. worker \in [Workers -> WorkerState]
    BY WebhooksAssumption DEF Init, Idle, WorkerState
  <2>3. endpoint \in [Sites -> [enabled : BOOLEAN, failures : 0..DisableAfter]]
    BY WebhooksAssumption DEF Init
  <2>4. tick \in [Ticks -> SUBSET [d : Deliveries, cursor : 1..MaxAttempts]]  BY DEF Init
  <2>. QED  BY <2>1, <2>2, <2>3, <2>4 DEF Init, TypeOK, DeliveryRow, WorkerState
<1>2. \A d \in Deliveries : RowOK(d)
  BY WebhooksAssumption DEF Init, NoDelivery, RowOK
<1>3. \A d \in Deliveries : TaskOK(d)  BY DEF Init, Idle, TaskOK, Sends
<1>4. \A w \in Workers : WorkerOK(w)  BY DEF Init, Idle, WorkerOK
<1>. QED  BY <1>1, <1>2, <1>3, <1>4 DEF SendInv

LEMMA NextSend == SendInv /\ [Next]_vars => SendInv'
<1> SUFFICES ASSUME SendInv, [Next]_vars PROVE SendInv'
  OBVIOUS
<1>1. ASSUME NEW n \in Deliveries, NEW s \in Sites, Event(n, s) PROVE SendInv'
  BY <1>1, FanOutKeeps DEF Event
<1>2. ASSUME NEW w \in Workers, WorkerStep(w) PROVE SendInv'
  BY <1>2, StartKeeps, PostKeeps, RecordKeeps, AfterwardsKeeps DEF WorkerStep
<1>3. ASSUME NEW k \in Ticks, ReadDue(k) \/ TickDies(k) \/ \E d \in Deliveries : Claim(k, d)
      PROVE  SendInv'
  BY <1>3, TickReadKeeps, ClaimKeeps
<1>4. CASE UNCHANGED vars
  <2>1. UNCHANGED <<delivery, jobs, worker, tick, endpoint, inbox>>  BY <1>4 DEF vars
  <2>2. /\ tick \in [Ticks -> SUBSET [d : Deliveries, cursor : 1..MaxAttempts]]
        /\ endpoint \in [Sites -> [enabled : BOOLEAN, failures : 0..DisableAfter]]
    BY DEF SendInv, TypeOK
  <2>. QED  BY <2>1, <2>2, AsideKeeps
<1>. QED
  BY <1>1, <1>2, <1>3, <1>4, ReplayKeeps, EnableKeeps, DueKeeps, DispatchKeeps DEF Next

\* What the theorems below follow from holds of every reachable state.
THEOREM SendsHold == Spec => []SendInv
<1>. QED  BY InitSend, NextSend, PTL DEF Spec

LEMMA SendOneSender == SendInv => OneSender
<1> SUFFICES ASSUME SendInv PROVE OneSender
  OBVIOUS
<1>1. ASSUME NEW d \in Deliveries
      PROVE  /\ jobs[d] + Cardinality(Senders(d)) <= 1
             /\ delivery[d].cursor # 0 => jobs[d] + Cardinality(Senders(d)) = 0
  <2>1. TaskOK(d) /\ RowOK(d)  BY DEF SendInv
  <2>2. \A w \in Workers : w \in Senders(d) <=> Sends(w, d)  BY DEF Senders, Sends
  <2>3. Senders(d) \subseteq Workers  BY DEF Senders
  <2>4. CASE Senders(d) = {}
    <3>1. Cardinality(Senders(d)) = 0  BY <2>4, FS_EmptySet
    <3>2. delivery[d].cursor # 0 => jobs[d] = 0  BY <2>1 DEF TaskOK, RowOK
    <3>. QED  BY <2>1, <3>1, <3>2 DEF TaskOK
  <2>5. CASE Senders(d) # {}
    <3>1. PICK w \in Workers : Sends(w, d)  BY <2>2, <2>3, <2>5
    <3>2. \A v \in Senders(d) : v = w  BY <2>1, <2>2, <2>3, <3>1 DEF TaskOK
    <3>3. Senders(d) = {w}  BY <2>2, <3>1, <3>2
    <3>4. Cardinality({w}) = 1  BY FS_Singleton, Zenon
    <3>5. jobs[d] = 0 /\ delivery[d].cursor = 0  BY <2>1, <3>1 DEF TaskOK, RowOK
    <3>. QED  BY <3>3, <3>4, <3>5
  <2>. QED  BY <2>4, <2>5
<1>. QED  BY <1>1 DEF OneSender, SendInv

\* However many ticks overlap, whatever they read before others claimed or recorded, and
\* whichever workers die: a delivery never has two tasks, nor one while it waits.
THEOREM NeverTwoSenders == Spec => []OneSender
<1>. QED  BY SendsHold, SendOneSender, PTL

\* One step of TerminalIsFinal.
Final == \A d \in Deliveries : IsTerminal(d) =>
  /\ delivery'[d] = delivery[d]
  /\ \A w \in Workers : ~(worker[w].pc = "idle" /\ worker'[w].d = d)

LEMMA NextFinal == SendInv /\ [Next]_vars => [Final]_vars
<1> SUFFICES ASSUME SendInv, [Next]_vars PROVE Final
  OBVIOUS
<1>1. ASSUME NEW d \in Deliveries, IsTerminal(d)
      PROVE  /\ delivery[d].cursor = 0 /\ delivery[d].status # "none"
             /\ \A w \in Workers : ~Sends(w, d)
             /\ \A w \in Workers : worker[w].pc = "idle" => worker[w].d # d
  <2>1. RowOK(d) /\ TaskOK(d) /\ delivery[d].status \in {"success", "dead"}
    BY <1>1 DEF SendInv, IsTerminal
  <2>2. \A w \in Workers : worker[w].pc = "idle" => worker[w].d # d
    BY WebhooksAssumption DEF SendInv, WorkerOK
  <2>. QED  BY <2>1, <2>2 DEF RowOK, TaskOK
<1>2. ASSUME delivery' = delivery, worker' = worker PROVE Final
  BY <1>1, <1>2 DEF Final
<1>3. ASSUME NEW n \in Deliveries, NEW s, NEW r, NEW h, Create(n, s, r, h),
             worker' = worker
      PROVE  Final
  <2>1. delivery[n].status = "none" /\ \A d \in Deliveries : d # n => delivery'[d] = delivery[d]
    BY <1>3 DEF Create, SendInv, TypeOK
  <2>. QED  BY <1>1, <1>3, <2>1 DEF Final
<1>4. ASSUME NEW n \in Deliveries, NEW s, NEW r, NEW h, FanOut(n, s, r, h),
             worker' = worker
      PROVE  Final
  BY <1>2, <1>3, <1>4 DEF FanOut
<1>5. ASSUME NEW w \in Workers, WorkerStep(w) PROVE Final
  <2>1. ASSUME NEW d \in Deliveries, Start(w, d) PROVE Final
    <3>1. delivery' = delivery /\ worker[w].pc = "idle"  BY <2>1 DEF Start
    <3>2. CASE IsTerminal(d)
      <4>1. worker' = worker  BY <2>1, <3>2 DEF Start
      <4>. QED  BY <1>2, <3>1, <4>1
    <3>3. CASE ~IsTerminal(d)
      <4>1. worker'[w].d = d /\ \A v \in Workers : v # w => worker'[v] = worker[v]
        BY <2>1, <3>3 DEF Start, SendInv, TypeOK
      <4>. QED  BY <1>1, <3>1, <3>3, <4>1 DEF Final
    <3>. QED  BY <3>2, <3>3
  <2>2. CASE Record(w)
    <3>1. PICK d \in Deliveries : d = worker[w].d /\ Sends(w, d)
      BY <2>2 DEF Record, SendInv, WorkerOK, Sends
    <3>2. \A e \in Deliveries : e # d => delivery'[e] = delivery[e]
      BY <2>2, <3>1 DEF Record, SendInv, TypeOK
    <3>3. worker[w].pc # "idle" /\ \A v \in Workers : v # w => worker'[v] = worker[v]
      BY <2>2 DEF Record, SendInv, TypeOK
    <3>. QED  BY <1>1, <3>1, <3>2, <3>3 DEF Final
  <2>3. CASE Send(w) \/ Bump(w) \/ Check(w) \/ Disable(w) \/ Crash(w)
    <3>1. delivery' = delivery /\ worker[w].pc # "idle"
      BY <2>3 DEF Send, Bump, Check, Disable, Crash
    <3>2. \A v \in Workers : v # w => worker'[v] = worker[v]
      BY <2>3 DEF Send, Bump, Check, Disable, Crash, SendInv, TypeOK
    <3>. QED  BY <1>1, <3>1, <3>2 DEF Final
  <2>. QED  BY <1>5, <2>1, <2>2, <2>3 DEF WorkerStep
<1>6. ASSUME NEW k \in Ticks, NEW d \in Deliveries, Claim(k, d) PROVE Final
  <2>1. PICK o \in tick[k] :
          /\ o.d = d
          /\ delivery[d].cursor = o.cursor \/ delivery' = delivery
          /\ worker' = worker
    BY <1>6 DEF Claim
  <2>2. o.cursor # 0  BY <2>1 DEF SendInv, TypeOK
  <2>3. \A e \in Deliveries : e # d => delivery'[e] = delivery[e]
    BY <1>6 DEF Claim, SendInv, TypeOK
  <2>. QED  BY <1>1, <1>2, <2>1, <2>2, <2>3 DEF Final
<1>7. ASSUME NEW d \in Deliveries, BecomesDue(d) PROVE Final
  <2>1. delivery[d].cursor # 0 /\ worker' = worker
        /\ \A e \in Deliveries : e # d => delivery'[e] = delivery[e]
    BY <1>7 DEF BecomesDue, SendInv, TypeOK
  <2>. QED  BY <1>1, <2>1 DEF Final
<1>8. ASSUME NEW d \in Deliveries, NEW n \in Deliveries, Replay(d, n) PROVE Final
  BY <1>3, <1>8 DEF Replay
<1>9. ASSUME NEW r \in inbox, NEW n \in Deliveries, Dispatch(r, n) PROVE Final
  BY <1>2, <1>4, <1>9 DEF Dispatch
<1>10. ASSUME NEW n \in Deliveries, NEW s \in Sites, Event(n, s) PROVE Final
  BY <1>4, <1>10 DEF Event
<1>11. ASSUME NEW k \in Ticks, ReadDue(k) \/ TickDies(k) PROVE Final
  BY <1>2, <1>11 DEF ReadDue, TickDies
<1>12. ASSUME NEW s \in Sites, Enable(s) PROVE Final
  BY <1>2, <1>12 DEF Enable
<1>13. CASE UNCHANGED vars  BY <1>2, <1>13 DEF vars
<1>. QED
  BY <1>5, <1>6, <1>7, <1>8, <1>9, <1>10, <1>11, <1>12, <1>13 DEF Next

\* A delivery that succeeded or died is never written or sent again.
THEOREM FinalIsFinal == Spec => TerminalIsFinal
<1>1. Spec => [][Final]_vars  BY SendsHold, NextFinal, PTL DEF Spec
<1>. QED  BY <1>1 DEF Final, TerminalIsFinal

-----------------------------------------------------------------------------
(* The guards against an event that runs in circles.  What a delivery has behind *)
(* it and what a ranking of the sites still allows ahead of it come to no more    *)
(* than the rank of where it began.                                              *)

Chained(rank) ==
  /\ \A d \in Deliveries :
       delivery[d].status # "none"
         => delivery[d].hops + rank[delivery[d].site] <= rank[delivery[d].root]
  /\ \A r \in inbox :
       r.site \in Cascades => r.hops + 1 + rank[r.site] <= rank[r.root]

LEMMA RankFacts ==
  ASSUME NEW rank \in Ranks
  PROVE  /\ \A s \in Sites : rank[s] \in Nat
         /\ \A s \in Sites : Peer[s] \in Cascades => rank[Peer[s]] + 1 <= rank[s]
<1>1. /\ rank \in [Sites -> 0..Cardinality(Cascades)]
      /\ \A s \in Sites : Peer[s] \in Cascades => rank[Peer[s]] < rank[s]
  BY DEF Ranks
<1>2. \A s \in Sites : rank[s] \in Nat  BY <1>1
<1>3. \A s \in Sites : Peer[s] \in Sites  BY WebhooksAssumption
<1>. QED  BY <1>1, <1>2, <1>3

\* A step that adds no delivery and receives nothing.
LEMMA ChainedSame ==
  ASSUME NEW rank, Chained(rank), inbox' \subseteq inbox,
         \A d \in Deliveries :
           /\ delivery'[d].site = delivery[d].site /\ delivery'[d].root = delivery[d].root
           /\ delivery'[d].hops = delivery[d].hops
           /\ delivery[d].status = "none" => delivery'[d].status = "none"
  PROVE  Chained(rank)'
BY DEF Chained

LEMMA ChainedMore ==
  ASSUME SendInv, NEW rank, Chained(rank), inbox' \subseteq inbox,
         NEW n \in Deliveries, NEW s, NEW root, NEW hops, Create(n, s, root, hops),
         hops + rank[s] <= rank[root]
  PROVE  Chained(rank)'
<1>1. /\ delivery'[n].site = s /\ delivery'[n].root = root /\ delivery'[n].hops = hops
      /\ \A d \in Deliveries : d # n => delivery'[d] = delivery[d]
  BY DEF Create, SendInv, TypeOK
<1>. QED  BY <1>1 DEF Chained

LEMMA NextChained ==
  ASSUME SendInv, NEW rank \in Ranks, Chained(rank), [Next]_vars
  PROVE  Chained(rank)'
<1>0. \A d \in Deliveries : /\ delivery[d] \in DeliveryRow /\ delivery[d].hops \in Nat
                            /\ delivery[d].status # "none" =>
                                 delivery[d].site \in Sites /\ delivery[d].root \in Sites
  BY Fields DEF SendInv, RowOK, DeliveryRow
<1>1. ASSUME delivery' = delivery, inbox' \subseteq inbox PROVE Chained(rank)'
  BY <1>1, ChainedSame
<1>2. ASSUME NEW w \in Workers, WorkerStep(w) PROVE Chained(rank)'
  <2>1. CASE Record(w)
    <3>1. PICK d \in Deliveries : d = worker[w].d /\ delivery[d].status # "none"
      <4>1. worker[w].d \in Deliveries  BY <2>1 DEF Record, SendInv, WorkerOK
      <4>2. Sends(w, worker[w].d)  BY <2>1 DEF Record, Sends
      <4>. QED  BY <4>1, <4>2 DEF SendInv, TaskOK
    <3>2. PICK n, st, cur :
            delivery' = [delivery EXCEPT ![d].attempt = n, ![d].status = st,
                                         ![d].cursor = cur, ![d].due = FALSE]
      BY <2>1, <3>1 DEF Record
    <3>3. delivery[d] \in DeliveryRow /\ DOMAIN delivery = Deliveries
      BY Fields DEF SendInv, TypeOK
    <3>4. inbox' = inbox  BY <2>1 DEF Record
    <3>. QED  BY <3>1, <3>2, <3>3, <3>4, ChainedSame DEF DeliveryRow
  <2>2. CASE Send(w)
    <3>1. PICK d \in Deliveries : d = worker[w].d /\ delivery[d].status # "none"
      <4>1. worker[w].d \in Deliveries  BY <2>2 DEF Send, SendInv, WorkerOK
      <4>2. Sends(w, worker[w].d)  BY <2>2 DEF Send, Sends
      <4>. QED  BY <4>1, <4>2 DEF SendInv, TaskOK
    <3>2. PICK s \in Sites : s = delivery[d].site /\ delivery[d].root \in Sites
      BY <1>0, <3>1
    <3>3. delivery' = delivery  BY <2>2 DEF Send
    <3>4. \A r \in inbox' \ inbox :
            r.site = Peer[s] /\ r.root = delivery[d].root /\ r.hops = delivery[d].hops
      BY <2>2, <3>1, <3>2 DEF Send, Receive
    <3>5. delivery[d].hops + rank[s] <= rank[delivery[d].root]
      BY <3>1, <3>2 DEF Chained
    <3>6. /\ rank[s] \in Nat /\ rank[delivery[d].root] \in Nat /\ delivery[d].hops \in Nat
          /\ Peer[s] \in Sites /\ rank[Peer[s]] \in Nat
          /\ Peer[s] \in Cascades => rank[Peer[s]] + 1 <= rank[s]
      BY <1>0, <3>1, <3>2, RankFacts, WebhooksAssumption
    <3>7. Peer[s] \in Cascades
            => delivery[d].hops + 1 + rank[Peer[s]] <= rank[delivery[d].root]
      BY <3>5, <3>6
    <3>. QED  BY <3>3, <3>4, <3>7 DEF Chained
  <2>3. CASE WorkerStep(w) /\ ~Record(w) /\ ~Send(w)
    BY <1>1, <2>3 DEF WorkerStep, Start, Bump, Check, Disable, Crash
  <2>. QED  BY <1>2, <2>1, <2>2, <2>3
<1>3. ASSUME NEW k \in Ticks, NEW d \in Deliveries, Claim(k, d) PROVE Chained(rank)'
  <2>1. inbox' = inbox  BY <1>3 DEF Claim
  <2>2. CASE delivery' = delivery  BY <1>1, <2>1, <2>2
  <2>3. CASE /\ delivery[d].status # "none"
             /\ delivery' = [delivery EXCEPT ![d].status = "pending",
                                             ![d].cursor = 0, ![d].due = FALSE]
    <3>1. delivery[d] \in DeliveryRow /\ DOMAIN delivery = Deliveries
      BY Fields DEF SendInv, TypeOK
    <3>. QED  BY <2>1, <2>3, <3>1, ChainedSame DEF DeliveryRow
  <2>4. \/ delivery' = delivery
        \/ /\ delivery[d].cursor \in 1..MaxAttempts
           /\ delivery' = [delivery EXCEPT ![d].status = "pending",
                                           ![d].cursor = 0, ![d].due = FALSE]
    <3>1. \A o \in tick[k] : o.cursor \in 1..MaxAttempts  BY DEF SendInv, TypeOK
    <3>. QED  BY <1>3, <3>1 DEF Claim
  <2>5. delivery[d].cursor \in 1..MaxAttempts => delivery[d].status # "none"
    BY WebhooksAssumption DEF SendInv, RowOK
  <2>. QED  BY <2>2, <2>3, <2>4, <2>5
<1>4. ASSUME NEW d \in Deliveries, BecomesDue(d) PROVE Chained(rank)'
  <2>1. delivery[d] \in DeliveryRow /\ DOMAIN delivery = Deliveries
    BY Fields DEF SendInv, TypeOK
  <2>. QED  BY <1>4, <2>1, ChainedSame DEF BecomesDue, DeliveryRow
<1>5. ASSUME NEW d \in Deliveries, NEW n \in Deliveries, Replay(d, n) PROVE Chained(rank)'
  BY <1>5, ChainedMore DEF Replay, Chained
<1>6. ASSUME NEW r \in inbox, NEW n \in Deliveries, Dispatch(r, n) PROVE Chained(rank)'
  <2>1. CASE r.site \in Cascades /\ Create(n, r.site, r.root, r.hops + 1)
    BY <1>6, <2>1, ChainedMore DEF Dispatch, Chained
  <2>2. CASE delivery' = delivery  BY <1>1, <1>6, <2>2 DEF Dispatch
  <2>. QED  BY <1>6, <2>1, <2>2 DEF Dispatch, FanOut
<1>7. ASSUME NEW n \in Deliveries, NEW s \in Sites, Event(n, s) PROVE Chained(rank)'
  <2>1. Create(n, s, s, 0) /\ inbox' = inbox  BY <1>7 DEF Event, FanOut
  <2>2. 0 + rank[s] <= rank[s]  BY RankFacts
  <2>. QED  BY <2>1, <2>2, ChainedMore
<1>8. ASSUME NEW k \in Ticks, ReadDue(k) \/ TickDies(k) PROVE Chained(rank)'
  BY <1>1, <1>8 DEF ReadDue, TickDies
<1>9. ASSUME NEW s \in Sites, Enable(s) PROVE Chained(rank)'  BY <1>1, <1>9 DEF Enable
<1>10. CASE UNCHANGED vars  BY <1>1, <1>10 DEF vars
<1>. QED
  BY <1>2, <1>3, <1>4, <1>5, <1>6, <1>7, <1>8, <1>9, <1>10 DEF Next

\* Whatever is retried, replayed, received twice or dispatched, an event sets off a
\* chain no longer than the row of cascading sites ahead of where it began: on any
\* installs whose cascading handlers do not push in a circle, every chain ends.
THEOREM NoEventCircles == Spec => []NoRunaway
<1> DEFINE AllChained == \A rank \in Ranks : Chained(rank)
<1>1. Init => AllChained  BY DEF Init, NoDelivery, Chained
<1>2. SendInv /\ AllChained /\ [Next]_vars => AllChained'
  <2> SUFFICES ASSUME SendInv, AllChained, [Next]_vars, NEW rank \in Ranks
               PROVE  Chained(rank)'
    BY DEF Chained, Ranks
  <2>. QED  BY NextChained
<1>3. SendInv /\ AllChained => NoRunaway
  <2> SUFFICES ASSUME SendInv, AllChained, NEW d \in Deliveries, NEW rank \in Ranks,
                      delivery[d].status # "none"
               PROVE  delivery[d].hops <= rank[delivery[d].root]
    BY DEF NoRunaway
  <2>1. delivery[d].hops + rank[delivery[d].site] <= rank[delivery[d].root]  BY DEF Chained
  <2>2. /\ rank[delivery[d].site] \in Nat /\ rank[delivery[d].root] \in Nat
        /\ delivery[d].hops \in Nat
    BY RankFacts, Fields DEF SendInv, RowOK, DeliveryRow
  <2>. QED  BY <2>1, <2>2
<1>. QED  BY <1>1, <1>2, <1>3, SendsHold, PTL DEF Spec
-----------------------------------------------------------------------------
(* The refinement: what each step is to DeliveryPromise.  The attempt a worker   *)
(* read before it sent is still the next one when it records the result.        *)

AttemptInv ==
  /\ \A d \in Deliveries : delivery[d].status = "none" => delivery[d].attempt = 0
  /\ \A w \in Workers, d \in Deliveries :
       Sends(w, d) => worker[w].attempt = delivery[d].attempt + 1

Held(d) == jobs[d] # 0 \/ \E w \in Workers : Sends(w, d)
Attempted(d) == \E w \in Workers : Sends(w, d)

\* What the promise makes of a row.
Reads(d) ==
  /\ delivery[d].status = "none" => Outcome[d] = "absent"
  /\ delivery[d].status \in {"success", "dead"} => Outcome[d] = delivery[d].status
  /\ delivery[d].status = "retrying" => Outcome[d] = "open"
  /\ delivery[d].status = "pending" => Outcome[d] = IF Held(d) THEN "open" ELSE "lost"
  /\ Attempts[d] = delivery[d].attempt
  /\ d \in Sending <=> Attempted(d)

LEMMA ReadsAs == \A d \in Deliveries : Reads(d)
<1> SUFFICES ASSUME NEW d \in Deliveries PROVE Reads(d)
  OBVIOUS
<1>1. Senders(d) = {} <=> ~Attempted(d)  BY DEF Senders, Sends, Attempted
<1>2. Outcome[d] = CASE delivery[d].status = "none" -> "absent"
                     [] IsTerminal(d) -> delivery[d].status
                     [] delivery[d].status = "pending" /\ jobs[d] = 0 /\ Senders(d) = {} -> "lost"
                     [] OTHER -> "open"
  BY DEF Outcome
<1>3. Held(d) <=> jobs[d] # 0 \/ Senders(d) # {}  BY <1>1 DEF Held, Attempted
<1>4. Attempts[d] = delivery[d].attempt  BY DEF Attempts
<1>. QED  BY <1>1, <1>2, <1>3, <1>4 DEF IsTerminal, Sending, Reads

LEMMA ReadsNext == (\A d \in Deliveries : Reads(d))'
BY ReadsAs, PTL

\* A step in which the promise sees nothing of a delivery.
Unseen(d) ==
  /\ Outcome'[d] = Outcome[d] /\ Attempts'[d] = Attempts[d]
  /\ d \in Sending' <=> d \in Sending

LEMMA UnseenAlone ==
  ASSUME NEW d \in Deliveries, delivery[d].status \in Status,
         delivery'[d].status = delivery[d].status, delivery'[d].attempt = delivery[d].attempt,
         jobs'[d] = jobs[d], \A w \in Workers : Sends(w, d)' <=> Sends(w, d)
  PROVE  Unseen(d)
<1>1. (Held(d)' <=> Held(d)) /\ (Attempted(d)' <=> Attempted(d))  BY DEF Held, Attempted
<1>2. Outcome'[d] = Outcome[d] /\ (d \in Sending' <=> d \in Sending)
  BY <1>1, ReadsAs, ReadsNext DEF Reads
<1>3. Attempts'[d] = Attempts[d]  BY ReadsAs, ReadsNext DEF Reads
<1>. QED  BY <1>2, <1>3 DEF Unseen

\* A step in which the promise sees d move, at most.
LEMMA OneMoves ==
  ASSUME NEW d \in Deliveries, \A e \in Deliveries : e # d => Unseen(e)
  PROVE  /\ Outcome' = [Outcome EXCEPT ![d] = Outcome'[d]]
         /\ Attempts' = [Attempts EXCEPT ![d] = Attempts'[d]]
         /\ d \in Sending' => Sending' = Sending \cup {d}
         /\ d \notin Sending' => Sending' = Sending \ {d}
<1>1. /\ Outcome' = [e \in Deliveries |-> Outcome'[e]]
      /\ Outcome = [e \in Deliveries |-> Outcome[e]]
      /\ Attempts' = [e \in Deliveries |-> Attempts'[e]]
      /\ Attempts = [e \in Deliveries |-> Attempts[e]]
  BY DEF Outcome, Attempts
<1>2. Sending \subseteq Deliveries /\ Sending' \subseteq Deliveries  BY DEF Sending
<1>3. \A e \in Deliveries : e # d => /\ Outcome'[e] = Outcome[e] /\ Attempts'[e] = Attempts[e]
                                     /\ e \in Sending' <=> e \in Sending
  BY DEF Unseen
<1>. QED  BY <1>1, <1>2, <1>3

LEMMA NothingMoves ==
  ASSUME \A d \in Deliveries : Unseen(d)
  PROVE  UNCHANGED <<Outcome, Attempts, Sending>>
<1>1. /\ Outcome' = [e \in Deliveries |-> Outcome'[e]]
      /\ Outcome = [e \in Deliveries |-> Outcome[e]]
      /\ Attempts' = [e \in Deliveries |-> Attempts'[e]]
      /\ Attempts = [e \in Deliveries |-> Attempts[e]]
  BY DEF Outcome, Attempts
<1>2. Sending \subseteq Deliveries /\ Sending' \subseteq Deliveries  BY DEF Sending
<1>. QED  BY <1>1, <1>2 DEF Unseen

\* A step that AttemptInv and the promise allow.
Keeps == AttemptInv' /\ [P!PNext]_<<Outcome, Attempts, Sending>>

\* Whoever still sends has what it read, and the row what it was read from.
LEMMA AttemptKept ==
  ASSUME AttemptInv,
         \A d \in Deliveries : delivery'[d].status = "none" =>
           delivery[d].status = "none" /\ delivery'[d].attempt = delivery[d].attempt,
         \A w \in Workers, d \in Deliveries :
           Sends(w, d)' => /\ Sends(w, d) /\ worker'[w].attempt = worker[w].attempt
                           /\ delivery'[d].attempt = delivery[d].attempt
  PROVE  AttemptInv'
BY DEF AttemptInv

\* A step that leaves the tasks, and of the rows what the promise sees.
LEMMA AsideStutters ==
  ASSUME SendInv, AttemptInv, jobs' = jobs,
         \A d \in Deliveries : /\ delivery'[d].status = delivery[d].status
                               /\ delivery'[d].attempt = delivery[d].attempt,
         \A w \in Workers, d \in Deliveries :
           /\ Sends(w, d)' <=> Sends(w, d)
           /\ Sends(w, d) => worker'[w].attempt = worker[w].attempt
  PROVE  Keeps
<1>1. \A d \in Deliveries : delivery[d].status \in Status
  BY Fields DEF SendInv, DeliveryRow
<1>2. \A d \in Deliveries : Unseen(d)  BY <1>1, UnseenAlone
<1>3. UNCHANGED <<Outcome, Attempts, Sending>>  BY <1>2, NothingMoves
<1>4. AttemptInv'  BY AttemptKept
<1>. QED  BY <1>3, <1>4 DEF Keeps

LEMMA SameWorkersStutter ==
  ASSUME SendInv, AttemptInv, delivery' = delivery, jobs' = jobs, worker' = worker
  PROVE  Keeps
<1>1. \A w \in Workers, d \in Deliveries : Sends(w, d)' <=> Sends(w, d)  BY DEF Sends
<1>. QED  BY <1>1, AsideStutters

\* A new row: open, or lost when its enqueue failed.
LEMMA CreateOpens ==
  ASSUME SendInv, AttemptInv, NEW n \in Deliveries, NEW s, NEW root, NEW hops,
         Create(n, s, root, hops),
         worker' = worker
  PROVE  Keeps
<1>1. /\ delivery[n].status = "none" /\ delivery'[n].status = "pending"
      /\ delivery'[n].attempt = 0
      /\ \A d \in Deliveries : d # n => delivery'[d] = delivery[d] /\ jobs'[d] = jobs[d]
  BY DEF Create, SendInv, TypeOK
<1>2. \A w \in Workers, d \in Deliveries : Sends(w, d)' <=> Sends(w, d)  BY DEF Sends
<1>3. \A w \in Workers : ~Sends(w, n)  BY <1>1 DEF SendInv, TaskOK
<1>4. \A d \in Deliveries : d # n => Unseen(d)
  <2>1. \A d \in Deliveries : delivery[d].status \in Status
    BY Fields DEF SendInv, DeliveryRow
  <2>. QED  BY <1>1, <1>2, <2>1, UnseenAlone
<1>5. /\ Outcome[n] = "absent" /\ Outcome'[n] \in {"open", "lost"}
      /\ n \notin Sending /\ n \notin Sending'
  BY <1>1, <1>2, <1>3, ReadsAs, ReadsNext DEF Reads, Attempted
<1>6. Attempts'[n] = Attempts[n]
  <2>1. delivery[n].attempt = 0  BY <1>1 DEF AttemptInv
  <2>. QED  BY <1>1, <2>1, ReadsAs, ReadsNext DEF Reads
<1>7. P!Open(n)
  BY <1>4, <1>5, <1>6, OneMoves DEF P!Open
<1>8. AttemptInv'  BY <1>1, <1>2, <1>3, AttemptKept
<1>. QED  BY <1>7, <1>8 DEF Keeps, P!PNext

\* A worker starts the one task of a pending row: an attempt begins.
LEMMA StartBegins ==
  ASSUME SendInv, AttemptInv, NEW w \in Workers, NEW d \in Deliveries, Start(w, d)
  PROVE  Keeps
<1>1. worker[w].pc = "idle" /\ jobs[d] > 0 /\ jobs' = [jobs EXCEPT ![d] = @ - 1]
      /\ delivery' = delivery
  BY DEF Start
<1>2. jobs[d] = 1 /\ delivery[d].status = "pending" /\ \A v \in Workers : ~Sends(v, d)
  BY <1>1 DEF SendInv, TaskOK
<1>3. /\ worker'[w] = [pc |-> "send", d |-> d, attempt |-> delivery[d].attempt + 1, ok |-> FALSE]
      /\ \A v \in Workers : v # w => worker'[v] = worker[v]
  BY <1>2 DEF Start, IsTerminal, SendInv, TypeOK
<1>4. \A v \in Workers, e \in Deliveries : Sends(v, e)' <=> Sends(v, e) \/ (v = w /\ e = d)
  BY <1>1, <1>3 DEF Sends
<1>5. \A e \in Deliveries : e # d => jobs'[e] = jobs[e]  BY <1>1 DEF SendInv, TypeOK
<1>6. \A e \in Deliveries : e # d => Unseen(e)
  <2>1. \A e \in Deliveries : delivery[e].status \in Status
    BY Fields DEF SendInv, DeliveryRow
  <2>. QED  BY <1>1, <1>4, <1>5, <2>1, UnseenAlone
<1>7. /\ Outcome[d] = "open" /\ Outcome'[d] = "open" /\ Attempts'[d] = Attempts[d]
      /\ d \notin Sending /\ d \in Sending'
  <2>1. Held(d) /\ ~Attempted(d)  BY <1>2 DEF Held, Attempted
  <2>2. Held(d)' /\ Attempted(d)'  BY <1>4 DEF Held, Attempted
  <2>. QED  BY <1>1, <1>2, <2>1, <2>2, ReadsAs, ReadsNext DEF Reads
<1>8. Outcome' = Outcome /\ Attempts' = Attempts /\ Sending' = Sending \cup {d}
  <2>1. Outcome' = [Outcome EXCEPT ![d] = Outcome[d]]
        /\ Attempts' = [Attempts EXCEPT ![d] = Attempts[d]] /\ Sending' = Sending \cup {d}
    BY <1>6, <1>7, OneMoves
  <2>. QED  BY <2>1 DEF Outcome, Attempts
<1>9. P!Begin(d)  BY <1>7, <1>8 DEF P!Begin
<1>10. AttemptInv'
  <2>1. \A e \in Deliveries : delivery'[e].status = "none" => delivery'[e].attempt = 0
    BY <1>1 DEF AttemptInv
  <2>2. ASSUME NEW v \in Workers, NEW e \in Deliveries, Sends(v, e)'
        PROVE  worker'[v].attempt = delivery'[e].attempt + 1
    <3>1. CASE v = w
      <4>1. e = d  BY <1>3, <2>2, <3>1 DEF Sends
      <4>. QED  BY <1>1, <1>3, <3>1, <4>1
    <3>2. CASE v # w  BY <1>1, <1>3, <1>4, <2>2, <3>2 DEF AttemptInv
    <3>. QED  BY <3>1, <3>2
  <2>. QED  BY <2>1, <2>2 DEF AttemptInv
<1>. QED  BY <1>9, <1>10 DEF Keeps, P!PNext

\* The one sender records what came of the attempt it numbered when it began.
LEMMA RecordFinishes ==
  ASSUME SendInv, AttemptInv, NEW w \in Workers, Record(w)
  PROVE  Keeps
<1>1. worker[w].pc = "record" /\ jobs' = jobs  BY DEF Record
<1>2. PICK d \in Deliveries : d = worker[w].d /\ Sends(w, d)
  BY <1>1 DEF SendInv, WorkerOK, Sends
<1>3. /\ delivery[d].status = "pending" /\ jobs[d] = 0
      /\ \A v \in Workers : Sends(v, d) => v = w
      /\ worker[w].attempt = delivery[d].attempt + 1
  BY <1>2 DEF SendInv, TaskOK, AttemptInv
<1>4. delivery[d] \in DeliveryRow /\ worker[w] \in WorkerState /\ DOMAIN delivery = Deliveries
      /\ DOMAIN worker = Workers
  BY Fields DEF SendInv, TypeOK
<1>5. PICK st \in {"success", "dead", "retrying"} :
        /\ delivery'[d].status = st /\ delivery'[d].attempt = worker[w].attempt
        /\ st = "dead" => worker[w].attempt = MaxAttempts
        /\ st = "retrying" => worker[w].attempt < MaxAttempts
  <2>1. PICK st : st = IF worker[w].ok THEN "success"
                       ELSE IF worker[w].attempt >= MaxAttempts THEN "dead" ELSE "retrying"
    OBVIOUS
  <2>2. PICK cur :
          delivery' = [delivery EXCEPT ![d].attempt = worker[w].attempt, ![d].status = st,
                                       ![d].cursor = cur, ![d].due = FALSE]
    BY <1>2, <2>1, Zenon DEF Record
  <2>3. delivery'[d].status = st /\ delivery'[d].attempt = worker[w].attempt
    BY <1>4, <2>2 DEF DeliveryRow
  <2>4. worker[w].attempt \in 0..MaxAttempts  BY <1>4 DEF WorkerState
  <2>5. /\ st \in {"success", "dead", "retrying"}
        /\ st = "dead" => worker[w].attempt = MaxAttempts
        /\ st = "retrying" => worker[w].attempt < MaxAttempts
    BY <2>1, <2>4, WebhooksAssumption
  <2>. QED  BY <2>3, <2>5
<1>6. /\ \A e \in Deliveries : e # d => delivery'[e] = delivery[e]
      /\ worker'[w].pc = "bump" /\ \A v \in Workers : v # w => worker'[v] = worker[v]
  BY <1>2, <1>4 DEF Record, WorkerState
<1>7. \A v \in Workers, e \in Deliveries : Sends(v, e)' <=> Sends(v, e) /\ v # w
  BY <1>6 DEF Sends
<1>8. \A e \in Deliveries : e # d => Unseen(e)
  <2>1. \A e \in Deliveries : delivery[e].status \in Status
    BY Fields DEF SendInv, DeliveryRow
  <2>2. \A v \in Workers, e \in Deliveries : e # d => (Sends(v, e)' <=> Sends(v, e))
    BY <1>2, <1>7 DEF Sends
  <2>. QED  BY <1>1, <1>6, <2>1, <2>2, UnseenAlone
<1>9. /\ Outcome[d] = "open" /\ Attempts'[d] = Attempts[d] + 1
      /\ Outcome'[d] = IF st = "retrying" THEN "open" ELSE st
      /\ d \in Sending /\ d \notin Sending'
  <2>1. Held(d) /\ Attempted(d)  BY <1>2 DEF Held, Attempted
  <2>2. ~Attempted(d)'  BY <1>3, <1>7 DEF Attempted
  <2>. QED  BY <1>3, <1>5, <2>1, <2>2, ReadsAs, ReadsNext DEF Reads
<1>10. /\ Outcome' = [Outcome EXCEPT ![d] = Outcome'[d]]
       /\ Attempts' = [Attempts EXCEPT ![d] = Attempts[d] + 1]
       /\ Sending' = Sending \ {d}
  BY <1>8, <1>9, OneMoves
<1>11. P!Finish(d)
  <2>1. Attempts[d] + 1 = worker[w].attempt  BY <1>3, ReadsAs DEF Reads
  <2>2. CASE st = "retrying"
    <3>1. Outcome' = Outcome  BY <1>9, <1>10, <2>2 DEF Outcome
    <3>. QED  BY <1>5, <1>9, <1>10, <2>1, <2>2, <3>1 DEF P!Finish
  <2>3. CASE st # "retrying"
    BY <1>5, <1>9, <1>10, <2>1, <2>3 DEF P!Finish
  <2>. QED  BY <2>2, <2>3
<1>12. AttemptInv'
  <2>1. \A v \in Workers, e \in Deliveries :
          Sends(v, e)' => /\ Sends(v, e) /\ worker'[v].attempt = worker[v].attempt
                          /\ delivery'[e].attempt = delivery[e].attempt
    BY <1>3, <1>6, <1>7
  <2>. QED  BY <1>5, <1>6, <2>1, AttemptKept
<1>. QED  BY <1>11, <1>12 DEF Keeps, P!PNext

\* A pending row whose one worker dies, or whose enqueue fails, is nobody's.
LEMMA NobodyLeftLoses ==
  ASSUME SendInv, AttemptInv, NEW d \in Deliveries, Outcome[d] = "open",
         delivery'[d].status = "pending", delivery'[d].attempt = delivery[d].attempt,
         ~Held(d)', \A e \in Deliveries : e # d => delivery'[e] = delivery[e] /\ jobs'[e] = jobs[e],
         \A v \in Workers, e \in Deliveries : e # d => (Sends(v, e)' <=> Sends(v, e)),
         \A v \in Workers, e \in Deliveries :
           Sends(v, e)' => worker'[v].attempt = worker[v].attempt
  PROVE  Keeps
<1>1. \A e \in Deliveries : e # d => Unseen(e)
  <2>1. \A e \in Deliveries : delivery[e].status \in Status
    BY Fields DEF SendInv, DeliveryRow
  <2>. QED  BY <2>1, UnseenAlone
<1>2. Outcome'[d] = "lost" /\ Attempts'[d] = Attempts[d] /\ d \notin Sending'
  BY ReadsAs, ReadsNext DEF Reads, Held, Attempted
<1>3. Attempts' = Attempts /\ Sending' = Sending \ {d}
      /\ Outcome' = [Outcome EXCEPT ![d] = "lost"]
  <2>1. Attempts' = [Attempts EXCEPT ![d] = Attempts[d]] /\ Sending' = Sending \ {d}
        /\ Outcome' = [Outcome EXCEPT ![d] = "lost"]
    BY <1>1, <1>2, OneMoves
  <2>. QED  BY <2>1 DEF Attempts
<1>4. P!Lose(d)  BY <1>3 DEF P!Lose
<1>5. AttemptInv'
  <2>1. \A v \in Workers : ~Sends(v, d)'  BY DEF Held
  <2>2. \A v \in Workers, e \in Deliveries :
          Sends(v, e)' => /\ Sends(v, e) /\ worker'[v].attempt = worker[v].attempt
                          /\ delivery'[e].attempt = delivery[e].attempt
    BY <2>1
  <2>. QED  BY <2>2, AttemptKept
<1>. QED  BY <1>4, <1>5 DEF Keeps, P!PNext

\* Death in the middle of an attempt, and nowhere else, loses the delivery.
LEMMA CrashLoses ==
  ASSUME SendInv, AttemptInv, NEW w \in Workers, Crash(w)
  PROVE  Keeps
<1>1. /\ delivery' = delivery /\ jobs' = jobs
      /\ worker'[w] = Idle /\ \A v \in Workers : v # w => worker'[v] = worker[v]
  BY DEF Crash, SendInv, TypeOK
<1>2. \A v \in Workers, e \in Deliveries : Sends(v, e)' <=> Sends(v, e) /\ v # w
  BY <1>1 DEF Sends, Idle
<1>3. CASE worker[w].pc \notin {"send", "record"}
  <2>1. \A e \in Deliveries : ~Sends(w, e)  BY <1>3 DEF Sends
  <2>. QED  BY <1>1, <1>2, <2>1, AsideStutters
<1>4. CASE worker[w].pc \in {"send", "record"}
  <2>1. PICK d \in Deliveries : Sends(w, d)  BY <1>4 DEF SendInv, WorkerOK, Sends
  <2>2. /\ delivery[d].status = "pending" /\ jobs[d] = 0
        /\ \A v \in Workers : Sends(v, d) => v = w
    BY <2>1 DEF SendInv, TaskOK
  <2>3. Outcome[d] = "open"  BY <2>1, <2>2, ReadsAs DEF Reads, Held
  <2>4. ~Held(d)'  BY <1>1, <1>2, <2>2 DEF Held
  <2>5. \A v \in Workers, e \in Deliveries : e # d => (Sends(v, e)' <=> Sends(v, e))
    BY <1>2, <2>1 DEF Sends
  <2>. QED  BY <1>1, <1>2, <2>2, <2>3, <2>4, <2>5, NobodyLeftLoses
<1>. QED  BY <1>3, <1>4

\* The POST, and _bump_endpoint after the attempt: the attempt goes on, or is over.
LEMMA WorkStutters ==
  ASSUME SendInv, AttemptInv, NEW w \in Workers, Send(w) \/ Bump(w) \/ Check(w) \/ Disable(w)
  PROVE  Keeps
<1>1. /\ delivery' = delivery /\ jobs' = jobs
      /\ \A v \in Workers : v # w => worker'[v] = worker[v]
  BY DEF Send, Bump, Check, Disable, SendInv, TypeOK
<1>2. worker[w] \in WorkerState /\ DOMAIN worker = Workers  BY Fields DEF SendInv, TypeOK
<1>3. \A d \in Deliveries : /\ Sends(w, d)' <=> Sends(w, d)
                            /\ Sends(w, d) => worker'[w].attempt = worker[w].attempt
  <2>1. CASE Send(w)
    <3>1. PICK ok : worker' = [worker EXCEPT ![w].pc = "record", ![w].ok = ok]
      BY <2>1 DEF Send
    <3>2. worker'[w].pc = "record" /\ worker'[w].d = worker[w].d
          /\ worker'[w].attempt = worker[w].attempt
      BY <1>2, <3>1 DEF WorkerState
    <3>. QED  BY <2>1, <3>2 DEF Send, Sends
  <2>2. CASE Bump(w) \/ Check(w) \/ Disable(w)
    <3>1. worker[w].pc \in {"bump", "check", "disable"}
      <4>1. ASSUME Bump(w) PROVE worker[w].pc = "bump"  BY <4>1, Zenon DEF Bump
      <4>2. ASSUME Check(w) PROVE worker[w].pc = "check"  BY <4>2, Zenon DEF Check
      <4>3. ASSUME Disable(w) PROVE worker[w].pc = "disable"  BY <4>3, Zenon DEF Disable
      <4>. QED  BY <2>2, <4>1, <4>2, <4>3
    <3>2. \/ worker' = [worker EXCEPT ![w] = Idle]
          \/ \E pc \in {"check", "disable"} : worker' = [worker EXCEPT ![w].pc = pc]
      <4>1. CASE Bump(w)
        <5>1. CASE worker[w].ok  BY <4>1, <5>1 DEF Bump
        <5>2. CASE ~worker[w].ok  BY <4>1, <5>2 DEF Bump
        <5>. QED  BY <5>1, <5>2
      <4>2. CASE Check(w)  BY <4>2 DEF Check
      <4>3. CASE Disable(w)  BY <4>3 DEF Disable
      <4>. QED  BY <2>2, <4>1, <4>2, <4>3
    <3>3. worker'[w].pc \in {"idle", "check", "disable"}
      <4>1. CASE worker' = [worker EXCEPT ![w] = Idle]  BY <1>2, <4>1 DEF Idle
      <4>2. CASE \E pc \in {"check", "disable"} : worker' = [worker EXCEPT ![w].pc = pc]
        BY <1>2, <4>2 DEF WorkerState
      <4>. QED  BY <3>2, <4>1, <4>2
    <3>. QED  BY <3>1, <3>3 DEF Sends
  <2>. QED  BY <2>1, <2>2
<1>4. \A v \in Workers, d \in Deliveries :
        /\ Sends(v, d)' <=> Sends(v, d)
        /\ Sends(v, d) => worker'[v].attempt = worker[v].attempt
  BY <1>1, <1>3 DEF Sends
<1>. QED  BY <1>1, <1>4, AsideStutters

\* A claim that applies puts a waiting row back to its task, or loses it.
LEMMA ClaimGoesOn ==
  ASSUME SendInv, AttemptInv, NEW k \in Ticks, NEW d \in Deliveries, Claim(k, d)
  PROVE  Keeps
<1>1. PICK o \in tick[k] :
        /\ worker' = worker
        /\ IF delivery[d].cursor = o.cursor
           THEN /\ delivery' = [delivery EXCEPT ![d].status = "pending",
                                                ![d].cursor = 0, ![d].due = FALSE]
                /\ jobs' \in {jobs, [jobs EXCEPT ![d] = @ + 1]}
           ELSE UNCHANGED <<delivery, jobs>>
  BY DEF Claim
<1>2. CASE delivery[d].cursor # o.cursor
  BY <1>1, <1>2, SameWorkersStutter
<1>3. CASE delivery[d].cursor = o.cursor
  <2>1. delivery[d].status = "retrying"
    <3>1. o.cursor # 0  BY <1>1 DEF SendInv, TypeOK
    <3>. QED  BY <1>3, <3>1 DEF SendInv, RowOK
  <2>2. jobs[d] = 0 /\ \A w \in Workers : ~Sends(w, d)
    BY <2>1 DEF SendInv, TaskOK
  <2>3. \A w \in Workers, e \in Deliveries : Sends(w, e)' <=> Sends(w, e)  BY <1>1 DEF Sends
  <2>4. delivery[d] \in DeliveryRow /\ DOMAIN delivery = Deliveries /\ DOMAIN jobs = Deliveries
    BY Fields DEF SendInv, TypeOK
  <2>5. /\ delivery'[d].status = "pending" /\ delivery'[d].attempt = delivery[d].attempt
        /\ \A e \in Deliveries : e # d => delivery'[e] = delivery[e] /\ jobs'[e] = jobs[e]
    BY <1>1, <1>3, <2>4 DEF DeliveryRow
  <2>6. Outcome[d] = "open" /\ d \notin Sending
    BY <2>1, <2>2, ReadsAs DEF Reads, Attempted
  <2>7. CASE jobs' = jobs
    <3>1. ~Held(d)'  BY <2>2, <2>3, <2>7 DEF Held
    <3>. QED  BY <1>1, <2>3, <2>5, <2>6, <3>1, NobodyLeftLoses
  <2>8. CASE jobs' = [jobs EXCEPT ![d] = @ + 1]
    <3>1. Held(d)' /\ ~Attempted(d)'  BY <2>2, <2>3, <2>4, <2>8 DEF Held, Attempted
    <3>2. Unseen(d)
      BY <2>5, <2>6, <3>1, ReadsAs, ReadsNext DEF Reads, Unseen
    <3>3. \A e \in Deliveries : e # d => Unseen(e)
      <4>1. \A e \in Deliveries : delivery[e].status \in Status
        BY Fields DEF SendInv, DeliveryRow
      <4>. QED  BY <2>3, <2>5, <4>1, UnseenAlone
    <3>4. UNCHANGED <<Outcome, Attempts, Sending>>  BY <3>2, <3>3, NothingMoves
    <3>5. AttemptInv'
      <4>1. \A e \in Deliveries : delivery'[e].status = "none" =>
              delivery[e].status = "none" /\ delivery'[e].attempt = delivery[e].attempt
        BY <2>5
      <4>. QED  BY <1>1, <2>3, <2>5, <4>1, AttemptKept
    <3>. QED  BY <3>4, <3>5 DEF Keeps
  <2>. QED  BY <1>1, <1>3, <2>7, <2>8
<1>. QED  BY <1>2, <1>3

LEMMA DueStutters ==
  ASSUME SendInv, AttemptInv, NEW d \in Deliveries, BecomesDue(d)
  PROVE  Keeps
<1>1. delivery' = [delivery EXCEPT ![d].due = TRUE] /\ jobs' = jobs /\ worker' = worker
  BY DEF BecomesDue
<1>2. delivery[d] \in DeliveryRow /\ DOMAIN delivery = Deliveries
  BY Fields DEF SendInv, TypeOK
<1>3. \A e \in Deliveries : /\ delivery'[e].status = delivery[e].status
                            /\ delivery'[e].attempt = delivery[e].attempt
  BY <1>1, <1>2 DEF DeliveryRow
<1>4. \A w \in Workers, e \in Deliveries : Sends(w, e)' <=> Sends(w, e)  BY <1>1 DEF Sends
<1>. QED  BY <1>1, <1>3, <1>4, AsideStutters

LEMMA NextKeeps == SendInv /\ AttemptInv /\ [Next]_vars => Keeps
<1> SUFFICES ASSUME SendInv, AttemptInv, [Next]_vars PROVE Keeps
  OBVIOUS
<1>1. ASSUME NEW n \in Deliveries, NEW s, NEW r, NEW h, FanOut(n, s, r, h),
             worker' = worker
      PROVE  Keeps
  <2>1. CASE Create(n, s, r, h)  BY <1>1, <2>1, CreateOpens
  <2>2. CASE UNCHANGED <<delivery, jobs>>  BY <1>1, <2>2, SameWorkersStutter
  <2>. QED  BY <1>1, <2>1, <2>2 DEF FanOut
<1>2. ASSUME NEW n \in Deliveries, NEW s \in Sites, Event(n, s) PROVE Keeps
  BY <1>1, <1>2 DEF Event
<1>3. ASSUME NEW d \in Deliveries, NEW n \in Deliveries, Replay(d, n) PROVE Keeps
  BY <1>3, CreateOpens DEF Replay
<1>4. ASSUME NEW w \in Workers, WorkerStep(w) PROVE Keeps
  BY <1>4, StartBegins, RecordFinishes, CrashLoses, WorkStutters DEF WorkerStep
<1>5. ASSUME NEW s \in Sites, Enable(s) PROVE Keeps
  BY <1>5, SameWorkersStutter DEF Enable
<1>6. ASSUME NEW k \in Ticks, ReadDue(k) \/ TickDies(k) PROVE Keeps
  BY <1>6, SameWorkersStutter DEF ReadDue, TickDies
<1>7. ASSUME NEW r \in inbox, NEW n \in Deliveries, Dispatch(r, n) PROVE Keeps
  <2>1. worker' = worker  BY <1>7 DEF Dispatch
  <2>2. CASE FanOut(n, r.site, r.root, r.hops + 1)  BY <1>1, <2>1, <2>2
  <2>3. CASE UNCHANGED <<delivery, jobs>>  BY <2>1, <2>3, SameWorkersStutter
  <2>. QED  BY <1>7, <2>2, <2>3 DEF Dispatch
<1>8. CASE UNCHANGED vars  BY <1>8, SameWorkersStutter DEF vars
<1>. QED
  BY <1>2, <1>3, <1>4, <1>5, <1>6, <1>7, <1>8, ClaimGoesOn, DueStutters DEF Next

LEMMA InitPromise == Init => AttemptInv /\ P!PInit
<1> SUFFICES ASSUME Init PROVE AttemptInv /\ P!PInit
  OBVIOUS
<1>1. \A d \in Deliveries : /\ delivery[d].status = "none" /\ delivery[d].attempt = 0
                            /\ \A w \in Workers : ~Sends(w, d)
  BY DEF Init, NoDelivery, Idle, Sends
<1>2. AttemptInv  BY <1>1 DEF AttemptInv
<1>3. \A d \in Deliveries : Outcome[d] = "absent" /\ Attempts[d] = 0 /\ d \notin Sending
  BY <1>1, ReadsAs DEF Reads, Attempted
<1>4. P!PInit  BY <1>3 DEF P!PInit, Outcome, Attempts, Sending
<1>. QED  BY <1>2, <1>4

\* However many ticks overlap, workers die and enqueues fail, for any sites, deliveries,
\* workers and ticks: a delivery is attempted one numbered attempt at a time, none of them
\* twice and none past the last, and what came of it stands.
THEOREM DeliveryKeepsPromise == Spec => KeepsPromise
<1>1. SendInv /\ AttemptInv /\ [Next]_vars
      => AttemptInv' /\ [P!PNext]_<<Outcome, Attempts, Sending>>
  BY NextKeeps DEF Keeps
<1>. QED  BY <1>1, InitPromise, SendsHold, PTL DEF Spec, KeepsPromise, P!Promised

=============================================================================
