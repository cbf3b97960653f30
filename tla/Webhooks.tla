------------------------------ MODULE Webhooks ------------------------------
(***************************************************************************)
(* apps/webhooks on a set of sites that push events to one another: fan-out  *)
(* of an event to a site's endpoint, deliver_webhook and its own retries,    *)
(* the retry tick, replay, the receiving view and dispatch_incoming, and the *)
(* guards against an event running in circles.  A statement that commits     *)
(* alone is a step of its own; an HTTP request and its answer are one step   *)
(* with the answer perhaps lost.                                             *)
(***************************************************************************)
EXTENDS Integers, FiniteSets

CONSTANTS
  Sites,         \* SmallStack installs, by their origin
  Peer,          \* Sites -> Sites: where the site's (paired) endpoint points
  Cascades,      \* sites whose inbound handler writes outside suppress_webhooks:
                 \* cascade=True, or it leaves the write to another thread
  Deliveries,    \* ids of WebhookDelivery rows
  Workers, Ticks,
  None,
  MaxAttempts,   \* SMALLSTACK_WEBHOOK_MAX_ATTEMPTS
  DisableAfter   \* SMALLSTACK_WEBHOOK_AUTO_DISABLE_AFTER

ASSUME WebhooksAssumption ==
  /\ Peer \in [Sites -> Sites] /\ \A s \in Sites : Peer[s] # s
  /\ Cascades \subseteq Sites /\ None \notin Deliveries \cup Sites
  /\ MaxAttempts \in Nat \ {0} /\ DisableAfter \in Nat \ {0}

VARIABLES
  delivery,   \* WebhookDelivery; cursor is next_attempt_at, 0 for NULL: each
              \* attempt sets one of its own.  root is the site where the chain
              \* of events began and hops how many handlers it went through,
              \* which the code does not keep
  jobs,       \* deliver_webhook tasks waiting, by delivery
  worker,     \* a worker inside deliver_webhook, with the attempt it read
  tick,       \* run_due_deliveries under way: the due rows it read
  endpoint,   \* enabled and consecutive_failures, by site
  inbox       \* accepted WebhookReceipts whose handler has not run

vars == <<delivery, jobs, worker, tick, endpoint, inbox>>

Status == {"none", "pending", "retrying", "success", "dead"}
IsTerminal(d) == delivery[d].status \in {"success", "dead"}
NoDelivery == [status |-> "none", site |-> None, attempt |-> 0, cursor |-> 0,
               due |-> FALSE, root |-> None, hops |-> 0]
Idle == [pc |-> "idle", d |-> None, attempt |-> 0, ok |-> FALSE]

-----------------------------------------------------------------------------
(* Outbound *)

\* A row is inserted and its task enqueued; the enqueue is best-effort.
Create(n, s, root, hops) ==
  /\ delivery[n].status = "none"
  /\ delivery' = [delivery EXCEPT ![n] = [status |-> "pending", site |-> s, attempt |-> 0,
                                          cursor |-> 0, due |-> FALSE,
                                          root |-> root, hops |-> hops]]
  /\ jobs' \in {jobs, [jobs EXCEPT ![n] = @ + 1]}

\* _fire and fan_out: nothing is created for an endpoint that is not enabled.
FanOut(n, s, root, hops) ==
  IF endpoint[s].enabled THEN Create(n, s, root, hops) ELSE UNCHANGED <<delivery, jobs>>

\* A write of the application.
Event(n, s) ==
  /\ endpoint[s].enabled
  /\ FanOut(n, s, s, 0)
  /\ UNCHANGED <<worker, tick, endpoint, inbox>>

\* replay_delivery, of any row and whether or not the endpoint is enabled.
Replay(d, n) ==
  /\ delivery[d].status # "none"
  /\ Create(n, delivery[d].site, delivery[d].root, delivery[d].hops)
  /\ UNCHANGED <<worker, tick, endpoint, inbox>>

\* A worker starts deliver_webhook: a terminal delivery is skipped.
Start(w, d) ==
  /\ worker[w].pc = "idle" /\ jobs[d] > 0
  /\ jobs' = [jobs EXCEPT ![d] = @ - 1]
  /\ worker' = IF IsTerminal(d)
               THEN worker
               ELSE [worker EXCEPT ![w] = [pc |-> "send", d |-> d,
                                           attempt |-> delivery[d].attempt + 1, ok |-> FALSE]]
  /\ UNCHANGED <<delivery, tick, endpoint, inbox>>

\* incoming_webhook at site s: an event stamped with its own origin is ignored.
\* The receipt's task may fail to be enqueued.
Receive(s, d) ==
  LET receipt == [site |-> s, root |-> delivery[d].root, hops |-> delivery[d].hops] IN
  inbox' \in IF delivery[d].site = s THEN {inbox} ELSE {inbox, inbox \cup {receipt}}

\* The POST reaches the peer or not; the answer comes back or not.
Send(w) ==
  LET d == worker[w].d IN
  /\ worker[w].pc = "send"
  /\ \/ /\ Receive(Peer[delivery[d].site], d)
        /\ \E ok \in BOOLEAN : worker' = [worker EXCEPT ![w].pc = "record", ![w].ok = ok]
     \/ /\ worker' = [worker EXCEPT ![w].pc = "record", ![w].ok = FALSE]
        /\ UNCHANGED inbox
  /\ UNCHANGED <<delivery, jobs, tick, endpoint>>

\* Mutant: a retry is left without the time it is due.
RecordNoCursor(w) ==
  LET d == worker[w].d IN
  LET status == IF worker[w].ok THEN "success"
                ELSE IF worker[w].attempt >= MaxAttempts THEN "dead" ELSE "retrying" IN
  /\ worker[w].pc = "record"
  /\ delivery' = [delivery EXCEPT ![d].attempt = worker[w].attempt, ![d].status = status,
                                  ![d].cursor = 0,
                                  ![d].due = FALSE]
  /\ worker' = [worker EXCEPT ![w].pc = "bump"]
  /\ UNCHANGED <<jobs, tick, endpoint, inbox>>

\* Mutant: the last attempt is followed by one more.
RecordPastLast(w) ==
  LET d == worker[w].d IN
  LET status == IF worker[w].ok THEN "success"
                ELSE IF worker[w].attempt > MaxAttempts THEN "dead" ELSE "retrying" IN
  /\ worker[w].pc = "record"
  /\ delivery' = [delivery EXCEPT ![d].attempt = worker[w].attempt, ![d].status = status,
                                  ![d].cursor = IF status = "retrying"
                                                THEN worker[w].attempt ELSE 0,
                                  ![d].due = FALSE]
  /\ worker' = [worker EXCEPT ![w].pc = "bump"]
  /\ UNCHANGED <<jobs, tick, endpoint, inbox>>

\* _record_attempt writes what it computed from the row it read before sending.
Record(w) ==
  LET d == worker[w].d IN
  LET status == IF worker[w].ok THEN "success"
                ELSE IF worker[w].attempt >= MaxAttempts THEN "dead" ELSE "retrying" IN
  /\ worker[w].pc = "record"
  /\ delivery' = [delivery EXCEPT ![d].attempt = worker[w].attempt, ![d].status = status,
                                  ![d].cursor = IF status = "retrying"
                                                THEN worker[w].attempt ELSE 0,
                                  ![d].due = FALSE]
  /\ worker' = [worker EXCEPT ![w].pc = "bump"]
  /\ UNCHANGED <<jobs, tick, endpoint, inbox>>

\* _bump_endpoint: F() updates, then a look at the counter on failure.
Bump(w) ==
  LET s == delivery[worker[w].d].site IN
  /\ worker[w].pc = "bump"
  /\ IF worker[w].ok
     THEN /\ endpoint' = [endpoint EXCEPT ![s].failures = 0]
          /\ worker' = [worker EXCEPT ![w] = Idle]
     ELSE /\ endpoint' = [endpoint EXCEPT ![s].failures =
                            IF @ < DisableAfter THEN @ + 1 ELSE @]
          /\ worker' = [worker EXCEPT ![w].pc = "check"]
  /\ UNCHANGED <<delivery, jobs, tick, inbox>>

Check(w) ==
  LET s == delivery[worker[w].d].site IN
  /\ worker[w].pc = "check"
  /\ worker' = IF endpoint[s].failures >= DisableAfter /\ endpoint[s].enabled
               THEN [worker EXCEPT ![w].pc = "disable"]
               ELSE [worker EXCEPT ![w] = Idle]
  /\ UNCHANGED <<delivery, jobs, tick, endpoint, inbox>>

Disable(w) ==
  LET s == delivery[worker[w].d].site IN
  /\ worker[w].pc = "disable"
  /\ endpoint' = [endpoint EXCEPT ![s].enabled = FALSE]
  /\ worker' = [worker EXCEPT ![w] = Idle]
  /\ UNCHANGED <<delivery, jobs, tick, inbox>>

\* The worker dies or the task raises: deliver_webhook declares no retry_policy,
\* so the task is over wherever it was.
Crash(w) ==
  /\ worker[w].pc # "idle"
  /\ worker' = [worker EXCEPT ![w] = Idle]
  /\ UNCHANGED <<delivery, jobs, tick, endpoint, inbox>>

\* An operator turns the endpoint on again; the counter stays.
Enable(s) ==
  /\ ~endpoint[s].enabled
  /\ endpoint' = [endpoint EXCEPT ![s].enabled = TRUE]
  /\ UNCHANGED <<delivery, jobs, worker, tick, inbox>>

-----------------------------------------------------------------------------
(* The retry tick: cron, the HTTP endpoint and the command may overlap *)

BecomesDue(d) ==
  /\ delivery[d].cursor # 0 /\ ~delivery[d].due
  /\ delivery' = [delivery EXCEPT ![d].due = TRUE]
  /\ UNCHANGED <<jobs, worker, tick, endpoint, inbox>>

ReadDue(k) ==
  /\ tick[k] = {}
  /\ tick' = [tick EXCEPT ![k] =
                {[d |-> d, cursor |-> delivery[d].cursor] :
                   d \in {e \in Deliveries : delivery[e].status = "retrying" /\ delivery[e].due}}]
  /\ UNCHANGED <<delivery, jobs, worker, endpoint, inbox>>

\* Mutant: the claim is not conditional on the cursor that was read.
ClaimUnchecked(k, d) ==
  \E o \in tick[k] :
    /\ o.d = d
    /\ tick' = [tick EXCEPT ![k] = @ \ {o}]
    /\ delivery' = [delivery EXCEPT ![d].status = "pending",
                                    ![d].cursor = 0, ![d].due = FALSE]
    /\ jobs' \in {jobs, [jobs EXCEPT ![d] = @ + 1]}
    /\ UNCHANGED <<worker, endpoint, inbox>>

\* The conditional UPDATE, then the enqueue, which may fail or not be reached.
Claim(k, d) ==
  \E o \in tick[k] :
    /\ o.d = d
    /\ tick' = [tick EXCEPT ![k] = @ \ {o}]
    /\ IF delivery[d].cursor = o.cursor
       THEN /\ delivery' = [delivery EXCEPT ![d].status = "pending",
                                            ![d].cursor = 0, ![d].due = FALSE]
            /\ jobs' \in {jobs, [jobs EXCEPT ![d] = @ + 1]}
       ELSE UNCHANGED <<delivery, jobs>>
    /\ UNCHANGED <<worker, endpoint, inbox>>

TickDies(k) ==
  /\ tick[k] # {}
  /\ tick' = [tick EXCEPT ![k] = {}]
  /\ UNCHANGED <<delivery, jobs, worker, endpoint, inbox>>

-----------------------------------------------------------------------------
(* Inbound *)

\* Mutant: every handler runs outside suppress_webhooks.
DispatchCascading(r, n) ==
  /\ r \in inbox
  /\ inbox' = inbox \ {r}
  /\ FanOut(n, r.site, r.root, r.hops + 1)
  /\ UNCHANGED <<worker, tick, endpoint>>

\* dispatch_incoming: the handler writes to a model with webhooks enabled,
\* which fires an event of this site unless the handler is suppressed.
Dispatch(r, n) ==
  /\ r \in inbox
  /\ inbox' = inbox \ {r}
  /\ IF r.site \in Cascades
     THEN FanOut(n, r.site, r.root, r.hops + 1)
     ELSE UNCHANGED <<delivery, jobs>>
  /\ UNCHANGED <<worker, tick, endpoint>>

-----------------------------------------------------------------------------
Init ==
  /\ delivery = [d \in Deliveries |-> NoDelivery]
  /\ jobs = [d \in Deliveries |-> 0]
  /\ worker = [w \in Workers |-> Idle]
  /\ tick = [k \in Ticks |-> {}]
  /\ endpoint = [s \in Sites |-> [enabled |-> TRUE, failures |-> 0]]
  /\ inbox = {}

WorkerStep(w) ==
  \/ Send(w) \/ Record(w) \/ Bump(w) \/ Check(w) \/ Disable(w) \/ Crash(w)
  \/ \E d \in Deliveries : Start(w, d)

Next ==
  \/ \E n \in Deliveries, s \in Sites : Event(n, s)
  \/ \E d, n \in Deliveries : Replay(d, n)
  \/ \E w \in Workers : WorkerStep(w)
  \/ \E s \in Sites : Enable(s)
  \/ \E d \in Deliveries : BecomesDue(d)
  \/ \E k \in Ticks : ReadDue(k) \/ TickDies(k) \/ \E d \in Deliveries : Claim(k, d)
  \/ \E r \in inbox, n \in Deliveries : Dispatch(r, n)

Spec == Init /\ [][Next]_vars

\* Workers go on with what they took, time passes, cron keeps ticking, and a
\* tick that has rows to claim is not killed every time.
Fairness ==
  /\ \A w \in Workers :
       WF_vars(Send(w) \/ Record(w) \/ Bump(w) \/ Check(w) \/ Disable(w))
  /\ \A d \in Deliveries :
       /\ WF_vars(BecomesDue(d)) /\ WF_vars(\E w \in Workers : Start(w, d))
       /\ SF_vars(\E k \in Ticks : Claim(k, d))
  /\ WF_vars(\E k \in Ticks : ReadDue(k) /\ tick'[k] # {})

FairSpec == Spec /\ Fairness

-----------------------------------------------------------------------------
\* The type of the state, and: no attempt is numbered past MaxAttempts, on the row
\* or in a worker that has read it.
TypeOK ==
  /\ delivery \in [Deliveries -> [status : Status, site : Sites \cup {None},
                                  attempt : 0..MaxAttempts, cursor : 0..MaxAttempts,
                                  due : BOOLEAN, root : Sites \cup {None}, hops : Nat]]
  /\ jobs \in [Deliveries -> Nat]
  /\ worker \in [Workers -> [pc : {"idle", "send", "record", "bump", "check", "disable"},
                             d : Deliveries \cup {None}, attempt : 0..MaxAttempts,
                             ok : BOOLEAN]]
  /\ tick \in [Ticks -> SUBSET [d : Deliveries, cursor : 1..MaxAttempts]]
  /\ endpoint \in [Sites -> [enabled : BOOLEAN, failures : 0..DisableAfter]]
  /\ inbox \subseteq [site : Sites, root : Sites, hops : Nat]

Senders(d) == {w \in Workers : worker[w].d = d /\ worker[w].pc \in {"send", "record"}}

\* "Concurrent ticks can't double-send" (run_due_deliveries): a delivery never
\* has two tasks, queued or sending, and none while it waits for its retry.
OneSender ==
  /\ TypeOK
  /\ \A d \in Deliveries :
       /\ jobs[d] + Cardinality(Senders(d)) <= 1
       /\ delivery[d].cursor # 0 => jobs[d] + Cardinality(Senders(d)) = 0

\* What the row, its task and its workers come to.  A pending row that no task and no
\* worker holds is lost: the tick only looks for retrying rows.
Outcome == [d \in Deliveries |->
  CASE delivery[d].status = "none" -> "absent"
    [] IsTerminal(d) -> delivery[d].status
    [] delivery[d].status = "pending" /\ jobs[d] = 0 /\ Senders(d) = {} -> "lost"
    [] OTHER -> "open"]
Attempts == [d \in Deliveries |-> delivery[d].attempt]
Sending == {d \in Deliveries : Senders(d) # {}}

\* However ticks overlap, workers die and enqueues fail, each numbered attempt of a
\* delivery is sent at most once, one at a time, and what came of the delivery stands:
\* Webhooks implements DeliveryPromise (the conditional claim of run_due_deliveries,
\* _record_attempt's write of a number it read before sending).
P == INSTANCE DeliveryPromise WITH
       outcome <- Outcome, attempts <- Attempts, sending <- Sending
KeepsPromise == P!Promised

\* A delivery that succeeded or died is never sent or rewritten again; only a
\* replay, a new row, sends its event once more.
TerminalIsFinal ==
  [][\A d \in Deliveries : IsTerminal(d) =>
       /\ delivery'[d] = delivery[d]
       /\ \A w \in Workers : ~(worker[w].pc = "idle" /\ worker'[w].d = d)]_vars

\* A ranking of the sites that falls wherever an event is passed on to a cascading
\* site.  There is none when cascading sites push to one another in a circle.
Ranks == {rank \in [Sites -> 0..Cardinality(Cascades)] :
            \A s \in Sites : Peer[s] \in Cascades => rank[Peer[s]] < rank[s]}

\* No event runs in a circle: whatever is retried, replayed, received twice or
\* dispatched while a tick runs, the chain it sets off from site to site is no longer
\* than the row of sites, from where it began, whose handlers opted out of the
\* suppression (signals.py, suppress_webhooks; pairing two sites is safe).
NoRunaway ==
  \A d \in Deliveries, rank \in Ranks :
    delivery[d].status # "none" => delivery[d].hops <= rank[delivery[d].root]

\* A delivery scheduled for a retry is retried: the tick finds it when due, and
\* whatever it had read before and lost, another tick claims it.
RetryComesRound ==
  \A d \in Deliveries :
    delivery[d].status = "retrying" ~> delivery[d].status # "retrying"

-----------------------------------------------------------------------------
(* What the documentation says and the code does not do *)

\* "A broker hiccup leaves the row PENDING for the tick to pick up"
\* (_enqueue_delivery); "deliveries are at-least-once" (docs/skills/webhooks.md).
PendingPickedUp ==
  \A d \in Deliveries :
    delivery[d].status = "pending" /\ jobs[d] = 0 /\ Senders(d) = {}
      ~> jobs[d] > 0 \/ Senders(d) # {}

\* "A self-originated event echoed back by a peer is dropped ... not
\* dispatched" (docs/skills/webhooks.md).
\* It does not hold; the README has the trace.
EchoDropped == \A r \in inbox : r.root # r.site

=============================================================================
