----------------------------- MODULE Newsletter -----------------------------
(***************************************************************************)
(* The send pipeline of apps/blog: issues of one newsletter, the Delivery    *)
(* ledger that queue_issue materialises, the newsletter ticks that drain it  *)
(* in batches, and the operator who cancels a send or retries its failures.  *)
(* Ticks run in autocommit: each statement is a step of its own, and what a  *)
(* tick or a request has loaded may be out of date when it is saved.         *)
(***************************************************************************)
EXTENDS Integers, FiniteSets

CONSTANTS
  Issues,
  Readers,       \* subscribers of the blog, whose deliveries an issue has
  Workers,       \* processes that run newsletter_send_tick or blog_send
  None,
  FromPost,      \* the issues made from one post; the others have none
  Batch,         \* SMALLSTACK_BLOG_SEND_BATCH_SIZE
  MaxBatches,    \* SMALLSTACK_BLOG_SEND_MAX_BATCHES
  MaxAttempts    \* SMALLSTACK_BLOG_SEND_MAX_ATTEMPTS

ASSUME NewsletterAssumption ==
  /\ None \notin Workers \cup Issues \cup Readers
  /\ FromPost \subseteq Issues
  /\ {Batch, MaxBatches, MaxAttempts} \subseteq Nat \ {0}

VARIABLES
  issue,      \* Issue.status
  delivery,   \* Delivery by <<issue, reader>>; claim stands for the claimed_at of a
              \* claimed row (no two claims share an instant), stale for one past its timeout
  confirmed,  \* the readers whose Subscription is confirmed
  worker,     \* the ticks under way
  canceling,  \* cancel requests that have loaded their issue
  retrying,   \* retry_failed between its two UPDATEs
  copies,     \* history: messages that left, 2 standing for more
  reaped,     \* history: deliveries with a claim that timed out
  unheard     \* history: deliveries accepted by the mail server, its answer lost

vars == <<issue, delivery, confirmed, worker, canceling, retrying, copies, reaped, unheard>>
requests == <<canceling, retrying>>
history == <<copies, reaped, unheard>>

Live == {"sending", "sent"}
Outstanding == {"pending", "claimed"}
Rows(i, status) == {r \in Readers : delivery[<<i, r>>].status \in status}

\* UniqueConstraint(post) where status in (queued, sending, sent): may i become s?
\* (No code sets QUEUED.)
Allowed(i, s) ==
  s \in Live /\ issue[i] \notin Live /\ i \in FromPost
    => \A j \in FromPost : issue[j] \notin Live

NoRow == [status |-> "none", attempts |-> 0, claim |-> None, stale |-> FALSE]
Idle == [pc |-> "idle", issue |-> None, open |-> FALSE, queue |-> {}, rows |-> {},
         todo |-> {}, reader |-> None, attempt |-> 0, outcome |-> "none", budget |-> 0]
\* A row that is no longer claimed: what is left of its timestamp is never read.
Now(row, status) == [row EXCEPT !.status = status, !.claim = None, !.stale = FALSE]
Goto(w, r) == worker' = [worker EXCEPT ![w] = r]

-----------------------------------------------------------------------------
(* The operator and the readers *)

\* A bound of the model: of the requests that take two steps, one is under way.
OneRequest == canceling \cup retrying = {}

\* queue_issue, one transaction: the audience is frozen as a ledger of rows.  The
\* suppressed readers, whom only this step leaves out, are left to chance.
Queue(i) ==
  /\ issue[i] = "draft" /\ Allowed(i, "sending")
  /\ \E audience \in SUBSET confirmed \ {{}} :
       delivery' = [d \in Issues \X Readers |->
                      IF d[1] = i /\ d[2] \in audience
                      THEN Now(NoRow, "pending") ELSE delivery[d]]
  /\ issue' = [issue EXCEPT ![i] = "sending"]
  /\ UNCHANGED <<confirmed, worker, requests, history>>

\* cancel_issue tests the status its request loaded ...
CancelRead(i) ==
  /\ issue[i] # "sent" /\ OneRequest
  /\ canceling' = canceling \cup {i}
  /\ UNCHANGED <<issue, delivery, confirmed, worker, retrying, history>>

\* ... and then, in one transaction, skips what has not been sent.
Cancel(i) ==
  /\ i \in canceling
  /\ canceling' = canceling \ {i}
  /\ issue' = [issue EXCEPT ![i] = "canceled"]
  /\ delivery' = [d \in Issues \X Readers |->
                    IF d[1] = i /\ delivery[d].status \in Outstanding
                    THEN Now(delivery[d], "skipped") ELSE delivery[d]]
  /\ UNCHANGED <<confirmed, worker, retrying, history>>

\* Mutant: every delivery that ended is queued again.
RetryFailedAll(i) ==
  LET again == {r \in Rows(i, {"failed", "sent"}) :
                  delivery[<<i, r>>].attempts < MaxAttempts} IN
  /\ again # {} /\ OneRequest
  /\ retrying' = retrying \cup {i}
  /\ delivery' = [d \in Issues \X Readers |->
                    IF d[1] = i /\ d[2] \in again
                    THEN Now(delivery[d], "pending") ELSE delivery[d]]
  /\ UNCHANGED <<issue, confirmed, worker, canceling, history>>

\* retry_failed: the failures that have attempts left are queued again ...
RetryFailed(i) ==
  LET again == {r \in Rows(i, {"failed"}) : delivery[<<i, r>>].attempts < MaxAttempts} IN
  /\ again # {} /\ OneRequest
  /\ retrying' = retrying \cup {i}
  /\ delivery' = [d \in Issues \X Readers |->
                    IF d[1] = i /\ d[2] \in again
                    THEN Now(delivery[d], "pending") ELSE delivery[d]]
  /\ UNCHANGED <<issue, confirmed, worker, canceling, history>>

\* ... and the issue is SENDING again, unless the process dies in between or the
\* post has another live campaign by now.
Resume(i) ==
  /\ i \in retrying
  /\ retrying' = retrying \ {i}
  /\ \/ Allowed(i, "sending") /\ issue' = [issue EXCEPT ![i] = "sending"]
     \/ UNCHANGED issue
  /\ UNCHANGED <<delivery, confirmed, worker, canceling, history>>

\* unsubscribe, and later a new subscription confirmed.
Leave(r) ==
  /\ r \in confirmed
  /\ confirmed' = confirmed \ {r}
  /\ UNCHANGED <<issue, delivery, worker, requests, history>>

Return(r) ==
  /\ r \notin confirmed
  /\ confirmed' = confirmed \cup {r}
  /\ UNCHANGED <<issue, delivery, worker, requests, history>>

-----------------------------------------------------------------------------
(* newsletter_send_tick: reap_stale_claims, then process_sending_issues *)

\* Mutant: a tick does not reap.
TickNoReap(w) ==
  /\ worker[w].pc = "idle"
  /\ Goto(w, [Idle EXCEPT !.pc = "issues"])
  /\ UNCHANGED <<issue, delivery, confirmed, requests, history>>

Tick(w) ==
  LET stale == {d \in Issues \X Readers :
                  delivery[d].status = "claimed" /\ delivery[d].stale} IN
  /\ worker[w].pc = "idle"
  /\ delivery' = [d \in Issues \X Readers |->
                    IF d \in stale
                    THEN Now(delivery[d], "pending") ELSE delivery[d]]
  /\ reaped' = reaped \cup stale
  /\ Goto(w, [Idle EXCEPT !.pc = "issues"])
  /\ UNCHANGED <<issue, confirmed, requests, copies, unheard>>

\* The claim timeout passes, of a dead worker's claim or of a slow one's.
GoesStale(d) ==
  /\ delivery[d].status = "claimed" /\ ~delivery[d].stale
  /\ delivery' = [delivery EXCEPT ![d].stale = TRUE]
  /\ UNCHANGED <<issue, confirmed, worker, requests, history>>

\* The next of the issues read, while the tick has batches left.  open is the status
\* the tick has in memory: SENDING, whatever the row says by now.
Take(w, queue, budget) ==
  IF queue = {} \/ budget = 0 THEN Goto(w, Idle)
  ELSE \E i \in queue :
         Goto(w, [Idle EXCEPT !.pc = "batch", !.issue = i, !.open = TRUE,
                              !.queue = queue \ {i}, !.budget = budget])

ReadIssues(w) ==
  /\ worker[w].pc = "issues"
  /\ Take(w, {i \in Issues : issue[i] = "sending"}, MaxBatches)
  /\ UNCHANGED <<issue, delivery, confirmed, requests, history>>

-----------------------------------------------------------------------------
(* send_issue_batch: _claim, then one message after the other *)

ReadPending(w) ==
  LET i == worker[w].issue
      pending == Rows(i, {"pending"}) IN
  /\ worker[w].pc = "batch"
  /\ \E rows \in SUBSET pending :
       /\ rows = pending \/ Cardinality(rows) = Batch
       /\ Cardinality(rows) <= Batch
       /\ Goto(w, [worker[w] EXCEPT !.pc = IF rows = {} THEN "finalize" ELSE "claim",
                                    !.rows = rows])
  /\ UNCHANGED <<issue, delivery, confirmed, requests, history>>

\* Mutant: the UPDATE does not ask for PENDING.
ClaimUnchecked(w) ==
  /\ worker[w].pc = "claim"
  /\ delivery' = [d \in Issues \X Readers |->
                    IF d[1] = worker[w].issue /\ d[2] \in worker[w].rows
                    THEN [delivery[d] EXCEPT !.status = "claimed", !.claim = w, !.stale = FALSE]
                    ELSE delivery[d]]
  /\ Goto(w, [worker[w] EXCEPT !.pc = "mine"])
  /\ UNCHANGED <<issue, confirmed, requests, history>>

\* The compare-and-swap: "the WHERE status='pending' inside the UPDATE is the lock".
Claim(w) ==
  /\ worker[w].pc = "claim"
  /\ delivery' = [d \in Issues \X Readers |->
                    IF /\ d[1] = worker[w].issue /\ d[2] \in worker[w].rows
                       /\ delivery[d].status = "pending"
                    THEN [delivery[d] EXCEPT !.status = "claimed", !.claim = w, !.stale = FALSE]
                    ELSE delivery[d]]
  /\ Goto(w, [worker[w] EXCEPT !.pc = "mine"])
  /\ UNCHANGED <<issue, confirmed, requests, history>>

\* The rows with this claim's timestamp are loaded, once for the whole batch.
ReadClaimed(w) ==
  LET i == worker[w].issue
      mine == {r \in worker[w].rows :
                 delivery[<<i, r>>].status = "claimed" /\ delivery[<<i, r>>].claim = w} IN
  /\ worker[w].pc = "mine"
  /\ Goto(w, [worker[w] EXCEPT
                !.pc = IF mine = {} THEN "finalize" ELSE "next", !.rows = mine,
                !.todo = {[reader |-> r, attempts |-> delivery[<<i, r>>].attempts] : r \in mine}])
  /\ UNCHANGED <<issue, delivery, confirmed, requests, history>>

\* _send_one begins with the subscription: a reader who left is skipped.
Check(w) ==
  \E row \in worker[w].todo :
    LET d == <<worker[w].issue, row.reader>>
        todo == worker[w].todo \ {row} IN
    /\ worker[w].pc = "next"
    /\ IF row.reader \in confirmed
       THEN /\ Goto(w, [worker[w] EXCEPT !.pc = "send", !.todo = todo, !.reader = row.reader,
                                         !.attempt = row.attempts + 1])
            /\ UNCHANGED delivery
       ELSE /\ delivery' = [delivery EXCEPT ![d] = Now(@, "skipped")]
            /\ Goto(w, [worker[w] EXCEPT !.todo = todo])
    /\ UNCHANGED <<issue, confirmed, requests, history>>

\* message.send(): accepted; refused for good (hard) or for now (soft); or accepted
\* with the answer lost, which is soft too.
Send(w) ==
  LET d == <<worker[w].issue, worker[w].reader>> IN
  /\ worker[w].pc = "send"
  /\ \E outcome \in {"sent", "hard", "soft"}, left \in BOOLEAN :
       /\ outcome = "sent" => left
       /\ outcome = "hard" => ~left
       /\ Goto(w, [worker[w] EXCEPT !.pc = "record", !.outcome = outcome])
       /\ copies' = IF left /\ copies[d] < 2 THEN [copies EXCEPT ![d] = @ + 1] ELSE copies
       /\ unheard' = IF left /\ outcome = "soft" THEN unheard \cup {d} ELSE unheard
  /\ UNCHANGED <<issue, delivery, confirmed, requests, reaped>>

\* The outcome is saved over whatever the row says by now.
Record(w) ==
  LET d == <<worker[w].issue, worker[w].reader>>
      again == worker[w].outcome = "soft" /\ worker[w].attempt < MaxAttempts
      status == IF worker[w].outcome = "sent" THEN "sent"
                ELSE IF again THEN "pending" ELSE "failed" IN
  /\ worker[w].pc = "record"
  /\ delivery' = [delivery EXCEPT
       ![d] = [Now(@, status) EXCEPT !.attempts = worker[w].attempt]]
  /\ Goto(w, [worker[w] EXCEPT !.pc = "next", !.reader = None, !.attempt = 0,
                               !.outcome = "none"])
  /\ UNCHANGED <<issue, confirmed, requests, history>>

-----------------------------------------------------------------------------
(* finalize_issue *)

\* After a batch comes the next one of the same issue, while batches are left; one
\* that claimed nothing ends the issue.
Onward(w, open) ==
  LET budget == worker[w].budget - 1 IN
  IF worker[w].rows = {} THEN Take(w, worker[w].queue, budget)
  ELSE IF budget = 0 THEN Goto(w, Idle)
  ELSE Goto(w, [worker[w] EXCEPT !.pc = "batch", !.open = open, !.rows = {},
                                 !.budget = budget])

Finished(w) == worker[w].pc = "next" /\ worker[w].todo = {}

InFlight(i) == Rows(i, Outstanding) # {}

\* The tick looks whether anything is left in flight ...
Finalize(w) ==
  /\ worker[w].pc = "finalize" \/ Finished(w)
  /\ IF worker[w].open /\ ~InFlight(worker[w].issue)
     THEN Goto(w, [worker[w] EXCEPT !.pc = "close"])
     ELSE Onward(w, worker[w].open)
  /\ UNCHANGED <<issue, delivery, confirmed, requests, history>>

\* ... and saves the verdict over the status, which raises when the post's other
\* campaign is live by now: then the tick is over.
Close(w) ==
  LET i == worker[w].issue
      sent == Rows(i, {"sent"})
      attempted == Rows(i, {"sent", "failed", "pending", "claimed"})
      verdict == IF attempted # {} /\ sent = {} THEN "failed" ELSE "sent" IN
  /\ worker[w].pc = "close"
  /\ IF Allowed(i, verdict)
     THEN issue' = [issue EXCEPT ![i] = verdict] /\ Onward(w, FALSE)
     ELSE UNCHANGED issue /\ Goto(w, Idle)
  /\ UNCHANGED <<delivery, confirmed, requests, history>>

\* The worker dies, or a statement raises, which ends the tick's task.
Crash(w) ==
  /\ worker[w].pc \notin {"idle", "dead"}
  /\ Goto(w, [Idle EXCEPT !.pc = "dead"])
  /\ UNCHANGED <<issue, delivery, confirmed, requests, history>>

\* Another worker of the email queue comes, or the next tick falls due.
Restart(w) ==
  /\ worker[w].pc = "dead"
  /\ Goto(w, Idle)
  /\ UNCHANGED <<issue, delivery, confirmed, requests, history>>

-----------------------------------------------------------------------------
Init ==
  /\ issue = [i \in Issues |-> "draft"]
  /\ delivery = [d \in Issues \X Readers |-> NoRow]
  /\ confirmed = Readers
  /\ worker = [w \in Workers |-> Idle]
  /\ canceling = {} /\ retrying = {}
  /\ copies = [d \in Issues \X Readers |-> 0] /\ reaped = {} /\ unheard = {}

Operator(i) == Queue(i) \/ CancelRead(i) \/ Cancel(i) \/ RetryFailed(i) \/ Resume(i)

WorkerStep(w) ==
  \/ Tick(w) \/ ReadIssues(w) \/ ReadPending(w) \/ Claim(w) \/ ReadClaimed(w)
  \/ Check(w) \/ Send(w) \/ Record(w) \/ Finalize(w) \/ Close(w)

Next ==
  \/ \E i \in Issues : Operator(i)
  \/ \E r \in Readers : Leave(r) \/ Return(r)
  \/ \E w \in Workers : WorkerStep(w) \/ Crash(w) \/ Restart(w)
  \/ \E d \in Issues \X Readers : GoesStale(d)

Spec == Init /\ [][Next]_vars

Abandoned(d) == worker[delivery[d].claim].pc \in {"idle", "dead", "issues"}

\* The scheduler keeps ticking, a tick goes on with what it began and claims age.
\* From some time on no worker dies and a batch ends within its claim timeout.
Fairness ==
  /\ \A w \in Workers : WF_vars(WorkerStep(w))
  /\ \A d \in Issues \X Readers : WF_vars(GoesStale(d))
  /\ <>[](\A w \in Workers : worker[w].pc # "dead")
  /\ <>[][\A d \in Issues \X Readers : GoesStale(d) => Abandoned(d)]_vars

FairSpec == Spec /\ Fairness

-----------------------------------------------------------------------------
(* Properties *)

\* The type of the state, and: a claimed row has its timestamp, and no attempt is
\* counted past the budget.
TypeOK ==
  /\ issue \in [Issues -> {"draft", "sending", "sent", "failed", "canceled"}]
  /\ delivery \in [Issues \X Readers ->
       [status : {"none", "pending", "claimed", "sent", "failed", "skipped"},
        attempts : 0..MaxAttempts, claim : Workers \cup {None}, stale : BOOLEAN]]
  /\ \A d \in Issues \X Readers : (delivery[d].status = "claimed") = (delivery[d].claim # None)
  /\ confirmed \subseteq Readers /\ canceling \subseteq Issues /\ retrying \subseteq Issues
  /\ \A w \in Workers : worker[w].attempt \in 0..MaxAttempts
  /\ copies \in [Issues \X Readers -> 0..2] /\ reaped \cup unheard \subseteq Issues \X Readers

\* No reader gets a second copy of an issue, whatever ticks overlap, crash or meet a
\* cancel and a retry, unless a claim on the delivery timed out or the mail server's
\* answer to the first copy was lost.
SecondCopyExplained ==
  /\ TypeOK
  /\ \A d \in Issues \X Readers : copies[d] > 1 => d \in reaped \cup unheard

\* "sent is terminal": nothing reopens a delivery that was sent, cancel and retry
\* included, unless a claim on it had timed out and two batches held it.
SentIsTerminal ==
  [][\A d \in Issues \X Readers :
       delivery[d].status = "sent" /\ d \notin reaped => delivery'[d].status = "sent"]_vars

\* A send comes to an end: the deliveries of a batch that died are found again, a
\* failure is retried within its budget, and the issue is finalized.
IssueFinalized ==
  \A i \in Issues : issue[i] = "sending" ~> issue[i] # "sending"

-----------------------------------------------------------------------------
(* What the documentation says and the code does not do *)

\* "Stop a send. Already-sent copies cannot be recalled; this only stops the rest"
\* (cancel_issue), and "cancelling must stop further delivery" (its test): no message
\* of a canceled issue is begun.
\* It does not hold; the README has the trace.
CancelStopsTheRest ==
  [][\A w \in Workers :
       worker[w].pc = "next" /\ worker'[w].pc = "send"
       => issue[worker[w].issue] # "canceled"]_vars

=============================================================================
