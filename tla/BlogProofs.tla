----------------------------- MODULE BlogProofs -----------------------------
(***************************************************************************)
(* Theorems about the two models of apps/blog, for any issues, readers,      *)
(* posts, processes, batch sizes, limits and budgets.                        *)
(*                                                                           *)
(* Newsletter: a delivery no claim on which has timed out is held by one     *)
(* worker at most, the one whose claim the row carries, until it is          *)
(* recorded.                                                                 *)
(*                                                                           *)
(* Posts: a row whose html is not its text's has a form that will mend it,   *)
(* and whose second save nothing will refuse; a resync pending for a manual  *)
(* post is one its history knows of; what a tick holds was due when it read  *)
(* it.  From that a step is either of a process whose copy of the row is     *)
(* stale, or does to the row what its author, the page or the hour asked.    *)
(***************************************************************************)
EXTENDS Newsletter, Posts, FiniteSetTheorems, WellFoundedInduction, TLAPS

-----------------------------------------------------------------------------
(* The send pipeline *)

Deliveries == Issues \X Readers
RowType == [status : {"none", "pending", "claimed", "sent", "failed", "skipped"},
            attempts : 0..MaxAttempts, claim : Workers \cup {None}, stale : BOOLEAN]
Batching == {"batch", "claim", "mine", "next", "send", "record", "finalize", "close"}
Job == [pc : {"idle", "dead", "issues"} \cup Batching, issue : Issues \cup {None},
        open : BOOLEAN, queue : SUBSET Issues, rows : SUBSET Readers,
        todo : SUBSET [reader : Readers, attempts : 0..(MaxAttempts - 1)],
        reader : Readers \cup {None}, attempt : 0..MaxAttempts,
        outcome : {"none", "sent", "hard", "soft"}, budget : Int]

\* The issues that were queued: no other has rows, nor a worker.
Begun == {i \in Issues : issue[i] # "draft"}

\* A claimed row has its timestamp, and one that is to be attempted has attempts left.
RowOK(x) ==
  /\ x \in RowType
  /\ (x.status = "claimed") <=> (x.claim # None)
  /\ x.status \in Outstanding => x.attempts < MaxAttempts

\* The batch of a worker: the rows it has still to do are one per reader, and the one it
\* is doing is none of them.
Fit(s, begun) ==
  /\ s \in Job
  /\ s.queue \subseteq begun
  /\ s.pc \in Batching => s.issue \in begun
  /\ s.pc \in {"send", "record"} =>
       s.reader \in Readers /\ \A a \in s.todo : a.reader # s.reader
  /\ \A a, b \in s.todo : a.reader = b.reader => a = b

LedgerTyped ==
  /\ issue \in [Issues -> {"draft", "sending", "sent", "failed", "canceled"}]
  /\ delivery \in [Deliveries -> RowType]
  /\ \A d \in Deliveries : RowOK(delivery[d]) /\ (delivery[d].status # "none" => d[1] \in Begun)
  /\ confirmed \subseteq Readers /\ canceling \subseteq Issues /\ retrying \subseteq Issues
  /\ worker \in [Workers -> Job]
  /\ \A w \in Workers : Fit(worker[w], Begun)
  /\ copies \in [Deliveries -> 0..2] /\ reaped \cup unheard \subseteq Deliveries

\* What a worker is about to claim it has not claimed.
NotYet ==
  \A w \in Workers, r \in Readers :
    worker[w].pc = "claim" /\ r \in worker[w].rows
      => delivery[<<worker[w].issue, r>>].claim # w

\* The deliveries a worker has loaded and not recorded; the one whose message it knows to
\* have left; the ones it is about to load.
Has(s, d) ==
  /\ s.pc \in {"next", "send", "record"} /\ s.issue = d[1]
  /\ \/ \E a \in s.todo : a.reader = d[2]
     \/ s.pc # "next" /\ s.reader = d[2]
Delivered(s, d) == s.pc = "record" /\ s.reader = d[2] /\ s.outcome = "sent"
Fetches(s, d) == s.pc = "mine" /\ s.issue = d[1] /\ d[2] \in s.rows

HeldBy(d) ==
  \A w \in Workers : Has(worker[w], d) =>
    \/ delivery[d].status = "skipped"
    \/ delivery[d].status = "claimed" /\ delivery[d].claim = w
HeldOnce(d) == \A w, v \in Workers : Has(worker[w], d) /\ Has(worker[v], d) => w = v

\* A delivery whose message left is not sent again: it is recorded, or given up on by a
\* cancel or a worker's death, or its worker knows.
CopyOnce(d) ==
  /\ copies[d] <= 1
  /\ copies[d] > 0 =>
       /\ delivery[d].status \in {"sent", "claimed", "skipped"}
       /\ \A w \in Workers : Fetches(worker[w], d) => delivery[d].claim # w
       /\ \A w \in Workers : Has(worker[w], d) => Delivered(worker[w], d)
Sound(d) == HeldBy(d) /\ HeldOnce(d) /\ (d \notin unheard => CopyOnce(d))
Ledger == \A d \in Deliveries \ reaped : Sound(d)

LedgerInv == LedgerTyped /\ NotYet /\ Ledger
-----------------------------------------------------------------------------
(* Rows and records *)

LEMMA Pairs ==
  /\ \A d \in Deliveries : d[1] \in Issues /\ d[2] \in Readers /\ d = <<d[1], d[2]>>
  /\ \A i \in Issues, r \in Readers :
       <<i, r>> \in Deliveries /\ <<i, r>>[1] = i /\ <<i, r>>[2] = r
BY DEF Deliveries

LEMMA NowIs ==
  ASSUME NEW x \in RowType, NEW status \in {"none", "pending", "sent", "failed", "skipped"},
         status = "pending" => x.attempts < MaxAttempts
  PROVE  /\ Now(x, status) \in RowType /\ RowOK(Now(x, status))
         /\ Now(x, status).status = status /\ Now(x, status).claim = None
         /\ Now(x, status).attempts = x.attempts
BY DEF RowType, RowOK, Now, Outstanding

LEMMA NoRowIs == NoRow \in RowType /\ RowOK(NoRow) /\ NoRow.attempts = 0 /\ NoRow.status = "none"
BY NewsletterAssumption DEF NoRow, RowType, RowOK, Outstanding

LEMMA StillFit ==
  ASSUME NEW s, NEW X, NEW Y, X \subseteq Y, Fit(s, X)
  PROVE  Fit(s, Y)
BY DEF Fit

LEMMA IdleFit ==
  ASSUME NEW X, NEW pc \in {"idle", "dead", "issues"}
  PROVE  /\ Fit([Idle EXCEPT !.pc = pc], X) /\ [Idle EXCEPT !.pc = pc].pc = pc
         /\ Fit(Idle, X) /\ Idle.pc = "idle"
<1>1. 0 \in 0..MaxAttempts  BY NewsletterAssumption
<1>2. Idle \in Job /\ Idle.pc = "idle" /\ Idle.queue = {} /\ Idle.todo = {}
  BY <1>1 DEF Idle, Job
<1> DEFINE s == [Idle EXCEPT !.pc = pc]
<1>3. s \in Job /\ s.pc = pc /\ s.queue = {} /\ s.todo = {}
  BY <1>2 DEF Job, Idle
<1> HIDE DEF s
<1>4. Fit(s, X)  BY <1>3 DEF Fit, Batching
<1>5. Fit(Idle, X)  BY <1>2 DEF Fit, Batching
<1>. QED  BY <1>2, <1>3, <1>4, <1>5 DEF s

\* A tick that takes an issue, or the next batch of its own, holds nothing.
LEMMA TakeIs ==
  ASSUME NEW w, NEW X \in SUBSET Issues, NEW some \in SUBSET X, NEW budget \in Int,
         Take(w, some, budget)
  PROVE  \E s : Goto(w, s) /\ Fit(s, X) /\ s.pc \in {"idle", "batch"}
<1>1. CASE Goto(w, Idle)
  <2>1. "idle" \in {"idle", "dead", "issues"}  OBVIOUS
  <2>2. Fit(Idle, X) /\ Idle.pc = "idle"  BY <2>1, IdleFit
  <2>. QED  BY <1>1, <2>2
<1>2. CASE ~Goto(w, Idle)
  <2>1. PICK i \in some :
          Goto(w, [Idle EXCEPT !.pc = "batch", !.issue = i, !.open = TRUE,
                               !.queue = some \ {i}, !.budget = budget])
    BY <1>2 DEF Take
  <2> DEFINE s == [Idle EXCEPT !.pc = "batch", !.issue = i, !.open = TRUE,
                               !.queue = some \ {i}, !.budget = budget]
  <2>2. 0 \in 0..MaxAttempts  BY NewsletterAssumption
  <2>3. s \in Job /\ s.pc = "batch" /\ s.issue = i /\ s.queue \subseteq X /\ s.todo = {}
    BY <2>2 DEF Idle, Job, Batching
  <2>4. Goto(w, s)  BY <2>1
  <2> HIDE DEF s
  <2>5. Fit(s, X)  BY <2>3 DEF Fit, Batching
  <2>. QED  BY <2>3, <2>4, <2>5
<1>. QED  BY <1>1, <1>2

LEMMA OnwardIs ==
  ASSUME LedgerTyped, NEW w \in Workers, worker[w].pc \in Batching, NEW open \in BOOLEAN,
         Onward(w, open)
  PROVE  \E s : Goto(w, s) /\ Fit(s, Begun) /\ s.pc \in {"idle", "batch"}
<1>1. PICK x \in Job : x = worker[w] /\ Fit(x, Begun)  BY DEF LedgerTyped
<1>2. Begun \subseteq Issues /\ x.queue \subseteq Begun /\ x.budget - 1 \in Int
  BY <1>1 DEF Begun, Fit, Job
<1>3. CASE worker[w].rows = {}
  <2>1. Take(w, x.queue, x.budget - 1)  BY <1>1, <1>3 DEF Onward
  <2>. QED  BY <1>2, <2>1, TakeIs
<1>4. CASE worker[w].rows # {} /\ x.budget - 1 = 0
  <2>1. Goto(w, Idle)  BY <1>1, <1>4 DEF Onward
  <2>2. "idle" \in {"idle", "dead", "issues"}  OBVIOUS
  <2>3. Fit(Idle, Begun) /\ Idle.pc = "idle"  BY <2>2, IdleFit
  <2>. QED  BY <2>1, <2>3
<1>5. CASE worker[w].rows # {} /\ x.budget - 1 # 0
  <2> DEFINE s == [x EXCEPT !.pc = "batch", !.open = open, !.rows = {},
                            !.budget = x.budget - 1]
  <2>1. Goto(w, s)  BY <1>1, <1>5 DEF Onward
  <2>2. /\ s \in Job /\ s.pc = "batch" /\ s.issue = x.issue /\ s.queue = x.queue
        /\ s.todo = x.todo
    BY <1>2 DEF Job, Batching
  <2> HIDE DEF s
  <2>3. Fit(s, Begun)  BY <1>1, <2>2 DEF Fit, Batching
  <2>. QED  BY <2>1, <2>2, <2>3
<1>. QED  BY <1>3, <1>4, <1>5
-----------------------------------------------------------------------------
(* What keeps the ledger of one delivery *)

\* The workers stay where they are and the row is left alone, or is one that nobody holds
\* and of which no copy left, or a claimed one that is given up.
LEMMA RowKeeps ==
  ASSUME LedgerTyped, NEW d \in Deliveries, Sound(d), UNCHANGED <<worker, copies, unheard>>,
         \/ delivery'[d].status = delivery[d].status /\ delivery'[d].claim = delivery[d].claim
         \/ delivery[d].status \in {"none", "failed", "pending"}
         \/ /\ delivery[d].status = "claimed"
            /\ delivery'[d].status = "skipped" /\ delivery'[d].claim = None
  PROVE  Sound(d)'
<1>1. CASE /\ delivery'[d].status = delivery[d].status
           /\ delivery'[d].claim = delivery[d].claim
  BY <1>1 DEF Sound, HeldBy, HeldOnce, CopyOnce
<1>2. CASE delivery[d].status \in {"none", "failed", "pending"}
  <2>1. \A w \in Workers : ~Has(worker[w], d)  BY <1>2 DEF Sound, HeldBy
  <2>2. d \notin unheard => copies[d] <= 1 /\ ~(copies[d] > 0)
    BY <1>2 DEF Sound, CopyOnce
  <2>. QED  BY <2>1, <2>2 DEF Sound, HeldBy, HeldOnce, CopyOnce
<1>3. CASE /\ delivery[d].status = "claimed"
           /\ delivery'[d].status = "skipped" /\ delivery'[d].claim = None
  <2>1. \A w \in Workers : None # w  BY NewsletterAssumption
  <2>. QED  BY <1>3, <2>1 DEF Sound, HeldBy, HeldOnce, CopyOnce
<1>. QED  BY <1>1, <1>2, <1>3

\* A worker moves and comes to hold or to load no more than it did.
LEMMA MoveKeeps ==
  ASSUME LedgerTyped, NEW d \in Deliveries, Sound(d), NEW w \in Workers, NEW s, Goto(w, s),
         delivery'[d] = delivery[d], copies'[d] = copies[d], unheard \subseteq unheard',
         Has(s, d) => /\ Has(worker[w], d)
                      /\ Delivered(worker[w], d) => Delivered(s, d),
         Fetches(s, d) => Fetches(worker[w], d)
  PROVE  Sound(d)'
<1>1. worker'[w] = s /\ \A v \in Workers : v # w => worker'[v] = worker[v]
  BY DEF Goto, LedgerTyped
<1>2. HeldBy(d)'  BY <1>1 DEF Sound, HeldBy
<1>3. HeldOnce(d)'  BY <1>1 DEF Sound, HeldOnce
<1>4. d \notin unheard' => CopyOnce(d)'
  <2> SUFFICES ASSUME d \notin unheard' PROVE CopyOnce(d)'  OBVIOUS
  <2>1. CopyOnce(d)  BY DEF Sound
  <2>2. ASSUME NEW v \in Workers, copies[d] > 0
        PROVE  /\ Fetches(worker'[v], d) => delivery[d].claim # v
               /\ Has(worker'[v], d) => Delivered(worker'[v], d)
    BY <1>1, <2>1, <2>2 DEF CopyOnce
  <2>. QED  BY <2>1, <2>2 DEF CopyOnce
<1>. QED  BY <1>2, <1>3, <1>4 DEF Sound

\* A worker that is between batches holds nothing and loads nothing.
LEMMA Rests ==
  ASSUME NEW s, NEW d, s.pc \notin {"mine", "next", "send", "record"}
  PROVE  ~Has(s, d) /\ ~Fetches(s, d)
BY DEF Has, Fetches

LEMMA WorkersKeep ==
  ASSUME LedgerTyped, NEW w \in Workers, NEW s, Goto(w, s), Begun \subseteq Begun', Fit(s, Begun')
  PROVE  /\ worker' \in [Workers -> Job] /\ \A v \in Workers : Fit(worker'[v], Begun')
         /\ worker'[w] = s /\ \A v \in Workers : v # w => worker'[v] = worker[v]
<1>1. worker'[w] = s /\ \A v \in Workers : v # w => worker'[v] = worker[v]
  BY DEF Goto, LedgerTyped
<1>2. s \in Job  BY DEF Fit
<1>3. worker' \in [Workers -> Job]  BY <1>2 DEF Goto, LedgerTyped
<1>4. \A v \in Workers : Fit(worker'[v], Begun')
  BY <1>1, StillFit DEF LedgerTyped
<1>. QED  BY <1>1, <1>3, <1>4
-----------------------------------------------------------------------------
(* The operator, the readers and time: no worker moves *)

Statuses == {"draft", "sending", "sent", "failed", "canceled"}

\* What such a step may make of a row.
RowStep(x, y) ==
  /\ y.claim \in {None, x.claim}
  /\ \/ y.status = x.status /\ y.claim = x.claim
     \/ x.status \in {"none", "failed", "pending"}
     \/ x.status = "claimed" /\ y.status = "skipped" /\ y.claim = None

LEMMA RowsStep ==
  ASSUME LedgerInv, UNCHANGED <<worker, copies, reaped, unheard>>, Begun \subseteq Begun',
         issue' \in [Issues -> Statuses], confirmed' \subseteq Readers,
         canceling' \subseteq Issues, retrying' \subseteq Issues,
         delivery' \in [Deliveries -> RowType],
         \A d \in Deliveries : \/ delivery'[d] = delivery[d]
                               \/ /\ RowOK(delivery'[d]) /\ d[1] \in Begun'
                                  /\ RowStep(delivery[d], delivery'[d])
  PROVE  LedgerInv'
<1>1. \A d \in Deliveries : RowOK(delivery'[d])
                            /\ (delivery'[d].status # "none" => d[1] \in Begun')
  BY DEF LedgerInv, LedgerTyped
<1>2. \A w \in Workers : Fit(worker'[w], Begun')  BY StillFit DEF LedgerInv, LedgerTyped
<1>3. LedgerTyped'  BY <1>1, <1>2 DEF LedgerInv, LedgerTyped, Statuses
<1>4. NotYet'
  <2> SUFFICES ASSUME NEW w \in Workers, NEW r \in Readers, worker[w].pc = "claim",
                      r \in worker[w].rows
               PROVE  delivery'[<<worker[w].issue, r>>].claim # w
    BY DEF NotYet
  <2>1. worker[w].issue \in Issues  BY DEF LedgerInv, LedgerTyped, Fit, Batching, Begun
  <2>2. <<worker[w].issue, r>> \in Deliveries  BY <2>1 DEF Deliveries
  <2>3. delivery[<<worker[w].issue, r>>].claim # w  BY DEF LedgerInv, NotYet
  <2>. QED  BY <2>2, <2>3, NewsletterAssumption DEF RowStep
<1>5. Ledger'
  <2> SUFFICES ASSUME NEW d \in Deliveries \ reaped PROVE Sound(d)'  BY DEF Ledger
  <2>. QED  BY RowKeeps DEF LedgerInv, Ledger, RowStep
<1>. QED  BY <1>3, <1>4, <1>5 DEF LedgerInv

LEMMA QueueKeeps == ASSUME LedgerInv, NEW i \in Issues, Queue(i) PROVE LedgerInv'
<1>1. PICK audience \in SUBSET confirmed :
        delivery' = [d \in Deliveries |->
                       IF d[1] = i /\ d[2] \in audience
                       THEN Now(NoRow, "pending") ELSE delivery[d]]
  BY DEF Queue, Deliveries
<1>2. /\ issue' = [issue EXCEPT ![i] = "sending"] /\ issue[i] = "draft"
      /\ UNCHANGED <<confirmed, worker, canceling, retrying, copies, reaped, unheard>>
  BY DEF Queue, requests, history
<1>3. issue' \in [Issues -> Statuses] /\ Begun \subseteq Begun' /\ i \in Begun' /\ i \notin Begun
  BY <1>2 DEF LedgerInv, LedgerTyped, Statuses, Begun
<1> DEFINE y == Now(NoRow, "pending")
<1>4. y \in RowType /\ RowOK(y) /\ y.claim = None
  <2>1. NoRow.attempts < MaxAttempts  BY NoRowIs, NewsletterAssumption
  <2>. QED  BY <2>1, NoRowIs, NowIs
<1> HIDE DEF y
<1>5. delivery' \in [Deliveries -> RowType]
  BY <1>1, <1>4 DEF LedgerInv, LedgerTyped, y
<1>6. \A d \in Deliveries : delivery'[d] = delivery[d] \/ (delivery'[d] = y /\ d[1] = i)
  BY <1>1 DEF y
<1>7. \A d \in Deliveries : d[1] = i => delivery[d].status = "none"
  BY <1>3 DEF LedgerInv, LedgerTyped
<1>. QED
  BY <1>2, <1>3, <1>4, <1>5, <1>6, <1>7, RowsStep DEF LedgerInv, LedgerTyped, RowStep

LEMMA CancelKeeps == ASSUME LedgerInv, NEW i \in Issues, Cancel(i) PROVE LedgerInv'
<1>1. delivery' = [d \in Deliveries |->
                     IF d[1] = i /\ delivery[d].status \in Outstanding
                     THEN Now(delivery[d], "skipped") ELSE delivery[d]]
  BY DEF Cancel, Deliveries
<1>2. /\ issue' = [issue EXCEPT ![i] = "canceled"] /\ canceling' \subseteq canceling
      /\ UNCHANGED <<confirmed, worker, retrying, copies, reaped, unheard>>
  BY DEF Cancel, history
<1>3. issue' \in [Issues -> Statuses] /\ Begun \subseteq Begun' /\ i \in Begun'
  BY <1>2 DEF LedgerInv, LedgerTyped, Statuses, Begun
<1>4. \A d \in Deliveries : LET y == Now(delivery[d], "skipped") IN
        y \in RowType /\ RowOK(y) /\ y.claim = None /\ y.status = "skipped"
  BY NowIs DEF LedgerInv, LedgerTyped
<1>5. delivery' \in [Deliveries -> RowType]
  BY <1>1, <1>4 DEF LedgerInv, LedgerTyped
<1>6. \A d \in Deliveries :
        \/ delivery'[d] = delivery[d]
        \/ /\ delivery'[d] = Now(delivery[d], "skipped") /\ d[1] = i
           /\ delivery[d].status \in {"pending", "claimed"}
  BY <1>1 DEF Outstanding
<1>7. \A d \in Deliveries :
        \/ delivery'[d] = delivery[d]
        \/ /\ RowOK(delivery'[d]) /\ d[1] \in Begun' /\ RowStep(delivery[d], delivery'[d])
  BY <1>3, <1>4, <1>6 DEF RowStep
<1>. QED
  BY <1>2, <1>3, <1>5, <1>7, RowsStep DEF LedgerInv, LedgerTyped

LEMMA RetryKeeps == ASSUME LedgerInv, NEW i \in Issues, RetryFailed(i) PROVE LedgerInv'
<1> DEFINE again == {r \in Rows(i, {"failed"}) : delivery[<<i, r>>].attempts < MaxAttempts}
<1>1. /\ delivery' = [d \in Deliveries |->
                        IF d[1] = i /\ d[2] \in again
                        THEN Now(delivery[d], "pending") ELSE delivery[d]]
      /\ retrying' = retrying \cup {i}
      /\ UNCHANGED <<issue, confirmed, worker, canceling, copies, reaped, unheard>>
  BY DEF RetryFailed, Deliveries, history
<1>2. \A d \in Deliveries : d[1] = i /\ d[2] \in again =>
        delivery[d].status = "failed" /\ delivery[d].attempts < MaxAttempts
  BY Pairs DEF Rows
<1>3. \A d \in Deliveries : d[1] = i /\ d[2] \in again =>
        LET y == Now(delivery[d], "pending") IN y \in RowType /\ RowOK(y) /\ y.claim = None
  BY <1>2, NowIs DEF LedgerInv, LedgerTyped
<1> HIDE DEF again
<1>4. delivery' \in [Deliveries -> RowType]
  BY <1>1, <1>3 DEF LedgerInv, LedgerTyped
<1>5. \A d \in Deliveries : delivery[d].status = "failed" => d[1] \in Begun
  BY DEF LedgerInv, LedgerTyped
<1>6. \A d \in Deliveries :
        \/ delivery'[d] = delivery[d]
        \/ RowOK(delivery'[d]) /\ d[1] \in Begun /\ RowStep(delivery[d], delivery'[d])
  BY <1>1, <1>2, <1>3, <1>5 DEF RowStep
<1>7. UNCHANGED Begun  BY <1>1 DEF Begun
<1>. QED
  BY <1>1, <1>4, <1>6, <1>7, RowsStep DEF LedgerInv, LedgerTyped, Statuses

LEMMA StaleKeeps == ASSUME LedgerInv, NEW d \in Deliveries, GoesStale(d) PROVE LedgerInv'
<1>1. PICK x \in RowType : x = delivery[d] /\ RowOK(x) /\ x.status = "claimed" /\ d[1] \in Begun
  BY DEF LedgerInv, LedgerTyped, GoesStale
<1> DEFINE y == [x EXCEPT !.stale = TRUE]
<1>2. delivery' = [delivery EXCEPT ![d] = y]  BY <1>1 DEF GoesStale
<1>3. y \in RowType /\ RowOK(y) /\ y.status = x.status /\ y.claim = x.claim
  BY <1>1 DEF RowType, RowOK
<1> HIDE DEF y
<1>4. UNCHANGED <<issue, Begun, confirmed, worker, canceling, retrying, copies, reaped, unheard>>
  BY DEF GoesStale, Begun, requests, history
<1>5. /\ delivery' \in [Deliveries -> RowType] /\ delivery'[d] = y
      /\ \A e \in Deliveries : e # d => delivery'[e] = delivery[e]
  BY <1>2, <1>3 DEF LedgerInv, LedgerTyped
<1>6. \A e \in Deliveries :
        \/ delivery'[e] = delivery[e]
        \/ RowOK(delivery'[e]) /\ e[1] \in Begun /\ RowStep(delivery[e], delivery'[e])
  BY <1>1, <1>3, <1>5 DEF RowStep
<1>. QED
  BY <1>4, <1>5, <1>6, RowsStep DEF LedgerInv, LedgerTyped, Statuses

\* A request is read, an issue made SENDING again, a reader leaves or returns.
LEMMA OthersKeep ==
  ASSUME LedgerInv,
         \/ \E i \in Issues : CancelRead(i) \/ Resume(i)
         \/ \E r \in Readers : Leave(r) \/ Return(r)
         \/ UNCHANGED vars
  PROVE  LedgerInv'
<1>1. UNCHANGED <<delivery, worker, copies, reaped, unheard>>
  BY DEF CancelRead, Resume, Leave, Return, vars, history
<1>2. UNCHANGED issue \/ \E i \in Issues : issue' = [issue EXCEPT ![i] = "sending"]
  BY DEF CancelRead, Resume, Leave, Return, vars
<1>3. issue' \in [Issues -> Statuses] /\ Begun \subseteq Begun'
  BY <1>2 DEF LedgerInv, LedgerTyped, Statuses, Begun
<1>4. confirmed' \subseteq Readers /\ canceling' \subseteq Issues /\ retrying' \subseteq Issues
  BY DEF CancelRead, Resume, Leave, Return, vars, requests, LedgerInv, LedgerTyped
<1>. QED  BY <1>1, <1>3, <1>4, RowsStep DEF LedgerInv, LedgerTyped
-----------------------------------------------------------------------------
(* The workers *)

\* What a worker's step leaves typed, when it claims for itself only.
LEMMA MoveTyped ==
  ASSUME LedgerInv, NEW w \in Workers, NEW s, Goto(w, s), Begun \subseteq Begun',
         Fit(s, Begun'), issue' \in [Issues -> Statuses], UNCHANGED <<confirmed, requests>>,
         delivery' \in [Deliveries -> RowType],
         \A d \in Deliveries : \/ delivery'[d] = delivery[d]
                               \/ /\ RowOK(delivery'[d]) /\ d[1] \in Begun'
                                  /\ delivery'[d].claim \in {None, w},
         s.pc = "claim" => \A r \in s.rows : delivery'[<<s.issue, r>>].claim # w,
         copies' \in [Deliveries -> 0..2], reaped' \cup unheard' \subseteq Deliveries
  PROVE  LedgerTyped' /\ NotYet'
<1>1. /\ worker' \in [Workers -> Job] /\ \A v \in Workers : Fit(worker'[v], Begun')
      /\ worker'[w] = s /\ \A v \in Workers : v # w => worker'[v] = worker[v]
  BY WorkersKeep DEF LedgerInv
<1>2. \A d \in Deliveries : RowOK(delivery'[d])
                            /\ (delivery'[d].status # "none" => d[1] \in Begun')
  BY DEF LedgerInv, LedgerTyped
<1>3. LedgerTyped'  BY <1>1, <1>2 DEF LedgerInv, LedgerTyped, Statuses, requests
<1>4. ASSUME NEW v \in Workers, NEW r \in Readers, worker'[v].pc = "claim", r \in worker'[v].rows
      PROVE  delivery'[<<worker'[v].issue, r>>].claim # v
  <2>1. CASE v = w  BY <1>1, <1>4, <2>1
  <2>2. CASE v # w
    <3>1. worker'[v] = worker[v]  BY <1>1, <2>2
    <3>2. worker[v].issue \in Issues
      BY <1>4, <3>1 DEF LedgerInv, LedgerTyped, Fit, Batching, Begun
    <3>3. <<worker[v].issue, r>> \in Deliveries  BY <3>2 DEF Deliveries
    <3>4. delivery[<<worker[v].issue, r>>].claim # v
      BY <1>4, <3>1 DEF LedgerInv, NotYet
    <3>. QED  BY <2>2, <3>1, <3>3, <3>4, NewsletterAssumption
  <2>. QED  BY <2>1, <2>2
<1>. QED  BY <1>3, <1>4 DEF NotYet

\* A step that only moves its worker, which comes to hold or to load no more than it did.
LEMMA MoveStep ==
  ASSUME LedgerInv, NEW w \in Workers, NEW s, Goto(w, s), Begun \subseteq Begun',
         Fit(s, Begun'), issue' \in [Issues -> Statuses],
         UNCHANGED <<delivery, confirmed, requests, history>>,
         s.pc = "claim" => \A r \in s.rows : delivery[<<s.issue, r>>].claim # w,
         \A d \in Deliveries : /\ Has(s, d) => /\ Has(worker[w], d)
                                               /\ Delivered(worker[w], d) => Delivered(s, d)
                               /\ Fetches(s, d) => Fetches(worker[w], d)
  PROVE  LedgerInv'
<1>1. LedgerTyped' /\ NotYet'
  BY MoveTyped DEF LedgerInv, LedgerTyped, history
<1>2. Ledger'
  <2> SUFFICES ASSUME NEW d \in Deliveries \ reaped PROVE Sound(d)'
    BY DEF Ledger, history
  <2>. QED  BY MoveKeeps DEF LedgerInv, Ledger, history
<1>. QED  BY <1>1, <1>2 DEF LedgerInv

LEMMA RestStep ==
  ASSUME LedgerInv, NEW w \in Workers, NEW s, Goto(w, s), Begun \subseteq Begun',
         Fit(s, Begun'), issue' \in [Issues -> Statuses],
         UNCHANGED <<delivery, confirmed, requests, history>>,
         s.pc \notin {"claim", "mine", "next", "send", "record"}
  PROVE  LedgerInv'
BY Rests, MoveStep

\* The steps between batches.
LEMMA BetweenKeep ==
  ASSUME LedgerInv, NEW w \in Workers,
         ReadIssues(w) \/ Finalize(w) \/ Close(w) \/ Crash(w) \/ Restart(w)
  PROVE  LedgerInv'
<1>1. PICK x \in Job : x = worker[w] /\ Fit(x, Begun)  BY DEF LedgerInv, LedgerTyped
<1>2. issue \in [Issues -> Statuses]  BY DEF LedgerInv, LedgerTyped, Statuses
<1>3. CASE ReadIssues(w)
  <2>1. {i \in Issues : issue[i] = "sending"} \subseteq Begun  BY DEF Begun
  <2>2. Begun \in SUBSET Issues /\ MaxBatches \in Int  BY NewsletterAssumption DEF Begun
  <2>3. \E s : Goto(w, s) /\ Fit(s, Begun) /\ s.pc \in {"idle", "batch"}
    BY <1>3, <2>1, <2>2, TakeIs DEF ReadIssues
  <2>4. UNCHANGED Begun  BY <1>3 DEF ReadIssues, Begun
  <2>. QED  BY <1>2, <1>3, <2>3, <2>4, RestStep DEF ReadIssues
<1>4. CASE Crash(w) \/ Restart(w)
  <2>1. \E s : Goto(w, s) /\ Fit(s, Begun) /\ s.pc \in {"idle", "dead"}
    <3>1. "dead" \in {"idle", "dead", "issues"}  OBVIOUS
    <3>. QED  BY <1>4, <3>1, IdleFit DEF Crash, Restart
  <2>2. UNCHANGED Begun  BY <1>4 DEF Crash, Restart, Begun
  <2>. QED  BY <1>2, <1>4, <2>1, <2>2, RestStep DEF Crash, Restart
<1>5. CASE Finalize(w)
  <2>1. x.pc \in Batching /\ x.open \in BOOLEAN
    BY <1>1, <1>5 DEF Finalize, Finished, Batching, Job
  <2>2. \E s : Goto(w, s) /\ Fit(s, Begun) /\ s.pc \in {"idle", "batch", "close"}
    <3>1. CASE Onward(w, worker[w].open)
      BY <1>1, <2>1, <3>1, OnwardIs DEF LedgerInv
    <3>2. CASE Goto(w, [worker[w] EXCEPT !.pc = "close"])
      <4> DEFINE s == [x EXCEPT !.pc = "close"]
      <4>1. /\ s \in Job /\ s.pc = "close" /\ s.issue = x.issue /\ s.queue = x.queue
            /\ s.todo = x.todo
        BY DEF Job, Batching
      <4>2. Goto(w, s)  BY <1>1, <3>2
      <4> HIDE DEF s
      <4>3. Fit(s, Begun)  BY <1>1, <2>1, <4>1 DEF Fit, Batching
      <4>. QED  BY <4>1, <4>2, <4>3
    <3>. QED  BY <1>5, <3>1, <3>2 DEF Finalize
  <2>3. UNCHANGED Begun  BY <1>5 DEF Finalize, Begun
  <2>. QED  BY <1>2, <1>5, <2>2, <2>3, RestStep DEF Finalize
<1>6. CASE Close(w)
  <2>1. x.pc \in Batching /\ FALSE \in BOOLEAN  BY <1>1, <1>6 DEF Close, Batching
  <2>2. issue' = issue \/ \E v \in {"failed", "sent"} : issue' = [issue EXCEPT ![x.issue] = v]
    BY <1>1, <1>6 DEF Close
  <2>3. issue' \in [Issues -> Statuses] /\ Begun \subseteq Begun'
    BY <1>2, <2>2 DEF Statuses, Begun
  <2>4. \E s : Goto(w, s) /\ Fit(s, Begun) /\ s.pc \in {"idle", "batch"}
    <3>1. CASE Onward(w, FALSE)  BY <1>1, <2>1, <3>1, OnwardIs DEF LedgerInv
    <3>2. CASE Goto(w, Idle)
      <4>1. "idle" \in {"idle", "dead", "issues"}  OBVIOUS
      <4>. QED  BY <3>2, <4>1, IdleFit
    <3>. QED  BY <1>6, <3>1, <3>2 DEF Close
  <2>5. PICK s : Goto(w, s) /\ Fit(s, Begun') /\ s.pc \in {"idle", "batch"}
    BY <2>3, <2>4, StillFit
  <2>. QED  BY <1>6, <2>3, <2>5, RestStep DEF Close
<1>. QED  BY <1>3, <1>4, <1>5, <1>6

\* A tick takes back the claims that timed out; those are remembered as reaped.
LEMMA TickKeeps == ASSUME LedgerInv, NEW w \in Workers, Tick(w) PROVE LedgerInv'
<1> DEFINE stale == {d \in Deliveries : delivery[d].status = "claimed" /\ delivery[d].stale}
           s == [Idle EXCEPT !.pc = "issues"]
<1>1. /\ delivery' = [d \in Deliveries |->
                        IF d \in stale THEN Now(delivery[d], "pending") ELSE delivery[d]]
      /\ reaped' = reaped \cup stale /\ Goto(w, s)
      /\ UNCHANGED <<issue, Begun, confirmed, requests, copies, unheard>>
  BY DEF Tick, Deliveries, Begun
<1>2. Fit(s, Begun) /\ s.pc = "issues"
  <2>1. "issues" \in {"idle", "dead", "issues"}  OBVIOUS
  <2>. QED  BY <2>1, IdleFit
<1> HIDE DEF s
<1>3. \A d \in stale : LET y == Now(delivery[d], "pending") IN
        y \in RowType /\ RowOK(y) /\ y.claim = None /\ d[1] \in Begun
  BY NowIs DEF LedgerInv, LedgerTyped, RowOK, Outstanding
<1>4. stale \subseteq Deliveries  OBVIOUS
<1> HIDE DEF stale
<1>5. /\ delivery' \in [Deliveries -> RowType]
      /\ \A d \in Deliveries \ stale : delivery'[d] = delivery[d]
      /\ \A d \in stale : delivery'[d] = Now(delivery[d], "pending")
  BY <1>1, <1>3, <1>4 DEF LedgerInv, LedgerTyped
<1>6. LedgerTyped' /\ NotYet'
  <2>1. \A d \in Deliveries :
          \/ delivery'[d] = delivery[d]
          \/ RowOK(delivery'[d]) /\ d[1] \in Begun' /\ delivery'[d].claim \in {None, w}
    BY <1>1, <1>3, <1>5
  <2>. QED
    BY <1>1, <1>2, <1>4, <1>5, <2>1, MoveTyped DEF LedgerInv, LedgerTyped, Statuses
<1>7. Ledger'
  <2> SUFFICES ASSUME NEW d \in Deliveries, d \notin reaped' PROVE Sound(d)'  BY DEF Ledger
  <2>1. Sound(d) /\ delivery'[d] = delivery[d]
    BY <1>1, <1>5 DEF LedgerInv, Ledger
  <2>2. ~Has(s, d) /\ ~Fetches(s, d)  BY <1>2, Rests
  <2>. QED  BY <1>1, <2>1, <2>2, MoveKeeps DEF LedgerInv
<1>. QED  BY <1>6, <1>7 DEF LedgerInv

\* A row that was read as pending carries no claim.
LEMMA ReadPendingKeeps == ASSUME LedgerInv, NEW w \in Workers, ReadPending(w) PROVE LedgerInv'
<1>1. PICK x \in Job : x = worker[w] /\ Fit(x, Begun) /\ x.pc = "batch"
  BY DEF LedgerInv, LedgerTyped, ReadPending
<1>2. PICK rows \in SUBSET Rows(x.issue, {"pending"}) :
        Goto(w, [x EXCEPT !.pc = IF rows = {} THEN "finalize" ELSE "claim", !.rows = rows])
  BY <1>1 DEF ReadPending
<1> DEFINE s == [x EXCEPT !.pc = IF rows = {} THEN "finalize" ELSE "claim", !.rows = rows]
<1>3. x.issue \in Issues /\ rows \subseteq Readers
  BY <1>1, <1>2 DEF Fit, Batching, Begun, Rows
<1>4. /\ s \in Job /\ s.pc \in {"finalize", "claim"} /\ s.issue = x.issue
      /\ s.queue = x.queue /\ s.todo = x.todo /\ s.rows = rows
  BY <1>1, <1>3 DEF Job, Batching
<1>5. Goto(w, s)  BY <1>2
<1> HIDE DEF s
<1>6. Fit(s, Begun)  BY <1>1, <1>4 DEF Fit, Batching
<1>7. \A r \in s.rows : delivery[<<s.issue, r>>].claim # w
  <2> SUFFICES ASSUME NEW r \in rows PROVE delivery[<<x.issue, r>>].claim # w  BY <1>4
  <2>1. <<x.issue, r>> \in Deliveries  BY <1>3 DEF Deliveries
  <2>2. delivery[<<x.issue, r>>].status = "pending"  BY <1>2 DEF Rows
  <2>. QED  BY <2>1, <2>2, NewsletterAssumption DEF LedgerInv, LedgerTyped, RowOK
<1>8. UNCHANGED <<issue, Begun, delivery, confirmed, requests, history>>
  BY DEF ReadPending, Begun
<1>9. \A d \in Deliveries : ~Has(s, d) /\ ~Fetches(s, d)  BY <1>4, Rests
<1>. QED  BY <1>5, <1>6, <1>7, <1>8, <1>9, MoveStep DEF LedgerInv, LedgerTyped, Statuses
-----------------------------------------------------------------------------
(* The batch: claimed, loaded, sent, recorded *)

\* A row is claimed by the worker that finds it pending; nobody holds it, and no copy
\* of it left.
LEMMA ClaimKeeps == ASSUME LedgerInv, NEW w \in Workers, Claim(w) PROVE LedgerInv'
<1>1. PICK x \in Job : x = worker[w] /\ Fit(x, Begun) /\ x.pc = "claim"
  BY DEF LedgerInv, LedgerTyped, Claim
<1> DEFINE S == {d \in Deliveries : d[1] = x.issue /\ d[2] \in x.rows
                                    /\ delivery[d].status = "pending"}
           s == [x EXCEPT !.pc = "mine"]
           y(d) == [delivery[d] EXCEPT !.status = "claimed", !.claim = w, !.stale = FALSE]
<1>2. /\ delivery' = [d \in Deliveries |-> IF d \in S THEN y(d) ELSE delivery[d]]
      /\ Goto(w, s) /\ UNCHANGED <<issue, Begun, confirmed, requests, history>>
  BY <1>1 DEF Claim, Deliveries, Begun
<1>3. x.issue \in Begun /\ x.issue \in Issues  BY <1>1 DEF Fit, Batching, Begun
<1>4. \A d \in S : /\ y(d) \in RowType /\ RowOK(y(d)) /\ y(d).status = "claimed"
                   /\ y(d).claim = w /\ d[1] \in Begun
  BY <1>3, NewsletterAssumption DEF LedgerInv, LedgerTyped, RowOK, RowType, Outstanding
<1>5. /\ s \in Job /\ s.pc = "mine" /\ s.issue = x.issue /\ s.queue = x.queue
      /\ s.todo = x.todo /\ s.rows = x.rows
  BY <1>1 DEF Job, Batching
<1> HIDE DEF s
<1>6. Fit(s, Begun)  BY <1>1, <1>3, <1>5 DEF Fit, Batching
<1>7. /\ delivery' \in [Deliveries -> RowType]
      /\ \A d \in Deliveries : d \notin S => delivery'[d] = delivery[d]
      /\ \A d \in S : delivery'[d] = y(d)
  BY <1>2, <1>4 DEF LedgerInv, LedgerTyped
<1> HIDE DEF y
<1>8. \A d \in Deliveries : \/ delivery'[d] = delivery[d]
                            \/ /\ RowOK(delivery'[d]) /\ d[1] \in Begun
                               /\ delivery'[d].claim \in {None, w}
  BY <1>4, <1>7
<1>9. LedgerTyped' /\ NotYet'
  BY <1>2, <1>5, <1>6, <1>7, <1>8, MoveTyped DEF LedgerInv, LedgerTyped, Statuses, history
<1>10. Ledger'
  <2> SUFFICES ASSUME NEW d \in Deliveries, d \notin reaped PROVE Sound(d)'
    BY <1>2 DEF Ledger, history
  <2>1. Sound(d)  BY DEF LedgerInv, Ledger
  <2>2. worker'[w] = s /\ \A v \in Workers : v # w => worker'[v] = worker[v]
    BY <1>2 DEF Goto, LedgerInv, LedgerTyped
  <2>3. ~Has(s, d) /\ ~Has(x, d)  BY <1>1, <1>5 DEF Has
  <2>4. UNCHANGED <<copies, unheard>>  BY <1>2 DEF history
  <2>5. CASE d \in S
    <3>1. delivery[d].status = "pending"  BY <2>5
    <3>2. \A v \in Workers : ~Has(worker[v], d)  BY <2>1, <3>1 DEF Sound, HeldBy
    <3>3. \A v \in Workers : ~Has(worker'[v], d)  BY <2>2, <2>3, <3>2
    <3>4. d \notin unheard => copies[d] <= 1 /\ ~(copies[d] > 0)
      BY <2>1, <3>1 DEF Sound, CopyOnce
    <3>. QED  BY <2>4, <3>3, <3>4 DEF Sound, HeldBy, HeldOnce, CopyOnce
  <2>6. CASE d \notin S
    <3>1. delivery'[d] = delivery[d]  BY <1>7, <2>6
    <3>2. Fetches(s, d) => delivery[d].claim # w
      <4> SUFFICES ASSUME Fetches(s, d) PROVE delivery[d].claim # w  OBVIOUS
      <4>1. d[2] \in x.rows /\ d[1] = x.issue  BY <1>5 DEF Fetches
      <4>2. d[2] \in Readers /\ d = <<d[1], d[2]>>  BY Pairs
      <4>. QED  BY <1>1, <4>1, <4>2 DEF LedgerInv, NotYet
    <3>3. HeldBy(d)' /\ HeldOnce(d)'
      BY <2>1, <2>2, <2>3, <3>1 DEF Sound, HeldBy, HeldOnce
    <3>4. d \notin unheard => CopyOnce(d)'
      BY <2>1, <2>2, <2>3, <2>4, <3>1, <3>2 DEF Sound, CopyOnce
    <3>. QED  BY <2>4, <3>3, <3>4 DEF Sound
  <2>. QED  BY <2>5, <2>6
<1>. QED  BY <1>9, <1>10 DEF LedgerInv

\* The worker loads the rows that carry its claim, and holds them from then on.
LEMMA ReadClaimedKeeps == ASSUME LedgerInv, NEW w \in Workers, ReadClaimed(w) PROVE LedgerInv'
<1>1. PICK x \in Job : x = worker[w] /\ Fit(x, Begun) /\ x.pc = "mine"
  BY DEF LedgerInv, LedgerTyped, ReadClaimed
<1>2. x.issue \in Begun /\ x.issue \in Issues  BY <1>1 DEF Fit, Batching, Begun
<1> DEFINE mine == {r \in x.rows : delivery[<<x.issue, r>>].status = "claimed"
                                   /\ delivery[<<x.issue, r>>].claim = w}
           todo == {[reader |-> r, attempts |-> delivery[<<x.issue, r>>].attempts] : r \in mine}
           s == [x EXCEPT !.pc = IF mine = {} THEN "finalize" ELSE "next", !.rows = mine,
                          !.todo = todo]
<1>3. Goto(w, s) /\ UNCHANGED <<issue, Begun, delivery, confirmed, requests, history>>
  BY <1>1 DEF ReadClaimed, Begun
<1>4. mine \subseteq x.rows /\ x.rows \subseteq Readers  BY DEF Job
<1>5. \A r \in mine : /\ <<x.issue, r>> \in Deliveries
                      /\ delivery[<<x.issue, r>>].attempts \in 0..(MaxAttempts - 1)
  <2> SUFFICES ASSUME NEW r \in mine
               PROVE  /\ <<x.issue, r>> \in Deliveries
                      /\ delivery[<<x.issue, r>>].attempts \in 0..(MaxAttempts - 1)
    OBVIOUS
  <2>1. <<x.issue, r>> \in Deliveries  BY <1>2, <1>4 DEF Deliveries
  <2>2. PICK y \in RowType : y = delivery[<<x.issue, r>>] /\ y.attempts < MaxAttempts
    BY <2>1 DEF LedgerInv, LedgerTyped, RowOK, Outstanding
  <2>. QED  BY <2>1, <2>2, NewsletterAssumption DEF RowType
<1>6. /\ todo \in SUBSET [reader : Readers, attempts : 0..(MaxAttempts - 1)]
      /\ \A a, b \in todo : a.reader = b.reader => a = b
      /\ \A a \in todo : a.reader \in mine
  <2> DEFINE a(r) == [reader |-> r, attempts |-> delivery[<<x.issue, r>>].attempts]
  <2>1. \A r \in mine : a(r) \in [reader : Readers, attempts : 0..(MaxAttempts - 1)]
    BY <1>4, <1>5
  <2>2. \A r \in mine : a(r).reader = r  OBVIOUS
  <2>3. todo = {a(r) : r \in mine}  OBVIOUS
  <2> HIDE DEF a, mine, todo
  <2>. QED  BY <2>1, <2>2, <2>3
<1>7. \A r \in mine : delivery[<<x.issue, r>>].status = "claimed"
                      /\ delivery[<<x.issue, r>>].claim = w
  OBVIOUS
<1> HIDE DEF mine, todo
<1>8. /\ s \in Job /\ s.pc \in {"finalize", "next"} /\ s.issue = x.issue /\ s.queue = x.queue
      /\ s.todo = todo
  BY <1>1, <1>4, <1>6 DEF Job, Batching
<1> HIDE DEF s
<1>9. Fit(s, Begun)  BY <1>1, <1>2, <1>6, <1>8 DEF Fit, Batching
<1>10. LedgerTyped' /\ NotYet'
  BY <1>3, <1>8, <1>9, MoveTyped DEF LedgerInv, LedgerTyped, Statuses, history
<1>11. Ledger'
  <2> SUFFICES ASSUME NEW d \in Deliveries, d \notin reaped PROVE Sound(d)'
    BY <1>3 DEF Ledger, history
  <2>1. Sound(d)  BY DEF LedgerInv, Ledger
  <2>2. worker'[w] = s /\ \A v \in Workers : v # w => worker'[v] = worker[v]
    BY <1>3 DEF Goto, LedgerInv, LedgerTyped
  <2>3. UNCHANGED <<delivery, copies, unheard>>  BY <1>3 DEF history
  <2>4. ~Fetches(s, d)  BY <1>8 DEF Fetches
  <2>5. CASE ~Has(s, d)  BY <1>3, <2>1, <2>3, <2>4, <2>5, MoveKeeps DEF LedgerInv
  <2>6. CASE Has(s, d)
    <3>1. d[1] = x.issue /\ d[2] \in mine  BY <1>6, <1>8, <2>6 DEF Has
    <3>2. d = <<x.issue, d[2]>>  BY <3>1, Pairs
    <3>3. delivery[d].status = "claimed" /\ delivery[d].claim = w  BY <1>7, <3>1, <3>2
    <3>4. \A v \in Workers : v # w => ~Has(worker'[v], d)
      BY <2>1, <2>2, <3>3 DEF Sound, HeldBy
    <3>5. Fetches(x, d)  BY <1>1, <1>4, <3>1 DEF Fetches
    <3>6. d \notin unheard => copies[d] <= 1 /\ ~(copies[d] > 0)
      BY <1>1, <2>1, <3>3, <3>5 DEF Sound, CopyOnce
    <3>. QED  BY <2>3, <3>3, <3>4, <3>6 DEF Sound, HeldBy, HeldOnce, CopyOnce
  <2>. QED  BY <2>5, <2>6
<1>. QED  BY <1>10, <1>11 DEF LedgerInv

\* One more step of a batch: what changes is the one delivery that the worker takes up.
LEMMA CheckKeeps == ASSUME LedgerInv, NEW w \in Workers, Check(w) PROVE LedgerInv'
<1>1. PICK x \in Job : x = worker[w] /\ Fit(x, Begun) /\ x.pc = "next"
  BY DEF LedgerInv, LedgerTyped, Check
<1>2. x.issue \in Begun /\ x.issue \in Issues  BY <1>1 DEF Fit, Batching, Begun
<1>3. PICK a \in x.todo :
        \/ /\ UNCHANGED delivery
           /\ Goto(w, [x EXCEPT !.pc = "send", !.todo = x.todo \ {a}, !.reader = a.reader,
                                !.attempt = a.attempts + 1])
        \/ /\ delivery' = [delivery EXCEPT ![<<x.issue, a.reader>>] = Now(@, "skipped")]
           /\ Goto(w, [x EXCEPT !.todo = x.todo \ {a}])
  BY <1>1 DEF Check
<1>4. a.reader \in Readers /\ a.attempts \in 0..(MaxAttempts - 1)  BY DEF Job
<1>5. UNCHANGED <<issue, Begun, confirmed, requests, history>>  BY DEF Check, Begun
<1>6. \A b \in x.todo \ {a} : b.reader # a.reader  BY <1>1 DEF Fit
<1>7. CASE /\ UNCHANGED delivery
           /\ Goto(w, [x EXCEPT !.pc = "send", !.todo = x.todo \ {a}, !.reader = a.reader,
                                !.attempt = a.attempts + 1])
  <2> DEFINE s == [x EXCEPT !.pc = "send", !.todo = x.todo \ {a}, !.reader = a.reader,
                            !.attempt = a.attempts + 1]
  <2>1. a.attempts + 1 \in 0..MaxAttempts  BY <1>4, NewsletterAssumption
  <2>2. /\ s \in Job /\ s.pc = "send" /\ s.issue = x.issue /\ s.queue = x.queue
        /\ s.todo = x.todo \ {a} /\ s.reader = a.reader
    BY <1>4, <2>1 DEF Job, Batching
  <2>3. Goto(w, s)  BY <1>7
  <2> HIDE DEF s
  <2>4. Fit(s, Begun)  BY <1>1, <1>2, <1>4, <1>6, <2>2 DEF Fit, Batching
  <2>5. \A d \in Deliveries : /\ Has(s, d) => Has(x, d)
                              /\ ~Delivered(x, d) /\ ~Fetches(s, d)
    BY <1>1, <2>2 DEF Has, Delivered, Fetches
  <2>. QED
    BY <1>1, <1>5, <1>7, <2>2, <2>3, <2>4, <2>5, MoveStep DEF LedgerInv, LedgerTyped, Statuses
<1>8. CASE /\ delivery' = [delivery EXCEPT ![<<x.issue, a.reader>>] = Now(@, "skipped")]
           /\ Goto(w, [x EXCEPT !.todo = x.todo \ {a}])
  <2> DEFINE s == [x EXCEPT !.todo = x.todo \ {a}]
             e == <<x.issue, a.reader>>
             y == Now(delivery[e], "skipped")
  <2>1. /\ s \in Job /\ s.pc = "next" /\ s.issue = x.issue /\ s.queue = x.queue
        /\ s.todo = x.todo \ {a}
    BY <1>1 DEF Job
  <2>2. Goto(w, s)  BY <1>8
  <2>3. e \in Deliveries /\ e[1] = x.issue /\ e[2] = a.reader  BY <1>2, <1>4, Pairs
  <2>4. y \in RowType /\ RowOK(y) /\ y.status = "skipped" /\ y.claim = None
    BY <2>3, NowIs DEF LedgerInv, LedgerTyped
  <2>5. delivery' = [delivery EXCEPT ![e] = y]  BY <1>8
  <2> HIDE DEF s, y
  <2>6. /\ delivery' \in [Deliveries -> RowType] /\ delivery'[e] = y
        /\ \A d \in Deliveries : d # e => delivery'[d] = delivery[d]
    BY <2>3, <2>4, <2>5 DEF LedgerInv, LedgerTyped
  <2>7. Fit(s, Begun)  BY <1>1, <1>2, <2>1 DEF Fit, Batching
  <2>8. \A d \in Deliveries : \/ delivery'[d] = delivery[d]
                              \/ /\ RowOK(delivery'[d]) /\ d[1] \in Begun
                                 /\ delivery'[d].claim \in {None, w}
    BY <1>2, <2>3, <2>4, <2>6
  <2>9. LedgerTyped' /\ NotYet'
    BY <1>5, <2>1, <2>2, <2>6, <2>7, <2>8, MoveTyped DEF LedgerInv, LedgerTyped, Statuses, history
  <2>10. Ledger'
    <3> SUFFICES ASSUME NEW d \in Deliveries, d \notin reaped PROVE Sound(d)'
      BY <1>5 DEF Ledger, history
    <3>1. Sound(d)  BY DEF LedgerInv, Ledger
    <3>2. worker'[w] = s /\ \A v \in Workers : v # w => worker'[v] = worker[v]
      BY <2>2 DEF Goto, LedgerInv, LedgerTyped
    <3>3. UNCHANGED <<copies, unheard>>  BY <1>5 DEF history
    <3>4. /\ Has(s, d) => Has(x, d)
          /\ ~Delivered(x, d) /\ ~Fetches(s, d)
      BY <1>1, <2>1 DEF Has, Delivered, Fetches
    <3>5. CASE d # e
      BY <1>1, <2>2, <2>6, <3>1, <3>3, <3>4, <3>5, MoveKeeps DEF LedgerInv
    <3>6. CASE d = e
      <4>1. Has(x, d)  BY <1>1, <2>3, <3>6 DEF Has
      <4>2. ~Has(s, d)  BY <1>6, <2>1, <2>3, <3>6 DEF Has
      <4>3. \A v \in Workers : ~Has(worker'[v], d)
        BY <1>1, <3>1, <3>2, <4>1, <4>2 DEF Sound, HeldOnce
      <4>4. d \notin unheard => copies[d] <= 1 /\ ~(copies[d] > 0)
        BY <1>1, <3>1, <3>4, <4>1 DEF Sound, CopyOnce
      <4>. QED  BY <3>3, <4>3, <4>4 DEF Sound, HeldBy, HeldOnce, CopyOnce
    <3>. QED  BY <3>5, <3>6
  <2>. QED  BY <2>9, <2>10 DEF LedgerInv
<1>. QED  BY <1>3, <1>7, <1>8

\* The first copy leaves: nobody else holds the delivery, and its worker knows.
LEMMA SendKeeps == ASSUME LedgerInv, NEW w \in Workers, Send(w) PROVE LedgerInv'
<1>1. PICK x \in Job : x = worker[w] /\ Fit(x, Begun) /\ x.pc = "send"
  BY DEF LedgerInv, LedgerTyped, Send
<1>2. x.issue \in Begun /\ x.issue \in Issues /\ x.reader \in Readers
  BY <1>1 DEF Fit, Batching, Begun
<1> DEFINE e == <<x.issue, x.reader>>
<1>3. PICK outcome \in {"sent", "hard", "soft"}, left \in BOOLEAN :
        /\ outcome = "sent" => left
        /\ outcome = "hard" => ~left
        /\ Goto(w, [x EXCEPT !.pc = "record", !.outcome = outcome])
        /\ copies' = IF left /\ copies[e] < 2 THEN [copies EXCEPT ![e] = @ + 1] ELSE copies
        /\ unheard' = IF left /\ outcome = "soft" THEN unheard \cup {e} ELSE unheard
  BY <1>1 DEF Send
<1> DEFINE s == [x EXCEPT !.pc = "record", !.outcome = outcome]
<1>4. /\ s \in Job /\ s.pc = "record" /\ s.issue = x.issue /\ s.queue = x.queue
      /\ s.todo = x.todo /\ s.reader = x.reader /\ s.outcome = outcome
  BY DEF Job, Batching
<1>5. Goto(w, s)  BY <1>3
<1>6. e \in Deliveries /\ e[1] = x.issue /\ e[2] = x.reader  BY <1>2, Pairs
<1> HIDE DEF s
<1>7. UNCHANGED <<issue, Begun, delivery, confirmed, requests, reaped>>  BY DEF Send, Begun
<1>8. /\ copies' \in [Deliveries -> 0..2] /\ \A d \in Deliveries : d # e => copies'[d] = copies[d]
      /\ copies'[e] = IF left /\ copies[e] < 2 THEN copies[e] + 1 ELSE copies[e]
  <2>1. copies[e] \in 0..2  BY <1>6 DEF LedgerInv, LedgerTyped
  <2>2. CASE left /\ copies[e] < 2
    <3>1. copies' = [copies EXCEPT ![e] = copies[e] + 1]  BY <1>3, <2>2
    <3>2. copies[e] + 1 \in 0..2  BY <2>1, <2>2
    <3>. QED  BY <1>6, <2>2, <3>1, <3>2 DEF LedgerInv, LedgerTyped
  <2>3. CASE ~(left /\ copies[e] < 2)  BY <1>3, <2>3 DEF LedgerInv, LedgerTyped
  <2>. QED  BY <2>2, <2>3
<1>9. unheard \subseteq unheard' /\ unheard' \subseteq Deliveries
  BY <1>3, <1>6 DEF LedgerInv, LedgerTyped
<1>10. Fit(s, Begun)  BY <1>1, <1>2, <1>4 DEF Fit, Batching
<1>11. LedgerTyped' /\ NotYet'
  BY <1>4, <1>5, <1>7, <1>8, <1>9, <1>10, MoveTyped DEF LedgerInv, LedgerTyped, Statuses
<1>12. Ledger'
  <2> SUFFICES ASSUME NEW d \in Deliveries, d \notin reaped PROVE Sound(d)'
    BY <1>7 DEF Ledger
  <2>1. Sound(d)  BY DEF LedgerInv, Ledger
  <2>2. worker'[w] = s /\ \A v \in Workers : v # w => worker'[v] = worker[v]
    BY <1>5 DEF Goto, LedgerInv, LedgerTyped
  <2>3. /\ Has(s, d) => Has(x, d)
        /\ ~Delivered(x, d) /\ ~Fetches(s, d)
    BY <1>1, <1>4 DEF Has, Delivered, Fetches
  <2>4. CASE d # e
    BY <1>1, <1>5, <1>7, <1>8, <1>9, <2>1, <2>3, <2>4, MoveKeeps DEF LedgerInv
  <2>5. CASE d = e
    <3>1. Has(x, d) /\ Has(s, d)  BY <1>1, <1>4, <1>6, <2>5 DEF Has
    <3>2. \A v \in Workers : v # w => ~Has(worker[v], d)
      BY <1>1, <2>1, <3>1 DEF Sound, HeldOnce
    <3>3. /\ delivery[d].status \in {"claimed", "skipped"}
          /\ \A v \in Workers : v # w => delivery[d].claim # v
      BY <1>1, <2>1, <3>1, NewsletterAssumption DEF Sound, HeldBy, LedgerInv, LedgerTyped, RowOK
    <3>4. d \notin unheard => copies[d] = 0
      <4>1. copies[d] \in 0..2  BY DEF LedgerInv, LedgerTyped
      <4>2. d \notin unheard => ~(copies[d] > 0)
        BY <1>1, <2>1, <2>3, <3>1 DEF Sound, CopyOnce
      <4>. QED  BY <4>1, <4>2
    <3>5. HeldBy(d)' /\ HeldOnce(d)'
      BY <1>1, <1>7, <2>1, <2>2, <3>1 DEF Sound, HeldBy, HeldOnce
    <3>6. d \notin unheard' => CopyOnce(d)'
      <4> SUFFICES ASSUME d \notin unheard' PROVE CopyOnce(d)'  OBVIOUS
      <4>1. copies[d] = 0  BY <1>9, <3>4
      <4>2. copies'[d] = (IF left THEN 1 ELSE 0)  BY <1>8, <2>5, <4>1
      <4>3. left => Delivered(s, d)  BY <1>3, <1>4, <1>6, <2>5 DEF Delivered
      <4>4. left => \A v \in Workers : Has(worker'[v], d) => Delivered(worker'[v], d)
        BY <2>2, <3>2, <4>3
      <4>5. \A v \in Workers : Fetches(worker'[v], d) => delivery[d].claim # v
        BY <2>2, <2>3, <3>3
      <4>. QED  BY <1>7, <3>3, <4>2, <4>4, <4>5 DEF CopyOnce
    <3>. QED  BY <3>5, <3>6 DEF Sound
  <2>. QED  BY <2>4, <2>5
<1>. QED  BY <1>11, <1>12 DEF LedgerInv

\* The outcome is recorded by the one worker that holds the delivery, which lets it go.
LEMMA RecordKeeps == ASSUME LedgerInv, NEW w \in Workers, Record(w) PROVE LedgerInv'
<1>1. PICK x \in Job : x = worker[w] /\ Fit(x, Begun) /\ x.pc = "record"
  BY DEF LedgerInv, LedgerTyped, Record
<1>2. x.issue \in Begun /\ x.issue \in Issues /\ x.reader \in Readers
  BY <1>1 DEF Fit, Batching, Begun
<1> DEFINE e == <<x.issue, x.reader>>
           again == x.outcome = "soft" /\ x.attempt < MaxAttempts
           status == IF x.outcome = "sent" THEN "sent"
                     ELSE IF again THEN "pending" ELSE "failed"
           y == [Now(delivery[e], status) EXCEPT !.attempts = x.attempt]
           s == [x EXCEPT !.pc = "next", !.reader = None, !.attempt = 0, !.outcome = "none"]
<1>3. /\ delivery' = [delivery EXCEPT ![e] = y]
      /\ Goto(w, s) /\ UNCHANGED <<issue, Begun, confirmed, requests, history>>
  BY <1>1 DEF Record, Begun
<1>4. e \in Deliveries /\ e[1] = x.issue /\ e[2] = x.reader  BY <1>2, Pairs
<1>5. /\ y \in RowType /\ RowOK(y) /\ y.claim = None /\ y.status = status
  <2>1. delivery[e] \in RowType  BY <1>4 DEF LedgerInv, LedgerTyped
  <2>2. status \in {"sent", "pending", "failed"}  OBVIOUS
  <2>3. status = "pending" => x.attempt < MaxAttempts  OBVIOUS
  <2>4. x.attempt \in 0..MaxAttempts  BY DEF Job
  <2> HIDE DEF status, e
  <2>. QED  BY <2>1, <2>2, <2>3, <2>4 DEF RowType, RowOK, Now, Outstanding
<1>6. 0 \in 0..MaxAttempts  BY NewsletterAssumption
<1>7. /\ s \in Job /\ s.pc = "next" /\ s.issue = x.issue /\ s.queue = x.queue
      /\ s.todo = x.todo
  BY <1>6 DEF Job, Batching
<1>8. x.outcome = "sent" => status = "sent"  OBVIOUS
<1> HIDE DEF s, y, status
<1>9. Fit(s, Begun)  BY <1>1, <1>2, <1>7 DEF Fit, Batching
<1>10. /\ delivery' \in [Deliveries -> RowType] /\ delivery'[e] = y
       /\ \A d \in Deliveries : d # e => delivery'[d] = delivery[d]
  BY <1>3, <1>4, <1>5 DEF LedgerInv, LedgerTyped
<1>11. \A d \in Deliveries : \/ delivery'[d] = delivery[d]
                             \/ /\ RowOK(delivery'[d]) /\ d[1] \in Begun
                                /\ delivery'[d].claim \in {None, w}
  BY <1>2, <1>4, <1>5, <1>10
<1>12. LedgerTyped' /\ NotYet'
  BY <1>3, <1>7, <1>9, <1>10, <1>11, MoveTyped DEF LedgerInv, LedgerTyped, Statuses, history
<1>13. Ledger'
  <2> SUFFICES ASSUME NEW d \in Deliveries, d \notin reaped PROVE Sound(d)'
    BY <1>3 DEF Ledger, history
  <2>1. Sound(d)  BY DEF LedgerInv, Ledger
  <2>2. worker'[w] = s /\ \A v \in Workers : v # w => worker'[v] = worker[v]
    BY <1>3 DEF Goto, LedgerInv, LedgerTyped
  <2>3. UNCHANGED <<copies, unheard>>  BY <1>3 DEF history
  <2>4. ~Fetches(s, d) /\ (Has(s, d) => Has(x, d))  BY <1>1, <1>7 DEF Has, Fetches
  <2>5. CASE d # e
    <3>1. ~Delivered(x, d) \/ ~Has(s, d)
      <4> SUFFICES ASSUME Delivered(x, d), Has(s, d) PROVE FALSE  OBVIOUS
      <4>1. d[1] = x.issue /\ d[2] = x.reader  BY <1>7 DEF Delivered, Has
      <4>2. d = <<d[1], d[2]>>  BY Pairs
      <4>. QED  BY <2>5, <4>1, <4>2
    <3>. QED  BY <1>1, <1>3, <1>10, <2>1, <2>3, <2>4, <2>5, <3>1, MoveKeeps DEF LedgerInv
  <2>6. CASE d = e
    <3>1. Has(x, d)  BY <1>1, <1>4, <2>6 DEF Has
    <3>2. ~Has(s, d)  BY <1>1, <1>4, <1>7, <2>6 DEF Has, Fit
    <3>3. \A v \in Workers : ~Has(worker'[v], d)
      BY <1>1, <2>1, <2>2, <3>1, <3>2 DEF Sound, HeldOnce
    <3>4. d \notin unheard /\ copies[d] > 0 => y.status = "sent"
      BY <1>1, <1>5, <1>8, <2>1, <3>1 DEF Sound, CopyOnce, Delivered
    <3>5. \A v \in Workers : y.claim # v  BY <1>5, NewsletterAssumption
    <3>6. d \notin unheard => CopyOnce(d)'
      BY <1>10, <2>1, <2>3, <2>6, <3>3, <3>4, <3>5 DEF Sound, CopyOnce
    <3>. QED  BY <2>3, <3>3, <3>6 DEF Sound, HeldBy, HeldOnce
  <2>. QED  BY <2>5, <2>6
<1>. QED  BY <1>12, <1>13 DEF LedgerInv
-----------------------------------------------------------------------------
LEMMA InitLedger == Init => LedgerInv
<1> SUFFICES ASSUME Init PROVE LedgerInv  OBVIOUS
<1>1. "idle" \in {"idle", "dead", "issues"}  OBVIOUS
<1>2. worker = [w \in Workers |-> Idle] /\ Fit(Idle, Begun) /\ Idle.pc = "idle"
  BY <1>1, IdleFit DEF Init
<1>3. Idle \in Job  BY <1>2 DEF Fit
<1>4. LedgerTyped
  <2>1. /\ delivery \in [Deliveries -> RowType]
        /\ \A d \in Deliveries : RowOK(delivery[d]) /\ delivery[d].status = "none"
    BY NoRowIs DEF Init, Deliveries
  <2>. QED  BY <1>2, <1>3, <2>1 DEF Init, LedgerTyped, Deliveries
<1>5. NotYet  BY <1>2 DEF NotYet
<1>6. Ledger
  <2> SUFFICES ASSUME NEW d \in Deliveries PROVE Sound(d)  BY DEF Ledger
  <2>1. copies[d] = 0  BY DEF Init, Deliveries
  <2>2. \A w \in Workers : ~Has(worker[w], d) /\ ~Fetches(worker[w], d)
    BY <1>2, Rests
  <2>. QED  BY <2>1, <2>2 DEF Sound, HeldBy, HeldOnce, CopyOnce
<1>. QED  BY <1>4, <1>5, <1>6 DEF LedgerInv

LEMMA NextLedger == LedgerInv /\ [Next]_vars => LedgerInv'
<1> SUFFICES ASSUME LedgerInv, [Next]_vars PROVE LedgerInv'  OBVIOUS
<1>1. CASE \E i \in Issues : Operator(i)
  BY <1>1, QueueKeeps, CancelKeeps, RetryKeeps, OthersKeep DEF Operator
<1>2. CASE (\E r \in Readers : Leave(r) \/ Return(r)) \/ UNCHANGED vars
  BY <1>2, OthersKeep
<1>3. CASE \E w \in Workers : Crash(w) \/ Restart(w)  BY <1>3, BetweenKeep
<1>4. CASE \E w \in Workers : WorkerStep(w)
  BY <1>4, BetweenKeep, TickKeeps, ReadPendingKeeps, ClaimKeeps, ReadClaimedKeeps,
     CheckKeeps, SendKeeps, RecordKeeps
  DEF WorkerStep
<1>5. CASE \E d \in Issues \X Readers : GoesStale(d)  BY <1>5, StaleKeeps DEF Deliveries
<1>. QED  BY <1>1, <1>2, <1>3, <1>4, <1>5 DEF Next

\* The ledger holds always.
THEOREM LedgerHolds == Spec => []LedgerInv
BY InitLedger, NextLedger, PTL DEF Spec

\* No reader gets a second copy of an issue, for any issues, readers, workers, batch
\* sizes and budgets, whatever ticks overlap, die or meet a cancel and a retry, unless a
\* claim on the delivery timed out or the mail server's answer was lost.
THEOREM NoSecondCopy == Spec => []SecondCopyExplained
<1>1. LedgerInv => SecondCopyExplained
  <2> SUFFICES ASSUME LedgerInv PROVE SecondCopyExplained  OBVIOUS
  <2>1. TypeOK  BY DEF LedgerInv, LedgerTyped, TypeOK, RowOK, RowType, Job, Deliveries
  <2>2. ASSUME NEW d \in Issues \X Readers, copies[d] > 1, d \notin reaped \cup unheard
        PROVE  FALSE
    <3>1. copies[d] <= 1 /\ copies[d] \in 0..2
      BY <2>2 DEF LedgerInv, LedgerTyped, Ledger, Sound, CopyOnce, Deliveries
    <3>. QED  BY <2>2, <3>1
  <2>. QED  BY <2>1, <2>2 DEF SecondCopyExplained
<1>. QED  BY <1>1, LedgerHolds, PTL

\* A delivery that was sent is never reopened, by no cancel, retry, tick or late record,
\* unless a claim on it had timed out and two batches held it.
THEOREM SentStays == Spec => SentIsTerminal
<1>1. LedgerInv /\ [Next]_vars =>
        [\A d \in Issues \X Readers :
           delivery[d].status = "sent" /\ d \notin reaped => delivery'[d].status = "sent"]_vars
  <2> SUFFICES ASSUME LedgerInv, [Next]_vars, NEW d \in Deliveries,
                      delivery[d].status = "sent", d \notin reaped
               PROVE  delivery'[d] = delivery[d]
    BY DEF Deliveries
  <2>1. \A w \in Workers : ~Has(worker[w], d)
    BY DEF LedgerInv, Ledger, Sound, HeldBy
  <2>2. d = <<d[1], d[2]>> /\ d[1] \in Issues /\ d[2] \in Readers  BY Pairs
  <2>3. ASSUME NEW i \in Issues, Operator(i) PROVE delivery'[d] = delivery[d]
    <3>1. CASE Queue(i)
      <4>1. issue[i] = "draft" /\ d[1] # i
        BY <3>1 DEF Queue, LedgerInv, LedgerTyped, Begun
      <4>. QED  BY <3>1, <4>1 DEF Queue, Deliveries
    <3>2. CASE RetryFailed(i)
      <4>1. ~(d[1] = i /\ d[2] \in Rows(i, {"failed"}))  BY <2>2 DEF Rows
      <4>. QED  BY <3>2, <4>1 DEF RetryFailed, Deliveries
    <3>3. CASE Cancel(i)  BY <3>3 DEF Cancel, Deliveries, Outstanding
    <3>. QED  BY <2>3, <3>1, <3>2, <3>3 DEF Operator, CancelRead, Resume
  <2>4. ASSUME NEW w \in Workers, Check(w) PROVE delivery'[d] = delivery[d]
    <3>1. PICK x \in Job : x = worker[w] /\ Fit(x, Begun) /\ x.pc = "next"
      BY <2>4 DEF LedgerInv, LedgerTyped, Check
    <3>2. PICK a \in x.todo :
            \/ UNCHANGED delivery
            \/ delivery' = [delivery EXCEPT ![<<x.issue, a.reader>>] = Now(@, "skipped")]
      BY <2>4, <3>1 DEF Check
    <3>3. x.issue \in Issues /\ a.reader \in Readers
      BY <3>1 DEF Fit, Batching, Begun, Job
    <3>4. d # <<x.issue, a.reader>>
      <4> SUFFICES ASSUME d = <<x.issue, a.reader>> PROVE FALSE  OBVIOUS
      <4>1. d[1] = x.issue /\ d[2] = a.reader  BY <3>3, Pairs
      <4>. QED  BY <2>1, <3>1, <4>1 DEF Has
    <3>. QED  BY <3>2, <3>4 DEF LedgerInv, LedgerTyped
  <2>5. ASSUME NEW w \in Workers, Record(w) PROVE delivery'[d] = delivery[d]
    <3>1. PICK x \in Job : x = worker[w] /\ Fit(x, Begun) /\ x.pc = "record"
      BY <2>5 DEF LedgerInv, LedgerTyped, Record
    <3>2. x.issue \in Issues /\ x.reader \in Readers
      BY <3>1 DEF Fit, Batching, Begun
    <3>3. d # <<x.issue, x.reader>>
      <4> SUFFICES ASSUME d = <<x.issue, x.reader>> PROVE FALSE  OBVIOUS
      <4>1. d[1] = x.issue /\ d[2] = x.reader  BY <3>2, Pairs
      <4>. QED  BY <2>1, <3>1, <4>1 DEF Has
    <3>. QED  BY <2>5, <3>1, <3>3 DEF Record, LedgerInv, LedgerTyped
  <2>6. ASSUME NEW w \in Workers, Tick(w) \/ Claim(w) PROVE delivery'[d] = delivery[d]
    BY <2>6 DEF Tick, Claim, Deliveries
  <2>7. ASSUME NEW e \in Issues \X Readers, GoesStale(e) PROVE delivery'[d] = delivery[d]
    BY <2>7 DEF GoesStale, LedgerInv, LedgerTyped
  <2>. QED
    BY <2>3, <2>4, <2>5, <2>6, <2>7
    DEF Next, WorkerStep, ReadIssues, ReadPending, ReadClaimed, Send, Finalize, Close,
        Crash, Restart, Leave, Return, vars
<1>. QED  BY <1>1, LedgerHolds, PTL DEF Spec, SentIsTerminal
-----------------------------------------------------------------------------
(* The lifecycle of a post *)

\* A row's dates go with its status.
Dated(r) ==
  /\ r.status = "published" => r.at # Null
  /\ r.status = "scheduled" => r.due # Null /\ r.at = Null
  /\ r.status = "draft" => r.at = Null /\ r.due = Null

\* What a process is doing: one that has loaded a post has one, only people force a
\* resync, and a form holds a row that was there.
Errand == [pc : {"idle", "loaded", "half", "written"}, op : Ops \cup {"none", "follow"},
           post : Posts \cup {Null}, seen : Row]
Able(w, r) ==
  /\ r \in Errand /\ Dated(r.seen)
  /\ r.pc \in {"loaded", "half"} => r.post \in Posts
  /\ r.op = "resync" => w \in Authors
  /\ r.op = "form" => r.seen.exists

\* What a tick read is due by the time it read it.
Batches == {<< >>} \cup UNION {[S -> Row] : S \in SUBSET Posts}
Round == [now : Times, rows : Batches]
Ripe(k, hour) ==
  /\ k \in Round /\ k.now <= hour
  /\ k.rows # << >> => DOMAIN k.rows # {}
  /\ \A p \in DOMAIN k.rows : LET r == k.rows[p]
                              IN Dated(r) /\ r.due \in Times /\ r.due <= k.now

PostsTyped ==
  /\ now \in Times
  /\ page \in [version : 1..NumVersions, edits : 0..NumEdits]
  /\ post \in [Posts -> Row] /\ \A p \in Posts : Dated(post[p])
  /\ queue \in [Posts -> Nat]
  /\ req \in [Procs -> Errand] /\ \A w \in Procs : Able(w, req[w])
  /\ tick \in [Tickers -> Round] /\ \A t \in Tickers : Ripe(tick[t], now)
  /\ past \in [Posts -> SUBSET Marks]

\* The page has one post, and a post that exists has used its key.
OneFollower == \A p, q \in Posts : Linked(p) /\ Linked(q) => p = q
KeyUsed == \A p \in Posts : post[p].exists => "made" \in past[p]

\* A form between its two saves whose second one nothing will refuse: if the row it
\* holds follows the page, so does the post.
Mending(w, p) ==
  /\ req[w].pc = "half" /\ req[w].post = p
  /\ req[w].seen.source # 0 => Linked(p)
Mended == \A p \in Posts : post[p].html # post[p].text =>
            "torn" \in past[p] \/ \E w \in Authors : Mending(w, p)
Versioned == \A p \in Posts : Retyped(post[p]) => "retyped" \in past[p]
Stranded == \A p \in Posts : post[p].exists /\ post[p].sync = "manual" /\ Pending(p)
                               => "leftover" \in past[p]

PostsInv == /\ PostsTyped /\ OneFollower /\ KeyUsed
            /\ Mended /\ Versioned /\ Stranded
-----------------------------------------------------------------------------
(* Texts, rows, rounds *)

\* A set of natural numbers that is not empty has a least element.
LEMMA Least == ASSUME NEW S \in SUBSET Nat, S # {} PROVE \E m \in S : \A k \in S : m <= k
<1>. DEFINE R == {ss \in Nat \X Nat : ss[1] < ss[2]}
<1>1. IsWellFoundedOn(R, Nat)
  BY NatLessThanWellFounded, Zenon DEF OpToRel
<1>2. PICK m \in S : \A k \in S : ~ (<<k, m>> \in R)
  <2>. HIDE DEF R
  <2>. QED  BY <1>1, WFMin
<1>3. ASSUME NEW k \in S PROVE m <= k
  <2>1. <<k, m>> \in Nat \X Nat /\ m \in Nat /\ k \in Nat  OBVIOUS
  <2>2. <<k, m>>[1] = k /\ <<k, m>>[2] = m  OBVIOUS
  <2>3. ~ (<<k, m>>[1] < <<k, m>>[2])  BY <1>2, <2>1
  <2>. QED  BY <2>1, <2>2, <2>3
<1>. QED  BY <1>3

\* Times are numbers, and Null is none of them.
LEMMA TimesAre == Times \subseteq Nat /\ Null \notin Times /\ 0 \in Times
  BY PostsAssumption DEF PostsAssumption, Times

LEMMA TypedIs == Typed \in Texts /\ Typed[1] = 0
  BY DEF Texts, Typed

LEMMA PageIs ==
  ASSUME page \in [version : 1..NumVersions, edits : 0..NumEdits]
  PROVE  /\ PageText \in Texts /\ PageText[1] = page.version
         /\ Submitted \subseteq Texts
<1>1. page.version \in 1..NumVersions /\ page.edits \in 0..NumEdits
  OBVIOUS
<1>2. PageText \in (1..NumVersions) \X (0..NumEdits) /\ PageText[1] = page.version
  BY <1>1 DEF PageText
<1>3. ASSUME NEW v \in 1..page.version PROVE <<v, 0>> \in (1..NumVersions) \X (0..NumEdits)
  BY <1>1, PostsAssumption DEF PostsAssumption
<1>. QED  BY <1>2, <1>3, TypedIs DEF Texts, Submitted

LEMMA RowsAre ==
  /\ NoPost \in Row /\ Dated(NoPost) /\ NoPost.source = 0 /\ NoPost.html = NoPost.text
  /\ ~NoPost.exists /\ ~Retyped(NoPost)
  /\ Draft \in Row /\ Dated(Draft) /\ Draft.source = 0 /\ Draft.html = Draft.text
  /\ Draft.exists /\ ~Retyped(Draft) /\ Draft.status = "draft"
<1>1. Typed \in Texts /\ Typed[1] = 0 /\ 0 \in 0..NumVersions
  BY TypedIs, PostsAssumption DEF PostsAssumption
<1>2. NoPost \in Row /\ Draft \in Row
  BY <1>1 DEF NoPost, Draft, Row
<1>. QED
  BY <1>1, <1>2 DEF NoPost, Draft, Dated, Retyped

LEMMA EaseIs == \A w \in Procs : Able(w, AtEase) /\ AtEase.pc = "idle" /\ AtEase.op = "none"
  BY RowsAre DEF Able, Errand, AtEase

\* A batch is the rows of some posts; without a row it is << >>.
LEMMA BatchesAre ==
  /\ \A S \in SUBSET Posts : \A f \in [S -> Row] : f \in Batches
  /\ \A f \in Batches : f # << >> => DOMAIN f \in SUBSET Posts /\ f \in [DOMAIN f -> Row]
<1>1. ASSUME NEW S \in SUBSET Posts, NEW f \in [S -> Row] PROVE f \in Batches
  BY DEF Batches
<1>2. ASSUME NEW f \in Batches, f # << >>
      PROVE  DOMAIN f \in SUBSET Posts /\ f \in [DOMAIN f -> Row]
  BY <1>2 DEF Batches
<1>. QED  BY <1>1, <1>2

LEMMA NoTickIs == \A h \in Times : Ripe(NoTick, h) /\ NoTick.rows = << >> /\ DOMAIN << >> = {}
<1>1. NoTick \in Round  BY TimesAre DEF NoTick, Round, Batches
<1>2. NoTick.rows = << >> /\ DOMAIN << >> = {}  BY DEF NoTick
<1>. QED  BY <1>1, <1>2, TimesAre DEF NoTick, Ripe
-----------------------------------------------------------------------------
(* What a save does to the rows and to their history *)

LEMMA SaveIs ==
  ASSUME PostsTyped, NEW p \in Posts, NEW row \in Row, NEW seen \in Row, Dated(row),
         Save(p, row, seen)
  PROVE  /\ post' \in [Posts -> Row] /\ \A q \in Posts : Dated(post'[q])
         /\ past' \in [Posts -> SUBSET Marks]
         /\ \A q \in Posts \ {p} : post'[q] = post[q] /\ past'[q] = past[q]
         /\ \/ Duplicate(p, row) /\ post' = post /\ past' = past
            \/ /\ ~Duplicate(p, row) /\ post'[p] = row
               /\ "made" \in past'[p]
               /\ "torn" \in past'[p] <=>
                    row.html # row.text /\ ("torn" \in past[p] \/ seen.text # post[p].text)
               /\ "retyped" \in past'[p] <=>
                    Retyped(row) /\ ("retyped" \in past[p] \/ Editing(p) \/ Retyped(seen))
               /\ "leftover" \in past'[p] <=>
                    (Pending(p) /\ row.sync = "manual") \/ "leftover" \in past[p]
<1>1. CASE Duplicate(p, row)
  BY <1>1 DEF Save, PostsTyped
<1>2. CASE ~Duplicate(p, row)
  <2>. DEFINE marks ==
         [made |-> TRUE,
          torn |-> row.html # row.text /\ ("torn" \in past[p] \/ seen.text # post[p].text),
          retyped |-> Retyped(row) /\ ("retyped" \in past[p] \/ Editing(p) \/ Retyped(seen)),
          turned |-> /\ row.source < page.version
                     /\ \/ "turned" \in past[p]
                        \/ seen # post[p] /\ Follows(row) # Follows(post[p]),
          missed |-> row.source < page.version /\ "missed" \in past[p],
          leftover |-> (Pending(p) /\ row.sync = "manual") \/ "leftover" \in past[p]]
       kept == {m \in Marks : marks[m]}
  <2>1. post' = [post EXCEPT ![p] = row] /\ past' = [past EXCEPT ![p] = kept]
    BY <1>2 DEF Save, Marked
  <2>2. {"made", "torn", "retyped", "leftover"} \subseteq Marks
    BY DEF Marks
  <2>3. /\ marks["made"] = TRUE
        /\ marks["torn"] =
             (row.html # row.text /\ ("torn" \in past[p] \/ seen.text # post[p].text))
        /\ marks["retyped"] =
             (Retyped(row) /\ ("retyped" \in past[p] \/ Editing(p) \/ Retyped(seen)))
        /\ marks["leftover"] =
             ((Pending(p) /\ row.sync = "manual") \/ "leftover" \in past[p])
    OBVIOUS
  <2>4. /\ "made" \in kept
        /\ "torn" \in kept <=>
             row.html # row.text /\ ("torn" \in past[p] \/ seen.text # post[p].text)
        /\ "retyped" \in kept <=>
             Retyped(row) /\ ("retyped" \in past[p] \/ Editing(p) \/ Retyped(seen))
        /\ "leftover" \in kept <=>
             (Pending(p) /\ row.sync = "manual") \/ "leftover" \in past[p]
    <3>. HIDE DEF marks
    <3>1. \A m \in Marks : m \in kept <=> marks[m]
      BY Zenon
    <3>. HIDE DEF kept
    <3>. QED  BY <2>2, <2>3, <3>1, Zenon
  <2>5. past' \in [Posts -> SUBSET Marks] /\ past'[p] = kept
        /\ \A q \in Posts \ {p} : past'[q] = past[q]
    <3>1. kept \in SUBSET Marks  OBVIOUS
    <3>. HIDE DEF kept
    <3>. QED  BY <2>1, <3>1 DEF PostsTyped
  <2>6. /\ post' \in [Posts -> Row] /\ post'[p] = row
        /\ \A q \in Posts \ {p} : post'[q] = post[q]
    BY <2>1 DEF PostsTyped
  <2>7. \A q \in Posts : Dated(post'[q])
    BY <2>6 DEF PostsTyped
  <2>. HIDE DEF kept, marks
  <2>. QED
    BY <1>2, <2>4, <2>5, <2>6, <2>7
<1>. QED  BY <1>1, <1>2

\* A save keeps the invariant if a row it leaves with another html than its text's has a
\* form to mend it, and an editor or its own past to answer for a text put back.
LEMMA SaveKeeps ==
  ASSUME PostsInv, NEW p \in Posts, NEW row \in Row, NEW seen \in Row, Dated(row),
         Save(p, row, seen), UNCHANGED <<now, page, queue>>,
         req' \in [Procs -> Errand], \A w \in Procs : Able(w, req'[w]),
         tick' \in [Tickers -> Round], \A t \in Tickers : Ripe(tick'[t], now),
         \A q \in Posts : Pending(q)' => Pending(q),
         Retyped(row) => "retyped" \in past[p] \/ Editing(p) \/ Retyped(seen),
         \A q \in Posts, w \in Authors :
           Mending(w, q) /\ (q # p \/ Duplicate(p, row)) => req'[w] = req[w],
         row.html # row.text /\ ~Duplicate(p, row)
           => \/ "torn" \in past[p] \/ seen.text # post[p].text
              \/ \E w \in Authors :
                   /\ req'[w].pc = "half" /\ req'[w].post = p
                   /\ req'[w].seen.source # 0 => row.exists /\ row.source # 0
  PROVE  PostsInv'
<1>. USE DEF PostsInv
<1>1. /\ post' \in [Posts -> Row] /\ \A q \in Posts : Dated(post'[q])
      /\ past' \in [Posts -> SUBSET Marks]
      /\ \A q \in Posts \ {p} : post'[q] = post[q] /\ past'[q] = past[q]
  BY SaveIs
<1>2. \/ Duplicate(p, row) /\ post' = post /\ past' = past
      \/ /\ ~Duplicate(p, row) /\ post'[p] = row
         /\ "made" \in past'[p]
         /\ "torn" \in past'[p] <=>
              row.html # row.text /\ ("torn" \in past[p] \/ seen.text # post[p].text)
         /\ "retyped" \in past'[p] <=>
              Retyped(row) /\ ("retyped" \in past[p] \/ Editing(p) \/ Retyped(seen))
         /\ "leftover" \in past'[p] <=>
              (Pending(p) /\ row.sync = "manual") \/ "leftover" \in past[p]
  BY SaveIs
<1>3. PostsTyped'
  BY <1>1 DEF PostsTyped
<1>4. OneFollower'
  BY <1>1, <1>2 DEF OneFollower, Linked, Duplicate
<1>5. KeyUsed'
  BY <1>1, <1>2 DEF KeyUsed
<1>6. Versioned'
  <2>1. \A q \in Posts \ {p} : Retyped(post'[q]) = Retyped(post[q])  BY <1>1
  <2>2. Retyped(post'[p]) => "retyped" \in past'[p]
    <3>1. CASE post' = post /\ past' = past  BY <3>1 DEF Versioned
    <3>2. CASE post'[p] = row  BY <1>2, <3>2 DEF Versioned
    <3>. QED  BY <1>2, <3>1, <3>2
  <2>. QED  BY <1>1, <2>1, <2>2 DEF Versioned
<1>7. Stranded'
  BY <1>1, <1>2 DEF Stranded
<1>8. Mended'
  <2>1. ASSUME NEW q \in Posts, post'[q].html # post'[q].text, "torn" \notin past'[q]
        PROVE  \E w \in Authors : Mending(w, q)'
    <3>1. CASE q # p \/ Duplicate(p, row)
      <4>1. post'[q] = post[q] /\ past'[q] = past[q]
        BY <1>1, <1>2, <3>1
      <4>2. PICK w \in Authors : Mending(w, q)
        BY <2>1, <4>1 DEF Mended
      <4>3. req'[w] = req[w]
        BY <3>1, <4>2
      <4>. QED  BY <4>1, <4>2, <4>3 DEF Mending, Linked
    <3>2. CASE q = p /\ ~Duplicate(p, row)
      <4>1. post'[p] = row /\ row.html # row.text /\ "torn" \notin past[p]
            /\ seen.text = post[p].text
        BY <1>2, <2>1, <3>2
      <4>2. PICK w \in Authors : /\ req'[w].pc = "half" /\ req'[w].post = p
                                 /\ req'[w].seen.source # 0 => row.exists /\ row.source # 0
        BY <3>2, <4>1
      <4>. QED  BY <3>2, <4>1, <4>2 DEF Mending, Linked
    <3>. QED  BY <3>1, <3>2
  <2>. QED  BY <2>1 DEF Mended
<1>. QED  BY <1>3, <1>4, <1>5, <1>6, <1>7, <1>8

\* So does a step that saves nothing, if it leaves the forms at work alone and queues
\* nothing for a post that is manual.
LEMMA RestKeeps ==
  ASSUME PostsInv, UNCHANGED <<post, past>>,
         now' \in Times, now <= now', page' \in [version : 1..NumVersions, edits : 0..NumEdits],
         queue' \in [Posts -> Nat],
         req' \in [Procs -> Errand], \A w \in Procs : Able(w, req'[w]),
         tick' \in [Tickers -> Round], \A t \in Tickers : Ripe(tick'[t], now'),
         \A q \in Posts : Pending(q)' => Pending(q) \/ post[q].sync # "manual",
         \A q \in Posts, w \in Authors : Mending(w, q) => req'[w] = req[w]
  PROVE  PostsInv'
<1>. USE DEF PostsInv
<1>1. PostsTyped'
  BY DEF PostsTyped
<1>2. OneFollower' /\ KeyUsed' /\ Versioned' /\ Stranded'
  BY DEF OneFollower, KeyUsed, Versioned, Stranded, Linked
<1>3. Mended'
  <2>1. \A q \in Posts, w \in Authors : Mending(w, q) => Mending(w, q)'
    BY DEF Mending, Linked
  <2>. QED  BY <2>1 DEF Mended
<1>. QED  BY <1>1, <1>2, <1>3

\* One process goes on with another errand: what is then pending, and which forms stay.
LEMMA TurnIs ==
  ASSUME PostsTyped, NEW w \in Procs, NEW r, Able(w, r), Turn(w, r)
  PROVE  /\ req' \in [Procs -> Errand] /\ \A v \in Procs : Able(v, req'[v])
         /\ req'[w] = r /\ \A v \in Procs \ {w} : req'[v] = req[v]
  BY DEF PostsTyped, Turn, Able

LEMMA TurnPending ==
  ASSUME PostsTyped, NEW w \in Procs, NEW r, Able(w, r), Turn(w, r), queue' = queue,
         NEW q \in Posts, Pending(q)'
  PROVE  Pending(q) \/ (r.op = "follow" /\ r.post = q)
<1>1. req'[w] = r /\ \A v \in Procs \ {w} : req'[v] = req[v]
  BY TurnIs
<1>. QED  BY <1>1 DEF Pending
-----------------------------------------------------------------------------
(* Requests *)

\* A process that is not between the two saves of a form saves a row and goes on with r.
LEMMA StepSave ==
  ASSUME PostsInv, NEW w \in Procs, NEW r, Able(w, r), Turn(w, r), r.op # "follow",
         req[w].pc # "half", UNCHANGED <<now, page, queue, tick>>,
         NEW p \in Posts, NEW row \in Row, NEW seen \in Row, Dated(row), Save(p, row, seen),
         Retyped(row) => "retyped" \in past[p] \/ Editing(p) \/ Retyped(seen),
         row.html # row.text
           => \/ "torn" \in past[p] \/ seen.text # post[p].text
              \/ /\ w \in Authors /\ r.pc = "half" /\ r.post = p
                 /\ row.exists /\ row.source = r.seen.source
              \/ /\ post[p].html # post[p].text
                 /\ row.exists = post[p].exists /\ row.source = post[p].source
  PROVE  PostsInv'
<1>. USE DEF PostsInv
<1>1. /\ req' \in [Procs -> Errand] /\ \A v \in Procs : Able(v, req'[v])
      /\ req'[w] = r /\ \A v \in Procs \ {w} : req'[v] = req[v]
  BY TurnIs
<1>2. \A q \in Posts : Pending(q)' => Pending(q)
  BY TurnPending
<1>3. \A q \in Posts, v \in Authors : Mending(v, q) => req'[v] = req[v]
  BY <1>1 DEF Mending, Procs
<1>4. tick' \in [Tickers -> Round] /\ \A t \in Tickers : Ripe(tick'[t], now)
  BY DEF PostsTyped
<1>5. row.html # row.text /\ ~Duplicate(p, row)
        => \/ "torn" \in past[p] \/ seen.text # post[p].text
           \/ \E v \in Authors :
                /\ req'[v].pc = "half" /\ req'[v].post = p
                /\ req'[v].seen.source # 0 => row.exists /\ row.source # 0
  <2>. SUFFICES ASSUME row.html # row.text,
                       "torn" \notin past[p], seen.text = post[p].text
                PROVE  \E v \in Authors :
                         /\ req'[v].pc = "half" /\ req'[v].post = p
                         /\ req'[v].seen.source # 0 => row.exists /\ row.source # 0
    OBVIOUS
  <2>1. CASE w \in Authors /\ r.pc = "half" /\ r.post = p
             /\ row.exists /\ row.source = r.seen.source
    BY <1>1, <2>1
  <2>2. CASE post[p].html # post[p].text
             /\ row.exists = post[p].exists /\ row.source = post[p].source
    <3>1. PICK v \in Authors : Mending(v, p)
      BY <2>2 DEF Mended
    <3>. QED  BY <1>3, <2>2, <3>1 DEF Mending, Linked
  <2>. QED  BY <2>1, <2>2
<1>. QED
  BY SaveKeeps, <1>1, <1>2, <1>3, <1>4, <1>5

\* ... or saves nothing.
LEMMA StepRests ==
  ASSUME PostsInv, NEW w \in Procs, NEW r, Able(w, r), Turn(w, r),
         r.op = "follow" => r.post \in Posts /\ (Pending(r.post) \/ AutoSynced(r.post)),
         req[w].pc # "half", UNCHANGED <<now, queue, tick, post, past>>,
         page' \in [version : 1..NumVersions, edits : 0..NumEdits]
  PROVE  PostsInv'
<1>. USE DEF PostsInv
<1>1. /\ req' \in [Procs -> Errand] /\ \A v \in Procs : Able(v, req'[v])
      /\ req'[w] = r /\ \A v \in Procs \ {w} : req'[v] = req[v]
  BY TurnIs
<1>2. \A q \in Posts : Pending(q)' => Pending(q) \/ post[q].sync # "manual"
  BY TurnPending DEF AutoSynced
<1>3. \A q \in Posts, v \in Authors : Mending(v, q) => req'[v] = req[v]
  BY <1>1 DEF Mending, Procs
<1>4. now' \in Times /\ now <= now' /\ queue' \in [Posts -> Nat]
      /\ tick' \in [Tickers -> Round] /\ \A t \in Tickers : Ripe(tick'[t], now')
  BY TimesAre DEF PostsTyped
<1>. QED  BY RestKeeps, <1>1, <1>2, <1>3, <1>4

\* What a process that has loaded a post holds.
LEMMA LoadedIs ==
  ASSUME PostsTyped, NEW w \in Procs, req[w].pc \in {"loaded", "half"}
  PROVE  /\ req[w].post \in Posts /\ req[w].seen \in Row /\ Dated(req[w].seen)
         /\ req[w].op = "form" => req[w].seen.exists
         /\ now \in Times /\ post[req[w].post] \in Row /\ Dated(post[req[w].post])
  BY DEF PostsTyped, Able, Errand

LEMMA LiveIs ==
  ASSUME NEW d \in Row, NEW t \in Times
  PROVE  /\ GoneLive(d, t) \in Row /\ Dated(GoneLive(d, t))
         /\ GoneLive(d, t).html = GoneLive(d, t).text
         /\ GoneLive(d, t).source = d.source /\ GoneLive(d, t).text = d.text
         /\ GoneLive(d, t).exists = d.exists /\ GoneLive(d, t).at = t
         /\ GoneLive(d, t).status = "published" /\ GoneLive(d, t).sync = d.sync
  BY TimesAre DEF GoneLive, Row, Dated

LEMMA LoadKeeps ==
  ASSUME PostsInv, NEW w \in Authors, NEW p \in Posts, NEW op \in Ops, Load(w, p, op)
  PROVE  PostsInv'
<1>. DEFINE r == Loaded(op, p, post[p])
<1>1. Able(w, r) /\ r.op # "follow"
  BY RowsAre DEF PostsInv, PostsTyped, Load, Loaded, Able, Errand, Ops, Transitions
<1>2. w \in Procs /\ Turn(w, r) /\ req[w].pc # "half"
      /\ UNCHANGED <<now, queue, tick, post, past>> /\ page' = page
  BY DEF Load, Procs
<1>3. page \in [version : 1..NumVersions, edits : 0..NumEdits]
  BY DEF PostsInv, PostsTyped
<1>. HIDE DEF r
<1>. QED  BY StepRests, <1>1, <1>2, <1>3

LEMMA PublishKeeps == ASSUME PostsInv, NEW w \in Authors, Publish(w) PROVE PostsInv'
<1>. DEFINE p == req[w].post
            d == req[w].seen
            t == IF d.at # Null THEN d.at ELSE now
<1>0. w \in Procs /\ req[w].pc = "loaded" /\ Turn(w, AtEase) /\ UNCHANGED <<now, page, queue, tick>>
      /\ Able(w, AtEase) /\ AtEase.op # "follow"
  BY EaseIs DEF Publish, Do, Procs, Rest
<1>1. p \in Posts /\ d \in Row /\ Dated(d) /\ t \in Times
  BY <1>0, LoadedIs DEF PostsInv, Row
<1>2. CASE UNCHANGED <<post, past>>
  BY <1>0, <1>2, StepRests DEF PostsInv, PostsTyped
<1>3. CASE Save(p, GoneLive(d, t), d)
  <2>1. Retyped(GoneLive(d, t)) => Retyped(d)
    BY <1>1, LiveIs DEF Retyped
  <2>. HIDE DEF p, d, t
  <2>. QED  BY <1>0, <1>1, <1>3, <2>1, LiveIs, StepSave
<1>. QED  BY <1>2, <1>3 DEF Publish

LEMMA UnpublishKeeps == ASSUME PostsInv, NEW w \in Authors, Unpublish(w) PROVE PostsInv'
<1>. DEFINE p == req[w].post
            row == [post[p] EXCEPT !.status = "draft", !.at = Null, !.due = Null]
<1>0. w \in Procs /\ req[w].pc = "loaded" /\ Turn(w, AtEase) /\ UNCHANGED <<now, page, queue, tick>>
      /\ Able(w, AtEase) /\ AtEase.op # "follow"
  BY EaseIs DEF Unpublish, Do, Procs, Rest
<1>1. p \in Posts /\ post[p] \in Row
  BY <1>0, LoadedIs DEF PostsInv
<1>2. CASE UNCHANGED <<post, past>>
  BY <1>0, <1>2, StepRests DEF PostsInv, PostsTyped
<1>3. CASE Save(p, row, post[p])
  <2>1. /\ row \in Row /\ Dated(row) /\ row.source = post[p].source /\ row.text = post[p].text
        /\ row.html = post[p].html /\ row.exists = post[p].exists
    BY <1>1 DEF Row, Dated
  <2>2. Retyped(row) => Retyped(post[p])
    BY <2>1 DEF Retyped
  <2>. HIDE DEF p, row
  <2>. QED  BY <1>0, <1>1, <1>3, <2>1, <2>2, StepSave
<1>. QED  BY <1>2, <1>3 DEF Unpublish, SaveFields

LEMMA ScheduleKeeps == ASSUME PostsInv, NEW w \in Authors, Schedule(w) PROVE PostsInv'
<1>. DEFINE p == req[w].post
            d == req[w].seen
<1>0. w \in Procs /\ req[w].pc = "loaded" /\ Turn(w, AtEase) /\ UNCHANGED <<now, page, queue, tick>>
      /\ Able(w, AtEase) /\ AtEase.op # "follow"
  BY EaseIs DEF Schedule, Do, Procs, Rest
<1>1. p \in Posts /\ d \in Row
  BY <1>0, LoadedIs DEF PostsInv
<1>2. PICK t \in Times :
        Save(p, [d EXCEPT !.status = "scheduled", !.due = t, !.at = Null, !.html = d.text], d)
  BY DEF Schedule
<1>. DEFINE row == [d EXCEPT !.status = "scheduled", !.due = t, !.at = Null, !.html = d.text]
<1>3. /\ row \in Row /\ Dated(row) /\ row.html = row.text
      /\ row.source = d.source /\ row.text = d.text
  BY <1>1, TimesAre DEF Row, Dated
<1>4. Retyped(row) => Retyped(d)
  BY <1>3 DEF Retyped
<1>5. Save(p, row, d)  BY <1>2
<1>. HIDE DEF p, row, d
<1>. QED  BY <1>0, <1>1, <1>3, <1>4, <1>5, StepSave

LEMMA ArchiveKeeps == ASSUME PostsInv, NEW w \in Authors, Archive(w) PROVE PostsInv'
<1>. DEFINE p == req[w].post
            row == [post[p] EXCEPT !.status = "archived", !.due = Null]
<1>0. w \in Procs /\ req[w].pc = "loaded" /\ Turn(w, AtEase) /\ UNCHANGED <<now, page, queue, tick>>
      /\ Able(w, AtEase) /\ AtEase.op # "follow"
  BY EaseIs DEF Archive, Do, Procs, Rest
<1>1. p \in Posts /\ post[p] \in Row
  BY <1>0, LoadedIs DEF PostsInv
<1>2. CASE UNCHANGED <<post, past>>
  BY <1>0, <1>2, StepRests DEF PostsInv, PostsTyped
<1>3. CASE Save(p, row, post[p])
  <2>1. /\ row \in Row /\ Dated(row) /\ row.source = post[p].source /\ row.text = post[p].text
        /\ row.html = post[p].html /\ row.exists = post[p].exists
    BY <1>1 DEF Row, Dated
  <2>2. Retyped(row) => Retyped(post[p])
    BY <2>1 DEF Retyped
  <2>. HIDE DEF p, row
  <2>. QED  BY <1>0, <1>1, <1>3, <2>1, <2>2, StepSave
<1>. QED  BY <1>2, <1>3 DEF Archive, SaveFields

\* After a save the studio's request is over, or presses a button with its instance.
LEMMA AndThenIs ==
  ASSUME NEW w \in Procs, NEW p \in Posts, NEW row \in Row, Dated(row), AndThen(w, p, row)
  PROVE  \E r : Able(w, r) /\ Turn(w, r) /\ r.op # "follow"
<1>1. Able(w, AtEase) /\ AtEase.op # "follow"
  BY EaseIs
<1>2. ASSUME NEW op \in Transitions
      PROVE  Able(w, Loaded(op, p, row)) /\ Loaded(op, p, row).op # "follow"
  BY RowsAre DEF Able, Loaded, Errand, Ops, Transitions
<1>. QED  BY <1>1, <1>2 DEF AndThen

LEMMA CreateKeeps ==
  ASSUME PostsInv, NEW w \in Authors, NEW p \in Posts, Create(w, p) PROVE PostsInv'
<1>1. w \in Procs /\ req[w].pc # "half" /\ UNCHANGED <<now, page, queue, tick>>
      /\ Save(p, Draft, NoPost) /\ AndThen(w, p, Draft)
  BY DEF Create, Procs
<1>2. PICK r : Able(w, r) /\ Turn(w, r) /\ r.op # "follow"
  BY <1>1, AndThenIs, RowsAre
<1>. QED  BY <1>1, <1>2, RowsAre, StepSave

LEMMA BareIs ==
  ASSUME NEW w \in Procs, NEW p \in Posts
  PROVE  LET row == [Draft EXCEPT !.html = Null]
             r == [pc |-> "half", op |-> "form", post |-> p, seen |-> row]
         IN /\ row \in Row /\ Dated(row) /\ row.source = 0 /\ row.exists /\ ~Retyped(row)
            /\ row.status = "draft"
            /\ w \in Authors => Able(w, r)
<1> DEFINE row == [Draft EXCEPT !.html = Null]
           r == [pc |-> "half", op |-> "form", post |-> p, seen |-> row]
<1>1. /\ row \in Row /\ Dated(row) /\ row.source = 0 /\ row.exists /\ ~Retyped(row)
      /\ row.status = "draft"
  BY RowsAre DEF Row, Dated, Retyped
<1> HIDE DEF row
<1>2. w \in Authors => Able(w, r)
  BY <1>1 DEF Able, Errand, Ops
<1>. QED  BY <1>1, <1>2 DEF row

\* A row that was never rendered has its form between two saves.
LEMMA FormCreateKeeps ==
  ASSUME PostsInv, NEW w \in Authors, NEW p \in Posts, FormCreate(w, p) PROVE PostsInv'
<1> DEFINE row == [Draft EXCEPT !.html = Null]
           r == [pc |-> "half", op |-> "form", post |-> p, seen |-> row]
<1>1. w \in Procs /\ req[w].pc # "half" /\ UNCHANGED <<now, page, queue, tick>>
      /\ Save(p, row, NoPost) /\ Turn(w, r)
  BY DEF FormCreate, Procs
<1>2. /\ row \in Row /\ Dated(row) /\ row.source = 0 /\ row.exists /\ ~Retyped(row)
      /\ Able(w, r)
  BY <1>1, BareIs
<1>3. r.op # "follow" /\ r.pc = "half" /\ r.post = p /\ r.seen = row
  OBVIOUS
<1> HIDE DEF row, r
<1>. QED  BY <1>1, <1>2, <1>3, RowsAre, StepSave

LEMMA EditKeeps == ASSUME PostsInv, NEW w \in Authors, Edit(w) PROVE PostsInv'
<1>. DEFINE p == req[w].post
            d == req[w].seen
<1>0. w \in Procs /\ req[w].pc = "loaded" /\ req[w].op = "edit"
      /\ UNCHANGED <<now, page, queue, tick>>
  BY DEF Edit, Do, Procs, Rest
<1>1. p \in Posts /\ d \in Row /\ Dated(d) /\ post[p] \in Row /\ Dated(post[p])
  BY <1>0, LoadedIs DEF PostsInv
<1>2. PICK t \in Submitted :
          /\ SaveFields(p, [post[p] EXCEPT !.text = t, !.html = t])
          /\ IF post[p].exists THEN AndThen(w, p, [d EXCEPT !.text = t, !.html = t])
                               ELSE Turn(w, AtEase)
  BY DEF Edit
<1>. DEFINE row == [post[p] EXCEPT !.text = t, !.html = t]
            kept == [d EXCEPT !.text = t, !.html = t]
<1>3. t \in Texts
  BY <1>2, PageIs DEF PostsInv, PostsTyped
<1>4. row \in Row /\ Dated(row) /\ row.html = row.text /\ kept \in Row /\ Dated(kept)
  BY <1>1, <1>3 DEF Row, Dated
<1>5. PICK r : Able(w, r) /\ Turn(w, r) /\ r.op # "follow"
  <2>. HIDE DEF p, row, kept
  <2>. QED  BY <1>0, <1>1, <1>2, <1>4, AndThenIs, EaseIs DEF kept
<1>6. CASE UNCHANGED <<post, past>>
  BY <1>0, <1>5, <1>6, StepRests DEF PostsInv, PostsTyped
<1>7. CASE Save(p, row, post[p])
  <2>1. Editing(p)  BY <1>0 DEF Editing
  <2>. HIDE DEF p, row, kept
  <2>. QED  BY <1>0, <1>1, <1>4, <1>5, <1>7, <2>1, StepSave
<1>. QED  BY <1>2, <1>6, <1>7 DEF SaveFields

LEMMA FormSaveKeeps == ASSUME PostsInv, NEW w \in Authors, FormSave(w) PROVE PostsInv'
<1>. DEFINE p == req[w].post
            d == req[w].seen
<1>0. w \in Procs /\ req[w].pc = "loaded" /\ req[w].op = "form"
      /\ UNCHANGED <<now, page, queue, tick>>
  BY DEF FormSave, Do, Procs, Rest
<1>1. p \in Posts /\ d \in Row /\ Dated(d) /\ d.exists
  BY <1>0, LoadedIs DEF PostsInv
<1>2. PICK t \in Submitted :
        LET row == [d EXCEPT !.text = t]
        IN /\ Save(p, row, d)
           /\ Turn(w, IF Duplicate(p, row) THEN AtEase
                      ELSE [req[w] EXCEPT !.pc = "half", !.seen = row])
  BY DEF FormSave
<1>. DEFINE row == [d EXCEPT !.text = t]
            r == [req[w] EXCEPT !.pc = "half", !.seen = row]
<1>3. t \in Texts
  BY <1>2, PageIs DEF PostsInv, PostsTyped
<1>4. row \in Row /\ Dated(row) /\ row.exists
  BY <1>1, <1>3 DEF Row, Dated
<1>5. req[w] \in Errand /\ Able(w, req[w])
  BY <1>0 DEF PostsInv, PostsTyped
<1>6. /\ Able(w, r) /\ r.op # "follow" /\ r.pc = "half" /\ r.post = p /\ r.seen = row
  <2>. HIDE DEF row
  <2>. QED  BY <1>0, <1>4, <1>5 DEF Able, Errand
<1>7. Editing(p)  BY <1>0 DEF Editing
<1>8. Save(p, row, d) /\ Turn(w, IF Duplicate(p, row) THEN AtEase ELSE r)  BY <1>2
<1>9. Able(w, AtEase) /\ AtEase.op # "follow"  BY <1>0, EaseIs
<1>. HIDE DEF p, d, row, r
<1>10. CASE Duplicate(p, row)
  <2>1. UNCHANGED <<post, past>> /\ Turn(w, AtEase)  BY <1>8, <1>10 DEF Save
  <2>. QED  BY <1>0, <1>9, <2>1, StepRests DEF PostsInv, PostsTyped
<1>11. CASE ~Duplicate(p, row)
  BY <1>0, <1>1, <1>4, <1>6, <1>7, <1>8, <1>11, StepSave
<1>. QED  BY <1>10, <1>11

\* The second save of a form is never refused while its post needs it.
LEMMA FormRenderKeeps == ASSUME PostsInv, NEW w \in Authors, FormRender(w) PROVE PostsInv'
<1>. DEFINE p == req[w].post
            d == req[w].seen
            row == [d EXCEPT !.html = d.text]
<1>0. w \in Procs /\ req[w].pc = "half" /\ req[w].op = "form" /\ Turn(w, AtEase)
      /\ UNCHANGED <<now, page, queue, tick>> /\ Able(w, AtEase) /\ AtEase.op # "follow"
      /\ Save(p, row, d)
  BY EaseIs DEF FormRender, Do, Procs, Rest
<1>1. p \in Posts /\ d \in Row /\ Dated(d)
  BY <1>0, LoadedIs DEF PostsInv
<1>2. /\ row \in Row /\ Dated(row) /\ row.html = row.text /\ row.source = d.source
  BY <1>1 DEF Row, Dated
<1>3. Editing(p)  BY <1>0 DEF Editing
<1>4. /\ req' \in [Procs -> Errand] /\ \A v \in Procs : Able(v, req'[v])
      /\ \A v \in Procs \ {w} : req'[v] = req[v]
  BY <1>0, TurnIs DEF PostsInv
<1>5. \A q \in Posts : Pending(q)' => Pending(q)
  BY <1>0, TurnPending DEF PostsInv
<1>6. ASSUME NEW q \in Posts, NEW v \in Authors, Mending(v, q), q # p \/ Duplicate(p, row)
      PROVE  req'[v] = req[v]
  <2>1. CASE v # w
    BY <1>4, <2>1 DEF Procs
  <2>2. CASE v = w
    <3>1. q = p /\ Duplicate(p, row)
      BY <1>6, <2>2 DEF Mending
    <3>2. Linked(p)
      BY <1>2, <1>6, <2>2, <3>1 DEF Mending, Duplicate
    <3>. QED
      BY <1>1, <3>1, <3>2 DEF PostsInv, OneFollower, Duplicate
  <2>. QED  BY <2>1, <2>2
<1>7. tick' \in [Tickers -> Round] /\ \A t \in Tickers : Ripe(tick'[t], now)
  BY <1>0 DEF PostsInv, PostsTyped
<1>. HIDE DEF p, d, row
<1>. QED
  BY <1>0, <1>1, <1>2, <1>3, <1>4, <1>5, <1>6, <1>7, SaveKeeps

LEMMA RerenderKeeps == ASSUME PostsInv, NEW w \in Authors, Rerender(w) PROVE PostsInv'
<1>. DEFINE p == req[w].post
            row == [post[p] EXCEPT !.html = req[w].seen.text]
<1>0. w \in Procs /\ req[w].pc = "loaded" /\ Turn(w, AtEase) /\ UNCHANGED <<now, page, queue, tick>>
      /\ Able(w, AtEase) /\ AtEase.op # "follow"
  BY EaseIs DEF Rerender, Do, Procs, Rest
<1>1. p \in Posts /\ post[p] \in Row /\ Dated(post[p]) /\ req[w].seen \in Row
  BY <1>0, LoadedIs DEF PostsInv
<1>2. CASE UNCHANGED <<post, past>>
  BY <1>0, <1>2, StepRests DEF PostsInv, PostsTyped
<1>3. CASE Save(p, row, req[w].seen)
  <2>1. /\ row \in Row /\ Dated(row) /\ row.source = post[p].source /\ row.text = post[p].text
        /\ row.html = req[w].seen.text
    BY <1>1 DEF Row, Dated
  <2>2. Retyped(row) => "retyped" \in past[p]
    BY <1>1, <2>1 DEF Retyped, PostsInv, Versioned
  <2>. HIDE DEF p, row
  <2>. QED  BY <1>0, <1>1, <1>3, <2>1, <2>2, StepSave
<1>. QED  BY <1>2, <1>3 DEF Rerender

LEMMA FromPageIs ==
  ASSUME PostsTyped, NEW d \in Row, Dated(d)
  PROVE  /\ FromPage(d) \in Row /\ Dated(FromPage(d)) /\ ~Retyped(FromPage(d))
         /\ FromPage(d).html = FromPage(d).text /\ FromPage(d).text = PageText
         /\ FromPage(d).status = d.status /\ FromPage(d).at = d.at
         /\ FromPage(d).exists = d.exists
<1>1. page.version \in 0..NumVersions /\ PageText \in Texts /\ PageText[1] = page.version
  BY PageIs, PostsAssumption DEF PostsTyped, PostsAssumption
<1>. QED
  BY <1>1 DEF FromPage, Row, Dated, Retyped

LEMMA ResyncKeeps == ASSUME PostsInv, NEW w \in Procs, Resync(w) PROVE PostsInv'
<1>. DEFINE p == req[w].post
            d == req[w].seen
<1>0. req[w].pc = "loaded" /\ Turn(w, AtEase) /\ UNCHANGED <<now, page, queue, tick>>
      /\ Able(w, AtEase) /\ AtEase.op # "follow"
  BY EaseIs DEF Resync, Do, Rest
<1>1. p \in Posts /\ d \in Row /\ Dated(d)
  BY <1>0, LoadedIs DEF PostsInv
<1>2. CASE UNCHANGED <<post, past>>
  BY <1>0, <1>2, StepRests DEF PostsInv, PostsTyped
<1>3. CASE Save(p, FromPage(d), d)
  <2>. HIDE DEF p, d
  <2>. QED  BY <1>0, <1>1, <1>3, FromPageIs, StepSave DEF PostsInv
<1>. QED  BY <1>2, <1>3 DEF Resync
-----------------------------------------------------------------------------
(* The page, the tick, and what happens to no request *)

\* What an import writes of the row it read in the same transaction.
ImportRow(p, live, sync) ==
  LET d == IF post[p].exists THEN post[p] ELSE Draft
      row == [FromPage(d) EXCEPT !.sync = sync]
  IN IF live THEN [row EXCEPT !.status = "published", !.at = IF d.at # Null THEN d.at ELSE now]
             ELSE row

LEMMA ImportRowIs ==
  ASSUME PostsTyped, NEW p \in Posts, NEW live \in BOOLEAN, NEW sync \in {"manual", "auto"}
  PROVE  LET x == ImportRow(p, live, sync)
         IN /\ x \in Row /\ Dated(x) /\ ~Retyped(x) /\ x.html = x.text /\ x.text = PageText
            /\ Public(post[p]) => x.at = post[p].at
            /\ Public(x) => Public(post[p]) \/ live
<1>. DEFINE d == IF post[p].exists THEN post[p] ELSE Draft
            row == [FromPage(d) EXCEPT !.sync = sync]
            t == IF d.at # Null THEN d.at ELSE now
<1>1. d \in Row /\ Dated(d) /\ t \in Times
  BY RowsAre DEF PostsTyped, Row
<1>2. /\ row \in Row /\ Dated(row) /\ ~Retyped(row) /\ row.html = row.text
      /\ row.text = PageText /\ row.status = d.status /\ row.at = d.at
      /\ row.exists = d.exists
  <2>. HIDE DEF d
  <2>1. FromPage(d) \in Row /\ Dated(FromPage(d)) /\ ~Retyped(FromPage(d))
        /\ FromPage(d).html = FromPage(d).text /\ FromPage(d).text = PageText
        /\ FromPage(d).status = d.status /\ FromPage(d).at = d.at
        /\ FromPage(d).exists = d.exists
    BY <1>1, FromPageIs
  <2>. QED  BY <2>1 DEF Row, Dated, Retyped
<1>3. Public(post[p]) => d = post[p] /\ d.at # Null
  BY DEF Public, PostsTyped, Dated
<1>4. Public(d) => Public(post[p])
  BY RowsAre DEF Public
<1>5. ImportRow(p, live, sync) =
        IF live THEN [row EXCEPT !.status = "published", !.at = t] ELSE row
  BY DEF ImportRow
<1>. HIDE DEF d, row
<1>6. CASE live
  <2>. DEFINE x == [row EXCEPT !.status = "published", !.at = t]
  <2>1. ImportRow(p, live, sync) = x
    BY <1>5, <1>6
  <2>2. /\ x \in Row /\ x.status = "published" /\ x.at = t /\ x.text = row.text
        /\ x.html = row.html /\ x.source = row.source
    BY <1>1, <1>2 DEF Row
  <2>3. Public(post[p]) => t = post[p].at
    BY <1>3
  <2>. HIDE DEF x, t
  <2>4. Dated(x) /\ ~Retyped(x)
    BY <1>1, <1>2, <2>2, TimesAre DEF Dated, Retyped
  <2>. QED  BY <1>2, <1>6, <2>1, <2>2, <2>3, <2>4
<1>7. CASE ~live
  BY <1>1, <1>2, <1>3, <1>4, <1>5, <1>7 DEF Public
<1>. QED  BY <1>6, <1>7

LEMMA ImportKeeps ==
  ASSUME PostsInv, NEW p \in Posts, NEW live \in BOOLEAN, NEW sync \in {"manual", "auto"},
         Import(p, live, sync)
  PROVE  PostsInv'
<1>. DEFINE x == ImportRow(p, live, sync)
<1>1. x \in Row /\ Dated(x) /\ ~Retyped(x) /\ x.html = x.text /\ post[p] \in Row
  BY ImportRowIs DEF PostsInv, PostsTyped
<1>2. Save(p, x, post[p]) /\ UNCHANGED <<now, page, queue, req, tick>>
  BY DEF Import, ImportRow
<1>3. req' \in [Procs -> Errand] /\ \A w \in Procs : Able(w, req'[w])
  BY <1>2 DEF PostsInv, PostsTyped
<1>4. tick' \in [Tickers -> Round] /\ \A t \in Tickers : Ripe(tick'[t], now)
  BY <1>2 DEF PostsInv, PostsTyped
<1>5. \A q \in Posts : Pending(q)' => Pending(q)
  BY <1>2 DEF Pending
<1>. HIDE DEF x
<1>. QED  BY <1>1, <1>2, <1>3, <1>4, <1>5, SaveKeeps

LEMMA DeleteKeeps == ASSUME PostsInv, NEW p \in Posts, Delete(p) PROVE PostsInv'
<1>. USE DEF PostsInv
<1>1. /\ post' \in [Posts -> Row] /\ post'[p] = NoPost
      /\ \A q \in Posts \ {p} : post'[q] = post[q]
      /\ UNCHANGED <<now, page, queue, req, tick, past>>
  BY RowsAre DEF Delete, PostsTyped
<1>2. PostsTyped'
  BY <1>1, RowsAre DEF PostsTyped
<1>3. OneFollower' /\ KeyUsed' /\ Stranded'
  BY <1>1, RowsAre DEF OneFollower, KeyUsed, Stranded, Linked, Pending
<1>4. Versioned'
  <2>1. \A q \in Posts : Retyped(post'[q]) => Retyped(post[q])
    BY <1>1, RowsAre
  <2>. QED  BY <1>1, <2>1 DEF Versioned
<1>5. Mended'
  BY <1>1, RowsAre DEF Mended, Mending, Linked
<1>. QED  BY <1>2, <1>3, <1>4, <1>5

LEMMA WritePageKeeps == ASSUME PostsInv, NEW w \in Writers, WritePage(w) PROVE PostsInv'
<1>. DEFINE r == [AtEase EXCEPT !.pc = "written"]
<1>1. w \in Procs /\ Turn(w, r) /\ req[w].pc # "half" /\ UNCHANGED <<now, queue, tick, post, past>>
  BY DEF WritePage, Procs
<1>2. Able(w, r) /\ r.op # "follow"
  BY RowsAre DEF AtEase, Able, Errand
<1>3. page' \in [version : 1..NumVersions, edits : 0..NumEdits]
  BY PostsAssumption DEF PostsAssumption, WritePage, PostsInv, PostsTyped
<1>. HIDE DEF r
<1>. QED  BY <1>1, <1>2, <1>3, StepRests

LEMMA FollowIs ==
  ASSUME PostsTyped, NEW w \in Procs, NEW p \in Posts
  PROVE  LET r == Loaded("follow", p, post[p])
         IN Able(w, r) /\ r.op = "follow" /\ r.post = p
  BY DEF PostsTyped, Loaded, Able, Errand

LEMMA NotifyKeeps == ASSUME PostsInv, NEW w \in Writers, Notify(w) PROVE PostsInv'
<1>1. w \in Procs /\ req[w].pc = "written" /\ UNCHANGED <<now, page, post, tick, past>>
      /\ page' \in [version : 1..NumVersions, edits : 0..NumEdits]
  BY DEF Notify, Procs, PostsInv, PostsTyped
<1>2. Able(w, AtEase) /\ AtEase.op # "follow"
  BY <1>1, EaseIs
<1>3. CASE UNCHANGED queue /\ Turn(w, AtEase)
  BY <1>1, <1>2, <1>3, StepRests
<1>4. ASSUME NEW p \in Posts, AutoSynced(p), UNCHANGED queue,
             Turn(w, Loaded("follow", p, post[p]))
      PROVE  PostsInv'
  BY <1>1, <1>4, FollowIs, StepRests DEF PostsInv
<1>5. ASSUME NEW p \in Posts, AutoSynced(p), queue' = [queue EXCEPT ![p] = @ + 1],
             Turn(w, AtEase)
      PROVE  PostsInv'
  <2>1. /\ req' \in [Procs -> Errand] /\ \A v \in Procs : Able(v, req'[v])
        /\ req'[w] = AtEase /\ \A v \in Procs \ {w} : req'[v] = req[v]
    BY <1>1, <1>2, <1>5, TurnIs DEF PostsInv
  <2>2. queue' \in [Posts -> Nat] /\ \A q \in Posts \ {p} : queue'[q] = queue[q]
    BY <1>5 DEF PostsInv, PostsTyped
  <2>3. \A q \in Posts : Pending(q)' => Pending(q) \/ post[q].sync # "manual"
    BY <1>2, <1>5, <2>1, <2>2 DEF Pending, AutoSynced
  <2>4. \A q \in Posts, v \in Authors : Mending(v, q) => req'[v] = req[v]
    BY <1>1, <2>1 DEF Mending, Procs
  <2>5. now' \in Times /\ now <= now'
        /\ tick' \in [Tickers -> Round] /\ \A t \in Tickers : Ripe(tick'[t], now')
    BY <1>1, TimesAre DEF PostsInv, PostsTyped
  <2>. QED  BY <1>1, <2>1, <2>2, <2>3, <2>4, <2>5, RestKeeps
<1>. QED  BY <1>3, <1>4, <1>5 DEF Notify

LEMMA TakeResyncKeeps ==
  ASSUME PostsInv, NEW w \in Procs, NEW p \in Posts, TakeResync(w, p) PROVE PostsInv'
<1>1. req[w].pc = "idle" /\ queue[p] > 0 /\ queue' = [queue EXCEPT ![p] = @ - 1]
      /\ UNCHANGED <<now, page, post, tick, past>>
  BY DEF TakeResync
<1>2. queue' \in [Posts -> Nat] /\ \A q \in Posts : queue'[q] <= queue[q] /\ queue[q] \in Nat
  BY <1>1 DEF PostsInv, PostsTyped
<1>3. /\ req' \in [Procs -> Errand] /\ \A v \in Procs : Able(v, req'[v])
      /\ \A v \in Procs \ {w} : req'[v] = req[v]
      /\ req'[w].op = "follow" => req'[w].post = p \/ req'[w] = req[w]
  <2>1. CASE UNCHANGED req
    BY <2>1 DEF PostsInv, PostsTyped
  <2>2. CASE Turn(w, Loaded("follow", p, post[p]))
    BY <2>2, FollowIs, TurnIs DEF PostsInv
  <2>. QED  BY <2>1, <2>2 DEF TakeResync
<1>4. \A q \in Posts : Pending(q)' => Pending(q)
  BY <1>1, <1>2, <1>3 DEF Pending
<1>5. \A q \in Posts, v \in Authors : Mending(v, q) => req'[v] = req[v]
  BY <1>1, <1>3 DEF Mending, Procs
<1>6. now' \in Times /\ now <= now' /\ page' \in [version : 1..NumVersions, edits : 0..NumEdits]
      /\ tick' \in [Tickers -> Round] /\ \A t \in Tickers : Ripe(tick'[t], now')
  BY <1>1, TimesAre DEF PostsInv, PostsTyped
<1>. QED  BY <1>1, <1>2, <1>3, <1>4, <1>5, <1>6, RestKeeps

\* The limit takes in a row at least: it exceeds the number of the posts that raise.
LEMMA LimitIs == Limit \in Nat /\ Limit > 0
<1>1. IsFiniteSet(Broken)
  BY PostsAssumption, FS_Subset DEF PostsAssumption
<1>2. Cardinality(Broken) \in Nat
  BY <1>1, FS_CardinalityType
<1>. QED  BY <1>2, PostsAssumption DEF PostsAssumption

LEMMA TickTakeKeeps == ASSUME PostsInv, NEW t \in Tickers, TickTake(t) PROVE PostsInv'
<1>1. UNCHANGED <<now, page, post, queue, req, past>> /\ Due # {}
  BY DEF TickTake
<1>2. PICK S \in SUBSET Due :
        /\ Cardinality(S) = Limit \/ S = Due
        /\ tick' = [tick EXCEPT ![t] = [now |-> now, rows |-> [p \in S |-> post[p]]]]
  BY DEF TickTake
<1>3. S # {}
  BY <1>1, <1>2, LimitIs, FS_EmptySet
<1>. DEFINE f == [p \in S |-> post[p]]
            k == [now |-> now, rows |-> f]
<1>4. now \in Times /\ S \in SUBSET Posts /\ f \in [S -> Row] /\ DOMAIN f = S
      /\ \A p \in S : /\ f[p] = post[p] /\ Dated(post[p])
                      /\ post[p].due \in Times /\ post[p].due <= now
  <2>1. S \in SUBSET Posts
    BY DEF Due
  <2>2. \A p \in S : post[p] \in Row /\ Dated(post[p]) /\ post[p].due # Null /\ post[p].due <= now
    BY <2>1 DEF Due, PostsInv, PostsTyped
  <2>. QED  BY <2>1, <2>2 DEF Row, PostsInv, PostsTyped
<1>5. f \in Batches
  BY <1>4, BatchesAre
<1>6. Ripe(k, now)
  <2>. HIDE DEF f
  <2>1. k \in Round /\ k.now = now /\ k.now <= now /\ k.rows = f
    BY <1>4, <1>5, TimesAre DEF Round
  <2>. HIDE DEF k
  <2>. QED  BY <1>3, <1>4, <2>1 DEF Ripe
<1>. HIDE DEF k
<1>7. tick' \in [Tickers -> Round] /\ \A u \in Tickers : Ripe(tick'[u], now)
  BY <1>2, <1>6 DEF k, PostsInv, PostsTyped, Ripe
<1>8. now' \in Times /\ now <= now' /\ now' = now
      /\ page' \in [version : 1..NumVersions, edits : 0..NumEdits] /\ queue' \in [Posts -> Nat]
      /\ req' \in [Procs -> Errand] /\ \A w \in Procs : Able(w, req'[w])
  BY <1>1, TimesAre DEF PostsInv, PostsTyped
<1>9. (\A q \in Posts : Pending(q)' => Pending(q)) /\ req' = req
  BY <1>1 DEF Pending
<1>. QED  BY <1>1, <1>7, <1>8, <1>9, RestKeeps

\* A batch that has rows has a first one.
LEMMA FirstIs ==
  ASSUME NEW k, NEW hour, Ripe(k, hour), k.rows # << >>
  PROVE  LET p == First(k.rows)
         IN /\ p \in DOMAIN k.rows /\ p \in Posts
            /\ k.rows[p] \in Row /\ Dated(k.rows[p]) /\ k.rows[p].due <= k.now
            /\ k.now \in Times /\ k.now <= hour
<1>. DEFINE D == {k.rows[p].due : p \in DOMAIN k.rows}
<1>1. k \in Round /\ k.rows \in Batches /\ k.now \in Times /\ k.now <= hour
  BY DEF Ripe, Round
<1>2. DOMAIN k.rows \in SUBSET Posts /\ k.rows \in [DOMAIN k.rows -> Row] /\ DOMAIN k.rows # {}
  BY <1>1, BatchesAre DEF Ripe
<1>3. \A p \in DOMAIN k.rows : Dated(k.rows[p]) /\ k.rows[p].due \in Nat /\ k.rows[p].due <= k.now
  BY TimesAre DEF Ripe
<1>4. PICK m \in D : \A n \in D : m <= n
  <2>1. D \in SUBSET Nat /\ D # {}
    BY <1>2, <1>3
  <2>. HIDE DEF D
  <2>. QED  BY <2>1, Least
<1>5. \E p \in DOMAIN k.rows : \A q \in DOMAIN k.rows : k.rows[p].due <= k.rows[q].due
  BY <1>4
<1>6. First(k.rows) \in DOMAIN k.rows
  BY <1>5, Zenon DEF First
<1>. QED  BY <1>1, <1>2, <1>3, <1>6

LEMMA TickRowKeeps == ASSUME PostsInv, NEW t \in Tickers, TickRow(t) PROVE PostsInv'
<1>. DEFINE k == tick[t]
            p == First(k.rows)
            rest == [q \in DOMAIN k.rows \ {p} |-> k.rows[q]]
            after == [k EXCEPT !.rows = rest]
<1>1. UNCHANGED <<now, page, queue, req>> /\ k.rows # << >>
      /\ \/ tick' = [tick EXCEPT ![t] = NoTick]
         \/ DOMAIN k.rows # {p} /\ tick' = [tick EXCEPT ![t] = after]
  BY DEF TickRow
<1>2. Ripe(k, now) /\ k \in Round /\ now \in Times
  BY DEF PostsInv, PostsTyped
<1>3. p \in DOMAIN k.rows /\ p \in Posts /\ k.rows[p] \in Row /\ Dated(k.rows[p])
      /\ k.now \in Times /\ k.now <= now
  BY <1>1, <1>2, FirstIs
<1>4. Ripe(NoTick, now) /\ NoTick \in Round
  BY <1>2, NoTickIs DEF Ripe
<1>5. ASSUME DOMAIN k.rows # {p} PROVE Ripe(after, now) /\ after \in Round
  <2>1. DOMAIN k.rows \in SUBSET Posts /\ k.rows \in [DOMAIN k.rows -> Row]
    BY <1>1, <1>2, BatchesAre DEF Round
  <2>2. rest \in [DOMAIN k.rows \ {p} -> Row] /\ DOMAIN rest = DOMAIN k.rows \ {p}
        /\ \A q \in DOMAIN rest : rest[q] = k.rows[q]
    BY <2>1
  <2>3. rest \in Batches
    BY <2>1, <2>2, BatchesAre
  <2>. HIDE DEF rest, p
  <2>4. after \in Round /\ after.rows = rest /\ after.now = k.now
    BY <1>2, <2>3 DEF Round
  <2>. HIDE DEF after
  <2>5. DOMAIN rest # {}
    BY <1>3, <1>5, <2>2
  <2>. QED  BY <1>2, <2>2, <2>4, <2>5 DEF Ripe
<1>. HIDE DEF p, rest, after
<1>6. tick' \in [Tickers -> Round] /\ \A u \in Tickers : Ripe(tick'[u], now)
  BY <1>1, <1>4, <1>5 DEF PostsInv, PostsTyped
<1>7. req' \in [Procs -> Errand] /\ (\A w \in Procs : Able(w, req'[w]))
      /\ page' \in [version : 1..NumVersions, edits : 0..NumEdits] /\ queue' \in [Posts -> Nat]
      /\ now' \in Times /\ now <= now' /\ now' = now
  BY <1>1, TimesAre DEF PostsInv, PostsTyped
<1>8. (\A q \in Posts : Pending(q)' => Pending(q)) /\ req' = req
  BY <1>1 DEF Pending
<1>9. CASE UNCHANGED <<post, past>>
  BY <1>6, <1>7, <1>8, <1>9, RestKeeps
<1>10. CASE Save(p, GoneLive(k.rows[p], k.now), k.rows[p])
  <2>1. Retyped(GoneLive(k.rows[p], k.now)) => Retyped(k.rows[p])
    BY <1>3, LiveIs DEF Retyped
  <2>. HIDE DEF k
  <2>. QED  BY <1>1, <1>3, <1>6, <1>7, <1>8, <1>10, <2>1, LiveIs, SaveKeeps
<1>. QED  BY <1>9, <1>10 DEF TickRow, p

LEMMA DieKeeps == ASSUME PostsInv, NEW w \in Procs, Die(w) \/ Swallow(w) PROVE PostsInv'
<1>. USE DEF PostsInv
<1>1. UNCHANGED <<now, page, post, queue, tick>> /\ Turn(w, AtEase)
      /\ Able(w, AtEase) /\ AtEase.op # "follow"
  BY EaseIs DEF Die, Swallow, Abandon
<1>2. /\ req' \in [Procs -> Errand] /\ \A v \in Procs : Able(v, req'[v])
      /\ req'[w] = AtEase /\ \A v \in Procs \ {w} : req'[v] = req[v]
  BY <1>1, TurnIs
<1>3. past' \in [Posts -> SUBSET Marks] /\ \A p \in Posts : past[p] \subseteq past'[p]
  <2>1. {"missed", "torn"} \subseteq Marks  BY DEF Marks
  <2>. QED  BY <2>1 DEF Die, Swallow, Abandon, PostsTyped
<1>4. \A p \in Posts : req[w].pc = "half" /\ req[w].post = p /\ post[p].html # post[p].text
                         => "torn" \in past'[p]
  BY DEF Die, Swallow, Abandon
<1>5. PostsTyped'
  BY <1>1, <1>2, <1>3 DEF PostsTyped
<1>6. OneFollower' /\ KeyUsed' /\ Versioned'
  BY <1>1, <1>3 DEF OneFollower, KeyUsed, Versioned, Linked
<1>7. Stranded'
  <2>1. \A q \in Posts : Pending(q)' => Pending(q)
    BY <1>1, TurnPending
  <2>. QED  BY <1>1, <1>3, <2>1 DEF Stranded
<1>8. Mended'
  <2>1. \A p \in Posts, v \in Authors : Mending(v, p) /\ v # w => Mending(v, p)'
    BY <1>1, <1>2 DEF Mending, Linked, Procs
  <2>. QED  BY <1>1, <1>3, <1>4, <2>1 DEF Mended, Mending
<1>. QED  BY <1>5, <1>6, <1>7, <1>8

LEMMA OutsideKeeps ==
  ASSUME PostsInv, Clock \/ (\E t \in Tickers : DieTicking(t)) \/ UNCHANGED postVars
  PROVE  PostsInv'
<1>1. UNCHANGED <<page, post, queue, req, past>> /\ now' \in Times /\ now <= now'
  BY PostsAssumption DEF PostsAssumption, Clock, DieTicking, postVars, PostsInv, PostsTyped, Times
<1>2. tick' \in [Tickers -> Round] /\ \A u \in Tickers : Ripe(tick'[u], now')
  <2>1. ASSUME NEW u \in Tickers PROVE Ripe(tick[u], now')
    <3>1. Ripe(tick[u], now) /\ tick[u].now \in Nat /\ now \in Nat /\ now' \in Nat
      BY <1>1, TimesAre DEF PostsInv, PostsTyped, Round
    <3>. QED  BY <1>1, <3>1 DEF Ripe
  <2>2. Ripe(NoTick, now') /\ NoTick \in Round
    BY <1>1, NoTickIs DEF Ripe
  <2>. QED
    BY <2>1, <2>2 DEF PostsInv, PostsTyped, Clock, DieTicking, postVars
<1>3. page' \in [version : 1..NumVersions, edits : 0..NumEdits] /\ queue' \in [Posts -> Nat]
      /\ req' \in [Procs -> Errand] /\ (\A w \in Procs : Able(w, req'[w])) /\ req' = req
  BY <1>1 DEF PostsInv, PostsTyped
<1>4. \A q \in Posts : Pending(q)' => Pending(q)
  BY <1>1 DEF Pending
<1>. QED  BY <1>1, <1>2, <1>3, <1>4, RestKeeps
-----------------------------------------------------------------------------
LEMMA InitPosts == PostsInit => PostsInv
<1>. SUFFICES ASSUME PostsInit PROVE PostsInv  OBVIOUS
<1>. DEFINE due == [Draft EXCEPT !.status = "scheduled", !.due = 0]
<1>1. due \in Row /\ Dated(due) /\ due.source = 0 /\ due.html = due.text /\ due.exists
      /\ due.sync = "manual" /\ ~Retyped(due)
  <2>1. 0 \in Times /\ Draft \in Row /\ Draft.at = Null /\ 0 # Null /\ Draft.sync = "manual"
    BY TimesAre, RowsAre DEF Draft, NoPost
  <2>. QED  BY <2>1, TimesAre, RowsAre DEF Row, Dated, Retyped
<1>. HIDE DEF due
<1>2. post \in [Posts -> Row] /\ \A p \in Posts : /\ post[p] = NoPost \/ post[p] = due
                                                  /\ post[p].exists => p \in Broken
  BY <1>1, RowsAre DEF PostsInit, due
<1>3. past \in [Posts -> SUBSET Marks] /\ \A p \in Broken : p \in Posts => "made" \in past[p]
  BY DEF PostsInit, Marks
<1>4. now \in Times /\ page \in [version : 1..NumVersions, edits : 0..NumEdits]
      /\ queue \in [Posts -> Nat] /\ \A p \in Posts : queue[p] = 0
  BY TimesAre, PostsAssumption DEF PostsInit, PostsAssumption
<1>5. req \in [Procs -> Errand] /\ \A w \in Procs : Able(w, req[w]) /\ req[w].op = "none"
  BY EaseIs DEF PostsInit, Able
<1>6. tick \in [Tickers -> Round] /\ \A t \in Tickers : Ripe(tick[t], now)
  BY <1>4, NoTickIs DEF PostsInit, Ripe
<1>7. PostsTyped
  BY <1>1, <1>2, <1>3, <1>4, <1>5, <1>6, RowsAre DEF PostsTyped
<1>8. OneFollower /\ KeyUsed /\ Mended
  BY <1>1, <1>2, <1>3, RowsAre DEF OneFollower, KeyUsed, Mended, Linked
<1>9. Versioned
  BY <1>1, <1>2, RowsAre DEF Versioned
<1>10. Stranded
  BY <1>4, <1>5 DEF Stranded, Pending
<1>. QED  BY <1>7, <1>8, <1>9, <1>10 DEF PostsInv

LEMMA RequestKeeps == ASSUME PostsInv, NEW w \in Authors, Request(w) PROVE PostsInv'
<1>1. w \in Procs  BY DEF Procs
<1>. QED
  BY <1>1, PublishKeeps, UnpublishKeeps, ScheduleKeeps, ArchiveKeeps, EditKeeps, FormSaveKeeps,
     FormRenderKeeps, RerenderKeeps, ResyncKeeps DEF Request

LEMMA NextPosts == PostsInv /\ [PostsNext]_postVars => PostsInv'
<1>. SUFFICES ASSUME PostsInv, [PostsNext]_postVars PROVE PostsInv'  OBVIOUS
<1>0. Authors \subseteq Procs /\ Writers \subseteq Procs /\ Resyncers \subseteq Procs
  BY DEF Procs
<1>1. ASSUME NEW w \in Authors,
             \/ \E p \in Posts \ Broken :
                  Create(w, p) \/ FormCreate(w, p) \/ \E op \in Ops : Load(w, p, op)
             \/ Request(w)
      PROVE  PostsInv'
  BY <1>1, CreateKeeps, FormCreateKeeps, LoadKeeps, RequestKeeps
<1>2. ASSUME NEW w \in Writers, WritePage(w) \/ Notify(w) \/ Resync(w) PROVE PostsInv'
  BY <1>0, <1>2, WritePageKeeps, NotifyKeeps, ResyncKeeps
<1>3. ASSUME NEW p \in Posts,
             Delete(p) \/ \E live \in BOOLEAN, sync \in {"manual", "auto"} : Import(p, live, sync)
      PROVE  PostsInv'
  BY <1>3, DeleteKeeps, ImportKeeps
<1>4. ASSUME NEW w \in Resyncers, Resync(w) \/ \E p \in Posts : TakeResync(w, p)
      PROVE  PostsInv'
  BY <1>0, <1>4, ResyncKeeps, TakeResyncKeeps
<1>5. ASSUME NEW t \in Tickers, TickTake(t) \/ TickRow(t) PROVE PostsInv'
  BY <1>5, TickTakeKeeps, TickRowKeeps
<1>6. ASSUME NEW w \in Procs, Die(w) \/ Swallow(w) PROVE PostsInv'
  BY <1>6, DieKeeps
<1>. QED
  BY <1>1, <1>2, <1>3, <1>4, <1>5, <1>6, OutsideKeeps DEF PostsNext

\* The rows, the requests and the rounds keep the invariant above.
THEOREM PostsHold == PostsSpec => []PostsInv
BY InitPosts, NextPosts, PTL DEF PostsSpec

\* Every row of apps/blog and every copy of one a request holds is well formed, and has
\* the dates of its status: a live post the moment it went live, a scheduled one the
\* moment it will, a draft none.
THEOREM RowsKeepTheirDates == PostsSpec => []PostsTypeOK
<1>1. PostsInv => PostsTypeOK
  BY DEF PostsInv, PostsTyped, PostsTypeOK, Dated, Errand
<1>. QED  BY <1>1, PostsHold, PTL

\* Readers see the html of the text the row has, and a text of the page stands under the
\* version it came from, whatever forms, resyncs, ticks and rerenders overlap or die,
\* but for the cases the history names.
THEOREM ReadersSeeTheText == PostsSpec => []ShowsWhatItSays
<1>1. PostsInv => ShowsWhatItSays
  BY DEF PostsInv, ShowsWhatItSays, Mended, Mending, Versioned
<1>. QED  BY <1>1, PostsHold, PTL
-----------------------------------------------------------------------------
(* What a step may do to a row *)

\* Of a process that holds a post as it still is: what its step does to the row.
Ends == {"unpublish", "schedule", "archive"}
Does(op, old, new) ==
  \/ op = "publish" /\ ~Public(old) /\ new.text = old.text
  \/ op \in Ends /\ ~Public(new) /\ new.text = old.text
  \/ /\ op \in Ops \ Transitions \/ op = "follow"
     /\ new.status = old.status /\ new.at = old.at /\ new.exists = old.exists
     /\ op = "rerender" => new.text = old.text

LEMMA HeldIs ==
  ASSUME PostsTyped, NEW w \in Procs, NEW r, Turn(w, r), r # req[w]
  PROVE  Steps(w, req[w].post)
<1>1. req'[w] = r  BY DEF PostsTyped, Turn
<1>. QED  BY <1>1 DEF Steps

LEMMA OnlyTheSaved ==
  ASSUME PostsTyped, NEW q \in Posts, NEW row \in Row, NEW seen \in Row, Dated(row),
         Save(q, row, seen), NEW p \in Posts, post'[p] # post[p]
  PROVE  p = q /\ post'[p] = row
  BY SaveIs

\* Of one that does not publish: what it leaves live was live in the row or in its copy.
Leaves(seen, old, new) ==
  Public(new) => \/ Public(old) /\ new.at = old.at
                 \/ Public(seen) /\ new.at = seen.at

LEMMA RequestStep ==
  ASSUME PostsInv, NEW w \in Procs, (w \in Authors /\ Request(w)) \/ Resync(w),
         NEW p \in Posts, post'[p] # post[p]
  PROVE  /\ Steps(w, p)
         /\ req[w].seen = post[p] \/ req[w].op \in {"unpublish", "archive"}
              => Does(req[w].op, post[p], post'[p])
         /\ req[w].op \in {"publish", "edit", "form"} => w \in Authors
         /\ req[w].op = "publish" \/ Leaves(req[w].seen, post[p], post'[p])
<1>. DEFINE q == req[w].post
            d == req[w].seen
<1>. USE DEF PostsInv
<1>0. AtEase # req[w] \/ req[w].pc = "idle"
  BY DEF AtEase
<1>1. CASE Publish(w) /\ w \in Authors
  <2>1. req[w].pc = "loaded" /\ req[w].op = "publish" /\ Turn(w, AtEase)
    BY <1>1 DEF Publish, Do
  <2>2. d \in Row /\ q \in Posts /\ Dated(d) /\ now \in Times
    BY <2>1, LoadedIs
  <2>. DEFINE t == IF d.at # Null THEN d.at ELSE now
              row == GoneLive(d, t)
  <2>3. t \in Times /\ row \in Row /\ Dated(row) /\ row.text = d.text
    BY <2>2, LiveIs DEF Row
  <2>4. Save(q, row, d) /\ ~(d.status = "published" /\ d.at # Null)
    BY <1>1 DEF Publish
  <2>. HIDE DEF row, t
  <2>5. p = q /\ post'[p] = row
    <3>. HIDE DEF q, d
    <3>. QED  BY <2>2, <2>3, <2>4, OnlyTheSaved
  <2>. QED
    BY <1>0, <1>1, <2>1, <2>2, <2>3, <2>4, <2>5, HeldIs DEF Does, Leaves, Public, Dated
<1>2. CASE Unpublish(w) \/ Archive(w)
  <2>. DEFINE row1 == [post[q] EXCEPT !.status = "draft", !.at = Null, !.due = Null]
              row2 == [post[q] EXCEPT !.status = "archived", !.due = Null]
  <2>1. req[w].pc = "loaded" /\ req[w].op \in {"unpublish", "archive"} /\ Turn(w, AtEase)
    BY <1>2 DEF Unpublish, Archive, Do
  <2>2. q \in Posts /\ post[q] \in Row /\ Dated(post[q])
    BY <1>2, LoadedIs DEF Unpublish, Archive, Do
  <2>3. /\ row1 \in Row /\ Dated(row1) /\ row1.text = post[q].text /\ row1.status = "draft"
        /\ row2 \in Row /\ Dated(row2) /\ row2.text = post[q].text /\ row2.status = "archived"
    BY <2>2 DEF Row, Dated
  <2>4. Save(q, row1, post[q]) \/ Save(q, row2, post[q])
    BY <1>2 DEF Unpublish, Archive, SaveFields
  <2>. HIDE DEF row1, row2
  <2>5. p = q /\ post'[p] \in {row1, row2}
    <3>. HIDE DEF q, d
    <3>. QED  BY <2>2, <2>3, <2>4, OnlyTheSaved
  <2>. QED
    BY <1>0, <2>1, <2>3, <2>5, HeldIs DEF Does, Leaves, Public, Ends
<1>3. CASE Schedule(w)
  <2>1. req[w].pc = "loaded" /\ req[w].op = "schedule" /\ Turn(w, AtEase)
    BY <1>3 DEF Schedule, Do
  <2>2. d \in Row /\ q \in Posts
    BY <2>1, LoadedIs
  <2>3. PICK t \in Times :
          Save(q, [d EXCEPT !.status = "scheduled", !.due = t, !.at = Null, !.html = d.text], d)
    BY <1>3 DEF Schedule
  <2>. DEFINE row == [d EXCEPT !.status = "scheduled", !.due = t, !.at = Null, !.html = d.text]
  <2>4. row \in Row /\ Dated(row) /\ row.text = d.text /\ row.status = "scheduled"
    BY <2>2, TimesAre DEF Row, Dated
  <2>5. p = q /\ post'[p] = row
    <3>1. Save(q, row, d)  BY <2>3
    <3>. HIDE DEF q, d, row
    <3>. QED  BY <2>2, <2>4, <3>1, OnlyTheSaved
  <2>. HIDE DEF row
  <2>. QED
    BY <1>0, <2>1, <2>4, <2>5, HeldIs DEF Does, Leaves, Public, Ends
<1>4. CASE Edit(w) /\ w \in Authors
  <2>1. req[w].pc = "loaded" /\ req[w].op = "edit"
    BY <1>4 DEF Edit, Do
  <2>2. d \in Row /\ Dated(d) /\ q \in Posts /\ post[q] \in Row /\ Dated(post[q])
    BY <2>1, LoadedIs
  <2>3. PICK t \in Submitted :
          /\ SaveFields(q, [post[q] EXCEPT !.text = t, !.html = t])
          /\ IF post[q].exists THEN AndThen(w, q, [d EXCEPT !.text = t, !.html = t])
                               ELSE Turn(w, AtEase)
    BY <1>4 DEF Edit
  <2>. DEFINE row == [post[q] EXCEPT !.text = t, !.html = t]
              kept == [d EXCEPT !.text = t, !.html = t]
  <2>4. t \in Texts
    BY <2>3, PageIs DEF PostsTyped
  <2>5. row \in Row /\ Dated(row) /\ row.status = post[q].status /\ row.at = post[q].at
        /\ row.exists = post[q].exists /\ kept \in Row /\ Dated(kept)
    BY <2>2, <2>4 DEF Row, Dated
  <2>6. Save(q, row, post[q]) /\ AndThen(w, q, kept)
    BY <2>3 DEF SaveFields
  <2>. HIDE DEF row, kept
  <2>7. p = q /\ post'[p] = row
    <3>. HIDE DEF q, d
    <3>. QED  BY <2>2, <2>5, <2>6, OnlyTheSaved
  <2>8. PICK r : Turn(w, r) /\ r.op # "edit"
    BY <2>6 DEF AndThen, AtEase, Loaded, Transitions
  <2>9. "edit" \in Ops \ Transitions
    BY DEF Ops, Transitions
  <2>. QED
    BY <1>4, <2>1, <2>5, <2>7, <2>8, <2>9, HeldIs DEF Does, Leaves, Public
<1>5. CASE FormSave(w) /\ w \in Authors
  <2>1. req[w].pc = "loaded" /\ req[w].op = "form"
    BY <1>5 DEF FormSave, Do
  <2>2. d \in Row /\ Dated(d) /\ q \in Posts
    BY <2>1, LoadedIs
  <2>3. PICK t \in Submitted :
          LET row == [d EXCEPT !.text = t]
          IN /\ Save(q, row, d)
             /\ Turn(w, IF Duplicate(q, row) THEN AtEase
                        ELSE [req[w] EXCEPT !.pc = "half", !.seen = row])
    BY <1>5 DEF FormSave
  <2>. DEFINE row == [d EXCEPT !.text = t]
              r == [req[w] EXCEPT !.pc = "half", !.seen = row]
  <2>4. t \in Texts
    BY <2>3, PageIs DEF PostsTyped
  <2>5. row \in Row /\ Dated(row) /\ row.status = d.status /\ row.at = d.at
        /\ row.exists = d.exists
    BY <2>2, <2>4 DEF Row, Dated
  <2>6. Save(q, row, d) /\ Turn(w, r)
    <3>1. Save(q, row, d) /\ Turn(w, IF Duplicate(q, row) THEN AtEase ELSE r)
      BY <2>3
    <3>. HIDE DEF row, r
    <3>. QED  BY <3>1 DEF Save
  <2>7. p = q /\ post'[p] = row
    <3>. HIDE DEF q, d, row, r
    <3>. QED  BY <2>2, <2>5, <2>6, OnlyTheSaved
  <2>8. r # req[w]
    <3>1. req[w] \in Errand  BY DEF PostsTyped
    <3>2. r.pc = "half"  BY <3>1 DEF Errand
    <3>. QED  BY <2>1, <3>2
  <2>9. "form" \in Ops \ Transitions
    BY DEF Ops, Transitions
  <2>. HIDE DEF row, r
  <2>. QED
    BY <1>5, <2>1, <2>5, <2>6, <2>7, <2>8, <2>9, HeldIs DEF Does, Leaves, Public
<1>6. CASE FormRender(w) /\ w \in Authors
  <2>. DEFINE row == [d EXCEPT !.html = d.text]
  <2>1. req[w].pc = "half" /\ req[w].op = "form" /\ Turn(w, AtEase) /\ Save(q, row, d)
    BY <1>6 DEF FormRender, Do
  <2>2. d \in Row /\ Dated(d) /\ q \in Posts
    BY <2>1, LoadedIs
  <2>3. row \in Row /\ Dated(row) /\ row.status = d.status /\ row.at = d.at
        /\ row.exists = d.exists
    BY <2>2 DEF Row, Dated
  <2>4. p = q /\ post'[p] = row
    <3>. HIDE DEF q, d, row
    <3>. QED  BY <2>1, <2>2, <2>3, OnlyTheSaved
  <2>5. "form" \in Ops \ Transitions
    BY DEF Ops, Transitions
  <2>. HIDE DEF row
  <2>. QED
    BY <1>0, <1>6, <2>1, <2>3, <2>4, <2>5, HeldIs DEF Does, Leaves, Public
<1>7. CASE Rerender(w)
  <2>. DEFINE row == [post[q] EXCEPT !.html = d.text]
  <2>1. req[w].pc = "loaded" /\ req[w].op = "rerender" /\ Turn(w, AtEase) /\ Save(q, row, d)
    BY <1>7 DEF Rerender, Do
  <2>2. d \in Row /\ q \in Posts /\ post[q] \in Row /\ Dated(post[q])
    BY <2>1, LoadedIs
  <2>3. row \in Row /\ Dated(row) /\ row.status = post[q].status /\ row.at = post[q].at
        /\ row.exists = post[q].exists /\ row.text = post[q].text
    BY <2>2 DEF Row, Dated
  <2>4. p = q /\ post'[p] = row
    <3>. HIDE DEF q, d, row
    <3>. QED  BY <2>1, <2>2, <2>3, OnlyTheSaved
  <2>5. "rerender" \in Ops \ Transitions
    BY DEF Ops, Transitions
  <2>. HIDE DEF row
  <2>. QED
    BY <1>0, <2>1, <2>3, <2>4, <2>5, HeldIs DEF Does, Leaves, Public
<1>8. CASE Resync(w)
  <2>1. req[w].pc = "loaded" /\ req[w].op \in {"resync", "follow"} /\ Turn(w, AtEase)
        /\ Save(q, FromPage(d), d)
    BY <1>8 DEF Resync, Do
  <2>2. d \in Row /\ Dated(d) /\ q \in Posts
    BY <2>1, LoadedIs
  <2>3. /\ FromPage(d) \in Row /\ Dated(FromPage(d))
        /\ FromPage(d).status = d.status /\ FromPage(d).at = d.at
        /\ FromPage(d).exists = d.exists
    BY <2>2, FromPageIs
  <2>4. p = q /\ post'[p] = FromPage(d)
    <3>. HIDE DEF q, d
    <3>. QED  BY <2>1, <2>2, <2>3, OnlyTheSaved
  <2>5. "resync" \in Ops \ Transitions
    BY DEF Ops, Transitions
  <2>. QED
    BY <1>0, <2>1, <2>3, <2>4, <2>5, HeldIs DEF Does, Leaves, Public
<1>. QED
  BY <1>1, <1>2, <1>3, <1>4, <1>5, <1>6, <1>7, <1>8 DEF Request

LEMMA ImportStep ==
  ASSUME PostsInv, NEW q \in Posts, NEW live \in BOOLEAN, NEW sync \in {"manual", "auto"},
         Import(q, live, sync), NEW p \in Posts, post'[p] # post[p]
  PROVE  /\ Imports(p)
         /\ Public(post'[p]) /\ Public(post[p]) => post'[p].at = post[p].at
<1>. DEFINE x == ImportRow(q, live, sync)
<1>1. x \in Row /\ Dated(x) /\ x.text = PageText /\ (Public(post[q]) => x.at = post[q].at)
      /\ post[q] \in Row
  BY ImportRowIs DEF PostsInv, PostsTyped
<1>2. Save(q, x, post[q]) /\ UNCHANGED <<req, tick>>
  BY DEF Import, ImportRow
<1>3. p = q /\ post'[p] = x
  <2>. HIDE DEF x
  <2>. QED  BY <1>1, <1>2, OnlyTheSaved DEF PostsInv
<1>. HIDE DEF x
<1>. QED  BY <1>1, <1>2, <1>3 DEF Imports

LEMMA TickStep ==
  ASSUME PostsInv, NEW t \in Tickers, TickRow(t), NEW p \in Posts, post'[p] # post[p]
  PROVE  /\ Ticks(t, p)
         /\ tick[t].rows[p].due <= tick[t].now
         /\ post'[p].text = tick[t].rows[p].text
<1>. DEFINE k == tick[t]
            q == First(k.rows)
            rest == [v \in DOMAIN k.rows \ {q} |-> k.rows[v]]
<1>1. /\ k.rows # << >> /\ Save(q, GoneLive(k.rows[q], k.now), k.rows[q])
      /\ \/ tick' = [tick EXCEPT ![t] = NoTick]
         \/ tick' = [tick EXCEPT ![t] = [k EXCEPT !.rows = rest]]
  BY DEF TickRow
<1>2. Ripe(k, now) /\ k \in Round /\ now \in Times
  BY DEF PostsInv, PostsTyped
<1>3. q \in DOMAIN k.rows /\ q \in Posts /\ k.rows[q] \in Row /\ Dated(k.rows[q])
      /\ k.now \in Times /\ k.now <= now /\ k.rows[q].due <= k.now /\ k.rows[q].due \in Times
  BY <1>1, <1>2, FirstIs DEF Ripe
<1>4. p = q /\ post'[p].text = k.rows[q].text
  <2>1. GoneLive(k.rows[q], k.now) \in Row /\ Dated(GoneLive(k.rows[q], k.now))
        /\ GoneLive(k.rows[q], k.now).text = k.rows[q].text
    BY <1>3, LiveIs
  <2>. HIDE DEF q, k
  <2>. QED  BY <1>1, <1>3, <2>1, OnlyTheSaved DEF PostsInv
<1>6. q \notin DOMAIN tick'[t].rows /\ tick'[t] # tick[t]
  <2>1. tick'[t] = NoTick \/ tick'[t] = [k EXCEPT !.rows = rest]
    BY <1>1 DEF PostsInv, PostsTyped
  <2>2. [k EXCEPT !.rows = rest].rows = rest /\ q \notin DOMAIN rest
    BY <1>2 DEF Round
  <2>3. q \notin DOMAIN NoTick.rows
    BY <1>2, NoTickIs
  <2>. HIDE DEF rest, q
  <2>. QED  BY <1>3, <2>1, <2>2, <2>3
<1>. QED  BY <1>3, <1>4, <1>6 DEF Ticks

\* A row of a post changes by a request, by an import, by the tick, or as a whole: it is
\* made by a form that has none, or deleted.
LEMMA PostStep ==
  ASSUME PostsInv, PostsNext, NEW p \in Posts, post'[p] # post[p]
  PROVE  \/ \E w \in Procs :
              /\ Steps(w, p)
              /\ req[w].seen = post[p] \/ req[w].op \in {"unpublish", "archive"}
                   => Does(req[w].op, post[p], post'[p])
              /\ req[w].op \in {"publish", "edit", "form"} => w \in Authors
              /\ req[w].op = "publish" \/ Leaves(req[w].seen, post[p], post'[p])
         \/ Imports(p) /\ (Public(post'[p]) /\ Public(post[p]) => post'[p].at = post[p].at)
         \/ \E t \in Tickers : /\ Ticks(t, p) /\ tick[t].rows[p].due <= tick[t].now
                               /\ post'[p].text = tick[t].rows[p].text
         \/ ~Public(post'[p]) /\ ~(post[p].exists /\ post'[p].exists)
<1>0. Authors \subseteq Procs /\ Writers \subseteq Procs /\ Resyncers \subseteq Procs
  BY DEF Procs
<1>1. ASSUME NEW w \in Procs, (w \in Authors /\ Request(w)) \/ Resync(w)
      PROVE  /\ Steps(w, p)
             /\ req[w].seen = post[p] \/ req[w].op \in {"unpublish", "archive"}
                  => Does(req[w].op, post[p], post'[p])
             /\ req[w].op \in {"publish", "edit", "form"} => w \in Authors
             /\ req[w].op = "publish" \/ Leaves(req[w].seen, post[p], post'[p])
  BY <1>1, RequestStep
<1>2. ASSUME NEW q \in Posts, NEW live \in BOOLEAN, NEW sync \in {"manual", "auto"},
             Import(q, live, sync)
      PROVE  Imports(p) /\ (Public(post'[p]) /\ Public(post[p]) => post'[p].at = post[p].at)
  BY <1>2, ImportStep
<1>3. ASSUME NEW t \in Tickers, TickRow(t)
      PROVE  /\ Ticks(t, p) /\ tick[t].rows[p].due <= tick[t].now
             /\ post'[p].text = tick[t].rows[p].text
  BY <1>3, TickStep
<1>4. ASSUME NEW w \in Authors, NEW q \in Posts, Create(w, q) \/ FormCreate(w, q)
      PROVE  ~Public(post'[p]) /\ ~(post[p].exists /\ post'[p].exists)
  <2> DEFINE bare == [Draft EXCEPT !.html = Null]
  <2>1. bare \in Row /\ Dated(bare) /\ bare.status = "draft"
    BY BareIs DEF Procs
  <2>2. (Save(q, Draft, NoPost) \/ Save(q, bare, NoPost)) /\ "made" \notin past[q]
    BY <1>4 DEF Create, FormCreate
  <2> HIDE DEF bare
  <2>3. p = q /\ (post'[p] = Draft \/ post'[p] = bare)
    BY <2>1, <2>2, RowsAre, OnlyTheSaved DEF PostsInv
  <2>4. ~post[p].exists
    BY <2>2, <2>3 DEF PostsInv, KeyUsed
  <2>. QED  BY <2>1, <2>3, <2>4, RowsAre DEF Public
<1>5. ASSUME NEW q \in Posts, Delete(q)
      PROVE  ~Public(post'[p]) /\ ~(post[p].exists /\ post'[p].exists)
  <2>1. post'[p] = NoPost
    BY <1>5 DEF Delete, PostsInv, PostsTyped
  <2>. QED  BY <2>1, RowsAre DEF Public
<1>6. ASSUME \/ \E w \in Procs :
                  \/ \E q \in Posts : TakeResync(w, q) \/ \E op \in Ops : Load(w, q, op)
                  \/ WritePage(w) \/ Notify(w) \/ Die(w) \/ Swallow(w)
             \/ \E t \in Tickers : TickTake(t) \/ DieTicking(t)
             \/ Clock
      PROVE  FALSE
  BY <1>6 DEF TakeResync, Load, WritePage, Notify, Die, Swallow, Abandon, TickTake, DieTicking, Clock
<1>. QED
  BY <1>0, <1>1, <1>2, <1>3, <1>4, <1>5, <1>6 DEF PostsNext

\* A post goes live because somebody publishes or imports it or because its hour had come
\* when a tick read it, and its date then stands, however many authors, ticks and workers
\* act on it, but for a process that saves a live copy it read before the row changed.
THEOREM LiveIsMeant == PostsSpec => GoesLiveAsMeant
<1>1. PostsInv /\ [PostsNext]_postVars =>
        [\A p \in Posts : Public(post'[p]) =>
           \/ Public(post[p]) /\ post'[p].at = post[p].at
           \/ \E w \in Authors : Steps(w, p) /\ Publishes(w, p)
           \/ ~Public(post[p]) /\ Imports(p)
           \/ \E t \in Tickers : Ticks(t, p) /\ tick[t].rows[p].due <= tick[t].now
           \/ \E w \in Procs : Steps(w, p) /\ PutsBack(w, p)]_postVars
  <2>. SUFFICES ASSUME PostsInv, PostsNext, NEW p \in Posts, Public(post'[p]),
                       ~(Public(post[p]) /\ post'[p].at = post[p].at)
                PROVE  \/ \E w \in Authors : Steps(w, p) /\ Publishes(w, p)
                       \/ ~Public(post[p]) /\ Imports(p)
                       \/ \E t \in Tickers : Ticks(t, p) /\ tick[t].rows[p].due <= tick[t].now
                       \/ \E w \in Procs : Steps(w, p) /\ PutsBack(w, p)
    OBVIOUS
  <2>1. post'[p] # post[p]
    OBVIOUS
  <2>2. ASSUME NEW w \in Procs, Steps(w, p),
               req[w].seen = post[p] \/ req[w].op \in {"unpublish", "archive"}
                 => Does(req[w].op, post[p], post'[p]),
               req[w].op \in {"publish", "edit", "form"} => w \in Authors,
               req[w].op = "publish" \/ Leaves(req[w].seen, post[p], post'[p])
        PROVE  (w \in Authors /\ Publishes(w, p)) \/ PutsBack(w, p)
    <3>1. CASE req[w].op = "publish"
      <4>1. req[w].seen = post[p] => ~Public(post[p])
        BY <2>2, <3>1 DEF Does, Ends, Ops, Transitions
      <4>. QED  BY <2>2, <3>1, <4>1 DEF Publishes
    <3>2. CASE Leaves(req[w].seen, post[p], post'[p])
      BY <3>2 DEF Leaves, PutsBack
    <3>. QED  BY <2>2, <3>1, <3>2
  <2>. QED  BY <2>1, <2>2, PostStep
<1>. QED  BY <1>1, PostsHold, PTL DEF PostsSpec, GoesLiveAsMeant

\* The text of a post changes by its author's hand, by an import or because the post
\* follows its page: one that does not is left alone, but by a resync still pending from
\* when it did and by a process that had read the row before.
THEOREM TextIsMeant == PostsSpec => TextChangesAsMeant
<1>1. PostsInv /\ [PostsNext]_postVars =>
        [\A p \in Posts : post[p].exists /\ post'[p].exists /\ post'[p].text # post[p].text =>
           \/ \E w \in Authors : Steps(w, p) /\ req[w].op \in {"edit", "form", "resync"}
           \/ \E w \in Procs : Steps(w, p) /\ req[w].op = "follow" /\ req[w].seen.sync = "auto"
           \/ "leftover" \in past[p]
           \/ Imports(p) \/ Overlapped(p)]_postVars
  <2>. SUFFICES ASSUME PostsInv, PostsNext, NEW p \in Posts, post[p].exists, post'[p].exists,
                       post'[p].text # post[p].text, "leftover" \notin past[p],
                       ~Imports(p), ~Overlapped(p)
                PROVE  \/ \E w \in Authors : Steps(w, p) /\ req[w].op \in {"edit", "form", "resync"}
                       \/ \E w \in Procs : Steps(w, p) /\ req[w].op = "follow"
                                           /\ req[w].seen.sync = "auto"
    OBVIOUS
  <2>1. post'[p] # post[p]
    OBVIOUS
  <2>2. CASE \E w \in Procs :
               /\ Steps(w, p)
               /\ req[w].seen = post[p] \/ req[w].op \in {"unpublish", "archive"}
                    => Does(req[w].op, post[p], post'[p])
               /\ req[w].op \in {"publish", "edit", "form"} => w \in Authors
               /\ req[w].op = "publish" \/ Leaves(req[w].seen, post[p], post'[p])
    <3>1. PICK w \in Procs : /\ Steps(w, p) /\ req[w].seen = post[p]
                             /\ Does(req[w].op, post[p], post'[p])
                             /\ req[w].op \in {"edit", "form"} => w \in Authors
      BY <2>2 DEF Overlapped
    <3>2. req[w].op \in {"edit", "form", "resync", "follow"}
      BY <3>1 DEF Does, Ops, Transitions
    <3>3. req[w].op = "resync" => w \in Authors
      BY DEF PostsInv, PostsTyped, Able
    <3>4. ASSUME req[w].op = "follow" PROVE req[w].seen.sync = "auto"
      <4>1. Pending(p)
        BY <3>1, <3>4 DEF Steps, Pending
      <4>2. post[p].sync \in {"manual", "auto"}
        BY DEF PostsInv, PostsTyped, Row
      <4>. QED  BY <3>1, <4>1, <4>2 DEF PostsInv, Stranded
    <3>. QED  BY <3>1, <3>2, <3>3, <3>4
  <2>3. CASE \E t \in Tickers : /\ Ticks(t, p) /\ tick[t].rows[p].due <= tick[t].now
                                /\ post'[p].text = tick[t].rows[p].text
    BY <2>3 DEF Overlapped
  <2>. QED  BY <2>1, <2>2, <2>3, PostStep
<1>. QED  BY <1>1, PostsHold, PTL DEF PostsSpec, TextChangesAsMeant
=============================================================================
