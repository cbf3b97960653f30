----------------------- MODULE TaskReliabilityProofs -----------------------
(* Theorems about TaskReliability, for any sets of ids, workers and paths. *)
EXTENDS TaskReliability, FiniteSetTheorems, TLAPS

USE DEF Raised, Causes, Statuses, Excs

\* The record types hold of what the actions write.
LEMMA FirstAttemptType ==
  ASSUME NEW r \in Results, NEW pin \in Nat
  PROVE  FirstAttempt(r, pin) \in Attempt
BY DEF FirstAttempt, Attempt

LEMMA ChildOfType ==
  ASSUME TypeOK, NEW c \in Call
  PROVE  ChildOf(c) \in Attempt
BY DEF ChildOf, Attempt, Call, TypeOK

LEMMA ClassifyType ==
  ASSUME TypeOK, NEW r \in Results, NEW cause \in Causes
  PROVE  Classify(r, cause) \in Causes
BY DEF Classify, TypeOK, Row

LEMMA RowUpdate ==
  ASSUME NEW rw \in Row, NEW s \in Statuses, NEW e \in Excs, NEW age \in {"new", "mid", "old"},
         NEW p \in Paths \cup {"none"}
  PROVE  /\ [rw EXCEPT !.status = s, !.path = p] \in Row
         /\ [rw EXCEPT !.status = s, !.claimed = TRUE] \in Row
         /\ [rw EXCEPT !.status = s, !.exc = e, !.age = age] \in Row
         /\ [rw EXCEPT !.age = age] \in Row
<1>1. [rw EXCEPT !.status = s, !.path = p] \in Row  BY DEF Row
<1>2. [rw EXCEPT !.status = s, !.claimed = TRUE] \in Row  BY DEF Row
<1>3. [rw EXCEPT !.status = s, !.exc = e, !.age = age] \in Row  BY DEF Row
<1>4. [rw EXCEPT !.age = age] \in Row  BY DEF Row
<1>. QED  BY <1>1, <1>2, <1>3, <1>4

LEMMA AttemptUpdate ==
  ASSUME NEW a \in Attempt, NEW s \in Statuses
  PROVE  /\ [a EXCEPT !.done = TRUE, !.doneStatus = s] \in Attempt
         /\ [a EXCEPT !.cancelled = TRUE] \in Attempt
         /\ [a EXCEPT !.old = TRUE] \in Attempt
BY DEF Attempt

LEMMA RowFields ==
  ASSUME TypeOK, NEW r \in Results
  PROVE  /\ row[r] \in Row /\ att[r] \in Attempt
         /\ row[r].status \in Statuses /\ row[r].exc \in Excs
         /\ row[r].path \in Paths \cup {"none"}
BY DEF TypeOK, Row

LEMMA NewRowType ==
  ASSUME TypeOK, NEW n \in Results, NEW p \in Paths \cup {"none"}, NEW a \in Attempt,
         NewRow(n, p, a)
  PROVE  row' \in [Results -> Row] /\ att' \in [Results -> Attempt]
<1>1. [row[n] EXCEPT !.status = "READY", !.path = p] \in Row  BY RowFields, RowUpdate
<1>. QED  BY <1>1 DEF NewRow, TypeOK

LEMMA MarkType ==
  ASSUME TypeOK, NEW p \in Results, Mark(p)
  PROVE  att' \in [Results -> Attempt] /\ marks' \in [Results -> {"none", "cancel", "flag"}]
<1>1. \A c \in Results : [att[c] EXCEPT !.done = TRUE, !.doneStatus = row[p].status] \in Attempt
  BY RowFields, AttemptUpdate
<1>. QED  BY <1>1, RowFields DEF Mark, TypeOK

LEMMA InitTypeOK == Init => TypeOK
<1>1. \A r \in Results : FirstAttempt(r, 0) \in Attempt  BY FirstAttemptType
<1>. QED  BY <1>1 DEF Init, TypeOK, EmptyRow, Row, Call

LEMMA NextTypeOK == TypeOK /\ [Next]_vars => TypeOK'
<1> SUFFICES ASSUME TypeOK, [Next]_vars PROVE TypeOK'  OBVIOUS
<1> USE ConstantsAssumption
<1>1. ASSUME NEW r \in Results, NEW p \in Paths, NEW pin \in Pins, Enqueue(r, p, pin)
      PROVE  TypeOK'
  <2>1. FirstAttempt(r, pin) \in Attempt  BY FirstAttemptType
  <2>2. row' \in [Results -> Row] /\ att' \in [Results -> Attempt]
    BY <1>1, <2>1, NewRowType DEF Enqueue
  <2>. QED  BY <1>1, <2>2 DEF Enqueue, TypeOK
<1>2. ASSUME NEW w \in Workers, WorkerStep(w) PROVE TypeOK'
  <2>1. ASSUME Report(w), LostChildren(proc[w].task) # {} PROVE TypeOK'
    <3>1. proc[w].task \in Results  BY <2>1 DEF Report, TypeOK
    <3>. QED  BY <2>1, <3>1, MarkType DEF Report, TypeOK
  <2>2. ASSUME Report(w), LostChildren(proc[w].task) = {} PROVE TypeOK'
    <3>1. proc[w].task \in Results  BY <2>2 DEF Report, TypeOK
    <3>2. Classify(proc[w].task, "failed") \in Causes  BY <3>1, ClassifyType
    <3>3. calls' \subseteq Call  BY <2>2, <3>1, <3>2 DEF Report, TypeOK, Call
    <3>. QED  BY <2>2, <3>3 DEF Report, TypeOK
  <2>3. ASSUME ReportLost(w) \/ Crash(w) PROVE TypeOK'
    BY <2>3 DEF ReportLost, Crash, TypeOK
  <2>4. ASSUME NEW r \in Results, Claim(w, r) PROVE TypeOK'
    <3>1. [row[r] EXCEPT !.status = "RUNNING", !.claimed = TRUE] \in Row
      BY RowFields, RowUpdate
    <3>. QED  BY <2>4, <3>1 DEF Claim, TypeOK
  <2>5. ASSUME NEW exc \in Raised \cup {"none", "interrupted"}, Finish(w, exc) PROVE TypeOK'
    <3>1. PICK s \in Statuses :
            /\ proc[w].pc = "running"
            /\ row' = [row EXCEPT ![proc[w].task] =
                         [@ EXCEPT !.status = s, !.exc = exc, !.age = "new"]]
            /\ proc' = [proc EXCEPT ![w].pc = "finished"]
            /\ UNCHANGED <<att, calls, marks>>
      BY <2>5 DEF Finish
    <3>2. \A r \in Results : [row[r] EXCEPT !.status = s, !.exc = exc, !.age = "new"] \in Row
      BY RowFields, RowUpdate
    <3>. QED  BY <3>1, <3>2 DEF TypeOK
  <2>. QED  BY <1>2, <2>1, <2>2, <2>3, <2>4, <2>5 DEF WorkerStep
<1>3. ASSUME NEW r \in Results, SweepStep(r) PROVE TypeOK'
  <2>1. ASSUME Reap(r) PROVE TypeOK'
    <3>1. [row[r] EXCEPT !.status = "FAILED", !.exc = "lost", !.age = "new"] \in Row
      BY RowFields, RowUpdate
    <3>. QED  BY <2>1, <3>1 DEF Reap, TypeOK, Call
  <2>2. ASSUME Repair(r) PROVE TypeOK'
    BY <2>2 DEF Repair, TypeOK, Call
  <2>3. ASSUME DetectLate(r) PROVE TypeOK'
    BY <2>3, MarkType DEF DetectLate, TypeOK
  <2>4. ASSUME CancelRetry(r) PROVE TypeOK'
    <3>1. \A c \in Results :
            [row[c] EXCEPT !.status = "FAILED", !.exc = "superseded", !.age = "new"] \in Row
      BY RowFields, RowUpdate
    <3>. QED  BY <2>4, <3>1 DEF CancelRetry, TypeOK
  <2>5. ASSUME FlagCancelled(r) PROVE TypeOK'
    <3>1. \A c \in Results : [att[c] EXCEPT !.cancelled = TRUE] \in Attempt
      BY RowFields, AttemptUpdate
    <3>. QED  BY <2>5, <3>1 DEF FlagCancelled, TypeOK
  <2>6. ASSUME LoseMark(r) PROVE TypeOK'
    BY <2>6 DEF LoseMark, TypeOK
  <2>7. ASSUME GraceEnds(r) \/ WindowEnds(r) PROVE TypeOK'
    <3>1. \A age \in {"mid", "old"} : [row[r] EXCEPT !.age = age] \in Row
      BY RowFields, RowUpdate
    <3>. QED  BY <2>7, <3>1 DEF GraceEnds, WindowEnds, TypeOK
  <2>8. ASSUME LateWindowEnds(r) PROVE TypeOK'
    <3>1. [att[r] EXCEPT !.old = TRUE] \in Attempt  BY RowFields, AttemptUpdate
    <3>. QED  BY <2>8, <3>1 DEF LateWindowEnds, TypeOK, Candidates
  <2>. QED  BY <1>3, <2>1, <2>2, <2>3, <2>4, <2>5, <2>6, <2>7, <2>8 DEF SweepStep
<1>4. ASSUME NEW c \in calls, CallStep(c) PROVE TypeOK'
  <2>0. c \in Call  BY DEF TypeOK
  <2>1. ASSUME ReadCall(c) PROVE TypeOK'
    BY <2>0, <2>1, ClassifyType DEF ReadCall, TypeOK, Call
  <2>2. ASSUME LoseCall(c) PROVE TypeOK'
    BY <2>2 DEF LoseCall, TypeOK
  <2>3. ASSUME NEW n \in Results, InsertCall(c, n) PROVE TypeOK'
    <3>1. row[c.of].path \in Paths \cup {"none"}  BY <2>0 DEF TypeOK, Row, Call
    <3>2. ChildOf(c) \in Attempt  BY <2>0, ChildOfType
    <3>3. CASE Children(c.of) = {}
      BY <2>3, <3>1, <3>2, <3>3, NewRowType DEF InsertCall, TypeOK
    <3>4. CASE Children(c.of) # {}
      BY <2>3, <3>4 DEF InsertCall, TypeOK
    <3>. QED  BY <3>3, <3>4
  <2>. QED  BY <1>4, <2>1, <2>2, <2>3 DEF CallStep
<1>5. CASE UNCHANGED vars
  BY <1>5 DEF vars, TypeOK
<1>. QED  BY <1>1, <1>2, <1>3, <1>4, <1>5 DEF Next

\* Every reachable state is well typed.
THEOREM TypeCorrect == Spec => []TypeOK
<1>. QED  BY InitTypeOK, NextTypeOK, PTL DEF Spec

-----------------------------------------------------------------------------
(* LostRetryNeedsConsent.  It is not inductive: a retry is inserted by a call  *)
(* that decided in an earlier step, so the consent is carried by the calls in  *)
(* flight, and a retry's row was a row of nobody before.                       *)

UnusedIsFirst == \A r \in Results : row[r].status = "NONE" => att[r].cause = "first"

\* What a call decided still holds of its row when it comes to insert.
Consents(c) ==
  /\ row[c.of].status # "NONE"
  /\ c.cause \in {"lost", "interrupted"} => RetriesLost(c.of)

PendingHasConsent == \A c \in calls : c.stage = "insert" => Consents(c)

ConsentInv == UnusedIsFirst /\ PendingHasConsent /\ LostRetryNeedsConsent

\* What the steps that create no row leave alone.
KeepsRows == \A r \in Results :
  row'[r].path = row[r].path /\ (row'[r].status = "NONE" => row[r].status = "NONE")
KeepsAttempts == \A r \in Results :
  att'[r].cause = att[r].cause /\ att'[r].max = att[r].max

LEMMA ConsentKept ==
  ASSUME TypeOK, ConsentInv, KeepsRows, KeepsAttempts,
         \A c \in calls' \ calls : c.stage = "insert" => c \in Call /\ Consents(c)
  PROVE  ConsentInv'
<1>1. UnusedIsFirst'
  BY DEF ConsentInv, UnusedIsFirst, KeepsRows, KeepsAttempts
<1>2. ASSUME NEW c \in calls', c.stage = "insert" PROVE Consents(c)'
  <2>1. c \in Call /\ Consents(c)
    BY <1>2 DEF ConsentInv, PendingHasConsent, TypeOK
  <2>. QED  BY <2>1 DEF Consents, RetriesLost, KeepsRows, KeepsAttempts, Call
<1>3. LostRetryNeedsConsent'
  BY DEF ConsentInv, LostRetryNeedsConsent, KeepsRows, KeepsAttempts
<1>. QED  BY <1>1, <1>2, <1>3 DEF ConsentInv, PendingHasConsent

\* A decision to retry a worker's death is consent.
LEMMA DecisionConsents ==
  ASSUME TypeOK, NEW r \in Results, NEW cause \in Causes, WillRetry(r, cause)
  PROVE  Consents([of |-> r, cause |-> Classify(r, cause), stage |-> "insert"])
BY DEF WillRetry, Consents

\* A row that is created consents if the attempt it is created with does.
LEMMA ConsentCreated ==
  ASSUME TypeOK, ConsentInv, NEW n \in Results, NEW p \in Paths \cup {"none"},
         NEW a \in Attempt, NewRow(n, p, a), calls' \subseteq calls,
         a.cause \in {"lost", "interrupted"}
           => Policy[p].retryLost /\ (a.max # 0 => Policy[p].declared)
  PROVE  ConsentInv'
<1>1. /\ row[n].status = "NONE"
      /\ att' = [att EXCEPT ![n] = a]
      /\ row' = [row EXCEPT ![n] = [@ EXCEPT !.status = "READY", !.path = p]]
  BY DEF NewRow
<1>2. row'[n].status = "READY" /\ row'[n].path = p /\ att'[n] = a
  BY <1>1 DEF TypeOK, Row
<1>3. \A r \in Results \ {n} : row'[r] = row[r] /\ att'[r] = att[r]
  BY <1>1 DEF TypeOK
<1>4. UnusedIsFirst'  BY <1>2, <1>3 DEF ConsentInv, UnusedIsFirst
<1>5. ASSUME NEW c \in calls', c.stage = "insert" PROVE Consents(c)'
  <2>1. c \in Call /\ Consents(c)
    BY <1>5 DEF ConsentInv, PendingHasConsent, TypeOK
  <2>2. c.of \in Results \ {n}  BY <1>1, <2>1 DEF Consents, Call
  <2>. QED  BY <1>3, <2>1, <2>2 DEF Consents, RetriesLost
<1>6. LostRetryNeedsConsent'
  BY <1>2, <1>3 DEF ConsentInv, LostRetryNeedsConsent
<1>. QED  BY <1>4, <1>5, <1>6 DEF ConsentInv, PendingHasConsent

LEMMA InitConsent == Init => ConsentInv
BY DEF Init, EmptyRow, FirstAttempt, ConsentInv, UnusedIsFirst, PendingHasConsent,
       LostRetryNeedsConsent

LEMMA MarkKeeps ==
  ASSUME TypeOK, NEW p \in Results, Mark(p)
  PROVE  KeepsAttempts
<1>1. ASSUME NEW a \in Attempt, NEW s \in Statuses
      PROVE  /\ [a EXCEPT !.done = TRUE, !.doneStatus = s].cause = a.cause
             /\ [a EXCEPT !.done = TRUE, !.doneStatus = s].max = a.max
  BY DEF Attempt
<1>2. \A c \in Results : att[c] \in Attempt /\ row[p].status \in Statuses
  BY RowFields
<1>. QED  BY <1>1, <1>2 DEF Mark, KeepsAttempts

LEMMA NextConsent == TypeOK /\ ConsentInv /\ [Next]_vars => ConsentInv'
<1> SUFFICES ASSUME TypeOK, ConsentInv, [Next]_vars PROVE ConsentInv'  OBVIOUS
<1> USE ConstantsAssumption
<1>1. ASSUME NEW r \in Results, NEW p \in Paths, NEW pin \in Pins, Enqueue(r, p, pin)
      PROVE  ConsentInv'
  <2>1. FirstAttempt(r, pin) \in Attempt  BY FirstAttemptType
  <2>2. FirstAttempt(r, pin).cause = "first"  BY DEF FirstAttempt
  <2>. QED  BY <1>1, <2>1, <2>2, ConsentCreated DEF Enqueue
<1>2. ASSUME NEW w \in Workers, WorkerStep(w) PROVE ConsentInv'
  <2>1. ASSUME Report(w), LostChildren(proc[w].task) # {} PROVE ConsentInv'
    <3>1. proc[w].task \in Results  BY <2>1 DEF Report, TypeOK
    <3>2. Mark(proc[w].task) /\ calls' = calls /\ row' = row  BY <2>1 DEF Report
    <3>. QED  BY <3>1, <3>2, MarkKeeps, ConsentKept DEF KeepsRows
  <2>2. ASSUME Report(w), LostChildren(proc[w].task) = {} PROVE ConsentInv'
    <3> DEFINE r == proc[w].task
               c == [of |-> r, cause |-> Classify(r, "failed"), stage |-> "insert"]
    <3>1. r \in Results  BY <2>2 DEF Report, TypeOK
    <3>2. c \in Call  BY <3>1, ClassifyType DEF Call
    <3>3. row' = row /\ att' = att  BY <2>2 DEF Report
    <3>4. calls' = IF WillRetry(r, "failed") THEN calls \cup {c} ELSE calls
      BY <2>2 DEF Report
    <3>5. WillRetry(r, "failed") => Consents(c)  BY <3>1, DecisionConsents
    <3> HIDE DEF c
    <3>. QED  BY <3>2, <3>3, <3>4, <3>5, ConsentKept DEF KeepsRows, KeepsAttempts
  <2>3. ASSUME ReportLost(w) \/ Crash(w) PROVE ConsentInv'
    BY <2>3, ConsentKept DEF ReportLost, Crash, KeepsRows, KeepsAttempts
  <2>4. ASSUME NEW r \in Results, Claim(w, r) PROVE ConsentInv'
    <3>1. KeepsRows  BY <2>4 DEF Claim, KeepsRows, TypeOK, Row
    <3>. QED  BY <2>4, <3>1, ConsentKept DEF Claim, KeepsAttempts
  <2>5. ASSUME NEW exc \in Raised \cup {"none", "interrupted"}, Finish(w, exc)
        PROVE  ConsentInv'
    <3>1. proc[w].task \in Results /\ row[proc[w].task] \in Row
      BY <2>5 DEF Finish, TypeOK
    <3>2. KeepsRows  BY <2>5, <3>1 DEF Finish, KeepsRows, TypeOK, Row
    <3>. QED  BY <2>5, <3>2, ConsentKept DEF Finish, KeepsAttempts
  <2>. QED  BY <1>2, <2>1, <2>2, <2>3, <2>4, <2>5 DEF WorkerStep
<1>3. ASSUME NEW r \in Results, SweepStep(r) PROVE ConsentInv'
  <2>1. ASSUME Reap(r) PROVE ConsentInv'
    <3>1. KeepsRows  BY <2>1 DEF Reap, KeepsRows, TypeOK, Row
    <3>2. calls' = calls \cup {[of |-> r, cause |-> "lost", stage |-> "read"]} /\ att' = att
      BY <2>1 DEF Reap
    <3>. QED  BY <3>1, <3>2, ConsentKept DEF KeepsAttempts
  <2>2. ASSUME Repair(r) PROVE ConsentInv'
    <3>1. calls' = calls \cup {[of |-> r, cause |-> "failed", stage |-> "read"]}
      BY <2>2 DEF Repair
    <3>2. row' = row /\ att' = att  BY <2>2 DEF Repair
    <3>. QED  BY <3>1, <3>2, ConsentKept DEF KeepsRows, KeepsAttempts
  <2>3. ASSUME DetectLate(r) PROVE ConsentInv'
    <3>1. Mark(r) /\ calls' = calls /\ row' = row  BY <2>3 DEF DetectLate
    <3>. QED  BY <3>1, MarkKeeps, ConsentKept DEF KeepsRows
  <2>4. ASSUME CancelRetry(r) PROVE ConsentInv'
    <3>1. KeepsRows  BY <2>4 DEF CancelRetry, KeepsRows, TypeOK, Row
    <3>. QED  BY <2>4, <3>1, ConsentKept DEF CancelRetry, KeepsAttempts
  <2>5. ASSUME FlagCancelled(r) PROVE ConsentInv'
    <3>1. KeepsAttempts  BY <2>5 DEF FlagCancelled, KeepsAttempts, TypeOK, Attempt
    <3>. QED  BY <2>5, <3>1, ConsentKept DEF FlagCancelled, KeepsRows
  <2>6. ASSUME LoseMark(r) PROVE ConsentInv'
    BY <2>6, ConsentKept DEF LoseMark, KeepsRows, KeepsAttempts
  <2>7. ASSUME GraceEnds(r) \/ WindowEnds(r) PROVE ConsentInv'
    <3>1. KeepsRows  BY <2>7 DEF GraceEnds, WindowEnds, KeepsRows, TypeOK, Row
    <3>. QED  BY <2>7, <3>1, ConsentKept DEF GraceEnds, WindowEnds, KeepsAttempts
  <2>8. ASSUME LateWindowEnds(r) PROVE ConsentInv'
    <3>1. KeepsAttempts  BY <2>8 DEF LateWindowEnds, KeepsAttempts, TypeOK, Attempt
    <3>. QED  BY <2>8, <3>1, ConsentKept DEF LateWindowEnds, KeepsRows
  <2>. QED  BY <1>3, <2>1, <2>2, <2>3, <2>4, <2>5, <2>6, <2>7, <2>8 DEF SweepStep
<1>4. ASSUME NEW c \in calls, CallStep(c) PROVE ConsentInv'
  <2>0. c \in Call /\ c.of \in Results /\ c.cause \in Causes  BY DEF TypeOK, Call
  <2>1. ASSUME ReadCall(c) PROVE ConsentInv'
    <3> DEFINE d == [of |-> c.of, cause |-> Classify(c.of, c.cause), stage |-> "insert"]
    <3>1. d \in Call  BY <2>0, ClassifyType DEF Call
    <3>2. row' = row /\ att' = att  BY <2>1 DEF ReadCall
    <3>3. calls' = (calls \ {c}) \cup (IF WillRetry(c.of, c.cause) THEN {d} ELSE {})
      BY <2>1 DEF ReadCall
    <3>4. WillRetry(c.of, c.cause) => Consents(d)  BY <2>0, DecisionConsents
    <3> HIDE DEF d
    <3>. QED  BY <3>1, <3>2, <3>3, <3>4, ConsentKept DEF KeepsRows, KeepsAttempts
  <2>2. ASSUME LoseCall(c) PROVE ConsentInv'
    BY <2>2, ConsentKept DEF LoseCall, KeepsRows, KeepsAttempts
  <2>3. ASSUME NEW n \in Results, InsertCall(c, n) PROVE ConsentInv'
    <3>1. calls' = calls \ {c}  BY <2>3 DEF InsertCall
    <3>2. CASE Children(c.of) # {}
      BY <2>3, <3>1, <3>2, ConsentKept DEF InsertCall, KeepsRows, KeepsAttempts
    <3>3. CASE Children(c.of) = {}
      <4>1. NewRow(n, row[c.of].path, ChildOf(c))  BY <2>3, <3>3 DEF InsertCall
      <4>2. ChildOf(c) \in Attempt  BY <2>0, ChildOfType
      <4>3. row[c.of].path \in Paths \cup {"none"}  BY <2>0, RowFields
      <4>4. Consents(c)  BY <2>3 DEF InsertCall, ConsentInv, PendingHasConsent
      <4>5. ChildOf(c).cause = c.cause /\ ChildOf(c).max = att[c.of].max  BY DEF ChildOf
      <4>. QED  BY <3>1, <4>1, <4>2, <4>3, <4>4, <4>5, ConsentCreated
                DEF Consents, RetriesLost
    <3>. QED  BY <3>2, <3>3
  <2>. QED  BY <1>4, <2>1, <2>2, <2>3 DEF CallStep
<1>5. CASE UNCHANGED vars
  BY <1>5, ConsentKept DEF vars, KeepsRows, KeepsAttempts
<1>. QED  BY <1>1, <1>2, <1>3, <1>4, <1>5 DEF Next

\* No worker's death, and no forced exit, is ever retried without consent: not for
\* an undeclared task whose budget an operator pinned, nor against retry_lost=False.
THEOREM ConsentRespected == Spec => []LostRetryNeedsConsent
<1>1. ConsentInv => LostRetryNeedsConsent  BY DEF ConsentInv
<1>. QED  BY <1>1, InitConsent, NextConsent, TypeCorrect, PTL DEF Spec

-----------------------------------------------------------------------------
(* The chains.  A worker that holds a task holds it alone; a row that ended is *)
(* final unless the reaper ended it and its claimant still runs; a chain is a  *)
(* line, numbered from one, of one path and one budget; and what a call or a    *)
(* mark in flight found of its row still holds when it comes to write.          *)

Ended == {"SUCCESSFUL", "FAILED"}
Runs(w, r) == proc[w].pc = "running" /\ proc[w].task = r

RowsInv == \A r \in Results :
  /\ row[r].status \in {"NONE", "READY"} => ~row[r].claimed
  /\ row[r].status # "FAILED" => row[r].exc = "none"
  /\ row[r].exc = "superseded" => ~row[r].claimed
  /\ row[r].status # "NONE" => row[r].path \in Paths

HoldersInv ==
  /\ \A w \in Workers, r \in Results : Runs(w, r) =>
       /\ row[r].claimed
       /\ row[r].status = "RUNNING" \/ (row[r].status = "FAILED" /\ row[r].exc = "lost")
  /\ \A w \in Workers, r \in Results : proc[w].pc = "finished" /\ proc[w].task = r =>
       row[r].claimed /\ row[r].status \in Ended /\ row[r].exc # "lost"
  /\ \A v, w \in Workers : proc[v].task = proc[w].task /\ proc[w].task # NoResult => v = w

\* What is known of an attempt that was retried, or that a call will retry.
Retriable(r, cause) ==
  /\ row[r].status \in Ended /\ row[r].exc # "superseded"
  /\ cause # "lost" => \A w \in Workers : ~Runs(w, r)

LineInv ==
  /\ \A c \in Results : att[c].parent = NoResult => att[c].root = c /\ att[c].attempt = 1
  /\ \A c \in Results : row[c].status = "NONE" => att[c].parent = NoResult
  /\ \A c \in Results : att[c].parent # NoResult =>
       /\ att[c].root = att[att[c].parent].root
       /\ att[c].attempt = att[att[c].parent].attempt + 1
       /\ Retriable(att[c].parent, att[c].cause)
  /\ \A c \in Results : row[c].status # "NONE" =>
       /\ row[att[c].root].status # "NONE" /\ row[att[c].root].path = row[c].path
       /\ att[att[c].root].max = att[c].max
       /\ att[c].attempt <= Budget(c)
  /\ \A c, d \in Results : att[c].root = att[d].root /\ att[c].attempt = att[d].attempt => c = d

CallsInv == \A k \in calls : k.stage = "insert" =>
  Retriable(k.of, k.cause) /\ att[k.of].attempt < Budget(k.of)

MarksInv ==
  /\ \A c \in Results : att[c].cancelled => row[c].exc = "superseded"
  /\ \A p \in Results : marks[p] = "flag" =>
       Children(p) # {} /\ \A c \in Children(p) : row[c].exc = "superseded"
  /\ \A c \in Results : att[c].done =>
       /\ att[c].cause = "lost" /\ att[c].parent # NoResult
       /\ row[att[c].parent].status = att[c].doneStatus /\ att[c].doneStatus \in Ended
       /\ row[att[c].parent].exc # "lost"

ChainInv == RowsInv /\ HoldersInv /\ LineInv /\ CallsInv /\ MarksInv

\* What the steps that create no row leave of the chains.
SameChains ==
  /\ \A c \in Results :
       /\ att'[c].root = att[c].root /\ att'[c].parent = att[c].parent
       /\ att'[c].attempt = att[c].attempt /\ att'[c].max = att[c].max
       /\ att'[c].cause = att[c].cause
  /\ \A r \in Results :
       /\ row'[r].path = row[r].path
       /\ row'[r].status = "NONE" <=> row[r].status = "NONE"
       /\ row[r].status \in Ended /\ row[r].exc # "superseded"
            => row'[r].status \in Ended /\ row'[r].exc # "superseded"
       /\ \A w \in Workers : Runs(w, r)' => Runs(w, r) \/ row[r].status \notin Ended

\* What was retried stays as it was when it was retried.
LEMMA RetriableKept ==
  ASSUME SameChains, NEW r \in Results, NEW cause, Retriable(r, cause)
  PROVE  Retriable(r, cause)'
BY DEF SameChains, Retriable

LEMMA BudgetKept ==
  ASSUME SameChains, NEW r \in Results
  PROVE  Budget(r)' = Budget(r)
BY DEF SameChains, Budget

LEMMA ParentFields ==
  ASSUME TypeOK, NEW c \in Results
  PROVE  /\ att[c].root \in Results /\ att[c].parent \in Results \cup {NoResult}
         /\ att[c].attempt \in Nat \ {0} /\ att[c].max \in Nat /\ att[c].cause \in Causes
         /\ att[c].done \in BOOLEAN /\ att[c].cancelled \in BOOLEAN
         /\ att[c].doneStatus \in Statuses
BY DEF TypeOK, Attempt

\* A step that creates no row keeps the line and the calls, if new calls decided well.
LEMMA ChainsKept ==
  ASSUME TypeOK, LineInv, CallsInv, SameChains,
         \A k \in calls' \ calls : k.stage = "insert" =>
           k.of \in Results /\ Retriable(k.of, k.cause) /\ att[k.of].attempt < Budget(k.of)
  PROVE  LineInv' /\ CallsInv'
<1>1. ASSUME NEW k \in calls', k.stage = "insert"
      PROVE  Retriable(k.of, k.cause)' /\ att'[k.of].attempt < Budget(k.of)'
  <2>1. k.of \in Results /\ Retriable(k.of, k.cause) /\ att[k.of].attempt < Budget(k.of)
    BY <1>1 DEF CallsInv, TypeOK, Call
  <2>. QED  BY <2>1, RetriableKept, BudgetKept DEF SameChains
<1>2. ASSUME NEW c \in Results, (att[c].parent # NoResult)'
      PROVE  (/\ att[c].root = att[att[c].parent].root
              /\ att[c].attempt = att[att[c].parent].attempt + 1
              /\ Retriable(att[c].parent, att[c].cause))'
  <2> DEFINE p == att[c].parent
  <2>1. att'[c].parent = p /\ p \in Results /\ att'[c].cause = att[c].cause
    BY <1>2, ParentFields DEF SameChains
  <2>2. att[c].root = att[p].root /\ att[c].attempt = att[p].attempt + 1
    BY <1>2, <2>1 DEF LineInv
  <2>3. Retriable(p, att[c].cause)'
    BY <1>2, <2>1, RetriableKept DEF LineInv
  <2>. QED  BY <2>1, <2>2, <2>3 DEF SameChains, Retriable
<1>3. ASSUME NEW c \in Results, (row[c].status # "NONE")'
      PROVE  (/\ row[att[c].root].status # "NONE" /\ row[att[c].root].path = row[c].path
              /\ att[att[c].root].max = att[c].max
              /\ att[c].attempt <= Budget(c))'
  <2>1. att'[c].root = att[c].root /\ att[c].root \in Results
    BY ParentFields DEF SameChains
  <2>. QED  BY <1>3, <2>1, BudgetKept DEF SameChains, LineInv
<1>4. \A c \in Results :
        /\ (att[c].parent = NoResult => att[c].root = c /\ att[c].attempt = 1)'
        /\ (row[c].status = "NONE" => att[c].parent = NoResult)'
        /\ \A d \in Results :
             (att[c].root = att[d].root /\ att[c].attempt = att[d].attempt => c = d)'
  BY DEF LineInv, SameChains
<1>5. LineInv'  BY <1>2, <1>3, <1>4 DEF LineInv
<1>. QED  BY <1>1, <1>5 DEF CallsInv

\* An attempt has one retry at most.
LEMMA OneChild ==
  ASSUME TypeOK, LineInv, NEW p \in Results, NEW c \in Children(p), NEW d \in Children(p)
  PROVE  c = d
<1>1. c \in Results /\ d \in Results /\ att[c].parent = p /\ att[d].parent = p /\ p # NoResult
  BY ConstantsAssumption DEF Children
<1>. QED  BY <1>1, ParentFields DEF LineInv

\* A row that ended stays as it ended, unless the reaper ended it.
FinalRows == \A r \in Results :
  row[r].status \in Ended /\ row[r].exc # "lost"
    => row'[r].status = row[r].status /\ row'[r].exc = row[r].exc

\* A cancelled retry stays cancelled.
LEMMA SupersededStays ==
  ASSUME RowsInv, FinalRows, NEW r \in Results, row[r].exc = "superseded"
  PROVE  row'[r].exc = "superseded"
BY DEF RowsInv, FinalRows, Ended

\* The marks of the attempts hold as long as nobody writes to the attempts.
LEMMA MarksKept ==
  ASSUME TypeOK, RowsInv, MarksInv, FinalRows, att' = att,
         \A p \in Results : marks'[p] = "flag" => marks[p] = "flag"
  PROVE  MarksInv'
<1>1. \A p \in Results : Children(p)' = Children(p)  BY DEF Children
<1>2. \A p \in Results : Children(p) \subseteq Results  BY DEF Children
<1>. QED  BY <1>1, <1>2, SupersededStays, ParentFields DEF MarksInv, FinalRows

\* What one row becomes, of the rows of the type.
LEMMA RowSteps ==
  ASSUME NEW rw \in Row, NEW s \in Statuses, NEW e \in Excs, NEW age \in {"new", "mid", "old"},
         NEW p \in Paths \cup {"none"}
  PROVE  /\ LET x == [rw EXCEPT !.status = s, !.path = p] IN
              x.status = s /\ x.path = p /\ x.exc = rw.exc /\ x.claimed = rw.claimed
         /\ LET x == [rw EXCEPT !.status = s, !.claimed = TRUE] IN
              x.status = s /\ x.claimed = TRUE /\ x.exc = rw.exc /\ x.path = rw.path
         /\ LET x == [rw EXCEPT !.status = s, !.exc = e, !.age = age] IN
              x.status = s /\ x.exc = e /\ x.claimed = rw.claimed /\ x.path = rw.path
         /\ LET x == [rw EXCEPT !.age = age] IN
              x.status = rw.status /\ x.exc = rw.exc /\ x.claimed = rw.claimed /\ x.path = rw.path
BY DEF Row

\* The fields of a row that the chains depend on.
SameRow(r) ==
  /\ row'[r].status = row[r].status /\ row'[r].exc = row[r].exc
  /\ row'[r].claimed = row[r].claimed /\ row'[r].path = row[r].path

\* A step that writes no attempt: what it must show of the rows and of who runs them.
LEMMA RowStepKeeps ==
  ASSUME TypeOK, ChainInv, att' = att,
         RowsInv', HoldersInv', FinalRows,
         \A r \in Results :
           /\ row'[r].path = row[r].path
           /\ row'[r].status = "NONE" <=> row[r].status = "NONE"
           /\ row[r].status \in Ended => row'[r].status \in Ended
           /\ row'[r].exc = "superseded" => row[r].exc = "superseded" \/ row[r].status \notin Ended
           /\ \A w \in Workers : Runs(w, r)' => Runs(w, r) \/ row[r].status \notin Ended,
         \A p \in Results : marks'[p] = "flag" => marks[p] = "flag",
         \A k \in calls' \ calls : k.stage = "insert" =>
           k.of \in Results /\ Retriable(k.of, k.cause) /\ att[k.of].attempt < Budget(k.of)
  PROVE  ChainInv'
<1>1. SameChains  BY DEF SameChains
<1>2. LineInv' /\ CallsInv'  BY <1>1, ChainsKept DEF ChainInv
<1>3. MarksInv'  BY MarksKept DEF ChainInv
<1>. QED  BY <1>2, <1>3 DEF ChainInv

\* A worker's process that stops holding its task.
LEMMA LetsGo ==
  ASSUME TypeOK, ChainInv, NEW w \in Workers, NEW pc \in {"idle", "dead"}, row' = row,
         proc' = [proc EXCEPT ![w] = [pc |-> pc, task |-> NoResult]]
  PROVE  RowsInv' /\ HoldersInv' /\ FinalRows /\ \A v \in Workers, r \in Results : Runs(v, r)' => Runs(v, r)
<1>1. \A v \in Workers : v # w => proc'[v] = proc[v]  BY DEF TypeOK
<1>2. proc'[w] = [pc |-> pc, task |-> NoResult]  BY DEF TypeOK
<1>3. RowsInv' /\ FinalRows  BY DEF ChainInv, RowsInv, FinalRows
<1>4. \A v \in Workers, r \in Results : Runs(v, r)' => Runs(v, r)  BY <1>1, <1>2 DEF Runs
<1>5. HoldersInv'
  BY <1>1, <1>2, <1>4, ConstantsAssumption DEF ChainInv, HoldersInv
<1>. QED  BY <1>3, <1>4, <1>5

-----------------------------------------------------------------------------
(* ChainInv, one action at a time. *)

\* A claimed row was READY, so nobody held it.
LEMMA ClaimChains ==
  ASSUME TypeOK, ChainInv, NEW w \in Workers, NEW r \in Results, Claim(w, r)
  PROVE  ChainInv'
<1>1. /\ row[r].status = "READY" /\ row[r].exc = "none" /\ proc[w].pc = "idle"
      /\ row[r].path \in Paths
  BY DEF Claim, ChainInv, RowsInv
<1>2. /\ row'[r].status = "RUNNING" /\ row'[r].claimed = TRUE
      /\ row'[r].exc = "none" /\ row'[r].path = row[r].path
  BY <1>1, RowSteps, RowFields DEF Claim, TypeOK
<1>3. \A s \in Results : s # r => row'[s] = row[s]  BY DEF Claim, TypeOK
<1>4. proc'[w].pc = "running" /\ proc'[w].task = r  BY DEF Claim, TypeOK
<1>5. \A v \in Workers : v # w => proc'[v] = proc[v]  BY DEF Claim, TypeOK
<1>6. RowsInv'  BY <1>1, <1>2, <1>3 DEF ChainInv, RowsInv
<1>7. \A v \in Workers : proc[v].task # r
  BY <1>1, ConstantsAssumption DEF ChainInv, HoldersInv, Ended, Runs, TypeOK
<1>8. HoldersInv'
  BY <1>1, <1>2, <1>3, <1>4, <1>5, <1>7 DEF ChainInv, HoldersInv, Runs
<1>9. FinalRows  BY <1>1, <1>3 DEF FinalRows, Ended
<1>10. att' = att /\ calls' = calls /\ marks' = marks  BY DEF Claim
<1>. QED
  BY <1>1, <1>2, <1>3, <1>4, <1>5, <1>6, <1>8, <1>9, <1>10, RowStepKeeps DEF Runs, Ended

\* The one write over a row that may have ended: its claimant's, over a verdict.
LEMMA FinishChains ==
  ASSUME TypeOK, ChainInv, NEW w \in Workers,
         NEW exc \in Raised \cup {"none", "interrupted"}, Finish(w, exc)
  PROVE  ChainInv'
<1> DEFINE t == proc[w].task
           s == IF exc = "none" THEN "SUCCESSFUL" ELSE "FAILED"
<1>1. proc[w].pc = "running" /\ t \in Results  BY DEF Finish, TypeOK
<1>2. /\ row'[t].status = s /\ row'[t].exc = exc
      /\ row'[t].claimed = row[t].claimed /\ row'[t].path = row[t].path
  BY <1>1, RowSteps, RowFields DEF Finish, TypeOK
<1>3. \A r \in Results : r # t => row'[r] = row[r]  BY DEF Finish, TypeOK
<1>4. proc'[w].pc = "finished" /\ proc'[w].task = t  BY DEF Finish, TypeOK
<1>5. \A v \in Workers : v # w => proc'[v] = proc[v]  BY DEF Finish, TypeOK
<1>6. /\ row[t].claimed
      /\ row[t].status = "RUNNING" \/ (row[t].status = "FAILED" /\ row[t].exc = "lost")
  BY <1>1 DEF ChainInv, HoldersInv, Runs
<1>7. \A v \in Workers : v # w => proc[v].task # t
  BY <1>1, ConstantsAssumption DEF ChainInv, HoldersInv
<1>0. s \in Ended /\ (s # "FAILED" => exc = "none") /\ exc \notin {"lost", "superseded"}
  BY DEF Ended
<1> HIDE DEF s
<1>8. RowsInv'  BY <1>0, <1>1, <1>2, <1>3, <1>6 DEF ChainInv, RowsInv, Ended
<1>9. HoldersInv'
  <2>1. \A v \in Workers : proc'[v].task = proc[v].task  BY <1>4, <1>5
  <2>2. \A v \in Workers, r \in Results : Runs(v, r)' => Runs(v, r) /\ r # t
    BY <1>4, <1>5, <1>7 DEF Runs
  <2>3. \A v \in Workers, r \in Results :
          (proc[v].pc = "finished" /\ proc[v].task = r)'
            => (v = w /\ r = t) \/ (r # t /\ proc[v].pc = "finished" /\ proc[v].task = r)
    BY <1>4, <1>5, <1>7
  <2>4. ASSUME NEW v \in Workers, NEW r \in Results, Runs(v, r)'
        PROVE  /\ row'[r].claimed
               /\ row'[r].status = "RUNNING" \/ (row'[r].status = "FAILED" /\ row'[r].exc = "lost")
    BY <1>3, <2>2, <2>4 DEF ChainInv, HoldersInv
  <2>5. ASSUME NEW v \in Workers, NEW r \in Results, (proc[v].pc = "finished" /\ proc[v].task = r)'
        PROVE  row'[r].claimed /\ row'[r].status \in Ended /\ row'[r].exc # "lost"
    <3>1. CASE r = t  BY <1>0, <1>2, <1>6, <3>1
    <3>2. CASE r # t  BY <1>3, <2>3, <2>5, <3>2 DEF ChainInv, HoldersInv
    <3>. QED  BY <3>1, <3>2
  <2>. QED  BY <2>1, <2>4, <2>5 DEF ChainInv, HoldersInv
<1>10. FinalRows  BY <1>3, <1>6 DEF FinalRows, Ended
<1>11. att' = att /\ calls' = calls /\ marks' = marks  BY DEF Finish
<1>. QED
  BY <1>0, <1>1, <1>2, <1>3, <1>4, <1>5, <1>6, <1>8, <1>9, <1>10, <1>11, RowStepKeeps DEF Runs, Ended

\* A RUNNING row is declared lost; whoever runs it still holds it.
LEMMA ReapChains ==
  ASSUME TypeOK, ChainInv, NEW r \in Results, Reap(r)
  PROVE  ChainInv'
<1>1. row[r].status = "RUNNING" /\ row[r].path \in Paths  BY DEF Reap, ChainInv, RowsInv
<1>2. /\ row'[r].status = "FAILED" /\ row'[r].exc = "lost"
      /\ row'[r].claimed = row[r].claimed /\ row'[r].path = row[r].path
  BY RowSteps, RowFields DEF Reap, TypeOK
<1>3. \A s \in Results : s # r => row'[s] = row[s]  BY DEF Reap, TypeOK
<1>4. RowsInv'  BY <1>1, <1>2, <1>3 DEF ChainInv, RowsInv
<1>5. proc' = proc /\ att' = att /\ marks' = marks  BY DEF Reap
<1>6. HoldersInv'
  BY <1>1, <1>2, <1>3, <1>5 DEF ChainInv, HoldersInv, Runs, Ended
<1>7. FinalRows  BY <1>1, <1>3 DEF FinalRows, Ended
<1>8. calls' = calls \cup {[of |-> r, cause |-> "lost", stage |-> "read"]}  BY DEF Reap
<1>. QED
  BY <1>1, <1>2, <1>3, <1>4, <1>5, <1>6, <1>7, <1>8, RowStepKeeps DEF Runs, Ended

\* Only the clock of a failure moves.
LEMMA AgeChains ==
  ASSUME TypeOK, ChainInv, NEW r \in Results, GraceEnds(r) \/ WindowEnds(r)
  PROVE  ChainInv'
<1>1. \A s \in Results : SameRow(s)
  <2>1. row'[r] = [row[r] EXCEPT !.age = "mid"] \/ row'[r] = [row[r] EXCEPT !.age = "old"]
    BY DEF GraceEnds, WindowEnds, TypeOK
  <2>3. SameRow(r)  BY <2>1, RowFields DEF Row, SameRow
  <2>2. \A s \in Results : s # r => row'[s] = row[s]
    BY DEF GraceEnds, WindowEnds, TypeOK
  <2>. QED  BY <2>2, <2>3 DEF SameRow
<1>2. UNCHANGED <<att, proc, calls, marks>>  BY DEF GraceEnds, WindowEnds
<1>3. RowsInv' /\ HoldersInv' /\ FinalRows
  BY <1>1, <1>2 DEF ChainInv, RowsInv, HoldersInv, FinalRows, SameRow, Runs
<1>. QED  BY <1>1, <1>2, <1>3, RowStepKeeps DEF SameRow, Runs

\* A worker forgets its task: nothing is written.
LEMMA IdleChains ==
  ASSUME TypeOK, ChainInv, NEW w \in Workers, ReportLost(w) \/ Crash(w)
  PROVE  ChainInv'
<1>1. PICK pc \in {"idle", "dead"} : proc' = [proc EXCEPT ![w] = [pc |-> pc, task |-> NoResult]]
  BY DEF ReportLost, Crash
<1>2. UNCHANGED <<row, att, calls, marks>>  BY DEF ReportLost, Crash
<1>. QED  BY <1>1, <1>2, LetsGo, RowStepKeeps

\* A decision to retry, taken on the row as it is.
LEMMA DecisionRetriable ==
  ASSUME TypeOK, ChainInv, NEW r \in Results, NEW cause, WillRetry(r, cause)
  PROVE  Retriable(r, Classify(r, cause)) /\ att[r].attempt < Budget(r)
<1>1. row[r].status = "FAILED" /\ row[r].exc # "superseded" /\ att[r].attempt < Budget(r)
  BY DEF WillRetry
<1>2. ASSUME Classify(r, cause) # "lost", NEW w \in Workers PROVE ~Runs(w, r)
  <2>1. row[r].exc # "lost"  BY <1>2 DEF Classify
  <2>. QED  BY <1>1, <2>1 DEF ChainInv, HoldersInv
<1>. QED  BY <1>1, <1>2 DEF Retriable, Ended

\* What one attempt becomes, of the attempts of the type.
LEMMA MarkFields ==
  ASSUME NEW a \in Attempt, NEW s \in Statuses
  PROVE  /\ LET x == [a EXCEPT !.done = TRUE, !.doneStatus = s] IN
              /\ x.root = a.root /\ x.parent = a.parent /\ x.attempt = a.attempt
              /\ x.max = a.max /\ x.cause = a.cause /\ x.cancelled = a.cancelled
              /\ x.done = TRUE /\ x.doneStatus = s
         /\ LET x == [a EXCEPT !.cancelled = TRUE] IN
              /\ x.root = a.root /\ x.parent = a.parent /\ x.attempt = a.attempt
              /\ x.max = a.max /\ x.cause = a.cause /\ x.done = a.done
              /\ x.doneStatus = a.doneStatus /\ x.cancelled = TRUE
         /\ LET x == [a EXCEPT !.old = TRUE] IN
              /\ x.root = a.root /\ x.parent = a.parent /\ x.attempt = a.attempt
              /\ x.max = a.max /\ x.cause = a.cause /\ x.done = a.done
              /\ x.doneStatus = a.doneStatus /\ x.cancelled = a.cancelled
BY DEF Attempt

\* A late completion is marked while its attempt is known to have ended by itself.
LEMMA MarkChains ==
  ASSUME TypeOK, ChainInv, NEW p \in Results, Mark(p), row' = row, calls' = calls,
         row[p].status \in Ended, row[p].exc # "lost",
         RowsInv', HoldersInv', \A w \in Workers, r \in Results : Runs(w, r)' => Runs(w, r)
  PROVE  ChainInv'
<1>1. ASSUME NEW c \in Results
      PROVE  /\ att'[c].root = att[c].root /\ att'[c].parent = att[c].parent
             /\ att'[c].attempt = att[c].attempt /\ att'[c].max = att[c].max
             /\ att'[c].cause = att[c].cause /\ att'[c].cancelled = att[c].cancelled
             /\ c \in LostChildren(p) => att'[c].done = TRUE /\ att'[c].doneStatus = row[p].status
             /\ c \notin LostChildren(p) => att'[c] = att[c]
  <2>1. CASE c \in LostChildren(p)
    <3>1. att'[c] = [att[c] EXCEPT !.done = TRUE, !.doneStatus = row[p].status]
      BY <2>1 DEF Mark
    <3>2. att[c] \in Attempt /\ row[p].status \in Statuses  BY RowFields
    <3>. QED  BY <2>1, <3>1, <3>2, MarkFields
  <2>2. CASE c \notin LostChildren(p)  BY <2>2 DEF Mark
  <2>. QED  BY <2>1, <2>2
<1>2. SameChains  BY <1>1 DEF SameChains
<1>3. LineInv' /\ CallsInv'  BY <1>2, ChainsKept DEF ChainInv
<1>4. \A q \in Results : Children(q)' = Children(q)  BY <1>1 DEF Children
<1>5. \A q \in Results : marks'[q] = "flag" => marks[q] = "flag"  BY DEF Mark, TypeOK
<1>6. \A c \in LostChildren(p) : att[c].cause = "lost" /\ att[c].parent = p
  BY DEF LostChildren, Children
<1>7. ASSUME NEW c \in Results, att'[c].done
      PROVE  /\ att[c].cause = "lost" /\ att[c].parent # NoResult
             /\ row[att[c].parent].status = att'[c].doneStatus /\ att'[c].doneStatus \in Ended
             /\ row[att[c].parent].exc # "lost"
  <2>1. CASE c \in LostChildren(p)
    <3>1. att'[c].doneStatus = row[p].status  BY <1>1, <2>1
    <3>2. att[c].cause = "lost" /\ att[c].parent = p  BY <1>6, <2>1
    <3>. QED  BY <3>1, <3>2, ConstantsAssumption
  <2>2. CASE c \notin LostChildren(p)
    <3>1. att'[c].done = att[c].done /\ att'[c].doneStatus = att[c].doneStatus
      BY <1>1, <2>2
    <3>2. att[c].done  BY <1>7, <3>1
    <3>. QED  BY <3>1, <3>2 DEF ChainInv, MarksInv
  <2>. QED  BY <2>1, <2>2
<1>8. \A c \in Results : att'[c].cancelled => row[c].exc = "superseded"
  BY <1>1 DEF ChainInv, MarksInv
<1>9. \A q \in Results : marks'[q] = "flag" =>
        Children(q)' # {} /\ \A c \in Children(q)' : row[c].exc = "superseded"
  BY <1>4, <1>5 DEF ChainInv, MarksInv
<1>10. MarksInv'
  <2>1. \A c \in Results : (att[c].cancelled => row[c].exc = "superseded")'  BY <1>8
  <2>2. \A q \in Results : (marks[q] = "flag" =>
          Children(q) # {} /\ \A c \in Children(q) : row[c].exc = "superseded")'  BY <1>9
  <2>3. ASSUME NEW c \in Results, att[c].done'
        PROVE  (/\ att[c].cause = "lost" /\ att[c].parent # NoResult
                /\ row[att[c].parent].status = att[c].doneStatus /\ att[c].doneStatus \in Ended
                /\ row[att[c].parent].exc # "lost")'
    <3>1. att'[c].cause = att[c].cause /\ att'[c].parent = att[c].parent  BY <1>1
    <3>. QED  BY <1>7, <2>3, <3>1 DEF Ended
  <2>. QED  BY <2>1, <2>2, <2>3 DEF MarksInv
<1>. QED  BY <1>3, <1>10 DEF ChainInv

\* The receiver marks a late completion, or decides on a row that its worker ended.
LEMMA ReportChains ==
  ASSUME TypeOK, ChainInv, NEW w \in Workers, Report(w)
  PROVE  ChainInv'
<1> DEFINE r == proc[w].task
<1>1. r \in Results /\ proc[w].pc = "finished"  BY DEF Report, TypeOK
<1>2. row[r].status \in Ended /\ row[r].exc # "lost"  BY <1>1 DEF ChainInv, HoldersInv
<1>3. row' = row /\ proc' = [proc EXCEPT ![w] = [pc |-> "idle", task |-> NoResult]]
  BY DEF Report
<1>4. /\ RowsInv' /\ HoldersInv' /\ FinalRows
      /\ \A v \in Workers, s \in Results : Runs(v, s)' => Runs(v, s)
  BY <1>3, LetsGo
<1>5. CASE LostChildren(r) # {}
  <2>1. Mark(r) /\ calls' = calls  BY <1>5 DEF Report
  <2>. QED  BY <1>1, <1>2, <1>3, <1>4, <2>1, MarkChains
<1>6. CASE LostChildren(r) = {}
  <2> DEFINE k == [of |-> r, cause |-> Classify(r, "failed"), stage |-> "insert"]
  <2>1. /\ att' = att /\ marks' = marks
        /\ calls' = IF WillRetry(r, "failed") THEN calls \cup {k} ELSE calls
    BY <1>6 DEF Report
  <2>2. WillRetry(r, "failed") => Retriable(k.of, k.cause) /\ att[k.of].attempt < Budget(k.of)
    BY <1>1, DecisionRetriable
  <2>3. k.of = r  OBVIOUS
  <2> HIDE DEF k
  <2>4. \A j \in calls' \ calls : j = k /\ WillRetry(r, "failed")  BY <2>1
  <2>5. \A j \in calls' \ calls : j.stage = "insert" =>
          j.of \in Results /\ Retriable(j.of, j.cause) /\ att[j.of].attempt < Budget(j.of)
    BY <1>1, <2>2, <2>3, <2>4
  <2>. QED  BY <1>3, <1>4, <2>1, <2>5, RowStepKeeps
<1>. QED  BY <1>5, <1>6

\* The sweep marks an attempt that ended other than by the reaper.
LEMMA DetectChains ==
  ASSUME TypeOK, ChainInv, NEW p \in Results, DetectLate(p)
  PROVE  ChainInv'
<1>1. row[p].status \in Ended /\ row[p].exc # "lost"
  BY DEF DetectLate, ChainInv, RowsInv, Ended
<1>2. Mark(p) /\ row' = row /\ proc' = proc /\ calls' = calls  BY DEF DetectLate
<1>3. RowsInv' /\ HoldersInv' /\ \A w \in Workers, r \in Results : Runs(w, r)' => Runs(w, r)
  BY <1>2 DEF ChainInv, RowsInv, HoldersInv, Runs
<1>. QED  BY <1>1, <1>2, <1>3, MarkChains

\* Only a READY retry is cancelled, and it is the only one: the flag is safe to set.
LEMMA CancelChains ==
  ASSUME TypeOK, ChainInv, NEW p \in Results, CancelRetry(p)
  PROVE  ChainInv'
<1> DEFINE ready == {c \in Children(p) : row[c].status = "READY"}
<1>1. ASSUME NEW c \in ready
      PROVE  /\ row'[c].status = "FAILED" /\ row'[c].exc = "superseded"
             /\ row'[c].claimed = row[c].claimed /\ row'[c].path = row[c].path
  <2>1. c \in Results  BY <1>1 DEF Children
  <2>2. row'[c] = [row[c] EXCEPT !.status = "FAILED", !.exc = "superseded", !.age = "new"]
    BY <1>1, <2>1 DEF CancelRetry
  <2>. QED  BY <2>1, <2>2, RowSteps, RowFields
<1>2. \A r \in Results : r \notin ready => row'[r] = row[r]  BY DEF CancelRetry
<1>3. \A c \in ready : c \in Results /\ c \in Children(p) /\ row[c].status = "READY"
  BY DEF Children
<1>4. att' = att /\ proc' = proc /\ calls' = calls  BY DEF CancelRetry
<1>5. marks' = [marks EXCEPT ![p] = IF ready # {} THEN "flag" ELSE "none"]
  BY DEF CancelRetry
<1> HIDE DEF ready
<1>6. RowsInv'
  <2>1. ASSUME NEW r \in Results, r \in ready
        PROVE  (/\ row[r].status \in {"NONE", "READY"} => ~row[r].claimed
                /\ row[r].status # "FAILED" => row[r].exc = "none"
                /\ row[r].exc = "superseded" => ~row[r].claimed
                /\ row[r].status # "NONE" => row[r].path \in Paths)'
    <3>1. ~row[r].claimed /\ row[r].path \in Paths  BY <1>3, <2>1 DEF ChainInv, RowsInv
    <3>. QED  BY <1>1, <2>1, <3>1
  <2>. QED  BY <1>2, <2>1 DEF ChainInv, RowsInv
<1>7. HoldersInv'
  <2>1. \A r \in ready, w \in Workers : proc[w].task # r
    BY <1>3, ConstantsAssumption DEF ChainInv, HoldersInv, Runs, Ended, TypeOK
  <2>. QED  BY <1>2, <1>4, <2>1 DEF ChainInv, HoldersInv, Runs
<1>8. FinalRows  BY <1>2, <1>3 DEF FinalRows, Ended
<1>9. SameChains
  BY <1>1, <1>2, <1>3, <1>4 DEF SameChains, Runs, Ended
<1>10. LineInv' /\ CallsInv'  BY <1>4, <1>9, ChainsKept DEF ChainInv
<1>11. \A q \in Results : Children(q)' = Children(q) /\ Children(q) \subseteq Results
  BY <1>4 DEF Children
<1>12. MarksInv'
  <2>1. \A c \in Results : (att[c].cancelled => row[c].exc = "superseded")'
    BY <1>4, <1>8, SupersededStays DEF ChainInv, MarksInv
  <2>2. ASSUME NEW q \in Results, marks'[q] = "flag"
        PROVE  Children(q) # {} /\ \A c \in Children(q) : row'[c].exc = "superseded"
    <3>1. CASE q = p
      <4>1. PICK c \in ready : TRUE  BY <1>5, <2>2, <3>1 DEF TypeOK
      <4>2. \A d \in Children(p) : d = c  BY <1>3, <4>1, OneChild DEF ChainInv
      <4>. QED  BY <1>1, <1>3, <3>1, <4>1, <4>2
    <3>2. CASE q # p
      <4>1. marks[q] = "flag"  BY <1>5, <2>2, <3>2 DEF TypeOK
      <4>. QED  BY <1>8, <1>11, <4>1, SupersededStays DEF ChainInv, MarksInv
    <3>. QED  BY <3>1, <3>2
  <2>3. \A q \in Results : (marks[q] = "flag" =>
          Children(q) # {} /\ \A c \in Children(q) : row[c].exc = "superseded")'
    BY <1>11, <2>2
  <2>4. ASSUME NEW c \in Results, att[c].done
        PROVE  (/\ att[c].cause = "lost" /\ att[c].parent # NoResult
                /\ row[att[c].parent].status = att[c].doneStatus /\ att[c].doneStatus \in Ended
                /\ row[att[c].parent].exc # "lost")'
    BY <1>4, <1>8, <2>4, ParentFields DEF ChainInv, MarksInv, FinalRows
  <2>. QED  BY <1>4, <2>1, <2>3, <2>4 DEF MarksInv
<1>. QED  BY <1>6, <1>7, <1>10, <1>12 DEF ChainInv

\* A step that writes the marks of attempts and nothing of the chains themselves.
LEMMA MarkStepKeeps ==
  ASSUME TypeOK, ChainInv, row' = row, proc' = proc, calls' = calls,
         \A c \in Results :
           /\ att'[c].root = att[c].root /\ att'[c].parent = att[c].parent
           /\ att'[c].attempt = att[c].attempt /\ att'[c].max = att[c].max
           /\ att'[c].cause = att[c].cause
           /\ att'[c].done = att[c].done /\ att'[c].doneStatus = att[c].doneStatus
           /\ att'[c].cancelled => att[c].cancelled \/ row[c].exc = "superseded",
         \A p \in Results : marks'[p] = "flag" => marks[p] = "flag"
  PROVE  ChainInv'
<1>1. RowsInv' /\ HoldersInv'  BY DEF ChainInv, RowsInv, HoldersInv, Runs
<1>2. SameChains  BY DEF SameChains, Runs
<1>3. LineInv' /\ CallsInv'  BY <1>2, ChainsKept DEF ChainInv
<1>4. \A q \in Results : Children(q)' = Children(q)  BY DEF Children
<1>5. MarksInv'
  <2>1. \A c \in Results : (att[c].cancelled => row[c].exc = "superseded")'
    BY DEF ChainInv, MarksInv
  <2>2. \A q \in Results : (marks[q] = "flag" =>
          Children(q) # {} /\ \A c \in Children(q) : row[c].exc = "superseded")'
    BY <1>4 DEF ChainInv, MarksInv
  <2>3. ASSUME NEW c \in Results, att[c].done'
        PROVE  (/\ att[c].cause = "lost" /\ att[c].parent # NoResult
                /\ row[att[c].parent].status = att[c].doneStatus /\ att[c].doneStatus \in Ended
                /\ row[att[c].parent].exc # "lost")'
    <3>1. att[c].done  BY <2>3
    <3>. QED  BY <3>1 DEF ChainInv, MarksInv
  <2>. QED  BY <2>1, <2>2, <2>3 DEF MarksInv
<1>. QED  BY <1>1, <1>3, <1>5 DEF ChainInv

LEMMA FlagChains ==
  ASSUME TypeOK, ChainInv, NEW p \in Results, FlagCancelled(p)
  PROVE  ChainInv'
<1>1. \A c \in Children(p) : row[c].exc = "superseded"
  BY DEF FlagCancelled, ChainInv, MarksInv
<1>2. UNCHANGED <<row, proc, calls>>  BY DEF FlagCancelled
<1>3. \A q \in Results : marks'[q] = "flag" => marks[q] = "flag"
  BY DEF FlagCancelled, TypeOK
<1>4. ASSUME NEW c \in Results
      PROVE  /\ att'[c].root = att[c].root /\ att'[c].parent = att[c].parent
             /\ att'[c].attempt = att[c].attempt /\ att'[c].max = att[c].max
             /\ att'[c].cause = att[c].cause
             /\ att'[c].done = att[c].done /\ att'[c].doneStatus = att[c].doneStatus
             /\ att'[c].cancelled => att[c].cancelled \/ row[c].exc = "superseded"
  <2>1. CASE c \in Children(p)
    <3>1. att'[c] = [att[c] EXCEPT !.cancelled = TRUE]  BY <2>1 DEF FlagCancelled
    <3>2. row[c].status \in Statuses  BY RowFields
    <3>3. att[c] \in Attempt  BY RowFields
    <3>. QED  BY <1>1, <2>1, <3>1, <3>2, <3>3, MarkFields
  <2>2. CASE c \notin Children(p)
    <3>1. att'[c] = att[c]  BY <2>2 DEF FlagCancelled
    <3>. QED  BY <3>1
  <2>. QED  BY <2>1, <2>2
<1>. QED  BY <1>2, <1>3, <1>4, MarkStepKeeps

LEMMA LateWindowChains ==
  ASSUME TypeOK, ChainInv, NEW d \in Results, LateWindowEnds(d)
  PROVE  ChainInv'
<1>1. UNCHANGED <<row, proc, calls, marks>>  BY DEF LateWindowEnds
<1>2. ASSUME NEW c \in Results
      PROVE  /\ att'[c].root = att[c].root /\ att'[c].parent = att[c].parent
             /\ att'[c].attempt = att[c].attempt /\ att'[c].max = att[c].max
             /\ att'[c].cause = att[c].cause
             /\ att'[c].done = att[c].done /\ att'[c].doneStatus = att[c].doneStatus
             /\ att'[c].cancelled => att[c].cancelled \/ row[c].exc = "superseded"
  <2>1. CASE c = d
    <3>1. att'[c] = [att[c] EXCEPT !.old = TRUE]  BY <2>1 DEF LateWindowEnds, TypeOK
    <3>2. row[c].status \in Statuses  BY RowFields
    <3>3. att[c] \in Attempt  BY RowFields
    <3>. QED  BY <3>1, <3>2, <3>3, MarkFields
  <2>2. CASE c # d
    <3>1. att'[c] = att[c]  BY <2>2 DEF LateWindowEnds, TypeOK
    <3>. QED  BY <3>1
  <2>. QED  BY <2>1, <2>2
<1>. QED  BY <1>1, <1>2, MarkStepKeeps

LEMMA LoseMarkChains ==
  ASSUME TypeOK, ChainInv, NEW p \in Results, LoseMark(p)
  PROVE  ChainInv'
<1>1. UNCHANGED <<row, att, proc, calls>>  BY DEF LoseMark
<1>2. \A q \in Results : marks'[q] = "flag" => marks[q] = "flag"  BY DEF LoseMark, TypeOK
<1>. QED  BY <1>1, <1>2, MarkStepKeeps

\* A step that only adds and removes calls.
LEMMA CallStepKeeps ==
  ASSUME TypeOK, ChainInv, UNCHANGED <<row, att, proc, marks>>,
         \A k \in calls' \ calls : k.stage = "insert" =>
           k.of \in Results /\ Retriable(k.of, k.cause) /\ att[k.of].attempt < Budget(k.of)
  PROVE  ChainInv'
<1>1. RowsInv' /\ HoldersInv' /\ FinalRows
  BY DEF ChainInv, RowsInv, HoldersInv, Runs, FinalRows
<1>. QED  BY <1>1, RowStepKeeps DEF Runs

LEMMA RepairChains ==
  ASSUME TypeOK, ChainInv, NEW r \in Results, Repair(r)
  PROVE  ChainInv'
<1>1. calls' = calls \cup {[of |-> r, cause |-> "failed", stage |-> "read"]}  BY DEF Repair
<1>2. UNCHANGED <<row, att, proc, marks>>  BY DEF Repair
<1>. QED  BY <1>1, <1>2, CallStepKeeps

LEMMA ReadCallChains ==
  ASSUME TypeOK, ChainInv, NEW c \in calls, ReadCall(c) \/ LoseCall(c)
  PROVE  ChainInv'
<1> DEFINE k == [of |-> c.of, cause |-> Classify(c.of, c.cause), stage |-> "insert"]
<1>1. c.of \in Results /\ c.cause \in Causes  BY DEF TypeOK, Call
<1>2. UNCHANGED <<row, att, proc, marks>>  BY DEF ReadCall, LoseCall
<1>3. \A j \in calls' \ calls : j = k /\ WillRetry(c.of, c.cause)
  BY DEF ReadCall, LoseCall
<1>4. WillRetry(c.of, c.cause) => Retriable(c.of, Classify(c.of, c.cause)) /\ att[c.of].attempt < Budget(c.of)
  BY <1>1, DecisionRetriable
<1>5. k.of = c.of /\ k.cause = Classify(c.of, c.cause)  OBVIOUS
<1> HIDE DEF k
<1>. QED  BY <1>1, <1>2, <1>3, <1>4, <1>5, CallStepKeeps

\* What an attempt that starts a chain, or goes on with one, is created with.
Starts(n, a) == a.parent = NoResult /\ a.root = n /\ a.attempt = 1
GoesOn(path, a) ==
  LET q == a.parent IN
  /\ q \in Results /\ Children(q) = {} /\ Retriable(q, a.cause)
  /\ a.root = att[q].root /\ a.attempt = att[q].attempt + 1 /\ att[q].attempt < Budget(q)
  /\ a.max = att[q].max /\ path = row[q].path

\* An id nobody used has no holder, no retry, and is the root of itself only.
LEMMA UnusedAlone ==
  ASSUME TypeOK, ChainInv, NEW n \in Results, row[n].status = "NONE"
  PROVE  /\ row[n].exc = "none" /\ ~row[n].claimed
         /\ att[n].parent = NoResult /\ att[n].root = n /\ att[n].attempt = 1
         /\ \A c \in Results : att[c].parent # n
         /\ \A w \in Workers : proc[w].task # n
         /\ \A c \in Results : c # n => att[c].root # n
<1>1. row[n].exc = "none" /\ ~row[n].claimed  BY DEF ChainInv, RowsInv
<1>2. att[n].parent = NoResult /\ att[n].root = n /\ att[n].attempt = 1
  BY DEF ChainInv, LineInv
<1>3. ASSUME NEW c \in Results, att[c].parent = n PROVE FALSE
  <2>1. Retriable(n, att[c].cause)  BY <1>3, ConstantsAssumption DEF ChainInv, LineInv
  <2>. QED  BY <2>1 DEF Retriable, Ended
<1>4. ASSUME NEW w \in Workers, proc[w].task = n PROVE FALSE
  BY <1>1, <1>4, ConstantsAssumption DEF ChainInv, HoldersInv, Runs, TypeOK
<1>5. ASSUME NEW c \in Results, c # n, att[c].root = n PROVE FALSE
  BY <1>5 DEF ChainInv, LineInv
<1>. QED  BY <1>1, <1>2, <1>3, <1>4, <1>5

\* A row created with such an attempt leaves every chain a line within its budget.
LEMMA CreatedChains ==
  ASSUME TypeOK, ChainInv, NEW n \in Results, NEW path \in Paths, NEW a \in Attempt,
         NewRow(n, path, a), proc' = proc, marks' = marks, calls' \subseteq calls,
         ~a.done, ~a.cancelled, Starts(n, a) \/ GoesOn(path, a)
  PROVE  ChainInv'
<1>1. /\ row[n].status = "NONE"
      /\ row' = [row EXCEPT ![n] = [@ EXCEPT !.status = "READY", !.path = path]]
      /\ att' = [att EXCEPT ![n] = a]
  BY DEF NewRow
<1>2. /\ row[n].exc = "none" /\ ~row[n].claimed
      /\ att[n].parent = NoResult /\ att[n].root = n /\ att[n].attempt = 1
      /\ \A c \in Results : att[c].parent # n
      /\ \A w \in Workers : proc[w].task # n
      /\ \A c \in Results : c # n => att[c].root # n
  BY <1>1, UnusedAlone
<1>3. /\ row'[n].status = "READY" /\ row'[n].path = path
      /\ row'[n].exc = "none" /\ ~row'[n].claimed
  BY <1>1, <1>2, RowSteps, RowFields DEF TypeOK
<1>4. att'[n] = a  BY <1>1 DEF TypeOK
<1>5. \A c \in Results : c # n => row'[c] = row[c] /\ att'[c] = att[c]  BY <1>1 DEF TypeOK
<1>6. /\ a.parent \in Results \cup {NoResult} /\ a.attempt \in Nat \ {0} /\ a.max \in Nat
      /\ a.root \in Results
  BY DEF Attempt
<1>7. RowsInv'  BY <1>3, <1>5 DEF ChainInv, RowsInv
<1>8. HoldersInv'  BY <1>2, <1>5 DEF ChainInv, HoldersInv, Runs
<1>9. \A r \in Results : \A cause : Retriable(r, cause) => r # n /\ Retriable(r, cause)'
  BY <1>1, <1>5 DEF Retriable, Ended, Runs
<1>10. \A r \in Results : r # n => Budget(r)' = Budget(r)  BY <1>5 DEF Budget
<1>11. LineInv'
  <2>1. ASSUME NEW c \in Results
        PROVE  (/\ att[c].parent = NoResult => att[c].root = c /\ att[c].attempt = 1
                /\ row[c].status = "NONE" => att[c].parent = NoResult)'
    <3>1. CASE c = n
      BY <1>3, <1>4, <3>1, ConstantsAssumption DEF Starts, GoesOn
    <3>2. CASE c # n  BY <1>5, <3>2 DEF ChainInv, LineInv
    <3>. QED  BY <3>1, <3>2
  <2>2. ASSUME NEW c \in Results, (att[c].parent # NoResult)'
        PROVE  (/\ att[c].root = att[att[c].parent].root
                /\ att[c].attempt = att[att[c].parent].attempt + 1
                /\ Retriable(att[c].parent, att[c].cause))'
    <3>1. CASE c = n
      <4>1. GoesOn(path, a)  BY <1>4, <2>2, <3>1 DEF Starts
      <4> DEFINE q == a.parent
      <4>2. q \in Results /\ Retriable(q, a.cause) /\ a.root = att[q].root
            /\ a.attempt = att[q].attempt + 1
        BY <4>1 DEF GoesOn
      <4>3. q # n /\ Retriable(q, a.cause)'  BY <1>9, <4>2
      <4>. QED  BY <1>4, <1>5, <3>1, <4>2, <4>3 DEF Retriable
    <3>2. CASE c # n
      <4>1. att'[c] = att[c] /\ att[c].parent # NoResult  BY <1>5, <2>2, <3>2
      <4>2. PICK q \in Results, e \in Causes :
              /\ q = att[c].parent /\ e = att[c].cause /\ Retriable(q, e)
              /\ att[c].root = att[q].root /\ att[c].attempt = att[q].attempt + 1
        BY <4>1, ParentFields DEF ChainInv, LineInv
      <4>3. q # n /\ Retriable(q, e)'  BY <1>9, <4>2
      <4>. QED  BY <1>5, <4>1, <4>2, <4>3 DEF Retriable
    <3>. QED  BY <3>1, <3>2
  <2>3. ASSUME NEW c \in Results, (row[c].status # "NONE")'
        PROVE  (/\ row[att[c].root].status # "NONE" /\ row[att[c].root].path = row[c].path
                /\ att[att[c].root].max = att[c].max
                /\ att[c].attempt <= Budget(c))'
    <3>1. CASE c = n /\ Starts(n, a)
      BY <1>3, <1>4, <1>6, <3>1, ConstantsAssumption DEF Starts, Budget
    <3>2. CASE c = n /\ GoesOn(path, a)
      <4> DEFINE q == a.parent
                 s == att[q].root
      <4>1. /\ q \in Results /\ Retriable(q, a.cause) /\ a.root = s
            /\ a.attempt = att[q].attempt + 1 /\ att[q].attempt < Budget(q)
            /\ a.max = att[q].max /\ path = row[q].path
        BY <3>2 DEF GoesOn
      <4>2. row[q].status # "NONE" /\ q # n  BY <1>9, <4>1 DEF Retriable, Ended
      <4>3. /\ s \in Results /\ row[s].status # "NONE" /\ row[s].path = row[q].path
            /\ att[s].max = att[q].max
        BY <4>1, <4>2, ParentFields DEF ChainInv, LineInv
      <4>4. s # n  BY <1>1, <4>3
      <4>5. a.attempt <= Budget(n)'
        <5>1. Budget(n)' = Budget(q)  BY <1>3, <1>4, <4>1 DEF Budget
        <5>2. Budget(q) \in Nat
          <6>1. att[q].max \in Nat  BY <4>1, ParentFields
          <6>2. row[q].path \in Paths  BY <4>1, <4>2 DEF ChainInv, RowsInv
          <6>. QED  BY <6>1, <6>2, ConstantsAssumption DEF Budget
        <5>3. att[q].attempt \in Nat  BY <4>1, ParentFields
        <5>. QED  BY <4>1, <5>1, <5>2, <5>3
      <4>. QED  BY <1>3, <1>4, <1>5, <3>2, <4>1, <4>3, <4>4, <4>5
    <3>3. CASE c # n
      <4> DEFINE s == att[c].root
      <4>1. att'[c] = att[c] /\ row'[c] = row[c]  BY <1>5, <3>3
      <4>2. /\ s \in Results /\ row[s].status # "NONE" /\ row[s].path = row[c].path
            /\ att[s].max = att[c].max /\ att[c].attempt <= Budget(c)
        BY <2>3, <4>1, ParentFields DEF ChainInv, LineInv
      <4>3. row'[s] = row[s] /\ att'[s] = att[s]  BY <1>2, <1>5, <3>3, <4>2
      <4>. QED  BY <1>10, <3>3, <4>1, <4>2, <4>3
    <3>. QED  BY <3>1, <3>2, <3>3
  <2>4. ASSUME NEW d \in Results, d # n, att[d].root = a.root, att[d].attempt = a.attempt
        PROVE  FALSE
    <3>1. GoesOn(path, a)  BY <1>2, <2>4 DEF Starts
    <3> DEFINE q == a.parent
               p == att[d].parent
    <3>2. /\ q \in Results /\ Children(q) = {} /\ a.root = att[q].root
          /\ a.attempt = att[q].attempt + 1
      BY <3>1 DEF GoesOn
    <3>3. att[q].attempt \in Nat \ {0}  BY <3>2, ParentFields
    <3>4. p \in Results /\ p # NoResult
      BY <2>4, <3>2, <3>3, ParentFields DEF ChainInv, LineInv
    <3>5. att[p].root = att[d].root /\ att[d].attempt = att[p].attempt + 1
      BY <3>4 DEF ChainInv, LineInv
    <3>6. att[p].attempt \in Nat \ {0}  BY <3>4, ParentFields
    <3>7. att[p].attempt = att[q].attempt  BY <2>4, <3>2, <3>3, <3>5, <3>6
    <3>8. p = q  BY <2>4, <3>2, <3>4, <3>5, <3>7 DEF ChainInv, LineInv
    <3>. QED  BY <3>2, <3>8 DEF Children
  <2>5. \A c, d \in Results :
          (att[c].root = att[d].root /\ att[c].attempt = att[d].attempt => c = d)'
    <3>1. SUFFICES ASSUME NEW c \in Results, NEW d \in Results, c # d,
                          att'[c].root = att'[d].root, att'[c].attempt = att'[d].attempt
                   PROVE  FALSE
      OBVIOUS
    <3>2. CASE c = n  BY <1>4, <1>5, <2>4, <3>1, <3>2
    <3>3. CASE d = n  BY <1>4, <1>5, <2>4, <3>1, <3>3
    <3>4. CASE c # n /\ d # n  BY <1>5, <3>1, <3>4 DEF ChainInv, LineInv
    <3>. QED  BY <3>2, <3>3, <3>4
  <2>. QED  BY <2>1, <2>2, <2>3, <2>5 DEF LineInv
<1>12. CallsInv'
  <2>1. SUFFICES ASSUME NEW k \in calls', k.stage = "insert"
                 PROVE  Retriable(k.of, k.cause)' /\ att'[k.of].attempt < Budget(k.of)'
    BY DEF CallsInv
  <2>2. k.of \in Results /\ Retriable(k.of, k.cause) /\ att[k.of].attempt < Budget(k.of)
    BY <2>1 DEF ChainInv, CallsInv, TypeOK, Call
  <2>. QED  BY <1>5, <1>9, <1>10, <2>2
<1>13. MarksInv'
  <2>1. \A c \in Results : (att[c].cancelled => row[c].exc = "superseded")'
    BY <1>4, <1>5 DEF ChainInv, MarksInv
  <2>2. ASSUME NEW p \in Results, (marks[p] = "flag")'
        PROVE  (Children(p) # {} /\ \A c \in Children(p) : row[c].exc = "superseded")'
    <3>1. Children(p) # {} /\ \A c \in Children(p) : row[c].exc = "superseded"
      BY <2>2 DEF ChainInv, MarksInv
    <3>2. \A c \in Children(p) : c \in Results /\ c # n  BY <1>2, <3>1 DEF Children
    <3>3. a.parent # p
      BY <3>1, ConstantsAssumption DEF Starts, GoesOn
    <3>4. Children(p)' = Children(p)
      <4>1. \A c \in Results : att'[c].parent = p <=> att[c].parent = p
        BY <1>2, <1>4, <1>5, <3>3, ConstantsAssumption
      <4>. QED  BY <4>1 DEF Children
    <3>. QED  BY <1>5, <3>1, <3>2, <3>4
  <2>3. ASSUME NEW c \in Results, att[c].done'
        PROVE  (/\ att[c].cause = "lost" /\ att[c].parent # NoResult
                /\ row[att[c].parent].status = att[c].doneStatus /\ att[c].doneStatus \in Ended
                /\ row[att[c].parent].exc # "lost")'
    <3>1. c # n  BY <1>4, <2>3
    <3>2. att'[c] = att[c]  BY <1>5, <3>1
    <3>3. att[c].done  BY <2>3, <3>2
    <3>4. /\ att[c].cause = "lost" /\ att[c].parent # NoResult
          /\ row[att[c].parent].status = att[c].doneStatus /\ att[c].doneStatus \in Ended
          /\ row[att[c].parent].exc # "lost"
      BY <3>3 DEF ChainInv, MarksInv
    <3>5. row'[att[c].parent] = row[att[c].parent]  BY <1>2, <1>5, <3>4, ParentFields
    <3>. QED  BY <3>2, <3>4, <3>5 DEF Ended
  <2>. QED  BY <2>1, <2>2, <2>3 DEF MarksInv
<1>. QED  BY <1>7, <1>8, <1>11, <1>12, <1>13 DEF ChainInv

LEMMA EnqueueChains ==
  ASSUME TypeOK, ChainInv, NEW n \in Results, NEW path \in Paths, NEW pin \in Pins,
         Enqueue(n, path, pin)
  PROVE  ChainInv'
<1> DEFINE a == FirstAttempt(n, pin)
<1>1. a \in Attempt  BY FirstAttemptType, ConstantsAssumption
<1>2. Starts(n, a) /\ ~a.done /\ ~a.cancelled  BY DEF FirstAttempt, Starts
<1>3. NewRow(n, path, a) /\ UNCHANGED <<proc, calls, marks>>  BY DEF Enqueue
<1> HIDE DEF a
<1>. QED  BY <1>1, <1>2, <1>3, CreatedChains

LEMMA InsertChains ==
  ASSUME TypeOK, ChainInv, NEW c \in calls, NEW n \in Results, InsertCall(c, n)
  PROVE  ChainInv'
<1>1. c.of \in Results /\ c \in Call  BY DEF TypeOK, Call
<1>2. c.stage = "insert" /\ calls' = calls \ {c} /\ UNCHANGED <<proc, marks>>
  BY DEF InsertCall
<1>3. Retriable(c.of, c.cause) /\ att[c.of].attempt < Budget(c.of)
  BY <1>2 DEF ChainInv, CallsInv
<1>4. CASE Children(c.of) = {}
  <2> DEFINE a == ChildOf(c)
             path == row[c.of].path
  <2>1. NewRow(n, path, a)  BY <1>4 DEF InsertCall
  <2>2. a \in Attempt  BY <1>1, ChildOfType
  <2>3. path \in Paths  BY <1>1, <1>3 DEF Retriable, Ended, ChainInv, RowsInv
  <2>4. /\ a.parent = c.of /\ a.cause = c.cause /\ a.root = att[c.of].root
        /\ a.attempt = att[c.of].attempt + 1 /\ a.max = att[c.of].max
        /\ ~a.done /\ ~a.cancelled
    BY DEF ChildOf
  <2> HIDE DEF a
  <2>5. GoesOn(path, a)
    <3>1. Retriable(a.parent, a.cause)  BY <1>3, <2>4
    <3>2. a.parent \in Results /\ Children(a.parent) = {} /\ path = row[a.parent].path
      BY <1>1, <1>4, <2>4
    <3>3. /\ a.root = att[a.parent].root /\ a.attempt = att[a.parent].attempt + 1
          /\ att[a.parent].attempt < Budget(a.parent) /\ a.max = att[a.parent].max
      BY <1>3, <2>4
    <3> HIDE DEF path
    <3>. QED  BY <3>1, <3>2, <3>3 DEF GoesOn
  <2> HIDE DEF path
  <2>. QED  BY <1>2, <2>1, <2>2, <2>3, <2>4, <2>5, CreatedChains
<1>5. CASE Children(c.of) # {}
  <2>1. UNCHANGED <<row, att>>  BY <1>5 DEF InsertCall
  <2>. QED  BY <1>2, <2>1, CallStepKeeps
<1>. QED  BY <1>4, <1>5

LEMMA InitChains == Init => ChainInv
<1> SUFFICES ASSUME Init PROVE ChainInv
  OBVIOUS
<1>1. /\ \A r \in Results : row[r].status = "NONE" /\ row[r].exc = "none" /\ ~row[r].claimed
      /\ \A r \in Results : /\ att[r].parent = NoResult /\ att[r].root = r
                            /\ att[r].attempt = 1 /\ ~att[r].done /\ ~att[r].cancelled
      /\ \A w \in Workers : proc[w].pc = "idle" /\ proc[w].task = NoResult
      /\ calls = {} /\ \A r \in Results : marks[r] = "none"
  BY DEF Init, EmptyRow, FirstAttempt
<1>2. RowsInv  BY <1>1 DEF RowsInv
<1>3. HoldersInv  BY <1>1, ConstantsAssumption DEF HoldersInv, Runs
<1>4. LineInv  BY <1>1 DEF LineInv
<1>5. CallsInv /\ MarksInv  BY <1>1 DEF CallsInv, MarksInv
<1>. QED  BY <1>2, <1>3, <1>4, <1>5 DEF ChainInv

\* Every step keeps the chains.
LEMMA NextChains == TypeOK /\ ChainInv /\ [Next]_vars => ChainInv'
<1> SUFFICES ASSUME TypeOK, ChainInv, [Next]_vars PROVE ChainInv'
  OBVIOUS
<1>1. ASSUME NEW r \in Results, NEW p \in Paths, NEW pin \in Pins, Enqueue(r, p, pin)
      PROVE  ChainInv'
  BY <1>1, EnqueueChains
<1>2. ASSUME NEW w \in Workers, WorkerStep(w) PROVE ChainInv'
  BY <1>2, ReportChains, IdleChains, ClaimChains, FinishChains DEF WorkerStep
<1>3. ASSUME NEW r \in Results, SweepStep(r) PROVE ChainInv'
  BY <1>3, ReapChains, RepairChains, DetectChains, CancelChains, FlagChains, LoseMarkChains,
     AgeChains, LateWindowChains DEF SweepStep
<1>4. ASSUME NEW c \in calls, CallStep(c) PROVE ChainInv'
  BY <1>4, ReadCallChains, InsertChains DEF CallStep
<1>5. CASE UNCHANGED vars
  <2>1. UNCHANGED <<row, att, proc, calls, marks>>  BY <1>5 DEF vars
  <2>. QED  BY <2>1, CallStepKeeps
<1>. QED  BY <1>1, <1>2, <1>3, <1>4, <1>5 DEF Next

\* What the theorems below follow from holds of every reachable state.
THEOREM ChainsHold == Spec => []ChainInv
<1>1. Init => TypeOK /\ ChainInv  BY InitTypeOK, InitChains
<1>2. TypeOK /\ ChainInv /\ [Next]_vars => (TypeOK /\ ChainInv)'
  BY NextTypeOK, NextChains
<1>. QED  BY <1>1, <1>2, PTL DEF Spec

\* The attempts of a chain are numbered within the budget, each number once.
LEMMA ChainFits ==
  ASSUME TypeOK, ChainInv, NEW root \in Results, row[root].status # "NONE"
  PROVE  Cardinality(Chain(root)) <= Budget(root)
<1> DEFINE C == Chain(root)
           B == Budget(root)
           number == [r \in C |-> att[r].attempt]
<1>1. B \in Nat
  <2>1. att[root].max \in Nat  BY ParentFields
  <2>2. row[root].path \in Paths  BY DEF ChainInv, RowsInv
  <2>. QED  BY <2>1, <2>2, ConstantsAssumption DEF Budget
<1>2. \A r \in C : r \in Results /\ att[r].root = root /\ row[r].status # "NONE"
  BY DEF Chain
<1>3. ASSUME NEW r \in C PROVE att[r].attempt \in 1..B
  <2>1. /\ row[root].path = row[r].path /\ att[root].max = att[r].max
        /\ att[r].attempt <= Budget(r)
    BY <1>2 DEF ChainInv, LineInv
  <2>2. Budget(r) = B  BY <2>1 DEF Budget
  <2>3. att[r].attempt \in Nat \ {0}  BY <1>2, ParentFields
  <2> HIDE DEF B
  <2>. QED  BY <1>1, <2>1, <2>2, <2>3
<1>4. \A r, s \in C : att[r].attempt = att[s].attempt => r = s
  BY <1>2 DEF ChainInv, LineInv
<1> HIDE DEF B, C
<1>5. number \in Injection(C, 1..B)
  BY <1>3, <1>4 DEF Injection, IsInjective
<1>6. IsFiniteSet(1..B) /\ Cardinality(1..B) = IF 1 > B THEN 0 ELSE B - 1 + 1
  BY <1>1, FS_Interval
<1>7. Cardinality(C) <= Cardinality(1..B)  BY <1>5, <1>6, FS_Injection
<1>8. Cardinality(1..B) = B  BY <1>1, <1>6
<1>. QED  BY <1>7, <1>8 DEF B, C

LEMMA ChainBudget == TypeOK /\ ChainInv => BudgetRespected
<1> SUFFICES ASSUME TypeOK, ChainInv PROVE BudgetRespected
  OBVIOUS
<1>1. \A root \in Roots : Cardinality(Chain(root)) <= Budget(root)
  BY ChainFits DEF Roots
<1>2. ASSUME NEW r \in Results PROVE Cardinality(Children(r)) <= 1
  <2>1. CASE Children(r) = {}  BY <2>1, FS_EmptySet
  <2>2. CASE Children(r) # {}
    <3>1. PICK c \in Children(r) : TRUE  BY <2>2
    <3>2. \A d \in Children(r) : d = c  BY <3>1, OneChild DEF ChainInv
    <3>3. Children(r) = {c}  BY <3>1, <3>2
    <3>4. Cardinality({c}) = 1  BY FS_Singleton, Zenon
    <3>. QED  BY <3>3, <3>4
  <2>. QED  BY <2>1, <2>2
<1>3. OnlyReapForks
  <2>1. SUFFICES ASSUME NEW c \in Results, NEW w \in Workers, att[c].parent # NoResult,
                        Runs(w, att[c].parent)
                 PROVE  att[c].cause = "lost"
    BY DEF OnlyReapForks, Runs
  <2>2. Retriable(att[c].parent, att[c].cause)  BY <2>1 DEF ChainInv, LineInv
  <2>. QED  BY <2>1, <2>2 DEF Retriable
<1>. QED  BY <1>1, <1>2, <1>3 DEF BudgetRespected

\* However the receiver, the reapers and the repair sweep race, and whatever dies: a
\* chain never outgrows its budget, no attempt is retried twice, and only one that was
\* declared lost may still run beside its retry.
THEOREM BudgetNeverExceeded == Spec => []BudgetRespected
<1>1. TypeOK /\ ChainInv => BudgetRespected  BY ChainBudget
<1>. QED  BY <1>1, TypeCorrect, ChainsHold, PTL

LEMMA ChainMarker == TypeOK /\ ChainInv => MarkerTellsTheTruth
<1> SUFFICES ASSUME TypeOK, ChainInv PROVE MarkerTellsTheTruth
  OBVIOUS
<1>1. ASSUME NEW r \in Results, row[r].exc = "superseded"
      PROVE  /\ ~row[r].claimed
             /\ Children(r) = {}
             /\ \A w \in Workers : proc[w].task # r
  <2>1. ~row[r].claimed  BY <1>1 DEF ChainInv, RowsInv
  <2>2. ASSUME NEW c \in Children(r) PROVE FALSE
    <3>1. c \in Results /\ att[c].parent = r  BY DEF Children
    <3>2. Retriable(r, att[c].cause)
      BY <3>1, ConstantsAssumption DEF ChainInv, LineInv
    <3>. QED  BY <1>1, <3>2 DEF Retriable
  <2>3. ASSUME NEW w \in Workers, proc[w].task = r PROVE FALSE
    BY <2>1, <2>3, ConstantsAssumption DEF ChainInv, HoldersInv, Runs, TypeOK
  <2>. QED  BY <2>1, <2>2, <2>3
<1>2. SupersededNeverRan  BY <1>1 DEF SupersededNeverRan
<1>. QED  BY <1>2 DEF MarkerTellsTheTruth, ChainInv, MarksInv, Ended

\* What a late completion wrote of an attempt is what its own worker made of it, and
\* final; and the retry it cancelled never ran and never will.
THEOREM MarkerIsTrue == Spec => []MarkerTellsTheTruth
<1>1. TypeOK /\ ChainInv => MarkerTellsTheTruth  BY ChainMarker
<1>. QED  BY <1>1, TypeCorrect, ChainsHold, PTL

\* One step of OnlyTruthOverrulesAVerdict.
Overrules == \A r \in Results :
  /\ row[r].status \in {"SUCCESSFUL", "FAILED"}
  /\ <<row'[r].status, row'[r].exc>> # <<row[r].status, row[r].exc>>
  => /\ row[r].exc = "lost"
     /\ \E w \in Workers : proc[w] = [pc |-> "running", task |-> r]

LEMMA NextOverrules == TypeOK /\ ChainInv /\ [Next]_vars => [Overrules]_vars
<1> SUFFICES ASSUME TypeOK, ChainInv, [Next]_vars PROVE Overrules
  OBVIOUS
<1>0. ASSUME \A r \in Results : row[r].status \in Ended
               => row'[r].status = row[r].status /\ row'[r].exc = row[r].exc
      PROVE  Overrules
  BY <1>0 DEF Overrules, Ended
<1>1. ASSUME NEW r \in Results, NEW p, NEW a, NewRow(r, p, a) PROVE Overrules
  <2>1. row[r].status = "NONE"  BY <1>1 DEF NewRow
  <2>2. \A s \in Results : s # r => row'[s] = row[s]  BY <1>1 DEF NewRow, TypeOK
  <2>. QED  BY <1>0, <2>1, <2>2 DEF Ended
<1>2. ASSUME row' = row PROVE Overrules  BY <1>0, <1>2
<1>3. ASSUME NEW w \in Workers, WorkerStep(w) PROVE Overrules
  <2>1. CASE Report(w) \/ ReportLost(w) \/ Crash(w)
    BY <1>2, <2>1 DEF Report, ReportLost, Crash
  <2>2. ASSUME NEW r \in Results, Claim(w, r) PROVE Overrules
    <3>1. row[r].status = "READY" /\ \A s \in Results : s # r => row'[s] = row[s]
      BY <2>2 DEF Claim, TypeOK
    <3>. QED  BY <1>0, <3>1 DEF Ended
  <2>3. ASSUME NEW exc \in Raised \cup {"none", "interrupted"}, Finish(w, exc)
        PROVE  Overrules
    <3> DEFINE t == proc[w].task
    <3>1. t \in Results /\ proc[w].pc = "running"  BY <2>3 DEF Finish, TypeOK
    <3>2. \A s \in Results : s # t => row'[s] = row[s]  BY <2>3 DEF Finish, TypeOK
    <3>3. row[t].status \in Ended => row[t].exc = "lost"
      BY <3>1 DEF ChainInv, HoldersInv, Runs, Ended
    <3>4. proc[w] = [pc |-> "running", task |-> t]  BY <3>1 DEF TypeOK
    <3> HIDE DEF t
    <3>. QED  BY <3>1, <3>2, <3>3, <3>4 DEF Overrules, Ended
  <2>. QED  BY <1>3, <2>1, <2>2, <2>3 DEF WorkerStep
<1>4. ASSUME NEW r \in Results, SweepStep(r) PROVE Overrules
  <2>1. CASE Reap(r)
    <3>1. row[r].status = "RUNNING" /\ \A s \in Results : s # r => row'[s] = row[s]
      BY <2>1 DEF Reap, TypeOK
    <3>. QED  BY <1>0, <3>1 DEF Ended
  <2>2. CASE CancelRetry(r)
    <3>1. \A s \in Results : row[s].status \in Ended => row'[s] = row[s]
      BY <2>2 DEF CancelRetry, Ended
    <3>. QED  BY <1>0, <3>1
  <2>3. CASE GraceEnds(r) \/ WindowEnds(r)
    <3>1. row'[r] = [row[r] EXCEPT !.age = "mid"] \/ row'[r] = [row[r] EXCEPT !.age = "old"]
      BY <2>3 DEF GraceEnds, WindowEnds, TypeOK
    <3>2. row'[r].status = row[r].status /\ row'[r].exc = row[r].exc
      BY <3>1, RowFields DEF Row
    <3>3. \A s \in Results : s # r => row'[s] = row[s]
      BY <2>3 DEF GraceEnds, WindowEnds, TypeOK
    <3>. QED  BY <1>0, <3>2, <3>3
  <2>4. CASE \/ Repair(r) \/ DetectLate(r) \/ FlagCancelled(r) \/ LoseMark(r)
             \/ LateWindowEnds(r)
    BY <1>2, <2>4 DEF Repair, DetectLate, FlagCancelled, LoseMark, LateWindowEnds
  <2>. QED  BY <1>4, <2>1, <2>2, <2>3, <2>4 DEF SweepStep
<1>5. ASSUME NEW c \in calls, CallStep(c) PROVE Overrules
  <2>1. CASE ReadCall(c) \/ LoseCall(c)  BY <1>2, <2>1 DEF ReadCall, LoseCall
  <2>2. ASSUME NEW n \in Results, InsertCall(c, n) PROVE Overrules
    BY <1>1, <1>2, <2>2 DEF InsertCall
  <2>. QED  BY <1>5, <2>1, <2>2 DEF CallStep
<1>6. ASSUME NEW r \in Results, NEW p \in Paths, NEW pin \in Pins, Enqueue(r, p, pin)
      PROVE  Overrules
  BY <1>1, <1>6 DEF Enqueue
<1>. QED  BY <1>2, <1>3, <1>4, <1>5, <1>6 DEF Next, vars

\* A row that ended is rewritten only by the worker the reaper gave up on, over the
\* reaper's own verdict: no other step touches how an attempt ended.
THEOREM VerdictsStand == Spec => OnlyTruthOverrulesAVerdict
<1>1. TypeOK /\ ChainInv /\ [Next]_vars => [Overrules]_vars  BY NextOverrules
<1>2. Spec => [][Overrules]_vars  BY <1>1, TypeCorrect, ChainsHold, PTL DEF Spec
<1>. QED  BY <1>2 DEF Overrules, OnlyTruthOverrulesAVerdict

=============================================================================
