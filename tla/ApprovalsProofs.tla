--------------------------- MODULE ApprovalsProofs ---------------------------
(* Theorems about Approvals, for any requests, people, processes and settings. *)
EXTENDS Approvals, FiniteSetTheorems, TLAPS

Everyone == Procs \cup {Sweeper}

\* The effects in their order, and the stages they make of a process.
LEMMA EffectsAre ==
  /\ Len(Effects) = 4
  /\ Effects[1] = "called" /\ Effects[2] = "recorded"
  /\ Effects[3] = "resolved" /\ Effects[4] = "told"
BY DEF Effects

LEMMA StagesAre ==
  Stages = {"idle", "loaded", "claiming", "sweeping", "claimed", "called", "recorded",
            "resolved"}
<1>1. Len(Effects) - 1 = 3  BY EffectsAre
<1>2. {Effects[i] : i \in 1..3} = {"called", "recorded", "resolved"}
  <2>1. 1..3 = {1, 2, 3}  OBVIOUS
  <2>. QED  BY <2>1, EffectsAre
<1>. QED  BY <1>1, <1>2 DEF Stages

LEMMA ReachedAre ==
  {Effects[i] : i \in 1..Len(Effects)} = {"called", "recorded", "resolved", "told"}
<1>1. 1..4 = {1, 2, 3, 4}  OBVIOUS
<1>. QED  BY <1>1, EffectsAre

Proc == [pc : Stages, req : Requests \cup {None}, actor : Users \cup {None},
         want : Outcomes \cup {"none"}, seen : Outcomes \cup {"none", "pending"},
         todo : SUBSET Requests]

\* What a process is working on: a request once it has loaded one, an outcome once it
\* has decided on one, and a settled request once it has claimed it.
AtWork ==
  \A p \in Everyone :
    /\ proc[p].pc \notin {"idle", "sweeping"} => proc[p].req \in Requests
    /\ proc[p].pc \in {"loaded", "claiming"} => proc[p].want \in Outcomes
    /\ proc[p].pc = "claimed" => row[proc[p].req].status \in Outcomes

\* A request is absent until it is saved; its callback has heard nothing until somebody
\* has claimed it, and nothing yet from a process that has just claimed it; and no two
\* processes have claimed one request.
OneClaim ==
  /\ \A r \in Requests : filing[r] \in {"none", "counted"} => row[r].status = "absent"
  /\ \A r \in Requests : row[r].status \notin Outcomes => heard[r] = "nothing"
  /\ \A p \in Everyone : proc[p].pc = "claimed" => heard[proc[p].req] = "nothing"
  /\ \A p, q \in Everyone :
       proc[p].pc = "claimed" /\ proc[q].pc = "claimed" /\ proc[p].req = proc[q].req => p = q

\* The conjuncts of TypeOK, with the effects spelled out.
TypeInv ==
  /\ row \in [Requests -> [status : Outcomes \cup {"absent", "pending"},
                           by : Users \cup {None}]]
  /\ \A r \in Requests : row[r].status \in {"absent", "pending"} => row[r].by = None
  /\ assigned \in [Requests -> SUBSET Users]
  /\ filing \in [Requests -> {"none", "counted", "saved", "named", "filed", "lost"}]
  /\ overdue \subseteq Requests
  /\ proc \in [Everyone -> Proc]
  /\ inbox \subseteq bell!Rows
  /\ reached \in [Requests -> {"nothing", "called", "recorded", "resolved", "told"}]
  /\ heard \in [Requests -> Outcomes \cup {"nothing", "twice"}]
  /\ orphaned \subseteq Requests /\ hasty \subseteq Requests /\ late \subseteq Requests
  /\ deaf \subseteq Requests
  /\ overlap \in Nat /\ faults \in 0..MaxFaults

IInv == TypeInv /\ AtWork /\ OneClaim

LEMMA TypeParts == TypeOK <=> TypeInv
<1>1. {"nothing"} \cup {Effects[i] : i \in 1..Len(Effects)}
        = {"nothing", "called", "recorded", "resolved", "told"}
  BY ReachedAre
<1>. QED  BY <1>1 DEF TypeOK, TypeInv, Everyone, Proc

LEMMA Approving == ASSUME TypeInv, NEW r \in Requests PROVE Approvers(r) \subseteq Users
BY ApprovalsAssumption DEF TypeInv, Approvers

\* The bell's rows keep their type.
LEMMA Ringing ==
  ASSUME TypeInv, NEW r \in Requests, NEW k \in {"requested", "decided"},
         NEW to, NEW actor, to \subseteq Users,
         bell!Notify(to, actor, r, k) \/ bell!Resolve(r, k) \/ UNCHANGED inbox
  PROVE  inbox' \subseteq bell!Rows
BY DEF TypeInv, bell!Notify, bell!Resolve, bell!Rows, bell!Row, bell!Kinds

\* A call that raises leaves the bell alone, and counts.
LEMMA Raising ==
  ASSUME TypeInv, Raises
  PROVE  UNCHANGED inbox /\ faults' \in 0..MaxFaults
<1>1. MaxFaults \in Nat  BY ApprovalsAssumption
<1>2. faults \in 0..MaxFaults /\ faults < MaxFaults /\ faults' = faults + 1
  BY DEF TypeInv, Raises
<1>. QED  BY <1>1, <1>2 DEF Raises, bell!Swallowed

LEMMA IdleType == Idle \in Proc
BY StagesAre DEF Idle, Proc

LEMMA DoneType ==
  ASSUME TypeInv, NEW p \in Everyone
  PROVE  Done(p) \in Proc /\ Done(p).pc \in {"idle", "sweeping"}
BY StagesAre DEF TypeInv, Done, Idle, Proc

\* A process that moves without claiming, settling or telling keeps what the rows say.
LEMMA MovesOn ==
  ASSUME IInv, NEW p \in Everyone, NEW s \in Proc, Goto(p, s),
         UNCHANGED <<row, heard, filing>>, s.pc # "claimed",
         s.pc \notin {"idle", "sweeping"} => s.req \in Requests,
         s.pc \in {"loaded", "claiming"} => s.want \in Outcomes
  PROVE  proc' \in [Everyone -> Proc] /\ AtWork' /\ OneClaim'
<1>1. proc \in [Everyone -> Proc]  BY DEF TypeInv, IInv
<1>2. proc' = [proc EXCEPT ![p] = s]  BY DEF Goto
<1>3. AtWork'  BY <1>1, <1>2 DEF IInv, AtWork
<1>4. OneClaim'  BY <1>1, <1>2 DEF IInv, OneClaim
<1>. QED  BY <1>1, <1>2, <1>3, <1>4

\* A filing moves no process and settles nothing.
LEMMA FilingKeeps ==
  ASSUME IInv, NEW r \in Requests, FileStep(r) \/ FilingDies(r)
  PROVE  IInv'
<1> USE ApprovalsAssumption
<1>1. CASE Count(r)
  BY <1>1 DEF TypeInv, Count, IInv, AtWork, OneClaim
<1>2. CASE Save(r)
  <2>1. row' = [row EXCEPT ![r].status = "pending"] /\ row[r].status = "absent"
    BY <1>2 DEF Save, IInv, OneClaim
  <2>2. \A p \in Everyone : proc[p].pc = "claimed" => proc[p].req # r
    BY <2>1 DEF IInv, AtWork, Outcomes
  <2>3. TypeInv'  BY <1>2, <2>1 DEF TypeInv, Save, IInv, history
  <2>4. AtWork'  BY <1>2, <2>1, <2>2 DEF TypeInv, Save, IInv, AtWork
  <2>5. OneClaim'
    BY <1>2, <2>1, <2>2 DEF TypeInv, Save, IInv, OneClaim, history, Outcomes
  <2>. QED  BY <2>3, <2>4, <2>5 DEF IInv
<1>3. CASE Assign(r)
  BY <1>3 DEF TypeInv, Assign, IInv, AtWork, OneClaim, history
<1>4. CASE Announce(r)
  <2>1. inbox' \subseteq bell!Rows
    <3>1. CASE Raises  BY <3>1, Raising DEF IInv, TypeInv
    <3>2. CASE bell!Notify(Approvers(r), Requester, r, "requested")
      BY <3>2, Ringing, Approving DEF IInv
    <3>. QED  BY <1>4, <3>1, <3>2 DEF Announce
  <2>2. late' \subseteq Requests  BY <1>4 DEF TypeInv, Announce, IInv
  <2>3. faults' \in 0..MaxFaults
    BY <1>4, Raising DEF Announce, IInv, TypeInv
  <2>4. UNCHANGED deaf  BY <1>4 DEF Announce
  <2>5. TypeInv'  BY <1>4, <2>1, <2>2, <2>3, <2>4 DEF TypeInv, Announce, IInv
  <2>. QED  BY <1>4, <2>5 DEF TypeInv, Announce, IInv, AtWork, OneClaim
<1>5. CASE FilingDies(r)
  BY <1>5 DEF TypeInv, FilingDies, IInv, AtWork, OneClaim
<1>. QED  BY <1>1, <1>2, <1>3, <1>4, <1>5 DEF FileStep

\* A claim settles a pending request for the one process that makes it.
LEMMA ClaimKeeps ==
  ASSUME IInv, NEW p \in Everyone, Claim(p)
  PROVE  IInv'
<1> DEFINE r == proc[p].req
<1>1. proc \in [Everyone -> Proc] /\ r \in Requests /\ proc[p].want \in Outcomes
  BY DEF TypeInv, IInv, Claim, AtWork
<1>2. CASE ~Pending(r)
  <2>1. Goto(p, Done(p)) /\ UNCHANGED <<row, heard, filing>>
    BY <1>2 DEF Claim, history
  <2>2. proc' \in [Everyone -> Proc] /\ AtWork' /\ OneClaim'
    BY <2>1, MovesOn, DoneType DEF IInv
  <2>. QED  BY <1>2, <2>2 DEF TypeInv, Claim, IInv, history
<1>3. CASE Pending(r)
  <2> DEFINE new == [status |-> proc[p].want, by |-> proc[p].actor]
             s == [proc[p] EXCEPT !.pc = "claimed"]
  <2>1. row' = [row EXCEPT ![r] = new] /\ proc' = [proc EXCEPT ![p] = s]
    BY <1>3 DEF Claim, Goto
  <2>2. UNCHANGED <<assigned, filing, overdue, inbox, history>>  BY DEF Claim
  <2>3. row[r].status = "pending"  BY <1>3 DEF Pending
  <2>4. s \in Proc /\ s.pc = "claimed" /\ s.req = r  BY <1>1, StagesAre DEF Proc
  <2>5. new.status \in Outcomes /\ new.by \in Users \cup {None}
    BY <1>1 DEF Proc
  <2>6. \A q \in Everyone : proc[q].pc = "claimed" => proc[q].req # r
    BY <2>3 DEF IInv, AtWork, Outcomes
  <2> HIDE DEF new, s
  <2>7. row' \in [Requests -> [status : Outcomes \cup {"absent", "pending"},
                              by : Users \cup {None}]]
    BY <1>1, <2>1, <2>5 DEF TypeInv, new, IInv
  <2>8. TypeInv'
    BY <1>1, <2>1, <2>2, <2>4, <2>5, <2>7 DEF TypeInv, IInv, history, Outcomes
  <2>9. AtWork'  BY <1>1, <2>1, <2>4, <2>5, <2>6 DEF TypeInv, IInv, AtWork
  <2>10. OneClaim'
    BY <1>1, <2>1, <2>2, <2>3, <2>4, <2>5, <2>6
    DEF TypeInv, IInv, OneClaim, history, Outcomes
  <2>. QED  BY <2>8, <2>9, <2>10 DEF IInv
<1>. QED  BY <1>2, <1>3

\* The callback is told of the outcome by the one process that claimed it.
LEMMA CallbackKeeps ==
  ASSUME IInv, NEW p \in Everyone, Callback(p)
  PROVE  IInv'
<1> DEFINE r == proc[p].req
           s == [proc[p] EXCEPT !.pc = "called"]
<1>1. proc \in [Everyone -> Proc] /\ r \in Requests /\ row[r].status \in Outcomes
  BY DEF TypeInv, IInv, Callback, AtWork
<1>2. proc' = [proc EXCEPT ![p] = s]  BY DEF Callback, Goto
<1>3. s \in Proc /\ s.pc = "called" /\ s.req = r  BY <1>1, StagesAre DEF Proc
<1>4. heard' = [heard EXCEPT ![r] = IF heard[r] = "nothing" THEN row[r].status ELSE "twice"]
  BY DEF Callback
<1>5. \A q \in Everyone : q # p /\ proc[q].pc = "claimed" => proc[q].req # r
  BY DEF IInv, OneClaim, Callback
<1>6. TypeInv'
  <2>1. reached' = [reached EXCEPT ![r] = "called"]  BY DEF Callback
  <2>. QED  BY <1>1, <1>2, <1>3, <1>4, <2>1 DEF TypeInv, Callback, IInv
<1> HIDE DEF s
<1>7. AtWork'  BY <1>1, <1>2, <1>3 DEF TypeInv, Callback, IInv, AtWork
<1>8. OneClaim'
  BY <1>1, <1>2, <1>3, <1>4, <1>5 DEF TypeInv, Callback, IInv, OneClaim
<1>. QED  BY <1>6, <1>7, <1>8 DEF IInv

LEMMA EffectKeeps ==
  ASSUME IInv, NEW p \in Everyone, NEW i \in 2..Len(Effects), Effect(p, i)
  PROVE  IInv'
<1> DEFINE r == proc[p].req
           s == IF i = Len(Effects) THEN Done(p) ELSE [proc[p] EXCEPT !.pc = Effects[i]]
<1>1. i \in {2, 3, 4}  BY EffectsAre
<1>2. proc[p].pc \in {"called", "recorded", "resolved"}
  BY <1>1, EffectsAre DEF Effect
<1>3. proc \in [Everyone -> Proc] /\ r \in Requests
  BY <1>2 DEF TypeInv, IInv, AtWork
<1>4. s \in Proc /\ s.pc \notin {"claimed", "loaded", "claiming"}
  <2>1. CASE i = 4  BY <2>1, EffectsAre, DoneType DEF IInv
  <2>2. CASE i # 4  BY <1>1, <1>3, <2>2, EffectsAre, StagesAre DEF Proc
  <2>. QED  BY <2>1, <2>2
<1>5. s.pc \notin {"idle", "sweeping"} => s.req \in Requests
  <2>1. CASE i = 4  BY <2>1, EffectsAre, DoneType DEF IInv
  <2>2. CASE i # 4  BY <1>1, <1>3, <2>2, EffectsAre DEF Proc
  <2>. QED  BY <2>1, <2>2
<1>6. Goto(p, s)  BY DEF Effect
<1>7. /\ UNCHANGED <<row, assigned, filing, overdue>>
      /\ UNCHANGED <<heard, orphaned, hasty, late, overlap>>
  BY DEF Effect
<1> HIDE DEF s
<1>8. proc' \in [Everyone -> Proc] /\ AtWork' /\ OneClaim'
  BY <1>4, <1>5, <1>6, <1>7, MovesOn
<1>9. inbox' \subseteq bell!Rows
  <2>1. Approvers(r) \cup {Requester} \subseteq Users
    BY <1>3, Approving, ApprovalsAssumption DEF IInv
  <2>2. \/ bell!Resolve(r, "requested")
        \/ bell!Notify(Approvers(r) \cup {Requester}, proc[p].actor, r, "decided")
        \/ UNCHANGED inbox
    <3>1. Effects[i] \in {"recorded", "resolved", "told"}  BY <1>1, EffectsAre
    <3>2. CASE Effects[i] = "recorded"  BY <3>2 DEF Effect
    <3>3. CASE Effects[i] = "resolved"  BY <3>3, Raising DEF Effect, IInv
    <3>4. CASE Effects[i] = "told"  BY <3>4, Raising DEF Effect, IInv
    <3>. QED  BY <3>1, <3>2, <3>3, <3>4
  <2>3. CASE bell!Resolve(r, "requested")  BY <1>3, <2>1, <2>3, Ringing DEF IInv
  <2>4. CASE bell!Notify(Approvers(r) \cup {Requester}, proc[p].actor, r, "decided")
    BY <1>3, <2>1, <2>4, Ringing DEF IInv
  <2>5. CASE UNCHANGED inbox  BY <2>5 DEF TypeInv, IInv
  <2>. QED  BY <2>2, <2>3, <2>4, <2>5
<1>10. reached' \in [Requests -> {"nothing", "called", "recorded", "resolved", "told"}]
  <2>1. reached' = [reached EXCEPT ![r] = Effects[i]]  BY DEF Effect
  <2>. QED  BY <1>1, <1>3, <2>1, EffectsAre DEF TypeInv, IInv
<1>11. deaf' \subseteq Requests /\ faults' \in 0..MaxFaults
  <2>1. Effects[i] \in {"recorded", "resolved", "told"}  BY <1>1, EffectsAre
  <2>2. UNCHANGED <<deaf, faults>> \/ (Raises /\ deaf' \in {deaf, deaf \cup {r}})
    <3>1. CASE Effects[i] = "recorded"  BY <3>1 DEF Effect
    <3>2. CASE Effects[i] = "resolved"  BY <3>2 DEF Effect
    <3>3. CASE Effects[i] = "told"  BY <3>3 DEF Effect
    <3>. QED  BY <2>1, <3>1, <3>2, <3>3
  <2>3. CASE UNCHANGED <<deaf, faults>>  BY <2>3 DEF TypeInv, IInv
  <2>4. CASE Raises /\ deaf' \in {deaf, deaf \cup {r}}
    BY <1>3, <2>4, Raising DEF TypeInv, IInv
  <2>. QED  BY <2>2, <2>3, <2>4
<1>12. TypeInv'  BY <1>7, <1>8, <1>9, <1>10, <1>11 DEF TypeInv, IInv
<1>. QED  BY <1>8, <1>12 DEF IInv

LEMMA LoadKeeps ==
  ASSUME IInv, NEW p \in Procs, NEW u \in Users, NEW r \in Requests, NEW want \in Wants,
         Load(p, u, r, want)
  PROVE  IInv'
<1> DEFINE s == [Idle EXCEPT !.pc = "loaded", !.req = r, !.actor = u, !.want = want,
                             !.seen = row[r].status]
<1>1. p \in Everyone /\ want \in Outcomes
  BY ApprovalsAssumption DEF Everyone, Outcomes
<1>2. row[r].status \in Outcomes \cup {"pending"}  BY DEF Load, IInv, TypeInv
<1>3. s \in Proc /\ s.pc = "loaded" /\ s.req = r /\ s.want = want
  BY <1>1, <1>2, StagesAre DEF Idle, Proc
<1>4. Goto(p, s) /\ UNCHANGED <<row, assigned, filing, overdue, inbox, history>>
  BY DEF Load
<1> HIDE DEF s
<1>5. proc' \in [Everyone -> Proc] /\ AtWork' /\ OneClaim'
  BY <1>1, <1>3, <1>4, MovesOn DEF history
<1>. QED  BY <1>4, <1>5 DEF IInv, TypeInv, history

LEMMA JudgeKeeps == ASSUME IInv, NEW p \in Everyone, Judge(p) PROVE IInv'
<1> DEFINE r == proc[p].req
           expired == [proc[p] EXCEPT !.pc = "claiming", !.want = "expired", !.actor = None]
           granted == [proc[p] EXCEPT !.pc = "claiming"]
<1>1. proc[p] \in Proc /\ r \in Requests /\ proc[p].want \in Outcomes
  BY DEF IInv, TypeInv, AtWork, Judge
<1>2. /\ expired \in Proc /\ expired.pc = "claiming" /\ expired.req = r
      /\ expired.want = "expired"
  BY <1>1, StagesAre DEF Proc, Outcomes
<1>3. /\ granted \in Proc /\ granted.pc = "claiming" /\ granted.req = r
      /\ granted.want = proc[p].want
  BY <1>1, StagesAre DEF Proc
<1>4. Idle \in Proc /\ Idle.pc = "idle"  BY IdleType DEF Idle
<1>5. Goto(p, expired) \/ Goto(p, granted) \/ Goto(p, Idle)  BY DEF Judge
<1>6. /\ UNCHANGED <<row, assigned, filing, overdue, inbox>>
      /\ UNCHANGED <<reached, heard, orphaned, late, deaf, overlap, faults>>
      /\ hasty' = hasty \cup {r} \/ hasty' = hasty
  BY DEF Judge
<1> HIDE DEF expired, granted
<1>7. proc' \in [Everyone -> Proc] /\ AtWork' /\ OneClaim'
  <2>1. CASE Goto(p, expired)  BY <1>1, <1>2, <1>6, <2>1, MovesOn DEF Outcomes
  <2>2. CASE Goto(p, granted)  BY <1>1, <1>3, <1>6, <2>2, MovesOn
  <2>3. CASE Goto(p, Idle)  BY <1>4, <1>6, <2>3, MovesOn
  <2>. QED  BY <1>5, <2>1, <2>2, <2>3
<1>. QED  BY <1>1, <1>6, <1>7 DEF IInv, TypeInv

LEMMA ProcDiesKeeps == ASSUME IInv, NEW p \in Everyone, ProcDies(p) PROVE IInv'
<1>1. Goto(p, Idle) /\ UNCHANGED <<row, heard, filing>>  BY DEF ProcDies, Goto
<1>2. Idle \in Proc /\ Idle.pc = "idle"  BY IdleType DEF Idle
<1>3. proc' \in [Everyone -> Proc] /\ AtWork' /\ OneClaim'
  BY <1>1, <1>2, MovesOn
<1>4. orphaned' \subseteq Requests
  <2>1. {Effects[i] : i \in 1..Len(Effects)} = {"called", "recorded", "resolved", "told"}
    BY ReachedAre
  <2>. QED  BY <2>1 DEF ProcDies, IInv, TypeInv, AtWork
<1>5. faults' \in 0..MaxFaults
  BY ApprovalsAssumption DEF ProcDies, IInv, TypeInv
<1>. QED  BY <1>3, <1>4, <1>5 DEF ProcDies, IInv, TypeInv

LEMMA SweepKeeps == ASSUME IInv, NEW p \in Everyone, SweepStep(p) PROVE IInv'
<1>1. CASE StartSweep(p)
  <2>1. PICK todo \in SUBSET Overdue :
          Goto(p, [Idle EXCEPT !.pc = "sweeping", !.todo = todo])
    BY <1>1 DEF StartSweep
  <2> DEFINE s == [Idle EXCEPT !.pc = "sweeping", !.todo = todo]
  <2>2. s \in Proc /\ s.pc = "sweeping"  BY StagesAre DEF Idle, Proc, Overdue
  <2>3. UNCHANGED <<row, assigned, filing, overdue, inbox, history>>
    BY <1>1 DEF StartSweep
  <2> HIDE DEF s
  <2>4. Goto(p, s)  BY <2>1 DEF s
  <2>5. proc' \in [Everyone -> Proc] /\ AtWork' /\ OneClaim'
    BY <2>2, <2>3, <2>4, MovesOn DEF history
  <2>. QED  BY <2>3, <2>5 DEF IInv, TypeInv, history
<1>2. CASE \E r \in Requests : NextOverdue(p, r)
  <2>1. PICK r \in Requests : NextOverdue(p, r)  BY <1>2
  <2> DEFINE s == [Idle EXCEPT !.pc = "claiming", !.req = r, !.want = "expired",
                               !.todo = proc[p].todo \ {r}]
  <2>2. proc[p].todo \subseteq Requests  BY DEF IInv, TypeInv, Proc
  <2>3. s \in Proc /\ s.pc = "claiming" /\ s.req = r /\ s.want \in Outcomes
    BY <2>2, StagesAre DEF Idle, Proc, Outcomes
  <2>4. Goto(p, s) /\ UNCHANGED <<row, assigned, filing, overdue, inbox, history>>
    BY <2>1 DEF NextOverdue
  <2> HIDE DEF s
  <2>5. proc' \in [Everyone -> Proc] /\ AtWork' /\ OneClaim'
    BY <2>3, <2>4, MovesOn DEF history
  <2>. QED  BY <2>4, <2>5 DEF IInv, TypeInv, history
<1>. QED  BY <1>1, <1>2 DEF SweepStep

\* Time passes, a bell is read, or nothing happens.
LEMMA OthersKeep ==
  ASSUME IInv,
         \/ \E r \in Requests : ExpiresNow(r)
         \/ \E u \in Users : ReadBell(u)
         \/ UNCHANGED vars
  PROVE  IInv'
<1>1. UNCHANGED <<row, assigned, filing, proc, history>>
  BY DEF ExpiresNow, ReadBell, vars
<1>2. overdue' \subseteq Requests  BY DEF ExpiresNow, ReadBell, vars, IInv, TypeInv
<1>3. inbox' \subseteq bell!Rows
  BY DEF ExpiresNow, ReadBell, vars, IInv, TypeInv, bell!MarkRead
<1>. QED  BY <1>1, <1>2, <1>3 DEF IInv, TypeInv, AtWork, OneClaim, history

LEMMA InitIInv == Init => IInv
<1> SUFFICES ASSUME Init PROVE IInv  OBVIOUS
<1>1. Idle \in Proc /\ Idle.pc = "idle"  BY IdleType DEF Idle
<1>2. proc \in [Everyone -> Proc] /\ \A p \in Everyone : proc[p].pc = "idle"
  BY <1>1 DEF Init, Everyone
<1>3. TypeInv  BY <1>2, ApprovalsAssumption DEF Init, TypeInv
<1>4. AtWork /\ OneClaim  BY <1>2 DEF Init, AtWork, OneClaim, Outcomes
<1>. QED  BY <1>3, <1>4 DEF IInv

LEMMA NextIInv == IInv /\ [Next]_vars => IInv'
<1> SUFFICES ASSUME IInv, [Next]_vars PROVE IInv'  OBVIOUS
<1>1. CASE \E r \in Requests : FileStep(r) \/ FilingDies(r)  BY <1>1, FilingKeeps
<1>2. CASE \E p \in Procs, u \in Users, r \in Requests, want \in Wants : Load(p, u, r, want)
  BY <1>2, LoadKeeps
<1>3. CASE \E p \in Everyone : Judge(p)  BY <1>3, JudgeKeeps
<1>4. CASE \E p \in Everyone : Claim(p)  BY <1>4, ClaimKeeps
<1>5. CASE \E p \in Everyone : Callback(p)  BY <1>5, CallbackKeeps
<1>6. CASE \E p \in Everyone : \E i \in 2..Len(Effects) : Effect(p, i)
  BY <1>6, EffectKeeps
<1>7. CASE \E p \in Everyone : SweepStep(p)  BY <1>7, SweepKeeps
<1>8. CASE \E p \in Everyone : ProcDies(p)  BY <1>8, ProcDiesKeeps
<1>9. CASE \/ \E r \in Requests : ExpiresNow(r)
           \/ \E u \in Users : ReadBell(u)
           \/ UNCHANGED vars
  BY <1>9, OthersKeep
<1>. QED
  BY <1>1, <1>2, <1>3, <1>4, <1>5, <1>6, <1>7, <1>8, <1>9
  DEF Next, Step, FinishStep, Everyone

LEMMA AlwaysIInv == Spec => []IInv
BY InitIInv, NextIInv, PTL DEF Spec

\* Every variable of the approvals model keeps its type, and no undecided request names
\* a decider, however filings, decisions, sweeps and faults interleave.
THEOREM TypeCorrectness == Spec => []TypeOK
<1>1. IInv => TypeOK  BY TypeParts DEF IInv
<1>. QED  BY <1>1, AlwaysIInv, PTL
-----------------------------------------------------------------------------
(* The refinement: what each step is to the promise of ApprovalDecision *)

outcomes == [r \in Requests |-> row[r].status]

\* A step that leaves the rows and what was heard is a stutter of the promise.
LEMMA SameOutcomes ==
  ASSUME UNCHANGED <<row, heard>> PROVE UNCHANGED <<outcomes, heard>>
BY DEF outcomes

LEMMA SaveFiles ==
  ASSUME IInv, NEW r \in Requests, Save(r) PROVE D!File(r)
<1>1. row[r].status = "absent"  BY DEF Save, IInv, OneClaim
<1>2. outcomes' = [outcomes EXCEPT ![r] = "pending"]
  BY DEF Save, IInv, TypeInv, outcomes
<1>. QED  BY <1>1, <1>2 DEF Save, D!File, outcomes, history

\* A claim either finds the request settled, or settles it.
LEMMA ClaimSettles ==
  ASSUME IInv, NEW p \in Everyone, Claim(p)
  PROVE  UNCHANGED <<row, heard>> \/ \E r \in Requests : D!Settle(r)
<1> DEFINE r == proc[p].req
<1>1. r \in Requests /\ proc[p].want \in Outcomes  BY DEF IInv, AtWork, Claim
<1>2. CASE ~Pending(r)  BY <1>2 DEF Claim, history
<1>3. CASE Pending(r)
  <2>1. row' = [row EXCEPT ![r] = [status |-> proc[p].want, by |-> proc[p].actor]]
    BY <1>3 DEF Claim
  <2>2. outcomes' = [outcomes EXCEPT ![r] = proc[p].want]
    BY <1>1, <2>1 DEF IInv, TypeInv, outcomes
  <2>. QED
    BY <1>1, <1>3, <2>2 DEF D!Settle, D!Outcomes, Outcomes, Pending, outcomes, Claim, history
<1>. QED  BY <1>2, <1>3

LEMMA CallbackTells ==
  ASSUME IInv, NEW p \in Everyone, Callback(p)
  PROVE  \E r \in Requests : D!Tell(r)
<1> DEFINE r == proc[p].req
<1>1. r \in Requests /\ row[r].status \in Outcomes  BY DEF IInv, AtWork, Callback
<1>2. heard[r] = "nothing"  BY DEF IInv, OneClaim, Callback
<1>3. heard' = [heard EXCEPT ![r] = row[r].status]
  <2>1. heard' = [heard EXCEPT ![r] = IF heard[r] = "nothing" THEN row[r].status ELSE "twice"]
    BY DEF Callback
  <2>. QED  BY <1>2, <2>1
<1>. QED  BY <1>1, <1>2, <1>3 DEF D!Tell, D!Outcomes, Outcomes, outcomes, Callback

LEMMA StepRefines ==
  IInv /\ [Next]_vars => [D!DNext]_<<outcomes, heard>>
<1> SUFFICES ASSUME IInv, [Next]_vars PROVE [D!DNext]_<<outcomes, heard>>  OBVIOUS
<1>1. CASE \E r \in Requests : Save(r)  BY <1>1, SaveFiles DEF D!DNext
<1>2. CASE \E p \in Everyone : Claim(p)
  BY <1>2, ClaimSettles, SameOutcomes DEF D!DNext
<1>3. CASE \E p \in Everyone : Callback(p)  BY <1>3, CallbackTells DEF D!DNext
<1>4. CASE UNCHANGED <<row, heard>>  BY <1>4, SameOutcomes
<1>5. \/ \E r \in Requests : Save(r)
      \/ \E p \in Everyone : Claim(p) \/ Callback(p)
      \/ UNCHANGED <<row, heard>>
  BY DEF Next, FileStep, Count, Assign, Announce, FilingDies, ExpiresNow, Load, Step, Judge,
         FinishStep, Effect, SweepStep, StartSweep, NextOverdue, ProcDies, ReadBell,
         Everyone, history, vars
<1>. QED  BY <1>1, <1>2, <1>3, <1>4, <1>5

\* However deciders, the requester, sweeps and faults race, a request has one outcome
\* that stands, and its callback hears that outcome and hears it once: the conditional
\* UPDATE of _claim is what every race comes down to.
THEOREM OneOutcome == Spec => KeepsPromise
<1>1. Init => D!DInit  BY DEF Init, D!DInit
<1>2. IInv /\ [Next]_vars
      => [D!DNext]_<<[r \in Requests |-> row[r].status], heard>>
  BY StepRefines DEF outcomes
<1>. QED  BY <1>1, <1>2, AlwaysIInv, PTL DEF Spec, KeepsPromise, D!Decided
-----------------------------------------------------------------------------
(* The cap.  Only filings that were begun can be actionable, so what the cap     *)
(* counts is finite whatever Requests is.                                       *)

Filed == {r \in Requests : filing[r] # "none"}
Counted == {r \in Requests : filing[r] = "counted"}
CapInv == IsFiniteSet(Filed) /\ CapKept

LEMMA CapSets ==
  ASSUME IInv, CapInv
  PROVE  /\ Actionable \subseteq Filed /\ Counted \subseteq Filed
         /\ IsFiniteSet(Actionable) /\ IsFiniteSet(Counted)
         /\ Cardinality(Actionable) \in Nat /\ Cardinality(Counted) \in Nat
         /\ overlap \in Nat /\ Cap \in Nat
         /\ Cap > 0 => Cardinality(Actionable) + Cardinality(Counted) <= Cap + overlap
<1>1. Actionable \subseteq Filed /\ Counted \subseteq Filed
  BY DEF IInv, OneClaim, Actionable, Pending, Filed, Counted
<1>2. IsFiniteSet(Actionable) /\ IsFiniteSet(Counted)
  BY <1>1, FS_Subset DEF CapInv
<1>3. Cardinality(Actionable) \in Nat /\ Cardinality(Counted) \in Nat
  BY <1>2, FS_CardinalityType
<1>. QED
  BY <1>1, <1>2, <1>3, ApprovalsAssumption DEF IInv, TypeInv, CapInv, CapKept, Counted

\* A step after which there is no more to count.
LEMMA FewerKeep ==
  ASSUME IInv, CapInv, Filed' = Filed, overlap' = overlap,
         Counted' \subseteq Counted, Actionable' \subseteq Actionable
  PROVE  CapInv'
<1>1. Cardinality(Counted') <= Cardinality(Counted) /\ Cardinality(Counted') \in Nat
  BY CapSets, FS_Subset, FS_CardinalityType
<1>2. Cardinality(Actionable') <= Cardinality(Actionable) /\ Cardinality(Actionable') \in Nat
  BY CapSets, FS_Subset, FS_CardinalityType
<1>3. Cap > 0 => Cardinality(Actionable') + Cardinality(Counted') <= Cap + overlap'
  BY <1>1, <1>2, CapSets
<1>. QED  BY <1>3 DEF CapInv, CapKept, Counted

LEMMA CountKeepsCap ==
  ASSUME IInv, CapInv, NEW r \in Requests, Count(r)
  PROVE  CapInv'
<1>1. filing' = [filing EXCEPT ![r] = "counted"] /\ filing[r] = "none"
  BY DEF Count
<1>2. /\ Filed' = Filed \cup {r} /\ Counted' = Counted \cup {r} /\ r \notin Counted
      /\ Actionable' = Actionable
  BY <1>1 DEF Count, IInv, TypeInv, Filed, Counted, Actionable, Pending
<1>3. IsFiniteSet(Filed')  BY <1>2, FS_AddElement DEF CapInv
<1>4. Cardinality(Counted') = Cardinality(Counted) + 1
  BY <1>2, CapSets, FS_AddElement
<1>5. overlap' = IF Counted # {} THEN overlap + 1 ELSE overlap
  BY DEF Count, Counted
<1>6. Cap > 0 => Cardinality(Actionable') + Cardinality(Counted') <= Cap + overlap'
  <2>1. CASE Counted # {}  BY <1>2, <1>4, <1>5, <2>1, CapSets
  <2>2. CASE Counted = {}
    <3>1. Cardinality(Counted) = 0  BY <2>2, FS_EmptySet
    <3>2. Cap > 0 => Cardinality(Actionable) < Cap  BY DEF Count
    <3>. QED  BY <1>2, <1>4, <1>5, <2>2, <3>1, <3>2, CapSets
  <2>. QED  BY <2>1, <2>2
<1>. QED  BY <1>3, <1>6 DEF CapInv, CapKept, Counted

\* A filing that is saved was counted.
LEMMA SaveKeepsCap ==
  ASSUME IInv, CapInv, NEW r \in Requests, Save(r)
  PROVE  CapInv'
<1>1. /\ filing' = [filing EXCEPT ![r] = "saved"] /\ filing[r] = "counted"
      /\ row' = [row EXCEPT ![r].status = "pending"] /\ UNCHANGED <<overdue, overlap>>
  BY DEF Save, history
<1>2. /\ Filed' = Filed /\ Counted' = Counted \ {r} /\ r \in Counted
      /\ Actionable' \subseteq Actionable \cup {r}
  BY <1>1 DEF IInv, TypeInv, Filed, Counted, Actionable, Pending
<1>3. Cardinality(Counted') = Cardinality(Counted) - 1
  BY <1>2, CapSets, FS_RemoveElement
<1>4. /\ IsFiniteSet(Actionable \cup {r})
      /\ Cardinality(Actionable \cup {r}) <= Cardinality(Actionable) + 1
  BY CapSets, FS_AddElement
<1>5. /\ Cardinality(Actionable') <= Cardinality(Actionable \cup {r})
      /\ Cardinality(Actionable') \in Nat /\ Cardinality(Actionable \cup {r}) \in Nat
  BY <1>2, <1>4, FS_Subset, FS_CardinalityType
<1>6. Cap > 0 => Cardinality(Actionable') + Cardinality(Counted') <= Cap + overlap'
  BY <1>1, <1>3, <1>4, <1>5, CapSets
<1>. QED  BY <1>2, <1>6 DEF CapInv, CapKept, Counted

LEMMA NextKeepsCap ==
  ASSUME IInv, CapInv, [Next]_vars
  PROVE  CapInv'
<1>1. CASE \E r \in Requests : Count(r)  BY <1>1, CountKeepsCap
<1>2. CASE \E r \in Requests : Save(r)  BY <1>2, SaveKeepsCap
<1>3. ASSUME NEW r \in Requests, Assign(r) \/ Announce(r) \/ FilingDies(r) PROVE CapInv'
  <2>1. /\ filing[r] # "none" /\ UNCHANGED <<row, overdue, overlap>>
        /\ \E f \in {"named", "filed", "lost"} : filing' = [filing EXCEPT ![r] = f]
    BY <1>3 DEF Assign, Announce, FilingDies, history
  <2>2. Filed' = Filed /\ Counted' \subseteq Counted
    BY <2>1 DEF IInv, TypeInv, Filed, Counted
  <2>3. Actionable' = Actionable  BY <2>1 DEF Actionable, Pending
  <2>. QED  BY <2>1, <2>2, <2>3, FewerKeep
<1>4. ASSUME NEW p \in Everyone, Claim(p) PROVE CapInv'
  <2>1. /\ proc[p].req \in Requests /\ proc[p].want \in Outcomes
        /\ UNCHANGED <<filing, overdue, overlap>>
    BY <1>4 DEF Claim, IInv, AtWork, history
  <2>2. \A r \in Requests : row'[r].status = "pending" => row[r].status = "pending"
    BY <1>4, <2>1 DEF Claim, IInv, TypeInv, Outcomes
  <2>3. Actionable' \subseteq Actionable  BY <2>1, <2>2 DEF Actionable, Pending
  <2>. QED  BY <2>1, <2>3, FewerKeep DEF Filed, Counted
<1>5. CASE UNCHANGED <<row, filing, overlap>> /\ overdue \subseteq overdue'
  <2>1. Actionable' \subseteq Actionable  BY <1>5 DEF Actionable, Pending
  <2>. QED  BY <1>5, <2>1, FewerKeep DEF Filed, Counted
<1>. QED
  BY <1>1, <1>2, <1>3, <1>4, <1>5
  DEF Next, FileStep, ExpiresNow, Load, Step, Judge, FinishStep, Callback, Effect, SweepStep,
      StartSweep, NextOverdue, ProcDies, ReadBell, Everyone, history, vars

\* The pending cap is passed only by filings that counted while another one stood between
\* its count and its insert, for any requests, cap, people and processes.
THEOREM CapHolds == Spec => []CapKept
<1>1. Init => CapInv
  <2> SUFFICES ASSUME Init PROVE CapInv  OBVIOUS
  <2>1. Filed = {} /\ Counted = {} /\ Actionable = {} /\ overlap = 0
    BY DEF Init, Filed, Counted, Actionable, Pending
  <2>2. IsFiniteSet(Filed) /\ Cardinality(Actionable) = 0 /\ Cardinality(Counted) = 0
    BY <2>1, FS_EmptySet
  <2>3. Cap \in Nat  BY ApprovalsAssumption
  <2>4. Cap > 0 => Cardinality(Actionable) + Cardinality(Counted) <= Cap + overlap
    BY <2>1, <2>2, <2>3
  <2>. QED  BY <2>2, <2>4 DEF CapInv, CapKept, Counted
<1>2. IInv /\ CapInv /\ [Next]_vars => CapInv'  BY NextKeepsCap
<1>. QED  BY <1>1, <1>2, AlwaysIInv, PTL DEF Spec, CapInv
-----------------------------------------------------------------------------
(* Who decides.  A decider was judged against the assignees that stood then,     *)
(* and is remembered as hasty when those were not yet all of them.              *)

\* Whoever is about to claim a decision was entitled to it, unless judged too soon.
Rightful(s, exempt) ==
  /\ s.pc = "loaded" => s.actor \in Users
  /\ s.pc = "claiming" /\ s.want \in {"approved", "rejected"} /\ s.req \notin exempt
       => s.actor \in Users /\ Eligible(s.actor, Named[s.req])
Entitled == \A p \in Everyone : Rightful(proc[p], hasty)

\* It stays so when more decisions are known to be hasty.
LEMMA StillRightful ==
  ASSUME NEW s, NEW X, NEW Y, X \subseteq Y, Rightful(s, X)
  PROVE  Rightful(s, Y)
BY DEF Rightful

LEMMA JudgeEntitles ==
  ASSUME IInv, Entitled, NEW p \in Everyone, Judge(p)
  PROVE  Entitled'
<1>1. PICK x \in Proc, u \in Users, r \in Requests :
        x = proc[p] /\ u = x.actor /\ r = x.req /\ x.pc = "loaded"
  BY DEF Judge, IInv, TypeInv, AtWork, Entitled, Rightful
<1>2. hasty \subseteq hasty' /\ proc \in [Everyone -> Proc]
  BY DEF Judge, IInv, TypeInv
<1>3. ASSUME NEW s, Goto(p, s), Rightful(s, hasty') PROVE Entitled'
  <2>1. proc'[p] = s /\ \A q \in Everyone : q # p => proc'[q] = proc[q]
    BY <1>2, <1>3 DEF Goto
  <2>. QED  BY <1>2, <1>3, <2>1, StillRightful DEF Entitled
<1>4. CASE Goto(p, [x EXCEPT !.pc = "claiming", !.want = "expired", !.actor = None])
  <2> DEFINE s == [x EXCEPT !.pc = "claiming", !.want = "expired", !.actor = None]
  <2>1. s.pc = "claiming" /\ s.want = "expired"  BY DEF Proc
  <2>2. Goto(p, s)  BY <1>4
  <2> HIDE DEF s
  <2>3. Rightful(s, hasty')  BY <2>1 DEF Rightful
  <2>. QED  BY <1>3, <2>2, <2>3
<1>5. CASE Goto(p, Idle)
  <2>1. Rightful(Idle, hasty')  BY DEF Idle, Rightful
  <2>. QED  BY <1>3, <1>5, <2>1
<1>6. CASE /\ Goto(p, [x EXCEPT !.pc = "claiming"])
           /\ x.want \in {"approved", "rejected"} => Eligible(u, assigned[r])
           /\ x.want \in {"approved", "rejected"} /\ assigned[r] # Named[r] => r \in hasty'
  <2> DEFINE s == [x EXCEPT !.pc = "claiming"]
  <2>1. s.pc = "claiming" /\ s.want = x.want /\ s.req = r /\ s.actor = u  BY <1>1 DEF Proc
  <2>2. Goto(p, s)  BY <1>6
  <2> HIDE DEF s
  <2>3. Rightful(s, hasty')  BY <1>6, <2>1 DEF Rightful
  <2>. QED  BY <1>3, <2>2, <2>3
<1>. QED  BY <1>1, <1>4, <1>5, <1>6 DEF Judge, CanDecide

\* A step of process p that takes it to a rightful record.
LEMMA MoveEntitles ==
  ASSUME IInv, Entitled, NEW p \in Everyone, NEW s, Goto(p, s), hasty \subseteq hasty',
         Rightful(s, hasty')
  PROVE  Entitled'
<1>1. proc \in [Everyone -> Proc]  BY DEF IInv, TypeInv
<1>2. proc'[p] = s /\ \A q \in Everyone : q # p => proc'[q] = proc[q]
  BY <1>1 DEF Goto
<1>. QED  BY <1>2, StillRightful DEF Entitled

LEMMA OnwardEntitles ==
  ASSUME IInv, Entitled, NEW p \in Everyone, UNCHANGED hasty,
         \/ Claim(p) \/ FinishStep(p) \/ ProcDies(p) \/ StartSweep(p)
  PROVE  Entitled'
<1>1. ASSUME NEW s \in Proc, Goto(p, s), s.pc \notin {"loaded", "claiming"} PROVE Entitled'
  BY <1>1, MoveEntitles DEF Rightful
<1>2. /\ Idle \in Proc /\ Idle.pc = "idle"
      /\ Done(p) \in Proc /\ Done(p).pc \in {"idle", "sweeping"}
  BY IdleType, DoneType DEF Idle, IInv
<1>3. ASSUME NEW pc \in {"claimed", "called", "recorded", "resolved"},
             Goto(p, [proc[p] EXCEPT !.pc = pc])
      PROVE  Entitled'
  <2>1. PICK x \in Proc : x = proc[p]  BY DEF IInv, TypeInv
  <2> DEFINE s == [x EXCEPT !.pc = pc]
  <2>2. s \in Proc /\ s.pc = pc  BY <2>1, StagesAre DEF Proc
  <2>3. Goto(p, s)  BY <1>3, <2>1
  <2> HIDE DEF s
  <2>. QED  BY <1>1, <2>2, <2>3
<1>4. CASE Goto(p, Idle) \/ Goto(p, Done(p))  BY <1>1, <1>2, <1>4
<1>5. CASE Claim(p)  BY <1>3, <1>4, <1>5 DEF Claim
<1>6. CASE Callback(p)  BY <1>3, <1>6 DEF Callback
<1>7. ASSUME NEW i \in 2..Len(Effects), Effect(p, i) PROVE Entitled'
  <2>1. i \in {2, 3, 4}  BY EffectsAre
  <2>2. CASE i = 4  BY <1>4, <1>7, <2>2, EffectsAre DEF Effect
  <2>3. CASE i # 4
    <3>1. Effects[i] \in {"recorded", "resolved"}  BY <2>1, <2>3, EffectsAre
    <3>2. Goto(p, [proc[p] EXCEPT !.pc = Effects[i]])
      BY <1>7, <2>3, EffectsAre DEF Effect
    <3>. QED  BY <1>3, <3>1, <3>2
  <2>. QED  BY <2>2, <2>3
<1>8. CASE ProcDies(p)  BY <1>4, <1>8 DEF ProcDies, Goto
<1>9. CASE StartSweep(p)
  <2>1. PICK todo \in SUBSET Overdue : Goto(p, [Idle EXCEPT !.pc = "sweeping", !.todo = todo])
    BY <1>9 DEF StartSweep
  <2> DEFINE s == [Idle EXCEPT !.pc = "sweeping", !.todo = todo]
  <2>2. s \in Proc /\ s.pc = "sweeping"  BY StagesAre DEF Idle, Proc, Overdue
  <2>3. Goto(p, s)  BY <2>1
  <2> HIDE DEF s
  <2>. QED  BY <1>1, <2>2, <2>3
<1>. QED  BY <1>5, <1>6, <1>7, <1>8, <1>9 DEF FinishStep

LEMMA NextEntitled ==
  ASSUME IInv, Entitled, [Next]_vars
  PROVE  Entitled'
<1>1. ASSUME NEW p \in Procs, NEW u \in Users, NEW r \in Requests, NEW want \in Wants,
             Load(p, u, r, want)
      PROVE  Entitled'
  <2> DEFINE s == [Idle EXCEPT !.pc = "loaded", !.req = r, !.actor = u, !.want = want,
                               !.seen = row[r].status]
  <2>1. s.pc = "loaded" /\ s.actor = u  BY DEF Idle
  <2>2. Goto(p, s) /\ UNCHANGED hasty  BY <1>1 DEF Load, history
  <2> HIDE DEF s
  <2>3. Rightful(s, hasty')  BY <2>1 DEF Rightful
  <2>. QED  BY <2>2, <2>3, MoveEntitles DEF Everyone
<1>2. ASSUME NEW p \in Everyone, NEW r \in Requests, NextOverdue(p, r) PROVE Entitled'
  <2> DEFINE s == [Idle EXCEPT !.pc = "claiming", !.req = r, !.want = "expired",
                               !.todo = proc[p].todo \ {r}]
  <2>1. s.pc = "claiming" /\ s.want = "expired"  BY DEF Idle
  <2>2. Goto(p, s) /\ UNCHANGED hasty  BY <1>2 DEF NextOverdue, history
  <2> HIDE DEF s
  <2>3. Rightful(s, hasty')  BY <2>1 DEF Rightful
  <2>. QED  BY <2>2, <2>3, MoveEntitles
<1>3. ASSUME NEW p \in Everyone, Claim(p) \/ FinishStep(p) \/ ProcDies(p) \/ StartSweep(p)
      PROVE  Entitled'
  <2>1. UNCHANGED hasty
    BY <1>3 DEF Claim, FinishStep, Callback, Effect, ProcDies, StartSweep, history
  <2>. QED  BY <1>3, <2>1, OnwardEntitles
<1>4. CASE UNCHANGED <<proc, hasty>>  BY <1>4 DEF Entitled
<1>. QED
  BY <1>1, <1>2, <1>3, <1>4, JudgeEntitles
  DEF Next, FileStep, Count, Save, Assign, Announce, FilingDies, ExpiresNow, Step, SweepStep,
      ReadBell, Everyone, history, vars

\* Only a claim writes an outcome, and it writes what its process was entitled to.
LEMMA NextOnlyNamed ==
  ASSUME IInv, Entitled, OnlyNamedDecide, [Next]_vars
  PROVE  OnlyNamedDecide'
<1>1. hasty \subseteq hasty'
  BY DEF Next, FileStep, Count, Save, Assign, Announce, FilingDies, ExpiresNow, Load, Step,
         Judge, Claim, FinishStep, Callback, Effect, SweepStep, StartSweep, NextOverdue,
         ProcDies, ReadBell, history, vars
<1>2. CASE UNCHANGED row  BY <1>1, <1>2 DEF OnlyNamedDecide
<1>3. ASSUME NEW r \in Requests, Save(r) PROVE OnlyNamedDecide'
  <2>1. row' = [row EXCEPT ![r].status = "pending"]  BY <1>3 DEF Save
  <2>2. row'[r].status = "pending" /\ \A q \in Requests : q # r => row'[q] = row[q]
    BY <2>1 DEF IInv, TypeInv
  <2>. QED  BY <1>1, <2>2 DEF OnlyNamedDecide
<1>4. ASSUME NEW p \in Everyone, Claim(p), ~UNCHANGED row PROVE OnlyNamedDecide'
  <2>1. PICK x \in Proc : x = proc[p]  BY DEF IInv, TypeInv
  <2>2. row' = [row EXCEPT ![x.req] = [status |-> x.want, by |-> x.actor]]
    BY <1>4, <2>1 DEF Claim
  <2>3. x.req \in Requests /\ x.pc = "claiming"  BY <1>4, <2>1 DEF Claim, IInv, AtWork
  <2>4. /\ row'[x.req].status = x.want /\ row'[x.req].by = x.actor
        /\ \A q \in Requests : q # x.req => row'[q] = row[q]
    BY <2>2, <2>3 DEF IInv, TypeInv
  <2>5. x.want \in {"approved", "rejected"} /\ x.req \notin hasty
          => x.actor \in Users /\ Eligible(x.actor, Named[x.req])
    BY <2>1, <2>3 DEF Entitled, Rightful
  <2>. QED  BY <1>1, <2>4, <2>5 DEF OnlyNamedDecide
<1>. QED
  BY <1>2, <1>3, <1>4
  DEF Next, FileStep, Count, Assign, Announce, FilingDies, ExpiresNow, Load, Step, Judge,
      FinishStep, Callback, Effect, SweepStep, StartSweep, NextOverdue, ProcDies, ReadBell,
      Everyone, history, vars

\* Whoever approved or rejected was entitled to under the assignees the request was filed
\* with, unless judged before those were attached: whatever people, loads and claims race.
THEOREM OnlyTheNamed == Spec => []OnlyNamedDecide
<1>1. Init => Entitled /\ OnlyNamedDecide
  <2> SUFFICES ASSUME Init PROVE Entitled /\ OnlyNamedDecide  OBVIOUS
  <2>1. \A p \in Everyone : proc[p].pc = "idle"  BY DEF Init, Idle, Everyone
  <2>2. \A r \in Requests : row[r].status = "absent"  BY DEF Init
  <2>. QED  BY <2>1, <2>2 DEF Entitled, Rightful, OnlyNamedDecide
<1>2. IInv /\ Entitled /\ OnlyNamedDecide /\ [Next]_vars => Entitled' /\ OnlyNamedDecide'
  BY NextEntitled, NextOnlyNamed
<1>. QED  BY <1>1, <1>2, AlwaysIInv, PTL DEF Spec
-----------------------------------------------------------------------------
(* What a settled request has had.  One process at a time finishes it, and is    *)
(* where the last effect says.                                                  *)

Busy(s) == s.pc \in {"claimed", "called", "recorded", "resolved"}
Alone == \A p, q \in Everyone :
           Busy(proc[p]) /\ Busy(proc[q]) /\ proc[p].req = proc[q].req => p = q

\* A busy process has a settled request, and has run the effects up to its stage.
InStep(s, status, told, last) ==
  status \in Outcomes /\ (s.pc # "claimed" => told = status /\ last = s.pc)
InOrder ==
  \A p \in Everyone :
    Busy(proc[p]) =>
      InStep(proc[p], row[proc[p].req].status, heard[proc[p].req], reached[proc[p].req])

\* A settled request that nobody finishes has had every effect, unless its process died.
Finished(r) == heard[r] = row[r].status /\ reached[r] = "told"
Left(r) == \A p \in Everyone : ~(Busy(proc[p]) /\ proc[p].req = r)
AllDone ==
  \A r \in Requests : row[r].status \in Outcomes /\ r \notin orphaned /\ Left(r) => Finished(r)
OneFinish == Alone /\ InOrder /\ AllDone

BellsRetired ==
  \A r \in Requests, u \in Users :
    reached[r] \in {"resolved", "told"} /\ r \notin late \cup deaf
      => bell!Row(u, r, "requested") \notin inbox

LEMMA FinishingIsBusy ==
  ASSUME NEW p \in Everyone, NEW r
  PROVE  Finishing(p, r) <=> Busy(proc[p]) /\ proc[p].req = r
<1>1. Len(Effects) - 1 = 3 /\ 1..3 = {1, 2, 3}  BY EffectsAre
<1>2. {Effects[i] : i \in 1..3} = {"called", "recorded", "resolved"}
  BY <1>1, EffectsAre
<1>. QED  BY <1>1, <1>2 DEF Finishing, Busy

\* A process that is alone on r moves, and only what is said of r changes with it.
LEMMA FinishMoves ==
  ASSUME IInv, OneFinish, NEW p \in Everyone, NEW s, NEW r \in Requests, Goto(p, s),
         Busy(proc[p]) => proc[p].req = r, Busy(s) => s.req = r,
         \A q \in Everyone : q # p => ~(Busy(proc[q]) /\ proc[q].req = r),
         \A q \in Requests : q # r =>
           row'[q] = row[q] /\ heard'[q] = heard[q] /\ reached'[q] = reached[q],
         orphaned \subseteq orphaned',
         Busy(s) => InStep(s, row'[r].status, heard'[r], reached'[r]),
         ~Busy(s) => \/ row'[r].status \notin Outcomes \/ r \in orphaned'
                     \/ heard'[r] = row'[r].status /\ reached'[r] = "told"
  PROVE  OneFinish'
<1>1. proc \in [Everyone -> Proc]  BY DEF IInv, TypeInv
<1>2. proc'[p] = s /\ \A q \in Everyone : q # p => proc'[q] = proc[q]
  BY <1>1 DEF Goto
<1>3. \A q \in Everyone : Busy(proc[q]) => proc[q].req \in Requests
  BY DEF IInv, AtWork, Busy
<1>4. Alone'  BY <1>2 DEF OneFinish, Alone
<1>5. InOrder'
  <2> SUFFICES ASSUME NEW q \in Everyone, Busy(proc'[q])
               PROVE  InStep(proc'[q], row'[proc'[q].req].status, heard'[proc'[q].req],
                             reached'[proc'[q].req])
    BY DEF InOrder
  <2>1. CASE q = p  BY <1>2, <2>1
  <2>2. CASE q # p
    <3>1. proc'[q] = proc[q] /\ Busy(proc[q])  BY <1>2, <2>2
    <3>2. proc[q].req \in Requests /\ proc[q].req # r  BY <1>3, <2>2, <3>1
    <3>3. InStep(proc[q], row[proc[q].req].status, heard[proc[q].req], reached[proc[q].req])
      BY <3>1 DEF OneFinish, InOrder
    <3>4. /\ row'[proc[q].req] = row[proc[q].req] /\ heard'[proc[q].req] = heard[proc[q].req]
          /\ reached'[proc[q].req] = reached[proc[q].req]
      BY <3>2
    <3>. QED  BY <3>1, <3>3, <3>4
  <2>. QED  BY <2>1, <2>2
<1>6. AllDone'
  <2> SUFFICES ASSUME NEW t \in Requests, row'[t].status \in Outcomes, t \notin orphaned',
                      Left(t)'
               PROVE  heard'[t] = row'[t].status /\ reached'[t] = "told"
    BY DEF AllDone, Finished
  <2>1. CASE t = r
    <3>1. ~Busy(s)  BY <1>2, <2>1 DEF Left
    <3>. QED  BY <2>1, <3>1
  <2>2. CASE t # r
    <3>1. Left(t)  BY <1>2, <2>2 DEF Left
    <3>. QED  BY <2>2, <3>1 DEF OneFinish, AllDone, Finished
  <2>. QED  BY <2>1, <2>2
<1>. QED  BY <1>4, <1>5, <1>6 DEF OneFinish

\* A process with nothing to finish moves, and settles nothing.
LEMMA FinishWaits ==
  ASSUME IInv, OneFinish, NEW p \in Everyone, NEW s, Goto(p, s), ~Busy(proc[p]), ~Busy(s),
         UNCHANGED <<row, heard, reached>>, orphaned \subseteq orphaned'
  PROVE  OneFinish'
<1>1. proc \in [Everyone -> Proc]  BY DEF IInv, TypeInv
<1>2. proc'[p] = s /\ \A q \in Everyone : q # p => proc'[q] = proc[q]
  BY <1>1 DEF Goto
<1>3. Alone' /\ InOrder'  BY <1>2 DEF OneFinish, Alone, InOrder
<1>4. \A r \in Requests : Left(r)' => Left(r)  BY <1>2 DEF Left
<1>5. AllDone'  BY <1>4 DEF OneFinish, AllDone, Finished
<1>. QED  BY <1>3, <1>5 DEF OneFinish

LEMMA IdleWaits ==
  /\ ~Busy(Idle)
  /\ \A p \in Everyone : ~Busy(Done(p))
<1>1. Idle.pc = "idle"  BY DEF Idle
<1>2. \A p \in Everyone : Done(p).pc \in {"idle", "sweeping"}  BY DEF Done, Idle
<1>. QED  BY <1>1, <1>2 DEF Busy

\* Filing settles nothing: nobody finishes a request that was not saved.
LEMMA SaveFinish == ASSUME IInv, OneFinish, NEW r \in Requests, Save(r) PROVE OneFinish'
<1>1. /\ row' = [row EXCEPT ![r].status = "pending"] /\ row[r].status = "absent"
      /\ UNCHANGED <<proc, heard, reached, orphaned>>
  BY DEF Save, IInv, OneClaim, history
<1>2. row'[r].status = "pending" /\ \A q \in Requests : q # r => row'[q] = row[q]
  BY <1>1 DEF IInv, TypeInv
<1>3. \A p \in Everyone : Busy(proc[p]) => proc[p].req # r /\ proc[p].req \in Requests
  BY <1>1 DEF OneFinish, InOrder, InStep, Outcomes, IInv, AtWork, Busy
<1>4. Alone' /\ InOrder'
  BY <1>1, <1>2, <1>3 DEF OneFinish, Alone, InOrder
<1>5. AllDone'
  BY <1>1, <1>2 DEF OneFinish, AllDone, Left, Finished, Outcomes
<1>. QED  BY <1>4, <1>5 DEF OneFinish

LEMMA ClaimFinish == ASSUME IInv, OneFinish, NEW p \in Everyone, Claim(p) PROVE OneFinish'
<1>1. PICK x \in Proc : x = proc[p] /\ x.pc = "claiming" /\ x.req \in Requests
                        /\ x.want \in Outcomes
  BY DEF IInv, TypeInv, AtWork, Claim
<1>2. ~Busy(proc[p]) /\ UNCHANGED <<heard, reached, orphaned>>
  BY <1>1 DEF Busy, Claim, history
<1>3. CASE ~Pending(x.req)
  <2>1. Goto(p, Done(p)) /\ UNCHANGED row  BY <1>1, <1>3 DEF Claim
  <2>. QED  BY <1>2, <2>1, IdleWaits, FinishWaits
<1>4. CASE Pending(x.req)
  <2> DEFINE s == [x EXCEPT !.pc = "claimed"]
  <2>1. Goto(p, s)  BY <1>1, <1>4 DEF Claim
  <2>2. s.pc = "claimed" /\ s.req = x.req  BY DEF Proc
  <2>3. row' = [row EXCEPT ![x.req] = [status |-> x.want, by |-> x.actor]]
    BY <1>1, <1>4 DEF Claim
  <2>4. row'[x.req].status = x.want /\ \A q \in Requests : q # x.req => row'[q] = row[q]
    BY <1>1, <2>3 DEF IInv, TypeInv
  <2>5. \A q \in Everyone : ~(Busy(proc[q]) /\ proc[q].req = x.req)
    BY <1>4 DEF OneFinish, InOrder, InStep, Pending, Outcomes
  <2> HIDE DEF s
  <2>6. Busy(s) /\ InStep(s, row'[x.req].status, heard'[x.req], reached'[x.req])
    BY <1>1, <2>2, <2>4 DEF Busy, InStep
  <2>. QED  BY <1>1, <1>2, <2>1, <2>2, <2>4, <2>5, <2>6, FinishMoves
<1>. QED  BY <1>3, <1>4

LEMMA CallbackFinish ==
  ASSUME IInv, OneFinish, NEW p \in Everyone, Callback(p) PROVE OneFinish'
<1>1. PICK x \in Proc : x = proc[p] /\ x.pc = "claimed" /\ x.req \in Requests
  BY DEF IInv, TypeInv, AtWork, Callback
<1>2. /\ Busy(proc[p]) /\ UNCHANGED <<row, orphaned>>
      /\ row[x.req].status \in Outcomes /\ heard[x.req] = "nothing"
  BY <1>1 DEF Busy, Callback, IInv, AtWork, OneClaim
<1>3. /\ heard' = [heard EXCEPT ![x.req] = row[x.req].status]
      /\ reached' = [reached EXCEPT ![x.req] = "called"]
  <2>1. heard' = [heard EXCEPT ![x.req] = IF heard[x.req] = "nothing" THEN row[x.req].status
                                           ELSE "twice"]
    BY <1>1 DEF Callback
  <2>. QED  BY <1>1, <1>2, <2>1 DEF Callback
<1>4. /\ heard'[x.req] = row[x.req].status /\ reached'[x.req] = "called"
      /\ \A q \in Requests : q # x.req => heard'[q] = heard[q] /\ reached'[q] = reached[q]
  BY <1>1, <1>3 DEF IInv, TypeInv
<1>5. \A q \in Everyone : q # p => ~(Busy(proc[q]) /\ proc[q].req = x.req)
  BY <1>1, <1>2 DEF OneFinish, Alone
<1> DEFINE s == [x EXCEPT !.pc = "called"]
<1>6. s.pc = "called" /\ s.req = x.req  BY DEF Proc
<1>7. Goto(p, s)  BY <1>1 DEF Callback
<1> HIDE DEF s
<1>8. Busy(s) /\ InStep(s, row'[x.req].status, heard'[x.req], reached'[x.req])
  BY <1>2, <1>4, <1>6 DEF Busy, InStep
<1>. QED  BY <1>1, <1>2, <1>4, <1>5, <1>6, <1>7, <1>8, FinishMoves

LEMMA EffectFinish ==
  ASSUME IInv, OneFinish, NEW p \in Everyone, NEW i \in 2..Len(Effects), Effect(p, i)
  PROVE  OneFinish'
<1>1. i \in {2, 3, 4}  BY EffectsAre
<1>2. proc[p].pc \in {"called", "recorded", "resolved"}  BY <1>1, EffectsAre DEF Effect
<1>3. PICK x \in Proc : x = proc[p] /\ x.req \in Requests
  BY <1>2 DEF IInv, TypeInv, AtWork
<1>4. Busy(proc[p]) /\ UNCHANGED <<row, orphaned, heard>>  BY <1>2 DEF Busy, Effect
<1>5. row[x.req].status \in Outcomes /\ heard[x.req] = row[x.req].status
  BY <1>2, <1>3, <1>4 DEF OneFinish, InOrder, InStep
<1>6. /\ reached'[x.req] = Effects[i]
      /\ \A q \in Requests : q # x.req => reached'[q] = reached[q]
  BY <1>3 DEF Effect, IInv, TypeInv
<1>7. \A q \in Everyone : q # p => ~(Busy(proc[q]) /\ proc[q].req = x.req)
  BY <1>3, <1>4 DEF OneFinish, Alone
<1>8. CASE i = 4
  <2>1. Goto(p, Done(p)) /\ reached'[x.req] = "told"
    BY <1>6, <1>8, EffectsAre DEF Effect
  <2>. QED  BY <1>3, <1>4, <1>5, <1>6, <1>7, <2>1, IdleWaits, FinishMoves
<1>9. CASE i # 4
  <2> DEFINE s == [x EXCEPT !.pc = Effects[i]]
  <2>1. Effects[i] \in {"recorded", "resolved"}  BY <1>1, <1>9, EffectsAre
  <2>2. s.pc = Effects[i] /\ s.req = x.req  BY DEF Proc
  <2>3. Goto(p, s)  BY <1>3, <1>9, EffectsAre DEF Effect
  <2> HIDE DEF s
  <2>4. Busy(s) /\ InStep(s, row'[x.req].status, heard'[x.req], reached'[x.req])
    BY <1>4, <1>5, <1>6, <2>1, <2>2 DEF Busy, InStep
  <2>. QED  BY <1>3, <1>4, <1>6, <1>7, <2>2, <2>3, <2>4, FinishMoves
<1>. QED  BY <1>8, <1>9

\* A process that dies leaves its request orphaned.
LEMMA DeathFinish == ASSUME IInv, OneFinish, NEW p \in Everyone, ProcDies(p) PROVE OneFinish'
<1>1. Goto(p, Idle) /\ UNCHANGED <<row, heard, reached>> /\ orphaned \subseteq orphaned'
  BY DEF ProcDies, Goto
<1>2. CASE ~Busy(proc[p])  BY <1>1, <1>2, IdleWaits, FinishWaits
<1>3. CASE Busy(proc[p])
  <2>1. proc[p].req \in Requests  BY <1>3 DEF IInv, AtWork, Busy
  <2>2. proc[p].req \in orphaned'
    BY <1>3, ReachedAre DEF ProcDies, Busy
  <2>3. \A q \in Everyone : q # p => ~(Busy(proc[q]) /\ proc[q].req = proc[p].req)
    BY <1>3 DEF OneFinish, Alone
  <2>. QED  BY <1>1, <1>3, <2>1, <2>2, <2>3, IdleWaits, FinishMoves
<1>. QED  BY <1>2, <1>3

LEMMA JudgeFinish == ASSUME IInv, OneFinish, NEW p \in Everyone, Judge(p) PROVE OneFinish'
<1>1. PICK x \in Proc : x = proc[p] /\ x.pc = "loaded"  BY DEF IInv, TypeInv, Judge
<1>2. ~Busy(proc[p]) /\ UNCHANGED <<row, heard, reached, orphaned>>
  BY <1>1 DEF Busy, Judge
<1> DEFINE expired == [x EXCEPT !.pc = "claiming", !.want = "expired", !.actor = None]
           granted == [x EXCEPT !.pc = "claiming"]
<1>3. expired.pc = "claiming" /\ granted.pc = "claiming"  BY DEF Proc
<1>4. Goto(p, expired) \/ Goto(p, granted) \/ Goto(p, Idle)  BY <1>1 DEF Judge
<1> HIDE DEF expired, granted
<1>5. ~Busy(expired) /\ ~Busy(granted)  BY <1>3 DEF Busy
<1>. QED  BY <1>2, <1>4, <1>5, IdleWaits, FinishWaits

LEMMA NextFinish == ASSUME IInv, OneFinish, [Next]_vars PROVE OneFinish'
<1>1. ASSUME NEW p \in Procs, NEW u \in Users, NEW r \in Requests, NEW want \in Wants,
             Load(p, u, r, want)
      PROVE  OneFinish'
  <2> DEFINE s == [Idle EXCEPT !.pc = "loaded", !.req = r, !.actor = u, !.want = want,
                               !.seen = row[r].status]
  <2>1. s.pc = "loaded"  BY DEF Idle
  <2>2. Goto(p, s) /\ UNCHANGED <<row, heard, reached, orphaned>>  BY <1>1 DEF Load, history
  <2> HIDE DEF s
  <2>3. ~Busy(s) /\ ~Busy(proc[p])  BY <1>1, <2>1 DEF Busy, Load
  <2>. QED  BY <2>2, <2>3, FinishWaits DEF Everyone
<1>2. ASSUME NEW p \in Everyone, NEW r \in Requests, NextOverdue(p, r) PROVE OneFinish'
  <2> DEFINE s == [Idle EXCEPT !.pc = "claiming", !.req = r, !.want = "expired",
                               !.todo = proc[p].todo \ {r}]
  <2>1. s.pc = "claiming"  BY DEF Idle
  <2>2. Goto(p, s) /\ UNCHANGED <<row, heard, reached, orphaned>>
    BY <1>2 DEF NextOverdue, history
  <2> HIDE DEF s
  <2>3. ~Busy(s) /\ ~Busy(proc[p])  BY <1>2, <2>1 DEF Busy, NextOverdue
  <2>. QED  BY <2>2, <2>3, FinishWaits
<1>3. ASSUME NEW p \in Everyone, StartSweep(p) PROVE OneFinish'
  <2>1. PICK todo \in SUBSET Overdue : Goto(p, [Idle EXCEPT !.pc = "sweeping", !.todo = todo])
    BY <1>3 DEF StartSweep
  <2> DEFINE s == [Idle EXCEPT !.pc = "sweeping", !.todo = todo]
  <2>2. s.pc = "sweeping"  BY DEF Idle
  <2>3. Goto(p, s) /\ UNCHANGED <<row, heard, reached, orphaned>>
    BY <1>3, <2>1 DEF StartSweep, history
  <2> HIDE DEF s
  <2>4. ~Busy(s) /\ ~Busy(proc[p])  BY <1>3, <2>2 DEF Busy, StartSweep
  <2>. QED  BY <2>3, <2>4, FinishWaits
<1>4. ASSUME UNCHANGED <<proc, row, heard, reached, orphaned>> PROVE OneFinish'
  BY <1>4 DEF OneFinish, Alone, InOrder, AllDone, Left, Finished
<1>5. ASSUME NEW r \in Requests, FileStep(r) \/ FilingDies(r) \/ ExpiresNow(r), ~Save(r)
      PROVE  OneFinish'
  BY <1>4, <1>5 DEF FileStep, Count, Assign, Announce, FilingDies, ExpiresNow, history
<1>6. CASE (\E u \in Users : ReadBell(u)) \/ UNCHANGED vars
  BY <1>4, <1>6 DEF ReadBell, history, vars
<1>7. CASE \E p \in Everyone : FinishStep(p)
  BY <1>7, CallbackFinish, EffectFinish DEF FinishStep
<1>8. CASE \E p \in Everyone : Judge(p) \/ Claim(p) \/ ProcDies(p)
  BY <1>8, JudgeFinish, ClaimFinish, DeathFinish
<1>. QED
  BY <1>1, <1>2, <1>3, <1>5, <1>6, <1>7, <1>8, SaveFinish
  DEF Next, Step, SweepStep, Everyone

\* A bell that asks for a decision is not rung again once it was retired, or is late; and
\* it is retired unless the call that does so raised.
LEMMA NextRetired ==
  ASSUME IInv, OneFinish, BellsRetired, [Next]_vars PROVE BellsRetired'
<1>1. ASSUME inbox' \subseteq inbox, UNCHANGED <<reached, deaf>>, late \subseteq late'
      PROVE  BellsRetired'
  BY <1>1 DEF BellsRetired
<1>2. ASSUME NEW r \in Requests, Announce(r) PROVE BellsRetired'
  <2>1. \A q \in Requests : q # r => \A u \in Users :
          bell!Row(u, q, "requested") \in inbox' => bell!Row(u, q, "requested") \in inbox
    BY <1>2 DEF Announce, Raises, bell!Swallowed, bell!Notify, bell!Row
  <2>2. /\ UNCHANGED <<reached, deaf>> /\ late \subseteq late'
        /\ reached[r] \in {"resolved", "told"} => r \in late'
    BY <1>2 DEF Announce
  <2>. QED  BY <2>1, <2>2 DEF BellsRetired
<1>3. ASSUME NEW p \in Everyone, Callback(p) PROVE BellsRetired'
  <2>1. /\ UNCHANGED <<inbox, late, deaf>> /\ proc[p].req \in Requests
        /\ reached' = [reached EXCEPT ![proc[p].req] = "called"]
    BY <1>3 DEF Callback, IInv, AtWork
  <2>. QED  BY <2>1 DEF BellsRetired, IInv, TypeInv
<1>4. ASSUME NEW p \in Everyone, NEW i \in 2..Len(Effects), Effect(p, i) PROVE BellsRetired'
  <2> DEFINE r == proc[p].req
  <2>1. i \in {2, 3, 4}  BY EffectsAre
  <2>2. proc[p].pc \in {"called", "recorded", "resolved"}
    BY <1>4, <2>1, EffectsAre DEF Effect
  <2>3. r \in Requests /\ reached[r] = proc[p].pc
    BY <2>2 DEF IInv, AtWork, OneFinish, InOrder, InStep, Busy
  <2>4. UNCHANGED late /\ reached' = [reached EXCEPT ![r] = Effects[i]]
    BY <1>4 DEF Effect
  <2>5. reached'[r] = Effects[i] /\ \A q \in Requests : q # r => reached'[q] = reached[q]
    BY <2>3, <2>4 DEF IInv, TypeInv
  <2>6. CASE i = 2
    <3>1. UNCHANGED <<inbox, deaf>> /\ Effects[i] = "recorded"
      BY <1>4, <2>6, EffectsAre DEF Effect
    <3>. QED  BY <2>4, <2>5, <3>1 DEF BellsRetired
  <2>7. CASE i = 3
    <3>1. \/ bell!Resolve(r, "requested") /\ UNCHANGED deaf
          \/ Raises /\ deaf' = deaf \cup {r}
      BY <1>4, <2>7, EffectsAre DEF Effect
    <3>2. CASE Raises /\ deaf' = deaf \cup {r}
      BY <2>4, <2>5, <3>2 DEF BellsRetired, Raises, bell!Swallowed
    <3>3. CASE bell!Resolve(r, "requested") /\ UNCHANGED deaf
      <4>1. inbox' \subseteq inbox
            /\ \A u \in Users : bell!Row(u, r, "requested") \notin inbox'
        BY <3>3 DEF bell!Resolve, bell!Row
      <4>. QED  BY <2>4, <2>5, <3>3, <4>1 DEF BellsRetired
    <3>. QED  BY <3>1, <3>2, <3>3
  <2>8. CASE i = 4
    <3>1. /\ \/ bell!Notify(Approvers(r) \cup {Requester}, proc[p].actor, r, "decided")
             \/ Raises
          /\ UNCHANGED deaf
      BY <1>4, <2>8, EffectsAre DEF Effect
    <3>2. \A q \in Requests, u \in Users :
            bell!Row(u, q, "requested") \in inbox' => bell!Row(u, q, "requested") \in inbox
      BY <3>1 DEF Raises, bell!Swallowed, bell!Notify, bell!Row
    <3>3. reached[r] = "resolved"  BY <1>4, <2>3, <2>8, EffectsAre DEF Effect
    <3>. QED  BY <2>3, <2>4, <2>5, <3>1, <3>2, <3>3 DEF BellsRetired
  <2>. QED  BY <2>1, <2>6, <2>7, <2>8
<1>5. CASE \E u \in Users : ReadBell(u)
  BY <1>1, <1>5 DEF ReadBell, bell!MarkRead, history
<1>6. CASE UNCHANGED <<inbox, reached, late, deaf>>  BY <1>1, <1>6
<1>. QED
  BY <1>2, <1>3, <1>4, <1>5, <1>6
  DEF Next, FileStep, Count, Save, Assign, FilingDies, ExpiresNow, Load, Step, Judge, Claim,
      FinishStep, SweepStep, StartSweep, NextOverdue, ProcDies, Everyone, history, vars

\* A settled request whose process did not die and is not at work has had its callback,
\* with that outcome, and went through every effect after it; and no bell asks for it any
\* more, unless it was announced too late or the call that retires its bells raised.
THEOREM SettledHasAll == Spec => []SettledIsComplete
<1>1. Init => OneFinish /\ BellsRetired
  <2> SUFFICES ASSUME Init PROVE OneFinish /\ BellsRetired  OBVIOUS
  <2>1. \A p \in Everyone : ~Busy(proc[p])  BY DEF Init, Idle, Everyone, Busy
  <2>2. \A r \in Requests : row[r].status = "absent" /\ inbox = {}  BY DEF Init
  <2>. QED
    BY <2>1, <2>2 DEF OneFinish, Alone, InOrder, AllDone, BellsRetired, Outcomes
<1>2. IInv /\ OneFinish /\ BellsRetired /\ [Next]_vars => OneFinish' /\ BellsRetired'
  BY NextFinish, NextRetired
<1>3. IInv /\ OneFinish /\ BellsRetired => SettledIsComplete
  <2> SUFFICES ASSUME IInv, OneFinish, BellsRetired, NEW r \in Requests,
                      row[r].status \in Outcomes, r \notin orphaned,
                      \A p \in Everyone : ~Finishing(p, r)
               PROVE  Finished(r) /\ (r \notin late \cup deaf =>
                        \A u \in Users : bell!Row(u, r, "requested") \notin inbox)
    BY DEF SettledIsComplete, Finished, Everyone
  <2>1. Left(r)  BY FinishingIsBusy DEF Left
  <2>2. Finished(r)  BY <2>1 DEF OneFinish, AllDone
  <2>. QED  BY <2>2 DEF Finished, BellsRetired
<1>. QED  BY <1>1, <1>2, <1>3, AlwaysIInv, PTL DEF Spec
=============================================================================
