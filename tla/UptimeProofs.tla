----------------------------- MODULE UptimeProofs -----------------------------
(***************************************************************************)
(* Theorems about Uptime, for any runners, day, retention, length of a check *)
(* and maintenance, on a database that serializes write transactions or not. *)
(* A check takes less than the retention: so whatever a runner still records *)
(* is younger than whatever a fold has read, and a batch stays what it was    *)
(* when it was read until it is folded.  A day that has a summary is over,   *)
(* and the summary is what a count over its minutes gives; so the sums over  *)
(* days and beats that the pages show count every minute once.               *)
(***************************************************************************)
EXTENDS Uptime, FiniteSetTheorems, WellFoundedInduction, TLAPS

Statuses == {"ok", "fail"}
Runner == [pc : {"idle", "checking", "recorded", "folding"}, at : Times,
           ok : SUBSET Times, fail : SUBSET Times, out : SUBSET Times]
DayRow == [there : BOOLEAN, ok : Nat, fail : Nat, out : Nat, expected : 0..DayLength]
Window == [from : Nat, to : Nat, excluded : BOOLEAN]

Typed ==
  /\ now \in Times /\ epoch \in Times \cup {None} /\ acts \in 0..MaxActs
  /\ beats \in [Times -> Statuses \cup {None}] /\ taken \in [Times -> Statuses \cup {None}]
  /\ daily \in [Days -> DayRow] /\ windows \subseteq Window
  /\ run \in [Runners -> Runner]
  /\ torn \in BOOLEAN /\ rescored \in BOOLEAN

\* The beats of minute t and before, which a fold that read them at t deletes.
Old(t) == {m \in Times : Beat(m) /\ m <= t}

\* A check is young, and a batch is what there is to fold and how it is split.
Timely(s) ==
  /\ s.pc = "checking" => s.at <= now /\ now - s.at <= MaxCheck
  /\ s.pc = "folding" =>
       /\ s.at + Retention <= now
       /\ ~torn => [ok |-> s.ok, fail |-> s.fail, out |-> s.out] = Split(Old(s.at))

\* A beat is the row that was recorded, and only what is old has been folded.
Recorded ==
  \A m \in Times :
    /\ Beat(m) => beats[m] = taken[m]
    /\ taken[m] # None => Beat(m) \/ m + Retention <= now

Counted(d) ==
  daily[d].ok + daily[d].fail + daily[d].out + Cardinality(Raw(d))
    = Cardinality({m \in In(d) : taken[m] # None})

FoldInv ==
  /\ Typed
  /\ Recorded
  /\ \A r \in Runners : Timely(run[r])
  /\ ~torn => \A q, r \in Runners : run[q].pc = "folding" /\ run[r].pc = "folding" => q = r
  /\ ~torn => \A d \in Days : Counted(d)
-----------------------------------------------------------------------------
LEMMA TimesAre ==
  /\ IsFiniteSet(Times) /\ \A m \in Times : m \in Int /\ m >= 0
  /\ \A t \in Times : 0..t \subseteq Times
<1>1. MaxTime \in Nat  BY UptimeAssumption
<1>2. IsFiniteSet(0..MaxTime)  BY <1>1, FS_Interval
<1>. QED  BY <1>1, <1>2 DEF Times

\* A day owes no more minutes than it has.
LEMMA DayIs == \A d : IsFiniteSet(In(d)) /\ (d \in Days => Cardinality(In(d)) <= DayLength)
<1> SUFFICES ASSUME NEW d
             PROVE  IsFiniteSet(In(d)) /\ (d \in Days => Cardinality(In(d)) <= DayLength)
  OBVIOUS
<1>1. In(d) \subseteq Times  BY DEF In
<1>2. IsFiniteSet(In(d))  BY <1>1, TimesAre, FS_Subset
<1>3. ASSUME d \in Days PROVE Cardinality(In(d)) <= DayLength
  <2>1. d \in Int /\ DayLength \in Int /\ DayLength > 0
    BY <1>3, UptimeAssumption DEF Days
  <2> DEFINE first == DayLength * d
             last == first + DayLength - 1
  <2>2. first \in Int  BY <2>1
  <2>3. \A m \in In(d) : first <= m /\ m <= last
    <3> SUFFICES ASSUME NEW m \in In(d) PROVE first <= m /\ m <= last  OBVIOUS
    <3>1. m \in Int /\ m \div DayLength = d  BY <1>1, TimesAre DEF In, Day
    <3>2. DayLength * (m \div DayLength) <= m
          /\ m < DayLength * (m \div DayLength) + DayLength
      BY <2>1, <3>1
    <3>. QED  BY <2>1, <2>2, <3>1, <3>2
  <2> HIDE DEF first
  <2>4. In(d) \subseteq first..last  BY <1>1, <2>1, <2>2, <2>3, TimesAre
  <2>5. IsFiniteSet(first..last) /\ Cardinality(first..last) = DayLength
    BY <2>1, <2>2, FS_Interval
  <2>6. Cardinality(In(d)) <= Cardinality(first..last)  BY <2>4, <2>5, FS_Subset
  <2>. QED  BY <2>5, <2>6
<1>. QED  BY <1>2, <1>3

\* Whatever is counted of a day is finite.
LEMMA PartIs ==
  ASSUME NEW d, NEW S, S \subseteq In(d)
  PROVE  IsFiniteSet(S) /\ Cardinality(S) \in Nat /\ (d \in Days => Cardinality(S) <= DayLength)
<1>1. IsFiniteSet(In(d)) /\ Cardinality(In(d)) \in Nat  BY DayIs, FS_CardinalityType
<1>2. IsFiniteSet(S) /\ Cardinality(S) <= Cardinality(In(d))  BY <1>1, FS_Subset
<1>3. Cardinality(S) \in Nat  BY <1>2, FS_CardinalityType
<1>. QED  BY <1>1, <1>2, <1>3, DayIs, UptimeAssumption

LEMMA ExpectedIs == ASSUME NEW d \in Days PROVE Expected(d) \in 0..DayLength
<1> DEFINE S == {m \in In(d) : m < now /\ m \notin Excluded
                                /\ (epoch = None \/ m >= epoch)}
<1>1. S \subseteq In(d) /\ Expected(d) = Cardinality(S)  BY DEF Expected
<1> HIDE DEF S
<1>2. Cardinality(S) \in Nat /\ Cardinality(S) <= DayLength  BY <1>1, PartIs
<1>. QED  BY <1>1, <1>2, UptimeAssumption

LEMMA TwoParts ==
  ASSUME NEW A, NEW B, IsFiniteSet(A), IsFiniteSet(B), A \cap B = {}
  PROVE  Cardinality(A \cup B) = Cardinality(A) + Cardinality(B)
<1>1. Cardinality(A \cup B) = Cardinality(A) + Cardinality(B) - Cardinality(A \cap B)
  BY FS_Union
<1>2. Cardinality(A \cap B) = 0  BY FS_EmptySet
<1>3. Cardinality(A) \in Nat /\ Cardinality(B) \in Nat  BY FS_CardinalityType
<1>. QED  BY <1>1, <1>2, <1>3

\* What a day has is what its batch takes and what it leaves.
LEMMA FourParts ==
  ASSUME NEW d, NEW A, NEW B, NEW C, NEW D,
         A \cup B \cup C \cup D \subseteq In(d),
         A \cap B = {}, A \cap C = {}, A \cap D = {}, B \cap C = {}, B \cap D = {}, C \cap D = {}
  PROVE  Cardinality(A \cup B \cup C \cup D)
           = Cardinality(A) + Cardinality(B) + Cardinality(C) + Cardinality(D)
<1>1. IsFiniteSet(A) /\ IsFiniteSet(B) /\ IsFiniteSet(C) /\ IsFiniteSet(D)  BY PartIs
<1>2. IsFiniteSet(A \cup B) /\ IsFiniteSet(A \cup B \cup C)  BY PartIs
<1>3. (A \cup B) \cap C = {} /\ (A \cup B \cup C) \cap D = {}  OBVIOUS
<1>4. Cardinality(A \cup B) = Cardinality(A) + Cardinality(B)  BY <1>1, TwoParts
<1>5. Cardinality(A \cup B \cup C) = Cardinality(A \cup B) + Cardinality(C)
  BY <1>1, <1>2, <1>3, TwoParts
<1>6. Cardinality(A \cup B \cup C \cup D) = Cardinality(A \cup B \cup C) + Cardinality(D)
  BY <1>1, <1>2, <1>3, TwoParts
<1>. QED  BY <1>4, <1>5, <1>6

LEMMA BatchStays ==
  ASSUME UNCHANGED <<beats, windows>> PROVE \A t : Split(Old(t))' = Split(Old(t))
BY DEF Split, Old, Excluded, Beat

LEMMA IdleRunner == Idle \in Runner /\ Idle.pc = "idle" /\ 0 \in Times
BY UptimeAssumption DEF Idle, Runner, Times
\* A set of natural numbers that is not empty has a least element.
LEMMA Least == ASSUME NEW S \in SUBSET Nat, S # {} PROVE \E m \in S : \A k \in S : m <= k
<1> DEFINE R == {ss \in Nat \X Nat : ss[1] < ss[2]}
<1>1. IsWellFoundedOn(R, Nat)
  BY NatLessThanWellFounded, Zenon DEF OpToRel
<1>2. PICK m \in S : \A k \in S : ~ (<<k, m>> \in R)
  <2> HIDE DEF R
  <2>. QED  BY <1>1, WFMin
<1>3. ASSUME NEW k \in S PROVE m <= k
  <2>1. <<k, m>> \in Nat \X Nat /\ m \in Nat /\ k \in Nat  OBVIOUS
  <2>2. <<k, m>>[1] = k /\ <<k, m>>[2] = m  OBVIOUS
  <2>3. ~ (<<k, m>>[1] < <<k, m>>[2])  BY <1>2, <2>1
  <2>. QED  BY <2>1, <2>2, <2>3
<1>. QED  BY <1>3

\* The oldest beat, where there is one.
LEMMA OldestIs ==
  ASSUME AnyRaw
  PROVE  OldestRaw \in Times /\ Beat(OldestRaw) /\ \A m \in Times : Beat(m) => OldestRaw <= m
<1> DEFINE S == {m \in Times : Beat(m)}
<1>1. S \in SUBSET Nat /\ S # {}  BY TimesAre DEF AnyRaw
<1>2. OldestRaw = Min(S)  BY DEF OldestRaw
<1>3. S \subseteq Times /\ \A m \in Times : Beat(m) <=> m \in S  OBVIOUS
<1> HIDE DEF S
<1>4. \E m \in S : \A k \in S : m <= k  BY <1>1, Least
<1>5. OldestRaw \in S /\ \A k \in S : OldestRaw <= k  BY <1>2, <1>4 DEF Min
<1>. QED  BY <1>3, <1>5
-----------------------------------------------------------------------------
(* The steps *)

\* One runner goes on and the rows stay as they are.
LEMMA RunnerKeeps ==
  ASSUME FoldInv, NEW r \in Runners, NEW s \in Runner, Goto(r, s), Timely(s)',
         UNCHANGED <<now, beats, daily, windows, acts, taken>>,
         epoch' \in Times \cup {None}, rescored' \in BOOLEAN, torn' \in BOOLEAN, torn => torn',
         ~torn' /\ s.pc = "folding" => \A q \in Runners \ {r} : run[q].pc # "folding"
  PROVE  FoldInv'
<1>1. /\ run' \in [Runners -> Runner] /\ run'[r] = s
      /\ \A q \in Runners : q # r => run'[q] = run[q]
  BY DEF Goto, FoldInv, Typed
<1>2. Typed'  BY <1>1 DEF FoldInv, Typed
<1>3. Recorded'
  BY DEF FoldInv, Recorded, Beat
<1>4. ASSUME NEW q \in Runners PROVE Timely(run[q])'
  <2>1. CASE q = r  BY <1>1, <2>1 DEF Timely
  <2>2. CASE q # r  BY <1>1, <2>2, BatchStays DEF FoldInv, Timely
  <2>. QED  BY <2>1, <2>2
<1>5. ~torn' => \A p, q \in Runners : run'[p].pc = "folding" /\ run'[q].pc = "folding" => p = q
  BY <1>1 DEF FoldInv, Typed
<1>6. ~torn' => \A d \in Days : Counted(d)'
  BY DEF FoldInv, Typed, Counted, Raw, Beat
<1>. QED  BY <1>2, <1>3, <1>4, <1>5, <1>6 DEF FoldInv

LEMMA StartKeeps == ASSUME FoldInv, NEW r \in Runners, StartCheck(r) PROVE FoldInv'
<1> DEFINE new == [Idle EXCEPT !.pc = "checking", !.at = now]
<1>1. /\ now \in Times /\ torn \in BOOLEAN /\ rescored \in BOOLEAN
      /\ epoch \in Times \cup {None}
  BY DEF FoldInv, Typed
<1>2. new \in Runner /\ new.pc = "checking" /\ new.at = now
  BY <1>1, IdleRunner DEF Runner, Idle
<1> HIDE DEF new
<1>3. PICK s \in Runner : s = new /\ s.pc = "checking" /\ s.at = now  BY <1>2
<1> USE DEF new
<1>4. Goto(r, s) /\ UNCHANGED <<now, beats, daily, epoch, windows, acts, taken, torn, rescored>>
  BY <1>3 DEF StartCheck
<1> HIDE DEF new
<1>5. now <= now /\ now - now <= MaxCheck  BY <1>1, TimesAre, UptimeAssumption
<1>6. Timely(s)'  BY <1>3, <1>4, <1>5 DEF Timely
<1>. QED  BY <1>1, <1>3, <1>4, <1>6, RunnerKeeps

LEMMA DieKeeps == ASSUME FoldInv, NEW r \in Runners, Die(r) PROVE FoldInv'
<1>1. Goto(r, Idle)
      /\ UNCHANGED <<now, beats, daily, epoch, windows, acts, taken, torn, rescored>>
  BY DEF Die
<1>2. Timely(Idle)'  BY IdleRunner DEF Timely
<1>. QED  BY <1>1, <1>2, IdleRunner, RunnerKeeps DEF FoldInv, Typed

LEMMA EnsureKeeps == ASSUME FoldInv, NEW r \in Runners, EnsureEpoch(r) PROVE FoldInv'
<1>1. Goto(r, Idle) /\ UNCHANGED <<now, beats, daily, windows, acts, taken, torn>>
  BY DEF EnsureEpoch
<1>2. Timely(Idle)'  BY IdleRunner DEF Timely
<1>3. epoch' \in Times \cup {None} /\ rescored' \in BOOLEAN
  BY OldestIs DEF EnsureEpoch, FoldInv, Typed
<1>. QED  BY <1>1, <1>2, <1>3, IdleRunner, RunnerKeeps DEF FoldInv, Typed

\* What is read beside another fold is remembered as torn.
LEMMA ReadKeeps == ASSUME FoldInv, NEW r \in Runners, PruneRead(r) PROVE FoldInv'
<1> DEFINE old == {m \in Times : Beat(m) /\ m + Retention <= now}
           new == [pc |-> "folding", at |-> now - Retention, ok |-> Split(old).ok,
                   fail |-> Split(old).fail, out |-> Split(old).out]
<1>1. /\ now \in Times /\ torn \in BOOLEAN /\ rescored \in BOOLEAN
      /\ epoch \in Times \cup {None}
  BY DEF FoldInv, Typed
<1>2. /\ now - Retention \in Int /\ now - Retention + Retention <= now
      /\ \A m \in Times : (m + Retention <= now <=> m <= now - Retention)
  BY <1>1, TimesAre, UptimeAssumption
<1>3. now - Retention \in Times
  <2>1. PICK m \in Times : m + Retention <= now  BY DEF PruneRead
  <2>2. m \in Int /\ m >= 0 /\ m <= now - Retention  BY <1>2, <2>1, TimesAre
  <2>3. now - Retention \in 0..now  BY <1>1, <1>2, <2>2, TimesAre, UptimeAssumption
  <2>. QED  BY <1>1, <2>3, TimesAre
<1>4. old = Old(now - Retention)  BY <1>2 DEF Old
<1>5. /\ Split(old).ok \subseteq Times /\ Split(old).fail \subseteq Times
      /\ Split(old).out \subseteq Times
      /\ Split(old) = [ok |-> Split(old).ok, fail |-> Split(old).fail, out |-> Split(old).out]
  BY DEF Split
<1> HIDE DEF old
<1>6. /\ new \in Runner /\ new.pc = "folding" /\ new.at = now - Retention
      /\ [ok |-> new.ok, fail |-> new.fail, out |-> new.out] = Split(Old(new.at))
  BY <1>3, <1>4, <1>5 DEF Runner
<1> HIDE DEF new
<1>7. PICK s \in Runner :
        /\ s = new /\ s.pc = "folding" /\ s.at = now - Retention
        /\ [ok |-> s.ok, fail |-> s.fail, out |-> s.out] = Split(Old(s.at))
  BY <1>6
<1> USE DEF old, new
<1>8. /\ Goto(r, s)
      /\ torn' = (torn \/ \E q \in Runners \ {r} : run[q].pc = "folding")
      /\ UNCHANGED <<now, beats, daily, epoch, windows, acts, taken, rescored>>
  BY <1>7 DEF PruneRead
<1> HIDE DEF old, new
<1>9. Timely(s)'  BY <1>2, <1>7, <1>8, BatchStays DEF Timely
<1>. QED  BY <1>1, <1>7, <1>8, <1>9, RunnerKeeps

\* Time makes what was old older, and leaves nobody behind in a check.
LEMMA TickKeeps == ASSUME FoldInv, Tick PROVE FoldInv'
<1>1. /\ now \in Times /\ now < MaxTime /\ now' = now + 1
      /\ \A r \in Runners : run[r].pc = "checking" => now - run[r].at < MaxCheck
      /\ UNCHANGED <<beats, daily, epoch, windows, run, acts, taken, torn, rescored>>
  BY DEF Tick, FoldInv, Typed
<1>2. now \in Int /\ now' \in Times /\ MaxCheck \in Int /\ Retention \in Int
  BY <1>1, UptimeAssumption DEF Times
<1>3. Typed'  BY <1>1, <1>2 DEF FoldInv, Typed
<1>4. Recorded'
  <2> SUFFICES ASSUME NEW m \in Times
               PROVE  /\ Beat(m)' => beats'[m] = taken'[m]
                      /\ taken'[m] # None => Beat(m)' \/ m + Retention <= now'
    BY DEF Recorded
  <2>1. m \in Int  BY TimesAre
  <2>2. m + Retention <= now => m + Retention <= now'  BY <1>1, <1>2, <2>1
  <2>. QED  BY <1>1, <2>2 DEF FoldInv, Recorded, Beat
<1>5. ASSUME NEW r \in Runners PROVE Timely(run[r])'
  <2>1. run[r].at \in Int  BY TimesAre DEF FoldInv, Typed, Runner
  <2>2. Timely(run[r])  BY DEF FoldInv
  <2>3. run[r].pc = "checking" => run[r].at <= now' /\ now' - run[r].at <= MaxCheck
    BY <1>1, <1>2, <2>1, <2>2 DEF Timely
  <2>4. run[r].pc = "folding" => run[r].at + Retention <= now'
    BY <1>1, <1>2, <2>1, <2>2 DEF Timely
  <2>. QED  BY <1>1, <2>2, <2>3, <2>4, BatchStays DEF Timely
<1>6. ~torn' => \A d \in Days : Counted(d)'
  BY <1>1 DEF FoldInv, Counted, Raw, Beat
<1>. QED  BY <1>1, <1>3, <1>4, <1>5, <1>6 DEF FoldInv

\* What staff change while a batch is held is remembered as torn.
LEMMA StaffKeeps ==
  ASSUME FoldInv, Act, windows' \subseteq Window, epoch' = epoch \/ epoch' \in Times,
         daily' \in [Days -> DayRow], rescored' \in BOOLEAN,
         \A d \in Days : /\ daily'[d].ok = daily[d].ok /\ daily'[d].fail = daily[d].fail
                         /\ daily'[d].out = daily[d].out
  PROVE  FoldInv'
<1>1. /\ acts' \in 0..MaxActs /\ torn' \in BOOLEAN /\ UNCHANGED <<now, beats, run, taken>>
      /\ ~torn' => ~torn /\ \A r \in Runners : run[r].pc # "folding"
  <2>1. acts \in 0..MaxActs /\ MaxActs \in Int /\ acts < MaxActs /\ acts' = acts + 1
    BY UptimeAssumption DEF Act, FoldInv, Typed
  <2>2. acts' \in 0..MaxActs  BY <2>1
  <2>. QED  BY <2>2 DEF Act, FoldInv, Typed
<1>2. Typed'  BY <1>1 DEF FoldInv, Typed
<1>4. Recorded'
  BY <1>1 DEF FoldInv, Recorded, Beat
<1>5. \A r \in Runners : Timely(run[r])'
  BY <1>1 DEF FoldInv, Timely
<1>6. ~torn' => \A d \in Days : Counted(d)'
  BY <1>1 DEF FoldInv, Counted, Raw, Beat
<1>. QED  BY <1>1, <1>2, <1>4, <1>5, <1>6 DEF FoldInv

\* Nobody still records what a fold has read, or has folded.
LEMMA CheckIsYoung ==
  ASSUME FoldInv, NEW r \in Runners, run[r].pc = "checking"
  PROVE  /\ run[r].at \in Times /\ ~(run[r].at + Retention <= now)
         /\ \A q \in Runners : run[q].pc = "folding" => run[q].at < run[r].at
<1>1. /\ run[r].at \in Times /\ Timely(run[r]) /\ now \in Times
      /\ \A q \in Runners : run[q].at \in Times /\ Timely(run[q])
  BY DEF FoldInv, Typed, Runner
<1>2. run[r].at <= now /\ now - run[r].at <= MaxCheck  BY <1>1 DEF Timely
<1>3. MaxCheck \in Int /\ Retention \in Int /\ MaxCheck < Retention /\ now \in Int
      /\ run[r].at \in Int
  BY <1>1, TimesAre, UptimeAssumption
<1>4. ~(run[r].at + Retention <= now)  BY <1>2, <1>3
<1>5. ASSUME NEW q \in Runners, run[q].pc = "folding" PROVE run[q].at < run[r].at
  <2>1. run[q].at \in Int /\ run[q].at + Retention <= now  BY <1>1, <1>5, TimesAre DEF Timely
  <2>. QED  BY <1>3, <1>4, <2>1
<1>. QED  BY <1>1, <1>4, <1>5

LEMMA RecordKeeps ==
  ASSUME FoldInv, NEW r \in Runners, NEW status \in Statuses, Record(r, status)
  PROVE  FoldInv'
<1>1. PICK t \in Times : /\ t = run[r].at /\ ~(t + Retention <= now)
                         /\ \A q \in Runners : run[q].pc = "folding" => run[q].at < t
  BY CheckIsYoung DEF Record
<1>2. /\ beats' = [beats EXCEPT ![t] = status] /\ taken' = [taken EXCEPT ![t] = status]
      /\ Goto(r, [Idle EXCEPT !.pc = "recorded"])
      /\ UNCHANGED <<now, daily, epoch, windows, acts, torn, rescored>>
  BY <1>1 DEF Record
<1>3. status # None  BY UptimeAssumption DEF Statuses
<1>4. PICK s \in Runner : s = [Idle EXCEPT !.pc = "recorded"] /\ s.pc = "recorded"
  <2> DEFINE s == [Idle EXCEPT !.pc = "recorded"]
  <2>1. s \in Runner /\ s.pc = "recorded"  BY IdleRunner DEF Runner
  <2> HIDE DEF s
  <2>2. \E x \in Runner : x = s /\ x.pc = "recorded"  BY <2>1
  <2>. QED  BY <2>2 DEF s
<1>5. /\ beats'[t] = status /\ taken'[t] = status
      /\ \A m \in Times : m # t => beats'[m] = beats[m] /\ taken'[m] = taken[m]
  BY <1>2 DEF FoldInv, Typed
<1>6. /\ run' \in [Runners -> Runner] /\ run'[r] = s
      /\ \A q \in Runners : q # r => run'[q] = run[q]
  BY <1>2, <1>4 DEF Goto, FoldInv, Typed
<1>7. Typed'  BY <1>2, <1>6 DEF FoldInv, Typed
<1>8. Recorded'  BY <1>2, <1>5 DEF FoldInv, Recorded, Beat
<1>9. ASSUME NEW q \in Runners PROVE Timely(run[q])'
  <2>1. CASE q = r  BY <1>4, <1>6, <2>1 DEF Timely
  <2>2. CASE q # r
    <3>1. run'[q] = run[q] /\ Timely(run[q])  BY <1>6, <2>2 DEF FoldInv
    <3>2. ASSUME run[q].pc = "folding" PROVE Split(Old(run[q].at))' = Split(Old(run[q].at))
      <4>1. run[q].at < t /\ run[q].at \in Int /\ t \in Int
        BY <1>1, <3>2, TimesAre DEF FoldInv, Typed, Runner
      <4>2. \A m \in Times : m <= run[q].at => beats'[m] = beats[m]
        <5> SUFFICES ASSUME NEW m \in Times, m <= run[q].at PROVE beats'[m] = beats[m]
          OBVIOUS
        <5>1. m \in Int  BY TimesAre
        <5>2. m # t  BY <4>1, <5>1
        <5>. QED  BY <1>5, <5>2
      <4>3. Old(run[q].at)' = Old(run[q].at)  BY <3>1, <4>2 DEF Old, Beat
      <4>4. Excluded' = Excluded  BY <1>2 DEF Excluded
      <4>. QED  BY <4>2, <4>3, <4>4 DEF Split, Old
    <3>. QED  BY <1>2, <3>1, <3>2 DEF Timely
  <2>. QED  BY <2>1, <2>2
<1>10. ASSUME ~torn, NEW d \in Days PROVE Counted(d)'
  <2> DEFINE T == {m \in In(d) : taken[m] # None}
  <2>1. Counted(d) /\ t \in Times  BY <1>10 DEF FoldInv
  <2>2. /\ Raw(d) \subseteq In(d) /\ T \subseteq In(d) /\ In(d) \subseteq Times
    BY DEF Raw, In
  <2>3. IsFiniteSet(Raw(d)) /\ IsFiniteSet(T)  BY <2>2, PartIs
  <2>4. t \in Raw(d) <=> t \in T
    BY <1>1 DEF FoldInv, Recorded, Raw, Beat
  <2>5. CASE t \in In(d)
    <3>1. Raw(d)' = Raw(d) \cup {t}  BY <1>3, <1>5, <2>2, <2>5 DEF Raw, Beat
    <3>2. {m \in In(d) : taken'[m] # None} = T \cup {t}  BY <1>3, <1>5, <2>2, <2>5
    <3>3. /\ Cardinality(Raw(d) \cup {t})
               = IF t \in Raw(d) THEN Cardinality(Raw(d)) ELSE Cardinality(Raw(d)) + 1
          /\ Cardinality(T \cup {t})
               = IF t \in T THEN Cardinality(T) ELSE Cardinality(T) + 1
      BY <2>3, FS_AddElement
    <3>4. Cardinality(Raw(d)) \in Nat /\ Cardinality(T) \in Nat
      BY <2>3, FS_CardinalityType
    <3>5. daily[d].ok \in Nat /\ daily[d].fail \in Nat /\ daily[d].out \in Nat
      BY DEF FoldInv, Typed, DayRow
    <3>6. daily[d].ok + daily[d].fail + daily[d].out + Cardinality(Raw(d)) = Cardinality(T)
      BY <2>1 DEF Counted
    <3> HIDE DEF T
    <3>7. daily[d].ok + daily[d].fail + daily[d].out + Cardinality(Raw(d) \cup {t})
            = Cardinality(T \cup {t})
      BY <2>4, <3>3, <3>4, <3>5, <3>6
    <3>. QED  BY <1>2, <3>1, <3>2, <3>7 DEF Counted
  <2>6. CASE t \notin In(d)
    <3>1. Raw(d)' = Raw(d)  BY <1>5, <2>2, <2>6 DEF Raw, Beat
    <3>2. {m \in In(d) : taken'[m] # None} = T  BY <1>5, <2>2, <2>6
    <3>. QED  BY <1>2, <2>1, <3>1, <3>2 DEF Counted
  <2>. QED  BY <2>5, <2>6
<1>11. ~torn' => \A p, q \in Runners :
                   run'[p].pc = "folding" /\ run'[q].pc = "folding" => p = q
  BY <1>2, <1>4, <1>6 DEF FoldInv
<1>. QED  BY <1>2, <1>7, <1>8, <1>9, <1>10, <1>11 DEF FoldInv

\* What a fold makes of a day: the batch's beats of that day go from the rows into the
\* summary, split as maintenance splits them now.
LEMMA FoldParts ==
  ASSUME FoldInv, NEW r \in Runners, PruneWrite(r), ~torn, NEW d \in Days
  PROVE  \E A, B, C \in SUBSET In(d) :
           /\ Raw(d) = A \cup B \cup C \cup Raw(d)'
           /\ A \cap B = {} /\ A \cap C = {} /\ B \cap C = {}
           /\ A \cap Raw(d)' = {} /\ B \cap Raw(d)' = {} /\ C \cap Raw(d)' = {}
           /\ \A m \in A : m \notin Excluded /\ beats[m] = "ok"
           /\ \A m \in B : m \notin Excluded /\ beats[m] = "fail"
           /\ \A m \in C : m \in Excluded
           /\ \A m \in Raw(d)' : beats'[m] = beats[m]
           /\ daily'[d].ok = daily[d].ok + Cardinality(A)
           /\ daily'[d].fail = daily[d].fail + Cardinality(B)
           /\ daily'[d].out = daily[d].out + Cardinality(C)
           /\ daily'[d].there <=> daily[d].there \/ A \cup B \cup C # {}
<1> DEFINE s == run[r]
           A == s.ok \cap In(d)
           B == s.fail \cap In(d)
           C == s.out \cap In(d)
<1>1. /\ s.pc = "folding"
      /\ daily' = [e \in Days |-> IF (s.ok \cup s.fail \cup s.out) \cap In(e) = {}
                                  THEN daily[e] ELSE Folded(r, e)]
      /\ beats' = [m \in Times |-> IF m <= s.at THEN None ELSE beats[m]]
  BY DEF PruneWrite
<1>2. [ok |-> s.ok, fail |-> s.fail, out |-> s.out] = Split(Old(s.at))
  BY <1>1 DEF FoldInv, Timely
<1>3. /\ s.ok = {m \in Old(s.at) \ Excluded : beats[m] = "ok"}
      /\ s.fail = {m \in Old(s.at) \ Excluded : beats[m] = "fail"}
      /\ s.out = Old(s.at) \cap Excluded
  BY <1>2 DEF Split
<1>4. In(d) \subseteq Times /\ \A m \in Times : Beat(m) => beats[m] \in {"ok", "fail"}
  BY DEF In, Beat, FoldInv, Typed, Statuses
<1>5. \A m \in Times : beats'[m] = IF m <= s.at THEN None ELSE beats[m]
  BY <1>1
<1>6. Raw(d)' = {m \in Raw(d) : ~(m <= s.at)}
  BY <1>4, <1>5 DEF Raw, Beat
<1>7. Raw(d) = A \cup B \cup C \cup Raw(d)'
  BY <1>3, <1>4, <1>6 DEF Raw, Old
<1>8. /\ A \cap B = {} /\ A \cap C = {} /\ B \cap C = {}
      /\ A \cap Raw(d)' = {} /\ B \cap Raw(d)' = {} /\ C \cap Raw(d)' = {}
  BY <1>3, <1>6 DEF Old
<1>9. /\ \A m \in A : m \notin Excluded /\ beats[m] = "ok"
      /\ \A m \in B : m \notin Excluded /\ beats[m] = "fail"
      /\ \A m \in C : m \in Excluded
      /\ \A m \in Raw(d)' : beats'[m] = beats[m]
  BY <1>3, <1>4, <1>5, <1>6 DEF Raw
<1>10. /\ daily'[d].ok = daily[d].ok + Cardinality(A)
       /\ daily'[d].fail = daily[d].fail + Cardinality(B)
       /\ daily'[d].out = daily[d].out + Cardinality(C)
       /\ daily'[d].there <=> daily[d].there \/ A \cup B \cup C # {}
  <2>1. CASE (s.ok \cup s.fail \cup s.out) \cap In(d) = {}
    <3>1. daily'[d] = daily[d] /\ A = {} /\ B = {} /\ C = {}  BY <1>1, <2>1
    <3>2. Cardinality(A) = 0 /\ Cardinality(B) = 0 /\ Cardinality(C) = 0
      BY <3>1, FS_EmptySet
    <3>3. daily[d].ok \in Nat /\ daily[d].fail \in Nat /\ daily[d].out \in Nat
      BY DEF FoldInv, Typed, DayRow
    <3>4. A \cup B \cup C = {}  BY <3>1
    <3> HIDE DEF A, B, C
    <3>. QED  BY <3>1, <3>2, <3>3, <3>4
  <2>2. CASE (s.ok \cup s.fail \cup s.out) \cap In(d) # {}
    <3>1. daily'[d] = Folded(r, d) /\ A \cup B \cup C # {}  BY <1>1, <2>2
    <3>. QED  BY <3>1 DEF Folded
  <2>. QED  BY <2>1, <2>2
<1>11. A \in SUBSET In(d) /\ B \in SUBSET In(d) /\ C \in SUBSET In(d)  OBVIOUS
<1> HIDE DEF A, B, C
<1>. QED  BY <1>7, <1>8, <1>9, <1>10, <1>11

LEMMA WriteKeeps == ASSUME FoldInv, NEW r \in Runners, PruneWrite(r) PROVE FoldInv'
<1>1. PICK s \in Runner : s = run[r] /\ s.pc = "folding" /\ s.at + Retention <= now
  BY DEF PruneWrite, FoldInv, Typed, Timely
<1>2. /\ daily' = [d \in Days |-> IF (s.ok \cup s.fail \cup s.out) \cap In(d) = {}
                                  THEN daily[d] ELSE Folded(r, d)]
      /\ beats' = [m \in Times |-> IF m <= s.at THEN None ELSE beats[m]]
      /\ Goto(r, Idle) /\ UNCHANGED <<now, epoch, windows, acts, taken, torn, rescored>>
  BY <1>1 DEF PruneWrite
<1>3. /\ run' \in [Runners -> Runner] /\ run'[r] = Idle
      /\ \A q \in Runners : q # r => run'[q] = run[q]
  BY <1>2, IdleRunner DEF Goto, FoldInv, Typed
<1>4. daily' \in [Days -> DayRow]
  <2>1. ASSUME NEW d \in Days PROVE Folded(r, d) \in DayRow
    <3>1. /\ Cardinality(s.ok \cap In(d)) \in Nat /\ Cardinality(s.fail \cap In(d)) \in Nat
          /\ Cardinality(s.out \cap In(d)) \in Nat
      BY PartIs
    <3>2. daily[d].ok \in Nat /\ daily[d].fail \in Nat /\ daily[d].out \in Nat
      BY DEF FoldInv, Typed, DayRow
    <3>. QED  BY <1>1, <3>1, <3>2, ExpectedIs DEF Folded, DayRow
  <2>. QED  BY <1>2, <2>1 DEF FoldInv, Typed
<1>5. beats' \in [Times -> Statuses \cup {None}]  BY <1>2 DEF FoldInv, Typed
<1>6. Typed'  BY <1>2, <1>3, <1>4, <1>5 DEF FoldInv, Typed
<1>7. \A m \in Times : beats'[m] = IF m <= s.at THEN None ELSE beats[m]  BY <1>2
<1>8. Recorded'
  <2> SUFFICES ASSUME NEW m \in Times
               PROVE  /\ Beat(m)' => beats'[m] = taken'[m]
                      /\ taken'[m] # None => Beat(m)' \/ m + Retention <= now'
    BY DEF Recorded
  <2>1. m \in Int /\ s.at \in Int /\ Retention \in Int /\ now \in Int
    BY TimesAre, UptimeAssumption DEF Runner, FoldInv, Typed
  <2>2. m <= s.at => m + Retention <= now  BY <1>1, <2>1
  <2>. QED  BY <1>2, <1>7, <2>2 DEF FoldInv, Recorded, Beat
<1>10. ASSUME NEW q \in Runners PROVE Timely(run[q])'
  <2>1. CASE q = r  BY <1>3, <2>1, IdleRunner DEF Timely
  <2>2. CASE q # r
    <3>1. run'[q] = run[q] /\ Timely(run[q])  BY <1>3, <2>2 DEF FoldInv
    <3>2. run[q].pc = "folding" => torn  BY <1>1, <2>2 DEF FoldInv
    <3>. QED  BY <1>2, <3>1, <3>2 DEF Timely
  <2>. QED  BY <2>1, <2>2
<1>11. ASSUME ~torn, NEW d \in Days PROVE Counted(d)'
  <2>1. PICK A, B, C \in SUBSET In(d) :
          /\ Raw(d) = A \cup B \cup C \cup Raw(d)'
          /\ A \cap B = {} /\ A \cap C = {} /\ B \cap C = {}
          /\ A \cap Raw(d)' = {} /\ B \cap Raw(d)' = {} /\ C \cap Raw(d)' = {}
          /\ daily'[d].ok = daily[d].ok + Cardinality(A)
          /\ daily'[d].fail = daily[d].fail + Cardinality(B)
          /\ daily'[d].out = daily[d].out + Cardinality(C)
    BY <1>11, FoldParts
  <2> DEFINE D == Raw(d)'
  <2>2. D \subseteq In(d)  BY DEF Raw
  <2>3. Cardinality(Raw(d)) = Cardinality(A) + Cardinality(B) + Cardinality(C) + Cardinality(D)
    BY <2>1, <2>2, FourParts
  <2>4. /\ Cardinality(A) \in Nat /\ Cardinality(B) \in Nat /\ Cardinality(C) \in Nat
        /\ Cardinality(D) \in Nat
    BY <2>2, PartIs
  <2>5. daily[d].ok \in Nat /\ daily[d].fail \in Nat /\ daily[d].out \in Nat
    BY DEF FoldInv, Typed, DayRow
  <2>6. daily[d].ok + daily[d].fail + daily[d].out + Cardinality(Raw(d))
          = Cardinality({m \in In(d) : taken[m] # None})
    BY <1>11 DEF FoldInv, Counted
  <2>7. daily'[d].ok + daily'[d].fail + daily'[d].out + Cardinality(D)
          = daily[d].ok + daily[d].fail + daily[d].out + Cardinality(Raw(d))
    BY <2>1, <2>3, <2>4, <2>5
  <2>. QED  BY <1>2, <2>6, <2>7 DEF Counted
<1>12. ~torn' => \A p, q \in Runners :
                   run'[p].pc = "folding" /\ run'[q].pc = "folding" => p = q
  BY <1>2, <1>3, IdleRunner DEF FoldInv
<1>. QED  BY <1>2, <1>6, <1>8, <1>10, <1>11, <1>12 DEF FoldInv

LEMMA ActsKeep == ASSUME FoldInv, StaffStep PROVE FoldInv'
<1>1. /\ daily \in [Days -> DayRow] /\ windows \subseteq Window
      /\ now \in Nat /\ now \in Times /\ epoch \in Times \cup {None}
  BY TimesAre DEF FoldInv, Typed
<1>2. ASSUME NEW new, new \subseteq Window, ChangeWindows(new) PROVE FoldInv'
  <2>1. Act /\ windows' = new /\ UNCHANGED <<daily, epoch>> /\ rescored' \in BOOLEAN
    BY <1>2 DEF ChangeWindows, FoldInv, Typed
  <2>. QED  BY <1>1, <1>2, <2>1, StaffKeeps
<1>3. CASE \E w \in Plans : OpenWindow(w)
  <2>1. PICK w \in Plans : ChangeWindows(windows \cup {w})  BY <1>3 DEF OpenWindow
  <2>. QED  BY <1>1, <1>2, <2>1, UptimeAssumption DEF Window
<1>4. CASE \E w \in windows : DeleteWindow(w)
  BY <1>1, <1>2, <1>4 DEF DeleteWindow
<1>5. CASE \E w \in windows, v \in Plans : EditWindow(w, v)
  <2>1. PICK w \in windows, v \in Plans : ChangeWindows((windows \ {w}) \cup {v})
    BY <1>5 DEF EditWindow
  <2>. QED  BY <1>1, <1>2, <2>1, UptimeAssumption DEF Window
<1>6. CASE CloseWindows
  <2> DEFINE active == {w \in windows : w.from <= now /\ now < w.to}
             new == (windows \ active) \cup {[w EXCEPT !.to = now] : w \in active}
  <2>1. ChangeWindows(new)  BY <1>6 DEF CloseWindows
  <2>2. \A w \in active : [w EXCEPT !.to = now] \in Window  BY <1>1 DEF Window
  <2>3. new \subseteq Window  BY <1>1, <2>2
  <2> HIDE DEF new
  <2>. QED  BY <1>2, <2>1, <2>3
<1>7. CASE Reprorate
  <2>1. /\ Act /\ UNCHANGED <<epoch, windows, rescored>>
        /\ daily' = [d \in Days |-> IF daily[d].there
                                    THEN [daily[d] EXCEPT !.expected = Expected(d)]
                                    ELSE daily[d]]
    BY <1>7 DEF Reprorate
  <2>2. \A d \in Days : /\ daily'[d] \in DayRow /\ daily'[d].ok = daily[d].ok
                        /\ daily'[d].fail = daily[d].fail /\ daily'[d].out = daily[d].out
    BY <1>1, <2>1, ExpectedIs DEF DayRow
  <2>3. daily' \in [Days -> DayRow]  BY <2>1, <2>2
  <2>4. rescored' \in BOOLEAN  BY <2>1 DEF FoldInv, Typed
  <2>. QED  BY <1>1, <2>1, <2>2, <2>3, <2>4, StaffKeeps
<1>8. CASE \E t \in 0..now : ResetEpoch(t)
  <2>1. PICK t \in Times : ResetEpoch(t)  BY <1>1, <1>8, TimesAre
  <2>2. /\ Act /\ epoch' = t /\ UNCHANGED <<daily, windows>> /\ rescored' \in BOOLEAN
    BY <2>1 DEF ResetEpoch, FoldInv, Typed
  <2>. QED  BY <1>1, <2>1, <2>2, StaffKeeps
<1>. QED  BY <1>3, <1>4, <1>5, <1>6, <1>7, <1>8 DEF StaffStep

LEMMA StutterKeeps == ASSUME FoldInv, UNCHANGED vars PROVE FoldInv'
<1>1. /\ UNCHANGED <<now, beats, daily, epoch, windows, run, acts, taken, torn, rescored>>
  BY DEF vars
<1>2. Typed'  BY <1>1 DEF FoldInv, Typed
<1>3. Recorded'
  BY <1>1 DEF FoldInv, Recorded, Beat
<1>4. \A r \in Runners : Timely(run[r])'  BY <1>1, BatchStays DEF FoldInv, Timely
<1>5. ~torn' => \A d \in Days : Counted(d)'  BY <1>1 DEF FoldInv, Counted, Raw, Beat
<1>. QED  BY <1>1, <1>2, <1>3, <1>4, <1>5 DEF FoldInv
-----------------------------------------------------------------------------
LEMMA InitFold == Init => FoldInv
<1> SUFFICES ASSUME Init PROVE FoldInv  OBVIOUS
<1>1. 0 \in 0..MaxActs /\ 0 \in 0..DayLength /\ NoRow \in DayRow
      /\ NoRow.ok = 0 /\ NoRow.fail = 0 /\ NoRow.out = 0
  BY UptimeAssumption DEF NoRow, DayRow
<1>2. Typed  BY <1>1, IdleRunner DEF Init, Typed
<1>3. \A m \in Times : beats[m] = None /\ taken[m] = None  BY DEF Init
<1>4. Recorded /\ \A m \in Times : ~Beat(m)  BY <1>3 DEF Recorded, Beat
<1>5. \A r \in Runners : run[r].pc = "idle" /\ Timely(run[r])
  BY IdleRunner DEF Init, Timely
<1>6. ASSUME NEW d \in Days PROVE Counted(d)
  <2>1. Raw(d) = {} /\ {m \in In(d) : taken[m] # None} = {}
    BY <1>3, <1>4 DEF Raw, In
  <2>2. daily[d] = NoRow  BY <1>6 DEF Init
  <2>. QED  BY <1>1, <2>1, <2>2, FS_EmptySet DEF Counted
<1>. QED  BY <1>2, <1>4, <1>5, <1>6 DEF FoldInv

LEMMA NextFold == FoldInv /\ [Next]_vars => FoldInv'
<1> SUFFICES ASSUME FoldInv, [Next]_vars PROVE FoldInv'  OBVIOUS
<1>1. CASE \E r \in Runners : RunnerStep(r)
  BY <1>1, StartKeeps, RecordKeeps, EnsureKeeps, ReadKeeps, WriteKeeps, DieKeeps DEF RunnerStep, Statuses
<1>. QED  BY <1>1, TickKeeps, ActsKeep, StutterKeeps DEF Next

LEMMA FoldHolds == Spec => []FoldInv
BY InitFold, NextFold, PTL DEF Spec

\* However runners, their deaths and the folding interleave, every beat ever recorded is
\* counted once, as a row or in its day's summary, unless a fold ran beside another one
\* or beside a change by staff: for any runners, retention and length of a check.
THEOREM CountsHold == Spec => []BeatsCountedOnce
<1>1. FoldInv => BeatsCountedOnce
  <2> SUFFICES ASSUME FoldInv PROVE BeatsCountedOnce  OBVIOUS
  <2>1. TypeOK
    BY DEF FoldInv, Typed, TypeOK, Runner, Statuses, DayRow, Window
  <2>. QED  BY <2>1 DEF FoldInv, Counted, BeatsCountedOnce
<1>. QED  BY <1>1, FoldHolds, PTL
-----------------------------------------------------------------------------
(* What a completed day shows *)

LEMMA SameUptime ==
  ASSUME UNCHANGED <<now, windows, epoch, beats>>, NEW d \in Days,
         daily'[d].ok = daily[d].ok, daily'[d].fail = daily[d].fail,
         daily'[d].there = daily[d].there
  PROVE  DayUptime(d)' = DayUptime(d)
<1>1. Excluded' = Excluded /\ Raw(d)' = Raw(d)  BY DEF Excluded, Raw, Beat
<1>2. Expected(d)' = Expected(d)  BY <1>1 DEF Expected
<1>. QED  BY <1>1, <1>2 DEF DayUptime

\* Neither term of a day's percentage is moved by a fold.
LEMMA FoldedUptime ==
  ASSUME FoldInv, ~torn, NEW r \in Runners, PruneWrite(r), NEW d \in Days
  PROVE  DayUptime(d)' = DayUptime(d)
<1>1. PICK A, B, C \in SUBSET In(d) :
        /\ Raw(d) = A \cup B \cup C \cup Raw(d)'
        /\ A \cap B = {} /\ A \cap C = {} /\ B \cap C = {}
        /\ A \cap Raw(d)' = {} /\ B \cap Raw(d)' = {} /\ C \cap Raw(d)' = {}
        /\ \A m \in A : m \notin Excluded /\ beats[m] = "ok"
        /\ \A m \in B : m \notin Excluded /\ beats[m] = "fail"
        /\ \A m \in C : m \in Excluded
        /\ \A m \in Raw(d)' : beats'[m] = beats[m]
        /\ daily'[d].ok = daily[d].ok + Cardinality(A)
        /\ daily'[d].fail = daily[d].fail + Cardinality(B)
        /\ daily'[d].out = daily[d].out + Cardinality(C)
        /\ daily'[d].there <=> daily[d].there \/ A \cup B \cup C # {}
  BY FoldParts
<1>2. UNCHANGED <<now, epoch, windows>>  BY DEF PruneWrite
<1>3. Excluded' = Excluded  BY <1>2 DEF Excluded
<1>4. Expected(d)' = Expected(d)  BY <1>2, <1>3 DEF Expected
<1> DEFINE D == Raw(d)' \ Excluded
           E == {m \in D : beats'[m] = "ok"}
<1>5. D \subseteq In(d) /\ E \subseteq In(d)  BY DEF Raw
<1>6. Raw(d) \ Excluded = A \cup B \cup D  BY <1>1
<1>7. {m \in Raw(d) \ Excluded : beats[m] = "ok"} = A \cup E  BY <1>1, <1>6
<1>8. /\ IsFiniteSet(A) /\ IsFiniteSet(B) /\ IsFiniteSet(D) /\ IsFiniteSet(E)
      /\ Cardinality(A) \in Nat /\ Cardinality(B) \in Nat
      /\ Cardinality(D) \in Nat /\ Cardinality(E) \in Nat
  BY <1>5, PartIs
<1>9. A \cap E = {} /\ A \cap D = {} /\ B \cap D = {}  BY <1>1
<1>10. daily[d].ok \in Nat /\ daily[d].fail \in Nat  BY DEF FoldInv, Typed, DayRow
<1>11. Cardinality(A \cup E) = Cardinality(A) + Cardinality(E)
  BY <1>8, <1>9, TwoParts
<1>12. Cardinality(A \cup B \cup D) = Cardinality(A) + Cardinality(B) + Cardinality(D)
  <2>1. IsFiniteSet(A \cup B) /\ (A \cup B) \cap D = {}  BY <1>1, <1>9, PartIs
  <2>2. Cardinality(A \cup B) = Cardinality(A) + Cardinality(B)  BY <1>1, <1>8, TwoParts
  <2>3. Cardinality(A \cup B \cup D) = Cardinality(A \cup B) + Cardinality(D)
    BY <1>8, <2>1, TwoParts
  <2>. QED  BY <2>2, <2>3
<1>13. daily'[d].there \/ Raw(d)' # {} <=> daily[d].there \/ Raw(d) # {}  BY <1>1
<1>14. daily'[d].ok + Cardinality(E)
         = daily[d].ok + Cardinality({m \in Raw(d) \ Excluded : beats[m] = "ok"})
  <2>1. Cardinality({m \in Raw(d) \ Excluded : beats[m] = "ok"})
          = Cardinality(A) + Cardinality(E)
    BY <1>7, <1>11
  <2>2. daily'[d].ok = daily[d].ok + Cardinality(A)  BY <1>1
  <2> HIDE DEF E
  <2>. QED  BY <1>8, <1>10, <2>1, <2>2
<1>15. daily'[d].ok + daily'[d].fail + Cardinality(D)
         = daily[d].ok + daily[d].fail + Cardinality(Raw(d) \ Excluded)
  <2>1. Cardinality(Raw(d) \ Excluded)
          = Cardinality(A) + Cardinality(B) + Cardinality(D)
    BY <1>6, <1>12
  <2>2. /\ daily'[d].ok = daily[d].ok + Cardinality(A)
        /\ daily'[d].fail = daily[d].fail + Cardinality(B)
    BY <1>1
  <2> HIDE DEF D
  <2>. QED  BY <1>8, <1>10, <2>1, <2>2
<1>. QED  BY <1>3, <1>4, <1>13, <1>14, <1>15 DEF DayUptime

\* Nothing but a beat that comes in or an act of staff moves the uptime of a day on the
\* status page, the folding of its beats into the summary least of all: for any split
\* between rows and summary, any maintenance and any epoch.
THEOREM UptimeStays == Spec => FoldKeepsUptime
<1> DEFINE Keeps == ~torn' /\ UNCHANGED <<now, windows, epoch, taken>>
                      => \A d \in Days : d < Day(now) => DayUptime(d)' = DayUptime(d)
<1>1. ASSUME FoldInv, [Next]_vars PROVE [Keeps]_vars
  <2> SUFFICES ASSUME ~torn', UNCHANGED <<now, windows, epoch, taken>>, NEW d \in Days
               PROVE  DayUptime(d)' = DayUptime(d)
    OBVIOUS
  <2>1. CASE \E r \in Runners : PruneWrite(r)
    <3>1. PICK r \in Runners : PruneWrite(r)  BY <2>1
    <3>2. ~torn  BY <3>1 DEF PruneWrite
    <3>. QED  BY <1>1, <3>1, <3>2, FoldedUptime
  <2>2. CASE \E r \in Runners, status \in Statuses : Record(r, status)
    <3>1. PICK r \in Runners, status \in Statuses : Record(r, status)  BY <2>2
    <3>2. PICK t \in Times : t = run[r].at /\ ~(t + Retention <= now)
      BY <1>1, <3>1, CheckIsYoung DEF Record
    <3>3. /\ beats' = [beats EXCEPT ![t] = status] /\ taken' = [taken EXCEPT ![t] = status]
          /\ UNCHANGED daily
      BY <3>1, <3>2 DEF Record
    <3>4. taken[t] = status /\ status # None
      BY <1>1, <3>3, UptimeAssumption DEF FoldInv, Typed, Statuses
    <3>5. beats[t] = status  BY <1>1, <3>2, <3>4 DEF FoldInv, Recorded, Beat
    <3>6. beats' = beats  BY <1>1, <3>3, <3>5 DEF FoldInv, Typed
    <3>. QED  BY <3>3, <3>6, SameUptime
  <2>3. CASE Reprorate
    <3>1. /\ UNCHANGED beats
          /\ daily' = [e \in Days |-> IF daily[e].there
                                      THEN [daily[e] EXCEPT !.expected = Expected(e)]
                                      ELSE daily[e]]
      BY <2>3 DEF Reprorate, Act
    <3>2. /\ daily'[d].ok = daily[d].ok /\ daily'[d].fail = daily[d].fail
          /\ daily'[d].there = daily[d].there
      BY <1>1, <3>1 DEF FoldInv, Typed, DayRow
    <3>. QED  BY <3>1, <3>2, SameUptime
  <2>4. CASE UNCHANGED <<beats, daily>>  BY <2>4, SameUptime
  <2>5. CASE Tick \/ UNCHANGED vars  BY <2>4, <2>5 DEF Tick, vars
  <2>6. CASE StaffStep
    BY <2>3, <2>4, <2>6
    DEF StaffStep, OpenWindow, EditWindow, DeleteWindow, CloseWindows, ChangeWindows,
        ResetEpoch, Act
  <2>7. CASE \E r \in Runners : RunnerStep(r)
    BY <2>1, <2>2, <2>4, <2>7 DEF RunnerStep, StartCheck, EnsureEpoch, PruneRead, Die, Statuses
  <2>. QED  BY <1>1, <2>5, <2>6, <2>7 DEF Next
<1>. QED  BY <1>1, FoldHolds, PTL DEF Spec, FoldKeepsUptime
-----------------------------------------------------------------------------
(* What the days add up to *)

\* The parts of a sum of sizes, and what adds them up.
Parts(S, F, A) == /\ \A x \in S : IsFiniteSet(A[x]) /\ F[x] = Cardinality(A[x])
                  /\ \A x, y \in S : x # y => A[x] \cap A[y] = {}
Adds(h, S, F) == /\ h[{}] = 0
                 /\ \A s \in SUBSET S : s # {} => \E x \in s : h[s] = F[x] + h[s \ {x}]

\* The sum that MapThenSumSet computes, of a function's values.
Total(S, F) ==
  (CHOOSE h : h = [s \in SUBSET S |->
                     IF s = {} THEN 0
                     ELSE F[CHOOSE x \in s : TRUE] + h[s \ {CHOOSE x \in s : TRUE}]])[S]

\* Whatever takes the elements of a finite set one by one, in any order, and adds up the
\* sizes of disjoint finite sets has the size of their union.
LEMMA SumOfParts ==
  ASSUME NEW S, IsFiniteSet(S), NEW F, NEW A, Parts(S, F, A), NEW h, Adds(h, S, F)
  PROVE  /\ IsFiniteSet(UNION {A[x] : x \in S})
         /\ h[S] = Cardinality(UNION {A[x] : x \in S})
<1> DEFINE All(s) == UNION {A[x] : x \in s}
           Good(s) == IsFiniteSet(All(s)) /\ h[s] = Cardinality(All(s))
           Bad == {n \in Nat : \E s \in SUBSET S : Cardinality(s) = n /\ ~Good(s)}
<1>1. \A s \in SUBSET S : IsFiniteSet(s) /\ Cardinality(s) \in Nat
  BY FS_Subset, FS_CardinalityType
<1>2. Good({})
  <2>1. All({}) = {}  OBVIOUS
  <2>. QED  BY <2>1, FS_EmptySet DEF Adds
<1>3. Bad = {}
  <2> SUFFICES ASSUME Bad # {} PROVE FALSE  OBVIOUS
  <2>1. PICK n \in Bad : \A k \in Bad : n <= k
    <3>1. Bad \in SUBSET Nat  OBVIOUS
    <3> HIDE DEF Bad
    <3>. QED  BY <3>1, Least
  <2>2. PICK s \in SUBSET S : Cardinality(s) = n /\ ~Good(s)  OBVIOUS
  <2>3. s # {}  BY <1>2, <2>2
  <2>4. PICK x \in s : h[s] = F[x] + h[s \ {x}]  BY <2>3 DEF Adds
  <2> DEFINE t == s \ {x}
  <2>5. t \in SUBSET S /\ x \in S /\ x \notin t /\ s = t \cup {x}  BY <2>4
  <2>6. IsFiniteSet(t) /\ Cardinality(t) \in Nat /\ Cardinality(s) = Cardinality(t) + 1
    BY <1>1, <2>5, FS_AddElement
  <2> HIDE DEF Good
  <2>7. Good(t)
    <3> DEFINE k == Cardinality(t)
    <3>1. k \in Nat /\ n = k + 1  BY <2>2, <2>6
    <3> HIDE DEF k
    <3>2. ~(n <= k)  BY <3>1
    <3> HIDE DEF Bad
    <3>3. k \notin Bad  BY <2>1, <3>2
    <3> USE DEF Bad, k
    <3>. QED  BY <2>5, <3>1, <3>3, Zenon
  <2>8. h[s] = Cardinality(A[x]) + Cardinality(All(t)) /\ IsFiniteSet(All(t)) /\ IsFiniteSet(A[x])
    BY <2>4, <2>5, <2>7 DEF Good, Parts
  <2>9. All(s) = A[x] \cup All(t)  BY <2>5
  <2>10. A[x] \cap All(t) = {}  BY <2>5 DEF Parts
  <2> HIDE DEF All
  <2>11. IsFiniteSet(A[x] \cup All(t))
         /\ Cardinality(A[x] \cup All(t)) = Cardinality(A[x]) + Cardinality(All(t))
    BY <2>8, <2>10, TwoParts, FS_Union, Zenon
  <2>12. Cardinality(All(s)) = h[s] /\ IsFiniteSet(All(s))
    BY <2>8, <2>9, <2>11, Zenon
  <2>. QED  BY <2>2, <2>12 DEF Good
<1>4. Good(S)  BY <1>1, <1>3
<1>. QED  BY <1>4

\* So the total of the sizes of disjoint sets is the size of their union.
LEMMA TotalIs ==
  ASSUME NEW S, IsFiniteSet(S), NEW F, NEW A, Parts(S, F, A)
  PROVE  /\ IsFiniteSet(UNION {A[x] : x \in S})
         /\ Total(S, F) = Cardinality(UNION {A[x] : x \in S})
<1> DEFINE Sums(h) == h = [s \in SUBSET S |->
                            IF s = {} THEN 0
                            ELSE F[CHOOSE x \in s : TRUE] + h[s \ {CHOOSE x \in s : TRUE}]]
           All(s) == UNION {A[x] : x \in s}
           g == [s \in SUBSET S |-> Cardinality(All(s))]
<1>1. \A s \in SUBSET S : IsFiniteSet(All(s))
  <2> SUFFICES ASSUME NEW s \in SUBSET S PROVE IsFiniteSet(All(s))  OBVIOUS
  <2>1. IsFiniteSet(s)  BY FS_Subset
  <2> DEFINE f == [x \in s |-> A[x]]
  <2>2. f \in Surjection(s, {A[x] : x \in s})  BY DEF Surjection
  <2>3. IsFiniteSet({A[x] : x \in s})  BY <2>1, <2>2, FS_Surjection
  <2>. QED  BY <2>3, FS_UNION DEF Parts
<1>2. Sums(g)
  <2> SUFFICES ASSUME NEW s \in SUBSET S
               PROVE  g[s] = IF s = {} THEN 0
                             ELSE F[CHOOSE x \in s : TRUE] + g[s \ {CHOOSE x \in s : TRUE}]
    OBVIOUS
  <2>1. CASE s = {}
    <3>1. All(s) = {}  BY <2>1
    <3>. QED  BY <2>1, <3>1, FS_EmptySet
  <2>2. CASE s # {}
    <3> DEFINE x == CHOOSE x \in s : TRUE
               t == s \ {x}
    <3>1. x \in s /\ x \in S /\ t \in SUBSET S  BY <2>2
    <3> HIDE DEF x
    <3>2. All(s) = A[x] \cup All(t) /\ A[x] \cap All(t) = {}  BY <3>1 DEF Parts
    <3>3. IsFiniteSet(A[x]) /\ F[x] = Cardinality(A[x]) /\ IsFiniteSet(All(t))
      BY <1>1, <3>1 DEF Parts
    <3> HIDE DEF All
    <3>4. Cardinality(A[x] \cup All(t)) = Cardinality(A[x]) + Cardinality(All(t))
      BY <3>2, <3>3, TwoParts, Zenon
    <3>5. Cardinality(All(s)) = F[x] + Cardinality(All(t))  BY <3>2, <3>3, <3>4, Zenon
    <3>6. g[s] = F[x] + g[t]  BY <3>1, <3>5
    <3>. QED  BY <2>2, <3>6 DEF x
  <2>. QED  BY <2>1, <2>2
<1> HIDE DEF g
<1>3. Sums(CHOOSE h : Sums(h))
  <2>1. \E h : Sums(h)  BY <1>2
  <2> HIDE DEF Sums
  <2>. QED  BY <2>1, Zenon
<1>4. PICK h : h = (CHOOSE k : Sums(k)) /\ Sums(h)  BY <1>3, Zenon
<1>5. h[{}] = 0  BY <1>4
<1>6. \A s \in SUBSET S : s # {} => \E x \in s : h[s] = F[x] + h[s \ {x}]
  <2> SUFFICES ASSUME NEW s \in SUBSET S, s # {} PROVE \E x \in s : h[s] = F[x] + h[s \ {x}]
    OBVIOUS
  <2> DEFINE x == CHOOSE x \in s : TRUE
  <2>1. x \in s  OBVIOUS
  <2>2. h[s] = F[x] + h[s \ {x}]  BY <1>4
  <2> HIDE DEF x
  <2>. QED  BY <2>1, <2>2
<1> HIDE DEF Sums
<1>7. IsFiniteSet(UNION {A[x] : x \in S}) /\ h[S] = Cardinality(UNION {A[x] : x \in S})
  <2>1. Adds(h, S, F)  BY <1>5, <1>6 DEF Adds
  <2>. QED  BY <2>1, SumOfParts
<1>. QED  BY <1>4, <1>7, Zenon DEF Sums, Total
-----------------------------------------------------------------------------
(* What a summary says of its day *)

\* The good minutes of a day that have been folded, and the minutes it owes.
Scored(d) == {m \in In(d) \ Excluded : taken[m] = "ok" /\ ~Beat(m)}
Owed(d) == {m \in In(d) \ Excluded : epoch = None \/ m >= epoch}

\* A day with a summary is over; and until staff change what it is measured by, the
\* summary is what a count over its minutes gives.
Rated(d) ==
  /\ daily[d].there => /\ \A m \in In(d) : m < now
                       /\ \E m \in In(d) : taken[m] # None /\ ~Beat(m)
  /\ ~daily[d].there => daily[d].ok = 0 /\ \A m \in In(d) : taken[m] # None => Beat(m)
  /\ ~rescored => /\ daily[d].ok = Cardinality(Scored(d))
                  /\ daily[d].there => daily[d].expected = Cardinality(Owed(d))
ScoreInv == ~torn => \A d \in Days : Rated(d)

\* A day on which nothing happens is rated as before, whatever the time is now.
LEMMA RatedStays ==
  ASSUME FoldInv, FoldInv', NEW d \in Days, Rated(d), now <= now', daily'[d] = daily[d],
         UNCHANGED <<epoch, windows, rescored>>,
         \A m \in In(d) : /\ Beat(m)' <=> Beat(m)
                          /\ taken'[m] # taken[m] => Beat(m)
  PROVE  Rated(d)'
<1>1. now \in Int /\ now' \in Int /\ \A m \in In(d) : m \in Int
  BY TimesAre DEF FoldInv, Typed, In
<1>2. \A m \in In(d) : m < now => m < now'  BY <1>1
<1>3. In(d)' = In(d) /\ Excluded' = Excluded  BY DEF In, Excluded
<1>4. Scored(d)' = Scored(d)  BY <1>3 DEF Scored
<1>5. daily[d].there => Owed(d)' = Owed(d)  BY <1>3 DEF Owed
<1>6. \A m \in In(d) : taken'[m] # None => taken[m] # None \/ Beat(m)'
  OBVIOUS
<1>. QED  BY <1>2, <1>3, <1>4, <1>5, <1>6 DEF Rated

LEMMA RestScores ==
  ASSUME FoldInv, FoldInv', ScoreInv, now <= now', torn => torn',
         UNCHANGED <<beats, daily, epoch, windows, taken, rescored>>
  PROVE  ScoreInv'
<1> SUFFICES ASSUME ~torn', NEW d \in Days PROVE Rated(d)'  BY DEF ScoreInv
<1>1. Rated(d)  BY DEF ScoreInv
<1>2. \A m \in In(d) : Beat(m)' <=> Beat(m)  BY DEF Beat
<1>. QED  BY <1>1, <1>2, RatedStays

\* What a runner records is too young to have been folded, and so in no summary yet.
LEMMA RecordScores ==
  ASSUME FoldInv, FoldInv', ScoreInv, NEW r \in Runners, NEW status \in Statuses,
         Record(r, status)
  PROVE  ScoreInv'
<1> SUFFICES ASSUME ~torn', NEW d \in Days PROVE Rated(d)'  BY DEF ScoreInv
<1>1. PICK t \in Times : t = run[r].at /\ ~(t + Retention <= now)
  BY CheckIsYoung DEF Record
<1>2. /\ beats' = [beats EXCEPT ![t] = status] /\ taken' = [taken EXCEPT ![t] = status]
      /\ UNCHANGED <<now, daily, epoch, windows, torn, rescored>>
  BY <1>1 DEF Record
<1>3. Rated(d)  BY <1>2 DEF ScoreInv
<1>4. taken[t] # None => Beat(t)  BY <1>1 DEF FoldInv, Recorded
<1>5. \A m \in Times : m # t => beats'[m] = beats[m] /\ taken'[m] = taken[m]
  BY <1>2 DEF FoldInv, Typed
<1>6. beats'[t] = status /\ taken'[t] = status /\ status # None
  BY <1>2, UptimeAssumption DEF FoldInv, Typed, Statuses
<1>7. In(d) \subseteq Times /\ In(d)' = In(d) /\ Excluded' = Excluded
  BY <1>2 DEF In, Excluded
<1>8. Scored(d)' = Scored(d)
  <2>1. \A m \in In(d) : m # t => (Beat(m)' <=> Beat(m)) /\ taken'[m] = taken[m]
    BY <1>5, <1>7 DEF Beat
  <2>2. Beat(t)' /\ (taken[t] = "ok" => Beat(t))
    <3>1. taken[t] = "ok" => taken[t] # None  BY UptimeAssumption
    <3>. QED  BY <1>4, <1>6, <3>1 DEF Beat
  <2>3. \A m \in In(d) : (taken'[m] = "ok" /\ ~Beat(m)') <=> (taken[m] = "ok" /\ ~Beat(m))
    BY <2>1, <2>2
  <2> HIDE DEF Beat
  <2>. QED  BY <1>7, <2>3 DEF Scored
<1>9. \A m \in In(d) : taken[m] # None /\ ~Beat(m) => taken'[m] # None /\ ~Beat(m)'
  BY <1>4, <1>5, <1>7 DEF Beat
<1>10. Owed(d)' = Owed(d)  BY <1>2, <1>7 DEF Owed
<1>11. \A m \in In(d) : (taken[m] # None => Beat(m)) => (taken'[m] # None => Beat(m)')
  BY <1>5, <1>6, <1>7 DEF Beat
<1>. QED  BY <1>2, <1>3, <1>7, <1>8, <1>9, <1>10, <1>11 DEF Rated

\* A fold moves the good minutes of its batch, and a day it writes of is over: a beat of
\* the retention's age has all the minutes of its day behind it.
LEMMA FoldScores ==
  ASSUME FoldInv, FoldInv', ScoreInv, NEW r \in Runners, PruneWrite(r)
  PROVE  ScoreInv'
<1> SUFFICES ASSUME ~torn', NEW d \in Days PROVE Rated(d)'  BY DEF ScoreInv
<1>1. /\ UNCHANGED <<now, epoch, windows, taken, torn, rescored>> /\ run[r].pc = "folding"
      /\ daily' = [e \in Days |-> IF (run[r].ok \cup run[r].fail \cup run[r].out) \cap In(e) = {}
                                  THEN daily[e] ELSE Folded(r, e)]
      /\ beats' = [m \in Times |-> IF m <= run[r].at THEN None ELSE beats[m]]
  BY DEF PruneWrite
<1>2. ~torn /\ Rated(d)  BY <1>1 DEF ScoreInv
<1>3. PICK A, B, C \in SUBSET In(d) :
        /\ Raw(d) = A \cup B \cup C \cup Raw(d)'
        /\ A \cap B = {} /\ A \cap C = {} /\ B \cap C = {}
        /\ A \cap Raw(d)' = {} /\ B \cap Raw(d)' = {} /\ C \cap Raw(d)' = {}
        /\ \A m \in A : m \notin Excluded /\ beats[m] = "ok"
        /\ \A m \in B : m \notin Excluded /\ beats[m] = "fail"
        /\ \A m \in C : m \in Excluded
        /\ \A m \in Raw(d)' : beats'[m] = beats[m]
        /\ daily'[d].ok = daily[d].ok + Cardinality(A)
        /\ daily'[d].fail = daily[d].fail + Cardinality(B)
        /\ daily'[d].out = daily[d].out + Cardinality(C)
        /\ daily'[d].there <=> daily[d].there \/ A \cup B \cup C # {}
  BY <1>2, FoldParts
<1>4. In(d) \subseteq Times /\ In(d)' = In(d) /\ Excluded' = Excluded
  BY <1>1 DEF In, Excluded
<1>5. \A m \in In(d) : (Beat(m) <=> m \in Raw(d)) /\ (Beat(m)' <=> m \in Raw(d)')
  BY DEF Raw, In
<1>6. \A m \in In(d) : Beat(m) => beats[m] = taken[m]
  BY <1>4 DEF FoldInv, Recorded
<1>7. Scored(d)' = Scored(d) \cup A /\ Scored(d) \cap A = {}
  <2>1. \A m \in In(d) : m \in Scored(d) <=> m \notin Excluded /\ taken[m] = "ok" /\ m \notin Raw(d)
    BY <1>5 DEF Scored
  <2>2. \A m \in In(d) : m \in Scored(d)' <=>
                      m \notin Excluded /\ taken[m] = "ok" /\ m \notin Raw(d)'
    BY <1>1, <1>4, <1>5 DEF Scored
  <2>3. \A m \in In(d) : m \in Raw(d) => taken[m] = beats[m]  BY <1>5, <1>6
  <2>4. Scored(d) \subseteq In(d) /\ Scored(d)' \subseteq In(d)  BY <1>4 DEF Scored
  <2>. QED  BY <1>3, <2>1, <2>2, <2>3, <2>4
<1>8. /\ IsFiniteSet(A) /\ IsFiniteSet(Scored(d)) /\ Cardinality(A) \in Nat
      /\ Cardinality(Scored(d)) \in Nat
  <2>1. Scored(d) \subseteq In(d)  BY DEF Scored
  <2>. QED  BY <2>1, PartIs
<1>9. ~rescored => daily'[d].ok = Cardinality(Scored(d)')
  <2>1. Cardinality(Scored(d) \cup A) = Cardinality(Scored(d)) + Cardinality(A)
    BY <1>7, <1>8, TwoParts
  <2>. QED  BY <1>2, <1>3, <1>7, <1>8, <2>1 DEF Rated
<1>10. CASE A \cup B \cup C = {}
  <2>1. A = {} /\ Raw(d)' = Raw(d)  BY <1>3, <1>10
  <2>2. daily'[d] = daily[d]
    <3>1. /\ (run[r].ok \cup run[r].fail \cup run[r].out) \cap In(d) = {}
             => daily'[d] = daily[d]
      BY <1>1
    <3>2. [ok |-> run[r].ok, fail |-> run[r].fail, out |-> run[r].out] = Split(Old(run[r].at))
      BY <1>1, <1>2 DEF FoldInv, Timely
    <3>3. run[r].ok \cup run[r].fail \cup run[r].out \subseteq Old(run[r].at)
      BY <3>2 DEF Split
    <3>4. \A m \in Old(run[r].at) : m \in Times /\ Beat(m) /\ ~Beat(m)'
      BY <1>1 DEF Old, Beat
    <3>5. Old(run[r].at) \cap In(d) = {}  BY <1>5, <2>1, <3>4
    <3>. QED  BY <3>1, <3>3, <3>5
  <2>3. \A m \in In(d) : Beat(m)' <=> Beat(m)  BY <1>5, <2>1
  <2>4. now <= now'  BY <1>1, TimesAre DEF FoldInv, Typed
  <2>. QED  BY <1>1, <1>2, <2>2, <2>3, <2>4, RatedStays
<1>11. CASE A \cup B \cup C # {}
  <2>1. PICK k \in In(d) : k \in Raw(d) /\ k \notin Raw(d)'  BY <1>3, <1>11
  <2>2. Beat(k) /\ ~Beat(k)' /\ k \in Times  BY <1>4, <1>5, <2>1
  <2>3. k <= run[r].at /\ run[r].at + Retention <= now /\ run[r].at \in Times
    BY <1>1, <2>2 DEF FoldInv, Typed, Runner, Timely, Beat
  <2>4. taken'[k] # None /\ ~Beat(k)'
    BY <1>1, <2>2 DEF FoldInv, Recorded, Beat
  <2>5. \A m \in In(d) : m < now
    <3> SUFFICES ASSUME NEW m \in In(d) PROVE m < now  OBVIOUS
    <3>1. /\ m \in Int /\ k \in Int /\ m \div DayLength = k \div DayLength /\ m >= 0 /\ k >= 0
          /\ run[r].at \in Int /\ now \in Int
      BY <1>4, <2>2, <2>3, TimesAre DEF In, Day, FoldInv, Typed
    <3>2. DayLength \in Int /\ DayLength > 0 /\ Retention \in Int /\ Retention >= DayLength
      BY UptimeAssumption
    <3> DEFINE q == k \div DayLength
    <3>3. q \in Int /\ DayLength * q \in Int  BY <3>1, <3>2
    <3>4. DayLength * q <= k /\ m < DayLength * q + DayLength  BY <3>1, <3>2
    <3> HIDE DEF q
    <3>. QED  BY <2>3, <3>1, <3>2, <3>3, <3>4
  <2>6. daily'[d].there /\ daily'[d].expected = Cardinality(Owed(d)')
    <3>1. daily'[d].there  BY <1>3, <1>11
    <3>2. daily'[d] = Folded(r, d)
      <4>1. CASE (run[r].ok \cup run[r].fail \cup run[r].out) \cap In(d) = {}
        <5>1. [ok |-> run[r].ok, fail |-> run[r].fail, out |-> run[r].out] = Split(Old(run[r].at))
          BY <1>1, <1>2 DEF FoldInv, Timely
        <5>2. \A m \in Old(run[r].at) : beats[m] \in {"ok", "fail"}
          BY DEF Old, Beat, FoldInv, Typed, Statuses
        <5>3. Old(run[r].at) \subseteq run[r].ok \cup run[r].fail \cup run[r].out
          BY <5>1, <5>2 DEF Split
        <5>4. k \in Old(run[r].at)  BY <2>2, <2>3 DEF Old
        <5>. QED  BY <2>1, <4>1, <5>3, <5>4
      <4>. QED  BY <1>1, <4>1
    <3>3. {m \in In(d) : m < now /\ m \notin Excluded /\ (epoch = None \/ m >= epoch)} = Owed(d)'
      BY <1>1, <1>4, <2>5 DEF Owed
    <3>. QED  BY <3>1, <3>2, <3>3 DEF Folded, Expected
  <2>. QED  BY <1>1, <1>4, <1>9, <2>4, <2>5, <2>6 DEF Rated
<1>. QED  BY <1>10, <1>11

\* Staff rescore a day that has a summary, or leave its minutes as they were; a day without
\* one has nothing folded.
LEMMA StaffScores == ASSUME FoldInv, FoldInv', ScoreInv, StaffStep PROVE ScoreInv'
<1> SUFFICES ASSUME ~torn', NEW d \in Days PROVE Rated(d)'  BY DEF ScoreInv
<1>1. Act => Rated(d) /\ UNCHANGED <<now, beats, taken>>  BY DEF Act, ScoreInv
<1>2. In(d)' = In(d) /\ In(d) \subseteq Times /\ \A m \in In(d) : m \in Times /\ Day(m) = d
  BY DEF In
<1>3. Rated(d) /\ ~daily[d].there => Scored(d) = {} /\ daily[d].ok = 0
  BY UptimeAssumption DEF Rated, Scored
<1>4. ASSUME NEW new, ChangeWindows(new) PROVE Rated(d)'
  <2>1. /\ Act /\ UNCHANGED <<daily, epoch>>
        /\ rescored' = (rescored \/ \E m \in Times : Summarized(m)
                                                     /\ (m \in Excluded) # (m \in Excluded'))
    BY <1>4 DEF ChangeWindows
  <2>2. Rated(d) /\ UNCHANGED <<now, beats, taken>>  BY <1>1, <2>1
  <2>3. \A m \in In(d) : Beat(m)' <=> Beat(m)  BY <2>2 DEF Beat
  <2>4. CASE daily[d].there
    <3>1. ASSUME ~rescored' PROVE Scored(d)' = Scored(d) /\ Owed(d)' = Owed(d) /\ ~rescored
      <4>1. ~rescored /\ \A m \in In(d) : m \in Excluded <=> m \in Excluded'
        BY <1>2, <2>1, <2>4, <3>1 DEF Summarized
      <4>. QED  BY <1>2, <2>1, <2>2, <2>3, <4>1 DEF Scored, Owed
    <3>. QED  BY <1>2, <2>1, <2>2, <2>3, <2>4, <3>1 DEF Rated
  <2>5. CASE ~daily[d].there
    <3>1. \A m \in In(d) : taken'[m] # None => Beat(m)'  BY <2>2, <2>3, <2>5 DEF Rated
    <3>2. Scored(d)' = {}  BY <1>2, <3>1, UptimeAssumption DEF Scored
    <3>3. Cardinality({}) = 0  BY FS_EmptySet
    <3>. QED  BY <1>2, <1>3, <2>1, <2>2, <2>5, <3>1, <3>2, <3>3 DEF Rated
  <2>. QED  BY <2>4, <2>5
<1>5. ASSUME NEW t \in 0..now, ResetEpoch(t) PROVE Rated(d)'
  <2>1. /\ Act /\ epoch' = t /\ UNCHANGED <<daily, windows>>
        /\ rescored' = (rescored \/ Rescores(t))
    BY <1>5 DEF ResetEpoch
  <2>2. Rated(d) /\ UNCHANGED <<now, beats, taken>>  BY <1>1, <2>1
  <2>3. epoch' # None  BY <2>1, UptimeAssumption
  <2>4. Excluded' = Excluded /\ \A m \in In(d) : Beat(m)' <=> Beat(m)
    BY <2>1, <2>2 DEF Beat, Excluded
  <2>5. Scored(d)' = Scored(d)  BY <1>2, <2>2, <2>4 DEF Scored
  <2>6. ASSUME daily[d].there, ~rescored' PROVE Owed(d)' = Owed(d)
    <3>1. \A m \in In(d) : m >= t <=> epoch = None \/ m >= epoch
      BY <1>2, <2>1, <2>6 DEF Rescores, Summarized
    <3>. QED  BY <1>2, <2>1, <2>3, <2>4, <3>1 DEF Owed
  <2>7. ~rescored' => ~rescored  BY <2>1
  <2>. QED  BY <1>2, <2>1, <2>2, <2>3, <2>4, <2>5, <2>6, <2>7 DEF Rated
<1>6. CASE Reprorate
  <2>1. /\ Act /\ UNCHANGED <<epoch, windows, rescored>>
        /\ daily' = [e \in Days |-> IF daily[e].there
                                    THEN [daily[e] EXCEPT !.expected = Expected(e)]
                                    ELSE daily[e]]
    BY <1>6 DEF Reprorate
  <2>2. Rated(d) /\ UNCHANGED <<now, beats, taken>>  BY <1>1, <2>1
  <2>3. Excluded' = Excluded /\ \A m \in In(d) : Beat(m)' <=> Beat(m)
    BY <2>1, <2>2 DEF Beat, Excluded
  <2>4. Scored(d)' = Scored(d) /\ Owed(d)' = Owed(d)
    BY <1>2, <2>1, <2>2, <2>3 DEF Scored, Owed
  <2>5. daily'[d].ok = daily[d].ok /\ (daily'[d].there <=> daily[d].there)
        /\ (daily[d].there => daily'[d].expected = Expected(d))
    BY <2>1 DEF FoldInv, Typed, DayRow
  <2>6. daily[d].there => Expected(d) = Cardinality(Owed(d))
    <3> SUFFICES ASSUME daily[d].there PROVE Expected(d) = Cardinality(Owed(d))  OBVIOUS
    <3>1. \A m \in In(d) : m < now  BY <2>2 DEF Rated
    <3>2. {m \in In(d) : m < now /\ m \notin Excluded /\ (epoch = None \/ m >= epoch)} = Owed(d)
      BY <3>1 DEF Owed
    <3>. QED  BY <3>2 DEF Expected
  <2>. QED  BY <1>2, <2>1, <2>2, <2>3, <2>4, <2>5, <2>6 DEF Rated
<1>. QED
  BY <1>4, <1>5, <1>6 DEF StaffStep, OpenWindow, EditWindow, DeleteWindow, CloseWindows

\* The first epoch row is made of the oldest beat: where a summarized day owes less by
\* that, this is remembered.
LEMMA EnsureScores ==
  ASSUME FoldInv, FoldInv', ScoreInv, NEW r \in Runners, EnsureEpoch(r) PROVE ScoreInv'
<1> SUFFICES ASSUME ~torn', NEW d \in Days PROVE Rated(d)'  BY DEF ScoreInv
<1>1. UNCHANGED <<now, beats, daily, windows, taken, torn>>  BY DEF EnsureEpoch
<1>2. Rated(d)  BY <1>1 DEF ScoreInv
<1>3. In(d)' = In(d) /\ Excluded' = Excluded /\ \A m \in In(d) : Beat(m)' <=> Beat(m)
  BY <1>1 DEF In, Beat, Excluded
<1>4. Scored(d)' = Scored(d)  BY <1>1, <1>3 DEF Scored
<1>5. rescored => rescored'  BY DEF EnsureEpoch, FoldInv, Typed
<1>6. ASSUME daily[d].there, ~rescored' PROVE Owed(d)' = Owed(d)
  <2>1. CASE epoch = None /\ AnyRaw
    <3>1. epoch' = OldestRaw /\ rescored' = (rescored \/ Rescores(OldestRaw))
      BY <2>1 DEF EnsureEpoch
    <3>2. \A m \in In(d) : m \in Times /\ Day(m) = d  BY DEF In
    <3>3. \A m \in In(d) : m >= OldestRaw
      BY <1>6, <2>1, <3>1, <3>2 DEF Rescores, Summarized
    <3>. QED  BY <1>3, <2>1, <3>1, <3>3 DEF Owed
  <2>2. CASE ~(epoch = None /\ AnyRaw)
    <3>1. epoch' = epoch  BY <2>2 DEF EnsureEpoch
    <3>. QED  BY <1>3, <3>1 DEF Owed
  <2>. QED  BY <2>1, <2>2
<1>. QED  BY <1>1, <1>2, <1>3, <1>4, <1>5, <1>6 DEF Rated

LEMMA InitScores == Init => ScoreInv
<1> SUFFICES ASSUME Init, NEW d \in Days PROVE Rated(d)  BY DEF ScoreInv
<1>1. daily[d] = NoRow /\ \A m \in In(d) : taken[m] = None /\ ~Beat(m)
  BY DEF Init, In, Beat
<1>2. Scored(d) = {}  BY <1>1, UptimeAssumption DEF Scored
<1>3. NoRow.ok = 0 /\ ~NoRow.there  BY DEF NoRow
<1>. QED  BY <1>1, <1>2, <1>3, FS_EmptySet DEF Rated

LEMMA NextScores == FoldInv /\ ScoreInv /\ [Next]_vars => ScoreInv'
<1> SUFFICES ASSUME FoldInv, ScoreInv, [Next]_vars PROVE ScoreInv'  OBVIOUS
<1>1. FoldInv'  BY NextFold
<1>2. now \in Int /\ torn \in BOOLEAN  BY TimesAre DEF FoldInv, Typed
<1>3. now <= now /\ now <= now + 1  BY <1>2
<1>4. CASE \E r \in Runners : RunnerStep(r)
  <2>1. PICK r \in Runners : RunnerStep(r)  BY <1>4
  <2>2. CASE StartCheck(r) \/ PruneRead(r) \/ Die(r)
    <3>1. UNCHANGED <<now, beats, daily, epoch, windows, taken, rescored>>
      BY <2>2 DEF StartCheck, PruneRead, Die
    <3>2. torn => torn'  BY <2>2, Zenon DEF StartCheck, PruneRead, Die
    <3>. QED  BY <1>1, <1>3, <3>1, <3>2, RestScores
  <2>. QED  BY <1>1, <2>1, <2>2, RecordScores, EnsureScores, FoldScores
    DEF RunnerStep, Statuses
<1>5. CASE Tick
  <2>1. now <= now'  BY <1>3, <1>5 DEF Tick
  <2>. QED  BY <1>1, <1>5, <2>1, RestScores DEF Tick
<1>6. CASE UNCHANGED vars
  <2>1. now <= now'  BY <1>3, <1>6 DEF vars
  <2>. QED  BY <1>1, <1>6, <2>1, RestScores DEF vars
<1>. QED  BY <1>1, <1>4, <1>5, <1>6, StaffScores DEF Next

\* What has been folded is older than every row.
FoldedFirst == \A k, m \in Times : Beat(k) /\ taken[m] # None /\ ~Beat(m) => m < k

LEMMA NextFirst == FoldInv /\ FoldedFirst /\ [Next]_vars => FoldedFirst'
<1> SUFFICES ASSUME FoldInv, FoldedFirst, [Next]_vars, NEW k \in Times, NEW m \in Times,
                    Beat(k)', taken'[m] # None, ~Beat(m)'
             PROVE  m < k
  BY DEF FoldedFirst
<1>1. CASE UNCHANGED <<beats, taken>>  BY <1>1 DEF FoldedFirst, Beat
<1>2. ASSUME NEW r \in Runners, NEW status \in Statuses, Record(r, status) PROVE m < k
  <2>1. PICK t \in Times : t = run[r].at /\ ~(t + Retention <= now)
    BY <1>2, CheckIsYoung DEF Record
  <2>2. beats' = [beats EXCEPT ![t] = status] /\ taken' = [taken EXCEPT ![t] = status]
    BY <1>2, <2>1 DEF Record
  <2>3. beats'[t] # None  BY <2>2, UptimeAssumption DEF FoldInv, Typed, Statuses
  <2>4. m # t /\ taken[m] # None /\ ~Beat(m)
    BY <2>2, <2>3 DEF FoldInv, Typed, Beat
  <2>5. CASE k = t
    <3>1. m + Retention <= now  BY <2>4 DEF FoldInv, Recorded
    <3>2. m \in Int /\ k \in Int /\ now \in Int /\ Retention \in Int
      BY TimesAre, UptimeAssumption DEF FoldInv, Typed
    <3>. QED  BY <2>1, <2>5, <3>1, <3>2
  <2>6. CASE k # t
    <3>1. Beat(k)  BY <2>2, <2>6 DEF FoldInv, Typed, Beat
    <3>. QED  BY <2>4, <3>1 DEF FoldedFirst
  <2>. QED  BY <2>5, <2>6
<1>3. ASSUME NEW r \in Runners, PruneWrite(r) PROVE m < k
  <2>1. PICK t \in Times : t = run[r].at  BY DEF FoldInv, Typed, Runner
  <2>2. beats' = [n \in Times |-> IF n <= t THEN None ELSE beats[n]] /\ UNCHANGED taken
    BY <1>3, <2>1 DEF PruneWrite
  <2>3. Beat(k) /\ ~(k <= t)  BY <2>2 DEF Beat
  <2>4. CASE m <= t
    <3>1. m \in Int /\ k \in Int /\ t \in Int  BY TimesAre
    <3>. QED  BY <2>3, <2>4, <3>1
  <2>5. CASE ~(m <= t)
    <3>1. ~Beat(m) /\ taken[m] # None  BY <2>2, <2>5 DEF Beat
    <3>. QED  BY <2>3, <3>1 DEF FoldedFirst
  <2>. QED  BY <2>4, <2>5
<1>4. CASE \E r \in Runners : RunnerStep(r)
  BY <1>1, <1>2, <1>3, <1>4
  DEF RunnerStep, StartCheck, EnsureEpoch, PruneRead, Die, Statuses
<1>5. CASE Tick \/ StaffStep \/ UNCHANGED vars
  BY <1>1, <1>5
  DEF Tick, StaffStep, OpenWindow, EditWindow, DeleteWindow, CloseWindows, ChangeWindows,
      Reprorate, ResetEpoch, Act, vars
<1>. QED  BY <1>4, <1>5 DEF Next

ScoresInv == FoldInv /\ ScoreInv /\ FoldedFirst

LEMMA ScoreHolds == Spec => []ScoresInv
<1>1. Init => ScoresInv  BY InitFold, InitScores DEF ScoresInv, FoldedFirst, Init, Beat
<1>2. ScoresInv /\ [Next]_vars => ScoresInv'
  BY NextFold, NextScores, NextFirst DEF ScoresInv
<1>. QED  BY <1>1, <1>2, PTL DEF Spec
-----------------------------------------------------------------------------
(* The overall uptime *)

\* The days of a later day's minutes are later.
LEMMA DaysAre ==
  /\ \A m \in Int : Day(m) \in Int
  /\ \A k, m \in Int : m <= k => Day(m) <= Day(k)
  /\ IsFiniteSet(Days)
<1>1. DayLength \in Int /\ DayLength > 0 /\ MaxTime \in Int  BY UptimeAssumption
<1>2. \A m \in Int : Day(m) \in Int  BY <1>1 DEF Day
<1>3. ASSUME NEW k \in Int, NEW m \in Int, m <= k PROVE Day(m) <= Day(k)
  <2> DEFINE a == m \div DayLength
             b == k \div DayLength
  <2>1. /\ a \in Int /\ b \in Int /\ DayLength * a <= m /\ k < DayLength * b + DayLength
    BY <1>1
  <2>2. DayLength * a < DayLength * (b + 1)  BY <1>1, <1>3, <2>1
  <2> HIDE DEF a, b
  <2>3. a < b + 1
    <3> SUFFICES ASSUME ~(a < b + 1) PROVE FALSE  OBVIOUS
    <3>1. PICK c \in Nat : a = b + 1 + c
      <4>1. a - (b + 1) \in Nat /\ a = b + 1 + (a - (b + 1))  BY <2>1
      <4>. QED  BY <4>1
    <3>2. DayLength * a = DayLength * (b + 1) + DayLength * c  BY <1>1, <2>1, <3>1
    <3>3. DayLength * c >= 0  BY <1>1, <3>1
    <3>4. DayLength * (b + 1) \in Int /\ DayLength * c \in Int  BY <1>1, <2>1, <3>1
    <3>. QED  BY <2>2, <3>2, <3>3, <3>4
  <2>. QED  BY <2>1, <2>3 DEF a, b, Day
<1>4. IsFiniteSet(Days)
  <2>1. Day(MaxTime) \in Int  BY <1>1, <1>2
  <2>. QED  BY <2>1, FS_Interval DEF Days
<1>. QED  BY <1>2, <1>3, <1>4

\* The minute from which rows are counted.
LEMMA StartIs ==
  ASSUME FoldInv, epoch # None
  PROVE  /\ epoch \in Int /\ now \in Int /\ RawStart \in Int
         /\ AnyRaw => /\ OldestRaw \in Int /\ RawStart >= epoch
                      /\ \A m \in Times : Beat(m) => OldestRaw <= m
                      /\ OldestRaw > epoch => RawStart = OldestRaw
                      /\ ~(OldestRaw > epoch) => RawStart = epoch
         /\ ~AnyRaw => RawStart = now
<1>1. epoch \in Int /\ now \in Int  BY TimesAre DEF FoldInv, Typed
<1>2. AnyRaw => OldestRaw \in Int  BY OldestIs, TimesAre
<1>. QED  BY <1>1, <1>2, OldestIs DEF RawStart

\* The property's condition on a zone: no beats before the epoch on the days it sums.
Starts(z) == \A m \in Times : m < epoch /\ Day(m) >= UTCDay(epoch, z) => taken[m] = None

\* A day whose summary Overall uses has nothing before the epoch, and its folded minutes
\* are older than the rows.
LEMMA SummedIs ==
  ASSUME ScoresInv, epoch # None, ~torn, ~rescored, NEW z \in Int, Starts(z),
         NEW d \in SummedDays(z)
  PROVE  /\ d \in Days /\ daily[d].ok = Cardinality(Scored(d))
         /\ daily[d].expected = Cardinality(Owed(d))
         /\ \A m \in In(d) : /\ m \in Times /\ Day(m) = d /\ m < now
                             /\ taken[m] # None => m >= epoch
                             /\ AnyRaw => RawStart = OldestRaw /\ m < OldestRaw + z
<1>1. d \in Days /\ daily[d].there /\ d >= UTCDay(epoch, z)
      /\ (AnyRaw => OldestRaw > epoch /\ d < UTCDay(OldestRaw, z))
  BY DEF SummedDays
<1>2. Rated(d)  BY <1>1 DEF ScoresInv, ScoreInv
<1>3. ASSUME NEW m \in In(d)
      PROVE  /\ m \in Times /\ Day(m) = d /\ m < now /\ (taken[m] # None => m >= epoch)
             /\ AnyRaw => RawStart = OldestRaw /\ m < OldestRaw + z
  <2>1. m \in Times /\ Day(m) = d /\ m \in Int /\ epoch \in Int
    BY TimesAre, StartIs DEF In, ScoresInv
  <2>2. m < now  BY <1>1, <1>2 DEF Rated
  <2>3. taken[m] # None => m >= epoch  BY <1>1, <2>1 DEF Starts
  <2>4. ASSUME AnyRaw PROVE RawStart = OldestRaw /\ m < OldestRaw + z
    <3>1. RawStart = OldestRaw /\ OldestRaw + z \in Int
      BY <1>1, <2>4, StartIs DEF ScoresInv
    <3>2. Day(m) < Day(OldestRaw + z)  BY <1>1, <2>1, <2>4 DEF UTCDay, Day
    <3>3. Day(m) \in Int /\ Day(OldestRaw + z) \in Int  BY <2>1, <3>1, DaysAre
    <3>4. ~(OldestRaw + z <= m)  BY <2>1, <3>1, <3>2, <3>3, DaysAre
    <3>. QED  BY <2>1, <3>1, <3>4
  <2>. QED  BY <2>1, <2>2, <2>3, <2>4
<1>. QED  BY <1>1, <1>2, <1>3 DEF Rated

\* The two sums of Overall.
LEMMA SumsAre ==
  ASSUME NEW S
  PROVE  /\ MapThenSumSet(LAMBDA d : daily[d].ok, S) = Total(S, [d \in S |-> daily[d].ok])
         /\ MapThenSumSet(LAMBDA d : daily[d].expected, S)
              = Total(S, [d \in S |-> daily[d].expected])
<1> DEFINE F == [d \in S |-> daily[d].ok]
           G == [d \in S |-> daily[d].expected]
           first(s) == CHOOSE x \in s : TRUE
           SumOf(H, h) == h = [s \in SUBSET S |->
                                 IF s = {} THEN 0 ELSE H[first(s)] + h[s \ {first(s)}]]
           OkSum(h) == h = [s \in SUBSET S |->
                              IF s = {} THEN 0 ELSE daily[first(s)].ok + h[s \ {first(s)}]]
           OwedSum(h) == h = [s \in SUBSET S |->
                              IF s = {} THEN 0 ELSE daily[first(s)].expected + h[s \ {first(s)}]]
<1>1. /\ MapThenSumSet(LAMBDA d : daily[d].ok, S) = (CHOOSE h : OkSum(h))[S]
      /\ MapThenSumSet(LAMBDA d : daily[d].expected, S) = (CHOOSE h : OwedSum(h))[S]
  BY Zenon DEF MapThenSumSet, MapThenFoldSet
<1>2. ASSUME NEW h PROVE (OkSum(h) <=> SumOf(F, h)) /\ (OwedSum(h) <=> SumOf(G, h))
  <2>1. ASSUME NEW s \in SUBSET S, s # {}
        PROVE  F[first(s)] = daily[first(s)].ok /\ G[first(s)] = daily[first(s)].expected
    <3>1. first(s) \in s  BY <2>1
    <3> HIDE DEF first
    <3>. QED  BY <3>1
  <2> HIDE DEF first, F, G
  <2>. QED  BY <2>1
<1>3. /\ (CHOOSE h : OkSum(h)) = (CHOOSE h : SumOf(F, h))
      /\ (CHOOSE h : OwedSum(h)) = (CHOOSE h : SumOf(G, h))
  <2> HIDE DEF OkSum, OwedSum, SumOf
  <2>. QED  BY <1>2, Zenon
<1>4. Total(S, F) = (CHOOSE h : SumOf(F, h))[S] /\ Total(S, G) = (CHOOSE h : SumOf(G, h))[S]
  <2> HIDE DEF F, G
  <2>. QED  BY Zenon DEF Total
<1> HIDE DEF OkSum, OwedSum, SumOf
<1>. QED  BY <1>1, <1>3, <1>4, Zenon

\* The good minutes that the summaries of Overall have, what they owe, and the same of rows.
FoldedGood(z) == UNION {Scored(d) : d \in SummedDays(z)}
FoldedOwed(z) == UNION {Owed(d) : d \in SummedDays(z)}
RawGood == {m \in Times \ Excluded : m >= RawStart /\ AnyRaw /\ beats[m] = "ok"}
RawOwed == {m \in Times \ Excluded : m >= RawStart /\ m < now}

Fair(z) == ScoresInv /\ epoch # None /\ ~torn /\ ~rescored /\ z \in Int /\ Starts(z)

LEMMA OverallIs ==
  ASSUME NEW z, Fair(z)
  PROVE  /\ IsFiniteSet(FoldedGood(z)) /\ IsFiniteSet(FoldedOwed(z))
         /\ Overall(z) = <<Cardinality(FoldedGood(z)) + Cardinality(RawGood),
                           Cardinality(FoldedOwed(z)) + Cardinality(RawOwed)>>
<1> DEFINE S == SummedDays(z)
           A == [d \in S |-> Scored(d)]
           B == [d \in S |-> Owed(d)]
           F == [d \in S |-> daily[d].ok]
           G == [d \in S |-> daily[d].expected]
<1>1. S \subseteq Days /\ IsFiniteSet(S)
  <2>1. S \subseteq Days  BY DEF SummedDays
  <2>. QED  BY <2>1, DaysAre, FS_Subset
<1>2. ASSUME NEW d \in S
      PROVE  /\ daily[d].ok = Cardinality(Scored(d)) /\ daily[d].expected = Cardinality(Owed(d))
             /\ Scored(d) \subseteq In(d) /\ IsFiniteSet(Scored(d))
             /\ Owed(d) \subseteq In(d) /\ IsFiniteSet(Owed(d))
  <2>1. Scored(d) \subseteq In(d) /\ Owed(d) \subseteq In(d)  BY DEF Scored, Owed
  <2>. QED  BY <2>1, SummedIs, PartIs DEF Fair
<1>3. \A d, e \in S : d # e => In(d) \cap In(e) = {}  BY DEF In
<1> HIDE DEF S
<1>4. Parts(S, F, A) /\ Parts(S, G, B)
  <2>1. \A d, e \in S : d # e => Scored(d) \cap Scored(e) = {} /\ Owed(d) \cap Owed(e) = {}
    BY <1>2, <1>3
  <2>. QED  BY <1>2, <2>1 DEF Parts
<1>5. UNION {A[d] : d \in S} = UNION {Scored(d) : d \in S}
      /\ UNION {B[d] : d \in S} = UNION {Owed(d) : d \in S}
  OBVIOUS
<1>6. /\ IsFiniteSet(UNION {A[d] : d \in S}) /\ IsFiniteSet(UNION {B[d] : d \in S})
      /\ Total(S, F) = Cardinality(UNION {A[d] : d \in S})
      /\ Total(S, G) = Cardinality(UNION {B[d] : d \in S})
  <2> HIDE DEF A, B, F, G
  <2>. QED  BY <1>1, <1>4, TotalIs
<1>7. /\ MapThenSumSet(LAMBDA d : daily[d].ok, S) = Cardinality(UNION {A[d] : d \in S})
      /\ MapThenSumSet(LAMBDA d : daily[d].expected, S) = Cardinality(UNION {B[d] : d \in S})
  BY <1>6, SumsAre, Zenon
<1> HIDE DEF A, B, F, G
<1>8. /\ IsFiniteSet(FoldedGood(z)) /\ IsFiniteSet(FoldedOwed(z))
      /\ Cardinality(UNION {A[d] : d \in S}) = Cardinality(FoldedGood(z))
      /\ Cardinality(UNION {B[d] : d \in S}) = Cardinality(FoldedOwed(z))
  BY <1>5, <1>6, Zenon DEF S, FoldedGood, FoldedOwed
<1>9. Overall(z) = <<MapThenSumSet(LAMBDA d : daily[d].ok, S) + Cardinality(RawGood),
                    MapThenSumSet(LAMBDA d : daily[d].expected, S) + Cardinality(RawOwed)>>
  BY Zenon DEF Overall, S, RawGood, RawOwed
<1>. QED  BY <1>7, <1>8, <1>9, Zenon

LEMMA FoldedIs ==
  ASSUME NEW z
  PROVE  /\ \A m : m \in FoldedGood(z) <=> \E d \in SummedDays(z) : m \in Scored(d)
         /\ \A m : m \in FoldedOwed(z) <=> \E d \in SummedDays(z) : m \in Owed(d)
BY DEF FoldedGood, FoldedOwed

\* What the rows have is of the time since the epoch.
LEMMA RawIs ==
  ASSUME ScoresInv, epoch # None
  PROVE  /\ \A m \in RawGood : /\ m \in Times \ Excluded /\ m >= epoch /\ m >= RawStart
                              /\ AnyRaw /\ Beat(m) /\ taken[m] = "ok"
         /\ \A m \in RawOwed : /\ m \in Times \ Excluded /\ m >= epoch /\ m >= RawStart
                              /\ AnyRaw /\ m < now
<1>1. /\ epoch \in Int /\ now \in Int /\ RawStart \in Int /\ (AnyRaw => RawStart >= epoch)
      /\ (~AnyRaw => RawStart = now) /\ \A m \in Times : m \in Int
  BY StartIs, TimesAre DEF ScoresInv
<1>2. ASSUME NEW m \in RawGood
      PROVE  /\ m \in Times \ Excluded /\ m >= epoch /\ m >= RawStart
             /\ AnyRaw /\ Beat(m) /\ taken[m] = "ok"
  <2>1. m \in Times \ Excluded /\ m >= RawStart /\ AnyRaw /\ beats[m] = "ok"  BY DEF RawGood
  <2>2. Beat(m)  BY <2>1, UptimeAssumption DEF Beat
  <2>3. taken[m] = "ok"  BY <2>1, <2>2 DEF ScoresInv, FoldInv, Recorded
  <2>4. m \in Int /\ m >= epoch  BY <1>1, <2>1
  <2>. QED  BY <2>1, <2>2, <2>3, <2>4
<1>3. ASSUME NEW m \in RawOwed
      PROVE  /\ m \in Times \ Excluded /\ m >= epoch /\ m >= RawStart /\ AnyRaw /\ m < now
  <2>1. m \in Times \ Excluded /\ m >= RawStart /\ m < now /\ m \in Int
    BY TimesAre DEF RawOwed
  <2>2. AnyRaw  BY <1>1, <2>1
  <2>. QED  BY <1>1, <2>1, <2>2
<1>. QED  BY <1>2, <1>3

\* What the summaries have is of the time since the epoch, and overlaps with the rows by
\* no more minutes than the zone is behind UTC.
LEMMA FoldedSince ==
  ASSUME NEW z, Fair(z)
  PROVE  /\ \A m \in FoldedGood(z) : /\ m \in Times \ Excluded /\ m >= epoch
                                    /\ ~Beat(m) /\ taken[m] = "ok"
         /\ \A m \in FoldedOwed(z) :
              /\ m \in Times \ Excluded /\ m >= epoch /\ m < now
              /\ AnyRaw => RawStart = OldestRaw /\ m < OldestRaw + z
<1>1. ASSUME NEW m \in FoldedGood(z)
      PROVE  m \in Times \ Excluded /\ m >= epoch /\ ~Beat(m) /\ taken[m] = "ok"
  <2>1. PICK d \in SummedDays(z) : m \in Scored(d)  BY FoldedIs
  <2>2. m \in In(d) /\ m \notin Excluded /\ ~Beat(m) /\ taken[m] = "ok"
    BY <2>1 DEF Scored
  <2>3. m \in Times /\ (taken[m] # None => m >= epoch)  BY <2>2, SummedIs DEF Fair
  <2>. QED  BY <2>2, <2>3, UptimeAssumption
<1>2. ASSUME NEW m \in FoldedOwed(z)
      PROVE  /\ m \in Times \ Excluded /\ m >= epoch /\ m < now
             /\ AnyRaw => RawStart = OldestRaw /\ m < OldestRaw + z
  <2>1. PICK d \in SummedDays(z) : m \in Owed(d)  BY FoldedIs
  <2>2. m \in In(d) /\ m \notin Excluded /\ m >= epoch  BY <2>1 DEF Owed, Fair
  <2>3. m \in Times /\ m < now /\ (AnyRaw => RawStart = OldestRaw /\ m < OldestRaw + z)
    BY <2>2, SummedIs DEF Fair
  <2>. QED  BY <2>2, <2>3
<1>. QED  BY <1>1, <1>2

LEMMA SizeIs ==
  ASSUME NEW S, S \subseteq Times
  PROVE  /\ IsFiniteSet(S) /\ Cardinality(S) \in Nat
         /\ \A T \in SUBSET S : IsFiniteSet(T) /\ Cardinality(T) <= Cardinality(S)
BY TimesAre, FS_Subset, FS_CardinalityType

\* No zone counts a beat twice ...
LEMMA GoodOnce ==
  ASSUME NEW z, Fair(z)
  PROVE  /\ Overall(z)[1] = Cardinality(FoldedGood(z) \cup RawGood)
         /\ FoldedGood(z) \cup RawGood
              \subseteq {m \in {k \in Times \ Excluded : k >= epoch} : taken[m] = "ok"}
<1>1. /\ \A m \in FoldedGood(z) : m \in Times \ Excluded /\ m >= epoch
                                  /\ ~Beat(m) /\ taken[m] = "ok"
      /\ \A m \in RawGood : m \in Times \ Excluded /\ m >= epoch
                            /\ Beat(m) /\ taken[m] = "ok"
  BY FoldedSince, RawIs DEF Fair
<1>2. FoldedGood(z) \cap RawGood = {}  BY <1>1
<1>3. RawGood \subseteq Times  BY DEF RawGood
<1>4. IsFiniteSet(FoldedGood(z)) /\ IsFiniteSet(RawGood)  BY <1>3, OverallIs, SizeIs
<1>5. Cardinality(FoldedGood(z) \cup RawGood)
        = Cardinality(FoldedGood(z)) + Cardinality(RawGood)
  BY <1>2, <1>4, TwoParts
<1>6. Overall(z)[1] = Cardinality(FoldedGood(z)) + Cardinality(RawGood)  BY OverallIs
<1>. QED  BY <1>1, <1>5, <1>6

\* ... and what it owes twice is as much as it is behind UTC at most.
LEMMA OwedTwice ==
  ASSUME NEW z, Fair(z)
  PROVE  /\ FoldedOwed(z) \cup RawOwed
              \subseteq {m \in {k \in Times \ Excluded : k >= epoch} : m < now}
         /\ Overall(z)[2] <= Cardinality(FoldedOwed(z) \cup RawOwed) + (IF z > 0 THEN z ELSE 0)
         /\ z = 0 => Overall(z)[2] = Cardinality(FoldedOwed(z) \cup RawOwed)
<1> DEFINE both == FoldedOwed(z) \cap RawOwed
<1>1. FoldedOwed(z) \cup RawOwed
        \subseteq {m \in {k \in Times \ Excluded : k >= epoch} : m < now}
  BY FoldedSince, RawIs DEF Fair
<1>2. IsFiniteSet(FoldedOwed(z)) /\ IsFiniteSet(RawOwed) /\ both \subseteq Times
  <2>1. RawOwed \subseteq Times  BY DEF RawOwed
  <2>. QED  BY <2>1, OverallIs, SizeIs
<1>3. Cardinality(both) <= (IF z > 0 THEN z ELSE 0) /\ Cardinality(both) \in Nat
  <2>1. z \in Int  BY DEF Fair
  <2>2. ASSUME NEW m \in both PROVE OldestRaw \in Int /\ OldestRaw <= m /\ m < OldestRaw + z
    <3>1. AnyRaw /\ m >= RawStart /\ m < OldestRaw + z /\ RawStart = OldestRaw
      BY FoldedSince, RawIs DEF Fair
    <3>2. OldestRaw \in Int  BY <3>1, StartIs DEF Fair, ScoresInv
    <3>. QED  BY <3>1, <3>2
  <2>3. \A m \in both : m \in Int  BY <1>2, TimesAre
  <2> HIDE DEF both
  <2>4. CASE both = {}
    <3>1. Cardinality(both) = 0  BY <2>4, FS_EmptySet
    <3>. QED  BY <2>1, <3>1
  <2>5. CASE both # {}
    <3>1. OldestRaw \in Int /\ z > 0
      <4>1. PICK m \in both : TRUE  BY <2>5
      <4>. QED  BY <2>1, <2>2, <2>3, <4>1
    <3> DEFINE first == OldestRaw
               last == first + z - 1
    <3>2. first \in Int /\ last \in Int /\ last - first + 1 = z /\ first <= last
      BY <2>1, <3>1
    <3>3. both \subseteq first..last  BY <2>1, <2>2, <2>3, <3>1
    <3> HIDE DEF first, last
    <3>4. IsFiniteSet(first..last) /\ Cardinality(first..last) = last - first + 1
      BY <3>2, FS_Interval
    <3>5. Cardinality(both) <= Cardinality(first..last)  BY <3>3, <3>4, FS_Subset
    <3>6. Cardinality(both) \in Nat  BY <1>2, SizeIs
    <3>. QED  BY <3>1, <3>2, <3>4, <3>5, <3>6
  <2>. QED  BY <2>4, <2>5
<1>4. Overall(z)[2] = Cardinality(FoldedOwed(z)) + Cardinality(RawOwed)  BY OverallIs
<1>5. Cardinality(FoldedOwed(z) \cup RawOwed)
        = Cardinality(FoldedOwed(z)) + Cardinality(RawOwed) - Cardinality(both)
  BY <1>2, FS_Union
<1>6. Cardinality(FoldedOwed(z)) \in Nat /\ Cardinality(RawOwed) \in Nat
  BY <1>2, FS_CardinalityType
<1>7. z \in Int  BY DEF Fair
<1> DEFINE sum == Overall(z)[2]
           all == Cardinality(FoldedOwed(z) \cup RawOwed)
           twice == Cardinality(both)
<1>8. /\ sum = all + twice /\ sum \in Nat /\ all \in Int /\ twice \in Nat
      /\ twice <= (IF z > 0 THEN z ELSE 0)
  <2> DEFINE a == Cardinality(FoldedOwed(z))
             b == Cardinality(RawOwed)
  <2>1. sum = a + b /\ all = a + b - twice /\ a \in Nat /\ b \in Nat /\ twice \in Nat
    BY <1>3, <1>4, <1>5, <1>6
  <2> HIDE DEF a, b, sum, all, twice
  <2>2. sum = all + twice /\ sum \in Nat /\ all \in Int /\ twice \in Nat  BY <2>1
  <2>3. twice <= (IF z > 0 THEN z ELSE 0)  BY <1>3 DEF twice
  <2>. QED  BY <2>2, <2>3
<1> HIDE DEF both, sum, all, twice
<1>9. sum <= all + (IF z > 0 THEN z ELSE 0)  BY <1>7, <1>8
<1>10. ASSUME z = 0 PROVE sum = all  BY <1>8, <1>10
<1>. QED  BY <1>1, <1>9, <1>10 DEF sum, all

\* In UTC a minute since the epoch is counted with a summary or a row unless it is in a gap.
LEMMA GapIs ==
  ASSUME Fair(0), NEW m \in Times, m >= epoch
  PROVE  /\ AnyRaw /\ m >= RawStart => ~Gap(m)
         /\ Day(m) \in SummedDays(0) => ~Gap(m)
         /\ ~Gap(m) /\ ~(AnyRaw /\ m >= RawStart)
              => Day(m) \in SummedDays(0) /\ \A k \in In(Day(m)) : ~Beat(k)
<1>1. /\ epoch \in Int /\ now \in Int /\ RawStart \in Int /\ m \in Int
      /\ AnyRaw => /\ OldestRaw \in Times /\ OldestRaw \in Int /\ RawStart >= OldestRaw
                   /\ Beat(OldestRaw) /\ \A k \in Times : Beat(k) => OldestRaw <= k
                   /\ OldestRaw > epoch => RawStart = OldestRaw
                   /\ ~(OldestRaw > epoch) => RawStart = epoch
  BY StartIs, OldestIs, TimesAre DEF Fair, ScoresInv
<1>2. AnyRaw /\ m >= RawStart => ~Gap(m)
  <2> SUFFICES ASSUME AnyRaw, m >= RawStart PROVE ~Gap(m)  OBVIOUS
  <2>1. ~(m < OldestRaw)  BY <1>1
  <2>. QED  BY <1>1, <2>1 DEF Gap
<1>3. ASSUME Day(m) \in SummedDays(0) PROVE ~Gap(m)
  <2>1. daily[Day(m)].there /\ Day(m) \in Days  BY <1>3 DEF SummedDays
  <2>2. \E k \in In(Day(m)) : taken[k] # None
    BY <2>1 DEF Fair, ScoresInv, ScoreInv, Rated
  <2>3. ASSUME NEW k \in In(Day(m)), Beat(k) PROVE FALSE
    <3>1. k \in Times /\ (AnyRaw => k < OldestRaw + 0)  BY <1>3, <2>3, SummedIs DEF Fair
    <3>2. AnyRaw  BY <2>3, <3>1 DEF AnyRaw
    <3>3. k \in Int /\ OldestRaw <= k  BY <1>1, <2>3, <3>1, <3>2, TimesAre
    <3>. QED  BY <1>1, <3>1, <3>2, <3>3
  <2>. QED  BY <2>2, <2>3 DEF Gap
<1>4. ASSUME ~Gap(m), ~(AnyRaw /\ m >= RawStart)
      PROVE  Day(m) \in SummedDays(0) /\ \A k \in In(Day(m)) : ~Beat(k)
  <2>1. AnyRaw => OldestRaw > epoch /\ m < OldestRaw  BY <1>1, <1>4
  <2>2. \A k \in Times : Beat(k) => m < k
    <3> SUFFICES ASSUME NEW k \in Times, Beat(k) PROVE m < k  OBVIOUS
    <3>1. AnyRaw /\ k \in Int  BY TimesAre DEF AnyRaw
    <3>. QED  BY <1>1, <2>1, <3>1
  <2>3. (\E k \in In(Day(m)) : taken[k] # None) /\ \A k \in In(Day(m)) : ~Beat(k)
    BY <1>4, <2>2 DEF Gap
  <2>4. Day(m) \in Days
    <3>1. DayLength \in Int /\ DayLength > 0 /\ MaxTime \in Int /\ 0 <= m /\ m <= MaxTime
      BY UptimeAssumption DEF Times
    <3>2. Day(0) = 0  BY <3>1 DEF Day
    <3>3. Day(m) \in Int /\ Day(MaxTime) \in Int /\ 0 <= Day(m) /\ Day(m) <= Day(MaxTime)
      BY <1>1, <3>1, <3>2, DaysAre
    <3>. QED  BY <3>3 DEF Days
  <2>5. Rated(Day(m))  BY <2>4 DEF Fair, ScoresInv, ScoreInv
  <2>6. daily[Day(m)].there  BY <2>3, <2>5 DEF Rated
  <2>7. m < now
    <3>1. m \in In(Day(m))  BY DEF In
    <3>. QED  BY <2>5, <2>6, <3>1 DEF Rated
  <2>8. \A k \in Int : UTCDay(k, 0) = Day(k) /\ Day(k) \in Int  BY DaysAre DEF UTCDay, Day
  <2>9. Day(m) >= UTCDay(epoch, 0)  BY <1>1, <2>8, DaysAre
  <2>10. ASSUME AnyRaw PROVE Day(m) < UTCDay(OldestRaw, 0)
    <3>1. m <= OldestRaw  BY <1>1, <2>1, <2>10
    <3>2. Day(m) <= Day(OldestRaw)  BY <1>1, <2>10, <3>1, DaysAre
    <3>3. Day(m) # Day(OldestRaw)
      <4>1. Day(m) = Day(OldestRaw) => OldestRaw \in In(Day(m))  BY <1>1, <2>10 DEF In
      <4>. QED  BY <1>1, <2>3, <2>10, <4>1
    <3>. QED  BY <1>1, <2>8, <2>10, <3>2, <3>3
  <2>11. Day(m) <= UTCDay(now, 0)
    <3>1. m <= now  BY <1>1, <2>7
    <3>. QED  BY <1>1, <2>8, <3>1, DaysAre
  <2>. QED  BY <2>1, <2>3, <2>4, <2>6, <2>9, <2>10, <2>11 DEF SummedDays
<1>. QED  BY <1>2, <1>3, <1>4

\* So in UTC both terms are what the hand counts outside the gaps.
LEMMA UTCIs ==
  ASSUME Fair(0)
  PROVE  LET known == {m \in {k \in Times \ Excluded : k >= epoch} : ~Gap(m)}
         IN /\ FoldedGood(0) \cup RawGood = {m \in known : taken[m] = "ok"}
            /\ FoldedOwed(0) \cup RawOwed = {m \in known : m < now}
<1> DEFINE known == {m \in {k \in Times \ Excluded : k >= epoch} : ~Gap(m)}
<1>1. ASSUME NEW z, z = 0, NEW m, m \in FoldedGood(z) \/ m \in FoldedOwed(z)
      PROVE  m \in Times /\ m >= epoch => ~Gap(m)
  <2>1. PICK d \in SummedDays(0) : m \in In(d)  BY <1>1, FoldedIs DEF Scored, Owed
  <2>2. Day(m) = d  BY <2>1 DEF In
  <2>. QED  BY <2>1, <2>2, GapIs
<1>2. ASSUME NEW m \in FoldedGood(0) \cup RawGood PROVE m \in known /\ taken[m] = "ok"
  <2>1. CASE m \in FoldedGood(0)
    <3>1. m \in Times \ Excluded /\ m >= epoch /\ taken[m] = "ok"  BY <2>1, FoldedSince
    <3>. QED  BY <1>1, <2>1, <3>1
  <2>2. CASE m \in RawGood
    <3>1. m \in Times \ Excluded /\ m >= epoch /\ taken[m] = "ok" /\ AnyRaw /\ m >= RawStart
      BY <2>2, RawIs DEF Fair
    <3>. QED  BY <3>1, GapIs
  <2>. QED  BY <2>1, <2>2
<1>3. ASSUME NEW m \in FoldedOwed(0) \cup RawOwed PROVE m \in known /\ m < now
  <2>1. CASE m \in FoldedOwed(0)
    <3>1. m \in Times \ Excluded /\ m >= epoch /\ m < now  BY <2>1, FoldedSince
    <3>. QED  BY <1>1, <2>1, <3>1
  <2>2. CASE m \in RawOwed
    <3>1. m \in Times \ Excluded /\ m >= epoch /\ m < now /\ AnyRaw /\ m >= RawStart
      BY <2>2, RawIs DEF Fair
    <3>. QED  BY <3>1, GapIs
  <2>. QED  BY <2>1, <2>2
<1>4. ASSUME NEW m \in known, taken[m] = "ok" PROVE m \in FoldedGood(0) \cup RawGood
  <2>1. CASE AnyRaw /\ m >= RawStart
    <3>1. Beat(m)
      <4> SUFFICES ASSUME ~Beat(m) PROVE FALSE  OBVIOUS
      <4>1. taken[m] # None  BY <1>4, UptimeAssumption
      <4>2. OldestRaw \in Times /\ Beat(OldestRaw)  BY <2>1, OldestIs
      <4>3. m < OldestRaw  BY <4>1, <4>2 DEF Fair, ScoresInv, FoldedFirst
      <4>4. RawStart >= OldestRaw /\ RawStart \in Int /\ OldestRaw \in Int /\ m \in Int
        BY <2>1, StartIs, TimesAre DEF Fair, ScoresInv
      <4>. QED  BY <2>1, <4>3, <4>4
    <3>2. beats[m] = "ok"  BY <1>4, <3>1 DEF Fair, ScoresInv, FoldInv, Recorded
    <3>. QED  BY <2>1, <3>2 DEF RawGood
  <2>2. CASE ~(AnyRaw /\ m >= RawStart)
    <3>1. Day(m) \in SummedDays(0) /\ m \in In(Day(m)) /\ ~Beat(m)
      BY <2>2, GapIs DEF In
    <3>2. m \in Scored(Day(m))  BY <1>4, <3>1 DEF Scored
    <3>. QED  BY <3>1, <3>2, FoldedIs
  <2>. QED  BY <2>1, <2>2
<1>5. ASSUME NEW m \in known, m < now PROVE m \in FoldedOwed(0) \cup RawOwed
  <2>1. CASE AnyRaw /\ m >= RawStart  BY <1>5, <2>1 DEF RawOwed
  <2>2. CASE ~(AnyRaw /\ m >= RawStart)
    <3>1. Day(m) \in SummedDays(0) /\ m \in In(Day(m))  BY <2>2, GapIs DEF In
    <3>2. m \in Owed(Day(m))  BY <3>1 DEF Owed
    <3>. QED  BY <3>1, <3>2, FoldedIs
  <2>. QED  BY <2>1, <2>2
<1> HIDE DEF known
<1>6. /\ FoldedGood(0) \cup RawGood = {m \in known : taken[m] = "ok"}
      /\ FoldedOwed(0) \cup RawOwed = {m \in known : m < now}
  BY <1>2, <1>3, <1>4, <1>5
<1>. QED  BY <1>6 DEF known

LEMMA ByHand == ASSUME ScoresInv PROVE OverallByHand
<1> SUFFICES ASSUME epoch # None, ~torn, ~rescored, NEW z \in Zones, Starts(z)
             PROVE  LET since == {m \in Times \ Excluded : m >= epoch}
                        known == {m \in since : ~Gap(m)}
                    IN /\ Overall(z)[1] <= Cardinality({m \in since : taken[m] = "ok"})
                       /\ Overall(z)[2] <= Cardinality({m \in since : m < now})
                                             + (IF z > 0 THEN z ELSE 0)
                       /\ z = 0 => Overall(z) = <<Cardinality({m \in known : taken[m] = "ok"}),
                                                 Cardinality({m \in known : m < now})>>
  BY Zenon DEF OverallByHand, Starts
<1> DEFINE since == {m \in Times \ Excluded : m >= epoch}
           known == {m \in since : ~Gap(m)}
           good == {m \in since : taken[m] = "ok"}
           owed == {m \in since : m < now}
<1>1. z \in Int /\ Fair(z)  BY UptimeAssumption DEF Fair
<1>2. /\ Overall(z)[1] = Cardinality(FoldedGood(z) \cup RawGood)
      /\ FoldedGood(z) \cup RawGood \subseteq good
  BY <1>1, GoodOnce
<1>3. /\ FoldedOwed(z) \cup RawOwed \subseteq owed
      /\ Overall(z)[2] <= Cardinality(FoldedOwed(z) \cup RawOwed) + (IF z > 0 THEN z ELSE 0)
      /\ z = 0 => Overall(z)[2] = Cardinality(FoldedOwed(z) \cup RawOwed)
  BY <1>1, OwedTwice
<1>4. good \subseteq Times /\ owed \subseteq Times  OBVIOUS
<1> HIDE DEF good, owed
<1>5. /\ Cardinality(FoldedGood(z) \cup RawGood) <= Cardinality(good)
      /\ Cardinality(FoldedOwed(z) \cup RawOwed) <= Cardinality(owed)
      /\ Cardinality(FoldedOwed(z) \cup RawOwed) \in Nat /\ Cardinality(owed) \in Nat
  <2>1. FoldedOwed(z) \cup RawOwed \subseteq Times  BY <1>3, <1>4
  <2>. QED  BY <1>2, <1>3, <1>4, <2>1, SizeIs
<1>6. Overall(z)[1] <= Cardinality(good)
      /\ Overall(z)[2] <= Cardinality(owed) + (IF z > 0 THEN z ELSE 0)
  <2> DEFINE a == Overall(z)[2]
             b == Cardinality(FoldedOwed(z) \cup RawOwed)
             c == Cardinality(owed)
  <2>1. a <= b + (IF z > 0 THEN z ELSE 0) /\ b <= c /\ b \in Nat /\ c \in Nat
    BY <1>3, <1>5
  <2>2. a \in Int
    <3>1. Cardinality(FoldedOwed(z)) \in Nat /\ Cardinality(RawOwed) \in Nat
      <4>1. RawOwed \subseteq Times  BY DEF RawOwed
      <4>. QED  BY <1>1, <4>1, OverallIs, SizeIs, FS_CardinalityType
    <3>. QED  BY <1>1, <3>1, OverallIs
  <2> HIDE DEF a, b, c
  <2>3. a <= c + (IF z > 0 THEN z ELSE 0)  BY <1>1, <2>1, <2>2
  <2>. QED  BY <1>2, <1>5, <2>3 DEF a, c
<1>7. ASSUME z = 0
      PROVE  Overall(z) = <<Cardinality({m \in known : taken[m] = "ok"}),
                            Cardinality({m \in known : m < now})>>
  <2>1. /\ FoldedGood(z) \cup RawGood = {m \in known : taken[m] = "ok"}
        /\ FoldedOwed(z) \cup RawOwed = {m \in known : m < now}
    BY <1>1, <1>7, UTCIs
  <2>2. Overall(z) = <<Overall(z)[1], Overall(z)[2]>>  BY <1>1, OverallIs
  <2> HIDE DEF known
  <2>. QED  BY <1>2, <1>3, <1>7, <2>1, <2>2
<1>. QED  BY <1>6, <1>7 DEF good, owed

\* However beats, folds, deaths, maintenance and the epoch's reset interleave, no time zone
\* counts a beat of the overall uptime twice, UTC counts by hand what is not in a gap, and a
\* zone west of it owes no more minutes twice than it is behind: for any runners, windows,
\* retention and zones, until a fold is torn, what a summarized day is measured by is
\* changed, or the epoch begins after beats of its day.
THEOREM OverallIsByHand == Spec => []OverallByHand
<1>1. ScoresInv => OverallByHand  BY ByHand
<1>. QED  BY <1>1, ScoreHolds, PTL
=============================================================================
