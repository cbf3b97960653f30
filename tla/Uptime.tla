------------------------------- MODULE Uptime -------------------------------
(***************************************************************************)
(* One monitor of apps/heartbeat: a beat a minute, written by runners that   *)
(* may overlap (cron's command, the ping view), beats folded into daily      *)
(* summaries once they are older than the retention, maintenance windows and *)
(* an epoch that staff may change at any time, and the uptime the status     *)
(* pages compute out of all that.  Time is counted in minutes, and days are   *)
(* those of TIME_ZONE, but where the pages use the date of a time in UTC.     *)
(***************************************************************************)
EXTENDS Integers, FiniteSetsExt

CONSTANTS
  Runners,     \* processes that run the monitors
  DayLength,   \* minutes in a day (1440, scaled down)
  Retention,   \* minutes a beat is kept, a whole number of days
  MaxCheck,    \* bound of the model: how long a check may take
  Plans,       \* bound of the model: the windows staff may enter, [from, to, excluded]
  MaxActs,     \* bound of the model: what staff do
  MaxTime,     \* bound of the model
  Zones,       \* time zones: by how many minutes their midnight is behind UTC's
  Serial,      \* write transactions exclude one another (SQLite, IMMEDIATE)
  None

ASSUME UptimeAssumption ==
  /\ DayLength \in Nat \ {0} /\ MaxTime \in Nat /\ MaxActs \in Nat /\ MaxCheck \in Nat
  /\ Retention \in Nat /\ Retention >= DayLength /\ MaxCheck < Retention
  /\ Plans \subseteq [from : Nat, to : Nat, excluded : BOOLEAN]
  /\ Serial \in BOOLEAN /\ Zones \subseteq Int
  /\ None \notin Nat /\ None \notin {"ok", "fail"}

VARIABLES
  now,
  beats,      \* the Heartbeat rows: minute -> "ok", "fail" or None
  daily,      \* the HeartbeatDaily rows
  epoch,      \* started_at of the HeartbeatEpoch row, or None
  windows,    \* the MaintenanceWindow rows
  run,        \* where each runner is
  acts,       \* what staff have done so far
  taken,      \* history: every beat as it was last recorded
  torn,       \* history: a fold ran beside another one, or beside a change by staff
  rescored    \* history: what a day with a summary is measured by was changed

vars == <<now, beats, daily, epoch, windows, run, acts, taken, torn, rescored>>

Times == 0..MaxTime
Day(m) == m \div DayLength
Days == 0..Day(MaxTime)
In(d) == {m \in Times : Day(m) = d}
Beat(m) == beats[m] # None
Idle == [pc |-> "idle", at |-> 0, ok |-> {}, fail |-> {}, out |-> {}]
NoRow == [there |-> FALSE, ok |-> 0, fail |-> 0, out |-> 0, expected |-> 0]
Goto(r, to) == run' = [run EXCEPT ![r] = to]

\* get_excluded_ranges merges overlapping windows: what is left is a set of minutes.
Excluded == UNION {{m \in Times : w.from <= m /\ m < w.to} : w \in {v \in windows : v.excluded}}

\* expected_intervals_for_day: a day owes the minutes that are over, since the epoch row,
\* outside excluded maintenance.
Expected(d) ==
  Cardinality({m \in In(d) : m < now /\ m \notin Excluded /\ (epoch = None \/ m >= epoch)})

\* With serialized transactions nobody writes while a fold is open.
MayWrite(r) == Serial => \A q \in Runners \ {r} : run[q].pc # "folding"
StaffMayWrite == Serial => \A q \in Runners : run[q].pc # "folding"
-----------------------------------------------------------------------------
(* A runner's minute *)

\* run_monitor_check takes the minute, then checks for as long as that takes.
StartCheck(r) ==
  /\ run[r].pc = "idle"
  /\ Goto(r, [Idle EXCEPT !.pc = "checking", !.at = now])
  /\ UNCHANGED <<now, beats, daily, epoch, windows, acts, taken, torn, rescored>>

\* update_or_create: the minute's row is made, or written over.
Record(r, status) ==
  /\ run[r].pc = "checking" /\ MayWrite(r)
  /\ beats' = [beats EXCEPT ![run[r].at] = status]
  /\ taken' = [taken EXCEPT ![run[r].at] = status]
  /\ Goto(r, [Idle EXCEPT !.pc = "recorded"])
  /\ UNCHANGED <<now, daily, epoch, windows, acts, torn, rescored>>

\* A day with a summary owes other minutes if the epoch moves to t.
Summarized(m) == daily[Day(m)].there
Rescores(t) == \E m \in Times : Summarized(m) /\ (m >= t) # (epoch = None \/ m >= epoch)

AnyRaw == \E m \in Times : Beat(m)
OldestRaw == Min({m \in Times : Beat(m)})

\* ensure_epoch, a statement of its own: where there is no epoch row, the oldest beat makes
\* it.  Until then the oldest beat is read for it.
EnsureEpoch(r) ==
  /\ run[r].pc = "recorded" /\ MayWrite(r)
  /\ IF epoch = None /\ AnyRaw
     THEN epoch' = OldestRaw /\ rescored' = (rescored \/ Rescores(OldestRaw))
     ELSE UNCHANGED <<epoch, rescored>>
  /\ Goto(r, Idle)
  /\ UNCHANGED <<now, beats, daily, windows, acts, taken, torn>>

\* _write_daily_summaries splits a batch at the borders of the excluded windows.
Split(old) ==
  [ok |-> {m \in old \ Excluded : beats[m] = "ok"},
   fail |-> {m \in old \ Excluded : beats[m] = "fail"},
   out |-> old \cap Excluded]

\* prune_old_heartbeats, after the monitors (this one may have been skipped): the clock is
\* some seconds past the minute, so a beat of exactly the retention's age is too old.
PruneRead(r) ==
  LET old == {m \in Times : Beat(m) /\ m + Retention <= now}
      s == Split(old)
  IN /\ run[r].pc = "idle" /\ MayWrite(r) /\ old # {}
     /\ Goto(r, [pc |-> "folding", at |-> now - Retention,
                 ok |-> s.ok, fail |-> s.fail, out |-> s.out])
     /\ torn' = (torn \/ \E q \in Runners \ {r} : run[q].pc = "folding")
     /\ UNCHANGED <<now, beats, daily, epoch, windows, acts, taken, rescored>>

\* Mutant: the summary is the batch.
FoldedAnew(r, d) ==
  [there |-> TRUE,
   ok |-> Cardinality(run[r].ok \cap In(d)),
   fail |-> Cardinality(run[r].fail \cap In(d)),
   out |-> Cardinality(run[r].out \cap In(d)),
   expected |-> Expected(d)]

\* The day's row with the runner's batch added to it.
Folded(r, d) ==
  [there |-> TRUE,
   ok |-> daily[d].ok + Cardinality(run[r].ok \cap In(d)),
   fail |-> daily[d].fail + Cardinality(run[r].fail \cap In(d)),
   out |-> daily[d].out + Cardinality(run[r].out \cap In(d)),
   expected |-> Expected(d)]

\* ... and everything older than the cutoff is deleted, in the same transaction.
PruneWrite(r) ==
  /\ run[r].pc = "folding"
  /\ daily' = [d \in Days |-> IF (run[r].ok \cup run[r].fail \cup run[r].out) \cap In(d) = {}
                              THEN daily[d] ELSE Folded(r, d)]
  /\ beats' = [m \in Times |-> IF m <= run[r].at THEN None ELSE beats[m]]
  /\ Goto(r, Idle)
  /\ UNCHANGED <<now, epoch, windows, acts, taken, torn, rescored>>

\* A killed runner's open transaction is rolled back.
Die(r) ==
  /\ run[r].pc # "idle"
  /\ Goto(r, Idle)
  /\ UNCHANGED <<now, beats, daily, epoch, windows, acts, taken, torn, rescored>>

Tick ==
  /\ now < MaxTime
  /\ \A r \in Runners : run[r].pc = "checking" => now - run[r].at < MaxCheck
  /\ now' = now + 1
  /\ UNCHANGED <<beats, daily, epoch, windows, run, acts, taken, torn, rescored>>
-----------------------------------------------------------------------------
(* Staff *)

\* What every change of the windows or the epoch has in common.
Act ==
  /\ acts < MaxActs /\ StaffMayWrite
  /\ acts' = acts + 1
  /\ torn' = (torn \/ \E r \in Runners : run[r].pc = "folding")
  /\ UNCHANGED <<now, beats, run, taken>>

\* maintenance_create, _edit and _delete, and the command's open_window.
ChangeWindows(new) ==
  /\ Act
  /\ windows' = new
  /\ rescored' = (rescored \/ \E m \in Times : Summarized(m) /\ (m \in Excluded) # (m \in Excluded'))
  /\ UNCHANGED <<daily, epoch>>

OpenWindow(w) == w \notin windows /\ ChangeWindows(windows \cup {w})
EditWindow(w, v) == w \in windows /\ v \notin windows /\ ChangeWindows((windows \ {w}) \cup {v})
DeleteWindow(w) == w \in windows /\ ChangeWindows(windows \ {w})

\* close_windows ends the windows that are active now.
CloseWindows ==
  LET active == {w \in windows : w.from <= now /\ now < w.to}
  IN active # {} /\ ChangeWindows((windows \ active) \cup {[w EXCEPT !.to = now] : w \in active})

\* HeartbeatEpoch.reset: the row is replaced, by one that starts whenever staff say.
ResetEpoch(t) ==
  /\ Act
  /\ epoch' = t
  /\ rescored' = (rescored \/ Rescores(t))
  /\ UNCHANGED <<daily, windows>>

\* heartbeat --reprorate: what every summarized day owes, counted again.
Reprorate ==
  /\ Act
  /\ daily' = [d \in Days |-> IF daily[d].there THEN [daily[d] EXCEPT !.expected = Expected(d)]
                              ELSE daily[d]]
  /\ UNCHANGED <<epoch, windows, rescored>>
-----------------------------------------------------------------------------
(* What the pages show *)

\* Mutant: a day with a summary is judged by the summary alone.
RawOf(d) == IF daily[d].there THEN {} ELSE {m \in In(d) : Beat(m)}

\* The beats of the day that are not folded yet.
Raw(d) == {m \in In(d) : Beat(m)}

\* _daily_uptime_map on a completed day: summary and raw beats added, over what the day
\* owes or what was observed, whichever is more.  A pair stands for the percentage.
DayUptime(d) ==
  LET raw == Raw(d) \ Excluded
      ok == daily[d].ok + Cardinality({m \in raw : beats[m] = "ok"})
      observed == daily[d].ok + daily[d].fail + Cardinality(raw)
      owed == IF observed > Expected(d) THEN observed ELSE Expected(d)
  IN IF (daily[d].there \/ Raw(d) # {}) /\ owed > 0 THEN <<ok, owed>> ELSE <<>>

\* The date in UTC of a time in a zone whose midnight comes z minutes after UTC's.
UTCDay(m, z) == (m + z) \div DayLength

\* Mutant: the day of the oldest beat is summed as well.
SummedDaysThrough(z) ==
  {d \in Days : /\ daily[d].there /\ d >= UTCDay(epoch, z)
                /\ IF AnyRaw THEN OldestRaw > epoch /\ d <= UTCDay(OldestRaw, z)
                   ELSE d <= UTCDay(now, z)}

\* _uptime_over_window since the epoch: the days whose summaries are used, found by dates
\* in UTC ...
SummedDays(z) ==
  {d \in Days : /\ daily[d].there /\ d >= UTCDay(epoch, z)
                /\ IF AnyRaw THEN OldestRaw > epoch /\ d < UTCDay(OldestRaw, z)
                   ELSE d <= UTCDay(now, z)}
\* ... and the minute from which raw beats are.
RawStart == IF ~AnyRaw THEN now ELSE IF OldestRaw > epoch THEN OldestRaw ELSE epoch

\* _calc_overall_uptime as <<ok, expected>> before they are divided; the raw beats include
\* the current minute's, what is owed does not.
Overall(z) ==
  <<MapThenSumSet(LAMBDA d : daily[d].ok, SummedDays(z))
      + Cardinality({m \in Times \ Excluded : m >= RawStart /\ AnyRaw /\ beats[m] = "ok"}),
    MapThenSumSet(LAMBDA d : daily[d].expected, SummedDays(z))
      + Cardinality({m \in Times \ Excluded : m >= RawStart /\ m < now})>>
-----------------------------------------------------------------------------
Init ==
  /\ now = 0 /\ epoch = None /\ windows = {} /\ acts = 0
  /\ beats = [m \in Times |-> None] /\ taken = [m \in Times |-> None]
  /\ daily = [d \in Days |-> NoRow]
  /\ run = [r \in Runners |-> Idle]
  /\ torn = FALSE /\ rescored = FALSE

RunnerStep(r) ==
  \/ StartCheck(r)
  \/ \E status \in {"ok", "fail"} : Record(r, status)
  \/ EnsureEpoch(r) \/ PruneRead(r) \/ PruneWrite(r) \/ Die(r)

StaffStep ==
  \/ \E w \in Plans : OpenWindow(w)
  \/ \E w \in windows : DeleteWindow(w) \/ \E v \in Plans : EditWindow(w, v)
  \/ CloseWindows \/ Reprorate
  \/ \E t \in 0..now : ResetEpoch(t)

Next == Tick \/ StaffStep \/ \E r \in Runners : RunnerStep(r)

Spec == Init /\ [][Next]_vars
-----------------------------------------------------------------------------
(* Properties *)

\* Every variable has its type, and no count of a day exceeds its minutes.
TypeOK ==
  /\ now \in Times /\ epoch \in Times \cup {None} /\ acts \in 0..MaxActs
  /\ beats \in [Times -> {"ok", "fail", None}] /\ taken \in [Times -> {"ok", "fail", None}]
  /\ daily \in [Days -> [there : BOOLEAN, ok : Nat, fail : Nat, out : Nat, expected : 0..DayLength]]
  /\ windows \subseteq [from : Nat, to : Nat, excluded : BOOLEAN]
  /\ \A r \in Runners :
       /\ run[r].pc \in {"idle", "checking", "recorded", "folding"}
       /\ run[r].at \in Times /\ run[r].ok \cup run[r].fail \cup run[r].out \subseteq Times
  /\ torn \in BOOLEAN /\ rescored \in BOOLEAN

\* However two runners, their deaths and the minute-by-minute folding interleave, every
\* beat ever recorded is counted once: it is either a row or one of its day's summary,
\* and none is in both.  A fold that runs beside another one is the exception, which
\* only a database that does not serialize write transactions allows.
BeatsCountedOnce ==
  /\ TypeOK
  /\ ~torn => \A d \in Days :
       daily[d].ok + daily[d].fail + daily[d].out + Cardinality(Raw(d))
         = Cardinality({m \in In(d) : taken[m] # None})

\* A completed day's uptime on the status page does not change while the day crosses the
\* retention boundary, a beat a minute: only a beat that comes in or an act of staff
\* changes it (the comments of services.py and status.py name three releases in which
\* it did).
FoldKeepsUptime ==
  [][~torn' /\ UNCHANGED <<now, windows, epoch, taken>>
     => \A d \in Days : d < Day(now) => DayUptime(d)' = DayUptime(d)]_vars

\* What the overall uptime has no information about: minutes older than every row, of a
\* day on which nothing was recorded, or of the day that is being folded.
Gap(m) ==
  /\ \A k \in Times : Beat(k) => m < k
  /\ \/ \A k \in In(Day(m)) : taken[k] = None
     \/ \E k \in In(Day(m)) : Beat(k)

\* The overall uptime against a count by hand over the minutes since the epoch, excluded
\* maintenance in neither term.  In every time zone no beat is counted twice at the
\* boundary between summaries and rows.  In UTC it is what the hand counts, but for the
\* gaps, which are in neither term.  West of UTC, where the code's dates of the boundary
\* are ahead of its days, minutes are owed twice, but never more than the zone is behind.
\* Two things undo this: what a day with a summary is measured by was changed, or the
\* epoch begins after beats of its day, which the summary counts and does not expect.
OverallByHand ==
  epoch # None /\ ~torn /\ ~rescored =>
    \A z \in Zones :
      (\A m \in Times : m < epoch /\ Day(m) >= UTCDay(epoch, z) => taken[m] = None)
        => LET since == {m \in Times \ Excluded : m >= epoch}
               known == {m \in since : ~Gap(m)}
               overall == Overall(z)
               good(s) == Cardinality({m \in s : taken[m] = "ok"})
               owed(s) == Cardinality({m \in s : m < now})
           IN /\ overall[1] <= good(since)
              /\ overall[2] <= owed(since) + (IF z > 0 THEN z ELSE 0)
              /\ z = 0 => overall = <<good(known), owed(known)>>
=============================================================================
