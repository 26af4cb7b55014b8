---------------------------- MODULE Automations ----------------------------
(***************************************************************************)
(* The scheduled automations of the v5 program                             *)
(* (src/legacy/poor_cli/automation_manager.py): one row per automation,    *)
(* servers that look for due rows (`serve_forever`, and the RPC server's   *)
(* run_due), and users' processes that enable, disable and run one by      *)
(* hand.  What is launched is a task of BackgroundJobs.                    *)
(*                                                                         *)
(* An operation reads rows, creates tasks, and updates each row from what  *)
(* it read; nothing keeps two operations apart.  The clock ticks between   *)
(* any two steps, and the wall clock of a zone may be set back or forward. *)
(***************************************************************************)
EXTENDS Integers, Sequences, FiniteSets, FiniteSetsExt, Functions

CONSTANTS
  Autos,          \* the automations
  Servers,        \* processes that launch what is due
  Users,          \* processes that run commands
  Schedules,      \* the schedules the automations may have, functions on Autos
  Zones,          \* the zones, a subset of {"fixed", "fold", "gap"}
  DayTicks,       \* ticks of a day (the program's unit is a minute)
  WeekDays,       \* days of a week (7)
  Change,         \* the tick at which a zone's wall clock changes
  Shift,          \* the ticks by which it changes (60)
  MaxTime,        \* bound on the clock
  MaxCommands,    \* bound on users' commands
  MaxFailures     \* bound on the operations that raise or are killed

Interval(n)      == [kind |-> "interval", every |-> n]
Daily(h)         == [kind |-> "daily", hour |-> h]
Weekly(days, h)  == [kind |-> "weekly", days |-> days, hour |-> h]

\* An interval is positive, and a weekly schedule has a day.
Valid(s) ==
  \/ s.kind = "interval" /\ s = Interval(s.every) /\ s.every \in Nat \ {0}
  \/ s.kind = "daily" /\ s = Daily(s.hour) /\ s.hour \in 0..(DayTicks - 1)
  \/ /\ s.kind = "weekly" /\ s = Weekly(s.days, s.hour) /\ s.hour \in 0..(DayTicks - 1)
     /\ s.days \subseteq 0..(WeekDays - 1) /\ s.days # {}

ASSUME AutomationsAssumption ==
  /\ IsFiniteSet(Autos) /\ Servers \cap Users = {} /\ Zones \subseteq {"fixed", "fold", "gap"}
  /\ DayTicks \in Nat \ {0} /\ WeekDays \in Nat \ {0}
  /\ {Change, Shift, MaxTime, MaxCommands, MaxFailures} \subseteq Nat
  /\ Shift <= Change /\ Shift <= DayTicks
  /\ \A s \in Schedules : \A a \in Autos : Valid(s[a])

VARIABLES
  now,
  zone, schedule, \* of the automations: the zone of all, the schedule of each
  row,            \* enabled, next_run_at, and the moment next_run_at was computed from
  job,            \* the operation of each process
  fired,          \* the last moment for which a server launched each automation
  twice,          \* automations that were launched for that moment again, or for an earlier one
  overlapped,     \* automations on which two operations overlapped
  cut,            \* automations whose launch was cut off before its UPDATE
  commands, failures

fixed == <<zone, schedule>>
vars  == <<now, fixed, row, job, fired, twice, overlapped, cut, commands, failures>>

Procs == Servers \cup Users
Never == 0        \* next_run_at is NULL

-----------------------------------------------------------------------------
(* Zones and schedules.                                                    *)

\* The zone is ahead of UTC until its clock is set back, or once it has been set
\* forward.
Offset(z, t) == IF (z = "fold" /\ t < Change) \/ (z = "gap" /\ t >= Change) THEN Shift ELSE 0
Wall(z, t)   == t + Offset(z, t)

\* A wall time that comes twice is read as the first, or with fold as the second;
\* one that is skipped is read on the clock that was.
Utc(z, w, fold) ==
  LET ts == {t \in {w, w - Shift} : t >= 0 /\ Wall(z, t) = w}
  IN  IF ts = {} THEN w ELSE IF fold = 1 THEN Max(ts) ELSE Min(ts)

\* The second occurrence of a repeated wall time.
FoldOf(z, t) == IF z = "fold" /\ t \in Change..(Change + Shift - 1) THEN 1 ELSE 0

OnDay(s, d) == d * DayTicks + s.hour
DayOf(w)    == w \div DayTicks

NextDayInclusive(s, z, t) ==
  LET w == Wall(z, t)
      today == OnDay(s, DayOf(w))
  IN  IF today < w THEN Utc(z, today + DayTicks, 0) ELSE Utc(z, today, FoldOf(z, t))

\* candidate <= current_local compares wall times; replace() keeps the fold, and the
\* sum with a timedelta drops it.
NextDay(s, z, t) ==
  LET w == Wall(z, t)
      today == OnDay(s, DayOf(w))
  IN  IF today <= w THEN Utc(z, today + DayTicks, 0) ELSE Utc(z, today, FoldOf(z, t))

\* The first of the coming days, today and two weeks on, that is one of the
\* schedule's and whose moment is later by the wall clock; the fold is dropped.
NextWeekday(s, z, t) ==
  LET w == Wall(z, t)
      later == {d \in DayOf(w)..(DayOf(w) + 2 * WeekDays) :
                  d % WeekDays \in s.days /\ OnDay(s, d) > w}
  IN  Utc(z, OnDay(s, Min(later)), 0)

next_run_after(s, z, t) ==
  CASE s.kind = "interval" -> t + s.every
    [] s.kind = "daily"    -> NextDay(s, z, t)
    [] s.kind = "weekly"   -> NextWeekday(s, z, t)

NextRun(a, t) == next_run_after(schedule[a], zone, t)

-----------------------------------------------------------------------------
Idle  == [step |-> "idle", todo |-> <<>>, read |-> <<>>, at |-> 0]
Ended == [Idle EXCEPT !.step = "ended"]

\* The row of an automation that was created at the start.
Created(a, on) == [enabled |-> on, next |-> IF on THEN NextRun(a, 0) ELSE Never, from |-> 0]

Init ==
  /\ now = 0 /\ zone \in Zones /\ schedule \in Schedules
  /\ \E on \in SUBSET Autos : row = [a \in Autos |-> Created(a, a \in on)]
  /\ job = [p \in Procs |-> Idle]
  /\ fired = [a \in Autos |-> Never] /\ twice = {} /\ overlapped = {} /\ cut = {}
  /\ commands = 0 /\ failures = 0

InHand(p) == Range(job[p].todo)

\* An operation on the automations as begins: it has what it read, and takes the
\* time.
Begin(p, step, as, read) ==
  /\ job[p] = Idle
  /\ job' = [job EXCEPT ![p] = [step |-> step, todo |-> as, read |-> read, at |-> now]]
  /\ overlapped' = overlapped \cup (Range(as) \cap UNION {InHand(q) : q \in Procs \ {p}})

\* A task is created, by a server for the moment that the row showed it.
Launches(p, a) ==
  /\ twice' = IF p \in Servers /\ job[p].read[a].next <= fired[a] THEN twice \cup {a} ELSE twice
  /\ fired' = IF p \in Servers THEN [fired EXCEPT ![a] = job[p].read[a].next] ELSE fired

Goes(p, next) == job' = [job EXCEPT ![p] = next]

-----------------------------------------------------------------------------
(* set_enabled, by users.                                                  *)

Command(u) ==
  /\ commands < MaxCommands /\ commands' = commands + 1
  /\ \E a \in Autos :
       \/ \E on \in BOOLEAN : Begin(u, "set", <<a>>, [x \in {a} |-> [row[a] EXCEPT !.enabled = on]])
       \/ Begin(u, "create", <<a>>, [x \in {a} |-> row[a]])     \* run_now, replay
  /\ UNCHANGED <<now, fixed, row, fired, twice, cut, failures>>

SetEnabledOnly(u) ==
  /\ job[u].step = "set"
  /\ LET a == Head(job[u].todo) IN row' = [row EXCEPT ![a].enabled = job[u].read[a].enabled]
  /\ Goes(u, Idle)
  /\ UNCHANGED <<now, fixed, fired, twice, overlapped, cut, commands, failures>>

\* The UPDATE of a row: the schedule goes on from the time the operation took, if
\* the record it has is enabled.
Rescheduled(p, a) ==
  [enabled |-> row[a].enabled, from |-> job[p].at,
   next |-> IF job[p].read[a].enabled THEN NextRun(a, job[p].at) ELSE Never]

SetEnabled(u) ==
  /\ job[u].step = "set"
  /\ LET a == Head(job[u].todo)
     IN  row' = [row EXCEPT ![a] = [Rescheduled(u, a) EXCEPT !.enabled = job[u].read[a].enabled]]
  /\ Goes(u, Idle)
  /\ UNCHANGED <<now, fixed, fired, twice, overlapped, cut, commands, failures>>

-----------------------------------------------------------------------------
(* run_due, by servers, and what it shares with run_now: _launch_task.     *)

DueAtTheTick(a) == row[a].enabled /\ row[a].next # Never /\ row[a].next = now
Due(a) == row[a].enabled /\ row[a].next # Never /\ row[a].next <= now

\* ORDER BY next_run_at.
Ordered(as) ==
  {s \in [1..Cardinality(as) -> as] :
     Range(s) = as /\ \A i, j \in DOMAIN s : i < j => row[s[i]].next <= row[s[j]].next}

\* A pass that finds nothing does nothing.
RunDue(s) ==
  /\ LET due == {a \in Autos : Due(a)}
     IN  due # {} /\ \E as \in Ordered(due) : Begin(s, "create", as, [a \in due |-> row[a]])
  /\ UNCHANGED <<now, fixed, row, fired, twice, cut, commands, failures>>

CreateTask(p) ==
  /\ job[p].step = "create" /\ Launches(p, Head(job[p].todo))
  /\ Goes(p, [job[p] EXCEPT !.step = "update"])
  /\ UNCHANGED <<now, fixed, row, overlapped, cut, commands, failures>>

OnwardCreates(p) == [job[p] EXCEPT !.step = "create", !.todo = Tail(@)]

\* The next automation of the pass, or its end.
Onward(p) ==
  IF Len(job[p].todo) = 1 THEN Idle
  ELSE [job[p] EXCEPT !.step = "create", !.todo = Tail(@)]

UpdateKeepsNext(p) ==
  /\ job[p].step = "update"
  /\ LET a == Head(job[p].todo) IN row' = [row EXCEPT ![a].from = job[p].at]
  /\ Goes(p, Onward(p))
  /\ UNCHANGED <<now, fixed, fired, twice, overlapped, cut, commands, failures>>

Update(p) ==
  /\ job[p].step = "update"
  /\ LET a == Head(job[p].todo) IN row' = [row EXCEPT ![a] = Rescheduled(p, a)]
  /\ Goes(p, Onward(p))
  /\ UNCHANGED <<now, fixed, fired, twice, overlapped, cut, commands, failures>>

\* create_task raises, before the task is there or after it, or the process is
\* killed.  Nothing catches it: a user's command is over, and so is serve_forever.
\* (A set_enabled that is killed before its UPDATE has done nothing.)
Fails(p) ==
  /\ failures < MaxFailures /\ failures' = failures + 1
  /\ job[p].step \in {"create", "update"}
  /\ cut' = IF job[p].step = "update" THEN cut \cup {Head(job[p].todo)} ELSE cut
  /\ Goes(p, IF p \in Servers THEN Ended ELSE Idle)
  /\ UNCHANGED <<now, fixed, row, fired, twice, overlapped, commands>>

\* Somebody starts the server again.
Restart(s) ==
  /\ job[s] = Ended /\ Goes(s, Idle)
  /\ UNCHANGED <<now, fixed, row, fired, twice, overlapped, cut, commands, failures>>

Tick ==
  /\ now < MaxTime /\ now' = now + 1
  /\ UNCHANGED <<fixed, row, job, fired, twice, overlapped, cut, commands, failures>>

Serve(s) == RunDue(s) \/ CreateTask(s) \/ Update(s)

Next ==
  \/ Tick
  \/ \E u \in Users : Command(u) \/ SetEnabled(u) \/ CreateTask(u) \/ Update(u) \/ Fails(u)
  \/ \E s \in Servers : Serve(s) \/ Fails(s) \/ Restart(s)

Spec == Init /\ [][Next]_vars

\* Time passes, and a server that runs polls and goes on.  Nobody has to start it
\* again, and users' commands are not fair.
FairSpec == Spec /\ WF_vars(Tick) /\ \A s \in Servers : WF_vars(Serve(s))

-----------------------------------------------------------------------------
\* The wall times of a schedule.
IsWallOf(s, w) == w % DayTicks = s.hour /\ (s.kind = "weekly" => DayOf(w) % WeekDays \in s.days)

\* Where the fold is dropped, a next run in the hour that is repeated may lie in the
\* past: that of a weekly schedule, and of a daily one if that hour passes midnight.
Steady(a) ==
  LET s == schedule[a] IN
  zone = "fold" /\ s.kind # "interval" =>
    \A w \in (Change + 1)..(Change + Shift - 1) :
      IsWallOf(s, w) => s.kind = "daily" /\ DayOf(w) = DayOf(Change)

Row == [enabled : BOOLEAN, next : Nat, from : Nat]

\* Every variable keeps to its values: a process has automations in hand while it is
\* in an operation, with what it read of each.
TypeOK ==
  /\ now \in 0..MaxTime /\ zone \in Zones /\ schedule \in Schedules
  /\ row \in [Autos -> Row] /\ fired \in [Autos -> Nat]
  /\ twice \subseteq Autos /\ overlapped \subseteq Autos /\ cut \subseteq Autos
  /\ commands \in 0..MaxCommands /\ failures \in 0..MaxFailures
  /\ \A p \in Procs :
       /\ job[p].step \in {"idle", "create", "update", "set", "ended"}
       /\ job[p].step \in {"create", "update", "set"} <=> job[p].todo # <<>>
       /\ Range(job[p].todo) \subseteq DOMAIN job[p].read
       /\ \A a \in DOMAIN job[p].read : a \in Autos /\ job[p].read[a] \in Row

\* The next run of an automation is after the time it was computed from, and is its
\* schedule's first: no wall time of the schedule between is left out, but one that the
\* wall clock had passed already.
NextIsFirst ==
  \A a \in Autos :
    LET s == schedule[a]
        from == row[a].from
        next == row[a].next
        walls == {w \in 0..(next + Shift) : IsWallOf(s, w)}
    IN  next # Never /\ Steady(a) =>
          /\ from < next
          /\ s.kind # "interval" =>
               /\ \E w \in walls : \E fold \in {0, 1} : next = Utc(zone, w, fold)
               /\ \A w \in walls : \A fold \in {0, 1} :
                    from < Utc(zone, w, fold) /\ Utc(zone, w, fold) < next => w <= Wall(zone, from)

\* An automation that is enabled has a next run, unless two operations on it
\* overlapped: else it is enabled and never runs again.
EnabledIsScheduled == \A a \in Autos \ overlapped : row[a].enabled => row[a].next # Never

\* Servers launch an automation at most once for each moment, and in their order,
\* unless two operations on it overlapped or one was cut off between the task and the UPDATE.
LaunchedOnce == \A a \in twice : a \in overlapped \cup cut \/ ~Steady(a)

\* What is overdue is launched and moved on, by a server that runs.
Overdue(a) == row[a].enabled /\ row[a].next \in 1..now
DueIsLaunched ==
  \A a \in Autos : Overdue(a) ~> ~Overdue(a) \/ \A s \in Servers : job[s].step = "ended"
=============================================================================
