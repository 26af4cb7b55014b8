--------------------------- MODULE BackgroundJobs ---------------------------
(***************************************************************************)
(* One background task (src/legacy/poor_cli/task_manager.py,               *)
(* task_supervisor.py) or background agent (agent_runner.py) of the v5     *)
(* program: a row in SQLite, the commands that users' processes run on it, *)
(* and the worker processes that are started for it and write to the same  *)
(* row.                                                                    *)
(*                                                                         *)
(* No operation holds a lock from its read of the row to its write.  The   *)
(* code a process has left to execute is a sequence of instructions; it    *)
(* executes one per step.  A read that finds the row running and its       *)
(* worker gone first executes the reconciliation, and then reads again.    *)
(* A read by which nothing is decided, as the one that every operation     *)
(* returns, can change no more than a Poll, and is left out.               *)
(***************************************************************************)
EXTENDS Naturals, Sequences, FiniteSets

CONSTANTS
  Kinds,          \* what the row may be, a subset of {"task", "agent"}
  Users,          \* processes that run commands
  Servers,        \* those of them that need not end: the RPC server, `automation serve`
  MaxCommands,    \* bound on the commands that write
  MaxDeaths       \* bound on the processes that are killed

ASSUME JobsAssumption ==
  /\ Kinds \subseteq {"task", "agent"} /\ Users # {} /\ Servers \subseteq Users
  /\ MaxCommands \in Nat /\ MaxDeaths \in Nat
  /\ Users \cap (0..MaxCommands) = {} /\ "init" \notin Users

Pids   == 1..MaxCommands       \* a command starts at most one worker
Actors == Users \cup Pids

VARIABLES
  kind,           \* what the row is
  needsApproval,  \* its sandbox preset requires approval, and it is not auto-approved
  row,            \* the row: status, worker_pid, and whether approved_at is set
  code,           \* the instructions each process has left
  seen,           \* the row as each process read it, while it has a use for it
  child,          \* the worker each user's process has just started
  worker,         \* the state of each worker process
  parent,         \* the process that is to reap it
  commands, deaths,
  disturbed       \* two commands overlapped, or one was killed half-way

jobVars == <<row, code, seen, child, worker, parent>>
vars    == <<kind, needsApproval, jobVars, commands, deaths, disturbed>>

Terminal == {"completed", "failed", "cancelled"}
Status   == {"absent", "awaiting_approval", "queued", "running", "pruned"} \cup Terminal

NoRow == [status |-> "absent", pid |-> 0, approved |-> FALSE]

Init ==
  /\ kind \in Kinds /\ needsApproval \in (IF kind = "task" THEN BOOLEAN ELSE {FALSE})
  /\ row = [NoRow EXCEPT !.status = IF needsApproval THEN "awaiting_approval" ELSE "queued"]
  /\ code = [a \in Actors |-> <<>>] /\ seen = [a \in Actors |-> NoRow]
  /\ child = [u \in Users |-> 0]
  /\ worker = [p \in Pids |-> "none"] /\ parent = [p \in Pids |-> "init"]
  /\ commands = 0 /\ deaths = 0 /\ disturbed = FALSE

Launched == {p \in Pids : worker[p] # "none"}
Alive(p) == p \in Pids /\ worker[p] = "alive"

PidWasStarted(p) == p \in Launched

\* A process that ended stays in the process table until its parent reaps it, and
\* a signal 0 finds it there.
PidIsRunning(p) == p \in Pids /\ worker[p] \in {"alive", "zombie"}

\* The worker is no more: a zombie if the process that started it is still there.
Ended(p) == IF parent[p] = "init" THEN "gone" ELSE "zombie"

-----------------------------------------------------------------------------
(* The scripts.                                                            *)

Reconcile  == << "fail" >>
Start      == << "getStartable", "launch" >>
Spawned    == << "spawned" >>
NotSpawnedRuns == << "spawned" >>
NotSpawned == << "fail" >>
Approve    == << "getAwaiting", "queue" >>
CancelRowOnly == << "get", "cancel" >>
Delete     == << "delete" >>
Cancel     == << IF kind = "task" THEN "get" ELSE "getLive", "signal", "cancel" >>

Worker   == IF kind = "task" THEN << "getUncancelled", "mark", "work" >> ELSE << "work" >>
Complete == IF kind = "task" THEN << "complete", "finish" >> ELSE << "complete" >>
Fail     == << "fail" >>

Reads  == {"get", "getStartable", "getAwaiting", "getLive", "getUncancelled"}
Writes == {"queue", "spawned", "mark", "complete", "fail", "cancel", "delete"}
Instructions == Reads \cup Writes \cup {"check", "signal", "launch", "work", "finish"}

WantedAgain(i, r) ==
  CASE i = "getStartable"   -> r.status \in {"queued", "running"}
    [] i = "getAwaiting"    -> r.status = "awaiting_approval"
    [] i = "getLive"        -> r.status \in {"queued", "running"}
    [] i = "getUncancelled" -> r.status # "cancelled"
    [] OTHER                -> TRUE

WantedUnapproved(i, r) ==
  CASE i = "getStartable"   -> r.status \in {"queued", "awaiting_approval"}
    [] i = "getAwaiting"    -> r.status = "awaiting_approval"
    [] i = "getLive"        -> r.status \in {"queued", "running"}
    [] i = "getUncancelled" -> r.status # "cancelled"
    [] OTHER                -> TRUE

\* What a read goes on for; anything else returns.  (Only approving queues a task
\* that needs approval, so that start never has to send one back to wait.)
Wanted(i, r) ==
  CASE i = "getStartable"   -> r.status = "queued" /\ (needsApproval => r.approved)
    [] i = "getAwaiting"    -> r.status = "awaiting_approval"
    [] i = "getLive"        -> r.status \in {"queued", "running"}
    [] i = "getUncancelled" -> r.status # "cancelled"
    [] OTHER                -> TRUE

\* The status that each UPDATE of the row writes, and what a DELETE makes of it.
Becomes(i) ==
  CASE i = "queue"                 -> "queued"
    [] i \in {"spawned", "mark"}   -> "running"
    [] i = "complete"              -> "completed"
    [] i = "fail"                  -> "failed"
    [] i = "cancel"                -> "cancelled"
    [] i = "delete"                -> "pruned"

At(a, i) == code[a] # <<>> /\ Head(code[a]) = i
Then(a, c) == code' = [code EXCEPT ![a] = c]
Rest(a) == Tail(code[a])

\* Go on with c; what was read is kept for an instruction that uses it.
Keep(a, c, r) ==
  /\ Then(a, c)
  /\ seen' = [seen EXCEPT ![a] =
       IF c # <<>> /\ Head(c) \in {"check", "signal"} THEN r ELSE NoRow]

-----------------------------------------------------------------------------
(* One instruction.                                                        *)

\* get_task: the row is read; a running one has its worker's pid looked up next.
\* Nobody gets a row that does not exist: that raises.
Read(a) ==
  /\ code[a] # <<>> /\ Head(code[a]) \in Reads
  /\ Keep(a, IF row.status = "pruned" THEN <<>>
             ELSE IF row.status = "running" THEN <<"check">> \o code[a]
             ELSE IF Wanted(Head(code[a]), row) THEN Rest(a) ELSE <<>>, row)
  /\ UNCHANGED <<row, child, worker, parent>>

Check(a) ==
  /\ At(a, "check")
  /\ Keep(a, IF ~PidIsRunning(seen[a].pid) THEN Reconcile \o Rest(a)
             ELSE IF Wanted(Head(Rest(a)), seen[a]) THEN Tail(Rest(a)) ELSE <<>>, seen[a])
  /\ UNCHANGED <<row, child, worker, parent>>

\* The pid that each UPDATE writes; agents keep theirs.
PidWritten(a, i) ==
  CASE i = "spawned" -> child[a]
    [] i = "mark"    -> a
    [] i = "queue"   -> row.pid
    [] OTHER         -> IF kind = "task" THEN 0 ELSE row.pid

\* An UPDATE or a DELETE by the id alone, whatever the row has become since it was read.
Write(a) ==
  /\ code[a] # <<>> /\ Head(code[a]) \in Writes
  /\ row' = IF row.status = "pruned" THEN row
            ELSE LET i == Head(code[a]) IN
                 [row EXCEPT !.status = Becomes(i), !.pid = PidWritten(a, i),
                             !.approved = @ \/ i = "queue"]
  /\ Then(a, Rest(a))
  /\ child' = [u \in Users |-> IF u = a THEN 0 ELSE child[u]]
  /\ UNCHANGED <<seen, worker, parent>>

\* SIGTERM to the worker's group; a worker has no handler and ends at once.  (The
\* SIGKILL that the command line sends two seconds later finds nothing.)
Signal(u) ==
  /\ At(u, "signal")
  /\ LET p == seen[u].pid IN
     /\ worker' = IF Alive(p) THEN [worker EXCEPT ![p] = Ended(p)] ELSE worker
     /\ code' = [a \in Actors |-> IF a = u THEN Rest(u) ELSE IF a = p THEN <<>> ELSE code[a]]
     /\ seen' = [a \in Actors |-> IF a \in {u, p} THEN NoRow ELSE seen[a]]
  /\ UNCHANGED <<row, child, parent>>

\* Popen, which first reaps the children of earlier calls.
Launch(u) ==
  /\ At(u, "launch")
  /\ LET p == Cardinality(Launched) + 1
         Reaped(q) == worker[q] = "zombie" /\ parent[q] = u
     IN  /\ child' = [child EXCEPT ![u] = p]
         /\ worker' = [q \in Pids |-> IF q = p THEN "alive" ELSE IF Reaped(q) THEN "gone" ELSE worker[q]]
         /\ parent' = [q \in Pids |-> IF q = p THEN u ELSE IF Reaped(q) THEN "init" ELSE parent[q]]
         /\ code' = [code EXCEPT ![u] = Spawned, ![p] = Worker]
  /\ UNCHANGED <<row, seen>>

LaunchFails(u) ==
  /\ At(u, "launch") /\ Then(u, NotSpawned)
  /\ UNCHANGED <<row, seen, child, worker, parent>>

\* The worker's turn ends with a response, or raises.
Work(p) ==
  /\ At(p, "work")
  /\ Then(p, Complete) \/ Then(p, Fail)
  /\ UNCHANGED <<row, seen, child, worker, parent>>

\* After it has recorded the end a task's worker writes an event and runs hooks:
\* what raises there is caught as a failure of the task.
Finish(p) ==
  /\ At(p, "finish")
  /\ Then(p, <<>>) \/ Then(p, Fail)
  /\ UNCHANGED <<row, seen, child, worker, parent>>

Exits(p) ==
  /\ Alive(p) /\ code[p] = <<>>
  /\ worker' = [worker EXCEPT ![p] = Ended(p)]
  /\ UNCHANGED <<row, code, seen, child, parent>>

Step(a) ==
  /\ \/ Read(a) \/ Check(a) \/ Write(a)
     \/ a \in Users /\ (Signal(a) \/ Launch(a) \/ LaunchFails(a))
     \/ a \in Pids /\ (Work(a) \/ Finish(a) \/ Exits(a))
  /\ UNCHANGED <<kind, needsApproval, commands, deaths, disturbed>>

-----------------------------------------------------------------------------
(* Commands, and what happens to processes.                                *)

Idle(u) == code[u] = <<>>

Begin(u, c) ==
  /\ Idle(u) /\ Then(u, c)
  /\ UNCHANGED <<kind, needsApproval, row, seen, child, worker, parent, deaths>>

\* A user's process is in the middle of a command that writes; a start that failed has
\* still to record that.
Busy(u) ==
  \/ code[u] = NotSpawned
  \/ \E i \in DOMAIN code[u] : code[u][i] \in {"launch", "spawned", "queue", "signal", "cancel", "delete"}

Counted(u) ==
  /\ commands < MaxCommands /\ commands' = commands + 1
  /\ disturbed' = (disturbed \/ \E v \in Users \ {u} : Busy(v))

StartJob(u)  == Counted(u) /\ Begin(u, Start)
CancelJob(u) == Counted(u) /\ Begin(u, Cancel)

ApproveJob(u) ==
  /\ kind = "task" /\ Counted(u)
  /\ Begin(u, Approve \o Start) \/ Begin(u, Approve)

\* The SELECT finds the row by the status the user names, whichever that is; what it
\* found is deleted later.  (One that finds no row does nothing, and is left out.)
Prune(u) == kind = "task" /\ row.status # "pruned" /\ Counted(u) /\ Begin(u, Delete)

\* Listing, showing, and each turn of `--wait`; those that find no running row do
\* nothing, and are left out.
Poll(u) == row.status = "running" /\ UNCHANGED <<commands, disturbed>> /\ Begin(u, <<"get">>)

\* A command's process ends, and init reaps its children from then on.
Leaves(u) ==
  /\ worker' = [p \in Pids |-> IF parent[p] = u /\ worker[p] = "zombie" THEN "gone" ELSE worker[p]]
  /\ parent' = [p \in Pids |-> IF parent[p] = u THEN "init" ELSE parent[p]]

Exit(u) ==
  /\ Idle(u) /\ \E p \in Pids : parent[p] = u
  /\ Leaves(u)
  /\ UNCHANGED <<kind, needsApproval, row, code, seen, child, commands, deaths, disturbed>>

UserDies(u) ==
  /\ deaths < MaxDeaths /\ deaths' = deaths + 1
  /\ ~Idle(u) /\ Keep(u, <<>>, NoRow) /\ Leaves(u) /\ disturbed' = TRUE
  /\ child' = [child EXCEPT ![u] = 0]
  /\ UNCHANGED <<kind, needsApproval, row, commands>>

WorkerDies(p) ==
  /\ deaths < MaxDeaths /\ deaths' = deaths + 1
  /\ Alive(p) /\ Keep(p, <<>>, NoRow) /\ worker' = [worker EXCEPT ![p] = Ended(p)]
  /\ UNCHANGED <<kind, needsApproval, row, child, parent, commands, disturbed>>

Command(u) == StartJob(u) \/ ApproveJob(u) \/ CancelJob(u) \/ Prune(u)

Next ==
  \/ \E a \in Actors : Step(a)
  \/ \E u \in Users : Command(u) \/ Poll(u) \/ Exit(u) \/ UserDies(u)
  \/ \E p \in Pids : WorkerDies(p)

Spec == Init /\ [][Next]_vars

\* Processes are scheduled, a worker's turn ends (provider calls have timeouts),
\* somebody looks (`--wait` does so every second), and the process of a command
\* ends however often it looked, `--wait` at its timeout.  A server need not end, and
\* nobody has to give a command.
FairSpec ==
  /\ Spec
  /\ \A a \in Actors : WF_vars(Step(a))
  /\ WF_vars(\E u \in Users : Poll(u)) /\ \A u \in Users \ Servers : SF_vars(Exit(u))

-----------------------------------------------------------------------------
Row == [status : Status, pid : Pids \cup {0}, approved : BOOLEAN]

\* Every variable keeps to its values.
TypeOK ==
  /\ kind \in Kinds /\ needsApproval \in BOOLEAN /\ disturbed \in BOOLEAN
  /\ row \in Row /\ seen \in [Actors -> Row]
  /\ code \in [Actors -> Seq(Instructions)] /\ child \in [Users -> Pids \cup {0}]
  /\ worker \in [Pids -> {"none", "alive", "zombie", "gone"}]
  /\ parent \in [Pids -> Users \cup {"init"}]
  /\ commands \in 0..MaxCommands /\ deaths \in 0..MaxDeaths

\* No worker is ever started for a task whose preset requires approval before it is
\* approved, however commands overlap and wherever they die.
ApprovedFirst == needsApproval /\ Launched # {} => row.approved

\* A row that says running names a worker that was started for it, so that its end
\* can be noticed by whoever reads the row.
RunningHasWorker == row.status = "running" => row.pid \in Launched

\* Work is done once: a second worker is started only when two commands overlapped,
\* or one died between its Popen and its UPDATE.
OneWorker == ~disturbed => Cardinality(Launched) <= 1

\* A cancelled row has no worker that is still to do its work, unless commands overlapped or
\* one died: whatever the worker itself writes meanwhile, the pid is there to be
\* signalled.
AtWork(p) == Alive(p) /\ \E i \in DOMAIN code[p] : code[p][i] \in {"work", "complete"}
CancelStopsWork == ~disturbed /\ row.status = "cancelled" => \A p \in Pids : ~AtWork(p)

\* The worker that the row names was killed, and the server that started it has not
\* reaped it: a signal 0 finds it, until that server starts another process or ends.
Unreaped == row.pid \in Pids /\ worker[row.pid] = "zombie" /\ parent[row.pid] \in Servers

\* A running row does not stay so: its worker ends it, or is found dead, unless it is
\* the unreaped child of a server.
RunningEnds == row.status = "running" ~> row.status # "running" \/ Unreaped

\* What a worker completed stays completed until a user cancels or prunes it.
CompletedStays ==
  [][row.status = "completed" => row'.status \in {"completed", "cancelled", "pruned"}]_vars
=============================================================================
