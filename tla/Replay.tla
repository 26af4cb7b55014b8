------------------------------- MODULE Replay -------------------------------
(***************************************************************************)
(* `poor-cli replay` and the TUI's transcript                              *)
(* (src/src/poor_cli/replay.py:replay_summary): the statuses of a run and  *)
(* of its tasks computed from the run's events alone, beside the rows that *)
(* Orchestrator keeps of the same run.  A reader may replay a run at any   *)
(* moment, of a process at work as well as of a dead one, so everything    *)
(* here is about every state of Orchestrator.                              *)
(***************************************************************************)
EXTENDS Orchestrator, FiniteSetsExt

\* What the types of events tell of the run, and of the task they are about.
RunTold == [type \in {"plan.created", "run.completed", "run.failed", "run.cancelled"} |->
  CASE type = "plan.created"  -> "planned"
    [] type = "run.completed" -> "completed"
    [] type = "run.failed"    -> "failed"
    [] type = "run.cancelled" -> "cancelled"]

TaskTold == [type \in {"task.assigned", "task.completed", "task.failed", "task.skipped"} |->
  CASE type = "task.assigned"  -> "assigned"
    [] type = "task.completed" -> "completed"
    [] type = "task.failed"    -> "failed"
    [] type = "task.skipped"   -> "skipped"]

\* Where the events tell the status of the run, or of task t.
TellsRun     == {i \in DOMAIN events : events[i][1] \in DOMAIN RunTold}
TellsTask(t) == {i \in DOMAIN events : events[i][1] \in DOMAIN TaskTold /\ events[i][2] = t}

\* The loop over the events assigns whatever each tells, so the last one stays.
LastTold(tells, told, none) == IF tells = {} THEN none ELSE told[events[Max(tells)][1]]

ReplayedStatus  == LastTold(TellsRun, RunTold, "created")
ReplayedTask(t) == LastTold(TellsTask(t), TaskTold, "pending")

TaskRows == {t \in Tasks : task[t] # "none"}    \* replay lists the tasks of the table

-----------------------------------------------------------------------------
\* No event says "awaiting confirmation" or "running": replay shows such a run as
\* planned, which is what it shows best.
Visible(s) == CASE s = "absent" -> "created"
                [] s \in {"awaiting_confirmation", "running"} -> "planned"
                [] OTHER -> s

\* What replay tells is in the store.  That a run is completed, failed or cancelled, or
\* a task settled or assigned, it tells only when the row does.  That a run is planned it
\* tells before the row does, and for good if the process dies between: its plan is kept
\* then and all its tasks have rows, and until the run's row follows none of them moves.
PlanKept == {<<"plan.json", 0>>, <<"artifact.plan.json", 0>>, <<"artifact.plan.md", 0>>}

ReplayBacked ==
  /\ ReplayedStatus \in Lifecycle!EndedRun => status = ReplayedStatus
  /\ \A t \in TaskRows :
       /\ ReplayedTask(t) \in {"completed", "failed", "skipped"} => task[t] = ReplayedTask(t)
       /\ ReplayedTask(t) = "assigned" => task[t] # "pending"
  /\ ReplayedStatus = "planned" =>
       /\ PlanKept \subseteq artifacts /\ TaskRows = 1..count
       /\ status = "created" => \A t \in TaskRows : task[t] = "pending"

\* Replay and the rows differ in at most one status, of the run or of one task, whichever
\* of the two is ahead: a process that dies anywhere leaves no more between them.
DifferInOne ==
  LET run   == IF ReplayedStatus = Visible(status) THEN 0 ELSE 1
      tasks == {t \in TaskRows : ReplayedTask(t) # task[t]}
  IN  run + Cardinality(tasks) <= 1

\* A command that returned left events from which replay computes the rows.
ReplayAgreesAtReturn ==
  ended = "returned" =>
    ReplayedStatus = status /\ \A t \in TaskRows : ReplayedTask(t) = task[t]

\* What replay tells is in the store, at most one status of it differs from the rows, and
\* none after a command that returned.
ReplayFaithful == ReplayBacked /\ DifferInOne /\ ReplayAgreesAtReturn

\* "poor-cli replay: reconstruct orchestration state from events": replay computes
\* the row of every run whose command ended by itself, with a result or an error.
ReplayReconstructs == ended \in {"returned", "raised"} => ReplayedStatus = status
=============================================================================
