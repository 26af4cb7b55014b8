---------------------------- MODULE RunLifecycle ----------------------------
(***************************************************************************)
(* What a run promises, whoever drives it: the statuses of the run and of  *)
(* its tasks as the database shows them.  Tasks are taken one at a time in *)
(* their order, each only after all earlier ones were done; the first      *)
(* failure ends the run; a status that ends the run is never left.  A run  *)
(* may stop anywhere: nothing resumes a run whose process is gone.         *)
(***************************************************************************)
EXTENDS Naturals

CONSTANT MaxTasks       \* bound on the tasks of a plan

VARIABLES status, task

lifecycle == <<status, task>>

Tasks == 1..MaxTasks

RunStatus  == {"absent", "created", "planned", "awaiting_confirmation", "cancelled",
               "running", "completed", "failed"}
TaskStatus == {"none", "pending", "assigned", "skipped", "completed", "failed"}
DoneTask   == {"completed", "skipped"}
EndedRun   == {"cancelled", "completed", "failed"}

Init == status = "absent" /\ task = [t \in Tasks |-> "none"]

Move(from, to) == status = from /\ status' = to /\ UNCHANGED task

Plan(n) ==
  /\ status = "created" /\ \A t \in Tasks : task[t] = "none"
  /\ task' = [t \in Tasks |-> IF t <= n THEN "pending" ELSE "none"]
  /\ UNCHANGED status

Assign(t) ==
  /\ status = "running" /\ task[t] = "pending"
  /\ \A u \in Tasks : u < t => task[u] \in DoneTask
  /\ task' = [task EXCEPT ![t] = "assigned"]
  /\ UNCHANGED status

Settle(t) ==
  /\ status = "running" /\ task[t] = "assigned"
  /\ \E s \in DoneTask \cup {"failed"} : task' = [task EXCEPT ![t] = s]
  /\ UNCHANGED status

Planned == task[1] = "pending" /\ Move("created", "planned")
NoPlan == (\A t \in Tasks : task[t] = "none") /\ Move("created", "failed")

Completes == (\A t \in Tasks : task[t] \in DoneTask \cup {"none"}) /\ Move("running", "completed")
Fails == (\E t \in Tasks : task[t] = "failed") /\ Move("running", "failed")

Next ==
  \/ Move("absent", "created") \/ Planned \/ NoPlan
  \/ Move("planned", "awaiting_confirmation") \/ Move("planned", "cancelled")
  \/ Move("planned", "running") \/ Completes \/ Fails
  \/ \E n \in Tasks : Plan(n)
  \/ \E t \in Tasks : Assign(t) \/ Settle(t)

Spec == Init /\ [][Next]_lifecycle

-----------------------------------------------------------------------------
\* The statuses are those the store knows.
TypeOK == status \in RunStatus /\ task \in [Tasks -> TaskStatus]

\* A task that was started found every earlier one done: so after a failure
\* nothing later is ever started.
InOrder ==
  \A t, u \in Tasks : u < t /\ task[t] \notin {"none", "pending"} => task[u] \in DoneTask

\* A completed run did all its tasks; a failed run has a failed task, or it
\* never had a plan.
OutcomeSound ==
  /\ status = "completed" => \A t \in Tasks : task[t] \in DoneTask \cup {"none"}
  /\ status = "failed" => (\E t \in Tasks : task[t] = "failed") \/ \A t \in Tasks : task[t] = "none"

\* Nothing starts before the run does, nothing moves once it has ended.
QuietOutside ==
  /\ status \notin {"running", "completed", "failed"} => \A t \in Tasks : task[t] \in {"none", "pending"}
  /\ status \in EndedRun => \A t \in Tasks : task[t] # "assigned"
=============================================================================
